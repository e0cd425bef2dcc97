SPECIFICATION Spec
CONSTANTS
    ByteBits = 3
    EL = FALSE
    Fpu <- ToyFpu
    HostBytes <- Name
    ArgWords <- Words
    MARGS = 1
    Images <- AllImages
    MaxIcnt = 16
    MemLat = 1
    RetireLimit = 4
    LineBytes = 16
    BootPc = 2048
    IDT_MONITOR_BASE = 1024
    IDT_MONITOR_SIZE = 512
    MaxIdle = 1
    HostResults <- Results
    NReg = 4
INVARIANTS TypeOK BootRestores NoFalseAlarm Lockstep
PROPERTIES WatchdogEnds
CHECK_DEADLOCK FALSE
