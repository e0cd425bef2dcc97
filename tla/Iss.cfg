SPECIFICATION Spec
CONSTANTS
    ByteBits = 2
    EL = FALSE
    Fpu <- ToyFpu
    HostBytes <- Bytes
    ArgWords <- Words
    MARGS = 1
    Tests <- AllTests
    MaxIcnt = 3
    HostResults <- Results
INVARIANTS TypeOK UnalignedPair
PROPERTIES ImplementsDelaySlot HiLoExact Agree64
CHECK_DEADLOCK FALSE
