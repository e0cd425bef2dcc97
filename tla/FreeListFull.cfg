\* Six registers, twice the logical ones with r0, as in the design (64 and 32).
SPECIFICATION BankSpec
CONSTANTS
    N_PRF_ENTRIES = 6
    NoReg = NoReg
    LREG <- MCLREG
    PREG <- MCPREG
    Pool <- MCPool
    ResetRat <- MCResetRat
    SinglePort = {}
    ROB_ENTRIES = 3
INVARIANTS HasRegister
