\* Eight registers: an even bank of three cannot be filled by two mappings.
SPECIFICATION BankSpec
CONSTANTS
    N_PRF_ENTRIES = 8
    NoReg = NoReg
    LREG <- MCLREG
    PREG <- MCPREG
    Pool <- MCPool
    ResetRat <- MCResetRat
    SinglePort = {}
    ROB_ENTRIES = 3
PROPERTIES ImplementsRename
