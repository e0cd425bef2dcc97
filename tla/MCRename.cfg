\* Four physical registers for two logical ones: with two writers in flight the
\* free list is empty, and a retirement in the same clock must not help.
SPECIFICATION Spec
CONSTANTS
    l1 = l1
    l2 = l2
    hilo = hilo
    g1 = g1
    g2 = g2
    g3 = g3
    g4 = g4
    h1 = h1
    h2 = h2
    NoReg = NoReg
    LREG <- MCLREG
    PREG <- MCPREG
    Pool <- MCPool
    ResetRat <- MCResetRat
    SinglePort <- MCSinglePort
    ROB_ENTRIES = 3
INVARIANTS
    TypeOK
    Partition
    YoungestWriter
    SourcesIntact
    RecoverySound
SYMMETRY FreeAtReset
