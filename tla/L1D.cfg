CONSTANTS
    L1D_NUM_SETS = 3
    Tags = {"a", "b"}
    Words = {0, 1}
    N_MRQ = 3
    N_MQ = 2
    N_ROB = 4
    Programs <- MCPrograms
    MaxSquash = 1
SPECIFICATION Spec
INVARIANTS TypeOK LoadsCurrent AnsweredOnce PortTwoClear FlushedIsCurrent OrderAssertions
PROPERTY Finishes
