CONSTANTS
    ROB_ENTRIES = 4
    DQ_ENTRIES = 2
    Program <- Interrupts
    EntryPC = 1
    ExternIrq = {FALSE, TRUE}
SPECIFICATION Spec
VIEW FromHead
INVARIANTS TypeOK CosimMatches NoStaleCompletion HeadIsLive PathIntact
