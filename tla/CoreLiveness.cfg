CONSTANTS
    ROB_ENTRIES = 4
    DQ_ENTRIES = 2
    Program <- LiveMix
    EntryPC = 1
    ExternIrq = {FALSE}
SPECIFICATION LiveSpec
INVARIANTS HostSeesMemory
PROPERTIES KeepsRetiring
