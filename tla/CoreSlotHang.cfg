CONSTANTS
    ROB_ENTRIES = 4
    DQ_ENTRIES = 2
    Program <- SlotTaken
    EntryPC = 1
    ExternIrq = {FALSE}
SPECIFICATION LiveSpec
PROPERTIES KeepsRetiring
