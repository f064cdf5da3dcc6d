SPECIFICATION Spec
CONSTANTS
    SectorSize = 2
    Sectors = 2
    Blank = "a"
    Byte = {"b"}
INVARIANTS
    ReadsTheDisk
PROPERTIES
    WritesWhatWasAsked
    FunctionsReturn
CHECK_DEADLOCK FALSE
