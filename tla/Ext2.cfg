SPECIFICATION Spec
CONSTANTS
    MAX_FILES = 8
    Descriptors <- MCDescriptors
    Cells = 152
    MaxMounts = 3
INVARIANTS
    MarksLeadInodes
    FilesAreOnDisk
    EntriesIntact
PROPERTIES
    GroupsStay
CHECK_DEADLOCK FALSE
