SPECIFICATION FairSpec
CONSTANTS
    a = a
    b = b
    Letter <- MCLetter
    Backspace = Backspace
    Newline = Newline
    Nul = Nul
    NumNodes = 3
    MaxLen = 2
    MaxKeys = 4
    UninitLock <- AnyLock
INVARIANTS
    ListIsAllocated
    KeptKeysInOrder
    EditedPrefix
PROPERTY
    KeysAreRead
