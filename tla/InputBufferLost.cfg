SPECIFICATION Spec
CONSTANTS
    a = a
    b = b
    Letter <- MCLetter
    Backspace = Backspace
    Newline = Newline
    Nul = Nul
    NumNodes = 4
    MaxLen = 2
    MaxKeys = 3
    UninitLock <- FreeLock
INVARIANT NoKeyLost
