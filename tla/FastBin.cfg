SPECIFICATION FastBinSpec
CONSTANTS
    NumChunks = 16
    FastIds = 2
    UninitPid = {0, 2, 3}
    MaxLines = 3
INVARIANTS
    ExclusiveUntilRaced
    NoChunkLeaked
