SPECIFICATION Spec
CONSTANTS
    Vectors = {v, w}
    Names <- MCNames
    NumChunks = 22
    FASTBIN_THRESHOLD = 2
    CHUNK_SIZE_ALIGN = 2
    ElementSize = 2
    Cookie = 1
    MaxCalls = 6
SYMMETRY VectorSymmetry
INVARIANTS
    HoldsWhatWasPushed
    OwnedOnce
    OverrunsInKnownWays
CHECK_DEADLOCK FALSE
