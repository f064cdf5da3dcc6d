SPECIFICATION Spec
CONSTANTS
    BinSize = 2
    Sizes <- MCSizes
    MaxCalls = 5
INVARIANTS
    DisjointUntilDrained
    BlocksStayListed
