SPECIFICATION Spec
CONSTANTS
    NumFrames = 85
    PageSize = 8
    TableSize = 4
    NumTables = 6
    KernelPages = 8
    KernelStack <- MCKernelStack
    ProcessStack <- MCProcessStack
    Heap <- MCHeap
    EndOfKernel = 5
    MaxProcesses = 7
INVARIANTS
    FramesNotShared
    KernelOneToOne
    Isolated
    BlocksDisjoint
    PanicsForWantOfFrames
PROPERTIES
    MappingsStay
