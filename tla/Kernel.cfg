SPECIFICATION FairSpec
CONSTANTS
    NoProc = NoProc
    MaxKeys = 4
    WordSize = 16
    UninitPid <- MCUninitPid
    Pid <- MCPid
    SystemPid <- MCSystemPid
INVARIANTS
    CpuAgrees
    ResumesWhereInterrupted
    LostOnlyInKnownWays
PROPERTIES
    TerminatedStops
    LiveProcessesRun
    ShellServesInput
