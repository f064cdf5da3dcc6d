SPECIFICATION MCFairSpec
CONSTANTS
    s1 = s1
    s2 = s2
    r1 = r1
    r2 = r2
    r3 = r3
    NoProc = NoProc
    Pid <- MCPid
    SystemPid <- MCSystemPid
INVARIANTS
    SchedTypeOK
    QueuesPartitionLive
    OvertakenAtMostOnce
PROPERTIES
    ImplementsAbstract
    EligibleProcessesRun
