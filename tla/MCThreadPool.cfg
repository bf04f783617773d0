SPECIFICATION FairSpec
CONSTANTS
    a = a
    b = b
    d = d
    None = None
    PlainTasks <- MCPlain
    DepTasks <- MCDep
    Rank <- MCRank
    MinThreads = 1
    MaxThreads = 2
    Capacity = 1
    GrowLimit = 0
    DepCalls = 2
    Debug = FALSE
INVARIANTS NoTaskLostOrDuplicated DependenciesRespected
PROPERTIES TaskRuns ShutdownReturns
CHECK_DEADLOCK FALSE
