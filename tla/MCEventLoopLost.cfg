SPECIFICATION Spec
CONSTANTS
    t1 = t1
    t2 = t2
    loop = loop
    Threads <- MCThreads
    LoopThread = loop
    Quota <- MCQuota
    BatchLimit = 1
    Debug = TRUE
INVARIANT NoTaskLost
CHECK_DEADLOCK FALSE
