SPECIFICATION FairSpec
CONSTANTS
    t1 = t1
    t2 = t2
    loop = loop
    Threads <- MCThreads
    LoopThread = loop
    Quota <- MCQuota
    BatchLimit = 1
    Debug = TRUE
INVARIANTS LoopAssertsHold StallOnlyAfterPendingSkip QuitIsSignalled
PROPERTIES ImplementsExecutor QuitTerminates QueueIsServed
CHECK_DEADLOCK FALSE
