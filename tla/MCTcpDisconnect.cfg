SPECIFICATION FairSpec
CONSTANTS
    t1 = t1
    loop = loop
    Threads <- MCThreads
    LoopThread = loop
    EventChoices <- MCEvents
    Calls <- MCCalls
    MsgLen = 2
    SendRoom = 2
    MaxInbound = 1
    MaxReadNum = 1
    BatchLimit = 2

PROPERTY DisconnectShutsWrite
CHECK_DEADLOCK FALSE
