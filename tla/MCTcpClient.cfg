SPECIFICATION FairSpec
CONSTANTS
    Connects = 3
    Stops = 2
    Toggles = 2
    Quota <- MCQuota
INVARIANTS SocketsOwned HandlerSurvivesCallback
PROPERTIES RetryReconnects
CHECK_DEADLOCK FALSE
