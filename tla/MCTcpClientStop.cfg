SPECIFICATION FairSpec
CONSTANTS
    Connects = 1
    Stops = 1
    Toggles = 1
    Quota <- MCQuota
PROPERTIES StopIsFinal
CHECK_DEADLOCK FALSE
