SPECIFICATION MCSpec
CONSTANTS
    prepend_size = 1
    initial_size = 3
    Zero = Zero
    FrameLens <- MCFrameLens
    MaxLength = 2
    MAX_MESSAGE_SIZE = 5
    Asserts = TRUE
    Requests <- MCRequests
    RespLen = 1
    HttpDebug = TRUE
INVARIANTS FramesIntact RequestsIntact ResponsesMatched
CHECK_DEADLOCK FALSE
