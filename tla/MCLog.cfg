SPECIFICATION MCSpec
CONSTANTS
    t1 = t1
    t2 = t2
    t3 = t3
    Threads <- MCThreads
    Nobody = Nobody
    RollLines = 1
    MaxLogged = 2
    Callers <- MCCallers
    BufferSize_ = 1
    MaxLines = 3
INVARIANTS HandOver AppendsDurable LinesInOrder
PROPERTIES DestructorReturns
CHECK_DEADLOCK FALSE
