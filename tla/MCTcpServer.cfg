SPECIFICATION FairSpec
CONSTANTS
    a1 = a1
    a2 = a2
    w1 = w1
    w2 = w2
    Acceptors <- MCAcceptors
    Workers <- MCWorkers
    c1 = c1
    c2 = c2
    c3 = c3
    Clients = {c1, c2, c3}
    Arrivals <- MCArrivals
    MaxLost = 1
INVARIANTS FaultsOnlyInWindow DroppedOnlyAfterReuseOrLoss
PROPERTIES ClientsComplete
CHECK_DEADLOCK FALSE
