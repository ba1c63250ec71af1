SPECIFICATION FairSpec
CONSTANTS
    p1 = p1  p2 = p2  p3 = p3
    Proc = {p1, p2, p3}
    Cap = 1
    Tries = 1
    Call = {1, 2}
    MaxPing = 1
    Peers <- ToBusy
    Callers <- ToServers
    Mortal = {p2}
    Busy = {p3}
CHECK_DEADLOCK FALSE
INVARIANTS
    TypeOK
    QueuesWatched
    InOrder
    OwnAnswer
PROPERTIES
    Returns
    Delivered
