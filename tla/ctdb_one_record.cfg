SPECIFICATION FairSpec
CONSTANTS
    L = L  A = A  B = B
    c1 = c1  c2 = c2  c3 = c3
    k1 = k1
    None = None
    Node = {L, A, B}
    Key = {k1}
    Client = {c1, c2, c3}
    NodeOf <- NodesABA
    Wants <- WantAll
    Lmaster <- LmasterL
    FirstDmaster <- FirstA
    ReqId = {1, 2}
    ClientOps <- AllOps
    Mortal = {}
    MaxLacount = 1
    MaxRedirect = 2
    MaxOps = 1
    MaxTimeouts = 0
    MaxLosses = 0
CHECK_DEADLOCK FALSE
INVARIANTS
    TypeOK
    HolderIsDmaster
    NeverFatal
    CallInv
PROPERTIES
    ImplementsRecord
    OperationReturns
