SPECIFICATION Spec
CONSTANTS
    L = L  A = A  B = B
    c1 = c1  c2 = c2  c3 = c3
    k1 = k1
    None = None
    Node = {L, A, B}
    Key = {k1}
    Client = {c1, c2, c3}
    NodeOf <- NodesABA
    Wants <- WantAll
    Lmaster <- LmasterL
    FirstDmaster <- FirstA
    ReqId = {1, 2}
    ClientOps <- Updates
    Mortal = {c1}
    MaxLacount = 1
    MaxRedirect = 1
    MaxOps = 1
    MaxTimeouts = 1
    MaxLosses = 1
CHECK_DEADLOCK FALSE
INVARIANTS
    OneDmaster
    LmasterKnows
    NoLostUpdate
    RoleInv
