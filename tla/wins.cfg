SPECIFICATION Spec
CONSTANTS
    s1 = s1  s2 = s2
    Server = {s1, s2}
    a1 = a1  a2 = a2
    Addr = {a1, a2}
    MaxAddrs = 2
    MaxUpdates = 1
    Scenarios <- Mixed
SYMMETRY Alike
CHECK_DEADLOCK FALSE
INVARIANTS
    TypeOK
    MembersAgree
    NoPingPong
    AllReadable
