SPECIFICATION Spec
CONSTANTS
    a = a  pad = pad
    Proc = {1, 2}
    Val = {pad, a}
    Pad = pad
    FirstSize = 3
    MaxSize = 8
    Page = 2
    MaxBegun = 2
    MaxNesting = 1
    MaxKills = 1
    KillAt <- OutsideLive
    MaxCuts = 1
    CutAt <- OutsideNew
    MaxBacks = 1
INVARIANTS
    ReadersSafe
PROPERTIES
    Isolation
