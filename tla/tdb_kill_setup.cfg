SPECIFICATION Spec
CONSTANTS
    a = a  pad = pad
    Proc = {1}
    Val = {pad, a}
    Pad = pad
    FirstSize = 4
    MaxSize = 8
    Page = 2
    MaxBegun = 3
    MaxNesting = 0
    MaxKills = 1
    KillAt = {"newarea"}
    MaxCuts = 0
    CutAt = {}
    MaxBacks = 0
INVARIANTS
    AllOrNothing
