SPECIFICATION Spec
CONSTANTS
    a = a  pad = pad
    Proc = {1}
    Val = {pad, a}
    Pad = pad
    FirstSize = 3
    MaxSize = 9
    Page = 2
    MaxBegun = 3
    MaxNesting = 0
    MaxKills = 1
    KillAt <- OutsideEnds
    MaxCuts = 2
    CutAt <- OutsideNew
    MaxBacks = 2
INVARIANTS
    TypeOK
    AllOrNothing
    AreaSound
    OpenWorks
