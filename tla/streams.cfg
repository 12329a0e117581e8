CONSTANTS
    Clients = {c1, c2}
    Sessions = {s1, s2}
    States = {idle}
    Files = {f1}
    Bound = 2
    Window = 1
    MaxChanges = 2
    MaxLosses = 1
    MaxRefusals = 1
    None = None
SPECIFICATION FairSpec
INVARIANTS TypeOK DeliveredArrived
PROPERTIES  CatchesUp
CHECK_DEADLOCK FALSE
