CONSTANTS
    Sessions = {s1, s2}
    Clients = {c1, c2}
    Drain = drain
    Ops = {"add", "send", "resume", "stop", "delete", "revert", "cancel"}
    Texts = {m1}
    Limit = 1
    None = None
SPECIFICATION Spec
SYMMETRY Symmetry
INVARIANTS
    TypeOK
    CapRespected
    EvictionSparesTurns
    WaitingIsNotLive
    OneTransitionAtATime
    NoCircularWait
PROPERTIES PoolSpec
CHECK_DEADLOCK FALSE
