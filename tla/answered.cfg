CONSTANTS
    Sessions = {s1, s2}
    Clients = {c1, c2}
    Drain = drain
    Ops = {"send", "stop", "cancel"}
    Texts = {m1}
    Limit = 1
    None = None
SPECIFICATION FairSpec
PROPERTIES EveryActionAnswered DrainEnds
CHECK_DEADLOCK FALSE
