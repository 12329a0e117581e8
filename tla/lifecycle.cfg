CONSTANTS
    Clis = {c1}
    Commands = {"start", "stop", "restart", "ask"}
    MaxDaemons = 3
    MaxCommands = 3
    MaxCrashes = 1
    MaxSlow = 1
    None = None
    Torn = Torn
SPECIFICATION FairSpec
INVARIANTS TypeOK Discoverable OneDaemon Oriented
PROPERTY EveryCommandEnds
CHECK_DEADLOCK FALSE
