CONSTANTS
    Clis = {c1, c2}
    Commands = {"start", "ask"}
    MaxDaemons = 2
    MaxCommands = 2
    MaxCrashes = 0
    MaxSlow = 0
    None = None
    Torn = Torn
SPECIFICATION Spec
INVARIANT Discoverable
CHECK_DEADLOCK FALSE
