CONSTANTS
    MaxMessages = 2
    MaxChunks = 1
    MaxFaults = 1
    Ops = {}
    Faults = {"drop", "exit", "daemon", "refuse"}
    None = None
SPECIFICATION FairSpec
INVARIANTS MapIsCurrent
 
CHECK_DEADLOCK FALSE
