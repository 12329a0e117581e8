CONSTANTS
    MaxMessages = 3
    MaxChunks = 1
    MaxFaults = 0
    Ops = {"stop", "unqueue", "fullstop", "tool"}
    Faults = {}
    None = None
SPECIFICATION FairSpec
INVARIANTS   SaidIsShown
   
CHECK_DEADLOCK FALSE
