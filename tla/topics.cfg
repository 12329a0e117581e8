CONSTANTS
    Sessions = {s1, s2}
    MaxTopics = 4
    MaxChanges = 3
    MaxDrops = 1
    Deletions = TRUE
    None = None
SPECIFICATION FairSpec
INVARIANTS TypeOK OneTopic  
PROPERTY EveryJobEnds
CHECK_DEADLOCK FALSE
