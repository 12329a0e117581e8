CONSTANTS
    Sessions = {s1}
    Ops = {"stop", "delete", "revert", "rename", "read", "shutdown"}
    Faults = {"crash"}
    MaxEvents = 4
    MaxReverts = 1
    MaxRuns = 2
    None = None
SPECIFICATION Spec
INVARIANTS
    TypeOK
    SaidIsOnDisk
    MetaCurrent
    StopKeepsWhatIsSaved
    RemovedStaysRemoved
    InterruptedIsTold
    AgentKnowsConversation
CHECK_DEADLOCK FALSE
