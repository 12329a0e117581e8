CONSTANTS
    Sessions = {s1, s2}
    Ops = {"revert", "fork"}
    Faults = {}
    MaxEvents = 2
    MaxReverts = 1
    MaxRuns = 2
    None = None
SPECIFICATION Spec
INVARIANTS SaidIsOnDisk HistoryIsCurrent
CHECK_DEADLOCK FALSE
