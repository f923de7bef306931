CONSTANTS
    MaxRows = 4
    MaxCounts = {1, 2}
    Faults = {"error", "no_list"}
SPECIFICATION HistorySpec
CHECK_DEADLOCK FALSE
INVARIANTS
    NewestAreComplete
