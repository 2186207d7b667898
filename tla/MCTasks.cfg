SPECIFICATION MCFairSpec
CONSTANTS
    Members = {1, 2, 3}
    TopShard = 2
    Faults = {"crash", "session", "backend", "call"}
    MaxFaults = 1
    None = None
INVARIANTS TypeOK ShardsAreShared
PROPERTY TasksEnd
CHECK_DEADLOCK FALSE
