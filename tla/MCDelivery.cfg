SPECIFICATION MCFairSpec
CONSTANTS
    c1 = c1
    c2 = c2
    x1 = x1
    x2 = x2
    None = None
    Managers = {m1, m2}
    Targets = {t1}
    Nameservers = {n1}
    TargetOf <- MCTargetOf
    Threshold = 100
    MaxRetries = 2
    MaxAttempts = 2
    MaxSerial = 2
    MaxFaults = 1
    MaxInFlight = 1
    Faults = {"backend", "poll", "rpc", "session", "restart", "expire"}
    Requests = {"change", "delete", "sync", "timer"}
INVARIANTS TypesOK DoneMeansDone
PROPERTY Settles
CHECK_DEADLOCK FALSE
