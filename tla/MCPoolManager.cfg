SPECIFICATION MCSpec
CONSTANTS
    t1 = t1
    t2 = t2
    n1 = n1
    n2 = n2
    None = None
    Managers = {m1}
    Targets = {t1, t2}
    Nameservers = {n1, n2}
    TargetOf <- MCTargetOf
    Threshold = 100
    MaxRetries = 1
    MaxAttempts = 2
    MaxSerial = 2
    MaxFaults = 1
    MaxInFlight = 1
    Faults = {"backend", "poll", "rpc", "session", "restart", "expire"}
    Requests = {"change", "record", "delete"}
PROPERTIES ActiveMeansServed RecordActiveMeansServed
CHECK_DEADLOCK FALSE
