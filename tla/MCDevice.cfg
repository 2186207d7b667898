SPECIFICATION MCSpec
CONSTANTS
    Sets = {s1, s2}
    Recs = {r1, r2}
    Data = {d1, d2}
    Ttls = {x1, x2}
    RrIds = {i1, i2}
    Threads = {t1}
    Ops = {"create", "update", "ttl", "delete", "addrec", "updrec", "delrec"}
    Faults = {"device", "refusal"}
    MaxFaults = 0
    MaxOps = 3
    None = None
    Pair = {c1, c2}
    OneSet = {s0}
    Many = {m1, m2}
    Names = {n1, n2}
INVARIANTS ZoneMatchesDevice ZoneLeaksNothing RecordsMatchDevice
SYMMETRY Symmetry
CHECK_DEADLOCK FALSE
