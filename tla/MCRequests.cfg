SPECIFICATION MCSpec
CONSTANTS
    Threads = {t1, t2}
    Reused = {t1}
    Zones = {z1}
    NoZone = none
    Free = free
    MaxCalls = 2
    MaxRetries = 2
    Pair = {c1, c2}
    Tenants = {x1, x2}
    None = None
INVARIANTS TypeOK OneOperationPerZone IdleThreadIsClean AnnouncedOnceCommitted
           NothingHalfCommitted PartTypesOK TreeIsSound ListingIsExact
SYMMETRY Symmetry
CHECK_DEADLOCK FALSE
