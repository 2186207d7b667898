SPECIFICATION FairSpec
CONSTANTS
    Clients = {c1, c2}
    Tenants = {t1, t2}
    Zones = {z1, z2}
    Requests = {r1, r2}
    Tasks = {k1}
    Large = {z1}
    Limits = {2}
    Default = 1
    None = None
    MaxOps = 4
    MaxCrashes = 1
INVARIANTS TypeOK ZonesWithinQuota RowsFollowOwner OneActiveRequest
PROPERTIES OwnerGivesAway TaskIsSettled
CHECK_DEADLOCK FALSE
