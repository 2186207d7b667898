SPECIFICATION MCSpec
CONSTANTS
    Clients = {c1, c2}
    PoolIds = {d, p}
    DefaultPool = d
    Zones = {z}
    Hosts = {h1, h2}
    Attrs = {a}
    Own = own
    Chains <- MCChains
    Null = Null
    MaxRequests = 3
INVARIANTS TypesOK PoolServesItsZones RecordsNearQuota
 
SYMMETRY Symmetry
CHECK_DEADLOCK FALSE
