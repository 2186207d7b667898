SPECIFICATION MCSpec
CONSTANTS
    Clients = {c1, c2}
    Ids = {i1, i2}
    Tenants = {v1, v2}
    Values = {v1, v2}
    Bad = bad
    Null = null
    MaxRequests = 2
INVARIANTS TypesOK AclsMatchDevice AgentAcksAreTrue RefusalsAreTheClients
PROPERTY StoreRefined
SYMMETRY Symmetry
CHECK_DEADLOCK FALSE
