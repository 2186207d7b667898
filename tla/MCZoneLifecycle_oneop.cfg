CONSTANTS
  Ids = {z1}
  Names = {n1}
  Ttls = {t1}
  Rows = {r1}
  Clients = {c1, c2}
  Central <- OneCentral
  Recoverers = {}
  Secondary = {}
  Faults = {}
  MaxFaults = 0
  MaxOps = 3
  Ops = {"create", "delete"}
  OnlyActive = FALSE
  None = None
SPECIFICATION Spec
INVARIANTS OneOperationPerZone
CHECK_DEADLOCK FALSE
