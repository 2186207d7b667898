CONSTANTS
  Ids = {z1}
  Names = {n1}
  Ttls = {t1}
  Rows = {r1, r2}
  Clients = {c1, c2}
  Central <- OwnCentral
  Recoverers = {q1}
  Secondary = {z1}
  Faults = {"device", "response", "central", "timeout", "crash"}
  MaxFaults = 2
  MaxOps = 2
  Ops = {"create", "update", "delete", "abandon", "touch"}
  OnlyActive = FALSE
  None = None
SPECIFICATION Spec
INVARIANTS TypeOK AssoHasRow
CHECK_DEADLOCK FALSE
PROPERTIES DeletedIsFinal
SYMMETRY Symmetry
