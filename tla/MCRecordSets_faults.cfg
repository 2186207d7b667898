CONSTANTS
  Sets = {s1}
  Recs = {r1, r2}
  Data = {d1}
  Ttls = {x1}
  RrIds = {i1}
  Threads = {t1, t2}
  Ops = {"create", "update", "delete"}
  Faults = {"device", "response", "central", "timeout", "refusal"}
  MaxFaults = 1
  MaxOps = 3
  None = None
SPECIFICATION FairSpec
INVARIANTS TypeOK LinkHasRow
PROPERTIES PendingRecordIsSettled
CHECK_DEADLOCK FALSE
