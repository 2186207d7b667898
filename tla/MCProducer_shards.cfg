CONSTANTS
  Members = {1, 2}
  TopShard = 4
  Faults = {}
  MaxFaults = 0
SPECIFICATION Spec
INVARIANTS EveryShardHasProducer
