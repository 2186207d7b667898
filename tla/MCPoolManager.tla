--------------------------- MODULE MCPoolManager ---------------------------
(***************************************************************************)
(* One pool manager, two targets and the nameserver that each of them      *)
(* feeds.  A behaviour picks what may happen in it in its initial state:   *)
(*   busy    two calls under way at a time, with changes of the zone and   *)
(*           refused backend calls;                                        *)
(*   records two calls under way at a time, and the record is created on   *)
(*           the way;                                                      *)
(*   faulty  one call at a time, changes, deletes and the record, and one  *)
(*           fault of any kind.                                            *)
(***************************************************************************)
EXTENDS PoolManager, TLC

CONSTANTS t1, t2, n1, n2

VARIABLE part

MCTargetOf == (n1 :> t1) @@ (n2 :> t2)
MCBackend == {"backend"}
MCChange == {"change"}
MCRecord == {"change", "touch", "record"}

Busy == INSTANCE PoolManager WITH
    MaxInFlight <- 2, Requests <- MCChange, Faults <- MCBackend

Records == INSTANCE PoolManager WITH
    MaxInFlight <- 2, Requests <- MCRecord, MaxFaults <- 0

MCInit == /\ part \in {"busy", "records", "faulty"}
          /\ Init
          /\ IF part = "busy" THEN rec = zone ELSE rec.status = "DELETED"

MCNext == \/ part = "busy" /\ Busy!Next /\ UNCHANGED part
          \/ part = "records" /\ Records!Next /\ UNCHANGED part
          \/ part = "faulty" /\ Next /\ UNCHANGED part

MCSpec == MCInit /\ [][MCNext]_<<part, vars>>
=============================================================================
