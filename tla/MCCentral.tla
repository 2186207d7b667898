----------------------------- MODULE MCCentral -----------------------------
(***************************************************************************)
(* Requests that work on copies they read earlier, in one run: pools and   *)
(* the zones scheduled to them, and records through both versions of the   *)
(* API.  A behaviour picks one part in its initial state, runs that        *)
(* component, and leaves the variables of the other alone.                 *)
(***************************************************************************)
EXTENDS Pools, TLC

VARIABLES part, sets, recs, req, count

recordVars == <<sets, recs, req, count>>
allVars == <<part, vars, recordVars>>

Symmetry == Permutations(Clients) \cup Permutations(Hosts)

\* The default scheduler_filters and the ones their documentation recommends.
MCChains == {<<"default_pool">>,
             <<"pool_id_attribute", "in_doubt_default_pool">>,
             <<"attribute", "random", "fallback">>}
MCSets == {"apex", "www"}
MCRecs == {"ns", "r1", "r2", "r3", "r4"}
MCData == {"d1", "bad"}
MCParsable == {"d1"}

RecordPart == INSTANCE ApiRecords WITH
    Sets <- MCSets, Apex <- "apex", Recs <- MCRecs, Ns <- "ns", Data <- MCData,
    Parsable <- MCParsable, ZoneRecords <- 2, SetRecords <- 4, ZoneRecordsets <- 2,
    MaxRequests <- 4, None <- Null

\* The variables of a part that is not picked.
NoPools ==
    /\ other = Null /\ filters = Null /\ pool = Null /\ zone = Null
    /\ job = Null /\ nextId = Null /\ requests = Null /\ deleted = Null

NoRecords == sets = Null /\ recs = Null /\ req = Null /\ count = Null

MCInit ==
    /\ part \in {"pool", "record"}
    /\ IF part = "pool" THEN Init ELSE NoPools
    /\ IF part = "record" THEN RecordPart!Init ELSE NoRecords

MCNext ==
    \/ part = "pool" /\ Next /\ UNCHANGED <<part, recordVars>>
    \/ part = "record" /\ RecordPart!Next /\ UNCHANGED <<part, vars>>

MCSpec == MCInit /\ [][MCNext]_allVars
-----------------------------------------------------------------------------
\* Every variable of both components has its type.
TypesOK ==
    /\ part = "pool" => TypeOK
    /\ part = "record" => RecordPart!TypeOK

\* A pool that was never deleted and has a zone has a nameserver, whatever changes
\* of the pool and creations of zones overlap.
PoolServesItsZones == part = "pool" => ZonePoolHasServers


\* The records of a zone exceed its quota by no more than the requests that ran
\* at the same time.
RecordsNearQuota == part = "record" => RecordPart!RecordsNearQuota
=============================================================================
