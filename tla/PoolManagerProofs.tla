------------------------- MODULE PoolManagerProofs -------------------------
(***************************************************************************)
(* Proofs about PoolManager for every pool, any number of managers and any *)
(* faults: a zone or a record that becomes ACTIVE has a serial that enough *)
(* nameservers have.                                                       *)
(*                                                                         *)
(* Sound types what is stored and in flight and orders the serials.  The   *)
(* argument is Honest: until a zone is doomed to be deleted no handler     *)
(* takes it from a target, so a nameserver never falls behind what it once *)
(* answered, and cache, polls, reports and a consensus computed earlier    *)
(* stay true however late they are used.                                   *)
(***************************************************************************)
EXTENDS PoolManager, FiniteSetTheorems, WellFoundedInduction, TLAPS

\* A row that waits knows what for
Waits(r) == r.status \in {"PENDING", "ERROR"} => r.action # "NONE"

RowsSound ==
    /\ zone \in Row /\ rec \in Row
    /\ zone.serial # 0 /\ rec.serial <= zone.serial
    /\ Waits(rec)
    /\ zone.status = "ACTIVE" => zone.action = "NONE"

ServersSound ==
    /\ aged \in BOOLEAN /\ prov \subseteq Targets
    /\ auth \in [Nameservers -> Serials]
    /\ \A n \in Nameservers : auth[n] <= zone.serial

CacheSound == cache \in [Nameservers -> [Actions -> Status \cup {None}]]

Job == [op : {"idle", "create", "update", "delete", "sync"}, phase : {"targets", "servers"},
        zone : Row \cup {None}, todo : SUBSET (Targets \cup Nameservers),
        tries : Nat, ok : Nat, attempt : Nat]

\* A handler works on a copy of the row, and counts targets it is through with
JobSound(j) ==
    /\ j.op = "idle" => j.phase = "targets" /\ j.todo = {}
    /\ j.op # "idle" => j.zone \in Row
    /\ j.phase = "targets" =>
          /\ j.todo \subseteq Targets
          /\ j.ok + Cardinality(j.todo) <= Cardinality(Targets)
    /\ j.ok <= Cardinality(Targets)
JobsSound == job \in [Managers -> Job] /\ \A m \in Managers : JobSound(job[m])

Rep == [pc : {"idle", "consensus", "success", "error", "nozone", "clear"},
        msg : Report \cup {None}, seen : Serials, consensus : Serials]
RepsSound ==
    /\ rep \in [Managers -> Rep]
    /\ \A m \in Managers : rep[m].pc # "idle" => rep[m].msg \in Report

Cast == [op : {"create", "update", "delete"}, zone : Row]
CallsSound == queue \subseteq Cast /\ polls \subseteq Poll /\ reports \subseteq Report

LeadersSound ==
    /\ holder \in Managers \cup {None}
    /\ leading \subseteq Managers /\ timers \subseteq Managers
    /\ faults \in 0..MaxFaults

Sound == /\ RowsSound /\ ServersSound /\ CacheSound
         /\ JobsSound /\ RepsSound /\ CallsSound /\ LeadersSound

\* Enough nameservers have serial s
At(s) == {n \in Nameservers : auth[n] >= s}
Reached(s) == Meets(Cardinality(At(s)), Threshold)

\* No handler takes the zone from a target that a nameserver has it from
NobodyDeletes ==
    /\ \A q \in queue : q.op # "delete"
    /\ \A m \in Managers : job[m].op # "delete"
    /\ \A n \in Nameservers : auth[n] # 0 => TargetOf[n] \in prov
\* What cache, polls and reports say of a nameserver it has
CacheIsTrue == \A n \in Nameservers : \A a \in Actions :
                   cache[n][a] # None => cache[n][a].serial <= auth[n]
AnswersAreTrue == /\ \A p \in polls : p.serial <= auth[p.ns]
                  /\ \A r \in reports : r.serial <= auth[r.ns]
ConsensusIsReached ==
    \A m \in Managers : /\ rep[m].consensus # 0 => Reached(rep[m].consensus)
                        /\ rep[m].pc = "success" => rep[m].consensus # 0

Honest == ~Doomed => /\ NobodyDeletes /\ CacheIsTrue /\ AnswersAreTrue
                     /\ ConsensusIsReached

USE PoolAssumption

-----------------------------------------------------------------------------
(* Consensus                                                               *)

\* A set of natural numbers has a least element
LEMMA NatMin ==
    ASSUME NEW T \in SUBSET Nat, T # {}
    PROVE  \E x \in T : \A y \in T : x <= y
<1>1. PICK x \in T : \A y \in T : ~(<<y, x>> \in OpToRel(<, Nat))
    BY WFMin, NatLessThanWellFounded
<1>2. \A y \in T : <<y, x>> \in OpToRel(<, Nat) <=> y < x
    BY DEF OpToRel
<1>3. \A y \in T : ~(y < x)
    BY <1>1, <1>2, Zenon
<1>4. \A y \in T : x <= y
    BY <1>3
<1> QED BY <1>4

\* ... and a set of serials a greatest one
LEMMA GreatestSerial ==
    ASSUME NEW T \in SUBSET Serials, T # {}
    PROVE  \E x \in T : \A y \in T : y <= x
<1> DEFINE U == {MaxSerial - s : s \in T}
<1>0. MaxSerial \in Nat /\ \A s \in T : s \in Nat /\ s <= MaxSerial
    BY DEF Serials
<1>1. U \in SUBSET Nat /\ U # {}
  <2>1. \A s \in T : MaxSerial - s \in Nat
    BY <1>0
  <2> QED BY <2>1
<1>2. PICK u \in U : \A v \in U : u <= v
    <2> HIDE DEF U
    <2> QED BY <1>1, NatMin
<1>3. PICK x \in T : u = MaxSerial - x
    OBVIOUS
<1>4. \A y \in T : MaxSerial - x <= MaxSerial - y
    BY <1>2, <1>3
<1> HIDE DEF U
<1> QED BY <1>0, <1>4

LEMMA MeetsMore ==
    ASSUME NEW i \in Nat, NEW j \in Nat, i <= j, Meets(i, Threshold)
    PROVE  Meets(j, Threshold)
<1>1. Cardinality(Targets) \in Nat
    BY FS_CardinalityType
<1>2. Threshold * Cardinality(Targets) \in Nat
    BY <1>1
<1> QED BY <1>2 DEF Meets

\* The consensus is a serial that enough of the statuses have
LEMMA ConsensusFacts ==
    ASSUME NEW D \in SUBSET Nameservers, NEW sts \in [D -> Status]
    PROVE  /\ ConsensusSerial(sts) \in Serials
           /\ ConsensusSerial(sts) # 0 =>
                 Meets(AtLeast(sts, ConsensusSerial(sts)), Threshold)
<1> DEFINE agreed == {s \in {sts[n].serial : n \in DOMAIN sts} :
                        Meets(AtLeast(sts, s), Threshold)}
<1>1. agreed \in SUBSET Serials
    BY DEF Status
<1>2. ConsensusSerial(sts) =
         IF agreed = {} THEN 0 ELSE CHOOSE s \in agreed : \A t \in agreed : t <= s
    BY DEF ConsensusSerial
<1>3. CASE agreed = {}
    BY <1>2, <1>3 DEF Serials
<1>4. CASE agreed # {}
  <2>1. \A s \in agreed : Meets(AtLeast(sts, s), Threshold)
    OBVIOUS
  <2> HIDE DEF agreed
  <2>2. \E s \in agreed : \A t \in agreed : t <= s
    BY <1>1, <1>4, GreatestSerial
  <2>3. ConsensusSerial(sts) \in agreed
    BY <1>2, <1>4, <2>2
  <2> QED BY <1>1, <2>1, <2>3
<1> QED BY <1>3, <1>4

LEMMA ErrorFacts ==
    ASSUME NEW D \in SUBSET Nameservers, NEW sts \in [D -> Status], NEW c \in Serials
    PROVE  ErrorSerial(sts, c) \in Serials
<1> DEFINE above == {s \in {sts[n].serial : n \in DOMAIN sts} : s > c}
<1>1. above \in SUBSET Serials
    BY DEF Status
<1>2. ErrorSerial(sts, c) = IF IsConsensus(sts, "ERROR", Threshold) /\ above # {}
                            THEN CHOOSE s \in above : \A t \in above : s <= t
                            ELSE 0
    BY DEF ErrorSerial
<1> HIDE DEF above
<1>3. above # {} => \E s \in above : \A t \in above : s <= t
    BY <1>1, NatMin DEF Serials
<1>4. above # {} => (CHOOSE s \in above : \A t \in above : s <= t) \in Serials
    BY <1>1, <1>3, Zenon
<1>5. 0 \in Serials
    BY DEF Serials
<1> QED BY <1>2, <1>4, <1>5, Zenon

-----------------------------------------------------------------------------
(* What update_status of the manager reads                                 *)

LEMMA MsgFacts ==
    ASSUME RepsSound, NEW m \in Managers, rep[m].pc # "idle"
    PROVE  /\ Msg(m) \in Report /\ Msg(m).zone \in Row /\ Act(m) \in Actions
           /\ rep[m] \in Rep
BY DEF RepsSound, Msg, Act, ActionOf, Report, Row, Actions

LEMMA FetchedFacts ==
    ASSUME ServersSound, NEW n \in Nameservers, NEW z, NEW a \in Actions
    PROVE  /\ Fetched(n, z, a) \in Status /\ Fetched(n, z, a).serial = auth[n]
           /\ FetchedAction(n, a) \in Actions
BY DEF ServersSound, Fetched, FetchedAction, Status, PollStatuses, Actions

LEMMA RetrieveFacts ==
    ASSUME ServersSound, CacheSound, RepsSound, NEW m \in Managers,
           rep[m].pc # "idle", NEW lost \in SUBSET Nameservers
    PROVE  /\ Retrieve(m, lost) \in [Nameservers \ lost -> Status]
           /\ \A n \in Nameservers \ lost :
                 \/ Retrieve(m, lost)[n].serial = auth[n]
                 \/ cache[n][Act(m)] # None /\ Retrieve(m, lost)[n] = cache[n][Act(m)]
<1>1. Act(m) \in Actions
    BY MsgFacts
<1>2. \A n \in Nameservers : cache[n][Act(m)] \in Status \cup {None}
    BY <1>1 DEF CacheSound
<1>3. \A n \in Nameservers : Fetched(n, Msg(m).zone, Act(m)) \in Status
    BY <1>1, FetchedFacts
<1>4. \A n \in Nameservers : Fetched(n, Msg(m).zone, Act(m)).serial = auth[n]
    BY <1>1, FetchedFacts
<1> QED BY <1>2, <1>3, <1>4 DEF Retrieve

LEMMA RecacheFacts ==
    ASSUME ServersSound, CacheSound, RepsSound, NEW m \in Managers,
           rep[m].pc # "idle", NEW lost \in SUBSET Nameservers
    PROVE  /\ Recache(m, lost) \in [Nameservers -> [Actions -> Status \cup {None}]]
           /\ \A n \in Nameservers : \A a \in Actions :
                 \/ Recache(m, lost)[n][a] = cache[n][a]
                 \/ Recache(m, lost)[n][a].serial = auth[n]
<1>1. Act(m) \in Actions
    BY MsgFacts
<1>2. \A n \in Nameservers : /\ Fetched(n, Msg(m).zone, Act(m)) \in Status
                             /\ Fetched(n, Msg(m).zone, Act(m)).serial = auth[n]
                             /\ FetchedAction(n, Act(m)) \in Actions
    BY <1>1, FetchedFacts
<1>3. \A n \in Nameservers : cache[n] \in [Actions -> Status \cup {None}]
    BY DEF CacheSound
<1>4. \A n \in Nameservers :
         Recache(m, lost)[n] \in [Actions -> Status \cup {None}]
    BY <1>2, <1>3 DEF Recache
<1>5. \A n \in Nameservers : \A a \in Actions :
         \/ Recache(m, lost)[n][a] = cache[n][a]
         \/ Recache(m, lost)[n][a].serial = auth[n]
    BY <1>2, <1>3 DEF Recache
<1> QED BY <1>4, <1>5 DEF Recache

-----------------------------------------------------------------------------
(* update_status of central                                                *)

LEMMA NewRowFacts ==
    ASSUME NEW r \in Row, NEW st \in PollStatuses, NEW s \in Serials
    PROVE  /\ NewRow(r, st, s) \in Row
           /\ NewRow(r, st, s).serial = r.serial
           /\ Waits(r) => Waits(NewRow(r, st, s))
           /\ (r.status = "ACTIVE" => r.action = "NONE") =>
                 (NewRow(r, st, s).status = "ACTIVE" => NewRow(r, st, s).action = "NONE")
           /\ NewRow(r, st, s).status = "ACTIVE" =>
                 r.status = "ACTIVE" \/ (st = "SUCCESS" /\ s >= r.serial)
           /\ r.action = "DELETE" =>
                 NewRow(r, st, s).action = "DELETE" \/ NewRow(r, st, s).status = "DELETED"
<1> DEFINE a == st = "SUCCESS" /\ SettledBy(r, s) /\ r.action \in {"CREATE", "UPDATE"}
           b == st = "SUCCESS" /\ SettledBy(r, s) /\ r.action = "DELETE"
           c == st = "ERROR" /\ r.status = "PENDING" /\ (s >= r.serial \/ s = 0)
           d == st = "NO_ZONE"
<1>r. r.serial \in Serials /\ r.status \in RowStatuses /\ r.action \in Actions \cup {"NONE"}
    BY DEF Row
<1>1. CASE a
  <2>1. NewRow(r, st, s) = [r EXCEPT !.action = "NONE", !.status = "ACTIVE"]
    BY <1>1 DEF NewRow
  <2> QED BY <1>1, <1>r, <2>1 DEF Row, RowStatuses, Waits, SettledBy
<1>2. CASE b
  <2>1. NewRow(r, st, s) = [r EXCEPT !.action = "NONE", !.status = "DELETED"]
    BY <1>2 DEF NewRow
  <2> QED BY <1>2, <1>r, <2>1 DEF Row, RowStatuses, Waits
<1>3. CASE c
  <2>1. NewRow(r, st, s) = [r EXCEPT !.status = "ERROR"]
    BY <1>3 DEF NewRow
  <2> QED BY <1>3, <1>r, <2>1 DEF Row, RowStatuses, Waits
<1>4. CASE d
  <2>1. NewRow(r, st, s) = [r EXCEPT !.action = "NONE", !.status = "DELETED"]
    BY <1>4 DEF NewRow
  <2> QED BY <1>4, <1>r, <2>1 DEF Row, RowStatuses, Waits
<1>5. CASE ~a /\ ~b /\ ~c /\ ~d
  <2>1. NewRow(r, st, s) = r
    BY <1>5 DEF NewRow
  <2> QED BY <1>5, <1>r, <2>1 DEF Row, RowStatuses, Waits, SettledBy, Actions
<1> QED BY <1>1, <1>2, <1>3, <1>4, <1>5

\* A zone that goes stays gone, and only a success for its serial settles a row
LEMMA Updated ==
    ASSUME RowsSound, NEW st \in PollStatuses, NEW s \in Serials, UpdateStatus(st, s)
    PROVE  /\ RowsSound' /\ zone'.serial = zone.serial
           /\ Doomed => Doomed'
           /\ zone'.status = "ACTIVE" =>
                 zone.status = "ACTIVE" \/ (st = "SUCCESS" /\ s >= zone.serial)
           /\ rec'.status = "ACTIVE" =>
                 rec.status = "ACTIVE" \/ (st = "SUCCESS" /\ s >= rec.serial)
<1>1. zone \in Row /\ rec \in Row /\ zone.serial \in Nat /\ rec.serial \in Nat /\ s \in Nat
    BY DEF RowsSound, Row, Serials
<1>2. zone' = NewRow(zone, st, s) /\ Exists
    BY DEF UpdateStatus
<1>3. rec' = IF rec.status = "DELETED" THEN rec ELSE NewRow(rec, st, s)
    BY DEF UpdateStatus, NewRecord
<1>4. zone' \in Row /\ zone'.serial = zone.serial
    BY <1>1, <1>2, NewRowFacts
<1>5. rec' \in Row /\ rec'.serial = rec.serial /\ Waits(rec')
    BY <1>1, <1>3, NewRowFacts DEF RowsSound
<1>6. Doomed => Doomed'
    BY <1>1, <1>2, NewRowFacts DEF Doomed, Exists
<1>7. zone'.status = "ACTIVE" =>
         /\ zone'.action = "NONE"
         /\ zone.status = "ACTIVE" \/ (st = "SUCCESS" /\ s >= zone.serial)
    BY <1>1, <1>2, NewRowFacts DEF RowsSound
<1>8. rec'.status = "ACTIVE" => rec.status = "ACTIVE" \/ (st = "SUCCESS" /\ s >= rec.serial)
    BY <1>1, <1>3, NewRowFacts
<1> QED BY <1>4, <1>5, <1>6, <1>7, <1>8 DEF RowsSound, Waits

-----------------------------------------------------------------------------
(* Which actions change what                                               *)

\* Who writes the rows
LEMMA RowsMove ==
    ASSUME Next
    PROVE  \/ UNCHANGED <<zone, rec>>
           \/ UpdateZone \/ TouchZone \/ CreateRecord
           \/ RequestDelete
           \/ \E m \in Managers : NoConsensus(m)
           \/ \E m \in Managers : ReportSuccess(m)
           \/ \E m \in Managers : ReportNoZone(m)
           \/ \E m \in Managers, lost \in SUBSET Nameservers : ReportError(m, lost)
BY DEF Next, JobStep, RepStep, ManagerFault, election, NoFault, SyncZone, Age,
       Transfer, Expire, Query, PollLost, Elected, PeriodicRecovery, PeriodicSync,
       StartJob, BackendOk, Propagate, ZoneGone, SendPoll, TakeReport, Consensus,
       ClearCache, BackendFails, LoseSession, Restart

\* Who changes targets and nameservers
LEMMA ServersMove ==
    ASSUME Next
    PROVE  \/ UNCHANGED <<aged, prov, auth>>
           \/ UpdateZone \/ TouchZone
           \/ Age
           \/ \E n \in Nameservers : Transfer(n)
           \/ \E m \in Managers, t \in Targets : BackendOk(m, t)
           \/ \E m \in Managers, t \in Targets : BackendFails(m, t)
BY DEF Next, JobStep, RepStep, ManagerFault, election, NoFault, RequestDelete,
       CreateRecord, SyncZone, Expire, Query, PollLost, Elected, PeriodicRecovery, PeriodicSync,
       StartJob, Propagate, NoConsensus, ZoneGone, SendPoll, TakeReport, ReportSuccess,
       ReportNoZone, Consensus, ReportError, ClearCache, LoseSession, Restart

\* Who writes the cache
LEMMA CacheMove ==
    ASSUME Next
    PROVE  \/ UNCHANGED <<cache>>
           \/ \E n \in Nameservers, a \in Actions : Expire(n, a)
           \/ \E m \in Managers, n \in Nameservers : SendPoll(m, n)
           \/ \E m \in Managers, r \in reports : TakeReport(m, r)
           \/ \E m \in Managers, lost \in SUBSET Nameservers : Consensus(m, lost)
           \/ \E m \in Managers, lost \in SUBSET Nameservers : ReportError(m, lost)
           \/ \E m \in Managers, lost \in SUBSET Nameservers : ClearCache(m, lost)
BY DEF Next, JobStep, RepStep, ManagerFault, election, NoFault, UpdateZone,
       TouchZone, CreateRecord,
       RequestDelete, SyncZone, Age, Transfer, Query, PollLost, Elected,
       PeriodicRecovery, PeriodicSync, StartJob, BackendOk, Propagate, NoConsensus,
       ZoneGone, ReportSuccess, ReportNoZone, BackendFails, LoseSession, Restart

\* Who steps in create, update and delete
LEMMA JobsMove ==
    ASSUME Next
    PROVE  \/ UNCHANGED <<job>>
           \/ \E m \in Managers : PeriodicSync(m)
           \/ \E m \in Managers, q \in queue : StartJob(m, q)
           \/ \E m \in Managers, t \in Targets : BackendOk(m, t)
           \/ \E m \in Managers : Propagate(m)
           \/ \E m \in Managers : NoConsensus(m)
           \/ \E m \in Managers : ZoneGone(m)
           \/ \E m \in Managers, n \in Nameservers : SendPoll(m, n)
           \/ \E m \in Managers, t \in Targets : BackendFails(m, t)
           \/ \E m \in Managers : Restart(m)
BY DEF Next, JobStep, RepStep, ManagerFault, election, NoFault, UpdateZone,
       TouchZone, CreateRecord,
       RequestDelete, SyncZone, Age, Transfer, Expire, Query, PollLost, Elected,
       PeriodicRecovery, TakeReport, ReportSuccess, ReportNoZone, Consensus,
       ReportError, ClearCache, LoseSession

\* Who steps in update_status
LEMMA RepsMove ==
    ASSUME Next
    PROVE  \/ UNCHANGED <<rep>>
           \/ \E m \in Managers, r \in reports : TakeReport(m, r)
           \/ \E m \in Managers : ReportSuccess(m)
           \/ \E m \in Managers : ReportNoZone(m)
           \/ \E m \in Managers, lost \in SUBSET Nameservers : Consensus(m, lost)
           \/ \E m \in Managers, lost \in SUBSET Nameservers : ReportError(m, lost)
           \/ \E m \in Managers, lost \in SUBSET Nameservers : ClearCache(m, lost)
           \/ \E m \in Managers : Restart(m)
BY DEF Next, JobStep, RepStep, ManagerFault, election, NoFault, UpdateZone,
       TouchZone, CreateRecord,
       RequestDelete, SyncZone, Age, Transfer, Expire, Query, PollLost, Elected,
       PeriodicRecovery, PeriodicSync, StartJob, BackendOk, Propagate, NoConsensus,
       ZoneGone, SendPoll, BackendFails, LoseSession

\* Who casts and takes casts
LEMMA CallsMove ==
    ASSUME Next
    PROVE  \/ UNCHANGED <<queue, polls, reports>>
           \/ SyncZone
           \/ \E p \in polls : Query(p)
           \/ \E p \in polls : PollLost(p)
           \/ \E m \in Managers : PeriodicRecovery(m)
           \/ \E m \in Managers, q \in queue : StartJob(m, q)
           \/ \E m \in Managers, n \in Nameservers : SendPoll(m, n)
           \/ \E m \in Managers, r \in reports : TakeReport(m, r)
BY DEF Next, JobStep, RepStep, ManagerFault, election, NoFault, UpdateZone,
       TouchZone, CreateRecord,
       RequestDelete, Age, Transfer, Expire, Elected, PeriodicSync, BackendOk,
       Propagate, NoConsensus, ZoneGone, ReportSuccess, ReportNoZone, Consensus,
       ReportError, ClearCache, BackendFails, LoseSession, Restart

\* Who changes the election
LEMMA LeadersMove ==
    ASSUME Next
    PROVE  \/ UNCHANGED <<holder, leading, timers, faults>>
           \/ \E n \in Nameservers, a \in Actions : Expire(n, a)
           \/ \E p \in polls : Query(p)
           \/ \E p \in polls : PollLost(p)
           \/ \E m \in Managers : Elected(m)
           \/ \E m \in Managers : ZoneGone(m)
           \/ \E m \in Managers, lost \in SUBSET Nameservers : Consensus(m, lost)
           \/ \E m \in Managers, lost \in SUBSET Nameservers : ReportError(m, lost)
           \/ \E m \in Managers, lost \in SUBSET Nameservers : ClearCache(m, lost)
           \/ \E m \in Managers, t \in Targets : BackendFails(m, t)
           \/ \E m \in Managers : LoseSession(m)
           \/ \E m \in Managers : Restart(m)
BY DEF Next, JobStep, RepStep, ManagerFault, election, NoFault, UpdateZone,
       TouchZone, CreateRecord,
       RequestDelete, SyncZone, Age, Transfer, PeriodicRecovery, PeriodicSync,
       StartJob, BackendOk, Propagate, NoConsensus, SendPoll, TakeReport,
       ReportSuccess, ReportNoZone

-----------------------------------------------------------------------------
(* Every step keeps Sound                                                  *)

LEMMA CallFacts ==
    ASSUME RowsSound, NEW m, NEW st \in PollStatuses, NEW s \in Serials, NEW nx,
           CallCentral(m, st, s, nx)
    PROVE  /\ RowsSound' /\ zone'.serial = zone.serial
           /\ Doomed => Doomed'
           /\ zone'.status = "ACTIVE" =>
                 zone.status = "ACTIVE" \/ (st = "SUCCESS" /\ s >= zone.serial)
           /\ rec'.status = "ACTIVE" =>
                 rec.status = "ACTIVE" \/ (st = "SUCCESS" /\ s >= rec.serial)
<1>1. CASE UpdateStatus(st, s)
    BY <1>1, Updated
<1>2. CASE UNCHANGED <<zone, rec>>
    BY <1>2 DEF RowsSound, Doomed, Waits
<1> QED BY <1>1, <1>2 DEF CallCentral

\* What a step does to the rows: the serial only grows, a zone on its way out
\* stays so, and a zone becomes ACTIVE only by a consensus about its serial
RowsKeep == /\ RowsSound' /\ zone.serial <= zone'.serial
            /\ Doomed => Doomed'
            /\ zone'.status = "ACTIVE" =>
                  \/ zone.status = "ACTIVE"
                  \/ \E m \in Managers : /\ rep[m].pc = "success"
                                         /\ rep[m].consensus >= zone.serial
            /\ rec'.status = "ACTIVE" =>
                  \/ rec.status = "ACTIVE"
                  \/ \E m \in Managers : /\ rep[m].pc = "success"
                                         /\ rep[m].consensus >= rec.serial

LEMMA RowsStep ==
    ASSUME Sound, Next
    PROVE  RowsKeep
<1> USE DEF RowsKeep
<1>0. RowsSound /\ zone \in Row /\ zone.serial \in Nat /\ rec \in Row /\ rec.serial \in Nat
    BY DEF Sound, RowsSound, Row, Serials
<1>1. CASE UNCHANGED <<zone, rec>>
    BY <1>0, <1>1 DEF RowsSound, Doomed, Waits
<1>2. CASE UpdateZone \/ TouchZone \/ CreateRecord
  <2> DEFINE s == zone.serial + 1
  <2>1. CASE UpdateZone
    <3>1. s \in Serials /\ s # 0 /\ zone.serial <= s
        BY <1>0, <2>1 DEF UpdateZone, Serials, Row
    <3>2. zone' = [status |-> "PENDING", action |-> "UPDATE", serial |-> s] /\ rec' = rec
        BY <2>1 DEF UpdateZone
    <3>3. ~Doomed
        BY <2>1 DEF UpdateZone, Doomed, Exists
    <3>4. zone' \in Row /\ zone'.serial = s /\ zone'.status = "PENDING"
        BY <3>1, <3>2 DEF Row, RowStatuses, Actions
    <3> QED BY <1>0, <3>1, <3>2, <3>3, <3>4 DEF RowsSound, Waits
  <2>2. CASE TouchZone
    <3>1. s \in Serials /\ s # 0 /\ zone.serial <= s
        BY <1>0, <2>2 DEF TouchZone, Serials, Row
    <3>2. zone' = [zone EXCEPT !.serial = s] /\ rec' = rec
        BY <2>2 DEF TouchZone
    <3>3. /\ zone' \in Row /\ zone'.serial = s
          /\ zone'.status = zone.status /\ zone'.action = zone.action
        BY <1>0, <3>1, <3>2 DEF Row
    <3> QED BY <1>0, <3>1, <3>2, <3>3 DEF RowsSound, Waits, Doomed
  <2>3. CASE CreateRecord
    <3>1. rec' = [status |-> "PENDING", action |-> "CREATE", serial |-> zone.serial] /\ zone' = zone
        BY <2>3 DEF CreateRecord
    <3>2. rec' \in Row /\ rec'.serial = zone.serial /\ rec'.status = "PENDING" /\ Waits(rec')
        BY <1>0, <3>1 DEF Row, RowStatuses, Actions, Waits
    <3> QED BY <1>0, <3>1, <3>2 DEF RowsSound, Waits, Doomed
  <2> QED BY <1>2, <2>1, <2>2, <2>3
<1>3. CASE RequestDelete
  <2>1. zone' = [zone EXCEPT !.status = "PENDING", !.action = "DELETE"] /\ rec' = rec
    BY <1>3 DEF RequestDelete
  <2>2. /\ zone' \in Row /\ zone'.serial = zone.serial
        /\ zone'.status = "PENDING" /\ zone'.action = "DELETE"
    BY <1>0, <2>1 DEF Row, RowStatuses, Actions
  <2> QED BY <1>0, <2>1, <2>2 DEF RowsSound, Waits, Doomed
<1>4. ASSUME NEW m \in Managers, NoConsensus(m)
      PROVE  RowsKeep
  <2>1. job[m].zone \in Row
    BY <1>4 DEF NoConsensus, TargetsDone, Sound, JobsSound, JobSound
  <2>2. job[m].zone.serial \in Serials
    BY <2>1 DEF Row
  <2>3. UpdateStatus("ERROR", job[m].zone.serial)
    BY <1>4 DEF NoConsensus
  <2> QED BY <1>0, <2>2, <2>3, Updated DEF PollStatuses
<1>5. ASSUME NEW m \in Managers, ReportSuccess(m)
      PROVE  RowsKeep
  <2>1. rep[m].consensus \in Serials /\ rep[m].pc = "success"
    BY <1>5 DEF ReportSuccess, Sound, RepsSound, Rep
  <2>2. CallCentral(m, "SUCCESS", rep[m].consensus, AfterSuccess(m))
    BY <1>5 DEF ReportSuccess
  <2> QED BY <1>0, <2>1, <2>2, CallFacts DEF PollStatuses
<1>6. ASSUME NEW m \in Managers, ReportNoZone(m)
      PROVE  RowsKeep
  <2>1. CallCentral(m, "NO_ZONE", 0, "clear")
    BY <1>6 DEF ReportNoZone
  <2> QED BY <1>0, <2>1, CallFacts DEF PollStatuses, Serials
<1>7. ASSUME NEW m \in Managers, NEW lost \in SUBSET Nameservers, ReportError(m, lost)
      PROVE  RowsKeep
  <2> DEFINE e == ErrorSerial(Retrieve(m, lost), rep[m].consensus)
  <2>1. rep[m].consensus \in Serials /\ rep[m].pc # "idle"
    BY <1>7 DEF ReportError, Sound, RepsSound, Rep
  <2>2. Retrieve(m, lost) \in [Nameservers \ lost -> Status]
    BY <2>1, RetrieveFacts DEF Sound
  <2>3. e \in Serials
    BY <2>1, <2>2, ErrorFacts
  <2>4. CallCentral(m, "ERROR", e, "clear") \/ UNCHANGED <<zone, rec>>
    BY <1>7 DEF ReportError
  <2> HIDE DEF e
  <2>5. CASE CallCentral(m, "ERROR", e, "clear")
    BY <1>0, <2>3, <2>5, CallFacts DEF PollStatuses
  <2> QED BY <1>1, <2>4, <2>5
<1> QED BY RowsMove, <1>1, <1>2, <1>3, <1>4, <1>5, <1>6, <1>7

LEMMA ProvisionFacts ==
    ASSUME NEW op, NEW t \in Targets, prov \subseteq Targets
    PROVE  /\ Provision(op, t) \subseteq Targets
           /\ op # "delete" => prov \subseteq Provision(op, t)
BY DEF Provision

LEMMA ServersStep ==
    ASSUME Sound, Next
    PROVE  ServersSound'
<1>0. /\ ServersSound /\ zone.serial <= zone'.serial
      /\ zone.serial \in Serials /\ zone'.serial \in Serials
    BY RowsStep DEF Sound, RowsKeep, RowsSound, Row
<1>1. auth' = auth => \A n \in Nameservers : auth'[n] <= zone'.serial
    BY <1>0 DEF ServersSound, Serials
<1>2. CASE UNCHANGED <<aged, prov, auth>>
    BY <1>0, <1>1, <1>2 DEF ServersSound
<1>3. CASE UpdateZone \/ TouchZone \/ Age
    BY <1>0, <1>1, <1>3 DEF ServersSound, UpdateZone, TouchZone, Age
<1>4. ASSUME NEW n \in Nameservers, Transfer(n)
      PROVE  ServersSound'
  <2>1. UNCHANGED <<aged, prov, zone>>
    BY <1>4 DEF Transfer
  <2>2. PICK s \in {0, zone.serial} : auth' = [auth EXCEPT ![n] = s]
    BY <1>4 DEF Transfer
  <2> QED BY <1>0, <2>1, <2>2 DEF ServersSound, Serials
<1>5. ASSUME NEW m \in Managers, NEW t \in Targets, BackendOk(m, t)
      PROVE  ServersSound'
    BY <1>0, <1>1, <1>5, ProvisionFacts DEF ServersSound, BackendOk
<1>6. ASSUME NEW m \in Managers, NEW t \in Targets, BackendFails(m, t)
      PROVE  ServersSound'
    BY <1>0, <1>1, <1>6, ProvisionFacts DEF ServersSound, BackendFails
<1> QED BY ServersMove, <1>2, <1>3, <1>4, <1>5, <1>6

LEMMA TakeFacts ==
    ASSUME CacheSound, CallsSound, NEW r \in reports
    PROVE  /\ r \in Report /\ ActionOf(r.zone) \in Actions
           /\ cache[r.ns][ActionOf(r.zone)] \in Status \cup {None}
BY DEF CacheSound, CallsSound, Report, Row, ActionOf, Actions

LEMMA StatusFacts == NewStatus \in Status
BY DEF NewStatus, Status, Serials

\* One entry of the cache is replaced
LEMMA CacheSet ==
    ASSUME CacheSound, NEW n \in Nameservers, NEW a \in Actions,
           NEW s \in Status \cup {None}, cache' = [cache EXCEPT ![n][a] = s]
    PROVE  /\ CacheSound'
           /\ \A o \in Nameservers : \A b \in Actions :
                 cache'[o][b] = cache[o][b] \/ (o = n /\ cache'[o][b] = s)
BY DEF CacheSound

\* Serial s of nameserver n was polled or reported, or n has it now
Told(n, s) == \/ s = 0 \/ s = auth[n]
              \/ \E p \in polls : p.ns = n /\ p.serial = s
              \/ \E r \in reports : r.ns = n /\ r.serial = s

\* The cache gets what was told
CacheKeep == /\ CacheSound'
             /\ \A n \in Nameservers : \A a \in Actions :
                   \/ cache'[n][a] \in {None, cache[n][a]}
                   \/ Told(n, cache'[n][a].serial)

LEMMA CacheStep ==
    ASSUME Sound, Next
    PROVE  CacheKeep
<1> USE DEF CacheKeep, Told
<1>0. CacheSound /\ ServersSound /\ RepsSound /\ CallsSound
    BY DEF Sound
<1>1. CASE UNCHANGED <<cache>>
    BY <1>0, <1>1 DEF CacheSound
<1>2. ASSUME NEW n \in Nameservers, NEW a \in Actions, Expire(n, a)
      PROVE  CacheKeep
  <2>1. None \in Status \cup {None} /\ cache' = [cache EXCEPT ![n][a] = None]
    BY <1>2 DEF Expire
  <2>2. CacheSound'
    BY <1>0, <2>1, CacheSet
  <2>3. \A o \in Nameservers : \A b \in Actions : cache'[o][b] \in {None, cache[o][b]}
    BY <1>0, <2>1 DEF CacheSound
  <2> QED BY <2>2, <2>3
<1>3. ASSUME NEW m \in Managers, NEW n \in Nameservers, SendPoll(m, n)
      PROVE  CacheKeep
  <2>1. CacheAction(job[m].op) \in Actions
    BY DEF CacheAction, Actions
  <2>2. cache' = cache \/ cache' = [cache EXCEPT ![n][CacheAction(job[m].op)] = NewStatus]
    BY <1>3 DEF SendPoll
  <2> QED BY <1>0, <1>1, <2>1, <2>2, CacheSet, StatusFacts DEF NewStatus
<1>4. ASSUME NEW m \in Managers, NEW r \in reports, TakeReport(m, r)
      PROVE  CacheKeep
  <2> DEFINE a   == ActionOf(r.zone)
             old == IF cache[r.ns][a] = None THEN NewStatus ELSE cache[r.ns][a]
             new == IF r.serial # 0 /\ old.serial <= r.serial
                    THEN [status |-> r.status, serial |-> r.serial] ELSE old
  <2>1. a \in Actions /\ r \in Report /\ r.ns \in Nameservers
    BY <1>0, TakeFacts DEF Report
  <2>2. old \in Status
    BY <1>0, TakeFacts, StatusFacts
  <2>3. [status |-> r.status, serial |-> r.serial] \in Status
    BY <2>1 DEF Report, Status
  <2>4. new \in Status \cup {None}
    BY <2>2, <2>3
  <2>5. cache' = [cache EXCEPT ![r.ns][a] = new]
    BY <1>4 DEF TakeReport
  <2>6. new = cache[r.ns][a] \/ new.serial = 0 \/ new.serial = r.serial
    BY DEF NewStatus
  <2> HIDE DEF a, new
  <2>7. CacheSound'
    BY <1>0, <2>1, <2>4, <2>5, CacheSet
  <2>8. \A o \in Nameservers : \A b \in Actions :
           cache'[o][b] = cache[o][b] \/ (o = r.ns /\ b = a /\ cache'[o][b] = new)
    BY <1>0, <2>1, <2>5 DEF CacheSound
  <2> QED BY <2>6, <2>7, <2>8
<1>5. ASSUME NEW m \in Managers, NEW lost \in SUBSET Nameservers, Consensus(m, lost)
      PROVE  CacheKeep
  <2>1. rep[m].pc # "idle" /\ cache' = Recache(m, lost)
    BY <1>5 DEF Consensus
  <2> QED BY <1>0, <2>1, RecacheFacts DEF CacheSound
<1>6. ASSUME NEW m \in Managers, NEW lost \in SUBSET Nameservers, ReportError(m, lost)
      PROVE  CacheKeep
  <2>1. rep[m].pc # "idle" /\ cache' = Recache(m, lost)
    BY <1>6 DEF ReportError
  <2> QED BY <1>0, <2>1, RecacheFacts DEF CacheSound
<1>7. ASSUME NEW m \in Managers, NEW lost \in SUBSET Nameservers, ClearCache(m, lost)
      PROVE  CacheKeep
  <2>1. rep[m].pc # "idle" /\ Act(m) \in Actions
    BY <1>0, <1>7, MsgFacts DEF ClearCache
  <2>2. CASE cache' = [n \in Nameservers |-> [cache[n] EXCEPT ![Act(m)] = None]]
    BY <1>0, <2>1, <2>2 DEF CacheSound
  <2>3. CASE cache' = Recache(m, lost)
    <3>1. CacheSound'
        BY <1>0, <2>1, <2>3, RecacheFacts DEF CacheSound
    <3>2. \A n \in Nameservers : \A a \in Actions :
             cache'[n][a] = cache[n][a] \/ cache'[n][a].serial = auth[n]
        BY <1>0, <2>1, <2>3, RecacheFacts
    <3> QED BY <3>1, <3>2
  <2> QED BY <1>1, <1>7, <2>2, <2>3 DEF ClearCache
<1> QED BY CacheMove, <1>1, <1>2, <1>3, <1>4, <1>5, <1>6, <1>7

\* One handler is replaced
LEMMA JobSet ==
    ASSUME JobsSound, NEW m \in Managers, NEW j \in Job, JobSound(j),
           job' = [job EXCEPT ![m] = j]
    PROVE  JobsSound'
BY DEF JobsSound, JobSound

LEMMA NoJobFacts == NoJob \in Job /\ JobSound(NoJob)
<1>1. /\ Cardinality({}) = 0
      /\ Cardinality(Targets) \in Nat
    BY FS_CardinalityType, FS_EmptySet
<1> QED BY <1>1 DEF NoJob, Job, JobSound

LEMMA NewJobFacts ==
    ASSUME NEW op \in {"create", "update", "delete", "sync"}, NEW z \in Row, NEW k \in Nat
    PROVE  NewJob(op, z, k) \in Job /\ JobSound(NewJob(op, z, k))
<1>1. Cardinality(Targets) \in Nat
    BY FS_CardinalityType
<1> QED BY <1>1 DEF NewJob, Job, JobSound

\* The next target is one of those left, and it is taken off the list
LEMMA TargetFacts ==
    ASSUME JobsSound, NEW m \in Managers, NEW t, AtTarget(m, t)
    PROVE  /\ job[m] \in Job /\ JobSound(job[m]) /\ job[m].op # "idle"
           /\ t \in job[m].todo
           /\ Cardinality(job[m].todo) \in Nat
           /\ Cardinality(job[m].todo \ {t}) = Cardinality(job[m].todo) - 1
           /\ Cardinality(job[m].todo \ {t}) \in Nat
<1>1. job[m] \in Job /\ JobSound(job[m])
    BY DEF JobsSound
<1>2. job[m].phase = "targets" /\ job[m].todo # {} /\ t \in job[m].todo
    BY DEF AtTarget
<1>3. IsFiniteSet(job[m].todo)
    BY <1>1, <1>2, FS_Subset DEF JobSound
<1>4. /\ IsFiniteSet(job[m].todo \ {t})
      /\ Cardinality(job[m].todo \ {t}) = Cardinality(job[m].todo) - 1
    BY <1>2, <1>3, FS_RemoveElement
<1>5. Cardinality(job[m].todo) \in Nat /\ Cardinality(job[m].todo \ {t}) \in Nat
    BY <1>3, <1>4, FS_CardinalityType
<1> QED BY <1>1, <1>2, <1>4, <1>5 DEF JobSound

LEMMA ToServersFacts ==
    ASSUME JobsSound, NEW m \in Managers, TargetsDone(m), job' = ToServers(m)
    PROVE  JobsSound' /\ job'[m].op = job[m].op
<1>1. job[m] \in Job /\ JobSound(job[m]) /\ job[m].zone \in Row
    BY DEF JobsSound, JobSound, TargetsDone
<1> DEFINE z == [job[m].zone EXCEPT !.serial = IF job[m].op = "delete" THEN 0 ELSE @]
           j == [job[m] EXCEPT !.phase = "servers", !.todo = Nameservers, !.zone = z]
<1>2. z \in Row
    BY <1>1 DEF Row, Serials
<1>3. job' = [job EXCEPT ![m] = j]
    BY <1>1 DEF ToServers, JobsSound, Job
<1> HIDE DEF z
<1>4. j \in Job /\ JobSound(j) /\ j.op = job[m].op
    BY <1>1, <1>2 DEF Job, JobSound, TargetsDone
<1> HIDE DEF j
<1> QED BY <1>3, <1>4, JobSet DEF JobsSound

LEMMA RetriedFacts ==
    ASSUME JobsSound, NEW m \in Managers, TargetsDone(m), job' = Retried(m)
    PROVE  JobsSound' /\ job'[m].op \in {"sync", "idle"}
<1>1. job[m] \in Job /\ job[m].zone \in Row /\ job[m].attempt + 1 \in Nat
    BY DEF JobsSound, JobSound, TargetsDone, Job
<1>2. CASE job' = [job EXCEPT ![m] = NewJob("sync", job[m].zone, job[m].attempt + 1)]
    BY <1>1, <1>2, JobSet, NewJobFacts DEF JobsSound, NewJob
<1>3. CASE job' = [job EXCEPT ![m] = NoJob]
    BY <1>3, JobSet, NoJobFacts DEF JobsSound, NoJob
<1> QED BY <1>2, <1>3 DEF Retried

\* A handler gets the order to delete only from the queue
JobsKeep == /\ JobsSound'
            /\ \A m \in Managers : job'[m].op = "delete" =>
                  job[m].op = "delete" \/ \E q \in queue : q.op = "delete"

LEMMA JobsStep ==
    ASSUME Sound, Next
    PROVE  JobsKeep
<1> USE DEF JobsKeep
<1>0. JobsSound /\ CallsSound /\ RowsSound /\ job \in [Managers -> Job]
    BY DEF Sound, JobsSound
<1>1. CASE UNCHANGED <<job>>
    BY <1>0, <1>1 DEF JobsSound, JobSound
<1>2. ASSUME NEW m \in Managers, PeriodicSync(m)
      PROVE  JobsKeep
  <2>1. job' = [job EXCEPT ![m] = NewJob("sync", zone, 1)]
    BY <1>2 DEF PeriodicSync
  <2>2. NewJob("sync", zone, 1) \in Job /\ JobSound(NewJob("sync", zone, 1))
    BY <1>0, NewJobFacts DEF RowsSound
  <2>3. NewJob("sync", zone, 1).op = "sync"
    BY DEF NewJob
  <2> QED BY <1>0, <2>1, <2>2, <2>3, JobSet
<1>3. ASSUME NEW m \in Managers, NEW q \in queue, StartJob(m, q)
      PROVE  JobsKeep
  <2>1. job' = [job EXCEPT ![m] = NewJob(q.op, q.zone, 0)]
    BY <1>3 DEF StartJob
  <2>2. q.op \in {"create", "update", "delete"} /\ q.zone \in Row
    BY <1>0 DEF CallsSound, Cast
  <2>3. NewJob(q.op, q.zone, 0) \in Job /\ JobSound(NewJob(q.op, q.zone, 0))
    BY <2>2, NewJobFacts
  <2>4. NewJob(q.op, q.zone, 0).op = q.op
    BY DEF NewJob
  <2> QED BY <1>0, <2>1, <2>3, <2>4, JobSet
<1>4. ASSUME NEW m \in Managers, NEW t \in Targets, BackendOk(m, t) \/ BackendFails(m, t)
      PROVE  JobsKeep
  <2>1. /\ job[m] \in Job /\ JobSound(job[m])
        /\ Cardinality(job[m].todo) \in Nat
        /\ Cardinality(job[m].todo \ {t}) = Cardinality(job[m].todo) - 1
        /\ Cardinality(job[m].todo \ {t}) \in Nat
        /\ job[m].phase = "targets" /\ job[m].op # "idle"
    BY <1>0, <1>4, TargetFacts DEF BackendOk, BackendFails, AtTarget
  <2>2. Cardinality(Targets) \in Nat
    BY FS_CardinalityType
  <2> DEFINE done(k) == [job[m] EXCEPT !.todo = @ \ {t}, !.tries = 0, !.ok = @ + k]
             again   == [job[m] EXCEPT !.tries = @ + 1]
  <2>3. \/ \E k \in {0, 1} : job' = [job EXCEPT ![m] = done(k)]
        \/ job' = [job EXCEPT ![m] = again]
    <3>1. CASE BackendOk(m, t)
        BY <1>0, <2>1, <3>1 DEF BackendOk, JobsSound, Job
    <3>2. CASE BackendFails(m, t)
      <4>1. CASE job' = [job EXCEPT ![m].tries = @ + 1]
        BY <1>0, <2>1, <4>1 DEF Job
      <4>2. CASE job' = [job EXCEPT ![m].todo = @ \ {t}, ![m].tries = 0]
        <5>1. job[m].ok + 0 = job[m].ok
            BY <2>1 DEF Job
        <5>2. done(0) = [job[m] EXCEPT !.todo = @ \ {t}, !.tries = 0]
            BY <2>1, <5>1 DEF Job
        <5>3. job' = [job EXCEPT ![m] = [job[m] EXCEPT !.todo = @ \ {t}, !.tries = 0]]
            BY <1>0, <2>1, <4>2 DEF Job
        <5> HIDE DEF done
        <5> QED BY <5>2, <5>3
      <4> QED BY <3>2, <4>1, <4>2 DEF BackendFails
    <3> QED BY <1>4, <3>1, <3>2
  <2>4. again \in Job /\ JobSound(again) /\ again.op = job[m].op
    BY <2>1 DEF Job, JobSound
  <2>5. ASSUME NEW k \in {0, 1}
        PROVE  done(k) \in Job /\ JobSound(done(k)) /\ done(k).op = job[m].op
    <3>1. /\ done(k).op = job[m].op /\ done(k).phase = job[m].phase
          /\ done(k).zone = job[m].zone /\ done(k).todo = job[m].todo \ {t}
          /\ done(k).ok = job[m].ok + k /\ job[m].ok \in Nat
        BY <2>1 DEF Job
    <3>j. done(k) \in Job
      <4>1. job[m].todo \ {t} \in SUBSET (Targets \cup Nameservers) /\ job[m].ok + k \in Nat
        BY <2>1 DEF Job
      <4> QED BY <2>1, <4>1 DEF Job
    <3> HIDE DEF done
    <3>2. done(k).todo \subseteq Targets
        BY <2>1, <3>1 DEF JobSound
    <3>3. job[m].ok + Cardinality(job[m].todo) <= Cardinality(Targets)
        BY <2>1 DEF JobSound
    <3>4. done(k).ok + Cardinality(done(k).todo) <= Cardinality(Targets)
        BY <2>1, <2>2, <3>1, <3>3
    <3>5. done(k).ok <= Cardinality(Targets)
        BY <2>1, <2>2, <3>1, <3>4
    <3> QED BY <2>1, <3>1, <3>j, <3>2, <3>4, <3>5 DEF JobSound
  <2> HIDE DEF done, again
  <2> QED BY <1>0, <2>3, <2>4, <2>5, JobSet
<1>5. ASSUME NEW m \in Managers, Propagate(m) \/ NoConsensus(m) \/ ZoneGone(m)
      PROVE  JobsKeep
  <2>1. TargetsDone(m) /\ (job' = ToServers(m) \/ job' = Retried(m))
    BY <1>5 DEF Propagate, NoConsensus, ZoneGone
  <2>2. JobsSound' /\ (job'[m].op = "delete" => job[m].op = "delete")
    BY <1>0, <2>1, ToServersFacts, RetriedFacts
  <2>3. \A o \in Managers : o # m => job'[o] = job[o]
    BY <1>0, <2>1 DEF ToServers, Retried
  <2> QED BY <2>2, <2>3
<1>6. ASSUME NEW m \in Managers, NEW n \in Nameservers, SendPoll(m, n)
      PROVE  JobsKeep
  <2> DEFINE j == [job[m] EXCEPT !.todo = @ \ {n}]
  <2>1. job' = [job EXCEPT ![m] = NoJob] \/ job' = [job EXCEPT ![m] = j]
    <3>1. CASE job[m].todo = {n}
        BY <1>0, <1>6, <3>1 DEF SendPoll
    <3>2. CASE job[m].todo # {n}
        BY <1>0, <1>6, <3>2 DEF SendPoll
    <3> QED BY <3>1, <3>2
  <2>2. j \in Job /\ JobSound(j) /\ j.op = job[m].op
    BY <1>0, <1>6 DEF SendPoll, Job, JobSound, JobsSound
  <2>3. NoJob.op = "idle"
    BY DEF NoJob
  <2> HIDE DEF j
  <2> QED BY <1>0, <2>1, <2>2, <2>3, JobSet, NoJobFacts
<1>7. ASSUME NEW m \in Managers, Restart(m)
      PROVE  JobsKeep
  <2>1. job' = [job EXCEPT ![m] = NoJob] /\ NoJob.op = "idle"
    BY <1>7 DEF Restart, NoJob
  <2> QED BY <1>0, <2>1, JobSet, NoJobFacts
<1> QED BY JobsMove, <1>1, <1>2, <1>3, <1>4, <1>5, <1>6, <1>7

LEMMA RepSet ==
    ASSUME RepsSound, NEW m \in Managers, NEW r \in Rep,
           r.pc # "idle" => r.msg \in Report, rep' = [rep EXCEPT ![m] = r]
    PROVE  RepsSound'
BY DEF RepsSound

LEMMA NoRepFacts == NoRep \in Rep /\ NoRep.pc = "idle" /\ NoRep.consensus = 0
BY DEF NoRep, Rep, Serials

\* A handler that goes on keeps its message
LEMMA RepGoes ==
    ASSUME RepsSound, NEW m \in Managers, rep[m].pc # "idle",
           NEW pc \in {"success", "error", "nozone", "clear"}, NEW c \in Serials,
           rep' = [rep EXCEPT ![m].pc = pc, ![m].consensus = c]
    PROVE  RepsSound'
<1> DEFINE r == [rep[m] EXCEPT !.pc = pc, !.consensus = c]
<1>1. rep[m] \in Rep /\ rep[m].msg \in Report
    BY DEF RepsSound
<1>2. rep' = [rep EXCEPT ![m] = r]
    BY <1>1 DEF RepsSound, Rep
<1>3. r \in Rep /\ r.msg \in Report
    BY <1>1 DEF Rep
<1> HIDE DEF r
<1> QED BY <1>2, <1>3, RepSet

\* A consensus is computed from what is retrieved, or it is the one of before
RepMoved(m) ==
    \/ rep'[m].consensus = 0 /\ rep'[m].pc # "success"
    \/ /\ rep'[m].consensus = rep[m].consensus
       /\ rep'[m].pc = "success" => rep[m].pc = "success"
    \/ \E lost \in SUBSET Nameservers :
          /\ rep[m].pc # "idle"
          /\ rep'[m].consensus = ConsensusSerial(Retrieve(m, lost))
          /\ rep'[m].pc = "success" => rep'[m].consensus # 0
RepsKeep == RepsSound' /\ \A m \in Managers : RepMoved(m)

LEMMA RepsStep ==
    ASSUME Sound, Next
    PROVE  RepsKeep
<1> USE DEF RepsKeep, RepMoved
<1>0. RepsSound /\ CacheSound /\ CallsSound /\ ServersSound /\ rep \in [Managers -> Rep]
    BY DEF Sound, RepsSound
<1>1. CASE UNCHANGED <<rep>>
    BY <1>0, <1>1 DEF RepsSound
\* The handler ends
<1>2. ASSUME NEW m \in Managers, rep' = [rep EXCEPT ![m] = NoRep]
      PROVE  RepsKeep
    BY <1>0, <1>2, RepSet, NoRepFacts
\* The handler goes on with the consensus it has
<1>3. ASSUME NEW m \in Managers, rep[m].pc # "idle", NEW pc \in {"error", "nozone", "clear"},
             rep' = [rep EXCEPT ![m].pc = pc]
      PROVE  RepsKeep
  <2>1. rep[m] \in Rep /\ rep[m].consensus \in Serials
    BY <1>0 DEF Rep
  <2>2. rep' = [rep EXCEPT ![m].pc = pc, ![m].consensus = rep[m].consensus]
    BY <1>0, <1>3, <2>1 DEF Rep
  <2>3. RepsSound'
    BY <1>0, <1>3, <2>1, <2>2, RepGoes
  <2>4. \A o \in Managers : o # m => rep'[o] = rep[o]
    BY <1>0, <1>3
  <2>5. rep'[m].pc = pc /\ rep'[m].consensus = rep[m].consensus
    BY <1>0, <1>3, <2>1 DEF Rep
  <2> QED BY <1>3, <2>3, <2>4, <2>5
<1>4. ASSUME NEW m \in Managers, NEW r \in reports, TakeReport(m, r)
      PROVE  RepsKeep
  <2> DEFINE a   == ActionOf(r.zone)
             old == IF cache[r.ns][a] = None THEN NewStatus ELSE cache[r.ns][a]
             new == [pc |-> "consensus", msg |-> r, seen |-> old.serial, consensus |-> 0]
  <2>1. old \in Status /\ r \in Report
    BY <1>0, TakeFacts, StatusFacts
  <2>2. rep' = [rep EXCEPT ![m] = new]
    BY <1>4 DEF TakeReport
  <2>3. old.serial \in Serials /\ 0 \in Serials
    BY <2>1 DEF Status, Serials
  <2> HIDE DEF old
  <2>4. new \in Rep /\ new.msg \in Report /\ new.consensus = 0 /\ new.pc = "consensus"
    BY <2>1, <2>3 DEF Rep
  <2> HIDE DEF new
  <2> QED BY <1>0, <2>2, <2>4, RepSet
<1>5. ASSUME NEW m \in Managers, NEW lost \in SUBSET Nameservers, Consensus(m, lost)
      PROVE  RepsKeep
  <2> DEFINE c == ConsensusSerial(Retrieve(m, lost))
             pc == IF c # 0 /\ rep[m].seen <= c /\ Msg(m).zone.status # "ACTIVE"
                   THEN "success" ELSE AfterSuccess(m)
  <2>1. rep[m].pc # "idle" /\ rep[m] \in Rep
    BY <1>0, <1>5 DEF Consensus
  <2>2. c \in Serials
    BY <1>0, <2>1, RetrieveFacts, ConsensusFacts
  <2>3. pc \in {"success", "error", "nozone", "clear"} /\ (pc = "success" => c # 0)
    BY DEF AfterSuccess
  <2>4. rep' = [rep EXCEPT ![m].consensus = c, ![m].pc = pc]
    BY <1>5 DEF Consensus
  <2>5. c = ConsensusSerial(Retrieve(m, lost))
    OBVIOUS
  <2> HIDE DEF c, pc
  <2>6. rep' = [rep EXCEPT ![m].pc = pc, ![m].consensus = c]
    BY <1>0, <2>1, <2>4 DEF Rep
  <2>7. RepsSound'
    BY <1>0, <2>1, <2>2, <2>3, <2>6, RepGoes
  <2>8. rep'[m].pc = pc /\ rep'[m].consensus = c
    BY <1>0, <2>1, <2>6 DEF Rep
  <2>9. \A o \in Managers : o # m => rep'[o] = rep[o]
    BY <1>0, <2>6
  <2> QED BY <2>1, <2>3, <2>5, <2>7, <2>8, <2>9
<1>6. ASSUME NEW m \in Managers, ReportSuccess(m)
      PROVE  RepsKeep
  <2>1. AfterSuccess(m) \in {"error", "nozone", "clear"} /\ rep[m].pc # "idle"
    BY <1>6 DEF AfterSuccess, ReportSuccess
  <2>2. \/ rep' = [rep EXCEPT ![m].pc = AfterSuccess(m)]
        \/ rep' = [rep EXCEPT ![m] = NoRep]
    BY <1>6 DEF ReportSuccess, CallCentral
  <2> QED BY <1>2, <1>3, <2>1, <2>2
<1>7. ASSUME NEW m \in Managers, ReportNoZone(m)
      PROVE  RepsKeep
  <2>1. \/ rep' = [rep EXCEPT ![m].pc = "clear"]
        \/ rep' = [rep EXCEPT ![m] = NoRep]
    BY <1>7 DEF ReportNoZone, CallCentral
  <2> QED BY <1>2, <1>3, <1>7, <2>1 DEF ReportNoZone
<1>8. ASSUME NEW m \in Managers, NEW lost \in SUBSET Nameservers, ReportError(m, lost)
      PROVE  RepsKeep
  <2>1. \/ rep' = [rep EXCEPT ![m].pc = "clear"]
        \/ rep' = [rep EXCEPT ![m] = NoRep]
    BY <1>8 DEF ReportError, CallCentral, Finish
  <2> QED BY <1>2, <1>3, <1>8, <2>1 DEF ReportError
<1>9. ASSUME NEW m \in Managers, NEW lost \in SUBSET Nameservers, ClearCache(m, lost)
      PROVE  RepsKeep
    BY <1>2, <1>9 DEF ClearCache
<1>10. ASSUME NEW m \in Managers, Restart(m)
       PROVE  RepsKeep
    BY <1>2, <1>10 DEF Restart
<1> QED BY RepsMove, <1>1, <1>4, <1>5, <1>6, <1>7, <1>8, <1>9, <1>10

\* An answer has the serial of the poll or the one the nameserver has
LEMMA AnswerFacts ==
    ASSUME ServersSound, NEW p \in Poll
    PROVE  /\ Answer(p) \in Poll /\ Answer(p).ns = p.ns
           /\ Answer(p).serial \in {p.serial, auth[p.ns]}
BY DEF ServersSound, Poll, PollStatuses, Answer

\* Only a zone on its way out is cast for deletion
CallsKeep == /\ CallsSound'
             /\ \A q \in queue' : q.op = "delete" => q \in queue \/ Doomed
             /\ \A p \in polls' : Told(p.ns, p.serial)
             /\ \A r \in reports' : Told(r.ns, r.serial)

LEMMA CallsStep ==
    ASSUME Sound, Next
    PROVE  CallsKeep
<1> USE DEF CallsKeep
<1>0. /\ CallsSound /\ ServersSound /\ JobsSound /\ zone \in Row
      /\ \A p \in polls : Told(p.ns, p.serial)
      /\ \A r \in reports : Told(r.ns, r.serial)
    BY DEF Sound, RowsSound, Told
<1>1. CASE UNCHANGED <<queue, polls, reports>>
    BY <1>0, <1>1 DEF CallsSound
<1>2. CASE SyncZone
  <2>1. [op |-> "update", zone |-> zone] \in Cast
    BY <1>0 DEF Cast
  <2> QED BY <1>0, <1>2, <2>1 DEF SyncZone, CallsSound
<1>3. ASSUME NEW m \in Managers, PeriodicRecovery(m)
      PROVE  CallsKeep
  <2>1. ASSUME NEW a \in Actions, Failed(a)
        PROVE  /\ [op |-> OpOf(a), zone |-> zone] \in Cast
               /\ OpOf(a) = "delete" => Doomed
    BY <1>0, <2>1 DEF Actions, Failed, OpOf, Cast, Doomed
  <2> QED BY <1>0, <1>3, <2>1 DEF PeriodicRecovery, CallsSound
<1>4. ASSUME NEW m \in Managers, NEW q \in queue, StartJob(m, q)
      PROVE  CallsKeep
    BY <1>0, <1>4 DEF StartJob, CallsSound
<1>5. ASSUME NEW m \in Managers, NEW n \in Nameservers, SendPoll(m, n)
      PROVE  CallsKeep
  <2> DEFINE p == [ns |-> n, zone |-> job[m].zone, status |-> "ERROR",
                   serial |-> 0, left |-> MaxRetries]
  <2>1. job[m].zone \in Row
    BY <1>0, <1>5 DEF SendPoll, JobsSound, JobSound
  <2>2. p \in Poll /\ p.serial = 0
    BY <2>1 DEF Poll, PollStatuses, Serials
  <2>3. polls' = polls \cup {p} /\ UNCHANGED <<queue, reports>>
    BY <1>5 DEF SendPoll
  <2> HIDE DEF p
  <2>4. Told(p.ns, p.serial)
    BY <2>2 DEF Told
  <2> QED BY <1>0, <2>2, <2>3, <2>4 DEF CallsSound
<1>6. ASSUME NEW p \in polls, Query(p)
      PROVE  CallsKeep
  <2>1. p \in Poll
    BY <1>0 DEF CallsSound
  <2>2. PICK used \in 1..p.left, q \in {Answer(p), p} :
           LET r == [q EXCEPT !.left = p.left - used]
           IN  \/ /\ polls' = polls \ {p}
                  /\ reports' = reports \cup {ToReport(r)}
               \/ /\ polls' = (polls \ {p}) \cup {r}
                  /\ UNCHANGED reports
    BY <1>6 DEF Query
  <2> DEFINE r == [q EXCEPT !.left = p.left - used]
  <2>3. q \in Poll /\ q.ns = p.ns /\ Told(q.ns, q.serial)
    BY <1>0, <2>1, AnswerFacts DEF Told
  <2>4. p.left - used \in 0..MaxRetries
    BY <2>1 DEF Poll
  <2>5. r \in Poll /\ r.ns = q.ns /\ r.serial = q.serial
    BY <2>3, <2>4 DEF Poll
  <2>6. ToReport(r) \in Report /\ ToReport(r).ns = r.ns /\ ToReport(r).serial = r.serial
    <3> HIDE DEF r
    <3> QED BY <2>5 DEF ToReport, Poll, Report
  <2>7. \/ /\ polls' = polls \ {p}
           /\ reports' = reports \cup {ToReport(r)}
        \/ /\ polls' = (polls \ {p}) \cup {r}
           /\ UNCHANGED reports
    BY <2>2
  <2>8. UNCHANGED queue
    BY <1>6 DEF Query
  <2> HIDE DEF r
  <2> QED BY <1>0, <2>3, <2>5, <2>6, <2>7, <2>8 DEF CallsSound
<1>7. ASSUME NEW p \in polls, PollLost(p)
      PROVE  CallsKeep
    BY <1>0, <1>7 DEF PollLost, CallsSound
<1>8. ASSUME NEW m \in Managers, NEW r \in reports, TakeReport(m, r)
      PROVE  CallsKeep
    BY <1>0, <1>8 DEF TakeReport, CallsSound
<1> QED BY CallsMove, <1>1, <1>2, <1>3, <1>4, <1>5, <1>6, <1>7, <1>8

LEMMA LeadersStep ==
    ASSUME Sound, Next
    PROVE  LeadersSound'
<1>0. LeadersSound
    BY DEF Sound
<1>1. CASE UNCHANGED <<holder, leading, timers, faults>>
    BY <1>0, <1>1 DEF LeadersSound
<1>f. \A k : Fault(k) => faults' \in 0..MaxFaults
    BY <1>0 DEF LeadersSound, Fault
<1>2. ASSUME NEW n \in Nameservers, NEW a \in Actions, Expire(n, a)
      PROVE  LeadersSound'
    BY <1>0, <1>2, <1>f DEF LeadersSound, Expire, election
<1>3. ASSUME NEW p \in polls, Query(p) \/ PollLost(p)
      PROVE  LeadersSound'
    BY <1>0, <1>3, <1>f DEF LeadersSound, Query, PollLost, NoFault, election
<1>4. ASSUME NEW m \in Managers, Elected(m)
      PROVE  LeadersSound'
    BY <1>0, <1>4 DEF LeadersSound, Elected
<1>5. ASSUME NEW m \in Managers, ZoneGone(m)
      PROVE  LeadersSound'
    BY <1>0, <1>5 DEF LeadersSound, ZoneGone
<1>6. ASSUME NEW m \in Managers, NEW t \in Targets, BackendFails(m, t)
      PROVE  LeadersSound'
    BY <1>0, <1>6, <1>f DEF LeadersSound, BackendFails, election
<1>7. ASSUME NEW m \in Managers, LoseSession(m) \/ Restart(m)
      PROVE  LeadersSound'
    BY <1>0, <1>7, <1>f DEF LeadersSound, LoseSession, Restart
<1>8. ASSUME NEW m \in Managers, NEW lost \in SUBSET Nameservers,
             Consensus(m, lost) \/ ReportError(m, lost) \/ ClearCache(m, lost)
      PROVE  LeadersSound'
  <2>1. UNCHANGED <<holder, leading, timers>>
    BY <1>8 DEF Consensus, ReportError, ClearCache, election
  <2>2. faults' = faults \/ Fault("rpc")
    BY <1>8 DEF Consensus, ReportError, ClearCache, Losing, NoFault
  <2> QED BY <1>0, <1>f, <2>1, <2>2 DEF LeadersSound
<1> QED BY LeadersMove, <1>1, <1>2, <1>3, <1>4, <1>5, <1>6, <1>7, <1>8

-----------------------------------------------------------------------------
(* Every step keeps Honest                                                 *)

\* What enough nameservers have reached they have reached for good
LEMMA ReachedMore ==
    ASSUME auth \in [Nameservers -> Serials], auth' \in [Nameservers -> Serials],
           \A n \in Nameservers : auth[n] <= auth'[n],
           NEW s \in Serials, NEW t \in Serials, t <= s, Reached(s)
    PROVE  Meets(Cardinality({n \in Nameservers : auth'[n] >= t}), Threshold)
<1> DEFINE B == {n \in Nameservers : auth'[n] >= t}
<1>1. At(s) \subseteq B
    BY DEF At, Serials
<1>2. At(s) \subseteq Nameservers /\ B \subseteq Nameservers
    BY DEF At
<1> HIDE DEF B
<1>3. IsFiniteSet(At(s)) /\ IsFiniteSet(B)
    BY <1>2, FS_Subset
<1>4. Cardinality(At(s)) \in Nat /\ Cardinality(B) \in Nat
    BY <1>3, FS_CardinalityType
<1>5. Cardinality(At(s)) <= Cardinality(B)
    BY <1>1, <1>3, FS_Subset
<1>6. Meets(Cardinality(B), Threshold)
    BY <1>4, <1>5, MeetsMore DEF Reached
<1> QED BY <1>6 DEF B

\* A consensus over a cache that is true is reached
LEMMA ConsensusReached ==
    ASSUME Sound, CacheIsTrue, NEW m \in Managers, rep[m].pc # "idle",
           NEW lost \in SUBSET Nameservers,
           ConsensusSerial(Retrieve(m, lost)) # 0
    PROVE  Reached(ConsensusSerial(Retrieve(m, lost)))
<1> DEFINE sts == Retrieve(m, lost)
           c   == ConsensusSerial(sts)
           have == {n \in DOMAIN sts : sts[n].serial >= c}
<1>0. Act(m) \in Actions
    BY MsgFacts DEF Sound
<1>1. sts \in [Nameservers \ lost -> Status]
    BY RetrieveFacts DEF Sound
<1>2. \A n \in Nameservers \ lost : sts[n].serial <= auth[n]
  <2>1. \A n \in Nameservers \ lost :
           sts[n].serial = auth[n] \/ (cache[n][Act(m)] # None /\ sts[n] = cache[n][Act(m)])
    BY RetrieveFacts DEF Sound
  <2>2. \A n \in Nameservers : auth[n] \in Nat
    BY DEF Sound, ServersSound, Serials
  <2> QED BY <1>0, <2>1, <2>2 DEF CacheIsTrue
<1> HIDE DEF sts
<1>3. c \in Serials /\ Meets(Cardinality(have), Threshold)
    BY <1>1, ConsensusFacts DEF AtLeast, sts
<1> HIDE DEF c
<1>4. have \subseteq At(c)
  <2>1. \A n \in Nameservers \ lost : sts[n].serial \in Serials /\ auth[n] \in Serials
    BY <1>1 DEF Status, Sound, ServersSound
  <2> QED BY <1>1, <1>2, <1>3, <2>1 DEF At, Serials
<1> HIDE DEF have
<1>5. IsFiniteSet(At(c)) /\ IsFiniteSet(have)
  <2>1. At(c) \subseteq Nameservers
    BY DEF At
  <2>2. IsFiniteSet(At(c))
    BY <2>1, FS_Subset
  <2> QED BY <1>4, <2>2, FS_Subset
<1>6. Cardinality(have) <= Cardinality(At(c))
    BY <1>4, <1>5, FS_Subset
<1>7. Cardinality(have) \in Nat /\ Cardinality(At(c)) \in Nat
    BY <1>5, FS_CardinalityType
<1>8. Reached(c)
    BY <1>3, <1>6, <1>7, MeetsMore DEF Reached
<1> QED BY <1>8 DEF c, sts

\* Nobody takes the zone from a target while it is not on its way out
LEMMA TargetsStay ==
    ASSUME Sound, NobodyDeletes, Next
    PROVE  /\ \A n \in Nameservers : auth[n] <= auth'[n]
           /\ \A n \in Nameservers : auth'[n] # 0 => TargetOf[n] \in prov'
<1>0. /\ auth \in [Nameservers -> Serials] /\ prov \subseteq Targets
      /\ \A n \in Nameservers : auth[n] \in Nat /\ auth[n] <= zone.serial
      /\ zone.serial \in Nat
    BY DEF Sound, ServersSound, RowsSound, Row, Serials
<1>1. CASE auth' = auth /\ prov \subseteq prov'
    BY <1>0, <1>1 DEF NobodyDeletes
<1>2. CASE UNCHANGED <<aged, prov, auth>> \/ UpdateZone \/ TouchZone \/ Age
    BY <1>1, <1>2 DEF UpdateZone, TouchZone, Age
<1>3. ASSUME NEW n \in Nameservers, Transfer(n)
      PROVE  /\ \A o \in Nameservers : auth[o] <= auth'[o]
             /\ \A o \in Nameservers : auth'[o] # 0 => TargetOf[o] \in prov'
  <2>1. prov' = prov
    BY <1>3 DEF Transfer
  <2>2. CASE TargetOf[n] \in prov /\ auth' = [auth EXCEPT ![n] = zone.serial]
    BY <1>0, <2>1, <2>2 DEF NobodyDeletes
  <2>3. CASE TargetOf[n] \notin prov /\ auth' = [auth EXCEPT ![n] = 0]
    BY <1>0, <2>1, <2>3 DEF NobodyDeletes
  <2> QED BY <1>3, <2>2, <2>3 DEF Transfer
<1>4. ASSUME NEW m \in Managers, NEW t \in Targets, BackendOk(m, t) \/ BackendFails(m, t)
      PROVE  auth' = auth /\ prov \subseteq prov'
    BY <1>0, <1>4, ProvisionFacts DEF BackendOk, BackendFails, NobodyDeletes
<1> QED BY ServersMove, <1>1, <1>2, <1>3, <1>4

LEMMA HonestStep ==
    ASSUME Sound, Sound', Honest, Next
    PROVE  Honest'
<1> SUFFICES ASSUME ~Doomed'
             PROVE  /\ NobodyDeletes' /\ CacheIsTrue' /\ AnswersAreTrue'
                    /\ ConsensusIsReached'
    BY DEF Honest
<1>0. /\ ~Doomed
      /\ NobodyDeletes /\ CacheIsTrue /\ AnswersAreTrue
      /\ ConsensusIsReached
    BY RowsStep DEF RowsKeep, Honest
<1>1. /\ auth \in [Nameservers -> Serials] /\ auth' \in [Nameservers -> Serials]
      /\ \A n \in Nameservers : auth[n] \in Nat /\ auth'[n] \in Nat
      /\ zone.serial \in Serials /\ zone'.serial \in Serials
    BY DEF Sound, ServersSound, RowsSound, Row, Serials
<1>2. /\ \A n \in Nameservers : auth[n] <= auth'[n]
      /\ \A n \in Nameservers : auth'[n] # 0 => TargetOf[n] \in prov'
    BY <1>0, TargetsStay
<1>3. NobodyDeletes'
  <2>1. \A q \in queue' : q.op # "delete"
    BY <1>0, CallsStep DEF CallsKeep, NobodyDeletes
  <2>2. \A m \in Managers : job'[m].op # "delete"
    BY <1>0, JobsStep DEF JobsKeep, NobodyDeletes
  <2> QED BY <1>2, <2>1, <2>2 DEF NobodyDeletes
<1>4. ASSUME NEW n \in Nameservers, NEW s \in Serials, Told(n, s)
      PROVE  s <= auth'[n]
  <2>1. s <= auth[n]
    BY <1>0, <1>1, <1>4 DEF Told, AnswersAreTrue
  <2> QED BY <1>1, <1>2, <2>1 DEF Serials
<1>5. CacheIsTrue'
  <2> SUFFICES ASSUME NEW n \in Nameservers, NEW a \in Actions, cache'[n][a] # None
               PROVE  cache'[n][a].serial <= auth'[n]
    BY DEF CacheIsTrue
  <2>1. cache'[n][a].serial \in Serials
    BY DEF Sound, CacheSound, Status
  <2>2. cache'[n][a] = cache[n][a] \/ Told(n, cache'[n][a].serial)
    BY CacheStep DEF CacheKeep
  <2>3. CASE cache'[n][a] = cache[n][a]
    BY <1>0, <1>1, <1>2, <2>1, <2>3 DEF CacheIsTrue, Serials
  <2> QED BY <1>4, <2>1, <2>2, <2>3
<1>6. AnswersAreTrue'
  <2>1. \A p \in polls' : p.ns \in Nameservers /\ p.serial \in Serials
    BY DEF Sound, CallsSound, Poll
  <2>2. \A r \in reports' : r.ns \in Nameservers /\ r.serial \in Serials
    BY DEF Sound, CallsSound, Report
  <2> QED BY <1>4, <2>1, <2>2, CallsStep DEF CallsKeep, AnswersAreTrue
<1>7. ASSUME NEW s \in Serials, NEW t \in Serials, t <= s, Reached(s)
      PROVE  Meets(Cardinality({n \in Nameservers : auth'[n] >= t}), Threshold)
    BY <1>1, <1>2, <1>7, ReachedMore
<1>8. ConsensusIsReached'
  <2> SUFFICES ASSUME NEW m \in Managers
               PROVE  /\ rep'[m].consensus # 0 => Reached(rep[m].consensus)'
                      /\ rep'[m].pc = "success" => rep'[m].consensus # 0
    BY DEF ConsensusIsReached
  <2>1. RepMoved(m)
    BY RepsStep DEF RepsKeep
  <2>2. rep'[m].consensus \in Serials
    BY DEF Sound, RepsSound, Rep
  <2>3. rep'[m].pc = "success" => rep'[m].consensus # 0
    BY <1>0, <2>1 DEF RepMoved, ConsensusIsReached
  <2>4. ASSUME rep'[m].consensus # 0 PROVE Reached(rep'[m].consensus)
    BY <1>0, <2>1, <2>4, ConsensusReached DEF RepMoved, ConsensusIsReached
  <2>5. rep'[m].consensus <= rep'[m].consensus
    BY <2>2 DEF Serials
  <2> QED BY <1>7, <2>2, <2>3, <2>4, <2>5 DEF Reached, At
<1> QED BY <1>3, <1>5, <1>6, <1>8

-----------------------------------------------------------------------------
(* Theorems                                                                *)

LEMMA SoundInit ==
    ASSUME Init
    PROVE  Sound
<1>0. 0 \in Serials /\ 1 \in Serials
    BY DEF Serials
<1>1. /\ zone \in Row /\ zone.serial = 1 /\ Waits(zone)
      /\ (zone.status = "ACTIVE" => zone.action = "NONE")
      /\ prov \subseteq Targets
      /\ auth \in [Nameservers -> Serials] /\ \A n \in Nameservers : auth[n] <= 1
    BY <1>0 DEF Init, Row, RowStatuses, Actions, Waits
<1>7. rec = zone \/ rec = [zone EXCEPT !.status = "DELETED", !.action = "NONE"]
    BY DEF Init
<1>8. rec \in Row /\ rec.serial = 1 /\ Waits(rec)
    BY <1>1, <1>7 DEF Row, RowStatuses, Waits
<1>2. RowsSound
    BY <1>1, <1>8 DEF RowsSound
<1>6. ServersSound
    BY <1>1 DEF Init, ServersSound
<1>3. CacheSound /\ CallsSound /\ LeadersSound
    BY DEF Init, CacheSound, CallsSound, LeadersSound
<1>4. JobsSound
    BY NoJobFacts DEF Init, JobsSound
<1>5. RepsSound
    BY NoRepFacts DEF Init, RepsSound
<1> QED BY <1>2, <1>3, <1>4, <1>5, <1>6 DEF Sound

LEMMA HonestInit ==
    ASSUME Init
    PROVE  Honest
<1>1. NobodyDeletes
    BY DEF Init, NobodyDeletes, NoJob
<1>2. CacheIsTrue /\ AnswersAreTrue
    BY DEF Init, CacheIsTrue, AnswersAreTrue
<1>3. ConsensusIsReached
    BY NoRepFacts DEF Init, ConsensusIsReached
<1> QED BY <1>1, <1>2, <1>3 DEF Honest

LEMMA Stutter ==
    ASSUME Sound, Honest, UNCHANGED vars
    PROVE  Sound' /\ Honest'
<1>1. RowsSound' /\ ServersSound' /\ CacheSound' /\ LeadersSound' /\ CallsSound'
    BY DEF Sound, vars, RowsSound, ServersSound, CacheSound, LeadersSound, CallsSound, Waits
<1>2. JobsSound' /\ RepsSound'
    BY DEF Sound, vars, JobsSound, JobSound, RepsSound
<1>3. Honest'
    BY DEF Honest, vars, Doomed, NobodyDeletes, CacheIsTrue, AnswersAreTrue,
           ConsensusIsReached, Reached, At
<1> QED BY <1>1, <1>2, <1>3 DEF Sound

LEMMA InvariantStep ==
    ASSUME Sound, Honest, Next
    PROVE  Sound' /\ Honest'
<1>1. Sound'
    BY RowsStep, ServersStep, CacheStep, JobsStep, RepsStep, CallsStep, LeadersStep
    DEF Sound, RowsKeep, CacheKeep, JobsKeep, RepsKeep, CallsKeep
<1> QED BY <1>1, HonestStep

LEMMA Invariant == Spec => [](Sound /\ Honest)
<1>1. Init => Sound /\ Honest
    BY SoundInit, HonestInit
<1>2. Sound /\ Honest /\ [Next]_vars => (Sound /\ Honest)'
    BY Stutter, InvariantStep
<1> QED BY <1>1, <1>2, PTL DEF Spec

\* What the manager stores, sends and works on has its type: no handler works
\* without its copy of the zone or its message, and none counts more targets than
\* the pool has, however calls fail, restart or cross each other.
THEOREM TypeCorrect == Spec => []TypeOK
<1>1. Sound => TypeOK
  <2> SUFFICES ASSUME Sound PROVE TypeOK
    OBVIOUS
  <2>1. /\ zone \in Row /\ rec \in Row /\ aged \in BOOLEAN /\ prov \subseteq Targets
        /\ auth \in [Nameservers -> Serials]
        /\ cache \in [Nameservers -> [Actions -> Status \cup {None}]]
        /\ queue \subseteq Cast /\ polls \subseteq Poll /\ reports \subseteq Report
        /\ LeadersSound
    BY DEF Sound, RowsSound, ServersSound, CacheSound, CallsSound
  <2>2. ASSUME NEW m \in Managers
        PROVE  /\ job[m].op \in {"idle", "create", "update", "delete", "sync"}
               /\ job[m].phase \in {"targets", "servers"}
               /\ job[m].zone \in Row \cup {None}
               /\ job[m].ok \in 0..Cardinality(Targets)
    <3>1. Cardinality(Targets) \in Nat
        BY FS_CardinalityType
    <3>2. job[m] \in Job /\ JobSound(job[m])
        BY DEF Sound, JobsSound
    <3> QED BY <3>1, <3>2 DEF Job, JobSound
  <2>3. ASSUME NEW m \in Managers
        PROVE  /\ rep[m].pc \in {"idle", "consensus", "success", "error", "nozone", "clear"}
               /\ rep[m].msg \in Report \cup {None}
    BY DEF Sound, RepsSound, Rep
  <2> QED BY <2>1, <2>2, <2>3 DEF TypeOK, LeadersSound, Cast
<1> QED BY <1>1, Invariant, PTL

\* A success that a manager is about to report is true of a zone that stays
LEMMA SuccessIsServed ==
    ASSUME Sound, Honest, ~Doomed, NEW m \in Managers, NEW s \in Serials,
           rep[m].pc = "success", rep[m].consensus >= s
    PROVE  Served(s)
<1>1. rep[m].consensus \in Serials /\ Reached(rep[m].consensus)
    BY DEF Honest, ConsensusIsReached, Sound, RepsSound, Rep
<1>2. auth \in [Nameservers -> Serials]
    BY DEF Sound, ServersSound
<1> DEFINE c == rep[m].consensus
           B == {n \in Nameservers : auth[n] >= s}
<1>3. At(c) \subseteq B /\ B \subseteq Nameservers
    BY <1>1, <1>2 DEF At, Serials
<1>4. Reached(c)
    BY <1>1
<1> HIDE DEF B, c
<1>5. IsFiniteSet(B) /\ IsFiniteSet(At(c))
    BY <1>3, FS_Subset
<1>6. Cardinality(At(c)) <= Cardinality(B)
    BY <1>3, <1>5, FS_Subset
<1>7. Cardinality(At(c)) \in Nat /\ Cardinality(B) \in Nat
    BY <1>5, FS_CardinalityType
<1>8. Meets(Cardinality(B), Threshold)
    BY <1>4, <1>6, <1>7, MeetsMore DEF Reached
<1> QED BY <1>8 DEF Served, B

\* update_status of central makes a zone ACTIVE only while enough nameservers have
\* its serial: late, lost, repeated or reordered polls and reports, restarts,
\* expired cache entries and several managers at work never settle a change too
\* early.
THEOREM ActiveServed == Spec => ActiveMeansServed
<1>1. ASSUME Sound, Honest, [Next]_vars
      PROVE  [zone.status # "ACTIVE" /\ zone'.status = "ACTIVE" => Served(zone.serial)]_vars
  <2> SUFFICES ASSUME Next, zone.status # "ACTIVE", zone'.status = "ACTIVE"
               PROVE  Served(zone.serial)
    BY <1>1
  <2>1. RowsKeep
    BY <1>1, RowsStep
  <2>2. ~Doomed
    BY <2>1 DEF RowsKeep, RowsSound, Doomed
  <2>3. PICK m \in Managers : rep[m].pc = "success" /\ rep[m].consensus >= zone.serial
    BY <2>1 DEF RowsKeep
  <2>4. zone.serial \in Serials
    BY <1>1 DEF Sound, RowsSound, Row
  <2> QED BY <1>1, <2>2, <2>3, <2>4, SuccessIsServed
<1> QED BY <1>1, Invariant, PTL DEF Spec, ActiveMeansServed

\* The same of the records of the zone, which have serials of their own: until the
\* zone is being deleted, update_status of central makes a record ACTIVE only while
\* enough nameservers have the record's serial, for every pool and however many
\* managers report on it.
THEOREM RecordsServed == Spec => RecordActiveMeansServed
<1>1. ASSUME Sound, Honest, [Next]_vars
      PROVE  [rec.status # "ACTIVE" /\ rec'.status = "ACTIVE"
                 => Served(rec.serial) \/ Doomed]_vars
  <2> SUFFICES ASSUME Next, rec.status # "ACTIVE", rec'.status = "ACTIVE", ~Doomed
               PROVE  Served(rec.serial)
    BY <1>1
  <2>1. PICK m \in Managers : rep[m].pc = "success" /\ rep[m].consensus >= rec.serial
    BY <1>1, RowsStep DEF RowsKeep
  <2>2. rec.serial \in Serials
    BY <1>1 DEF Sound, RowsSound, Row
  <2> QED BY <1>1, <2>1, <2>2, SuccessIsServed
<1> QED BY <1>1, Invariant, PTL DEF Spec, RecordActiveMeansServed

=============================================================================
