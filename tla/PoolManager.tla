---------------------------- MODULE PoolManager ----------------------------
(***************************************************************************)
(* designate-pool-manager: drives the backends of a pool's targets, asks   *)
(* mdns to poll the pool's nameservers, keeps what they answer in a cache  *)
(* shared by all managers of the pool, and tells central the consensus.    *)
(* One zone is followed: cache entries, locks and status reports of        *)
(* different zones never meet.                                             *)
(*                                                                         *)
(* Every manager process runs one create/update/delete handler (job) and   *)
(* one update_status handler (rep, which holds the lock update-status-id)  *)
(* at a time.  Serials count from 1; 0 is both "no serial" and the serial  *)
(* that delete_zone expects.                                               *)
(***************************************************************************)
EXTENDS Naturals, FiniteSets

CONSTANTS
    Managers,     \* pool manager processes
    Targets,      \* pool.targets: the backends that are provisioned
    Nameservers,  \* pool.nameservers: the servers that are polled
    TargetOf,     \* the target that feeds each nameserver
    Threshold,    \* threshold_percentage
    MaxRetries,   \* poll_max_retries
    MaxAttempts,  \* periodic_sync_max_attempts
    MaxSerial,    \* bound on the serial of the zone
    MaxFaults,    \* bound on failing calls, lost polls and lost sessions
    MaxInFlight,  \* bound on the calls under way when a new one is cast
    Faults,       \* the kinds of fault that may happen
    Requests,     \* the operations of the environment that may occur
    None          \* the null value

ASSUME PoolAssumption ==
    /\ IsFiniteSet(Targets) /\ Targets # {}
    /\ IsFiniteSet(Nameservers)
    /\ TargetOf \in [Nameservers -> Targets]
    /\ Threshold \in 1..100
    /\ MaxRetries \in Nat \ {0}
    /\ MaxAttempts \in Nat \ {0}
    /\ MaxSerial \in Nat \ {0}
    /\ MaxFaults \in Nat /\ MaxInFlight \in Nat

VARIABLES
    zone,     \* the row of the zones table
    rec,      \* a row of the records table that belongs to it
    aged,     \* the serial of the zone is older than max_prop_time
    prov,     \* the targets on which the zone is configured
    auth,     \* the serial each nameserver answers, 0 when it has no zone
    cache,    \* pool manager statuses, by nameserver and action
    queue,    \* casts to the pool manager topic: create, update, delete
    job,      \* the handler each manager is in
    polls,    \* mdns: polls under way
    reports,  \* casts of update_status to the pool manager topic
    rep,      \* the update_status each manager is in
    holder,   \* the manager that tooz has elected
    leading,  \* the managers whose _leader flag is set
    timers,   \* the managers whose periodic_sync timer runs
    faults    \* faults so far

vars == <<zone, rec, aged, prov, auth, cache, queue, job, polls, reports, rep,
          holder, leading, timers, faults>>

election == <<holder, leading, timers>>

----------------------------------------------------------------------------
Actions == {"CREATE", "UPDATE", "DELETE"}
Serials == 0..MaxSerial
RowStatuses == {"PENDING", "ACTIVE", "ERROR", "DELETED"}
PollStatuses == {"SUCCESS", "ERROR", "NO_ZONE"}

Row == [status : RowStatuses, action : Actions \cup {"NONE"}, serial : Serials]

\* objects.PoolManagerStatus; a new one has no status and serial 0
Status == [status : PollStatuses \cup {None}, serial : Serials]
NewStatus == [status |-> None, serial |-> 0]

\* A poll for the serial of the zone as the job's copy has it.
Poll == [ns : Nameservers, zone : Row, status : PollStatuses, serial : Serials,
         left : 0..MaxRetries]

Report == [ns : Nameservers, zone : Row, status : PollStatuses, serial : Serials]

NoJob == [op |-> "idle", phase |-> "targets", zone |-> None, todo |-> {},
          tries |-> 0, ok |-> 0, attempt |-> 0]
NoRep == [pc |-> "idle", msg |-> None, seen |-> 0, consensus |-> 0]

Exists == zone.status # "DELETED"

\* action = UPDATE_ACTION if zone.action == 'NONE' else zone.action
ActionOf(z) == IF z.action = "NONE" THEN "UPDATE" ELSE z.action

Fault(kind) == kind \in Faults /\ faults < MaxFaults /\ faults' = faults + 1
NoFault == UNCHANGED faults

Room == Cardinality(queue) + Cardinality(polls) + Cardinality(reports)
        + Cardinality({m \in Managers : job[m].op # "idle"})
        + Cardinality({m \in Managers : rep[m].pc # "idle"}) < MaxInFlight

----------------------------------------------------------------------------
(* Consensus *)

\* _exceed_or_meet_threshold: the share of the pool TARGETS
Meets(count, percent) == count * 100 >= percent * Cardinality(Targets)

AtLeast(sts, s) == Cardinality({n \in DOMAIN sts : sts[n].serial >= s})

\* Faulty variant: the highest serial any nameserver has.
HighestSerial(sts) ==
    LET all == {sts[n].serial : n \in DOMAIN sts}
    IN  IF all = {} THEN 0 ELSE CHOOSE s \in all : \A t \in all : t <= s

\* _get_consensus_serial: the highest serial that enough nameservers have
ConsensusSerial(sts) ==
    LET agreed == {s \in {sts[n].serial : n \in DOMAIN sts} :
                        Meets(AtLeast(sts, s), Threshold)}
    IN  IF agreed = {} THEN 0 ELSE CHOOSE s \in agreed : \A t \in agreed : t <= s

IsConsensus(sts, status, percent) ==
    Meets(Cardinality({n \in DOMAIN sts : sts[n].status = status}), percent)

\* _get_error_serial: the lowest serial above the consensus, if enough are in error
ErrorSerial(sts, consensus) ==
    LET above == {s \in {sts[n].serial : n \in DOMAIN sts} : s > consensus}
    IN  IF IsConsensus(sts, "ERROR", Threshold) /\ above # {}
        THEN CHOOSE s \in above : \A t \in above : s <= t
        ELSE 0

----------------------------------------------------------------------------
(* Central: update_status, one transaction for the records and the zone *)

SettledBy(r, serial) == r.status \in {"PENDING", "ERROR"} /\ serial >= r.serial

\* _update_zone_or_record_status
NewRow(r, status, serial) ==
    CASE /\ status = "SUCCESS" /\ SettledBy(r, serial)
         /\ r.action \in {"CREATE", "UPDATE"} ->
            [r EXCEPT !.action = "NONE", !.status = "ACTIVE"]
      [] status = "SUCCESS" /\ SettledBy(r, serial) /\ r.action = "DELETE" ->
            [r EXCEPT !.action = "NONE", !.status = "DELETED"]
      [] /\ status = "ERROR" /\ r.status = "PENDING"
         /\ serial >= r.serial \/ serial = 0 ->
            [r EXCEPT !.status = "ERROR"]
      [] status = "NO_ZONE" -> [r EXCEPT !.action = "NONE", !.status = "DELETED"]
      [] OTHER -> r

\* Faulty variant: the query of the records leaves out the serial.
NewRecordAnySerial(r, status, serial) ==
    IF r.status = "DELETED" THEN r
    ELSE NewRow(r, status, IF status = "SUCCESS" THEN r.serial ELSE serial)

\* _update_record_status: the query picks the records, which must exist
NewRecord(r, status, serial) ==
    IF r.status = "DELETED" THEN r ELSE NewRow(r, status, serial)

\* update_status of a zone that is gone raises ZoneNotFound and changes nothing
UpdateStatus(status, serial) ==
    /\ Exists
    /\ zone' = NewRow(zone, status, serial)
    /\ rec' = NewRecord(rec, status, serial)

----------------------------------------------------------------------------
(* The environment: central's own writes, sync_zone, time, tooz, AXFR *)

\* update_zone: whatever the zone waited for, it waits for an UPDATE now.  The
\* serial is renewed, the records keep theirs.
UpdateZone ==
    /\ "change" \in Requests
    /\ Exists /\ zone.action # "DELETE" /\ zone.serial < MaxSerial
    /\ zone' = [status |-> "PENDING", action |-> "UPDATE", serial |-> zone.serial + 1]
    /\ aged' = FALSE
    /\ UNCHANGED <<rec, prov, auth, cache, queue, job, polls, reports, rep, election,
                   faults>>

\* touch_zone renews the serial and leaves the status as it is
TouchZone ==
    /\ "touch" \in Requests
    /\ Exists /\ zone.serial < MaxSerial
    /\ zone' = [zone EXCEPT !.serial = @ + 1]
    /\ aged' = FALSE
    /\ UNCHANGED <<rec, prov, auth, cache, queue, job, polls, reports, rep, election,
                   faults>>

\* create_record: the record waits at the serial the zone has, and the zone is
\* left alone, ACTIVE or not
CreateRecord ==
    /\ "record" \in Requests
    /\ Exists /\ zone.action # "DELETE" /\ rec.status = "DELETED"
    /\ rec' = [status |-> "PENDING", action |-> "CREATE", serial |-> zone.serial]
    /\ UNCHANGED <<zone, aged, prov, auth, cache, queue, job, polls, reports, rep,
                   election, faults>>

RequestDelete ==
    /\ "delete" \in Requests
    /\ Exists /\ zone.action # "DELETE"
    /\ zone' = [zone EXCEPT !.status = "PENDING", !.action = "DELETE"]
    /\ UNCHANGED <<rec, aged, prov, auth, cache, queue, job, polls, reports, rep,
                   election, faults>>

\* sync_zone and sync_zones of central cast update_zone with the row as it is
SyncZone ==
    /\ "sync" \in Requests
    /\ Exists /\ Room
    /\ queue' = queue \cup {[op |-> "update", zone |-> zone]}
    /\ UNCHANGED <<zone, rec, aged, prov, auth, cache, job, polls, reports, rep,
                   election, faults>>

Age ==
    /\ ~aged
    /\ aged' = TRUE
    /\ UNCHANGED <<zone, rec, prov, auth, cache, queue, job, polls, reports, rep,
                   election, faults>>

\* A nameserver transfers the zone from mdns, or drops it with its target.
Transfer(n) ==
    /\ \/ TargetOf[n] \in prov /\ Exists /\ auth' = [auth EXCEPT ![n] = zone.serial]
       \/ TargetOf[n] \notin prov /\ auth' = [auth EXCEPT ![n] = 0]
    /\ auth' # auth
    /\ UNCHANGED <<zone, rec, aged, prov, cache, queue, job, polls, reports, rep,
                   election, faults>>

\* memcached drops entries after `expiration' seconds
Expire(n, a) ==
    /\ cache[n][a] # None
    /\ Fault("expire")
    /\ cache' = [cache EXCEPT ![n][a] = None]
    /\ UNCHANGED <<zone, rec, aged, prov, auth, queue, job, polls, reports, rep,
                   election>>

\* _on_elected_leader: tooz elects at most one candidate at a time
Elected(m) ==
    /\ holder = None
    /\ holder' = m
    /\ leading' = leading \cup {m}
    /\ UNCHANGED <<timers, zone, rec, aged, prov, auth, cache, queue, job, polls, reports,
                   rep, faults>>

\* The session with the coordination backend is lost: nothing clears _leader.
LoseSession(m) ==
    /\ holder = m
    /\ Fault("session")
    /\ holder' = None
    /\ UNCHANGED <<zone, rec, aged, prov, auth, cache, queue, job, polls, reports,
                   rep, leading, timers>>

\* LeaderElection.stop of a manager that is restarted with the service; what
\* its handlers were doing is lost.
Restart(m) ==
    /\ Fault("restart")
    /\ leading' = leading \ {m}
    /\ holder' = IF holder = m THEN None ELSE holder
    /\ timers' = timers \cup {m}
    /\ job' = [job EXCEPT ![m] = NoJob]
    /\ rep' = [rep EXCEPT ![m] = NoRep]
    /\ UNCHANGED <<zone, rec, aged, prov, auth, cache, queue, polls, reports>>

----------------------------------------------------------------------------
(* Periodic tasks of the leader *)

\* Faulty variant: only zones in ERROR are recovered.
FailedErrorOnly(a) == zone.action = a /\ zone.status = "ERROR"

\* _get_failed_zones
Failed(a) ==
    /\ zone.action = a
    /\ zone.status = "ERROR" \/ (zone.status = "PENDING" /\ aged)

OpOf(a) == CASE a = "CREATE" -> "create" [] a = "UPDATE" -> "update"
             [] a = "DELETE" -> "delete"

PeriodicRecovery(m) ==
    /\ m \in leading /\ Room
    /\ \E a \in Actions : Failed(a)
    /\ queue' = queue \cup {[op |-> OpOf(a), zone |-> zone] :
                                a \in {b \in Actions : Failed(b)}}
    /\ UNCHANGED <<zone, rec, aged, prov, auth, cache, job, polls, reports, rep,
                   election, faults>>

NewJob(op, z, attempt) ==
    [op |-> op, phase |-> "targets", zone |-> z, todo |-> Targets, tries |-> 0,
     ok |-> 0, attempt |-> attempt]

\* _fetch_healthy_zones; the job runs update_zone itself
PeriodicSync(m) ==
    /\ "timer" \in Requests
    /\ m \in leading \cap timers /\ Room
    /\ job[m].op = "idle"
    /\ Exists /\ zone.status # "ERROR"
    /\ job' = [job EXCEPT ![m] = NewJob("sync", zone, 1)]
    /\ UNCHANGED <<zone, rec, aged, prov, auth, cache, queue, polls, reports, rep,
                   election, faults>>

----------------------------------------------------------------------------
(* create_zone, update_zone, delete_zone *)

StartJob(m, q) ==
    /\ q \in queue
    /\ job[m].op = "idle"
    /\ queue' = queue \ {q}
    /\ job' = [job EXCEPT ![m] = NewJob(q.op, q.zone, 0)]
    /\ UNCHANGED <<zone, rec, aged, prov, auth, cache, polls, reports, rep, election, faults>>

Provision(op, t) == CASE op = "create" -> prov \cup {t}
                      [] op = "delete" -> prov \ {t}
                      [] OTHER         -> prov

\* pool.targets is a list: the next target is always the same
AtTarget(m, t) == /\ job[m].phase = "targets" /\ job[m].todo # {}
                  /\ t = CHOOSE u \in job[m].todo : TRUE

\* _create_zone_on_target and _delete_zone_on_target try again, the update does not
Tries(op) == IF op \in {"create", "delete"} THEN MaxRetries ELSE 1

BackendOk(m, t) ==
    /\ AtTarget(m, t)
    /\ prov' = Provision(job[m].op, t)
    /\ job' = [job EXCEPT ![m].todo = @ \ {t}, ![m].tries = 0, ![m].ok = @ + 1]
    /\ UNCHANGED <<zone, rec, aged, auth, cache, queue, polls, reports, rep, election, faults>>

\* The backend raises; it may have done its work all the same.  A new attempt
\* is made while there are attempts left.
BackendFails(m, t) ==
    /\ AtTarget(m, t)
    /\ Fault("backend")
    /\ prov' \in {prov, Provision(job[m].op, t)}
    /\ \/ /\ job[m].tries + 1 < Tries(job[m].op)
          /\ job' = [job EXCEPT ![m].tries = @ + 1]
       \/ /\ job[m].tries + 1 = Tries(job[m].op)
          /\ job' = [job EXCEPT ![m].todo = @ \ {t}, ![m].tries = 0]
    /\ UNCHANGED <<zone, rec, aged, auth, cache, queue, polls, reports, rep, election>>

Percent(op) == IF op = "delete" THEN 100 ELSE Threshold

TargetsDone(m) == /\ job[m].op # "idle"
                  /\ job[m].phase = "targets" /\ job[m].todo = {}

CacheAction(op) == CASE op = "create" -> "CREATE" [] op = "delete" -> "DELETE"
                     [] OTHER -> "UPDATE"

\* The handler goes on to the nameservers; delete_zone sets zone.serial = 0
\* on its copy first.
ToServers(m) ==
    [job EXCEPT ![m].phase = "servers", ![m].todo = Nameservers,
                ![m].zone.serial = IF job[m].op = "delete" THEN 0 ELSE @]

\* Enough targets have done it.
Propagate(m) ==
    /\ TargetsDone(m)
    /\ Meets(job[m].ok, Percent(job[m].op))
    /\ job' = ToServers(m)
    /\ UNCHANGED <<zone, rec, aged, prov, auth, cache, queue, polls, reports, rep,
                   election, faults>>

Retried(m) == IF job[m].op = "sync" /\ job[m].attempt < MaxAttempts
              THEN [job EXCEPT ![m] = NewJob("sync", job[m].zone, job[m].attempt + 1)]
              ELSE [job EXCEPT ![m] = NoJob]

\* Not enough: central is told ERROR.  create and update end here, delete polls
\* all the same, and periodic_sync tries again.
NoConsensus(m) ==
    /\ TargetsDone(m)
    /\ ~Meets(job[m].ok, Percent(job[m].op))
    /\ UpdateStatus("ERROR", job[m].zone.serial)
    /\ job' = IF job[m].op = "delete" THEN ToServers(m) ELSE Retried(m)
    /\ UNCHANGED <<aged, prov, auth, cache, queue, polls, reports, rep, election,
                   faults>>

\* The same when the zone is gone: update_status raises and the handler ends.
\* periodic_sync catches that, except for its own call after the last attempt:
\* that exception ends the timer.
ZoneGone(m) ==
    /\ TargetsDone(m)
    /\ ~Meets(job[m].ok, Percent(job[m].op))
    /\ ~Exists
    /\ job' = Retried(m)
    /\ timers' = IF job[m].op = "sync" /\ job[m].attempt = MaxAttempts
                 THEN timers \ {m} ELSE timers
    /\ UNCHANGED <<zone, rec, aged, prov, auth, cache, queue, polls, reports, rep,
                   holder, leading, faults>>

\* One nameserver of the loop: create_zone stores a fresh status, update_zone
\* and delete_zone only when there is none; then mdns is asked to poll.
SendPoll(m, n) ==
    /\ job[m].phase = "servers"
    /\ n = CHOOSE o \in job[m].todo : TRUE
    /\ LET a == CacheAction(job[m].op)
       IN  cache' = IF job[m].op = "create" \/ cache[n][a] = None
                    THEN [cache EXCEPT ![n][a] = NewStatus] ELSE cache
    /\ polls' = polls \cup {[ns |-> n, zone |-> job[m].zone, status |-> "ERROR",
                             serial |-> 0, left |-> MaxRetries]}
    /\ job' = [job EXCEPT ![m] = IF job[m].todo = {n} THEN NoJob
                                 ELSE [job[m] EXCEPT !.todo = @ \ {n}]]
    /\ UNCHANGED <<zone, rec, aged, prov, auth, queue, reports, rep, election,
                   faults>>

----------------------------------------------------------------------------
(* mdns: poll_for_serial_number and get_serial_number *)

\* One SOA query and its answer: the status and serial the loop then holds.
\* No answer leaves both as they were.
Answer(p) ==
    IF auth[p.ns] = 0 THEN [p EXCEPT !.status = "NO_ZONE"]
    ELSE [p EXCEPT !.serial = auth[p.ns],
                   !.status = IF auth[p.ns] >= p.zone.serial THEN "SUCCESS" ELSE @]

\* the loop ends with success, or when no zone was expected and there is none
Enough(p) ==
    \/ p.status = "SUCCESS"
    \/ p.status = "NO_ZONE" /\ p.zone.serial = 0 /\ p.zone.action \in {"DELETE", "NONE"}

ToReport(p) == [ns |-> p.ns, zone |-> p.zone, status |-> p.status,
                serial |-> p.serial]

\* `used' queries are spent, the last of them answered; or (a fault) it got a bad
\* answer or none.
Query(p) ==
    /\ p \in polls
    /\ \E used \in 1..p.left, answered \in BOOLEAN :
          LET q == IF answered THEN Answer(p) ELSE p
              r == [q EXCEPT !.left = p.left - used]
          IN  /\ IF answered THEN NoFault ELSE Fault("poll")
              /\ IF Enough(r) \/ r.left = 0
                 THEN /\ polls' = polls \ {p}
                      /\ reports' = reports \cup {ToReport(r)}
                 ELSE /\ polls' = (polls \ {p}) \cup {r}
                      /\ UNCHANGED reports
    /\ UNCHANGED <<zone, rec, aged, prov, auth, cache, queue, job, rep, election>>

\* A socket error other than EAGAIN ends the poll without a report.
PollLost(p) ==
    /\ p \in polls
    /\ Fault("poll")
    /\ polls' = polls \ {p}
    /\ UNCHANGED <<zone, rec, aged, prov, auth, cache, queue, job, reports, rep,
                   election>>

----------------------------------------------------------------------------
(* update_status *)

Msg(m) == rep[m].msg
Act(m) == ActionOf(Msg(m).zone)

\* The lock is taken, the entry of the nameserver made if there is none, and
\* overwritten when the serial is not older.
TakeReport(m, r) ==
    /\ r \in reports
    /\ rep[m].pc = "idle"
    /\ reports' = reports \ {r}
    /\ LET a   == ActionOf(r.zone)
           old == IF cache[r.ns][a] = None THEN NewStatus ELSE cache[r.ns][a]
           new == IF r.serial # 0 /\ old.serial <= r.serial
                  THEN [status |-> r.status, serial |-> r.serial] ELSE old
       IN  /\ cache' = [cache EXCEPT ![r.ns][a] = new]
           \* current_status is one object: it holds the new serial, but
           \* cache_serial was read before
           /\ rep' = [rep EXCEPT ![m] = [pc |-> "consensus", msg |-> r,
                                         seen |-> old.serial, consensus |-> 0]]
    /\ UNCHANGED <<zone, rec, aged, prov, auth, queue, job, polls, election,
                   faults>>

\* Faulty variant: a zone that is missing keeps the status mdns gave it.
FetchedRaw(n, z, a) ==
    [status |-> IF auth[n] = 0 THEN "MISSING" ELSE "SUCCESS", serial |-> auth[n]]

\* _retrieve_from_mdns: what a poll of n says now, and under which action it is
\* cached: a zone missing on update is cached as a failed create
Fetched(n, z, a) ==
    LET status == CASE auth[n] = 0 -> IF a = "DELETE" THEN "SUCCESS" ELSE "ERROR"
                    [] auth[n] # 0 -> IF auth[n] >= z.serial THEN "SUCCESS" ELSE "ERROR"
    IN  [status |-> status, serial |-> auth[n]]
FetchedAction(n, a) == IF auth[n] = 0 /\ a = "UPDATE" THEN "CREATE" ELSE a

\* _retrieve_statuses: cached, or fetched and then cached; a fetch whose RPC
\* fails (n in lost) gives no status
Retrieve(m, lost) ==
    [n \in Nameservers \ lost |-> IF cache[n][Act(m)] # None THEN cache[n][Act(m)]
                                  ELSE Fetched(n, Msg(m).zone, Act(m))]
Recache(m, lost) ==
    [n \in Nameservers |->
        IF n \in lost \/ cache[n][Act(m)] # None THEN cache[n]
        ELSE [cache[n] EXCEPT ![FetchedAction(n, Act(m))] =
                                  Fetched(n, Msg(m).zone, Act(m))]]

Missing(m) == {n \in Nameservers : cache[n][Act(m)] = None}
Losing(m, lost) ==
    /\ lost \subseteq Missing(m)
    /\ IF lost = {} THEN NoFault ELSE Fault("rpc")

\* The branches of update_status that follow the SUCCESS call.
AfterSuccess(m) == CASE Msg(m).status = "ERROR"   -> "error"
                     [] Msg(m).status = "NO_ZONE" -> "nozone"
                     [] OTHER                     -> "clear"

Finish(m) == [rep EXCEPT ![m].pc = "clear"]

\* _get_consensus_serial, and whether central is to be told SUCCESS
Consensus(m, lost) ==
    /\ rep[m].pc = "consensus"
    /\ Losing(m, lost)
    /\ cache' = Recache(m, lost)
    /\ LET c == ConsensusSerial(Retrieve(m, lost))
       IN  rep' = [rep EXCEPT
              ![m].consensus = c,
              ![m].pc = IF c # 0 /\ rep[m].seen <= c /\ Msg(m).zone.status # "ACTIVE"
                        THEN "success" ELSE AfterSuccess(m)]
    /\ UNCHANGED <<zone, rec, aged, prov, auth, queue, job, polls, reports, election>>

\* A call of central from update_status: when the zone is gone it raises and
\* the handler ends.
CallCentral(m, status, serial, next) ==
    \/ /\ UpdateStatus(status, serial)
       /\ rep' = [rep EXCEPT ![m].pc = next]
    \/ /\ ~Exists
       /\ rep' = [rep EXCEPT ![m] = NoRep]
       /\ UNCHANGED <<zone, rec>>

ReportSuccess(m) ==
    /\ rep[m].pc = "success"
    /\ CallCentral(m, "SUCCESS", rep[m].consensus, AfterSuccess(m))
    /\ UNCHANGED <<aged, prov, auth, cache, queue, job, polls, reports, election,
                   faults>>

ReportError(m, lost) ==
    /\ rep[m].pc = "error"
    /\ Losing(m, lost)
    /\ cache' = Recache(m, lost)
    /\ LET e == ErrorSerial(Retrieve(m, lost), rep[m].consensus)
       IN  IF e > rep[m].consensus \/ e = 0
           THEN CallCentral(m, "ERROR", e, "clear")
           ELSE rep' = Finish(m) /\ UNCHANGED <<zone, rec>>
    /\ UNCHANGED <<aged, prov, auth, queue, job, polls, reports, election>>

ReportNoZone(m) ==
    /\ rep[m].pc = "nozone"
    /\ CallCentral(m, "NO_ZONE", 0, "clear")
    /\ UNCHANGED <<aged, prov, auth, cache, queue, job, polls, reports, election,
                   faults>>

\* every nameserver has answered SUCCESS for the wanted serial
AllSettled(m, lost) ==
    /\ rep[m].consensus = Msg(m).zone.serial
    /\ IsConsensus(Retrieve(m, lost), "SUCCESS", 100)

\* The end of update_status: _clear_cache of this action, and the lock is freed.
ClearCache(m, lost) ==
    /\ rep[m].pc = "clear"
    /\ IF rep[m].consensus = Msg(m).zone.serial
       THEN /\ Losing(m, lost)
            /\ cache' = IF AllSettled(m, lost)
                        THEN [n \in Nameservers |-> [cache[n] EXCEPT ![Act(m)] = None]]
                        ELSE Recache(m, lost)
       ELSE /\ lost = {} /\ NoFault
            /\ UNCHANGED cache
    /\ rep' = [rep EXCEPT ![m] = NoRep]
    /\ UNCHANGED <<zone, rec, aged, prov, auth, queue, job, polls, reports, election>>

----------------------------------------------------------------------------
\* The zone is new, or it is served everywhere, in a pool that can settle a zone.
Init ==
    /\ \/ /\ zone = [status |-> "PENDING", action |-> "CREATE", serial |-> 1]
          /\ prov = {} /\ auth = [n \in Nameservers |-> 0]
       \/ /\ Meets(Cardinality(Nameservers), Threshold)
          /\ zone = [status |-> "ACTIVE", action |-> "NONE", serial |-> 1]
          /\ prov = Targets /\ auth = [n \in Nameservers |-> 1]
    /\ rec \in {zone, [zone EXCEPT !.status = "DELETED", !.action = "NONE"]}
    /\ aged = FALSE
    /\ cache = [n \in Nameservers |-> [a \in Actions |-> None]]
    /\ queue = {} /\ polls = {} /\ reports = {}
    /\ job = [m \in Managers |-> NoJob]
    /\ rep = [m \in Managers |-> NoRep]
    /\ holder = None
    /\ leading = {} /\ timers = Managers
    /\ faults = 0

JobStep(m) ==
    \/ \E q \in queue : StartJob(m, q)
    \/ \E t \in Targets : BackendOk(m, t)
    \/ Propagate(m)
    \/ NoConsensus(m)
    \/ ZoneGone(m)
    \/ \E n \in Nameservers : SendPoll(m, n)

RepStep(m) ==
    \/ \E r \in reports : TakeReport(m, r)
    \/ ReportSuccess(m)
    \/ ReportNoZone(m)
    \/ \E lost \in SUBSET Nameservers : Consensus(m, lost)
    \/ \E lost \in SUBSET Nameservers : ReportError(m, lost)
    \/ \E lost \in SUBSET Nameservers : ClearCache(m, lost)

ManagerFault(m) ==
    \/ \E t \in Targets : BackendFails(m, t)
    \/ LoseSession(m)
    \/ Restart(m)

Next ==
    \/ UpdateZone \/ TouchZone \/ CreateRecord \/ RequestDelete \/ SyncZone \/ Age
    \/ \E n \in Nameservers : Transfer(n)
    \/ \E n \in Nameservers, a \in Actions : Expire(n, a)
    \/ \E p \in polls : Query(p)
    \/ \E p \in polls : PollLost(p)
    \/ \E m \in Managers : Elected(m)
    \/ \E m \in Managers : PeriodicRecovery(m)
    \/ \E m \in Managers : PeriodicSync(m)
    \/ \E m \in Managers : JobStep(m)
    \/ \E m \in Managers : RepStep(m)
    \/ \E m \in Managers : ManagerFault(m)

Spec == Init /\ [][Next]_vars

\* Handlers that were started go on, mdns works on every poll, nameservers
\* transfer, the leader's timer fires and somebody is elected.
Fairness ==
    /\ WF_vars(Age)
    /\ \A n \in Nameservers : WF_vars(Transfer(n))
    /\ \A n \in Nameservers : WF_vars(\E p \in polls : p.ns = n /\ Query(p))
    /\ WF_vars(\E m \in Managers : Elected(m))
    /\ WF_vars(\E m \in Managers : PeriodicRecovery(m))
    /\ \A m \in Managers : WF_vars(JobStep(m)) /\ WF_vars(RepStep(m))

FairSpec == Spec /\ Fairness

----------------------------------------------------------------------------
(* Properties *)

\* The types of the variables.
TypeOK ==
    /\ zone \in Row /\ rec \in Row /\ aged \in BOOLEAN
    /\ prov \subseteq Targets
    /\ auth \in [Nameservers -> Serials]
    /\ cache \in [Nameservers -> [Actions -> Status \cup {None}]]
    /\ queue \subseteq [op : {"create", "update", "delete"}, zone : Row]
    /\ \A m \in Managers :
          /\ job[m].op \in {"idle", "create", "update", "delete", "sync"}
          /\ job[m].phase \in {"targets", "servers"}
          /\ job[m].zone \in Row \cup {None}
          /\ job[m].ok \in 0..Cardinality(Targets)
          /\ rep[m].pc \in {"idle", "consensus", "success", "error", "nozone", "clear"}
          /\ rep[m].msg \in Report \cup {None}
    /\ polls \subseteq Poll /\ reports \subseteq Report
    /\ holder \in Managers \cup {None}
    /\ leading \subseteq Managers /\ timers \subseteq Managers
    /\ faults \in 0..MaxFaults

\* As many nameservers as the threshold asks of the targets have the serial
Served(s) == Meets(Cardinality({n \in Nameservers : auth[n] >= s}), Threshold)

\* When update_status makes a zone ACTIVE it is served, at the serial it has now:
\* reports that come late, twice, out of order or through two managers, and cache
\* entries of an earlier change, never make it settle a change too early.
ActiveMeansServed ==
    [][zone.status # "ACTIVE" /\ zone'.status = "ACTIVE" => Served(zone.serial)]_vars

\* The zone is being deleted, or is gone
Doomed == zone.action = "DELETE" \/ zone.status = "DELETED"

\* The same for a record, which may be older or newer than the change that is
\* reported, and whose zone may be ACTIVE all the time: no report about an older
\* serial makes it ACTIVE, unless its zone is being deleted.
RecordActiveMeansServed ==
    [][rec.status # "ACTIVE" /\ rec'.status = "ACTIVE" => Served(rec.serial) \/ Doomed]_vars

\* A zone that is PENDING or in ERROR is settled by the polls or by the leader's
\* periodic_recovery, whatever calls failed before.
PendingSettles == zone.status \in {"PENDING", "ERROR"} ~>
                      zone.status \in {"ACTIVE", "DELETED"}

\* "deletes are handled by the backend entirely and status is determined at the
\* time of delete itself" (pool_manager/service.py, update_status): a row that is
\* deleted is deleted on every target.
DeletedMeansGone == zone.status = "DELETED" => prov = {}
=============================================================================
