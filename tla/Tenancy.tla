------------------------------- MODULE Tenancy -------------------------------
(***************************************************************************)
(* Who owns a zone, and how many zones a tenant may own: the operations of *)
(* designate-central that create zones within a quota, hand a zone over to *)
(* another tenant (transfer request and transfer accept), and the imports  *)
(* and exports that run in the background.                                 *)
(*                                                                         *)
(* A request reads in one step and commits in a later one, since nothing   *)
(* but create_zone (lock zone-None) is locked here: the transactions take  *)
(* no row locks and an UPDATE names its row by the id only.  The device    *)
(* calls of create_zone and delete_zone are the subject of ZoneLifecycle.  *)
(***************************************************************************)
EXTENDS Naturals, FiniteSets, FiniteSetsExt

CONSTANTS
    Clients,    \* requests that designate-central serves at the same time
    Tenants,    \* projects; admin rights are used for quotas only
    Zones,      \* zones, each with its own name
    Requests,   \* ids of zone transfer requests
    Tasks,      \* ids of zone imports and exports (table zone_tasks)
    Large,      \* zones with more recordsets than quota api_export_size
    Limits,     \* values an admin sets for quota zones
    Default,    \* option quota_zones
    None,       \* no value
    MaxOps,     \* bound: operations started
    MaxCrashes  \* bound: crashes of central or the worker

ASSUME TenancyAssumption ==
    /\ Limits \subseteq Nat /\ Default \in Nat /\ MaxOps \in Nat /\ MaxCrashes \in Nat
    /\ \A S \in {Tenants, Zones, Requests, Limits, Clients, Tasks} : None \notin S
    /\ Clients \cap Tasks = {}
    /\ IsFiniteSet(Zones) /\ Large \subseteq Zones

VARIABLES
    conf,      \* options: worker (service:worker enabled), sync (export_synchronous)
    zone,      \* table zones: owner, or None
    deleting,  \* zones whose action is DELETE
    rset,      \* tables recordsets, records: the tenant ids on the rows of a zone
    request,   \* table zone_transfer_requests
    quota,     \* table quotas: hard limit of resource zones, or None
    task,      \* table zone_tasks
    job,       \* what the thread or worker task of a zone task does
    client,    \* what a client's request does
    lock,      \* who holds the lock zone-None
    ops, crashes,
    disturbed, \* history: zones that two overlapping requests worked on
    peak,      \* history: the greatest limit a tenant ever had
    received   \* history: zones a tenant got by accepting a transfer

rows == <<zone, deleting, rset, request, quota, task>>
history == <<crashes, disturbed, peak, received>>
vars == <<conf, zone, deleting, rset, request, quota, task, job, client, lock, ops,
          crashes, disturbed, peak, received>>

Idle == [pc |-> "idle", on |-> None, tenant |-> None, target |-> None, req |-> None]
NoRequest == [status |-> "NONE", zone |-> None, tenant |-> None, target |-> None]
NoTask == [status |-> "NONE", kind |-> "none", zone |-> None]
NoJob == [pc |-> "none", tenant |-> None, zone |-> None]

Init ==
    /\ conf \in [worker : BOOLEAN, sync : BOOLEAN]
    /\ zone = [z \in Zones |-> None] /\ deleting = {}
    /\ rset = [z \in Zones |-> {}]
    /\ request = [r \in Requests |-> NoRequest]
    /\ quota = [t \in Tenants |-> None]
    /\ task = [k \in Tasks |-> NoTask] /\ job = [k \in Tasks |-> NoJob]
    /\ client = [c \in Clients |-> Idle] /\ lock = None
    /\ ops = 0 /\ crashes = 0 /\ disturbed = {}
    /\ peak = [t \in Tenants |-> Default] /\ received = [t \in Tenants |-> 0]

-----------------------------------------------------------------------------
(* Requests.                                                               *)

Start(c, pc, z, t, target, r) ==
    /\ client[c].pc = "idle" /\ ops < MaxOps
    /\ ops' = ops + 1
    /\ client' = [client EXCEPT ![c] = [pc |-> pc, on |-> z, tenant |-> t,
                                        target |-> target, req |-> r]]
    /\ disturbed' = disturbed \cup
           IF \E d \in Clients \ {c} : client[d].on = z THEN {z} ELSE {}

Done(c) == client' = [client EXCEPT ![c] = Idle]

-----------------------------------------------------------------------------
(* Quotas.                                                                 *)

\* get_quotas: the defaults, overridden by the tenant's rows.
HardLimit(t) == IF quota[t] = None THEN Default ELSE quota[t]

Owned(t) == {z \in Zones : zone[z] = t}

\* limit_check of quota zones, with the number of zones the tenant has now.
LimitCheck(value, limit) == value < limit

\* QuotasController.patch_one, set_quota: the row is created, or updated when
\* there is one; delete_one, reset_quotas: the rows are deleted.
SetQuota(t, n) ==
    /\ ops < MaxOps /\ ops' = ops + 1
    /\ quota' = [quota EXCEPT ![t] = n]
    /\ peak' = [peak EXCEPT ![t] = IF n # None /\ n > @ THEN n ELSE @]
    /\ UNCHANGED <<conf, zone, deleting, rset, request, task, job, client, lock,
                   crashes, disturbed, received>>

-----------------------------------------------------------------------------
(* Zones and recordsets.                                                   *)

\* create_zone waits for the lock of a zone without an id.
CreateZone(c, t, z) ==
    /\ zone[z] = None
    /\ Start(c, "lock", z, t, None, None)
    /\ UNCHANGED <<conf, rows, job, lock, crashes, peak, received>>

\* Faulty variant: create_zone runs without the lock.
TakeLockAlways(p) == UNCHANGED lock

\* synchronized_zone(new_zone=True): lock zone-None.
TakeLock(p) == lock = None /\ lock' = p

\* _enforce_zone_quota under the lock: the count and the limit are read.
EnforceZoneQuota(c) ==
    /\ client[c].pc = "lock" /\ TakeLock(c)
    /\ LimitCheck(Cardinality(Owned(client[c].tenant)), HardLimit(client[c].tenant))
    /\ client' = [client EXCEPT ![c].pc = "insert"]
    /\ UNCHANGED <<conf, rows, job, ops, history>>

OverQuota(c) ==
    /\ client[c].pc = "lock" /\ lock = None
    /\ ~LimitCheck(Cardinality(Owned(client[c].tenant)), HardLimit(client[c].tenant))
    /\ Done(c)
    /\ UNCHANGED <<conf, rows, job, lock, ops, history>>

Unlocked(p) == IF lock = p THEN None ELSE lock

\* The zone and its default recordsets; DuplicateZone when the name is taken.
InsertZone(c) ==
    LET z == client[c].on IN
    /\ client[c].pc = "insert"
    /\ lock' = Unlocked(c)
    /\ IF zone[z] = None
         THEN /\ zone' = [zone EXCEPT ![z] = client[c].tenant]
              /\ rset' = [rset EXCEPT ![z] = {client[c].tenant}]
         ELSE UNCHANGED <<zone, rset>>
    /\ Done(c)
    /\ UNCHANGED <<conf, deleting, request, quota, task, job, ops, history>>

\* delete_zone by the owner: the action becomes DELETE, later the row goes.
DeleteZone(c, t, z) ==
    /\ zone[z] = t
    /\ Start(c, "delete", z, t, None, None)
    /\ deleting' = deleting \cup {z}
    /\ UNCHANGED <<conf, zone, rset, request, quota, task, job, lock, crashes, peak, received>>

\* The zone row goes; the transfer requests stay but can no longer be found,
\* since they are read joined with their zone.
DropZone(c) ==
    LET z == client[c].on IN
    /\ client[c].pc = "delete"
    /\ zone' = [zone EXCEPT ![z] = None] /\ deleting' = deleting \ {z}
    /\ rset' = [rset EXCEPT ![z] = {}]
    /\ request' = [r \in Requests |-> IF request[r].zone = z THEN NoRequest ELSE request[r]]
    /\ Done(c)
    /\ UNCHANGED <<conf, quota, task, job, lock, ops, history>>

\* create_recordset: the zone's owner is read, and stored in the new rows.
CreateRecordSet(c, t, z) ==
    /\ zone[z] = t /\ z \notin deleting
    /\ Start(c, "rset", z, t, None, None)
    /\ UNCHANGED <<conf, rows, job, lock, crashes, peak, received>>

InsertRecordSet(c) ==
    LET z == client[c].on IN
    /\ client[c].pc = "rset"
    /\ rset' = IF zone[z] = None THEN rset ELSE [rset EXCEPT ![z] = @ \cup {client[c].tenant}]
    /\ Done(c)
    /\ UNCHANGED <<conf, zone, deleting, request, quota, task, job, lock, ops, history>>

-----------------------------------------------------------------------------
(* Transfer requests and accepts.                                          *)

\* find_zone_transfer_request sees the requests of the tenant and those made to it.
Visible(t) == {r \in Requests : request[r].tenant = t \/ request[r].target = t}

\* Faulty variant: a second request for the zone is accepted.
FreeToRequestAlways(t, z) == TRUE

\* create_zone_transfer_request of the storage: no ACTIVE request that the
\* tenant can see.
FreeToRequest(t, z) ==
    \A r \in Visible(t) : ~(request[r].zone = z /\ request[r].status = "ACTIVE")

\* create_zone_transfer_request by the owner of a zone that is not being deleted.
CreateRequest(c, t, z, target, r) ==
    /\ zone[z] = t /\ z \notin deleting
    /\ request[r] = NoRequest /\ \A d \in Clients : client[d].req # r
    /\ FreeToRequest(t, z)
    /\ Start(c, "request", z, t, target, r)
    /\ UNCHANGED <<conf, rows, job, lock, crashes, peak, received>>

InsertRequest(c) ==
    LET x == client[c] IN
    /\ x.pc = "request"
    /\ request' = IF zone[x.on] = None THEN request
                  ELSE [request EXCEPT ![x.req] = [status |-> "ACTIVE", zone |-> x.on,
                                                   tenant |-> x.tenant, target |-> x.target]]
    /\ Done(c)
    /\ UNCHANGED <<conf, zone, deleting, rset, quota, task, job, lock, ops, history>>

\* delete_zone_transfer_request by the tenant that made it.
DeleteRequest(r) ==
    /\ request[r].status # "NONE" /\ ops < MaxOps /\ ops' = ops + 1
    /\ request' = [request EXCEPT ![r] = NoRequest]
    /\ UNCHANGED <<conf, zone, deleting, rset, quota, task, job, client, lock, history>>

\* create_zone_transfer_accept up to its writes: the request is ACTIVE, the key
\* right (whoever knows it), and the tenant is the target or there is none.
Accept(c, t, r) ==
    /\ request[r].status = "ACTIVE"
    /\ request[r].target \in {t, None}
    /\ request[r].zone \notin deleting
    /\ Start(c, "accept", request[r].zone, t, None, r)
    /\ UNCHANGED <<conf, rows, job, lock, crashes, peak, received>>

\* Faulty variant: update_zone leaves the rows of the zone to the old owner.
NewOwnerOfZone(z, t) ==
    /\ zone' = [zone EXCEPT ![z] = t]
    /\ UNCHANGED rset

\* update_zone of the storage with a new tenant: its recordsets and records
\* follow in the same transaction.
NewOwner(z, t) ==
    /\ zone' = [zone EXCEPT ![z] = t]
    /\ rset' = [rset EXCEPT ![z] = IF @ = {} THEN @ ELSE {t}]

\* Faulty variant: the request is not marked as used.
UsedKept(r) == request

\* update_zone_transfer_request: the used request; one deleted meanwhile has no
\* row to update, and the exception rolls the whole transaction back.
Used(r) == [request EXCEPT ![r].status = "COMPLETE"]

Transfer(c) ==
    LET x == client[c] IN
    /\ x.pc = "accept"
    /\ zone[x.on] # None /\ request[x.req].status # "NONE"
    /\ NewOwner(x.on, x.tenant)
    /\ request' = Used(x.req)
    /\ received' = [received EXCEPT ![x.tenant] = @ + 1]
    /\ Done(c)
    /\ UNCHANGED <<conf, deleting, quota, task, job, lock, ops, crashes, disturbed, peak>>

\* The zone or the request has gone: rolled back, the accept's ERROR row too.
TransferFails(c) ==
    LET x == client[c] IN
    /\ x.pc = "accept"
    /\ zone[x.on] = None \/ request[x.req].status = "NONE"
    /\ Done(c)
    /\ UNCHANGED <<conf, rows, job, lock, ops, history>>

-----------------------------------------------------------------------------
(* Imports and exports.                                                    *)

NewTask(k, kind, z) ==
    [task EXCEPT ![k] = [status |-> "PENDING", kind |-> kind, zone |-> z]]
\* The thread or the worker task has its own copy of the row.
NewJob(k, pc, t, z) == job' = [job EXCEPT ![k] = [pc |-> pc, tenant |-> t, zone |-> z]]

\* create_zone_import: the row, and a thread that parses the zone file.
CreateImport(k, t, z) ==
    /\ task[k] = NoTask /\ job[k] = NoJob
    /\ ops < MaxOps /\ ops' = ops + 1
    /\ task' = NewTask(k, "import", z)
    /\ NewJob(k, "parse", t, z)
    /\ UNCHANGED <<conf, zone, deleting, rset, request, quota, client, lock, history>>

\* Faulty variant: a row that has gone is written nevertheless.
SettleRaw(k, status) == task' = [task EXCEPT ![k].status = status]

\* update_zone_import, update_zone_export: NotFound when the row has gone.
Settle(k, status) ==
    task' = IF task[k].status = "NONE" THEN task ELSE [task EXCEPT ![k].status = status]

EndJob(k) == job' = [job EXCEPT ![k] = NoJob]

\* Faulty variant: an unreadable file ends the thread.
ImportErrorSilent(k) ==
    /\ job[k].pc \in {"parse", "insert"}
    /\ lock' = Unlocked(k) /\ EndJob(k)
    /\ task' = IF job[k].pc = "insert" /\ task[k] # NoTask THEN [task EXCEPT ![k].status = "ERROR"] ELSE task
    /\ UNCHANGED <<conf, zone, deleting, rset, request, quota, client, ops, history>>

\* _import_zone: an unreadable file, or any exception of create_zone before its
\* row is stored.
ImportError(k) ==
    /\ job[k].pc \in {"parse", "insert"}
    /\ lock' = Unlocked(k) /\ EndJob(k) /\ Settle(k, "ERROR")
    /\ UNCHANGED <<conf, zone, deleting, rset, request, quota, client, ops, history>>

\* The file is readable; create_zone takes the lock and checks the quota.
ImportParsed(k) ==
    /\ job[k].pc = "parse" /\ TakeLock(k)
    /\ LimitCheck(Cardinality(Owned(job[k].tenant)), HardLimit(job[k].tenant))
    /\ job' = [job EXCEPT ![k].pc = "insert"]
    /\ UNCHANGED <<conf, rows, client, ops, history>>

ImportInsert(k) ==
    LET z == job[k].zone IN
    /\ job[k].pc = "insert" /\ zone[z] = None
    /\ zone' = [zone EXCEPT ![z] = job[k].tenant]
    /\ rset' = [rset EXCEPT ![z] = {job[k].tenant}]
    /\ lock' = Unlocked(k) /\ EndJob(k) /\ Settle(k, "COMPLETE")
    /\ UNCHANGED <<conf, deleting, request, quota, client, ops, history>>

\* The status an export gets: COMPLETE only synchronously and within the quota.
ExportStatus(z) == IF conf.sync /\ z \notin Large THEN "COMPLETE" ELSE "ERROR"

\* create_zone_export: the row, and with a worker the cast start_zone_export.
\* Without one central settles the export itself, but a zone that is too large
\* returns early: the answer says ERROR and the row stays PENDING.
CreateExport(k, t, z) ==
    /\ task[k] = NoTask /\ job[k] = NoJob /\ zone[z] = t
    /\ ops < MaxOps /\ ops' = ops + 1
    /\ \/ conf.worker /\ NewJob(k, "export", t, z)
                      /\ task' = NewTask(k, "export", z)
       \/ ~conf.worker /\ conf.sync /\ z \in Large
                       /\ task' = NewTask(k, "export", z) /\ UNCHANGED job
       \/ ~conf.worker /\ ~(conf.sync /\ z \in Large)
                       /\ task' = [NewTask(k, "export", z) EXCEPT ![k].status = ExportStatus(z)]
                       /\ UNCHANGED job
    /\ UNCHANGED <<conf, zone, deleting, rset, request, quota, client, lock, history>>

\* ExportZone of the worker.
ExportZone(k) ==
    /\ job[k].pc = "export"
    /\ EndJob(k) /\ Settle(k, ExportStatus(job[k].zone))
    /\ UNCHANGED <<conf, zone, deleting, rset, request, quota, client, lock, ops, history>>

\* delete_zone_import, delete_zone_export: the row, not the job.
DeleteTask(k) ==
    /\ task[k] # NoTask
    /\ ops < MaxOps /\ ops' = ops + 1
    /\ task' = [task EXCEPT ![k] = NoTask]
    /\ UNCHANGED <<conf, zone, deleting, rset, request, quota, job, client, lock, history>>

\* central crashes: its requests, import threads and the lock are gone.
CentralCrash ==
    /\ crashes < MaxCrashes /\ crashes' = crashes + 1
    /\ client' = [c \in Clients |-> Idle] /\ lock' = None
    /\ job' = [k \in Tasks |-> IF job[k].pc = "export" THEN job[k] ELSE NoJob]
    /\ UNCHANGED <<conf, rows, ops, disturbed, peak, received>>

\* The cast is lost, or the worker crashes before update_zone_export.
WorkerCrash(k) ==
    /\ crashes < MaxCrashes /\ job[k].pc = "export" /\ crashes' = crashes + 1
    /\ EndJob(k)
    /\ UNCHANGED <<conf, rows, client, lock, ops, disturbed, peak, received>>

-----------------------------------------------------------------------------
RequestStep(c) ==
    \/ EnforceZoneQuota(c) \/ OverQuota(c) \/ InsertZone(c) \/ DropZone(c)
    \/ InsertRecordSet(c) \/ InsertRequest(c) \/ Transfer(c) \/ TransferFails(c)

JobStep(k) == ImportError(k) \/ ImportParsed(k) \/ ImportInsert(k) \/ ExportZone(k)

Next ==
    \/ \E t \in Tenants, n \in Limits \cup {None} : SetQuota(t, n)
    \/ \E c \in Clients, t \in Tenants, z \in Zones :
          \/ CreateZone(c, t, z) \/ DeleteZone(c, t, z) \/ CreateRecordSet(c, t, z)
          \/ \E g \in Tenants \cup {None}, r \in Requests : CreateRequest(c, t, z, g, r)
    \/ \E c \in Clients, t \in Tenants, r \in Requests : Accept(c, t, r)
    \/ \E c \in Clients : RequestStep(c)
    \/ \E r \in Requests : DeleteRequest(r)
    \/ \E k \in Tasks, t \in Tenants, z \in Zones : CreateImport(k, t, z) \/ CreateExport(k, t, z)
    \/ \E k \in Tasks : JobStep(k) \/ DeleteTask(k) \/ WorkerCrash(k)
    \/ CentralCrash

Spec == Init /\ [][Next]_vars

\* A request and a background job that can go on do so.
FairSpec == Spec /\ (\A c \in Clients : WF_vars(RequestStep(c)))
                 /\ (\A k \in Tasks : WF_vars(JobStep(k)))

-----------------------------------------------------------------------------
(* Properties.                                                             *)

\* Type correctness of the tables and of what runs.
TypeOK ==
    /\ zone \in [Zones -> Tenants \cup {None}] /\ deleting \subseteq Zones
    /\ rset \in [Zones -> SUBSET Tenants]
    /\ \A r \in Requests : /\ request[r].status \in {"NONE", "ACTIVE", "COMPLETE"}
                           /\ (request[r].status = "NONE") = (request[r].zone = None)
    /\ quota \in [Tenants -> Limits \cup {None}]
    /\ \A k \in Tasks : /\ task[k].status \in {"NONE", "PENDING", "COMPLETE", "ERROR"}
                        /\ (task[k].status = "NONE") = (task[k].zone = None)
                        /\ job[k].pc \in {"none", "parse", "insert", "export"}
    /\ lock \in Clients \cup Tasks \cup {None}
    /\ ops \in 0..MaxOps /\ crashes \in 0..MaxCrashes /\ disturbed \subseteq Zones

\* The zones a tenant owns never outnumber the greatest limit it ever had plus
\* the transfers it accepted, however many creates and imports run at a time:
\* count and insert are not one transaction, only the lock zone-None keeps them
\* together.
ZonesWithinQuota ==
    \A t \in Tenants : Cardinality(Owned(t)) <= peak[t] + received[t]

\* The rows of a zone belong to the zone's owner (the tenant filter of every
\* query relies on it), unless a recordset was being created when the zone
\* changed hands.
RowsFollowOwner ==
    \A z \in Zones \ disturbed : rset[z] \subseteq {zone[z]}

\* A zone has at most one ACTIVE transfer request, unless two were made at once.
OneActiveRequest ==
    \A z \in Zones \ disturbed :
        Cardinality({r \in Requests : request[r].zone = z /\ request[r].status = "ACTIVE"}) <= 1

\* A zone changes hands only by a request that its present owner made: a request
\* that was used, or that a former owner made, moves it no more - unless
\* requests on the zone overlapped.
GivenByOwner ==
    \A z \in Zones \ disturbed :
        zone[z] # None /\ zone'[z] \notin {zone[z], None} =>
            \E r \in Requests : /\ request[r].zone = z /\ request[r].tenant = zone[z]
                                /\ request[r].status = "ACTIVE"
                                /\ request'[r].status = "COMPLETE"

OwnerGivesAway == [][GivenByOwner]_vars

\* The early return of create_zone_export.
LeftPending(k) == ~conf.worker /\ task[k].kind = "export" /\ conf.sync /\ task[k].zone \in Large

\* A PENDING import or export is settled or deleted, unless a crash took its
\* thread (nothing recovers it) or create_zone_export returned early.
TaskIsSettled ==
    \A k \in Tasks : task[k].status = "PENDING" ~>
        task[k].status # "PENDING" \/ crashes > 0 \/ LeftPending(k)

\* What the comment in create_zone_export says: without a worker the COMPLETE or
\* ERROR status of an export is available on the first poll.
ExportIsSettled ==
    \A k \in Tasks : task[k].kind = "export" /\ ~conf.worker => task[k].status # "PENDING"
=============================================================================
