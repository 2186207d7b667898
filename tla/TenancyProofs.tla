--------------------------- MODULE TenancyProofs ---------------------------
(***************************************************************************)
(* Proofs about Tenancy for every choice of its constants.                 *)
(*                                                                         *)
(* None of its invariants is inductive.  Typed gives every field its type; *)
(* Handed says what a request that has been read and not yet committed may *)
(* rely on while no other request works on its zone; Budgeted says that    *)
(* whoever is between the check of a quota and the insert of a zone holds  *)
(* the lock zone-None, and that the quota still has room.                  *)
(***************************************************************************)
EXTENDS Tenancy, FiniteSetTheorems, TLAPS

TransferRow == [status : {"NONE", "ACTIVE", "COMPLETE"}, zone : Zones \cup {None},
                tenant : Tenants \cup {None}, target : Tenants \cup {None}]

TaskRow == [status : {"NONE", "PENDING", "COMPLETE", "ERROR"},
            kind : {"none", "import", "export"}, zone : Zones \cup {None}]

Job == [pc : {"none", "parse", "insert", "export"}, tenant : Tenants \cup {None},
        zone : Zones \cup {None}]

Pcs == {"idle", "lock", "insert", "delete", "rset", "request", "accept"}

Call == [pc : Pcs, on : Zones \cup {None}, tenant : Tenants \cup {None},
         target : Tenants \cup {None}, req : Requests \cup {None}]

\* A row without a status is no row
SoundRow(row) == row = NoRequest \/ (row.status # "NONE" /\ row.zone \in Zones)

SoundTask(row) == row = NoTask \/ (row.status # "NONE" /\ row.zone \in Zones)

\* A request under way has a zone, a tenant and where it needs one the id of a
\* transfer request
SoundCall(x) ==
    \/ x = Idle
    \/ /\ x.pc # "idle" /\ x.on \in Zones /\ x.tenant \in Tenants
       /\ x.pc \in {"request", "accept"} => x.req \in Requests

SoundJob(j) == j.pc # "none" => j.tenant \in Tenants /\ j.zone \in Zones

TablesTyped ==
    /\ zone \in [Zones -> Tenants \cup {None}] /\ deleting \subseteq Zones
    /\ rset \in [Zones -> SUBSET Tenants]
    /\ quota \in [Tenants -> Limits \cup {None}]

RequestsTyped == request \in [Requests -> TransferRow] /\ \A r \in Requests : SoundRow(request[r])

TasksTyped ==
    /\ task \in [Tasks -> TaskRow] /\ \A k \in Tasks : SoundTask(task[k])
    /\ job \in [Tasks -> Job] /\ \A k \in Tasks : SoundJob(job[k])

ClientsTyped == client \in [Clients -> Call] /\ \A c \in Clients : SoundCall(client[c])

CountersTyped ==
    /\ lock \in Clients \cup Tasks \cup {None}
    /\ ops \in 0..MaxOps /\ crashes \in 0..MaxCrashes /\ disturbed \subseteq Zones
    /\ peak \in [Tenants -> Nat] /\ received \in [Tenants -> Nat]

Typed == TablesTyped /\ RequestsTyped /\ TasksTyped /\ ClientsTyped /\ CountersTyped

-----------------------------------------------------------------------------
Active(r, z) == request[r].zone = z /\ request[r].status = "ACTIVE"

\* Two requests work on one zone only when it counts as disturbed
Alone ==
    \A c, d \in Clients : c # d /\ client[c].on = client[d].on /\ client[c].on # None =>
        client[c].on \in disturbed

\* The owner that create_recordset and create_zone_transfer_request have read is
\* still the owner, and the latter has seen that there is no ACTIVE request
ReadIsFresh ==
    \A c \in Clients : client[c].on \notin disturbed =>
        /\ client[c].pc \in {"rset", "request"} => zone[client[c].on] = client[c].tenant
        /\ client[c].pc = "request" => \A r \in Requests : ~Active(r, client[c].on)

\* The id of a request to come belongs to one create_zone_transfer_request
NewIdsOwned ==
    \A c \in Clients : client[c].pc = "request" =>
        /\ request[client[c].req] = NoRequest
        /\ \A d \in Clients \ {c} : client[d].req # client[c].req

\* The request that is being accepted is one of the zone, and not used yet
AcceptsOwn ==
    \A c \in Clients : client[c].pc = "accept" /\ request[client[c].req].status # "NONE" =>
        /\ request[client[c].req].zone = client[c].on
        /\ client[c].on \notin disturbed => request[client[c].req].status = "ACTIVE"

\* An ACTIVE request was made by the present owner, and is the only one
ActiveIsOwners ==
    \A r \in Requests, z \in Zones \ disturbed : Active(r, z) =>
        /\ zone[z] # None /\ request[r].tenant = zone[z]
        /\ \A s \in Requests : Active(s, z) => s = r

Handed == Alone /\ ReadIsFresh /\ NewIdsOwned /\ AcceptsOwn /\ ActiveIsOwners
          /\ RowsFollowOwner

-----------------------------------------------------------------------------
\* Between _enforce_zone_quota and the insert the lock zone-None is held
InsertsLocked == /\ \A c \in Clients : client[c].pc = "insert" => lock = c
                 /\ \A k \in Tasks : job[k].pc = "insert" => lock = k

\* The limit a tenant has, and the one it falls back to, are below its greatest
LimitsBelowPeak == \A t \in Tenants : HardLimit(t) <= peak[t] /\ Default <= peak[t]

HasRoom(t) == Cardinality(Owned(t)) < peak[t] + received[t]

InsertsHaveRoom == /\ \A c \in Clients : client[c].pc = "insert" => HasRoom(client[c].tenant)
                   /\ \A k \in Tasks : job[k].pc = "insert" => HasRoom(job[k].tenant)

Budgeted == InsertsLocked /\ LimitsBelowPeak /\ InsertsHaveRoom /\ ZonesWithinQuota

-----------------------------------------------------------------------------
(* Types                                                                   *)

USE TenancyAssumption

\* The null rows and the idle request are well typed
LEMMA NullTypes ==
    /\ Idle \in Call /\ SoundCall(Idle) /\ NoRequest \in TransferRow /\ SoundRow(NoRequest)
    /\ NoTask \in TaskRow /\ SoundTask(NoTask) /\ NoJob \in Job /\ SoundJob(NoJob)
BY DEF Idle, Call, Pcs, SoundCall, NoRequest, TransferRow, SoundRow, NoTask, TaskRow,
       SoundTask, NoJob, Job, SoundJob

\* A client's request is well typed from its start to its end
LEMMA ClientType ==
    ASSUME Typed, NEW c \in Clients, NEW x \in Call, SoundCall(x),
           client' = [client EXCEPT ![c] = x]
    PROVE  ClientsTyped'
BY DEF Typed, ClientsTyped

\* Starting a request (Start) keeps the types of what it changes
LEMMA StartType ==
    ASSUME Typed, NEW c \in Clients, NEW pc \in Pcs \ {"idle"}, NEW z \in Zones, NEW t \in Tenants,
           NEW g \in Tenants \cup {None}, NEW r \in Requests \cup {None},
           pc \in {"request", "accept"} => r \in Requests,
           Start(c, pc, z, t, g, r), UNCHANGED <<lock, crashes, peak, received>>
    PROVE  ClientsTyped' /\ CountersTyped'
<1> DEFINE x == [pc |-> pc, on |-> z, tenant |-> t, target |-> g, req |-> r]
<1>1. x \in Call /\ SoundCall(x)
    BY DEF Call, SoundCall
<1>2. client' = [client EXCEPT ![c] = x]
    BY DEF Start
<1>3. CountersTyped'
    BY DEF Typed, CountersTyped, Start
<1> QED  BY <1>1, <1>2, <1>3, ClientType

\* The end of a request (Done)
LEMMA DoneType ==
    ASSUME Typed, NEW c \in Clients, Done(c)
    PROVE  ClientsTyped'
BY NullTypes, ClientType DEF Done

\* Settling a task row (update_zone_import, update_zone_export)
LEMMA SettleType ==
    ASSUME Typed, NEW k \in Tasks, NEW s \in {"COMPLETE", "ERROR"}, Settle(k, s)
    PROVE  task' \in [Tasks -> TaskRow] /\ \A j \in Tasks : SoundTask(task'[j])
BY DEF Settle, Typed, TasksTyped, TaskRow, SoundTask, NoTask

\* What the job of a task does next
LEMMA JobType ==
    ASSUME Typed, NEW k \in Tasks, NEW j \in Job, SoundJob(j), job' = [job EXCEPT ![k] = j]
    PROVE  job' \in [Tasks -> Job] /\ \A i \in Tasks : SoundJob(job'[i])
BY DEF Typed, TasksTyped

\* The actions that start a request, and quotas
LEMMA StartsTyped ==
    ASSUME Typed, NEW c \in Clients, NEW t \in Tenants, NEW z \in Zones,
           \/ CreateZone(c, t, z) \/ DeleteZone(c, t, z) \/ CreateRecordSet(c, t, z)
           \/ \E g \in Tenants \cup {None}, r \in Requests : CreateRequest(c, t, z, g, r)
    PROVE  Typed'
<1>1. ClientsTyped' /\ CountersTyped'
    <2>1. CASE CreateZone(c, t, z)
        <3>1. Start(c, "lock", z, t, None, None) /\ UNCHANGED <<lock, crashes, peak, received>>
            BY <2>1 DEF CreateZone
        <3> QED  BY <3>1, StartType DEF Pcs
    <2>2. CASE DeleteZone(c, t, z)
        <3>1. Start(c, "delete", z, t, None, None) /\ UNCHANGED <<lock, crashes, peak, received>>
            BY <2>2 DEF DeleteZone
        <3> QED  BY <3>1, StartType DEF Pcs
    <2>3. CASE CreateRecordSet(c, t, z)
        <3>1. Start(c, "rset", z, t, None, None) /\ UNCHANGED <<lock, crashes, peak, received>>
            BY <2>3 DEF CreateRecordSet
        <3> QED  BY <3>1, StartType DEF Pcs
    <2>4. ASSUME NEW g \in Tenants \cup {None}, NEW r \in Requests, CreateRequest(c, t, z, g, r)
          PROVE  ClientsTyped' /\ CountersTyped'
        <3>1. Start(c, "request", z, t, g, r) /\ UNCHANGED <<lock, crashes, peak, received>>
            BY <2>4 DEF CreateRequest
        <3> QED  BY <3>1, StartType DEF Pcs
    <2> QED  BY <2>1, <2>2, <2>3, <2>4
<1>2. TablesTyped' /\ RequestsTyped' /\ TasksTyped'
    BY DEF Typed, TablesTyped, RequestsTyped, TasksTyped, CreateZone, DeleteZone, CreateRecordSet,
           CreateRequest, rows
<1> QED  BY <1>1, <1>2 DEF Typed

\* create_zone_transfer_accept starts
LEMMA AcceptTyped ==
    ASSUME Typed, NEW c \in Clients, NEW t \in Tenants, NEW r \in Requests, Accept(c, t, r)
    PROVE  Typed'
<1>1. request[r].zone \in Zones
    BY DEF Accept, Typed, RequestsTyped, SoundRow, NoRequest
<1>2. Start(c, "accept", request[r].zone, t, None, r) /\ UNCHANGED <<lock, crashes, peak, received>>
    BY DEF Accept
<1>3. ClientsTyped' /\ CountersTyped'
    BY <1>1, <1>2, StartType DEF Pcs
<1> QED  BY <1>3 DEF Typed, TablesTyped, RequestsTyped, TasksTyped, Accept, rows

\* The commits of requests
LEMMA RequestStepTyped ==
    ASSUME Typed, NEW c \in Clients, RequestStep(c)
    PROVE  Typed'
<1>0. client[c] \in Call /\ SoundCall(client[c])
    BY DEF Typed, ClientsTyped
<1>1. ClientsTyped'
    <2>1. CASE EnforceZoneQuota(c)
        <3> DEFINE x == [client[c] EXCEPT !.pc = "insert"]
        <3>1. x \in Call /\ SoundCall(x)
            BY <1>0, <2>1 DEF Call, SoundCall, Pcs, EnforceZoneQuota, Idle
        <3>2. client' = [client EXCEPT ![c] = x]
            BY <2>1 DEF EnforceZoneQuota, Typed, ClientsTyped
        <3> QED  BY <3>1, <3>2, ClientType
    <2> QED  BY <2>1, DoneType DEF RequestStep, OverQuota, InsertZone, DropZone, InsertRecordSet,
                                  InsertRequest, Transfer, TransferFails
<1>2. CountersTyped'
    <2>1. CASE Transfer(c)
        BY <1>0, <2>1 DEF Typed, CountersTyped, Transfer, SoundCall, Idle
    <2>2. CASE ~Transfer(c)
        BY <2>2 DEF Typed, CountersTyped, RequestStep, EnforceZoneQuota, OverQuota, InsertZone, DropZone,
           InsertRecordSet, InsertRequest, TransferFails, TakeLock, Unlocked, history
    <2> QED  BY <2>1, <2>2
<1>3. TablesTyped'
    BY <1>0 DEF Typed, TablesTyped, RequestStep, EnforceZoneQuota, OverQuota, InsertZone, DropZone,
           InsertRecordSet, InsertRequest, Transfer, TransferFails, NewOwner, rows, SoundCall, Idle
<1>4. RequestsTyped'
    <2>1. CASE DropZone(c)
        BY <2>1, NullTypes DEF DropZone, Typed, RequestsTyped
    <2>2. CASE InsertRequest(c)
        <3> DEFINE x == client[c]
                   row == [status |-> "ACTIVE", zone |-> x.on, tenant |-> x.tenant, target |-> x.target]
        <3>1. row \in TransferRow /\ SoundRow(row) /\ x.req \in Requests
            BY <1>0, <2>2 DEF InsertRequest, TransferRow, SoundRow, SoundCall, Call, Idle
        <3>2. request' = request \/ request' = [request EXCEPT ![x.req] = row]
            BY <2>2 DEF InsertRequest
        <3> HIDE DEF row
        <3> QED  BY <3>1, <3>2 DEF Typed, RequestsTyped
    <2>3. CASE Transfer(c)
        <3>1. client[c].req \in Requests /\ request[client[c].req].status # "NONE"
            BY <1>0, <2>3 DEF Transfer, SoundCall, Idle
        <3>2. request' = [request EXCEPT ![client[c].req].status = "COMPLETE"]
            BY <2>3 DEF Transfer, Used
        <3> QED  BY <3>1, <3>2 DEF Typed, RequestsTyped, TransferRow, SoundRow, NoRequest
    <2> QED  BY <2>1, <2>2, <2>3 DEF Typed, RequestsTyped, RequestStep, EnforceZoneQuota, OverQuota,
                                    InsertZone, InsertRecordSet, TransferFails, rows
<1>5. TasksTyped'
    BY DEF Typed, TasksTyped, RequestStep, EnforceZoneQuota, OverQuota, InsertZone, DropZone,
           InsertRecordSet, InsertRequest, Transfer, TransferFails, rows
<1> QED  BY <1>1, <1>2, <1>3, <1>4, <1>5 DEF Typed

\* The steps of imports and exports
LEMMA JobStepTyped ==
    ASSUME Typed, NEW k \in Tasks, JobStep(k)
    PROVE  Typed'
<1>0. job[k] \in Job /\ SoundJob(job[k])
    BY DEF Typed, TasksTyped
<1>1. job' \in [Tasks -> Job] /\ \A i \in Tasks : SoundJob(job'[i])
    <2>1. CASE ImportParsed(k)
        <3> DEFINE j == [job[k] EXCEPT !.pc = "insert"]
        <3>1. j \in Job /\ SoundJob(j)
            BY <1>0, <2>1 DEF ImportParsed, Job, SoundJob
        <3>2. job' = [job EXCEPT ![k] = j]
            BY <2>1 DEF ImportParsed, Typed, TasksTyped
        <3> QED  BY <3>1, <3>2, JobType
    <2> QED  BY <2>1, NullTypes, JobType DEF JobStep, ImportError, ImportInsert, ExportZone, EndJob
<1>2. task' \in [Tasks -> TaskRow] /\ \A i \in Tasks : SoundTask(task'[i])
    <2>1. CASE ImportParsed(k)
        BY <2>1 DEF ImportParsed, rows, Typed, TasksTyped
    <2> QED  BY <2>1, SettleType DEF JobStep, ImportError, ImportInsert, ExportZone, ExportStatus
<1>3. TablesTyped'
    BY <1>0 DEF Typed, TablesTyped, JobStep, ImportError, ImportParsed, ImportInsert, ExportZone, rows,
                SoundJob
<1>4. RequestsTyped' /\ ClientsTyped' /\ CountersTyped'
    BY DEF Typed, RequestsTyped, ClientsTyped, CountersTyped, JobStep, ImportError, ImportParsed,
           ImportInsert, ExportZone, TakeLock, Unlocked, rows, history
<1> QED  BY <1>1, <1>2, <1>3, <1>4 DEF Typed, TasksTyped

\* What is left: quotas, deleted requests, new and deleted tasks, crashes
LEMMA OthersTyped ==
    ASSUME Typed,
           \/ \E t \in Tenants, n \in Limits \cup {None} : SetQuota(t, n)
           \/ \E r \in Requests : DeleteRequest(r)
           \/ \E k \in Tasks, t \in Tenants, z \in Zones : CreateImport(k, t, z) \/ CreateExport(k, t, z)
           \/ \E k \in Tasks : DeleteTask(k) \/ WorkerCrash(k)
           \/ CentralCrash
    PROVE  Typed'
<1>1. ASSUME NEW t \in Tenants, NEW n \in Limits \cup {None}, SetQuota(t, n) PROVE Typed'
    BY <1>1 DEF SetQuota, Typed, TablesTyped, RequestsTyped, TasksTyped, ClientsTyped, CountersTyped
<1>2. ASSUME NEW r \in Requests, DeleteRequest(r) PROVE Typed'
    BY <1>2, NullTypes DEF DeleteRequest, history, Typed, TablesTyped, RequestsTyped, TasksTyped,
                           ClientsTyped, CountersTyped
<1>3. ASSUME NEW k \in Tasks, NEW t \in Tenants, NEW z \in Zones,
             CreateImport(k, t, z) \/ CreateExport(k, t, z)
      PROVE  Typed'
    <2>1. \A s \in {"PENDING", "COMPLETE", "ERROR"}, kind \in {"import", "export"} :
            LET row == [status |-> s, kind |-> kind, zone |-> z] IN row \in TaskRow /\ SoundTask(row)
        BY DEF TaskRow, SoundTask
    <2>2. PICK s \in {"PENDING", "COMPLETE", "ERROR"}, kind \in {"import", "export"} :
            task' = [task EXCEPT ![k] = [status |-> s, kind |-> kind, zone |-> z]]
        BY <1>3 DEF CreateImport, CreateExport, NewTask, ExportStatus, Typed, TasksTyped
    <2>3. task' \in [Tasks -> TaskRow] /\ \A i \in Tasks : SoundTask(task'[i])
        BY <2>1, <2>2 DEF Typed, TasksTyped
    <2>4. \A pc \in {"parse", "export"} :
            LET j == [pc |-> pc, tenant |-> t, zone |-> z] IN j \in Job /\ SoundJob(j)
        BY DEF Job, SoundJob
    <2>5. job' = job \/ \E pc \in {"parse", "export"} :
                            job' = [job EXCEPT ![k] = [pc |-> pc, tenant |-> t, zone |-> z]]
        BY <1>3 DEF CreateImport, CreateExport, NewJob
    <2>6. job' \in [Tasks -> Job] /\ \A i \in Tasks : SoundJob(job'[i])
        BY <2>4, <2>5 DEF Typed, TasksTyped
    <2>7. TablesTyped' /\ RequestsTyped' /\ ClientsTyped' /\ CountersTyped'
        BY <1>3 DEF CreateImport, CreateExport, history, Typed, TablesTyped, RequestsTyped,
                    ClientsTyped, CountersTyped
    <2> QED  BY <2>3, <2>6, <2>7 DEF Typed, TasksTyped
<1>4. ASSUME NEW k \in Tasks, DeleteTask(k) \/ WorkerCrash(k) PROVE Typed'
    <2>1. TasksTyped'
        BY <1>4, NullTypes DEF DeleteTask, WorkerCrash, EndJob, rows, Typed, TasksTyped
    <2> QED  BY <1>4, <2>1 DEF DeleteTask, WorkerCrash, rows, history, Typed, TablesTyped,
                              RequestsTyped, ClientsTyped, CountersTyped
<1>5. CASE CentralCrash
    <2>1. TasksTyped' /\ ClientsTyped'
        BY <1>5, NullTypes DEF CentralCrash, rows, Typed, TasksTyped, ClientsTyped
    <2> QED  BY <1>5, <2>1 DEF CentralCrash, rows, Typed, TablesTyped, RequestsTyped, CountersTyped
<1> QED  BY <1>1, <1>2, <1>3, <1>4, <1>5

\* Every step keeps the types
LEMMA TypeStep == Typed /\ [Next]_vars => Typed'
<1> SUFFICES ASSUME Typed, [Next]_vars PROVE Typed'
    OBVIOUS
<1>1. CASE UNCHANGED vars
    BY <1>1 DEF vars, Typed, TablesTyped, RequestsTyped, TasksTyped, ClientsTyped, CountersTyped
<1>2. CASE Next
    BY <1>2, StartsTyped, AcceptTyped, RequestStepTyped, JobStepTyped, OthersTyped DEF Next
<1> QED  BY <1>1, <1>2

\* The initial states have the declared types
LEMMA TypeInit == Init => Typed
BY NullTypes DEF Init, Typed, TablesTyped, RequestsTyped, TasksTyped, ClientsTyped, CountersTyped

\* Every reachable state has the declared types (zones, transfer requests, quotas,
\* imports and exports), whatever overlaps and crashes
THEOREM TypeCorrect == Spec => []TypeOK
<1>1. Spec => []Typed
    BY TypeInit, TypeStep, PTL DEF Spec
<1>2. Typed => TypeOK
    BY DEF Typed, TablesTyped, RequestsTyped, TasksTyped, ClientsTyped, CountersTyped, TypeOK,
           TransferRow, SoundRow, NoRequest, TaskRow, SoundTask, NoTask, Job
<1> QED  BY <1>1, <1>2, PTL

-----------------------------------------------------------------------------
(* Owners, rows and transfer requests                                      *)

\* What a request under way carries
LEMMA CallFacts ==
    ASSUME Typed
    PROVE  /\ \A c \in Clients : /\ client[c] \in Call
                                 /\ client[c].pc # "idle" => client[c].on \in Zones /\ client[c].tenant \in Tenants
                                 /\ client[c].pc \in {"request", "accept"} => client[c].req \in Requests
                                 /\ client[c].pc = "idle" => client[c] = Idle
           /\ \A r \in Requests : request[r].status # "NONE" => request[r].zone \in Zones
           /\ \A r \in Requests : request[r].status = "NONE" => request[r] = NoRequest
           /\ zone \in [Zones -> Tenants \cup {None}]
BY DEF Typed, ClientsTyped, SoundCall, RequestsTyped, SoundRow, NoRequest, Idle, TablesTyped

\* A new request disturbs its zone when another one works on it already
LEMMA StartFacts ==
    ASSUME Typed, Alone, NEW c \in Clients, NEW pc \in Pcs \ {"idle"}, NEW z \in Zones, NEW t, NEW g, NEW r,
           Start(c, pc, z, t, g, r)
    PROVE  /\ Alone'
           /\ client'[c] = [pc |-> pc, on |-> z, tenant |-> t, target |-> g, req |-> r]
           /\ \A d \in Clients \ {c} : client'[d] = client[d]
           /\ disturbed \subseteq disturbed'
           /\ client[c] = Idle
<1>1. client'[c] = [pc |-> pc, on |-> z, tenant |-> t, target |-> g, req |-> r]
    BY DEF Start, Typed, ClientsTyped
<1>2. \A d \in Clients \ {c} : client'[d] = client[d]
    BY DEF Start, Typed, ClientsTyped
<1>3. disturbed \subseteq disturbed' /\ (z \notin disturbed' => \A d \in Clients \ {c} : client[d].on # z)
    BY DEF Start
<1>4. client[c] = Idle
    BY CallFacts DEF Start
<1> QED  BY <1>1, <1>2, <1>3, <1>4 DEF Alone

\* A request that is over, or has only checked its quota, works on no zone more
LEMMA DoneFacts ==
    ASSUME Typed, Alone, NEW c \in Clients, Done(c), disturbed' = disturbed
    PROVE  Alone' /\ client'[c] = Idle /\ \A d \in Clients \ {c} : client'[d] = client[d]
BY DEF Done, Typed, ClientsTyped, Alone, Idle

\* A step that keeps zones, their rows and the transfer requests, and lets
\* requests at most end, keeps what the others rely on
LEMMA QuietStep ==
    ASSUME Typed, Handed, UNCHANGED <<zone, rset, request, disturbed>>,
           \A d \in Clients : client'[d] \in {client[d], Idle, [client[d] EXCEPT !.pc = "insert"]}
    PROVE  Handed'
BY CallFacts DEF Handed, Alone, ReadIsFresh, NewIdsOwned, AcceptsOwn, ActiveIsOwners, Active,
                 RowsFollowOwner, Idle, Call

\* The requests that start
LEMMA StartHanded ==
    ASSUME Typed, Handed, NEW c \in Clients, NEW t \in Tenants, NEW z \in Zones,
           \/ CreateZone(c, t, z) \/ DeleteZone(c, t, z) \/ CreateRecordSet(c, t, z)
           \/ \E g \in Tenants \cup {None}, r \in Requests : CreateRequest(c, t, z, g, r)
           \/ \E r \in Requests : Accept(c, t, r) /\ z = request[r].zone
    PROVE  Handed'
<1> USE CallFacts DEF Handed
<1>1. PICK pc \in Pcs \ {"idle"}, g \in Tenants \cup {None}, r \in Requests \cup {None} :
        /\ Start(c, pc, z, t, g, r)
        /\ pc \in {"rset", "request"} => zone[z] = t
        /\ pc = "request" => FreeToRequest(t, z) /\ request[r] = NoRequest
                             /\ \A d \in Clients : client[d].req # r
        /\ pc = "request" => r \in Requests
        /\ pc = "accept" => r \in Requests /\ Active(r, z)
        /\ pc # "accept" /\ pc # "request" => r = None
        /\ UNCHANGED <<zone, rset, request>>
    BY DEF CreateZone, DeleteZone, CreateRecordSet, CreateRequest, Accept, Active, Pcs, rows
<1>2. /\ Alone'
      /\ client'[c] = [pc |-> pc, on |-> z, tenant |-> t, target |-> g, req |-> r]
      /\ \A d \in Clients \ {c} : client'[d] = client[d]
      /\ disturbed \subseteq disturbed'
    BY <1>1, StartFacts
<1>3. pc = "request" /\ z \notin disturbed => \A s \in Requests : ~Active(s, z)
    BY <1>1 DEF FreeToRequest, Visible, ActiveIsOwners, Active
<1>4. ReadIsFresh'
    BY <1>1, <1>2, <1>3 DEF ReadIsFresh, Active
<1>5. NewIdsOwned'
    BY <1>1, <1>2 DEF NewIdsOwned, Active, NoRequest
<1>6. AcceptsOwn'
    BY <1>1, <1>2 DEF AcceptsOwn, Active
<1>7. ActiveIsOwners' /\ RowsFollowOwner'
    BY <1>1, <1>2 DEF ActiveIsOwners, Active, RowsFollowOwner
<1> QED  BY <1>2, <1>4, <1>5, <1>6, <1>7

\* A zone that appears has no request yet, and its rows are its owner's
LEMMA NewZoneHanded ==
    ASSUME Typed, Handed, NEW z \in Zones, NEW t \in Tenants, zone[z] = None,
           zone' = [zone EXCEPT ![z] = t], rset' = [rset EXCEPT ![z] = {t}],
           UNCHANGED <<request, disturbed>>, \A d \in Clients : client'[d] \in {client[d], Idle}
    PROVE  Handed'
<1>1. rset \in [Zones -> SUBSET Tenants]
    BY DEF Typed, TablesTyped
<1> QED
    BY <1>1, CallFacts DEF Handed, Alone, ReadIsFresh, NewIdsOwned, AcceptsOwn, ActiveIsOwners, Active,
                           RowsFollowOwner, Idle

\* The commits of requests
LEMMA RequestStepHanded ==
    ASSUME Typed, Handed, NEW c \in Clients, RequestStep(c)
    PROVE  Handed'
<1> USE CallFacts
<1>0. rset \in [Zones -> SUBSET Tenants] /\ request \in [Requests -> TransferRow]
    BY DEF Typed, TablesTyped, RequestsTyped
<1>1. CASE EnforceZoneQuota(c) \/ OverQuota(c) \/ TransferFails(c)
    BY <1>1, QuietStep DEF EnforceZoneQuota, OverQuota, TransferFails, Done, rows, history, Typed,
                           ClientsTyped
<1>2. ASSUME Done(c), disturbed' = disturbed
      PROVE  Alone' /\ client'[c] = Idle /\ \A d \in Clients \ {c} : client'[d] = client[d]
    BY <1>2, DoneFacts DEF Handed
<1>3. CASE InsertZone(c)
    <2>1. Done(c) /\ UNCHANGED <<request, disturbed>> /\ client[c].on \in Zones /\ client[c].tenant \in Tenants
        BY <1>3 DEF InsertZone, history
    <2>2. \A d \in Clients : client'[d] \in {client[d], Idle}
        BY <1>2, <2>1
    <2>3. CASE zone[client[c].on] = None
        BY <1>3, <2>1, <2>2, <2>3, NewZoneHanded DEF InsertZone
    <2>4. CASE zone[client[c].on] # None
        BY <1>3, <2>1, <2>2, <2>4, QuietStep DEF InsertZone
    <2> QED  BY <2>3, <2>4
<1>4. CASE DropZone(c)
    <2> DEFINE z == client[c].on
    <2>1. /\ Done(c) /\ disturbed' = disturbed /\ z \in Zones
          /\ zone' = [zone EXCEPT ![z] = None] /\ rset' = [rset EXCEPT ![z] = {}]
          /\ request' = [r \in Requests |-> IF request[r].zone = z THEN NoRequest ELSE request[r]]
        BY <1>4 DEF DropZone, history
    <2>2. Alone' /\ client'[c] = Idle /\ \A d \in Clients \ {c} : client'[d] = client[d]
        BY <1>2, <2>1
    <2>3. \A d \in Clients \ {c} : client[d].on = z => z \in disturbed
        BY <2>1 DEF Handed, Alone
    <2> HIDE DEF z
    <2>4. ReadIsFresh'
        BY <2>1, <2>2, <2>3 DEF Handed, ReadIsFresh, Idle, Active, NoRequest
    <2>5. NewIdsOwned' /\ AcceptsOwn'
        BY <2>1, <2>2 DEF Handed, NewIdsOwned, AcceptsOwn, Idle, NoRequest
    <2>6. ActiveIsOwners' /\ RowsFollowOwner'
        BY <1>0, <2>1 DEF Handed, ActiveIsOwners, RowsFollowOwner, Active, NoRequest
    <2> QED  BY <2>2, <2>4, <2>5, <2>6 DEF Handed
<1>5. CASE InsertRecordSet(c)
    <2>1. /\ Done(c) /\ UNCHANGED <<zone, request, disturbed>> /\ client[c].on \in Zones /\ client[c].pc = "rset"
          /\ rset' = IF zone[client[c].on] = None THEN rset
                     ELSE [rset EXCEPT ![client[c].on] = @ \cup {client[c].tenant}]
        BY <1>5 DEF InsertRecordSet, history
    <2>2. Alone' /\ client'[c] = Idle /\ \A d \in Clients \ {c} : client'[d] = client[d]
        BY <1>2, <2>1
    <2>3. RowsFollowOwner'
        BY <1>0, <2>1 DEF Handed, RowsFollowOwner, ReadIsFresh
    <2>4. ReadIsFresh' /\ NewIdsOwned' /\ AcceptsOwn' /\ ActiveIsOwners'
        BY <2>1, <2>2 DEF Handed, ReadIsFresh, NewIdsOwned, AcceptsOwn, ActiveIsOwners, Active, Idle
    <2> QED  BY <2>2, <2>3, <2>4 DEF Handed
<1>6. CASE InsertRequest(c)
    <2> DEFINE x == client[c]
               row == [status |-> "ACTIVE", zone |-> x.on, tenant |-> x.tenant, target |-> x.target]
    <2>1. /\ Done(c) /\ UNCHANGED <<zone, rset, disturbed>> /\ x.on \in Zones /\ x.pc = "request"
          /\ x.req \in Requests
          /\ request' = IF zone[x.on] = None THEN request ELSE [request EXCEPT ![x.req] = row]
        BY <1>6 DEF InsertRequest, history
    <2>2. Alone' /\ client'[c] = Idle /\ \A d \in Clients \ {c} : client'[d] = client[d]
        BY <1>2, <2>1
    <2>3. /\ \A d \in Clients \ {c} : client[d].req # x.req
          /\ \A d \in Clients \ {c} : client[d].on = x.on => x.on \in disturbed
          /\ x.on \notin disturbed => zone[x.on] = x.tenant /\ \A r \in Requests : ~Active(r, x.on)
        BY <2>1 DEF Handed, NewIdsOwned, Alone, ReadIsFresh
    <2>4. row.status = "ACTIVE" /\ row.zone = x.on /\ row.tenant = x.tenant
        OBVIOUS
    <2> HIDE DEF x, row
    <2>5. /\ \A r \in Requests \ {x.req} : request'[r] = request[r]
          /\ request'[x.req] = request[x.req] \/ (request'[x.req] = row /\ zone[x.on] # None)
        BY <1>0, <2>1
    <2>6. ReadIsFresh'
        BY <2>1, <2>2, <2>3, <2>4, <2>5 DEF Handed, ReadIsFresh, Active, Idle
    <2>7. NewIdsOwned' /\ AcceptsOwn'
        BY <2>1, <2>2, <2>3, <2>5 DEF Handed, NewIdsOwned, AcceptsOwn, Idle
    <2>8. ActiveIsOwners' /\ RowsFollowOwner'
        BY <2>1, <2>3, <2>4, <2>5 DEF Handed, ActiveIsOwners, RowsFollowOwner, Active
    <2> QED  BY <2>2, <2>6, <2>7, <2>8 DEF Handed
<1>7. CASE Transfer(c)
    <2> DEFINE z == client[c].on
               q == client[c].req
               t == client[c].tenant
    <2>1. /\ Done(c) /\ disturbed' = disturbed /\ z \in Zones /\ t \in Tenants /\ q \in Requests
          /\ client[c].pc = "accept" /\ request[q].status # "NONE"
          /\ zone' = [zone EXCEPT ![z] = t]
          /\ rset' = [rset EXCEPT ![z] = IF @ = {} THEN @ ELSE {t}]
          /\ request' = [request EXCEPT ![q].status = "COMPLETE"]
        BY <1>7 DEF Transfer, NewOwner, Used
    <2>2. Alone' /\ client'[c] = Idle /\ \A d \in Clients \ {c} : client'[d] = client[d]
        BY <1>2, <2>1
    <2>3. /\ request[q].zone = z /\ (z \notin disturbed => request[q].status = "ACTIVE")
          /\ \A d \in Clients \ {c} : client[d].on = z => z \in disturbed
        BY <2>1 DEF Handed, AcceptsOwn, Alone
    <2> HIDE DEF z, q, t
    <2>4. /\ \A r \in Requests \ {q} : request'[r] = request[r]
          /\ request'[q].status = "COMPLETE" /\ request'[q].zone = request[q].zone
          /\ request'[q].tenant = request[q].tenant
        BY <1>0, <2>1 DEF TransferRow
    <2>5. ReadIsFresh'
        BY <2>1, <2>2, <2>3, <2>4 DEF Handed, ReadIsFresh, Active, Idle
    <2>6. NewIdsOwned'
        BY <2>1, <2>2, <2>4 DEF Handed, NewIdsOwned, Idle, NoRequest
    <2>7. AcceptsOwn'
        BY <2>1, <2>2, <2>3, <2>4 DEF Handed, AcceptsOwn, Idle
    <2>8. ActiveIsOwners'
        BY <2>1, <2>3, <2>4 DEF Handed, ActiveIsOwners, Active
    <2>9. RowsFollowOwner'
        BY <1>0, <2>1 DEF Handed, RowsFollowOwner
    <2> QED  BY <2>2, <2>5, <2>6, <2>7, <2>8, <2>9 DEF Handed
<1> QED  BY <1>1, <1>3, <1>4, <1>5, <1>6, <1>7 DEF RequestStep

\* Every step keeps what requests under way rely on
LEMMA HandedStep == Typed /\ Handed /\ [Next]_vars => Handed'
<1> SUFFICES ASSUME Typed, Handed, [Next]_vars PROVE Handed'
    OBVIOUS
<1>1. CASE \/ UNCHANGED vars \/ CentralCrash
           \/ \E t \in Tenants, n \in Limits \cup {None} : SetQuota(t, n)
           \/ \E k \in Tasks : DeleteTask(k) \/ WorkerCrash(k) \/ ImportError(k) \/ ImportParsed(k)
                               \/ ExportZone(k)
           \/ \E k \in Tasks, t \in Tenants, z \in Zones : CreateImport(k, t, z) \/ CreateExport(k, t, z)
    BY <1>1, QuietStep DEF vars, CentralCrash, SetQuota, DeleteTask, WorkerCrash, ImportError, ImportParsed,
                           ExportZone, CreateImport, CreateExport, rows, history
<1>2. ASSUME NEW k \in Tasks, ImportInsert(k) PROVE Handed'
    <2>1. job[k].zone \in Zones /\ job[k].tenant \in Tenants
        BY <1>2 DEF ImportInsert, Typed, TasksTyped, SoundJob
    <2> QED  BY <1>2, <2>1, NewZoneHanded DEF ImportInsert, history
<1>3. ASSUME NEW r \in Requests, DeleteRequest(r) PROVE Handed'
    <2>1. /\ UNCHANGED <<zone, rset, disturbed, client>> /\ request'[r] = NoRequest
          /\ \A s \in Requests \ {r} : request'[s] = request[s]
        BY <1>3 DEF DeleteRequest, history, Typed, RequestsTyped
    <2> QED  BY <2>1, CallFacts DEF Handed, Alone, ReadIsFresh, NewIdsOwned, AcceptsOwn, ActiveIsOwners, Active,
                                    RowsFollowOwner, NoRequest
<1>4. ASSUME NEW c \in Clients, NEW t \in Tenants, NEW r \in Requests, Accept(c, t, r) PROVE Handed'
    BY <1>4, StartHanded, CallFacts DEF Accept
<1>5. CASE Next
    BY <1>1, <1>2, <1>3, <1>4, <1>5, StartHanded, RequestStepHanded DEF Next, JobStep
<1> QED  BY <1>1, <1>5


\* The initial states have no requests
LEMMA HandedInit == Init => Handed
BY DEF Init, Handed, Alone, ReadIsFresh, NewIdsOwned, AcceptsOwn, ActiveIsOwners, Active,
       RowsFollowOwner, Idle, NoRequest

\* The invariant behind the theorems on ownership
LEMMA HandedAlways == Spec => [](Typed /\ Handed)
BY TypeInit, TypeStep, HandedInit, HandedStep, PTL DEF Spec

\* The rows of a zone belong to its owner, however transfers, creates and deletes
\* interleave, unless two requests worked on the zone at once
THEOREM RowsAreOwners == Spec => []RowsFollowOwner
BY HandedAlways, PTL DEF Handed

\* A zone has at most one ACTIVE transfer request, unless two requests worked on
\* it at once
THEOREM OneActive == Spec => []OneActiveRequest
<1>1. Handed => OneActiveRequest
    <2> SUFFICES ASSUME Handed, NEW z \in Zones \ disturbed
                 PROVE  Cardinality({r \in Requests : Active(r, z)}) <= 1
        BY DEF OneActiveRequest, Active
    <2> DEFINE S == {r \in Requests : Active(r, z)}
    <2>1. CASE S = {}
        <3>1. Cardinality(S) = 0
            BY <2>1, FS_EmptySet
        <3> QED  BY <3>1
    <2>2. ASSUME NEW r \in S PROVE Cardinality(S) <= 1
        <3>1. S = {r}
            BY <2>2 DEF Handed, ActiveIsOwners
        <3>2. Cardinality(S) = 1
            BY <3>1, FS_Singleton
        <3> QED  BY <3>2
    <2> QED  BY <2>1, <2>2
<1> QED  BY <1>1, HandedAlways, PTL

\* A zone goes to another tenant only by using up a request that its present
\* owner made, unless two requests worked on it at once
THEOREM GivenAwayByOwner == Spec => OwnerGivesAway
<1>1. Typed /\ Handed /\ [Next]_vars => [GivenByOwner]_vars
    <2> SUFFICES ASSUME Typed, Handed, Next, NEW z \in Zones \ disturbed,
                        zone[z] # None, zone'[z] \notin {zone[z], None}
                 PROVE  \E r \in Requests : /\ request[r].zone = z /\ request[r].tenant = zone[z]
                                            /\ request[r].status = "ACTIVE"
                                            /\ request'[r].status = "COMPLETE"
        BY DEF GivenByOwner
    <2>1. PICK c \in Clients : Transfer(c)
        <3>0. zone \in [Zones -> Tenants \cup {None}]
            BY CallFacts
        <3>1. ASSUME NEW k \in Tasks, JobStep(k) PROVE FALSE
            BY <3>0, <3>1 DEF JobStep, ImportError, ImportParsed, ImportInsert, ExportZone, rows
        <3>2. ASSUME NEW c \in Clients, RequestStep(c), ~Transfer(c) PROVE FALSE
            BY <3>0, <3>2 DEF RequestStep, EnforceZoneQuota, OverQuota, InsertZone, DropZone,
                InsertRecordSet, InsertRequest, TransferFails, rows
        <3>3. zone' # zone
            OBVIOUS
        <3>4. (\E k \in Tasks : JobStep(k)) \/ \E c \in Clients : RequestStep(c)
            BY <3>3 DEF Next, SetQuota, CreateZone, DeleteZone, CreateRecordSet, CreateRequest, Accept,
                DeleteRequest, CreateImport, CreateExport, DeleteTask, WorkerCrash, CentralCrash, rows
        <3> QED  BY <3>1, <3>2, <3>4
    <2> DEFINE q == client[c].req
    <2>2. /\ q \in Requests /\ client[c].on = z /\ request[q].status # "NONE"
          /\ client[c].pc = "accept" /\ request' = Used(q)
        BY <2>1, CallFacts DEF Transfer, NewOwner
    <2>3. Active(q, z)
        BY <2>2 DEF Handed, AcceptsOwn, Active
    <2>4. request[q].tenant = zone[z]
        BY <2>2, <2>3 DEF Handed, ActiveIsOwners
    <2>5. request'[q].status = "COMPLETE"
        BY <2>2 DEF Used, Typed, RequestsTyped, TransferRow
    <2> QED  BY <2>2, <2>3, <2>4, <2>5 DEF Active
<1> QED  BY <1>1, HandedAlways, PTL DEF Spec, OwnerGivesAway

-----------------------------------------------------------------------------
(* Quotas                                                                  *)

\* A tenant has finitely many zones
LEMMA OwnedFinite ==
    ASSUME NEW t
    PROVE  /\ IsFiniteSet(Owned(t)) /\ Cardinality(Owned(t)) \in Nat
           /\ IsFiniteSet(Owned(t)') /\ Cardinality(Owned(t)') \in Nat
<1>1. Owned(t) \subseteq Zones /\ Owned(t)' \subseteq Zones
    BY DEF Owned
<1>2. IsFiniteSet(Owned(t)) /\ IsFiniteSet(Owned(t)')
    BY <1>1, FS_Subset
<1> QED  BY <1>2, FS_CardinalityType

\* A tenant that got no zone does not have more than before
LEMMA NoZoneMore ==
    ASSUME NEW t, Owned(t)' \subseteq Owned(t)
    PROVE  Cardinality(Owned(t)') <= Cardinality(Owned(t))
BY OwnedFinite, FS_Subset

\* A tenant that got one zone has at most one more than before
LEMMA OneZoneMore ==
    ASSUME NEW t, NEW z, Owned(t)' \subseteq Owned(t) \cup {z}
    PROVE  Cardinality(Owned(t)') <= Cardinality(Owned(t)) + 1
<1>1. IsFiniteSet(Owned(t) \cup {z})
    BY OwnedFinite, FS_AddElement
<1>2. Cardinality(Owned(t)') <= Cardinality(Owned(t) \cup {z})
    BY <1>1, FS_Subset
<1>3. Cardinality(Owned(t) \cup {z}) \in {Cardinality(Owned(t)), Cardinality(Owned(t)) + 1}
    BY OwnedFinite, FS_AddElement
<1>4. Cardinality(Owned(t) \cup {z}) \in Nat
    BY <1>1, FS_CardinalityType
<1> QED  BY <1>2, <1>3, <1>4, OwnedFinite

\* Setting one zone's owner gives one tenant a zone and the others none
LEMMA OwnerChange ==
    ASSUME Typed, NEW z \in Zones, NEW t \in Tenants, zone' = [zone EXCEPT ![z] = t]
    PROVE  /\ Owned(t)' \subseteq Owned(t) \cup {z}
           /\ \A u \in Tenants \ {t} : Owned(u)' \subseteq Owned(u)
BY DEF Typed, TablesTyped, Owned

\* A step that inserts no zone and lets nobody into the critical section: limits
\* and transfers may grow, zones may go
LEMMA QuietBudget ==
    ASSUME Typed, Typed', Budgeted, InsertsLocked', LimitsBelowPeak',
           \A t \in Tenants : Owned(t)' \subseteq Owned(t) /\ peak[t] <= peak'[t]
                              /\ received[t] <= received'[t],
           \A c \in Clients : client'[c].pc = "insert" =>
               client[c].pc = "insert" /\ client'[c].tenant = client[c].tenant,
           \A k \in Tasks : job'[k].pc = "insert" =>
               job[k].pc = "insert" /\ job'[k].tenant = job[k].tenant
    PROVE  Budgeted'
<1>1. \A t \in Tenants : /\ Cardinality(Owned(t)') <= Cardinality(Owned(t))
                         /\ Cardinality(Owned(t)') \in Nat /\ Cardinality(Owned(t)) \in Nat
    BY NoZoneMore, OwnedFinite
<1>2. \A t \in Tenants : /\ peak[t] \in Nat /\ peak'[t] \in Nat /\ received[t] \in Nat
                         /\ received'[t] \in Nat
    BY DEF Typed, CountersTyped
<1>3. ZonesWithinQuota'
    BY <1>1, <1>2 DEF Budgeted, ZonesWithinQuota
<1>4. \A t \in Tenants : HasRoom(t) => HasRoom(t)'
    BY <1>1, <1>2 DEF HasRoom
<1>5. /\ \A c \in Clients : client[c].pc = "insert" => client[c].tenant \in Tenants
      /\ \A k \in Tasks : job[k].pc = "insert" => job[k].tenant \in Tenants
    BY CallFacts DEF Typed, TasksTyped, SoundJob
<1>6. InsertsHaveRoom'
    BY <1>4, <1>5 DEF Budgeted, InsertsHaveRoom
<1> QED  BY <1>3, <1>6 DEF Budgeted

\* The insert of a zone: the tenant had room for it, and nobody else is between
\* its check and its insert
LEMMA InsertBudget ==
    ASSUME Typed, Typed', Budgeted, NEW z \in Zones, NEW t \in Tenants, HasRoom(t),
           zone' = [zone EXCEPT ![z] = t], UNCHANGED <<quota, peak, received>>,
           \A c \in Clients : client'[c].pc # "insert", \A k \in Tasks : job'[k].pc # "insert"
    PROVE  Budgeted'
<1>1. InsertsLocked' /\ InsertsHaveRoom' /\ LimitsBelowPeak'
    BY DEF Budgeted, InsertsLocked, InsertsHaveRoom, LimitsBelowPeak, HardLimit
<1>2. ASSUME NEW u \in Tenants PROVE Cardinality(Owned(u)') <= peak'[u] + received'[u]
    <2>1. /\ peak[u] \in Nat /\ received[u] \in Nat /\ Cardinality(Owned(u)) \in Nat
          /\ Cardinality(Owned(u)') \in Nat
        BY OwnedFinite DEF Typed, CountersTyped
    <2>2. CASE u = t
        <3>1. Cardinality(Owned(u)') <= Cardinality(Owned(u)) + 1
            BY <2>2, OwnerChange, OneZoneMore
        <3> QED  BY <2>1, <2>2, <3>1 DEF HasRoom
    <2>3. CASE u # t
        <3>1. Cardinality(Owned(u)') <= Cardinality(Owned(u))
            BY <2>3, OwnerChange, NoZoneMore
        <3> QED  BY <2>1, <3>1 DEF Budgeted, ZonesWithinQuota
    <2> QED  BY <2>2, <2>3
<1> QED  BY <1>1, <1>2 DEF Budgeted, ZonesWithinQuota

\* The check of the quota under the lock (_enforce_zone_quota) leaves room
LEMMA CheckLeavesRoom ==
    ASSUME Typed, Budgeted, NEW t \in Tenants,
           LimitCheck(Cardinality(Owned(t)), HardLimit(t)),
           UNCHANGED <<zone, peak, received>>
    PROVE  HasRoom(t)'
<1>1. peak[t] \in Nat /\ received[t] \in Nat /\ HardLimit(t) \in Nat /\ Cardinality(Owned(t)) \in Nat
    BY OwnedFinite DEF Typed, CountersTyped, TablesTyped, HardLimit
<1>2. HardLimit(t) <= peak[t]
    BY DEF Budgeted, LimitsBelowPeak
<1>3. HasRoom(t)
    BY <1>1, <1>2 DEF LimitCheck, HasRoom
<1> QED  BY <1>3 DEF HasRoom, Owned

\* Who holds the lock is alone between check and insert
LEMMA LockExcludes ==
    ASSUME Typed, Budgeted
    PROVE  /\ lock = None => /\ \A d \in Clients : client[d].pc # "insert"
                             /\ \A k \in Tasks : job[k].pc # "insert"
           /\ \A c \in Clients : lock = c => /\ \A d \in Clients \ {c} : client[d].pc # "insert"
                                             /\ \A k \in Tasks : job[k].pc # "insert"
           /\ \A j \in Tasks : lock = j => /\ \A d \in Clients : client[d].pc # "insert"
                                           /\ \A k \in Tasks \ {j} : job[k].pc # "insert"
BY DEF Budgeted, InsertsLocked

\* The commits of requests keep the quota
LEMMA RequestStepBudget ==
    ASSUME Typed, Typed', Budgeted, NEW c \in Clients, RequestStep(c)
    PROVE  Budgeted'
<1> USE CallFacts
<1>1. CASE EnforceZoneQuota(c)
    <2>1. /\ lock = None /\ lock' = c /\ client[c].tenant \in Tenants
          /\ UNCHANGED <<zone, quota, peak, received, job>>
          /\ LimitCheck(Cardinality(Owned(client[c].tenant)), HardLimit(client[c].tenant))
          /\ client'[c].pc = "insert" /\ client'[c].tenant = client[c].tenant
          /\ \A d \in Clients \ {c} : client'[d] = client[d]
        BY <1>1 DEF EnforceZoneQuota, TakeLock, rows, history, Typed, ClientsTyped, Call
    <2>2. HasRoom(client[c].tenant)'
        BY <2>1, CheckLeavesRoom
    <2>3. InsertsLocked'
        BY <2>1, LockExcludes DEF InsertsLocked
    <2>4. InsertsHaveRoom'
        BY <2>1, <2>2, LockExcludes DEF InsertsHaveRoom, HasRoom, Owned
    <2> QED  BY <2>1, <2>3, <2>4 DEF Budgeted, LimitsBelowPeak, HardLimit, ZonesWithinQuota, Owned
<1>2. ASSUME Done(c)
      PROVE  client'[c].pc = "idle" /\ \A d \in Clients \ {c} : client'[d] = client[d]
    BY <1>2 DEF Done, Typed, ClientsTyped, Idle
<1>3. CASE InsertZone(c)
    <2>1. /\ client[c].on \in Zones /\ client[c].tenant \in Tenants /\ Done(c) /\ lock = c
          /\ UNCHANGED <<quota, peak, received, job>> /\ HasRoom(client[c].tenant)
        BY <1>3 DEF InsertZone, history, Budgeted, InsertsLocked, InsertsHaveRoom
    <2>2. (\A d \in Clients : client'[d].pc # "insert") /\ (\A k \in Tasks : job'[k].pc # "insert")
        BY <1>2, <2>1, LockExcludes
    <2>3. CASE zone[client[c].on] = None
        BY <1>3, <2>1, <2>2, <2>3, InsertBudget DEF InsertZone
    <2>4. CASE zone[client[c].on] # None
        <3>1. zone' = zone
            BY <1>3, <2>4 DEF InsertZone
        <3> QED  BY <2>1, <2>2, <3>1 DEF Budgeted, InsertsLocked, InsertsHaveRoom, LimitsBelowPeak,
                                         HardLimit, ZonesWithinQuota, Owned
    <2> QED  BY <2>3, <2>4
<1>4. CASE Transfer(c)
    <2> DEFINE t == client[c].tenant
               z == client[c].on
    <2>1. /\ z \in Zones /\ t \in Tenants /\ Done(c) /\ UNCHANGED <<quota, peak, job, lock>>
          /\ zone' = [zone EXCEPT ![z] = t] /\ received' = [received EXCEPT ![t] = @ + 1]
        BY <1>4 DEF Transfer, NewOwner
    <2>2. client'[c].pc = "idle" /\ \A d \in Clients \ {c} : client'[d] = client[d]
        BY <1>2, <2>1
    <2> HIDE DEF t, z
    <2>3. InsertsLocked' /\ LimitsBelowPeak'
        BY <2>1, <2>2 DEF Budgeted, InsertsLocked, LimitsBelowPeak, HardLimit
    <2>4. ASSUME NEW u \in Tenants
          PROVE  /\ Cardinality(Owned(u)') <= peak'[u] + received'[u]
                 /\ HasRoom(u) => HasRoom(u)'
        <3>1. /\ peak[u] \in Nat /\ received[u] \in Nat /\ Cardinality(Owned(u)) \in Nat
              /\ Cardinality(Owned(u)') \in Nat /\ received \in [Tenants -> Nat]
              /\ Cardinality(Owned(u)) <= peak[u] + received[u]
            BY OwnedFinite DEF Typed, CountersTyped, Budgeted, ZonesWithinQuota
        <3>2. CASE u = t
            <4>1. Cardinality(Owned(u)') <= Cardinality(Owned(u)) + 1
                BY <2>1, <3>2, OwnerChange, OneZoneMore
            <4>2. received'[u] = received[u] + 1 /\ peak'[u] = peak[u]
                BY <2>1, <3>1, <3>2
            <4> QED  BY <3>1, <4>1, <4>2 DEF HasRoom
        <3>3. CASE u # t
            <4>1. Cardinality(Owned(u)') <= Cardinality(Owned(u))
                BY <2>1, <3>3, OwnerChange, NoZoneMore
            <4>2. received'[u] = received[u] /\ peak'[u] = peak[u]
                BY <2>1, <3>1, <3>3
            <4> QED  BY <3>1, <4>1, <4>2 DEF HasRoom
        <3> QED  BY <3>2, <3>3
    <2>5. /\ \A d \in Clients : client[d].pc = "insert" => client[d].tenant \in Tenants
          /\ \A k \in Tasks : job[k].pc = "insert" => job[k].tenant \in Tenants
        BY DEF Typed, TasksTyped, SoundJob
    <2>6. InsertsHaveRoom'
        BY <2>1, <2>2, <2>4, <2>5 DEF Budgeted, InsertsHaveRoom
    <2> QED  BY <2>3, <2>4, <2>6 DEF Budgeted, ZonesWithinQuota
<1>5. CASE OverQuota(c) \/ DropZone(c) \/ InsertRecordSet(c) \/ InsertRequest(c) \/ TransferFails(c)
    <2>1. /\ Done(c) /\ UNCHANGED <<quota, peak, received, job, lock>>
          /\ zone' = zone \/ zone' = [zone EXCEPT ![client[c].on] = None]
        BY <1>5 DEF OverQuota, DropZone, InsertRecordSet, InsertRequest, TransferFails, rows, history
    <2>2. client'[c].pc = "idle" /\ \A d \in Clients \ {c} : client'[d] = client[d]
        BY <1>2, <2>1
    <2>3. InsertsLocked' /\ LimitsBelowPeak'
        BY <2>1, <2>2 DEF Budgeted, InsertsLocked, LimitsBelowPeak, HardLimit
    <2>4. \A t \in Tenants : /\ Owned(t)' \subseteq Owned(t)
                             /\ peak[t] <= peak'[t] /\ received[t] <= received'[t]
        BY <2>1 DEF Owned, Typed, TablesTyped, CountersTyped
    <2> QED  BY <2>1, <2>2, <2>3, <2>4, QuietBudget
<1> QED  BY <1>1, <1>3, <1>4, <1>5 DEF RequestStep

\* The steps of imports and exports keep the quota
LEMMA JobStepBudget ==
    ASSUME Typed, Typed', Budgeted, NEW k \in Tasks, JobStep(k)
    PROVE  Budgeted'
<1>0. job \in [Tasks -> Job] /\ SoundJob(job[k])
    BY DEF Typed, TasksTyped
<1>1. CASE ImportParsed(k)
    <2>1. /\ lock = None /\ lock' = k /\ job[k].tenant \in Tenants
          /\ UNCHANGED <<zone, quota, peak, received, client>>
          /\ LimitCheck(Cardinality(Owned(job[k].tenant)), HardLimit(job[k].tenant))
          /\ job'[k].pc = "insert" /\ job'[k].tenant = job[k].tenant
          /\ \A j \in Tasks \ {k} : job'[j] = job[j]
        BY <1>0, <1>1 DEF ImportParsed, TakeLock, rows, history, Job, SoundJob
    <2>2. HasRoom(job[k].tenant)'
        BY <2>1, CheckLeavesRoom
    <2>3. InsertsLocked'
        BY <2>1, LockExcludes DEF InsertsLocked
    <2>4. InsertsHaveRoom'
        BY <2>1, <2>2, LockExcludes DEF InsertsHaveRoom, HasRoom, Owned
    <2> QED  BY <2>1, <2>3, <2>4 DEF Budgeted, LimitsBelowPeak, HardLimit, ZonesWithinQuota, Owned
<1>2. CASE ImportInsert(k)
    <2>1. /\ job[k].zone \in Zones /\ job[k].tenant \in Tenants /\ lock = k
          /\ zone' = [zone EXCEPT ![job[k].zone] = job[k].tenant]
          /\ UNCHANGED <<quota, peak, received, client>> /\ HasRoom(job[k].tenant)
          /\ job'[k].pc = "none" /\ \A j \in Tasks \ {k} : job'[j] = job[j]
        BY <1>0, <1>2 DEF ImportInsert, history, Budgeted, InsertsLocked, InsertsHaveRoom, SoundJob,
                          EndJob, NoJob
    <2>2. (\A d \in Clients : client'[d].pc # "insert") /\ (\A j \in Tasks : job'[j].pc # "insert")
        BY <2>1, LockExcludes
    <2> QED  BY <2>1, <2>2, InsertBudget
<1>3. CASE ImportError(k) \/ ExportZone(k)
    <2>1. /\ UNCHANGED <<zone, quota, peak, received, client>>
          /\ job'[k].pc = "none" /\ \A j \in Tasks \ {k} : job'[j] = job[j]
          /\ lock' = lock \/ (lock = k /\ lock' = None)
        BY <1>0, <1>3 DEF ImportError, ExportZone, EndJob, NoJob, history, Unlocked
    <2>2. InsertsLocked' /\ LimitsBelowPeak'
        BY <2>1, LockExcludes DEF Budgeted, InsertsLocked, LimitsBelowPeak, HardLimit
    <2>3. \A t \in Tenants : /\ Owned(t)' \subseteq Owned(t)
                             /\ peak[t] <= peak'[t] /\ received[t] <= received'[t]
        BY <2>1 DEF Owned, Typed, CountersTyped
    <2> QED  BY <2>1, <2>2, <2>3, QuietBudget
<1> QED  BY <1>1, <1>2, <1>3 DEF JobStep

\* Every step keeps the number of zones within the quota
LEMMA BudgetStep == Typed /\ Budgeted /\ [Next]_vars => Budgeted'
<1> SUFFICES ASSUME Typed, Budgeted, [Next]_vars PROVE Budgeted'
    OBVIOUS
<1>0. Typed'
    BY TypeStep
<1>1. CASE \/ UNCHANGED vars \/ CentralCrash \/ \E r \in Requests : DeleteRequest(r)
           \/ \E k \in Tasks : DeleteTask(k) \/ WorkerCrash(k)
           \/ \E k \in Tasks, t \in Tenants, z \in Zones : CreateImport(k, t, z) \/ CreateExport(k, t, z)
    <2>1. /\ UNCHANGED <<zone, quota, peak, received>>
          /\ \A c \in Clients : client'[c] = client[c] \/ client'[c].pc = "idle"
          /\ \A k \in Tasks : job'[k] = job[k] \/ job'[k].pc \in {"none", "parse", "export"}
        BY <1>1 DEF vars, CentralCrash, DeleteRequest, DeleteTask, WorkerCrash, CreateImport, CreateExport,
                    NewJob, EndJob, NoJob, Idle, rows, history, Typed, TasksTyped
    <2>2. UNCHANGED lock \/ CentralCrash
        BY <1>1 DEF vars, DeleteRequest, DeleteTask, WorkerCrash, CreateImport, CreateExport
    <2>3. InsertsLocked'
        BY <2>1, <2>2 DEF Budgeted, InsertsLocked, CentralCrash, Idle, NoJob
    <2>4. LimitsBelowPeak'
        BY <2>1 DEF Budgeted, LimitsBelowPeak, HardLimit
    <2>5. \A t \in Tenants : /\ Owned(t)' \subseteq Owned(t)
                             /\ peak[t] <= peak'[t] /\ received[t] <= received'[t]
        BY <2>1 DEF Owned, Typed, CountersTyped
    <2> QED  BY <1>0, <2>1, <2>3, <2>4, <2>5, QuietBudget
<1>2. ASSUME NEW t \in Tenants, NEW n \in Limits \cup {None}, SetQuota(t, n) PROVE Budgeted'
    <2>1. /\ UNCHANGED <<zone, client, job, lock, received>>
          /\ quota' = [quota EXCEPT ![t] = n]
          /\ peak' = [peak EXCEPT ![t] = IF n # None /\ n > @ THEN n ELSE @]
        BY <1>2 DEF SetQuota
    <2>2. quota \in [Tenants -> Limits \cup {None}] /\ peak \in [Tenants -> Nat]
        BY DEF Typed, TablesTyped, CountersTyped
    <2>3. Default <= peak[t]
        BY DEF Budgeted, LimitsBelowPeak
    <2>4. \A u \in Tenants : peak[u] <= peak'[u]
        BY <2>1, <2>2
    <2>5. LimitsBelowPeak'
        BY <2>1, <2>2, <2>3 DEF Budgeted, LimitsBelowPeak, HardLimit
    <2>6. \A u \in Tenants : Owned(u)' \subseteq Owned(u) /\ received[u] <= received'[u]
        BY <2>1 DEF Owned, Typed, CountersTyped
    <2>7. InsertsLocked'
        BY <2>1 DEF Budgeted, InsertsLocked
    <2> QED  BY <1>0, <2>1, <2>4, <2>5, <2>6, <2>7, QuietBudget
<1>3. ASSUME NEW c \in Clients, NEW z, NEW t, NEW g, NEW r, NEW pc \in Pcs \ {"insert"},
             Start(c, pc, z, t, g, r), UNCHANGED <<zone, quota, job, lock, peak, received>>
      PROVE  Budgeted'
    <2>1. client'[c].pc = pc /\ \A d \in Clients \ {c} : client'[d] = client[d]
        BY <1>3 DEF Start, Typed, ClientsTyped
    <2>2. InsertsLocked' /\ LimitsBelowPeak'
        BY <1>3, <2>1 DEF Budgeted, InsertsLocked, LimitsBelowPeak, HardLimit
    <2>3. \A u \in Tenants : /\ Owned(u)' \subseteq Owned(u)
                             /\ peak[u] <= peak'[u] /\ received[u] <= received'[u]
        BY <1>3 DEF Owned, Typed, CountersTyped
    <2> QED  BY <1>0, <1>3, <2>1, <2>2, <2>3, QuietBudget
<1>4. ASSUME NEW c \in Clients, NEW t \in Tenants, NEW z \in Zones,
             \/ CreateZone(c, t, z) \/ DeleteZone(c, t, z) \/ CreateRecordSet(c, t, z)
             \/ \E g \in Tenants \cup {None}, r \in Requests : CreateRequest(c, t, z, g, r)
      PROVE  Budgeted'
    BY <1>3, <1>4 DEF CreateZone, DeleteZone, CreateRecordSet, CreateRequest, Pcs, rows
<1>5. ASSUME NEW c \in Clients, NEW t \in Tenants, NEW r \in Requests, Accept(c, t, r) PROVE Budgeted'
    BY <1>3, <1>5 DEF Accept, Pcs, rows
<1>6. CASE Next
    BY <1>0, <1>1, <1>2, <1>4, <1>5, <1>6, RequestStepBudget, JobStepBudget DEF Next
<1> QED  BY <1>1, <1>6

\* At first nobody has a zone
LEMMA BudgetInit == Init => Budgeted
<1> SUFFICES ASSUME Init PROVE Budgeted
    OBVIOUS
<1>1. ASSUME NEW t \in Tenants PROVE Cardinality(Owned(t)) = 0 /\ peak[t] = Default /\ received[t] = 0
    <2>1. Owned(t) = {}
        BY DEF Init, Owned
    <2> QED  BY <2>1, FS_EmptySet DEF Init
<1>2. InsertsLocked /\ InsertsHaveRoom
    BY DEF Init, InsertsLocked, InsertsHaveRoom, Idle, NoJob
<1>3. LimitsBelowPeak
    BY <1>1 DEF Init, LimitsBelowPeak, HardLimit
<1> QED  BY <1>1, <1>2, <1>3 DEF Budgeted, ZonesWithinQuota

\* A tenant never owns more zones than its greatest limit and the transfers it
\* accepted allow, however many creates and imports run at once
THEOREM QuotaHolds == Spec => []ZonesWithinQuota
<1>1. Spec => [](Typed /\ Budgeted)
    BY TypeInit, TypeStep, BudgetInit, BudgetStep, PTL DEF Spec
<1> QED  BY <1>1, PTL DEF Budgeted
=============================================================================
