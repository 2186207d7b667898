--------------------------- MODULE ZoneLifecycle ---------------------------
(***************************************************************************)
(* The life of a zone: designate-central keeps the zone row, calls the     *)
(* worker and waits; the worker drives the ZDNS device, then calls central *)
(* back to mirror the device's answer (zdns_zones_info_t and its           *)
(* association table) and to settle the status of the row.  RecoverShard   *)
(* re-dispatches zones that it believes to be stuck in PENDING.            *)
(*                                                                         *)
(* One action is one transaction, one device call or one RPC event.  Every *)
(* central thread is a client c; task[c] is the worker task its RPC call   *)
(* started, and it may outlive the call.                                   *)
(***************************************************************************)
EXTENDS Naturals, FiniteSets

CONSTANTS
    Ids,         \* zone ids (rows of the zones table)
    Names,       \* zone names, the key of a zone on the device
    Ttls,        \* values of the ttl column
    Rows,        \* ids of zdns_zones_info_t rows
    Clients,     \* central threads that serve API requests
    Central,     \* the central process each client runs in
    Recoverers,  \* RecoverShard tasks that may run at the same time
    Secondary,   \* the ids that are of type SECONDARY
    Faults,      \* the kinds of fault that may happen
    MaxFaults,   \* bound on the number of central faults and crashes
    MaxOps,      \* bound on the number of client operations
    Ops,         \* the operations clients issue
    OnlyActive,  \* clients address only zones they see ACTIVE
    None         \* the null value

OpKinds == {"create", "update", "delete", "touch", "abandon"}
FaultKinds == {"device", "response", "central", "timeout", "crash"}

ASSUME ConstantsAssumption ==
    /\ None \notin Ids \cup Names \cup Ttls \cup Rows
    /\ Clients \cap Recoverers = {}
    /\ Central \in [Clients -> Clients]
    /\ Secondary \subseteq Ids
    /\ Faults \subseteq FaultKinds
    /\ MaxFaults \in Nat
    /\ MaxOps \in Nat
    /\ OnlyActive \in BOOLEAN
    /\ Ops \subseteq OpKinds

VARIABLES
    zones,   \* the zones table
    recs,    \* each zone's default NS and A records and their zdns links
    dev,     \* the device: the default_ttl of each zone it serves
    zdns,    \* zdns_zones_info_t: the default_ttl of each row
    asso,    \* zones_zdns_zone_associations: <<zone id, row id>>
    call,    \* the operation each central thread is in
    task,    \* the worker task of each client and recoverer
    recq,    \* the zones each RecoverShard has still to dispatch
    faults,  \* faults so far
    ops      \* client operations so far

vars == <<zones, recs, dev, zdns, asso, call, task, recq, faults, ops>>

----------------------------------------------------------------------------
Procs == Clients \cup Recoverers
Actions == {"CREATE", "UPDATE", "DELETE", "NONE"}
Statuses == {"ABSENT", "PENDING", "ACTIVE", "DELETED", "PURGED"}

\* A row of the zones table.  aged: the serial is more than max_prop_time old.
\* waited (history): the row has been PENDING for more than max_prop_time.
ZoneRow == [status : Statuses, action : Actions, name : Names \cup {None},
            ttl : Ttls \cup {None}, aged : BOOLEAN, waited : BOOLEAN]

NoZone == [status |-> "ABSENT", action |-> "NONE", name |-> None,
           ttl |-> None, aged |-> FALSE, waited |-> FALSE]

CallPcs == {"idle", "read", "entered", "call", "restore", "default"}
Call == [pc : CallPcs, op : {"none", "create", "update", "delete", "touch"},
         id : Ids \cup {None}, new : Ttls \cup {None},
         seen : ZoneRow, old : Ttls \cup {None}]

Idle == [pc |-> "idle", op |-> "none", id |-> None, new |-> None,
         seen |-> NoZone, old |-> None]

TaskPcs == {"idle", "view", "device", "row", "asso", "upd", "getasso",
            "delasso", "delrow", "ok", "error", "done", "raised", "lost",
            "stopped"}
Task == [pc : TaskPcs, act : Actions, id : Ids \cup {None},
         name : Names \cup {None}, ttl : Ttls \cup {None},
         row : Rows \cup {None}]

NoTask == [pc |-> "idle", act |-> "NONE", id |-> None, name |-> None,
           ttl |-> None, row |-> None]

\* The zone object sent to the worker: a copy of the row as it was read.
Dispatch(z, row) == [pc |-> "view", act |-> row.action, id |-> z,
                     name |-> row.name, ttl |-> row.ttl, row |-> None]

Running == {"view", "device", "row", "asso", "upd", "getasso", "delasso",
            "delrow", "ok", "error"}

----------------------------------------------------------------------------
(* Storage *)

\* storage queries see only rows that are not deleted
Live(z) == zones[z].status \in {"PENDING", "ACTIVE"}

SoftDelete(z) == [zones EXCEPT ![z].status = "DELETED", ![z].action = "NONE",
                               ![z].waited = FALSE]

\* Faulty variant of SetActive: the worker's status is stored as it came.
SetActiveRaw(t) == [zones EXCEPT ![t.id].status = "SUCCESS",
                                 ![t.id].action = "NONE",
                                 ![t.id].waited = FALSE]

\* update_zone with the worker's copy of the zone: only the fields that differ
\* from the copy are written, so a task whose action is NONE leaves the action.
SetActive(t) ==
    [zones EXCEPT ![t.id].status = "ACTIVE",
                  ![t.id].action = IF t.act = "NONE" THEN @ ELSE "NONE",
                  ![t.id].waited = FALSE]

\* zone.action = act, zone.status = 'PENDING' on an object read as seen: only
\* the fields that change the object are written.
SetPending(z, seen, act) ==
    [zones[z] EXCEPT !.action = IF seen.action = act THEN @ ELSE act,
                     !.status = IF seen.status = "PENDING" THEN @ ELSE "PENDING",
                     !.waited = FALSE]

\* synchronized_zone: one lock per zone id and central process, held for the
\* whole call.  create_zone has no id yet and takes the lock zone-None.
Holds(d, z) == /\ call[d].pc \in {"entered", "call", "restore"}
               /\ call[d].op # "create"
               /\ call[d].id = z

ZoneLockFree(c, z) ==
    \A d \in Clients : Central[d] = Central[c] => ~Holds(d, z)

NewLockFree(c) ==
    \A d \in Clients : Central[d] = Central[c] => call[d].op # "create"

MayStart(c, op) == /\ op \in Ops
                   /\ call[c].pc = "idle"
                   /\ task[c].pc = "idle"
                   /\ ops < MaxOps

Addressable(z) == /\ Live(z)
                  /\ OnlyActive => zones[z].status = "ACTIVE"

----------------------------------------------------------------------------
(* Central: the API operations *)

\* create_zone: insert the row and call the worker
CreateZone(c, z, n, t) ==
    /\ MayStart(c, "create")
    /\ NewLockFree(c)
    /\ zones[z].status = "ABSENT"
    /\ \A y \in Ids : Live(y) => zones[y].name # n
    /\ LET row == [NoZone EXCEPT !.status = "PENDING", !.action = "CREATE",
                                 !.name = n, !.ttl = t]
       IN  /\ zones' = [zones EXCEPT ![z] = row]
           /\ task' = [task EXCEPT ![c] = Dispatch(z, row)]
    /\ call' = [call EXCEPT ![c] = [Idle EXCEPT !.pc = "call", !.op = "create",
                                                !.id = z]]
    /\ ops' = ops + 1
    /\ UNCHANGED <<recs, dev, zdns, asso, recq, faults>>

\* patch_one: the API service reads the zone, refuses one that is being
\* deleted, and sends the changed object to central.
ReadZone(c, z, t) ==
    /\ MayStart(c, "update")
    /\ Addressable(z)
    /\ zones[z].action # "DELETE"
    /\ call' = [call EXCEPT ![c] = [Idle EXCEPT !.pc = "read", !.op = "update",
                                    !.id = z, !.new = t, !.seen = zones[z]]]
    /\ ops' = ops + 1
    /\ UNCHANGED <<zones, recs, dev, zdns, asso, task, recq, faults>>

\* update_zone: take the lock, _get_origin_zone; it raises if the zone is gone
EnterUpdate(c) ==
    /\ call[c].pc = "read"
    /\ ZoneLockFree(c, call[c].id)
    /\ call' = [call EXCEPT ![c] =
                   IF Live(call[c].id)
                   THEN [@ EXCEPT !.pc = "entered",
                                  !.old = zones[call[c].id].ttl]
                   ELSE Idle]
    /\ UNCHANGED <<zones, recs, dev, zdns, asso, task, recq, faults, ops>>

TtlChanged(k) == k.new # k.seen.ttl

\* _update_zone_in_storage, then the RPC with the object refetched from the row
WriteUpdate(c) ==
    LET k == call[c]
        z == k.id
        row == [SetPending(z, k.seen, "UPDATE") EXCEPT
                   !.ttl = IF TtlChanged(k) THEN k.new ELSE @]
    IN  /\ k.pc = "entered"
        /\ k.op = "update"
        /\ IF Live(z)
           THEN /\ zones' = [zones EXCEPT ![z] = row]
                /\ task' = [task EXCEPT ![c] = Dispatch(z, row)]
                /\ call' = [call EXCEPT ![c].pc = "call"]
           ELSE /\ call' = [call EXCEPT ![c] = Idle]
                /\ UNCHANGED <<zones, task>>
        /\ UNCHANGED <<recs, dev, zdns, asso, recq, faults, ops>>

\* delete_zone and touch_zone read the zone under the lock
EnterZone(c, z, op) ==
    /\ MayStart(c, op)
    /\ Addressable(z)
    /\ ZoneLockFree(c, z)
    /\ call' = [call EXCEPT ![c] = [Idle EXCEPT !.pc = "entered", !.op = op,
                                                !.id = z, !.seen = zones[z]]]
    /\ ops' = ops + 1
    /\ UNCHANGED <<zones, recs, dev, zdns, asso, task, recq, faults>>

WriteDelete(c) ==
    LET k == call[c]
        row == SetPending(k.id, k.seen, "DELETE")
    IN  /\ k.pc = "entered"
        /\ k.op = "delete"
        /\ IF Live(k.id)
           THEN /\ zones' = [zones EXCEPT ![k.id] = row]
                /\ task' = [task EXCEPT ![c] = Dispatch(k.id, row)]
                /\ call' = [call EXCEPT ![c].pc = "call"]
           ELSE /\ call' = [call EXCEPT ![c] = Idle]
                /\ UNCHANGED <<zones, task>>
        /\ UNCHANGED <<recs, dev, zdns, asso, recq, faults, ops>>

\* _increment_zone_serial renews the serial.  For a PRIMARY zone _update_soa
\* finds no SOA recordset (none is created any more), raises, and the
\* transaction rolls back.
WriteTouch(c) ==
    LET k == call[c]
        row == [zones[k.id] EXCEPT !.aged = FALSE]
    IN  /\ k.pc = "entered"
        /\ k.op = "touch"
        /\ IF Live(k.id) /\ k.id \in Secondary
           THEN /\ zones' = [zones EXCEPT ![k.id] = row]
                /\ task' = [task EXCEPT ![c] = Dispatch(k.id, row)]
                /\ call' = [call EXCEPT ![c].pc = "call"]
           ELSE /\ call' = [call EXCEPT ![c] = Idle]
                /\ UNCHANGED <<zones, task>>
        /\ UNCHANGED <<recs, dev, zdns, asso, recq, faults, ops>>

\* delete_zone with context.abandon: the row goes, the device is not told
AbandonZone(c, z) ==
    /\ MayStart(c, "abandon")
    /\ Addressable(z)
    /\ ZoneLockFree(c, z)
    /\ zones' = SoftDelete(z)
    /\ ops' = ops + 1
    /\ UNCHANGED <<recs, dev, zdns, asso, call, task, recq, faults>>

\* The RPC returns.  create_zone reads the zone again before it goes on.
CallReturns(c) ==
    /\ call[c].pc = "call"
    /\ task[c].pc = "done"
    /\ task' = [task EXCEPT ![c] = NoTask]
    /\ call' = [call EXCEPT ![c] =
                   IF @.op = "create" /\ Live(@.id)
                   THEN [@ EXCEPT !.pc = "default"] ELSE Idle]
    /\ UNCHANGED <<zones, recs, dev, zdns, asso, recq, faults, ops>>

\* create_default_record: the NS and A records, their zdns rows and links
CreateDefaultRecord(c) ==
    /\ call[c].pc = "default"
    /\ recs' = IF zones[call[c].id].status = "PURGED" THEN recs
               ELSE [recs EXCEPT ![call[c].id] = "linked"]
    /\ call' = [call EXCEPT ![c] = Idle]
    /\ UNCHANGED <<zones, dev, zdns, asso, task, recq, faults, ops>>

\* Faulty variant of AfterException: update_zone forgets to restore.
AfterExceptionNoRestore(k) == Idle

\* What an exception from the RPC does in central: only update_zone handles it
AfterException(k) == IF k.op = "update" THEN [k EXCEPT !.pc = "restore"]
                     ELSE Idle

CallRaises(c) ==
    /\ call[c].pc = "call"
    /\ task[c].pc = "raised"
    /\ task' = [task EXCEPT ![c] = NoTask]
    /\ call' = [call EXCEPT ![c] = AfterException(@)]
    /\ UNCHANGED <<zones, recs, dev, zdns, asso, recq, faults, ops>>

\* MessagingTimeout: the worker is slow or gone; the task may go on without us
CallTimesOut(c) ==
    /\ call[c].pc = "call"
    /\ \/ task[c].pc = "lost"
       \/ "timeout" \in Faults /\ task[c].pc \in Running
    /\ call' = [call EXCEPT ![c] = AfterException(@)]
    /\ UNCHANGED <<zones, recs, dev, zdns, asso, task, recq, faults, ops>>

\* storage.update_zone(origin_zone): put the changed columns back
RestoreOrigin(c) ==
    LET k == call[c]
    IN  /\ k.pc = "restore"
        /\ zones' = IF Live(k.id) /\ TtlChanged(k)
                    THEN [zones EXCEPT ![k.id].ttl = k.old] ELSE zones
        /\ call' = [call EXCEPT ![c] = Idle]
        /\ UNCHANGED <<recs, dev, zdns, asso, task, recq, faults, ops>>

----------------------------------------------------------------------------
(* Worker: ZoneAction, one step per device call or callback *)

\* self._get_view, outside the try block
GetView(p) ==
    /\ task[p].pc = "view"
    /\ task' = [task EXCEPT ![p].pc = "device"]
    /\ UNCHANGED <<zones, recs, dev, zdns, asso, call, recq, faults, ops>>

\* What the device can do with the request, and the result
DeviceAccepts(t) == CASE t.act = "CREATE" -> dev[t.name] = None
                      [] t.act \in {"UPDATE", "DELETE"} -> dev[t.name] # None
                      [] OTHER -> FALSE

DeviceAfter(t) == [dev EXCEPT ![t.name] = IF t.act = "DELETE" THEN None
                                          ELSE t.ttl]

\* Faulty variant of NextPc: a DELETE leaves the mirrored row in place.
NextPcKeepsMirror(act) == CASE act = "CREATE" -> "row"
                            [] act = "UPDATE" -> "upd"
                            [] OTHER -> "ok"

NextPc(act) == CASE act = "CREATE" -> "row"
                 [] act = "UPDATE" -> "upd"
                 [] act = "DELETE" -> "getasso"
                 [] OTHER -> "ok"

\* No branch of the task handles the action NONE: the device is not called.
SkipDevice(p) ==
    /\ task[p].pc = "device"
    /\ task[p].act = "NONE"
    /\ task' = [task EXCEPT ![p].pc = "ok"]
    /\ UNCHANGED <<zones, recs, dev, zdns, asso, call, recq, faults, ops>>

DeviceOk(p) ==
    /\ task[p].pc = "device"
    /\ DeviceAccepts(task[p])
    /\ dev' = DeviceAfter(task[p])
    /\ task' = [task EXCEPT ![p].pc = NextPc(task[p].act)]
    /\ UNCHANGED <<zones, recs, zdns, asso, call, recq, faults, ops>>

\* check_response raises ZdnsErrMessage
DeviceRefuses(p) ==
    /\ task[p].pc = "device"
    /\ task[p].act # "NONE"
    /\ DeviceAccepts(task[p]) => "device" \in Faults
    /\ task' = [task EXCEPT ![p].pc = "error"]
    /\ UNCHANGED <<zones, recs, dev, zdns, asso, call, recq, faults, ops>>

\* The device did it, but its answer never arrived
DeviceAnswerLost(p) ==
    /\ "response" \in Faults
    /\ task[p].pc = "device"
    /\ DeviceAccepts(task[p])
    /\ dev' = DeviceAfter(task[p])
    /\ task' = [task EXCEPT ![p].pc = "error"]
    /\ UNCHANGED <<zones, recs, zdns, asso, call, recq, faults, ops>>

\* create_zdns_zone, first write: a row with a new uuid
CreateZdnsRow(p) ==
    /\ task[p].pc = "row"
    /\ \E r \in Rows :
          /\ zdns[r] = None
          /\ \A q \in Procs : task[q].row # r
          /\ zdns' = [zdns EXCEPT ![r] = task[p].ttl]
          /\ task' = [task EXCEPT ![p].pc = "asso", ![p].row = r]
    /\ UNCHANGED <<zones, recs, dev, asso, call, recq, faults, ops>>

\* create_zdns_zone, second write: the association
CreateZoneAsso(p) ==
    /\ task[p].pc = "asso"
    /\ asso' = asso \cup {<<task[p].id, task[p].row>>}
    /\ task' = [task EXCEPT ![p].pc = "ok", ![p].row = None]
    /\ UNCHANGED <<zones, recs, dev, zdns, call, recq, faults, ops>>

\* _get_zone_asso: the first association of the zone, an exception if none
AssoRows(z) == {r \in Rows : <<z, r>> \in asso}

\* update_zdns_zone
UpdateZdnsZone(p) ==
    /\ task[p].pc = "upd"
    /\ \/ \E r \in AssoRows(task[p].id) :
             /\ zdns' = [zdns EXCEPT ![r] = IF @ = None THEN @ ELSE task[p].ttl]
             /\ task' = [task EXCEPT ![p].pc = "ok"]
       \/ /\ AssoRows(task[p].id) = {}
          /\ task' = [task EXCEPT ![p].pc = "error"]
          /\ UNCHANGED zdns
    /\ UNCHANGED <<zones, recs, dev, asso, call, recq, faults, ops>>

\* delete_zdns_zone: read the association, delete it, delete the row
GetZoneAsso(p) ==
    /\ task[p].pc = "getasso"
    /\ \/ \E r \in AssoRows(task[p].id) :
             task' = [task EXCEPT ![p].pc = "delasso", ![p].row = r]
       \/ /\ AssoRows(task[p].id) = {}
          /\ task' = [task EXCEPT ![p].pc = "error"]
    /\ UNCHANGED <<zones, recs, dev, zdns, asso, call, recq, faults, ops>>

\* Faulty variant of DeleteZoneAsso: the delete matches no association.
DeleteZoneAssoMisses(p) ==
    /\ task[p].pc = "delasso"
    /\ task' = [task EXCEPT ![p].pc = "delrow"]
    /\ UNCHANGED <<zones, recs, dev, zdns, asso, call, recq, faults, ops>>

DeleteZoneAsso(p) ==
    /\ task[p].pc = "delasso"
    /\ asso' = {a \in asso : a[1] # task[p].id}
    /\ task' = [task EXCEPT ![p].pc = "delrow"]
    /\ UNCHANGED <<zones, recs, dev, zdns, call, recq, faults, ops>>

DeleteZdnsRow(p) ==
    /\ task[p].pc = "delrow"
    /\ zdns' = [zdns EXCEPT ![task[p].row] = None]
    /\ task' = [task EXCEPT ![p].pc = "ok", ![p].row = None]
    /\ UNCHANGED <<zones, recs, dev, asso, call, recq, faults, ops>>

\* update_zone_status with SUCCESS.  The records go before the zone does, even
\* if the zone turns out to be gone; then the answer is ZoneNotFound.  A lost
\* answer to the callback is an exception to the task as well.
StatusSuccess(p) ==
    LET t == task[p]
    IN  /\ t.pc = "ok"
        /\ recs' = IF t.act = "DELETE" /\ recs[t.id] = "linked"
                   THEN [recs EXCEPT ![t.id] = "none"] ELSE recs
        /\ zones' = IF ~Live(t.id) THEN zones
                    ELSE IF t.act = "DELETE" THEN SoftDelete(t.id)
                    ELSE SetActive(t)
        /\ \/ /\ task' = [task EXCEPT ![p].pc = IF Live(t.id) THEN "done"
                                                ELSE "error"]
              /\ UNCHANGED faults
           \/ /\ "central" \in Faults
              /\ faults < MaxFaults
              /\ faults' = faults + 1
              /\ task' = [task EXCEPT ![p].pc = "error"]
        /\ UNCHANGED <<dev, zdns, asso, call, recq, ops>>

\* Faulty variant of StatusError: the update does not filter deleted rows.
StatusErrorUnfiltered(p) ==
    LET t == task[p]
    IN  /\ t.pc = "error"
        /\ zones' = IF t.act = "CREATE" THEN SoftDelete(t.id) ELSE SetActive(t)
        /\ task' = [task EXCEPT ![p].pc = "raised"]
        /\ UNCHANGED <<recs, dev, zdns, asso, call, recq, faults, ops>>

\* update_zone_status with ERROR: a failed CREATE removes the zone and its
\* records (but not their zdns rows and links), any other failure makes the
\* zone ACTIVE again.
StatusError(p) ==
    LET t == task[p]
    IN  /\ t.pc = "error"
        /\ recs' = IF t.act = "CREATE" /\ recs[t.id] = "linked"
                   THEN [recs EXCEPT ![t.id] = "leaked"] ELSE recs
        /\ zones' = IF ~Live(t.id) THEN zones
                    ELSE IF t.act = "CREATE" THEN SoftDelete(t.id)
                    ELSE SetActive(t)
        /\ task' = [task EXCEPT ![p].pc = "raised"]
        /\ UNCHANGED <<dev, zdns, asso, call, recq, faults, ops>>

\* A callback fails before its write: inside the try block the task goes on to
\* report ERROR, outside it (or while it reports) the exception leaves the task.
CallbackFails(p) ==
    /\ "central" \in Faults
    /\ faults < MaxFaults
    /\ faults' = faults + 1
    /\ task[p].pc \in Running \ {"device"}
    /\ task' = [task EXCEPT ![p].pc = IF @ \in {"view", "error"} THEN "raised"
                                      ELSE "error",
                            ![p].row = None]
    /\ UNCHANGED <<zones, recs, dev, zdns, asso, call, recq, ops>>

\* RecoverShards that have zones to dispatch
Recovering == {q \in Recoverers : recq[q] # {}}

\* The worker process dies: its tasks, RecoverShard too, stop where they are
WorkerCrash ==
    /\ "crash" \in Faults
    /\ faults < MaxFaults
    /\ faults' = faults + 1
    /\ task' = [p \in Procs |->
                   IF task[p].pc \in Running \/ p \in Recovering
                   THEN [NoTask EXCEPT !.pc = "lost"] ELSE task[p]]
    /\ recq' = [q \in Recoverers |-> {}]
    /\ UNCHANGED <<zones, recs, dev, zdns, asso, call, ops>>

\* A central process dies: its calls stop, their tasks do not
CentralCrash(k) ==
    /\ "crash" \in Faults
    /\ faults < MaxFaults
    /\ faults' = faults + 1
    /\ call' = [c \in Clients |-> IF Central[c] = k THEN Idle ELSE call[c]]
    /\ UNCHANGED <<zones, recs, dev, zdns, asso, task, recq, ops>>

\* The reply of a task nobody waits for is dropped
DropReply(c) ==
    /\ task[c].pc \in {"done", "raised", "lost"}
    /\ call[c].pc # "call"
    /\ task' = [task EXCEPT ![c] = NoTask]
    /\ UNCHANGED <<zones, recs, dev, zdns, asso, call, recq, faults, ops>>

----------------------------------------------------------------------------
(* RecoverShard *)

\* Faulty variant of Stale: only zones in ERROR are recovered.
StaleErrorsOnly == {z \in Ids : zones[z].status = "ERROR"}

\* _get_zones: PENDING rows whose serial is older than max_prop_time, as read
Stale == {z \in Ids : zones[z].status = "PENDING" /\ zones[z].aged}

\* No branch of RecoverShard.__call__ handles the action NONE
Recovered == {z \in Stale : zones[z].action # "NONE"}

RecoverList(q) ==
    /\ recq[q] = {}
    /\ task[q].pc = "idle"
    /\ Recovered # {}
    /\ recq' = [recq EXCEPT ![q] = {Dispatch(z, zones[z]) : z \in Recovered}]
    /\ UNCHANGED <<zones, recs, dev, zdns, asso, call, task, faults, ops>>

RecoverDispatch(q) ==
    /\ task[q].pc = "idle"
    /\ \E t \in recq[q] :
          /\ task' = [task EXCEPT ![q] = t]
          /\ recq' = [recq EXCEPT ![q] = @ \ {t}]
    /\ UNCHANGED <<zones, recs, dev, zdns, asso, call, faults, ops>>

\* The call returns.  An exception ends the whole RecoverShard, and goes on to
\* the producer's timer that called it, which stops for good.
RecoverReply(q) ==
    /\ task[q].pc \in {"done", "raised", "lost"}
    /\ task' = [task EXCEPT ![q] = IF @.pc = "done" THEN NoTask
                                   ELSE [NoTask EXCEPT !.pc = "stopped"]]
    /\ recq' = [recq EXCEPT ![q] = IF task[q].pc = "done" THEN @ ELSE {}]
    /\ UNCHANGED <<zones, recs, dev, zdns, asso, call, faults, ops>>

----------------------------------------------------------------------------
(* Time, and the purge of deleted zones *)

\* max_prop_time passes
Age(z) ==
    /\ Recoverers # {}   \* nobody else looks at the age
    /\ Live(z)
    /\ ~zones[z].aged \/ (zones[z].status = "PENDING" /\ ~zones[z].waited)
    /\ zones' = [zones EXCEPT ![z].aged = TRUE,
                              ![z].waited = (zones[z].status = "PENDING")]
    /\ UNCHANGED <<recs, dev, zdns, asso, call, task, recq, faults, ops>>

PurgeZone(z) ==
    /\ zones[z].status = "DELETED"
    /\ zones' = [zones EXCEPT ![z].status = "PURGED"]
    /\ UNCHANGED <<recs, dev, zdns, asso, call, task, recq, faults, ops>>

----------------------------------------------------------------------------
Init == /\ zones = [z \in Ids |-> NoZone]
        /\ recs = [z \in Ids |-> "none"]
        /\ dev = [n \in Names |-> None]
        /\ zdns = [r \in Rows |-> None]
        /\ asso = {}
        /\ call = [c \in Clients |-> Idle]
        /\ task = [p \in Procs |-> NoTask]
        /\ recq = [q \in Recoverers |-> {}]
        /\ faults = 0
        /\ ops = 0

ClientStarts(c) ==
    \E z \in Ids :
        \/ \E n \in Names, t \in Ttls : CreateZone(c, z, n, t)
        \/ \E t \in Ttls : ReadZone(c, z, t)
        \/ \E op \in {"delete", "touch"} : EnterZone(c, z, op)
        \/ AbandonZone(c, z)

\* The steps a started operation takes by itself
ClientStep(c) ==
    \/ EnterUpdate(c) \/ WriteUpdate(c) \/ WriteDelete(c) \/ WriteTouch(c)
    \/ CallReturns(c) \/ CallRaises(c) \/ CallTimesOut(c) \/ DropReply(c)
    \/ CreateDefaultRecord(c) \/ RestoreOrigin(c)

TaskStep(p) ==
    \/ GetView(p) \/ SkipDevice(p) \/ DeviceOk(p) \/ DeviceRefuses(p)
    \/ DeviceAnswerLost(p) \/ CreateZdnsRow(p) \/ CreateZoneAsso(p)
    \/ UpdateZdnsZone(p) \/ GetZoneAsso(p) \/ DeleteZoneAsso(p)
    \/ DeleteZdnsRow(p) \/ StatusSuccess(p) \/ StatusError(p)

RecoverStep(q) == RecoverList(q) \/ RecoverDispatch(q) \/ RecoverReply(q)

Next == \/ \E c \in Clients : ClientStarts(c) \/ ClientStep(c)
        \/ \E p \in Procs : TaskStep(p) \/ CallbackFails(p)
        \/ \E q \in Recoverers : RecoverStep(q)
        \/ \E z \in Ids : Age(z) \/ PurgeZone(z)
        \/ \E c \in Clients : CentralCrash(Central[c])
        \/ WorkerCrash

Spec == Init /\ [][Next]_vars

(***************************************************************************)
(* Threads and tasks that have something to do go on (a fault is never     *)
(* owed), time passes, and the timer of the producer's                     *)
(* worker_periodic_recovery runs RecoverShard again until it stops.        *)
(***************************************************************************)
Fairness == /\ \A c \in Clients : WF_vars(ClientStep(c))
            /\ \A p \in Procs : WF_vars(TaskStep(p))
            /\ \A q \in Recoverers : WF_vars(RecoverStep(q))
            /\ \A z \in Ids : WF_vars(Age(z))

FairSpec == Spec /\ Fairness
----------------------------------------------------------------------------
(* Properties *)

TypeOK ==
    /\ zones \in [Ids -> ZoneRow]
    /\ recs \in [Ids -> {"none", "linked", "leaked"}]
    /\ dev \in [Names -> Ttls \cup {None}]
    /\ zdns \in [Rows -> Ttls \cup {None}]
    /\ asso \subseteq Ids \X Rows
    /\ call \in [Clients -> Call]
    /\ task \in [Procs -> Task]
    /\ recq \in [Recoverers -> SUBSET Task]
    /\ faults \in 0..MaxFaults
    /\ ops \in 0..MaxOps

\* An association never points to a zdns_zones_info_t row that is missing, in
\* whatever order concurrent creates, deletes and recoveries of the zone write
\* and fail: create_zdns_zone and delete_zdns_zone make two writes each without
\* a transaction, and the tables have no foreign key.
AssoHasRow == \A a \in asso : zdns[a[2]] # None

\* A zone that is deleted stays deleted: no late callback, restore or recovery
\* brings it back or changes it, and only purge_zones takes it away.
DeletedIsFinal ==
    [][\A z \in Ids : zones[z].status \in {"DELETED", "PURGED"} =>
          \/ zones'[z] = zones[z]
          \/ zones'[z] = [zones[z] EXCEPT !.status = "PURGED"]]_vars

\* Nobody is working on the zone
Quiet(z) == /\ \A c \in Clients : call[c].id # z
            /\ \A p \in Procs : task[p].id # z
            /\ \A q \in Recoverers : \A t \in recq[q] : t.id # z

\* The zone is on the device as the database says, and mirrored by one row
InStep(z) ==
    /\ zones[z].status = "ACTIVE"
    /\ zones[z].action = "NONE"
    /\ dev[zones[z].name] = zones[z].ttl
    /\ \E r \in Rows : AssoRows(z) = {r} /\ zdns[r] = zones[z].ttl
    /\ recs[z] = "linked"

\* When nobody works on a zone that exists, its row, the device, the mirrored
\* zdns row and its default records agree, whatever the device refused.
DatabaseMatchesDevice == \A z \in Ids : Live(z) /\ Quiet(z) => InStep(z)

\* Nothing outlives its zone: what the device serves, every association and
\* every zdns row belongs to a zone that exists or is being worked on.
NothingLeaks ==
    /\ \A n \in Names : dev[n] # None =>
          \E z \in Ids : zones[z].name = n /\ (Live(z) \/ ~Quiet(z))
    /\ \A a \in asso : Live(a[1]) \/ ~Quiet(a[1])
    /\ \A r \in Rows : zdns[r] # None =>
          \/ \E a \in asso : a[2] = r
          \/ \E p \in Procs : task[p].row = r

\* Every recovery timer has been stopped by an exception
NoRecovery == \A q \in Recoverers : task[q].pc = "stopped"

\* A zone never stays PENDING: its task settles it, or RecoverShard finds it
\* after a crash or a failed callback and settles it, unless the timer that
\* starts RecoverShard has been stopped by an exception.
PendingIsSettled ==
    \A z \in Ids : zones[z].status = "PENDING" ~>
                      (zones[z].status # "PENDING" \/ NoRecovery)

\* doc/source/contributor/ubuntu-dev.rst: "The ACTIVE status shows that the
\* zone propagated."
ActiveMeansPropagated ==
    \A z \in Ids : zones[z].status = "ACTIVE" /\ Quiet(z) =>
                      dev[zones[z].name] = zones[z].ttl

\* synchronized_zone: "Ensures only a single operation is in progress for each
\* zone ... within the current designate-central instance"
InOperation(c, z) == /\ call[c].id = z
                     /\ call[c].pc \in {"entered", "call", "restore", "default"}

OneOperationPerZone ==
    \A c, d \in Clients : \A z \in Ids :
        /\ c # d
        /\ Central[c] = Central[d]
        /\ InOperation(c, z)
        => ~InOperation(d, z)

\* RecoverShard._get_zones: "Include things that have been hanging out in
\* PENDING status for longer than they should"
StaleMeansWaited == \A z \in Stale : zones[z].waited
=============================================================================
