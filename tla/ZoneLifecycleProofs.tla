------------------------ MODULE ZoneLifecycleProofs ------------------------
(***************************************************************************)
(* Proofs about ZoneLifecycle for every choice of its constants.           *)
(*                                                                         *)
(* Neither TypeOK nor AssoHasRow is inductive.  WellFormed adds that what  *)
(* is in flight (a call, a task, an entry of a recovery list) refers to a  *)
(* zone and carries the data of a row that existed.  MirrorSafe adds who   *)
(* may touch a zdns row: a row that is not associated yet belongs to the   *)
(* one task that inserted it, a row has at most one association, and a     *)
(* task that is about to delete a row has already removed its association. *)
(***************************************************************************)
EXTENDS ZoneLifecycle, TLAPS

RefPcs == {"asso", "delasso", "delrow"}

RowsSound == \A z \in Ids : Live(z) => zones[z].ttl \in Ttls

CallsSound ==
    \A c \in Clients : call[c].pc # "idle" =>
        /\ call[c].id \in Ids
        /\ call[c].pc = "restore" => call[c].op = "update"
        /\ call[c].op = "update" =>
              /\ call[c].new \in Ttls
              /\ call[c].pc # "read" => call[c].old \in Ttls

TasksSound ==
    \A p \in Procs : task[p].pc \in Running =>
        task[p].id \in Ids /\ task[p].ttl \in Ttls

QueuesSound ==
    \A q \in Recoverers : \A t \in recq[q] :
        t.pc = "view" /\ t.id \in Ids /\ t.ttl \in Ttls /\ t.row = None

RefsSound ==
    \A p \in Procs : /\ task[p].row # None => task[p].pc \in RefPcs
                     /\ task[p].pc \in RefPcs => task[p].row \in Rows

WellFormed == /\ RowsSound
              /\ CallsSound
              /\ TasksSound
              /\ QueuesSound
              /\ RefsSound

\* A row has at most one association
OneAsso == \A a, b \in asso : a[2] = b[2] => a = b

\* A row that is not associated yet exists and belongs to the task that made it
NewRowsOwned ==
    \A p \in Procs : task[p].pc = "asso" =>
        /\ zdns[task[p].row] # None
        /\ \A a \in asso : a[2] # task[p].row
        /\ \A q \in Procs : task[q].row = task[p].row => q = p

\* What a task is about to remove is the association of its own zone
UnlinksOwn ==
    \A p \in Procs : task[p].pc = "delasso" =>
        \A a \in asso : a[2] = task[p].row => a[1] = task[p].id

\* A row that a task is about to delete has no association any more
DeletesUnlinked ==
    \A p \in Procs : task[p].pc = "delrow" =>
        \A a \in asso : a[2] # task[p].row

MirrorSafe == /\ AssoHasRow
              /\ OneAsso
              /\ NewRowsOwned
              /\ UnlinksOwn
              /\ DeletesUnlinked

----------------------------------------------------------------------------
\* The null records of a row, a call and a task are well typed
LEMMA NullTypes ==
    /\ NoZone \in ZoneRow
    /\ Idle \in Call
    /\ NoTask \in Task
    /\ [NoTask EXCEPT !.pc = "lost"] \in Task
    /\ [NoTask EXCEPT !.pc = "stopped"] \in Task
BY DEF NoZone, ZoneRow, Idle, Call, NoTask, Task, Statuses, Actions, CallPcs,
       TaskPcs

\* The object of a task is well typed when the row it copies is
LEMMA DispatchType ==
    ASSUME NEW z \in Ids, NEW row \in ZoneRow
    PROVE  Dispatch(z, row) \in Task
BY DEF Dispatch, ZoneRow, Task, TaskPcs, Actions

\* Moving a task on, with or without a new row reference, keeps its type
LEMMA TaskPcType ==
    ASSUME NEW f \in [Procs -> Task], NEW p \in Procs, NEW x \in TaskPcs
    PROVE  [f EXCEPT ![p].pc = x] \in [Procs -> Task]
BY DEF Task

\* Moving a task on and setting its row reference keeps its type
LEMMA TaskRowType ==
    ASSUME NEW f \in [Procs -> Task], NEW p \in Procs, NEW x \in TaskPcs,
           NEW r \in Rows \cup {None}
    PROVE  [f EXCEPT ![p].pc = x, ![p].row = r] \in [Procs -> Task]
BY DEF Task

\* Moving a call on keeps its type
LEMMA CallPcType ==
    ASSUME NEW f \in [Clients -> Call], NEW c \in Clients, NEW x \in CallPcs
    PROVE  /\ [f EXCEPT ![c].pc = x] \in [Clients -> Call]
           /\ [f[c] EXCEPT !.pc = x] \in Call
BY DEF Call

\* EnterUpdate's change of a call, which remembers the old ttl, keeps its type
LEMMA CallOldType ==
    ASSUME NEW k \in Call, NEW x \in CallPcs, NEW t \in Ttls \cup {None}
    PROVE  [k EXCEPT !.pc = x, !.old = t] \in Call
BY DEF Call

\* The records a new call starts from
LEMMA CreateCallType ==
    ASSUME NEW z \in Ids
    PROVE  [Idle EXCEPT !.pc = "call", !.op = "create", !.id = z] \in Call
BY NullTypes DEF Idle, Call, CallPcs

\* The call that ReadZone (patch_one) starts is well typed
LEMMA ReadCallType ==
    ASSUME NEW z \in Ids, NEW t \in Ttls, NEW row \in ZoneRow
    PROVE  [Idle EXCEPT !.pc = "read", !.op = "update", !.id = z,
                        !.new = t, !.seen = row] \in Call
BY DEF Idle, Call, CallPcs

\* The call that EnterZone (delete_zone, touch_zone) starts is well typed
LEMMA EnterCallType ==
    ASSUME NEW z \in Ids, NEW row \in ZoneRow, NEW op \in {"delete", "touch"}
    PROVE  [Idle EXCEPT !.pc = "entered", !.op = op, !.id = z,
                        !.seen = row] \in Call
BY DEF Idle, Call, CallPcs

\* Changing one row keeps the type of the table
LEMMA RowStatusType ==
    ASSUME NEW f \in [Ids -> ZoneRow], NEW z \in Ids, NEW s \in Statuses
    PROVE  [f EXCEPT ![z].status = s] \in [Ids -> ZoneRow]
BY DEF ZoneRow

\* Restoring the ttl of one row keeps the type of the table
LEMMA RowTtlType ==
    ASSUME NEW f \in [Ids -> ZoneRow], NEW z \in Ids, NEW t \in Ttls \cup {None}
    PROVE  [f EXCEPT ![z].ttl = t] \in [Ids -> ZoneRow]
BY DEF ZoneRow

\* Settling the status and action of one row keeps the type of the table
LEMMA RowSettledType ==
    ASSUME NEW f \in [Ids -> ZoneRow], NEW z \in Ids, NEW s \in Statuses,
           NEW a \in Actions
    PROVE  [f EXCEPT ![z].status = s, ![z].action = a, ![z].waited = FALSE]
              \in [Ids -> ZoneRow]
BY DEF ZoneRow

\* The soft delete of a row keeps the type of the table
LEMMA SoftDeleteType ==
    ASSUME TypeOK, NEW z \in Ids
    PROVE  SoftDelete(z) \in [Ids -> ZoneRow]
BY RowSettledType DEF TypeOK, SoftDelete, Statuses, Actions

\* update_zone_status's ACTIVE keeps the type of the table
LEMMA SetActiveType ==
    ASSUME TypeOK, NEW t \in Task, t.id \in Ids
    PROVE  SetActive(t) \in [Ids -> ZoneRow]
<1>1. zones[t.id] \in ZoneRow
  BY DEF TypeOK
<1>2. (IF t.act = "NONE" THEN zones[t.id].action ELSE "NONE") \in Actions
  BY <1>1 DEF ZoneRow, Actions
<1> QED
  BY <1>2, RowSettledType DEF TypeOK, SetActive, Statuses

\* Marking a row PENDING, whatever stale copy was seen, keeps its type
LEMMA SetPendingType ==
    ASSUME TypeOK, NEW z \in Ids, NEW seen, NEW act \in Actions
    PROVE  SetPending(z, seen, act) \in ZoneRow
<1>1. zones[z] \in ZoneRow
  BY DEF TypeOK
<1> QED
  BY <1>1 DEF SetPending, ZoneRow, Statuses, Actions

\* Writing the requested ttl to a row, or not, keeps its type
LEMMA SetTtlType ==
    ASSUME NEW row \in ZoneRow, NEW b, NEW t \in Ttls \cup {None}
    PROVE  [row EXCEPT !.ttl = IF b THEN t ELSE @] \in ZoneRow
BY DEF ZoneRow

\* Renewing the serial of a row keeps its type
LEMMA TouchedRowType ==
    ASSUME NEW row \in ZoneRow PROVE [row EXCEPT !.aged = FALSE] \in ZoneRow
BY DEF ZoneRow

\* The passing of max_prop_time keeps the type of the table
LEMMA AgeType ==
    ASSUME NEW f \in [Ids -> ZoneRow], NEW z \in Ids
    PROVE  [f EXCEPT ![z].aged = TRUE, ![z].waited = (f[z].status = "PENDING")]
              \in [Ids -> ZoneRow]
<1>1. (f[z].status = "PENDING") \in BOOLEAN
  OBVIOUS
<1>2. \A b \in BOOLEAN : [f EXCEPT ![z].aged = TRUE, ![z].waited = b]
              \in [Ids -> ZoneRow]
  BY DEF ZoneRow
<1> QED
  BY <1>1, <1>2, Zenon

\* Every task is at a step, and the record of a client's task is one of them
LEMMA PcTypes ==
    /\ Clients \subseteq Procs /\ Recoverers \subseteq Procs
    /\ None \in Rows \cup {None}
    /\ \A a : NextPc(a) \in TaskPcs
BY DEF Procs, NextPc, TaskPcs

\* What a dispatched object carries
LEMMA DispatchFields ==
    ASSUME NEW z, NEW row
    PROVE  /\ Dispatch(z, row).pc = "view"
           /\ Dispatch(z, row).id = z
           /\ Dispatch(z, row).ttl = row.ttl
           /\ Dispatch(z, row).row = None
BY DEF Dispatch

\* Marking a row PENDING keeps its ttl; setting the ttl sets it
LEMMA WrittenTtl ==
    ASSUME TypeOK, NEW z \in Ids, NEW seen, NEW act \in Actions, NEW b, NEW t
    PROVE  /\ SetPending(z, seen, act).ttl = zones[z].ttl
           /\ [SetPending(z, seen, act) EXCEPT !.ttl = IF b THEN t ELSE @].ttl
                 = IF b THEN t ELSE zones[z].ttl
<1>1. SetPending(z, seen, act) \in ZoneRow /\ zones[z] \in ZoneRow
  BY SetPendingType DEF TypeOK
<1>2. SetPending(z, seen, act).ttl = zones[z].ttl
  BY <1>1 DEF SetPending, ZoneRow
<1> QED
  BY <1>1, <1>2 DEF ZoneRow

\* A step keeps the type of every variable: one step of the proof per action,
\* and under it one per variable that the action changes.
LEMMA TypeStep == TypeOK /\ WellFormed /\ [Next]_vars => TypeOK'
<1> SUFFICES ASSUME TypeOK, WellFormed, [Next]_vars PROVE TypeOK'
  OBVIOUS
<1>1. ASSUME NEW c \in Clients, NEW z \in Ids, NEW n \in Names, NEW t \in Ttls, CreateZone(c, z, n, t) PROVE TypeOK'
  <2> DEFINE row == [NoZone EXCEPT !.status = "PENDING", !.action = "CREATE",
                                   !.name = n, !.ttl = t]
  <2>1. row \in ZoneRow
    BY <1>1 DEF NoZone, ZoneRow, Statuses, Actions
  <2>2. Dispatch(z, row) \in Task
    BY <1>1, <2>1, DispatchType
  <2> HIDE DEF row
  <2>3. zones' \in [Ids -> ZoneRow]
    BY <1>1, <2>1 DEF CreateZone, TypeOK, row
  <2>4. task' \in [Procs -> Task]
    BY <1>1, <2>2, TaskPcType, TaskRowType, PcTypes DEF CreateZone, TypeOK, row
  <2>5. call' \in [Clients -> Call]
    BY <1>1, CreateCallType DEF CreateZone, TypeOK
  <2>6. ops' \in 0..MaxOps
    BY <1>1, ConstantsAssumption DEF CreateZone, TypeOK, MayStart
  <2> QED
    BY <1>1, <2>3, <2>4, <2>5, <2>6 DEF CreateZone, TypeOK
<1>2. ASSUME NEW c \in Clients, NEW z \in Ids, NEW t \in Ttls, ReadZone(c, z, t) PROVE TypeOK'
  <2>1. call' \in [Clients -> Call]
    BY <1>2, ReadCallType DEF ReadZone, TypeOK
  <2>2. ops' \in 0..MaxOps
    BY <1>2, ConstantsAssumption DEF ReadZone, TypeOK, MayStart
  <2> QED
    BY <1>2, <2>1, <2>2 DEF ReadZone, TypeOK
<1>3. ASSUME NEW c \in Clients, NEW z \in Ids, NEW op \in {"delete", "touch"}, EnterZone(c, z, op) PROVE TypeOK'
  <2>1. call' \in [Clients -> Call]
    BY <1>3, EnterCallType DEF EnterZone, TypeOK
  <2>2. ops' \in 0..MaxOps
    BY <1>3, ConstantsAssumption DEF EnterZone, TypeOK, MayStart
  <2> QED
    BY <1>3, <2>1, <2>2 DEF EnterZone, TypeOK
<1>4. ASSUME NEW c \in Clients, NEW z \in Ids, AbandonZone(c, z) PROVE TypeOK'
  <2>1. zones' \in [Ids -> ZoneRow]
    BY <1>4, SoftDeleteType DEF AbandonZone, TypeOK
  <2>2. ops' \in 0..MaxOps
    BY <1>4, ConstantsAssumption DEF AbandonZone, TypeOK, MayStart
  <2> QED
    BY <1>4, <2>1, <2>2 DEF AbandonZone, TypeOK
<1>5. ASSUME NEW c \in Clients, EnterUpdate(c) PROVE TypeOK'
  <2>1. call[c].id \in Ids
    BY <1>5 DEF EnterUpdate, WellFormed, CallsSound
  <2>2. zones[call[c].id].ttl \in Ttls \cup {None}
    BY <1>5, <2>1 DEF TypeOK, ZoneRow
  <2>3. call' \in [Clients -> Call]
    BY <1>5, <2>2, CallOldType, NullTypes DEF EnterUpdate, TypeOK, CallPcs
  <2> QED
    BY <1>5, <2>3 DEF EnterUpdate, TypeOK
<1>6. ASSUME NEW c \in Clients, WriteUpdate(c) PROVE TypeOK'
  <2> DEFINE k == call[c]
             row == [SetPending(k.id, k.seen, "UPDATE") EXCEPT
                       !.ttl = IF TtlChanged(k) THEN k.new ELSE @]
  <2>1. k \in Call /\ k.id \in Ids
    BY <1>6 DEF WriteUpdate, WellFormed, CallsSound, TypeOK
  <2>2. row \in ZoneRow
    <3>1. SetPending(k.id, k.seen, "UPDATE") \in ZoneRow
      BY <1>6, <2>1, SetPendingType DEF Actions
    <3>2. k.new \in Ttls \cup {None}
      BY <1>6, <2>1 DEF Call
    <3> QED
      BY <1>6, <3>1, <3>2, SetTtlType
  <2>3. Dispatch(k.id, row) \in Task
    BY <1>6, <2>1, <2>2, DispatchType
  <2> HIDE DEF row
  <2>4. zones' \in [Ids -> ZoneRow]
    BY <1>6, <2>1, <2>2 DEF WriteUpdate, TypeOK, row
  <2>5. task' \in [Procs -> Task]
    BY <1>6, <2>3, TaskPcType, TaskRowType, PcTypes DEF WriteUpdate, TypeOK, row
  <2>6. call' \in [Clients -> Call]
    <3>1. \/ call' = [call EXCEPT ![c].pc = "call"]
          \/ call' = [call EXCEPT ![c] = Idle]
      BY <1>6 DEF WriteUpdate
    <3>2. [call EXCEPT ![c].pc = "call"] \in [Clients -> Call]
      BY <1>6, CallPcType DEF TypeOK, CallPcs
    <3>3. [call EXCEPT ![c] = Idle] \in [Clients -> Call]
      BY <1>6, NullTypes DEF TypeOK
    <3> QED
      BY <1>6, <3>1, <3>2, <3>3
  <2> QED
    BY <1>6, <2>4, <2>5, <2>6 DEF WriteUpdate, TypeOK
<1>7. ASSUME NEW c \in Clients, WriteDelete(c) PROVE TypeOK'
  <2> DEFINE k == call[c]
             row == SetPending(k.id, k.seen, "DELETE")
  <2>1. k \in Call /\ k.id \in Ids
    BY <1>7 DEF WriteDelete, WellFormed, CallsSound, TypeOK
  <2>2. row \in ZoneRow
    BY <1>7, <2>1, SetPendingType DEF Actions
  <2>3. Dispatch(k.id, row) \in Task
    BY <1>7, <2>1, <2>2, DispatchType
  <2> HIDE DEF row
  <2>4. zones' \in [Ids -> ZoneRow]
    BY <1>7, <2>1, <2>2 DEF WriteDelete, TypeOK, row
  <2>5. task' \in [Procs -> Task]
    BY <1>7, <2>3, TaskPcType, TaskRowType, PcTypes DEF WriteDelete, TypeOK, row
  <2>6. call' \in [Clients -> Call]
    <3>1. \/ call' = [call EXCEPT ![c].pc = "call"]
          \/ call' = [call EXCEPT ![c] = Idle]
      BY <1>7 DEF WriteDelete
    <3>2. [call EXCEPT ![c].pc = "call"] \in [Clients -> Call]
      BY <1>7, CallPcType DEF TypeOK, CallPcs
    <3>3. [call EXCEPT ![c] = Idle] \in [Clients -> Call]
      BY <1>7, NullTypes DEF TypeOK
    <3> QED
      BY <1>7, <3>1, <3>2, <3>3
  <2> QED
    BY <1>7, <2>4, <2>5, <2>6 DEF WriteDelete, TypeOK
<1>8. ASSUME NEW c \in Clients, WriteTouch(c) PROVE TypeOK'
  <2> DEFINE k == call[c]
             row == [zones[k.id] EXCEPT !.aged = FALSE]
  <2>1. k \in Call /\ k.id \in Ids
    BY <1>8 DEF WriteTouch, WellFormed, CallsSound, TypeOK
  <2>2. row \in ZoneRow
    BY <1>8, <2>1, TouchedRowType DEF TypeOK
  <2>3. Dispatch(k.id, row) \in Task
    BY <1>8, <2>1, <2>2, DispatchType
  <2> HIDE DEF row
  <2>4. zones' \in [Ids -> ZoneRow]
    BY <1>8, <2>1, <2>2 DEF WriteTouch, TypeOK, row
  <2>5. task' \in [Procs -> Task]
    BY <1>8, <2>3, TaskPcType, TaskRowType, PcTypes DEF WriteTouch, TypeOK, row
  <2>6. call' \in [Clients -> Call]
    <3>1. \/ call' = [call EXCEPT ![c].pc = "call"]
          \/ call' = [call EXCEPT ![c] = Idle]
      BY <1>8 DEF WriteTouch
    <3>2. [call EXCEPT ![c].pc = "call"] \in [Clients -> Call]
      BY <1>8, CallPcType DEF TypeOK, CallPcs
    <3>3. [call EXCEPT ![c] = Idle] \in [Clients -> Call]
      BY <1>8, NullTypes DEF TypeOK
    <3> QED
      BY <1>8, <3>1, <3>2, <3>3
  <2> QED
    BY <1>8, <2>4, <2>5, <2>6 DEF WriteTouch, TypeOK
<1>9. ASSUME NEW c \in Clients, CallReturns(c) PROVE TypeOK'
  <2>1. task' \in [Procs -> Task]
    BY <1>9, TaskPcType, TaskRowType, PcTypes, NullTypes DEF CallReturns, TypeOK, TaskPcs
  <2>2. call' \in [Clients -> Call]
    BY <1>9, CallPcType, NullTypes DEF CallReturns, TypeOK, CallPcs
  <2> QED
    BY <1>9, <2>1, <2>2 DEF CallReturns, TypeOK
<1>10. ASSUME NEW c \in Clients, CallRaises(c) PROVE TypeOK'
  <2>1. task' \in [Procs -> Task]
    BY <1>10, TaskPcType, TaskRowType, PcTypes, NullTypes DEF CallRaises, TypeOK, TaskPcs
  <2>2. call' \in [Clients -> Call]
    BY <1>10, CallPcType, NullTypes DEF CallRaises, AfterException, TypeOK, CallPcs
  <2> QED
    BY <1>10, <2>1, <2>2 DEF CallRaises, TypeOK
<1>11. ASSUME NEW c \in Clients, CallTimesOut(c) PROVE TypeOK'
  <2>1. call' \in [Clients -> Call]
    BY <1>11, CallPcType, NullTypes DEF CallTimesOut, AfterException, TypeOK, CallPcs
  <2> QED
    BY <1>11, <2>1 DEF CallTimesOut, TypeOK
<1>12. ASSUME NEW c \in Clients, DropReply(c) PROVE TypeOK'
  <2>1. task' \in [Procs -> Task]
    BY <1>12, TaskPcType, TaskRowType, PcTypes, NullTypes DEF DropReply, TypeOK, TaskPcs
  <2> QED
    BY <1>12, <2>1 DEF DropReply, TypeOK
<1>13. ASSUME NEW c \in Clients, CreateDefaultRecord(c) PROVE TypeOK'
  <2>1. recs' \in [Ids -> {"none", "linked", "leaked"}]
    BY <1>13 DEF CreateDefaultRecord, TypeOK
  <2>2. call' \in [Clients -> Call]
    BY <1>13, CallPcType, NullTypes DEF CreateDefaultRecord, TypeOK
  <2> QED
    BY <1>13, <2>1, <2>2 DEF CreateDefaultRecord, TypeOK
<1>14. ASSUME NEW c \in Clients, RestoreOrigin(c) PROVE TypeOK'
  <2>1. call[c] \in Call /\ call[c].id \in Ids
    BY <1>14 DEF RestoreOrigin, WellFormed, CallsSound, TypeOK
  <2>2. call[c].old \in Ttls \cup {None}
    BY <1>14, <2>1 DEF Call
  <2>3. zones' \in [Ids -> ZoneRow]
    BY <1>14, <2>1, <2>2, RowTtlType DEF RestoreOrigin, TypeOK
  <2>4. call' \in [Clients -> Call]
    BY <1>14, CallPcType, NullTypes DEF RestoreOrigin, TypeOK
  <2> QED
    BY <1>14, <2>3, <2>4 DEF RestoreOrigin, TypeOK
<1>15. ASSUME NEW p \in Procs, GetView(p) PROVE TypeOK'
  <2>1. task' \in [Procs -> Task]
    BY <1>15, TaskPcType, TaskRowType, PcTypes DEF GetView, TypeOK, TaskPcs
  <2> QED
    BY <1>15, <2>1 DEF GetView, TypeOK
<1>16. ASSUME NEW p \in Procs, SkipDevice(p) PROVE TypeOK'
  <2>1. task' \in [Procs -> Task]
    BY <1>16, TaskPcType, TaskRowType, PcTypes DEF SkipDevice, TypeOK, TaskPcs
  <2> QED
    BY <1>16, <2>1 DEF SkipDevice, TypeOK
<1>17. ASSUME NEW p \in Procs, DeviceOk(p) PROVE TypeOK'
  <2>1. task' \in [Procs -> Task]
    BY <1>17, TaskPcType, TaskRowType, PcTypes DEF DeviceOk, TypeOK, TaskPcs
  <2>2. dev' \in [Names -> Ttls \cup {None}]
    BY <1>17 DEF DeviceOk, DeviceAfter, TypeOK, Task
  <2> QED
    BY <1>17, <2>1, <2>2 DEF DeviceOk, TypeOK
<1>18. ASSUME NEW p \in Procs, DeviceRefuses(p) PROVE TypeOK'
  <2>1. task' \in [Procs -> Task]
    BY <1>18, TaskPcType, TaskRowType, PcTypes DEF DeviceRefuses, TypeOK, TaskPcs
  <2> QED
    BY <1>18, <2>1 DEF DeviceRefuses, TypeOK
<1>19. ASSUME NEW p \in Procs, DeviceAnswerLost(p) PROVE TypeOK'
  <2>1. task' \in [Procs -> Task]
    BY <1>19, TaskPcType, TaskRowType, PcTypes DEF DeviceAnswerLost, TypeOK, TaskPcs
  <2>2. dev' \in [Names -> Ttls \cup {None}]
    BY <1>19 DEF DeviceAnswerLost, DeviceAfter, TypeOK, Task
  <2> QED
    BY <1>19, <2>1, <2>2 DEF DeviceAnswerLost, TypeOK
<1>20. ASSUME NEW p \in Procs, CreateZdnsRow(p) PROVE TypeOK'
  <2>1. task' \in [Procs -> Task]
    BY <1>20 DEF CreateZdnsRow, TypeOK, Task, TaskPcs
  <2>2. zdns' \in [Rows -> Ttls \cup {None}]
    BY <1>20 DEF CreateZdnsRow, TypeOK, Task
  <2> QED
    BY <1>20, <2>1, <2>2 DEF CreateZdnsRow, TypeOK
<1>21. ASSUME NEW p \in Procs, CreateZoneAsso(p) PROVE TypeOK'
  <2>1. task' \in [Procs -> Task]
    BY <1>21, TaskPcType, TaskRowType, PcTypes DEF CreateZoneAsso, TypeOK, TaskPcs
  <2>2. asso' \subseteq Ids \X Rows
    BY <1>21 DEF CreateZoneAsso, TypeOK, WellFormed, TasksSound, RefsSound, RefPcs, Running
  <2> QED
    BY <1>21, <2>1, <2>2 DEF CreateZoneAsso, TypeOK
<1>22. ASSUME NEW p \in Procs, UpdateZdnsZone(p) PROVE TypeOK'
  <2>1. task' \in [Procs -> Task]
    BY <1>22 DEF UpdateZdnsZone, TypeOK, Task, TaskPcs
  <2>2. zdns' \in [Rows -> Ttls \cup {None}]
    BY <1>22 DEF UpdateZdnsZone, TypeOK, Task
  <2> QED
    BY <1>22, <2>1, <2>2 DEF UpdateZdnsZone, TypeOK
<1>23. ASSUME NEW p \in Procs, GetZoneAsso(p) PROVE TypeOK'
  <2>1. \/ \E r \in Rows : task' = [task EXCEPT ![p].pc = "delasso", ![p].row = r]
        \/ task' = [task EXCEPT ![p].pc = "error"]
    BY <1>23 DEF GetZoneAsso, AssoRows
  <2>2. task' \in [Procs -> Task]
    BY <1>23, <2>1 DEF TypeOK, Task, TaskPcs
  <2> QED
    BY <1>23, <2>2 DEF GetZoneAsso, TypeOK
<1>24. ASSUME NEW p \in Procs, DeleteZoneAsso(p) PROVE TypeOK'
  <2>1. task' \in [Procs -> Task]
    BY <1>24, TaskPcType, TaskRowType, PcTypes DEF DeleteZoneAsso, TypeOK, TaskPcs
  <2>2. asso' \subseteq Ids \X Rows
    BY <1>24 DEF DeleteZoneAsso, TypeOK
  <2> QED
    BY <1>24, <2>1, <2>2 DEF DeleteZoneAsso, TypeOK
<1>25. ASSUME NEW p \in Procs, DeleteZdnsRow(p) PROVE TypeOK'
  <2>1. task' \in [Procs -> Task]
    BY <1>25, TaskPcType, TaskRowType, PcTypes DEF DeleteZdnsRow, TypeOK, TaskPcs
  <2>2. zdns' \in [Rows -> Ttls \cup {None}]
    BY <1>25 DEF DeleteZdnsRow, TypeOK
  <2> QED
    BY <1>25, <2>1, <2>2 DEF DeleteZdnsRow, TypeOK
<1>26. ASSUME NEW p \in Procs, StatusSuccess(p) PROVE TypeOK'
  <2>1. task[p] \in Task /\ task[p].id \in Ids
    BY <1>26 DEF StatusSuccess, TypeOK, WellFormed, TasksSound, Running
  <2>2. zones' \in [Ids -> ZoneRow]
    BY <1>26, <2>1, SoftDeleteType, SetActiveType DEF StatusSuccess, TypeOK
  <2>3. recs' \in [Ids -> {"none", "linked", "leaked"}]
    BY <1>26 DEF StatusSuccess, TypeOK
  <2>4. task' \in [Procs -> Task]
    BY <1>26 DEF StatusSuccess, TypeOK, Task, TaskPcs
  <2>5. faults' \in 0..MaxFaults
    BY <1>26, ConstantsAssumption DEF StatusSuccess, TypeOK
  <2> QED
    BY <1>26, <2>2, <2>3, <2>4, <2>5 DEF StatusSuccess, TypeOK
<1>27. ASSUME NEW p \in Procs, StatusError(p) PROVE TypeOK'
  <2>1. task[p] \in Task /\ task[p].id \in Ids
    BY <1>27 DEF StatusError, TypeOK, WellFormed, TasksSound, Running
  <2>2. zones' \in [Ids -> ZoneRow]
    BY <1>27, <2>1, SoftDeleteType, SetActiveType DEF StatusError, TypeOK
  <2>3. recs' \in [Ids -> {"none", "linked", "leaked"}]
    BY <1>27 DEF StatusError, TypeOK
  <2>4. task' \in [Procs -> Task]
    BY <1>27 DEF StatusError, TypeOK, Task, TaskPcs
  <2> QED
    BY <1>27, <2>2, <2>3, <2>4 DEF StatusError, TypeOK
<1>28. ASSUME NEW p \in Procs, CallbackFails(p) PROVE TypeOK'
  <2>1. task' \in [Procs -> Task]
    BY <1>28, TaskPcType, TaskRowType, PcTypes DEF CallbackFails, TypeOK, TaskPcs
  <2>2. faults' \in 0..MaxFaults
    BY <1>28, ConstantsAssumption DEF CallbackFails, TypeOK
  <2> QED
    BY <1>28, <2>1, <2>2 DEF CallbackFails, TypeOK
<1>29. ASSUME NEW q \in Recoverers, RecoverList(q) PROVE TypeOK'
  <2>1. recq' \in [Recoverers -> SUBSET Task]
    BY <1>29, DispatchType DEF RecoverList, Recovered, Stale, TypeOK
  <2> QED
    BY <1>29, <2>1 DEF RecoverList, TypeOK
<1>30. ASSUME NEW q \in Recoverers, RecoverDispatch(q) PROVE TypeOK'
  <2>1. task' \in [Procs -> Task]
    BY <1>30, TaskPcType, TaskRowType, PcTypes DEF RecoverDispatch, TypeOK, TaskPcs
  <2>2. recq' \in [Recoverers -> SUBSET Task]
    BY <1>30 DEF RecoverDispatch, TypeOK
  <2> QED
    BY <1>30, <2>1, <2>2 DEF RecoverDispatch, TypeOK
<1>31. ASSUME NEW q \in Recoverers, RecoverReply(q) PROVE TypeOK'
  <2>1. task' \in [Procs -> Task]
    BY <1>31, TaskPcType, TaskRowType, PcTypes, NullTypes DEF RecoverReply, TypeOK, TaskPcs
  <2>2. recq' \in [Recoverers -> SUBSET Task]
    BY <1>31 DEF RecoverReply, TypeOK
  <2> QED
    BY <1>31, <2>1, <2>2 DEF RecoverReply, TypeOK
<1>32. ASSUME NEW z \in Ids, Age(z) PROVE TypeOK'
  <2>1. zones' \in [Ids -> ZoneRow]
    BY <1>32, AgeType DEF Age, TypeOK
  <2> QED
    BY <1>32, <2>1 DEF Age, TypeOK
<1>33. ASSUME NEW z \in Ids, PurgeZone(z) PROVE TypeOK'
  <2>1. zones' \in [Ids -> ZoneRow]
    BY <1>33, RowStatusType DEF PurgeZone, TypeOK, Statuses
  <2> QED
    BY <1>33, <2>1 DEF PurgeZone, TypeOK
<1>34. ASSUME NEW k, CentralCrash(k) PROVE TypeOK'
  <2>1. call' \in [Clients -> Call]
    BY <1>34, NullTypes DEF CentralCrash, TypeOK
  <2>2. faults' \in 0..MaxFaults
    BY <1>34, ConstantsAssumption DEF CentralCrash, TypeOK
  <2> QED
    BY <1>34, <2>1, <2>2 DEF CentralCrash, TypeOK
<1>35. ASSUME WorkerCrash PROVE TypeOK'
  <2>1. task' \in [Procs -> Task]
    BY <1>35, NullTypes DEF WorkerCrash, TypeOK
  <2>2. recq' \in [Recoverers -> SUBSET Task]
    BY <1>35 DEF WorkerCrash, TypeOK
  <2>3. faults' \in 0..MaxFaults
    BY <1>35, ConstantsAssumption DEF WorkerCrash, TypeOK
  <2> QED
    BY <1>35, <2>1, <2>2, <2>3 DEF WorkerCrash, TypeOK
<1>36. CASE UNCHANGED vars
  BY <1>36 DEF vars, TypeOK
<1> QED
  BY <1>1, <1>2, <1>3, <1>4, <1>5, <1>6, <1>7, <1>8, <1>9, <1>10, <1>11, <1>12, <1>13, <1>14, <1>15, <1>16, <1>17, <1>18, <1>19, <1>20, <1>21, <1>22, <1>23, <1>24, <1>25, <1>26, <1>27, <1>28, <1>29, <1>30, <1>31, <1>32, <1>33, <1>34, <1>35, <1>36 DEF Next, ClientStarts, ClientStep, TaskStep, RecoverStep

\* A step keeps what is in flight sound: one step per action, and under it one
\* per part of WellFormed that the action can disturb.
LEMMA WellFormedStep == TypeOK /\ WellFormed /\ [Next]_vars => WellFormed'
<1> SUFFICES ASSUME TypeOK, WellFormed, [Next]_vars PROVE WellFormed'
  OBVIOUS
<1>a. RowsSound /\ CallsSound /\ TasksSound /\ QueuesSound /\ RefsSound
  BY DEF WellFormed
<1>1. ASSUME NEW c \in Clients, NEW z \in Ids, NEW n \in Names, NEW t \in Ttls, CreateZone(c, z, n, t) PROVE WellFormed'
  <2>1. RowsSound'
    BY <1>a, <1>1 DEF CreateZone, RowsSound, Live, TypeOK, ZoneRow, SoftDelete, SetActive, SetPending, CallsSound, NoZone
  <2>2. CallsSound'
    BY <1>a, <1>1 DEF CreateZone, CallsSound, TypeOK, Call, Idle
  <2>3. TasksSound'
    BY <1>a, <1>1 DEF CreateZone, TasksSound, TypeOK, Task, Running, NoTask, Dispatch, SetPending, TtlChanged, RowsSound, CallsSound, ZoneRow, NoZone, Procs
  <2>4. RefsSound'
    BY <1>a, <1>1 DEF CreateZone, RefsSound, RefPcs, TypeOK, Task, NoTask, Dispatch, Procs
  <2> QED
    BY <1>a, <1>1, <2>1, <2>2, <2>3, <2>4 DEF CreateZone, WellFormed, QueuesSound
<1>2. ASSUME NEW c \in Clients, NEW z \in Ids, NEW t \in Ttls, ReadZone(c, z, t) PROVE WellFormed'
  <2>1. CallsSound'
    BY <1>a, <1>2 DEF ReadZone, CallsSound, TypeOK, Call, Idle
  <2> QED
    BY <1>a, <1>2, <2>1 DEF ReadZone, WellFormed, RowsSound, TasksSound, RefsSound, QueuesSound, Live
<1>3. ASSUME NEW c \in Clients, NEW z \in Ids, NEW op \in {"delete", "touch"}, EnterZone(c, z, op) PROVE WellFormed'
  <2>1. CallsSound'
    BY <1>a, <1>3 DEF EnterZone, CallsSound, TypeOK, Call, Idle
  <2> QED
    BY <1>a, <1>3, <2>1 DEF EnterZone, WellFormed, RowsSound, TasksSound, RefsSound, QueuesSound, Live
<1>4. ASSUME NEW c \in Clients, NEW z \in Ids, AbandonZone(c, z) PROVE WellFormed'
  <2>1. RowsSound'
    BY <1>a, <1>4 DEF AbandonZone, RowsSound, Live, TypeOK, ZoneRow, SoftDelete, SetActive, SetPending, CallsSound, NoZone
  <2> QED
    BY <1>a, <1>4, <2>1 DEF AbandonZone, WellFormed, CallsSound, TasksSound, RefsSound, QueuesSound
<1>5. ASSUME NEW c \in Clients, EnterUpdate(c) PROVE WellFormed'
  <2>1. CallsSound'
    BY <1>a, <1>5 DEF EnterUpdate, CallsSound, TypeOK, Call, Idle, RowsSound
  <2> QED
    BY <1>a, <1>5, <2>1 DEF EnterUpdate, WellFormed, RowsSound, TasksSound, RefsSound, QueuesSound, Live
<1>6. ASSUME NEW c \in Clients, WriteUpdate(c) PROVE WellFormed'
  <2> DEFINE k == call[c]
             row == [SetPending(k.id, k.seen, "UPDATE") EXCEPT
                       !.ttl = IF TtlChanged(k) THEN k.new ELSE @]
  <2>1. k.id \in Ids /\ zones[k.id] \in ZoneRow
    BY <1>a, <1>6 DEF WriteUpdate, CallsSound, TypeOK
  <2>2. Live(k.id) => row.ttl \in Ttls
    <3>1. k.new \in Ttls
      BY <1>a, <1>6 DEF WriteUpdate, CallsSound
    <3>2. row.ttl = IF TtlChanged(k) THEN k.new ELSE zones[k.id].ttl
      BY <2>1, WrittenTtl DEF Actions
    <3> HIDE DEF row
    <3> QED
      BY <1>a, <2>1, <3>1, <3>2 DEF RowsSound
  <2> HIDE DEF row
  <2>3. \/ UNCHANGED <<zones, task>>
        \/ /\ Live(k.id)
           /\ zones' = [zones EXCEPT ![k.id] = row]
           /\ task' = [task EXCEPT ![c] = Dispatch(k.id, row)]
    BY <1>6 DEF WriteUpdate, row
  <2>4. RowsSound'
    BY <1>a, <2>1, <2>2, <2>3 DEF RowsSound, Live, TypeOK
  <2>5. TasksSound'
    BY <1>a, <2>1, <2>2, <2>3, DispatchFields DEF TasksSound, TypeOK
  <2>6. RefsSound'
    BY <1>a, <2>3, DispatchFields DEF RefsSound, RefPcs, TypeOK
  <2>7. CallsSound'
    BY <1>a, <1>6 DEF WriteUpdate, CallsSound, TypeOK, Call, Idle
  <2> QED
    BY <1>a, <1>6, <2>4, <2>5, <2>6, <2>7 DEF WriteUpdate, WellFormed, QueuesSound
<1>7. ASSUME NEW c \in Clients, WriteDelete(c) PROVE WellFormed'
  <2> DEFINE k == call[c]
             row == SetPending(k.id, k.seen, "DELETE")
  <2>1. k.id \in Ids /\ zones[k.id] \in ZoneRow
    BY <1>a, <1>7 DEF WriteDelete, CallsSound, TypeOK
  <2>2. Live(k.id) => row.ttl \in Ttls
    BY <1>a, <2>1, WrittenTtl DEF RowsSound, Actions
  <2> HIDE DEF row
  <2>3. \/ UNCHANGED <<zones, task>>
        \/ /\ Live(k.id)
           /\ zones' = [zones EXCEPT ![k.id] = row]
           /\ task' = [task EXCEPT ![c] = Dispatch(k.id, row)]
    BY <1>7 DEF WriteDelete, row
  <2>4. RowsSound'
    BY <1>a, <2>1, <2>2, <2>3 DEF RowsSound, Live, TypeOK
  <2>5. TasksSound'
    BY <1>a, <2>1, <2>2, <2>3, DispatchFields DEF TasksSound, TypeOK
  <2>6. RefsSound'
    BY <1>a, <2>3, DispatchFields DEF RefsSound, RefPcs, TypeOK
  <2>7. CallsSound'
    BY <1>a, <1>7 DEF WriteDelete, CallsSound, TypeOK, Call, Idle
  <2> QED
    BY <1>a, <1>7, <2>4, <2>5, <2>6, <2>7 DEF WriteDelete, WellFormed, QueuesSound
<1>8. ASSUME NEW c \in Clients, WriteTouch(c) PROVE WellFormed'
  <2> DEFINE k == call[c]
             row == [zones[k.id] EXCEPT !.aged = FALSE]
  <2>1. k.id \in Ids /\ zones[k.id] \in ZoneRow
    BY <1>a, <1>8 DEF WriteTouch, CallsSound, TypeOK
  <2>2. Live(k.id) => row.ttl \in Ttls
    BY <1>a, <2>1 DEF RowsSound, ZoneRow
  <2> HIDE DEF row
  <2>3. \/ UNCHANGED <<zones, task>>
        \/ /\ Live(k.id)
           /\ zones' = [zones EXCEPT ![k.id] = row]
           /\ task' = [task EXCEPT ![c] = Dispatch(k.id, row)]
    BY <1>8 DEF WriteTouch, row
  <2>4. RowsSound'
    BY <1>a, <2>1, <2>2, <2>3 DEF RowsSound, Live, TypeOK
  <2>5. TasksSound'
    BY <1>a, <2>1, <2>2, <2>3, DispatchFields DEF TasksSound, TypeOK
  <2>6. RefsSound'
    BY <1>a, <2>3, DispatchFields DEF RefsSound, RefPcs, TypeOK
  <2>7. CallsSound'
    BY <1>a, <1>8 DEF WriteTouch, CallsSound, TypeOK, Call, Idle
  <2> QED
    BY <1>a, <1>8, <2>4, <2>5, <2>6, <2>7 DEF WriteTouch, WellFormed, QueuesSound
<1>9. ASSUME NEW c \in Clients, CallReturns(c) PROVE WellFormed'
  <2>1. TasksSound'
    BY <1>a, <1>9 DEF CallReturns, TasksSound, TypeOK, Task, Running, NoTask, Procs
  <2>2. RefsSound'
    BY <1>a, <1>9 DEF CallReturns, RefsSound, RefPcs, TypeOK, Task, NoTask, Procs
  <2>3. CallsSound'
    BY <1>a, <1>9 DEF CallReturns, CallsSound, TypeOK, Call, Idle
  <2> QED
    BY <1>a, <1>9, <2>1, <2>2, <2>3 DEF CallReturns, WellFormed, RowsSound, QueuesSound, Live
<1>10. ASSUME NEW c \in Clients, CallRaises(c) PROVE WellFormed'
  <2>1. TasksSound'
    BY <1>a, <1>10 DEF CallRaises, TasksSound, TypeOK, Task, Running, NoTask, Procs
  <2>2. RefsSound'
    BY <1>a, <1>10 DEF CallRaises, RefsSound, RefPcs, TypeOK, Task, NoTask, Procs
  <2>3. CallsSound'
    BY <1>a, <1>10 DEF CallRaises, CallsSound, TypeOK, Call, Idle, AfterException
  <2> QED
    BY <1>a, <1>10, <2>1, <2>2, <2>3 DEF CallRaises, WellFormed, RowsSound, QueuesSound, Live
<1>11. ASSUME NEW c \in Clients, CallTimesOut(c) PROVE WellFormed'
  <2>1. CallsSound'
    BY <1>a, <1>11 DEF CallTimesOut, CallsSound, TypeOK, Call, Idle, AfterException
  <2> QED
    BY <1>a, <1>11, <2>1 DEF CallTimesOut, WellFormed, RowsSound, TasksSound, RefsSound, QueuesSound, Live
<1>12. ASSUME NEW c \in Clients, DropReply(c) PROVE WellFormed'
  <2>1. TasksSound'
    BY <1>a, <1>12 DEF DropReply, TasksSound, TypeOK, Task, Running, NoTask, Procs
  <2>2. RefsSound'
    BY <1>a, <1>12 DEF DropReply, RefsSound, RefPcs, TypeOK, Task, NoTask, Procs
  <2> QED
    BY <1>a, <1>12, <2>1, <2>2 DEF DropReply, WellFormed, RowsSound, CallsSound, QueuesSound, Live
<1>13. ASSUME NEW c \in Clients, CreateDefaultRecord(c) PROVE WellFormed'
  <2>1. CallsSound'
    BY <1>a, <1>13 DEF CreateDefaultRecord, CallsSound, TypeOK, Call, Idle
  <2> QED
    BY <1>a, <1>13, <2>1 DEF CreateDefaultRecord, WellFormed, RowsSound, TasksSound, RefsSound, QueuesSound, Live
<1>14. ASSUME NEW c \in Clients, RestoreOrigin(c) PROVE WellFormed'
  <2>1. call[c].id \in Ids /\ call[c].old \in Ttls
    BY <1>a, <1>14 DEF RestoreOrigin, CallsSound
  <2>2. RowsSound'
    BY <1>a, <1>14, <2>1 DEF RestoreOrigin, RowsSound, Live, TypeOK, ZoneRow
  <2>3. CallsSound'
    BY <1>a, <1>14 DEF RestoreOrigin, CallsSound, TypeOK, Call, Idle
  <2> QED
    BY <1>a, <1>14, <2>2, <2>3 DEF RestoreOrigin, WellFormed, TasksSound, RefsSound, QueuesSound
<1>15. ASSUME NEW p \in Procs, GetView(p) PROVE WellFormed'
  <2>1. TasksSound'
    BY <1>a, <1>15 DEF GetView, TasksSound, TypeOK, Task, Running, NoTask
  <2>2. RefsSound'
    BY <1>a, <1>15 DEF GetView, RefsSound, RefPcs, TypeOK, Task, NoTask
  <2> QED
    BY <1>a, <1>15, <2>1, <2>2 DEF GetView, WellFormed, RowsSound, CallsSound, QueuesSound, Live
<1>16. ASSUME NEW p \in Procs, SkipDevice(p) PROVE WellFormed'
  <2>1. TasksSound'
    BY <1>a, <1>16 DEF SkipDevice, TasksSound, TypeOK, Task, Running, NoTask
  <2>2. RefsSound'
    BY <1>a, <1>16 DEF SkipDevice, RefsSound, RefPcs, TypeOK, Task, NoTask
  <2> QED
    BY <1>a, <1>16, <2>1, <2>2 DEF SkipDevice, WellFormed, RowsSound, CallsSound, QueuesSound, Live
<1>17. ASSUME NEW p \in Procs, DeviceOk(p) PROVE WellFormed'
  <2>1. TasksSound'
    BY <1>a, <1>17 DEF DeviceOk, TasksSound, TypeOK, Task, Running, NoTask, NextPc
  <2>2. RefsSound'
    BY <1>a, <1>17 DEF DeviceOk, RefsSound, RefPcs, TypeOK, Task, NoTask, NextPc
  <2> QED
    BY <1>a, <1>17, <2>1, <2>2 DEF DeviceOk, WellFormed, RowsSound, CallsSound, QueuesSound, Live
<1>18. ASSUME NEW p \in Procs, DeviceRefuses(p) PROVE WellFormed'
  <2>1. TasksSound'
    BY <1>a, <1>18 DEF DeviceRefuses, TasksSound, TypeOK, Task, Running, NoTask
  <2>2. RefsSound'
    BY <1>a, <1>18 DEF DeviceRefuses, RefsSound, RefPcs, TypeOK, Task, NoTask
  <2> QED
    BY <1>a, <1>18, <2>1, <2>2 DEF DeviceRefuses, WellFormed, RowsSound, CallsSound, QueuesSound, Live
<1>19. ASSUME NEW p \in Procs, DeviceAnswerLost(p) PROVE WellFormed'
  <2>1. TasksSound'
    BY <1>a, <1>19 DEF DeviceAnswerLost, TasksSound, TypeOK, Task, Running, NoTask
  <2>2. RefsSound'
    BY <1>a, <1>19 DEF DeviceAnswerLost, RefsSound, RefPcs, TypeOK, Task, NoTask
  <2> QED
    BY <1>a, <1>19, <2>1, <2>2 DEF DeviceAnswerLost, WellFormed, RowsSound, CallsSound, QueuesSound, Live
<1>20. ASSUME NEW p \in Procs, CreateZdnsRow(p) PROVE WellFormed'
  <2>1. TasksSound'
    BY <1>a, <1>20 DEF CreateZdnsRow, TasksSound, TypeOK, Task, Running, NoTask
  <2>2. RefsSound'
    BY <1>a, <1>20 DEF CreateZdnsRow, RefsSound, RefPcs, TypeOK, Task, NoTask
  <2> QED
    BY <1>a, <1>20, <2>1, <2>2 DEF CreateZdnsRow, WellFormed, RowsSound, CallsSound, QueuesSound, Live
<1>21. ASSUME NEW p \in Procs, CreateZoneAsso(p) PROVE WellFormed'
  <2>1. TasksSound'
    BY <1>a, <1>21 DEF CreateZoneAsso, TasksSound, TypeOK, Task, Running, NoTask
  <2>2. RefsSound'
    BY <1>a, <1>21 DEF CreateZoneAsso, RefsSound, RefPcs, TypeOK, Task, NoTask
  <2> QED
    BY <1>a, <1>21, <2>1, <2>2 DEF CreateZoneAsso, WellFormed, RowsSound, CallsSound, QueuesSound, Live
<1>22. ASSUME NEW p \in Procs, UpdateZdnsZone(p) PROVE WellFormed'
  <2>1. TasksSound'
    BY <1>a, <1>22 DEF UpdateZdnsZone, TasksSound, TypeOK, Task, Running, NoTask
  <2>2. RefsSound'
    BY <1>a, <1>22 DEF UpdateZdnsZone, RefsSound, RefPcs, TypeOK, Task, NoTask
  <2> QED
    BY <1>a, <1>22, <2>1, <2>2 DEF UpdateZdnsZone, WellFormed, RowsSound, CallsSound, QueuesSound, Live
<1>23. ASSUME NEW p \in Procs, GetZoneAsso(p) PROVE WellFormed'
  <2>1. \/ \E r \in Rows : task' = [task EXCEPT ![p].pc = "delasso", ![p].row = r]
        \/ task' = [task EXCEPT ![p].pc = "error"]
    BY <1>23 DEF GetZoneAsso, AssoRows
  <2>2. TasksSound'
    BY <1>a, <1>23, <2>1 DEF GetZoneAsso, TasksSound, TypeOK, Task, Running
  <2>3. RefsSound'
    BY <1>a, <1>23, <2>1 DEF GetZoneAsso, RefsSound, RefPcs, TypeOK, Task
  <2> QED
    BY <1>a, <1>23, <2>2, <2>3 DEF GetZoneAsso, WellFormed, RowsSound, Live, CallsSound, QueuesSound
<1>24. ASSUME NEW p \in Procs, DeleteZoneAsso(p) PROVE WellFormed'
  <2>1. TasksSound'
    BY <1>a, <1>24 DEF DeleteZoneAsso, TasksSound, TypeOK, Task, Running, NoTask
  <2>2. RefsSound'
    BY <1>a, <1>24 DEF DeleteZoneAsso, RefsSound, RefPcs, TypeOK, Task, NoTask
  <2> QED
    BY <1>a, <1>24, <2>1, <2>2 DEF DeleteZoneAsso, WellFormed, RowsSound, CallsSound, QueuesSound, Live
<1>25. ASSUME NEW p \in Procs, DeleteZdnsRow(p) PROVE WellFormed'
  <2>1. TasksSound'
    BY <1>a, <1>25 DEF DeleteZdnsRow, TasksSound, TypeOK, Task, Running, NoTask
  <2>2. RefsSound'
    BY <1>a, <1>25 DEF DeleteZdnsRow, RefsSound, RefPcs, TypeOK, Task, NoTask
  <2> QED
    BY <1>a, <1>25, <2>1, <2>2 DEF DeleteZdnsRow, WellFormed, RowsSound, CallsSound, QueuesSound, Live
<1>26. ASSUME NEW p \in Procs, StatusSuccess(p) PROVE WellFormed'
  <2>1. RowsSound'
    BY <1>a, <1>26 DEF StatusSuccess, RowsSound, Live, TypeOK, ZoneRow, SoftDelete, SetActive, SetPending, CallsSound, NoZone
  <2>2. TasksSound'
    BY <1>a, <1>26 DEF StatusSuccess, TasksSound, TypeOK, Task, Running, NoTask
  <2>3. RefsSound'
    BY <1>a, <1>26 DEF StatusSuccess, RefsSound, RefPcs, TypeOK, Task, NoTask
  <2> QED
    BY <1>a, <1>26, <2>1, <2>2, <2>3 DEF StatusSuccess, WellFormed, CallsSound, QueuesSound
<1>27. ASSUME NEW p \in Procs, StatusError(p) PROVE WellFormed'
  <2>1. RowsSound'
    BY <1>a, <1>27 DEF StatusError, RowsSound, Live, TypeOK, ZoneRow, SoftDelete, SetActive, SetPending, CallsSound, NoZone
  <2>2. TasksSound'
    BY <1>a, <1>27 DEF StatusError, TasksSound, TypeOK, Task, Running, NoTask
  <2>3. RefsSound'
    BY <1>a, <1>27 DEF StatusError, RefsSound, RefPcs, TypeOK, Task, NoTask
  <2> QED
    BY <1>a, <1>27, <2>1, <2>2, <2>3 DEF StatusError, WellFormed, CallsSound, QueuesSound
<1>28. ASSUME NEW p \in Procs, CallbackFails(p) PROVE WellFormed'
  <2>1. TasksSound'
    BY <1>a, <1>28 DEF CallbackFails, TasksSound, TypeOK, Task, Running, NoTask
  <2>2. RefsSound'
    BY <1>a, <1>28 DEF CallbackFails, RefsSound, RefPcs, TypeOK, Task, NoTask
  <2> QED
    BY <1>a, <1>28, <2>1, <2>2 DEF CallbackFails, WellFormed, RowsSound, CallsSound, QueuesSound, Live
<1>29. ASSUME NEW q \in Recoverers, RecoverList(q) PROVE WellFormed'
  <2>1. QueuesSound'
    BY <1>a, <1>29 DEF RecoverList, QueuesSound, TypeOK, Recovered, Stale, Dispatch, RowsSound, Live
  <2> QED
    BY <1>a, <1>29, <2>1 DEF RecoverList, WellFormed, RowsSound, CallsSound, TasksSound, RefsSound, Live
<1>30. ASSUME NEW q \in Recoverers, RecoverDispatch(q) PROVE WellFormed'
  <2>1. TasksSound'
    BY <1>a, <1>30 DEF RecoverDispatch, TasksSound, TypeOK, Task, Running, NoTask, QueuesSound, Procs
  <2>2. RefsSound'
    BY <1>a, <1>30 DEF RecoverDispatch, RefsSound, RefPcs, TypeOK, Task, NoTask, QueuesSound, Procs
  <2>3. QueuesSound'
    BY <1>a, <1>30 DEF RecoverDispatch, QueuesSound, TypeOK
  <2> QED
    BY <1>a, <1>30, <2>1, <2>2, <2>3 DEF RecoverDispatch, WellFormed, RowsSound, CallsSound, Live
<1>31. ASSUME NEW q \in Recoverers, RecoverReply(q) PROVE WellFormed'
  <2>1. TasksSound'
    BY <1>a, <1>31 DEF RecoverReply, TasksSound, TypeOK, Task, Running, NoTask, Procs
  <2>2. RefsSound'
    BY <1>a, <1>31 DEF RecoverReply, RefsSound, RefPcs, TypeOK, Task, NoTask, Procs
  <2>3. QueuesSound'
    BY <1>a, <1>31 DEF RecoverReply, QueuesSound, TypeOK
  <2> QED
    BY <1>a, <1>31, <2>1, <2>2, <2>3 DEF RecoverReply, WellFormed, RowsSound, CallsSound, Live
<1>32. ASSUME NEW z \in Ids, Age(z) PROVE WellFormed'
  <2>1. RowsSound'
    BY <1>a, <1>32 DEF Age, RowsSound, Live, TypeOK, ZoneRow, SoftDelete, SetActive, SetPending, CallsSound, NoZone
  <2> QED
    BY <1>a, <1>32, <2>1 DEF Age, WellFormed, CallsSound, TasksSound, RefsSound, QueuesSound
<1>33. ASSUME NEW z \in Ids, PurgeZone(z) PROVE WellFormed'
  <2>1. RowsSound'
    BY <1>a, <1>33 DEF PurgeZone, RowsSound, Live, TypeOK, ZoneRow, SoftDelete, SetActive, SetPending, CallsSound, NoZone
  <2> QED
    BY <1>a, <1>33, <2>1 DEF PurgeZone, WellFormed, CallsSound, TasksSound, RefsSound, QueuesSound
<1>34. ASSUME NEW k, CentralCrash(k) PROVE WellFormed'
  <2>1. CallsSound'
    BY <1>a, <1>34 DEF CentralCrash, CallsSound, TypeOK, Call, Idle
  <2> QED
    BY <1>a, <1>34, <2>1 DEF CentralCrash, WellFormed, RowsSound, TasksSound, RefsSound, QueuesSound, Live
<1>35. ASSUME WorkerCrash PROVE WellFormed'
  <2>1. TasksSound'
    BY <1>a, <1>35 DEF WorkerCrash, TasksSound, TypeOK, Task, Running, NoTask
  <2>2. RefsSound'
    BY <1>a, <1>35 DEF WorkerCrash, RefsSound, RefPcs, TypeOK, Task, NoTask
  <2>3. QueuesSound'
    BY <1>a, <1>35 DEF WorkerCrash, QueuesSound, TypeOK
  <2> QED
    BY <1>a, <1>35, <2>1, <2>2, <2>3 DEF WorkerCrash, WellFormed, RowsSound, CallsSound, Live
<1>36. CASE UNCHANGED vars
  BY <1>36 DEF vars, WellFormed, RowsSound, Live, CallsSound, TasksSound, QueuesSound, RefsSound
<1> QED
  BY <1>1, <1>2, <1>3, <1>4, <1>5, <1>6, <1>7, <1>8, <1>9, <1>10, <1>11, <1>12, <1>13, <1>14, <1>15, <1>16, <1>17, <1>18, <1>19, <1>20, <1>21, <1>22, <1>23, <1>24, <1>25, <1>26, <1>27, <1>28, <1>29, <1>30, <1>31, <1>32, <1>33, <1>34, <1>35, <1>36 DEF Next, ClientStarts, ClientStep, TaskStep, RecoverStep

----------------------------------------------------------------------------
\* Only six actions touch a zdns row, an association or a reference to a row.
\* The others leave the associations and the rows alone, and a task they move
\* is neither at a step that refers to a row nor brought to one.
LEMMA MirrorFrame ==
    ASSUME TypeOK, WellFormed, MirrorSafe,
           zdns' = zdns, asso' = asso,
           \A p \in Procs : \/ task'[p] = task[p]
                            \/ task'[p].row = None /\ task'[p].pc \notin RefPcs
    PROVE  MirrorSafe'
<1>1. None \notin Rows
  BY ConstantsAssumption
<1>2. \A p \in Procs : task[p].pc \in RefPcs => task[p].row \in Rows
  BY DEF WellFormed, RefsSound
<1>3. AssoHasRow' /\ OneAsso'
  BY DEF MirrorSafe, AssoHasRow, OneAsso
<1>4. NewRowsOwned'
  BY <1>1, <1>2 DEF MirrorSafe, NewRowsOwned, RefPcs
<1>5. UnlinksOwn' /\ DeletesUnlinked'
  BY DEF MirrorSafe, UnlinksOwn, DeletesUnlinked, RefPcs
<1> QED
  BY <1>3, <1>4, <1>5 DEF MirrorSafe

\* No step of central or of a worker task breaks MirrorSafe: one step of the
\* proof per action that touches the mirror tables or the task's row reference
LEMMA MirrorStep == TypeOK /\ WellFormed /\ MirrorSafe /\ [Next]_vars
                       => MirrorSafe'
<1> SUFFICES ASSUME TypeOK, WellFormed, MirrorSafe, [Next]_vars
             PROVE  MirrorSafe'
  OBVIOUS
<1>a. ConstantsAssumption /\ None \notin Ttls /\ None \notin Rows
  BY ConstantsAssumption
<1>b. RefsSound /\ TasksSound /\ QueuesSound
  BY DEF WellFormed
<1>1. ASSUME NEW p \in Procs, CreateZdnsRow(p) PROVE MirrorSafe'
  <2>1. PICK r \in Rows : /\ zdns[r] = None
                          /\ \A q \in Procs : task[q].row # r
                          /\ zdns' = [zdns EXCEPT ![r] = task[p].ttl]
                          /\ task' = [task EXCEPT ![p].pc = "asso", ![p].row = r]
    BY <1>1 DEF CreateZdnsRow
  <2>2. task[p].ttl # None
    BY <1>a, <1>b, <1>1 DEF CreateZdnsRow, TasksSound, Running
  <2>3. \A a \in asso : a[2] # r
    BY <2>1 DEF MirrorSafe, AssoHasRow, OneAsso, NewRowsOwned, UnlinksOwn, DeletesUnlinked
  <2>4. asso' = asso
    BY <1>1 DEF CreateZdnsRow
  <2>5. \A q \in Procs : IF q = p THEN task'[q].pc = "asso" /\ task'[q].row = r
                                  ELSE task'[q] = task[q]
    BY <2>1 DEF TypeOK, Task
  <2>6. \A x \in Rows : zdns'[x] = IF x = r THEN task[p].ttl ELSE zdns[x]
    BY <2>1 DEF TypeOK
  <2>7. \A a \in asso : a[2] \in Rows
    BY DEF TypeOK
  <2>8. \A q \in Procs : task[q].pc = "asso" => task[q].row \in Rows
    BY <1>b DEF RefsSound, RefPcs
  <2>9. \A q \in Procs : task[q].row # r
    BY <2>1
  <2>a. AssoHasRow'
    BY <2>3, <2>4, <2>6, <2>7 DEF MirrorSafe, AssoHasRow, OneAsso, NewRowsOwned, UnlinksOwn, DeletesUnlinked
  <2>b. OneAsso'
    BY <2>4 DEF MirrorSafe, OneAsso
  <2>c. NewRowsOwned'
    BY <2>2, <2>3, <2>4, <2>5, <2>6, <2>8, <2>9 DEF MirrorSafe, NewRowsOwned
  <2>d. UnlinksOwn'
    BY <2>4, <2>5 DEF MirrorSafe, UnlinksOwn
  <2>e. DeletesUnlinked'
    BY <2>4, <2>5 DEF MirrorSafe, DeletesUnlinked
  <2> QED
    BY <2>a, <2>b, <2>c, <2>d, <2>e DEF MirrorSafe
<1>2. ASSUME NEW p \in Procs, CreateZoneAsso(p) PROVE MirrorSafe'
  <2>1. /\ task[p].pc = "asso"
        /\ task[p].row \in Rows /\ task[p].id \in Ids
        /\ asso' = asso \cup {<<task[p].id, task[p].row>>}
        /\ zdns' = zdns
    BY <1>b, <1>2 DEF CreateZoneAsso, RefsSound, RefPcs, TasksSound, Running
  <2>2. \A q \in Procs : IF q = p THEN task'[q].pc = "ok" /\ task'[q].row = None
                                  ELSE task'[q] = task[q]
    BY <1>2 DEF CreateZoneAsso, TypeOK, Task
  <2>3. \A q \in Procs : q # p => task[q].row # task[p].row
    BY <2>1 DEF MirrorSafe, AssoHasRow, OneAsso, NewRowsOwned, UnlinksOwn, DeletesUnlinked
  <2>4. \A a \in asso' : a \in asso \/ (a[1] = task[p].id /\ a[2] = task[p].row
                                        /\ a = <<task[p].id, task[p].row>>)
    BY <2>1
  <2>a. AssoHasRow'
    BY <2>1, <2>2, <2>3, <2>4 DEF MirrorSafe, AssoHasRow, NewRowsOwned
  <2>b. OneAsso'
    BY <2>1, <2>2, <2>3, <2>4 DEF MirrorSafe, OneAsso, NewRowsOwned
  <2>5. \A q \in Procs : task[q].pc = "asso" => task[q].row # None
    BY <1>a, <1>b DEF RefsSound, RefPcs
  <2>c. NewRowsOwned'
    BY <2>1, <2>2, <2>3, <2>4, <2>5 DEF MirrorSafe, NewRowsOwned
  <2>d. UnlinksOwn'
    BY <2>1, <2>2, <2>3, <2>4 DEF MirrorSafe, UnlinksOwn
  <2>e. DeletesUnlinked'
    BY <2>1, <2>2, <2>3, <2>4 DEF MirrorSafe, DeletesUnlinked
  <2> QED
    BY <2>a, <2>b, <2>c, <2>d, <2>e DEF MirrorSafe
<1>3. ASSUME NEW p \in Procs, UpdateZdnsZone(p) PROVE MirrorSafe'
  <2>1. task[p].ttl # None
    BY <1>a, <1>b, <1>3 DEF UpdateZdnsZone, TasksSound, Running
  <2>2. \A x \in Rows : zdns[x] # None => zdns'[x] # None
    BY <1>3, <2>1 DEF UpdateZdnsZone, TypeOK
  <2>3. asso' = asso
    BY <1>3 DEF UpdateZdnsZone
  <2>4. \A q \in Procs : IF q = p THEN task'[q].pc \in {"ok", "error"}
                                       /\ task'[q].row = task[q].row
                                  ELSE task'[q] = task[q]
    BY <1>3 DEF UpdateZdnsZone, TypeOK, Task
  <2>5. task[p].row = None
    BY <1>b, <1>3 DEF UpdateZdnsZone, RefsSound, RefPcs
  <2>6. \A a \in asso : a[2] \in Rows
    BY DEF TypeOK
  <2>7. \A q \in Procs : task[q].pc = "asso" => task[q].row \in Rows
    BY <1>b DEF RefsSound, RefPcs
  <2> QED
    BY <1>a, <2>2, <2>3, <2>4, <2>5, <2>6, <2>7 DEF MirrorSafe, AssoHasRow, OneAsso, NewRowsOwned, UnlinksOwn, DeletesUnlinked
<1>4. ASSUME NEW p \in Procs, GetZoneAsso(p) PROVE MirrorSafe'
  <2>1. zdns' = zdns /\ asso' = asso
    BY <1>4 DEF GetZoneAsso
  <2>2. CASE \E r \in AssoRows(task[p].id) :
                task' = [task EXCEPT ![p].pc = "delasso", ![p].row = r]
    <3>1. PICK r \in AssoRows(task[p].id) :
                task' = [task EXCEPT ![p].pc = "delasso", ![p].row = r]
      BY <2>2
    <3>2. r \in Rows /\ <<task[p].id, r>> \in asso
      BY <3>1 DEF AssoRows
    <3>3. \A q \in Procs : IF q = p THEN task'[q].pc = "delasso"
                                         /\ task'[q].row = r
                                         /\ task'[q].id = task[q].id
                                    ELSE task'[q] = task[q]
      BY <3>1 DEF TypeOK, Task
    <3>4. \A a \in asso : a[2] = r => a = <<task[p].id, r>>
      BY <3>2 DEF MirrorSafe, AssoHasRow, OneAsso, NewRowsOwned, UnlinksOwn, DeletesUnlinked
    <3>5. \A q \in Procs : task[q].pc = "asso" => task[q].row # r
      BY <3>2 DEF MirrorSafe, AssoHasRow, OneAsso, NewRowsOwned, UnlinksOwn, DeletesUnlinked
    <3> QED
      BY <2>1, <3>2, <3>3, <3>4, <3>5 DEF MirrorSafe, AssoHasRow, OneAsso, NewRowsOwned, UnlinksOwn, DeletesUnlinked
  <2>3. CASE task' = [task EXCEPT ![p].pc = "error"]
    <3>1. \A q \in Procs : \/ task'[q] = task[q]
                           \/ task'[q].row = None /\ task'[q].pc \notin RefPcs
      BY <1>b, <1>4, <2>3 DEF GetZoneAsso, RefsSound, RefPcs, TypeOK, Task
    <3> QED
      BY <2>1, <3>1, MirrorFrame
  <2> QED
    BY <1>4, <2>2, <2>3 DEF GetZoneAsso
<1>5. ASSUME NEW p \in Procs, DeleteZoneAsso(p) PROVE MirrorSafe'
  <2>1. /\ zdns' = zdns
        /\ asso' = {a \in asso : a[1] # task[p].id}
        /\ task[p].pc = "delasso"
    BY <1>5 DEF DeleteZoneAsso
  <2>2. \A q \in Procs : IF q = p THEN task'[q].pc = "delrow"
                                       /\ task'[q].row = task[q].row
                                  ELSE task'[q] = task[q]
    BY <1>5 DEF DeleteZoneAsso, TypeOK, Task
  <2>3. \A a \in asso : a[2] = task[p].row => a[1] = task[p].id
    BY <2>1 DEF MirrorSafe, AssoHasRow, OneAsso, NewRowsOwned, UnlinksOwn, DeletesUnlinked
  <2>4. \A q \in Procs : task[q].pc = "asso" /\ task[q].row = task[p].row => q = p
    BY DEF MirrorSafe, NewRowsOwned
  <2> QED
    BY <2>1, <2>2, <2>3, <2>4 DEF MirrorSafe, AssoHasRow, OneAsso, NewRowsOwned, UnlinksOwn, DeletesUnlinked
<1>6. ASSUME NEW p \in Procs, DeleteZdnsRow(p) PROVE MirrorSafe'
  <2>1. /\ asso' = asso
        /\ zdns' = [zdns EXCEPT ![task[p].row] = None]
        /\ task[p].pc = "delrow"
    BY <1>6 DEF DeleteZdnsRow
  <2>2. \A q \in Procs : IF q = p THEN task'[q].pc = "ok" /\ task'[q].row = None
                                  ELSE task'[q] = task[q]
    BY <1>6 DEF DeleteZdnsRow, TypeOK, Task
  <2>3. \A a \in asso : a[2] # task[p].row
    BY <2>1 DEF MirrorSafe, AssoHasRow, OneAsso, NewRowsOwned, UnlinksOwn, DeletesUnlinked
  <2>4. \A q \in Procs : task[q].pc = "asso" => task[q].row # task[p].row
    BY <2>1 DEF MirrorSafe, AssoHasRow, OneAsso, NewRowsOwned, UnlinksOwn, DeletesUnlinked
  <2>5. \A x \in Rows : x # task[p].row => zdns'[x] = zdns[x]
    BY <2>1 DEF TypeOK
  <2>6. \A a \in asso : a[2] \in Rows
    BY DEF TypeOK
  <2>7. \A q \in Procs : task[q].pc = "asso" => task[q].row \in Rows
    BY <1>b DEF RefsSound, RefPcs
  <2> QED
    BY <1>a, <2>1, <2>2, <2>3, <2>4, <2>5, <2>6, <2>7 DEF MirrorSafe, AssoHasRow, OneAsso, NewRowsOwned, UnlinksOwn, DeletesUnlinked
<1>7. ASSUME NEW c \in Clients, NEW z \in Ids, NEW n \in Names, NEW t \in Ttls, CreateZone(c, z, n, t) PROVE MirrorSafe'
  <2>1. \A x \in Procs : \/ task'[x] = task[x]
                         \/ task'[x].row = None /\ task'[x].pc \notin RefPcs
    BY <1>b, <1>7, DispatchFields DEF CreateZone, RefsSound, RefPcs, TypeOK, Task, Procs
  <2> QED
    BY <1>7, <2>1, MirrorFrame DEF CreateZone
<1>8. ASSUME NEW c \in Clients, WriteUpdate(c) PROVE MirrorSafe'
  <2>1. \A x \in Procs : \/ task'[x] = task[x]
                         \/ task'[x].row = None /\ task'[x].pc \notin RefPcs
    BY <1>b, <1>8, DispatchFields DEF WriteUpdate, RefsSound, RefPcs, TypeOK, Task, Procs
  <2> QED
    BY <1>8, <2>1, MirrorFrame DEF WriteUpdate
<1>9. ASSUME NEW c \in Clients, WriteDelete(c) PROVE MirrorSafe'
  <2>1. \A x \in Procs : \/ task'[x] = task[x]
                         \/ task'[x].row = None /\ task'[x].pc \notin RefPcs
    BY <1>b, <1>9, DispatchFields DEF WriteDelete, RefsSound, RefPcs, TypeOK, Task, Procs
  <2> QED
    BY <1>9, <2>1, MirrorFrame DEF WriteDelete
<1>10. ASSUME NEW c \in Clients, WriteTouch(c) PROVE MirrorSafe'
  <2>1. \A x \in Procs : \/ task'[x] = task[x]
                         \/ task'[x].row = None /\ task'[x].pc \notin RefPcs
    BY <1>b, <1>10, DispatchFields DEF WriteTouch, RefsSound, RefPcs, TypeOK, Task, Procs
  <2> QED
    BY <1>10, <2>1, MirrorFrame DEF WriteTouch
<1>11. ASSUME NEW c \in Clients, CallReturns(c) PROVE MirrorSafe'
  <2>1. \A x \in Procs : \/ task'[x] = task[x]
                         \/ task'[x].row = None /\ task'[x].pc \notin RefPcs
    BY <1>b, <1>11 DEF CallReturns, RefsSound, RefPcs, TypeOK, Task, NoTask, Procs
  <2> QED
    BY <1>11, <2>1, MirrorFrame DEF CallReturns
<1>12. ASSUME NEW c \in Clients, CallRaises(c) PROVE MirrorSafe'
  <2>1. \A x \in Procs : \/ task'[x] = task[x]
                         \/ task'[x].row = None /\ task'[x].pc \notin RefPcs
    BY <1>b, <1>12 DEF CallRaises, RefsSound, RefPcs, TypeOK, Task, NoTask, Procs
  <2> QED
    BY <1>12, <2>1, MirrorFrame DEF CallRaises
<1>13. ASSUME NEW c \in Clients, DropReply(c) PROVE MirrorSafe'
  <2>1. \A x \in Procs : \/ task'[x] = task[x]
                         \/ task'[x].row = None /\ task'[x].pc \notin RefPcs
    BY <1>b, <1>13 DEF DropReply, RefsSound, RefPcs, TypeOK, Task, NoTask, Procs
  <2> QED
    BY <1>13, <2>1, MirrorFrame DEF DropReply
<1>14. ASSUME NEW p \in Procs, GetView(p) PROVE MirrorSafe'
  <2>1. \A x \in Procs : \/ task'[x] = task[x]
                         \/ task'[x].row = None /\ task'[x].pc \notin RefPcs
    BY <1>b, <1>14 DEF GetView, RefsSound, RefPcs, TypeOK, Task
  <2> QED
    BY <1>14, <2>1, MirrorFrame DEF GetView
<1>15. ASSUME NEW p \in Procs, SkipDevice(p) PROVE MirrorSafe'
  <2>1. \A x \in Procs : \/ task'[x] = task[x]
                         \/ task'[x].row = None /\ task'[x].pc \notin RefPcs
    BY <1>b, <1>15 DEF SkipDevice, RefsSound, RefPcs, TypeOK, Task
  <2> QED
    BY <1>15, <2>1, MirrorFrame DEF SkipDevice
<1>16. ASSUME NEW p \in Procs, DeviceOk(p) PROVE MirrorSafe'
  <2>1. \A x \in Procs : \/ task'[x] = task[x]
                         \/ task'[x].row = None /\ task'[x].pc \notin RefPcs
    BY <1>b, <1>16 DEF DeviceOk, RefsSound, RefPcs, TypeOK, Task, NextPc
  <2> QED
    BY <1>16, <2>1, MirrorFrame DEF DeviceOk
<1>17. ASSUME NEW p \in Procs, DeviceRefuses(p) PROVE MirrorSafe'
  <2>1. \A x \in Procs : \/ task'[x] = task[x]
                         \/ task'[x].row = None /\ task'[x].pc \notin RefPcs
    BY <1>b, <1>17 DEF DeviceRefuses, RefsSound, RefPcs, TypeOK, Task
  <2> QED
    BY <1>17, <2>1, MirrorFrame DEF DeviceRefuses
<1>18. ASSUME NEW p \in Procs, DeviceAnswerLost(p) PROVE MirrorSafe'
  <2>1. \A x \in Procs : \/ task'[x] = task[x]
                         \/ task'[x].row = None /\ task'[x].pc \notin RefPcs
    BY <1>b, <1>18 DEF DeviceAnswerLost, RefsSound, RefPcs, TypeOK, Task
  <2> QED
    BY <1>18, <2>1, MirrorFrame DEF DeviceAnswerLost
<1>19. ASSUME NEW p \in Procs, StatusSuccess(p) PROVE MirrorSafe'
  <2>1. \A x \in Procs : \/ task'[x] = task[x]
                         \/ task'[x].row = None /\ task'[x].pc \notin RefPcs
    BY <1>b, <1>19 DEF StatusSuccess, RefsSound, RefPcs, TypeOK, Task
  <2> QED
    BY <1>19, <2>1, MirrorFrame DEF StatusSuccess
<1>20. ASSUME NEW p \in Procs, StatusError(p) PROVE MirrorSafe'
  <2>1. \A x \in Procs : \/ task'[x] = task[x]
                         \/ task'[x].row = None /\ task'[x].pc \notin RefPcs
    BY <1>b, <1>20 DEF StatusError, RefsSound, RefPcs, TypeOK, Task
  <2> QED
    BY <1>20, <2>1, MirrorFrame DEF StatusError
<1>21. ASSUME NEW p \in Procs, CallbackFails(p) PROVE MirrorSafe'
  <2>1. \A x \in Procs : \/ task'[x] = task[x]
                         \/ task'[x].row = None /\ task'[x].pc \notin RefPcs
    BY <1>b, <1>21 DEF CallbackFails, RefsSound, RefPcs, TypeOK, Task
  <2> QED
    BY <1>21, <2>1, MirrorFrame DEF CallbackFails
<1>22. ASSUME NEW q \in Recoverers, RecoverDispatch(q) PROVE MirrorSafe'
  <2>1. \A x \in Procs : \/ task'[x] = task[x]
                         \/ task'[x].row = None /\ task'[x].pc \notin RefPcs
    BY <1>b, <1>22 DEF RecoverDispatch, RefsSound, RefPcs, TypeOK, Task, QueuesSound, Procs
  <2> QED
    BY <1>22, <2>1, MirrorFrame DEF RecoverDispatch
<1>23. ASSUME NEW q \in Recoverers, RecoverReply(q) PROVE MirrorSafe'
  <2>1. \A x \in Procs : \/ task'[x] = task[x]
                         \/ task'[x].row = None /\ task'[x].pc \notin RefPcs
    BY <1>b, <1>23 DEF RecoverReply, RefsSound, RefPcs, TypeOK, Task, NoTask, Procs
  <2> QED
    BY <1>23, <2>1, MirrorFrame DEF RecoverReply
<1>24. ASSUME WorkerCrash PROVE MirrorSafe'
  <2>1. \A x \in Procs : \/ task'[x] = task[x]
                         \/ task'[x].row = None /\ task'[x].pc \notin RefPcs
    BY <1>b, <1>24 DEF WorkerCrash, RefsSound, RefPcs, TypeOK, Task, NoTask
  <2> QED
    BY <1>24, <2>1, MirrorFrame DEF WorkerCrash
<1>25. ASSUME zdns' = zdns, asso' = asso, task' = task PROVE MirrorSafe'
  BY <1>25, MirrorFrame
<1> QED
  BY <1>1, <1>2, <1>3, <1>4, <1>5, <1>6, <1>7, <1>8, <1>9, <1>10, <1>11, <1>12, <1>13, <1>14, <1>15, <1>16, <1>17, <1>18, <1>19, <1>20, <1>21, <1>22, <1>23, <1>24, <1>25 DEF Next, ClientStarts, ClientStep, TaskStep, RecoverStep, vars, ReadZone, EnterZone, AbandonZone, EnterUpdate, CallTimesOut, CreateDefaultRecord, RestoreOrigin, RecoverList, Age, PurgeZone, CentralCrash

\* The initial state, with empty tables and nobody at work, satisfies every part
\* of the inductive invariant
LEMMA InitInv == Init => TypeOK /\ WellFormed /\ MirrorSafe
<1> SUFFICES ASSUME Init PROVE TypeOK /\ WellFormed /\ MirrorSafe
  OBVIOUS
<1>1. TypeOK
  BY NullTypes, ConstantsAssumption DEF Init, TypeOK
<1>2. WellFormed
  BY DEF Init, WellFormed, RowsSound, Live, NoZone, CallsSound, Idle, TasksSound,
         QueuesSound, RefsSound, RefPcs, NoTask, Running
<1>3. MirrorSafe
  BY DEF Init, MirrorSafe, AssoHasRow, OneAsso, NewRowsOwned, UnlinksOwn,
         DeletesUnlinked, NoTask
<1> QED
  BY <1>1, <1>2, <1>3

\* Every variable keeps its type in every behaviour of central, the worker and
\* RecoverShard, whatever fails.
THEOREM TypeCorrect == Spec => []TypeOK
<1>1. TypeOK /\ WellFormed /\ [Next]_vars => (TypeOK /\ WellFormed)'
  BY TypeStep, WellFormedStep
<1> QED
  BY <1>1, InitInv, PTL DEF Spec

\* In no interleaving of create_zdns_zone, update_zdns_zone, delete_zdns_zone,
\* crashes, timeouts and recoveries does an association point to a missing row.
THEOREM AssociationsHaveRows == Spec => []AssoHasRow
<1>1. TypeOK /\ WellFormed /\ MirrorSafe /\ [Next]_vars
         => (TypeOK /\ WellFormed /\ MirrorSafe)'
  BY TypeStep, WellFormedStep, MirrorStep
<1>2. MirrorSafe => AssoHasRow
  BY DEF MirrorSafe
<1> QED
  BY <1>1, <1>2, InitInv, PTL DEF Spec

\* A deleted row changes only by being purged: every write of a zone row is
\* guarded by a query that does not see deleted rows.
THEOREM DeletedZonesAreFinal == Spec => DeletedIsFinal
<1> DEFINE Final == \A z \in Ids : zones[z].status \in {"DELETED", "PURGED"} =>
                       \/ zones'[z] = zones[z]
                       \/ zones'[z] = [zones[z] EXCEPT !.status = "PURGED"]
<1>1. TypeOK /\ WellFormed /\ [Next]_vars => (TypeOK /\ WellFormed)'
  BY TypeStep, WellFormedStep
<1>2. TypeOK /\ WellFormed /\ [Next]_vars => [Final]_vars
  <2> SUFFICES ASSUME TypeOK, WellFormed, Next, NEW z \in Ids,
                      zones[z].status \in {"DELETED", "PURGED"}
               PROVE  \/ zones'[z] = zones[z]
                      \/ zones'[z] = [zones[z] EXCEPT !.status = "PURGED"]
    OBVIOUS
  <2>a. ~Live(z) /\ zones[z].status # "ABSENT"
    BY DEF Live
  <2>1. \A c \in Clients, y \in Ids, n \in Names, x \in Ttls :
           CreateZone(c, y, n, x) => zones'[z] = zones[z]
    BY <2>a DEF CreateZone, TypeOK
  <2>2. \A c \in Clients, y \in Ids : AbandonZone(c, y) => zones'[z] = zones[z]
    BY <2>a DEF AbandonZone, Addressable, SoftDelete, TypeOK
  <2>3. \A c \in Clients : WriteUpdate(c) => zones'[z] = zones[z]
    BY <2>a DEF WriteUpdate, TypeOK
  <2>4. \A c \in Clients : WriteDelete(c) => zones'[z] = zones[z]
    BY <2>a DEF WriteDelete, TypeOK
  <2>5. \A c \in Clients : WriteTouch(c) => zones'[z] = zones[z]
    BY <2>a DEF WriteTouch, TypeOK
  <2>6. \A c \in Clients : RestoreOrigin(c) => zones'[z] = zones[z]
    BY <2>a DEF RestoreOrigin, TypeOK
  <2>7. \A p \in Procs : StatusSuccess(p) => zones'[z] = zones[z]
    BY <2>a DEF StatusSuccess, SoftDelete, SetActive, TypeOK
  <2>8. \A p \in Procs : StatusError(p) => zones'[z] = zones[z]
    BY <2>a DEF StatusError, SoftDelete, SetActive, TypeOK
  <2>9. \A y \in Ids : Age(y) => zones'[z] = zones[z]
    BY <2>a DEF Age, TypeOK
  <2>10. \A y \in Ids : PurgeZone(y) =>
            \/ zones'[z] = zones[z]
            \/ zones'[z] = [zones[z] EXCEPT !.status = "PURGED"]
    BY DEF PurgeZone, TypeOK
  <2>11. \/ \E c \in Clients, y \in Ids, n \in Names, x \in Ttls :
               CreateZone(c, y, n, x)
         \/ \E c \in Clients, y \in Ids : AbandonZone(c, y)
         \/ \E c \in Clients : \/ WriteUpdate(c) \/ WriteDelete(c)
                               \/ WriteTouch(c) \/ RestoreOrigin(c)
         \/ \E p \in Procs : StatusSuccess(p) \/ StatusError(p)
         \/ \E y \in Ids : Age(y) \/ PurgeZone(y)
         \/ zones' = zones
    BY DEF Next, ClientStarts, ClientStep, TaskStep, RecoverStep, ReadZone,
           EnterZone, EnterUpdate, CallReturns, CallRaises, CallTimesOut,
           DropReply, CreateDefaultRecord, GetView, SkipDevice, DeviceOk,
           DeviceRefuses, DeviceAnswerLost, CreateZdnsRow, CreateZoneAsso,
           UpdateZdnsZone, GetZoneAsso, DeleteZoneAsso, DeleteZdnsRow,
           CallbackFails, RecoverList, RecoverDispatch, RecoverReply,
           CentralCrash, WorkerCrash
  <2> QED
    BY <2>1, <2>2, <2>3, <2>4, <2>5, <2>6, <2>7, <2>8, <2>9, <2>10, <2>11
<1> QED
  BY <1>1, <1>2, InitInv, PTL DEF Spec, DeletedIsFinal
=============================================================================
