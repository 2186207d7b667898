----------------------------- MODULE RecordSets -----------------------------
(***************************************************************************)
(* Recordsets and their records in one zone.  A central thread changes the *)
(* records of a recordset one at a time: for each of them it calls the     *)
(* worker, whose RecordAction drives the ZDNS device and then calls        *)
(* central back to mirror the device's answer (zdns_record_info_t and its  *)
(* association table) and to settle the record.  Nothing spans the writes: *)
(* a request that fails half way leaves what it has done.                  *)
(*                                                                         *)
(* A record id is used once, so the zdns row, the association and the      *)
(* device's resource record of a record are all named by its id.           *)
(***************************************************************************)
EXTENDS Naturals, FiniteSets

CONSTANTS
    Sets,       \* recordset ids
    Recs,       \* record ids
    Data,       \* record data (rdata)
    Ttls,       \* values of the ttl column
    RrIds,      \* ids the device gives to a resource record
    Threads,    \* threads of one central process
    Ops,        \* the requests that are issued
    Faults,     \* the kinds of fault that may happen
    MaxFaults,  \* bound on the number of failed callbacks
    MaxOps,     \* bound on the number of requests
    None        \* the null value

OpKinds == {"create", "update", "ttl", "delete", "addrec", "updrec", "delrec"}
FaultKinds == {"device", "response", "central", "timeout", "refusal"}

ASSUME RecordSetsAssumption ==
    /\ None \notin Sets \cup Recs \cup Data \cup Ttls \cup RrIds
    /\ None \notin [id : RrIds, data : Data, ttl : Ttls]
    /\ Ops \subseteq OpKinds
    /\ Faults \subseteq FaultKinds
    /\ MaxFaults \in Nat
    /\ MaxOps \in Nat

VARIABLES
    rsets,   \* the recordsets table: the ttl of each recordset, or None
    recs,    \* the records table
    rows,    \* zdns_record_info_t: what the device answered for the record
    links,   \* records_zdns_record_associations: the records that have one
    dev,     \* the resource records the device serves
    req,     \* the request each central thread is in
    job,     \* the RecordAction each request has started
    faults,  \* failed callbacks so far
    ops      \* requests so far

vars == <<rsets, recs, rows, links, dev, req, job, faults, ops>>

----------------------------------------------------------------------------
\* A row of the records table.  hash is the UNIQUE column that is meant to
\* keep two equal records out of a recordset.
Rec == [set : Sets \cup {None}, data : Data \cup {None},
        status : {"ABSENT", "PENDING", "ACTIVE"},
        hash : (Sets \cup {None}) \X (Data \cup {None})]

NoRec == [set |-> None, data |-> None, status |-> "ABSENT",
          hash |-> <<None, None>>]

Rr == [id : RrIds, data : Data, ttl : Ttls]

\* One entry of recordset.records: "<kind>;<record id>;<data>"
Item == [kind : {"create", "update", "delete"},
         rec : Recs \cup {None}, data : Data \cup {None}]

Req == [op : OpKinds \cup {"none"}, pc : {"idle", "next", "wait"},
        set : Sets \cup {None}, ttl : Ttls \cup {None}, newttl : BOOLEAN,
        todo : SUBSET Item, failed : BOOLEAN]

NoReq == [op |-> "none", pc |-> "idle", set |-> None, ttl |-> None,
          newttl |-> FALSE, todo |-> {}, failed |-> FALSE]

\* rr: the device's id of the record.  of: the recordset_id the worker's copy
\* of the record carries.  newttl: the ttl of the copy of the recordset was
\* changed.  answered: the device's response is not None.
Job == [pc : {"idle", "read", "device", "row", "link", "setttl", "updrow",
              "settle", "unlink", "delrow", "delrec", "error", "done",
              "raised"},
        act : {"CREATE", "UPDATE", "DELETE", "NONE"},
        rec : Recs \cup {None}, set : Sets \cup {None}, of : Sets \cup {None},
        data : Data \cup {None}, ttl : Ttls \cup {None}, newttl : BOOLEAN,
        rr : RrIds \cup {None}, answered : BOOLEAN]

NoJob == [pc |-> "idle", act |-> "NONE", rec |-> None, set |-> None,
          of |-> None, data |-> None, ttl |-> None, newttl |-> FALSE,
          rr |-> None, answered |-> FALSE]

Running == {"read", "device", "row", "link", "setttl", "updrow", "settle",
            "unlink", "delrow", "delrec", "error"}

----------------------------------------------------------------------------
Live(s) == rsets[s] # None
Exists(r) == recs[r].status # "ABSENT"
RecordsOf(s) == {r \in Recs : Exists(r) /\ recs[r].set = s}

\* A uuid nobody has seen
Fresh(r) == /\ ~Exists(r) /\ rows[r] = None /\ r \notin links /\ dev[r] = None
            /\ \A t \in Threads : job[t].rec # r /\ \A i \in req[t].todo : i.rec # r

\* UniqueConstraint('hash', name='unique_record')
HashTaken(h, r) == \E q \in Recs \ {r} : Exists(q) /\ recs[q].hash = h

\* synchronized_zone.  delete_recordset is not decorated with it.
Locked(t) == req[t].op \notin {"none", "delete"}

\* Faulty variant of LockFree: the lock is not taken.
LockIgnored(t) == TRUE

LockFree(t) == \A u \in Threads \ {t} : ~Locked(u)

MayStart(t) == /\ req[t].pc = "idle"
               /\ job[t].pc = "idle"
               /\ ops < MaxOps

Start(t, r) == /\ req' = [req EXCEPT ![t] = r]
               /\ ops' = ops + 1

Begin(op, s, ttl, todo) == [NoReq EXCEPT !.op = op, !.pc = "next", !.set = s,
                                         !.ttl = ttl, !.todo = todo,
                                         !.newttl = (ttl # rsets[s])]

Entry(kind, r, d) == [kind |-> kind, rec |-> r, data |-> d]

----------------------------------------------------------------------------
(* Central: the requests *)

\* create_recordset: the recordset is stored, then its records one by one
CreateRecordset(t, s, ttl, ds) ==
    /\ "create" \in Ops
    /\ LockFree(t)
    /\ ~Live(s)
    /\ \A u \in Threads : req[u].set # s /\ job[u].set # s   \* a new id
    /\ rsets' = [rsets EXCEPT ![s] = ttl]
    /\ Start(t, Begin("create", s, ttl, {Entry("create", None, d) : d \in ds}))
    /\ UNCHANGED <<recs, rows, links, dev, job, faults>>

\* What do_update can make of the entries that name a record.  The record is
\* whatever id the client wrote: of the recordset, of another one, or of none.
Changes == {Entry("update", r, d) : r \in Recs, d \in Data}
           \cup {Entry("delete", r, None) : r \in Recs}

\* update_recordset: do_update only counts the entries that are no "create";
\* there must be as many as the recordset has records.  An entry "nochange"
\* does nothing unless the ttl changes, then it is an update.  Entries that say
\* the same are one here.
UpdateRecordset(t, s, ttl, es, ds) ==
    /\ "update" \in Ops
    /\ LockFree(t)
    /\ Live(s)
    /\ Cardinality(es) <= Cardinality(RecordsOf(s))
    /\ ttl # rsets[s] /\ RecordsOf(s) # {} => es # {}
    /\ Start(t, Begin("update", s, ttl,
                      es \cup {Entry("create", None, d) : d \in ds}))
    /\ UNCHANGED <<rsets, recs, rows, links, dev, job, faults>>

\* update_recordset with a new ttl and no records: each record is updated, from
\* a copy of its row
UpdateTtl(t, s, ttl) ==
    /\ "ttl" \in Ops
    /\ LockFree(t)
    /\ Live(s)
    /\ ttl # rsets[s]
    /\ Start(t, Begin("ttl", s, ttl,
                {Entry("update", r, recs[r].data) : r \in RecordsOf(s)}))
    /\ UNCHANGED <<rsets, recs, rows, links, dev, job, faults>>

\* delete_recordset: not synchronized, and it forgets what it read
DeleteRecordset(t, s) ==
    /\ "delete" \in Ops
    /\ Live(s)
    /\ Start(t, Begin("delete", s, rsets[s],
                {Entry("delete", r, None) : r \in RecordsOf(s)}))
    /\ UNCHANGED <<rsets, recs, rows, links, dev, job, faults>>

\* create_record, update_record and delete_record: one record
OneRecord(t, op, s, i) ==
    /\ op \in Ops
    /\ LockFree(t)
    /\ Live(s)
    /\ i.rec # None => i.rec \in RecordsOf(s)
    /\ Start(t, Begin(op, s, rsets[s], {i}))
    /\ UNCHANGED <<rsets, recs, rows, links, dev, job, faults>>

----------------------------------------------------------------------------
(* Central: one record after the other *)

Call(t, i, r, j) ==
    /\ req' = [req EXCEPT ![t].pc = "wait", ![t].todo = @ \ {i}]
    /\ job' = [job EXCEPT ![t] = [NoJob EXCEPT !.pc = "read", !.act = j.act,
                  !.rec = r, !.set = req[t].set, !.of = j.of, !.data = i.data,
                  !.ttl = req[t].ttl, !.newttl = req[t].newttl]]

\* _create_record_in_storage
Stores(s, r, d) == [recs EXCEPT ![r] = [set |-> s, data |-> d,
                                        status |-> "PENDING",
                                        hash |-> <<s, d>>]]

\* It raises when the quota of records is used up, the recordset is gone or the
\* hash is taken, and the request ends there.
CreateOne(t, i) ==
    LET s == req[t].set
        storable == Live(s) /\ ~\E q \in Recs : Exists(q) /\ recs[q].hash = <<s, i.data>>
    IN  /\ i.kind = "create"
        /\ \/ /\ storable
              /\ \E r \in Recs :
                   /\ Fresh(r)
                   /\ recs' = Stores(s, r, i.data)
                   /\ Call(t, i, r, [act |-> "CREATE", of |-> s])
           \/ /\ storable => "refusal" \in Faults
              /\ req' = [req EXCEPT ![t] = NoReq]
              /\ UNCHANGED <<recs, job>>
        /\ UNCHANGED <<rsets, rows, links, dev, faults, ops>>

\* do_update sends a record it made from the request, which has no
\* recordset_id; the other updates send a copy of the row.
UpdateOne(t, i) ==
    /\ i.kind = "update"
    /\ Call(t, i, i.rec, [act |-> "UPDATE",
                          of |-> IF req[t].op = "update" THEN None
                                 ELSE req[t].set])
    /\ UNCHANGED <<rsets, recs, rows, links, dev, faults, ops>>

DeleteOne(t, i) ==
    /\ i.kind = "delete"
    /\ Call(t, i, i.rec, [act |-> "DELETE", of |-> None])
    /\ UNCHANGED <<rsets, recs, rows, links, dev, faults, ops>>

NextRecord(t) ==
    /\ req[t].pc = "next"
    /\ \E i \in req[t].todo : CreateOne(t, i) \/ UpdateOne(t, i) \/ DeleteOne(t, i)

\* The worker's answer: None means that the record failed
JobReturns(t) ==
    /\ req[t].pc = "wait"
    /\ job[t].pc = "done"
    /\ req' = [req EXCEPT ![t].pc = "next",
                          ![t].failed = @ \/ ~job[t].answered]
    /\ job' = [job EXCEPT ![t] = NoJob]
    /\ UNCHANGED <<rsets, recs, rows, links, dev, faults, ops>>

\* An exception from the worker, or none of its answers: the request ends
JobRaises(t) ==
    /\ req[t].pc = "wait"
    /\ \/ job[t].pc = "raised" /\ job' = [job EXCEPT ![t] = NoJob]
       \/ "timeout" \in Faults /\ job[t].pc \in Running /\ UNCHANGED job
    /\ req' = [req EXCEPT ![t] = NoReq]
    /\ UNCHANGED <<rsets, recs, rows, links, dev, faults, ops>>

\* The answer of a job nobody waits for is dropped
DropAnswer(t) ==
    /\ req[t].pc # "wait"
    /\ job[t].pc \in {"done", "raised"}
    /\ job' = [job EXCEPT ![t] = NoJob]
    /\ UNCHANGED <<rsets, recs, rows, links, dev, req, faults, ops>>

\* storage.delete_recordset; the foreign key takes the records with it
DropSet(s) ==
    /\ rsets' = [rsets EXCEPT ![s] = None]
    /\ recs' = [r \in Recs |-> IF recs[r].set = s THEN NoRec ELSE recs[r]]

\* Faulty variant of DropsSet: delete_recordset forgets the failures.
DropsSetAlways(q) == \/ q.op = "create" /\ RecordsOf(q.set) = {}
                     \/ q.op = "delete"

\* create_recordset removes a recordset that got no record, delete_recordset
\* one whose records are all gone; otherwise the recordset stays.
DropsSet(q) == \/ q.op = "create" /\ RecordsOf(q.set) = {}
               \/ q.op = "delete" /\ ~q.failed

EndRequest(t) ==
    LET q == req[t]
    IN  /\ q.pc = "next"
        /\ q.todo = {}
        /\ req' = [req EXCEPT ![t] = NoReq]
        /\ IF Live(q.set) /\ DropsSet(q) THEN DropSet(q.set)
           ELSE UNCHANGED <<rsets, recs>>
        /\ UNCHANGED <<rows, links, dev, job, faults, ops>>

----------------------------------------------------------------------------
(* Worker: RecordAction, one step per device call or callback *)

JobTo(t, pc) == job' = [job EXCEPT ![t].pc = pc]

\* get_view, get_record_association, get_zdns_record
JobRead(t) ==
    LET j == job[t]
        found == j.rec \in links /\ rows[j.rec] # None
    IN  /\ j.pc = "read"
        /\ job' = [job EXCEPT
              ![t].pc = IF j.act = "CREATE" \/ found THEN "device" ELSE "error",
              ![t].rr = IF j.act # "CREATE" /\ found THEN rows[j.rec].id ELSE None]
        /\ UNCHANGED <<rsets, recs, rows, links, dev, req, faults, ops>>

DeviceAccepts(j) == \/ j.act = "CREATE"
                    \/ dev[j.rec] # None /\ dev[j.rec].id = j.rr

\* What the device serves afterwards.  It may give an updated record a new id.
DeviceResults(j) ==
    IF j.act = "DELETE" THEN {None}
    ELSE {[id |-> x, data |-> j.data, ttl |-> j.ttl] : x \in RrIds}

AfterDevice(act) == CASE act = "CREATE" -> "row"
                      [] act = "UPDATE" -> "setttl"
                      [] act = "DELETE" -> "unlink"

JobDeviceOk(t) ==
    LET j == job[t]
    IN  /\ j.pc = "device"
        /\ DeviceAccepts(j)
        /\ \E x \in DeviceResults(j) :
              /\ dev' = [dev EXCEPT ![j.rec] = x]
              /\ job' = [job EXCEPT ![t].pc = AfterDevice(j.act),
                                    ![t].answered = TRUE,
                                    ![t].rr = IF x = None THEN @ ELSE x.id]
        /\ UNCHANGED <<rsets, recs, rows, links, req, faults, ops>>

\* check_response raises ZdnsErrMessage
JobDeviceRefuses(t) ==
    /\ job[t].pc = "device"
    /\ DeviceAccepts(job[t]) => "device" \in Faults
    /\ JobTo(t, "error")
    /\ UNCHANGED <<rsets, recs, rows, links, dev, req, faults, ops>>

\* The device did it, but its answer never arrived
JobAnswerLost(t) ==
    LET j == job[t]
    IN  /\ "response" \in Faults
        /\ j.pc = "device"
        /\ DeviceAccepts(j)
        /\ \E x \in DeviceResults(j) : dev' = [dev EXCEPT ![j.rec] = x]
        /\ JobTo(t, "error")
        /\ UNCHANGED <<rsets, recs, rows, links, req, faults, ops>>

Answer(j) == [id |-> j.rr, data |-> j.data, ttl |-> j.ttl]

\* create_zdns_record: the row, then the association
JobCreateRow(t) ==
    /\ job[t].pc = "row"
    /\ rows' = [rows EXCEPT ![job[t].rec] = Answer(job[t])]
    /\ JobTo(t, "link")
    /\ UNCHANGED <<rsets, recs, links, dev, req, faults, ops>>

JobLink(t) ==
    /\ job[t].pc = "link"
    /\ links' = links \cup {job[t].rec}
    /\ JobTo(t, "settle")
    /\ UNCHANGED <<rsets, recs, rows, dev, req, faults, ops>>

\* update_recordset_callback writes the ttl of the recordset if it was changed.
\* Only now, with the device already changed, are the name, the placement, the
\* least ttl and the quota of records checked (_validate_recordset and
\* _enforce_record_quota), and each may raise.
JobSetTtl(t) ==
    LET j == job[t]
    IN  /\ j.pc = "setttl"
        /\ \/ /\ Live(j.set)
              /\ rsets' = [rsets EXCEPT ![j.set] = IF j.newttl THEN j.ttl
                                                  ELSE @]
              /\ JobTo(t, "updrow")
           \/ /\ Live(j.set) => "refusal" \in Faults
              /\ UNCHANGED rsets
              /\ JobTo(t, "error")
        /\ UNCHANGED <<recs, rows, links, dev, req, faults, ops>>

\* update_zdns_record
JobUpdateRow(t) ==
    LET j == job[t]
    IN  /\ j.pc = "updrow"
        /\ IF rows[j.rec] # None
           THEN rows' = [rows EXCEPT ![j.rec] = Answer(j)] /\ JobTo(t, "settle")
           ELSE UNCHANGED rows /\ JobTo(t, "error")
        /\ UNCHANGED <<rsets, recs, links, dev, req, faults, ops>>

\* Faulty variant of Settled: the worker's status is stored as it came.
SettledRaw(j) == [recs EXCEPT ![j.rec].status = "SUCCESS"]

Settled(j) == [recs EXCEPT ![j.rec].status = "ACTIVE",
                           ![j.rec].data = j.data,
                           ![j.rec].hash = <<j.of, j.data>>]

\* update_record_status with SUCCESS, after a CREATE or an UPDATE.  An update
\* recomputes the hash from the copy it was sent; it fails on a duplicate and
\* when the record is gone.
JobSettle(t) ==
    LET j == job[t]
    IN  /\ j.pc = "settle"
        /\ IF Exists(j.rec) /\ ~HashTaken(<<j.of, j.data>>, j.rec)
           THEN recs' = Settled(j) /\ JobTo(t, "done")
           ELSE UNCHANGED recs /\ JobTo(t, "error")
        /\ UNCHANGED <<rsets, rows, links, dev, req, faults, ops>>

\* Faulty variant of JobUnlink: the zdns row goes before the association.
JobUnlinkLast(t) ==
    /\ job[t].pc = "unlink"
    /\ rows' = [rows EXCEPT ![job[t].rec] = None]
    /\ JobTo(t, "delrow")
    /\ UNCHANGED <<rsets, recs, links, dev, req, faults, ops>>

\* update_record_status with SUCCESS, after a DELETE: the association, the
\* zdns row and the record, each missing one is an exception
JobUnlink(t) ==
    /\ job[t].pc = "unlink"
    /\ links' = links \ {job[t].rec}
    /\ JobTo(t, IF job[t].rec \in links THEN "delrow" ELSE "error")
    /\ UNCHANGED <<rsets, recs, rows, dev, req, faults, ops>>

JobDeleteRow(t) ==
    /\ job[t].pc = "delrow"
    /\ rows' = [rows EXCEPT ![job[t].rec] = None]
    /\ JobTo(t, IF rows[job[t].rec] # None THEN "delrec" ELSE "error")
    /\ UNCHANGED <<rsets, recs, links, dev, req, faults, ops>>

JobDeleteRecord(t) ==
    /\ job[t].pc = "delrec"
    /\ recs' = [recs EXCEPT ![job[t].rec] = NoRec]
    /\ JobTo(t, IF Exists(job[t].rec) THEN "done" ELSE "error")
    /\ UNCHANGED <<rsets, rows, links, dev, req, faults, ops>>

\* Faulty variant of Forgets: a failed create leaves its record behind.
ForgetsNothing(j) == FALSE

\* update_record_status with ERROR removes only a record that was not created
Forgets(j) == j.act = "CREATE"

JobError(t) ==
    LET j == job[t]
    IN  /\ j.pc = "error"
        /\ IF Forgets(j)
           THEN /\ recs' = [recs EXCEPT ![j.rec] = NoRec]
                /\ JobTo(t, IF Exists(j.rec) THEN "done" ELSE "raised")
           ELSE UNCHANGED recs /\ JobTo(t, "done")
        /\ UNCHANGED <<rsets, rows, links, dev, req, faults, ops>>

\* A callback fails before its write: the job goes on to report ERROR, and an
\* exception while it reports leaves the job.
JobCallbackFails(t) ==
    /\ "central" \in Faults
    /\ faults < MaxFaults
    /\ faults' = faults + 1
    /\ job[t].pc \in Running \ {"device"}
    /\ JobTo(t, IF job[t].pc = "error" THEN "raised" ELSE "error")
    /\ UNCHANGED <<rsets, recs, rows, links, dev, req, ops>>

----------------------------------------------------------------------------
Init == /\ rsets = [s \in Sets |-> None]
        /\ recs = [r \in Recs |-> NoRec]
        /\ rows = [r \in Recs |-> None]
        /\ links = {}
        /\ dev = [r \in Recs |-> None]
        /\ req = [t \in Threads |-> NoReq]
        /\ job = [t \in Threads |-> NoJob]
        /\ faults = 0
        /\ ops = 0

Requests(t) ==
    /\ MayStart(t)
    /\ \E s \in Sets :
        \/ \E ttl \in Ttls : \E ds \in SUBSET Data \ {{}} :
              CreateRecordset(t, s, ttl, ds)
        \/ \E es \in SUBSET Changes, ttl \in Ttls :
              \E ds \in {x \in SUBSET Data : Cardinality(x) <= 1} :
                 UpdateRecordset(t, s, ttl, es, ds)
        \/ \E ttl \in Ttls : UpdateTtl(t, s, ttl)
        \/ DeleteRecordset(t, s)
        \/ \E d \in Data : OneRecord(t, "addrec", s, Entry("create", None, d))
        \/ \E r \in RecordsOf(s), d \in Data :
              OneRecord(t, "updrec", s, Entry("update", r, d))
        \/ \E r \in RecordsOf(s) :
              OneRecord(t, "delrec", s, Entry("delete", r, None))

ReqStep(t) == NextRecord(t) \/ JobReturns(t) \/ JobRaises(t) \/ DropAnswer(t)
              \/ EndRequest(t)

JobStep(t) ==
    \/ JobRead(t) \/ JobDeviceOk(t) \/ JobDeviceRefuses(t) \/ JobAnswerLost(t)
    \/ JobCreateRow(t) \/ JobLink(t) \/ JobSetTtl(t) \/ JobUpdateRow(t)
    \/ JobSettle(t) \/ JobUnlink(t) \/ JobDeleteRow(t) \/ JobDeleteRecord(t)
    \/ JobError(t)

Next == \E t \in Threads :
            Requests(t) \/ ReqStep(t) \/ JobStep(t) \/ JobCallbackFails(t)

Spec == Init /\ [][Next]_vars

\* Requests and jobs that were started go on
Fairness == \A t \in Threads : WF_vars(ReqStep(t)) /\ WF_vars(JobStep(t))

FairSpec == Spec /\ Fairness
----------------------------------------------------------------------------
(* Properties *)

TypeOK ==
    /\ rsets \in [Sets -> Ttls \cup {None}]
    /\ recs \in [Recs -> Rec]
    /\ rows \in [Recs -> Rr \cup {None}]
    /\ links \subseteq Recs
    /\ dev \in [Recs -> Rr \cup {None}]
    /\ req \in [Threads -> Req]
    /\ job \in [Threads -> Job]
    /\ faults \in 0..MaxFaults
    /\ ops \in 0..MaxOps

\* An association always leads to a zdns row, whatever fails and in whatever
\* order requests on one record interleave: get_zdns_record after
\* get_record_association never comes back empty.
LinkHasRow == \A r \in links : rows[r] # None

\* No job works on the record
Untouched(r) == \A t \in Threads : job[t].rec # r

\* While no callback is refused and no job works on a record, the mirrored row
\* is what the device serves: its id, data and ttl.  A stale id would make every
\* later update or delete of the record fail on the device.
MirrorMatchesDevice ==
    \A r \in Recs : Untouched(r) => dev[r] = rows[r] /\ (r \in links <=> dev[r] # None)

\* When no job works on a record, the device serves it if and only if the
\* database, the mirror and the association table have it: a refused create
\* leaves nothing behind, a refused delete does not lose the record, and no
\* recordset takes served records with it.
RecordMatchesDevice ==
    \A r \in Recs : Untouched(r) =>
        /\ Exists(r) <=> dev[r] # None
        /\ rows[r] # None <=> dev[r] # None
        /\ r \in links <=> dev[r] # None

\* The job that creates the record is under way
Creating(r) == \E t \in Threads : /\ job[t].rec = r
                                  /\ job[t].act = "CREATE"
                                  /\ job[t].pc \in Running

\* The report of the job's failure has itself failed
ReportFailed(r) == \E t \in Threads : job[t].rec = r /\ job[t].pc = "raised"

\* A record that is created does not stay PENDING, whatever the device or a
\* callback does and though nobody may wait for the job any more: its job makes
\* it ACTIVE or removes it.  Only a failed report of the failure may leave it.
PendingRecordIsSettled ==
    \A r \in Recs : Creating(r) ~>
                        (recs[r].status # "PENDING" \/ ReportFailed(r))

\* storage _recalculate_record_hash: "Calculates the hash of the record, used
\* to ensure record uniqueness."
RecordsAreUnique ==
    \A q, r \in Recs : /\ q # r
                       /\ Exists(q) /\ Exists(r)
                       /\ recs[q].set = recs[r].set
                       => recs[q].data # recs[r].data
=============================================================================
