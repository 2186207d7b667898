----------------------------- MODULE ApiRecords -----------------------------
(***************************************************************************)
(* The record requests of the two API versions.  An API worker reads, in   *)
(* RPCs of its own, what it checks and what it sends; central runs one     *)
(* operation of the zone at a time (synchronized_zone, one process) but    *)
(* delete_recordset, which takes no lock.  Between the two, and between    *)
(* the RPCs of one request, other clients get in.                          *)
(*                                                                         *)
(* One step is one RPC, or one record of a recordset operation together    *)
(* with the worker's job for it; RecordSets.tla has the steps of that job. *)
(* A request that is refused without an effect is not a step.              *)
(***************************************************************************)
EXTENDS Integers, FiniteSets

CONSTANTS
    Clients,
    Sets,           \* recordset ids
    Apex,           \* the recordset that create_default_record made
    Recs,           \* record ids
    Ns,             \* its managed record
    Data,           \* rdata
    Parsable,       \* the rdata that is well formed for the recordset's type
    ZoneRecords,    \* quota_zone_records
    SetRecords,     \* quota_recordset_records
    ZoneRecordsets, \* quota_zone_recordsets
    MaxRequests,    \* bound on the number of requests
    None            \* the null value

VARIABLES
    sets,    \* the recordsets table
    recs,    \* the records table
    req,     \* the request each client waits for
    count    \* requests so far

vars == <<sets, recs, req, count>>

----------------------------------------------------------------------------
\* objects.Record, as far as the requests look at it
Rec == [set : Sets \cup {None}, data : Data \cup {None}, managed : BOOLEAN]

NoRec == [set |-> None, data |-> None, managed |-> FALSE]

\* An entry of the records of a PUT: "<kind>;<record id>;<data>"
Item == [kind : {"create", "update", "delete"},
         rec : Recs \cup {None}, data : Data \cup {None}]

Ops == {"post", "put", "delete", "v1post", "v1put", "v1delete", "none"}

\* n: how many records the copy of the recordset has that central is given.
\* exempt: that copy is managed.  failed: a record has failed.
Req == [op : Ops, pc : {"idle", "fetched", "items", "cleanup", "drop"},
        set : Sets \cup {None}, rec : Recs \cup {None}, todo : SUBSET Item,
        n : Nat, exempt : BOOLEAN, failed : BOOLEAN]

NoReq == [op |-> "none", pc |-> "idle", set |-> None, rec |-> None,
          todo |-> {}, n |-> 0, exempt |-> FALSE, failed |-> FALSE]

Entry(kind, r, d) == [kind |-> kind, rec |-> r, data |-> d]

Exists(r) == recs[r].set # None
RecordsOf(s) == {r \in Recs : Exists(r) /\ recs[r].set = s}

\* RecordSet.managed
managed(s) == \E r \in RecordsOf(s) : recs[r].managed

Fresh(r) == ~Exists(r) /\ \A c \in Clients :
               req[c].rec # r /\ \A i \in req[c].todo : i.rec # r

\* uuidutils.generate_uuid: which of the unused ids it is makes no difference
HasNewId == \E r \in Recs : Fresh(r)
NewId == CHOOSE r \in Recs : Fresh(r)

MayStart(c) == req[c].pc = "idle" /\ count < MaxRequests

Start(c, q) == /\ req' = [req EXCEPT ![c] = q]
               /\ count' = count + 1

End(c) == req' = [req EXCEPT ![c] = NoReq]

\* synchronized_zone: create_recordset and update_recordset hold the lock from
\* one record to the next
LockFree(c) == \A d \in Clients \ {c} :
                  req[d].pc = "items" => req[d].op \notin {"post", "put"}

----------------------------------------------------------------------------
(* Quotas *)

Unmanaged == {r \in Recs : Exists(r) /\ ~recs[r].managed}

\* Faulty variant of AdjustedRecords: what the recordset already has is taken
\* off, and what the request brings is not added.
AdjustedRecordsWithout(q) ==
    Cardinality(Unmanaged) - Cardinality(Unmanaged \cap RecordsOf(q.set))

\* "zone_records - recordset_records + len(recordset.records)": the first two
\* are counted now, the last is the length of the copy that came in.
AdjustedRecords(q) ==
    Cardinality(Unmanaged) - Cardinality(Unmanaged \cap RecordsOf(q.set)) + q.n

\* _enforce_record_quota
WithinQuota(q) ==
    \/ q.exempt
    \/ /\ AdjustedRecords(q) < ZoneRecords
       /\ Cardinality(Unmanaged \cap RecordsOf(q.set)) < SetRecords

\* _enforce_recordset_quota
MayAddRecordset == Cardinality(sets) < ZoneRecordsets

----------------------------------------------------------------------------
(* API v2 *)

\* RecordSet.validate has every record parsed by the class of its type
validate(ds) == ds \subseteq Parsable

\* RecordSetsController.post_all: SOA is refused and NS never reaches central.
\* The adapter makes a set of the data, so equal ones are one record;
\* create_recordset stores the recordset before any of them.
PostRecordset(c, s, ds) ==
    /\ MayStart(c)
    /\ validate(ds)
    /\ LockFree(c)
    /\ s \notin sets /\ s # Apex
    /\ \A d \in Clients : req[d].set # s    \* a new id
    /\ MayAddRecordset
    /\ sets' = sets \cup {s}
    /\ Start(c, [NoReq EXCEPT !.op = "post", !.pc = "items", !.set = s,
                    !.n = Cardinality(ds),
                    !.todo = {Entry("create", None, d) : d \in ds}])
    /\ UNCHANGED recs


\* "Managed records may not be updated", checked on the copy the controller
\* read.  The copy it sends has the records of the body instead, and those are
\* never managed.
Editable(s) == ~managed(s)

\* What format_validate lets through.  Only a new record has no id; the others
\* have the id the client wrote, of a record of the zone, whichever recordset
\* it is in, or of none (None here).  What comes with a delete is not looked at.
Entries == {Entry("create", None, d) : d \in Data}
           \cup {Entry("update", r, d) : r \in {x \in Recs : Exists(x)}, d \in Data}
           \cup {Entry("delete", r, None) : r \in {x \in Recs : Exists(x)}}
           \cup {Entry("delete", None, None)}

\* The bodies of the model: at most two entries, and any number of "nochange"
Bodies == {{}} \cup {{i, j} : i, j \in Entries}

\* RecordSetAPIv2Adapter._parse_object: the records that were read go, as none
\* of them is in the body as it stands, and the ones of the body come, each
\* string once.
_parse_object(es) == [NoReq EXCEPT !.op = "put", !.pc = "fetched", !.todo = es]

\* RecordSetsController.put_one, up to the RPC.  Its call of validate is
\* commented out: any data goes through.
PutFetch(c, s, es) ==
    /\ MayStart(c)
    /\ s \in sets
    /\ Editable(s)
    /\ Start(c, [_parse_object(es) EXCEPT !.set = s])
    /\ UNCHANGED <<sets, recs>>

\* update_recordset and do_update: the entries that create nothing are counted,
\* and there must be as many as the recordset has records.  Those that are not
\* in todo are "nochange"; with a new ttl such an entry is one of update, and
\* todo has it as that.
PutUpdate(c) ==
    LET q == req[c]
        creates == {i \in q.todo : i.kind = "create"}
        counted == Cardinality(RecordsOf(q.set))
    IN  /\ q.op = "put" /\ q.pc = "fetched"
        /\ LockFree(c)
        /\ \/ /\ q.set \in sets
              /\ Cardinality(q.todo \ creates) <= counted
              /\ counted + Cardinality(creates) > 0
              /\ req' = [req EXCEPT ![c].pc = "items",
                                    ![c].n = counted + Cardinality(creates)]
           \/ End(c)
        /\ UNCHANGED <<sets, recs, count>>

\* RecordSetsController.delete_one, up to the RPC
DeleteFetch(c, s) ==
    /\ MayStart(c)
    /\ s \in sets
    /\ Start(c, [NoReq EXCEPT !.op = "delete", !.pc = "drop", !.set = s])
    /\ UNCHANGED <<sets, recs>>

----------------------------------------------------------------------------
(* API v1 *)

\* create_record: get_recordset, whose copy goes to central.  record_schema
\* wants parsable data, here and in update_record.
PostRecordFetch(c, s) ==
    /\ MayStart(c)
    /\ s \in sets
    /\ Start(c, [NoReq EXCEPT !.op = "v1post", !.pc = "fetched", !.set = s,
                    !.n = Cardinality(RecordsOf(s)), !.exempt = managed(s)])
    /\ UNCHANGED <<sets, recs>>

\* central.create_record takes the copy as it is; the foreign key refuses a
\* recordset that is gone.  A record the device refuses is removed again, and
\* the answer is 201 all the same.
CreateRecord(c) ==
    LET q == req[c]
    IN  /\ q.op = "v1post" /\ q.pc = "fetched"
        /\ LockFree(c)
        /\ \/ /\ WithinQuota(q) /\ q.set \in sets
              /\ HasNewId
              /\ \E d \in Parsable : recs' = [recs EXCEPT ![NewId] =
                    [set |-> q.set, data |-> d, managed |-> FALSE]]
           \/ UNCHANGED recs
        /\ End(c)
        /\ UNCHANGED <<sets, count>>

\* update_record and delete_record: find_record, and what it says of managed
RecordFetch(c, op, r) ==
    /\ MayStart(c)
    /\ Exists(r)
    /\ ~recs[r].managed
    /\ Start(c, [NoReq EXCEPT !.op = op, !.pc = "fetched", !.rec = r,
                              !.set = recs[r].set])
    /\ UNCHANGED <<sets, recs>>

\* central.update_record.  The update_recordset that follows when the body has
\* a name, a type or a ttl sends the records as they are, which do_update
\* never accepts: the record stays changed and the answer is an error.
UpdateRecord(c, d) ==
    LET q == req[c]
    IN  /\ q.op = "v1put" /\ q.pc = "fetched"
        /\ LockFree(c)
        /\ \/ /\ q.set \in sets /\ ~managed(q.set) /\ Exists(q.rec)
              /\ recs' = [recs EXCEPT ![q.rec].data = d]
           \/ UNCHANGED recs
        /\ End(c)
        /\ UNCHANGED <<sets, count>>

\* central.delete_record: refused for a record or a recordset that is gone or
\* managed; otherwise the worker's answer is ignored.
DeleteRecord(c) ==
    LET q == req[c]
    IN  /\ q.op = "v1delete" /\ q.pc = "fetched"
        /\ LockFree(c)
        /\ IF q.set \in sets /\ ~managed(q.set) /\ Exists(q.rec)
           THEN /\ recs' \in {recs, [recs EXCEPT ![q.rec] = NoRec]}
                /\ req' = [req EXCEPT ![c].pc = "cleanup"]
           ELSE End(c) /\ UNCHANGED recs
        /\ UNCHANGED <<sets, count>>

\* _delete_recordset_if_empty reads the recordset
FindEmpty(c) ==
    /\ req[c].pc = "cleanup"
    /\ IF req[c].set \in sets /\ RecordsOf(req[c].set) = {}
       THEN req' = [req EXCEPT ![c].pc = "drop"]
       ELSE End(c)
    /\ UNCHANGED <<sets, recs, count>>

----------------------------------------------------------------------------
(* The recordset operations of central, record by record *)

\* Faulty variant of Deletable: central trusts the controllers.
DeletableAny(s) == s \in sets

\* "Managed records may not be deleted": the v2 controller does not ask
Deletable(s) == s \in sets /\ ~managed(s)

\* delete_recordset lists the records it is going to delete
ListRecords(c) ==
    /\ req[c].pc = "drop"
    /\ IF Deletable(req[c].set)
       THEN req' = [req EXCEPT ![c].pc = "items", ![c].op = "delete",
                       ![c].todo = {Entry("delete", r, None) :
                                    r \in RecordsOf(req[c].set)}]
       ELSE End(c)
    /\ UNCHANGED <<sets, recs, count>>

ItemDone(c, i, ok) == req' = [req EXCEPT ![c].todo = @ \ {i},
                                         ![c].failed = @ \/ ~ok]

\* _create_record_in_storage and the worker.  Over the quota the request ends
\* in the middle of things.
CreateItem(c, i) ==
    LET q == req[c]
    IN  /\ i.kind = "create"
        /\ IF WithinQuota(q) /\ q.set \in sets
           THEN \/ /\ HasNewId
                   /\ recs' = [recs EXCEPT ![NewId] =
                         [set |-> q.set, data |-> i.data, managed |-> FALSE]]
                   /\ ItemDone(c, i, TRUE)
                \/ ItemDone(c, i, FALSE) /\ UNCHANGED recs
           ELSE End(c) /\ UNCHANGED recs
        /\ UNCHANGED <<sets, count>>

\* Faulty variant of ChangeItem: a deleted record keeps an empty row.
ChangeItemKeepsRow(c, i) ==
    /\ i.kind \in {"update", "delete"}
    /\ \/ /\ i.rec # None /\ Exists(i.rec)
          /\ recs' = [recs EXCEPT ![i.rec].data =
                IF i.kind = "delete" THEN None ELSE i.data]
          /\ ItemDone(c, i, TRUE)
       \/ ItemDone(c, i, FALSE) /\ UNCHANGED recs
    /\ UNCHANGED <<sets, count>>

\* A record that is not there any more fails like one the device refuses
ChangeItem(c, i) ==
    /\ i.kind \in {"update", "delete"}
    /\ \/ /\ i.rec # None /\ Exists(i.rec)
          /\ recs' = [recs EXCEPT ![i.rec] =
                IF i.kind = "delete" THEN NoRec ELSE [@ EXCEPT !.data = i.data]]
          /\ ItemDone(c, i, TRUE)
       \/ ItemDone(c, i, FALSE) /\ UNCHANGED recs
    /\ UNCHANGED <<sets, count>>

NextItem(c) ==
    /\ req[c].pc = "items"
    /\ \E i \in req[c].todo :
          CreateItem(c, i) \/ ChangeItem(c, i)

\* storage.delete_recordset, and the records the foreign key takes with it:
\* after a create that got no record, and after a delete that lost none
EndItems(c) ==
    LET q == req[c]
        drop == \/ q.op = "post" /\ RecordsOf(q.set) = {}
                \/ q.op = "delete" /\ ~q.failed
    IN  /\ q.pc = "items" /\ q.todo = {}
        /\ sets' = IF drop THEN sets \ {q.set} ELSE sets
        /\ recs' = [r \in Recs |-> IF drop /\ recs[r].set = q.set THEN NoRec
                                   ELSE recs[r]]
        /\ End(c)
        /\ UNCHANGED count

----------------------------------------------------------------------------
Init ==
    /\ sets = {Apex}
    /\ recs = [r \in Recs |-> IF r = Ns
                  THEN [set |-> Apex, data |-> CHOOSE d \in Parsable : TRUE,
                        managed |-> TRUE]
                  ELSE NoRec]
    /\ req = [c \in Clients |-> NoReq]
    /\ count = 0

ApiStep(c) ==
    \/ \E s \in Sets, ds \in SUBSET Data \ {{}} : PostRecordset(c, s, ds)
    \/ \E s \in Sets, es \in Bodies : PutFetch(c, s, es)
    \/ \E s \in Sets : DeleteFetch(c, s) \/ PostRecordFetch(c, s)
    \/ \E r \in Recs, op \in {"v1put", "v1delete"} : RecordFetch(c, op, r)

CentralStep(c) ==
    \/ PutUpdate(c)
    \/ CreateRecord(c)
    \/ \E d \in Parsable : UpdateRecord(c, d)
    \/ DeleteRecord(c)
    \/ FindEmpty(c)
    \/ ListRecords(c)
    \/ NextItem(c)
    \/ EndItems(c)

Next == \E c \in Clients : ApiStep(c) \/ CentralStep(c)

Spec == Init /\ [][Next]_vars

----------------------------------------------------------------------------
\* Every row has a recordset of the table and some data, or is no row at all.
TypeOK ==
    /\ sets \subseteq Sets
    /\ recs \in [Recs -> Rec]
    /\ \A r \in Recs : /\ Exists(r) => recs[r].set \in sets /\ recs[r].data \in Data
                       /\ ~Exists(r) => recs[r] = NoRec
    /\ req \in [Clients -> Req]
    /\ count \in 0 .. MaxRequests

\* A managed record is changed or removed by one thing only: an entry, with its
\* id, in a PUT of a recordset that is not managed.  do_update does not ask what
\* recordset an id belongs to.  Every other way is closed, though each version
\* of the API checks in another place and at another time: v2 in the controller
\* for the recordset of a PUT and in central for a DELETE, v1 in the controller
\* for the record and in central for its recordset ("Managed records may not be
\* updated").
KeepsManaged ==
    \A r \in Recs : recs[r].managed /\ recs'[r] # recs[r] =>
        \E c \in Clients :
            /\ req[c].op = "put" /\ ~managed(req[c].set)
            /\ \E i \in req[c].todo : i.rec = r /\ i \notin req'[c].todo

ManagedKept == [][KeepsManaged]_vars

\* The quota of records per zone is exceeded by at most one record for each
\* other client: create_record counts with the length of a copy that its
\* request read before the lock, so requests that read at the same time may
\* each add one.  Records added to a managed recordset are not counted at all.
RecordsNearQuota ==
    Cardinality({r \in Unmanaged : recs[r].set # Apex})
        <= ZoneRecords + Cardinality(Clients) - 1

=============================================================================
