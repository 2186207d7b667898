------------------------- MODULE RecordSetsProofs -------------------------
(***************************************************************************)
(* Proofs about RecordSets for every choice of its constants.              *)
(*                                                                         *)
(* TypeOK is not inductive: a job writes to the device and to the mirror   *)
(* what it carries, so that InFlightSound has to say what a request and a  *)
(* job under way carry.  LinkHasRow is not inductive either: MirrorOwned   *)
(* says who may touch the zdns row of a record.  Until the job that        *)
(* creates a record has made the association, no other job gets past       *)
(* get_record_association for it; and a job that is about to delete a row  *)
(* has already removed the association.                                    *)
(***************************************************************************)
EXTENDS RecordSets, TLAPS

RecsSound == \A r \in Recs : Exists(r) => recs[r].data \in Data

\* An entry names the record it changes and the data it gives to one
SoundItem(i) == /\ i.kind # "create" => i.rec \in Recs
                /\ i.kind # "delete" => i.data \in Data

\* A request under way names a recordset, a ttl and records that exist or did
SoundReq(q) ==
    q.pc # "idle" => /\ q.set \in Sets /\ q.ttl \in Ttls
                     /\ \A i \in q.todo : SoundItem(i)

\* A job under way carries a record, and what the device is to serve for it
SoundJob(j) ==
    j.pc \in Running =>
        /\ j.rec \in Recs /\ j.set \in Sets /\ j.ttl \in Ttls
        /\ j.act # "DELETE" => j.data \in Data
        /\ j.act \in {"CREATE", "UPDATE", "DELETE"}
        /\ j.pc \in {"row", "setttl", "updrow"} => j.rr \in RrIds
        /\ j.pc \in {"row", "link"} => j.act = "CREATE"
        /\ j.pc \in {"setttl", "updrow", "settle"} => j.act # "DELETE"

ReqsSound == \A t \in Threads : SoundReq(req[t])
JobsSound == \A t \in Threads : SoundJob(job[t])

InFlightSound == RecsSound /\ ReqsSound /\ JobsSound

\* The job that creates record r has not made its association yet
Unlinked(t, r) ==
    /\ job[t].rec = r /\ job[t].act = "CREATE"
    /\ job[t].pc \in {"read", "device", "row", "link"}

\* The job has found the association of record r
Found(t, r) ==
    /\ job[t].rec = r
    /\ \/ job[t].pc = "device" /\ job[t].act # "CREATE"
       \/ job[t].pc \in {"unlink", "delrow"}

\* A record whose job has not linked it has no association, and a row when the
\* association comes next
UnlinkedHasRow ==
    \A t \in Threads, r \in Recs : Unlinked(t, r) =>
        r \notin links /\ (job[t].pc = "link" => rows[r] # None)

\* It has one such job, and no other job has found an association
CreatorAlone ==
    \A t, u \in Threads, r \in Recs : Unlinked(t, r) =>
        ~Found(u, r) /\ (Unlinked(u, r) => u = t)

\* A row about to be deleted has no association any more
DeletesUnlinked ==
    \A t \in Threads : job[t].pc = "delrow" => job[t].rec \notin links

MirrorOwned == LinkHasRow /\ UnlinkedHasRow /\ CreatorAlone /\ DeletesUnlinked

WellTyped == TypeOK /\ InFlightSound

----------------------------------------------------------------------------
\* The null records of a record, a request and a job are well typed
LEMMA NullTypes == /\ NoRec \in Rec /\ NoReq \in Req /\ NoJob \in Job
                   /\ SoundReq(NoReq) /\ SoundJob(NoJob)
BY DEF NoRec, Rec, NoReq, Req, NoJob, Job, OpKinds, SoundReq, SoundJob, Running

\* A request that Begin makes is well typed
LEMMA BeginType ==
    ASSUME NEW op \in OpKinds, NEW s \in Sets, NEW ttl \in Ttls, NEW todo \in SUBSET Item,
           \A i \in todo : SoundItem(i)
    PROVE  Begin(op, s, ttl, todo) \in Req /\ SoundReq(Begin(op, s, ttl, todo))
BY DEF Begin, NoReq, Req, SoundReq, OpKinds

\* Starting a request (Start) keeps all types
LEMMA StartType ==
    ASSUME WellTyped, NEW t \in Threads, NEW q \in Req, SoundReq(q), MayStart(t), Start(t, q),
           UNCHANGED <<recs, rows, links, dev, job, faults>>,
           rsets' \in [Sets -> Ttls \cup {None}]
    PROVE  WellTyped'
<1>1. ops' \in 0..MaxOps
    BY RecordSetsAssumption DEF WellTyped, TypeOK, MayStart, Start
<1>2. req' \in [Threads -> Req] /\ ReqsSound'
    BY DEF WellTyped, TypeOK, InFlightSound, ReqsSound, Start
<1> QED
    BY <1>1, <1>2 DEF WellTyped, TypeOK, InFlightSound, RecsSound, JobsSound, Exists

\* Calling the worker for one record (Call) keeps the types of request and job
LEMMA CallType ==
    ASSUME WellTyped, NEW t \in Threads, NEW i \in req[t].todo, NEW r \in Recs,
           NEW j \in [act : {"CREATE", "UPDATE", "DELETE"}, of : Sets \cup {None}],
           req[t].pc = "next", j.act # "DELETE" => i.data \in Data, Call(t, i, r, j)
    PROVE  /\ req' \in [Threads -> Req] /\ ReqsSound'
           /\ job' \in [Threads -> Job] /\ JobsSound'
<1>1. req[t] \in Req /\ i \in Item /\ SoundReq(req[t])
    BY DEF WellTyped, TypeOK, Req, InFlightSound, ReqsSound
<1> DEFINE new == [NoJob EXCEPT !.pc = "read", !.act = j.act, !.rec = r, !.set = req[t].set,
                      !.of = j.of, !.data = i.data, !.ttl = req[t].ttl, !.newttl = req[t].newttl]
<1>2. new \in Job /\ SoundJob(new)
    BY <1>1 DEF NoJob, Job, Req, Item, SoundReq, SoundJob
<1>3. job' \in [Threads -> Job] /\ JobsSound'
    <2> HIDE DEF new
    <2>1. job' = [job EXCEPT ![t] = new]
        BY DEF Call, new
    <2> QED  BY <1>2, <2>1 DEF WellTyped, TypeOK, InFlightSound, JobsSound
<1>4. req' \in [Threads -> Req]
    BY DEF Call, WellTyped, TypeOK, Req
<1>5. ReqsSound'
    BY <1>1 DEF Call, WellTyped, TypeOK, Req, InFlightSound, ReqsSound, SoundReq
<1> QED  BY <1>3, <1>4, <1>5

\* What a job becomes at its next step (JobTo) keeps its type
LEMMA JobType ==
    ASSUME WellTyped, NEW t \in Threads, NEW j \in Job, SoundJob(j), job' = [job EXCEPT ![t] = j]
    PROVE  job' \in [Threads -> Job] /\ JobsSound'
BY DEF WellTyped, TypeOK, InFlightSound, JobsSound

\* What a thread does is well typed (the object form of InFlightSound)
LEMMA StepTypes ==
    ASSUME WellTyped, NEW t \in Threads
    PROVE  /\ req[t] \in Req /\ SoundReq(req[t]) /\ job[t] \in Job /\ SoundJob(job[t])
BY DEF WellTyped, TypeOK, InFlightSound, ReqsSound, JobsSound

\* Requests: a new request is well typed
LEMMA RequestsType ==
    ASSUME WellTyped, NEW t \in Threads, Requests(t)
    PROVE  WellTyped'
<1> USE DEF OpKinds
<1>1. PICK s \in Sets :
        \/ \E ttl \in Ttls : \E ds \in SUBSET Data \ {{}} : CreateRecordset(t, s, ttl, ds)
        \/ \E es \in SUBSET Changes, ttl \in Ttls :
              \E ds \in {x \in SUBSET Data : Cardinality(x) <= 1} : UpdateRecordset(t, s, ttl, es, ds)
        \/ \E ttl \in Ttls : UpdateTtl(t, s, ttl)
        \/ DeleteRecordset(t, s)
        \/ \E d \in Data : OneRecord(t, "addrec", s, Entry("create", None, d))
        \/ \E r \in RecordsOf(s), d \in Data : OneRecord(t, "updrec", s, Entry("update", r, d))
        \/ \E r \in RecordsOf(s) : OneRecord(t, "delrec", s, Entry("delete", r, None))
    BY DEF Requests
<1>2. MayStart(t)
    BY DEF Requests
<1>3. \A r \in RecordsOf(s) : r \in Recs /\ recs[r].data \in Data
    BY DEF RecordsOf, WellTyped, InFlightSound, RecsSound
<1>4. Live(s) => rsets[s] \in Ttls
    BY DEF Live, WellTyped, TypeOK
<1>5. /\ \A d \in Data : Entry("create", None, d) \in Item /\ SoundItem(Entry("create", None, d))
      /\ \A r \in Recs, d \in Data : /\ Entry("update", r, d) \in Item
                                     /\ SoundItem(Entry("update", r, d))
      /\ \A r \in Recs : Entry("delete", r, None) \in Item /\ SoundItem(Entry("delete", r, None))
    BY DEF Entry, Item, SoundItem
<1>6. ASSUME NEW ttl \in Ttls, NEW ds \in SUBSET Data, CreateRecordset(t, s, ttl, ds)
      PROVE  WellTyped'
    <2> DEFINE todo == {Entry("create", None, d) : d \in ds}
    <2>1. todo \in SUBSET Item /\ \A i \in todo : SoundItem(i)
        BY <1>5
    <2>2. rsets' \in [Sets -> Ttls \cup {None}]
        BY <1>6 DEF CreateRecordset, WellTyped, TypeOK
    <2> HIDE DEF todo
    <2>3. Begin("create", s, ttl, todo) \in Req /\ SoundReq(Begin("create", s, ttl, todo))
        BY <2>1, BeginType
    <2>4. Start(t, Begin("create", s, ttl, todo))
        BY <1>6 DEF CreateRecordset, todo
    <2> QED  BY <1>2, <1>6, <2>2, <2>3, <2>4, StartType DEF CreateRecordset
<1>7. ASSUME NEW es \in SUBSET Changes, NEW ttl \in Ttls, NEW ds \in SUBSET Data,
             UpdateRecordset(t, s, ttl, es, ds)
      PROVE  WellTyped'
    <2> DEFINE todo == es \cup {Entry("create", None, d) : d \in ds}
    <2>1. \A i \in es : i \in Item /\ SoundItem(i)
        BY <1>5 DEF Changes
    <2>2. todo \in SUBSET Item /\ \A i \in todo : SoundItem(i)
        BY <1>5, <2>1
    <2>3. Start(t, Begin("update", s, ttl, todo))
        BY <1>7 DEF UpdateRecordset
    <2> HIDE DEF todo
    <2>4. Begin("update", s, ttl, todo) \in Req /\ SoundReq(Begin("update", s, ttl, todo))
        BY <2>2, BeginType
    <2>5. UNCHANGED <<rsets, recs, rows, links, dev, job, faults>>
        BY <1>7 DEF UpdateRecordset
    <2> QED  BY <1>2, <2>3, <2>4, <2>5, StartType DEF WellTyped, TypeOK
<1>8. ASSUME NEW op \in OpKinds, NEW ttl \in Ttls, NEW todo \in SUBSET Item,
             \A i \in todo : SoundItem(i),
             Start(t, Begin(op, s, ttl, todo)), UNCHANGED <<rsets, recs, rows, links, dev, job, faults>>
      PROVE  WellTyped'
    <2>1. Begin(op, s, ttl, todo) \in Req /\ SoundReq(Begin(op, s, ttl, todo))
        BY <1>8, BeginType
    <2> QED  BY <1>2, <1>8, <2>1, StartType DEF WellTyped, TypeOK
<1>9. ASSUME NEW ttl \in Ttls, UpdateTtl(t, s, ttl)
      PROVE  WellTyped'
    <2> DEFINE todo == {Entry("update", r, recs[r].data) : r \in RecordsOf(s)}
    <2>1. todo \in SUBSET Item /\ \A i \in todo : SoundItem(i)
        BY <1>3, <1>5
    <2>2. Start(t, Begin("ttl", s, ttl, todo))
        BY <1>9 DEF UpdateTtl
    <2> HIDE DEF todo
    <2> QED  BY <1>8, <1>9, <2>1, <2>2 DEF UpdateTtl
<1>10. ASSUME DeleteRecordset(t, s)
       PROVE  WellTyped'
    <2> DEFINE todo == {Entry("delete", r, None) : r \in RecordsOf(s)}
    <2>1. todo \in SUBSET Item /\ \A i \in todo : SoundItem(i)
        BY <1>3, <1>5
    <2>2. Start(t, Begin("delete", s, rsets[s], todo))
        BY <1>10 DEF DeleteRecordset
    <2> HIDE DEF todo
    <2>3. rsets[s] \in Ttls
        BY <1>4, <1>10 DEF DeleteRecordset
    <2> QED  BY <1>8, <1>10, <2>1, <2>2, <2>3 DEF DeleteRecordset
<1>11. ASSUME NEW op \in OpKinds, NEW i \in Item, SoundItem(i),
              OneRecord(t, op, s, i)
       PROVE  WellTyped'
    <2>1. rsets[s] \in Ttls
        BY <1>4, <1>11 DEF OneRecord
    <2>2. {i} \in SUBSET Item /\ \A k \in {i} : SoundItem(k)
        BY <1>11
    <2> QED  BY <1>8, <1>11, <2>1, <2>2 DEF OneRecord
<1>12. ASSUME NEW d \in Data, OneRecord(t, "addrec", s, Entry("create", None, d))
       PROVE  WellTyped'
    BY <1>5, <1>11, <1>12
<1>13. ASSUME NEW r \in RecordsOf(s), NEW d \in Data, OneRecord(t, "updrec", s, Entry("update", r, d))
       PROVE  WellTyped'
    BY <1>3, <1>5, <1>11, <1>13
<1>14. ASSUME NEW r \in RecordsOf(s), OneRecord(t, "delrec", s, Entry("delete", r, None))
       PROVE  WellTyped'
    BY <1>3, <1>5, <1>11, <1>14
<1> QED
    BY <1>1, <1>6, <1>7, <1>9, <1>10, <1>12, <1>13, <1>14

\* NextRecord: central takes up the next record of a request
LEMMA NextRecordType ==
    ASSUME WellTyped, NEW t \in Threads, NextRecord(t)
    PROVE  WellTyped'
<1>1. PICK i \in req[t].todo : CreateOne(t, i) \/ UpdateOne(t, i) \/ DeleteOne(t, i)
    BY DEF NextRecord
<1>2. req[t].pc = "next"
    BY DEF NextRecord
<1>3. req[t].set \in Sets /\ i \in Item /\ SoundItem(i)
    BY <1>2, StepTypes DEF Req, SoundReq
<1>4. CASE CreateOne(t, i)
    <2>1. CASE req' = [req EXCEPT ![t] = NoReq] /\ UNCHANGED <<recs, job>>
        <3>1. req' \in [Threads -> Req] /\ ReqsSound'
            BY <2>1, NullTypes DEF WellTyped, TypeOK, InFlightSound, ReqsSound
        <3> QED  BY <1>4, <2>1, <3>1
                 DEF CreateOne, WellTyped, TypeOK, InFlightSound, RecsSound, JobsSound, Exists
    <2>2. ASSUME NEW r \in Recs, recs' = Stores(req[t].set, r, i.data),
                 Call(t, i, r, [act |-> "CREATE", of |-> req[t].set])
          PROVE  WellTyped'
        <3>1. /\ req' \in [Threads -> Req] /\ ReqsSound'
              /\ job' \in [Threads -> Job] /\ JobsSound'
            BY <1>2, <1>3, <1>4, <2>2, CallType DEF CreateOne, SoundItem
        <3>2. recs' \in [Recs -> Rec] /\ RecsSound'
            <4>1. i.data \in Data
                BY <1>3, <1>4 DEF CreateOne, SoundItem
            <4> QED  BY <1>3, <2>2, <4>1
                     DEF Stores, Rec, WellTyped, TypeOK, InFlightSound, RecsSound, Exists
        <3> QED  BY <1>4, <3>1, <3>2 DEF CreateOne, WellTyped, TypeOK, InFlightSound
    <2> QED  BY <1>4, <2>1, <2>2 DEF CreateOne
<1>5. CASE UpdateOne(t, i)
    <2>1. /\ req' \in [Threads -> Req] /\ ReqsSound'
          /\ job' \in [Threads -> Job] /\ JobsSound'
        BY <1>2, <1>3, <1>5, CallType DEF UpdateOne, SoundItem
    <2> QED  BY <1>5, <2>1 DEF UpdateOne, WellTyped, TypeOK, InFlightSound, RecsSound, Exists
<1>6. CASE DeleteOne(t, i)
    <2>1. /\ req' \in [Threads -> Req] /\ ReqsSound'
          /\ job' \in [Threads -> Job] /\ JobsSound'
        BY <1>2, <1>3, <1>6, CallType DEF DeleteOne, SoundItem
    <2> QED  BY <1>6, <2>1 DEF DeleteOne, WellTyped, TypeOK, InFlightSound, RecsSound, Exists
<1> QED  BY <1>1, <1>4, <1>5, <1>6

\* JobReturns, JobRaises, DropAnswer, EndRequest: an answer, and the end of a request
LEMMA AnswerType ==
    ASSUME WellTyped, NEW t \in Threads,
           JobReturns(t) \/ JobRaises(t) \/ DropAnswer(t) \/ EndRequest(t)
    PROVE  WellTyped'
<1>1. job' = job \/ job' = [job EXCEPT ![t] = NoJob]
    BY DEF JobReturns, JobRaises, DropAnswer, EndRequest
<1>2. job' \in [Threads -> Job] /\ JobsSound'
    BY <1>1, NullTypes DEF WellTyped, TypeOK, InFlightSound, JobsSound
<1>3. req' \in [Threads -> Req] /\ ReqsSound'
    <2>1. CASE JobReturns(t)
        <3> DEFINE q == [req[t] EXCEPT !.pc = "next", !.failed = @ \/ ~job[t].answered]
        <3>1. q \in Req /\ SoundReq(q)
            BY <2>1, StepTypes DEF JobReturns, Req, SoundReq
        <3>2. req' = [req EXCEPT ![t] = q]
            BY <2>1 DEF JobReturns, WellTyped, TypeOK
        <3> QED  BY <3>1, <3>2 DEF WellTyped, TypeOK, InFlightSound, ReqsSound
    <2>2. CASE req' = req \/ req' = [req EXCEPT ![t] = NoReq]
        BY <2>2, NullTypes DEF WellTyped, TypeOK, InFlightSound, ReqsSound
    <2> QED  BY <2>1, <2>2 DEF JobRaises, DropAnswer, EndRequest
<1>4. rsets' \in [Sets -> Ttls \cup {None}] /\ recs' \in [Recs -> Rec] /\ RecsSound'
    BY NullTypes DEF JobReturns, JobRaises, DropAnswer, EndRequest, DropSet, NoRec,
                     WellTyped, TypeOK, InFlightSound, RecsSound, Exists
<1>5. UNCHANGED <<rows, links, dev, faults, ops>>
    BY DEF JobReturns, JobRaises, DropAnswer, EndRequest
<1> QED  BY <1>2, <1>3, <1>4, <1>5 DEF WellTyped, TypeOK, InFlightSound

\* A job that only moves on, to a step that needs no more than it has
LEMMA JobToType ==
    ASSUME WellTyped, NEW t \in Threads,
           NEW x \in {"link", "updrow", "settle", "delrow", "delrec", "error", "done", "raised"},
           JobTo(t, x), x \in Running => job[t].pc \in Running,
           x = "link" => job[t].act = "CREATE", x = "updrow" => job[t].rr \in RrIds,
           x \in {"updrow", "settle"} => job[t].act # "DELETE"
    PROVE  job' \in [Threads -> Job] /\ JobsSound'
<1> DEFINE j == [job[t] EXCEPT !.pc = x]
<1>1. j \in Job /\ SoundJob(j)
    BY StepTypes DEF Job, SoundJob, Running
<1>2. job' = [job EXCEPT ![t] = j]
    BY DEF JobTo, WellTyped, TypeOK
<1> QED  BY <1>1, <1>2, JobType

\* JobRead, JobDeviceOk, JobDeviceRefuses, JobAnswerLost: up to the device
LEMMA DeviceType ==
    ASSUME WellTyped, NEW t \in Threads,
           JobRead(t) \/ JobDeviceOk(t) \/ JobDeviceRefuses(t) \/ JobAnswerLost(t)
    PROVE  WellTyped'
<1>0. job[t] \in Job /\ SoundJob(job[t])
    BY StepTypes
<1>1. \A x \in DeviceResults(job[t]) : job[t].pc = "device" => x \in Rr \cup {None}
    BY <1>0 DEF DeviceResults, Rr, SoundJob, Running
<1>2. dev' \in [Recs -> Rr \cup {None}]
    BY <1>1 DEF JobRead, JobDeviceOk, JobDeviceRefuses, JobAnswerLost, WellTyped, TypeOK
<1>3. job' \in [Threads -> Job] /\ JobsSound'
    <2>1. CASE JobRead(t)
        <3> DEFINE found == job[t].rec \in links /\ rows[job[t].rec] # None
                   j == [job[t] EXCEPT
                           !.pc = IF job[t].act = "CREATE" \/ found THEN "device" ELSE "error",
                           !.rr = IF job[t].act # "CREATE" /\ found THEN rows[job[t].rec].id ELSE None]
        <3>1. found => rows[job[t].rec].id \in RrIds
            BY DEF WellTyped, TypeOK, Rr
        <3>2. job' = [job EXCEPT ![t] = j]
            BY <2>1 DEF JobRead, WellTyped, TypeOK
        <3> HIDE DEF found
        <3>3. j \in Job /\ SoundJob(j)
            BY <1>0, <2>1, <3>1 DEF JobRead, Job, SoundJob, Running
        <3> QED  BY <3>2, <3>3, JobType
    <2>2. CASE JobDeviceOk(t)
        <3>1. PICK x \in DeviceResults(job[t]) :
                job' = [job EXCEPT ![t].pc = AfterDevice(job[t].act), ![t].answered = TRUE,
                                   ![t].rr = IF x = None THEN @ ELSE x.id]
            BY <2>2 DEF JobDeviceOk
        <3> DEFINE j == [job[t] EXCEPT !.pc = AfterDevice(job[t].act), !.answered = TRUE,
                                       !.rr = IF x = None THEN @ ELSE x.id]
        <3>2. job' = [job EXCEPT ![t] = j]
            BY <3>1 DEF WellTyped, TypeOK
        <3>3. job[t].pc = "device" /\ job[t].act \in {"CREATE", "UPDATE", "DELETE"}
            BY <1>0, <2>2 DEF JobDeviceOk, SoundJob, Running
        <3>4. x \in Rr \cup {None} /\ (job[t].act # "DELETE" => x # None)
            BY <1>0, <1>1, <3>3, RecordSetsAssumption DEF DeviceResults, Rr, SoundJob, Running
        <3>5. AfterDevice(job[t].act) = IF job[t].act = "CREATE" THEN "row"
                                        ELSE IF job[t].act = "UPDATE" THEN "setttl" ELSE "unlink"
            BY <3>3 DEF AfterDevice
        <3>6. j \in Job /\ SoundJob(j)
            BY <1>0, <3>3, <3>4, <3>5 DEF Job, SoundJob, Running, Rr
        <3> QED  BY <3>2, <3>6, JobType
    <2>3. CASE JobDeviceRefuses(t) \/ JobAnswerLost(t)
        BY <2>3, JobToType DEF JobDeviceRefuses, JobAnswerLost, Running
    <2> QED  BY <2>1, <2>2, <2>3
<1>4. UNCHANGED <<rsets, recs, rows, links, req, faults, ops>>
    BY DEF JobRead, JobDeviceOk, JobDeviceRefuses, JobAnswerLost
<1> QED  BY <1>2, <1>3, <1>4 DEF WellTyped, TypeOK, InFlightSound, RecsSound, ReqsSound, Exists

\* The callbacks of a job to central, and their failure
LEMMA CallbackType ==
    ASSUME WellTyped, NEW t \in Threads,
           \/ JobCreateRow(t) \/ JobLink(t) \/ JobSetTtl(t) \/ JobUpdateRow(t) \/ JobSettle(t)
           \/ JobUnlink(t) \/ JobDeleteRow(t) \/ JobDeleteRecord(t) \/ JobError(t)
           \/ JobCallbackFails(t)
    PROVE  WellTyped'
<1> USE DEF JobCreateRow, JobLink, JobSetTtl, JobUpdateRow, JobSettle, JobUnlink,
            JobDeleteRow, JobDeleteRecord, JobError, JobCallbackFails
<1>0. job[t] \in Job /\ SoundJob(job[t])
    BY StepTypes
<1>1. job' \in [Threads -> Job] /\ JobsSound'
    BY <1>0, JobToType DEF SoundJob, Running
<1>2. rows' \in [Recs -> Rr \cup {None}] /\ links' \subseteq Recs
    BY <1>0 DEF Answer, Rr, SoundJob, Running, WellTyped, TypeOK
<1>3. rsets' \in [Sets -> Ttls \cup {None}]
    BY <1>0 DEF SoundJob, Running, WellTyped, TypeOK
<1>4. recs' \in [Recs -> Rec] /\ RecsSound'
    <2>1. CASE recs' = recs
        BY <2>1 DEF WellTyped, TypeOK, InFlightSound, RecsSound, Exists
    <2>2. CASE recs' = [recs EXCEPT ![job[t].rec] = NoRec]
        BY <2>2, NullTypes DEF NoRec, WellTyped, TypeOK, InFlightSound, RecsSound, Exists
    <2>3. CASE job[t].pc = "settle" /\ recs' = Settled(job[t])
        <3> DEFINE r == job[t].rec
                   row == [recs[r] EXCEPT !.status = "ACTIVE", !.data = job[t].data,
                                          !.hash = <<job[t].of, job[t].data>>]
        <3>1. r \in Recs /\ job[t].data \in Data /\ job[t].of \in Sets \cup {None}
            BY <1>0, <2>3 DEF Job, SoundJob, Running
        <3>2. recs[r] \in Rec
            BY <3>1 DEF WellTyped, TypeOK
        <3>3. row \in Rec /\ row.data \in Data
            BY <3>1, <3>2 DEF Rec
        <3>4. recs' = [recs EXCEPT ![r] = row]
            BY <2>3 DEF Settled, WellTyped, TypeOK
        <3> HIDE DEF row, r
        <3> QED  BY <3>1, <3>3, <3>4 DEF WellTyped, TypeOK, InFlightSound, RecsSound, Exists
    <2> QED  BY <2>1, <2>2, <2>3
<1>5. dev' = dev /\ req' = req /\ ops' = ops /\ faults' \in 0..MaxFaults
    BY RecordSetsAssumption DEF WellTyped, TypeOK
<1> QED  BY <1>1, <1>2, <1>3, <1>4, <1>5 DEF WellTyped, TypeOK, InFlightSound, ReqsSound

\* Every step keeps the types
LEMMA TypeStep == WellTyped /\ [Next]_vars => WellTyped'
<1> SUFFICES ASSUME WellTyped, [Next]_vars PROVE WellTyped'
    OBVIOUS
<1>1. CASE UNCHANGED vars
    BY <1>1 DEF vars, WellTyped, TypeOK, InFlightSound, RecsSound, ReqsSound, JobsSound, Exists
<1>2. ASSUME NEW t \in Threads, Requests(t) \/ ReqStep(t) \/ JobStep(t) \/ JobCallbackFails(t)
      PROVE  WellTyped'
    BY <1>2, RequestsType, NextRecordType, AnswerType, DeviceType, CallbackType
    DEF ReqStep, JobStep
<1> QED  BY <1>1, <1>2 DEF Next

\* The initial states have the declared types
LEMMA TypeInit == Init => WellTyped
BY NullTypes, RecordSetsAssumption
DEF Init, WellTyped, TypeOK, InFlightSound, RecsSound, ReqsSound, JobsSound, Exists, NoRec

\* Every reachable state has the declared types (the records table, the mirror,
\* the device and what central threads and RecordAction jobs carry), whatever
\* requests overlap and whatever fails
THEOREM TypeCorrect == Spec => []TypeOK
<1>1. Spec => []WellTyped
    BY TypeInit, TypeStep, PTL DEF Spec
<1>2. WellTyped => TypeOK
    BY DEF WellTyped
<1> QED  BY <1>1, <1>2, PTL

----------------------------------------------------------------------------
\* The calls of central keep the ownership: create_record takes a new record id
LEMMA CentralKeepsMirror ==
    ASSUME WellTyped, MirrorOwned, NEW t \in Threads, Requests(t) \/ ReqStep(t)
    PROVE  MirrorOwned'
<1> USE DEF MirrorOwned, LinkHasRow, UnlinkedHasRow, CreatorAlone, DeletesUnlinked, Unlinked, Found
<1>1. CASE UNCHANGED <<rows, links, job>>
    BY <1>1
<1>2. UNCHANGED <<rows, links>>
    BY DEF Requests, CreateRecordset, UpdateRecordset, UpdateTtl, DeleteRecordset, OneRecord,
           ReqStep, NextRecord, CreateOne, UpdateOne, DeleteOne, JobReturns, JobRaises,
           DropAnswer, EndRequest
<1>3. CASE job' = [job EXCEPT ![t] = NoJob]
    BY <1>2, <1>3 DEF WellTyped, TypeOK, NoJob
<1>4. ASSUME NEW i, NEW r, NEW j, Call(t, i, r, j), j.act # "CREATE"
      PROVE  MirrorOwned'
    <2> DEFINE new == [NoJob EXCEPT !.pc = "read", !.act = j.act, !.rec = r, !.set = req[t].set,
                          !.of = j.of, !.data = i.data, !.ttl = req[t].ttl, !.newttl = req[t].newttl]
    <2>1. new.pc = "read" /\ new.act # "CREATE" /\ new.rec = r
        BY <1>4 DEF NoJob
    <2>2. job' = [job EXCEPT ![t] = new]
        BY <1>4 DEF Call
    <2> HIDE DEF new
    <2> QED  BY <1>2, <2>1, <2>2 DEF WellTyped, TypeOK
<1>5. ASSUME NEW i, NEW r \in Recs, NEW j, Call(t, i, r, j), j.act = "CREATE", Fresh(r)
      PROVE  MirrorOwned'
    <2> DEFINE new == [NoJob EXCEPT !.pc = "read", !.act = j.act, !.rec = r, !.set = req[t].set,
                          !.of = j.of, !.data = i.data, !.ttl = req[t].ttl, !.newttl = req[t].newttl]
    <2>1. new.pc = "read" /\ new.act = "CREATE" /\ new.rec = r
        BY <1>5 DEF NoJob
    <2>2. job' = [job EXCEPT ![t] = new]
        BY <1>5 DEF Call
    <2>3. r \notin links /\ \A u \in Threads : job[u].rec # r
        BY <1>5 DEF Fresh
    <2> HIDE DEF new
    <2> QED  BY <1>2, <2>1, <2>2, <2>3 DEF WellTyped, TypeOK
<1>6. CASE Requests(t)
    BY <1>1, <1>6 DEF Requests, CreateRecordset, UpdateRecordset, UpdateTtl, DeleteRecordset, OneRecord
<1>7. CASE NextRecord(t)
    <2>1. PICK i \in req[t].todo : CreateOne(t, i) \/ UpdateOne(t, i) \/ DeleteOne(t, i)
        BY <1>7 DEF NextRecord
    <2>2. CASE CreateOne(t, i)
        BY <1>1, <1>2, <1>5, <2>2 DEF CreateOne
    <2>3. CASE UpdateOne(t, i)
        BY <1>4, <2>3 DEF UpdateOne
    <2>4. CASE DeleteOne(t, i)
        BY <1>4, <2>4 DEF DeleteOne
    <2> QED  BY <2>1, <2>2, <2>3, <2>4
<1>8. CASE JobReturns(t) \/ JobRaises(t) \/ DropAnswer(t) \/ EndRequest(t)
    BY <1>1, <1>2, <1>3, <1>8 DEF JobReturns, JobRaises, DropAnswer, EndRequest
<1> QED  BY <1>6, <1>7, <1>8 DEF ReqStep

\* The steps of RecordAction keep the ownership of the mirror
LEMMA JobKeepsMirror ==
    ASSUME WellTyped, MirrorOwned, NEW t \in Threads, JobStep(t) \/ JobCallbackFails(t)
    PROVE  MirrorOwned'
<1> USE DEF MirrorOwned, LinkHasRow, UnlinkedHasRow, CreatorAlone, DeletesUnlinked, Unlinked, Found
<1>0. job[t] \in Job /\ SoundJob(job[t]) /\ job \in [Threads -> Job]
      /\ rows \in [Recs -> Rr \cup {None}] /\ links \subseteq Recs /\ None \notin Rr
    BY StepTypes, RecordSetsAssumption DEF WellTyped, TypeOK, Rr
<1>1. ASSUME NEW x, JobTo(t, x), x \notin {"device", "read", "row", "link", "unlink", "delrow"},
             UNCHANGED <<rows, links>>
      PROVE  MirrorOwned'
    BY <1>0, <1>1 DEF JobTo, Job
<1>2. CASE JobRead(t)
    BY <1>0, <1>2 DEF JobRead, Job
<1>3. CASE JobDeviceOk(t)
    <2>1. job[t].act \in {"CREATE", "UPDATE", "DELETE"} /\ job[t].pc = "device"
        BY <1>0, <1>3 DEF JobDeviceOk, SoundJob, Running
    <2>2. PICK x : job' = [job EXCEPT ![t].pc = AfterDevice(job[t].act), ![t].answered = TRUE,
                                      ![t].rr = IF x = None THEN @ ELSE x.id]
        BY <1>3 DEF JobDeviceOk
    <2>3. AfterDevice(job[t].act) = IF job[t].act = "CREATE" THEN "row"
                                    ELSE IF job[t].act = "UPDATE" THEN "setttl" ELSE "unlink"
        BY <2>1 DEF AfterDevice
    <2>4. UNCHANGED <<rows, links>>
        BY <1>3 DEF JobDeviceOk
    <2>5. /\ \A u \in Threads \ {t} : job'[u] = job[u]
          /\ job'[t].rec = job[t].rec /\ job'[t].act = job[t].act
          /\ job'[t].pc = AfterDevice(job[t].act)
        BY <1>0, <2>2 DEF Job
    <2> QED  BY <1>0, <2>1, <2>3, <2>4, <2>5
<1>4. CASE JobCreateRow(t)
    BY <1>0, <1>4 DEF JobCreateRow, JobTo, Job, SoundJob, Running, Answer, Rr
<1>5. CASE JobLink(t)
    BY <1>0, <1>5 DEF JobLink, JobTo, Job, SoundJob, Running
<1>6. CASE JobUpdateRow(t)
    <2>1. links' = links /\ \A r \in Recs : rows[r] # None => rows'[r] # None
        BY <1>0, <1>6 DEF JobUpdateRow, SoundJob, Running, Answer, Rr
    <2>2. PICK x \in {"settle", "error"} : JobTo(t, x)
        BY <1>6 DEF JobUpdateRow
    <2> QED  BY <1>0, <2>1, <2>2 DEF JobTo, Job
<1>7. CASE JobUnlink(t)
    BY <1>0, <1>7 DEF JobUnlink, JobTo, Job
<1>8. CASE JobDeleteRow(t)
    BY <1>0, <1>8 DEF JobDeleteRow, JobTo, Job
<1>9. CASE \/ JobDeviceRefuses(t) \/ JobAnswerLost(t) \/ JobSetTtl(t) \/ JobSettle(t)
           \/ JobDeleteRecord(t) \/ JobError(t) \/ JobCallbackFails(t)
    BY <1>1, <1>9 DEF JobDeviceRefuses, JobAnswerLost, JobSetTtl, JobSettle, JobDeleteRecord,
                      JobError, JobCallbackFails
<1> QED  BY <1>2, <1>3, <1>4, <1>5, <1>6, <1>7, <1>8, <1>9 DEF JobStep

\* No association ever leads to a missing zdns row: update_record_status and
\* get_zdns_record after get_record_association find the row, whatever requests
\* interleave on a record, time out or fail
THEOREM LinksHaveRows == Spec => []LinkHasRow
<1>1. Init => WellTyped /\ MirrorOwned
    BY TypeInit DEF Init, NoJob, MirrorOwned, LinkHasRow, UnlinkedHasRow, CreatorAlone,
                    DeletesUnlinked, Unlinked, Found
<1>2. WellTyped /\ MirrorOwned /\ [Next]_vars => (WellTyped /\ MirrorOwned)'
    <2> SUFFICES ASSUME WellTyped, MirrorOwned, [Next]_vars PROVE MirrorOwned'
        BY TypeStep
    <2>1. CASE UNCHANGED vars
        BY <2>1 DEF vars, MirrorOwned, LinkHasRow, UnlinkedHasRow, CreatorAlone,
                    DeletesUnlinked, Unlinked, Found
    <2> QED  BY <2>1, CentralKeepsMirror, JobKeepsMirror DEF Next
<1>3. MirrorOwned => LinkHasRow
    BY DEF MirrorOwned
<1> QED  BY <1>1, <1>2, <1>3, PTL DEF Spec
=============================================================================
