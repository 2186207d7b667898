------------------------------ MODULE RpcPools ------------------------------
(***************************************************************************)
(* designate-central and designate-worker wait for each other: a request   *)
(* holds one of central's RPC threads while it waits for the worker, the   *)
(* worker's task holds an RPC thread and an executor thread while it waits *)
(* for the device and then for central, which must store what the device   *)
(* answered.  recover_shard waits, in an executor thread, for a zone task  *)
(* of the same worker.  Only the RPC timeouts undo such circles; the HTTP  *)
(* requests to the device have none.                                       *)
(*                                                                         *)
(* What the calls do to the database and to the device is the subject of   *)
(* ZoneLifecycle and RecordSets; here a call only takes and frees threads. *)
(***************************************************************************)
EXTENDS Naturals, FiniteSets

CONSTANTS
    Requests,      \* requests to central that end in a call of the worker
    Shards,        \* recover_shard calls of the producers
    CentralSlots,  \* RPC threads of central
    WorkerSlots,   \* RPC threads of the worker
    Threads,       \* threads of the worker's executor
    MaxSilent      \* bound: requests the device never answers

RpcPoolsAssumption ==
    /\ CentralSlots \in Nat \ {0} /\ WorkerSlots \in Nat \ {0} /\ MaxSilent \in Nat
    /\ Threads \in Nat /\ Threads >= WorkerSlots  \* 200 and 64 by default

Child(s) == <<"zone of", s>>      \* the zone task that recover_shard s asks for
Jobs == Requests \cup Shards \cup {Child(s) : s \in Shards}

VARIABLES
    req,         \* central's side of a request
    job,         \* the worker's side of a call
    pool,        \* the worker has loaded the pool (pools_map)
    configured   \* the pool and its targets are in the database

vars == <<req, job, pool, configured>>

Ended == {"done", "failed"}
\* The call holds an RPC thread of the worker, and in InTask an executor thread.
InTask == {"device", "silent", "mirror", "status", "error", "rpc"}
InHandler == InTask \cup {"handler"}

Init ==
    /\ req = [r \in Requests |-> "new"]
    /\ job = [j \in Jobs |-> "none"]
    /\ pool = FALSE /\ configured \in BOOLEAN

CentralFree == Cardinality({r \in Requests : req[r] = "calling"}) < CentralSlots
\* Faulty variant: one call too many gets a thread.
WorkerFreeOneMore == Cardinality({j \in Jobs : job[j] \in InHandler}) <= WorkerSlots
WorkerFree == Cardinality({j \in Jobs : job[j] \in InHandler}) < WorkerSlots
ThreadFree == Cardinality({j \in Jobs : job[j] \in InTask}) < Threads

JobGoes(j, pc) == job' = [job EXCEPT ![j] = pc] /\ UNCHANGED <<req, pool, configured>>

-----------------------------------------------------------------------------
(* Central.                                                                *)

Submit(r) ==
    /\ req[r] = "new"
    /\ req' = [req EXCEPT ![r] = "queued"]
    /\ UNCHANGED <<job, pool, configured>>

\* central takes the request and calls the worker, synchronously.
CallWorker(r) ==
    /\ req[r] = "queued" /\ CentralFree
    /\ req' = [req EXCEPT ![r] = "calling"]
    /\ job' = [job EXCEPT ![r] = "queued"]
    /\ UNCHANGED <<pool, configured>>

Answered(r) ==
    /\ req[r] = "calling" /\ job[r] \in Ended
    /\ req' = [req EXCEPT ![r] = job[r]]
    /\ UNCHANGED <<job, pool, configured>>

\* Faulty variant: central waits for the worker without a timeout.
CallTimesOutNever(r) == req[r] = "calling" /\ FALSE /\ UNCHANGED vars

\* rpc_response_timeout: MessagingTimeout in central; the worker goes on.
CallTimesOut(r) ==
    /\ req[r] = "calling" /\ job[r] \notin Ended
    /\ req' = [req EXCEPT ![r] = "failed"]
    /\ UNCHANGED <<job, pool, configured>>

-----------------------------------------------------------------------------
(* Worker.                                                                 *)

RecoverShardCall(s) == job[s] = "none" /\ JobGoes(s, "queued")

\* The RPC server starts a handler.
Handle(j) == job[j] = "queued" /\ WorkerFree /\ JobGoes(j, "handler")

\* designate-manage pool update.
Configure ==
    /\ ~configured /\ configured' = TRUE
    /\ UNCHANGED <<req, job, pool>>

\* get_pool, load_pool: a handler asks central until the pool has targets; a
\* timeout makes it ask again.
LoadPool(j) ==
    /\ job[j] = "handler" /\ j \notin Shards /\ ~pool
    /\ configured /\ CentralFree
    /\ pool' = TRUE
    /\ UNCHANGED <<req, job, configured>>

\* Executor.run: the task gets a thread, the handler waits for it.
RunTask(j) ==
    /\ job[j] = "handler" /\ ThreadFree
    /\ \/ j \notin Shards /\ pool /\ JobGoes(j, "device")
       \/ /\ j \in Shards
          /\ job' = [job EXCEPT ![j] = "rpc", ![Child(j)] = "queued"]
          /\ UNCHANGED <<req, pool, configured>>

\* The device answers, or refuses: then the error status is next.
DeviceAnswers(j) ==
    /\ job[j] = "device"
    /\ JobGoes(j, "mirror") \/ JobGoes(j, "error")

\* A connection that stays open without an answer: requests.post has no timeout.
DeviceSilent(j) ==
    /\ job[j] = "device"
    /\ Cardinality({k \in Jobs : job[k] = "silent"}) < MaxSilent
    /\ JobGoes(j, "silent")

\* What follows a callback: create_zdns_zone, then update_status; after a
\* failure the ERROR status.
AfterCallback == [mirror |-> "status", status |-> "done", error |-> "failed"]
AfterFailure == [mirror |-> "error", status |-> "error", error |-> "failed"]

\* central serves a callback as soon as one of its threads is free.
Callback(j) ==
    /\ job[j] \in DOMAIN AfterCallback /\ CentralFree
    /\ JobGoes(j, AfterCallback[job[j]])

\* The callback is refused by central or is not served in time.
CallbackTimesOut(j) ==
    /\ job[j] \in DOMAIN AfterFailure
    /\ JobGoes(j, AfterFailure[job[j]])

\* Faulty variant: the task waits for ever for the zone task it asked for.
RecoveryTimesOutNever(s) == job[s] = "rpc" /\ FALSE /\ UNCHANGED vars

\* RecoverShard's call of the worker: answered, or timed out.
RecoveryAnswered(s) == /\ job[s] = "rpc" /\ job[Child(s)] \in Ended
                       /\ JobGoes(s, job[Child(s)])
RecoveryTimesOut(s) == /\ job[s] = "rpc" /\ job[Child(s)] \notin Ended
                       /\ JobGoes(s, "failed")

-----------------------------------------------------------------------------
RequestStep(r) == CallWorker(r) \/ Answered(r) \/ CallTimesOut(r)
JobStep(j) == Handle(j) \/ LoadPool(j) \/ RunTask(j) \/ DeviceAnswers(j)
              \/ Callback(j) \/ CallbackTimesOut(j)
ShardStep(s) == RecoveryAnswered(s) \/ RecoveryTimesOut(s)

Next ==
    \/ \E r \in Requests : Submit(r) \/ RequestStep(r)
    \/ \E s \in Shards : RecoverShardCall(s) \/ ShardStep(s)
    \/ \E j \in Jobs : JobStep(j) \/ DeviceSilent(j)
    \/ Configure

Spec == Init /\ [][Next]_vars

\* What central, the worker and their timeouts do by themselves; nobody has to
\* send a request or to configure the pool.  No call runs twice, so it is enough
\* that something that can go on does so.
SystemStep ==
    \/ \E r \in Requests : RequestStep(r)
    \/ \E s \in Shards : ShardStep(s)
    \/ \E j \in Jobs : JobStep(j)

FairSpec == Spec /\ WF_vars(SystemStep)

-----------------------------------------------------------------------------
(* Properties.                                                             *)

\* Type correctness, and no pool gives away more threads than it has.
TypeOK ==
    /\ req \in [Requests -> {"new", "queued", "calling"} \cup Ended]
    /\ job \in [Jobs -> {"none", "queued"} \cup InHandler \cup Ended]
    /\ Cardinality({r \in Requests : req[r] = "calling"}) <= CentralSlots
    /\ Cardinality({j \in Jobs : job[j] \in InHandler}) <= WorkerSlots

Lost == Cardinality({j \in Jobs : job[j] = "silent"})

\* Every request to central is answered, with an error at worst: whoever waits
\* for whom, a pool that is not configured or a device that is silent.
RequestsEnd == \A r \in Requests : req[r] = "queued" ~> req[r] \in Ended

\* A call that reached the worker ends, also a recovery that waits for another
\* task of the worker, unless the device does not answer this very call, or has
\* taken all threads of the worker that way, or there is no pool.
JobsEnd ==
    \A j \in Jobs : job[j] = "queued" /\ configured ~>
        job[j] \in Ended \cup {"silent"} \/ Lost >= WorkerSlots
=============================================================================
