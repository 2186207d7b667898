----------------------------- MODULE MCDelivery -----------------------------
(***************************************************************************)
(* The services around central, under fairness: the pool manager with all  *)
(* its faults, the threads between central, worker and device, the         *)
(* requests of the backend plugins, the sessions of MiniDNS and the        *)
(* heartbeats.  A behaviour picks one part in its initial state, runs that *)
(* component, and leaves the variables of the others alone.                *)
(***************************************************************************)
EXTENDS PoolManager

CONSTANTS c1, c2, x1, x2

VARIABLES part,
    req, call, pool, configured,
    driver, want, settled, caller, server, failures, turns,
    db, free, loop, ses, out,
    now, running, casts, row, thread, lost

rpcVars == <<req, call, pool, configured>>
backendVars == <<driver, want, settled, caller, server, failures, turns>>
dnsVars == <<db, free, loop, ses, out>>
beatVars == <<now, running, casts, row, thread, lost>>
allVars == <<part, vars, rpcVars, backendVars, dnsVars, beatVars>>

MCTargetOf == [n \in Nameservers |-> CHOOSE t \in Targets : TRUE]
MCPair == {c1, c2}
MCShards == {x1, x2}
MCQueries == [kind : {"axfr", "query"}, scope : {"here"}]
             \cup [kind : {"notify", "other", "broken"}, scope : {"unsigned"}]
\* Two processes of one service on one host.
MCServiceOf == [p \in MCPair |-> "central"]

RpcPart == INSTANCE RpcPools WITH
    Requests <- MCPair, Shards <- MCShards, CentralSlots <- 2, WorkerSlots <- 2,
    Threads <- 2, MaxSilent <- 1, job <- call

BackendPart == INSTANCE Backends WITH
    Callers <- MCPair, MaxFaults <- 3, MaxTurns <- 2, call <- caller,
    faults <- failures

DnsPart == INSTANCE DnsServer WITH
    Sessions <- MCPair, Queries <- MCQueries, Pool <- 1, MaxQueries <- 1,
    Size <- 1, Enforce <- FALSE

BeatPart == INSTANCE Heartbeat WITH
    Processes <- MCPair, ServiceOf <- MCServiceOf, Threads <- MCShards, MaxTime <- 1,
    MaxQueue <- 2, MaxLost <- 1, queue <- casts, call <- thread

ASSUME RpcPart!RpcPoolsAssumption

\* The variables of a part that is not picked.
NoManager ==
    /\ zone = None /\ rec = None /\ aged = None /\ prov = None /\ auth = None
    /\ cache = None /\ queue = None /\ job = None /\ polls = {} /\ reports = None
    /\ rep = None /\ holder = None /\ leading = None /\ timers = None /\ faults = None

NoRpc == req = None /\ call = None /\ pool = None /\ configured = None

NoBackend ==
    /\ driver = None /\ want = None /\ settled = None /\ caller = None
    /\ server = None /\ failures = None /\ turns = None

NoDns == db = None /\ free = None /\ loop = None /\ ses = None /\ out = None

NoBeat == /\ now = None /\ running = None /\ casts = None
          /\ row = None /\ thread = None /\ lost = None

MCInit ==
    /\ part \in {"manager", "rpc", "backend", "dns", "beat"}
    /\ IF part = "manager" THEN Init ELSE NoManager
    /\ IF part = "rpc" THEN RpcPart!Init ELSE NoRpc
    /\ IF part = "backend" THEN BackendPart!Init ELSE NoBackend
    /\ IF part = "dns" THEN DnsPart!Init ELSE NoDns
    /\ IF part = "beat" THEN BeatPart!Init ELSE NoBeat

MCNext ==
    \/ /\ part = "manager" /\ Next
       /\ UNCHANGED <<part, rpcVars, backendVars, dnsVars, beatVars>>
    \/ /\ part = "rpc" /\ RpcPart!Next
       /\ UNCHANGED <<part, vars, backendVars, dnsVars, beatVars>>
    \/ /\ part = "backend" /\ BackendPart!Next
       /\ UNCHANGED <<part, vars, rpcVars, dnsVars, beatVars>>
    \/ /\ part = "dns" /\ DnsPart!Next
       /\ UNCHANGED <<part, vars, rpcVars, backendVars, beatVars>>
    \/ /\ part = "beat" /\ BeatPart!Next
       /\ UNCHANGED <<part, vars, rpcVars, backendVars, dnsVars>>

\* Each component's own fairness, in the behaviours of that component.
ManagerFairness ==
    /\ WF_vars(part = "manager" /\ Age)
    /\ \A n \in Nameservers :
        /\ WF_vars(part = "manager" /\ Transfer(n))
        /\ WF_vars(part = "manager" /\ \E p \in polls : p.ns = n /\ Query(p))
    /\ WF_vars(part = "manager" /\ \E m \in Managers : Elected(m))
    /\ WF_vars(part = "manager" /\ \E m \in Managers : PeriodicRecovery(m))
    /\ \A m \in Managers : /\ WF_vars(part = "manager" /\ JobStep(m))
                           /\ WF_vars(part = "manager" /\ RepStep(m))

RpcFairness == WF_rpcVars(part = "rpc" /\ RpcPart!SystemStep)

BackendFairness ==
    \A c \in MCPair :
        WF_backendVars(part = "backend" /\ (BackendPart!Call(c) \/ BackendPart!Step(c)))

DnsFairness ==
    \A s \in MCPair : /\ WF_dnsVars(part = "dns" /\ DnsPart!Work(s))
                      /\ WF_dnsVars(part = "dns" /\ DnsPart!Loops(s))

BeatFairness ==
    /\ \A p \in MCPair : WF_beatVars(part = "beat" /\ BeatPart!_emit_heartbeat(p))
    /\ \A t \in MCShards : WF_beatVars(part = "beat" /\ BeatPart!Store(t))
    /\ \A p \in MCPair, at \in 0 .. 1 :
        WF_beatVars(/\ part = "beat" /\ at \in casts[p]
                    /\ \E t \in MCShards : BeatPart!Find(t, p, at))

MCFairSpec ==
    /\ MCInit /\ [][MCNext]_allVars
    /\ ManagerFairness /\ RpcFairness /\ BackendFairness /\ DnsFairness /\ BeatFairness
-----------------------------------------------------------------------------
\* Every variable of every component has its type.
TypesOK ==
    /\ part = "manager" => TypeOK
    /\ part = "rpc" => RpcPart!TypeOK
    /\ part = "backend" => BackendPart!TypeOK
    /\ part = "dns" => DnsPart!TypeOK
    /\ part = "beat" => BeatPart!TypeOK

\* A backend call that returned without an exception has done what was asked
\* (create_zone and delete_zone of the plugins); and a zone transfer that is sent
\* to its end misses no record that was read (_handle_axfr of MiniDNS).
DoneMeansDone ==
    /\ part = "backend" => BackendPart!SuccessMeansDone
    /\ part = "dns" => DnsPart!TransferIsSound

\* A request that central received has its answer, and a call that reached the
\* worker has ended, also a recovery that waits for another task, unless the
\* device does not answer that very call or there is no pool.
RpcQuiet ==
    /\ \A r \in MCPair : req[r] \in {"new"} \cup RpcPart!Ended
    /\ \A j \in RpcPart!Jobs :
        \/ call[j] \in {"none", "silent"} \cup RpcPart!Ended
        \/ ~configured \/ RpcPart!Lost >= 2

\* What the part that runs still owes, and that it does not owe it any more.
\* Requests, calls and sessions are never repeated, so that being without any
\* of them again and again means that each of them ends.
Owing ==
    CASE part = "manager" -> zone.status \in {"PENDING", "ERROR"}
      [] part = "rpc" -> ~RpcQuiet
      [] part = "backend" -> driver \in BackendPart!Repeatable /\ ~settled
      [] part = "dns" -> \E s \in MCPair : ses[s].pc \notin {"none", "done"}
      [] part = "beat" -> running[c1] /\ now = 1

Settled ==
    CASE part = "manager" -> zone.status \in {"ACTIVE", "DELETED"}
      [] part = "rpc" -> RpcQuiet
      [] part = "backend" -> settled
      [] part = "dns" -> \A s \in MCPair : ses[s].pc \in {"none", "done"}
      [] part = "beat" -> ~running[c1] \/ 1 \in row["central"].at

\* Whatever faults there were: the pool manager brings a pending or failed zone to
\* ACTIVE or DELETED; requests to central and calls of the worker end; calls of a
\* plugin whose requests may be repeated succeed at last; MiniDNS lets go of every
\* session; a service that runs is shown with a heartbeat of now.
Settles == Owing ~> Settled
=============================================================================
