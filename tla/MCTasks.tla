------------------------------ MODULE MCTasks ------------------------------
(***************************************************************************)
(* What the periodic tasks bring to an end in spite of faults, in one run: *)
(* the work on the shards that three producers share, and zones that a     *)
(* crash or a failed callback left PENDING and RecoverShard finds.  A      *)
(* behaviour picks one part in its initial state, and leaves the variables *)
(* of the other alone: the producers then have not started.                *)
(***************************************************************************)
EXTENDS Producer

CONSTANT None

VARIABLES part, zones, recs, dev, zdns, asso, call, task, recq, lost, ops

zoneVars == <<zones, recs, dev, zdns, asso, call, task, recq, lost, ops>>
allVars == <<part, vars, zoneVars>>

MCNames == {"n"}
MCTtls == {"t"}
MCPair == {0, 1}
MCRows == 1 .. 3
MCClients == {"client"}
MCRecoverers == {"recovery"}
MCEmpty == {}
MCOps == {"create", "update", "delete"}
MCFaults == {"device", "response", "central", "crash"}
MCCentral == [c \in MCClients |-> c]

ZonePart == INSTANCE ZoneLifecycle WITH
    Ids <- MCPair, Names <- MCNames, Ttls <- MCTtls, Rows <- MCRows,
    Clients <- MCClients, Central <- MCCentral, Recoverers <- MCRecoverers,
    Secondary <- MCEmpty, Faults <- MCFaults, MaxFaults <- 1, MaxOps <- 2,
    Ops <- MCOps, OnlyActive <- FALSE, faults <- lost

NoZones ==
    /\ zones = None /\ recs = None /\ dev = None /\ zdns = None /\ asso = None
    /\ call = None /\ task = None /\ recq = None /\ lost = None /\ ops = None

MCInit ==
    /\ part \in {"producer", "zone"}
    /\ Init
    /\ IF part = "zone" THEN ZonePart!Init ELSE NoZones

MCNext ==
    \/ part = "producer" /\ Next /\ UNCHANGED <<part, zoneVars>>
    \/ part = "zone" /\ ZonePart!Next /\ UNCHANGED <<part, vars>>

\* Each component's own fairness, in the behaviours of that component.
ProducerFairness ==
    \A p \in Members : /\ WF_vars(part = "producer" /\ Step(p))
                       /\ WF_vars(part = "producer" /\ RunTask(p))

ZoneFairness ==
    /\ \A c \in MCClients : WF_zoneVars(part = "zone" /\ ZonePart!ClientStep(c))
    /\ \A p \in ZonePart!Procs : WF_zoneVars(part = "zone" /\ ZonePart!TaskStep(p))
    /\ \A q \in MCRecoverers : WF_zoneVars(part = "zone" /\ ZonePart!RecoverStep(q))
    /\ \A z \in MCPair : WF_zoneVars(part = "zone" /\ ZonePart!Age(z))

MCFairSpec == MCInit /\ [][MCNext]_allVars /\ ProducerFairness /\ ZoneFairness
-----------------------------------------------------------------------------
\* What is still to be done for a partition or a zone, and that it is done or
\* that nobody is there to do it.
Owing(x) == IF part = "zone" THEN zones[x].status = "PENDING" ELSE x \in work

Relieved(x) ==
    IF part = "zone" THEN zones[x].status # "PENDING" \/ ZonePart!NoRecovery
                     ELSE x \notin work \/ ~SomeoneWorks \/ Halted

\* Whatever faults there were: the work on a shard is done while a producer lives
\* and no timer has been stopped by an exception (WorkIsDone), and a PENDING zone
\* is settled by its task or by the recovery unless the recovery timer has been
\* stopped (PendingIsSettled).
TasksEnd == \A x \in MCPair : Owing(x) ~> Relieved(x)
=============================================================================
