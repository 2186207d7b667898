----------------------------- MODULE Heartbeat -----------------------------
(***************************************************************************)
(* Service statuses: a timer of every RPC service casts its status to      *)
(* central, which looks for the row of that service on that host and       *)
(* updates it, or creates one.  The processes of a service on one host     *)
(* report under the same name, and the table has no unique constraint.     *)
(* The casts wait in the queue while central is not there.                 *)
(***************************************************************************)
EXTENDS Naturals, FiniteSets

CONSTANTS
    Processes,
    ServiceOf,  \* service name and host of each process
    Threads,    \* threads of designate-central
    MaxTime,    \* bound on the clock
    MaxQueue,   \* bound on the casts of a process that wait
    MaxLost     \* bound on the casts lost with a central

VARIABLES
    now,      \* the clock, heartbeated_at
    running,  \* _running of the emitters
    queue,    \* the casts: per process, the times they were sent
    row,      \* the service_statuses table
    call,     \* update_service_status in each thread
    lost      \* casts lost so far

vars == <<now, running, queue, row, call, lost>>

----------------------------------------------------------------------------
Services == {ServiceOf[p] : p \in Processes}

\* The rows of a service: how many there are, two standing for more, and the
\* heartbeats they show
NoRows == [n |-> 0, at |-> {}]

NoCall == [pc |-> "idle", p |-> "none", at |-> 0]

AtMostTwo(n) == IF n > 2 THEN 2 ELSE n

\* _find(one=True): ServiceStatusNotFound unless there is exactly one row
find_service_status(v) == row[v].n = 1

\* heartbeat_emitter.start() at the end of RPCService.start()
Start(p) == /\ ~running[p]
            /\ running' = [running EXCEPT ![p] = TRUE]
            /\ UNCHANGED <<now, queue, row, call, lost>>

\* RPCService.stop(): the row stays as it is
Stop(p) == /\ running[p]
           /\ running' = [running EXCEPT ![p] = FALSE]
           /\ UNCHANGED <<now, queue, row, call, lost>>

\* Faulty variant of _emit_heartbeat: the emitter reports once.
EmitOnce(p) ==
    /\ running[p] /\ Cardinality(queue[p]) < MaxQueue
    /\ row[ServiceOf[p]].n = 0  \* nothing of it is known yet
    /\ queue' = [queue EXCEPT ![p] = @ \cup {now}]
    /\ UNCHANGED <<now, running, row, call, lost>>

\* The timer: an RPC cast, which does not wait for central
_emit_heartbeat(p) ==
    /\ running[p] /\ Cardinality(queue[p]) < MaxQueue
    /\ queue' = [queue EXCEPT ![p] = @ \cup {now}]
    /\ UNCHANGED <<now, running, row, call, lost>>

\* A thread of central takes a cast and looks for the row
Find(t, p, at) ==
    /\ call[t].pc = "idle"
    /\ at \in queue[p]
    /\ queue' = [queue EXCEPT ![p] = @ \ {at}]
    /\ call' = [call EXCEPT ![t] =
          [pc |-> IF find_service_status(ServiceOf[p]) THEN "update"
                  ELSE "create", p |-> p, at |-> at]]
    /\ UNCHANGED <<now, running, row, lost>>

\* Faulty variant of Create: the new row counts for nothing.
CreateForgets(v, at) == [row[v] EXCEPT !.at = @ \cup {at}]

Create(v, at) == [n |-> AtMostTwo(row[v].n + 1), at |-> row[v].at \cup {at}]

\* The row that was found, by its id.  It may be one of several by now, and
\* another one may show the heartbeat it had.
Update(v, at) ==
    IF row[v].n = 1 THEN {[n |-> 1, at |-> {at}]}
    ELSE {[row[v] EXCEPT !.at = (@ \ {old}) \cup {at}] : old \in row[v].at}
            \cup {[row[v] EXCEPT !.at = @ \cup {at}]}

\* update_service_status
Store(t) ==
    LET k == call[t]
        v == ServiceOf[k.p]
    IN  /\ k.pc # "idle"
        /\ IF k.pc = "create"
           THEN row' = [row EXCEPT ![v] = Create(v, k.at)]
           ELSE \E r \in Update(v, k.at) : row' = [row EXCEPT ![v] = r]
        /\ call' = [call EXCEPT ![t] = NoCall]
        /\ UNCHANGED <<now, running, queue, lost>>

\* Central ends, and the cast with it
Crash(t) == /\ call[t].pc # "idle" /\ lost < MaxLost
            /\ lost' = lost + 1
            /\ call' = [call EXCEPT ![t] = NoCall]
            /\ UNCHANGED <<now, running, queue, row>>

Tick == /\ now < MaxTime
        /\ now' = now + 1
        /\ UNCHANGED <<running, queue, row, call, lost>>

----------------------------------------------------------------------------
Init == /\ now = 0
        /\ running = [p \in Processes |-> FALSE]
        /\ queue = [p \in Processes |-> {}]
        /\ row = [v \in Services |-> NoRows]
        /\ call = [t \in Threads |-> NoCall]
        /\ lost = 0

Take(t) == \E p \in Processes : \E at \in queue[p] : Find(t, p, at)

Next == \/ \E p \in Processes : Start(p) \/ Stop(p) \/ _emit_heartbeat(p)
        \/ \E t \in Threads : Take(t) \/ Store(t) \/ Crash(t)
        \/ Tick

Spec == Init /\ [][Next]_vars

\* The timers of running services fire, and central gets to every cast
FairSpec ==
    /\ Spec
    /\ \A p \in Processes : WF_vars(_emit_heartbeat(p))
    /\ \A t \in Threads : WF_vars(Store(t))
    /\ \A p \in Processes, at \in 0 .. MaxTime :
          WF_vars(\E t \in Threads : at \in queue[p] /\ Find(t, p, at))

----------------------------------------------------------------------------
\* A service has a row for every heartbeat it shows, and shows one as soon as
\* it has a row.
TypeOK ==
    /\ \A v \in Services : /\ row[v].n \in 0 .. 2
                           /\ row[v].at \subseteq 0 .. MaxTime
                           /\ (row[v].n = 0) = (row[v].at = {})
                           /\ row[v].n = 1 => Cardinality(row[v].at) = 1
    /\ \A p \in Processes : Cardinality(queue[p]) <= MaxQueue
    /\ lost \in 0 .. MaxLost

\* A service that goes on running is shown with a heartbeat of this moment or
\* later, whatever casts are lost, late or handled out of order, and however
\* many rows the overlapping creations have left.
ReportsArrive ==
    \A p \in Processes, i \in 0 .. MaxTime :
        (running[p] /\ now = i) ~>
            (~running[p] \/ \E at \in row[ServiceOf[p]].at : at >= i)

=============================================================================
