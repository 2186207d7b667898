------------------------------ MODULE Producer ------------------------------
(***************************************************************************)
(* How designate-producer processes share the shards of the zones.  Each   *)
(* process joins a group of the coordination backend (tooz); its           *)
(* Partitioner cuts the list of shards into one slice per member of the    *)
(* group and cuts it again when it is told that the group has changed.     *)
(* Periodic tasks then work on the zones of the slice, one call of central *)
(* or of the worker per range of shards.                                   *)
(*                                                                         *)
(* A process draws a new uuid when it starts, so a member id is used once: *)
(* a restart is the start of another member.                               *)
(***************************************************************************)
EXTENDS Naturals, FiniteSets

CONSTANTS
    Members,    \* member ids, numbered in the order of their names
    TopShard,   \* the greatest shard: 4095, from three hexadecimal digits
    Faults,     \* the kinds of fault that may happen
    MaxFaults   \* bound on the number of faults

FaultKinds == {"crash", "session", "backend", "call"}

ASSUME ProducerAssumption ==
    /\ Members \subseteq Nat
    /\ IsFiniteSet(Members)
    /\ TopShard \in Nat
    /\ Faults \subseteq FaultKinds
    /\ MaxFaults \in Nat

VARIABLES
    pc,       \* where each process is in the life of its service
    group,    \* the members the coordination backend knows
    parts,    \* my_partitions of each process
    event,    \* the processes with a membership event they have not run
    watches,  \* the processes whose run_watchers timer runs
    timers,   \* the processes whose periodic task timer runs
    work,     \* the shards with zones that wait for the periodic task
    faults    \* faults so far

vars == <<pc, group, parts, event, watches, timers, work, faults>>

----------------------------------------------------------------------------
(* Partitioner._partition *)

\* default_shard: int(id[0:3], 16)
Shards == 0..TopShard

\* range(0, 4095)
Partitions == {s \in Shards : s < TopShard}

\* Faulty variant of PartitionSize: the quotient is rounded down.
PartitionSizeFloor(n) == TopShard \div n

\* int(math.ceil(float(partition_count) / float(member_count)))
PartitionSize(n) == (TopShard + n - 1) \div n

\* sorted(members).index(me)
IndexOf(members, me) == Cardinality({q \in members : q < me})

\* Faulty variant of Slice: it runs past the end of the list.
SliceUncut(members, me) ==
    LET size == PartitionSize(Cardinality(members))
        start == size * IndexOf(members, me)
    IN  {s \in 0..(2 * TopShard) : start <= s /\ s < start + size}

\* partitions[my_start:my_end]
Slice(members, me) ==
    LET size == PartitionSize(Cardinality(members))
        start == size * IndexOf(members, me)
    IN  {s \in Partitions : start <= s /\ s < start + size}

----------------------------------------------------------------------------
(* Membership *)

\* Faulty variant of Told: only joins are watched (see Changes).
ToldOfJoins(ps, new) == IF new \ group # {} THEN ps ELSE {}

\* watch_join_group and watch_leave_group
Told(ps, new) == ps

\* The group changes: every process that watches it has an event to run
Changes(new, ps) == /\ group' = new
                    /\ event' = event \cup Told(ps, new)

Watching == {p \in Members : pc[p] = "run"}

\* CoordinationMixin.start: create the group if need be, and join it
Join(p) ==
    /\ pc[p] = "new"
    /\ pc' = [pc EXCEPT ![p] = "joined"]
    /\ Changes(group \cup {p}, Watching)
    /\ UNCHANGED <<parts, watches, timers, work, faults>>

\* Service.start goes on: Partitioner.start, then the timers.  A process that
\* is not in the group any more finds no index (ValueError) and fails.
StartTasks(p) ==
    /\ pc[p] = "joined"
    /\ IF p \in group
       THEN /\ pc' = [pc EXCEPT ![p] = "run"]
            /\ parts' = [parts EXCEPT ![p] = Slice(group, p)]
            /\ watches' = watches \cup {p}
            /\ timers' = timers \cup {p}
       ELSE /\ pc' = [pc EXCEPT ![p] = "dead"]
            /\ UNCHANGED <<parts, watches, timers>>
    /\ UNCHANGED <<group, event, work, faults>>

\* _coordinator_run_watchers, _on_group_change.  _partition raises when the
\* process is not a member, and an exception stops the timer for good.
RunWatchers(p) ==
    /\ pc[p] = "run"
    /\ p \in watches
    /\ p \in event
    /\ event' = event \ {p}
    /\ IF p \in group
       THEN parts' = [parts EXCEPT ![p] = Slice(group, p)] /\ UNCHANGED watches
       ELSE watches' = watches \ {p} /\ UNCHANGED parts
    /\ UNCHANGED <<pc, group, timers, work, faults>>

\* CoordinationMixin.stop: leave the group ...
Leave(p) ==
    /\ pc[p] = "run"
    /\ pc' = [pc EXCEPT ![p] = "leaving"]
    /\ Changes(group \ {p}, Watching \ {p})
    /\ UNCHANGED <<parts, watches, timers, work, faults>>

\* ... and only then stop the timers
Stop(p) ==
    /\ pc[p] = "leaving"
    /\ pc' = [pc EXCEPT ![p] = "dead"]
    /\ watches' = watches \ {p}
    /\ timers' = timers \ {p}
    /\ event' = event \ {p}
    /\ UNCHANGED <<group, parts, work, faults>>

\* A dead process stays in the group until the backend misses its heartbeats
Expire(p) ==
    /\ pc[p] = "dead"
    /\ p \in group
    /\ Changes(group \ {p}, Watching)
    /\ UNCHANGED <<pc, parts, watches, timers, work, faults>>

----------------------------------------------------------------------------
(* Periodic tasks *)

\* _my_range raises IndexError on an empty slice, and an exception stops the
\* timer for good; otherwise the zones of the range are worked on.
RunTask(p) ==
    /\ pc[p] \in {"run", "leaving"}
    /\ p \in timers
    /\ IF parts[p] = {}
       THEN timers' = timers \ {p} /\ UNCHANGED work
       ELSE work' = work \ parts[p] /\ UNCHANGED timers
    /\ UNCHANGED <<pc, group, parts, event, watches, faults>>

\* A zone comes to need the task
NewWork(s) ==
    /\ work' = work \cup {s}
    /\ UNCHANGED <<pc, group, parts, event, watches, timers, faults>>

----------------------------------------------------------------------------
(* Faults *)

Fault(kind) == /\ kind \in Faults
               /\ faults < MaxFaults
               /\ faults' = faults + 1

Crash(p) ==
    /\ Fault("crash")
    /\ pc[p] \in {"joined", "run", "leaving"}
    /\ pc' = [pc EXCEPT ![p] = "dead"]
    /\ watches' = watches \ {p}
    /\ timers' = timers \ {p}
    /\ event' = event \ {p}
    /\ UNCHANGED <<group, parts, work>>

\* The heartbeats of a process that lives come too late: the backend drops it
\* from the group and, depending on the driver, tells it so.
LoseSession(p) ==
    /\ Fault("session")
    /\ p \in group
    /\ pc[p] # "dead"
    /\ \/ Changes(group \ {p}, Watching)
       \/ Changes(group \ {p}, Watching \ {p})
    /\ UNCHANGED <<pc, parts, watches, timers, work>>

\* _get_members gives up after five attempts: the run_watchers timer stops
WatchersFail(p) ==
    /\ Fault("backend")
    /\ pc[p] = "run"
    /\ p \in watches
    /\ p \in event
    /\ event' = event \ {p}
    /\ watches' = watches \ {p}
    /\ UNCHANGED <<pc, group, parts, timers, work>>

\* The call of central or of the worker raises, after part of the work
TaskFails(p) ==
    /\ Fault("call")
    /\ pc[p] \in {"run", "leaving"}
    /\ p \in timers
    /\ parts[p] # {}
    /\ \E done \in SUBSET (work \cap parts[p]) : work' = work \ done
    /\ timers' = timers \ {p}
    /\ UNCHANGED <<pc, group, parts, event, watches>>

----------------------------------------------------------------------------
Init == /\ pc = [p \in Members |-> "new"]
        /\ group = {}
        /\ parts = [p \in Members |-> {}]
        /\ event = {}
        /\ watches = {}
        /\ timers = {}
        /\ work = {}
        /\ faults = 0

\* What a process, or the backend for it, does in time
Step(p) == StartTasks(p) \/ RunWatchers(p) \/ Stop(p) \/ Expire(p)

Failure(p) == Crash(p) \/ LoseSession(p) \/ WatchersFail(p) \/ TaskFails(p)

Next == \/ \E p \in Members : Join(p) \/ Leave(p) \/ Step(p) \/ RunTask(p)
                              \/ Failure(p)
        \/ \E s \in Shards : NewWork(s)

Spec == Init /\ [][Next]_vars

\* Services finish what they start, timers fire, sessions of the dead expire
Fairness == \A p \in Members : WF_vars(Step(p)) /\ WF_vars(RunTask(p))

FairSpec == Spec /\ Fairness
----------------------------------------------------------------------------
(* Properties *)

TypeOK ==
    /\ pc \in [Members -> {"new", "joined", "run", "leaving", "dead"}]
    /\ group \subseteq Members
    /\ parts \in [Members -> SUBSET Partitions]
    /\ event \subseteq Members
    /\ watches \subseteq Members
    /\ timers \subseteq Members
    /\ work \subseteq Shards
    /\ faults \in 0..MaxFaults

\* Every member of the group runs, and has run its events
Settled == /\ group # {}
           /\ \A p \in group : /\ pc[p] = "run"
                               /\ p \in watches
                               /\ p \notin event

\* Once every member has run its events, the slices share the partitions out:
\* no shard in two slices, none in no slice, whoever joined, left, crashed or
\* lost its session in whatever order, and whoever was told of it late.
ShardsAreShared ==
    Settled => /\ \A p, q \in group : p # q => parts[p] \cap parts[q] = {}
               /\ UNION {parts[p] : p \in group} = Partitions

\* Some producer is there to take over
SomeoneWorks == \E p \in Members : pc[p] \in {"joined", "run"}

\* An exception has stopped a timer of a process that lives
Halted == \E p \in Members : pc[p] = "run" /\ (p \notin timers \/ p \notin watches)

\* Work on a shard is done in the end, though the process it belongs to leaves,
\* crashes or loses its session: another one takes over its slice, as long as
\* no timer has been stopped by an exception.
WorkIsDone ==
    \A s \in Partitions : s \in work ~> (s \notin work \/ ~SomeoneWorks \/ Halted)

\* doc/source/contributor/architecture.rst: "Producer processes start work for
\* an automatically assigned shard of the zones Designate manages. Shards are
\* allocated based on the first three characters of the zone ID"
EveryShardHasProducer ==
    Settled => \A s \in Shards : \E p \in group : s \in parts[p]
=============================================================================
