--------------------------- MODULE ProducerProofs ---------------------------
(***************************************************************************)
(* Proofs about Producer, for every set of members and number of shards:   *)
(* the slices that members cut from one view of the group share the        *)
(* partitions out, and every member that has run its events has cut its    *)
(* slice from the group as it is.                                          *)
(***************************************************************************)
EXTENDS Producer, FiniteSetTheorems, FunctionTheorems, TLAPS

\* A member that runs, watches the group and has no event left to run holds the
\* slice of the present group: an event is pending from every change of the
\* group until the slice is cut again.
SlicesFresh ==
    \A p \in group :
        pc[p] = "run" /\ p \in watches /\ p \notin event =>
            parts[p] = Slice(group, p)

----------------------------------------------------------------------------
(* The arithmetic of _partition *)

\* n slices of the size rounded up reach the end of the list
LEMMA SizeCovers ==
    ASSUME NEW n \in Nat \ {0}
    PROVE  /\ PartitionSize(n) \in Nat
           /\ TopShard <= PartitionSize(n) * n
<1> DEFINE a == TopShard + n - 1
           k == a \div n
<1>1. a \in Nat
  BY ProducerAssumption
<1>2. k \in Nat /\ n * k <= a /\ a < n * k + n
  BY <1>1, Z3
<1>3. TopShard + n - 1 < k * n + n
  BY <1>2
<1> QED
  BY <1>2, <1>3, ProducerAssumption DEF PartitionSize

\* The slices of two positions do not meet
LEMMA SlicesApart ==
    ASSUME NEW c \in Nat, NEW i \in Nat, NEW j \in Nat, i < j
    PROVE  c * i + c <= c * j
<1>1. PICK d \in Nat : j = i + 1 + d
  <2>1. j - (i + 1) \in Nat
    OBVIOUS
  <2> QED
    BY <2>1
<1>2. c * j = c * i + c + c * d
  BY <1>1
<1>3. c * d \in Nat /\ c * i \in Nat
  OBVIOUS
<1> QED
  BY <1>2, <1>3

\* Every shard below c * n lies in the slice of a position below n
LEMMA SliceOfShard ==
    ASSUME NEW c \in Nat, NEW n \in Nat, NEW s \in Nat, s < c * n
    PROVE  \E i \in 0..(n-1) : c * i <= s /\ s < c * i + c
<1>1. c > 0
  OBVIOUS
<1> DEFINE i == s \div c
<1>2. i \in Nat /\ c * i <= s /\ s < c * i + c
  BY <1>1, Z3
<1>3. i < n
  <2> SUFFICES ASSUME n <= i PROVE FALSE
    BY <1>2
  <2>1. c * n <= c * i
    <3>1. CASE n = i
      BY <3>1, <1>2
    <3>2. CASE n < i
      <4>1. c * n + c <= c * i
        BY <3>2, <1>2, SlicesApart
      <4> QED
        BY <4>1, <1>2
    <3> QED
      BY <3>1, <3>2, <1>2
  <2> QED
    BY <2>1, <1>2
<1> QED
  BY <1>2, <1>3

----------------------------------------------------------------------------
(* The sorted list of members *)

\* A position is a number below the length of the list, and a greater member
\* has a greater position.
LEMMA IndexOrder ==
    ASSUME NEW G \in SUBSET Members
    PROVE  /\ IsFiniteSet(G)
           /\ Cardinality(G) \in Nat
           /\ \A p \in G : IndexOf(G, p) \in 0..(Cardinality(G) - 1)
           /\ \A p, q \in G : p < q => IndexOf(G, p) < IndexOf(G, q)
<1> DEFINE below(p) == {q \in G : q < p}
<1>1. IsFiniteSet(G) /\ Cardinality(G) \in Nat
  BY FS_Subset, FS_CardinalityType, ProducerAssumption
<1>2. ASSUME NEW p \in G
      PROVE  /\ IsFiniteSet(below(p)) /\ Cardinality(below(p)) \in Nat
             /\ Cardinality(below(p)) <= Cardinality(G) - 1
  <2>1. below(p) \in SUBSET (G \ {p})
    BY ProducerAssumption
  <2>2. IsFiniteSet(G \ {p}) /\ Cardinality(G \ {p}) = Cardinality(G) - 1
    BY <1>1, FS_RemoveElement
  <2>3. IsFiniteSet(below(p)) /\ Cardinality(below(p)) <= Cardinality(G \ {p})
    BY <2>1, <2>2, FS_Subset
  <2> QED
    BY <2>2, <2>3, FS_CardinalityType
<1>3. ASSUME NEW p \in G, NEW q \in G, p < q
      PROVE  Cardinality(below(p)) < Cardinality(below(q))
  <2>1. p \notin below(p)
    BY ProducerAssumption
  <2>2. below(p) \cup {p} \in SUBSET below(q)
    <3>1. \A r \in G : r \in Nat
      BY ProducerAssumption
    <3>2. \A r \in G : r < p => r < q
      BY <3>1, <1>3
    <3> QED
      BY <3>2, <1>3
  <2>3. Cardinality(below(p) \cup {p}) = Cardinality(below(p)) + 1
    BY <1>2, <2>1, FS_AddElement
  <2>4. Cardinality(below(p) \cup {p}) <= Cardinality(below(q))
    BY <1>2, <2>2, FS_Subset
  <2>5. Cardinality(below(p)) \in Nat /\ Cardinality(below(q)) \in Nat
    BY <1>2
  <2> HIDE DEF below
  <2> QED
    BY <2>3, <2>4, <2>5
<1>4. \A p : IndexOf(G, p) = Cardinality(below(p))
  BY DEF IndexOf
<1> HIDE DEF below
<1>5. ASSUME NEW p \in G PROVE IndexOf(G, p) \in 0..(Cardinality(G) - 1)
  BY <1>1, <1>2, <1>4
<1>6. ASSUME NEW p \in G, NEW q \in G, p < q
      PROVE  IndexOf(G, p) < IndexOf(G, q)
  BY <1>3, <1>4, <1>6
<1> QED
  BY <1>1, <1>5, <1>6

\* Every position is the position of a member
LEMMA IndexOnto ==
    ASSUME NEW G \in SUBSET Members, NEW i \in 0..(Cardinality(G) - 1)
    PROVE  \E p \in G : IndexOf(G, p) = i
<1> DEFINE n == Cardinality(G)
           T == 0..(n - 1)
           f == [p \in G |-> IndexOf(G, p)]
<1>1. IsFiniteSet(G) /\ n \in Nat /\ f \in [G -> T]
  BY IndexOrder
<1>2. ASSUME NEW p \in G, NEW q \in G, f[p] = f[q] PROVE p = q
  <2>1. p \in Nat /\ q \in Nat /\ f[p] \in Nat /\ f[q] \in Nat
    BY <1>1, ProducerAssumption
  <2>2. ~(p < q) /\ ~(q < p)
    BY <1>2, <2>1, IndexOrder
  <2> QED
    BY <2>1, <2>2
<1>3. f \in Injection(G, T)
  BY <1>1, <1>2 DEF Injection, IsInjective
<1>4. IsFiniteSet(T) /\ Cardinality(T) = n
  BY <1>1, FS_Interval
<1>5. f \in Surjection(G, T)
  BY <1>1, <1>3, <1>4, FS_Injection
<1> QED
  BY <1>5 DEF Surjection

\* What _partition promises: the slices that the members of one group cut are
\* disjoint and together are all partitions.
THEOREM SlicesShareOut ==
    ASSUME NEW G \in SUBSET Members, G # {}
    PROVE  /\ \A p, q \in G : p # q => Slice(G, p) \cap Slice(G, q) = {}
           /\ UNION {Slice(G, p) : p \in G} = Partitions
<1> DEFINE n == Cardinality(G)
           c == PartitionSize(n)
<1>1. n \in Nat \ {0}
  BY IndexOrder, FS_EmptySet
<1>2. c \in Nat /\ TopShard <= c * n
  BY <1>1, SizeCovers
<1>3. \A p \in G : IndexOf(G, p) \in Nat
  <2>1. \A i \in 0..(n - 1) : i \in Nat
    BY <1>1
  <2> QED
    BY <2>1, IndexOrder
<1>4. Partitions \subseteq Nat
  BY ProducerAssumption DEF Partitions, Shards
<1> HIDE DEF n, c
<1>5. \A p \in G : \A s : s \in Slice(G, p) <=>
           /\ s \in Partitions
           /\ c * IndexOf(G, p) <= s
           /\ s < c * IndexOf(G, p) + c
  BY DEF Slice, c, n
<1>6. ASSUME NEW p \in G, NEW q \in G, p < q, NEW s,
             s \in Slice(G, p), s \in Slice(G, q)
      PROVE  FALSE
  <2> DEFINE i == IndexOf(G, p)
             j == IndexOf(G, q)
  <2>1. i \in Nat /\ j \in Nat /\ i < j
    BY <1>3, <1>6, IndexOrder
  <2>2. s \in Nat /\ s < c * i + c /\ c * j <= s
    BY <1>4, <1>5, <1>6
  <2>3. c * i + c <= c * j
    BY <1>2, <2>1, SlicesApart
  <2>4. c * i \in Nat /\ c * j \in Nat
    BY <1>2, <2>1
  <2> HIDE DEF i, j
  <2> QED
    BY <1>2, <2>2, <2>3, <2>4
<1>7. ASSUME NEW p \in G, NEW q \in G, p # q
      PROVE  Slice(G, p) \cap Slice(G, q) = {}
  <2>1. p < q \/ q < p
    BY <1>7, ProducerAssumption
  <2> QED
    BY <2>1, <1>6
<1>8. ASSUME NEW s \in Partitions PROVE \E p \in G : s \in Slice(G, p)
  <2>1. s \in Nat /\ s < TopShard
    BY <1>4 DEF Partitions
  <2>2. s < c * n
    BY <2>1, <1>1, <1>2, ProducerAssumption
  <2>3. PICK i \in 0..(n - 1) : c * i <= s /\ s < c * i + c
    BY <2>1, <2>2, <1>1, <1>2, SliceOfShard
  <2>4. PICK p \in G : IndexOf(G, p) = i
    BY <2>3, IndexOnto DEF n
  <2> QED
    BY <2>3, <2>4, <1>5
<1> QED
  BY <1>5, <1>7, <1>8

----------------------------------------------------------------------------
(* The protocol *)

\* A slice is a set of partitions
LEMMA SliceType ==
    ASSUME NEW G, NEW p PROVE Slice(G, p) \in SUBSET Partitions
BY DEF Slice

\* The initial state has no member and satisfies both parts of the invariant
LEMMA ProducerInit == Init => TypeOK /\ SlicesFresh
BY ProducerAssumption DEF Init, TypeOK, SlicesFresh

\* Every step keeps the type of every variable
LEMMA ProducerTypeStep == TypeOK /\ [Next]_vars => TypeOK'
<1> SUFFICES ASSUME TypeOK, [Next]_vars PROVE TypeOK'
  OBVIOUS
<1>f. ASSUME NEW kind, Fault(kind) PROVE faults' \in 0..MaxFaults
  BY <1>f, ProducerAssumption DEF Fault, TypeOK
<1>c. ASSUME NEW new \in SUBSET Members, NEW ps \in SUBSET Members,
             Changes(new, ps)
      PROVE  group' \subseteq Members /\ event' \subseteq Members
  BY <1>c DEF Changes, Told, TypeOK
<1>w. Watching \subseteq Members /\ group \subseteq Members
  BY DEF Watching, TypeOK
<1>1. ASSUME NEW p \in Members, Join(p) PROVE TypeOK'
  <2>1. group' \subseteq Members /\ event' \subseteq Members
    BY <1>1, <1>c, <1>w DEF Join
  <2> QED
    BY <1>1, <2>1 DEF Join, TypeOK
<1>2. ASSUME NEW p \in Members, StartTasks(p) PROVE TypeOK'
  BY <1>2, SliceType DEF StartTasks, TypeOK
<1>3. ASSUME NEW p \in Members, RunWatchers(p) PROVE TypeOK'
  BY <1>3, SliceType DEF RunWatchers, TypeOK
<1>4. ASSUME NEW p \in Members, Leave(p) PROVE TypeOK'
  <2>1. group' \subseteq Members /\ event' \subseteq Members
    BY <1>4, <1>c, <1>w DEF Leave
  <2> QED
    BY <1>4, <2>1 DEF Leave, TypeOK
<1>5. ASSUME NEW p \in Members, Stop(p) PROVE TypeOK'
  BY <1>5 DEF Stop, TypeOK
<1>6. ASSUME NEW p \in Members, Expire(p) PROVE TypeOK'
  <2>1. group' \subseteq Members /\ event' \subseteq Members
    BY <1>6, <1>c, <1>w DEF Expire
  <2> QED
    BY <1>6, <2>1 DEF Expire, TypeOK
<1>7. ASSUME NEW p \in Members, RunTask(p) PROVE TypeOK'
  BY <1>7 DEF RunTask, TypeOK
<1>8. ASSUME NEW s \in Shards, NewWork(s) PROVE TypeOK'
  BY <1>8 DEF NewWork, TypeOK
<1>9. ASSUME NEW p \in Members, Crash(p) PROVE TypeOK'
  BY <1>9, <1>f DEF Crash, TypeOK
<1>10. ASSUME NEW p \in Members, LoseSession(p) PROVE TypeOK'
  <2>1. group' \subseteq Members /\ event' \subseteq Members
    BY <1>10, <1>c, <1>w DEF LoseSession
  <2> QED
    BY <1>10, <1>f, <2>1 DEF LoseSession, TypeOK
<1>11. ASSUME NEW p \in Members, WatchersFail(p) PROVE TypeOK'
  BY <1>11, <1>f DEF WatchersFail, TypeOK
<1>12. ASSUME NEW p \in Members, TaskFails(p) PROVE TypeOK'
  BY <1>12, <1>f DEF TaskFails, TypeOK
<1>13. CASE UNCHANGED vars
  BY <1>13 DEF vars, TypeOK
<1> QED
  BY <1>1, <1>2, <1>3, <1>4, <1>5, <1>6, <1>7, <1>8, <1>9, <1>10, <1>11, <1>12,
     <1>13 DEF Next, Step, Failure

\* Every step keeps the slices fresh: a change of the group leaves an event to
\* every member that watches it, and only cutting the slice again takes it away.
LEMMA SlicesFreshStep == TypeOK /\ SlicesFresh /\ [Next]_vars => SlicesFresh'
<1> SUFFICES ASSUME TypeOK, SlicesFresh, [Next]_vars PROVE SlicesFresh'
  OBVIOUS
<1>1. ASSUME NEW p \in Members, Join(p) PROVE SlicesFresh'
  BY <1>1 DEF Join, Changes, Told, Watching, SlicesFresh, TypeOK
<1>2. ASSUME NEW p \in Members, StartTasks(p) PROVE SlicesFresh'
  BY <1>2 DEF StartTasks, SlicesFresh, TypeOK
<1>3. ASSUME NEW p \in Members, RunWatchers(p) PROVE SlicesFresh'
  BY <1>3 DEF RunWatchers, SlicesFresh, TypeOK
<1>4. ASSUME NEW p \in Members, Leave(p) PROVE SlicesFresh'
  BY <1>4 DEF Leave, Changes, Told, Watching, SlicesFresh, TypeOK
<1>5. ASSUME NEW p \in Members, Stop(p) PROVE SlicesFresh'
  BY <1>5 DEF Stop, SlicesFresh, TypeOK
<1>6. ASSUME NEW p \in Members, Expire(p) PROVE SlicesFresh'
  BY <1>6 DEF Expire, Changes, Told, Watching, SlicesFresh, TypeOK
<1>7. ASSUME NEW p \in Members, RunTask(p) PROVE SlicesFresh'
  BY <1>7 DEF RunTask, SlicesFresh
<1>8. ASSUME NEW s \in Shards, NewWork(s) PROVE SlicesFresh'
  BY <1>8 DEF NewWork, SlicesFresh
<1>9. ASSUME NEW p \in Members, Crash(p) PROVE SlicesFresh'
  BY <1>9 DEF Crash, SlicesFresh, TypeOK
<1>10. ASSUME NEW p \in Members, LoseSession(p) PROVE SlicesFresh'
  BY <1>10 DEF LoseSession, Changes, Told, Watching, SlicesFresh, TypeOK
<1>11. ASSUME NEW p \in Members, WatchersFail(p) PROVE SlicesFresh'
  BY <1>11 DEF WatchersFail, SlicesFresh
<1>12. ASSUME NEW p \in Members, TaskFails(p) PROVE SlicesFresh'
  BY <1>12 DEF TaskFails, SlicesFresh
<1>13. CASE UNCHANGED vars
  BY <1>13 DEF vars, SlicesFresh
<1> QED
  BY <1>1, <1>2, <1>3, <1>4, <1>5, <1>6, <1>7, <1>8, <1>9, <1>10, <1>11, <1>12,
     <1>13 DEF Next, Step, Failure

\* The two parts of the invariant say that a settled group shares all shards
LEMMA FreshSlicesShare == TypeOK /\ SlicesFresh => ShardsAreShared
<1> SUFFICES ASSUME TypeOK, SlicesFresh, Settled
             PROVE  /\ \A p, q \in group : p # q => parts[p] \cap parts[q] = {}
                    /\ UNION {parts[p] : p \in group} = Partitions
  BY DEF ShardsAreShared
<1>1. group \in SUBSET Members /\ group # {}
  BY DEF TypeOK, Settled
<1>2. \A p \in group : parts[p] = Slice(group, p)
  BY DEF SlicesFresh, Settled
<1>3. /\ \A p, q \in group : p # q => Slice(group, p) \cap Slice(group, q) = {}
      /\ UNION {Slice(group, p) : p \in group} = Partitions
  BY <1>1, SlicesShareOut
<1>4. {parts[p] : p \in group} = {Slice(group, p) : p \in group}
  BY <1>2
<1> QED
  BY <1>2, <1>3, <1>4

\* Type correctness: whatever members join, leave, crash or lose their session,
\* a slice is a set of partitions and events, watchers and timers belong to members.
THEOREM TypeCorrect == Spec => []TypeOK
<1>1. TypeOK /\ [Next]_vars => TypeOK'
  BY ProducerTypeStep
<1> QED
  BY ProducerInit, <1>1, PTL DEF Spec

\* Producers that have run their membership events share the shards out, with
\* no overlap and no gap, for any number of producers and of shards and after
\* any joins, leaves, crashes and lost sessions.
THEOREM ProducersShareShards == Spec => []ShardsAreShared
<1>1. TypeOK /\ SlicesFresh /\ [Next]_vars => (TypeOK /\ SlicesFresh)'
  BY ProducerTypeStep, SlicesFreshStep
<1> QED
  BY ProducerInit, <1>1, FreshSlicesShare, PTL DEF Spec
=============================================================================
