------------------------ MODULE ServiceCallsProofs -------------------------
(***************************************************************************)
(* Proofs about ServiceCalls for every choice of its constants, whatever   *)
(* the calls of the threads, the exceptions and the deadlocks: at most one *)
(* operation per zone, and what a call leaves behind in its thread.        *)
(*                                                                         *)
(* The inductive invariant relates the decorators a thread is in to its    *)
(* thread-local variables: NOTIFICATION_BUFFER.stack counts the            *)
(* notification wrappers (Counted), an open transaction or a used retry    *)
(* belongs to a transaction wrapper (Transacted), and locks and held zone  *)
(* ids belong to the wrapper that took them (Locked).                      *)
(***************************************************************************)
EXTENDS ServiceCalls, FiniteSetTheorems, TLAPS

ZoneIds == Zones \cup {NoZone}
Pairs == Nat \X Nat

\* The stack is an integer here; that it is not negative follows from Counted
Typed ==
    /\ received \in Seq(Calls)
    /\ call \in [Threads -> [id : 0..Len(received), zone : ZoneIds]]
    /\ pc \in [Threads -> Nat \ {0}]
    /\ frames \in [Threads -> Seq(Frame)]
    /\ exc \in [Threads -> {"none", "error", "deadlock"}]
    /\ held \in [Threads -> SUBSET ZoneIds] /\ leaked \in [Threads -> SUBSET ZoneIds]
    /\ stack \in [Threads -> Int]
    /\ queue \in [Threads -> Seq(Pairs)] /\ sent \in Seq(Pairs)
    /\ retries \in [Threads -> 0..(MaxRetries - 1)]
    /\ open \in [Threads -> SUBSET Pairs] /\ db \in SUBSET Pairs
    /\ lock \in [ZoneIds -> Threads \cup {Free}]

\* A thread in a decorator runs a call, and the decorator is one of its program
FramesIn(t) ==
    \A i \in DOMAIN frames[t] :
        /\ call[t].id # 0 /\ frames[t][i].at # 0
        /\ frames[t][i].at \in DOMAIN Program(t)
        /\ frames[t][i].kind = "T" => Program(t)[frames[t][i].at] = "T"
FramesSound == \A t \in Threads : FramesIn(t)

\* What is written, called, queued and sent is an instruction of a call
EventsSound ==
    /\ \A e \in db : Event(e)
    /\ \A e \in device : Event(e)
    /\ \A i \in DOMAIN sent : Event(sent[i])
    /\ \A t \in Threads : /\ \A e \in open[t] : Event(e)
                          /\ \A i \in DOMAIN queue[t] : Event(queue[t][i])

\* The notification wrappers a thread is in
Notifying(t) == {i \in DOMAIN frames[t] : frames[t][i].kind = "N"}

CountedIn(t) == /\ stack[t] = Cardinality(Notifying(t))
                /\ stack[t] = 0 => queue[t] = <<>>
Counted == \A t \in Threads : CountedIn(t)

\* The outermost transaction wrapper is the one that owns the transaction; writes
\* wait in it, and retries are counted from its first attempt to its last
OutermostOwns(t) ==
    \A i \in DOMAIN frames[t] : frames[t][i].kind = "T" =>
        (frames[t][i].own <=> \A j \in 1..(i - 1) : frames[t][j].kind # "T")
WritesWait(t) == open[t] # {} => InTransaction(t)
RetriesCount(t) ==
    retries[t] # 0 => /\ call[t].id # 0
                      /\ InTransaction(t) \/ (exc[t] = "none" /\ Instr(t) = "T")
Transacted == \A t \in Threads : OutermostOwns(t) /\ WritesWait(t) /\ RetriesCount(t)

\* Wrapper i of the thread took the lock of zone id z
Took(t, i, z) ==
    frames[t][i].kind = "S" /\ frames[t][i].own /\ frames[t][i].zone = z

\* Who took a lock has it and its zone id, and only wrappers that took a lock and
\* exceptions leave a zone id in the held set
TakersHold(t) ==
    \A i \in DOMAIN frames[t] : \A z \in ZoneIds : Took(t, i, z) =>
        /\ lock[z] = t /\ z \in held[t] /\ z \notin leaked[t]
        /\ \A j \in DOMAIN frames[t] : Took(t, j, z) => j = i
HoldersTook(t) ==
    \A z \in ZoneIds :
        /\ lock[z] = t => \E i \in DOMAIN frames[t] : Took(t, i, z)
        /\ z \in held[t] => z \in leaked[t] \/ \E i \in DOMAIN frames[t] : Took(t, i, z)
        /\ z \in leaked[t] => z \in held[t]
EntrantsHold(t) ==
    \A i \in DOMAIN frames[t] : \A z \in ZoneIds :
        frames[t][i].kind = "S" /\ frames[t][i].zone = z =>
            z \in leaked[t] \/ \E j \in 1..i : Took(t, j, z)
Locked == \A t \in Threads : TakersHold(t) /\ HoldersTook(t) /\ EntrantsHold(t)

Sound == Typed /\ FramesSound /\ EventsSound /\ Counted /\ Transacted /\ Locked

\* A step of thread t
Step(t) ==
    \/ \E prog \in Calls, z \in Zones, new \in BOOLEAN : Begin(t, prog, z, new)
    \/ Advance(t)
    \/ \E e \in {"error", "deadlock"} : Raise(t, e)

USE CallsAssumption

-----------------------------------------------------------------------------
(* Entering and leaving decorators                                         *)

\* A decorator that is entered comes on top of the others
LEMMA PushFacts ==
    ASSUME Typed, NEW t \in Threads, NEW kind \in {"N", "S", "T"}, NEW own \in BOOLEAN,
           NEW z \in ZoneIds, Push(t, kind, own, z)
    PROVE  LET n == Len(frames[t]) IN
           /\ frames' \in [Threads -> Seq(Frame)] /\ pc' \in [Threads -> Nat \ {0}]
           /\ n \in Nat /\ DOMAIN frames[t] = 1..n /\ DOMAIN frames'[t] = 1..(n + 1)
           /\ frames'[t][n + 1] = [kind |-> kind, at |-> pc[t], own |-> own, zone |-> z]
           /\ frames'[t][n + 1].kind = kind
           /\ \A i \in 1..n : frames'[t][i] = frames[t][i]
           /\ \A u \in Threads \ {t} : frames'[u] = frames[u] /\ pc'[u] = pc[u]
<1> DEFINE f == [kind |-> kind, at |-> pc[t], own |-> own, zone |-> z]
           n == Len(frames[t])
<1>1. f \in Frame /\ frames \in [Threads -> Seq(Frame)] /\ pc \in [Threads -> Nat \ {0}]
    BY DEF Typed, Frame, ZoneIds
<1>2. frames' = [frames EXCEPT ![t] = Append(frames[t], f)] /\ pc' = [pc EXCEPT ![t] = @ + 1]
    BY DEF Push
<1> HIDE DEF f
<1>3. /\ Append(frames[t], f) \in Seq(Frame) /\ n \in Nat /\ DOMAIN frames[t] = 1..n
      /\ DOMAIN Append(frames[t], f) = 1..(n + 1) /\ Append(frames[t], f)[n + 1] = f
      /\ \A i \in 1..n : Append(frames[t], f)[i] = frames[t][i]
    BY <1>1
<1>4. frames'[t] = Append(frames[t], f) /\ \A u \in Threads \ {t} : frames'[u] = frames[u]
    BY <1>1, <1>2
<1>5. frames' \in [Threads -> Seq(Frame)]
    BY <1>1, <1>2, <1>3
<1>6. pc' \in [Threads -> Nat \ {0}] /\ \A u \in Threads \ {t} : pc'[u] = pc[u]
    BY <1>1, <1>2
<1> QED  BY <1>3, <1>4, <1>5, <1>6 DEF f

\* A decorator that is left is the innermost one
LEMMA PopFacts ==
    ASSUME Typed, NEW t \in Threads, frames[t] # <<>>, Pop(t)
    PROVE  LET n == Len(frames[t]) IN
           /\ frames' \in [Threads -> Seq(Frame)]
           /\ n \in Nat \ {0} /\ DOMAIN frames[t] = 1..n /\ DOMAIN frames'[t] = 1..(n - 1)
           /\ Top(t) = frames[t][n] /\ Top(t) \in Frame
           /\ \A i \in 1..(n - 1) : frames'[t][i] = frames[t][i]
           /\ \A u \in Threads \ {t} : frames'[u] = frames[u]
<1> DEFINE n == Len(frames[t])
<1>1. frames \in [Threads -> Seq(Frame)]
    BY DEF Typed
<1>2. frames' = [frames EXCEPT ![t] = SubSeq(frames[t], 1, n - 1)]
    BY DEF Pop, Front
<1>3. n \in Nat \ {0} /\ DOMAIN frames[t] = 1..n /\ frames[t][n] \in Frame
    BY <1>1
<1>4. /\ SubSeq(frames[t], 1, n - 1) \in Seq(Frame)
      /\ DOMAIN SubSeq(frames[t], 1, n - 1) = 1..(n - 1)
      /\ \A i \in 1..(n - 1) : SubSeq(frames[t], 1, n - 1)[i] = frames[t][i]
    BY <1>1, <1>3
<1>5. /\ frames'[t] = SubSeq(frames[t], 1, n - 1)
      /\ \A u \in Threads \ {t} : frames'[u] = frames[u]
    BY <1>1, <1>2
<1>6. frames' \in [Threads -> Seq(Frame)]
    BY <1>1, <1>2, <1>4
<1> QED  BY <1>3, <1>4, <1>5, <1>6 DEF Top, Last

\* Calls are only added
LEMMA ReceivedGrows ==
    ASSUME Typed, NEW t \in Threads, Step(t)
    PROVE  /\ received' = received \/ \E prog \in Calls : received' = Append(received, prog)
           /\ Len(received) \in Nat /\ DOMAIN received = 1..Len(received)
           /\ DOMAIN received \subseteq DOMAIN received'
           /\ \A i \in DOMAIN received : received'[i] = received[i]
<1>1. received' = received \/ \E prog \in Calls : received' = Append(received, prog)
    BY DEF Step, Begin, Advance, Raise, EnterNotification, EnterTransaction, EnterZone, Write,
       CallDevice, LeaveNotification, LeaveZone, LeaveTransaction, UnwindNotification, UnwindZone,
       UnwindTransaction, End
<1>2. received \in Seq(Calls)
    BY DEF Typed
<1> QED  BY <1>1, <1>2

\* The program of a call does not change
LEMMA ProgramKept ==
    ASSUME Typed, NEW t \in Threads, Step(t), NEW u \in Threads, call'[u] = call[u], call[u].id # 0
    PROVE  Program(u)' = Program(u)
<1>1. call[u].id \in 1..Len(received)
    BY DEF Typed
<1> QED  BY <1>1, ReceivedGrows DEF Program

\* The notification wrappers are finitely many
LEMMA NotifyingFinite ==
    ASSUME Typed, NEW t \in Threads
    PROVE  IsFiniteSet(Notifying(t)) /\ Cardinality(Notifying(t)) \in Nat
<1>1. Len(frames[t]) \in Nat /\ DOMAIN frames[t] = 1..Len(frames[t])
    BY DEF Typed
<1>2. IsFiniteSet(1..Len(frames[t]))
    BY <1>1, FS_Interval
<1>3. Notifying(t) \subseteq 1..Len(frames[t])
    BY <1>1 DEF Notifying
<1> QED  BY <1>2, <1>3, FS_Subset, FS_CardinalityType

\* A thread steps on its own variables
LEMMA Local ==
    ASSUME Typed, NEW t \in Threads, Step(t), NEW u \in Threads \ {t}
    PROVE  /\ call'[u] = call[u] /\ pc'[u] = pc[u] /\ frames'[u] = frames[u] /\ exc'[u] = exc[u]
           /\ held'[u] = held[u] /\ leaked'[u] = leaked[u] /\ stack'[u] = stack[u]
           /\ queue'[u] = queue[u] /\ retries'[u] = retries[u] /\ open'[u] = open[u]
<1> DEFINE Same ==
        /\ call'[u] = call[u] /\ pc'[u] = pc[u] /\ frames'[u] = frames[u] /\ exc'[u] = exc[u]
        /\ held'[u] = held[u] /\ leaked'[u] = leaked[u] /\ stack'[u] = stack[u]
        /\ queue'[u] = queue[u] /\ retries'[u] = retries[u] /\ open'[u] = open[u]
<1> USE DEF Typed
<1>1. ASSUME NEW prog \in Calls, NEW z \in Zones, NEW new \in BOOLEAN, Begin(t, prog, z, new)
      PROVE  Same
    BY <1>1 DEF Begin, Push, Pop, Emit
<1>2. ASSUME EnterNotification(t)
      PROVE  Same
    BY <1>2 DEF EnterNotification, Push, Pop, Emit
<1>3. ASSUME EnterTransaction(t)
      PROVE  Same
    BY <1>3 DEF EnterTransaction, Push, Pop, Emit
<1>4. ASSUME NEW z \in ZoneIds, EnterZone(t, z)
      PROVE  Same
    BY <1>4 DEF EnterZone, Push, Pop, Emit
<1>5. ASSUME Write(t)
      PROVE  Same
    BY <1>5 DEF Write, Push, Pop, Emit
<1>6. ASSUME CallDevice(t)
      PROVE  Same
    BY <1>6 DEF CallDevice, Push, Pop, Emit
<1>7. ASSUME LeaveNotification(t)
      PROVE  Same
    BY <1>7 DEF LeaveNotification, Push, Pop, Emit
<1>8. ASSUME LeaveZone(t)
      PROVE  Same
    BY <1>8 DEF LeaveZone, Push, Pop, Emit
<1>9. ASSUME LeaveTransaction(t)
      PROVE  Same
    BY <1>9 DEF LeaveTransaction, Push, Pop, Emit
<1>10. ASSUME UnwindNotification(t)
      PROVE  Same
    BY <1>10 DEF UnwindNotification, Push, Pop, Emit
<1>11. ASSUME UnwindZone(t)
      PROVE  Same
    BY <1>11 DEF UnwindZone, Push, Pop, Emit
<1>12. ASSUME UnwindTransaction(t)
      PROVE  Same
    BY <1>12 DEF UnwindTransaction, Push, Pop, Emit
<1>13. ASSUME End(t)
      PROVE  Same
    BY <1>13 DEF End, Push, Pop, Emit
<1>14. ASSUME NEW e \in {"error", "deadlock"}, Raise(t, e)
      PROVE  Same
    BY <1>14 DEF Raise, Push, Pop, Emit
<1> QED  BY <1>1, <1>2, <1>3, <1>4, <1>5, <1>6, <1>7, <1>8, <1>9, <1>10, <1>11, <1>12, <1>13, <1>14
        DEF Step, Advance, ZoneIds

\* ... and so the other threads stay in their decorators and programs
LEMMA OthersStay ==
    ASSUME Typed, NEW t \in Threads, Step(t), NEW u \in Threads \ {t}
    PROVE  /\ Notifying(u)' = Notifying(u) /\ InTransaction(u)' = InTransaction(u)
           /\ \A i, z : Took(u, i, z)' = Took(u, i, z)
           /\ call[u].id # 0 => Program(u)' = Program(u) /\ Instr(u)' = Instr(u)
<1>1. call'[u] = call[u] /\ pc'[u] = pc[u] /\ frames'[u] = frames[u]
    BY Local
<1>2. call[u].id # 0 => Program(u)' = Program(u)
    BY <1>1, ProgramKept
<1> QED  BY <1>1, <1>2 DEF Notifying, InTransaction, Took, Instr

-----------------------------------------------------------------------------
(* Types                                                                   *)

\* The finally clause of notification_wrapper keeps the types
LEMMA EmitTyped ==
    ASSUME Typed, NEW t \in Threads, NEW q \in Seq(Pairs), Emit(t, q)
    PROVE  /\ stack' \in [Threads -> Int] /\ queue' \in [Threads -> Seq(Pairs)]
           /\ sent' \in Seq(Pairs)
<1>1. stack' \in [Threads -> Int]
    BY DEF Emit, Typed
<1>2. queue' = [queue EXCEPT ![t] = <<>>] \/ queue' = [queue EXCEPT ![t] = q]
    BY DEF Emit
<1>3. <<>> \in Seq(Pairs) /\ queue \in [Threads -> Seq(Pairs)] /\ sent \in Seq(Pairs)
    BY DEF Typed
<1>4. queue' \in [Threads -> Seq(Pairs)]
    BY <1>2, <1>3
<1>5. sent \o q \in Seq(Pairs)
    BY <1>3
<1> QED  BY <1>1, <1>4, <1>5, <1>3 DEF Emit

\* An instruction the thread is at is an event
LEMMA HerePair ==
    ASSUME Typed, NEW t \in Threads
    PROVE  /\ Here(t) \in Pairs /\ Here(t)[1] = call[t].id /\ Here(t)[2] = pc[t]
           /\ \A i \in DOMAIN frames[t] :
                /\ <<call[t].id, frames[t][i].at>> \in Pairs
                /\ <<call[t].id, frames[t][i].at>>[1] = call[t].id
                /\ <<call[t].id, frames[t][i].at>>[2] = frames[t][i].at
<1>1. Len(received) \in Nat
    BY DEF Typed
<1>2. call[t].id \in Nat /\ pc[t] \in Nat
    BY <1>1 DEF Typed
<1>3. frames[t] \in Seq(Frame)
    BY DEF Typed
<1>4. \A i \in DOMAIN frames[t] : frames[t][i] \in Frame
    BY <1>3
<1>5. \A i \in DOMAIN frames[t] : frames[t][i].at \in Nat
    BY <1>4 DEF Frame
<1> QED  BY <1>2, <1>5 DEF Here, Pairs

\* The notification of the innermost wrapper
LEMMA TopPair ==
    ASSUME Typed, NEW t \in Threads, frames[t] # <<>>
    PROVE  <<call[t].id, Top(t).at>> \in Pairs
<1>1. frames[t] \in Seq(Frame)
    BY DEF Typed
<1>2. Top(t) = frames[t][Len(frames[t])] /\ Len(frames[t]) \in DOMAIN frames[t]
    BY <1>1 DEF Top, Last
<1> QED  BY <1>2, HerePair

\* Every step keeps the types
LEMMA TypedStep ==
    ASSUME Typed, FramesSound, NEW t \in Threads, Step(t)
    PROVE  Typed'
<1>1. ASSUME NEW prog \in Calls, NEW z \in Zones, NEW new \in BOOLEAN, Begin(t, prog, z, new)
      PROVE  Typed'
    <2>1. received \in Seq(Calls) /\ received' = Append(received, prog)
        BY <1>1 DEF Typed, Begin
    <2>2. received' \in Seq(Calls) /\ Len(received') = Len(received) + 1 /\ Len(received) \in Nat
        BY <2>1
    <2>3. call' \in [Threads -> [id : 0..Len(received'), zone : ZoneIds]]
        BY <1>1, <2>2 DEF Typed, Begin, ZoneIds
    <2> QED  BY <1>1, <2>2, <2>3 DEF Typed, Begin
<1>2. ASSUME EnterNotification(t)
      PROVE  Typed'
    <2>1. frames' \in [Threads -> Seq(Frame)] /\ pc' \in [Threads -> Nat \ {0}]
        BY <1>2, PushFacts DEF EnterNotification, ZoneIds
    <2>2. stack' \in [Threads -> Int]
        BY <1>2 DEF EnterNotification, Typed
    <2> QED  BY <1>2, <2>1, <2>2 DEF EnterNotification, Typed
<1>3. ASSUME EnterTransaction(t)
      PROVE  Typed'
    <2>1. InTransaction(t) \in BOOLEAN
        BY DEF InTransaction
    <2>2. Push(t, "T", ~InTransaction(t), NoZone) /\ NoZone \in ZoneIds
        BY <1>3 DEF EnterTransaction, ZoneIds
    <2>3. frames' \in [Threads -> Seq(Frame)] /\ pc' \in [Threads -> Nat \ {0}]
        BY <2>1, <2>2, PushFacts
    <2> QED  BY <1>3, <2>3 DEF EnterTransaction, Typed
<1>4. ASSUME NEW z \in ZoneIds, EnterZone(t, z)
      PROVE  Typed'
    <2>1. Push(t, "S", FALSE, z) \/ Push(t, "S", TRUE, z)
        BY <1>4 DEF EnterZone
    <2>2. frames' \in [Threads -> Seq(Frame)] /\ pc' \in [Threads -> Nat \ {0}]
        BY <2>1, PushFacts
    <2>a. /\ held' = held \/ held' = [held EXCEPT ![t] = held[t] \cup {z}]
          /\ lock' = lock \/ lock' = [lock EXCEPT ![z] = t]
        BY <1>4 DEF EnterZone
    <2>b. held \in [Threads -> SUBSET ZoneIds] /\ lock \in [ZoneIds -> Threads \cup {Free}]
        BY DEF Typed
    <2>x. held[t] \cup {z} \in SUBSET ZoneIds
        BY <2>b
    <2>c. held' \in [Threads -> SUBSET ZoneIds]
        BY <2>a, <2>b, <2>x
    <2>3. held' \in [Threads -> SUBSET ZoneIds] /\ lock' \in [ZoneIds -> Threads \cup {Free}]
        BY <2>a, <2>b, <2>c
    <2> QED  BY <1>4, <2>2, <2>3 DEF EnterZone, Typed
<1>5. ASSUME Write(t)
      PROVE  Typed'
    <2>1. Here(t) \in Pairs
        BY HerePair
    <2>a. /\ open' = open \/ open' = [open EXCEPT ![t] = open[t] \cup {Here(t)}]
          /\ db' = db \/ db' = db \cup {Here(t)}
        BY <1>5 DEF Write
    <2>b. open \in [Threads -> SUBSET Pairs] /\ db \in SUBSET Pairs
        BY DEF Typed
    <2>x. open[t] \cup {Here(t)} \in SUBSET Pairs
        BY <2>b, <2>1
    <2>c. open' \in [Threads -> SUBSET Pairs]
        BY <2>a, <2>b, <2>x
    <2>2. open' \in [Threads -> SUBSET Pairs] /\ db' \in SUBSET Pairs
        BY <2>a, <2>b, <2>c, <2>1
    <2>3. pc' \in [Threads -> Nat \ {0}]
        BY <1>5 DEF Write, Typed
    <2> QED  BY <1>5, <2>2, <2>3 DEF Write, Typed
<1>6. ASSUME CallDevice(t)
      PROVE  Typed'
    BY <1>6 DEF CallDevice, Typed
<1>7. ASSUME LeaveNotification(t)
      PROVE  Typed'
    <2>1. frames[t] # <<>> /\ Pop(t)
        BY <1>7 DEF LeaveNotification, Inside
    <2>2. frames' \in [Threads -> Seq(Frame)] /\ Top(t) \in Frame
        BY <2>1, PopFacts
    <2>3. pc' \in [Threads -> Nat \ {0}]
        BY <1>7 DEF LeaveNotification, Typed
    <2>4. <<call[t].id, Top(t).at>> \in Pairs
        BY <2>1, TopPair
    <2> DEFINE q == <<<<call[t].id, Top(t).at>>>> \o queue[t]
    <2>5. q \in Seq(Pairs)
        BY <2>4 DEF Typed
    <2>6. Emit(t, q)
        BY <1>7 DEF LeaveNotification
    <2> HIDE DEF q
    <2>7. stack' \in [Threads -> Int] /\ queue' \in [Threads -> Seq(Pairs)] /\ sent' \in Seq(Pairs)
        BY <2>5, <2>6, EmitTyped
    <2> QED  BY <1>7, <2>2, <2>3, <2>7 DEF LeaveNotification, Typed
<1>8. ASSUME LeaveZone(t)
      PROVE  Typed'
    <2>1. frames[t] # <<>> /\ Pop(t)
        BY <1>8 DEF LeaveZone, Inside
    <2>2. frames' \in [Threads -> Seq(Frame)] /\ Top(t) \in Frame
        BY <2>1, PopFacts
    <2>3. pc' \in [Threads -> Nat \ {0}]
        BY <1>8 DEF LeaveZone, Typed
    <2>a. /\ held' = held \/ held' = [held EXCEPT ![t] = held[t] \ {Top(t).zone}]
          /\ lock' = lock \/ lock' = [lock EXCEPT ![Top(t).zone] = Free]
        BY <1>8 DEF LeaveZone
    <2>b. Top(t).zone \in ZoneIds
        BY <2>2 DEF Frame, ZoneIds
    <2>c. held \in [Threads -> SUBSET ZoneIds] /\ lock \in [ZoneIds -> Threads \cup {Free}]
        BY DEF Typed
    <2>x. held[t] \ {Top(t).zone} \in SUBSET ZoneIds
        BY <2>b, <2>c
    <2>d. held' \in [Threads -> SUBSET ZoneIds]
        BY <2>a, <2>c, <2>x
    <2>4. held' \in [Threads -> SUBSET ZoneIds] /\ lock' \in [ZoneIds -> Threads \cup {Free}]
        BY <2>a, <2>b, <2>c, <2>d
    <2> QED  BY <1>8, <2>2, <2>3, <2>4 DEF LeaveZone, Typed
<1>9. ASSUME LeaveTransaction(t)
      PROVE  Typed'
    <2>1. frames[t] # <<>> /\ Pop(t)
        BY <1>9 DEF LeaveTransaction, Inside
    <2>2. frames' \in [Threads -> Seq(Frame)] /\ Top(t) \in Frame
        BY <2>1, PopFacts
    <2>3. pc' \in [Threads -> Nat \ {0}]
        BY <1>9 DEF LeaveTransaction, Typed
    <2>4. open' \in [Threads -> SUBSET Pairs] /\ db' \in SUBSET Pairs
        BY <1>9 DEF LeaveTransaction, Typed
    <2>a. retries' = retries \/ retries' = [retries EXCEPT ![t] = 0]
        BY <1>9 DEF LeaveTransaction
    <2>b. 0 \in 0..(MaxRetries - 1) /\ retries \in [Threads -> 0..(MaxRetries - 1)]
        BY CallsAssumption DEF Typed
    <2>5. retries' \in [Threads -> 0..(MaxRetries - 1)]
        BY <2>a, <2>b
    <2> QED  BY <1>9, <2>2, <2>3, <2>4, <2>5 DEF LeaveTransaction, Typed
<1>10. ASSUME UnwindNotification(t)
      PROVE  Typed'
    <2>1. frames[t] # <<>> /\ Pop(t)
        BY <1>10 DEF UnwindNotification, Inside
    <2>2. frames' \in [Threads -> Seq(Frame)] /\ Top(t) \in Frame
        BY <2>1, PopFacts
    <2>3. queue[t] \in Seq(Pairs)
        BY DEF Typed
    <2>4. stack' \in [Threads -> Int] /\ queue' \in [Threads -> Seq(Pairs)] /\ sent' \in Seq(Pairs)
        BY <1>10, <2>3, EmitTyped DEF UnwindNotification
    <2> QED  BY <1>10, <2>2, <2>4 DEF UnwindNotification, Typed
<1>11. ASSUME UnwindZone(t)
      PROVE  Typed'
    <2>1. frames[t] # <<>> /\ Pop(t)
        BY <1>11 DEF UnwindZone, Inside
    <2>2. frames' \in [Threads -> Seq(Frame)] /\ Top(t) \in Frame
        BY <2>1, PopFacts
    <2>a. /\ leaked' = leaked \/ leaked' = [leaked EXCEPT ![t] = leaked[t] \cup {Top(t).zone}]
          /\ lock' = lock \/ lock' = [lock EXCEPT ![Top(t).zone] = Free]
        BY <1>11 DEF UnwindZone
    <2>b. Top(t).zone \in ZoneIds
        BY <2>2 DEF Frame, ZoneIds
    <2>c. leaked \in [Threads -> SUBSET ZoneIds] /\ lock \in [ZoneIds -> Threads \cup {Free}]
        BY DEF Typed
    <2>x. leaked[t] \cup {Top(t).zone} \in SUBSET ZoneIds
        BY <2>b, <2>c
    <2>d. leaked' \in [Threads -> SUBSET ZoneIds]
        BY <2>a, <2>c, <2>x
    <2>3. leaked' \in [Threads -> SUBSET ZoneIds] /\ lock' \in [ZoneIds -> Threads \cup {Free}]
        BY <2>a, <2>b, <2>c, <2>d
    <2> QED  BY <1>11, <2>2, <2>3 DEF UnwindZone, Typed
<1>12. ASSUME UnwindTransaction(t)
      PROVE  Typed'
    <2>1. frames[t] # <<>> /\ Pop(t)
        BY <1>12 DEF UnwindTransaction, Inside
    <2>2. frames' \in [Threads -> Seq(Frame)] /\ Top(t) \in Frame
        BY <2>1, PopFacts
    <2>3. Top(t).at \in Nat \ {0}
        BY <2>1, <2>2, PopFacts DEF FramesSound, FramesIn, Frame
    <2>4. pc' \in [Threads -> Nat \ {0}]
        BY <1>12, <2>3 DEF UnwindTransaction, Typed
    <2>5. exc' \in [Threads -> {"none", "error", "deadlock"}]
        BY <1>12 DEF UnwindTransaction, Typed
    <2>a. \/ retries' = retries \/ retries' = [retries EXCEPT ![t] = 0]
          \/ retries[t] + 1 < MaxRetries /\ retries' = [retries EXCEPT ![t] = retries[t] + 1]
        BY <1>12 DEF UnwindTransaction
    <2>b. 0 \in 0..(MaxRetries - 1) /\ retries \in [Threads -> 0..(MaxRetries - 1)]
        BY CallsAssumption DEF Typed
    <2>c. retries[t] + 1 < MaxRetries => retries[t] + 1 \in 0..(MaxRetries - 1)
        BY <2>b, CallsAssumption
    <2>6. retries' \in [Threads -> 0..(MaxRetries - 1)]
        BY <2>a, <2>b, <2>c
    <2>7. open' \in [Threads -> SUBSET Pairs]
        BY <1>12 DEF UnwindTransaction, Typed
    <2> QED  BY <1>12, <2>2, <2>4, <2>5, <2>6, <2>7 DEF UnwindTransaction, Typed
<1>13. ASSUME End(t)
      PROVE  Typed'
    <2>1. call' \in [Threads -> [id : 0..Len(received'), zone : ZoneIds]]
        BY <1>13 DEF End, Typed, Idle, ZoneIds
    <2> QED  BY <1>13, <2>1 DEF End, Typed
<1>14. ASSUME NEW e \in {"error", "deadlock"}, Raise(t, e)
      PROVE  Typed'
    <2>1. db' \in SUBSET Pairs
        BY <1>14, HerePair DEF Raise, Typed
    <2>2. exc' \in [Threads -> {"none", "error", "deadlock"}]
        BY <1>14 DEF Raise, Typed
    <2> QED  BY <1>14, <2>1, <2>2 DEF Raise, Typed
<1> QED  BY <1>1, <1>2, <1>3, <1>4, <1>5, <1>6, <1>7, <1>8, <1>9, <1>10, <1>11, <1>12, <1>13, <1>14
        DEF Step, Advance, ZoneIds

-----------------------------------------------------------------------------
(* Decorators and the programs they belong to                              *)

\* The instruction a thread runs is one of its program
LEMMA RunsAt ==
    ASSUME Typed, NEW t \in Threads, NEW k, k # "end", Runs(t, k)
    PROVE  /\ call[t].id # 0 /\ exc[t] = "none" /\ Instr(t) = k
           /\ pc[t] # 0 /\ pc[t] \in DOMAIN Program(t) /\ Program(t)[pc[t]] = k
BY DEF Typed, Runs, Instr

\* An idle thread is in no decorator
LEMMA IdleOutside ==
    ASSUME Typed, FramesSound, NEW t \in Threads, call[t].id = 0
    PROVE  frames[t] = <<>> /\ DOMAIN frames[t] = {}
<1>1. frames[t] \in Seq(Frame)
    BY DEF Typed
<1>2. Len(frames[t]) \in Nat /\ DOMAIN frames[t] = 1..Len(frames[t])
    BY <1>1
<1>3. 1 \notin DOMAIN frames[t]
    BY DEF FramesSound, FramesIn
<1>4. Len(frames[t]) = 0
    BY <1>2, <1>3
<1> QED  BY <1>1, <1>2, <1>4

\* Decorators stay in their program: every step of a thread keeps FramesSound
LEMMA FramesStep ==
    ASSUME Typed, FramesSound, NEW t \in Threads, Step(t)
    PROVE  FramesSound'
<1>o. ASSUME NEW u \in Threads \ {t}
      PROVE  FramesIn(u)'
    BY Local, OthersStay DEF FramesSound, FramesIn
<1>p. ASSUME NEW k \in {"N", "S", "C", "T"}, NEW kind \in {"N", "S", "T"}, NEW own \in BOOLEAN,
             NEW z \in ZoneIds, Runs(t, k), kind = "T" => k = "T", Push(t, kind, own, z),
             call' = call
      PROVE  FramesIn(t)'
    <2> DEFINE n == Len(frames[t])
    <2>1. /\ call[t].id # 0 /\ pc[t] # 0 /\ pc[t] \in DOMAIN Program(t)
          /\ Program(t)[pc[t]] = k
        BY <1>p, RunsAt
    <2>2. Program(t)' = Program(t)
        BY <1>p, <2>1, ProgramKept
    <2>3. /\ n \in Nat /\ DOMAIN frames[t] = 1..n /\ DOMAIN frames'[t] = 1..(n + 1)
          /\ frames'[t][n + 1] = [kind |-> kind, at |-> pc[t], own |-> own, zone |-> z]
          /\ \A i \in 1..n : frames'[t][i] = frames[t][i]
        BY <1>p, PushFacts
    <2> SUFFICES ASSUME NEW i \in DOMAIN frames'[t]
                 PROVE  /\ call[t].id # 0 /\ frames'[t][i].at # 0
                        /\ frames'[t][i].at \in DOMAIN Program(t)
                        /\ frames'[t][i].kind = "T" => Program(t)[frames'[t][i].at] = "T"
        BY <1>p, <2>2 DEF FramesIn
    <2>4. CASE i = n + 1
        BY <1>p, <2>1, <2>3, <2>4
    <2>5. CASE i \in 1..n
        BY <2>3, <2>5 DEF FramesSound, FramesIn
    <2> QED  BY <2>3, <2>4, <2>5
<1>q. ASSUME frames[t] # <<>>, Pop(t), call' = call
      PROVE  FramesIn(t)'
    <2> DEFINE n == Len(frames[t])
    <2>1. /\ n \in Nat \ {0} /\ DOMAIN frames[t] = 1..n /\ DOMAIN frames'[t] = 1..(n - 1)
          /\ \A i \in 1..(n - 1) : frames'[t][i] = frames[t][i]
        BY <1>q, PopFacts
    <2>2. n \in DOMAIN frames[t]
        BY <2>1
    <2>3. call[t].id # 0
        BY <2>2 DEF FramesSound, FramesIn
    <2>4. Program(t)' = Program(t)
        BY <1>q, <2>3, ProgramKept
    <2> SUFFICES ASSUME NEW i \in DOMAIN frames'[t]
                 PROVE  /\ call[t].id # 0 /\ frames'[t][i].at # 0
                        /\ frames'[t][i].at \in DOMAIN Program(t)
                        /\ frames'[t][i].kind = "T" => Program(t)[frames'[t][i].at] = "T"
        BY <1>q, <2>4 DEF FramesIn
    <2>5. i \in DOMAIN frames[t] /\ frames'[t][i] = frames[t][i]
        BY <2>1
    <2> QED  BY <2>5 DEF FramesSound, FramesIn
<1>r. ASSUME frames' = frames, call' = call
      PROVE  FramesIn(t)'
    <2>1. CASE call[t].id = 0
        BY <1>r, <2>1, IdleOutside DEF FramesIn
    <2>2. CASE call[t].id # 0
        <3>1. Program(t)' = Program(t)
            BY <1>r, <2>2, ProgramKept
        <3> QED  BY <1>r, <3>1 DEF FramesSound, FramesIn
    <2> QED  BY <2>1, <2>2
<1>1. ASSUME NEW prog \in Calls, NEW z \in Zones, NEW new \in BOOLEAN, Begin(t, prog, z, new)
      PROVE  FramesIn(t)'
    <2>1. frames' = frames /\ call[t].id = 0
        BY <1>1 DEF Begin
    <2> QED  BY <2>1, IdleOutside DEF FramesIn
<1>2. ASSUME EnterNotification(t)
      PROVE  FramesIn(t)'
    <2>1. Runs(t, "N") /\ Push(t, "N", TRUE, NoZone) /\ call' = call
        BY <1>2 DEF EnterNotification
    <2> QED  BY <2>1, <1>p DEF ZoneIds
<1>3. ASSUME EnterTransaction(t)
      PROVE  FramesIn(t)'
    <2>1. Runs(t, "T") /\ Push(t, "T", ~InTransaction(t), NoZone) /\ call' = call
        BY <1>3 DEF EnterTransaction
    <2>2. (~InTransaction(t)) \in BOOLEAN
        BY DEF InTransaction
    <2> QED  BY <2>1, <2>2, <1>p DEF ZoneIds
<1>4. ASSUME NEW z \in ZoneIds, EnterZone(t, z)
      PROVE  FramesIn(t)'
    <2>1. /\ Runs(t, "S") \/ Runs(t, "C")
          /\ Push(t, "S", FALSE, z) \/ Push(t, "S", TRUE, z)
          /\ call' = call
        BY <1>4 DEF EnterZone
    <2> QED  BY <2>1, <1>p
<1>5. ASSUME Write(t)
      PROVE  FramesIn(t)'
    BY <1>5, <1>r DEF Write
<1>6. ASSUME CallDevice(t)
      PROVE  FramesIn(t)'
    BY <1>6, <1>r DEF CallDevice
<1>7. ASSUME LeaveNotification(t)
      PROVE  FramesIn(t)'
    BY <1>7, <1>q DEF LeaveNotification, Inside
<1>8. ASSUME LeaveZone(t)
      PROVE  FramesIn(t)'
    BY <1>8, <1>q DEF LeaveZone, Inside
<1>9. ASSUME LeaveTransaction(t)
      PROVE  FramesIn(t)'
    BY <1>9, <1>q DEF LeaveTransaction, Inside
<1>10. ASSUME UnwindNotification(t)
      PROVE  FramesIn(t)'
    BY <1>10, <1>q DEF UnwindNotification, Inside
<1>11. ASSUME UnwindZone(t)
      PROVE  FramesIn(t)'
    BY <1>11, <1>q DEF UnwindZone, Inside
<1>12. ASSUME UnwindTransaction(t)
      PROVE  FramesIn(t)'
    BY <1>12, <1>q DEF UnwindTransaction, Inside
<1>13. ASSUME End(t)
      PROVE  FramesIn(t)'
    <2>1. frames' = frames /\ frames[t] = <<>>
        BY <1>13 DEF End
    <2> QED  BY <2>1 DEF FramesIn
<1>14. ASSUME NEW e \in {"error", "deadlock"}, Raise(t, e)
      PROVE  FramesIn(t)'
    BY <1>14, <1>r DEF Raise
<1>s. FramesIn(t)'
    BY <1>1, <1>2, <1>3, <1>4, <1>5, <1>6, <1>7, <1>8, <1>9, <1>10, <1>11, <1>12, <1>13, <1>14
        DEF Step, Advance, ZoneIds
<1> QED  BY <1>o, <1>s DEF FramesSound

-----------------------------------------------------------------------------
(* The notification stack                                                  *)

\* Every step keeps the count of the notification wrappers
LEMMA CountedStep ==
    ASSUME Typed, FramesSound, Counted, NEW t \in Threads, Step(t)
    PROVE  Counted'
<1> DEFINE n == Len(frames[t])
<1>f. /\ CountedIn(t) /\ IsFiniteSet(Notifying(t)) /\ Cardinality(Notifying(t)) \in Nat
    BY NotifyingFinite DEF Counted
<1>o. ASSUME NEW u \in Threads \ {t}
      PROVE  CountedIn(u)'
    BY Local, OthersStay DEF Counted, CountedIn
<1>p. ASSUME NEW kind \in {"N", "S", "T"}, NEW own \in BOOLEAN, NEW z \in ZoneIds,
             kind # "N", Push(t, kind, own, z), stack' = stack, queue' = queue
      PROVE  CountedIn(t)'
    <2>1. /\ n \in Nat /\ DOMAIN frames[t] = 1..n /\ DOMAIN frames'[t] = 1..(n + 1)
          /\ frames'[t][n + 1] = [kind |-> kind, at |-> pc[t], own |-> own, zone |-> z]
          /\ frames'[t][n + 1].kind = kind
          /\ \A i \in 1..n : frames'[t][i] = frames[t][i]
        BY <1>p, PushFacts
    <2>a. frames'[t][n + 1].kind # "N"
        BY <1>p, <2>1
    <2>2. Notifying(t)' = Notifying(t)
        BY <2>1, <2>a DEF Notifying
    <2> QED  BY <1>f, <1>p, <2>2 DEF CountedIn
<1>q. ASSUME frames[t] # <<>>, Top(t).kind # "N", Pop(t), stack' = stack, queue' = queue
      PROVE  CountedIn(t)'
    <2>1. /\ n \in Nat \ {0} /\ DOMAIN frames[t] = 1..n /\ DOMAIN frames'[t] = 1..(n - 1)
          /\ frames[t][n].kind # "N"
          /\ \A i \in 1..(n - 1) : frames'[t][i] = frames[t][i]
        BY <1>q, PopFacts
    <2>2. Notifying(t)' = Notifying(t)
        BY <2>1 DEF Notifying
    <2> QED  BY <1>f, <1>q, <2>2 DEF CountedIn
<1>r. ASSUME frames' = frames, stack' = stack, queue' = queue
      PROVE  CountedIn(t)'
    BY <1>f, <1>r DEF CountedIn, Notifying
<1>e. ASSUME frames[t] # <<>>, Top(t).kind = "N", Pop(t), NEW q \in Seq(Pairs), Emit(t, q)
      PROVE  CountedIn(t)'
    <2>1. /\ n \in Nat \ {0} /\ DOMAIN frames[t] = 1..n /\ DOMAIN frames'[t] = 1..(n - 1)
          /\ frames[t][n].kind = "N"
          /\ \A i \in 1..(n - 1) : frames'[t][i] = frames[t][i]
        BY <1>e, PopFacts
    <2>2. n \in Notifying(t) /\ Notifying(t)' = Notifying(t) \ {n}
        BY <2>1 DEF Notifying
    <2>a. Cardinality(Notifying(t) \ {n}) = Cardinality(Notifying(t)) - 1
        BY <1>f, <2>2, FS_RemoveElement
    <2>3. Cardinality(Notifying(t)') = Cardinality(Notifying(t)) - 1
        BY <2>2, <2>a
    <2>4. stack'[t] = stack[t] - 1 /\ (stack[t] = 1 => queue'[t] = <<>>)
        BY <1>e DEF Emit, Typed
    <2> QED  BY <1>f, <2>3, <2>4 DEF CountedIn
<1>1. ASSUME NEW prog \in Calls, NEW z \in Zones, NEW new \in BOOLEAN, Begin(t, prog, z, new)
      PROVE  CountedIn(t)'
    BY <1>1, <1>r DEF Begin
<1>2. ASSUME EnterNotification(t)
      PROVE  CountedIn(t)'
    <2>1. Push(t, "N", TRUE, NoZone) /\ NoZone \in ZoneIds
        BY <1>2 DEF EnterNotification, ZoneIds
    <2>2. /\ n \in Nat /\ DOMAIN frames[t] = 1..n /\ DOMAIN frames'[t] = 1..(n + 1)
          /\ frames'[t][n + 1].kind = "N"
          /\ \A i \in 1..n : frames'[t][i] = frames[t][i]
        BY <2>1, PushFacts
    <2>3. n + 1 \notin Notifying(t) /\ Notifying(t)' = Notifying(t) \cup {n + 1}
        BY <2>2 DEF Notifying
    <2>a. Cardinality(Notifying(t) \cup {n + 1}) = Cardinality(Notifying(t)) + 1
        BY <1>f, <2>3, FS_AddElement
    <2>4. Cardinality(Notifying(t)') = Cardinality(Notifying(t)) + 1
        BY <2>3, <2>a
    <2>5. stack'[t] = stack[t] + 1 /\ queue' = queue
        BY <1>2 DEF EnterNotification, Typed
    <2> QED  BY <1>f, <2>4, <2>5 DEF CountedIn
<1>3. ASSUME EnterTransaction(t)
      PROVE  CountedIn(t)'
    <2>1. Push(t, "T", ~InTransaction(t), NoZone) /\ stack' = stack /\ queue' = queue
        BY <1>3 DEF EnterTransaction
    <2>2. (~InTransaction(t)) \in BOOLEAN
        BY DEF InTransaction
    <2> QED  BY <2>1, <2>2, <1>p DEF ZoneIds
<1>4. ASSUME NEW z \in ZoneIds, EnterZone(t, z)
      PROVE  CountedIn(t)'
    <2>1. /\ Push(t, "S", FALSE, z) \/ Push(t, "S", TRUE, z)
          /\ stack' = stack /\ queue' = queue
        BY <1>4 DEF EnterZone
    <2> QED  BY <2>1, <1>p
<1>5. ASSUME Write(t)
      PROVE  CountedIn(t)'
    BY <1>5, <1>r DEF Write
<1>6. ASSUME CallDevice(t)
      PROVE  CountedIn(t)'
    BY <1>6, <1>r DEF CallDevice
<1>7. ASSUME LeaveNotification(t)
      PROVE  CountedIn(t)'
    <2>1. frames[t] # <<>> /\ Top(t).kind = "N" /\ Pop(t)
        BY <1>7 DEF LeaveNotification, Inside
    <2> DEFINE q == <<<<call[t].id, Top(t).at>>>> \o queue[t]
    <2>2. q \in Seq(Pairs)
        BY <2>1, TopPair DEF Typed
    <2>3. Emit(t, q)
        BY <1>7 DEF LeaveNotification
    <2> HIDE DEF q
    <2> QED  BY <2>1, <2>2, <2>3, <1>e
<1>8. ASSUME LeaveZone(t)
      PROVE  CountedIn(t)'
    BY <1>8, <1>q DEF LeaveZone, Inside
<1>9. ASSUME LeaveTransaction(t)
      PROVE  CountedIn(t)'
    BY <1>9, <1>q DEF LeaveTransaction, Inside
<1>10. ASSUME UnwindNotification(t)
      PROVE  CountedIn(t)'
    <2>1. frames[t] # <<>> /\ Top(t).kind = "N" /\ Pop(t) /\ Emit(t, queue[t])
        BY <1>10 DEF UnwindNotification, Inside
    <2>2. queue[t] \in Seq(Pairs)
        BY DEF Typed
    <2> QED  BY <2>1, <2>2, <1>e
<1>11. ASSUME UnwindZone(t)
      PROVE  CountedIn(t)'
    BY <1>11, <1>q DEF UnwindZone, Inside
<1>12. ASSUME UnwindTransaction(t)
      PROVE  CountedIn(t)'
    BY <1>12, <1>q DEF UnwindTransaction, Inside
<1>13. ASSUME End(t)
      PROVE  CountedIn(t)'
    BY <1>13, <1>r DEF End
<1>14. ASSUME NEW e \in {"error", "deadlock"}, Raise(t, e)
      PROVE  CountedIn(t)'
    BY <1>14, <1>r DEF Raise
<1>s. CountedIn(t)'
    BY <1>1, <1>2, <1>3, <1>4, <1>5, <1>6, <1>7, <1>8, <1>9, <1>10, <1>11, <1>12, <1>13, <1>14
        DEF Step, Advance, ZoneIds
<1> QED  BY <1>o, <1>s DEF Counted

-----------------------------------------------------------------------------
(* Transactions and their retries                                          *)

\* A transaction stays open when a decorator is entered
LEMMA PushTransaction ==
    ASSUME Typed, Transacted, NEW t \in Threads, NEW kind \in {"N", "S", "T"}, NEW own \in BOOLEAN,
           NEW z \in ZoneIds, Push(t, kind, own, z), kind = "T" => (own <=> ~InTransaction(t))
    PROVE  /\ OutermostOwns(t)'
           /\ InTransaction(t) \/ kind = "T" => InTransaction(t)'
<1> DEFINE n == Len(frames[t])
<1>1. /\ n \in Nat /\ DOMAIN frames[t] = 1..n /\ DOMAIN frames'[t] = 1..(n + 1)
      /\ frames'[t][n + 1] = [kind |-> kind, at |-> pc[t], own |-> own, zone |-> z]
      /\ frames'[t][n + 1].kind = kind
      /\ \A i \in 1..n : frames'[t][i] = frames[t][i]
    BY PushFacts
<1>2. frames'[t][n + 1].own <=> own
    BY <1>1
<1>3. InTransaction(t) \/ kind = "T" => InTransaction(t)'
    BY <1>1 DEF InTransaction
<1>4. ASSUME NEW i \in DOMAIN frames'[t], frames'[t][i].kind = "T"
      PROVE  frames'[t][i].own <=> \A j \in 1..(i - 1) : frames'[t][j].kind # "T"
    <2>1. CASE i \in 1..n
        <3>1. \A j \in 1..(i - 1) : frames'[t][j] = frames[t][j]
            BY <1>1, <2>1
        <3>2. i \in DOMAIN frames[t] /\ frames[t][i].kind = "T" /\ frames'[t][i] = frames[t][i]
            BY <1>1, <1>4, <2>1
        <3> QED  BY <3>1, <3>2 DEF Transacted, OutermostOwns
    <2>2. CASE i = n + 1
        <3>1. kind = "T" /\ i - 1 = n
            BY <1>1, <1>4, <2>2
        <3>2. InTransaction(t) <=> \E j \in 1..n : frames'[t][j].kind = "T"
            BY <1>1 DEF InTransaction
        <3> QED  BY <1>2, <2>2, <3>1, <3>2
    <2> QED  BY <1>1, <2>1, <2>2
<1> QED  BY <1>3, <1>4 DEF OutermostOwns

\* ... and when one is left that does not own it
LEMMA PopTransaction ==
    ASSUME Typed, Transacted, NEW t \in Threads, frames[t] # <<>>, Pop(t)
    PROVE  /\ OutermostOwns(t)'
           /\ Top(t).kind # "T" /\ InTransaction(t) => InTransaction(t)'
           /\ Top(t).kind = "T" /\ ~Top(t).own => InTransaction(t)'
<1> DEFINE n == Len(frames[t])
<1>1. /\ n \in Nat \ {0} /\ DOMAIN frames[t] = 1..n /\ DOMAIN frames'[t] = 1..(n - 1)
      /\ Top(t) = frames[t][n]
      /\ \A i \in 1..(n - 1) : frames'[t][i] = frames[t][i]
    BY PopFacts
<1>2. ASSUME NEW i \in DOMAIN frames'[t], frames'[t][i].kind = "T"
      PROVE  frames'[t][i].own <=> \A j \in 1..(i - 1) : frames'[t][j].kind # "T"
    <2>1. i \in DOMAIN frames[t] /\ frames[t][i].kind = "T" /\ frames'[t][i] = frames[t][i]
        BY <1>1, <1>2
    <2>2. \A j \in 1..(i - 1) : frames'[t][j] = frames[t][j]
        BY <1>1
    <2> QED  BY <2>1, <2>2 DEF Transacted, OutermostOwns
<1>3. ASSUME Top(t).kind # "T", InTransaction(t)
      PROVE  InTransaction(t)'
    <2>1. PICK i \in DOMAIN frames[t] : frames[t][i].kind = "T"
        BY <1>3 DEF InTransaction
    <2>2. i \in DOMAIN frames'[t] /\ frames'[t][i].kind = "T"
        BY <1>1, <1>3, <2>1
    <2> QED  BY <2>2 DEF InTransaction
<1>4. ASSUME Top(t).kind = "T", ~Top(t).own
      PROVE  InTransaction(t)'
    <2>1. n \in DOMAIN frames[t] /\ OutermostOwns(t)
        BY <1>1 DEF Transacted
    <2>2. \E j \in 1..(n - 1) : frames[t][j].kind = "T"
        BY <1>1, <1>4, <2>1 DEF OutermostOwns
    <2> QED  BY <1>1, <2>2 DEF InTransaction
<1> QED  BY <1>2, <1>3, <1>4 DEF OutermostOwns

\* Every step keeps transactions and retries in their wrappers
LEMMA TransactedStep ==
    ASSUME Typed, FramesSound, Transacted, NEW t \in Threads, Step(t)
    PROVE  Transacted'
<1> DEFINE InvT == OutermostOwns(t)' /\ WritesWait(t)' /\ RetriesCount(t)'
<1>t. OutermostOwns(t) /\ WritesWait(t) /\ RetriesCount(t)
    BY DEF Transacted
<1>o. ASSUME NEW u \in Threads \ {t}
      PROVE  OutermostOwns(u)' /\ WritesWait(u)' /\ RetriesCount(u)'
    <2>1. OutermostOwns(u) /\ WritesWait(u) /\ RetriesCount(u)
        BY DEF Transacted
    <2>2. /\ call'[u] = call[u] /\ frames'[u] = frames[u] /\ exc'[u] = exc[u]
          /\ retries'[u] = retries[u] /\ open'[u] = open[u]
        BY Local
    <2>3. /\ InTransaction(u)' <=> InTransaction(u)
          /\ call[u].id # 0 => Instr(u)' = Instr(u)
        BY OthersStay
    <2>4. OutermostOwns(u)'
        BY <2>1, <2>2 DEF OutermostOwns
    <2>5. WritesWait(u)'
        BY <2>1, <2>2, <2>3 DEF WritesWait
    <2>6. RetriesCount(u)'
        BY <2>1, <2>2, <2>3 DEF RetriesCount
    <2> QED  BY <2>4, <2>5, <2>6
<1>p. ASSUME NEW k \in {"N", "S", "C", "T"}, NEW kind \in {"N", "S", "T"}, NEW own \in BOOLEAN,
             NEW z \in ZoneIds, Runs(t, k), kind = "T" <=> k = "T", Push(t, kind, own, z),
             kind = "T" => (own <=> ~InTransaction(t)),
             open' = open, retries' = retries, call' = call
      PROVE  InvT
    <2>1. OutermostOwns(t)' /\ (InTransaction(t) \/ kind = "T" => InTransaction(t)')
        BY <1>p, PushTransaction
    <2>2. call[t].id # 0 /\ Instr(t) = k
        BY <1>p, RunsAt
    <2>3. WritesWait(t)'
        BY <1>t, <1>p, <2>1 DEF WritesWait
    <2>4. RetriesCount(t)'
        BY <1>t, <1>p, <2>1, <2>2 DEF RetriesCount
    <2> QED  BY <2>1, <2>3, <2>4
<1>q. ASSUME frames[t] # <<>>, Top(t).kind # "T", Pop(t), Runs(t, "X") \/ exc[t] # "none",
             open' = open, retries' = retries, call' = call
      PROVE  InvT
    <2>1. OutermostOwns(t)' /\ (InTransaction(t) => InTransaction(t)')
        BY <1>q, PopTransaction
    <2>2. exc[t] # "none" \/ Instr(t) # "T"
        BY <1>q, RunsAt
    <2>3. WritesWait(t)'
        BY <1>t, <1>q, <2>1 DEF WritesWait
    <2>4. RetriesCount(t)'
        BY <1>t, <1>q, <2>1, <2>2 DEF RetriesCount
    <2> QED  BY <2>1, <2>3, <2>4
<1>r. ASSUME frames' = frames, Runs(t, "W") \/ Runs(t, "D") \/ Runs(t, "R"),
             open' = open \/ InTransaction(t), retries' = retries, call' = call
      PROVE  InvT
    <2>1. Instr(t) # "T"
        BY <1>r, RunsAt
    <2>2. OutermostOwns(t)' /\ (InTransaction(t)' <=> InTransaction(t))
        BY <1>t, <1>r DEF OutermostOwns, InTransaction
    <2>3. WritesWait(t)'
        BY <1>t, <1>r, <2>2 DEF WritesWait
    <2>4. RetriesCount(t)'
        BY <1>t, <1>r, <2>1, <2>2 DEF RetriesCount
    <2> QED  BY <2>2, <2>3, <2>4
<1>i. ASSUME frames[t] = <<>>, frames' = frames, open' = open, retries'[t] = 0
      PROVE  InvT
    <2>1. DOMAIN frames[t] = {} /\ DOMAIN frames'[t] = {}
        BY <1>i
    <2>2. open[t] = {}
        BY <1>t, <2>1 DEF WritesWait, InTransaction
    <2> QED  BY <1>i, <2>1, <2>2 DEF OutermostOwns, WritesWait, RetriesCount
<1>1. ASSUME NEW prog \in Calls, NEW z \in Zones, NEW new \in BOOLEAN, Begin(t, prog, z, new)
      PROVE  InvT
    <2>1. frames[t] = <<>> /\ retries[t] = 0
        BY <1>1, <1>t, IdleOutside DEF Begin, RetriesCount
    <2> QED  BY <1>1, <2>1, <1>i DEF Begin
<1>2. ASSUME EnterNotification(t)
      PROVE  InvT
    <2>1. /\ Runs(t, "N") /\ Push(t, "N", TRUE, NoZone)
          /\ open' = open /\ retries' = retries /\ call' = call
        BY <1>2 DEF EnterNotification
    <2> QED  BY <2>1, <1>p DEF ZoneIds
<1>3. ASSUME EnterTransaction(t)
      PROVE  InvT
    <2>1. /\ Runs(t, "T") /\ Push(t, "T", ~InTransaction(t), NoZone)
          /\ open' = open /\ retries' = retries /\ call' = call
        BY <1>3 DEF EnterTransaction
    <2>2. (~InTransaction(t)) \in BOOLEAN
        BY DEF InTransaction
    <2> QED  BY <2>1, <2>2, <1>p DEF ZoneIds
<1>4. ASSUME NEW z \in ZoneIds, EnterZone(t, z)
      PROVE  InvT
    <2>1. /\ Runs(t, "S") \/ Runs(t, "C")
          /\ Push(t, "S", FALSE, z) \/ Push(t, "S", TRUE, z)
          /\ open' = open /\ retries' = retries /\ call' = call
        BY <1>4 DEF EnterZone
    <2> QED  BY <2>1, <1>p
<1>5. ASSUME Write(t)
      PROVE  InvT
    <2>1. open' = open \/ InTransaction(t)
        BY <1>5 DEF Write
    <2> QED  BY <1>5, <2>1, <1>r DEF Write
<1>6. ASSUME CallDevice(t)
      PROVE  InvT
    BY <1>6, <1>r DEF CallDevice
<1>7. ASSUME LeaveNotification(t)
      PROVE  InvT
    BY <1>7, <1>q DEF LeaveNotification, Inside
<1>8. ASSUME LeaveZone(t)
      PROVE  InvT
    BY <1>8, <1>q DEF LeaveZone, Inside
<1>9. ASSUME LeaveTransaction(t)
      PROVE  InvT
    <2>1. /\ frames[t] # <<>> /\ Top(t).kind = "T" /\ Pop(t) /\ Runs(t, "X") /\ call' = call
        BY <1>9 DEF LeaveTransaction, Inside
    <2>2. OutermostOwns(t)' /\ (~Top(t).own => InTransaction(t)') /\ call[t].id # 0
        BY <2>1, PopTransaction, RunsAt
    <2>3. CASE Top(t).own
        <3>1. open'[t] = {} /\ retries'[t] = 0
            BY <1>9, <2>3 DEF LeaveTransaction, Typed
        <3> QED  BY <2>2, <3>1 DEF WritesWait, RetriesCount
    <2>4. CASE ~Top(t).own
        BY <2>1, <2>2, <2>4 DEF WritesWait, RetriesCount
    <2> QED  BY <2>3, <2>4
<1>10. ASSUME UnwindNotification(t)
      PROVE  InvT
    BY <1>10, <1>q DEF UnwindNotification, Inside
<1>11. ASSUME UnwindZone(t)
      PROVE  InvT
    BY <1>11, <1>q DEF UnwindZone, Inside
<1>12. ASSUME UnwindTransaction(t)
      PROVE  InvT
    <2>1. /\ frames[t] # <<>> /\ Top(t).kind = "T" /\ Pop(t) /\ call' = call
        BY <1>12 DEF UnwindTransaction, Inside
    <2>2. OutermostOwns(t)' /\ (~Top(t).own => InTransaction(t)')
        BY <2>1, PopTransaction
    <2>3. /\ Len(frames[t]) \in DOMAIN frames[t] /\ Top(t) = frames[t][Len(frames[t])]
        BY <2>1, PopFacts
    <2>4. /\ call[t].id # 0 /\ Top(t).at \in DOMAIN Program(t)
          /\ Program(t)[Top(t).at] = "T"
        BY <2>1, <2>3 DEF FramesSound, FramesIn
    <2>5. Program(t)' = Program(t)
        BY <2>1, <2>4, ProgramKept
    <2>6. open'[t] = {}
        BY <1>12 DEF UnwindTransaction, Typed
    <2>7. CASE ~Top(t).own
        BY <2>1, <2>2, <2>4, <2>6, <2>7 DEF WritesWait, RetriesCount
    <2>8. CASE Top(t).own /\ exc[t] = "deadlock" /\ retries[t] + 1 < MaxRetries
        <3>1. exc'[t] = "none" /\ pc'[t] = Top(t).at
            BY <1>12, <2>8 DEF UnwindTransaction, Typed
        <3>2. Instr(t)' = "T"
            BY <2>4, <2>5, <3>1 DEF Instr
        <3> QED  BY <2>1, <2>2, <2>4, <2>6, <3>1, <3>2 DEF WritesWait, RetriesCount
    <2>9. CASE retries'[t] = 0
        BY <2>2, <2>6, <2>9 DEF WritesWait, RetriesCount
    <2>10. ASSUME Top(t).own, ~(exc[t] = "deadlock" /\ retries[t] + 1 < MaxRetries)
           PROVE  retries'[t] = 0
        BY <1>12, <2>10 DEF UnwindTransaction, Typed
    <2> QED  BY <2>7, <2>8, <2>9, <2>10
<1>13. ASSUME End(t)
      PROVE  InvT
    <2>1. frames[t] = <<>> /\ (exc[t] # "none" \/ Instr(t) = "end") /\ frames' = frames
          /\ open' = open /\ retries' = retries
        BY <1>13 DEF End
    <2>2. ~InTransaction(t)
        BY <2>1 DEF InTransaction
    <2>3. retries'[t] = 0
        BY <1>t, <2>1, <2>2 DEF RetriesCount
    <2> QED  BY <2>1, <2>3, <1>i
<1>14. ASSUME NEW e \in {"error", "deadlock"}, Raise(t, e)
      PROVE  InvT
    BY <1>14, <1>r DEF Raise
<1>s. InvT
    BY <1>1, <1>2, <1>3, <1>4, <1>5, <1>6, <1>7, <1>8, <1>9, <1>10, <1>11, <1>12, <1>13, <1>14
        DEF Step, Advance, ZoneIds
<1> QED  BY <1>o, <1>s DEF Transacted

-----------------------------------------------------------------------------
(* Zone locks and held zone ids                                            *)

\* A step of a thread leaves the locks of the others alone
LEMMA LocksOfOthers ==
    ASSUME Typed, Locked, NEW t \in Threads, Step(t), NEW u \in Threads \ {t}, NEW y \in ZoneIds
    PROVE  lock'[y] = u <=> lock[y] = u
<1> DEFINE Same == lock'[y] = u <=> lock[y] = u
<1>f. lock \in [ZoneIds -> Threads \cup {Free}] /\ u # Free
    BY CallsAssumption DEF Typed
<1>q. ASSUME frames[t] # <<>>, Pop(t), Top(t).kind = "S", Top(t).own,
             lock' = [lock EXCEPT ![Top(t).zone] = Free]
      PROVE  Same
    <2>1. /\ Len(frames[t]) \in DOMAIN frames[t] /\ Top(t) = frames[t][Len(frames[t])]
          /\ Top(t) \in Frame
        BY <1>q, PopFacts
    <2>2. Took(t, Len(frames[t]), Top(t).zone) /\ Top(t).zone \in ZoneIds
        BY <1>q, <2>1 DEF Took, Frame, ZoneIds
    <2>3. lock[Top(t).zone] = t
        BY <2>1, <2>2 DEF Locked, TakersHold
    <2> QED  BY <1>f, <1>q, <2>2, <2>3
<1>1. ASSUME NEW prog \in Calls, NEW z \in Zones, NEW new \in BOOLEAN, Begin(t, prog, z, new)
      PROVE  Same
    BY <1>1 DEF Begin
<1>2. ASSUME EnterNotification(t)
      PROVE  Same
    BY <1>2 DEF EnterNotification
<1>3. ASSUME EnterTransaction(t)
      PROVE  Same
    BY <1>3 DEF EnterTransaction
<1>4. ASSUME NEW z \in ZoneIds, EnterZone(t, z)
      PROVE  Same
    <2>1. lock' = lock \/ (lock[z] = Free /\ lock' = [lock EXCEPT ![z] = t])
        BY <1>4 DEF EnterZone
    <2> QED  BY <1>f, <2>1
<1>5. ASSUME Write(t)
      PROVE  Same
    BY <1>5 DEF Write
<1>6. ASSUME CallDevice(t)
      PROVE  Same
    BY <1>6 DEF CallDevice
<1>7. ASSUME LeaveNotification(t)
      PROVE  Same
    BY <1>7 DEF LeaveNotification
<1>8. ASSUME LeaveZone(t)
      PROVE  Same
    <2>1. frames[t] # <<>> /\ Pop(t) /\ Top(t).kind = "S"
        BY <1>8 DEF LeaveZone, Inside
    <2>2. CASE Top(t).own
        BY <1>8, <1>q, <2>1, <2>2 DEF LeaveZone
    <2>3. CASE ~Top(t).own
        BY <1>8, <2>3 DEF LeaveZone
    <2> QED  BY <2>2, <2>3
<1>9. ASSUME LeaveTransaction(t)
      PROVE  Same
    BY <1>9 DEF LeaveTransaction
<1>10. ASSUME UnwindNotification(t)
      PROVE  Same
    BY <1>10 DEF UnwindNotification
<1>11. ASSUME UnwindZone(t)
      PROVE  Same
    <2>1. frames[t] # <<>> /\ Pop(t) /\ Top(t).kind = "S"
        BY <1>11 DEF UnwindZone, Inside
    <2>2. CASE Top(t).own
        BY <1>11, <1>q, <2>1, <2>2 DEF UnwindZone
    <2>3. CASE ~Top(t).own
        BY <1>11, <2>3 DEF UnwindZone
    <2> QED  BY <2>2, <2>3
<1>12. ASSUME UnwindTransaction(t)
      PROVE  Same
    BY <1>12 DEF UnwindTransaction
<1>13. ASSUME End(t)
      PROVE  Same
    BY <1>13 DEF End
<1>14. ASSUME NEW e \in {"error", "deadlock"}, Raise(t, e)
      PROVE  Same
    BY <1>14 DEF Raise
<1> QED  BY <1>1, <1>2, <1>3, <1>4, <1>5, <1>6, <1>7, <1>8, <1>9, <1>10, <1>11, <1>12, <1>13, <1>14
        DEF Step, Advance, ZoneIds

\* Every step keeps locks and held zone ids with the wrappers that took them
LEMMA LockedStep ==
    ASSUME Typed, FramesSound, Locked, NEW t \in Threads, Step(t)
    PROVE  Locked'
<1> DEFINE n == Len(frames[t])
           Keep == TakersHold(t)' /\ HoldersTook(t)' /\ EntrantsHold(t)'
<1>t. TakersHold(t) /\ HoldersTook(t) /\ EntrantsHold(t)
    BY DEF Locked
<1>z. \A i \in DOMAIN frames[t] : frames[t][i].zone \in ZoneIds
    <2>1. frames[t] \in Seq(Frame)
        BY DEF Typed
    <2>2. \A i \in DOMAIN frames[t] : frames[t][i] \in Frame
        BY <2>1
    <2> QED  BY <2>2 DEF Frame, ZoneIds
<1>o. ASSUME NEW u \in Threads \ {t}
      PROVE  TakersHold(u)' /\ HoldersTook(u)' /\ EntrantsHold(u)'
    <2>1. TakersHold(u) /\ HoldersTook(u) /\ EntrantsHold(u)
        BY DEF Locked
    <2>2. frames'[u] = frames[u] /\ held'[u] = held[u] /\ leaked'[u] = leaked[u]
        BY Local
    <2>3. \A i, y : Took(u, i, y)' <=> Took(u, i, y)
        BY <2>2 DEF Took
    <2>4. \A y \in ZoneIds : lock'[y] = u <=> lock[y] = u
        BY LocksOfOthers
    <2>5. TakersHold(u)'
        BY <2>1, <2>2, <2>3, <2>4 DEF TakersHold
    <2>6. HoldersTook(u)'
        BY <2>1, <2>2, <2>3, <2>4 DEF HoldersTook
    <2>7. EntrantsHold(u)'
        BY <2>1, <2>2, <2>3 DEF EntrantsHold
    <2> QED  BY <2>5, <2>6, <2>7
<1>p. ASSUME NEW kind \in {"N", "S", "T"}, NEW own \in BOOLEAN, NEW z \in ZoneIds,
             Push(t, kind, own, z), kind = "S" => ~own /\ z \in held[t],
             lock' = lock, held' = held, leaked' = leaked
      PROVE  Keep
    <2>0. PICK m \in Nat : m = Len(frames[t])
        BY DEF Typed
    <2>1. /\ m \in Nat /\ DOMAIN frames[t] = 1..m /\ DOMAIN frames'[t] = 1..(m + 1)
          /\ frames'[t][m + 1] = [kind |-> kind, at |-> pc[t], own |-> own, zone |-> z]
          /\ \A i \in 1..m : frames'[t][i] = frames[t][i]
        BY <1>p, <2>0, PushFacts
    <2>2. /\ \A i \in 1..m : \A y : Took(t, i, y)' <=> Took(t, i, y)
          /\ \A y : ~Took(t, m + 1, y)'
        BY <1>p, <2>1 DEF Took
    <2>3. TakersHold(t)'
        BY <1>p, <1>t, <2>1, <2>2 DEF TakersHold
    <2>4. HoldersTook(t)'
        BY <1>p, <1>t, <2>1, <2>2 DEF HoldersTook
    <2>5. ASSUME NEW i \in DOMAIN frames'[t], NEW y \in ZoneIds, frames'[t][i].kind = "S",
                 frames'[t][i].zone = y
          PROVE  y \in leaked'[t] \/ \E j \in 1..i : Took(t, j, y)'
        <3>1. CASE i \in 1..m
            <4>1. i \in DOMAIN frames[t] /\ frames'[t][i] = frames[t][i] /\ 1..i \subseteq 1..m
                BY <2>1, <3>1
            <4>2. y \in leaked[t] \/ \E j \in 1..i : Took(t, j, y)
                BY <1>t, <2>5, <4>1 DEF EntrantsHold
            <4> QED  BY <1>p, <2>2, <4>1, <4>2
        <3>2. CASE i = m + 1
            <4>1. kind = "S" /\ y = z
                BY <2>1, <2>5, <3>2
            <4>2. z \in leaked[t] \/ \E j \in DOMAIN frames[t] : Took(t, j, z)
                BY <1>p, <1>t, <4>1 DEF HoldersTook
            <4>3. 1..m \subseteq 1..i
                BY <2>1, <3>2
            <4> QED  BY <1>p, <2>1, <2>2, <4>1, <4>2, <4>3
        <3> QED  BY <2>1, <3>1, <3>2
    <2>6. EntrantsHold(t)'
        BY <2>5 DEF EntrantsHold
    <2> QED  BY <2>3, <2>4, <2>6
<1>q. ASSUME frames[t] # <<>>, Pop(t), ~(Top(t).kind = "S" /\ Top(t).own),
             lock' = lock, held' = held, leaked' = leaked
      PROVE  Keep
    <2>1. /\ n \in Nat \ {0} /\ DOMAIN frames[t] = 1..n /\ DOMAIN frames'[t] = 1..(n - 1)
          /\ Top(t) = frames[t][n]
          /\ \A i \in 1..(n - 1) : frames'[t][i] = frames[t][i]
        BY <1>q, PopFacts
    <2>2. /\ \A i \in 1..(n - 1) : \A y : Took(t, i, y)' <=> Took(t, i, y)
          /\ \A y : ~Took(t, n, y)
        BY <1>q, <2>1 DEF Took
    <2>3. TakersHold(t)'
        BY <1>q, <1>t, <2>1, <2>2 DEF TakersHold
    <2>4. HoldersTook(t)'
        <3>1. \A y : (\E i \in DOMAIN frames[t] : Took(t, i, y)) =>
                         \E i \in DOMAIN frames'[t] : Took(t, i, y)'
            BY <2>1, <2>2
        <3> QED  BY <1>q, <1>t, <3>1 DEF HoldersTook
    <2>5. ASSUME NEW i \in DOMAIN frames'[t], NEW y \in ZoneIds, frames'[t][i].kind = "S",
                 frames'[t][i].zone = y
          PROVE  y \in leaked'[t] \/ \E j \in 1..i : Took(t, j, y)'
        <3>1. i \in DOMAIN frames[t] /\ frames'[t][i] = frames[t][i] /\ 1..i \subseteq 1..(n - 1)
            BY <2>1
        <3>2. y \in leaked[t] \/ \E j \in 1..i : Took(t, j, y)
            BY <1>t, <2>5, <3>1 DEF EntrantsHold
        <3> QED  BY <1>q, <2>2, <3>1, <3>2
    <2>6. EntrantsHold(t)'
        BY <2>5 DEF EntrantsHold
    <2> QED  BY <2>3, <2>4, <2>6
<1>r. ASSUME frames' = frames, lock' = lock, held' = held, leaked' = leaked
      PROVE  Keep
    BY <1>r, <1>t DEF TakersHold, HoldersTook, EntrantsHold, Took
<1>l. ASSUME frames[t] # <<>>, Pop(t), Top(t).kind = "S", Top(t).own,
             lock' = [lock EXCEPT ![Top(t).zone] = Free],
             \/ held' = [held EXCEPT ![t] = held[t] \ {Top(t).zone}] /\ leaked' = leaked
             \/ held' = held /\ leaked' = [leaked EXCEPT ![t] = leaked[t] \cup {Top(t).zone}]
      PROVE  Keep
    <2> DEFINE x == Top(t).zone
    <2>1. /\ n \in Nat \ {0} /\ DOMAIN frames[t] = 1..n /\ DOMAIN frames'[t] = 1..(n - 1)
          /\ Top(t) = frames[t][n] /\ n \in DOMAIN frames[t]
          /\ \A i \in 1..(n - 1) : frames'[t][i] = frames[t][i]
        BY <1>l, PopFacts
    <2>2. x \in ZoneIds /\ Took(t, n, x) /\ \A y : Took(t, n, y) => y = x
        BY <1>l, <1>z, <2>1 DEF Took
    <2>3. \A i \in 1..(n - 1) : \A y : Took(t, i, y)' <=> Took(t, i, y)
        BY <2>1 DEF Took
    <2>4. /\ lock[x] = t /\ x \in held[t] /\ x \notin leaked[t]
          /\ \A j \in DOMAIN frames[t] : Took(t, j, x) => j = n
        BY <1>t, <2>1, <2>2 DEF TakersHold
    <2>5. \A i \in 1..(n - 1) : ~Took(t, i, x)
        BY <2>1, <2>4
    <2>6. /\ lock'[x] = Free /\ Free # t
          /\ \A y \in ZoneIds \ {x} : /\ lock'[y] = lock[y]
                                      /\ y \in held'[t] <=> y \in held[t]
                                      /\ y \in leaked'[t] <=> y \in leaked[t]
          /\ x \in held'[t] <=> x \in leaked'[t]
        BY <1>l, <2>2, <2>4, CallsAssumption DEF Typed
    <2> HIDE DEF x
    <2>7. TakersHold(t)'
        BY <1>t, <2>1, <2>3, <2>5, <2>6 DEF TakersHold
    <2>8. HoldersTook(t)'
        <3>1. \A y \in ZoneIds \ {x} : (\E i \in DOMAIN frames[t] : Took(t, i, y)) =>
                         \E i \in DOMAIN frames'[t] : Took(t, i, y)'
            BY <2>1, <2>2, <2>3
        <3> QED  BY <1>t, <2>6, <3>1 DEF HoldersTook
    <2>9. ASSUME NEW i \in DOMAIN frames'[t], NEW y \in ZoneIds, frames'[t][i].kind = "S",
                 frames'[t][i].zone = y
          PROVE  y \in leaked'[t] \/ \E j \in 1..i : Took(t, j, y)'
        <3>1. i \in DOMAIN frames[t] /\ frames'[t][i] = frames[t][i] /\ 1..i \subseteq 1..(n - 1)
            BY <2>1
        <3>2. y \in leaked[t] \/ \E j \in 1..i : Took(t, j, y)
            BY <1>t, <2>9, <3>1 DEF EntrantsHold
        <3>3. y # x
            BY <2>4, <2>5, <3>1, <3>2
        <3> QED  BY <2>3, <2>6, <3>1, <3>2, <3>3
    <2>10. EntrantsHold(t)'
        BY <2>9 DEF EntrantsHold
    <2> QED  BY <2>7, <2>8, <2>10
<1>1. ASSUME NEW prog \in Calls, NEW z \in Zones, NEW new \in BOOLEAN, Begin(t, prog, z, new)
      PROVE  Keep
    <2>1. frames' = frames /\ lock' = lock
        BY <1>1 DEF Begin
    <2>2. DOMAIN frames[t] = {} /\ DOMAIN frames'[t] = {}
        BY <1>1, <2>1, IdleOutside DEF Begin
    <2>3. \A y \in ZoneIds : lock[y] # t /\ (y \in held[t] <=> y \in leaked[t])
        BY <1>t, <2>2 DEF HoldersTook
    <2>4. \A y \in ZoneIds : y \in held'[t] <=> y \in leaked'[t]
        BY <1>1, <2>3 DEF Begin, Typed
    <2> QED  BY <2>1, <2>2, <2>3, <2>4 DEF TakersHold, HoldersTook, EntrantsHold
<1>2. ASSUME EnterNotification(t)
      PROVE  Keep
    <2>1. /\ Push(t, "N", TRUE, NoZone) /\ NoZone \in ZoneIds
          /\ lock' = lock /\ held' = held /\ leaked' = leaked
        BY <1>2 DEF EnterNotification, ZoneIds
    <2> QED  BY <2>1, <1>p
<1>3. ASSUME EnterTransaction(t)
      PROVE  Keep
    <2>1. /\ Push(t, "T", ~InTransaction(t), NoZone) /\ NoZone \in ZoneIds
          /\ lock' = lock /\ held' = held /\ leaked' = leaked
        BY <1>3 DEF EnterTransaction, ZoneIds
    <2>2. (~InTransaction(t)) \in BOOLEAN
        BY DEF InTransaction
    <2> QED  BY <2>1, <2>2, <1>p
<1>4. ASSUME NEW z \in ZoneIds, EnterZone(t, z)
      PROVE  Keep
    <2>1. CASE z \in held[t]
        <3>1. /\ Push(t, "S", FALSE, z)
              /\ lock' = lock /\ held' = held /\ leaked' = leaked
            BY <1>4, <2>1 DEF EnterZone
        <3> QED  BY <2>1, <3>1, <1>p
    <2>2. CASE z \notin held[t]
        <3>1. /\ Push(t, "S", TRUE, z) /\ lock[z] = Free /\ leaked' = leaked
              /\ lock' = [lock EXCEPT ![z] = t] /\ held' = [held EXCEPT ![t] = held[t] \cup {z}]
            BY <1>4, <2>2 DEF EnterZone
        <3>0. PICK m \in Nat : m = Len(frames[t])
            BY DEF Typed
        <3>2. /\ m \in Nat /\ DOMAIN frames[t] = 1..m /\ DOMAIN frames'[t] = 1..(m + 1)
              /\ frames'[t][m + 1] = [kind |-> "S", at |-> pc[t], own |-> TRUE, zone |-> z]
              /\ \A i \in 1..m : frames'[t][i] = frames[t][i]
            BY <3>0, <3>1, PushFacts
        <3>3. /\ \A i \in 1..m : \A y : Took(t, i, y)' <=> Took(t, i, y)
              /\ \A y : Took(t, m + 1, y)' <=> y = z
            BY <3>2 DEF Took
        <3>4. /\ lock'[z] = t /\ z \in held'[t] /\ z \notin leaked'[t] /\ leaked'[t] = leaked[t]
              /\ \A y \in ZoneIds \ {z} : /\ lock'[y] = lock[y]
                                          /\ y \in held'[t] <=> y \in held[t]
              /\ lock[z] # t
            BY <1>t, <2>2, <3>1, CallsAssumption DEF HoldersTook, Typed
        <3>5. \A i \in 1..m : ~Took(t, i, z)
            BY <1>t, <3>2, <3>4 DEF TakersHold
        <3>6. TakersHold(t)'
            <4> SUFFICES ASSUME NEW i \in 1..(m + 1), NEW y \in ZoneIds, Took(t, i, y)'
                         PROVE  /\ lock'[y] = t /\ y \in held'[t] /\ y \notin leaked'[t]
                                /\ \A j \in 1..(m + 1) : Took(t, j, y)' => j = i
                BY <3>2 DEF TakersHold
            <4>1. CASE y = z
                BY <3>2, <3>3, <3>4, <3>5, <4>1
            <4>2. CASE y # z
                <5>1. i \in 1..m /\ Took(t, i, y)
                    BY <3>3, <4>2
                <5>2. /\ lock[y] = t /\ y \in held[t] /\ y \notin leaked[t]
                      /\ \A j \in 1..m : Took(t, j, y) => j = i
                    BY <1>t, <3>2, <5>1 DEF TakersHold
                <5>3. \A j \in 1..(m + 1) : Took(t, j, y)' => j = i
                    BY <3>3, <4>2, <5>2
                <5> QED  BY <3>4, <4>2, <5>2, <5>3
            <4> QED  BY <4>1, <4>2
        <3>7. HoldersTook(t)'
            <4>1. /\ m + 1 \in DOMAIN frames'[t] /\ Took(t, m + 1, z)'
                  /\ DOMAIN frames[t] \subseteq DOMAIN frames'[t]
                BY <3>2, <3>3
            <4> QED  BY <1>t, <3>2, <3>3, <3>4, <4>1 DEF HoldersTook
        <3>8. ASSUME NEW i \in DOMAIN frames'[t], NEW y \in ZoneIds, frames'[t][i].kind = "S",
                     frames'[t][i].zone = y
              PROVE  y \in leaked'[t] \/ \E j \in 1..i : Took(t, j, y)'
            <4>1. CASE i \in 1..m
                <5>1. i \in DOMAIN frames[t] /\ frames'[t][i] = frames[t][i] /\ 1..i \subseteq 1..m
                    BY <3>2, <4>1
                <5>2. y \in leaked[t] \/ \E j \in 1..i : Took(t, j, y)
                    BY <1>t, <3>8, <5>1 DEF EntrantsHold
                <5> QED  BY <3>3, <3>4, <5>1, <5>2
            <4>2. CASE i = m + 1
                <5>1. y = z /\ i \in 1..i
                    BY <3>2, <3>8, <4>2
                <5> QED  BY <3>3, <4>2, <5>1
            <4> QED  BY <3>2, <4>1, <4>2
        <3>9. EntrantsHold(t)'
            BY <3>8 DEF EntrantsHold
        <3> QED  BY <3>6, <3>7, <3>9
    <2> QED  BY <2>1, <2>2
<1>5. ASSUME Write(t)
      PROVE  Keep
    BY <1>5, <1>r DEF Write
<1>6. ASSUME CallDevice(t)
      PROVE  Keep
    BY <1>6, <1>r DEF CallDevice
<1>7. ASSUME LeaveNotification(t)
      PROVE  Keep
    BY <1>7, <1>q DEF LeaveNotification, Inside
<1>8. ASSUME LeaveZone(t)
      PROVE  Keep
    <2>1. frames[t] # <<>> /\ Pop(t) /\ Top(t).kind = "S"
        BY <1>8 DEF LeaveZone, Inside
    <2>2. CASE Top(t).own
        BY <1>8, <1>l, <2>1, <2>2 DEF LeaveZone
    <2>3. CASE ~Top(t).own
        BY <1>8, <1>q, <2>1, <2>3 DEF LeaveZone
    <2> QED  BY <2>2, <2>3
<1>9. ASSUME LeaveTransaction(t)
      PROVE  Keep
    BY <1>9, <1>q DEF LeaveTransaction, Inside
<1>10. ASSUME UnwindNotification(t)
      PROVE  Keep
    BY <1>10, <1>q DEF UnwindNotification, Inside
<1>11. ASSUME UnwindZone(t)
      PROVE  Keep
    <2>1. frames[t] # <<>> /\ Pop(t) /\ Top(t).kind = "S"
        BY <1>11 DEF UnwindZone, Inside
    <2>2. CASE Top(t).own
        BY <1>11, <1>l, <2>1, <2>2 DEF UnwindZone
    <2>3. CASE ~Top(t).own
        BY <1>11, <1>q, <2>1, <2>3 DEF UnwindZone
    <2> QED  BY <2>2, <2>3
<1>12. ASSUME UnwindTransaction(t)
      PROVE  Keep
    BY <1>12, <1>q DEF UnwindTransaction, Inside
<1>13. ASSUME End(t)
      PROVE  Keep
    BY <1>13, <1>r DEF End
<1>14. ASSUME NEW e \in {"error", "deadlock"}, Raise(t, e)
      PROVE  Keep
    BY <1>14, <1>r DEF Raise
<1>s. Keep
    BY <1>1, <1>2, <1>3, <1>4, <1>5, <1>6, <1>7, <1>8, <1>9, <1>10, <1>11, <1>12, <1>13, <1>14
        DEF Step, Advance, ZoneIds
<1> QED  BY <1>o, <1>s DEF Locked

-----------------------------------------------------------------------------
(* Events                                                                  *)

\* Joined sequences have the events of their parts
LEMMA JoinedEvents ==
    ASSUME NEW a \in Seq(Pairs), NEW b \in Seq(Pairs),
           \A i \in DOMAIN a : Event(a[i]), \A i \in DOMAIN b : Event(b[i])
    PROVE  \A i \in DOMAIN (a \o b) : Event((a \o b)[i])
<1> SUFFICES ASSUME NEW i \in DOMAIN (a \o b)
             PROVE  Event((a \o b)[i])
    OBVIOUS
<1>1. /\ Len(a) \in Nat /\ Len(b) \in Nat /\ i \in 1..(Len(a) + Len(b))
      /\ DOMAIN a = 1..Len(a) /\ DOMAIN b = 1..Len(b)
    OBVIOUS
<1>2. CASE i <= Len(a)
    <2>1. i \in DOMAIN a /\ (a \o b)[i] = a[i]
        BY <1>1, <1>2
    <2> QED  BY <2>1
<1>3. CASE i > Len(a)
    <2>1. i - Len(a) \in DOMAIN b /\ (a \o b)[i] = b[i - Len(a)]
        BY <1>1, <1>3
    <2> QED  BY <2>1
<1> QED  BY <1>1, <1>2, <1>3

\* The finally clause of notification_wrapper sends and queues events
LEMMA EmitEvents ==
    ASSUME Typed, EventsSound, NEW t \in Threads, NEW q \in Seq(Pairs), Emit(t, q),
           \A i \in DOMAIN q : Event(q[i])
    PROVE  /\ \A i \in DOMAIN sent' : Event(sent'[i])
           /\ \A u \in Threads : \A i \in DOMAIN queue'[u] : Event(queue'[u][i])
<1>1. sent \in Seq(Pairs) /\ \A i \in DOMAIN sent : Event(sent[i])
    BY DEF Typed, EventsSound
<1>2. \A i \in DOMAIN (sent \o q) : Event((sent \o q)[i])
    BY <1>1, JoinedEvents
<1>3. sent' = sent \/ sent' = sent \o q
    BY DEF Emit
<1>4. \A u \in Threads : queue'[u] = queue[u] \/ queue'[u] = q \/ queue'[u] = <<>>
    BY DEF Emit, Typed
<1>5. DOMAIN <<>> = {}
    OBVIOUS
<1> QED  BY <1>1, <1>2, <1>3, <1>4, <1>5 DEF EventsSound

\* The instructions a thread is at and in are events of its call
LEMMA OwnEvents ==
    ASSUME Typed, FramesSound, NEW t \in Threads
    PROVE  /\ \A k \in {"W", "D", "R"} : Runs(t, k) => Event(Here(t))
           /\ frames[t] # <<>> => Event(<<call[t].id, Top(t).at>>)
<1>1. call[t].id # 0 => call[t].id \in DOMAIN received
    BY DEF Typed
<1>2. ASSUME NEW k \in {"W", "D", "R"}, Runs(t, k)
      PROVE  Event(Here(t))
    <2>1. call[t].id # 0 /\ pc[t] \in DOMAIN Program(t)
        BY <1>2, RunsAt
    <2> QED  BY <1>1, <2>1, HerePair DEF Event, Program
<1>3. ASSUME frames[t] # <<>>
      PROVE  Event(<<call[t].id, Top(t).at>>)
    <2>1. frames[t] \in Seq(Frame)
        BY DEF Typed
    <2>2. Len(frames[t]) \in DOMAIN frames[t] /\ Top(t) = frames[t][Len(frames[t])]
        BY <1>3, <2>1 DEF Top, Last
    <2>3. call[t].id # 0 /\ Top(t).at \in DOMAIN Program(t)
        BY <2>2 DEF FramesSound, FramesIn
    <2> QED  BY <1>1, <2>3 DEF Event, Program
<1> QED  BY <1>2, <1>3

\* Every step writes, calls, queues and sends events
LEMMA EventsStep ==
    ASSUME Typed, FramesSound, EventsSound, NEW t \in Threads, Step(t)
    PROVE  EventsSound'
<1> DEFINE Fine == /\ \A e \in db' : Event(e)
                   /\ \A e \in device' : Event(e)
                   /\ \A i \in DOMAIN sent' : Event(sent'[i])
                   /\ \A u \in Threads : /\ \A e \in open'[u] : Event(e)
                                         /\ \A i \in DOMAIN queue'[u] : Event(queue'[u][i])
<1>g. \A e : Event(e) => Event(e)'
    BY ReceivedGrows DEF Event
<1>1. ASSUME NEW prog \in Calls, NEW z \in Zones, NEW new \in BOOLEAN, Begin(t, prog, z, new)
      PROVE  Fine
    BY <1>1 DEF Begin, EventsSound
<1>2. ASSUME EnterNotification(t)
      PROVE  Fine
    BY <1>2 DEF EnterNotification, EventsSound
<1>3. ASSUME EnterTransaction(t)
      PROVE  Fine
    BY <1>3 DEF EnterTransaction, EventsSound
<1>4. ASSUME NEW z \in ZoneIds, EnterZone(t, z)
      PROVE  Fine
    BY <1>4 DEF EnterZone, EventsSound
<1>5. ASSUME Write(t)
      PROVE  Fine
    <2>1. Event(Here(t))
        BY <1>5, OwnEvents DEF Write
    <2>2. /\ device' = device /\ sent' = sent /\ queue' = queue
          /\ db' = db \/ db' = db \cup {Here(t)}
          /\ open' = open \/ open' = [open EXCEPT ![t] = open[t] \cup {Here(t)}]
        BY <1>5 DEF Write
    <2>3. \A u \in Threads : \A e \in open'[u] : e \in open[u] \/ e = Here(t)
        <3>1. open \in [Threads -> SUBSET Pairs]
            BY DEF Typed
        <3>2. \A u \in Threads : open'[u] = open[u] \/ open'[u] = open[u] \cup {Here(t)}
            BY <2>2, <3>1
        <3> QED  BY <3>2
    <2>4. \A e \in db' : e \in db \/ e = Here(t)
        BY <2>2
    <2> QED  BY <2>1, <2>2, <2>3, <2>4 DEF EventsSound
<1>6. ASSUME CallDevice(t)
      PROVE  Fine
    <2>1. Event(Here(t))
        BY <1>6, OwnEvents DEF CallDevice
    <2>2. /\ db' = db /\ sent' = sent /\ queue' = queue /\ open' = open
          /\ device' = device \cup {Here(t)}
        BY <1>6 DEF CallDevice
    <2> QED  BY <2>1, <2>2 DEF EventsSound
<1>7. ASSUME LeaveNotification(t)
      PROVE  Fine
    <2>1. /\ db' = db /\ device' = device /\ open' = open /\ frames[t] # <<>>
          /\ Emit(t, <<<<call[t].id, Top(t).at>>>> \o queue[t])
        BY <1>7 DEF LeaveNotification, Inside
    <2>2. PICK p : p = <<call[t].id, Top(t).at>>
        OBVIOUS
    <2>3. p \in Pairs /\ Event(p)
        BY <2>1, <2>2, TopPair, OwnEvents
    <2>4. /\ <<p>> \in Seq(Pairs) /\ queue[t] \in Seq(Pairs)
          /\ \A i \in DOMAIN queue[t] : Event(queue[t][i])
        BY <2>3 DEF Typed, EventsSound
    <2>5. \A i \in DOMAIN <<p>> : Event(<<p>>[i])
        BY <2>3
    <2>6. \A i \in DOMAIN (<<p>> \o queue[t]) : Event((<<p>> \o queue[t])[i])
        BY <2>4, <2>5, JoinedEvents
    <2>7. <<p>> \o queue[t] \in Seq(Pairs) /\ Emit(t, <<p>> \o queue[t])
        BY <2>1, <2>2, <2>4
    <2>8. /\ \A i \in DOMAIN sent' : Event(sent'[i])
          /\ \A u \in Threads : \A i \in DOMAIN queue'[u] : Event(queue'[u][i])
        BY <2>6, <2>7, EmitEvents
    <2> QED  BY <2>1, <2>8 DEF EventsSound
<1>8. ASSUME LeaveZone(t)
      PROVE  Fine
    BY <1>8 DEF LeaveZone, EventsSound
<1>9. ASSUME LeaveTransaction(t)
      PROVE  Fine
    <2>1. /\ device' = device /\ sent' = sent /\ queue' = queue
          /\ db' = db \/ db' = db \cup open[t]
          /\ open' = open \/ open' = [open EXCEPT ![t] = {}]
        BY <1>9 DEF LeaveTransaction
    <2>2. \A u \in Threads : open'[u] \subseteq open[u]
        BY <2>1 DEF Typed
    <2> QED  BY <2>1, <2>2 DEF EventsSound
<1>10. ASSUME UnwindNotification(t)
      PROVE  Fine
    <2>1. db' = db /\ device' = device /\ open' = open /\ Emit(t, queue[t])
        BY <1>10 DEF UnwindNotification
    <2>2. queue[t] \in Seq(Pairs) /\ \A i \in DOMAIN queue[t] : Event(queue[t][i])
        BY DEF Typed, EventsSound
    <2>3. /\ \A i \in DOMAIN sent' : Event(sent'[i])
          /\ \A u \in Threads : \A i \in DOMAIN queue'[u] : Event(queue'[u][i])
        BY <2>1, <2>2, EmitEvents
    <2> QED  BY <2>1, <2>3 DEF EventsSound
<1>11. ASSUME UnwindZone(t)
      PROVE  Fine
    BY <1>11 DEF UnwindZone, EventsSound
<1>12. ASSUME UnwindTransaction(t)
      PROVE  Fine
    <2>1. /\ device' = device /\ sent' = sent /\ queue' = queue /\ db' = db
          /\ open' = [open EXCEPT ![t] = {}]
        BY <1>12 DEF UnwindTransaction
    <2>2. \A u \in Threads : open'[u] \subseteq open[u]
        BY <2>1 DEF Typed
    <2> QED  BY <2>1, <2>2 DEF EventsSound
<1>13. ASSUME End(t)
      PROVE  Fine
    BY <1>13 DEF End, EventsSound
<1>14. ASSUME NEW e \in {"error", "deadlock"}, Raise(t, e)
      PROVE  Fine
    <2>1. /\ device' = device /\ sent' = sent /\ queue' = queue /\ open' = open
          /\ db' = db \/ (db' = db \cup {Here(t)} /\ Event(Here(t)))
        BY <1>14, OwnEvents DEF Raise
    <2> QED  BY <2>1 DEF EventsSound
<1>s. Fine
    BY <1>1, <1>2, <1>3, <1>4, <1>5, <1>6, <1>7, <1>8, <1>9, <1>10, <1>11, <1>12, <1>13, <1>14
        DEF Step, Advance, ZoneIds
<1> QED  BY <1>g, <1>s DEF EventsSound, Event

-----------------------------------------------------------------------------
(* The theorems                                                            *)

\* New threads are in no decorator, whatever calls they served before
LEMMA SoundInit == Init => Sound
<1> SUFFICES ASSUME Init
             PROVE  Sound
    OBVIOUS
<1>1. \A t \in Threads : /\ frames[t] = <<>> /\ DOMAIN frames[t] = {} /\ stack[t] = 0
                         /\ queue[t] = <<>> /\ open[t] = {} /\ retries[t] = 0
                         /\ held[t] = leaked[t]
    BY DEF Init
<1>2. Typed
    <2>1. 0 \in 0..(MaxRetries - 1)
        BY CallsAssumption
    <2>2. received = <<>> /\ received \in Seq(Calls) /\ Len(received) = 0
        BY DEF Init
    <2>3. Idle \in [id : 0..Len(received), zone : ZoneIds]
        BY <2>2 DEF Idle, ZoneIds
    <2>4. /\ \A t \in Threads : leaked[t] \in SUBSET ZoneIds
          /\ leaked = [t \in Threads |-> leaked[t]]
        BY DEF Init, ZoneIds
    <2>5. held \in [Threads -> SUBSET ZoneIds] /\ leaked \in [Threads -> SUBSET ZoneIds]
        BY <2>4 DEF Init
    <2>6. retries \in [Threads -> 0..(MaxRetries - 1)] /\ queue \in [Threads -> Seq(Pairs)]
        BY <2>1 DEF Init
    <2>7. call \in [Threads -> [id : 0..Len(received), zone : ZoneIds]]
        BY <2>3 DEF Init
    <2>8. lock \in [ZoneIds -> Threads \cup {Free}]
        BY DEF Init, ZoneIds
    <2> QED  BY <2>2, <2>5, <2>6, <2>7, <2>8 DEF Typed, Init
<1>3. FramesSound
    BY <1>1 DEF FramesSound, FramesIn
<1>4. EventsSound
    <2>1. db = {} /\ device = {} /\ DOMAIN sent = {} /\ \A t \in Threads : DOMAIN queue[t] = {}
        BY DEF Init
    <2> QED  BY <1>1, <2>1 DEF EventsSound
<1>5. Counted
    <2>1. \A t \in Threads : Notifying(t) = {}
        BY <1>1 DEF Notifying
    <2> QED  BY <1>1, <2>1, FS_EmptySet DEF Counted, CountedIn
<1>6. Transacted
    BY <1>1 DEF Transacted, OutermostOwns, WritesWait, RetriesCount
<1>7. Locked
    <2>1. \A z \in ZoneIds : \A t \in Threads : lock[z] # t
        BY CallsAssumption DEF Init, ZoneIds
    <2> QED  BY <1>1, <2>1 DEF Locked, TakersHold, HoldersTook, EntrantsHold
<1> QED  BY <1>2, <1>3, <1>4, <1>5, <1>6, <1>7 DEF Sound

\* ... and no step of any thread breaks the invariant
LEMMA SoundStep == Sound /\ [Next]_vars => Sound'
<1> SUFFICES ASSUME Sound, [Next]_vars
             PROVE  Sound'
    OBVIOUS
<1>1. CASE Next
    <2>1. PICK t \in Threads : Step(t)
        BY <1>1 DEF Next, Step
    <2>2. Typed' /\ FramesSound' /\ EventsSound'
        BY <2>1, TypedStep, FramesStep, EventsStep DEF Sound
    <2>3. Counted' /\ Transacted' /\ Locked'
        BY <2>1, CountedStep, TransactedStep, LockedStep DEF Sound
    <2> QED  BY <2>2, <2>3 DEF Sound
<1>2. CASE UNCHANGED vars
    <2> USE <1>2 DEF vars
    <2>1. Typed'
        BY DEF Sound, Typed
    <2>2. FramesSound'
        BY DEF Sound, FramesSound, FramesIn, Program
    <2>3. EventsSound'
        BY DEF Sound, EventsSound, Event
    <2>4. Counted'
        BY DEF Sound, Counted, CountedIn, Notifying
    <2>5. Transacted'
        BY DEF Sound, Transacted, OutermostOwns, WritesWait, RetriesCount,
               InTransaction, Instr, Program
    <2>6. Locked'
        BY DEF Sound, Locked, TakersHold, HoldersTook, EntrantsHold, Took
    <2> QED  BY <2>1, <2>2, <2>3, <2>4, <2>5, <2>6 DEF Sound
<1> QED  BY <1>1, <1>2

\* NOTIFICATION_BUFFER.stack never goes below zero, RETRY_STATE.retries never
\* reaches the limit of @retry, and everything that is written, queued, sent or
\* asked of a device is an instruction of a call received before: the decorators
\* of central/service.py keep their thread-local variables well formed.
THEOREM TypeCorrect == Spec => []TypeOK
<1>1. Sound => TypeOK
    <2> SUFFICES ASSUME Sound
                 PROVE  TypeOK
        OBVIOUS
    <2>1. \A t \in Threads : stack[t] \in Nat
        <3> SUFFICES ASSUME NEW t \in Threads
                     PROVE  stack[t] \in Nat
            OBVIOUS
        <3>1. Cardinality(Notifying(t)) \in Nat /\ stack[t] = Cardinality(Notifying(t))
            BY NotifyingFinite DEF Sound, Counted, CountedIn
        <3> QED  BY <3>1
    <2>2. stack \in [Threads -> Nat]
        BY <2>1 DEF Sound, Typed
    <2>3. /\ \A e \in db \cup device \cup ToSet(sent) : Event(e)
          /\ \A t \in Threads : \A e \in open[t] \cup ToSet(queue[t]) : Event(e)
        BY DEF ToSet, Sound, EventsSound
    <2> QED  BY <2>2, <2>3 DEF Sound, Typed, TypeOK, ZoneIds
<1> QED  BY <1>1, SoundInit, SoundStep, PTL DEF Spec

\* For any threads and zones, two threads are inside sync_wrapper for one zone
\* only when an earlier exception left that zone id in the held set of one of
\* them: an entrant that skips the lock skips it for its own outer wrapper.
THEOREM OneOperation == Spec => []OneOperationPerZone
<1>1. Sound => OneOperationPerZone
    <2> SUFFICES ASSUME Sound, NEW t \in Threads, NEW u \in Threads, NEW z \in Zones \cup {NoZone},
                        t # u, InZone(t, z), InZone(u, z)
                 PROVE  z \in leaked[t] \cup leaked[u]
        BY DEF OneOperationPerZone
    <2>1. \A w \in {t, u} : z \in leaked[w] \/ lock[z] = w
        <3> SUFFICES ASSUME NEW w \in {t, u}, z \notin leaked[w]
                     PROVE  lock[z] = w
            OBVIOUS
        <3>1. TakersHold(w) /\ EntrantsHold(w) /\ z \in ZoneIds /\ InZone(w, z)
            BY DEF Sound, Locked, ZoneIds
        <3>2. PICK i \in DOMAIN frames[w] : frames[w][i].kind = "S" /\ frames[w][i].zone = z
            BY <3>1 DEF InZone
        <3>3. PICK j \in 1..i : Took(w, j, z)
            BY <3>1, <3>2 DEF EntrantsHold
        <3>4. frames[w] \in Seq(Frame)
            BY DEF Sound, Typed
        <3>5. j \in DOMAIN frames[w]
            BY <3>2, <3>3, <3>4
        <3> QED  BY <3>1, <3>3, <3>5 DEF TakersHold
    <2> QED  BY <2>1
<1> QED  BY <1>1, SoundInit, SoundStep, PTL DEF Spec

\* However a call ended, with whatever exceptions and retries on the way, the
\* thread it ran in has an empty notification buffer, no transaction, no used
\* retry and no zone lock: only held zone ids can be left for the next call.
THEOREM IdleClean == Spec => []IdleThreadIsClean
<1>1. Sound => IdleThreadIsClean
    <2> SUFFICES ASSUME Sound, NEW t \in Threads, call[t].id = 0
                 PROVE  /\ stack[t] = 0 /\ queue[t] = <<>>
                        /\ open[t] = {} /\ retries[t] = 0
                        /\ \A z \in DOMAIN lock : lock[z] # t
                        /\ held[t] \subseteq leaked[t]
        BY DEF IdleThreadIsClean
    <2>1. DOMAIN frames[t] = {}
        BY IdleOutside DEF Sound
    <2>2. Notifying(t) = {} /\ ~InTransaction(t)
        BY <2>1 DEF Notifying, InTransaction
    <2>3. stack[t] = 0 /\ queue[t] = <<>>
        BY <2>2, FS_EmptySet DEF Sound, Counted, CountedIn
    <2>4. open[t] = {} /\ retries[t] = 0
        BY <2>2 DEF Sound, Transacted, WritesWait, RetriesCount
    <2>5. DOMAIN lock = ZoneIds /\ held[t] \subseteq ZoneIds
        BY DEF Sound, Typed
    <2>6. \A z \in ZoneIds : lock[z] # t /\ (z \in held[t] => z \in leaked[t])
        BY <2>1 DEF Sound, Locked, HoldersTook
    <2> QED  BY <2>3, <2>4, <2>5, <2>6
<1> QED  BY <1>1, SoundInit, SoundStep, PTL DEF Spec
=============================================================================
