---------------------------- MODULE ServiceCalls ----------------------------
(***************************************************************************)
(* The decorators that wrap the operations of designate-central:           *)
(* @notification (a thread-local buffer of notifications, sent when the    *)
(* outermost decorated call returns or raises), @synchronized_zone (a lock *)
(* per zone, skipped for the zone ids in a thread-local set) and           *)
(* @transaction (a database transaction, run again by its outermost @retry *)
(* wrapper when the database reports a deadlock).                          *)
(*                                                                         *)
(* An operation is its nest of decorators: a sequence of instructions that *)
(* a thread executes one by one, so that the model shows what each nesting *)
(* in central/service.py does when steps of two threads interleave, when a *)
(* step raises and when the database picks the transaction as a victim.    *)
(*   "N" enter @notification          "W" a write through self.storage     *)
(*   "S" enter @synchronized_zone     "D" a call of the worker's device    *)
(*   "C" the same with new_zone=True  "R" the same, and a write that       *)
(*   "T" enter @transaction               restores the row when it raises  *)
(*                                    "X" leave the innermost decorator    *)
(***************************************************************************)
EXTENDS Naturals, Sequences, FiniteSets, SequencesExt

CONSTANTS
    Threads,       \* green threads of the RPC server of designate-central
    Reused,        \* threads that have served failing calls before
    Zones,         \* zone ids
    NoZone,        \* the zone id None, of a zone that is being created
    Free,          \* owner of a lock nobody holds
    MaxCalls,      \* bound: number of calls received
    MaxRetries     \* "retries" of @retry (50 in the code)

ASSUME CallsAssumption == /\ Reused \subseteq Threads
                          /\ NoZone \notin Zones
                          /\ Free \notin Threads
                          /\ MaxCalls \in Nat /\ MaxRetries \in Nat \ {0}

-----------------------------------------------------------------------------
(* The operations, by the way their decorators nest.                       *)

\* create_tld, update_blacklist, delete_tsigkey, create_zone_transfer_request...
CatalogCall == <<"N", "T", "W", "X", "X">>
\* update_zone: storage first, then the worker's device; when that refuses, the
\* row as it was is written again.
UpdateZoneCall == <<"N", "N", "S", "T", "W", "X", "R", "X", "X", "X">>
\* create_zone: the row, the device, the default records, and update_zone of a
\* sub-zone that gets this zone as its parent.
CreateZoneCall == <<"N", "N", "C", "T", "W", "X", "D", "T", "W", "X">>
                      \o UpdateZoneCall \o <<"X", "X", "X">>
\* create_record, delete_record and touch_zone.
RecordCall == <<"N", "S", "T", "W", "X", "D", "X", "X">>
\* delete_recordset: device calls inside the transaction, no lock.
DeleteRecordSetCall == <<"T", "D", "T", "W", "X", "X">>
\* update_floatingip: a transaction around complete record operations.
FloatingIpCall == <<"T">> \o RecordCall \o <<"W", "X">>
\* create_zone_export: writes of their own, update_zone_export nested.
ExportCall == <<"N", "W", "N", "W", "X", "X">>

Calls == {CatalogCall, UpdateZoneCall, CreateZoneCall, RecordCall,
          DeleteRecordSetCall, FloatingIpCall, ExportCall}

-----------------------------------------------------------------------------
VARIABLES
    received,  \* the calls received so far, as programs; a call's id is its index
    call,      \* what a thread runs: [id, zone], id 0 when it is idle
    pc,        \* index of its next instruction
    frames,    \* the decorators it is in, the outermost first
    exc,       \* the exception it propagates: "none", "error" or "deadlock"
    held,      \* ZONE_LOCKS.held
    stack,     \* NOTIFICATION_BUFFER.stack
    queue,     \* NOTIFICATION_BUFFER.queue, the left end first
    retries,   \* RETRY_STATE.retries
    open,      \* writes of the thread's database transaction, not committed
    lock,      \* the lockutils locks: zone id -> thread or Free
    db,        \* committed writes
    device,    \* device calls made
    sent,      \* notifications sent, in the order they were sent
    leaked     \* history: zone ids that an exception left in ZONE_LOCKS.held

vars == <<received, call, pc, frames, exc, held, stack, queue, retries, open, lock, db,
          device, sent, leaked>>

Idle == [id |-> 0, zone |-> NoZone]
Program(t) == received[call[t].id]
Instr(t) == IF pc[t] \in DOMAIN Program(t) THEN Program(t)[pc[t]] ELSE "end"
Runs(t, i) == call[t].id # 0 /\ exc[t] = "none" /\ Instr(t) = i
Here(t) == <<call[t].id, pc[t]>>
InTransaction(t) == \E i \in DOMAIN frames[t] : frames[t][i].kind = "T"

\* The threads are new, but for those that have served calls that failed in
\* every zone.
Init ==
    /\ leaked = [t \in Threads |-> IF t \in Reused THEN Zones \cup {NoZone} ELSE {}]
    /\ held = leaked
    /\ received = <<>>
    /\ call = [t \in Threads |-> Idle]
    /\ pc = [t \in Threads |-> 1]
    /\ frames = [t \in Threads |-> <<>>]
    /\ exc = [t \in Threads |-> "none"]
    /\ stack = [t \in Threads |-> 0]
    /\ queue = [t \in Threads |-> <<>>]
    /\ retries = [t \in Threads |-> 0]
    /\ open = [t \in Threads |-> {}]
    /\ lock = [z \in Zones \cup {NoZone} |-> Free]
    /\ db = {}
    /\ device = {}
    /\ sent = <<>>

-----------------------------------------------------------------------------
(* The RPC server hands a call to a green thread: a new one, whose thread- *)
(* local variables are empty, or one that served calls before.             *)
Begin(t, prog, z, new) ==
    /\ call[t].id = 0 /\ Len(received) < MaxCalls
    /\ received' = Append(received, prog)
    /\ call' = [call EXCEPT ![t] = [id |-> Len(received'), zone |-> z]]
    /\ pc' = [pc EXCEPT ![t] = 1]
    /\ held' = IF new THEN [held EXCEPT ![t] = {}] ELSE held
    /\ leaked' = IF new THEN [leaked EXCEPT ![t] = {}] ELSE leaked
    /\ UNCHANGED <<frames, exc, stack, queue, retries, open, lock, db, device, sent>>

Push(t, kind, own, z) ==
    /\ frames' = [frames EXCEPT ![t] =
           Append(@, [kind |-> kind, at |-> pc[t], own |-> own, zone |-> z])]
    /\ pc' = [pc EXCEPT ![t] = @ + 1]

Top(t) == Last(frames[t])
Pop(t) == frames' = [frames EXCEPT ![t] = Front(@)]
\* The innermost decorator the thread is in.
Inside(t, kind) == frames[t] # <<>> /\ Top(t).kind = kind

\* notification_wrapper, up to the call of the wrapped function.
EnterNotification(t) ==
    /\ Runs(t, "N")
    /\ stack' = [stack EXCEPT ![t] = @ + 1]
    /\ Push(t, "N", TRUE, NoZone)
    /\ UNCHANGED <<call, exc, held, queue, retries, open, lock, db, device, sent,
                   received, leaked>>

\* Faulty variant: the held set is a module global, not a threading.local.
EnterZoneGlobal(t, z) ==
    /\ \/ Runs(t, "S") /\ z = call[t].zone
       \/ Runs(t, "C") /\ z = NoZone
    /\ \/ /\ z \in UNION {held[u] : u \in Threads}
          /\ Push(t, "S", FALSE, z)
          /\ UNCHANGED <<lock, held>>
       \/ /\ z \notin UNION {held[u] : u \in Threads}
          /\ lock[z] = Free
          /\ lock' = [lock EXCEPT ![z] = t]
          /\ held' = [held EXCEPT ![t] = @ \cup {z}]
          /\ Push(t, "S", TRUE, z)
    /\ UNCHANGED <<call, exc, stack, queue, retries, open, db, device, sent, received,
                   leaked>>

\* sync_wrapper: a zone id in the thread's held set needs no lock.
EnterZone(t, z) ==
    /\ \/ Runs(t, "S") /\ z = call[t].zone
       \/ Runs(t, "C") /\ z = NoZone
    /\ \/ /\ z \in held[t]
          /\ Push(t, "S", FALSE, z)
          /\ UNCHANGED <<lock, held>>
       \/ /\ z \notin held[t]
          /\ lock[z] = Free
          /\ lock' = [lock EXCEPT ![z] = t]
          /\ held' = [held EXCEPT ![t] = @ \cup {z}]
          /\ Push(t, "S", TRUE, z)
    /\ UNCHANGED <<call, exc, stack, queue, retries, open, db, device, sent, received,
                   leaked>>

\* retry_wrapper and transaction_wrapper: the outermost one owns the retries;
\* begin(subtransactions=True) joins a transaction that is already open.
EnterTransaction(t) ==
    /\ Runs(t, "T")
    /\ Push(t, "T", ~InTransaction(t), NoZone)
    /\ UNCHANGED <<call, exc, held, stack, queue, retries, open, lock, db, device,
                   sent, received, leaked>>

\* A write through self.storage: part of the open transaction, or committed by
\* itself when there is none.
Write(t) ==
    /\ Runs(t, "W")
    /\ IF InTransaction(t)
         THEN open' = [open EXCEPT ![t] = @ \cup {Here(t)}] /\ db' = db
         ELSE db' = db \cup {Here(t)} /\ open' = open
    /\ pc' = [pc EXCEPT ![t] = @ + 1]
    /\ UNCHANGED <<call, frames, exc, held, stack, queue, retries, lock, device, sent,
                   received, leaked>>

\* A call of the worker, which calls the device.
CallDevice(t) ==
    /\ Runs(t, "D") \/ Runs(t, "R")
    /\ device' = device \cup {Here(t)}
    /\ pc' = [pc EXCEPT ![t] = @ + 1]
    /\ UNCHANGED <<call, frames, exc, held, stack, queue, retries, open, lock, db,
                   sent, received, leaked>>

\* A write or a device call raises; only a write of an open transaction can be
\* the victim of a database deadlock.  The write that restores the row, which is
\* in no transaction, may raise too.
Raise(t, e) ==
    /\ Runs(t, "W") \/ Runs(t, "D") \/ Runs(t, "R")
    /\ e = "deadlock" => Runs(t, "W") /\ InTransaction(t)
    /\ exc' = [exc EXCEPT ![t] = e]
    /\ \/ db' = db
       \/ Runs(t, "R") /\ db' = db \cup {Here(t)}
    /\ UNCHANGED <<call, pc, frames, held, stack, queue, retries, open, lock,
                   device, sent, received, leaked>>

-----------------------------------------------------------------------------
(* Leaving a decorator, in the normal way and with an exception.           *)

\* The finally clause of notification_wrapper.
Emit(t, q) ==
    /\ stack' = [stack EXCEPT ![t] = @ - 1]
    /\ IF stack[t] = 1
         THEN sent' = sent \o q /\ queue' = [queue EXCEPT ![t] = <<>>]
         ELSE sent' = sent /\ queue' = [queue EXCEPT ![t] = q]

\* queue.appendleft of the notification, then the finally clause.
LeaveNotification(t) ==
    /\ Runs(t, "X") /\ Inside(t, "N")
    /\ Emit(t, <<<<call[t].id, Top(t).at>>>> \o queue[t])
    /\ Pop(t) /\ pc' = [pc EXCEPT ![t] = @ + 1]
    /\ UNCHANGED <<call, exc, held, retries, open, lock, db, device, received, leaked>>

LeaveZone(t) ==
    /\ Runs(t, "X") /\ Inside(t, "S")
    /\ IF Top(t).own
         THEN /\ lock' = [lock EXCEPT ![Top(t).zone] = Free]
              /\ held' = [held EXCEPT ![t] = @ \ {Top(t).zone}]
         ELSE UNCHANGED <<lock, held>>
    /\ Pop(t) /\ pc' = [pc EXCEPT ![t] = @ + 1]
    /\ UNCHANGED <<call, exc, stack, queue, retries, open, db, device, sent, received,
                   leaked>>

\* Faulty variant: commit() of a nested transaction commits what is there.
LeaveTransactionEach(t) ==
    /\ Runs(t, "X") /\ Inside(t, "T")
    /\ db' = db \cup open[t]
    /\ open' = [open EXCEPT ![t] = {}]
    /\ retries' = IF Top(t).own THEN [retries EXCEPT ![t] = 0] ELSE retries
    /\ Pop(t) /\ pc' = [pc EXCEPT ![t] = @ + 1]
    /\ UNCHANGED <<call, exc, held, stack, queue, lock, device, sent, received, leaked>>

\* commit() of a nested transaction leaves the writes to the outermost one.
LeaveTransaction(t) ==
    /\ Runs(t, "X") /\ Inside(t, "T")
    /\ IF Top(t).own
         THEN /\ db' = db \cup open[t]
              /\ open' = [open EXCEPT ![t] = {}]
              /\ retries' = [retries EXCEPT ![t] = 0]
         ELSE UNCHANGED <<db, open, retries>>
    /\ Pop(t) /\ pc' = [pc EXCEPT ![t] = @ + 1]
    /\ UNCHANGED <<call, exc, held, stack, queue, lock, device, sent, received, leaked>>

\* Faulty variant: the notification is queued in the finally clause.
UnwindNotificationQueued(t) ==
    /\ exc[t] # "none" /\ Inside(t, "N")
    /\ Emit(t, <<<<call[t].id, Top(t).at>>>> \o queue[t])
    /\ Pop(t)
    /\ UNCHANGED <<call, pc, exc, held, retries, open, lock, db, device, received, leaked>>

\* Faulty variant: no finally clause.
UnwindNotificationSkipped(t) ==
    /\ exc[t] # "none" /\ Inside(t, "N")
    /\ Pop(t)
    /\ UNCHANGED <<call, pc, exc, held, stack, queue, sent, retries, open, lock, db,
                   device, received, leaked>>

\* An exception passes notification_wrapper: nothing is queued for this call,
\* what inner calls queued is sent.
UnwindNotification(t) ==
    /\ exc[t] # "none" /\ Inside(t, "N")
    /\ Emit(t, queue[t])
    /\ Pop(t)
    /\ UNCHANGED <<call, pc, exc, held, retries, open, lock, db, device, received, leaked>>

\* An exception passes sync_wrapper: "with" releases the lock, the statement
\* that takes the zone id out of the held set is not reached.
UnwindZone(t) ==
    /\ exc[t] # "none" /\ Inside(t, "S")
    /\ IF Top(t).own
         THEN /\ lock' = [lock EXCEPT ![Top(t).zone] = Free]
              /\ leaked' = [leaked EXCEPT ![t] = @ \cup {Top(t).zone}]
         ELSE UNCHANGED <<lock, leaked>>
    /\ Pop(t)
    /\ UNCHANGED <<call, pc, exc, held, stack, queue, retries, open, db, device, sent,
                   received>>

\* Faulty variant: one attempt more than @retry is told to make.
UnwindTransactionOnce(t) ==
    /\ exc[t] # "none" /\ Inside(t, "T")
    /\ open' = [open EXCEPT ![t] = {}]
    /\ Pop(t)
    /\ \/ /\ Top(t).own /\ exc[t] = "deadlock" /\ retries[t] < MaxRetries
          /\ retries' = [retries EXCEPT ![t] = @ + 1]
          /\ exc' = [exc EXCEPT ![t] = "none"]
          /\ pc' = [pc EXCEPT ![t] = Top(t).at]
       \/ /\ Top(t).own /\ (exc[t] # "deadlock" \/ retries[t] >= MaxRetries)
          /\ retries' = [retries EXCEPT ![t] = 0]
          /\ UNCHANGED <<exc, pc>>
       \/ ~Top(t).own /\ UNCHANGED <<retries, exc, pc>>
    /\ UNCHANGED <<call, held, stack, queue, lock, db, device, sent, received, leaked>>

\* An exception passes transaction_wrapper, which rolls back, and its
\* retry_wrapper: the outermost one starts the function again after a deadlock
\* unless the attempts are used up.
UnwindTransaction(t) ==
    /\ exc[t] # "none" /\ Inside(t, "T")
    /\ open' = [open EXCEPT ![t] = {}]
    /\ Pop(t)
    /\ \/ /\ Top(t).own /\ exc[t] = "deadlock" /\ retries[t] + 1 < MaxRetries
          /\ retries' = [retries EXCEPT ![t] = @ + 1]
          /\ exc' = [exc EXCEPT ![t] = "none"]
          /\ pc' = [pc EXCEPT ![t] = Top(t).at]
       \/ /\ Top(t).own /\ (exc[t] # "deadlock" \/ retries[t] + 1 >= MaxRetries)
          /\ retries' = [retries EXCEPT ![t] = 0]
          /\ UNCHANGED <<exc, pc>>
       \/ ~Top(t).own /\ UNCHANGED <<retries, exc, pc>>
    /\ UNCHANGED <<call, held, stack, queue, lock, db, device, sent, received, leaked>>

\* The call returns, or its exception is sent to the caller.
End(t) ==
    /\ call[t].id # 0 /\ frames[t] = <<>>
    /\ exc[t] # "none" \/ Instr(t) = "end"
    /\ call' = [call EXCEPT ![t] = Idle]
    /\ exc' = [exc EXCEPT ![t] = "none"]
    /\ UNCHANGED <<pc, frames, held, stack, queue, retries, open, lock, db, device,
                   sent, received, leaked>>

Advance(t) ==
    \/ EnterNotification(t) \/ EnterTransaction(t)
    \/ \E z \in Zones \cup {NoZone} : EnterZone(t, z)
    \/ Write(t) \/ CallDevice(t)
    \/ LeaveNotification(t) \/ LeaveZone(t) \/ LeaveTransaction(t)
    \/ UnwindNotification(t) \/ UnwindZone(t) \/ UnwindTransaction(t)
    \/ End(t)

Next ==
    \E t \in Threads :
        \/ \E prog \in Calls, z \in Zones, new \in BOOLEAN : Begin(t, prog, z, new)
        \/ Advance(t)
        \/ \E e \in {"error", "deadlock"} : Raise(t, e)

Spec == Init /\ [][Next]_vars

-----------------------------------------------------------------------------
(* Properties.                                                             *)

Opens(prog, i, j) == Cardinality({k \in i..j : prog[k] \in {"N", "S", "C", "T"}})
Closes(prog, i, j) == Cardinality({k \in i..j : prog[k] = "X"})
\* The instructions inside the decorator that instruction i enters.
Body(prog, i) ==
    {k \in DOMAIN prog : k > i /\ \A j \in i..k : Opens(prog, i, j) > Closes(prog, i, j)}
BodyOf == [prog \in Calls |-> [i \in DOMAIN prog |-> Body(prog, i)]]
\* Instructions that no transaction of the program covers.
Uncovered ==
    [prog \in Calls |-> {k \in DOMAIN prog :
        \A i \in DOMAIN prog : prog[i] = "T" => k \notin BodyOf[prog][i]}]

\* The writes inside each transaction that is in no other.
WholeTransactions ==
    [prog \in Calls |->
        {{k \in BodyOf[prog][i] : prog[k] = "W"} :
            i \in {j \in Uncovered[prog] : prog[j] = "T"}}]

Frame == [kind : {"N", "S", "T"}, at : Nat, own : BOOLEAN, zone : Zones \cup {NoZone}]
Event(e) == e[1] \in DOMAIN received /\ e[2] \in DOMAIN received[e[1]]

\* Type correctness of the threads' local state and of what they leave behind.
TypeOK ==
    /\ received \in Seq(Calls)
    /\ call \in [Threads -> [id : 0..Len(received), zone : Zones \cup {NoZone}]]
    /\ pc \in [Threads -> Nat \ {0}]
    /\ frames \in [Threads -> Seq(Frame)]
    /\ exc \in [Threads -> {"none", "error", "deadlock"}]
    /\ held \in [Threads -> SUBSET (Zones \cup {NoZone})]
    /\ leaked \in [Threads -> SUBSET (Zones \cup {NoZone})]
    /\ stack \in [Threads -> Nat]
    /\ retries \in [Threads -> 0..(MaxRetries - 1)]
    /\ lock \in [Zones \cup {NoZone} -> Threads \cup {Free}]
    /\ \A e \in db \cup device \cup ToSet(sent) : Event(e)
    /\ \A t \in Threads : \A e \in open[t] \cup ToSet(queue[t]) : Event(e)

InZone(t, z) ==
    \E i \in DOMAIN frames[t] : frames[t][i].kind = "S" /\ frames[t][i].zone = z

\* "Ensures only a single operation is in progress for each zone": two threads
\* are inside sync_wrapper for the same zone only when one of them entered with
\* a zone id that an earlier exception left in its held set.
OneOperationPerZone ==
    \A t, u \in Threads, z \in Zones \cup {NoZone} :
        t # u /\ InZone(t, z) /\ InZone(u, z) => z \in leaked[t] \cup leaked[u]

\* Whatever was raised, and wherever, a thread that ends a call has sent or
\* dropped all of its notifications, left no transaction open and no lock taken,
\* and its counters are back at zero: the next call finds a clean thread, but
\* for the held zone ids.
IdleThreadIsClean ==
    \A t \in Threads : call[t].id = 0 =>
        /\ stack[t] = 0 /\ queue[t] = <<>>
        /\ open[t] = {} /\ retries[t] = 0
        /\ \A z \in DOMAIN lock : lock[z] # t
        /\ held[t] \subseteq leaked[t]

\* A notification that is queued outside every transaction is sent once at most,
\* and only when all the writes of the call it announces are committed.
AnnouncedOnceCommitted ==
    \A i \in DOMAIN sent : sent[i][2] \in Uncovered[received[sent[i][1]]] =>
        /\ \A j \in DOMAIN sent : sent[j] = sent[i] => j = i
        /\ LET prog == received[sent[i][1]]
           IN  \A k \in BodyOf[prog][sent[i][2]] : prog[k] = "W" => <<sent[i][1], k>> \in db

\* A transaction is committed whole or not at all, with the transactions nested
\* in it, although any of them may raise, be rolled back and run again in a thread
\* that serves other calls after it.  And a device call that is in no transaction
\* finds everything committed that its call wrote before: the worker, which reads
\* the rows again, sees the zone it is told to put on the device.
NothingHalfCommitted ==
    /\ \A c \in DOMAIN received : \A writes \in WholeTransactions[received[c]] :
          \/ \A k \in writes : <<c, k>> \in db
          \/ \A k \in writes : <<c, k>> \notin db
    /\ \A d \in device : d[2] \in Uncovered[received[d[1]]] =>
          \A k \in 1..(d[2] - 1) : received[d[1]][k] = "W" => <<d[1], k>> \in db
=============================================================================
