-------------------------------- MODULE Agent --------------------------------
(***************************************************************************)
(* designate-agent: a DNS server next to the name server it manages.       *)
(* MiniDNS and the agent pool backend send it CREATE, NOTIFY and DELETE    *)
(* messages for a zone over UDP or TCP; each is handled in a thread of its *)
(* own, which looks the zone up, transfers it from MiniDNS (AXFR) and has  *)
(* one of the agent backends (bind9, djbdns, gdnsd, knot2, msdns) apply    *)
(* it.  Messages of one zone may overlap, be repeated and be thrown away   *)
(* by the NOTIFY rate limiter; every program the backend runs may fail.    *)
(*                                                                         *)
(* One zone.  Its contents are a version: 0 when there is none, otherwise  *)
(* the number of the change MiniDNS serves.  The name servers are modelled *)
(* from what the backends rely on: gdnsd notices its files by itself, knot *)
(* and the Microsoft server transfer from MiniDNS when they are told to.   *)
(***************************************************************************)
EXTENDS Naturals, FiniteSetsExt

CONSTANTS Threads,       \* threads of the agent
          NoThread,
          MaxVersion,    \* changes of the zone at MiniDNS
          MaxRequests,   \* messages received
          MaxFaults      \* programs, lookups and transfers that fail

VARIABLES
  kind,          \* backend_driver of the agent
  limiting,      \* notify_delay > 0: LimitNotifyMiddleware is installed
  master,        \* the version MiniDNS serves
  handler,       \* per thread: the message, the next step, the version held
  file,          \* the zone's data file (bind9, djbdns, gdnsd)
  served,        \* the version the name server answers with
  conf,          \* the name server has the zone
  lock,          \* holder of the backend's lock on the zone or on knot
  limiter,       \* ZoneLock.data has the zone
  transaction,   \* knot: a configuration transaction is open
  blind,         \* a failed lookup was taken for "no such zone" (history)
  gone, made,    \* a DELETE / CREATE was acknowledged, no opposite since
  owed,          \* version of a NOTIFY thrown away and not yet transferred
  acked,         \* version of the newest acknowledged NOTIFY
  requests, faults

backend == <<file, served, conf, lock, transaction>>
history == <<gone, made, owed, acked>>
vars == <<kind, limiting, master, handler, limiter, backend, blind, history,
          requests, faults>>

Kinds == {"bind9", "djbdns", "gdnsd", "knot2", "msdns"}
Ops == {"CREATE", "NOTIFY", "DELETE"}
Free == [op |-> "none", at |-> "idle", ver |-> 0]
Busy(op) == \E t \in Threads : handler[t].op = op

Init ==
  /\ kind \in Kinds
  /\ limiting \in BOOLEAN
  /\ master = 1
  /\ handler = [t \in Threads |-> Free]
  /\ file = 0 /\ served = 0 /\ conf = FALSE
  /\ lock = NoThread /\ limiter = FALSE /\ transaction = FALSE
  /\ blind = FALSE /\ gone = FALSE /\ made = FALSE /\ owed = 0 /\ acked = 0
  /\ requests = 0 /\ faults = 0

At(t, step) == handler[t].at = step
Goto(t, step) == handler' = [handler EXCEPT ![t].at = step]

\* The thread answers and is free.  An answer with AA and NOERROR is one the
\* sender takes for done (ok); REFUSED and SERVFAIL are not.
Answer(t, ok) ==
  /\ handler' = [handler EXCEPT ![t] = Free]
  /\ gone' = (gone \/ (ok /\ handler[t].op = "DELETE" /\ ~Busy("CREATE")))
  /\ made' = (made \/ (ok /\ handler[t].op = "CREATE" /\ ~Busy("DELETE")))
  /\ acked' = IF ok /\ handler[t].op = "NOTIFY"
              THEN Max({acked, handler[t].ver}) ELSE acked
  /\ owed' = IF ~ok /\ handler[t].op = "NOTIFY" THEN 0 ELSE owed

Fault == faults < MaxFaults /\ faults' = faults + 1
-----------------------------------------------------------------------------
\* The zone changes in Designate; MiniDNS serves the new version.
Change ==
  /\ master < MaxVersion
  /\ master' = master + 1
  /\ UNCHANGED <<kind, limiting, handler, limiter, backend, blind, history,
                 requests, faults>>

\* A message arrives and is not a NOTIFY the limiter looks at.
Receive(t, op) ==
  /\ At(t, "idle") /\ requests < MaxRequests
  /\ op # "NOTIFY" \/ ~limiting
  /\ requests' = requests + 1
  /\ handler' = [handler EXCEPT ![t] = [op |-> op, at |-> "find", ver |-> 0]]
  /\ gone' = (gone /\ op # "CREATE")
  /\ made' = (made /\ op # "DELETE")
  /\ acked' = IF op = "NOTIFY" THEN acked ELSE 0
  /\ UNCHANGED <<kind, limiting, master, limiter, backend, blind, owed, faults>>

\* LimitNotifyMiddleware.process_request with ZoneLock.acquire granted: the
\* zone is not locked, or has been for longer than the delay.
Delay(t) ==
  /\ At(t, "idle") /\ limiting /\ requests < MaxRequests
  /\ requests' = requests + 1
  /\ limiter' = TRUE
  /\ handler' = [handler EXCEPT ![t] =
                   [op |-> "NOTIFY", at |-> "sleep", ver |-> 0]]
  /\ UNCHANGED <<kind, limiting, master, backend, blind, history, faults>>

\* The lock is taken: the NOTIFY is thrown away and answered with AA.
ThrowAway(t) ==
  /\ At(t, "idle") /\ limiting /\ limiter /\ requests < MaxRequests
  /\ requests' = requests + 1
  /\ owed' = master
  /\ UNCHANGED <<kind, limiting, master, handler, limiter, backend,
                 blind, gone, made, acked, faults>>

\* Faulty variant: the limiter's lock is kept until the NOTIFY is handled.
AwakeHolding(t) ==
  /\ At(t, "sleep")
  /\ Goto(t, "find")
  /\ UNCHANGED <<kind, limiting, master, limiter, backend, blind, history,
                 requests, faults>>

\* The delay is over: release, then the application handles the NOTIFY.
Awake(t) ==
  /\ At(t, "sleep")
  /\ limiter' = FALSE
  /\ Goto(t, "find")
  /\ UNCHANGED <<kind, limiting, master, backend, blind, history, requests,
                 faults>>

\* What the handlers do with find_zone_serial's answer.
Found(t, found) ==
  CASE handler[t].op = "CREATE" /\ found -> Answer(t, TRUE)
    [] handler[t].op = "CREATE" /\ ~found -> Goto(t, "axfr") /\ UNCHANGED history
    [] handler[t].op = "NOTIFY" /\ ~found -> Answer(t, FALSE)
    [] handler[t].op = "NOTIFY" /\ found -> Goto(t, "axfr") /\ UNCHANGED history
    [] handler[t].op = "DELETE" /\ ~found -> Answer(t, TRUE)
    [] handler[t].op = "DELETE" /\ found -> Goto(t, "apply") /\ UNCHANGED history

\* find_zone_serial answered.
Find(t) ==
  /\ At(t, "find")
  /\ Found(t, conf)
  /\ UNCHANGED <<kind, limiting, master, limiter, backend, blind, requests,
                 faults>>

\* find_zone_serial failed: bind9, djbdns and gdnsd turn every exception into
\* None; knot2 and msdns let it out of the handler and nothing is answered.
FindFails(t) ==
  /\ At(t, "find") /\ Fault
  /\ IF kind \in {"knot2", "msdns"}
     THEN Answer(t, FALSE) /\ UNCHANGED blind
     ELSE Found(t, FALSE) /\ blind' = TRUE
  /\ UNCHANGED <<kind, limiting, master, limiter, backend, requests>>

\* dnsutils.do_axfr from one of the masters.
Axfr(t) ==
  /\ At(t, "axfr")
  /\ handler' = [handler EXCEPT ![t].at = "apply", ![t].ver = master]
  /\ owed' = IF handler[t].op = "NOTIFY" THEN 0 ELSE owed
  /\ UNCHANGED <<kind, limiting, master, limiter, backend,
                 blind, gone, made, acked, requests, faults>>

\* Faulty variant: a transfer that failed is answered with AA.
AxfrFailsQuietly(t) ==
  /\ At(t, "axfr") /\ Fault
  /\ Answer(t, TRUE)
  /\ UNCHANGED <<kind, limiting, master, limiter, backend, blind, requests>>

\* No master could be reached: XFRFailure, answered with SERVFAIL.
AxfrFails(t) ==
  /\ At(t, "axfr") /\ Fault
  /\ Answer(t, FALSE)
  /\ UNCHANGED <<kind, limiting, master, limiter, backend, blind, requests>>

Apply(t, step, k) == At(t, step) /\ kind = k
Creates(t) == handler[t].op = "CREATE"
Deletes(t) == handler[t].op = "DELETE"
Rest == UNCHANGED <<kind, limiting, master, limiter, blind, requests>>
-----------------------------------------------------------------------------
\* bind9: _sync_zone takes the zone's lock and writes the zone file ...
BindWrite(t) ==
  /\ Apply(t, "apply", "bind9") /\ ~Deletes(t) /\ lock = NoThread
  /\ lock' = t /\ file' = handler[t].ver
  /\ Goto(t, "rndc")
  /\ Rest /\ UNCHANGED <<served, conf, transaction, history, faults>>

\* Faulty variant: an update of a zone that is not there adds it.
BindRndcAdds(t) ==
  /\ Apply(t, "rndc", "bind9")
  /\ lock' = NoThread
  /\ conf' = TRUE /\ served' = file /\ Answer(t, TRUE)
  /\ Rest /\ UNCHANGED <<file, transaction, faults>>

\* ... and runs rndc addzone, which a configured zone refuses, or rndc
\* reload, which needs one, still under the lock.
BindRndc(t) ==
  /\ Apply(t, "rndc", "bind9")
  /\ lock' = NoThread
  /\ IF Creates(t) # conf
     THEN conf' = TRUE /\ served' = file /\ Answer(t, TRUE)
     ELSE UNCHANGED <<conf, served>> /\ Answer(t, FALSE)
  /\ Rest /\ UNCHANGED <<file, transaction, faults>>

\* delete_zone: rndc delzone, without the lock; the file stays.
BindDelete(t) ==
  /\ Apply(t, "apply", "bind9") /\ Deletes(t)
  /\ conf' = FALSE /\ served' = 0
  /\ Answer(t, conf)
  /\ Rest /\ UNCHANGED <<file, lock, transaction, faults>>

\* Faulty variant: the lock is not released when rndc fails.
BindFailsHolding(t) ==
  /\ \/ Apply(t, "rndc", "bind9")
     \/ Apply(t, "apply", "bind9") /\ Deletes(t)
  /\ Fault
  /\ Answer(t, FALSE)
  /\ Rest /\ UNCHANGED backend

\* rndc fails: exceptions.Backend, and the with statement frees the lock.
BindFails(t) ==
  /\ \/ Apply(t, "rndc", "bind9")
     \/ Apply(t, "apply", "bind9") /\ Deletes(t)
  /\ Fault
  /\ lock' = IF lock = t THEN NoThread ELSE lock
  /\ Answer(t, FALSE)
  /\ Rest /\ UNCHANGED <<file, served, conf, transaction>>
-----------------------------------------------------------------------------
\* gdnsd: _write_zone_file renames a temporary file; gdnsd loads it.
GdnsdWrite(t) ==
  /\ Apply(t, "apply", "gdnsd") /\ ~Deletes(t)
  /\ file' = handler[t].ver /\ served' = handler[t].ver /\ conf' = TRUE
  /\ Answer(t, TRUE)
  /\ Rest /\ UNCHANGED <<lock, transaction, faults>>

\* delete_zone: a missing file is no error.
GdnsdDelete(t) ==
  /\ Apply(t, "apply", "gdnsd") /\ Deletes(t)
  /\ file' = 0 /\ served' = 0 /\ conf' = FALSE
  /\ Answer(t, TRUE)
  /\ Rest /\ UNCHANGED <<lock, transaction, faults>>

\* The file cannot be written or removed.
GdnsdFails(t) ==
  /\ Apply(t, "apply", "gdnsd") /\ Fault
  /\ Answer(t, FALSE)
  /\ Rest /\ UNCHANGED backend
-----------------------------------------------------------------------------
\* djbdns: axfr-get writes the data file atomically, by a transfer of its
\* own under the zone's lock.
DjbAxfr(t) ==
  /\ Apply(t, "apply", "djbdns") /\ ~Deletes(t) /\ lock = NoThread
  /\ file' = master
  /\ Goto(t, "glob")
  /\ Rest /\ UNCHANGED <<served, conf, lock, transaction, history, faults>>

\* delete_zone removes the data file; if there is none it returns without
\* rebuilding data.cdb.
DjbDelete(t) ==
  /\ Apply(t, "apply", "djbdns") /\ Deletes(t)
  /\ file' = 0
  /\ IF file = 0 THEN Answer(t, TRUE) ELSE Goto(t, "glob") /\ UNCHANGED history
  /\ Rest /\ UNCHANGED <<served, conf, lock, transaction, faults>>

\* _rebuild_data_cdb reads the data files, with no lock ...
DjbGlob(t) ==
  /\ Apply(t, "glob", "djbdns")
  /\ handler' = [handler EXCEPT ![t].at = "swap", ![t].ver = file]
  /\ Rest /\ UNCHANGED <<backend, history, faults>>

\* ... and renames the data.cdb made of them over the one being served.
DjbSwap(t) ==
  /\ Apply(t, "swap", "djbdns")
  /\ served' = handler[t].ver /\ conf' = (handler[t].ver > 0)
  /\ Answer(t, TRUE)
  /\ Rest /\ UNCHANGED <<file, lock, transaction, faults>>

\* axfr-get, tinydns-data, or a file operation fails; earlier steps stay.
DjbFails(t) ==
  /\ kind = "djbdns" /\ handler[t].at \in {"apply", "glob", "swap"} /\ Fault
  /\ Answer(t, FALSE)
  /\ Rest /\ UNCHANGED backend
-----------------------------------------------------------------------------
\* knot2: _modify_zone takes the lock and opens a configuration transaction;
\* knot has one at a time.  An update needs none.
KnotBegin(t) ==
  /\ Apply(t, "apply", "knot2") /\ handler[t].op # "NOTIFY" /\ lock = NoThread
  /\ IF transaction
     THEN Answer(t, FALSE) /\ UNCHANGED <<lock, transaction>>
     ELSE /\ transaction' = TRUE /\ lock' = t
          /\ Goto(t, "commit") /\ UNCHANGED history
  /\ Rest /\ UNCHANGED <<file, served, conf, faults>>

\* conf-set or conf-unset ("duplicate" and "invalid identifier" are ignored)
\* and conf-commit.
KnotCommit(t) ==
  /\ Apply(t, "commit", "knot2")
  /\ transaction' = FALSE /\ lock' = NoThread
  /\ conf' = Creates(t)
  /\ IF Creates(t)
     THEN Goto(t, "refresh") /\ UNCHANGED <<served, history>>
     ELSE served' = 0 /\ Answer(t, TRUE)
  /\ Rest /\ UNCHANGED <<file, faults>>

\* conf-set or conf-unset fails: conf-abort, then the exception.  When abort
\* or commit fails the transaction stays open and the lock is released.
KnotFails(t) ==
  /\ Apply(t, "commit", "knot2") /\ Fault
  /\ lock' = NoThread
  /\ transaction' \in BOOLEAN
  /\ Answer(t, FALSE)
  /\ Rest /\ UNCHANGED <<file, served, conf>>

\* zone-refresh: knot transfers the zone from MiniDNS.
KnotRefresh(t) ==
  /\ kind = "knot2"
  /\ At(t, "refresh") \/ (At(t, "apply") /\ handler[t].op = "NOTIFY")
  /\ served' = IF conf THEN master ELSE served
  /\ Answer(t, conf)
  /\ Rest /\ UNCHANGED <<file, conf, lock, transaction, faults>>

\* knotc reports an error.
KnotRefreshFails(t) ==
  /\ kind = "knot2" /\ Fault
  /\ At(t, "refresh") \/ (At(t, "apply") /\ handler[t].op = "NOTIFY")
  /\ Answer(t, FALSE)
  /\ Rest /\ UNCHANGED backend
-----------------------------------------------------------------------------
\* msdns: zone_create (an identical zone is taken for done), zone_update and
\* zone_delete of the Windows server, which transfers by itself.
MsApply(t) ==
  /\ Apply(t, "apply", "msdns")
  /\ conf' = CASE Creates(t) -> TRUE [] Deletes(t) -> FALSE [] OTHER -> conf
  /\ served' = CASE Deletes(t) -> 0
                 [] Creates(t) \/ conf -> master
                 [] OTHER -> served
  /\ Answer(t, handler[t].op # "NOTIFY" \/ conf)
  /\ Rest /\ UNCHANGED <<file, lock, transaction, faults>>

\* The Windows management call fails.
MsFails(t) ==
  /\ Apply(t, "apply", "msdns") /\ Fault
  /\ Answer(t, FALSE)
  /\ Rest /\ UNCHANGED backend
-----------------------------------------------------------------------------
Handle(t) ==
  \/ Awake(t) \/ Find(t) \/ FindFails(t) \/ Axfr(t) \/ AxfrFails(t)
  \/ BindWrite(t) \/ BindRndc(t) \/ BindDelete(t) \/ BindFails(t)
  \/ GdnsdWrite(t) \/ GdnsdDelete(t) \/ GdnsdFails(t)
  \/ DjbAxfr(t) \/ DjbDelete(t) \/ DjbGlob(t) \/ DjbSwap(t) \/ DjbFails(t)
  \/ KnotBegin(t) \/ KnotCommit(t) \/ KnotFails(t)
  \/ KnotRefresh(t) \/ KnotRefreshFails(t)
  \/ MsApply(t) \/ MsFails(t)

Next ==
  \/ Change
  \/ \E t \in Threads :
       \/ \E op \in Ops : Receive(t, op)
       \/ Delay(t) \/ ThrowAway(t)
       \/ Handle(t)

Spec == Init /\ [][Next]_vars
-----------------------------------------------------------------------------
\* Every variable keeps its type, and the lock's holder is in a step that
\* holds it.
TypeOK ==
  /\ kind \in Kinds /\ limiting \in BOOLEAN /\ master \in 1 .. MaxVersion
  /\ handler \in [Threads ->
       [op : Ops \cup {"none"}, ver : 0 .. MaxVersion,
        at : {"idle", "sleep", "find", "axfr", "apply", "rndc", "glob",
              "swap", "commit", "refresh"}]]
  /\ file \in 0 .. MaxVersion /\ served \in 0 .. MaxVersion
  /\ owed \in 0 .. MaxVersion /\ acked \in 0 .. MaxVersion
  /\ {conf, limiter, transaction, blind, gone, made} \subseteq BOOLEAN
  /\ lock \in Threads \cup {NoThread}
  /\ lock # NoThread => handler[lock].at \in {"rndc", "commit"}

\* AckedDeleteIsGone: after a DELETE was answered with AA and no CREATE was
\* sent since, the name server does not have the zone, whatever transfers of
\* earlier NOTIFYs are still on their way (_handle_delete, and update_zone of
\* the bind9, knot2 and msdns backends, which never makes a zone).  gdnsd and
\* djbdns can make it again; a failed lookup hides a zone from bind9.
AckedDeleteIsGone ==
  gone /\ (kind \in {"knot2", "msdns"} \/ (kind = "bind9" /\ ~blind)) => ~conf

\* AckedCreateIsThere: after a CREATE was answered with AA and no DELETE was
\* received since, the name server has the zone (_handle_create and the
\* backends' create_zone).  djbdns can lose it by an older data.cdb.
AckedCreateIsThere == made /\ kind # "djbdns" => conf

\* ThrownAwayIsCovered: a NOTIFY the limiter threw away, though it was
\* answered with AA, is covered by a transfer still to be made: the limiter
\* releases its lock before the zone is transferred, not after
\* (LimitNotifyMiddleware.process_request, ZoneLock).
ThrownAwayIsCovered ==
  owed > 0 => \E t \in Threads : /\ handler[t].op = "NOTIFY"
                                 /\ handler[t].at \in {"sleep", "find", "axfr"}

\* NewestStaysServed: the docstring of _handle_notify says that it "does a
\* serial check to see if further action needs to be taken": when nothing is
\* being handled, the name server serves no older version than the newest one
\* a NOTIFY was acknowledged with.  The code makes no such check, and a slow
\* transfer overwrites a newer one.
NewestStaysServed ==
  (\A t \in Threads : At(t, "idle")) /\ conf => served >= acked
=============================================================================
