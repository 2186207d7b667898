------------------------------ MODULE Backends ------------------------------
(***************************************************************************)
(* The drivers of the DNS backends other than ZDNS (designate/backend).    *)
(* The worker and the pool manager call create_zone and delete_zone of a   *)
(* driver, and call it again when it raised or when the service was        *)
(* restarted.  A driver turns the call into a few requests to a server     *)
(* Designate does not own, any of which may be refused, fail before it is  *)
(* done, or be done while its answer is lost; the next attempt finds what  *)
(* the earlier one left.  Each driver is the list of its requests and of   *)
(* what it does with each kind of answer; one machine runs them all.       *)
(*                                                                         *)
(* The zone's name, masters and keys do not change between attempts and    *)
(* are left out.  The servers (rndc, NSD, PowerDNS, DynECT, Akamai,        *)
(* Infoblox) are modelled from the answers the drivers tell apart.         *)
(***************************************************************************)
EXTENDS Naturals, Sequences

CONSTANTS Callers,      \* threads of the worker or pool manager
          MaxFaults,    \* failed or lost requests, crashes and login expiries
          MaxTurns      \* changes between a zone wanted and a zone deleted

VARIABLES driver,       \* the plugin the target is configured with
          want,         \* "create" or "delete": the call the zone needs
          settled,      \* a call for want has returned without an exception
          call,         \* per caller: its position in the driver's requests
          server,       \* the zone at the server: absent, present or active
          faults, turns \* what the bounds count

vars == <<driver, want, settled, call, server, faults, turns>>

Drivers == {"bind9", "nsd4", "pdns4", "designate", "dynect", "akamai",
            "infoblox", "powerdns", "agent", "fake"}

(***************************************************************************)
(* A request: what it asks, and what the driver does when the server says  *)
(* that the zone exists or is missing ("next" goes on, "end" returns,      *)
(* "raise" lets the exception out, "put" sends an update instead), or that *)
(* it refuses (refused).  A connection that breaks raises in every driver. *)
(***************************************************************************)
Request(ask, exists, missing, refused) ==
  [ask |-> ask, exists |-> exists, missing |-> missing, refused |-> refused]

\* A request whose every failure raises.
Plain(ask) == Request(ask, "raise", "raise", "raise")

\* Faulty variant: a zone that exists is an error of addzone.
Bind9RaisesExists(op) ==
  IF op = "create"
  THEN <<Plain("add"), Plain("notify")>>
  ELSE <<Request("delete", "raise", "next", "raise")>>

\* Bind9Backend.create_zone / delete_zone: rndc addzone and delzone, the
\* texts "already exists" and "not found" are not errors; create ends with
\* a NOTIFY through MiniDNS.
Bind9(op) ==
  IF op = "create"
  THEN <<Request("add", "next", "raise", "raise"), Plain("notify")>>
  ELSE <<Request("delete", "raise", "next", "raise")>>

\* NSD4Backend: the same words over the NSD control channel, no NOTIFY.
Nsd4(op) ==
  IF op = "create"
  THEN <<Request("add", "next", "raise", "raise")>>
  ELSE <<Request("delete", "raise", "next", "raise")>>

\* PDNS4Backend: every HTTP error is raised, an existing or missing zone too.
Pdns4(op) ==
  IF op = "create" THEN <<Plain("add")>> ELSE <<Plain("delete")>>

\* DesignateBackend: _get_client reads self._client, which nothing sets, so
\* both calls raise before they reach the remote Designate.
Designate(op) ==
  <<Plain("client"),
    IF op = "create" THEN Plain("add")
                     ELSE Request("delete", "raise", "next", "raise")>>

\* Faulty variant: an existing zone ends the call instead of being updated.
DynectCreateExisting ==
  <<Plain("login"), Request("add", "end", "raise", "raise"),
    Plain("activate"), Plain("logout")>>

\* DynECTBackend.create_zone: login at the first request, POST the secondary
\* zone (PUT when it exists), activate it, log out.
DynectCreate ==
  <<Plain("login"), Request("add", "put", "raise", "raise"),
    Plain("activate"), Plain("logout")>>

\* DynECTBackend.delete_zone: a 404 is ignored.
DynectDelete ==
  <<Plain("login"), Request("delete", "raise", "next", "raise"),
    Plain("logout")>>

\* AkamaiBackend: setZone creates or replaces; deleteZones takes the answer
\* 'Could not retrive object ID for zone' for a zone already purged.
Akamai(op) ==
  IF op = "create"
  THEN <<Plain("set")>>
  ELSE <<Request("delete", "raise", "next", "raise")>>

\* get_dns_view of a multi-tenant grid: find the tenant's network view and
\* make the views that are missing; a refusal to make them is logged.
InfobloxViews ==
  <<Plain("find view"), Request("add views", "next", "next", "next")>>

\* connector.get_object and _get_infoblox_object_or_none: a search answered
\* with an error status raises InfobloxSearchError.
InfobloxFind(found, none, refused) == Request("find", found, none, refused)

\* connector.create_object: any status but 201 raises
\* InfobloxCannotCreateObject, which is all that create_zone_auth catches.
InfobloxAdd == Request("add", "next", "raise", "next")

\* connector.delete_object: any status but 200 raises.
InfobloxRemove == Plain("delete")

\* create_zone_auth: look the zone up and create it if it is not there; a
\* refusal to create it is logged.
InfobloxZone == <<InfobloxFind("end", "next", "raise"), InfobloxAdd>>

\* delete_zone_auth: a zone that is not found and a search that is refused
\* both end the call without an exception.
InfobloxDelete == <<InfobloxFind("next", "end", "end"), InfobloxRemove>>

\* PowerDNSBackend: one transaction on its database; a duplicate or a
\* missing row is not an error; create ends with a NOTIFY.
PowerDNS(op) ==
  IF op = "create"
  THEN <<Request("add", "next", "raise", "raise"), Plain("notify")>>
  ELSE <<Request("delete", "raise", "end", "raise")>>

\* AgentPoolBackend: one message; no answer, or one without AA and NOERROR,
\* raises.  The agent takes an existing or a missing zone for done.
AgentPool(op) ==
  <<Request(IF op = "create" THEN "add" ELSE "delete",
            "next", "next", "raise")>>

RequestsOf(op) ==
  CASE driver = "bind9"     -> Bind9(op)
    [] driver = "nsd4"      -> Nsd4(op)
    [] driver = "pdns4"     -> Pdns4(op)
    [] driver = "designate" -> Designate(op)
    [] driver = "dynect"    -> IF op = "create" THEN DynectCreate
                                                ELSE DynectDelete
    [] driver = "akamai"    -> Akamai(op)
    [] driver = "infoblox"  -> IF op = "create" THEN InfobloxViews \o InfobloxZone
                                                ELSE InfobloxDelete
    [] driver = "powerdns"  -> PowerDNS(op)
    [] driver = "agent"     -> AgentPool(op)
    [] driver = "fake"      -> <<>>
-----------------------------------------------------------------------------
\* at: the next request; logins: authentication retries left (request()'s
\* retries=2); put: the POST was answered TARGET_EXISTS, the PUT is next.
Idle == [at |-> 0, logins |-> 2, put |-> FALSE]
Busy(c) == call[c].at > 0
Now(c) == RequestsOf(want)[call[c].at]

Init ==
  /\ driver \in Drivers
  /\ want = "create"
  /\ settled = FALSE
  /\ call = [c \in Callers |-> Idle]
  /\ server = "absent"
  /\ faults = 0
  /\ turns = 0

\* The worker or pool manager calls the driver: the first attempt, a retry
\* after an exception, or a second service that recovers the same zone.
Call(c) ==
  /\ ~settled /\ ~Busy(c)
  /\ call' = [call EXCEPT ![c].at = 1]
  /\ UNCHANGED <<driver, want, settled, server, faults, turns>>

\* The call returned: the zone's status is set to success.
Return(c) ==
  /\ Busy(c) /\ call[c].at > Len(RequestsOf(want))
  /\ call' = [call EXCEPT ![c] = Idle]
  /\ settled' = TRUE
  /\ UNCHANGED <<driver, want, server, faults, turns>>

\* The user deletes the zone, or creates it again, once no call is running.
Turn ==
  /\ settled /\ \A c \in Callers : ~Busy(c)
  /\ turns < MaxTurns
  /\ turns' = turns + 1
  /\ want' = IF want = "create" THEN "delete" ELSE "create"
  /\ settled' = FALSE
  /\ UNCHANGED <<driver, call, server, faults>>

Raised(c) == call' = [call EXCEPT ![c] = Idle]
Advance(c) == call' = [call EXCEPT ![c].at = @ + 1, ![c].put = FALSE]

\* What the driver does next, by the word of its request for the answer.
Follow(c, word) ==
  CASE word = "next"  -> Advance(c)
    [] word = "end"   -> call' = [call EXCEPT ![c].at = Len(RequestsOf(want)) + 1]
    [] word = "put"   -> call' = [call EXCEPT ![c].put = TRUE]
    [] word = "raise" -> Raised(c)

\* The effect of a request on the server, when it is carried out.
Effect(c) ==
  server' = CASE Now(c).ask \in {"add", "set"} /\ ~call[c].put
                 /\ server = "absent" -> "present"
              [] Now(c).ask = "activate" -> "active"
              [] Now(c).ask = "delete" -> "absent"
              [] OTHER -> server

\* The server finds that the zone to be made is there.
SaysExists(c) ==
  \/ Now(c).ask = "add" /\ ~call[c].put /\ server # "absent"
  \/ Now(c).ask = "find" /\ server # "absent"

\* The server finds that the zone the request is about is not there.
SaysMissing(c) ==
  \/ Now(c).ask \in {"delete", "find", "activate"} /\ server = "absent"
  \/ Now(c).ask = "add" /\ call[c].put /\ server = "absent"

Running(c) == Busy(c) /\ call[c].at <= Len(RequestsOf(want))

\* The driver's own code raises: DesignateBackend has no _client.
NoClient(c) ==
  /\ Running(c) /\ Now(c).ask = "client"
  /\ Raised(c)
  /\ UNCHANGED <<driver, want, settled, server, faults, turns>>

\* The request is carried out and answered.
Done(c) ==
  /\ Running(c) /\ Now(c).ask # "client"
  /\ ~SaysExists(c) /\ ~SaysMissing(c)
  /\ Effect(c)
  /\ Advance(c)
  /\ UNCHANGED <<driver, want, settled, faults, turns>>

Exists(c) ==
  /\ Running(c) /\ SaysExists(c)
  /\ Follow(c, Now(c).exists)
  /\ UNCHANGED <<driver, want, settled, server, faults, turns>>

Missing(c) ==
  /\ Running(c) /\ SaysMissing(c)
  /\ Follow(c, Now(c).missing)
  /\ UNCHANGED <<driver, want, settled, server, faults, turns>>

Fault == faults < MaxFaults /\ faults' = faults + 1

\* The server answers with another error: an exit code, an HTTP status, a
\* SOAP fault, a DNS rcode.
Refused(c) ==
  /\ Running(c) /\ Now(c).ask # "client" /\ Fault
  /\ Follow(c, Now(c).refused)
  /\ UNCHANGED <<driver, want, settled, server, turns>>

\* The connection breaks before the request is carried out, or the service
\* dies: the call is over and the server is as it was.
Broken(c) ==
  /\ Running(c) /\ Fault
  /\ Raised(c)
  /\ UNCHANGED <<driver, want, settled, server, turns>>

\* The request is carried out and the answer is lost, or the service dies
\* before it reads it.
AnswerLost(c) ==
  /\ Running(c) /\ Now(c).ask # "client" /\ Fault
  /\ ~SaysExists(c) /\ ~SaysMissing(c)
  /\ Effect(c)
  /\ Raised(c)
  /\ UNCHANGED <<driver, want, settled, turns>>

\* Faulty variant: the repeated request does not count its retries.
TokenExpiredUnbounded(c) ==
  /\ Running(c) /\ driver = "dynect" /\ Now(c).ask # "login" /\ Fault
  /\ call' = [call EXCEPT ![c].logins = @ - 1]
  /\ UNCHANGED <<driver, want, settled, server, turns>>

\* DynClient.request: the token is no longer accepted; the client logs in
\* again and repeats the request, twice at most.
TokenExpired(c) ==
  /\ Running(c) /\ driver = "dynect" /\ Now(c).ask # "login" /\ Fault
  /\ IF call[c].logins > 0 THEN call' = [call EXCEPT ![c].logins = @ - 1]
                           ELSE Raised(c)
  /\ UNCHANGED <<driver, want, settled, server, turns>>

Step(c) == \/ Return(c) \/ NoClient(c) \/ Done(c)
           \/ Exists(c) \/ Missing(c)

Next ==
  \/ Turn
  \/ \E c \in Callers : \/ Call(c) \/ Step(c) \/ Refused(c) \/ Broken(c)
                        \/ AnswerLost(c) \/ TokenExpired(c)

Spec == Init /\ [][Next]_vars

\* The services' periodic tasks call the driver again until it succeeds, and
\* a server that is asked answers.
FairSpec == Spec /\ \A c \in Callers : WF_vars(Call(c) \/ Step(c))
-----------------------------------------------------------------------------
\* Every variable keeps its type; a call is inside its driver's requests.
TypeOK ==
  /\ driver \in Drivers
  /\ want \in {"create", "delete"}
  /\ settled \in BOOLEAN
  /\ call \in [Callers -> [at : Nat, logins : 0 .. 2, put : BOOLEAN]]
  /\ \A c \in Callers : call[c].at <= Len(RequestsOf(want)) + 1
  /\ server \in {"absent", "present", "active"}
  /\ faults \in 0 .. MaxFaults /\ turns \in 0 .. MaxTurns

\* Drivers whose every swallowed answer is about a zone already as wanted.
\* Infoblox also swallows refusals, and the fake driver asks nobody.
Careful == Drivers \ {"infoblox", "fake"}

\* SuccessMeansDone: when a call has returned and none is running, the server
\* is as the zone needs it: made and, at DynECT, activated, or gone; however
\* many earlier attempts failed half way (create_zone and delete_zone of the
\* drivers, and the answers they take for success).
SuccessMeansDone ==
  driver \in Careful /\ settled /\ (\A c \in Callers : ~Busy(c)) =>
    IF want = "delete" THEN server = "absent"
    ELSE server = IF driver = "dynect" THEN "active" ELSE "present"

\* Drivers that take "exists" on create and "missing" on delete for success.
Repeatable == Drivers \ {"pdns4", "designate"}

\* RetrySettles: repeating the call ends in success, whatever request of an
\* earlier attempt was carried out without being answered (the handling of
\* "already exists", "not found", TARGET_EXISTS, 404 in the drivers).
RetrySettles == (driver \in Repeatable /\ ~settled) ~> settled
=============================================================================
