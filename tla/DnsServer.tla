----------------------------- MODULE DnsServer -----------------------------
(***************************************************************************)
(* The DNS front of designate-mdns and designate-agent (DNSService): one   *)
(* loop takes TCP connections and one datagrams, each is served by a green *)
(* thread of the service's pool, several queries of a connection one after *)
(* the other; then the stack of mdns: SerializationMiddleware,             *)
(* TsigInfoMiddleware and RequestHandler, which reads the database of      *)
(* central while central changes it.                                       *)
(*                                                                         *)
(* A session is a connection or a datagram.  There is one zone, and of its *)
(* records only the number matters.  Records come and go without a change  *)
(* of the SOA: no serial is renewed with them, and the SOA row is not      *)
(* written once it is there.  The queries of the agent are handled in      *)
(* Agent.tla.                                                              *)
(***************************************************************************)
EXTENDS Naturals, Sequences, FiniteSets

CONSTANTS
    Sessions,
    Queries,     \* the queries they make
    Pool,        \* green threads of the service, those of the loops not counted
    MaxQueries,  \* bound on the queries of a connection
    Size,        \* bound on the resource records of the zone, without the SOA
    Enforce      \* query_enforce_tsig

VARIABLES
    db,    \* the zone, and the TSIG key of the clients
    free,  \* free threads
    loop,  \* per transport: the session its loop serves itself, if any
    ses,   \* the sessions
    out    \* the last zone transfer each of them got to its end

vars == <<db, free, loop, ses, out>>

----------------------------------------------------------------------------
Nobody == "none"
Transports == {"tcp", "udp"}

Query == [kind : {"query", "axfr", "notify", "other", "broken"},
          scope : {"unsigned", "here", "elsewhere"}]

NoSession == [pc |-> "none", via |-> Nobody, n |-> 0,
              q |-> [kind |-> "broken", scope |-> "unsigned"],
              soa |-> FALSE, size |-> 0, at |-> 0, sent |-> 0]

\* add_thread: a loop that finds the pool empty runs the call itself
Spawn(s) ==
    LET via == ses[s].via
    IN  IF free > 0 THEN free' = free - 1 /\ UNCHANGED loop
        ELSE loop' = [loop EXCEPT ![via] = s] /\ UNCHANGED free

Inline(s) == \E via \in Transports : loop[via] = s

\* Faulty variant of Close: an inline call gives back a thread as well.
CloseFrees(s) ==
    /\ ses' = [ses EXCEPT ![s] = [NoSession EXCEPT !.pc = "done"]]
    /\ loop' = [via \in Transports |-> IF loop[via] = s THEN Nobody ELSE loop[via]]
    /\ free' = free + 1

\* client.close(), and the thread ends; or the loop goes on
Close(s) ==
    /\ ses' = [ses EXCEPT ![s] = [NoSession EXCEPT !.pc = "done"]]
    /\ loop' = [via \in Transports |-> IF loop[via] = s THEN Nobody ELSE loop[via]]
    /\ free' = IF Inline(s) THEN free ELSE free + 1

Goto(s, pc) == /\ ses' = [ses EXCEPT ![s].pc = pc]
               /\ UNCHANGED <<free, loop>>

\* The application has no more to say: the next query of the connection
EndQuery(s) ==
    IF ses[s].via = "tcp"
    THEN /\ ses' = [ses EXCEPT ![s] = [NoSession EXCEPT !.pc = "len",
                                         !.via = "tcp", !.n = ses[s].n]]
         /\ UNCHANGED <<free, loop>>
    ELSE Close(s)

\* sendall can time out, sendto cannot
Reply(s) == \/ EndQuery(s)
            \/ ses[s].via = "tcp" /\ Close(s)

----------------------------------------------------------------------------
(* DNSService *)

Arrive(s, via) ==
    /\ ses[s].pc = "none"
    /\ ses' = [ses EXCEPT ![s].pc = "waiting", ![s].via = via]
    /\ UNCHANGED <<db, free, loop, out>>

_dns_handle_tcp(s) ==
    /\ ses[s].pc = "waiting" /\ ses[s].via = "tcp"
    /\ loop["tcp"] = Nobody
    /\ Spawn(s)
    /\ ses' = [ses EXCEPT ![s].pc = "len"]
    /\ UNCHANGED <<db, out>>

_dns_handle_udp(s, q) ==
    /\ ses[s].pc = "waiting" /\ ses[s].via = "udp"
    /\ loop["udp"] = Nobody
    /\ Spawn(s)
    /\ ses' = [ses EXCEPT ![s].pc = "parse", ![s].q = q, ![s].n = 1]
    /\ UNCHANGED <<db, out>>

\* client.recv(2) returns two bytes; or one, or none at the end of the
\* connection, and struct.unpack raises
RecvLength(s) ==
    /\ ses[s].pc = "len"
    /\ \/ /\ ses[s].n < MaxQueries
          /\ Goto(s, "body")
       \/ Close(s)
    /\ UNCHANGED <<db, out>>

\* The rest of the query, in any number of pieces; a connection that ends
\* before leaves half a query, which does not parse
RecvBody(s, q) ==
    /\ ses[s].pc = "body"
    /\ ses' = [ses EXCEPT ![s].pc = "parse", ![s].q = q, ![s].n = @ + 1]
    /\ UNCHANGED <<db, free, loop, out>>

\* Faulty variant of RecvTimeout: no settimeout for a connection that the loop
\* serves itself.
RecvTimeoutOfThreads(s) ==
    /\ ses[s].pc \in {"len", "body"}
    /\ ~Inline(s)
    /\ Close(s)
    /\ UNCHANGED <<db, out>>

\* tcp_recv_timeout
RecvTimeout(s) ==
    /\ ses[s].pc \in {"len", "body"}
    /\ Close(s)
    /\ UNCHANGED <<db, out>>

----------------------------------------------------------------------------
(* The middleware *)

\* TsigKeyring: the keys are looked up in the database
KnownKey(q) == q.scope # "unsigned" => db.key

\* SerializationMiddleware: of what does not parse, or is signed by an unknown
\* key, an error response is made, and not sent
Deserialize(s) ==
    LET q == ses[s].q
    IN  /\ ses[s].pc = "parse"
        /\ IF q.kind = "broken" \/ ~KnownKey(q)
           THEN EndQuery(s)
           ELSE Goto(s, "info")
        /\ UNCHANGED <<db, out>>

\* TsigInfoMiddleware: a key that is gone by now ends the session, since the
\* error response is not a sequence of responses
TsigInfo(s) ==
    /\ ses[s].pc = "info"
    /\ IF ~KnownKey(ses[s].q) THEN Close(s)
       ELSE Goto(s, "handle")
    /\ UNCHANGED <<db, out>>

----------------------------------------------------------------------------
(* RequestHandler *)

\* _zone_criterion_from_request: Forbidden, or the zones the key is for
Criterion(q) == IF q.scope = "unsigned" THEN ~Enforce ELSE q.scope = "here"

\* Any other opcode, class or number of questions
RefuseOther(s) ==
    /\ ses[s].pc = "handle" /\ ses[s].q.kind = "other"
    /\ Reply(s)
    /\ UNCHANGED <<db, out>>

AxfrZone(s) ==
    /\ ses[s].pc = "handle" /\ ses[s].q.kind = "axfr"
    /\ IF db.stored /\ Criterion(ses[s].q)
       THEN Goto(s, "soa")
       ELSE Reply(s)  \* REFUSED
    /\ UNCHANGED <<db, out>>

\* The SOA, and then in a query of their own the other records
AxfrSoa(s) ==
    /\ ses[s].pc = "soa"
    /\ ses' = [ses EXCEPT ![s].pc = "records",
                  ![s].soa = db.stored /\ db.soa]
    /\ UNCHANGED <<db, free, loop, out>>

\* soa_records[0]: IndexError for a zone without one
AxfrRecords(s) ==
    /\ ses[s].pc = "records"
    /\ IF ~ses[s].soa THEN Close(s)
       ELSE /\ ses' = [ses EXCEPT ![s].pc = "render",
                          ![s].size = IF db.stored THEN db.records ELSE 0]
            /\ UNCHANGED <<free, loop>>
    /\ UNCHANGED <<db, out>>

\* The SOA is the first and the last of them
Rendered(r) == r.at = r.size + 2

\* Faulty variant of Page: the record that did not fit is left out.
PageSkips(r, k) ==
    [r EXCEPT !.at = IF @ + k + 1 < r.size + 2 THEN @ + k + 1 ELSE @ + k,
              !.sent = @ + k]

\* k records fit in a message; the next one is tried again in the next
Page(r, k) == [r EXCEPT !.at = @ + k, !.sent = @ + k]

\* A record that fits in no message ends the transfer with SERVFAIL
Render(s) ==
    /\ ses[s].pc = "render"
    /\ IF Rendered(ses[s])
       THEN /\ Reply(s)
            /\ out' = [out EXCEPT ![s] = [ended |-> TRUE, size |-> ses[s].size,
                                          sent |-> ses[s].sent]]
       ELSE \/ /\ \E k \in 1 .. (ses[s].size + 2 - ses[s].at) :
                     ses' = [ses EXCEPT ![s] = Page(@, k)]
               /\ UNCHANGED <<free, loop, out>>
            \/ Reply(s) /\ UNCHANGED out
    /\ UNCHANGED db

\* find_recordset, of a zone that is not deleted
QueryRecordset(s) ==
    /\ ses[s].pc = "handle" /\ ses[s].q.kind = "query"
    /\ IF db.stored
       THEN Goto(s, "zone")
       ELSE Reply(s)  \* REFUSED
    /\ UNCHANGED <<db, out>>

\* and find_zone of the recordset's zone: NOERROR or REFUSED
QueryZone(s) ==
    /\ ses[s].pc = "zone"
    /\ Reply(s)
    /\ UNCHANGED <<db, out>>

\* NOTAUTH for a zone that is not SECONDARY, REFUSED for a sender that is not
\* its master; the master is asked for its serial, which may raise; another
\* serial starts zone_sync, which raises at once: in a thread of its own, or
\* here when the pool is empty
Notify(s) ==
    /\ ses[s].pc = "handle" /\ ses[s].q.kind = "notify"
    /\ \/ Reply(s)
       \/ db.stored /\ db.secondary /\ Close(s)
    /\ UNCHANGED <<db, out>>

----------------------------------------------------------------------------
(* designate-central and its database *)

\* create_record and delete_record of the storage: the SOA stays as it is
ChangeRecords ==
    /\ db.stored
    /\ \E n \in 0 .. Size : n # db.records /\ db' = [db EXCEPT !.records = n]
    /\ UNCHANGED <<free, loop, ses, out>>

DropZone == /\ db.stored
            /\ db' = [db EXCEPT !.stored = FALSE]
            /\ UNCHANGED <<free, loop, ses, out>>

DropKey == /\ db.key
           /\ db' = [db EXCEPT !.key = FALSE]
           /\ UNCHANGED <<free, loop, ses, out>>

----------------------------------------------------------------------------
\* create_zone makes no SOA recordset; the zones of an older database have one
Init ==
    /\ db \in [records : {Size}, stored : {TRUE}, key : {TRUE}, soa : BOOLEAN,
               secondary : BOOLEAN]
    /\ db.soa => ~db.secondary
    /\ free = Pool
    /\ loop = [via \in Transports |-> Nobody]
    /\ ses = [s \in Sessions |-> NoSession]
    /\ out = [s \in Sessions |-> [ended |-> FALSE, size |-> 0, sent |-> 0]]

Client(s) ==
    \/ \E via \in Transports : Arrive(s, via)
    \/ RecvLength(s)
    \/ \E q \in Queries : RecvBody(s, q)

Loops(s) == _dns_handle_tcp(s) \/ \E q \in Queries : _dns_handle_udp(s, q)

Work(s) ==
    \/ RecvTimeout(s) \/ Deserialize(s) \/ TsigInfo(s) \/ RefuseOther(s)
    \/ AxfrZone(s) \/ AxfrSoa(s) \/ AxfrRecords(s) \/ Render(s)
    \/ QueryRecordset(s) \/ QueryZone(s) \/ Notify(s)

Next == \/ \E s \in Sessions : Client(s) \/ Loops(s) \/ Work(s)
        \/ ChangeRecords \/ DropZone \/ DropKey

Spec == Init /\ [][Next]_vars

\* A green thread runs on, and its receive times out; the loops take what waits
FairSpec == /\ Spec
            /\ \A s \in Sessions : WF_vars(Work(s)) /\ WF_vars(Loops(s))

----------------------------------------------------------------------------
\* The pool never has more threads than it was made with, and a loop serves at
\* most one session itself.
TypeOK ==
    /\ db.records \in 0 .. Size
    /\ free \in 0 .. Pool
    /\ \A via \in Transports : loop[via] \in Sessions \cup {Nobody}
    /\ \A s \in Sessions : ses[s].n \in 0 .. MaxQueries /\ ses[s].q \in Query
    /\ free + Cardinality({s \in Sessions : ses[s].pc \notin
               {"none", "waiting", "done"} /\ ~Inline(s)}) = Pool

\* A zone transfer that is sent to its end has every record that was read once,
\* between the two SOAs, however they fall into messages and whatever central
\* does to the zone meanwhile: a record that found its message full is in the
\* next one.
TransferIsSound ==
    \A s \in Sessions : out[s].ended => out[s].sent = out[s].size + 2

\* Every connection and every datagram is served and let go in the end, even
\* with the pool empty and clients that fall silent: the loops go on.
SessionsEnd == \A s \in Sessions : (ses[s].pc # "none") ~> (ses[s].pc = "done")

=============================================================================
