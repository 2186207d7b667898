-------------------------- MODULE ResourcesProofs --------------------------
(***************************************************************************)
(* Proofs about Resources for every choice of its constants: the types,    *)
(* which statuses a refusal has, and that the API server, the RPC layer    *)
(* and central together implement the store of ResourceStore.              *)
(*                                                                         *)
(* The inductive invariant is Sound: what a PATCH holds between its two    *)
(* calls of central agrees with what the client asked for, and every row   *)
(* satisfies the schema of its object and its table.                       *)
(***************************************************************************)
EXTENDS Resources, TLAPS

\* A row satisfies the schema of its object and the NOT NULL columns of its table
SoundRow(row) ==
    /\ row \in Rows /\ Valid(row)
    /\ \A u \in Table(kind).notnull : row[u] # Null

\* The copy of a PATCH is the merge of its body into the row it read
SoundCall(m) ==
    /\ m.ctxt \in Contexts /\ m.id \in Ids
    /\ m.val \in Rows /\ Valid(m.val)
    /\ DOMAIN m.body \subseteq Columns /\ m.body \in [DOMAIN m.body -> Values \cup {Null}]
    /\ m.changed \subseteq DOMAIN m.body
    /\ \A k \in m.changed : m.val[k] = m.body[k]

RowsSound == rows \in [Ids -> Rows \cup {Null}]
             /\ \A i \in Ids : rows[i] # Null => SoundRow(rows[i])

CallsSound == call = [c \in Clients |-> call[c]]
              /\ \A c \in Clients : call[c] # Null => SoundCall(call[c])

Sound == /\ kind \in Kinds /\ RowsSound /\ CallsSound
         /\ DOMAIN answer = Clients /\ requests \in 0 .. MaxRequests

USE ResourcesAssumption

-----------------------------------------------------------------------------
(* Kinds of resources                                                      *)

\* What the tables, objects and adapters of all kinds have in common
LEMMA KindFacts ==
    ASSUME NEW k \in Kinds
    PROVE  /\ Adapter(k).immutable \subseteq ColumnsOf(k)
           /\ Object(k).required \subseteq ColumnsOf(k)
           /\ Table(k).notnull \subseteq ColumnsOf(k) /\ Table(k).unique \subseteq ColumnsOf(k)
           /\ k # "transfer_request" => Table(k).notnull \subseteq Object(k).required
           /\ Table(k).tenanted \in BOOLEAN
           /\ Table(k).tenanted => "tenant_id" \in ColumnsOf(k)
           /\ Central(k).stamps => "tenant_id" \in ColumnsOf(k)
           /\ "tenant_id" \notin Object(k).required \cup Table(k).notnull
           /\ "target_tenant_id" \notin Object(k).required \cup Table(k).notnull
<1> USE DEF Adapter, Object, Table, Central, ColumnsOf
<1>1. CASE k = "tld"
    BY <1>1 DEF TldAdapter, Tld, tlds, TldCentral
<1>2. CASE k = "blacklist"
    BY <1>2 DEF BlacklistAdapter, Blacklist, blacklists, BlacklistCentral
<1>3. CASE k = "tsigkey"
    BY <1>3 DEF TsigKeyAdapter, TsigKey, tsigkeys, TsigKeyCentral
<1>4. CASE k = "pool"
    BY <1>4 DEF PoolAdapter, Pool, pools, PoolCentral
<1>5. CASE k = "transfer_request"
    BY <1>5 DEF ZoneTransferRequestAdapter, ZoneTransferRequest, zone_transfer_requests,
                ZoneTransferRequestCentral
<1> QED  BY <1>1, <1>2, <1>3, <1>4, <1>5 DEF Kinds

\* The rules about rows and copies do not change
LEMMA SameKind ==
    ASSUME NEW x, kind' = kind
    PROVE  /\ SoundRow(x)' = SoundRow(x) /\ SoundCall(x)' = SoundCall(x)
           /\ Rows' = Rows /\ Columns' = Columns
BY DEF SoundRow, SoundCall, Rows, Columns, Valid, Contexts

\* _parse_object puts the values of the body over those of the object
LEMMA ParsedRow ==
    ASSUME kind \in Kinds, NEW body, NEW val \in Rows, DOMAIN body \subseteq Columns,
           body \in [DOMAIN body -> Values \cup {Null, Bad}], Valid(_parse_object(body, val))
    PROVE  /\ _parse_object(body, val) \in Rows
           /\ body \in [DOMAIN body -> Values \cup {Null}]
           /\ \A k \in DOMAIN body : _parse_object(body, val)[k] = body[k]
<1>1. \A k \in Columns : _parse_object(body, val)[k] = IF k \in DOMAIN body THEN body[k] ELSE val[k]
    BY DEF _parse_object
<1>2. \A k \in DOMAIN body : body[k] # Bad
    BY <1>1 DEF Valid
<1>3. body \in [DOMAIN body -> Values \cup {Null}]
    BY <1>2
<1> QED  BY <1>1, <1>3 DEF _parse_object, Rows

\* An accepted body has only keys of the resource
LEMMA AcceptedKeys ==
    ASSUME NEW body, NEW val, ~Refused(body, val)
    PROVE  DOMAIN body \subseteq Columns
BY DEF Refused

\* The bodies of requests
LEMMA BodyTypes ==
    /\ \A body \in PostBodies : body \in [DOMAIN body -> Values \cup {Null, Bad}]
    /\ \A body \in PatchBodies : body \in [DOMAIN body -> Values \cup {Null, Bad}]
<1>1. ASSUME NEW D, NEW v \in Values \cup {Null, Bad}
      PROVE  Filled(D, v) \in [DOMAIN Filled(D, v) -> Values \cup {Null, Bad}]
    BY <1>1 DEF Filled
<1>2. ASSUME NEW body \in PostBodies PROVE \E D : \E v \in Values \cup {Null, Bad} : body = Filled(D, v)
    BY <1>2 DEF PostBodies
<1>3. ASSUME NEW body \in PatchBodies PROVE \E D : \E v \in Values \cup {Null, Bad} : body = Filled(D, v)
    <2> DEFINE A == {Filled(D, v) : D \in {{k, l} : k, l \in Columns}, v \in Values \cup {Null}}
               B == {Filled({k}, Bad) : k \in Columns}
               C == {Filled({k}, v) : k \in {"created_at", "nokey"}, v \in Values}
    <2>1. PatchBodies = A \cup B \cup C
        BY DEF PatchBodies
    <2>2. CASE body \in A
        BY <2>2
    <2>3. CASE body \in B
        BY <2>3
    <2>4. CASE body \in C
        BY <2>4
    <2> HIDE DEF A, B, C
    <2> QED  BY <1>3, <2>1, <2>2, <2>3, <2>4
<1> QED  BY <1>1, <1>2, <1>3

-----------------------------------------------------------------------------
(* The invariant                                                           *)

\* The first row is sound
LEMMA SoundInit == Init => Sound
<1> SUFFICES ASSUME Init PROVE Sound
    OBVIOUS
<1>1. kind \in Kinds /\ CallsSound /\ DOMAIN answer = Clients /\ requests \in 0 .. MaxRequests
    BY DEF Init, CallsSound
<1>2. PICK first \in Ids, v \in Values, t, target \in Tenants \cup {Null} :
        /\ kind = "transfer_request" => t # Null
        /\ rows = [i \in Ids |-> IF i # first THEN Null ELSE
                     [k \in Columns |-> CASE k = "tenant_id" -> t
                                          [] k = "target_tenant_id" -> target
                                          [] OTHER -> v]]
    BY Zenon DEF Init
<1> DEFINE row == [k \in Columns |-> CASE k = "tenant_id" -> t
                                       [] k = "target_tenant_id" -> target
                                       [] OTHER -> v]
<1>3. \A k \in Columns : /\ row[k] \in Values \cup {Null}
                         /\ k \notin {"tenant_id", "target_tenant_id"} => row[k] = v
    OBVIOUS
<1>4. row \in Rows
    BY <1>3 DEF Rows
<1> HIDE DEF row
<1>5. SoundRow(row)
    BY <1>1, <1>3, <1>4, KindFacts DEF SoundRow, Valid, Columns
<1>6. rows = [i \in Ids |-> IF i # first THEN Null ELSE row]
    BY <1>2 DEF row
<1>7. RowsSound
    BY <1>4, <1>5, <1>6 DEF RowsSound
<1> QED  BY <1>1, <1>7 DEF Sound

\* A POST whose object is valid stores a row that satisfies the schema
LEMMA StampedRow ==
    ASSUME Sound, NEW ctxt \in Contexts, NEW body \in PostBodies,
           ~Refused(body, [k \in Columns |-> Null]),
           Valid(_parse_object(body, [k \in Columns |-> Null]))
    PROVE  LET val == _parse_object(body, [k \in Columns |-> Null])
               row == IF Central(kind).stamps /\ val["tenant_id"] = Null
                      THEN [val EXCEPT !["tenant_id"] = ctxt.tenant]
                      ELSE val
           IN  row \in Rows /\ Valid(row)
<1> DEFINE blank == [k \in Columns |-> Null]
           val == _parse_object(body, blank)
           row == IF Central(kind).stamps /\ val["tenant_id"] = Null
                  THEN [val EXCEPT !["tenant_id"] = ctxt.tenant]
                  ELSE val
<1>1. blank \in Rows
    BY DEF Rows
<1>2. val \in Rows
    BY <1>1, BodyTypes, AcceptedKeys, ParsedRow DEF Sound
<1>3. ctxt.tenant \in Values /\ kind \in Kinds
    BY DEF Contexts, Sound
<1>4. CASE row = val
    BY <1>2, <1>4
<1>5. CASE row # val
    <2>1. row = [val EXCEPT !["tenant_id"] = ctxt.tenant]
        BY <1>5
    <2>2. Valid(val)
        OBVIOUS
    <2> HIDE DEF val, row
    <2>3. row \in Rows /\ Valid(row)
        BY <1>2, <1>3, <2>1, <2>2, KindFacts DEF Rows, Valid, Columns
    <2> QED  BY <2>3 DEF val, row
<1> QED  BY <1>4, <1>5

\* A POST that succeeds inserts a sound row, one that fails changes nothing
LEMMA PostRows ==
    ASSUME Sound, NEW c \in Clients, post_all(c)
    PROVE  \/ rows' = rows
           \/ \E i \in Ids, row \in Rows :
                 /\ rows[i] = Null /\ SoundRow(row) /\ rows' = [rows EXCEPT ![i] = row]
                 /\ ~DuplicateKey(rows')
<1> SUFFICES ASSUME rows' # rows
             PROVE  \E i \in Ids, row \in Rows :
                      /\ rows[i] = Null /\ SoundRow(row) /\ rows' = [rows EXCEPT ![i] = row]
                      /\ ~DuplicateKey(rows')
    OBVIOUS
<1> DEFINE blank == [k \in Columns |-> Null]
           val(body) == _parse_object(body, blank)
           row(ctxt, body) == IF Central(kind).stamps /\ val(body)["tenant_id"] = Null
                              THEN [val(body) EXCEPT !["tenant_id"] = ctxt.tenant]
                              ELSE val(body)
<1>1. PICK ctxt \in Contexts, i \in Ids, body \in PostBodies :
        /\ rows[i] = Null /\ ~Refused(body, blank) /\ Valid(val(body))
        /\ rows' = [rows EXCEPT ![i] = row(ctxt, body)]
        /\ ~DuplicateKey(rows') /\ ~BreaksNotNull(rows')
    BY DEF post_all, _create
<1>5. row(ctxt, body) \in Rows /\ Valid(row(ctxt, body))
    BY <1>1, StampedRow
<1> HIDE DEF row
<1>6. \A u \in Table(kind).notnull : row(ctxt, body)[u] # Null
    <2>1. rows'[i] = row(ctxt, body) /\ row(ctxt, body) # Null
        BY <1>1, <1>5 DEF Sound, RowsSound, Rows, Columns
    <2> QED  BY <1>1, <2>1 DEF BreaksNotNull
<1> QED  BY <1>1, <1>5, <1>6 DEF SoundRow

\* The copy that the first half of a PATCH leaves behind
LEMMA PatchCall ==
    ASSUME Sound, NEW c \in Clients, patch_one(c)
    PROVE  \/ call' = call
           \/ \E m : /\ call' = [call EXCEPT ![c] = m] /\ SoundCall(m) /\ rows[m.id] # Null
                     /\ \A k \in Adapter(kind).immutable \cap m.changed : rows[m.id][k] = Null
<1> SUFFICES ASSUME call' # call
             PROVE  \E m : /\ call' = [call EXCEPT ![c] = m] /\ SoundCall(m) /\ rows[m.id] # Null
                           /\ \A k \in Adapter(kind).immutable \cap m.changed : rows[m.id][k] = Null
    OBVIOUS
<1>1. PICK ctxt \in Contexts, i \in Ids, body \in PatchBodies :
        /\ rows[i] # Null /\ ~Refused(body, rows[i]) /\ Valid(_parse_object(body, rows[i]))
        /\ call' = [call EXCEPT ![c] =
               [ctxt |-> ctxt, id |-> i, body |-> body, val |-> _parse_object(body, rows[i]),
                changed |-> obj_what_changed(rows[i], _parse_object(body, rows[i]))]]
    BY DEF patch_one, Found
<1> DEFINE new == _parse_object(body, rows[i])
           m == [ctxt |-> ctxt, id |-> i, body |-> body, val |-> new,
                 changed |-> obj_what_changed(rows[i], new)]
<1>2. kind \in Kinds /\ rows[i] \in Rows
    BY <1>1 DEF Sound, RowsSound
<1>3. DOMAIN body \subseteq Columns
    BY <1>1, AcceptedKeys
<1>4. /\ new \in Rows /\ body \in [DOMAIN body -> Values \cup {Null}]
      /\ \A k \in DOMAIN body : new[k] = body[k]
    BY <1>1, <1>2, <1>3, BodyTypes, ParsedRow
<1>5. \A k \in obj_what_changed(rows[i], new) : k \in DOMAIN body /\ new[k] # rows[i][k]
    BY DEF obj_what_changed, _parse_object
<1>6. SoundCall(m)
    BY <1>1, <1>3, <1>4, <1>5 DEF SoundCall
<1>7. \A k \in Adapter(kind).immutable \cap m.changed : rows[i][k] = Null
    BY <1>1, <1>4, <1>5 DEF Refused
<1>8. call' = [call EXCEPT ![c] = m] /\ m.id = i
    BY <1>1
<1> HIDE DEF m
<1> QED  BY <1>1, <1>6, <1>7, <1>8

\* The second half of a PATCH writes the changed columns of a row in the
\* caller's reach, or nothing
LEMMA UpdateRows ==
    ASSUME Sound, NEW c \in Clients, update(c)
    PROVE  \/ rows' = rows
           \/ /\ Matches(call[c]) /\ rows' = _update(call[c])
              /\ ~DuplicateKey(rows') /\ ~BreaksNotNull(rows')
BY DEF update

\* A row stays sound when the changed columns are written
LEMMA UpdatedRow ==
    ASSUME Sound, NEW c \in Clients, call[c] # Null, Matches(call[c])
    PROVE  LET m == call[c]
               row == [k \in Columns |-> IF k \in m.changed THEN m.val[k] ELSE rows[m.id][k]]
           IN  /\ m.id \in Ids /\ row \in Rows /\ Valid(row)
               /\ _update(m) = [rows EXCEPT ![m.id] = row]
<1> DEFINE m == call[c]
           row == [k \in Columns |-> IF k \in m.changed THEN m.val[k] ELSE rows[m.id][k]]
<1>1. SoundCall(m) /\ m.id \in Ids /\ SoundRow(rows[m.id])
    BY DEF Sound, CallsSound, SoundCall, RowsSound, Matches
<1>2. _update(m) = [rows EXCEPT ![m.id] = row]
    BY <1>1 DEF _update, Sound, RowsSound
<1>3. kind \in Kinds
    BY DEF Sound
<1> HIDE DEF m
<1>4. row \in Rows
    BY <1>1 DEF SoundCall, SoundRow, Rows
<1>5. Valid(row)
    BY <1>1, <1>3, KindFacts DEF SoundCall, SoundRow, Valid, Columns
<1> QED  BY <1>1, <1>2, <1>4, <1>5 DEF m

\* Every step keeps the invariant
LEMMA SoundStep == Sound /\ [Next]_vars => Sound'
<1> SUFFICES ASSUME Sound, [Next]_vars PROVE Sound'
    OBVIOUS
<1>1. /\ kind' = kind /\ kind' \in Kinds /\ DOMAIN answer' = Clients
      /\ requests' \in 0 .. MaxRequests
    <2>1. DOMAIN answer = Clients /\ requests \in 0 .. MaxRequests /\ kind \in Kinds
        BY DEF Sound
    <2>2. ASSUME NEW c \in Clients, post_all(c) PROVE kind' = kind /\ Begin(c) /\ \E a : Told(c, a)
        BY <2>2 DEF post_all, Fail, Answer
    <2>3. ASSUME NEW c \in Clients, delete_one(c) PROVE kind' = kind /\ Begin(c) /\ \E a : Told(c, a)
        BY <2>3 DEF delete_one, Fail, Answer
    <2>4. ASSUME NEW c \in Clients, patch_one(c) PROVE kind' = kind /\ Begin(c) /\ \E a : Told(c, a)
        BY <2>4 DEF patch_one, Fail, Answer
    <2>5. ASSUME NEW c \in Clients, update(c) \/ MessagingTimeout(c)
          PROVE  kind' = kind /\ requests' = requests /\ \E a : Told(c, a)
        BY <2>5 DEF update, MessagingTimeout, Fail, Answer
    <2>6. CASE UNCHANGED vars
        BY <2>1, <2>6 DEF vars
    <2> QED  BY <2>1, <2>2, <2>3, <2>4, <2>5, <2>6 DEF Next, Begin, Told
<1>2. \A x : SoundRow(x)' = SoundRow(x) /\ SoundCall(x)' = SoundCall(x)
    BY <1>1, SameKind
<1>3. Rows' = Rows
    BY <1>1, SameKind
<1>4. ASSUME rows' = rows PROVE RowsSound'
    BY <1>2, <1>3, <1>4 DEF Sound, RowsSound
<1>5. ASSUME NEW i \in Ids, NEW row \in Rows \cup {Null}, row # Null => SoundRow(row),
             rows' = [rows EXCEPT ![i] = row]
      PROVE  RowsSound'
    <2>1. \A j \in Ids : rows'[j] = IF j = i THEN row ELSE rows[j]
        BY <1>5 DEF Sound, RowsSound
    <2> QED  BY <1>2, <1>3, <1>5, <2>1 DEF Sound, RowsSound
<1>6. ASSUME call' = call PROVE CallsSound'
    BY <1>2, <1>6 DEF Sound, CallsSound
<1>7. ASSUME NEW c \in Clients, NEW m, m = Null \/ SoundCall(m), call' = [call EXCEPT ![c] = m]
      PROVE  CallsSound'
    <2>1. DOMAIN call' = Clients /\ \A d \in Clients : call'[d] = IF d = c THEN m ELSE call[d]
        BY <1>7 DEF Sound, CallsSound
    <2> QED  BY <1>2, <1>7, <2>1 DEF Sound, CallsSound
<1>8. ASSUME NEW c \in Clients, post_all(c) PROVE RowsSound' /\ CallsSound'
    BY <1>4, <1>5, <1>6, <1>8, PostRows DEF post_all
<1>9. ASSUME NEW c \in Clients, patch_one(c) PROVE RowsSound' /\ CallsSound'
    <2>1. RowsSound'
        BY <1>4, <1>9 DEF patch_one
    <2> QED  BY <1>6, <1>7, <1>9, <2>1, PatchCall
<1>10. ASSUME NEW c \in Clients, update(c) PROVE RowsSound' /\ CallsSound'
    <2>1. CallsSound'
        BY <1>7, <1>10 DEF update
    <2>2. CASE rows' = rows
        BY <1>4, <2>1, <2>2
    <2>3. CASE rows' # rows
        <3>1. /\ Matches(call[c]) /\ rows' = _update(call[c]) /\ ~BreaksNotNull(rows')
              /\ call[c] # Null
            BY <1>10, <2>3, UpdateRows DEF update
        <3> DEFINE row == [k \in Columns |-> IF k \in call[c].changed THEN call[c].val[k]
                                             ELSE rows[call[c].id][k]]
        <3>2. call[c].id \in Ids /\ row \in Rows /\ Valid(row) /\ rows' = [rows EXCEPT ![call[c].id] = row]
            BY <3>1, UpdatedRow
        <3> HIDE DEF row
        <3>3. rows'[call[c].id] = row /\ row # Null
            BY <1>1, <3>2 DEF Sound, RowsSound, Rows, Columns
        <3>4. \A u \in Table(kind).notnull : row[u] # Null
            BY <3>1, <3>2, <3>3 DEF BreaksNotNull
        <3>5. SoundRow(row)
            BY <3>2, <3>4 DEF SoundRow
        <3> QED  BY <1>5, <2>1, <3>2, <3>5
    <2> QED  BY <2>2, <2>3
<1>11. ASSUME NEW c \in Clients, delete_one(c) PROVE RowsSound' /\ CallsSound'
    <2>1. rows' = rows \/ \E i \in Ids : rows' = [rows EXCEPT ![i] = Null]
        BY <1>11 DEF delete_one, _delete
    <2> QED  BY <1>4, <1>5, <1>6, <1>11, <2>1 DEF delete_one
<1>12. ASSUME UNCHANGED vars \/ \E c \in Clients : MessagingTimeout(c) PROVE RowsSound' /\ CallsSound'
    BY <1>4, <1>6, <1>12 DEF vars, MessagingTimeout
<1>13. RowsSound' /\ CallsSound'
    BY <1>8, <1>9, <1>10, <1>11, <1>12 DEF Next
<1> QED  BY <1>1, <1>13 DEF Sound

\* The invariant holds in every reachable state
LEMMA SoundAlways == Spec => []Sound
BY SoundInit, SoundStep, PTL DEF Spec

\* Rows and copies have the types of their columns and satisfy their schemas
THEOREM TypeCorrect == Spec => []TypeOK
<1>1. Sound => TypeOK
    BY DEF Sound, RowsSound, CallsSound, SoundRow, SoundCall, TypeOK
<1> QED  BY <1>1, SoundAlways, PTL

-----------------------------------------------------------------------------
(* Statuses                                                                *)

\* The exceptions of the handlers, and the statuses of success, are not 500
LEMMA Statuses ==
    /\ \A k \in Kinds : /\ ErrorCode(Storage(k).dup) = 409 /\ ErrorCode(Storage(k).missing) = 404
                        /\ Controller(k).post_all # 500 /\ Controller(k).patch_one # 500
                        /\ Controller(k).delete_one # 500
    /\ ErrorCode("InvalidObject") = 400 /\ ErrorCode("InvalidOperation") = 400
    /\ ErrorCode("Forbidden") = 403 /\ ErrorCode("MessagingTimeout") = 504
<1> USE DEF ErrorCode, BadRequests, InvalidNames, Forbiddens, NotFounds, Duplicates
<1>1. \A e \in {"InvalidObject", "InvalidOperation"} : ErrorCode(e) = 400
    OBVIOUS
<1>2. ErrorCode("Forbidden") = 403
    OBVIOUS
<1>3. ErrorCode("MessagingTimeout") = 504
    OBVIOUS
<1>4. \A e \in {"TldNotFound", "BlacklistNotFound", "TsigKeyNotFound", "PoolNotFound",
                "ZoneTransferRequestNotFound"} : ErrorCode(e) = 404
    OBVIOUS
<1>5. \A e \in {"DuplicateTld", "DuplicateBlacklist", "DuplicateTsigKey", "DuplicatePool",
                "DuplicateZoneTransferRequest"} : ErrorCode(e) = 409
    OBVIOUS
<1>6. \A k \in Kinds :
        /\ Storage(k).dup \in {"DuplicateTld", "DuplicateBlacklist", "DuplicateTsigKey", "DuplicatePool",
                               "DuplicateZoneTransferRequest"}
        /\ Storage(k).missing \in {"TldNotFound", "BlacklistNotFound", "TsigKeyNotFound", "PoolNotFound",
                                   "ZoneTransferRequestNotFound"}
    BY DEF Kinds, Storage, TldStorage, BlacklistStorage, TsigKeyStorage, PoolStorage,
           ZoneTransferRequestStorage
<1>7. \A k \in Kinds : /\ Controller(k).post_all # 500 /\ Controller(k).patch_one # 500
                       /\ Controller(k).delete_one # 500
    BY DEF Kinds, Controller, TldsController, BlacklistsController, TsigKeysController,
           PoolsController, TransferRequestsController
<1> HIDE DEF ErrorCode
<1> QED  BY <1>1, <1>2, <1>3, <1>4, <1>5, <1>6, <1>7

\* A table of valid rows breaks no NOT NULL column, but for transfer requests
LEMMA NotNullKept ==
    ASSUME Sound, kind # "transfer_request", NEW i \in Ids, NEW row \in Rows, Valid(row)
    PROVE  ~BreaksNotNull([rows EXCEPT ![i] = row])
<1> DEFINE table == [rows EXCEPT ![i] = row]
<1>1. kind \in Kinds
    BY DEF Sound
<1>2. Table(kind).notnull \subseteq Object(kind).required
    BY <1>1, KindFacts
<1>3. \A u \in Table(kind).notnull : row[u] # Null
    BY <1>2 DEF Valid
<1>4. \A j \in Ids : table[j] = IF j = i THEN row ELSE rows[j]
    BY DEF Sound, RowsSound
<1>5. \A j \in Ids : table[j] # Null => \A u \in Table(kind).notnull : table[j][u] # Null
    BY <1>3, <1>4 DEF Sound, RowsSound, SoundRow
<1> QED  BY <1>5 DEF BreaksNotNull

\* An answer the server need not be blamed for, or one of the two exceptions
Fine(a) ==
    \/ a = Null \/ a.code # 500 \/ a.by = "TypeError"
    \/ a.by = "DBError" /\ kind = "transfer_request"

\* A body that passes the adapter and the schema breaks no column: what ends in a
\* 500 is json-patch, and a null description of a transfer request
THEOREM RefusalsBlameTheClient == Spec => []RefusalsAreTheClients
<1>0. [Next]_vars => kind' = kind
    BY DEF Next, vars, post_all, patch_one, update, delete_one, MessagingTimeout
<1> USE DEF Fail, Answer
<1>1. Init => RefusalsAreTheClients
    BY DEF Init, RefusalsAreTheClients, Kinds
<1>2. Sound /\ RefusalsAreTheClients /\ [Next]_vars => RefusalsAreTheClients'
    <2> SUFFICES ASSUME Sound, RefusalsAreTheClients, [Next]_vars
                 PROVE  \A d \in Clients : Fine(answer'[d])
        BY <1>0 DEF RefusalsAreTheClients, Fine
    <2>1. kind \in Kinds
        BY DEF Sound
    <2>2. \A d \in Clients : Fine(answer[d])
        BY DEF RefusalsAreTheClients, Fine
    <2>3. ASSUME NEW c \in Clients, NEW a, Told(c, a), Fine(a)
          PROVE  \A d \in Clients : Fine(answer'[d])
        BY <2>2, <2>3 DEF Told, Sound
    <2>4. ASSUME NEW e, NEW by, e # 500
          PROVE  Fine([code |-> e, by |-> by])
        BY <2>4 DEF Fine
    <2>5. ASSUME NEW c \in Clients, post_all(c) PROVE \A d \in Clients : Fine(answer'[d])
        <3> DEFINE blank == [k \in Columns |-> Null]
                   val(body) == _parse_object(body, blank)
                   row(ctxt, body) == IF Central(kind).stamps /\ val(body)["tenant_id"] = Null
                                      THEN [val(body) EXCEPT !["tenant_id"] = ctxt.tenant]
                                      ELSE val(body)
        <3>0. kind # "transfer_request"
            BY <2>5 DEF post_all
        <3>1. PICK ctxt \in Contexts, i \in Ids, body \in PostBodies :
                \/ Fail(c, "InvalidObject") \/ Fail(c, "Forbidden")
                \/ Fail(c, Storage(kind).dup) \/ Answer(c, Controller(kind).post_all)
                \/ /\ ~Refused(body, blank) /\ Valid(val(body))
                   /\ BreaksNotNull([rows EXCEPT ![i] = row(ctxt, body)])
            BY <2>5 DEF post_all, _create
        <3>2. CASE /\ ~Refused(body, blank) /\ Valid(val(body))
                   /\ BreaksNotNull([rows EXCEPT ![i] = row(ctxt, body)])
            <4>1. row(ctxt, body) \in Rows /\ Valid(row(ctxt, body))
                BY <3>2, StampedRow
            <4> HIDE DEF row
            <4> QED  BY <3>0, <3>2, <4>1, NotNullKept
        <3> QED  BY <2>1, <2>3, <2>4, <3>1, <3>2, Statuses
    <2>6. ASSUME NEW c \in Clients, patch_one(c) PROVE \A d \in Clients : Fine(answer'[d])
        <3>1. \/ Fail(c, "InvalidObject") \/ Fail(c, "Forbidden") \/ Fail(c, Storage(kind).missing)
              \/ Fail(c, "TypeError") \/ Told(c, Null)
            BY <2>6 DEF patch_one
        <3>2. Fine([code |-> ErrorCode("TypeError"), by |-> "TypeError"]) /\ Fine(Null)
            BY DEF Fine
        <3> QED  BY <2>1, <2>3, <2>4, <3>1, <3>2, Statuses
    <2>7. ASSUME NEW c \in Clients, update(c) PROVE \A d \in Clients : Fine(answer'[d])
        <3>1. \/ Fail(c, "InvalidOperation") \/ Fail(c, "Forbidden") \/ Fail(c, Storage(kind).missing)
              \/ Fail(c, Storage(kind).dup) \/ Answer(c, Controller(kind).patch_one)
              \/ /\ call[c] # Null /\ Matches(call[c]) /\ BreaksNotNull(_update(call[c]))
                 /\ Fail(c, "DBError")
            BY <2>7 DEF update
        <3>2. CASE /\ call[c] # Null /\ Matches(call[c]) /\ BreaksNotNull(_update(call[c]))
                   /\ Fail(c, "DBError")
            <4> DEFINE m == call[c]
                       row == [k \in Columns |-> IF k \in m.changed THEN m.val[k] ELSE rows[m.id][k]]
            <4>1. /\ m.id \in Ids /\ row \in Rows /\ Valid(row)
                  /\ _update(m) = [rows EXCEPT ![m.id] = row]
                BY <3>2, UpdatedRow
            <4> HIDE DEF row
            <4>2. kind = "transfer_request"
                BY <3>2, <4>1, NotNullKept
            <4>3. Fine([code |-> ErrorCode("DBError"), by |-> "DBError"])
                BY <4>2 DEF Fine
            <4> QED  BY <2>3, <3>2, <4>3
        <3> QED  BY <2>1, <2>3, <2>4, <3>1, <3>2, Statuses
    <2>8. ASSUME NEW c \in Clients, delete_one(c) \/ MessagingTimeout(c)
          PROVE  \A d \in Clients : Fine(answer'[d])
        <3>1. \/ Fail(c, "MessagingTimeout") \/ Fail(c, "Forbidden") \/ Fail(c, Storage(kind).missing)
              \/ Answer(c, Controller(kind).delete_one)
            BY <2>8 DEF delete_one, MessagingTimeout
        <3> QED  BY <2>1, <2>3, <2>4, <3>1, Statuses
    <2>9. CASE UNCHANGED vars
        BY <2>2, <2>9 DEF vars
    <2> QED  BY <2>5, <2>6, <2>7, <2>8, <2>9 DEF Next
<1> QED  BY <1>1, <1>2, SoundAlways, PTL DEF Spec

-----------------------------------------------------------------------------
(* The refinement                                                          *)

\* A table without duplicate keys is one whose unique columns are unique
LEMMA UniqueTable ==
    ASSUME NEW table, ~DuplicateKey(table)
    PROVE  Store!IsUnique(table)
BY DEF DuplicateKey, Store!IsUnique, Shape

\* The change a PATCH asks for
Change(m) ==
    [id |-> m.id,
     body |-> [k \in DOMAIN m.body \ (Adapter(kind).immutable \ m.changed) |-> m.body[k]],
     caller |-> [tenant |-> m.ctxt.tenant, everyone |-> m.ctxt.all_tenants]]

\* What a PATCH asks for is a change
LEMMA AskedChange ==
    ASSUME kind \in Kinds, NEW m, SoundCall(m)
    PROVE  Change(m) # Null
<1> DEFINE D == DOMAIN m.body \ (Adapter(kind).immutable \ m.changed)
           body == [k \in D |-> m.body[k]]
           caller == [tenant |-> m.ctxt.tenant, everyone |-> m.ctxt.all_tenants]
<1>1. D \subseteq ColumnsOf(kind) /\ body \in [D -> Values \cup {Null}]
    BY DEF SoundCall, Columns
<1>2. caller \in [tenant : Tenants, everyone : BOOLEAN] /\ m.id \in Ids
    BY DEF SoundCall, Contexts
<1>3. Change(m) = [id |-> m.id, body |-> body, caller |-> caller]
    BY DEF Change
<1> HIDE DEF D, body, caller
<1>4. body \in UNION {[E -> Values \cup {Null}] : E \in SUBSET ColumnsOf(kind)}
    BY <1>1
<1> QED  BY <1>2, <1>3, <1>4

\* A PATCH that is over, or a step that leaves the requests alone
LEMMA AskedSteps ==
    ASSUME Sound, kind' = kind
    PROVE  /\ call' = call => Asked' = Asked
           /\ \A m : \A c \in Clients : call' = [call EXCEPT ![c] = m] =>
                \A d \in Clients \ {c} : Asked'[d] = Asked[d]
           /\ \A c \in Clients : call' = [call EXCEPT ![c] = Null] =>
                Asked' = [Asked EXCEPT ![c] = Null]
<1>1. call' = call => Asked' = Asked
    BY DEF Asked
<1>2. DOMAIN call = Clients
    BY DEF Sound, CallsSound
<1>3. ASSUME NEW c \in Clients, NEW m, call' = [call EXCEPT ![c] = m]
      PROVE  \A d \in Clients \ {c} : Asked'[d] = Asked[d]
    BY <1>2, <1>3 DEF Asked
<1>4. ASSUME NEW c \in Clients, call' = [call EXCEPT ![c] = Null]
      PROVE  Asked' = [Asked EXCEPT ![c] = Null]
    <2>1. Asked'[c] = Null /\ \A d \in Clients \ {c} : Asked'[d] = Asked[d]
        BY <1>2, <1>3, <1>4 DEF Asked
    <2>2. Asked = [d \in Clients |-> Asked[d]] /\ Asked' = [d \in Clients |-> Asked'[d]]
        BY DEF Asked
    <2> QED  BY <2>1, <2>2
<1> QED  BY <1>1, <1>3, <1>4

\* The first half of a PATCH asks for a change, or does nothing the store sees
LEMMA PatchAsks ==
    ASSUME Sound, Sound', NEW c \in Clients, patch_one(c)
    PROVE  Store!Ask(c) \/ UNCHANGED <<Shape, rows, Asked>>
<1>0. kind' = kind /\ rows' = rows /\ call[c] = Null
    BY DEF patch_one, Begin
<1>1. Shape' = Shape
    BY <1>0 DEF Shape
<1>2. CASE call' = call
    BY <1>0, <1>1, <1>2, AskedSteps
<1>3. CASE call' # call
    <2>1. PICK m : /\ call' = [call EXCEPT ![c] = m] /\ SoundCall(m) /\ rows[m.id] # Null
                   /\ \A k \in Adapter(kind).immutable \cap m.changed : rows[m.id][k] = Null
        BY <1>3, PatchCall
    <2>2. call'[c] = m /\ m # Null
        BY <1>0, <1>3, <2>1 DEF Sound, CallsSound
    <2>3. Asked[c] = Null /\ Asked'[c] # Null
        <3>1. Change(m) # Null
            BY <2>1, AskedChange DEF Sound
        <3> QED  BY <1>0, <2>2, <3>1 DEF Asked, Change
    <2>4. /\ Asked'[c].id = m.id
          /\ DOMAIN Asked'[c].body = DOMAIN m.body \ (Adapter(kind).immutable \ m.changed)
        BY <1>0, <2>2 DEF Asked
    <2>5. \A k \in Shape.once \cap DOMAIN Asked'[c].body : rows[Asked'[c].id][k] = Null
        BY <2>1, <2>4 DEF Shape
    <2>6. \A d \in Clients \ {c} : Asked'[d] = Asked[d]
        BY <1>0, <2>1, AskedSteps
    <2> QED  BY <1>0, <1>1, <2>3, <2>5, <2>6 DEF Store!Ask
<1> QED  BY <1>2, <1>3

\* The second half of a PATCH applies the change in one step, or drops it
LEMMA UpdateApplies ==
    ASSUME Sound, NEW c \in Clients, update(c)
    PROVE  Store!Update(c) \/ Store!Drop(c)
<1>0. kind' = kind /\ call[c] # Null /\ call' = [call EXCEPT ![c] = Null]
    BY DEF update
<1>1. Shape' = Shape /\ Asked[c] # Null /\ Asked' = [Asked EXCEPT ![c] = Null]
    <2>1. Change(call[c]) # Null
        BY <1>0, AskedChange DEF Sound, CallsSound
    <2> QED  BY <1>0, <2>1, AskedSteps DEF Shape, Asked, Change
<1>2. CASE rows' = rows
    BY <1>1, <1>2 DEF Store!Drop
<1>3. CASE rows' # rows
    <2> DEFINE m == call[c]
               a == Asked[c]
               old == rows[m.id]
    <2>1. /\ Matches(m) /\ rows' = _update(m) /\ ~DuplicateKey(rows')
        BY <1>3, UpdateRows
    <2>2. SoundCall(m) /\ old # Null /\ old \in Rows
        BY <1>0, <2>1 DEF Sound, CallsSound, RowsSound, SoundCall, Matches
    <2>3. /\ a.id = m.id /\ a.caller.tenant = m.ctxt.tenant /\ a.caller.everyone = m.ctxt.all_tenants
          /\ DOMAIN a.body = DOMAIN m.body \ (Adapter(kind).immutable \ m.changed)
          /\ \A k \in DOMAIN a.body : a.body[k] = m.body[k]
        BY <1>0 DEF Asked
    <2>4. Store!Visible(old, a.caller)
        BY <2>1, <2>2, <2>3 DEF Store!Visible, Shape, Matches, _apply_tenant_criteria
    <2>5. m.changed \in SUBSET DOMAIN a.body
        BY <2>2, <2>3 DEF SoundCall
    <2>6. rows' = [rows EXCEPT ![a.id] =
                      [k \in DOMAIN old |-> IF k \in m.changed THEN a.body[k] ELSE old[k]]]
        <3>1. DOMAIN old = Columns
            BY <2>2 DEF Rows
        <3>2. [k \in DOMAIN old |-> IF k \in m.changed THEN a.body[k] ELSE old[k]]
                = [k \in Columns |-> IF k \in m.changed THEN m.val[k] ELSE rows[m.id][k]]
            BY <2>2, <2>3, <2>5, <3>1 DEF SoundCall
        <3> QED  BY <1>0, <2>1, <2>3, <3>2, UpdatedRow
    <2>7. Store!IsUnique(rows')
        BY <2>1, UniqueTable
    <2> QED  BY <1>1, <2>2, <2>3, <2>4, <2>5, <2>6, <2>7 DEF Store!Update
<1> QED  BY <1>2, <1>3

\* A POST creates a row with unique values, or does nothing the store sees
LEMMA PostCreates ==
    ASSUME Sound, NEW c \in Clients, post_all(c)
    PROVE  (\E i \in Ids : Store!Create(i)) \/ UNCHANGED <<Shape, rows, Asked>>
<1>1. Shape' = Shape /\ Asked' = Asked
    BY AskedSteps DEF post_all, Shape
<1>2. CASE rows' = rows
    BY <1>1, <1>2
<1>3. CASE rows' # rows
    <2>1. PICK i \in Ids, row \in Rows :
            /\ rows[i] = Null /\ rows' = [rows EXCEPT ![i] = row] /\ ~DuplicateKey(rows')
        BY <1>3, PostRows
    <2>2. rows'[i] # Null /\ \A j \in Ids \ {i} : rows'[j] = rows[j]
        BY <2>1 DEF Sound, RowsSound, Rows, Columns
    <2>3. Store!IsUnique(rows')
        BY <2>1, UniqueTable
    <2> QED  BY <1>1, <2>1, <2>2, <2>3 DEF Store!Create
<1> QED  BY <1>2, <1>3

\* A DELETE removes a row, or does nothing the store sees
LEMMA DeleteDeletes ==
    ASSUME Sound, NEW c \in Clients, delete_one(c)
    PROVE  (\E i \in Ids : Store!Delete(i)) \/ UNCHANGED <<Shape, rows, Asked>>
<1>1. Shape' = Shape /\ Asked' = Asked
    BY AskedSteps DEF delete_one, Shape
<1>2. rows' = rows \/ \E i \in Ids : rows[i] # Null /\ rows' = [rows EXCEPT ![i] = Null]
    BY DEF delete_one, _delete
<1> QED  BY <1>1, <1>2 DEF Store!Delete

\* Overlapping requests in the API server, the RPC layer and central change rows
\* as if every change were applied in one step: the detailed specification
\* implements ResourceStore
THEOREM StoreImplemented == Spec => StoreRefined
<1>1. Init => Store!StoreInit
    <2> SUFFICES ASSUME Init PROVE Store!StoreInit
        OBVIOUS
    <2>1. Asked = [c \in Clients |-> Null]
        BY DEF Init, Asked
    <2>2. \E first \in Ids : \A i \in Ids : i # first => rows[i] = Null
        BY DEF Init
    <2>3. Store!IsUnique(rows)
        BY <2>2 DEF Store!IsUnique
    <2> QED  BY <2>1, <2>3 DEF Store!StoreInit
<1>2. Sound /\ Sound' /\ [Next]_vars => [Store!StoreNext]_(Store!storeVars)
    <2> SUFFICES ASSUME Sound, Sound', [Next]_vars
                 PROVE  Store!StoreNext \/ UNCHANGED <<Shape, rows, Asked>>
        BY DEF Store!storeVars
    <2>1. CASE UNCHANGED vars
        BY <2>1, AskedSteps DEF vars, Shape
    <2>2. ASSUME NEW c \in Clients, MessagingTimeout(c) PROVE UNCHANGED <<Shape, rows, Asked>>
        BY <2>2, AskedSteps DEF MessagingTimeout, Shape
    <2> QED  BY <2>1, <2>2, PatchAsks, UpdateApplies, PostCreates, DeleteDeletes
             DEF Next, Store!StoreNext
<1> QED  BY <1>1, <1>2, SoundAlways, PTL DEF Spec, StoreRefined, Store!StoreSpec

=============================================================================
