------------------------------ MODULE Resources -----------------------------
(***************************************************************************)
(* The resources that are rows of the database, from the HTTP request to   *)
(* the SQL statement: controller, adapter, object, RPC, central, storage.  *)
(*                                                                         *)
(* A PATCH is two calls of central.  The first fetches a copy; the API     *)
(* server merges the body into the copy, and the second sends it back with *)
(* the set of fields the merge changed.  In between other requests run.    *)
(* Only the changed fields are written; nothing compares the version       *)
(* column.  POST and DELETE reach the database in one transaction each.    *)
(*                                                                         *)
(* One behaviour is about one kind of resource; Catalogue.tla says what    *)
(* distinguishes the kinds.  A pool's name servers and attributes are in   *)
(* Pools.tla, the creation of a zone transfer request in Tenancy.tla.      *)
(***************************************************************************)
EXTENDS Catalogue, ApiErrors, FiniteSets

CONSTANTS Clients,    \* requests that can be in flight at a time
          Ids,        \* row identifiers
          Tenants,
          Values,     \* values of a column that pass validation
          Bad,        \* a value validation refuses
          Null,
          MaxRequests \* bound: requests of a behaviour

\* The columns of the table of a kind of resource.
ColumnsOf(k) ==
    Adapter(k).writable \cup Adapter(k).immutable
        \cup (IF Table(k).tenanted THEN {"tenant_id"} ELSE {})

\* A tenant id is a value a column can have; Null is no value, no status, no row
\* and no change a client asks for.
ASSUME ResourcesAssumption ==
    /\ Tenants # {} /\ Tenants \subseteq Values /\ MaxRequests \in Nat
    /\ Bad \notin Values /\ Null \notin Values \cup {Bad} \cup Nat
    /\ \A k \in Kinds :
        /\ Null \notin [ColumnsOf(k) -> Values \cup {Null}]
        /\ Null \notin [id : Ids, caller : [tenant : Tenants, everyone : BOOLEAN],
                        body : UNION {[D -> Values \cup {Null}] : D \in SUBSET ColumnsOf(k)}]

VARIABLES kind,       \* the kind of resource
          rows,       \* [Ids -> [Columns -> values] or Null]
          call,       \* [Clients -> the PATCH between its two calls, or Null]
          answer,     \* [Clients -> status and cause of the last answer, or Null]
          requests    \* requests so far

vars == <<kind, rows, call, answer, requests>>

Columns == ColumnsOf(kind)

(***************************************************************************)
(* The context of a request: its tenant, whether it has the admin role,    *)
(* and all_tenants, which the context only grants to the admin role.  Only *)
(* the role matters where rows have no tenant.                             *)
(***************************************************************************)
Contexts ==
    {x \in [tenant : Tenants, admin : BOOLEAN, all_tenants : BOOLEAN] :
        /\ x.all_tenants => x.admin
        /\ ~Table(kind).tenanted =>
            ~x.all_tenants /\ x.tenant = CHOOSE t \in Tenants : TRUE}

(***************************************************************************)
(* policy.check with the rules of policy.json.                             *)
(***************************************************************************)
Allowed(rule, ctxt, row) ==
    \/ ctxt.admin
    \/ rule # "admin" /\ row # Null /\ row["tenant_id"] = ctxt.tenant
    \/ /\ rule = "admin_or_owner_or_target"
       /\ row # Null
       /\ row["target_tenant_id"] \in {ctxt.tenant, Null}

(***************************************************************************)
(* The WHERE clauses every query gets.                                     *)
(***************************************************************************)
\* Faulty variant: the update and delete queries are not limited to the
\* caller's tenant.
AnyTenant(ctxt, row) == TRUE

_apply_tenant_criteria(ctxt, row) ==
    (Table(kind).tenanted /\ ~ctxt.all_tenants) =>
        row["tenant_id"] \in {ctxt.tenant, Null}

DuplicateKey(table) ==
    \E i, j \in Ids, u \in Table(kind).unique :
        /\ i # j /\ table[i] # Null /\ table[j] # Null
        /\ table[i][u] # Null
        /\ table[i][u] = table[j][u]

\* Faulty variant: the column is declared nullable.
NullsAllowed(table) == FALSE

BreaksNotNull(table) ==
    \E i \in Ids : table[i] # Null /\
        \E u \in Table(kind).notnull : table[i][u] = Null

(***************************************************************************)
(* The adapter: a key that is not a field, a read-only key with another    *)
(* value, or an immutable key that already has another value is refused.   *)
(* "created_at" stands for the read-only keys and "nokey" for the unknown. *)
(***************************************************************************)
Refused(body, val) ==
    \E k \in DOMAIN body :
        \/ k \notin Columns
        \/ /\ k \in Adapter(kind).immutable
           /\ val[k] # Null
           /\ val[k] # body[k]
        \/ /\ k \in Columns \ (Adapter(kind).immutable \cup Adapter(kind).writable)
           /\ val[k] # body[k]

_parse_object(body, val) ==
    [k \in Columns |-> IF k \in DOMAIN body THEN body[k] ELSE val[k]]

\* Faulty variant: the object sends every field it has, not those that changed.
AllFields(val, new) == Columns

\* The fields whose setter saw another value than the one the object had.
obj_what_changed(val, new) == {k \in Columns : new[k] # val[k]}

\* validate(): required fields are there, and every value fits its schema.
Valid(val) ==
    /\ \A k \in Object(kind).required : val[k] # Null
    /\ \A k \in Columns : val[k] # Bad

(***************************************************************************)
(* The bodies of requests: for a POST, the required keys, one of them      *)
(* missing, or one key more; for a PATCH, one or two keys.                 *)
(***************************************************************************)
Keys == Columns \cup {"created_at", "nokey"}

Filled(D, v) == [k \in D |-> v]

PostBodies ==
    LET R == Object(kind).required
    IN {Filled(D, v) : D \in {R \cup {k} : k \in Keys} \cup {R \ {k} : k \in R},
                       v \in Values}

PatchBodies ==
    {Filled(D, v) : D \in {{k, l} : k, l \in Columns}, v \in Values \cup {Null}}
        \cup {Filled({k}, Bad) : k \in Columns}
        \cup {Filled({k}, v) : k \in {"created_at", "nokey"}, v \in Values}

-----------------------------------------------------------------------------
Rows == [Columns -> Values \cup {Null}]

(***************************************************************************)
(* The table starts with one row.  The default pool has no tenant; the     *)
(* target of a transfer request can be left open.                          *)
(***************************************************************************)
Init ==
    /\ kind \in Kinds
    /\ \E first \in Ids, v \in Values, t, target \in Tenants \cup {Null} :
        /\ kind = "transfer_request" => t # Null
        /\ rows = [i \in Ids |-> IF i # first THEN Null ELSE
                     [k \in Columns |-> CASE k = "tenant_id" -> t
                                          [] k = "target_tenant_id" -> target
                                          [] OTHER -> v]]
    /\ call = [c \in Clients |-> Null]
    /\ answer = [c \in Clients |-> Null]
    /\ requests = 0

Begin(c) ==
    /\ call[c] = Null
    /\ requests < MaxRequests
    /\ requests' = requests + 1

Told(c, a) == answer' = [answer EXCEPT ![c] = a]

Answer(c, code) == Told(c, [code |-> code, by |-> "controller"])

Fail(c, e) == Told(c, [code |-> ErrorCode(e), by |-> e])

(***************************************************************************)
(* POST: parse into a new object, validate, create_X of central, _create.  *)
(***************************************************************************)
_create(table, i, row) == [table EXCEPT ![i] = row]

post_all(c) ==
    /\ kind # "transfer_request"
    /\ "create" \in Rpc(kind)
    /\ Begin(c)
    /\ \E ctxt \in Contexts, i \in {j \in Ids : rows[j] = Null}, body \in PostBodies :
        LET blank == [k \in Columns |-> Null]
            val == _parse_object(body, blank)
            row == IF Central(kind).stamps /\ val["tenant_id"] = Null
                   THEN [val EXCEPT !["tenant_id"] = ctxt.tenant]
                   ELSE val
            table == _create(rows, i, row)
        IN \/ /\ Refused(body, blank) \/ ~Valid(val)
              /\ Fail(c, "InvalidObject")
              /\ UNCHANGED rows
           \/ /\ ~Refused(body, blank) /\ Valid(val)
              /\ ~Allowed(Central(kind).write, ctxt, Null)
              /\ Fail(c, "Forbidden")
              /\ UNCHANGED rows
           \/ /\ ~Refused(body, blank) /\ Valid(val)
              /\ Allowed(Central(kind).write, ctxt, Null)
              /\ IF DuplicateKey(table) \/ BreaksNotNull(table)
                 THEN /\ Fail(c, IF DuplicateKey(table) THEN Storage(kind).dup
                                 ELSE "DBError")
                      /\ UNCHANGED rows
                 ELSE Answer(c, Controller(kind).post_all) /\ rows' = table
    /\ UNCHANGED <<kind, call>>

(***************************************************************************)
(* PATCH, first half: get_X of central, the adapter and validate().        *)
(* get_zone_transfer_request reads with all_tenants and leaves the rest to *)
(* the policy.  Every controller declares json-patch+json and then raises  *)
(* NotImplemented(...) for it: a constant that cannot be called, so a      *)
(* TypeError.                                                              *)
(***************************************************************************)
Found(ctxt, i) ==
    /\ rows[i] # Null
    /\ kind # "transfer_request" => _apply_tenant_criteria(ctxt, rows[i])

Readable(ctxt, i) ==
    Allowed(Central(kind).read, ctxt, IF Found(ctxt, i) THEN rows[i] ELSE Null)

patch_one(c) ==
    /\ "get" \in Rpc(kind)
    /\ Begin(c)
    /\ \/ Fail(c, "TypeError") /\ UNCHANGED call
       \/ \E ctxt \in Contexts, i \in Ids, body \in PatchBodies :
           \/ /\ kind # "transfer_request" /\ ~Readable(ctxt, i)
              /\ Fail(c, "Forbidden")
              /\ UNCHANGED call
           \/ /\ kind = "transfer_request" \/ Readable(ctxt, i)
              /\ ~Found(ctxt, i)
              /\ Fail(c, Storage(kind).missing)
              /\ UNCHANGED call
           \/ /\ kind = "transfer_request" /\ Found(ctxt, i) /\ ~Readable(ctxt, i)
              /\ Fail(c, "Forbidden")
              /\ UNCHANGED call
           \/ /\ Found(ctxt, i) /\ Readable(ctxt, i)
              /\ LET val == rows[i]
                     new == _parse_object(body, val)
                 IN IF Refused(body, val) \/ ~Valid(new)
                    THEN Fail(c, "InvalidObject") /\ UNCHANGED call
                    ELSE /\ call' = [call EXCEPT ![c] =
                               [ctxt |-> ctxt, id |-> i, body |-> body, val |-> new,
                                changed |-> obj_what_changed(val, new)]]
                         /\ Told(c, Null)
    /\ UNCHANGED <<kind, rows>>

(***************************************************************************)
(* PATCH, second half: update_X of central, whose policy check looks at    *)
(* the copy, and _update, which looks at the row.  PatchRefused holds the  *)
(* refusals before the statement.                                          *)
(***************************************************************************)
PatchRefused(m) ==
    \/ kind = "transfer_request" /\ "zone_id" \in m.changed
    \/ ~Allowed(Central(kind).write, m.ctxt, m.val)

Matches(m) ==
    /\ rows[m.id] # Null
    /\ _apply_tenant_criteria(m.ctxt, rows[m.id])

_update(m) ==
    [rows EXCEPT ![m.id] =
        [k \in Columns |-> IF k \in m.changed THEN m.val[k] ELSE @[k]]]

update(c) ==
    /\ call[c] # Null
    /\ "update" \in Rpc(kind)
    /\ LET m == call[c]
       IN \/ /\ PatchRefused(m)
             /\ Fail(c, IF "zone_id" \in m.changed THEN "InvalidOperation"
                        ELSE "Forbidden")
             /\ UNCHANGED rows
          \/ /\ ~PatchRefused(m) /\ ~Matches(m)
             /\ Fail(c, Storage(kind).missing)
             /\ UNCHANGED rows
          \/ /\ ~PatchRefused(m) /\ Matches(m)
             /\ \/ /\ DuplicateKey(_update(m))
                   /\ Fail(c, Storage(kind).dup)
                   /\ UNCHANGED rows
                \/ /\ ~DuplicateKey(_update(m)) /\ BreaksNotNull(_update(m))
                   /\ Fail(c, "DBError")
                   /\ UNCHANGED rows
                \/ /\ ~DuplicateKey(_update(m)) /\ ~BreaksNotNull(_update(m))
                   /\ Answer(c, Controller(kind).patch_one)
                   /\ rows' = _update(m)
    /\ call' = [call EXCEPT ![c] = Null]
    /\ UNCHANGED <<kind, requests>>

(***************************************************************************)
(* DELETE: one call and one transaction.  A transfer request is looked up  *)
(* by owner or target first; the statement matches the owner only.         *)
(***************************************************************************)
Listed(ctxt, row) ==
    \/ _apply_tenant_criteria(ctxt, row)
    \/ kind = "transfer_request" /\ row["target_tenant_id"] = ctxt.tenant

_delete(i) == [rows EXCEPT ![i] = Null]

delete_one(c) ==
    /\ "delete" \in Rpc(kind)
    /\ Begin(c)
    /\ \E ctxt \in Contexts, i \in Ids :
        LET found == rows[i] # Null /\ Listed(ctxt, rows[i])
            may == Allowed(Central(kind).write, ctxt,
                           IF found THEN rows[i] ELSE Null)
        IN \/ /\ IF kind = "transfer_request" THEN found /\ ~may ELSE ~may
              /\ Fail(c, "Forbidden")
              /\ UNCHANGED rows
           \/ /\ IF kind = "transfer_request" THEN ~found ELSE may /\ ~found
              /\ Fail(c, Storage(kind).missing)
              /\ UNCHANGED rows
           \/ /\ found /\ may
              /\ IF _apply_tenant_criteria(ctxt, rows[i])
                 THEN Answer(c, Controller(kind).delete_one) /\ rows' = _delete(i)
                 ELSE Fail(c, Storage(kind).missing) /\ UNCHANGED rows
    /\ UNCHANGED <<kind, call>>

(***************************************************************************)
(* The API server gives up waiting for central: the client is told 504 and *)
(* the call goes on.                                                       *)
(***************************************************************************)
MessagingTimeout(c) ==
    /\ call[c] # Null
    /\ answer[c] = Null
    /\ Fail(c, "MessagingTimeout")
    /\ UNCHANGED <<kind, rows, call, requests>>

Next ==
    \E c \in Clients :
        \/ post_all(c)
        \/ patch_one(c)
        \/ update(c)
        \/ delete_one(c)
        \/ MessagingTimeout(c)

Spec == Init /\ [][Next]_vars

-----------------------------------------------------------------------------
(***************************************************************************)
(* The store a client sees: the same rows, and what each PATCH between its *)
(* two calls asks for.                                                     *)
(***************************************************************************)
Shape ==
    [once |-> Adapter(kind).immutable, unique |-> Table(kind).unique,
     tenanted |-> Table(kind).tenanted]

Asked ==
    [c \in Clients |->
        IF call[c] = Null THEN Null
        ELSE [id |-> call[c].id,
              body |-> [k \in DOMAIN call[c].body \
                              (Adapter(kind).immutable \ call[c].changed)
                            |-> call[c].body[k]],
              caller |-> [tenant |-> call[c].ctxt.tenant,
                          everyone |-> call[c].ctxt.all_tenants]]]

Store == INSTANCE ResourceStore WITH shape <- Shape, asked <- Asked

\* Requests that overlap in the API server, the RPC layer and central change
\* rows as if every change were applied in one step: a PATCH from a stale copy
\* reverts no column another request wrote, changes no column that was set
\* before it began and can be set once, and reaches no row outside its tenant.
StoreRefined == Store!StoreSpec

\* What a client's request can be blamed for is refused with a status below 500:
\* no body that passes the adapter and the schema breaks a column of the table.
\* Two requests end in a 500 in the code: json-patch, which every controller
\* declares and none implements, and a null description of a transfer request,
\* which its schema allows and its table does not.
RefusalsAreTheClients ==
    \A c \in Clients : answer[c] # Null /\ answer[c].code = 500 =>
        \/ answer[c].by = "TypeError"
        \/ answer[c].by = "DBError" /\ kind = "transfer_request"

\* The state of rows, of requests in flight and of answers.
TypeOK ==
    /\ kind \in Kinds
    /\ \A i \in Ids : rows[i] # Null =>
        /\ rows[i] \in Rows
        /\ Valid(rows[i])
        /\ \A u \in Table(kind).notnull : rows[i][u] # Null
    /\ \A c \in Clients :
        call[c] # Null => /\ call[c].ctxt \in Contexts
                          /\ call[c].id \in Ids
                          /\ Valid(call[c].val)
    /\ requests \in 0 .. MaxRequests
=============================================================================
