--------------------------- MODULE ResourceStore ---------------------------
(***************************************************************************)
(* What a client may expect of a resource that is a row of the database,   *)
(* stated without API server, RPC, adapters or copies: a change is asked   *)
(* for and later applied in one step, or dropped.  Applying it touches the *)
(* columns that were asked for and no other column, and never a row the    *)
(* caller may not see; a column that can be set once is asked for while it *)
(* is null; no step gives two rows the same unique value.                  *)
(***************************************************************************)
EXTENDS FiniteSets

CONSTANTS Clients, Ids, Null

VARIABLES shape,      \* what never changes: once, the columns that can only be
                      \* set while they are null; unique, those whose values
                      \* are unique; tenanted, whether rows have an owner
          rows,       \* [Ids -> a row, or Null]
          asked       \* [Clients -> a change asked for, or Null]

storeVars == <<shape, rows, asked>>

Visible(row, caller) ==
    \/ ~shape.tenanted
    \/ caller.everyone
    \/ row["tenant_id"] \in {caller.tenant, Null}

IsUnique(table) ==
    \A i, j \in Ids : \A u \in shape.unique :
        (i # j /\ table[i] # Null /\ table[j] # Null) =>
            (table[i][u] = Null \/ table[i][u] # table[j][u])

StoreInit ==
    /\ IsUnique(rows)
    /\ asked = [c \in Clients |-> Null]

Ask(c) ==
    /\ asked[c] = Null
    /\ asked'[c] # Null
    /\ \A k \in shape.once \cap DOMAIN asked'[c].body :
        rows[asked'[c].id][k] = Null
    /\ \A d \in Clients \ {c} : asked'[d] = asked[d]
    /\ UNCHANGED <<shape, rows>>

Drop(c) ==
    /\ asked[c] # Null
    /\ asked' = [asked EXCEPT ![c] = Null]
    /\ UNCHANGED <<shape, rows>>

(***************************************************************************)
(* A requested column keeps its value when it had the wanted one already   *)
(* at the time of asking and someone else changed it since.                *)
(***************************************************************************)
Update(c) ==
    /\ asked[c] # Null
    /\ LET a == asked[c]
           old == rows[a.id]
       IN /\ old # Null
          /\ Visible(old, a.caller)
          /\ \E S \in SUBSET DOMAIN a.body :
                rows' = [rows EXCEPT ![a.id] =
                    [k \in DOMAIN old |-> IF k \in S THEN a.body[k] ELSE old[k]]]
    /\ IsUnique(rows')
    /\ asked' = [asked EXCEPT ![c] = Null]
    /\ UNCHANGED shape

Create(i) ==
    /\ rows[i] = Null
    /\ rows'[i] # Null
    /\ \A j \in Ids \ {i} : rows'[j] = rows[j]
    /\ IsUnique(rows')
    /\ UNCHANGED <<shape, asked>>

Delete(i) ==
    /\ rows[i] # Null
    /\ rows' = [rows EXCEPT ![i] = Null]
    /\ UNCHANGED <<shape, asked>>

StoreNext ==
    \/ \E c \in Clients : Ask(c) \/ Drop(c) \/ Update(c)
    \/ \E i \in Ids : Create(i) \/ Delete(i)

StoreSpec == StoreInit /\ [][StoreNext]_storeVars
=============================================================================
