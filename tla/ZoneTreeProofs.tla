--------------------------- MODULE ZoneTreeProofs ---------------------------
(***************************************************************************)
(* Proofs about ZoneTree for any number of ids, names, tenants, threads    *)
(* and purges: the links between zones lead upwards, a tree belongs to one *)
(* tenant, and a CNAME is alone.                                           *)
(*                                                                         *)
(* A purge works on links it read some time ago, and the rows they lead to *)
(* may be gone.  The invariant therefore speaks of a function f with the   *)
(* name and tenant each id has or had; some such f always exists.          *)
(***************************************************************************)
EXTENDS ZoneTree, SequenceTheorems, WellFoundedInduction, TLAPS

Owner == [name : Seq(STRING), tenant : Tenants \cup {None}]

\* y lies below z and has the same tenant, as f remembers them
Under(f, y, z) == Below(f[y].name, f[z].name) /\ f[y].tenant = f[z].tenant

\* An id that has been given to a row
Used(z) == z \in Ids /\ zone[z].state # "none"

ZonesSound(f) ==
    /\ TreeAssumption
    /\ zone \in [Ids -> Zone] /\ f \in [Ids -> Owner]
    /\ \A z \in Ids : Stored(z) => /\ f[z].name = zone[z].name
                                   /\ f[z].tenant = zone[z].tenant
    /\ \A z \in Ids : ~Stored(z) => zone[z].name = <<>> /\ zone[z].parent = None
    /\ \A z \in Ids : zone[z].parent # None =>
          Stored(zone[z].parent) /\ Under(f, z, zone[z].parent)

\* The names of live zones, and who has them
NamesSound ==
    /\ OneTenantPerTree
    /\ \A y, z \in Ids : Found(y) /\ Found(z) /\ zone[y].name = zone[z].name => y = z

Call == [pc : {"idle", "insert", "call", "link", "origin", "linked", "write", "store"},
         op : {"none", "create", "delete", "recordset"}, id : Ids \cup {None},
         row : Zone, below : SUBSET Ids, sub : Ids \cup {None}, was : Ids \cup {None},
         new : SUBSET Rset]

PcOf(op) == CASE op = "none" -> {"idle"}
              [] op = "create" -> {"insert", "call", "link", "origin", "linked"}
              [] op = "delete" -> {"write"}
              [] op = "recordset" -> {"store"}

\* The link that may be written back leads upwards
OriginSound(f, k) ==
    k.pc \in {"origin", "linked"} =>
        k.sub \in k.below /\ (k.was # None => Used(k.was) /\ Under(f, k.sub, k.was))

\* What a creation found above and below still is above and below
Placed(f, k) ==
    /\ k.row.state = "live" /\ k.row.name \in Seq(STRING)
    /\ k.row.parent # None => /\ Used(k.row.parent)
                              /\ Below(k.row.name, f[k.row.parent].name)
                              /\ f[k.row.parent].tenant = k.row.tenant
    /\ \A z \in k.below : /\ Used(z)
                          /\ Below(f[z].name, k.row.name)
                          /\ f[z].tenant = k.row.tenant
    /\ k.pc # "insert" => /\ Used(k.id)
                          /\ f[k.id].name = k.row.name
                          /\ f[k.id].tenant = k.row.tenant
    /\ OriginSound(f, k)

CallSound(f, k) ==
    /\ k.pc \in PcOf(k.op)
    /\ k.op = "create" => Placed(f, k)
    /\ k.op \in {"delete", "recordset"} => Used(k.id)

CallsSound(f) == call \in [Threads -> Call] /\ \A t \in Threads : CallSound(f, call[t])

LocksSound ==
    \A t, u \in Threads : t # u =>
        /\ call[t].op = "create" => call[u].op # "create"
        /\ call[t].op \in {"delete", "recordset"} /\ call[u].op \in {"delete", "recordset"}
              => call[t].id # call[u].id

\* The new zone will have its tenant's zones around it
Fits(k) == \A z \in Ids :
    Found(z) /\ (Below(k.row.name, zone[z].name) \/ Below(zone[z].name, k.row.name))
        => zone[z].tenant = k.row.tenant
InsertsFit == \A t \in Threads : call[t].pc = "insert" => Fits(call[t])

Purge == [rows : SUBSET [id : Ids, parent : Ids \cup {None}], left : SUBSET Ids,
          now : Ids \cup {None}]
PurgesSound(f) ==
    /\ purge \in [Purgers -> Purge]
    /\ \A p \in Purgers : \A q \in purge[p].rows :
          Used(q.id) /\ (q.parent # None => Used(q.parent) /\ Under(f, q.id, q.parent))

\* The recordset that is about to be stored shares its name with no other of a
\* client if one of them is a CNAME
Alone(k) == \E q \in Rset :
    /\ k.new = {q} /\ q.zone = k.id /\ ~q.own
    /\ \A r \in rset : ~r.own /\ r.zone = q.zone /\ r.name = q.name =>
                        q.type # "CNAME" /\ r.type # "CNAME"
RsetsSound ==
    /\ rset \subseteq Rset
    /\ \A r \in rset : Stored(r.zone)
    /\ CnameIsAlone
    /\ \A t \in Threads : call[t].pc = "store" => Alone(call[t])

RestSound == work \subseteq Ids /\ ops \in 0 .. MaxOps

Sound(f) == /\ ZonesSound(f) /\ NamesSound /\ CallsSound(f) /\ LocksSound /\ InsertsFit
            /\ PurgesSound(f) /\ RsetsSound /\ RestSound

-----------------------------------------------------------------------------
(* Names                                                                   *)

LEMMA PrefixFacts ==
    ASSUME NEW s \in Seq(STRING), NEW t \in Seq(STRING)
    PROVE  IsPrefix(s, t) <=> Len(s) <= Len(t) /\ \A i \in 1 .. Len(s) : s[i] = t[i]
<1>1. CASE Len(s) <= Len(t)
  <2>0. Len(s) \in Nat /\ Len(t) \in Nat
    OBVIOUS
  <2>1. SubSeq(s, 1, Len(s)) = s
    BY SubSeqFull
  <2>2. /\ SubSeq(t, 1, Len(s)) \in Seq(STRING)
        /\ Len(SubSeq(t, 1, Len(s))) = Len(s)
        /\ \A i \in 1 .. Len(s) : SubSeq(t, 1, Len(s))[i] = t[i]
    BY <1>1, <2>0, SubSeqProperties
  <2>3. s = SubSeq(t, 1, Len(s)) <=> \A i \in 1 .. Len(s) : s[i] = t[i]
    BY <2>0, <2>2, SeqEqual
  <2> QED BY <1>1, <2>1, <2>3 DEF IsPrefix
<1> QED BY <1>1 DEF IsPrefix

LEMMA BelowTransitive ==
    ASSUME NEW a \in Seq(STRING), NEW b \in Seq(STRING), NEW c \in Seq(STRING),
           Below(a, b), Below(b, c)
    PROVE  Below(a, c)
<1>0. Len(a) \in Nat /\ Len(b) \in Nat /\ Len(c) \in Nat
    OBVIOUS
<1>1. IsPrefix(b, a) /\ b # a /\ IsPrefix(c, b) /\ c # b
    BY DEF Below, IsStrictPrefix
<1>2. /\ Len(b) <= Len(a) /\ \A i \in 1 .. Len(b) : b[i] = a[i]
      /\ Len(c) <= Len(b) /\ \A i \in 1 .. Len(c) : c[i] = b[i]
    BY <1>1, PrefixFacts
<1>3. IsPrefix(c, a)
  <2>1. Len(c) <= Len(a) /\ \A i \in 1 .. Len(c) : c[i] = a[i]
    BY <1>0, <1>2
  <2> QED BY <2>1, PrefixFacts
<1>4. c # a
  <2> SUFFICES ASSUME c = a PROVE FALSE
    OBVIOUS
  <2>1. Len(b) = Len(a) /\ \A i \in 1 .. Len(b) : b[i] = a[i]
    BY <1>0, <1>2
  <2>2. b = a
    BY <2>1, SeqEqual
  <2> QED BY <1>1, <2>2
<1> QED BY <1>3, <1>4 DEF Below, IsStrictPrefix

\* Of two zones above the same name the one with fewer labels is above the other
LEMMA AboveIsOrdered ==
    ASSUME NEW n \in Seq(STRING), NEW a \in Seq(STRING), NEW b \in Seq(STRING),
           Below(n, a), Below(n, b), Len(a) <= Len(b), a # b
    PROVE  Below(b, a)
<1>0. Len(a) \in Nat /\ Len(b) \in Nat /\ Len(n) \in Nat
    OBVIOUS
<1>1. IsPrefix(a, n) /\ IsPrefix(b, n)
    BY DEF Below, IsStrictPrefix
<1>2. /\ \A i \in 1 .. Len(a) : a[i] = n[i]
      /\ \A i \in 1 .. Len(b) : b[i] = n[i]
    BY <1>1, PrefixFacts
<1>3. \A i \in 1 .. Len(a) : a[i] = b[i]
    BY <1>0, <1>2
<1>4. IsPrefix(a, b)
    BY <1>3, PrefixFacts
<1> QED BY <1>4 DEF Below, IsStrictPrefix

\* A set of naturals has a least member: < is well-founded on Nat
LEMMA NatMin ==
    ASSUME NEW T \in SUBSET Nat, T # {}
    PROVE  \E x \in T : \A y \in T : x <= y
<1>1. PICK x \in T : \A y \in T : ~(<<y, x>> \in OpToRel(<, Nat))
    BY WFMin, NatLessThanWellFounded
<1>2. \A y \in T : <<y, x>> \in OpToRel(<, Nat) <=> y < x
    BY DEF OpToRel
<1>3. \A y \in T : ~(y < x)
    BY <1>1, <1>2, Zenon
<1>4. \A y \in T : x <= y
    BY <1>3
<1> QED BY <1>4

\* _is_subzone finds the nearest zone above, if there is one
LEMMA SubzoneFacts ==
    ASSUME NEW f, ZonesSound(f), NEW n \in Seq(STRING)
    PROVE  \/ /\ _is_subzone(n) = None
              /\ \A z \in Ids : Found(z) => ~Below(n, zone[z].name)
           \/ /\ _is_subzone(n) \in Ids /\ Found(_is_subzone(n))
              /\ Below(n, zone[_is_subzone(n)].name)
              /\ \A z \in Ids : Found(z) /\ Below(n, zone[z].name) =>
                    Len(zone[z].name) <= Len(zone[_is_subzone(n)].name)
<1> DEFINE above == {z \in Ids : Found(z) /\ Below(n, zone[z].name)}
           far(z) == Len(n) - Len(zone[z].name)
           D == {far(z) : z \in above}
<1>1. \A z \in Ids : Found(z) => Stored(z) /\ zone[z].name \in Seq(STRING)
    BY DEF ZonesSound, Owner, Found, Stored
<1>2. \A z \in above : /\ Len(zone[z].name) \in Nat /\ Len(n) \in Nat
                       /\ Len(zone[z].name) <= Len(n)
    BY <1>1 DEF Below, IsStrictPrefix, IsPrefix
<1>3. _is_subzone(n) = IF above = {} THEN None
                       ELSE CHOOSE z \in above :
                          \A y \in above : Len(zone[y].name) <= Len(zone[z].name)
    BY DEF _is_subzone
<1>4. CASE above = {}
    BY <1>3, <1>4
<1>5. CASE above # {}
  <2>1. D \in SUBSET Nat /\ D # {}
    BY <1>2, <1>5
  <2>2. PICK d \in D : \A e \in D : d <= e
    <3> HIDE DEF D
    <3> QED BY <2>1, NatMin
  <2>3. PICK z \in above : d = far(z)
    OBVIOUS
  <2>4. \A y \in above : far(z) <= far(y)
    BY <2>2, <2>3
  <2>5. \A y \in above : Len(zone[y].name) <= Len(zone[z].name)
    BY <1>2, <2>4
  <2>6. /\ _is_subzone(n) \in above
        /\ \A y \in above : Len(zone[y].name) <= Len(zone[_is_subzone(n)].name)
    <3> HIDE DEF above
    <3> QED BY <1>3, <1>5, <2>5
  <2> QED BY <2>6
<1> QED BY <1>4, <1>5

-----------------------------------------------------------------------------
(* The rows of the zones                                                   *)

\* A step that creates no zone: no row comes back, and none is renamed
Quiet == \A z \in Ids :
    /\ Used(z) => Used(z)'
    /\ Stored(z)' => /\ Stored(z)
                     /\ zone'[z].name = zone[z].name
                     /\ zone'[z].tenant = zone[z].tenant
    /\ Found(z)' => Found(z)

\* A row gets a new state or a new parent that lies above, or it is removed
Rewritten(f, z) ==
    \/ zone'[z] = zone[z] /\ (zone[z].parent # None => Stored(zone[z].parent)')
    \/ /\ Stored(z) /\ Stored(z)' /\ (Found(z)' => Found(z))
       /\ zone'[z].name = zone[z].name /\ zone'[z].tenant = zone[z].tenant
       /\ zone'[z].parent # None => /\ Stored(zone[z].parent)'
                                    /\ Under(f, z, zone'[z].parent)
    \/ zone'[z] = [NoRow EXCEPT !.state = "purged"]

LEMMA ZonesKept ==
    ASSUME NEW f, ZonesSound(f), zone' \in [Ids -> Zone],
           \A z \in Ids : Rewritten(f, z)
    PROVE  ZonesSound(f)' /\ Quiet
<1>1. ASSUME NEW z \in Ids
      PROVE  /\ Stored(z)' => f[z].name = zone'[z].name /\ f[z].tenant = zone'[z].tenant
             /\ ~Stored(z)' => zone'[z].name = <<>> /\ zone'[z].parent = None
             /\ zone'[z].parent # None =>
                   Stored(zone[z].parent)' /\ Under(f, z, zone'[z].parent)
             /\ Used(z) => Used(z)'
             /\ Stored(z)' => /\ Stored(z)
                              /\ zone'[z].name = zone[z].name
                              /\ zone'[z].tenant = zone[z].tenant
             /\ Found(z)' => Found(z)
  <2>1. CASE zone'[z] = zone[z] /\ (zone[z].parent # None => Stored(zone[z].parent)')
    BY <2>1 DEF ZonesSound, Stored, Found, Used
  <2>2. CASE /\ Stored(z) /\ Stored(z)' /\ (Found(z)' => Found(z))
             /\ zone'[z].name = zone[z].name /\ zone'[z].tenant = zone[z].tenant
             /\ zone'[z].parent # None => /\ Stored(zone[z].parent)'
                                          /\ Under(f, z, zone'[z].parent)
    BY <2>2 DEF ZonesSound, Stored, Used
  <2>3. CASE zone'[z] = [NoRow EXCEPT !.state = "purged"]
    BY <2>3 DEF NoRow, Stored, Found, Used
  <2> QED BY <2>1, <2>2, <2>3 DEF Rewritten
<1>2. ZonesSound(f)'
    BY <1>1 DEF ZonesSound, Under
<1>3. Quiet
    BY <1>1 DEF Quiet
<1> QED BY <1>2, <1>3

\* The state of a row of the table changes
LEMMA StateSet ==
    ASSUME NEW f, ZonesSound(f), NEW z \in Ids, Found(z), NEW st \in {"deleting", "deleted"},
           zone' = [zone EXCEPT ![z].state = st]
    PROVE  ZonesSound(f)' /\ Quiet
<1>1. zone' \in [Ids -> Zone] /\ zone \in [Ids -> Zone]
    BY DEF ZonesSound, Zone
<1>2. \A y \in Ids : /\ Stored(y)' <=> Stored(y)
                     /\ zone'[y].parent = zone[y].parent
                     /\ y # z => zone'[y] = zone[y]
                     /\ zone'[y].name = zone[y].name /\ zone'[y].tenant = zone[y].tenant
    BY <1>1 DEF Stored, Found, Zone
<1>3. ASSUME NEW y \in Ids PROVE Rewritten(f, y)
  <2>1. zone[y].parent # None => zone[y].parent \in Ids /\ Stored(zone[y].parent)
    BY <1>1 DEF ZonesSound, Zone
  <2>2. zone'[y].parent # None =>
           Stored(zone[y].parent)' /\ Under(f, y, zone'[y].parent)
    BY <1>2, <2>1 DEF ZonesSound
  <2>3. CASE y = z
    BY <1>2, <2>2, <2>3 DEF Rewritten, Stored, Found
  <2>4. CASE y # z
    BY <1>2, <2>2, <2>4 DEF Rewritten
  <2> QED BY <2>3, <2>4
<1> QED BY <1>1, <1>3, ZonesKept


\* Where a call is says what it is about
LEMMA CallFacts ==
    ASSUME NEW f, Sound(f), NEW t \in Threads
    PROVE  /\ call[t] \in Call /\ CallSound(f, call[t])
           /\ call[t].pc \in {"insert", "call", "link", "origin", "linked"}
                 <=> call[t].op = "create"
           /\ call[t].pc = "write" <=> call[t].op = "delete"
           /\ call[t].pc = "store" <=> call[t].op = "recordset"
           /\ call[t].pc = "idle" <=> call[t].op = "none"
BY DEF Sound, CallsSound, CallSound, PcOf, Call

\* The walk of a purge ends above the zone it starts from
LEMMA WalkFacts ==
    ASSUME NEW f, Sound(f), NEW p \in Purgers, NEW r \in purge[p].rows,
           NEW up \in _walk_up_zones(r, purge[p].rows)
    PROVE  /\ up \in Ids \cup {None} /\ r.id \in Ids
           /\ up # None => Under(f, r.id, up)
<1> DEFINE rows == purge[p].rows
           S == {v \in Ids \cup {None} : v = r.id \/ v = None \/ Under(f, r.id, v)}
<1>1. /\ \A q \in rows : q.id \in Ids /\ q.parent \in Ids \cup {None}
      /\ \A q \in rows : q.parent # None => Under(f, q.id, q.parent)
      /\ None \notin Ids
      /\ f \in [Ids -> Owner]
    BY DEF Sound, ZonesSound, TreeAssumption, PurgesSound, Purge
<1>2. /\ up \in Passed(r, rows) /\ \A q \in rows : q.id # up
    BY DEF _walk_up_zones
<1>3. S \in SUBSET (Ids \cup {None}) /\ r.id \in S
    BY <1>1
<1>4. ASSUME NEW q \in rows, q.id \in S
      PROVE  q.parent \in S
  <2>1. CASE q.parent = None
    BY <2>1
  <2>2. CASE q.parent # None
    <3>1. q.id \in Ids /\ q.parent \in Ids /\ Under(f, q.id, q.parent) /\ q.id # None
        BY <1>1, <2>2
    <3>2. CASE q.id = r.id
        BY <3>1, <3>2
    <3>3. CASE Under(f, r.id, q.id)
      <4>1. /\ f[r.id].name \in Seq(STRING) /\ f[q.id].name \in Seq(STRING)
            /\ f[q.parent].name \in Seq(STRING)
        BY <1>1, <3>1 DEF Owner
      <4>2. Under(f, r.id, q.parent)
        BY <3>1, <3>3, <4>1, BelowTransitive DEF Under
      <4> QED BY <3>1, <4>2
    <3> QED BY <1>4, <3>1, <3>2, <3>3
  <2> QED BY <2>1, <2>2
<1>5. up \in S
  <2> HIDE DEF S, rows
  <2> QED BY <1>2, <1>3, <1>4 DEF Passed
<1>6. up # r.id
    BY <1>2
<1> QED BY <1>1, <1>5, <1>6

-----------------------------------------------------------------------------
(* Which actions change what                                               *)

LEMMA ZoneMove ==
    ASSUME Next
    PROVE  \/ UNCHANGED zone
           \/ \E t \in Threads : InsertZone(t) \/ WriteDelete(t) \/ Abandon(t)
           \/ \E t \in Threads : WriteLink(t) \/ LinkAnswered(t)
           \/ \E z \in Ids : Deleted(z)
           \/ \E p \in Purgers : \E r \in purge[p].rows : Reparent(p, r)
           \/ \E p \in Purgers : HardDelete(p)
BY DEF Next, Request, CentralStep, PurgeStep, CreateZone, DeleteZone, CreateRecordset,
       CreateDefaultRecord, LinkBelow, StoreRecordset, PurgeList

\* What a thread does next
LEMMA CallMove ==
    ASSUME Next
    PROVE  \/ UNCHANGED call
           \/ \E t \in Threads : \/ InsertZone(t) \/ WriteDelete(t) \/ Abandon(t)
                                 \/ CreateDefaultRecord(t) \/ WriteLink(t)
                                 \/ LinkAnswered(t) \/ StoreRecordset(t)
           \/ \E t \in Threads, z \in Ids : LinkBelow(t, z) \/ DeleteZone(t, z)
           \/ \E t \in Threads, n \in Names, tenant \in Tenants, type \in Types :
                 CreateZone(t, n, tenant, type)
           \/ \E t \in Threads, z \in Ids, type \in {"CNAME", "A"} :
                 \E n \in Asked(z) :
                    CreateRecordset(t, z, n, type)
BY DEF Next, Request, CentralStep, PurgeStep, Deleted, PurgeList, Reparent, HardDelete

LEMMA PurgeMove ==
    ASSUME Next
    PROVE  \/ UNCHANGED purge
           \/ \E p \in Purgers : PurgeList(p) \/ HardDelete(p)
           \/ \E p \in Purgers : \E r \in purge[p].rows : Reparent(p, r)
BY DEF Next, Request, CentralStep, PurgeStep, CreateZone, DeleteZone, CreateRecordset,
       InsertZone, CreateDefaultRecord, LinkBelow, WriteLink, LinkAnswered,
       WriteDelete, Abandon, StoreRecordset, Deleted

LEMMA RsetMove ==
    ASSUME Next
    PROVE  \/ UNCHANGED rset
           \/ \E t \in Threads : CreateDefaultRecord(t) \/ StoreRecordset(t)
           \/ \E p \in Purgers : HardDelete(p)
BY DEF Next, Request, CentralStep, PurgeStep, CreateZone, DeleteZone, CreateRecordset,
       InsertZone, LinkBelow, WriteLink, LinkAnswered, WriteDelete, Abandon, Deleted,
       PurgeList, Reparent

-----------------------------------------------------------------------------
(* Steps that create no zone                                               *)

\* InsertZone finds its name free and its parent there
Inserted(t, z) ==
    /\ call[t].pc = "insert" /\ zone[z].state = "none"
    /\ \A y \in Ids : Found(y) => zone[y].name # call[t].row.name
    /\ RefersToRow(call[t].row.parent)
    /\ zone' = [zone EXCEPT ![z] = call[t].row]
    /\ call' = [call EXCEPT ![t].pc = "call", ![t].id = z]
    /\ UNCHANGED <<rset, work, purge, ops>>

LEMMA InsertFacts ==
    ASSUME NEW t \in Threads, InsertZone(t)
    PROVE  \/ \E z \in Ids : Inserted(t, z)
           \/ Return(t) /\ UNCHANGED zone
BY DEF InsertZone, Inserted

\* The steps that write a row keep the links, and none is a creation
LEMMA ZonesStep ==
    ASSUME NEW f, Sound(f), Next
    PROVE  (ZonesSound(f)' /\ Quiet) \/ \E t \in Threads : \E z \in Ids : Inserted(t, z)
<1> DEFINE Goal == ZonesSound(f)' /\ Quiet
<1>0. ZonesSound(f) /\ zone \in [Ids -> Zone] /\ None \notin Ids
    BY DEF Sound, ZonesSound, TreeAssumption
<1>p. \A z \in Ids : zone[z].parent # None =>
         /\ Stored(z) /\ zone[z].parent \in Ids /\ Stored(zone[z].parent)
         /\ Under(f, z, zone[z].parent)
    BY <1>0 DEF ZonesSound, Zone
<1>1. ASSUME UNCHANGED zone
      PROVE  Goal
  <2>1. \A z \in Ids : Rewritten(f, z)
    BY <1>0, <1>1, <1>p DEF Rewritten, Stored
  <2> QED BY <1>0, <1>1, <2>1, ZonesKept
<1>2. ASSUME NEW t \in Threads, WriteDelete(t) \/ Abandon(t)
      PROVE  Goal
  <2> DEFINE z == call[t].id
  <2>1. z \in Ids
    BY <1>2, CallFacts DEF WriteDelete, Abandon, CallSound, Used
  <2>2. \/ zone' = [zone EXCEPT ![z].state = IF Found(z) THEN "deleting" ELSE @]
        \/ zone' = [zone EXCEPT ![z].state = IF Found(z) THEN "deleted" ELSE @]
    BY <1>2 DEF WriteDelete, Abandon
  <2> HIDE DEF z
  <2>3. CASE Found(z)
    BY <1>0, <2>1, <2>2, <2>3, StateSet
  <2>4. CASE ~Found(z)
    <3>1. zone' = zone
        BY <1>0, <2>1, <2>2, <2>4 DEF Zone
    <3> QED BY <1>1, <3>1
  <2> QED BY <2>3, <2>4
<1>3. ASSUME NEW z \in Ids, Deleted(z)
      PROVE  Goal
  <2>1. CASE zone[z].state = "deleting"
    BY <1>0, <1>3, <2>1, StateSet DEF Deleted, Found
  <2>2. CASE zone[z].state # "deleting"
    <3>1. zone' = zone
        BY <1>0, <1>3, <2>2 DEF Deleted, Zone
    <3> QED BY <1>1, <3>1
  <2> QED BY <2>1, <2>2
<1>4. ASSUME NEW t \in Threads, WriteLink(t) \/ LinkAnswered(t)
      PROVE  Goal
  <2>0. CASE UNCHANGED zone
    BY <1>1, <2>0
  <2>k. PICK k : k = call[t]
    OBVIOUS
  <2>1. /\ k \in Call /\ k.op = "create" /\ k.pc \in {"origin", "linked"} /\ Placed(f, k)
    BY <1>4, <2>k, CallFacts DEF WriteLink, LinkAnswered, CallSound
  <2>2. /\ k.sub \in k.below /\ k.sub \in Ids
        /\ k.was # None => k.was \in Ids /\ Under(f, k.sub, k.was)
        /\ k.id \in Ids /\ k.id # None /\ Under(f, k.sub, k.id)
    BY <1>0, <2>1 DEF Placed, OriginSound, Used, Under
  <2>3. ASSUME NEW z \in Ids, NEW up \in Ids \cup {None}, NEW st \in {"live", zone[z].state},
               Found(z), RefersToRow(up), up # None => Under(f, z, up),
               zone' = [zone EXCEPT ![z] = [zone[z] EXCEPT !.parent = up, !.state = st]]
        PROVE  Goal
    <3>1. st \in {"live", "deleting"}
        BY <2>3 DEF Found
    <3>2. zone' \in [Ids -> Zone]
        BY <1>0, <2>3, <3>1 DEF Zone
    <3>3. /\ \A y \in Ids : Stored(y)' <=> Stored(y)
          /\ \A y \in Ids : y # z => zone'[y] = zone[y]
          /\ zone'[z].name = zone[z].name /\ zone'[z].tenant = zone[z].tenant
          /\ zone'[z].parent = up
        BY <1>0, <2>3, <3>1 DEF Stored, Found, Zone
    <3>4. ASSUME NEW y \in Ids PROVE Rewritten(f, y)
      <4>1. CASE y = z
        BY <2>3, <3>3, <4>1 DEF Rewritten, Found, Stored, RefersToRow
      <4>2. CASE y # z
        BY <1>p, <3>3, <4>2 DEF Rewritten
      <4> QED BY <4>1, <4>2
    <3> QED BY <1>0, <3>2, <3>4, ZonesKept
  <2>4. CASE /\ Found(k.sub) /\ RefersToRow(k.id)
             /\ zone' = [zone EXCEPT ![k.sub].parent = k.id, ![k.sub].state = "live"]
    <3>1. zone' = [zone EXCEPT ![k.sub] =
                      [zone[k.sub] EXCEPT !.parent = k.id, !.state = "live"]]
        BY <1>0, <2>2, <2>4 DEF Zone
    <3> QED BY <2>2, <2>3, <2>4, <3>1
  <2>5. CASE /\ Found(k.sub) /\ RefersToRow(k.was)
             /\ zone' = [zone EXCEPT ![k.sub].parent = k.was]
    <3>1. PICK st : st = zone[k.sub].state
        OBVIOUS
    <3>2. zone' = [zone EXCEPT ![k.sub] =
                      [zone[k.sub] EXCEPT !.parent = k.was, !.state = st]]
        BY <1>0, <2>2, <2>5, <3>1 DEF Zone
    <3>3. k.was \in Ids \cup {None}
        BY <2>1 DEF Call
    <3> QED BY <2>2, <2>3, <2>5, <3>1, <3>2, <3>3
  <2> QED BY <1>4, <2>0, <2>k, <2>4, <2>5 DEF WriteLink, LinkAnswered
<1>5. ASSUME NEW p \in Purgers, NEW r \in purge[p].rows, Reparent(p, r)
      PROVE  Goal
  <2> DEFINE children == {z \in Ids : Stored(z) /\ zone[z].parent = r.id}
  <2>0. CASE UNCHANGED zone
    BY <1>1, <2>0
  <2>1. ASSUME NEW up \in _walk_up_zones(r, purge[p].rows),
               children = {} \/ RefersToRow(up),
               zone' = [z \in Ids |-> IF z \in children
                          THEN [zone[z] EXCEPT !.parent = up] ELSE zone[z]]
        PROVE  Goal
    <3>1. up \in Ids \cup {None} /\ r.id \in Ids /\ (up # None => Under(f, r.id, up))
        BY WalkFacts
    <3>2. zone' \in [Ids -> Zone]
        BY <1>0, <2>1, <3>1 DEF Zone
    <3>3. \A y \in Ids : Stored(y)' <=> Stored(y)
        BY <1>0, <2>1 DEF Stored, Zone
    <3>4. ASSUME NEW y \in Ids PROVE Rewritten(f, y)
      <4>1. CASE y \in children
        <5>1. /\ zone'[y].name = zone[y].name /\ zone'[y].tenant = zone[y].tenant
              /\ zone'[y].parent = up /\ zone'[y].state = zone[y].state
            BY <1>0, <2>1, <4>1 DEF Zone
        <5>2. Stored(y) /\ Under(f, y, r.id)
            BY <1>0, <1>p, <3>1, <4>1
        <5>3. ASSUME up # None PROVE Stored(up) /\ up \in Ids /\ Under(f, y, up)
          <6>1. Stored(up) /\ up \in Ids /\ Under(f, r.id, up)
            BY <2>1, <3>1, <4>1, <5>3 DEF RefersToRow
          <6>2. f[y].name \in Seq(STRING) /\ f[r.id].name \in Seq(STRING)
                /\ f[up].name \in Seq(STRING)
            BY <1>0, <3>1, <6>1 DEF ZonesSound, Owner
          <6> QED BY <5>2, <6>1, <6>2, BelowTransitive DEF Under
        <5> HIDE DEF children
        <5> QED BY <3>3, <5>1, <5>2, <5>3 DEF Rewritten, Found
      <4>2. CASE y \notin children
        BY <1>p, <2>1, <3>3, <4>2 DEF Rewritten
      <4> QED BY <4>1, <4>2
    <3> QED BY <1>0, <3>2, <3>4, ZonesKept
  <2> QED BY <1>5, <2>0, <2>1 DEF Reparent
<1>6. ASSUME NEW p \in Purgers, HardDelete(p)
      PROVE  Goal
  <2> DEFINE z == purge[p].now
  <2>1. z \in Ids /\ z # None
    BY <1>6 DEF HardDelete, Sound, PurgesSound, Purge
  <2>2. zone' = [y \in Ids |-> IF y = z THEN [NoRow EXCEPT !.state = "purged"]
                               ELSE IF zone[y].parent = z THEN [zone[y] EXCEPT !.parent = None]
                               ELSE zone[y]]
    BY <1>6 DEF HardDelete
  <2> HIDE DEF z
  <2>3. zone' \in [Ids -> Zone]
    BY <1>0, <2>2 DEF Zone, NoRow
  <2>4. \A y \in Ids : y # z => (Stored(y)' <=> Stored(y))
    BY <1>0, <2>2 DEF Stored, Zone
  <2>5. ASSUME NEW y \in Ids PROVE Rewritten(f, y)
    <3>1. CASE y = z
        BY <2>2, <3>1 DEF Rewritten
    <3>2. CASE y # z /\ zone[y].parent = z
      <4>1. /\ zone'[y].name = zone[y].name /\ zone'[y].tenant = zone[y].tenant
            /\ zone'[y].parent = None /\ zone'[y].state = zone[y].state
        BY <1>0, <2>2, <3>2 DEF Zone
      <4>2. Stored(y)
        BY <1>p, <2>1, <3>2
      <4> QED BY <2>4, <3>2, <4>1, <4>2 DEF Rewritten, Found
    <3>3. CASE y # z /\ zone[y].parent # z
        BY <1>p, <2>2, <2>4, <3>3 DEF Rewritten
    <3> QED BY <3>1, <3>2, <3>3
  <2> QED BY <1>0, <2>3, <2>5, ZonesKept
<1> QED BY ZoneMove, InsertFacts, <1>1, <1>2, <1>3, <1>4, <1>5, <1>6

\* A creation that goes on
Proceeds(f, j, k) ==
    /\ j.op = "create" /\ j.pc # "insert"
    /\ k.op = "create" /\ k.pc \in {"link", "origin", "linked"}
    /\ k.id = j.id /\ k.row = j.row /\ k.below \subseteq j.below
    /\ OriginSound(f, k)

\* A call ends or proceeds, or a new one starts
LEMMA CallsGo ==
    ASSUME NEW f, Sound(f), Next
    PROVE  \/ UNCHANGED call
           \/ \E t \in Threads : \E z \in Ids : Inserted(t, z)
           \/ \E t \in Threads : \E k \in Call :
                 /\ call' = [call EXCEPT ![t] = k]
                 /\ k = NoCall \/ Proceeds(f, call[t], k)
           \/ \E t \in Threads, z \in Ids : DeleteZone(t, z)
           \/ \E t \in Threads, n \in Names, tenant \in Tenants, type \in Types :
                 CreateZone(t, n, tenant, type)
           \/ \E t \in Threads, z \in Ids, type \in {"CNAME", "A"} :
                 \E n \in Asked(z) :
                    CreateRecordset(t, z, n, type)
<1> DEFINE Goal == \/ \E t \in Threads : \E z \in Ids : Inserted(t, z)
                   \/ \E t \in Threads : \E k \in Call :
                         /\ call' = [call EXCEPT ![t] = k]
                         /\ k = NoCall \/ Proceeds(f, call[t], k)
<1>0. NoCall \in Call
    BY DEF NoCall, Call, NoRow, Zone
<1>1. ASSUME NEW t \in Threads, Return(t)
      PROVE  Goal
    BY <1>0, <1>1 DEF Return
<1>2. ASSUME NEW t \in Threads, NEW left \in SUBSET call[t].below, Continue(t, left),
             call[t].pc \in {"call", "linked"}
      PROVE  Goal
  <2> DEFINE k == [call[t] EXCEPT !.pc = "link", !.below = left, !.sub = None, !.was = None]
  <2>1. call[t] \in Call /\ call[t].op = "create"
    BY <1>2, CallFacts
  <2>2. k \in Call /\ Proceeds(f, call[t], k)
    BY <1>2, <2>1 DEF Call, Proceeds, OriginSound
  <2>3. call' = [call EXCEPT ![t] = NoCall] \/ call' = [call EXCEPT ![t] = k]
    BY <1>2 DEF Continue
  <2> HIDE DEF k
  <2> QED BY <1>0, <2>2, <2>3
<1>3. ASSUME NEW t \in Threads, CreateDefaultRecord(t) \/ LinkAnswered(t)
      PROVE  Goal
  <2>1. /\ call[t].pc \in {"call", "linked"}
        /\ Return(t) \/ \E left \in SUBSET call[t].below : Continue(t, left)
    BY <1>3 DEF CreateDefaultRecord, LinkAnswered
  <2> QED BY <1>1, <1>2, <2>1
<1>4. ASSUME NEW t \in Threads, NEW z \in Ids, LinkBelow(t, z)
      PROVE  Goal
  <2> DEFINE k == [call[t] EXCEPT !.pc = "origin", !.sub = z, !.was = zone[z].parent]
  <2>1. call[t] \in Call /\ call[t].op = "create" /\ call[t].pc = "link"
        /\ z \in call[t].below
    BY <1>4, CallFacts DEF LinkBelow
  <2>2. zone[z].parent \in Ids \cup {None} /\ (zone[z].parent # None =>
           Used(zone[z].parent) /\ Under(f, z, zone[z].parent))
    BY DEF Sound, ZonesSound, Zone, Used, Stored
  <2>3. k \in Call /\ Proceeds(f, call[t], k)
    BY <2>1, <2>2 DEF Call, Proceeds, OriginSound
  <2>4. Return(t) \/ call' = [call EXCEPT ![t] = k]
    BY <1>4 DEF LinkBelow
  <2> HIDE DEF k
  <2> QED BY <1>1, <2>3, <2>4
<1>5. ASSUME NEW t \in Threads, WriteLink(t)
      PROVE  Goal
  <2> DEFINE k == [call[t] EXCEPT !.pc = "linked"]
  <2>1. call[t] \in Call /\ call[t].op = "create" /\ call[t].pc = "origin"
        /\ OriginSound(f, call[t])
    BY <1>5, CallFacts DEF WriteLink, CallSound, Placed
  <2>2. k \in Call /\ Proceeds(f, call[t], k)
    BY <2>1 DEF Call, Proceeds, OriginSound
  <2>3. Return(t) \/ call' = [call EXCEPT ![t] = k]
    <3>1. Return(t) \/ Goto(t, "linked")
        BY <1>5 DEF WriteLink
    <3>2. call \in [Threads -> Call]
        BY DEF Sound, CallsSound
    <3> QED BY <3>1, <3>2 DEF Goto, Call
  <2> HIDE DEF k
  <2> QED BY <1>1, <2>2, <2>3
<1>7. ASSUME NEW t \in Threads,
             InsertZone(t) \/ WriteDelete(t) \/ Abandon(t) \/ StoreRecordset(t)
      PROVE  Goal
    BY <1>1, <1>7, InsertFacts DEF WriteDelete, Abandon, StoreRecordset
<1> HIDE DEF Goal
<1>6. Goal => \/ \E t \in Threads : \E z \in Ids : Inserted(t, z)
              \/ \E t \in Threads : \E k \in Call :
                    /\ call' = [call EXCEPT ![t] = k]
                    /\ k = NoCall \/ Proceeds(f, call[t], k)
    BY DEF Goal
<1> QED BY CallMove, <1>3, <1>4, <1>5, <1>6, <1>7

\* What a call knows stays true
LEMMA CallKept ==
    ASSUME NEW f, ZonesSound(f), ZonesSound(f)', Quiet, NEW k \in Call, CallSound(f, k)
    PROVE  CallSound(f, k)'
<1>1. \A z : Used(z) => Used(z)'
    BY DEF Quiet, Used
<1> QED BY <1>1 DEF CallSound, Placed, OriginSound

LEMMA FitsKept ==
    ASSUME NEW f, ZonesSound(f), Quiet, NEW k, Fits(k)
    PROVE  Fits(k)'
BY DEF Fits, Quiet, Found, Stored

\* A creation finds out everything about the zones around the new one
LEMMA CreateFacts ==
    ASSUME NEW f, Sound(f), NEW t \in Threads, NEW n \in Names, NEW tenant \in Tenants,
           NEW type \in Types, CreateZone(t, n, tenant, type)
    PROVE  \E k \in Call : /\ call' = [call EXCEPT ![t] = k]
                           /\ CallSound(f, k) /\ Fits(k)
                           /\ k.pc = "insert" /\ k.op = "create"
<1> DEFINE above == _is_subzone(n)
           below == _is_superzone(n)
           row == [name |-> n, tenant |-> tenant, type |-> type,
                   parent |-> above, state |-> "live"]
           k == [NoCall EXCEPT !.pc = "insert", !.op = "create", !.row = row,
                               !.below = below]
<1>0. ZonesSound(f) /\ n \in Seq(STRING) /\ None \notin Ids
    BY DEF Sound, ZonesSound, TreeAssumption
<1>s. \A z \in Ids : Found(z) => /\ Used(z) /\ Stored(z)
                                 /\ f[z].name = zone[z].name /\ f[z].tenant = zone[z].tenant
                                 /\ zone[z].name \in Seq(STRING)
    BY <1>0 DEF ZonesSound, Owner, Found, Stored, Used
<1>1. call' = [call EXCEPT ![t] = k]
    BY DEF CreateZone, Start
<1>2. /\ above # None => zone[above].tenant = tenant
      /\ \A z \in below : zone[z].tenant = tenant
    BY DEF CreateZone
<1>3. \A z \in Ids : z \in below <=> Found(z) /\ Below(zone[z].name, n)
    BY DEF _is_superzone
<1>4. below \in SUBSET Ids
    BY DEF _is_superzone
<1>5. above \in Ids \cup {None}
    BY <1>0, SubzoneFacts
<1>6. above # None => Found(above) /\ above \in Ids /\ Below(n, zone[above].name)
    BY <1>0, SubzoneFacts
<1>7. ASSUME NEW z \in Ids, Found(z), Below(n, zone[z].name)
      PROVE  zone[z].tenant = tenant
  <2>1. /\ above \in Ids /\ Found(above) /\ Below(n, zone[above].name)
        /\ Len(zone[z].name) <= Len(zone[above].name)
    BY <1>0, <1>7, SubzoneFacts
  <2>2. zone[above].tenant = tenant
    BY <1>0, <1>2, <2>1
  <2> HIDE DEF above
  <2>3. CASE zone[z].name = zone[above].name
    BY <1>7, <2>1, <2>2, <2>3 DEF Sound, NamesSound
  <2>4. CASE zone[z].name # zone[above].name
    <3>1. Below(zone[above].name, zone[z].name)
        BY <1>0, <1>s, <1>7, <2>1, <2>4, AboveIsOrdered
    <3> QED BY <1>7, <2>1, <2>2, <3>1 DEF Sound, NamesSound, OneTenantPerTree
  <2> QED BY <2>3, <2>4
<1> HIDE DEF above, below
<1>8. row \in Zone /\ row.state = "live" /\ row.name = n /\ row.parent = above
      /\ row.tenant = tenant
    BY <1>5 DEF Zone
<1> HIDE DEF row
<1>9. /\ k \in Call /\ k.pc = "insert" /\ k.op = "create" /\ k.row = row
      /\ k.below = below
    BY <1>4, <1>8 DEF NoCall, Call
<1> HIDE DEF k
<1>10. Placed(f, k)
    BY <1>0, <1>2, <1>3, <1>4, <1>6, <1>8, <1>9, <1>s DEF Placed, OriginSound
<1>11. CallSound(f, k)
    BY <1>9, <1>10 DEF CallSound, PcOf
<1>12. Fits(k)
    BY <1>2, <1>3, <1>7, <1>8, <1>9 DEF Fits
<1> QED BY <1>1, <1>9, <1>11, <1>12

\* The names recordsets are asked for
LEMMA RsetNamesFacts ==
    ASSUME NEW f, Sound(f), NEW z \in Ids, NEW n \in Asked(z)
    PROVE  n \in RsetNames
<1>1. zone[z].name \in Names \cup {<<>>}
    BY DEF Sound, ZonesSound, Zone
<1> QED BY <1>1 DEF RsetNames, Asked

\* The calls know what they did, the locks exclude each other, and a creation that
\* is not inserted yet still fits, after a step that inserts nothing
LEMMA CallsStep ==
    ASSUME NEW f, Sound(f), Next, ZonesSound(f)', Quiet
    PROVE  \/ CallsSound(f)' /\ LocksSound' /\ InsertsFit'
           \/ \E t \in Threads : \E z \in Ids : Inserted(t, z)
<1> DEFINE Goal == CallsSound(f)' /\ LocksSound' /\ InsertsFit'
<1>0. /\ ZonesSound(f) /\ call \in [Threads -> Call] /\ LocksSound
      /\ \A t \in Threads : call[t] \in Call /\ CallSound(f, call[t])
      /\ \A t \in Threads : call[t].pc = "insert" => Fits(call[t])
    BY DEF Sound, CallsSound, InsertsFit
<1>1. \A k \in Call : CallSound(f, k) => CallSound(f, k)'
    BY <1>0, CallKept
<1>2. \A k : Fits(k) => Fits(k)'
    BY <1>0, FitsKept
<1>3. CASE UNCHANGED call
  <2>1. CallsSound(f)'
    BY <1>0, <1>1, <1>3 DEF CallsSound, CallSound, Placed
  <2>2. LocksSound'
    BY <1>0, <1>3 DEF LocksSound
  <2>3. InsertsFit'
    BY <1>0, <1>2, <1>3 DEF InsertsFit, Fits
  <2> QED BY <2>1, <2>2, <2>3
<1>4. ASSUME NEW t \in Threads, NEW k \in Call, call' = [call EXCEPT ![t] = k],
             CallSound(f, k), k.pc = "insert" => Fits(k),
             k.op = "create" => call[t].op = "create" \/ NewLockFree,
             k.op \in {"delete", "recordset"} => ZoneLockFree(t, k.id)
      PROVE  Goal
  <2>0. call' \in [Threads -> Call]
    BY <1>0, <1>4
  <2>1. \A u \in Threads : \E c \in Call :
           /\ call'[u] = c /\ CallSound(f, c) /\ (c.pc = "insert" => Fits(c))
           /\ IF u = t THEN c = k ELSE c = call[u]
    BY <1>0, <1>4
  <2>2. CallsSound(f)'
    BY <1>1, <2>0, <2>1 DEF CallsSound, CallSound, Placed
  <2>3. InsertsFit'
    BY <1>2, <2>1 DEF InsertsFit, Fits
  <2>4. LocksSound'
    BY <1>0, <1>4, <2>1 DEF LocksSound, NewLockFree, ZoneLockFree
  <2> QED BY <2>2, <2>3, <2>4
<1>5. ASSUME NEW t \in Threads, NEW k \in Call, call' = [call EXCEPT ![t] = k],
             k = NoCall \/ Proceeds(f, call[t], k)
      PROVE  Goal
  <2>1. CASE k = NoCall
    <3>1. CallSound(f, k) /\ k.pc = "idle" /\ k.op = "none"
        BY <2>1 DEF NoCall, CallSound, PcOf
    <3> QED BY <1>4, <1>5, <3>1
  <2>2. CASE Proceeds(f, call[t], k)
    <3>1. CallSound(f, k)
        BY <1>0, <2>2 DEF Proceeds, CallSound, PcOf, Placed
    <3>2. k.op = "create" /\ k.pc # "insert" /\ call[t].op = "create"
        BY <2>2 DEF Proceeds
    <3> QED BY <1>4, <1>5, <3>1, <3>2
  <2> QED BY <1>5, <2>1, <2>2
<1>6. ASSUME NEW t \in Threads, NEW z \in Ids, DeleteZone(t, z)
      PROVE  Goal
  <2> DEFINE k == [NoCall EXCEPT !.pc = "write", !.op = "delete", !.id = z]
  <2>1. call' = [call EXCEPT ![t] = k] /\ ZoneLockFree(t, z) /\ Used(z)
    BY <1>6 DEF DeleteZone, Start, Found, Used
  <2>2. k \in Call /\ k.pc = "write" /\ k.op = "delete" /\ k.id = z
    BY DEF NoCall, Call, NoRow, Zone
  <2> HIDE DEF k
  <2>3. CallSound(f, k)
    BY <2>1, <2>2 DEF CallSound, PcOf
  <2> QED BY <1>4, <2>1, <2>2, <2>3
<1>7. ASSUME NEW t \in Threads, NEW n \in Names, NEW tenant \in Tenants, NEW type \in Types,
             CreateZone(t, n, tenant, type)
      PROVE  Goal
  <2>1. PICK k \in Call : /\ call' = [call EXCEPT ![t] = k]
                          /\ CallSound(f, k) /\ Fits(k)
                          /\ k.pc = "insert" /\ k.op = "create"
    BY <1>7, CreateFacts
  <2>2. NewLockFree
    BY <1>7 DEF CreateZone
  <2> QED BY <1>4, <2>1, <2>2
<1>8. ASSUME NEW t \in Threads, NEW z \in Ids, NEW type \in {"CNAME", "A"},
             NEW n \in Asked(z),
             CreateRecordset(t, z, n, type)
      PROVE  Goal
  <2> DEFINE q == [zone |-> z, name |-> n, type |-> type, own |-> FALSE]
             k == [NoCall EXCEPT !.pc = "store", !.op = "recordset", !.id = z, !.new = {q}]
  <2>1. call' = [call EXCEPT ![t] = k] /\ ZoneLockFree(t, z) /\ Used(z)
    BY <1>8 DEF CreateRecordset, Start, Used
  <2>2. q \in Rset
    BY RsetNamesFacts DEF Rset
  <2>3. k \in Call /\ k.pc = "store" /\ k.op = "recordset" /\ k.id = z
    BY <2>2 DEF NoCall, Call, NoRow, Zone
  <2> HIDE DEF k
  <2>4. CallSound(f, k)
    BY <2>1, <2>3 DEF CallSound, PcOf
  <2> QED BY <1>4, <2>1, <2>3, <2>4
<1> HIDE DEF Goal
<1>9. Goal => CallsSound(f)' /\ LocksSound' /\ InsertsFit'
    BY DEF Goal
<1> QED BY CallsGo, <1>3, <1>5, <1>6, <1>7, <1>8, <1>9

LEMMA PurgesStep ==
    ASSUME NEW f, Sound(f), Next, Quiet
    PROVE  PurgesSound(f)'
<1>0. /\ PurgesSound(f) /\ purge \in [Purgers -> Purge]
      /\ \A z : Used(z) => Used(z)'
    BY DEF Sound, PurgesSound, Quiet, Used
<1>1. ASSUME NEW p \in Purgers, NEW b \in Purge, purge' = [purge EXCEPT ![p] = b],
             \A q \in b.rows :
                Used(q.id) /\ (q.parent # None => Used(q.parent) /\ Under(f, q.id, q.parent))
      PROVE  PurgesSound(f)'
    BY <1>0, <1>1 DEF PurgesSound
<1>2. ASSUME NEW p \in Purgers, purge' = [purge EXCEPT ![p] = Idle]
      PROVE  PurgesSound(f)'
  <2>1. Idle \in Purge /\ Idle.rows = {}
    BY DEF Idle, Purge
  <2> QED BY <1>1, <1>2, <2>1
<1>3. CASE UNCHANGED purge
    BY <1>0, <1>3 DEF PurgesSound
<1>4. ASSUME NEW p \in Purgers, PurgeList(p)
      PROVE  PurgesSound(f)'
  <2>1. PICK zs \in SUBSET {z \in Ids : zone[z].state = "deleted"} :
           purge' = [purge EXCEPT ![p] =
                [rows |-> {[id |-> z, parent |-> zone[z].parent] : z \in zs},
                 left |-> zs, now |-> None]]
    BY <1>4 DEF PurgeList
  <2> DEFINE b == [rows |-> {[id |-> z, parent |-> zone[z].parent] : z \in zs},
                   left |-> zs, now |-> None]
  <2>2. \A z \in zs : /\ z \in Ids /\ Used(z) /\ zone[z].parent \in Ids \cup {None}
                      /\ zone[z].parent # None =>
                            Used(zone[z].parent) /\ Under(f, z, zone[z].parent)
    BY DEF Sound, ZonesSound, Zone, Used, Stored
  <2>3. b \in Purge
    BY <2>2 DEF Purge
  <2>4. \A q \in b.rows : Used(q.id) /\ (q.parent # None =>
                             Used(q.parent) /\ Under(f, q.id, q.parent))
    BY <2>2
  <2> HIDE DEF b
  <2>5. purge' = [purge EXCEPT ![p] = b]
    BY <2>1 DEF b
  <2> QED BY <1>1, <2>3, <2>4, <2>5
<1>5. ASSUME NEW p \in Purgers, NEW r \in purge[p].rows, Reparent(p, r)
      PROVE  PurgesSound(f)'
  <2> DEFINE b == [purge[p] EXCEPT !.now = r.id]
  <2>1. purge' = [purge EXCEPT ![p] = Idle] \/ purge' = [purge EXCEPT ![p] = b]
    BY <1>0, <1>5 DEF Reparent
  <2>2. b \in Purge /\ b.rows = purge[p].rows
    BY <1>0 DEF Purge
  <2> HIDE DEF b
  <2>3. \A q \in b.rows : Used(q.id) /\ (q.parent # None =>
                             Used(q.parent) /\ Under(f, q.id, q.parent))
    BY <1>0, <2>2 DEF PurgesSound
  <2> QED BY <1>1, <1>2, <2>1, <2>2, <2>3
<1>6. ASSUME NEW p \in Purgers, HardDelete(p)
      PROVE  PurgesSound(f)'
  <2> DEFINE b == [purge[p] EXCEPT !.left = purge[p].left \ {purge[p].now}, !.now = None]
  <2>1. purge' = [purge EXCEPT ![p] = Idle] \/ purge' = [purge EXCEPT ![p] = b]
    BY <1>0, <1>6 DEF HardDelete
  <2>2. b \in Purge /\ b.rows = purge[p].rows
    BY <1>0 DEF Purge
  <2> HIDE DEF b
  <2>3. \A q \in b.rows : Used(q.id) /\ (q.parent # None =>
                             Used(q.parent) /\ Under(f, q.id, q.parent))
    BY <1>0, <2>2 DEF PurgesSound
  <2> QED BY <1>1, <1>2, <2>1, <2>2, <2>3
<1> QED BY PurgeMove, <1>3, <1>4, <1>5, <1>6

LEMMA NamesKept ==
    ASSUME NamesSound, Quiet
    PROVE  NamesSound'
BY DEF NamesSound, OneTenantPerTree, Quiet, Found, Stored

LEMMA RestStep ==
    ASSUME NEW f, Sound(f), Next
    PROVE  RestSound'
<1>0. work \subseteq Ids /\ ops \in 0 .. MaxOps /\ MaxOps \in Nat
    BY DEF Sound, RestSound, ZonesSound, TreeAssumption
<1>1. work' \subseteq Ids
  <2>1. ASSUME NEW t \in Threads, WriteDelete(t)
        PROVE  work' \subseteq Ids
    BY <1>0, <2>1, CallFacts DEF WriteDelete, CallSound, Used
  <2>2. work' \subseteq work \/ \E t \in Threads : WriteDelete(t)
    BY DEF Next, Request, CentralStep, PurgeStep, CreateZone, DeleteZone,
           CreateRecordset, InsertZone, CreateDefaultRecord, LinkBelow, WriteLink,
           LinkAnswered, Abandon, StoreRecordset, Deleted, PurgeList, Reparent, HardDelete
  <2> QED BY <1>0, <2>1, <2>2
<1>2. UNCHANGED ops \/ (ops < MaxOps /\ ops' = ops + 1)
  <2>1. \/ UNCHANGED ops
        \/ \E t \in Threads, n \in Names, tenant \in Tenants, type \in Types :
              CreateZone(t, n, tenant, type)
        \/ \E t \in Threads, z \in Ids : DeleteZone(t, z)
        \/ \E t \in Threads, z \in Ids, type \in {"CNAME", "A"} :
              \E n \in Asked(z) :
                 CreateRecordset(t, z, n, type)
    BY DEF Next, Request, CentralStep, PurgeStep, InsertZone,
           CreateDefaultRecord, LinkBelow, WriteLink, LinkAnswered, WriteDelete, Abandon,
           StoreRecordset, Deleted, PurgeList, Reparent, HardDelete
  <2>2. ASSUME NEW t \in Threads, NEW n \in Names, NEW tenant \in Tenants,
               NEW type \in Types, CreateZone(t, n, tenant, type)
        PROVE  ops < MaxOps /\ ops' = ops + 1
    BY <2>2 DEF CreateZone, Start, MayStart
  <2>3. ASSUME NEW t \in Threads, NEW z \in Ids, DeleteZone(t, z)
        PROVE  ops < MaxOps /\ ops' = ops + 1
    BY <2>3 DEF DeleteZone, Start, MayStart
  <2>4. ASSUME NEW t \in Threads, NEW z \in Ids, NEW type \in {"CNAME", "A"},
               NEW n \in Asked(z),
               CreateRecordset(t, z, n, type)
        PROVE  ops < MaxOps /\ ops' = ops + 1
    BY <2>4 DEF CreateRecordset, Start, MayStart
  <2> QED BY <2>1, <2>2, <2>3, <2>4
<1> QED BY <1>0, <1>1, <1>2 DEF RestSound

-----------------------------------------------------------------------------
(* Recordsets                                                              *)

\* A thread that is about to store a recordset was so before, or has just checked it
LEMMA StoreFacts ==
    ASSUME NEW f, Sound(f), Next, NEW t \in Threads, call'[t].pc = "store"
    PROVE  \/ call'[t] = call[t]
           \/ rset' = rset /\ \E k \in Call : call'[t] = k /\ Alone(k)
<1>0. call \in [Threads -> Call]
    BY DEF Sound, CallsSound
<1>1. CASE UNCHANGED call
    BY <1>1
<1>2. ASSUME NEW u \in Threads, NEW z \in Ids, Inserted(u, z)
      PROVE  call'[t] = call[t]
    BY <1>0, <1>2 DEF Inserted, Call
<1>3. ASSUME NEW u \in Threads, NEW k \in Call, call' = [call EXCEPT ![u] = k],
             k = NoCall \/ Proceeds(f, call[u], k)
      PROVE  call'[t] = call[t]
    BY <1>0, <1>3 DEF NoCall, Proceeds
<1>4. ASSUME NEW u \in Threads, NEW z \in Ids, DeleteZone(u, z)
      PROVE  call'[t] = call[t]
    BY <1>0, <1>4 DEF DeleteZone, Start, NoCall
<1>5. ASSUME NEW u \in Threads, NEW n \in Names, NEW tenant \in Tenants, NEW type \in Types,
             CreateZone(u, n, tenant, type)
      PROVE  call'[t] = call[t]
    BY <1>0, <1>5, CreateFacts
<1>6. ASSUME NEW u \in Threads, NEW z \in Ids, NEW type \in {"CNAME", "A"},
             NEW n \in Asked(z),
             CreateRecordset(u, z, n, type)
      PROVE  \/ call'[t] = call[t]
             \/ rset' = rset /\ \E k \in Call : call'[t] = k /\ Alone(k)
  <2> DEFINE q == [zone |-> z, name |-> n, type |-> type, own |-> FALSE]
             k == [NoCall EXCEPT !.pc = "store", !.op = "recordset", !.id = z, !.new = {q}]
  <2>1. /\ call' = [call EXCEPT ![u] = k] /\ rset' = rset
        /\ \A r \in rset : r.zone = z /\ r.name = n =>
              type # "CNAME" /\ r.type # "CNAME"
    BY <1>6 DEF CreateRecordset, Start, _is_valid_recordset_placement
  <2>2. q \in Rset
    BY RsetNamesFacts DEF Rset
  <2>3. k \in Call /\ k.new = {q} /\ k.id = z
    BY <2>2 DEF NoCall, Call, NoRow, Zone
  <2> HIDE DEF k
  <2>4. Alone(k)
    BY <2>1, <2>2, <2>3 DEF Alone
  <2> QED BY <1>0, <2>1, <2>3, <2>4
<1> QED BY CallsGo, <1>1, <1>2, <1>3, <1>4, <1>5, <1>6

\* Recordsets are added by a thread that made sure, or by the creation of the zone
LEMMA RsetGrows ==
    ASSUME NEW f, Sound(f), Next
    PROVE  \A r \in rset' : \/ r \in rset
                            \/ r \in Rset /\ r.own /\ Stored(r.zone)
                            \/ \E t \in Threads :
                                  /\ call[t].pc = "store" /\ r \in call[t].new
                                  /\ StoreRecordset(t) /\ Stored(call[t].id)
<1>1. CASE UNCHANGED rset
    BY <1>1
<1>2. ASSUME NEW p \in Purgers, HardDelete(p)
      PROVE  rset' \subseteq rset
    BY <1>2 DEF HardDelete
<1>3. ASSUME NEW t \in Threads, StoreRecordset(t), NEW r \in rset', r \notin rset
      PROVE  call[t].pc = "store" /\ r \in call[t].new /\ Stored(call[t].id)
    BY <1>3 DEF StoreRecordset
<1>4. ASSUME NEW t \in Threads, CreateDefaultRecord(t), NEW r \in rset', r \notin rset
      PROVE  r \in Rset /\ r.own /\ Stored(r.zone)
  <2> DEFINE z == call[t].id
             n == zone[z].name
             a == [zone |-> z, name |-> n, type |-> "NS", own |-> TRUE]
             b == [zone |-> z, name |-> Append(n, "ns"), type |-> "A", own |-> TRUE]
  <2>1. z \in Ids
    BY <1>4, CallFacts DEF CreateDefaultRecord, CallSound, Placed, Used
  <2>2. Found(z) /\ rset' = rset \cup {a, b}
    BY <1>4 DEF CreateDefaultRecord
  <2>3. Stored(z)
    BY <2>2 DEF Found, Stored
  <2>4. n \in Names \cup {<<>>}
    BY <2>1 DEF Sound, ZonesSound, Zone
  <2> HIDE DEF n, z
  <2>5. n \in RsetNames /\ Append(n, "ns") \in RsetNames
    BY <2>4 DEF RsetNames
  <2>6. a \in Rset /\ b \in Rset
    BY <2>1, <2>4, <2>5 DEF Rset
  <2>7. a.own /\ b.own /\ a.zone = z /\ b.zone = z
    OBVIOUS
  <2> HIDE DEF a, b
  <2>8. r = a \/ r = b
    BY <1>4, <2>2
  <2> QED BY <2>3, <2>6, <2>7, <2>8
<1> QED BY RsetMove, <1>1, <1>2, <1>3, <1>4

\* Only a purge takes a row out of the table
LEMMA StoredKept ==
    ASSUME NEW f, Sound(f), Next, NEW z \in Ids, Stored(z)
    PROVE  Stored(z)' \/ \E p \in Purgers : HardDelete(p) /\ purge[p].now = z
<1>0. zone \in [Ids -> Zone]
    BY DEF Sound, ZonesSound
<1>1. CASE UNCHANGED zone
    BY <1>1 DEF Stored
<1>2. ASSUME NEW t \in Threads, NEW y \in Ids, Inserted(t, y)
      PROVE  Stored(z)'
    BY <1>0, <1>2 DEF Inserted, Stored
<1>3. ASSUME NEW t \in Threads, WriteDelete(t) \/ Abandon(t)
      PROVE  Stored(z)'
    BY <1>0, <1>3 DEF WriteDelete, Abandon, Stored, Found, Zone
<1>4. ASSUME NEW t \in Threads, WriteLink(t) \/ LinkAnswered(t)
      PROVE  Stored(z)'
    BY <1>0, <1>4 DEF WriteLink, LinkAnswered, Stored, Found, Zone
<1>5. ASSUME NEW y \in Ids, Deleted(y)
      PROVE  Stored(z)'
    BY <1>0, <1>5 DEF Deleted, Stored, Zone
<1>6. ASSUME NEW p \in Purgers, NEW r \in purge[p].rows, Reparent(p, r)
      PROVE  Stored(z)'
    BY <1>0, <1>6 DEF Reparent, Stored, Zone
<1>7. ASSUME NEW p \in Purgers, HardDelete(p), purge[p].now # z
      PROVE  Stored(z)'
    BY <1>0, <1>7 DEF HardDelete, Stored, Zone
<1> QED BY ZoneMove, InsertFacts, <1>1, <1>2, <1>3, <1>4, <1>5, <1>6, <1>7

\* The recordset a thread stores, and what the thread made sure of
LEMMA AloneFacts ==
    ASSUME NEW f, Sound(f), NEW t \in Threads, call[t].pc = "store", NEW q \in call[t].new
    PROVE  /\ call[t].new = {q} /\ q \in Rset /\ q.zone = call[t].id /\ ~q.own
           /\ \A r \in rset : ~r.own /\ r.zone = q.zone /\ r.name = q.name =>
                               q.type # "CNAME" /\ r.type # "CNAME"
BY DEF Sound, RsetsSound, Alone

\* Two threads never store recordsets of one zone
LEMMA StoreAlone ==
    ASSUME NEW f, Sound(f), NEW t \in Threads, NEW u \in Threads, t # u,
           call[t].pc = "store", call[u].pc = "store"
    PROVE  call[t].id # call[u].id
BY CallFacts DEF Sound, LocksSound

LEMMA RsetsStep ==
    ASSUME NEW f, Sound(f), Next, Quiet
    PROVE  RsetsSound'
<1> DEFINE New(r, t) == /\ call[t].pc = "store" /\ r \in call[t].new
                        /\ StoreRecordset(t) /\ Stored(call[t].id)
<1>0. RsetsSound
    BY DEF Sound
<1>1. \A r \in rset' : \/ r \in rset
                       \/ r \in Rset /\ r.own /\ Stored(r.zone)
                       \/ \E t \in Threads : New(r, t)
    BY RsetGrows
<1>2. \A r : \A t \in Threads : New(r, t) =>
         /\ r \in Rset /\ r.zone = call[t].id /\ ~r.own /\ call[t].new = {r}
         /\ Stored(r.zone)
         /\ \A q \in rset : ~q.own /\ q.zone = r.zone /\ q.name = r.name =>
                             q.type # "CNAME" /\ r.type # "CNAME"
    BY AloneFacts
<1>3. \A r \in rset' : r \in Rset /\ Stored(r.zone) /\ r.zone \in Ids
  <2>1. \A r \in Rset : r.zone \in Ids
    BY DEF Rset
  <2> HIDE DEF New
  <2> QED BY <1>0, <1>1, <1>2, <2>1 DEF RsetsSound
<1>4. \A r \in rset' : Stored(r.zone)'
  <2> SUFFICES ASSUME NEW r \in rset', ~Stored(r.zone)'
               PROVE  FALSE
    BY <1>3
  <2>1. PICK p \in Purgers : HardDelete(p) /\ purge[p].now = r.zone
    BY <1>3, StoredKept
  <2> QED BY <2>1 DEF HardDelete
<1>5. ASSUME NEW q \in rset', NEW r \in rset', q # r, ~q.own, ~r.own,
             q.zone = r.zone, q.name = r.name
      PROVE  q.type # "CNAME"
  <2>1. (q \in rset \/ \E t \in Threads : New(q, t)) /\ (r \in rset \/ \E t \in Threads : New(r, t))
    BY <1>1, <1>5
  <2>2. CASE q \in rset /\ r \in rset
    BY <1>0, <1>5, <2>2 DEF RsetsSound, CnameIsAlone
  <2>3. ASSUME NEW t \in Threads, New(q, t), r \in rset
        PROVE  q.type # "CNAME"
    BY <1>2, <1>5, <2>3
  <2>4. ASSUME NEW t \in Threads, New(r, t), q \in rset
        PROVE  q.type # "CNAME"
    BY <1>2, <1>5, <2>4
  <2>5. ASSUME NEW t \in Threads, NEW u \in Threads, New(q, t), New(r, u)
        PROVE  FALSE
    <3>1. call[t].new = {q} /\ call[u].new = {r} /\ call[t].id = call[u].id
      <4> HIDE DEF New
      <4> QED BY <1>2, <1>5, <2>5
    <3>2. t # u
        BY <1>5, <3>1
    <3> QED BY <2>5, <3>1, <3>2, StoreAlone
  <2> HIDE DEF New
  <2> QED BY <2>1, <2>2, <2>3, <2>4, <2>5
<1>6. ASSUME NEW t \in Threads, call'[t].pc = "store"
      PROVE  Alone(call[t])'
  <2>1. CASE call'[t] = call[t]
    <3>1. call[t].pc = "store"
        BY <1>6, <2>1
    <3>2. PICK q \in Rset :
            /\ call[t].new = {q} /\ q.zone = call[t].id /\ ~q.own
            /\ \A r \in rset : ~r.own /\ r.zone = q.zone /\ r.name = q.name =>
                                q.type # "CNAME" /\ r.type # "CNAME"
        BY <1>0, <3>1 DEF RsetsSound, Alone
    <3>3. ASSUME NEW r \in rset', ~r.own, r.zone = q.zone
          PROVE  r \in rset
      <4> SUFFICES ASSUME NEW u \in Threads, New(r, u) PROVE FALSE
        BY <1>1, <3>3
      <4>1. u # t
        <5>1. call' = [call EXCEPT ![u] = NoCall]
            BY DEF StoreRecordset, Return
        <5>2. call \in [Threads -> Call]
            BY DEF Sound, CallsSound
        <5> QED BY <1>6, <5>1, <5>2 DEF NoCall
      <4>2. r.zone = call[u].id
        BY <1>2
      <4> QED BY <3>1, <3>2, <3>3, <4>1, <4>2, StoreAlone
    <3> QED BY <2>1, <3>2, <3>3 DEF Alone
  <2>2. CASE rset' = rset /\ \E k \in Call : call'[t] = k /\ Alone(k)
    BY <2>2 DEF Alone
  <2> QED BY <1>6, <2>1, <2>2, StoreFacts
<1>7. CnameIsAlone'
    BY <1>5 DEF CnameIsAlone
<1>8. rset' \subseteq Rset
    BY <1>3
<1> QED BY <1>4, <1>6, <1>7, <1>8 DEF RsetsSound

-----------------------------------------------------------------------------
(* The step that creates a zone: f gets the name and the tenant of its id  *)

Remembers(f, t, z) ==
    [f EXCEPT ![z] = [name |-> call[t].row.name, tenant |-> call[t].row.tenant]]

LEMMA InsertKeeps ==
    ASSUME NEW f, Sound(f), NEW t \in Threads, NEW z \in Ids, Inserted(t, z), NEW g,
           g = Remembers(f, t, z)
    PROVE  /\ g \in [Ids -> Owner]
           /\ zone' \in [Ids -> Zone] /\ zone'[z] = call[t].row
           /\ ~Used(z) /\ ~Stored(z) /\ Used(z)' /\ Stored(z)' /\ Found(z)'
           /\ g[z].name = call[t].row.name /\ g[z].tenant = call[t].row.tenant
           /\ \A y \in Ids : y # z =>
                 /\ g[y] = f[y] /\ zone'[y] = zone[y] /\ (Stored(y)' <=> Stored(y))
                 /\ (Used(y)' <=> Used(y)) /\ (Found(y)' <=> Found(y))
           /\ \A y \in Ids : Used(y) => y # z
           /\ Placed(f, call[t]) /\ call[t].op = "create" /\ call[t].pc = "insert"
<1>0. zone \in [Ids -> Zone] /\ f \in [Ids -> Owner]
    BY DEF Sound, ZonesSound
<1>1. /\ call[t] \in Call /\ Placed(f, call[t])
      /\ call[t].op = "create" /\ call[t].pc = "insert"
    BY CallFacts DEF Inserted, CallSound
<1>2. /\ call[t].row \in Zone /\ call[t].row.state = "live"
      /\ call[t].row.name \in Seq(STRING) /\ call[t].row.tenant \in Tenants \cup {None}
    BY <1>1 DEF Call, Placed, Zone
<1>3. [name |-> call[t].row.name, tenant |-> call[t].row.tenant] \in Owner
    BY <1>2 DEF Owner
<1>4. /\ g \in [Ids -> Owner] /\ \A y \in Ids : y # z => g[y] = f[y]
      /\ g[z].name = call[t].row.name /\ g[z].tenant = call[t].row.tenant
    BY <1>0, <1>3 DEF Remembers
<1>5. /\ zone' \in [Ids -> Zone] /\ zone'[z] = call[t].row
      /\ \A y \in Ids : y # z => zone'[y] = zone[y]
      /\ zone[z].state = "none"
    BY <1>0, <1>2 DEF Inserted
<1>6. ~Used(z) /\ ~Stored(z) /\ Used(z)' /\ Stored(z)' /\ Found(z)'
    BY <1>2, <1>5 DEF Used, Stored, Found
<1>7. \A y \in Ids : y # z =>
         /\ (Stored(y)' <=> Stored(y)) /\ (Used(y)' <=> Used(y)) /\ (Found(y)' <=> Found(y))
    BY <1>5 DEF Used, Stored, Found
<1> QED BY <1>1, <1>4, <1>5, <1>6, <1>7

LEMMA InsertZones ==
    ASSUME NEW f, Sound(f), NEW t \in Threads, NEW z \in Ids, Inserted(t, z), NEW g,
           g = Remembers(f, t, z)
    PROVE  ZonesSound(g)' /\ NamesSound'
<1> USE InsertKeeps
<1>0. /\ ZonesSound(f) /\ TreeAssumption /\ None \notin Ids /\ zone \in [Ids -> Zone]
      /\ NamesSound /\ Fits(call[t])
    BY DEF Sound, ZonesSound, TreeAssumption, InsertsFit, Inserted
<1>1. ASSUME NEW y \in Ids, zone'[y].parent # None
      PROVE  Stored(zone[y].parent)' /\ Under(g, y, zone'[y].parent)
  <2>1. CASE y = z
    <3>0. PICK p : p = call[t].row.parent
        OBVIOUS
    <3>1. p # None /\ zone'[z].parent = p /\ p \in Ids /\ Used(p) /\ Stored(p)
      <4>1. zone'[z].parent = p /\ p # None
        BY <1>1, <2>1, <3>0
      <4>2. Placed(f, call[t])
        OBVIOUS
      <4>3. Used(p)
        BY <3>0, <4>1, <4>2 DEF Placed
      <4>4. Stored(p)
        BY <3>0, <4>1 DEF Inserted, RefersToRow
      <4> QED BY <4>1, <4>3, <4>4 DEF Used
    <3>2. p # z /\ Stored(p)' /\ g[p] = f[p]
        BY <3>1
    <3>3. Below(call[t].row.name, f[p].name) /\ f[p].tenant = call[t].row.tenant
        BY <3>0, <3>1 DEF Placed
    <3>4. Stored(zone[z].parent)'
        BY <3>1, <3>2 DEF Stored
    <3> QED BY <2>1, <3>1, <3>2, <3>3, <3>4 DEF Under
  <2>2. CASE y # z
    <3>0. PICK p : p = zone[y].parent
        OBVIOUS
    <3>1. zone'[y].parent = p /\ p # None
        BY <1>1, <2>2, <3>0
    <3>2. p \in Ids /\ Stored(p) /\ Under(f, y, p)
        BY <1>0, <3>0, <3>1 DEF ZonesSound, Zone
    <3>3. p # z /\ Stored(p)' /\ g[p] = f[p] /\ g[y] = f[y]
        BY <2>2, <3>2
    <3>4. Stored(zone[y].parent)'
        BY <3>1, <3>3 DEF Stored
    <3> QED BY <3>1, <3>2, <3>3, <3>4 DEF Under
  <2> QED BY <2>1, <2>2
<1>2. \A y \in Ids : /\ Stored(y)' => /\ g[y].name = zone'[y].name
                                      /\ g[y].tenant = zone'[y].tenant
                     /\ ~Stored(y)' => zone'[y].name = <<>> /\ zone'[y].parent = None
    BY <1>0 DEF ZonesSound
<1>3. ZonesSound(g)'
    BY <1>0, <1>1, <1>2 DEF ZonesSound, TreeAssumption, Under
<1>4. ASSUME NEW x \in Ids, NEW y \in Ids, Found(x)', Found(y)',
             Below(zone'[x].name, zone'[y].name)
      PROVE  zone'[x].tenant = zone'[y].tenant
  <2>1. CASE x # z /\ y # z
    BY <1>0, <1>4, <2>1 DEF NamesSound, OneTenantPerTree
  <2>2. CASE x = z /\ y # z
    BY <1>0, <1>4, <2>2 DEF Fits
  <2>3. CASE x # z /\ y = z
    BY <1>0, <1>4, <2>3 DEF Fits
  <2> QED BY <2>1, <2>2, <2>3
<1>5. ASSUME NEW x \in Ids, NEW y \in Ids, Found(x)', Found(y)', zone'[x].name = zone'[y].name
      PROVE  x = y
  <2>1. \A v \in Ids : Found(v) => zone[v].name # call[t].row.name
    BY DEF Inserted
  <2>2. CASE x # z /\ y # z
    BY <1>0, <1>5, <2>2 DEF NamesSound
  <2>3. CASE x = z \/ y = z
    BY <1>5, <2>1, <2>3
  <2> QED BY <2>2, <2>3
<1>6. NamesSound'
    BY <1>4, <1>5 DEF NamesSound, OneTenantPerTree
<1> QED BY <1>3, <1>6

LEMMA InsertCalls ==
    ASSUME NEW f, Sound(f), NEW t \in Threads, NEW z \in Ids, Inserted(t, z), NEW g,
           g = Remembers(f, t, z)
    PROVE  CallsSound(g)' /\ LocksSound' /\ InsertsFit' /\ RsetsSound'
<1>k. PICK k : k = call[t]
    OBVIOUS
<1>c. PICK c : c = [k EXCEPT !.pc = "call", !.id = z]
    OBVIOUS
<1>0. /\ call \in [Threads -> Call] /\ k \in Call /\ LocksSound /\ RsetsSound
      /\ \A u \in Threads : CallSound(f, call[u])
    BY <1>k DEF Sound, CallsSound
<1>1. /\ call' = [call EXCEPT ![t] = c] /\ rset' = rset
    BY <1>0, <1>k, <1>c DEF Inserted, Call
<1>2. /\ c \in Call /\ c.pc = "call" /\ c.id = z /\ c.op = k.op /\ c.row = k.row
      /\ c.below = k.below
    BY <1>0, <1>c DEF Call
<1>3. /\ k.op = "create" /\ k.pc = "insert" /\ Placed(f, k)
    BY <1>k, InsertKeeps
<1>4. /\ call' \in [Threads -> Call] /\ call'[t] = c
      /\ \A u \in Threads : u # t => /\ call'[u] = call[u] /\ call[u].op # "create"
                                     /\ call[u].pc # "insert"
  <2>1. \A u \in Threads : u # t => call[u].op # "create"
    BY <1>0, <1>3, <1>k DEF LocksSound
  <2> QED BY <1>0, <1>1, <1>2, <2>1, CallFacts
<1>5. CallSound(g, c)'
  <2>1. \A y : Used(y) => /\ y \in Ids /\ y # z /\ Used(y)' /\ g[y] = f[y]
    BY InsertKeeps DEF Used
  <2>2. Used(z)' /\ g[z].name = k.row.name /\ g[z].tenant = k.row.tenant
    BY <1>k, InsertKeeps
  <2>3. k.row.state = "live" /\ k.row.name \in Seq(STRING)
    BY <1>3 DEF Placed
  <2>4. k.row.parent # None => /\ Used(k.row.parent)'
                               /\ Below(k.row.name, g[k.row.parent].name)
                               /\ g[k.row.parent].tenant = k.row.tenant
    BY <1>3, <2>1 DEF Placed
  <2>5. \A y \in k.below : /\ Used(y)' /\ Below(g[y].name, k.row.name)
                           /\ g[y].tenant = k.row.tenant
    BY <1>3, <2>1 DEF Placed
  <2>6. Placed(g, c)'
    BY <1>2, <2>2, <2>3, <2>4, <2>5 DEF Placed, OriginSound
  <2> QED BY <1>2, <1>3, <2>6 DEF CallSound, PcOf
<1>6. ASSUME NEW u \in Threads, u # t
      PROVE  CallSound(g, call[u])'
  <2>1. \A y : Used(y) => Used(y)'
    BY InsertKeeps DEF Used
  <2> QED BY <1>0, <1>4, <1>6, <2>1 DEF CallSound
<1>7. CallSound(g, call[t])'
    BY <1>4, <1>5 DEF CallSound, Placed
<1>8. CallsSound(g)'
    BY <1>4, <1>6, <1>7 DEF CallsSound
<1>9. LocksSound'
    BY <1>0, <1>2, <1>3, <1>4 DEF LocksSound
<1>10. InsertsFit'
    BY <1>2, <1>4 DEF InsertsFit
<1>11. RsetsSound'
  <2>1. \A r \in rset : Stored(r.zone)'
    <3>1. \A r \in rset : r.zone \in Ids /\ Stored(r.zone)
        BY <1>0 DEF RsetsSound, Rset
    <3> QED BY <3>1, InsertKeeps
  <2>2. CnameIsAlone'
    BY <1>0, <1>1 DEF RsetsSound, CnameIsAlone
  <2>3. \A u \in Threads : call'[u].pc = "store" => Alone(call[u])'
    BY <1>0, <1>1, <1>2, <1>4 DEF RsetsSound, Alone
  <2> QED BY <1>0, <1>1, <2>1, <2>2, <2>3 DEF RsetsSound
<1> QED BY <1>8, <1>9, <1>10, <1>11

LEMMA InsertStep ==
    ASSUME NEW f, Sound(f), NEW t \in Threads, NEW z \in Ids, Inserted(t, z)
    PROVE  \E g : Sound(g)'
<1>1. PICK g : g = Remembers(f, t, z)
    OBVIOUS
<1>2. PurgesSound(g)'
  <2>1. PurgesSound(f) /\ purge' = purge
    BY DEF Sound, Inserted
  <2>2. \A y : Used(y) => y \in Ids /\ Used(y)' /\ g[y] = f[y]
    BY <1>1, InsertKeeps DEF Used
  <2> QED BY <2>1, <2>2 DEF PurgesSound, Under
<1>3. RestSound'
    BY DEF Sound, RestSound, Inserted
<1>4. ZonesSound(g)' /\ NamesSound' /\ CallsSound(g)' /\ LocksSound' /\ InsertsFit' /\ RsetsSound'
    BY <1>1, InsertZones, InsertCalls
<1> QED BY <1>2, <1>3, <1>4 DEF Sound

-----------------------------------------------------------------------------
(* The invariant                                                           *)

LEMMA SoundInit ==
    ASSUME TreeAssumption, Init
    PROVE  \E f : Sound(f)
<1> DEFINE f == [z \in Ids |-> [name |-> <<>>, tenant |-> None]]
<1>0. None \notin Ids /\ MaxOps \in Nat
    BY DEF TreeAssumption
<1>1. f \in [Ids -> Owner]
    BY DEF Owner
<1> HIDE DEF f
<1>2. /\ zone \in [Ids -> Zone]
      /\ \A z \in Ids : /\ zone[z].name = <<>> /\ zone[z].parent = None
                        /\ ~Stored(z) /\ ~Found(z)
    BY DEF Init, NoRow, Zone, Stored, Found
<1>3. ZonesSound(f) /\ NamesSound
    BY <1>1, <1>2 DEF ZonesSound, NamesSound, OneTenantPerTree
<1>4. /\ call \in [Threads -> Call]
      /\ \A t \in Threads : call[t].pc = "idle" /\ call[t].op = "none"
    BY DEF Init, NoCall, Call, NoRow, Zone
<1>5. CallsSound(f) /\ LocksSound /\ InsertsFit
    BY <1>4 DEF CallsSound, CallSound, PcOf, LocksSound, InsertsFit
<1>6. PurgesSound(f)
    BY DEF Init, PurgesSound, Purge, Idle
<1>7. rset = {} /\ work = {} /\ ops = 0
    BY DEF Init
<1>8. RsetsSound /\ RestSound
    BY <1>0, <1>4, <1>7 DEF RsetsSound, CnameIsAlone, RestSound
<1> QED BY <1>3, <1>5, <1>6, <1>8 DEF Sound

LEMMA SoundStep ==
    ASSUME NEW f, Sound(f), [Next]_vars
    PROVE  \E g : Sound(g)'
<1>1. CASE \E t \in Threads : \E z \in Ids : Inserted(t, z)
    BY <1>1, InsertStep
<1>2. CASE Next /\ ZonesSound(f)' /\ Quiet /\ ~\E t \in Threads : \E z \in Ids : Inserted(t, z)
  <2>1. CallsSound(f)' /\ LocksSound' /\ InsertsFit'
    BY <1>2, CallsStep
  <2>2. NamesSound' /\ PurgesSound(f)' /\ RsetsSound' /\ RestSound'
    BY <1>2, NamesKept, PurgesStep, RsetsStep, RestStep DEF Sound
  <2>3. Sound(f)'
    BY <1>2, <2>1, <2>2 DEF Sound
  <2> QED BY <2>3
<1>3. CASE UNCHANGED vars
  <2>1. Sound(f)'
    BY <1>3 DEF vars, Sound, ZonesSound, NamesSound, OneTenantPerTree, Found, Stored,
                Under, CallsSound, CallSound, Placed, OriginSound, Used, LocksSound, InsertsFit, Fits,
                PurgesSound, RsetsSound, CnameIsAlone, Alone, RestSound
  <2> QED BY <2>1
<1> QED BY <1>1, <1>2, <1>3, ZonesStep

LEMMA SoundTypes ==
    ASSUME NEW f, Sound(f)
    PROVE  TypeOK
<1>1. \A t \in Threads : call[t].below \subseteq Ids
    BY DEF Sound, CallsSound, Call
<1>2. \A p \in Purgers : \A r \in purge[p].rows : r.id \in Ids
    BY DEF Sound, PurgesSound, Purge
<1>3. \A r \in rset : r.zone \in Ids /\ Stored(r.zone)
    BY DEF Sound, RsetsSound, Rset
<1> QED BY <1>1, <1>2, <1>3 DEF Sound, ZonesSound, RestSound, TypeOK

LEMMA SoundTree ==
    ASSUME NEW f, Sound(f)
    PROVE  TreeIsSound
<1>1. ParentIsAbove
  <2> SUFFICES ASSUME NEW z \in Ids, Stored(z), zone[z].parent # None
               PROVE  /\ Stored(zone[z].parent)
                      /\ Below(zone[z].name, zone[zone[z].parent].name)
                      /\ zone[zone[z].parent].tenant = zone[z].tenant
    BY DEF ParentIsAbove
  <2>1. zone[z].parent \in Ids /\ Stored(zone[z].parent) /\ Under(f, z, zone[z].parent)
    BY DEF Sound, ZonesSound, Zone
  <2>2. \A y \in Ids : Stored(y) => f[y].name = zone[y].name /\ f[y].tenant = zone[y].tenant
    BY DEF Sound, ZonesSound
  <2> QED BY <2>1, <2>2 DEF Under
<1> QED BY <1>1 DEF Sound, NamesSound, RsetsSound, TreeIsSound

SomeSound == \E f : Sound(f)

LEMMA Invariant == TreeAssumption => (Spec => []SomeSound)
<1>1. TreeAssumption /\ Init => SomeSound
    BY SoundInit DEF SomeSound
<1>2. SomeSound /\ [Next]_vars => SomeSound'
  <2> SUFFICES ASSUME SomeSound, [Next]_vars PROVE SomeSound'
    OBVIOUS
  <2>1. PICK f : Sound(f)
    BY DEF SomeSound
  <2>2. \E g : Sound(g)'
    BY <2>1, SoundStep
  <2> QED BY <2>2 DEF SomeSound
<1> QED BY <1>1, <1>2, PTL DEF Spec

\* Every row has its type, a purged row is empty and no recordset is left behind
\* when purge_zone removes its zone, for any number of zones, threads and purges.
THEOREM TypeCorrect == TreeAssumption => (Spec => []TypeOK)
<1>1. SomeSound => TypeOK
    BY SoundTypes DEF SomeSound
<1> QED BY <1>1, Invariant, PTL

\* parent_zone_id always names a row above, of the same tenant, so that
\* _walk_up_zones never meets a loop; no tenant gets a zone in another's tree
\* (IllegalChildZone, IllegalParentZone); and a CNAME shares its name with no other
\* recordset of a client: however create_zone, delete_zone, create_recordset and
\* the purges of designate-producer interleave.
THEOREM TreeStaysSound == TreeAssumption => (Spec => []TreeIsSound)
<1>1. SomeSound => TreeIsSound
    BY SoundTree DEF SomeSound
<1> QED BY <1>1, Invariant, PTL
=============================================================================
