------------------------------ MODULE ZoneTree ------------------------------
(***************************************************************************)
(* Zones inside zones.  create_zone looks for the zone above the new one   *)
(* and for the zones below it, and keeps what it finds in parent_zone_id;  *)
(* delete_zone refuses a zone that is somebody's parent; the purge of      *)
(* designate-producer takes deleted rows away and mends the links; and     *)
(* create_recordset keeps out of the names of the zones below.  A lock of  *)
(* the central process covers the creations, another one each zone; the    *)
(* purge takes none.                                                       *)
(*                                                                         *)
(* A name is the sequence of its labels from the top, so that a zone lies  *)
(* below another when its name extends the other's.  All zones are in one  *)
(* pool.  What a zone looks like on the device is in ZoneLifecycle.tla.    *)
(***************************************************************************)
EXTENDS Naturals, Sequences, FiniteSets, SequencesExt

CONSTANTS
    Ids,        \* zone ids
    Names,      \* the names asked for
    Tlds,       \* the tlds table
    Blacklist,  \* the names a blacklists pattern matches
    Tenants,
    Threads,    \* threads of the central process
    Purgers,    \* DeletedZonePurgeTask runs at a time
    Batch,      \* batch_size
    MaxOps,     \* bound on the requests
    None        \* the null value

\* Names are sequences of labels, and NULL is not an id
TreeAssumption ==
    /\ Names \subseteq Seq(STRING)
    /\ None \notin Ids
    /\ MaxOps \in Nat

VARIABLES
    zone,   \* the zones table
    rset,   \* the recordsets table
    work,   \* zones whose deletion the worker is busy with
    call,   \* what each central thread does
    purge,  \* what each purge has left to do
    ops     \* requests so far

vars == <<zone, rset, work, call, purge, ops>>

----------------------------------------------------------------------------
Types == {"PRIMARY", "SECONDARY"}

Zone == [name : Names \cup {<<>>}, tenant : Tenants \cup {None},
         type : Types \cup {None}, parent : Ids \cup {None},
         state : {"none", "live", "deleting", "deleted", "purged"}]

NoRow == [name |-> <<>>, tenant |-> None, type |-> None, parent |-> None,
           state |-> "none"]

\* The name of a zone, or "ns" below it
RsetNames == LET apex == Names \cup {<<>>}
             IN  apex \cup {Append(n, "ns") : n \in apex}

\* The recordsets of create_default_record have own = TRUE
Rset == [zone : Ids, name : RsetNames, type : {"CNAME", "A", "NS"}, own : BOOLEAN]

NoCall == [pc |-> "idle", op |-> "none", id |-> None, row |-> NoRow,
           below |-> {}, sub |-> None, was |-> None, new |-> {}]

\* In the table; not soft-deleted, which is what a find sees
Stored(z) == zone[z].state \in {"live", "deleting", "deleted"}
Found(z) == zone[z].state \in {"live", "deleting"}

Below(m, n) == IsStrictPrefix(n, m)

\* ForeignKeyConstraint(['parent_zone_id'], ['zones.id'])
RefersToRow(p) == p # None => Stored(p)

MayStart(t) == call[t].pc = "idle" /\ ops < MaxOps

Start(t, k) == /\ call' = [call EXCEPT ![t] = k]
               /\ ops' = ops + 1

Goto(t, pc) == call' = [call EXCEPT ![t].pc = pc]
Return(t) == call' = [call EXCEPT ![t] = NoCall]

\* synchronized_zone: one creation at a time, one operation of a zone at a time
NewLockFree == \A t \in Threads : call[t].op # "create"
ZoneLockFree(t, z) == \A u \in Threads \ {t} :
                         /\ call[u].id = z => call[u].op = "create"
                         /\ call[u].sub # z

----------------------------------------------------------------------------
(* create_zone *)

\* Any pattern of the table; one that takes too long counts as a match
_is_blacklisted_zone_name(n) == n \in Blacklist

\* More than one label, a known TLD, not the TLD itself, not blacklisted
_is_valid_zone_name(n) ==
    /\ Len(n) > 1
    /\ Tlds # {} => <<n[1]>> \in Tlds /\ n \notin Tlds
    /\ ~_is_blacklisted_zone_name(n)

\* Faulty variant of _is_subzone: the search stops at the first label.
SubzoneOfNearest(n) ==
    LET above == {z \in Ids : Found(z) /\ zone[z].name = Front(n)}
    IN  IF above = {} THEN None ELSE CHOOSE z \in above : TRUE

\* The nearest zone above: the labels are taken off one by one
_is_subzone(n) ==
    LET above == {z \in Ids : Found(z) /\ Below(n, zone[z].name)}
    IN  IF above = {} THEN None
        ELSE CHOOSE z \in above :
                \A y \in above : Len(zone[y].name) <= Len(zone[z].name)

\* Every zone below, not only the next ones
_is_superzone(n) == {z \in Ids : Found(z) /\ Below(zone[z].name, n)}

\* IllegalChildZone and IllegalParentZone; the same name is refused below
CreateZone(t, n, tenant, type) ==
    LET above == _is_subzone(n)
        below == _is_superzone(n)
    IN  /\ MayStart(t)
        /\ NewLockFree
        /\ _is_valid_zone_name(n)
        /\ above # None => zone[above].tenant = tenant
        /\ \A z \in below : zone[z].tenant = tenant
        /\ Start(t, [NoCall EXCEPT !.pc = "insert", !.op = "create",
                        !.row = [name |-> n, tenant |-> tenant, type |-> type,
                                 parent |-> above, state |-> "live"],
                        !.below = below])
        /\ UNCHANGED <<zone, rset, work, purge>>

\* _create_zone_in_storage; UniqueConstraint('name', 'deleted', 'pool_id')
InsertZone(t) ==
    LET k == call[t]
        free == {z \in Ids : zone[z].state = "none"}
    IN  /\ k.pc = "insert"
        /\ IF /\ \A z \in Ids : Found(z) => zone[z].name # k.row.name
              /\ RefersToRow(k.row.parent)
           THEN \E z \in free :
                   /\ \A y \in free : z <= y
                   /\ zone' = [zone EXCEPT ![z] = k.row]
                   /\ call' = [call EXCEPT ![t].pc = "call", ![t].id = z]
           ELSE Return(t) /\ UNCHANGED zone
        /\ UNCHANGED <<rset, work, purge, ops>>

\* _is_valid_recordset_placement: a CNAME is alone with its name
_is_valid_recordset_placement(z, n, type) ==
    /\ type = "CNAME" => n # zone[z].name
    /\ \A r \in rset : r.zone = z /\ r.name = n =>
                          type # "CNAME" /\ r.type # "CNAME"

\* The loop over the zones below goes on with those left, or the creation ends
Continue(t, left) ==
    call' = [call EXCEPT ![t] =
                IF left = {} THEN NoCall
                ELSE [call[t] EXCEPT !.pc = "link", !.below = left,
                                     !.sub = None, !.was = None]]

\* zone_api.create_zone raises and the zone stays as it is, or it returns and
\* create_default_record follows: NS at the apex, A at "ns."; one transaction
CreateDefaultRecord(t) ==
    LET z == call[t].id
        n == zone[z].name
        ns == Append(n, "ns")
    IN  /\ call[t].pc = "call"
        /\ \/ /\ Found(z) /\ _is_valid_recordset_placement(z, ns, "A")
              /\ rset' = rset \cup
                    {[zone |-> z, name |-> n, type |-> "NS", own |-> TRUE],
                     [zone |-> z, name |-> ns, type |-> "A", own |-> TRUE]}
              /\ Continue(t, call[t].below)
           \/ Return(t) /\ UNCHANGED rset
        /\ UNCHANGED <<zone, work, purge, ops>>

\* update_zone of a zone below, under its lock: _get_origin_zone keeps the link
\* it has now
LinkBelow(t, z) ==
    LET k == call[t]
    IN  /\ k.pc = "link" /\ z \in k.below
        /\ ZoneLockFree(t, z)
        /\ \/ /\ Found(z)
              /\ call' = [call EXCEPT ![t] = [k EXCEPT !.pc = "origin", !.sub = z,
                                                       !.was = zone[z].parent]]
           \/ ~Found(z) /\ Return(t)
        /\ UNCHANGED <<zone, rset, work, purge, ops>>

\* Faulty variant of WriteLink: the two ids are exchanged.
LinkSwapped(t) ==
    LET k == call[t]
        z == k.sub
    IN  /\ k.pc = "origin"
        /\ IF Found(z) /\ zone[z].type = "SECONDARY" /\ RefersToRow(k.id)
           THEN /\ zone' = [zone EXCEPT ![k.id].parent = z, ![z].state = "live"]
                /\ Goto(t, "linked")
           ELSE Return(t) /\ UNCHANGED zone
        /\ UNCHANGED <<rset, work, purge, ops>>

\* _update_zone_in_storage, with the serial: for a PRIMARY zone there is no SOA
\* recordset to update, the transaction fails and the call with it.  A zone
\* that is being deleted is in UPDATE again.
WriteLink(t) ==
    LET k == call[t]
        z == k.sub
    IN  /\ k.pc = "origin"
        /\ IF Found(z) /\ zone[z].type = "SECONDARY" /\ RefersToRow(k.id)
           THEN /\ zone' = [zone EXCEPT ![z].parent = k.id, ![z].state = "live"]
                /\ Goto(t, "linked")
           ELSE Return(t) /\ UNCHANGED zone
        /\ UNCHANGED <<rset, work, purge, ops>>

\* zone_api.update_zone returns, or raises: then the link the zone had is
\* written back, unless its row is gone, and the creation ends there.
LinkAnswered(t) ==
    LET k == call[t]
        z == k.sub
    IN  /\ k.pc = "linked"
        /\ \/ Continue(t, k.below \ {z}) /\ UNCHANGED zone
           \/ /\ IF Found(z) /\ RefersToRow(k.was)
                 THEN zone' = [zone EXCEPT ![z].parent = k.was]
                 ELSE UNCHANGED zone
              /\ Return(t)
        /\ UNCHANGED <<rset, work, purge, ops>>

----------------------------------------------------------------------------
(* delete_zone *)

\* ZoneHasSubZone: the children are counted, and the row is written later
DeleteZone(t, z) ==
    /\ MayStart(t)
    /\ Found(z)
    /\ ZoneLockFree(t, z)
    /\ \A y \in Ids : Found(y) => zone[y].parent # z
    /\ Start(t, [NoCall EXCEPT !.pc = "write", !.op = "delete", !.id = z])
    /\ UNCHANGED <<zone, rset, work, purge>>

\* DELETE and PENDING, for the worker to see to
WriteDelete(t) ==
    LET z == call[t].id
    IN  /\ call[t].pc = "write" /\ call[t].op = "delete"
        /\ zone' = [zone EXCEPT ![z].state = IF Found(z) THEN "deleting" ELSE @]
        /\ work' = IF Found(z) THEN work \cup {z} ELSE work
        /\ Return(t)
        /\ UNCHANGED <<rset, purge, ops>>

\* With context.abandon the row is soft-deleted here and now
Abandon(t) ==
    LET z == call[t].id
    IN  /\ call[t].pc = "write" /\ call[t].op = "delete"
        /\ zone' = [zone EXCEPT ![z].state = IF Found(z) THEN "deleted" ELSE @]
        /\ Return(t)
        /\ UNCHANGED <<rset, work, purge, ops>>

\* update_zone_status soft-deletes the zone when the device has removed it
Deleted(z) ==
    /\ z \in work
    /\ work' = work \ {z}
    /\ zone' = [zone EXCEPT ![z].state = IF @ = "deleting" THEN "deleted" ELSE @]
    /\ UNCHANGED <<rset, call, purge, ops>>

----------------------------------------------------------------------------
(* create_recordset *)

\* _is_valid_recordset_name: at or below the apex
_is_valid_recordset_name(n, m) == IsPrefix(m, n)

\* Not at or below the apex of a zone that has this one as its parent
_is_valid_recordset_placement_subzone(z, n) ==
    n # zone[z].name =>
        \A y \in Ids : Found(y) /\ zone[y].parent = z =>
                          ~_is_valid_recordset_name(n, zone[y].name)

\* Faulty variant of CreateRecordset: only CNAMEs look for a shared name.
CreateRecordsetUnchecked(t, z, n, type) ==
    /\ MayStart(t)
    /\ zone[z].state = "live"
    /\ ZoneLockFree(t, z)
    /\ _is_valid_recordset_name(n, zone[z].name)
    /\ type = "CNAME" => _is_valid_recordset_placement(z, n, type)
    /\ _is_valid_recordset_placement_subzone(z, n)
    /\ Start(t, [NoCall EXCEPT !.pc = "store", !.op = "recordset", !.id = z,
           !.new = {[zone |-> z, name |-> n, type |-> type, own |-> FALSE]}])
    /\ UNCHANGED <<zone, rset, work, purge>>

\* _validate_recordset, in the transaction that stores the recordset
CreateRecordset(t, z, n, type) ==
    /\ MayStart(t)
    /\ zone[z].state = "live"
    /\ ZoneLockFree(t, z)
    /\ _is_valid_recordset_name(n, zone[z].name)
    /\ _is_valid_recordset_placement(z, n, type)
    /\ _is_valid_recordset_placement_subzone(z, n)
    /\ Start(t, [NoCall EXCEPT !.pc = "store", !.op = "recordset", !.id = z,
           !.new = {[zone |-> z, name |-> n, type |-> type, own |-> FALSE]}])
    /\ UNCHANGED <<zone, rset, work, purge>>

\* UniqueConstraint('zone_id', 'name', 'type')
StoreRecordset(t) ==
    LET k == call[t]
        same == {r \in rset : \E q \in k.new : /\ r.zone = q.zone
                                               /\ r.name = q.name
                                               /\ r.type = q.type}
    IN  /\ k.pc = "store"
        /\ rset' = IF Stored(k.id) /\ same = {} THEN rset \cup k.new ELSE rset
        /\ Return(t)
        /\ UNCHANGED <<zone, work, purge, ops>>

----------------------------------------------------------------------------
(* DeletedZonePurgeTask and purge_zones *)

\* zones_by_id, the ids the loop has left, the one it is at
Idle == [rows |-> {}, left |-> {}, now |-> None]

\* find_zones of deleted rows, at most batch_size of them: the ids and the
\* links as they are read
PurgeList(p) ==
    /\ purge[p] = Idle
    /\ \E zs \in SUBSET {z \in Ids : zone[z].state = "deleted"} :
          /\ zs # {} /\ Cardinality(zs) <= Batch
          /\ purge' = [purge EXCEPT ![p] =
                [rows |-> {[id |-> z, parent |-> zone[z].parent] : z \in zs},
                 left |-> zs, now |-> None]]
    /\ UNCHANGED <<zone, rset, work, call, ops>>

\* The ids a walk from r comes by: from a zone of the rows it goes on to the
\* parent_zone_id that was read for it
Passed(r, rows) ==
    {u \in Ids \cup {None} :
        \A S \in SUBSET (Ids \cup {None}) :
            /\ r.id \in S
            /\ \A q \in rows : q.id \in S => q.parent \in S
            => u \in S}

\* The first of them that is not one of the rows; there is none when the links
\* make a loop, which raises.  The walk counts MAXIMUM_SUBZONE_DEPTH (128) steps
\* to notice: no name has so many labels.
_walk_up_zones(r, rows) == {u \in Passed(r, rows) : \A q \in rows : q.id # u}

\* The children get the surviving parent; the foreign key refuses one that
\* another purge has taken away, and the task ends there.
Reparent(p, r) ==
    LET survivor == _walk_up_zones(r, purge[p].rows)
        children == {z \in Ids : Stored(z) /\ zone[z].parent = r.id}
        refused(up) == children # {} /\ ~RefersToRow(up)
    IN  /\ purge[p].now = None /\ r.id \in purge[p].left
        /\ \/ \E up \in survivor :
              /\ ~refused(up)
              /\ purge' = [purge EXCEPT ![p].now = r.id]
              /\ zone' = [z \in Ids |-> IF z \in children
                             THEN [zone[z] EXCEPT !.parent = up] ELSE zone[z]]
           \/ /\ \A up \in survivor : refused(up)
              /\ purge' = [purge EXCEPT ![p] = Idle]
              /\ UNCHANGED zone
        /\ UNCHANGED <<rset, work, call, ops>>

\* Faulty variant of HardDelete: the recordsets of the zone stay.
HardDeleteZoneOnly(p) ==
    LET z == purge[p].now
        left == purge[p].left \ {z}
    IN  /\ z # None
        /\ zone' = [y \in Ids |->
              IF y = z THEN [NoRow EXCEPT !.state = "purged"]
              ELSE IF zone[y].parent = z THEN [zone[y] EXCEPT !.parent = None]
              ELSE zone[y]]
        /\ purge' = [purge EXCEPT ![p] = IF ~Stored(z) \/ left = {} THEN Idle
                                 ELSE [purge[p] EXCEPT !.left = left, !.now = None]]
        /\ UNCHANGED <<rset, work, call, ops>>

\* purge_zone.  The foreign keys take the recordsets along and set who still
\* refers to the row to NULL; a row that is gone raises ZoneNotFound, which
\* ends the task.
HardDelete(p) ==
    LET z == purge[p].now
        left == purge[p].left \ {z}
    IN  /\ z # None
        /\ zone' = [y \in Ids |->
              IF y = z THEN [NoRow EXCEPT !.state = "purged"]
              ELSE IF zone[y].parent = z THEN [zone[y] EXCEPT !.parent = None]
              ELSE zone[y]]
        /\ rset' = {r \in rset : r.zone # z}
        /\ purge' = [purge EXCEPT ![p] = IF ~Stored(z) \/ left = {} THEN Idle
                                 ELSE [purge[p] EXCEPT !.left = left, !.now = None]]
        /\ UNCHANGED <<work, call, ops>>

----------------------------------------------------------------------------
Init ==
    /\ zone = [z \in Ids |-> NoRow]
    /\ rset = {}
    /\ work = {}
    /\ call = [t \in Threads |-> NoCall]
    /\ purge = [p \in Purgers |-> Idle]
    /\ ops = 0

\* The names of recordsets a client asks for: those of zones, and the name
\* that create_default_record takes
Asked(z) == Names \cup {Append(zone[z].name, "ns")}

Request(t) ==
    \/ \E n \in Names, tenant \in Tenants, type \in Types :
          CreateZone(t, n, tenant, type)
    \/ \E z \in Ids : DeleteZone(t, z)
    \/ \E z \in Ids, type \in {"CNAME", "A"} : \E n \in Asked(z) :
          CreateRecordset(t, z, n, type)

CentralStep(t) ==
    \/ InsertZone(t) \/ CreateDefaultRecord(t)
    \/ \E z \in Ids : LinkBelow(t, z)
    \/ WriteLink(t) \/ LinkAnswered(t)
    \/ WriteDelete(t) \/ Abandon(t) \/ StoreRecordset(t)

PurgeStep(p) == \/ PurgeList(p)
                \/ \E r \in purge[p].rows : Reparent(p, r)
                \/ HardDelete(p)

Next == \/ \E t \in Threads : Request(t) \/ CentralStep(t)
        \/ \E z \in Ids : Deleted(z)
        \/ \E p \in Purgers : PurgeStep(p)

Spec == Init /\ [][Next]_vars

----------------------------------------------------------------------------
\* A row is where its calls and purges say it is, and a purged one is empty.
TypeOK ==
    /\ zone \in [Ids -> Zone]
    /\ \A z \in Ids : ~Stored(z) => zone[z].name = <<>> /\ zone[z].parent = None
    /\ \A r \in rset : r.zone \in Ids /\ Stored(r.zone)
    /\ work \subseteq Ids
    /\ \A t \in Threads : call[t].below \subseteq Ids
    /\ \A p \in Purgers : \A r \in purge[p].rows : r.id \in Ids
    /\ ops \in 0 .. MaxOps

\* parent_zone_id is always a row of the table that lies above the zone and
\* belongs to the same tenant, whatever creations, deletions and purges do to
\* one another: so the walk of _walk_up_zones never meets a loop ("Loop detected
\* in the zone hierarchy").
ParentIsAbove ==
    \A z \in Ids : Stored(z) /\ zone[z].parent # None =>
        LET p == zone[z].parent
        IN  /\ Stored(p)
            /\ Below(zone[z].name, zone[p].name)
            /\ zone[p].tenant = zone[z].tenant

\* In one central process no tenant has a zone below a zone of another tenant
\* (IllegalChildZone, IllegalParentZone), however its creations and deletions
\* interleave.
OneTenantPerTree ==
    \A y, z \in Ids : Found(y) /\ Found(z) /\ Below(zone[y].name, zone[z].name)
        => zone[y].tenant = zone[z].tenant

\* "CNAME's must not share a name with other recordsets": two recordsets that
\* clients created never do.
CnameIsAlone ==
    \A q, r \in rset : /\ q # r /\ ~q.own /\ ~r.own
                       /\ q.zone = r.zone /\ q.name = r.name
                       => q.type # "CNAME"

\* The tree of zones: every parent is above, a tree belongs to one tenant, and a
\* CNAME is alone at its name.
TreeIsSound == ParentIsAbove /\ OneTenantPerTree /\ CnameIsAlone

\* delete_zone: "Prevent deletion of a zone which has child zones"
NoOrphans ==
    \A z \in Ids : Found(z) /\ zone[z].parent # None => Found(zone[z].parent)

=============================================================================
