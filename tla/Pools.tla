------------------------------- MODULE Pools -------------------------------
(***************************************************************************)
(* Pools, the lists that belong to them, and the zones scheduled to them.  *)
(* A pool is changed through API v2 and with designate-manage: both read   *)
(* the pool with all its lists, replace the lists that were named by items *)
(* without ids, and give the whole object back to central.  update_pool,   *)
(* delete_pool and create_zone run next to each other.                     *)
(*                                                                         *)
(* A transaction is two steps, as the isolation of the database makes it:  *)
(* its reads see the rows of its first read, and its statements work on    *)
(* the rows of the moment they run, holding locks until it commits.  A     *)
(* statement that matches no row raises and nothing is written.            *)
(***************************************************************************)
EXTENDS Naturals, Sequences, FiniteSets

CONSTANTS Clients,      \* requests and commands that run at a time
          PoolIds,
          DefaultPool,  \* default_pool_id
          Zones,
          Hosts,        \* hostnames of nameservers
          Attrs,        \* values of the items of any other list
          Own,          \* "ns." and the zone's name
          Chains,       \* the scheduler_filters that may be configured
          Null,
          MaxRequests   \* bound: requests and commands of a behaviour

ASSUME PoolsAssumption ==
    /\ DefaultPool \in PoolIds
    /\ Own \notin Hosts
    /\ MaxRequests \in Nat

VARIABLES other,        \* the list that is followed besides ns_records
          filters,      \* scheduler_filters
          pool,         \* [PoolIds -> [Relations -> set of items], or Null]
          zone,         \* [Zones -> row and NS record set, or Null]; GONE: removed
          job,          \* [Clients -> what it is doing, or Null]
          nextId,       \* identifiers of new items
          requests,
          deleted       \* history: pools that were deleted at some time

vars == <<other, filters, pool, zone, job, nextId, requests, deleted>>

(***************************************************************************)
(* The lists of a pool.  First the objects: which of them an adapter of    *)
(* the API lets a request name.                                            *)
(***************************************************************************)
PoolNsRecord == [api |-> TRUE]

PoolAttribute == [api |-> TRUE]

PoolNameserver == [api |-> FALSE]

PoolTarget == [api |-> FALSE]

PoolAlsoNotify == [api |-> FALSE]

(***************************************************************************)
(* Then the storage methods: create raises a Duplicate exception where the *)
(* table keeps the items unique in the pool.  The options and masters of a *)
(* target are written together with it and belong to its value.            *)
(***************************************************************************)
pool_attributes == [unique |-> FALSE]

pool_ns_records == [unique |-> TRUE]

pool_nameservers == [unique |-> TRUE]

pool_targets == [unique |-> FALSE]

pool_also_notifies == [unique |-> TRUE]

Object(r) ==
    CASE r = "ns_records" -> PoolNsRecord
      [] r = "attributes" -> PoolAttribute
      [] r = "nameservers" -> PoolNameserver
      [] r = "targets" -> PoolTarget
      [] r = "also_notifies" -> PoolAlsoNotify

Table(r) ==
    CASE r = "ns_records" -> pool_ns_records
      [] r = "attributes" -> pool_attributes
      [] r = "nameservers" -> pool_nameservers
      [] r = "targets" -> pool_targets
      [] r = "also_notifies" -> pool_also_notifies

Relations == {"ns_records", other}

Values(r) == IF r = "ns_records" THEN Hosts ELSE Attrs

ValuesOf(items) == {i.val : i \in items}

IdsOf(items) == {i.id : i \in items}

\* Items as an adapter makes them: no id yet.
Parsed(vals) == {[id |-> 0, val |-> v] : v \in vals}

\* The identifiers _create gives to the items of a relation.
Numbered(vals, r) ==
    {[id |-> nextId + (IF r = "ns_records" THEN 0 ELSE 1), val |-> v] : v \in vals}

-----------------------------------------------------------------------------
(***************************************************************************)
(* The default pool exists from the installation on and has nameservers.   *)
(* Only the filters that look at attributes need a longer chain.           *)
(***************************************************************************)
Init ==
    /\ other \in {"attributes", "nameservers", "targets", "also_notifies"}
    /\ filters \in Chains
    /\ other # "attributes" => Len(filters) = 1
    /\ \E h \in Hosts :
        pool = [p \in PoolIds |-> IF p # DefaultPool THEN Null ELSE
                  [r \in Relations |->
                      IF r = "ns_records" THEN {[id |-> 1, val |-> h]} ELSE {}]]
    /\ zone = [z \in Zones |-> Null]
    /\ job = [c \in Clients |-> Null]
    /\ nextId = 2
    /\ requests = 0
    /\ deleted = {}

Begin(c) ==
    /\ job[c] = Null
    /\ requests < MaxRequests
    /\ requests' = requests + 1

Becomes(c, j) == job' = [job EXCEPT ![c] = j]

Ends(c) == Becomes(c, Null)

(***************************************************************************)
(* create_pool: one INSERT for the pool and one for each item.  The API    *)
(* adapter admits two of the lists and requires ns_records to be there,    *)
(* not to be non-empty; the YAML adapter admits every list.                *)
(***************************************************************************)
Named(via) == {r \in Relations : via = "yaml" \/ Object(r).api}

Created(p, wanted) ==
    [pool EXCEPT ![p] =
        [r \in Relations |-> Numbered(ValuesOf(wanted[r]), r)]]

create_pool(c) ==
    /\ Begin(c)
    /\ \E p \in PoolIds, via \in {"api", "yaml"} :
        \E vals \in [Relations -> SUBSET (Hosts \cup Attrs)] :
            /\ pool[p] = Null
            /\ \A r \in Relations :
                vals[r] \subseteq (IF r \in Named(via) THEN Values(r) ELSE {})
            /\ pool' = Created(p, [r \in Relations |-> Parsed(vals[r])])
    /\ nextId' = nextId + 2
    /\ UNCHANGED <<other, filters, zone, job, deleted>>

(***************************************************************************)
(* patch_one of the API and designate-manage pool update: read the pool,   *)
(* then let the adapter replace the lists the body or the file names.      *)
(* anew: what designate-manage does when the pool is gone.                 *)
(***************************************************************************)
_parse_object(items, named, vals) ==
    [r \in Relations |-> IF r \in named THEN Parsed(vals[r]) ELSE items[r]]

patch_one(c) ==
    /\ Begin(c)
    /\ \E p \in PoolIds, via \in {"api", "yaml"} :
        /\ pool[p] # Null
        /\ \E named \in SUBSET Named(via) :
            \E vals \in [named -> SUBSET (Hosts \cup Attrs)] :
                /\ \A r \in named : vals[r] \subseteq Values(r)
                /\ Becomes(c, [pc |-> "update", pool |-> p, named |-> named,
                               anew |-> via = "yaml" /\ "ns_records" \in named,
                               items |-> _parse_object(pool[p], named, vals)])
    /\ UNCHANGED <<other, filters, pool, zone, nextId, deleted>>

\* The first read of update_pool's transaction.  A pool that is gone by then is
\* PoolNotFound, for which designate-manage creates the pool anew.
update_pool(c) ==
    /\ job[c] # Null /\ job[c].pc = "update"
    /\ LET j == job[c]
       IN IF pool[j.pool] = Null
          THEN IF j.anew
               THEN Becomes(c, [j EXCEPT !.pc = "recreate"])
               ELSE Ends(c)
          ELSE Becomes(c, [pc |-> "commit", pool |-> j.pool, named |-> j.named,
                           anew |-> j.anew, items |-> j.items,
                           have |-> pool[j.pool], zones |-> zone])
    /\ UNCHANGED <<other, filters, pool, zone, nextId, requests, deleted>>

Recreate(c) ==
    /\ job[c] # Null /\ job[c].pc = "recreate"
    /\ LET j == job[c]
       IN IF pool[j.pool] # Null
          THEN UNCHANGED <<pool, nextId>>
          ELSE /\ pool' = Created(j.pool,
                    [r \in Relations |-> IF r \in j.named THEN j.items[r] ELSE {}])
               /\ nextId' = nextId + 2
    /\ Ends(c)
    /\ UNCHANGED <<other, filters, zone, requests, deleted>>

(***************************************************************************)
(* _update_pool_items: items the object no longer has are deleted, items   *)
(* with an id updated, the others created.  MatchesRows: the DELETEs and   *)
(* UPDATEs find their rows, the INSERTs break no unique constraint.        *)
(***************************************************************************)
Dropped(j, r) == IdsOf(j.have[r]) \ IdsOf(j.items[r])

Kept(j, r) == IdsOf(j.items[r]) \ {0}

New(j, r) == ValuesOf({i \in j.items[r] : i.id = 0})

_update_pool_items(j) ==
    [r \in Relations |->
        {i \in pool[j.pool][r] : i.id \notin Dropped(j, r)}
            \cup Numbered(New(j, r), r)]

\* Faulty variant: an UPDATE that matches no row is not noticed.
MatchesDeletes(j) ==
    \A r \in Relations :
        /\ Dropped(j, r) \subseteq IdsOf(pool[j.pool][r])
        /\ Table(r).unique =>
            \A i \in pool[j.pool][r] :
                i.id \notin Dropped(j, r) => i.val \notin New(j, r)

MatchesRows(j) ==
    \A r \in Relations :
        /\ Dropped(j, r) \cup Kept(j, r) \subseteq IdsOf(pool[j.pool][r])
        /\ Table(r).unique =>
            \A i \in pool[j.pool][r] :
                i.id \notin Dropped(j, r) => i.val \notin New(j, r)

(***************************************************************************)
(* The nameservers that come and go, by hostname, from the first read.     *)
(***************************************************************************)
create_ns(j) == ValuesOf(j.items["ns_records"]) \ ValuesOf(j.have["ns_records"])

delete_ns(j) == ValuesOf(j.have["ns_records"]) \ ValuesOf(j.items["ns_records"])

LastServerDeleteNotAllowed(j) ==
    /\ delete_ns(j) # {}
    /\ j.items["ns_records"] = {}

(***************************************************************************)
(* _add_ns and _delete_ns, for every zone of the pool.  What they put into *)
(* the list of records of the NS record set goes nowhere: update_recordset *)
(* and create_recordset of the storage write the row of the set and skip   *)
(* the list.  What is left is a new, empty record set, or the zone's new   *)
(* serial and action - for which a PRIMARY zone would need the SOA record  *)
(* set this fork no longer creates: it raises RecordSetNotFound.           *)
(***************************************************************************)
InPool(j, z) ==
    /\ j.zones[z] # Null
    /\ j.zones[z].pool = j.pool
    /\ j.zones[z].action # "GONE"

_add_ns(j, z) ==
    IF InPool(j, z) /\ j.zones[z].action # "DELETE" THEN create_ns(j) ELSE {}

_delete_ns(j, z) == IF InPool(j, z) THEN delete_ns(j) ELSE {}

\* RecordSet.managed: a set without records is not.
Managed(ns) == ns # Null /\ ns # {}

CreatesNs(j, z) ==
    _add_ns(j, z) # {} /\ ~Managed(j.zones[z].ns) /\ j.zones[z].type = "PRIMARY"

UpdatesZone(j, z) ==
    \/ _add_ns(j, z) # {} /\ Managed(j.zones[z].ns)
    \/ _delete_ns(j, z) # {} /\ j.zones[z].ns # Null

\* RecordSetNotFound, ZoneNotFound, DuplicateRecordSet.
NsUpdateFails(j, z) ==
    \/ _delete_ns(j, z) # {} /\ j.zones[z].ns = Null
    \/ UpdatesZone(j, z) /\ (zone[z].type = "PRIMARY" \/ zone[z].action = "GONE")
    \/ CreatesNs(j, z) /\ (zone[z].ns # Null \/ Cardinality(_add_ns(j, z)) # 1)

NsUpdated(j, z) ==
    CASE CreatesNs(j, z) -> [zone[z] EXCEPT !.ns = {}]
      [] UpdatesZone(j, z) -> [zone[z] EXCEPT !.action = "UPDATE"]
      [] OTHER -> zone[z]

(***************************************************************************)
(* The statements of update_pool and its commit, or its roll back.         *)
(***************************************************************************)
update_pool_commits(c) ==
    /\ job[c] # Null /\ job[c].pc = "commit"
    /\ LET j == job[c]
       IN \/ /\ pool[j.pool] = Null
             /\ IF j.anew
                THEN Becomes(c, [pc |-> "recreate", pool |-> j.pool,
                                 named |-> j.named, anew |-> TRUE,
                                 items |-> j.items])
                ELSE Ends(c)
             /\ UNCHANGED <<pool, zone, nextId>>
          \/ /\ pool[j.pool] # Null
             /\ \/ ~MatchesRows(j)
                \/ LastServerDeleteNotAllowed(j)
                \/ \E z \in Zones : NsUpdateFails(j, z)
             /\ Ends(c)
             /\ UNCHANGED <<pool, zone, nextId>>
          \/ /\ pool[j.pool] # Null
             /\ MatchesRows(j)
             /\ ~LastServerDeleteNotAllowed(j)
             /\ \A z \in Zones : ~NsUpdateFails(j, z)
             /\ pool' = [pool EXCEPT ![j.pool] = _update_pool_items(j)]
             /\ zone' = [z \in Zones |-> NsUpdated(j, z)]
             /\ nextId' = nextId + 2
             /\ Ends(c)
    /\ UNCHANGED <<other, filters, requests, deleted>>

(***************************************************************************)
(* delete_pool, of the API and of designate-manage pool update --delete.   *)
(***************************************************************************)
delete_pool(c) ==
    /\ Begin(c)
    /\ \E p \in PoolIds :
        /\ pool[p] # Null
        /\ IF \E z \in Zones : /\ zone[z] # Null
                               /\ zone[z].pool = p
                               /\ zone[z].action \notin {"DELETE", "GONE"}
           THEN UNCHANGED job
           ELSE Becomes(c, [pc |-> "delete", pool |-> p])
    /\ UNCHANGED <<other, filters, pool, zone, nextId, deleted>>

delete_pool_commits(c) ==
    /\ job[c] # Null /\ job[c].pc = "delete"
    /\ IF pool[job[c].pool] = Null
       THEN UNCHANGED <<pool, deleted>>
       ELSE /\ pool' = [pool EXCEPT ![job[c].pool] = Null]
            /\ deleted' = deleted \cup {job[c].pool}
    /\ Ends(c)
    /\ UNCHANGED <<other, filters, zone, nextId, requests>>

-----------------------------------------------------------------------------
(***************************************************************************)
(* create_zone: find_pools, the filters one after the other, the checks,   *)
(* the INSERT and the default records.  A tenant sees its own pools and    *)
(* those of no tenant.  hints are the zone's attributes: the view_id every *)
(* zone of this fork has, and pool_id when the client forces a pool.  What *)
(* the configured filters do not look at is not varied.                    *)
(***************************************************************************)
create_zone(c) ==
    /\ Begin(c)
    /\ \E visible \in {PoolIds, {DefaultPool}}, type \in {"PRIMARY", "SECONDARY"},
          want \in PoolIds \cup {Null}, admin \in BOOLEAN :
        /\ Len(filters) = 1 => visible = PoolIds /\ want = Null
        /\ want = Null => ~admin
        /\ Becomes(c, [pc |-> "schedule", left |-> filters, type |-> type, want |-> want,
                       admin |-> admin, visible |-> visible,
                       pools |-> {p \in visible : pool[p] # Null},
                       attributes |-> [p \in PoolIds |->
                           IF pool[p] = Null \/ other # "attributes" THEN {}
                           ELSE ValuesOf(pool[p]["attributes"])]])
    /\ UNCHANGED <<other, filters, pool, zone, nextId, deleted>>

GetPool(j, p) == p \in j.visible /\ pool[p] # Null

default_pool_filter(j) == {{DefaultPool}}

fallback_filter(j) == {IF j.pools = {} THEN {DefaultPool} ELSE j.pools}

random_filter(j) == IF j.pools = {} THEN {{}} ELSE {{p} : p \in j.pools}

in_doubt_default_pool_filter(j) ==
    {IF Cardinality(j.pools) > 1 /\ GetPool(j, DefaultPool) /\ DefaultPool \in j.pools
     THEN {DefaultPool} ELSE j.pools}

\* A non-admin who forces a pool is refused: no outcome.
pool_id_attribute_filter(j) ==
    CASE j.want = Null -> {j.pools}
      [] j.want # Null /\ ~GetPool(j, j.want) -> {{}}
      [] j.want # Null /\ GetPool(j, j.want) /\ ~j.admin -> {}
      [] OTHER -> {IF j.want \in j.pools THEN {j.want} ELSE j.pools}

\* No pool has an attribute pool_id: a zone that forces one matches none.
attribute_filter(j) ==
    {{p \in j.pools : j.want = Null /\ Attrs \subseteq j.attributes[p]}}

Filtered(name, j) ==
    CASE name = "default_pool" -> default_pool_filter(j)
      [] name = "fallback" -> fallback_filter(j)
      [] name = "random" -> random_filter(j)
      [] name = "in_doubt_default_pool" -> in_doubt_default_pool_filter(j)
      [] name = "pool_id_attribute" -> pool_id_attribute_filter(j)
      [] name = "attribute" -> attribute_filter(j)

schedule_zone(c) ==
    /\ job[c] # Null /\ job[c].pc = "schedule"
    /\ LET j == job[c]
       IN \/ /\ j.left # <<>>
             /\ \E pools \in Filtered(Head(j.left), j) :
                   Becomes(c, [j EXCEPT !.left = Tail(@), !.pools = pools])
          \/ /\ j.left # <<>>
             /\ Filtered(Head(j.left), j) = {}
             /\ Ends(c)
          \/ /\ j.left = <<>> /\ Cardinality(j.pools) # 1
             /\ Ends(c)
          \/ /\ j.left = <<>>
             /\ \E p \in PoolIds :
                   /\ j.pools = {p}
                   /\ Becomes(c, [pc |-> "check", pool |-> p, type |-> j.type])
    /\ UNCHANGED <<other, filters, pool, zone, nextId, requests, deleted>>

\* _get_pool_ns_records with an elevated context; PoolNotFound or
\* NoServersConfigured end the call.
HasServers(p) == pool[p] # Null /\ pool[p]["ns_records"] # {}

check_servers(c) ==
    /\ job[c] # Null /\ job[c].pc = "check"
    /\ IF HasServers(job[c].pool)
       THEN Becomes(c, [job[c] EXCEPT !.pc = "insert"])
       ELSE Ends(c)
    /\ UNCHANGED <<other, filters, pool, zone, nextId, requests, deleted>>

\* The transaction reads the pool again: a pool that is gone rolls it back.
_create_zone_in_storage(c) ==
    /\ job[c] # Null /\ job[c].pc = "insert"
    /\ \E z \in Zones :
        /\ zone[z] = Null
        /\ IF pool[job[c].pool] = Null
           THEN Ends(c) /\ UNCHANGED zone
           ELSE /\ zone' = [zone EXCEPT ![z] =
                      [pool |-> job[c].pool, type |-> job[c].type,
                       action |-> "CREATE", ns |-> Null]]
                /\ Becomes(c, [pc |-> "default", zone |-> z])
    /\ UNCHANGED <<other, filters, pool, nextId, requests, deleted>>

\* The device has the zone; the default NS record set is stored with its record,
\* in one transaction.  A second NS record set is DuplicateRecordSet.
create_default_record(c) ==
    /\ job[c] # Null /\ job[c].pc = "default"
    /\ LET z == job[c].zone
       IN zone' = [zone EXCEPT
             ![z].ns = IF zone[z].action = "GONE" \/ @ # Null THEN @ ELSE {Own},
             ![z].action = IF @ = "CREATE" THEN "NONE" ELSE @]
    /\ Ends(c)
    /\ UNCHANGED <<other, filters, pool, nextId, requests, deleted>>

(***************************************************************************)
(* delete_zone marks the row, a finished change clears the mark, a         *)
(* finished delete removes the row (see ZoneLifecycle).                    *)
(***************************************************************************)
delete_zone(z) ==
    /\ zone[z] # Null
    /\ zone[z].action \notin {"DELETE", "GONE"}
    /\ zone' = [zone EXCEPT ![z].action = "DELETE"]
    /\ UNCHANGED <<other, filters, pool, job, nextId, requests, deleted>>

update_zone_status(z) ==
    /\ zone[z] # Null
    /\ \/ /\ zone[z].action = "DELETE"
          /\ zone' = [zone EXCEPT ![z].action = "GONE", ![z].ns = Null]
       \/ /\ zone[z].action = "UPDATE"
          /\ zone' = [zone EXCEPT ![z].action = "NONE"]
    /\ UNCHANGED <<other, filters, pool, job, nextId, requests, deleted>>

Next ==
    \/ \E c \in Clients :
        \/ create_pool(c) \/ patch_one(c) \/ update_pool(c)
        \/ update_pool_commits(c) \/ Recreate(c)
        \/ delete_pool(c) \/ delete_pool_commits(c)
        \/ create_zone(c) \/ schedule_zone(c) \/ check_servers(c)
        \/ _create_zone_in_storage(c) \/ create_default_record(c)
    \/ \E z \in Zones : delete_zone(z) \/ update_zone_status(z)

Spec == Init /\ [][Next]_vars

-----------------------------------------------------------------------------
\* A change of a pool that does not name ns_records leaves the nameservers as
\* they are at that moment, however old the copy is that it was made from. The
\* other lists have no such protection: one that was empty in the copy is
\* emptied again.
KeepsNsRecords ==
    \A c \in Clients :
        (job[c] # Null /\ job[c].pc = "commit" /\ job'[c] = Null
            /\ "ns_records" \notin job[c].named
            /\ pool[job[c].pool] # Null)
        => /\ pool'[job[c].pool] # Null
           /\ pool'[job[c].pool]["ns_records"] = pool[job[c].pool]["ns_records"]

NsRecordsKept == [][KeepsNsRecords]_vars

\* create_zone admits a pool only when it has a nameserver, and update_pool never
\* removes the last one: not when a request asks for it, and not when two of them,
\* each from the copy it has read, take a different one away - the UPDATE of the
\* one to be kept finds no row.  So the pool of a zone always has one.  Asked of
\* pools that were never deleted: delete_pool can miss a zone that is being
\* created.
ZonePoolHasServers ==
    \A z \in Zones :
        (zone[z] # Null /\ zone[z].action # "GONE" /\ zone[z].pool \notin deleted) =>
            HasServers(zone[z].pool)

\* Pools, zones and the requests and commands that run.
TypeOK ==
    /\ filters \in Chains
    /\ \A p \in PoolIds : pool[p] # Null =>
        \A r \in Relations :
            /\ ValuesOf(pool[p][r]) \subseteq Values(r)
            /\ \A i \in pool[p][r] : i.id \in 1 .. (nextId - 1)
            /\ Table(r).unique =>
                \A i, k \in pool[p][r] : i.val = k.val => i = k
    /\ \A z \in Zones : zone[z] # Null =>
        /\ zone[z].pool \in PoolIds
        /\ zone[z].action \in {"CREATE", "NONE", "UPDATE", "DELETE", "GONE"}
        /\ zone[z].ns \in {Null, {}, {Own}}
    /\ requests \in 0 .. MaxRequests
    /\ deleted \subseteq PoolIds
=============================================================================
