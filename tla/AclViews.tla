------------------------------ MODULE AclViews ------------------------------
(***************************************************************************)
(* ACLs and views: the operations of designate-central that keep three     *)
(* copies in step without a zone lock - the rows of central's own tables,  *)
(* the mirror of what the ZDNS device answered (zdns_acl_info_t,           *)
(* zdns_view_info_t and their association tables) and the device itself.   *)
(*                                                                         *)
(* An operation runs in steps that other clients interleave with: every    *)
(* storage call outside a @transaction commits by itself, and the calls of *)
(* the worker (which calls the device and then back into central) are RPCs.*)
(* The device orders its views by priority and puts a new view first;      *)
(* central repeats that in zdns_view_info_t with one UPDATE per row.       *)
(***************************************************************************)
EXTENDS Naturals, Sequences, FiniteSets, SequencesExt

CONSTANTS
    Clients,     \* requests that designate-central serves at the same time
    Acls,        \* ACLs; the id stands for the (unique, immutable) name too
    Networks,    \* valid values of an ACL's networks
    Garbled,     \* what ",".join makes of networks that are a string already
    Views,       \* view ids, each used for one create_view
    NameOf,      \* view id -> view name
    Zones,       \* zones that can be created in a view
    None,        \* no value
    MaxOps       \* bound: number of operations started

AclViewsAssumption ==
    /\ Garbled \notin Networks /\ None \notin Networks \cup Views \cup {Garbled}
    /\ DOMAIN NameOf = Views /\ MaxOps \in Nat

AclValues == Networks \cup {Garbled}
\* What two operations may not touch at the same time: an ACL, networks (a unique
\* column), a view, or the priorities of all views.
Tags == Acls \cup AclValues \cup Views \cup {"priorities"}

VARIABLES
    acl,        \* table acl: networks of an ACL, or None
    zdnsAcl,    \* table zdns_acl_info_t and its associations: networks or None
    view,       \* table view: ids
    zdnsView,   \* table zdns_view_info_t and its associations: priority, 0: no row
    viewAcl,    \* table view_acl_associations: <<view, ACL>>
    zone,       \* table zones: the view of a zone, or None
    zdnsZone,   \* table zdns_zone_info_t and its associations: zones
    devAcl,     \* the device's ACLs: networks or None
    devView,    \* the device's views, the highest priority first
    devViewAcl, \* the device's views: their ACLs
    client,     \* what a client's request is doing
    ops,        \* number of operations started
    disturbed   \* history: tags two overlapping operations or a lost answer hit

db == <<acl, zdnsAcl, view, zdnsView, viewAcl, zone, zdnsZone>>
device == <<devAcl, devView, devViewAcl>>
vars == <<acl, zdnsAcl, view, zdnsView, viewAcl, zone, zdnsZone, devAcl, devView,
          devViewAcl, client, ops, disturbed>>

Idle == [pc |-> "idle", op |-> "none", on |-> None, acls |-> {}, new |-> None,
         old |-> None, snap |-> [v \in {} |-> 0], zones |-> {}, tags |-> {}]

Init ==
    /\ acl = [a \in Acls |-> None] /\ zdnsAcl = acl /\ devAcl = acl
    /\ view = {} /\ zdnsView = [v \in Views |-> 0] /\ viewAcl = {}
    /\ zone = [z \in Zones |-> None] /\ zdnsZone = {}
    /\ devView = <<>> /\ devViewAcl = [v \in Views |-> {}]
    /\ client = [c \in Clients |-> Idle]
    /\ ops = 0 /\ disturbed = {}

-----------------------------------------------------------------------------
(* Requests and their ends.                                                *)

Overlapping(c, tags) == {d \in Clients \ {c} : client[d].tags \cap tags # {}}

\* A request enters central at pc; it disturbs the running requests that touch
\* what it touches, and they disturb it.
Start(c, pc, op, x, as, new, old, tags) ==
    /\ client[c].pc = "idle" /\ ops < MaxOps
    /\ ops' = ops + 1
    /\ client' = [client EXCEPT ![c] =
           [Idle EXCEPT !.pc = pc, !.op = op, !.on = x, !.acls = as, !.new = new,
                        !.old = old, !.tags = tags]]
    /\ disturbed' = disturbed \cup UNION {client[d].tags \cup tags : d \in Overlapping(c, tags)}

Runs(c, pc, op) == client[c].pc = pc /\ client[c].op = op
Goto(c, pc) == client' = [client EXCEPT ![c].pc = pc]
Done(c) == client' = [client EXCEPT ![c] = Idle]

\* Column networks is unique; what join makes of two ACLs' strings differs.
NetworksFree(a, n) == n = Garbled \/ \A b \in Acls \ {a} : acl[b] # n

\* Storage of the mirror: update_ and delete_zdns_acl find their row through the
\* association row; both rows are written and deleted together.
MirrorFound(r) == r.op = "create_acl" \/ zdnsAcl[r.on] # None

MirrorWritten(r) == [zdnsAcl EXCEPT ![r.on] = r.new]

\* Rows of view_acl_associations, and the rows of one view.
AclLinks(v, as) == {<<v, a>> : a \in as}

LinksOf(v) == {p \in viewAcl : p[1] = v}

-----------------------------------------------------------------------------
(* ACLs.                                                                   *)

\* create_acl up to its first transaction: the row; DuplicateAcl for a name or
\* networks in use.
CreateAcl(c, a, n) ==
    /\ acl[a] = None /\ NetworksFree(a, n)
    /\ Start(c, "device", "create_acl", a, {}, n, None, {a, n})
    /\ acl' = [acl EXCEPT ![a] = n]
    /\ UNCHANGED <<zdnsAcl, view, zdnsView, viewAcl, zone, zdnsZone, device>>

\* AclsController.patch_one reads the ACL, puts the fields of the body into it
\* and calls update_acl, which joins the networks.  A body without networks
\* leaves the string of the row, which join takes apart (Garbled).
PatchAcl(c, a, n) ==
    /\ acl[a] # None
    /\ NetworksFree(a, n)
    /\ Start(c, "device", "update_acl", a, {}, n, acl[a], {a, n, acl[a]})
    /\ acl' = [acl EXCEPT ![a] = n]
    /\ UNCHANGED <<zdnsAcl, view, zdnsView, viewAcl, zone, zdnsZone, device>>

\* delete_acl: refused when a view uses the ACL; the device comes first.
DeleteAcl(c, a) ==
    /\ acl[a] # None
    /\ \A v \in Views : LinksOf(v) \cap AclLinks(v, {a}) = {}
    /\ Start(c, "device", "delete_acl", a, {}, None, None, {a})
    /\ UNCHANGED <<db, device>>

\* The requests of CMSBackend for ACLs: what the device accepts.
DeviceAccepts(c) ==
    LET r == client[c] IN
    \/ r.op = "create_acl" /\ devAcl[r.on] = None /\ r.new # Garbled
    \/ r.op = "update_acl" /\ devAcl[r.on] # None /\ r.new # Garbled
    \/ r.op = "delete_acl" /\ devAcl[r.on] # None

\* AclAction: the device's ACL.
AclOnDevice(c) ==
    /\ client[c].pc = "device" /\ DeviceAccepts(c)
    /\ devAcl' = [devAcl EXCEPT ![client[c].on] = client[c].new]
    /\ Goto(c, "mirror")
    /\ UNCHANGED <<db, devView, devViewAcl, ops, disturbed>>

\* AclAction calls create_, update_ or delete_zdns_acl of central; the updates
\* go through the association row.
AclMirror(c) ==
    LET r == client[c] IN
    /\ r.pc = "mirror" /\ r.op \in {"create_acl", "update_acl", "delete_acl"}
    /\ MirrorFound(r)
    /\ zdnsAcl' = MirrorWritten(r)
    /\ IF r.op = "delete_acl" THEN Goto(c, "row") ELSE Done(c)
    /\ UNCHANGED <<acl, view, zdnsView, viewAcl, zone, zdnsZone, device, ops, disturbed>>

\* delete_acl after the worker's answer: the row.
DeleteAclRow(c) ==
    /\ Runs(c, "row", "delete_acl")
    /\ acl' = [acl EXCEPT ![client[c].on] = None]
    /\ Done(c)
    /\ UNCHANGED <<zdnsAcl, view, zdnsView, viewAcl, zone, zdnsZone, device, ops, disturbed>>

\* Faulty variant: update_acl does not restore the row.
RestoredCreateOnly(r) ==
    IF r.op = "create_acl" THEN [acl EXCEPT ![r.on] = None] ELSE acl

\* What the except clauses leave in the acl table: create_acl deletes the row,
\* delete_acl has not touched it yet.  update_acl writes the original values of
\* the fields in the client's body: what its own join did to the networks of a
\* body without them stays.
Restored(r) ==
    CASE r.op = "create_acl" -> [acl EXCEPT ![r.on] = None]
      [] /\ r.op = "update_acl" /\ r.new # Garbled
         /\ acl[r.on] # None /\ NetworksFree(r.on, r.old) ->
             [acl EXCEPT ![r.on] = r.old]
      [] OTHER -> acl

\* Faulty variant: the device's error answer to an update is taken for a success.
AclRefusedUnchecked(c) ==
    /\ client[c].pc = "device" /\ client[c].op \in {"create_acl", "update_acl", "delete_acl"}
    /\ IF client[c].new = Garbled
         THEN Goto(c, "mirror") /\ acl' = acl
         ELSE Done(c) /\ acl' = Restored(client[c])
    /\ UNCHANGED <<zdnsAcl, view, zdnsView, viewAcl, zone, zdnsZone, device, ops, disturbed>>

\* The device refuses or cannot be reached, or the worker's call back into
\* central finds no association row: the exception reaches central.
AclRefused(c) ==
    /\ \/ client[c].pc = "device" /\ client[c].op \in {"create_acl", "update_acl", "delete_acl"}
       \/ /\ client[c].pc = "mirror" /\ client[c].op \in {"update_acl", "delete_acl"}
          /\ ~MirrorFound(client[c])
    /\ acl' = Restored(client[c])
    /\ Done(c)
    /\ UNCHANGED <<zdnsAcl, view, zdnsView, viewAcl, zone, zdnsZone, device, ops, disturbed>>

\* The device has done its part, but the answer is lost (central times out, or
\* the worker dies): the except clause runs nevertheless.
AclAnswerLost(c) ==
    /\ client[c].pc = "mirror"
    /\ acl' = Restored(client[c])
    /\ disturbed' = disturbed \cup client[c].tags
    /\ Done(c)
    /\ UNCHANGED <<zdnsAcl, view, zdnsView, viewAcl, zone, zdnsZone, device, ops>>

-----------------------------------------------------------------------------
(* Views.                                                                  *)

OnDevice(v) == v \in ToSet(devView)
NameTaken(v) == \E w \in ToSet(devView) : NameOf[w] = NameOf[v]

\* create_view reads the ACLs (AclNotFound when one is missing).
CreateView(c, v, as) ==
    /\ \A a \in as : acl[a] # None
    /\ v \notin view /\ ~OnDevice(v) /\ zdnsView[v] = 0
    /\ \A d \in Clients : client[d].on # v
    /\ Start(c, "device", "create_view", v, as, None, None, {v, "priorities"} \cup as)
    /\ UNCHANGED <<db, device>>

\* update_view and delete_view read the view (ViewNotFound when it is missing).
UpdateView(c, v, as) ==
    /\ v \in view
    /\ \A a \in as : acl[a] # None
    /\ Start(c, "device", "update_view", v, as, None, None, {v} \cup as)
    /\ UNCHANGED <<db, device>>

DeleteView(c, v) ==
    /\ v \in view
    /\ Start(c, "device", "delete_view", v, {}, None, None, {v, "priorities"})
    /\ UNCHANGED <<db, device>>

\* ViewAction on the device, which knows a view by its name.
ViewOnDevice(c) ==
    LET v == client[c].on IN
    /\ client[c].pc = "device"
    /\ \/ /\ client[c].op = "create_view" /\ ~NameTaken(v)
          /\ devView' = <<v>> \o devView
          /\ devViewAcl' = [devViewAcl EXCEPT ![v] = client[c].acls]
          /\ Goto(c, "mirror")
       \/ /\ client[c].op = "update_view" /\ OnDevice(v)
          /\ devViewAcl' = [devViewAcl EXCEPT ![v] = client[c].acls]
          /\ Goto(c, "links") /\ UNCHANGED devView
       \/ /\ client[c].op = "delete_view" /\ OnDevice(v)
          /\ devView' = SelectSeq(devView, LAMBDA w : w # v)
          /\ devViewAcl' = [devViewAcl EXCEPT ![v] = {}]
          /\ Goto(c, "links")
    /\ UNCHANGED <<db, devAcl, ops, disturbed>>

\* Storage: the mirror row of a view with its association, and its deletion.
ViewRowWritten(v, priority) == [zdnsView EXCEPT ![v] = priority]

\* create_zdns_view_info, called by the worker: the mirror row with the priority
\* the device answered, the view row and the association.
ViewMirror(c) ==
    /\ Runs(c, "mirror", "create_view")
    /\ zdnsView' = ViewRowWritten(client[c].on, 1)
    /\ view' = view \cup {client[c].on}
    /\ Goto(c, "links")
    /\ UNCHANGED <<acl, zdnsAcl, viewAcl, zone, zdnsZone, device, ops, disturbed>>

\* Faulty variant: update_view adds the new rows and keeps the old ones.
ViewLinksAdded(c) ==
    LET r == client[c] IN
    /\ r.pc = "links"
    /\ viewAcl' = (IF r.op = "delete_view" THEN viewAcl \ LinksOf(r.on) ELSE viewAcl)
                     \cup AclLinks(r.on, r.acls)
    /\ IF r.op = "update_view" THEN Done(c) ELSE Goto(c, "list")
    /\ UNCHANGED <<acl, zdnsAcl, view, zdnsView, zone, zdnsZone, device, ops, disturbed>>

\* The rows of view_acl_associations: added by create_view, replaced by
\* update_view, deleted by delete_view.
ViewLinks(c) ==
    LET r == client[c]
        kept == IF r.op = "create_view" THEN viewAcl
                ELSE viewAcl \ LinksOf(r.on)
    IN  /\ r.pc = "links"
        /\ viewAcl' = kept \cup AclLinks(r.on, r.acls)
        /\ IF r.op = "update_view" THEN Done(c) ELSE Goto(c, "list")
        /\ UNCHANGED <<acl, zdnsAcl, view, zdnsView, zone, zdnsZone, device, ops, disturbed>>

\* Faulty variant: create_view shifts its own row too.
ListedFrom(r) ==
    {w \in Views : /\ zdnsView[w] # 0
                   /\ \/ r.op = "create_view"
                      \/ r.op = "delete_view" /\ w # r.on /\ zdnsView[w] > zdnsView[r.on]}

\* The rows whose priority an operation is going to change, with the priority it
\* read: create_view takes all rows of another name, _delete_zdns_view_info
\* those after the row it has just deleted.
Listed(r) ==
    {w \in Views : /\ zdnsView[w] # 0
                   /\ \/ r.op = "create_view" /\ NameOf[w] # NameOf[r.on]
                      \/ r.op = "delete_view" /\ w # r.on /\ zdnsView[w] > zdnsView[r.on]}

\* find_zdns_view_infos, after delete_view has deleted its own row.
ViewList(c) ==
    LET r == client[c] IN
    /\ r.pc = "list"
    /\ client' = [client EXCEPT ![c].snap = [w \in Listed(r) |-> zdnsView[w]],
                                ![c].pc = "shift"]
    /\ zdnsView' = IF r.op = "delete_view" THEN ViewRowWritten(r.on, 0) ELSE zdnsView
    /\ UNCHANGED <<acl, zdnsAcl, view, viewAcl, zone, zdnsZone, device, ops, disturbed>>

\* The priority that create_view and delete_view write for a listed row.
Shifted(r, w) == IF r.op = "create_view" THEN r.snap[w] + 1 ELSE r.snap[w] - 1

\* One UPDATE of one row, with the priority read before; no row, no effect.
ShiftOne(c, w) ==
    LET r == client[c] IN
    /\ r.pc = "shift" /\ w \in DOMAIN r.snap
    /\ zdnsView' = [zdnsView EXCEPT ![w] = IF @ = 0 THEN 0 ELSE Shifted(r, w)]
    /\ client' = [client EXCEPT ![c].snap = [x \in DOMAIN @ \ {w} |-> @[x]]]
    /\ UNCHANGED <<acl, zdnsAcl, view, viewAcl, zone, zdnsZone, device, ops, disturbed>>

\* Faulty variant: the view row stays.
EndShiftKeepsRow(c) ==
    LET r == client[c] IN
    /\ r.pc = "shift" /\ DOMAIN r.snap = {}
    /\ IF r.op = "delete_view" THEN Goto(c, "find") ELSE Done(c)
    /\ UNCHANGED <<db, device, ops, disturbed>>

\* The end of create_view; delete_view deletes the view row.
EndShift(c) ==
    LET r == client[c] IN
    /\ r.pc = "shift" /\ DOMAIN r.snap = {}
    /\ IF r.op = "delete_view"
         THEN view' = view \ {r.on} /\ Goto(c, "find")
         ELSE Done(c) /\ UNCHANGED view
    /\ UNCHANGED <<acl, zdnsAcl, zdnsView, viewAcl, zone, zdnsZone, device, ops, disturbed>>

\* delete_view reads the zones of the view it has deleted.
FindZones(c) ==
    /\ client[c].pc = "find"
    /\ client' = [client EXCEPT ![c].pc = "zones",
                     ![c].zones = {z \in Zones : zone[z] = client[c].on}]
    /\ UNCHANGED <<db, device, ops, disturbed>>

\* One zone of delete_view's loop: delete_zdns_zone.  Without an association row
\* (the worker has not stored it yet) ZoneNotFound ends the request.
DropZdnsZone(c, z) ==
    /\ client[c].pc = "zones" /\ z \in client[c].zones
    /\ IF z \in zdnsZone
         THEN client' = [client EXCEPT ![c].pc = "zone", ![c].new = z]
         ELSE Done(c)
    /\ zdnsZone' = zdnsZone \ {z}
    /\ UNCHANGED <<acl, zdnsAcl, view, zdnsView, viewAcl, zone, device, ops, disturbed>>

\* ... and update_zone_status, which deletes its row.
DropZone(c) ==
    LET z == client[c].new IN
    /\ client[c].pc = "zone"
    /\ zone' = [zone EXCEPT ![z] = None]
    /\ client' = [client EXCEPT ![c].pc = "zones", ![c].zones = @ \ {z}]
    /\ UNCHANGED <<acl, zdnsAcl, view, zdnsView, viewAcl, zdnsZone, device, ops, disturbed>>

DeleteViewDone(c) ==
    /\ client[c].pc = "zones" /\ client[c].zones = {}
    /\ Done(c)
    /\ UNCHANGED <<db, device, ops, disturbed>>

\* The device refuses (a name in use, an unknown view) or cannot be reached.
ViewRefused(c) ==
    /\ client[c].pc = "device"
    /\ client[c].op \in {"create_view", "update_view", "delete_view"}
    /\ Done(c)
    /\ UNCHANGED <<db, device, ops, disturbed>>

\* The device has done its part and the answer is lost; what central does after
\* the worker's answer never happens.
ViewAnswerLost(c) ==
    /\ client[c].op \in {"create_view", "update_view", "delete_view"}
    /\ client[c].pc \in {"mirror", "links"}
    /\ disturbed' = disturbed \cup client[c].tags
    /\ Done(c)
    /\ UNCHANGED <<db, device, ops>>

\* _create_zone reads the view of a new zone and stores the zone later.
CreateZoneInView(c, z, v) ==
    /\ v \in view /\ zone[z] = None /\ \A d \in Clients : client[d].new # z
    /\ Start(c, "insert", "create_zone", v, {}, z, None, {v})
    /\ UNCHANGED <<db, device>>

InsertZone(c) ==
    /\ client[c].pc = "insert"
    /\ zone' = [zone EXCEPT ![client[c].new] = client[c].on]
    /\ Goto(c, "zdns")
    /\ UNCHANGED <<acl, zdnsAcl, view, zdnsView, viewAcl, zdnsZone, device, ops, disturbed>>

\* ZoneAction of the worker: the view is read again, and without it the zone is
\* left as it is; the device takes the zone, and create_zdns_zone stores what it
\* answered; or it refuses, and update_zone_status deletes the row.
ZoneOnDevice(c) ==
    LET z == client[c].new
        v == client[c].on
    IN  /\ client[c].pc = "zdns"
        /\ \/ v \notin view /\ UNCHANGED <<zone, zdnsZone>>
           \/ v \in view /\ OnDevice(v) /\ zdnsZone' = zdnsZone \cup {z} /\ UNCHANGED zone
           \/ v \in view /\ zone' = [zone EXCEPT ![z] = None] /\ UNCHANGED zdnsZone
        /\ Done(c)
        /\ UNCHANGED <<acl, zdnsAcl, view, zdnsView, viewAcl, device, ops, disturbed>>

Next ==
    \E c \in Clients :
        \/ \E a \in Acls, n \in Networks : CreateAcl(c, a, n)
        \/ \E a \in Acls, n \in AclValues : PatchAcl(c, a, n)
        \/ \E a \in Acls : DeleteAcl(c, a)
        \/ AclOnDevice(c) \/ AclMirror(c) \/ DeleteAclRow(c)
        \/ AclRefused(c) \/ AclAnswerLost(c)
        \/ \E v \in Views, as \in SUBSET Acls : CreateView(c, v, as) \/ UpdateView(c, v, as)
        \/ \E v \in Views : DeleteView(c, v)
        \/ ViewOnDevice(c) \/ ViewMirror(c) \/ ViewLinks(c) \/ ViewList(c)
        \/ \E w \in Views : ShiftOne(c, w)
        \/ EndShift(c) \/ FindZones(c) \/ DropZone(c) \/ DeleteViewDone(c)
        \/ \E z \in Zones : DropZdnsZone(c, z)
        \/ ViewRefused(c) \/ ViewAnswerLost(c)
        \/ \E z \in Zones, v \in Views : CreateZoneInView(c, z, v)
        \/ InsertZone(c) \/ ZoneOnDevice(c)

Spec == Init /\ [][Next]_vars

-----------------------------------------------------------------------------
(* Properties.                                                             *)

\* Type correctness of the tables, the device and the running requests.
TypeOK ==
    /\ acl \in [Acls -> AclValues \cup {None}]
    /\ zdnsAcl \in [Acls -> Networks \cup {None}]
    /\ devAcl \in [Acls -> Networks \cup {None}]
    /\ view \subseteq Views /\ zdnsView \in [Views -> Nat]
    /\ viewAcl \subseteq Views \X Acls
    /\ zone \in [Zones -> Views \cup {None}] /\ zdnsZone \subseteq Zones
    /\ ToSet(devView) \subseteq Views /\ IsInjective(devView)
    /\ devViewAcl \in [Views -> SUBSET Acls]
    /\ ops \in 0..MaxOps /\ disturbed \subseteq Tags
    /\ \A c \in Clients : /\ client[c].pc \in {"idle", "device", "mirror", "row",
                                               "links", "list", "shift", "find",
                                               "zones", "zone", "insert", "zdns"}
                          /\ client[c].acls \subseteq Acls
                          /\ DOMAIN client[c].snap \subseteq Views
                          /\ client[c].zones \subseteq Zones

Untouched(x) == x \notin disturbed /\ \A c \in Clients : x \notin client[c].tags

\* When nothing works on an ACL, the mirror has the networks the device has, and
\* central's row has them too - also after a refused operation, whose except
\* clause restores the row - or what join made of them: a PATCH without networks
\* that the device refused is the one change update_acl does not take back.
\* Asked unless two operations on this ACL overlapped or an answer was lost.
AclMatchesDevice ==
    \A a \in Acls : Untouched(a) =>
        /\ zdnsAcl[a] = devAcl[a]
        /\ acl[a] # devAcl[a] => acl[a] = Garbled /\ devAcl[a] # None

\* The priorities in zdns_view_info_t are the device's, as long as operations on
\* views that shift them did not overlap and no answer was lost.
PriorityMatchesDevice ==
    Untouched("priorities") =>
        \A v \in Views : zdnsView[v] = IF OnDevice(v)
            THEN CHOOSE i \in DOMAIN devView : devView[i] = v ELSE 0

\* A view has its row, its mirror row and its place on the device, or none of
\* the three, whatever other operations overlapped with it: the device, which
\* serialises the requests, decides which of two operations fails.
ViewRowsTogether ==
    \A v \in Views : (\A c \in Clients : v # client[c].on) /\ v \notin disturbed =>
        (v \in view) = (zdnsView[v] # 0) /\ (v \in view) = OnDevice(v)

\* The ACLs a view has in view_acl_associations are those the device uses for it,
\* and they exist, unless operations on the view or on these ACLs overlapped.
ViewAclsMatchDevice ==
    \A v \in Views : Untouched(v) =>
        \/ \E a \in Acls : ~Untouched(a) /\ (<<v, a>> \in viewAcl \/ a \in devViewAcl[v])
        \/ /\ {a \in Acls : <<v, a>> \in viewAcl} = devViewAcl[v]
           /\ \A a \in devViewAcl[v] : devAcl[a] # None

\* A zone is in a view that exists, or delete_view is on its way to the zone,
\* unless the creation of a zone in this view and the view's deletion overlapped.
\* What the mirror has of a zone goes before the zone does.
ZoneHasView ==
    /\ \A z \in Zones : zone[z] # None =>
          \/ zone[z] \in view \cup disturbed
          \/ \E c \in Clients : client[c].op = "delete_view" /\ client[c].on = zone[z]
    /\ \A z \in zdnsZone : zone[z] # None \/ disturbed \cap Views # {}
=============================================================================
