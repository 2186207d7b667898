----------------------------- MODULE MCServices -----------------------------
(***************************************************************************)
(* Components whose properties need no fairness, in one run: the resources *)
(* of the API, ACLs and views, and the agent.  A behaviour picks           *)
(* one part in its initial state, runs that component, and leaves the      *)
(* variables of the others alone.  Clients are also the agent's threads,   *)
(* Ids are row ids and ACLs, Values are networks, tenants and what else a  *)
(* column holds.                                                           *)
(***************************************************************************)
EXTENDS Resources, TLC

VARIABLES part,
    acl, zdnsAcl, view, zdnsView, viewAcl, zone, zdnsZone, devAcl, devView,
    devViewAcl, client, ops, disturbed,
    agent, limiting, master, handler, file, served, conf, lock, limiter, transaction,
    blind, gone, made, owed, acked, messages, faults

aclVars == <<acl, zdnsAcl, view, zdnsView, viewAcl, zone, zdnsZone, devAcl, devView,
             devViewAcl, client, ops, disturbed>>
agentVars == <<agent, limiting, master, handler, file, served, conf, lock, limiter,
               transaction, blind, gone, made, owed, acked, messages, faults>>
allVars == <<part, vars, aclVars, agentVars>>

\* Values can be exchanged although Contexts fixes the tenant of a request on a
\* table without tenants: nothing looks at that tenant.
Symmetry == Permutations(Clients) \cup Permutations(Ids) \cup Permutations(Values)

MCViews == {"v1", "v2", "v3"}
MCNameOf == [v \in MCViews |-> IF v = "v1" THEN "internal" ELSE "external"]
MCZones == {"z"}

\* Three views, two of which have the same name; two ACLs.
AclPart == INSTANCE AclViews WITH
    Acls <- Ids, Networks <- Values, Garbled <- "garbled", Views <- MCViews,
    NameOf <- MCNameOf, Zones <- MCZones, None <- Null, MaxOps <- 4

AgentPart == INSTANCE Agent WITH
    Threads <- Clients, NoThread <- Null, MaxVersion <- 2, MaxRequests <- 5,
    MaxFaults <- 2, kind <- agent, requests <- messages

ASSUME AclPart!AclViewsAssumption

\* The variables of a part that is not picked.
NoAcls ==
    /\ acl = Null /\ zdnsAcl = Null /\ view = Null /\ zdnsView = Null
    /\ viewAcl = Null /\ zone = Null /\ zdnsZone = Null /\ devAcl = Null /\ devView = Null
    /\ devViewAcl = Null /\ client = Null /\ ops = Null
    /\ disturbed = Null

NoAgent ==
    /\ agent = Null /\ limiting = Null /\ master = Null /\ handler = Null
    /\ file = Null /\ served = Null /\ conf = Null /\ lock = Null
    /\ limiter = Null /\ transaction = Null /\ blind = Null /\ gone = Null
    /\ made = Null /\ owed = Null /\ acked = Null /\ messages = Null
    /\ faults = Null

\* StoreRefined is about every behaviour: an empty table.
NoResource ==
    /\ kind = "tld" /\ rows = [i \in Ids |-> Null] /\ requests = 0
    /\ call = [c \in Clients |-> Null] /\ answer = [c \in Clients |-> Null]

MCInit ==
    /\ part \in {"acl", "agent", "resource"}
    /\ IF part = "acl" THEN AclPart!Init ELSE NoAcls
    /\ IF part = "agent" THEN AgentPart!Init ELSE NoAgent
    /\ IF part = "resource" THEN Init ELSE NoResource

MCNext ==
    \/ part = "acl" /\ AclPart!Next /\ UNCHANGED <<part, vars, agentVars>>
    \/ part = "agent" /\ AgentPart!Next /\ UNCHANGED <<part, vars, aclVars>>
    \/ part = "resource" /\ Next /\ UNCHANGED <<part, aclVars, agentVars>>

MCSpec == MCInit /\ [][MCNext]_allVars
-----------------------------------------------------------------------------
\* Every variable of every component has its type.
TypesOK ==
    /\ part = "acl" => AclPart!TypeOK
    /\ part = "agent" => AgentPart!TypeOK
    /\ part = "resource" => TypeOK

\* ACLs and views that no overlapping operation or lost answer has disturbed:
\* the rows, the mirror and the device hold the same networks, the same ACLs of
\* a view and the same order of views; the rows of a view come and go together,
\* and a zone's view exists.
AclsMatchDevice == part = "acl" =>
    /\ AclPart!AclMatchesDevice /\ AclPart!PriorityMatchesDevice
    /\ AclPart!ViewRowsTogether /\ AclPart!ViewAclsMatchDevice /\ AclPart!ZoneHasView

\* What the agent acknowledged has happened: after a DELETE the name server does
\* not have the zone, after a CREATE it has it, and a NOTIFY that
\* LimitNotifyMiddleware threw away is covered by a transfer still to come.
AgentAcksAreTrue == part = "agent" =>
    /\ AgentPart!AckedDeleteIsGone /\ AgentPart!AckedCreateIsThere /\ AgentPart!ThrownAwayIsCovered
=============================================================================
