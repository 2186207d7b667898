----------------------------- MODULE MCRequests -----------------------------
(***************************************************************************)
(* How requests to designate-central meet each other, in one run: the      *)
(* decorators of its methods, the tree of zones that creates, deletes and  *)
(* purges leave behind, and listings while others change the table.  A     *)
(* behaviour picks one part in its initial state, runs that component, and *)
(* leaves the variables of the others alone: no call has been received     *)
(* then.  Pair are the threads of the tree's central process and the       *)
(* purges.                                                                 *)
(***************************************************************************)
EXTENDS ServiceCalls, TLC

CONSTANTS Pair, Tenants, None

VARIABLES part,
    zone, rset, work, request, purge, ops,
    query, table, now, changes, phase, marker, mark, inner, seen, twice, stable,
    moved, shifted, thinned

treeVars == <<zone, rset, work, request, purge, ops>>
listVars == <<query, table, now, changes, phase, marker, mark, inner, seen, twice,
              stable, moved, shifted, thinned>>
allVars == <<part, vars, treeVars, listVars>>

Symmetry == Permutations(Pair) \cup Permutations(Tenants)

MCIds == 1 .. 3
MCKeys == {0, 1}
\* Three names one below the other, one that is blacklisted, and a TLD.
MCNames == {<<"com">>, <<"com", "x">>, <<"com", "a">>, <<"com", "a", "b">>,
            <<"com", "a", "b", "c">>}
MCTlds == {<<"com">>}
MCBlacklist == {<<"com", "x">>}

TreePart == INSTANCE ZoneTree WITH
    Ids <- MCIds, Names <- MCNames, Tlds <- MCTlds, Blacklist <- MCBlacklist,
    Threads <- Pair, Purgers <- Pair, Batch <- 2, MaxOps <- 3, call <- request

ASSUME TreePart!TreeAssumption

ListPart == INSTANCE Collections WITH
    Ids <- MCIds, Keys <- MCKeys, DefaultLimit <- 1, AskedLimit <- 1, MaxLimit <- 2,
    MaxChanges <- 1, Null <- None, rows <- table

\* The variables of a part that is not picked.
NoTree ==
    /\ zone = None /\ rset = None /\ work = None /\ request = None
    /\ purge = None /\ ops = None

NoListing ==
    /\ query = None /\ table = None /\ now = None /\ changes = None /\ phase = None
    /\ marker = None /\ mark = None /\ inner = None /\ seen = None /\ twice = None
    /\ stable = None /\ moved = None /\ shifted = None /\ thinned = None

\* Before the requests of the run a tenant has created none, two or all of three
\* zones, from the top down.
Chain == <<<<"com", "a">>, <<"com", "a", "b">>, <<"com", "a", "b", "c">>>>

Grown ==
    \E there \in {{}, {1, 2}, {1, 3}, {1, 2, 3}}, x \in Tenants, type \in TreePart!Types :
        /\ zone = [z \in MCIds |->
              IF z \in there
              THEN [name |-> Chain[z], tenant |-> x, type |-> type, state |-> "live",
                    parent |-> LET above == there \cap 1 .. (z - 1)
                               IN  IF above = {} THEN None ELSE Max(above)]
              ELSE TreePart!NoRow]
        /\ rset = UNION {{[zone |-> z, name |-> Chain[z], type |-> "NS", own |-> TRUE],
                          [zone |-> z, name |-> Append(Chain[z], "ns"), type |-> "A",
                           own |-> TRUE]} : z \in there}
        /\ work = {} /\ ops = 0
        /\ request = [t \in Pair |-> TreePart!NoCall]
        /\ purge = [p \in Pair |-> TreePart!Idle]

MCInit ==
    /\ part \in {"calls", "tree", "list"}
    /\ Init
    /\ IF part = "tree" THEN Grown ELSE NoTree
    /\ IF part = "list" THEN ListPart!Init ELSE NoListing

MCNext ==
    \/ part = "calls" /\ Next /\ UNCHANGED <<part, treeVars, listVars>>
    \/ part = "tree" /\ TreePart!Next /\ UNCHANGED <<part, vars, listVars>>
    \/ part = "list" /\ ListPart!Next /\ UNCHANGED <<part, vars, treeVars>>

MCSpec == MCInit /\ [][MCNext]_allVars
-----------------------------------------------------------------------------
\* The variables of the tree and of the listing have their types.
PartTypesOK ==
    /\ part = "tree" => TreePart!TypeOK
    /\ part = "list" => ListPart!TypeOK

\* The tree of zones: the parent of a zone is above it, a tree belongs to one
\* tenant, and a CNAME is alone at its name.
TreeIsSound == part = "tree" => TreePart!TreeIsSound

\* A listing that follows the `next' links delivers no row twice and misses none
\* that matched all the time, whatever other requests change meanwhile.
ListingIsExact == part = "list" => ListPart!NoRowTwice /\ ListPart!ListingIsComplete
=============================================================================
