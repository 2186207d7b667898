---------------------------- MODULE Collections ----------------------------
(***************************************************************************)
(* A client of the v2 API reads a whole collection page by page while      *)
(* other requests insert, change and delete its rows.                      *)
(*                                                                         *)
(* The client follows the `next' links: a page is asked for with the id of *)
(* the last row of the page before (the marker), the service reads the     *)
(* marker's row, selects what comes after it in the order asked for and,   *)
(* for recordsets, reads the selected rows once more together with their   *)
(* records.  Each of these statements runs in a transaction of its own, so *)
(* rows may change between any two of them.  The page carries a `next'     *)
(* link exactly when it is as long as the limit.                           *)
(*                                                                         *)
(* Data is abstracted to the order of the sort key: a key is a number, or  *)
(* Null; the id of a row is a number that stands for its place in the      *)
(* order of the UUIDs.  `hits' is the number of joined rows a filter on    *)
(* the records selects for a recordset.                                    *)
(***************************************************************************)
EXTENDS Naturals, FiniteSets

CONSTANTS
    Ids,           \* the ids the rows of the collection may have
    Keys,          \* the values of a sort column, times included: 0 .. n
    DefaultLimit,  \* default_limit_v2
    AskedLimit,    \* a limit the client asks for
    MaxLimit,      \* max_limit_v2
    MaxChanges,    \* bound on the changes made by other requests
    Null           \* SQL NULL

VARIABLES
    query,      \* what the client asked for, the same for every page
    rows,       \* the table
    now,        \* the clock the stamps are taken from
    changes,    \* changes made so far by others
    phase,      \* where the listing is
    marker,     \* id of the last row of the page before, Null for the first
    mark,       \* the marker's sort key as check_marker read it
    inner,      \* the ids selected by the first of the two recordset queries
    seen,       \* ids delivered so far
    twice,      \* ids delivered on two pages
    stable,     \* rows that have matched unchanged since the listing began
    moved,      \* rows whose sort key changed since the listing began
    shifted,    \* a page was selected after a marker whose key had changed
    thinned     \* a page had fewer recordsets than joined rows

table == <<rows, now, changes>>
history == <<seen, twice, stable, moved, shifted, thinned>>
vars == <<query, table, phase, marker, mark, inner, history>>

-----------------------------------------------------------------------------
(***************************************************************************)
(* The tables: soft, a deleted row stays in the table with its flag set    *)
(* (for a recordset, the flag of its zone); joined, the rows are read by   *)
(* _find_recordsets_with_records.                                          *)
(***************************************************************************)
Removed == [soft |-> FALSE, joined |-> FALSE]

find_zones == [soft |-> TRUE, joined |-> FALSE]
find_recordsets == [soft |-> TRUE, joined |-> TRUE]
find_acls == Removed
find_views == Removed
find_zone_imports == Removed
find_zone_exports == Removed
find_zone_transfer_accepts == Removed
find_service_statuses == Removed

(***************************************************************************)
(* The collections: the kinds of column a client may sort by (SORT_KEYS    *)
(* and the table behind them) and how the rows are read.                   *)
(*   "stamp"     set on insert;  "restamped"  NULL until the first update, *)
(*               then set by every update;                                 *)
(*   "value"     never NULL;     "optional"   may be NULL;                 *)
(*   "tenant"    an optional column, used only with all_tenants;           *)
(*   "absent"    an accepted sort key that is no column of the table.      *)
(* paged: marker, limit and order reach storage; filtered: so do filters.  *)
(***************************************************************************)
Stamps == {"stamp", "id", "restamped"}

ZonesController ==
    [sort_keys |-> Stamps \union {"value", "tenant"}, default |-> "stamp",
     table |-> find_zones, paged |-> TRUE, filtered |-> TRUE]

ZoneRecordSetsController ==
    [sort_keys |-> Stamps \union {"value", "tenant", "optional", "absent"},
     default |-> "stamp", table |-> find_recordsets, paged |-> TRUE, filtered |-> TRUE]

RecordSetsController ==
    [ZoneRecordSetsController EXCEPT !.sort_keys = @ \ {"id", "absent"}]

AclsController ==
    [sort_keys |-> {"id", "value", "tenant", "optional"}, default |-> "value",
     table |-> find_acls, paged |-> TRUE, filtered |-> TRUE]

ViewsController ==
    [sort_keys |-> {"id", "value", "tenant"}, default |-> "value",
     table |-> find_views, paged |-> TRUE, filtered |-> TRUE]

\* TLDs, TSIG keys, blacklists and pools.
NamedController ==
    [sort_keys |-> Stamps \union {"value"}, default |-> "stamp",
     table |-> Removed, paged |-> TRUE, filtered |-> TRUE]

\* Central replaces the filters of imports and exports by the task type.
ZoneImportsController ==
    [sort_keys |-> Stamps, default |-> "stamp",
     table |-> find_zone_imports, paged |-> TRUE, filtered |-> FALSE]

ZoneExportsController ==
    [sort_keys |-> Stamps, default |-> "stamp",
     table |-> find_zone_exports, paged |-> TRUE, filtered |-> FALSE]

TransferAcceptsController ==
    [sort_keys |-> Stamps, default |-> "stamp",
     table |-> find_zone_transfer_accepts, paged |-> TRUE, filtered |-> TRUE]

ServiceStatusController ==
    [sort_keys |-> Stamps \union {"value"}, default |-> "stamp",
     table |-> find_service_statuses, paged |-> FALSE, filtered |-> TRUE]

Controllers ==
    {ZonesController, ZoneRecordSetsController, RecordSetsController,
     AclsController, ViewsController, NamedController, ZoneImportsController,
     ZoneExportsController, TransferAcceptsController, ServiceStatusController}

Nullable == {"restamped", "optional"}

(***************************************************************************)
(* The request, as the client may write it.  One that is refused (400)     *)
(* never reads the table and is not followed further.                      *)
(***************************************************************************)
Limits == {"none", "number", "max", "invalid"}
Filters == {"none", "column", "records", "unknown"}

\* get_paging_params: the limit storage gets; 0 stands for a refusal (a limit
\* that is no positive number).
paging_limit(p) ==
    CASE p = "none" -> DefaultLimit
      [] p = "number" -> AskedLimit
      [] p = "max" -> MaxLimit
      [] p = "invalid" -> 0

\* Faulty variant: the links are made for the default limit.
LinkLimitDefault(p) == IF p = "number" THEN AskedLimit ELSE DefaultLimit

\* _get_collection_links: the limit the length of the page is compared with.
link_limit(p) ==
    CASE p = "none" -> DefaultLimit
      [] p = "number" -> AskedLimit
      [] p = "max" -> MaxLimit
      [] p = "invalid" -> 0

\* get_paging_params and the defaults of find_acls, find_views and _find: the
\* column sorted by.  tenant_id is ignored unless the request is for all
\* tenants.
sort_column(c, col, all_tenants) ==
    CASE col = "tenant" /\ all_tenants -> "optional"
      [] col = "tenant" /\ ~all_tenants -> c.default
      [] OTHER -> col

\* _apply_filter_params: a parameter that is no accepted filter is refused.
accepted_filters(c) ==
    {"none", "column"} \union (IF c.table.joined THEN {"records"} ELSE {})

Refused(c, col, p, f) ==
    \/ paging_limit(p) = 0
    \/ col \notin c.sort_keys
    \/ f \notin accepted_filters(c)
    \/ c.paged /\ col = "absent"

\* What reaches storage.
Request(c, col, all_tenants, desc, p, f) ==
    [key |-> IF c.paged THEN sort_column(c, col, all_tenants) ELSE "stamp",
     desc |-> desc /\ c.paged,
     limit |-> paging_limit(p),
     link |-> link_limit(p),
     hides |-> c.table.soft \/ (c.filtered /\ f # "none"),
     records |-> c.filtered /\ f = "records",
     joined |-> c.table.joined, paged |-> c.paged]

SortKeys == Stamps \union {"value", "tenant", "optional", "absent"}

Queries ==
    UNION {{Request(c, col, all, desc, p, f) : all \in BOOLEAN, desc \in BOOLEAN} :
              <<c, col, p, f>> \in {x \in Controllers \X SortKeys \X Limits \X Filters :
                                      ~Refused(x[1], x[2], x[3], x[4])}}

-----------------------------------------------------------------------------
(***************************************************************************)
(* The table.                                                              *)
(***************************************************************************)
\* The joined rows a filter on the records selects for a recordset.
Joined(i) == IF query.records THEN rows[i].hits ELSE 1

\* _apply_criterion, _apply_deleted_criteria: a row is selected unless it, or
\* the zone of a recordset, is flagged as deleted or it does not match the
\* filter ("hidden").
Matching == {i \in Ids : rows[i].state = "there"}

\* sort_query: ORDER BY key, id.  NULL is less than every value.
Less(k, l) == IF l = Null THEN FALSE ELSE k = Null \/ k < l

Before(i, j) ==
    LET ki == rows[i].key
        kj == rows[j].key
    IN  IF query.desc
        THEN Less(kj, ki) \/ (ki = kj /\ i > j)
        ELSE Less(ki, kj) \/ (ki = kj /\ i < j)

Last(S) == CHOOSE i \in S : \A j \in S \ {i} : Before(j, i)

\* Faulty variant: the id does not break a tie of the sort key.
AfterMarkerByKey(i) ==
    /\ rows[i].key # Null
    /\ IF query.desc THEN rows[i].key < mark ELSE rows[i].key > mark

\* Faulty variant: the marker's own row is selected again.
AfterMarkerInclusive(i) ==
    LET k == rows[i].key IN
    \/ k # Null /\ IF query.desc THEN k < mark ELSE k > mark
    \/ k = mark /\ IF query.desc THEN i <= marker ELSE i >= marker

\* paginate_query: the criteria built from the marker's row.  A comparison
\* with a row whose key is NULL is not true.
AfterMarker(i) ==
    LET k == rows[i].key IN
    \/ k # Null /\ IF query.desc THEN k < mark ELSE k > mark
    \/ k = mark /\ IF query.desc THEN i < marker ELSE i > marker

Candidates ==
    IF marker = Null \/ ~query.paged THEN Matching
    ELSE {i \in Matching : AfterMarker(i)}

\* The number of joined rows that come before i in the ordered result.
JoinedBefore(S, i) ==
    Cardinality({p \in S \X (1 .. 2) : p[2] <= Joined(p[1]) /\ Before(p[1], i)})

\* The ids LIMIT leaves: LIMIT counts joined rows.
Selected ==
    IF query.paged
    THEN {i \in Candidates : JoinedBefore(Candidates, i) < query.limit}
    ELSE Candidates

-----------------------------------------------------------------------------
Init ==
    /\ query \in Queries
    /\ now \in (IF query.key = "stamp" THEN Keys ELSE {0})
    /\ rows \in [Ids -> [state : {"unborn", "there"}, key : Keys \union {Null},
                         hits : 1 .. 2]]
    /\ \A i \in Ids :
        /\ rows[i].key = Null => query.key \in Nullable
        /\ query.key = "id" => rows[i].key = now
        /\ query.key \in {"stamp", "restamped"} => rows[i].key \in {Null} \union 0 .. now
        /\ ~query.records => rows[i].hits = 1
        /\ rows[i].state = "unborn" => rows[i].hits = 1 /\ rows[i].key = now
    /\ changes = 0
    /\ phase = "ask"
    /\ marker = Null
    /\ mark = Null
    /\ inner = {}
    /\ seen = {}
    /\ twice = {}
    /\ stable = Matching
    /\ moved = {}
    /\ shifted = FALSE
    /\ thinned = FALSE

(***************************************************************************)
(* The other requests.                                                     *)
(***************************************************************************)
Change ==
    /\ phase \in {"ask", "marked", "selected"}
    /\ changes < MaxChanges
    /\ changes' = changes + 1
    /\ UNCHANGED <<query, phase, marker, mark, inner, seen, twice, shifted, thinned>>

\* The key of a row inserted now.
NewKeys(t) ==
    CASE query.key = "stamp" -> {t}
      [] query.key = "restamped" -> {Null}
      [] query.key = "optional" -> Keys \union {Null}
      [] query.key = "value" -> Keys
      [] OTHER -> {now}

Insert(i) ==
    /\ Change
    /\ rows[i].state = "unborn"
    /\ \E t \in {k \in Keys : k >= now} : \E k \in NewKeys(t) :
        /\ now' = t
        /\ rows' = [rows EXCEPT ![i].state = "there", ![i].key = k]
    /\ UNCHANGED <<stable, moved>>

\* The key of a row updated now.
UpdatedKeys(t) ==
    CASE query.key = "restamped" -> {t}
      [] query.key = "optional" -> Keys \union {Null}
      [] query.key = "value" -> Keys
      [] OTHER -> {}

Update(i) ==
    /\ Change
    /\ rows[i].state = "there"
    /\ \E t \in {k \in Keys : k >= now} : \E k \in UpdatedKeys(t) \ {rows[i].key} :
        /\ now' = t
        /\ rows' = [rows EXCEPT ![i].key = k]
    /\ stable' = stable \ {i}
    /\ moved' = moved \union {i}

\* A row is removed.
Delete(i) ==
    /\ Change
    /\ rows[i].state \in {"there", "hidden"}
    /\ rows' = [rows EXCEPT ![i].state = "gone"]
    /\ stable' = stable \ {i}
    /\ UNCHANGED <<now, moved>>

\* A zone, or the zone of a recordset, is flagged as deleted, or a row is
\* updated so that it no longer matches the filter.
Hide(i) ==
    /\ Change
    /\ query.hides
    /\ rows[i].state = "there"
    /\ rows' = [rows EXCEPT ![i].state = "hidden"]
    /\ stable' = stable \ {i}
    /\ UNCHANGED <<now, moved>>

(***************************************************************************)
(* The listing.                                                            *)
(***************************************************************************)
\* Faulty variant: without its row, the marker's id stands for its sort key.
CheckMarkerUnchecked ==
    /\ phase = "ask"
    /\ IF marker = Null \/ ~query.paged
       THEN UNCHANGED <<mark, shifted>>
       ELSE /\ mark' = IF rows[marker].state = "gone" THEN marker ELSE rows[marker].key
            /\ shifted' = (shifted \/ marker \in moved)
    /\ phase' = "marked"
    /\ UNCHANGED <<query, table, marker, inner, seen, twice, stable, moved, thinned>>

\* check_marker: the marker's row is looked up by id alone, so that one
\* flagged as deleted still serves.  Comparing with a NULL is an error.
check_marker ==
    /\ phase = "ask"
    /\ IF marker = Null \/ ~query.paged
       THEN phase' = "marked" /\ UNCHANGED <<mark, shifted>>
       ELSE IF rows[marker].state = "gone" \/ rows[marker].key = Null
       THEN phase' = "failed" /\ UNCHANGED <<mark, shifted>>
       ELSE /\ phase' = "marked"
            /\ mark' = rows[marker].key
            /\ shifted' = (shifted \/ marker \in moved)
    /\ UNCHANGED <<query, table, marker, inner, seen, twice, stable, moved, thinned>>

\* Faulty variant: every page has a `next' link.
DeliverWithLink(page) ==
    /\ seen' = seen \union page
    /\ twice' = twice \union (seen \intersect page)
    /\ mark' = Null
    /\ phase' = "ask"
    /\ marker' = IF page = {} THEN marker ELSE Last(page)

\* A page leaves: with a `next' link the client goes on, without it is done.
Deliver(page) ==
    /\ seen' = seen \union page
    /\ twice' = twice \union (seen \intersect page)
    /\ mark' = Null
    /\ IF Cardinality(page) = query.link
       THEN phase' = "ask" /\ marker' = Last(page)
       ELSE phase' = "done" /\ UNCHANGED marker

\* _find: one query returns the page.
find ==
    /\ phase = "marked"
    /\ ~query.joined
    /\ Deliver(Selected)
    /\ UNCHANGED <<query, table, inner, stable, moved, shifted, thinned>>

\* _find_recordsets_with_records, first query: the ids.
find_recordset_ids ==
    /\ phase = "marked"
    /\ query.joined
    /\ inner' = Selected
    /\ thinned' = (thinned \/ \E i \in Selected : Joined(i) > 1)
    /\ phase' = "selected"
    /\ UNCHANGED <<query, table, marker, mark, seen, twice, stable, moved, shifted>>

\* _find_recordsets_with_records, second query: the recordsets with these ids
\* that are still there, in the order they have now.
find_recordsets_with_records ==
    /\ phase = "selected"
    /\ LET page == {i \in inner : rows[i].state # "gone"} IN
        /\ Deliver(page)
        /\ thinned' = (thinned \/ page # inner)
    /\ inner' = {}
    /\ UNCHANGED <<query, table, stable, moved, shifted>>

ListStep ==
    \/ check_marker
    \/ find
    \/ find_recordset_ids
    \/ find_recordsets_with_records

Next ==
    \/ \E i \in Ids : Insert(i) \/ Update(i) \/ Delete(i) \/ Hide(i)
    \/ ListStep

Spec == Init /\ [][Next]_vars

\* The client asks for the next page and central answers.
FairSpec == Spec /\ WF_vars(ListStep)

-----------------------------------------------------------------------------
TypeOK ==
    /\ query.key \in SortKeys /\ query.limit \in 1 .. MaxLimit
    /\ rows \in [Ids -> [state : {"unborn", "there", "hidden", "gone"},
                         key : Keys \union {Null}, hits : 1 .. 2]]
    /\ now \in Keys
    /\ changes \in 0 .. MaxChanges
    /\ phase \in {"ask", "marked", "selected", "done", "failed"}
    /\ marker \in Ids \union {Null}
    /\ mark \in Keys \union {Null}
    /\ \A S \in {inner, seen, twice, stable, moved} : S \subseteq Ids
    /\ shifted \in BOOLEAN
    /\ thinned \in BOOLEAN

(***************************************************************************)
(* A listing whose marker rows kept their sort key never delivers a row on *)
(* two pages unless that row's own sort key changed, whatever is inserted, *)
(* changed or deleted meanwhile (paginate_query, check_marker).  Service   *)
(* statuses are left out: their listing takes no marker.                   *)
(***************************************************************************)
NoRowTwice == query.paged /\ ~shifted => twice \subseteq moved

(***************************************************************************)
(* A listing that ends without a `next' link has delivered every row that  *)
(* matched, unchanged, from the first request to the last: no insertion,   *)
(* deletion or deleted marker makes the client miss one.  The exceptions   *)
(* are those of the code: a marker row whose sort key changed, a recordset *)
(* page thinned by its join or by a deletion between its two queries, and  *)
(* a descending order over a column with NULLs.                            *)
(***************************************************************************)
ListingIsComplete ==
    (/\ phase = "done"
     /\ query.paged
     /\ ~shifted
     /\ ~thinned
     /\ ~(query.desc /\ query.key \in Nullable)) => stable \subseteq seen

(***************************************************************************)
(* Following the `next' links comes to an end (_get_collection_links and   *)
(* paginate_query agree on the limit and the marker advances).             *)
(***************************************************************************)
ListingEnds == query.paged => <>(phase \in {"done", "failed"})
=============================================================================
