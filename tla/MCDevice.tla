------------------------------ MODULE MCDevice ------------------------------
(***************************************************************************)
(* Zones and records when nothing fails but the device's consent, in one   *)
(* run.  A behaviour picks one part in its initial state, and leaves the   *)
(* variables of the others alone:                                          *)
(*   alone   every kind of request on records, one after the other, in     *)
(*           which callbacks may be refused after the device was updated;  *)
(*   locked  synchronized requests on records by two threads;              *)
(*   zone    two clients of one central on two zones, which they address   *)
(*           only when ACTIVE.                                             *)
(* Pair are clients and threads, Many are records and rows.                *)
(***************************************************************************)
EXTENDS RecordSets, TLC

CONSTANTS Pair, Names, OneSet, Many

VARIABLES part, zones, zrecs, zdev, zdns, asso, call, task, recq, zfaults, zops

zoneVars == <<zones, zrecs, zdev, zdns, asso, call, task, recq, zfaults, zops>>
allVars == <<part, vars, zoneVars>>

\* No property depends on which of these is which.
Symmetry == Permutations(Recs) \cup Permutations(Many) \cup Permutations(Pair)
            \cup Permutations(Data) \cup Permutations(Ttls) \cup Permutations(RrIds)

MCLocked == {"create", "update", "addrec", "updrec", "delrec"}
MCOps == {"create", "update", "delete", "touch"}
MCIds == {"z1", "z2"}
MCSecondary == {"z2"}
MCNone == {}
MCCentral == [c \in Pair |-> CHOOSE d \in Pair : TRUE]

MCConsent == {"device"}

LockedPart == INSTANCE RecordSets WITH
    Sets <- OneSet, Recs <- Many, Threads <- Pair, Ops <- MCLocked,
    Faults <- MCConsent, MaxOps <- 4

ZonePart == INSTANCE ZoneLifecycle WITH
    Ids <- MCIds, Rows <- Many, Clients <- Pair, Central <- MCCentral,
    Recoverers <- MCNone, Secondary <- MCSecondary, MaxOps <- 6, Ops <- MCOps,
    OnlyActive <- TRUE, Faults <- MCConsent, recs <- zrecs, dev <- zdev, faults <- zfaults, ops <- zops

\* The variables of a part that is not picked.
NoRecords ==
    /\ rsets = None /\ recs = None /\ rows = None /\ links = None /\ dev = None
    /\ req = None /\ job = None /\ faults = None /\ ops = None

NoZones ==
    /\ zones = None /\ zrecs = None /\ zdev = None /\ zdns = None /\ asso = None
    /\ call = None /\ task = None /\ recq = None /\ zfaults = None /\ zops = None

MCInit ==
    /\ part \in {"alone", "locked", "zone"}
    /\ CASE part = "alone" -> Init
         [] part = "locked" -> LockedPart!Init
         [] part = "zone" -> NoRecords
    /\ IF part = "zone" THEN ZonePart!Init ELSE NoZones

MCNext ==
    \/ part = "alone" /\ Next /\ UNCHANGED <<part, zoneVars>>
    \/ part = "locked" /\ LockedPart!Next /\ UNCHANGED <<part, zoneVars>>
    \/ part = "zone" /\ ZonePart!Next /\ UNCHANGED <<part, vars>>

MCSpec == MCInit /\ [][MCNext]_allVars
-----------------------------------------------------------------------------
\* A zone nobody works on is on the device, in the mirror and in its default
\* records as its row says.
ZoneMatchesDevice == part = "zone" => ZonePart!DatabaseMatchesDevice

\* Nothing of a zone that is gone stays in the mirror or on the device.
ZoneLeaksNothing == part = "zone" => ZonePart!NothingLeaks

\* A record no job works on is on the device if and only if the database has it,
\* and with it its mirror and association, after any sequence of requests and
\* refused callbacks; and though synchronized requests of two threads interleave,
\* the mirrored row is what the device serves while no callback is refused.
RecordsMatchDevice ==
    /\ part = "alone" => RecordMatchesDevice
    /\ part = "locked" => LockedPart!MirrorMatchesDevice
=============================================================================
