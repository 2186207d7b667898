-------------------------- MODULE MCZoneLifecycle --------------------------
(* Small instances of ZoneLifecycle. *)
EXTENDS ZoneLifecycle, TLC

\* All clients in one central process, and each in its own
OneCentral == [c \in Clients |-> CHOOSE d \in Clients : TRUE]
OwnCentral == [c \in Clients |-> c]

\* No property depends on which client, name, ttl or row is which
Symmetry == Permutations(Clients) \cup Permutations(Names)
            \cup Permutations(Ttls) \cup Permutations(Rows)
=============================================================================
