--------------------------- MODULE MCRecordSets ---------------------------
(* Instances of RecordSets for TLC. *)
EXTENDS RecordSets, TLC

Symmetry == Permutations(Recs) \cup Permutations(Threads)
=============================================================================
