----------------------------- MODULE MCJobProvider -----------------------------
(* Small instances of JobProvider for TLC. *)
EXTENDS JobProvider, TLC

Symmetry == Permutations(Slots) \cup Permutations(Jobs)
=============================================================================
