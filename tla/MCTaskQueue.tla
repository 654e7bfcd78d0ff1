------------------------------ MODULE MCTaskQueue ------------------------------
(* Two callers that make every call there is.                                 *)
EXTENDS TaskQueue, TLC
CONSTANTS c1, c2
Symmetry == Permutations(Callers)
===============================================================================
