------------------------------ MODULE MCLifecycle ------------------------------
(* Results of two jobs, and one that is not an entry; the task of the         *)
(* connection test and one that a caller enqueues.                            *)
EXTENDS Lifecycle, TLC
CONSTANTS r1, r2, r3, r4, j1, j2, t1, t2
MCJobOf == (r1 :> j1) @@ (r2 :> j1) @@ (r3 :> j2) @@ (r4 :> j1)
===============================================================================
