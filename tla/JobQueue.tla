------------------------------- MODULE JobQueue -------------------------------
(***************************************************************************)
(* What the table gmaps_jobs and its workers promise together: a pushed    *)
(* job is given to at most one engine; it may be lost, but only one of the *)
(* sets in Losses at a time, and what is given or lost does not come back. *)
(***************************************************************************)
CONSTANTS
  Jobs,
  Losses     \* the sets of jobs that one failure can cost

VARIABLES waiting, given, lost

vars == <<waiting, given, lost>>

Init == waiting = {} /\ given = {} /\ lost = {}

Put(j) ==
  /\ j \notin waiting \cup given \cup lost
  /\ waiting' = waiting \cup {j}
  /\ UNCHANGED <<given, lost>>

Give(j) ==
  /\ j \in waiting
  /\ waiting' = waiting \ {j}
  /\ given' = given \cup {j}
  /\ UNCHANGED lost

Lose(S) ==
  /\ S \in Losses
  /\ waiting' = waiting \ S
  /\ lost' = lost \cup S
  /\ UNCHANGED given

Next ==
  \/ \E j \in Jobs : Put(j) \/ Give(j)
  \/ \E S \in SUBSET waiting : Lose(S)

Spec == Init /\ [][Next]_vars

=============================================================================
