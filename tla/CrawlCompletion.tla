--------------------------- MODULE CrawlCompletion ---------------------------
(***************************************************************************)
(* What the exit monitor promises, without counters: a crawl is a set of   *)
(* open seeds and open places; finishing a seed opens the places it led    *)
(* to; the crawl is called complete only when nothing is open, and stays   *)
(* complete.                                                               *)
(***************************************************************************)
CONSTANTS Seeds, Places

VARIABLES openSeeds, openPlaces, completed

vars == <<openSeeds, openPlaces, completed>>

Init ==
  /\ openSeeds = Seeds
  /\ openPlaces = {}
  /\ completed = FALSE

FinishSeed(s, found) ==
  /\ s \in openSeeds
  /\ openSeeds' = openSeeds \ {s}
  /\ openPlaces' = openPlaces \cup found
  /\ UNCHANGED completed

FinishPlace(p) ==
  /\ p \in openPlaces
  /\ openPlaces' = openPlaces \ {p}
  /\ UNCHANGED <<openSeeds, completed>>

Complete ==
  /\ openSeeds = {}
  /\ openPlaces = {}
  /\ completed' = TRUE
  /\ UNCHANGED <<openSeeds, openPlaces>>

Next ==
  \/ \E s \in Seeds, found \in SUBSET Places : FinishSeed(s, found)
  \/ \E p \in Places : FinishPlace(p)
  \/ Complete

Spec == Init /\ [][Next]_vars

=============================================================================
