------------------------------- MODULE Exiter -------------------------------
(***************************************************************************)
(* The exit monitor of a crawl (exiter/exiter.go).  The scrape jobs report *)
(* their progress by incrementing three counters, each increment in a      *)
(* critical section of its own; a goroutine looks at the counters every    *)
(* five seconds and cancels the crawl's context once they say that nothing *)
(* is left to do.  The module owns the counters, the goroutine and the     *)
(* context; the crawls that use it EXTEND it.                              *)
(***************************************************************************)
EXTENDS Integers

CONSTANTS
  Seeds,                \* the seed jobs of the crawl, one per keyword
  SeedCount             \* the argument of SetSeedCount, set before Run starts

ASSUME SeedCountAssumption == SeedCount \in Nat

VARIABLES
  seedCompleted,        \* the three counters, guarded by exiter.mu
  placesFound,
  placesCompleted,
  monitor,              \* control point of the goroutine started by Run
  ctx                   \* the crawl's context: "live", or what cancelled it

counters   == <<seedCompleted, placesFound, placesCompleted>>
exiterVars == <<seedCompleted, placesFound, placesCompleted, monitor, ctx>>

ExiterTypeOK ==
  /\ seedCompleted \in Nat
  /\ placesFound \in Nat
  /\ placesCompleted \in Nat
  /\ monitor \in {"watching", "cancelling", "cancelled", "stopped"}
  /\ ctx \in {"live", "completed", "expired"}

ExiterInit ==
  /\ seedCompleted = 0
  /\ placesFound = 0
  /\ placesCompleted = 0
  /\ monitor = "watching"
  /\ ctx = "live"

-----------------------------------------------------------------------------
(* The increments, as the jobs call them. *)

IncrSeedCompleted(n) ==
  /\ seedCompleted' = seedCompleted + n
  /\ UNCHANGED <<placesFound, placesCompleted, monitor, ctx>>

IncrPlacesFound(n) ==
  /\ placesFound' = placesFound + n
  /\ UNCHANGED <<seedCompleted, placesCompleted, monitor, ctx>>

(* Mutant: the completed places are counted down. *)
IncrPlacesCompletedDown(n) ==
  /\ placesCompleted' = placesCompleted - n
  /\ UNCHANGED <<seedCompleted, placesFound, monitor, ctx>>

IncrPlacesCompleted(n) ==
  /\ placesCompleted' = placesCompleted + n
  /\ UNCHANGED <<seedCompleted, placesFound, monitor, ctx>>

-----------------------------------------------------------------------------
(* Mutant: isDone that only counts the seeds. *)
IsDoneSeedsOnly == seedCompleted = SeedCount

(* Mutant: isDone that only counts the places. *)
IsDonePlacesOnly == placesFound = placesCompleted

IsDone ==
  /\ seedCompleted = SeedCount
  /\ placesFound = placesCompleted

(* A tick of the ticker that finds the crawl done.  The verdict is taken   *)
(* under the mutex, the cancel function is called after it is released. A  *)
(* tick that finds it not done changes nothing.                            *)
Tick ==
  /\ monitor = "watching"
  /\ IsDone
  /\ monitor' = "cancelling"
  /\ UNCHANGED <<counters, ctx>>

CancelFunc ==
  /\ monitor = "cancelling"
  /\ monitor' = "cancelled"
  /\ ctx' = IF ctx = "live" THEN "completed" ELSE ctx
  /\ UNCHANGED counters

(* Run returns when the context it was given is done. *)
MonitorStop ==
  /\ monitor = "watching"
  /\ ctx # "live"
  /\ monitor' = "stopped"
  /\ UNCHANGED <<counters, ctx>>

(* Anything else that ends the crawl: its deadline, the inactivity limit   *)
(* of the engine, the shutdown of the process.                             *)
Expire ==
  /\ ctx = "live"
  /\ ctx' = "expired"
  /\ UNCHANGED <<counters, monitor>>

MonitorStep == Tick \/ CancelFunc \/ MonitorStop

(* The monitor has found the crawl complete, and ends it or is about to. *)
Verdict == monitor \in {"cancelling", "cancelled"}

=============================================================================
