------------------------------ MODULE FastCrawl ------------------------------
(***************************************************************************)
(* A crawl in fast mode: CreateSeedJobs makes one SearchJob per keyword,   *)
(* which reads its places from one response and spawns no other job.  A    *)
(* SearchJob counts itself BEFORE it counts its places, so the counters    *)
(* can agree while a job is between its increments.                        *)
(***************************************************************************)
EXTENDS Exiter, FiniteSets

CONSTANT MaxEntries \* bound: the places within the radius, per response

ASSUME FastCrawlAssumption ==
  /\ IsFiniteSet(Seeds)
  /\ MaxEntries \in Nat
  /\ SeedCount = Cardinality(Seeds)

VARIABLES
  searchPc,         \* control point of each SearchJob
  entries           \* how many places it found within the radius

fastVars == <<exiterVars, searchPc, entries>>

FastTypeOK ==
  /\ ExiterTypeOK
  /\ searchPc \in [Seeds -> {"queued", "fetch", "parsed", "seedCounted",
                             "foundCounted", "done", "failed"}]
  /\ entries \in [Seeds -> 0..MaxEntries]

FastInit ==
  /\ ExiterInit
  /\ searchPc = [s \in Seeds |-> "queued"]
  /\ entries = [s \in Seeds |-> 0]

-----------------------------------------------------------------------------
Move(s, from, to) ==
  /\ searchPc[s] = from
  /\ searchPc' = [searchPc EXCEPT ![s] = to]

Take(s) ==
  /\ ctx = "live"
  /\ Move(s, "queued", "fetch")
  /\ UNCHANGED <<exiterVars, entries>>

(* The fetch fails, the body is empty or does not parse. *)
Fails(s) ==
  /\ Move(s, "fetch", "failed")
  /\ UNCHANGED <<exiterVars, entries>>

Parse(s, n) ==
  /\ Move(s, "fetch", "parsed")
  /\ entries' = [entries EXCEPT ![s] = n]
  /\ UNCHANGED exiterVars

CountSearch(s) ==
  /\ Move(s, "parsed", "seedCounted")
  /\ IncrSeedCompleted(1)
  /\ UNCHANGED entries

CountEntries(s) ==
  /\ Move(s, "seedCounted", "foundCounted")
  /\ IncrPlacesFound(entries[s])
  /\ UNCHANGED entries

(* Mutant: the places of a response count as one. *)
CountCompletedOnce(s) ==
  /\ Move(s, "foundCounted", "done")
  /\ IncrPlacesCompleted(1)
  /\ UNCHANGED entries

CountCompleted(s) ==
  /\ Move(s, "foundCounted", "done")
  /\ IncrPlacesCompleted(entries[s])
  /\ UNCHANGED entries

Process(s) ==
  \/ Fails(s)
  \/ \E n \in 0..MaxEntries : Parse(s, n)
  \/ CountSearch(s) \/ CountEntries(s) \/ CountCompleted(s)

FastNext ==
  \/ \E s \in Seeds : Take(s) \/ Process(s)
  \/ (MonitorStep \/ Expire) /\ UNCHANGED <<searchPc, entries>>

FastSpec == FastInit /\ [][FastNext]_fastVars

(* As for Crawl: the engine keeps taking jobs, goroutines run on. *)
FastFairness ==
  /\ \A s \in Seeds : WF_fastVars(Take(s)) /\ WF_fastVars(Process(s))
  /\ WF_fastVars(MonitorStep /\ UNCHANGED <<searchPc, entries>>)

FastFairSpec == FastSpec /\ FastFairness

-----------------------------------------------------------------------------
(* Properties *)

Parsed(s) == searchPc[s] \notin {"queued", "fetch", "failed"}
AnySearchFailed == \E s \in Seeds : searchPc[s] = "failed"

(* The order of the increments lets the monitor end the crawl while a job  *)
(* is still counting, but never before the response of every seed has been *)
(* parsed, and never a crawl with a failed seed: no place is left unread.  *)
VerdictAfterParsing == Verdict => \A s \in Seeds : Parsed(s)

(* Unless a job fails or the time runs out, the monitor ends the crawl. *)
FastCrawlEnds == <>(ctx # "live" \/ AnySearchFailed)

=============================================================================
