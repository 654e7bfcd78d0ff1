------------------------------ MODULE CrawlInv ------------------------------
(***************************************************************************)
(* The inductive invariant of Crawl.  What the counters hold is the size   *)
(* of three sets of jobs, and where a link of a result page has gone can   *)
(* be read off the seeds.                                                  *)
(***************************************************************************)
EXTENDS Crawl

FoundPlaces == {p \in PlaceJobs : /\ seedPc[p[1]] \in {"count", "push", "done"}
                                  /\ p \in next[p[1]]}
DonePlaces   == {p \in PlaceJobs : placePc[p] = "done"}
CountedSeeds == {s \in Seeds : SeedCounted(s)}

(* Each counter is the number of jobs that have passed its increment. *)
CountersExact ==
  /\ seedCompleted = Cardinality(CountedSeeds)
  /\ placesFound = Cardinality(FoundPlaces)
  /\ placesCompleted = Cardinality(DonePlaces)

(* A seed lists only jobs of its own, and none before its page is there. *)
NextOwned ==
  \A s \in Seeds :
    /\ next[s] \subseteq {s} \X Links
    /\ seedPc[s] \in {"queued", "fetch", "failed"} =>
         next[s] = {} /\ shown[s] = {} /\ page[s] = "none"

(* A place job is known to the engine only after its seed was counted. *)
PlacesFollowSeeds ==
  \A p \in PlaceJobs :
    placePc[p] # "none" => SeedCounted(p[1]) /\ p \in next[p[1]]

(* The monitor's verdict still stands. *)
VerdictStands == Verdict => IsDone

CountInv == TypeOK /\ CountersExact /\ NextOwned /\ PlacesFollowSeeds
                   /\ VerdictStands

(* Where a link is that a page showed: still to look at, between the two   *)
(* critical sections of the deduper, with this seed, or seen.              *)
LinkTracked ==
  \A s \in Seeds :
    /\ \A l \in shown[s] : \/ l \in todo[s] \cup href[s] \cup seen
                           \/ <<s, l>> \in next[s]
    /\ seedPc[s] \notin {"scan", "insert"} => todo[s] = {}
    /\ seedPc[s] # "insert" => href[s] = {}

(* A link that was seen is with a seed whose page is a feed. *)
SeenScheduled ==
  /\ \A l \in seen : \E s \in Seeds : <<s, l>> \in next[s]
  /\ \A s \in Seeds : \A l \in Links :
       page[s] = "feed" /\ <<s, l>> \in next[s] => l \in seen

ScanIsFeed ==
  \A s \in Seeds : seedPc[s] \in {"scan", "insert"} => page[s] = "feed"

LinkInv == TypeOK /\ NextOwned /\ LinkTracked /\ SeenScheduled /\ ScanIsFeed
                  /\ LinkScheduledOnce

=============================================================================
