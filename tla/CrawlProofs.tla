----------------------------- MODULE CrawlProofs -----------------------------
(***************************************************************************)
(* Theorems about Crawl, for every set of seeds and links, and at the end  *)
(* about FastCrawl, which runs the same exit monitor over other jobs.      *)
(***************************************************************************)
EXTENDS CrawlInv, FastCrawl, FiniteSetTheorems, TLAPS

(* Every variable keeps its type. *)
LEMMA TypeOKStep == ASSUME TypeOK, [Next]_vars PROVE TypeOK'
<1> USE DEF TypeOK, ExiterTypeOK, SeedPc, PlacePc
<1>1. ASSUME NEW s \in Seeds, TakeSeed(s) \/ SeedFails(s) \/ ScanDone(s)
                              \/ SeedDone(s)
      PROVE  TypeOK'
  BY <1>1 DEF TakeSeed, SeedFails, ScanDone, SeedDone, exiterVars
<1>2. ASSUME NEW s \in Seeds, NEW l \in Links, SearchShowsPlace(s, l)
      PROVE  TypeOK'
  BY <1>2 DEF SearchShowsPlace, exiterVars, PlaceJobs
<1>3. ASSUME NEW s \in Seeds, NEW links \in SUBSET Links,
             SearchShowsFeed(s, links)
      PROVE  TypeOK'
  BY <1>3 DEF SearchShowsFeed, exiterVars
<1>4. ASSUME NEW s \in Seeds, NEW l \in Links, DedupCheck(s, l)
      PROVE  TypeOK'
  BY <1>4 DEF DedupCheck, exiterVars
<1>5. ASSUME NEW s \in Seeds, DedupInsert(s)
      PROVE  TypeOK'
  <2>1. next[s] \cup ({s} \X (href[s] \ seen)) \in SUBSET PlaceJobs
    BY DEF PlaceJobs
  <2> QED BY <1>5, <2>1 DEF DedupInsert, exiterVars
<1>6. ASSUME NEW s \in Seeds, CountFound(s)
      PROVE  TypeOK'
  <2>1. Cardinality(next[s]) \in Nat
    <3>1. IsFiniteSet(PlaceJobs)
      BY CrawlAssumption, FS_Product DEF PlaceJobs
    <3> QED BY <3>1, FS_Subset, FS_CardinalityType
  <2> QED BY <1>6, <2>1 DEF CountFound, IncrPlacesFound
<1>7. ASSUME NEW s \in Seeds, CountSeed(s)
      PROVE  TypeOK'
  BY <1>7 DEF CountSeed, IncrSeedCompleted
<1>8. ASSUME NEW s \in Seeds, NEW p \in next[s], PushPlace(s, p)
      PROVE  TypeOK'
  BY <1>8 DEF PushPlace, exiterVars
<1>9. ASSUME NEW p \in PlaceJobs,
             TakePlace(p) \/ PlaceProcess(p)
      PROVE  TypeOK'
  BY <1>9 DEF TakePlace, PlaceProcess, PlaceFails, PlaceCompletes,
              PlaceSpawnsEmail, EmailCompletes, MovePlace,
              IncrPlacesCompleted, exiterVars
<1>10. ASSUME MonitorStep \/ Expire, UNCHANGED jobVars
       PROVE  TypeOK'
  BY <1>10 DEF MonitorStep, Tick, CancelFunc, MonitorStop, Expire, counters,
               jobVars
<1>11. CASE UNCHANGED vars
  BY <1>11 DEF vars, exiterVars, jobVars
<1> QED
  BY <1>1, <1>2, <1>3, <1>4, <1>5, <1>6, <1>7, <1>8, <1>9, <1>10, <1>11
     DEF Next, SeedProcess

(* Type correctness: THEOREM Spec => []TypeOK. *)
THEOREM TypeCorrect == Spec => []TypeOK
<1>1. Init => TypeOK
  BY DEF Init, ExiterInit, TypeOK, ExiterTypeOK, SeedPc, PlacePc, PlaceJobs
<1>2. TypeOK /\ [Next]_vars => TypeOK'
  BY TypeOKStep
<1> QED BY <1>1, <1>2, PTL DEF Spec

-----------------------------------------------------------------------------
(* Sets of jobs are finite, so the counters can be compared with their     *)
(* sizes.                                                                  *)
LEMMA JobsFinite ==
  /\ IsFiniteSet(Seeds) /\ IsFiniteSet(PlaceJobs)
  /\ \A S \in SUBSET Seeds : IsFiniteSet(S) /\ Cardinality(S) \in Nat
  /\ \A S \in SUBSET PlaceJobs : IsFiniteSet(S) /\ Cardinality(S) \in Nat
<1>1. IsFiniteSet(PlaceJobs)
  BY CrawlAssumption, FS_Product DEF PlaceJobs
<1> QED BY <1>1, CrawlAssumption, FS_Subset, FS_CardinalityType

(* The sizes of two disjoint finite sets add up. *)
LEMMA DisjointSizes ==
  ASSUME NEW S, NEW T, IsFiniteSet(S), IsFiniteSet(T), S \cap T = {}
  PROVE  Cardinality(S \cup T) = Cardinality(S) + Cardinality(T)
<1>1. Cardinality(S \cup T)
        = Cardinality(S) + Cardinality(T) - Cardinality(S \cap T)
  BY FS_Union
<1>2. Cardinality(S \cap T) = 0
  BY FS_EmptySet
<1>3. Cardinality(S) \in Nat /\ Cardinality(T) \in Nat
  BY FS_CardinalityType
<1> QED BY <1>1, <1>2, <1>3

(* When the counters agree, every seed was counted and every place of      *)
(* every seed is done: equal sizes of a set and its subset.                *)
LEMMA DoneMeansClosed ==
  ASSUME CountInv, IsDone
  PROVE  /\ \A s \in Seeds : SeedCounted(s)
         /\ \A s \in Seeds : \A p \in next[s] : p \in PlaceJobs /\ placePc[p] = "done"
<1>1. CountedSeeds = Seeds
  <2>1. CountedSeeds \in SUBSET Seeds
    BY DEF CountedSeeds
  <2>2. Cardinality(CountedSeeds) = Cardinality(Seeds)
    BY CrawlAssumption DEF CountInv, CountersExact, IsDone
  <2> QED BY <2>1, <2>2, JobsFinite, FS_Subset
<1>2. DonePlaces = FoundPlaces
  <2>1. FoundPlaces \in SUBSET PlaceJobs
    BY DEF FoundPlaces
  <2>2. DonePlaces \in SUBSET FoundPlaces
    BY DEF CountInv, PlacesFollowSeeds, DonePlaces, FoundPlaces, SeedCounted
  <2>3. Cardinality(DonePlaces) = Cardinality(FoundPlaces)
    BY DEF CountInv, CountersExact, IsDone
  <2> QED BY <2>1, <2>2, <2>3, JobsFinite, FS_Subset
<1>3. ASSUME NEW s \in Seeds, NEW p \in next[s]
      PROVE  p \in PlaceJobs /\ placePc[p] = "done"
  <2>1. p \in PlaceJobs /\ p[1] = s
    BY DEF CountInv, NextOwned, PlaceJobs
  <2>2. p \in FoundPlaces
    BY <1>1, <2>1 DEF FoundPlaces, CountedSeeds, SeedCounted
  <2> QED BY <1>2, <2>1, <2>2 DEF DonePlaces
<1> QED BY <1>1, <1>3 DEF CountedSeeds

(* A step that changes neither the counters, nor the monitor, nor which    *)
(* jobs have passed an increment, keeps CountersExact and the verdict.     *)
LEMMA CountersUntouched ==
  ASSUME CountersExact, VerdictStands, UNCHANGED <<counters, monitor>>,
         FoundPlaces' = FoundPlaces, DonePlaces' = DonePlaces,
         CountedSeeds' = CountedSeeds
  PROVE  CountersExact' /\ VerdictStands'
BY DEF CountersExact, VerdictStands, Verdict, IsDone, counters

(* The counting invariant is inductive: one step per action. *)
LEMMA CountInvStep == ASSUME CountInv, [Next]_vars PROVE CountInv'
<1> USE DEF CountInv
<1>0. TypeOK'
  BY TypeOKStep
<1> USE DEF SeedPc, PlacePc
<1>1. ASSUME NEW s \in Seeds,
             \/ TakeSeed(s) \/ SeedFails(s) \/ ScanDone(s) \/ SeedDone(s)
             \/ \E l \in Links : SearchShowsPlace(s, l) \/ DedupCheck(s, l)
             \/ \E links \in SUBSET Links : SearchShowsFeed(s, links)
             \/ DedupInsert(s)
      PROVE  CountInv'
  <2> USE <1>1 DEF TakeSeed, SeedFails, ScanDone, SeedDone, SearchShowsPlace,
                   DedupCheck, SearchShowsFeed, DedupInsert, exiterVars, TypeOK
  <2>1. NextOwned'
    BY DEF NextOwned
  <2>2. PlacesFollowSeeds'
    BY DEF PlacesFollowSeeds, SeedCounted, PlaceJobs
  <2>3. CountersExact' /\ VerdictStands'
    <3>1. FoundPlaces' = FoundPlaces /\ DonePlaces' = DonePlaces
      BY DEF FoundPlaces, DonePlaces, PlaceJobs
    <3>2. CountedSeeds' = CountedSeeds
      BY DEF CountedSeeds, SeedCounted
    <3> QED BY <3>1, <3>2, CountersUntouched DEF counters
  <2> QED BY <1>0, <2>1, <2>2, <2>3
<1>2. ASSUME NEW s \in Seeds, CountFound(s)
      PROVE  CountInv'
  <2> USE <1>2 DEF CountFound, IncrPlacesFound, TypeOK
  <2>1. NextOwned'
    BY DEF NextOwned
  <2>2. PlacesFollowSeeds'
    BY DEF PlacesFollowSeeds, SeedCounted, PlaceJobs
  <2>3. FoundPlaces' = FoundPlaces \cup next[s]
    BY DEF FoundPlaces, PlaceJobs, NextOwned
  <2>4. FoundPlaces \cap next[s] = {}
    BY DEF FoundPlaces, NextOwned
  <2>5. placesFound' = Cardinality(FoundPlaces')
    <3>1. FoundPlaces \in SUBSET PlaceJobs /\ next[s] \in SUBSET PlaceJobs
      BY DEF FoundPlaces
    <3>2. Cardinality(FoundPlaces \cup next[s])
            = Cardinality(FoundPlaces) + Cardinality(next[s])
      BY <2>4, <3>1, JobsFinite, DisjointSizes
    <3> QED BY <2>3, <3>2 DEF CountersExact
  <2>6. DonePlaces' = DonePlaces /\ CountedSeeds' = CountedSeeds
    BY DEF DonePlaces, CountedSeeds, SeedCounted
  <2>7. CountersExact'
    BY <2>5, <2>6 DEF CountersExact
  <2>8. VerdictStands'
    BY DoneMeansClosed DEF VerdictStands, Verdict, SeedCounted
  <2> QED BY <1>0, <2>1, <2>2, <2>7, <2>8
<1>3. ASSUME NEW s \in Seeds, CountSeed(s)
      PROVE  CountInv'
  <2> USE <1>3 DEF CountSeed, IncrSeedCompleted, TypeOK
  <2>1. NextOwned'
    BY DEF NextOwned
  <2>2. PlacesFollowSeeds'
    BY DEF PlacesFollowSeeds, SeedCounted, PlaceJobs
  <2>3. CountedSeeds' = CountedSeeds \cup {s} /\ s \notin CountedSeeds
    BY DEF CountedSeeds, SeedCounted
  <2>4. seedCompleted' = Cardinality(CountedSeeds')
    <3>1. CountedSeeds \in SUBSET Seeds
      BY DEF CountedSeeds
    <3> QED BY <2>3, <3>1, JobsFinite, FS_AddElement DEF CountersExact
  <2>5. DonePlaces' = DonePlaces /\ FoundPlaces' = FoundPlaces
    BY DEF DonePlaces, FoundPlaces, PlaceJobs
  <2>6. CountersExact'
    BY <2>4, <2>5 DEF CountersExact
  <2>7. VerdictStands'
    BY DoneMeansClosed DEF VerdictStands, Verdict, SeedCounted
  <2> QED BY <1>0, <2>1, <2>2, <2>6, <2>7
<1>4. ASSUME NEW s \in Seeds, NEW p \in next[s], PushPlace(s, p)
      PROVE  CountInv'
  <2> USE <1>4 DEF PushPlace, exiterVars, TypeOK
  <2>1. NextOwned'
    BY DEF NextOwned
  <2>2. PlacesFollowSeeds'
    BY DEF PlacesFollowSeeds, SeedCounted, PlaceJobs, NextOwned
  <2>3. CountersExact' /\ VerdictStands'
    <3>1. FoundPlaces' = FoundPlaces /\ DonePlaces' = DonePlaces
      BY DEF FoundPlaces, DonePlaces, PlaceJobs
    <3>2. CountedSeeds' = CountedSeeds
      BY DEF CountedSeeds, SeedCounted
    <3> QED BY <3>1, <3>2, CountersUntouched DEF counters
  <2> QED BY <1>0, <2>1, <2>2, <2>3
<1>5. ASSUME NEW p \in PlaceJobs, TakePlace(p) \/ PlaceFails(p)
                                   \/ PlaceSpawnsEmail(p)
      PROVE  CountInv'
  <2> USE <1>5 DEF TakePlace, PlaceFails, PlaceSpawnsEmail, MovePlace,
                   exiterVars, TypeOK
  <2>1. NextOwned'
    BY DEF NextOwned
  <2>2. PlacesFollowSeeds'
    BY DEF PlacesFollowSeeds, SeedCounted
  <2>3. CountersExact' /\ VerdictStands'
    <3>1. FoundPlaces' = FoundPlaces /\ DonePlaces' = DonePlaces
      BY DEF FoundPlaces, DonePlaces
    <3>2. CountedSeeds' = CountedSeeds
      BY DEF CountedSeeds, SeedCounted
    <3> QED BY <3>1, <3>2, CountersUntouched DEF counters
  <2> QED BY <1>0, <2>1, <2>2, <2>3
<1>6. ASSUME NEW p \in PlaceJobs, PlaceCompletes(p) \/ EmailCompletes(p)
       PROVE  CountInv'
  <2> USE <1>6 DEF PlaceCompletes, EmailCompletes, MovePlace,
                    IncrPlacesCompleted, TypeOK
  <2>1. NextOwned'
    BY DEF NextOwned
  <2>2. PlacesFollowSeeds'
    BY DEF PlacesFollowSeeds, SeedCounted
  <2>3. DonePlaces' = DonePlaces \cup {p} /\ p \notin DonePlaces
    BY DEF DonePlaces
  <2>4. placesCompleted' = Cardinality(DonePlaces')
    <3>1. DonePlaces \in SUBSET PlaceJobs
      BY DEF DonePlaces
    <3> QED BY <2>3, <3>1, JobsFinite, FS_AddElement DEF CountersExact
  <2>5. CountedSeeds' = CountedSeeds /\ FoundPlaces' = FoundPlaces
    BY DEF CountedSeeds, SeedCounted, FoundPlaces
  <2>6. CountersExact'
    BY <2>4, <2>5 DEF CountersExact
  <2>7. VerdictStands'
    <3>1. ~ IsDone
      <4>1. p[1] \in Seeds /\ p \in next[p[1]] /\ placePc[p] # "done"
        BY DEF PlacesFollowSeeds, PlaceJobs
      <4> QED BY <4>1, DoneMeansClosed
    <3> QED BY <3>1 DEF VerdictStands, Verdict
  <2> QED BY <1>0, <2>1, <2>2, <2>6, <2>7
<1>7. ASSUME MonitorStep \/ Expire, UNCHANGED jobVars
       PROVE  CountInv'
  <2> USE <1>7 DEF MonitorStep, Tick, CancelFunc, MonitorStop, Expire,
                    counters, jobVars
  <2>1. NextOwned' /\ PlacesFollowSeeds'
    BY DEF NextOwned, PlacesFollowSeeds, SeedCounted
  <2>2. CountersExact'
    BY DEF CountersExact, FoundPlaces, DonePlaces, CountedSeeds, SeedCounted
  <2>3. VerdictStands'
    BY DEF VerdictStands, Verdict, IsDone
  <2> QED BY <1>0, <2>1, <2>2, <2>3
<1>8. CASE UNCHANGED vars
  BY <1>0, <1>8 DEF vars, exiterVars, jobVars, NextOwned, PlacesFollowSeeds,
     CountersExact, VerdictStands, Verdict, IsDone, FoundPlaces, DonePlaces,
     CountedSeeds, SeedCounted
<1> QED
  BY <1>1, <1>2, <1>3, <1>4, <1>5, <1>6, <1>7, <1>8 DEF Next, SeedProcess, PlaceProcess

LEMMA CountInvInit == Init => CountInv
<1> SUFFICES ASSUME Init PROVE CountInv
  OBVIOUS
<1>1. TypeOK
  BY DEF Init, ExiterInit, TypeOK, ExiterTypeOK, SeedPc, PlacePc, PlaceJobs
<1>2. CountedSeeds = {} /\ FoundPlaces = {} /\ DonePlaces = {}
  BY DEF Init, CountedSeeds, FoundPlaces, DonePlaces, SeedCounted, PlaceJobs
<1> QED
  BY <1>1, <1>2, FS_EmptySet
     DEF Init, ExiterInit, CountInv, CountersExact, NextOwned,
         PlacesFollowSeeds, VerdictStands, Verdict, SeedCounted

(* The counters are exact in every reachable state. *)
THEOREM CountingInvariant == Spec => []CountInv
BY CountInvInit, CountInvStep, PTL DEF Spec

(* The monitor ends no crawl early: Spec => []NoEarlyExit. *)
THEOREM MonitorNeverEarly == Spec => []NoEarlyExit
<1>1. CountInv => NoEarlyExit
  BY DoneMeansClosed DEF NoEarlyExit, CountInv, VerdictStands
<1> QED BY <1>1, CountingInvariant, PTL

-----------------------------------------------------------------------------
(* A crawl that is done stays done.                                        *)
LEMMA DoneStays == ASSUME CountInv, IsDone, [Next]_vars PROVE IsDone'
<1> USE DEF IsDone, exiterVars
<1>1. \A s \in Seeds : SeedCounted(s)
  BY DoneMeansClosed
<1>2. \A p \in PlaceJobs : placePc[p] \in {"none", "done"}
  <2> SUFFICES ASSUME NEW p \in PlaceJobs, placePc[p] # "none"
               PROVE  placePc[p] = "done"
    OBVIOUS
  <2>1. p[1] \in Seeds /\ p \in next[p[1]]
    BY DEF CountInv, PlacesFollowSeeds, PlaceJobs
  <2> QED BY <2>1, DoneMeansClosed
<1>3. ASSUME NEW s \in Seeds, TakeSeed(s) \/ SeedProcess(s)
      PROVE  IsDone'
  BY <1>1, <1>3 DEF SeedCounted, TakeSeed, SeedProcess, SeedFails,
     SearchShowsPlace, SearchShowsFeed, DedupCheck, DedupInsert, ScanDone,
     CountFound, CountSeed, PushPlace, SeedDone
<1>4. ASSUME NEW p \in PlaceJobs, TakePlace(p) \/ PlaceProcess(p)
      PROVE  IsDone'
  BY <1>2, <1>4 DEF TakePlace, PlaceProcess, PlaceFails, PlaceCompletes,
     PlaceSpawnsEmail, EmailCompletes, MovePlace
<1>5. CASE MonitorStep \/ Expire
  BY <1>5 DEF MonitorStep, Tick, CancelFunc, MonitorStop, Expire, counters
<1>6. CASE UNCHANGED vars
  BY <1>6 DEF vars
<1> QED BY <1>3, <1>4, <1>5, <1>6 DEF Next

(* No job can undo the verdict: Spec => DoneIsStable. *)
THEOREM VerdictNotOvertaken == Spec => DoneIsStable
<1>1. CountInv /\ [Next]_vars => [IsDone => IsDone']_vars
  BY DoneStays
<1> QED BY <1>1, CountingInvariant, PTL DEF Spec, DoneIsStable

-----------------------------------------------------------------------------
(* A seed that is counted closes itself and opens its places. *)
LEMMA CountSeedRefines ==
  ASSUME CountInv, NEW s \in Seeds, CountSeed(s)
  PROVE  Completion!FinishSeed(s, next[s])
<1> USE DEF CountInv, TypeOK
<1>1. s \in OpenSeeds /\ OpenSeeds' = OpenSeeds \ {s}
  BY DEF CountSeed, OpenSeeds, SeedCounted
<1>2. \A p \in next[s] : p \in PlaceJobs /\ p[1] = s /\ placePc[p] = "none"
  BY DEF CountSeed, NextOwned, PlacesFollowSeeds, SeedCounted, PlaceJobs
<1>3. OpenPlaces' = OpenPlaces \cup next[s]
  BY <1>2 DEF CountSeed, OpenPlaces, SeedCounted, PlaceJobs
<1>4. Verdict' = Verdict
  BY DEF CountSeed, IncrSeedCompleted, Verdict
<1> QED BY <1>1, <1>3, <1>4 DEF Completion!FinishSeed

(* A place that is counted closes itself. *)
LEMMA PlaceDoneRefines ==
  ASSUME CountInv, NEW p \in PlaceJobs, PlaceCompletes(p) \/ EmailCompletes(p)
  PROVE  Completion!FinishPlace(p)
<1> USE DEF CountInv, TypeOK, PlaceCompletes, EmailCompletes, MovePlace
<1>1. p \in OpenPlaces
  BY DEF OpenPlaces, PlacesFollowSeeds
<1>2. OpenPlaces' = OpenPlaces \ {p}
  BY DEF OpenPlaces, SeedCounted
<1>3. OpenSeeds' = OpenSeeds
  BY DEF OpenSeeds, SeedCounted
<1>4. Verdict' = Verdict
  BY DEF IncrPlacesCompleted, Verdict
<1> QED BY <1>1, <1>2, <1>3, <1>4 DEF Completion!FinishPlace

(* A tick that finds the crawl done finds nothing open. *)
LEMMA TickRefines ==
  ASSUME CountInv, Tick, UNCHANGED jobVars
  PROVE  Completion!Complete
<1>1. OpenSeeds = {} /\ OpenPlaces = {}
  <2>1. IsDone
    BY DEF Tick
  <2> QED BY <2>1, DoneMeansClosed DEF OpenSeeds, OpenPlaces, PlaceJobs
<1>2. OpenSeeds' = OpenSeeds /\ OpenPlaces' = OpenPlaces
  BY DEF jobVars, OpenSeeds, OpenPlaces, SeedCounted
<1>3. Verdict'
  BY DEF Tick, Verdict
<1> QED BY <1>1, <1>2, <1>3 DEF Completion!Complete

(* Every step is a step of the abstract crawl or leaves it alone. *)
LEMMA StepRefines ==
  ASSUME CountInv, [Next]_vars
  PROVE  [Completion!Next]_(Completion!vars)
<1> USE DEF CountInv, TypeOK
<1>1. ASSUME NEW s \in Seeds,
             \/ TakeSeed(s) \/ SeedFails(s) \/ ScanDone(s) \/ SeedDone(s)
             \/ \E l \in Links : SearchShowsPlace(s, l) \/ DedupCheck(s, l)
             \/ \E links \in SUBSET Links : SearchShowsFeed(s, links)
             \/ DedupInsert(s) \/ CountFound(s)
             \/ \E p \in next[s] : PushPlace(s, p)
      PROVE  UNCHANGED Completion!vars
  <2> USE <1>1 DEF TakeSeed, SeedFails, ScanDone, SeedDone, SearchShowsPlace,
                   DedupCheck, SearchShowsFeed, DedupInsert, CountFound,
                   IncrPlacesFound, PushPlace, exiterVars
  <2>1. OpenSeeds' = OpenSeeds
    BY DEF OpenSeeds, SeedCounted
  <2>2. OpenPlaces' = OpenPlaces
    BY DEF OpenPlaces, SeedCounted, PlaceJobs
  <2>3. Verdict' = Verdict
    BY DEF Verdict
  <2> QED BY <2>1, <2>2, <2>3 DEF Completion!vars
<1>2. ASSUME NEW s \in Seeds, CountSeed(s)
      PROVE  Completion!Next
  BY <1>2, CountSeedRefines DEF Completion!Next
<1>3. ASSUME NEW p \in PlaceJobs,
             TakePlace(p) \/ PlaceFails(p) \/ PlaceSpawnsEmail(p)
      PROVE  UNCHANGED Completion!vars
  BY <1>3 DEF TakePlace, PlaceFails, PlaceSpawnsEmail, MovePlace, exiterVars,
     OpenSeeds, OpenPlaces, SeedCounted, Verdict, Completion!vars
<1>4. ASSUME NEW p \in PlaceJobs, PlaceCompletes(p) \/ EmailCompletes(p)
      PROVE  Completion!Next
  BY <1>4, PlaceDoneRefines DEF Completion!Next
<1>5. ASSUME Tick, UNCHANGED jobVars
      PROVE  Completion!Next
  BY <1>5, TickRefines DEF Completion!Next
<1>6. ASSUME CancelFunc \/ MonitorStop \/ Expire, UNCHANGED jobVars
      PROVE  UNCHANGED Completion!vars
  BY <1>6 DEF CancelFunc, MonitorStop, Expire, jobVars, OpenSeeds, OpenPlaces,
     SeedCounted, Verdict, Completion!vars
<1>7. CASE UNCHANGED vars
  BY <1>7 DEF vars, exiterVars, jobVars, OpenSeeds, OpenPlaces, SeedCounted,
     Verdict, Completion!vars
<1> QED
  BY <1>1, <1>2, <1>3, <1>4, <1>5, <1>6, <1>7
     DEF Next, SeedProcess, PlaceProcess, MonitorStep

(* The crawl implements its abstract specification: Spec => CompletionSpec. *)
THEOREM CrawlImplementsCompletion == Spec => CompletionSpec
<1>1. Init => Completion!Init
  BY DEF Init, ExiterInit, Completion!Init, OpenSeeds, OpenPlaces, SeedCounted,
     Verdict, PlaceJobs
<1> QED
  BY <1>1, StepRefines, CountingInvariant, PTL
     DEF Spec, CompletionSpec, Completion!Spec

-----------------------------------------------------------------------------
(* The deduper.  The second critical section of AddIfNotExists is where a  *)
(* link can get an owner; the others only move links about.                *)
LEMMA DedupInsertLinkInv ==
  ASSUME LinkInv, TypeOK', NextOwned', NEW s \in Seeds, DedupInsert(s)
  PROVE  LinkInv'
<1> USE DEF LinkInv, TypeOK, PlaceJobs
<1>1. /\ next' = [next EXCEPT ![s] = @ \cup ({s} \X (href[s] \ seen))]
      /\ seen' = seen \cup href[s]
      /\ href' = [href EXCEPT ![s] = {}]
      /\ seedPc' = [seedPc EXCEPT ![s] = "scan"]
      /\ seedPc[s] = "insert" /\ page[s] = "feed"
      /\ UNCHANGED <<page, shown, todo>>
  BY DEF DedupInsert, ScanIsFeed
<1>2. \A t \in Seeds : \A l \in Links :
        <<t, l>> \in next'[t] <=> \/ <<t, l>> \in next[t]
                                  \/ t = s /\ l \in href[s] \ seen
  BY <1>1
<1>3. LinkTracked'
  BY <1>1, <1>2 DEF LinkTracked
<1>4. SeenScheduled'
  BY <1>1, <1>2 DEF SeenScheduled
<1>5. ScanIsFeed'
  BY <1>1 DEF ScanIsFeed
<1>6. LinkScheduledOnce'
  BY <1>1, <1>2 DEF LinkScheduledOnce, SeenScheduled
<1> QED BY <1>3, <1>4, <1>5, <1>6

LEMMA LinkInvStep ==
  ASSUME CountInv, LinkInv, [Next]_vars
  PROVE  LinkInv'
<1>0. TypeOK' /\ NextOwned'
  BY CountInvStep, TypeOKStep DEF CountInv
<1> USE DEF LinkInv, TypeOK
<1>1. ASSUME NEW s \in Seeds, NEW l \in Links, SearchShowsPlace(s, l)
      PROVE  LinkInv'
  <2> USE <1>1 DEF SearchShowsPlace
  <2>1. LinkTracked'
    BY DEF LinkTracked
  <2>2. SeenScheduled'
    BY DEF SeenScheduled, NextOwned
  <2>3. ScanIsFeed' /\ LinkScheduledOnce'
    BY DEF ScanIsFeed, LinkScheduledOnce
  <2> QED BY <1>0, <2>1, <2>2, <2>3
<1>2. ASSUME NEW s \in Seeds, NEW links \in SUBSET Links,
             SearchShowsFeed(s, links)
      PROVE  LinkInv'
  <2> USE <1>2 DEF SearchShowsFeed
  <2>1. LinkTracked'
    BY DEF LinkTracked
  <2>2. SeenScheduled'
    BY DEF SeenScheduled, NextOwned
  <2>3. ScanIsFeed' /\ LinkScheduledOnce'
    BY DEF ScanIsFeed, LinkScheduledOnce, NextOwned
  <2> QED BY <1>0, <2>1, <2>2, <2>3
<1>3. ASSUME NEW s \in Seeds, NEW l \in Links, DedupCheck(s, l)
      PROVE  LinkInv'
  <2> USE <1>3 DEF DedupCheck
  <2>1. LinkTracked'
    BY DEF LinkTracked
  <2>2. SeenScheduled' /\ ScanIsFeed' /\ LinkScheduledOnce'
    BY DEF SeenScheduled, ScanIsFeed, LinkScheduledOnce
  <2> QED BY <1>0, <2>1, <2>2
<1>4. ASSUME NEW s \in Seeds, DedupInsert(s)
      PROVE  LinkInv'
  BY <1>0, <1>4, DedupInsertLinkInv
<1>5. ASSUME NEW s \in Seeds,
             \/ TakeSeed(s) \/ SeedFails(s) \/ ScanDone(s) \/ SeedDone(s)
             \/ CountFound(s) \/ CountSeed(s)
             \/ \E p \in next[s] : PushPlace(s, p)
      PROVE  LinkInv'
  <2> USE <1>5 DEF TakeSeed, SeedFails, ScanDone, SeedDone, CountFound,
                   CountSeed, PushPlace
  <2>1. LinkTracked'
    BY DEF LinkTracked
  <2>2. SeenScheduled' /\ ScanIsFeed' /\ LinkScheduledOnce'
    BY DEF SeenScheduled, ScanIsFeed, LinkScheduledOnce
  <2> QED BY <1>0, <2>1, <2>2
<1>6. CASE UNCHANGED <<seedPc, page, shown, todo, href, next, seen>>
  BY <1>0, <1>6 DEF LinkTracked, SeenScheduled, ScanIsFeed, LinkScheduledOnce
<1>7. ASSUME NEW p \in PlaceJobs, TakePlace(p) \/ PlaceProcess(p)
      PROVE  UNCHANGED <<seedPc, page, shown, todo, href, next, seen>>
  BY <1>7 DEF TakePlace, PlaceProcess, PlaceFails, PlaceCompletes,
     PlaceSpawnsEmail, EmailCompletes, MovePlace
<1>8. (UNCHANGED jobVars) \/ UNCHANGED vars
        => UNCHANGED <<seedPc, page, shown, todo, href, next, seen>>
  BY DEF jobVars, vars
<1> QED
  BY <1>1, <1>2, <1>3, <1>4, <1>5, <1>6, <1>7, <1>8 DEF Next, SeedProcess

THEOREM LinkInvariant == Spec => []LinkInv
<1>1. Init => LinkInv
  BY CountInvInit DEF Init, CountInv, LinkInv, LinkTracked, SeenScheduled,
     ScanIsFeed, LinkScheduledOnce
<1> QED BY <1>1, LinkInvStep, CountingInvariant, PTL DEF Spec

(* No link of a result page gets two jobs: Spec => []LinkScheduledOnce. *)
THEOREM DeduperExact == Spec => []LinkScheduledOnce
<1>1. LinkInv => LinkScheduledOnce
  BY DEF LinkInv
<1> QED BY <1>1, LinkInvariant, PTL

(* A crawl ended by the monitor has scraped every place that any page      *)
(* showed: Spec => []EveryShownPlaceScraped.                               *)
THEOREM CompleteCrawlIsComplete == Spec => []EveryShownPlaceScraped
<1>1. CountInv /\ LinkInv => EveryShownPlaceScraped
  <2> SUFFICES ASSUME CountInv, LinkInv, Verdict,
                      NEW s \in Seeds, NEW l \in shown[s]
               PROVE  \E t \in Seeds : placePc[<<t, l>>] = "done"
    BY DEF EveryShownPlaceScraped
  <2>1. IsDone
    BY DEF CountInv, VerdictStands
  <2>2. SeedCounted(s)
    BY <2>1, DoneMeansClosed
  <2>3. l \in seen \/ <<s, l>> \in next[s]
    BY <2>2 DEF LinkInv, LinkTracked, SeedCounted
  <2>4. PICK t \in Seeds : <<t, l>> \in next[t]
    BY <2>3 DEF LinkInv, SeenScheduled
  <2> QED BY <2>1, <2>4, DoneMeansClosed
<1> QED BY <1>1, CountingInvariant, LinkInvariant, PTL

-----------------------------------------------------------------------------
(* The crawl in fast mode, where the jobs are those of FastCrawl.  The     *)
(* seeds counted are those past their first increment, and none is left to *)
(* be counted once the monitor has found the crawl done.                   *)
FastCounted == {s \in Seeds : searchPc[s] \in {"seedCounted", "foundCounted", "done"}}
FastInv ==
  /\ searchPc = [s \in Seeds |-> searchPc[s]]
  /\ seedCompleted = Cardinality(FastCounted)
  /\ Verdict => seedCompleted = SeedCount

LEMMA FastInvInit == FastInit => FastInv
<1> SUFFICES ASSUME FastInit PROVE FastInv
  OBVIOUS
<1>1. FastCounted = {}
  BY DEF FastInit, FastCounted
<1>2. Cardinality(FastCounted) = 0
  BY <1>1, FS_EmptySet
<1> QED BY <1>2 DEF FastInit, ExiterInit, FastInv, Verdict

(* Nobody is left to be counted when the count is complete.                *)
LEMMA FastAllCounted ==
  ASSUME FastInv, seedCompleted = SeedCount
  PROVE  FastCounted = Seeds
<1>1. FastCounted \in SUBSET Seeds
  BY DEF FastCounted
<1>2. Cardinality(FastCounted) = Cardinality(Seeds)
  BY CrawlAssumption DEF FastInv
<1> QED BY <1>1, <1>2, JobsFinite, FS_Subset

LEMMA FastInvStep == FastInv /\ [FastNext]_fastVars => FastInv'
<1> SUFFICES ASSUME FastInv, [FastNext]_fastVars PROVE FastInv'
  OBVIOUS
<1>1. ASSUME NEW s \in Seeds, NEW from, NEW to, Move(s, from, to),
             from \in {"seedCounted", "foundCounted"} <=> to \in {"foundCounted", "done"},
             to # "seedCounted", from # "done", UNCHANGED <<seedCompleted, monitor>>
      PROVE  FastInv'
  <2>1. FastCounted' = FastCounted /\ searchPc' = [t \in Seeds |-> searchPc'[t]]
    BY <1>1 DEF Move, FastCounted, FastInv
  <2> QED BY <1>1, <2>1 DEF FastInv, Verdict
<1>2. ASSUME NEW s \in Seeds, CountSearch(s) PROVE FastInv'
  <2>1. /\ searchPc[s] = "parsed" /\ searchPc' = [searchPc EXCEPT ![s] = "seedCounted"]
        /\ seedCompleted' = seedCompleted + 1 /\ UNCHANGED monitor
    BY <1>2 DEF CountSearch, Move, IncrSeedCompleted
  <2>2. FastCounted' = FastCounted \cup {s} /\ s \notin FastCounted
    BY <2>1 DEF FastCounted, FastInv
  <2>3. IsFiniteSet(FastCounted) /\ Cardinality(FastCounted) \in Nat
    BY JobsFinite DEF FastCounted
  <2>4. Cardinality(FastCounted') = Cardinality(FastCounted) + 1
    BY <2>2, <2>3, FS_AddElement
  <2>5. ~Verdict
    BY <2>2, FastAllCounted DEF FastInv
  <2> QED BY <2>1, <2>4, <2>5 DEF FastInv, Verdict
<1>3. ASSUME NEW s \in Seeds, Take(s) \/ Process(s) PROVE FastInv'
  <2>1. CASE Take(s)
    BY <1>1, <2>1 DEF Take, exiterVars
  <2>2. CASE Fails(s)
    BY <1>1, <2>2 DEF Fails, exiterVars
  <2>3. ASSUME NEW n \in 0..MaxEntries, Parse(s, n) PROVE FastInv'
    BY <1>1, <2>3 DEF Parse, exiterVars
  <2>4. CASE CountEntries(s)
    BY <1>1, <2>4 DEF CountEntries, IncrPlacesFound
  <2>5. CASE CountCompleted(s)
    BY <1>1, <2>5 DEF CountCompleted, IncrPlacesCompleted
  <2> QED BY <1>2, <1>3, <2>1, <2>2, <2>3, <2>4, <2>5 DEF Process
<1>4. ASSUME MonitorStep \/ Expire, UNCHANGED <<searchPc, entries>> PROVE FastInv'
  <2>1. UNCHANGED <<searchPc, seedCompleted>> /\ (Verdict' => Verdict \/ seedCompleted = SeedCount)
    BY <1>4 DEF MonitorStep, Tick, CancelFunc, MonitorStop, Expire,
                IsDone, counters, Verdict
  <2> QED BY <2>1 DEF FastInv, FastCounted
<1>5. CASE UNCHANGED fastVars
  BY <1>5 DEF fastVars, exiterVars, FastInv, FastCounted, Verdict
<1> QED BY <1>3, <1>4, <1>5 DEF FastNext

(* A crawl in fast mode that the monitor ends has parsed the response of   *)
(* every seed: FastSpec => []VerdictAfterParsing, for every number of seeds.   *)
THEOREM FastCrawlComplete == FastSpec => []VerdictAfterParsing
<1>1. FastInv => VerdictAfterParsing
  BY FastAllCounted DEF FastInv, FastCounted, Verdict, VerdictAfterParsing, Parsed
<1> QED BY <1>1, FastInvInit, FastInvStep, PTL DEF FastSpec

=============================================================================
