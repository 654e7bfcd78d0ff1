-------------------------------- MODULE Crawl --------------------------------
(***************************************************************************)
(* A crawl in the default (browser) mode: the seed jobs made by            *)
(* CreateSeedJobs, one GmapJob per keyword, the PlaceJobs they discover    *)
(* and the EmailExtractJobs the places spawn, sharing the deduper and the  *)
(* exit monitor.  The engine that runs the jobs (the scrapemate library)   *)
(* is external: it takes queued jobs while the context is live, runs any   *)
(* number of them at once, drops a job whose fetch or Process fails, and   *)
(* queues the jobs that Process returns.                                   *)
(***************************************************************************)
EXTENDS Exiter, FiniteSets

CONSTANTS
  Links,            \* the places a result page can link to
  ExtractEmail      \* the crawl extracts e-mails from the places' websites

(* The runners call SetSeedCount(len(seedJobs)). *)
ASSUME CrawlAssumption ==
  /\ IsFiniteSet(Seeds)
  /\ IsFiniteSet(Links)
  /\ ExtractEmail \in BOOLEAN
  /\ SeedCount = Cardinality(Seeds)

(* A PlaceJob is created for one link by one seed. *)
PlaceJobs == Seeds \X Links

VARIABLES
  seedPc,   \* control point of each GmapJob
  page,     \* what the seed's search led to: a feed of links or one place
  shown,    \* the links on that page
  todo,     \* links of the feed not yet looked at
  href,     \* the link, if any, between the two critical sections of
            \* AddIfNotExists
  next,     \* the PlaceJobs collected by Process
  seen,     \* deduper: the keys added so far
  placePc   \* control point of each PlaceJob and of the e-mail job it spawns

jobVars == <<seedPc, page, shown, todo, href, next, seen, placePc>>
vars    == <<exiterVars, jobVars>>

SeedPc  == {"queued", "fetch", "scan", "insert", "found", "count", "push",
            "done", "failed"}
PlacePc == {"none", "queued", "fetch", "emailQueued", "emailFetch", "done",
            "failed"}

TypeOK ==
  /\ ExiterTypeOK
  /\ seedPc \in [Seeds -> SeedPc]
  /\ page \in [Seeds -> {"none", "feed", "place"}]
  /\ shown \in [Seeds -> SUBSET Links]
  /\ todo \in [Seeds -> SUBSET Links]
  /\ href \in [Seeds -> SUBSET Links]
  /\ next \in [Seeds -> SUBSET PlaceJobs]
  /\ seen \in SUBSET Links
  /\ placePc \in [PlaceJobs -> PlacePc]

Init ==
  /\ ExiterInit
  /\ seedPc = [s \in Seeds |-> "queued"]
  /\ page = [s \in Seeds |-> "none"]
  /\ shown = [s \in Seeds |-> {}]
  /\ todo = [s \in Seeds |-> {}]
  /\ href = [s \in Seeds |-> {}]
  /\ next = [s \in Seeds |-> {}]
  /\ seen = {}
  /\ placePc = [p \in PlaceJobs |-> "none"]

-----------------------------------------------------------------------------
(* GmapJob *)

TakeSeed(s) ==
  /\ ctx = "live"
  /\ seedPc[s] = "queued"
  /\ seedPc' = [seedPc EXCEPT ![s] = "fetch"]
  /\ UNCHANGED <<exiterVars, page, shown, todo, href, next, seen, placePc>>

(* The fetch fails for good, or the response holds no document. *)
SeedFails(s) ==
  /\ seedPc[s] = "fetch"
  /\ seedPc' = [seedPc EXCEPT ![s] = "failed"]
  /\ UNCHANGED <<exiterVars, page, shown, todo, href, next, seen, placePc>>

(* The search was redirected to a place: one job, and no deduplication. *)
SearchShowsPlace(s, l) ==
  /\ seedPc[s] = "fetch"
  /\ seedPc' = [seedPc EXCEPT ![s] = "found"]
  /\ page' = [page EXCEPT ![s] = "place"]
  /\ shown' = [shown EXCEPT ![s] = {l}]
  /\ next' = [next EXCEPT ![s] = {<<s, l>>}]
  /\ UNCHANGED <<exiterVars, todo, href, seen, placePc>>

SearchShowsFeed(s, links) ==
  /\ seedPc[s] = "fetch"
  /\ seedPc' = [seedPc EXCEPT ![s] = "scan"]
  /\ page' = [page EXCEPT ![s] = "feed"]
  /\ shown' = [shown EXCEPT ![s] = links]
  /\ todo' = [todo EXCEPT ![s] = links]
  /\ UNCHANGED <<exiterVars, href, next, seen, placePc>>

(* AddIfNotExists under the read lock. *)
DedupCheck(s, l) ==
  /\ seedPc[s] = "scan"
  /\ l \in todo[s]
  /\ todo' = [todo EXCEPT ![s] = @ \ {l}]
  /\ \/ /\ l \in seen
        /\ UNCHANGED <<seedPc, href>>
     \/ /\ l \notin seen
        /\ seedPc' = [seedPc EXCEPT ![s] = "insert"]
        /\ href' = [href EXCEPT ![s] = {l}]
  /\ UNCHANGED <<exiterVars, page, shown, next, seen, placePc>>

(* Mutant: AddIfNotExists that trusts what it saw under the read lock. *)
DedupInsertUnchecked(s) ==
  /\ seedPc[s] = "insert"
  /\ seedPc' = [seedPc EXCEPT ![s] = "scan"]
  /\ href' = [href EXCEPT ![s] = {}]
  /\ seen' = seen \cup href[s]
  /\ next' = [next EXCEPT ![s] = @ \cup ({s} \X href[s])]
  /\ UNCHANGED <<exiterVars, page, shown, todo, placePc>>

(* Mutant: AddIfNotExists that adds nothing to the map. *)
DedupInsertForgets(s) ==
  /\ seedPc[s] = "insert"
  /\ seedPc' = [seedPc EXCEPT ![s] = "scan"]
  /\ href' = [href EXCEPT ![s] = {}]
  /\ next' = [next EXCEPT ![s] = @ \cup ({s} \X (href[s] \ seen))]
  /\ UNCHANGED <<exiterVars, page, shown, todo, seen, placePc>>

(* AddIfNotExists under the write lock, which looks again. *)
DedupInsert(s) ==
  /\ seedPc[s] = "insert"
  /\ seedPc' = [seedPc EXCEPT ![s] = "scan"]
  /\ href' = [href EXCEPT ![s] = {}]
  /\ seen' = seen \cup href[s]
  /\ next' = [next EXCEPT ![s] = @ \cup ({s} \X (href[s] \ seen))]
  /\ UNCHANGED <<exiterVars, page, shown, todo, placePc>>

ScanDone(s) ==
  /\ seedPc[s] = "scan"
  /\ todo[s] = {}
  /\ seedPc' = [seedPc EXCEPT ![s] = "found"]
  /\ UNCHANGED <<exiterVars, page, shown, todo, href, next, seen, placePc>>

(* Mutant: the links are counted before the deduper has sorted them out. *)
CountFoundShown(s) ==
  /\ seedPc[s] = "found"
  /\ seedPc' = [seedPc EXCEPT ![s] = "count"]
  /\ IncrPlacesFound(Cardinality(shown[s]))
  /\ UNCHANGED <<page, shown, todo, href, next, seen, placePc>>

CountFound(s) ==
  /\ seedPc[s] = "found"
  /\ seedPc' = [seedPc EXCEPT ![s] = "count"]
  /\ IncrPlacesFound(Cardinality(next[s]))
  /\ UNCHANGED <<page, shown, todo, href, next, seen, placePc>>

CountSeed(s) ==
  /\ seedPc[s] = "count"
  /\ seedPc' = [seedPc EXCEPT ![s] = "push"]
  /\ IncrSeedCompleted(1)
  /\ UNCHANGED <<page, shown, todo, href, next, seen, placePc>>

(* The engine queues the jobs that Process returned, one by one. *)
PushPlace(s, p) ==
  /\ seedPc[s] = "push"
  /\ p \in next[s]
  /\ placePc[p] = "none"
  /\ placePc' = [placePc EXCEPT ![p] = "queued"]
  /\ UNCHANGED <<exiterVars, seedPc, page, shown, todo, href, next, seen>>

SeedDone(s) ==
  /\ seedPc[s] = "push"
  /\ \A p \in next[s] : placePc[p] # "none"
  /\ seedPc' = [seedPc EXCEPT ![s] = "done"]
  /\ UNCHANGED <<exiterVars, page, shown, todo, href, next, seen, placePc>>

-----------------------------------------------------------------------------
(* PlaceJob and EmailExtractJob *)

MovePlace(p, from, to) ==
  /\ placePc[p] = from
  /\ placePc' = [placePc EXCEPT ![p] = to]
  /\ UNCHANGED <<seedPc, page, shown, todo, href, next, seen>>

TakePlace(p) ==
  /\ ctx = "live"
  /\ \/ MovePlace(p, "queued", "fetch")
     \/ MovePlace(p, "emailQueued", "emailFetch")
  /\ UNCHANGED exiterVars

(* The fetch fails for good, or the page holds no usable JSON. *)
PlaceFails(p) == MovePlace(p, "fetch", "failed") /\ UNCHANGED exiterVars

PlaceCompletes(p) ==
  /\ MovePlace(p, "fetch", "done")
  /\ IncrPlacesCompleted(1)

(* Mutant: the place is counted as completed when its e-mail job starts. *)
PlaceSpawnsEmailCounted(p) ==
  /\ ExtractEmail
  /\ MovePlace(p, "fetch", "emailQueued")
  /\ IncrPlacesCompleted(1)

(* The place has a website: the e-mail job takes over its completion. *)
PlaceSpawnsEmail(p) ==
  /\ ExtractEmail
  /\ MovePlace(p, "fetch", "emailQueued")
  /\ UNCHANGED exiterVars

(* Mutant: the e-mail job does not report its completion. *)
EmailCompletesUncounted(p) ==
  MovePlace(p, "emailFetch", "done") /\ UNCHANGED exiterVars

(* Process runs even when the fetch failed, and its increment is deferred. *)
EmailCompletes(p) ==
  /\ MovePlace(p, "emailFetch", "done")
  /\ IncrPlacesCompleted(1)

-----------------------------------------------------------------------------
SeedProcess(s) ==
  \/ \E l \in Links : SearchShowsPlace(s, l) \/ DedupCheck(s, l)
  \/ \E links \in SUBSET Links : SearchShowsFeed(s, links)
  \/ SeedFails(s)
  \/ DedupInsert(s) \/ ScanDone(s) \/ CountFound(s) \/ CountSeed(s)
  \/ \E p \in next[s] : PushPlace(s, p)
  \/ SeedDone(s)

PlaceProcess(p) ==
  \/ PlaceFails(p) \/ PlaceCompletes(p)
  \/ PlaceSpawnsEmail(p) \/ EmailCompletes(p)

Next ==
  \/ \E s \in Seeds : TakeSeed(s) \/ SeedProcess(s)
  \/ \E p \in PlaceJobs : TakePlace(p) \/ PlaceProcess(p)
  \/ MonitorStep /\ UNCHANGED jobVars
  \/ Expire /\ UNCHANGED jobVars

Spec == Init /\ [][Next]_vars

(* The engine keeps taking jobs and each goroutine keeps running; nothing  *)
(* obliges a deadline to pass.                                             *)
Fairness ==
  /\ \A s \in Seeds : WF_vars(TakeSeed(s)) /\ WF_vars(SeedProcess(s))
  /\ \A p \in PlaceJobs : WF_vars(TakePlace(p)) /\ WF_vars(PlaceProcess(p))
  /\ WF_vars(MonitorStep /\ UNCHANGED jobVars)

FairSpec == Spec /\ Fairness

-----------------------------------------------------------------------------
(* Properties *)

SeedCounted(s) == seedPc[s] \in {"push", "done"}

AnyFailed ==
  \/ \E s \in Seeds : seedPc[s] = "failed"
  \/ \E p \in PlaceJobs : placePc[p] = "failed"

(* The monitor cancels a crawl only when every seed has been processed and *)
(* every place any of them discovered has been scraped, e-mails included.  *)
(* The counters are bumped by different goroutines in separate critical    *)
(* sections, so this rests on the order of the increments in               *)
(* GmapJob.Process and on each place being counted exactly once.           *)
NoEarlyExit ==
  Verdict => /\ \A s \in Seeds : SeedCounted(s)
             /\ \A s \in Seeds : \A p \in next[s] : placePc[p] = "done"

(* What a crawl that the monitor ends owes its user: every place that any  *)
(* result page linked to has been scraped, by one seed or another.  A seed *)
(* skips a link because another seed has taken it, and that seed may still *)
(* be far from done; neither may fail in between.                          *)
EveryShownPlaceScraped ==
  Verdict => \A s \in Seeds : \A l \in shown[s] :
               \E t \in Seeds : placePc[<<t, l>>] = "done"

(* Two result pages never lead to two jobs for one link: the second look   *)
(* of AddIfNotExists under the write lock decides between two seeds that   *)
(* both missed the link under the read lock.                               *)
LinkScheduledOnce ==
  \A s, t \in Seeds : \A l \in Links :
    /\ page[s] = "feed" /\ <<s, l>> \in next[s]
    /\ page[t] = "feed" /\ <<t, l>> \in next[t]
    => s = t

(* A verdict cannot be overtaken: between the check of the counters under  *)
(* the mutex and the call of the cancel function outside it, no job can    *)
(* make the counters differ again.                                         *)
DoneIsStable == [][IsDone => IsDone']_vars

(* The crawl implements CrawlCompletion: a seed is open until its          *)
(* IncrSeedCompleted, a place from then until its completion, and what the *)
(* counters say is what the abstract crawl knows of its open work.         *)
OpenSeeds  == {s \in Seeds : ~ SeedCounted(s)}
OpenPlaces == {p \in PlaceJobs : /\ SeedCounted(p[1])
                                 /\ p \in next[p[1]]
                                 /\ placePc[p] # "done"}

Completion == INSTANCE CrawlCompletion
                WITH Places <- PlaceJobs, openSeeds <- OpenSeeds,
                     openPlaces <- OpenPlaces, completed <- Verdict

(* Every step of the jobs, of the engine and of the monitor is a step of   *)
(* that abstract crawl or leaves it alone.                                 *)
CompletionSpec == Completion!Spec

(* Unless a job fails or the crawl's time runs out, the monitor ends it:   *)
(* every discovered place is eventually counted, e-mail job or not.        *)
CrawlEnds == <>(ctx # "live" \/ AnyFailed)

=============================================================================
