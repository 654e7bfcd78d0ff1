# Formal models of vector-leads-scraper

TLA+ specifications of the concurrent and failure-prone parts of this
repository, TLC configurations that check them on small instances, and TLAPS
proofs of their main properties for every size. Paths are relative to the
repository root; each definition that models code is listed with its lines in
`PROJECT.json` ("map").

## 1. Inventory

The program scrapes Google Maps. One binary (`main.go`) runs in one of several
modes; each mode is a *runner* that feeds seed jobs to the external scrapemate
engine or serves an API.

| part | state it keeps | operations | interacts with | hard behaviour |
|---|---|---|---|---|
| exit monitor `exiter/` | three counters, cancel function | `Incr*`, `Run` | every scrape job, the crawl's context | increments of many goroutines against a periodic check |
| deduper `deduper/` | set of seen links | `AddIfNotExists` | all `GmapJob`s of a crawl | two critical sections per call |
| scrape jobs `gmaps/` | the job itself | `Process` | engine, exit monitor, deduper | a place hands its completion over to an e-mail job; failures are never counted |
| file / lambda / database runners `runner/` | seed jobs, context | `Run`, `Close` | engine, exit monitor, `postgres/` | deadlines and signals end a crawl at any point |
| web runner `runner/webrunner`, `pkg/web` | SQLite rows, CSV files, worker | handlers, `work`, `scrapeJob` | engine, file system | delete during a scrape, cancelled contexts, crash and restart |
| webhook client `pkg/webhook` | current batch, timer, mutex | `Send`, `Flush`, `Shutdown`, timer loop | HTTP endpoints, result writer | lock held over HTTP, retries, shutdown races |
| database job provider `postgres/provider.go` | `gmaps_jobs` rows, two channels | `Push`, `Jobs`, `fetchJobs` | engines of many processes | claims by several workers, loss on crash |
| lead provider and writer `internal/resultwriter` | `scraping_jobs` rows, buffers | `Push`, `Jobs`, `Run` | `internal/database`, webhook client | one full buffer flushes all, last save after a signal |
| result writer `postgres/resultwriter.go` | one buffer, lastSave | `Run`, `batchSave` | engine, PostgreSQL | failing and cancelled statements |
| redis client `pkg/redis` | queues, unique keys, groups, keys | enqueue, schedule, archive, aggregate, `Set`, `Update` | Redis, asynq | EXISTS-then-SET uniqueness, TTL of a whole key, pipelines that break |
| task handler `internal/taskhandler` | handlers, done channel, monitor, server | `Run`, `Close`, operations on tasks | asynq, runners | several closes of one channel, closing while others still use what is closed |
| task handlers `internal/taskhandler/tasks` | none | `ProcessTask` | asynq, engine | timeouts, retries, payloads that never validate |
| worker and gRPC runners, `main.go` | shutdown and done channels, error channel | `New`, `Run`, `Close` | task handler, signals | a signal or a failure at any point from start to exit |
| rows of `internal/database` | organizations down to leads | create, read, update, delete, batches, lists | gRPC handlers | no transactions: each function is several statements |
| gRPC handlers `pkg/grpc` | none | one per RPC | `internal/database` | lost answers, timeouts, compensation of half-done work |
| scheduler `pkg/redis/scheduler`, Redis runner | entries, running flag | `Register`, `Run`, `Stop` | asynq | nothing starts them |
| entry parsing, other page jobs, telemetry, uploads, metrics | none that matters | | | |

What makes each of them correct: a crawl is ended only when everything is
scraped, and is ended; a link is scraped by one seed and not by none; a web job
is scraped once, and is "ok" only if its crawl was not cut short and its file is
there; a webhook record is
exported once, and before Shutdown returns; a claimed job is handed to one
engine; who is told that a row was deleted, created or not found is told the
truth; a walk through a list misses no more rows than were deleted meanwhile;
an acknowledged task stays until it is handed on; a running server settles its
tasks; a signalled process ends, uses nothing it has closed, and exits with 0
only when its results are stored. The hazards these answer to are listed, at
their lines, in `PROJECT.json`.

## 2. The modules

| module | models | built on |
|---|---|---|
| `Exiter` | `exiter/exiter.go`: counters, verdict, cancellation | |
| `Crawl` | default-mode crawl: `GmapJob`, `PlaceJob`, `EmailExtractJob`, deduper | `Exiter` |
| `CrawlCompletion` | abstract: open seeds, open places, complete | |
| `CrawlInv`, `CrawlProofs` | inductive invariant of `Crawl`, and theorems about both crawls | `Crawl`, `FastCrawl` |
| `FastCrawl` | fast-mode crawl: `SearchJob` | `Exiter` |
| `Webhook`, `WebhookProofs` | `pkg/webhook`, and theorems | |
| `WebJobs`, `WebJobsProofs` | web runner, `pkg/web`, SQLite, and theorems | |
| `JobProvider`, `JobProviderProofs` | `postgres/provider.go` and the processes of the database runner, and theorems | |
| `JobQueue` | abstract: a queue that delivers at most once and loses a bounded share | |
| `Requests` | requests that run scripts of SQL statements over shared tables | `Statements` |
| `RequestsInv`, `RequestsProofs` | what the steps of the requests keep, and theorems | `Requests` |
| `Statements` | the SQL statements and the tests between them, as data | |
| `Database` | each function of `internal/database` as a script | `Statements` |
| `Api` | each handler of `pkg/grpc` as a script of calls | `Requests`, `Database` |
| `Listing`, `ListingProofs` | the list handlers and their queries, page by page, and theorems | |
| `TaskQueue`, `TaskQueueProofs` | the Redis client, the key operations and the aggregator, and theorems | |
| `ResultWriter` | both result writers and the engine in front of them | |
| `TaskServer` | asynq with its configuration, the task handlers, the operations on tasks | |
| `Lifecycle` | `main.go`, the runners, the task handler's `Run` and `Close` | `ResultWriter`, `TaskServer` |
| `LifecycleProofs` | theorems about the three | `Lifecycle` |
| `MC*` | the instances for TLC | the module of that name |

Conventions: control points of goroutines are variables or functions ending in
`Pc`; one action is one critical section, database statement or file operation
(or several of one goroutine that nobody else can observe between); failing
calls are alternatives of the action or actions of their own; operators that
no action uses, under a comment that begins with "Mutant" or names the fault
(`HitsDeleted`, `FailLater`, `SetUniqueForgets`), are not part of the
specification: they are the plausible bugs that each property is shown to
detect.

### Exiter, Crawl, FastCrawl

Every increment is one action, because each takes the mutex by itself. `Tick`
is the check that finds the crawl done and `CancelFunc` the cancellation after
the mutex is released, so that everything else may happen between them. In
`Crawl` a seed is queued, fetched, and processed: a redirect to a place makes
one job without deduplication; a feed is scanned link by link, and each link
passes `AddIfNotExists` in its two critical sections (`DedupCheck`,
`DedupInsert`). Then come `CountFound`, `CountSeed`, and the delivery of the
returned jobs to the engine one by one. A place is completed when it is counted
itself or when its e-mail job is. The engine is external: it takes queued jobs
while the context is live, in any order and number, and drops those that fail.
The keyword list, the page contents and the hash of a link are abstracted: a
link is its hash. `CrawlCompletion` says what the monitor promises with sets
in place of counters; `Crawl` implements it with `OpenSeeds` and `OpenPlaces`
(seeds before `IncrSeedCompleted`; places from then until completion).

`FastCrawl` models `SearchJob`, which counts itself before its places, so the
verdict may fall between its increments; it is checked that nothing unread is
lost by that.

### Webhook

`holder` is the goroutine that holds `batchMu` over an export (shorter critical
sections are single actions). `BeginExport`/`EndExport` are the two halves of
`flushLocked`; between them one goroutine per endpoint posts the batch
(`Accepted`, `Rejected`, `GivesUp`). `Body` models the request body of an
attempt: all attempts read the same reader. The timer is running, expired with
its tick unread, or idle; with the Go version of go.mod, Stop and Reset leave
no stale tick. Record data, compression and back-off times are left out.

### WebJobs

`row` is the status column, "none" before and "deleted" after the row exists;
`csv` the state of the job's file; `delPc` a Delete between its two steps;
`workPc`, `cur` the worker. The worker writes its own copy of the job; the
statement touches no other row and no deleted one (`WriteRow`) and is refused
when the context is done (`UpdateOk`, `UpdateFails`). Closing the engine
(`CloseMate`) flushes the file, and a flush that fails is ignored: such a file
is "short", and its job is stored as ok all the same (`Finish`). `Exit` covers a crash and
a return of `Run`; `Restart` starts the process on the same folder. `crawl`,
`runs` and `deleting` are auxiliary.

### JobProvider

`status` is the status column of `gmaps_jobs` ("none": no row). Each process
has one `fetchJobs` goroutine (`fetchPc`, `batch`) and one forwarder for every
call of `Jobs` (`fwdPc`, `offered`); `jobc` and `err` are the channels between
them. A claim is two actions: the statement selects and locks its rows
(`BeginClaim`), and commits (`EndClaim`); between them other processes skip
what is locked. `ClaimFails` is every error of the statement, of reading and
of decoding: the rows may stay new or be queued with nobody holding them. A
crash in the middle of a statement has both outcomes too. When `fetchJobs`
returns it closes `errc` before `jobc`, and from then on a forwarder may take
the closed `errc` although `jobc` still has jobs (`TakeError`). Only the first
call of `Jobs` in the life of a process starts `fetchJobs`. Batches and channels
are sets: which of the free rows a claim takes, and in which order they are
handed out, is left open, so that what holds here holds for every priority.
An id is never empty (the constructors make one up), so the forwarder's test
for it is left out. The engine is external: it calls `Jobs` as often as it likes and
receives what is offered.

`JobQueue` is what producers and engines may count on: a pushed job waits, and
is given once or lost. `JobProvider` implements it with the rows that are new
or held as the waiting jobs, and with losses of `MaxHeld` jobs at most.

### Statements, Requests, Database, Api

No function of `internal/database` opens a transaction, so the unit that
interleaves is the SQL statement. `Requests` has one action per sort of
statement (`Read`, `Insert`, `Link`, `Relink`, `WriteBack`, `Write`, `Erase`)
and the two sorts of test between them (`Validate`, `Check`). A request is a
script, a sequence of statements, with its place in it (`pc`) and what it has
read (`seen`): a write-back (`Updates` with the row as it was read) sets every
column to what it was then, which is how a stale copy undoes another request's
change. `Enough` is the look at the rows found or at RowsAffected. A statement
may fail, its answer may be lost after it was executed (`Answered`, second
disjunct), and the context of a request may end (`Expire`), after which every
statement fails that the code runs with that context; `Detached` marks those
it runs without. When a script has a compensation (`undo`), `Fail` starts it.

`Database` writes each function as its script of `Statements`, and `Api` each handler as the
scripts of the functions it calls, with the status code it makes of every
error (`Coded`), in the order of the code. So the functions can be read
against the source line by line, and the interleavings, faults and properties
are stated once. A row is its table, its state, the parent it is linked to and
its status; other columns, the conversions between protobuf and ORM types and
logging are left out. New rows take the name the operation carries: ids are
unique by construction of the database. Rows are deleted softly in the code;
a deleted row is seen by no later statement.

### Listing

A walk: the client asks for pages, and rows are inserted and deleted between
them. A handler is the order of its query ("any" where the code gives none:
any rows of the right number may come back), the pages it takes for the first,
the offset it computes and the next page it names. The client begins with page
0, which is what a request without a number asks for, or with page 1, which
the tests ask for, unless the handler refuses 0; a client of a handler that
names no next page (ListWebhooks, ListScrapingJobs) counts pages itself and
stops at the first short one. ListOrganizations counts its offset from page 0
and all others from page 1, taking 0 for 1; what a walk from either page misses
and repeats is what `MissedBounded` and `RepeatsBounded` say. Filters and the conversion of rows are left out.

### TaskQueue

The six ways to enqueue differ in what they set on the task (`Kind`); the
pipeline is modelled command by command (`Push`, `SetExpiry`, `SetUnique`),
because a pipeline is no transaction: others run between its commands, and the
connection may break after any (`Break`), or with the answer to the last, all
commands executed (`Answer`). Commands that were not executed when the
connection broke are not executed later. EXPIRE is set on the whole list, so
`ListExpires` takes everything in it. `AddTask` and `checkGroups` hold the
mutex of the aggregator up to the end of the enqueue and are one action each;
when that enqueue fails the aggregate may be in the queue or not. `Update` of a
key is its three commands; TTL answers in whole seconds, rounded, and so may
answer 0 for a key that is still there. All tasks share one queue, one unique
key and one group: two different keys do not meet in this code. The code does
not promise that overlapping calls are unique (`UniqueOnce` does not hold);
what it does promise is `NoLateDuplicate`.

### TaskServer, ResultWriter, Lifecycle

`TaskServer` is a task's way: enqueued into a queue, taken by asynq if the
server was configured with that queue, run by its handler (`ProcessTask`, then
for a scrape the file, the engine and the crawl), completed, retried or
archived. asynq itself is external. Which fields a handler demands and which
ones a payload has decide its outcome: the Create functions wrap the payload
(`NewTask`), and no field that a `Validate` wants is at the top of the wrapped
object. `CutByTimeout` is the end of the handler's context.

`ResultWriter` is the loop of both writers, with the choice of buffer (`Key`)
and of `lastSave` as their only differences: receiving, the flush buffer by
buffer, the last flush, a statement that fails or is answered by nobody, a
result of the wrong type, and the context that ends.

`Lifecycle` composes both with the process. `Init` is ParseConfig's choice of
the mode from the flags. A constructor is the sequence of its steps that can
fail or be seen; each may end the process with status 1. Two threads, `main`
and `side` (the goroutine that runs the task handler), move through places;
`monitor`, `starter` and `server` are the goroutines beside them. Closing a
channel is one action, `CloseChannel`, which panics when the channel is closed
already, and `Panics` says who recovers. What `performShutdown`, `Close` and
the runner's own goroutine close, and in which order, is the order of the
actions. `StopHandler` is the close of the task handler's own channel in its
`Close`. Left out: the web and lambda modes, background operations, which
nothing registers, New Relic, loggers and metrics, which end by their own
timeouts, and the panics of ParseConfig on an invalid flag. The mutex of the
grpc runner has one user, `main`.

## 3. Runs

| run | instance | shows |
|---|---|---|
| `crawl` | 2 seeds, 2 links, e-mails, fair | the counters never agree too early, links are not doubled or dropped, refinement of `CrawlCompletion`, a crawl without failures is ended |
| `fast_crawl` | 3 seeds, up to 2 entries, fair | the increment order of `SearchJob` is harmless, a fast crawl without failures is ended |
| `webhook` | 2 records, 2 endpoints, batch 2, 1 retry, fair | each record is exported once, Shutdown flushes what was acknowledged before it and ends, a record that found the timer running is sent |
| `webhook_retry` | 2 records, 1 endpoint, 1 retry | **violated**: a retry posts an empty body (`exporter.go:104`) |
| `web_jobs` | 2 jobs, 1 restart, 1 database error, fair | scraped once, ok means finished and downloadable, statuses move forward, every pending job is taken |
| `job_provider` | 2 processes, 2 jobs, batch 1, 1 restart, 1 failing claim, fair | no job is claimed twice, no healthy process loses one, refinement of `JobQueue`, new rows are claimed and claimed jobs handed out |
| `api` | 2 requests: every pair of changing handlers, every reading one against each of those; 1 fault, batch 1 | answers are true: deleted once, not found only if gone, created where named, no child under a deleted parent, no half account |
| `api_transitions` | the same | **violated**: a job leaves COMPLETED for IN_PROGRESS (`db_scraping_job_update.go:90`) |
| `listing` | 9 handlers, 3 rows and 2 more, page sizes 1 and 2, fair | what a walk may miss and repeat from each first page, and that it ends |
| `tasks` | 2 callers of 2 calls each, groups of 2, 1 broken connection | tasks are kept, in one place, not enqueued again under a live key, and a key loses its time to live only to an Update that found it vanished or rounded to 0 |
| `lifecycle` | 5 modes, with and without Redis; 4 results of 2 jobs, 1 of them bad, batch 2, 1 failing save; 2 tasks, 1 retry; fair | a signalled process ends, closes last what others use, exits with 0 only after saving; tasks are settled |
| `lifecycle_panic` | the same | **violated**: the task handler's Close, called twice after a signal, closes its channel twice (`taskhandler.go:380`) |

The bounds. Two seeds and two links give every race of the deduper and of the
counters: two seeds on one link, one seed with several, a direct place beside a
feed. Two records and a batch of two give a full batch and a waiting record
beside an export; two endpoints give a batch that one accepts and the other
does not; one retry separates a first attempt from a later one. Two web jobs
give newest-first selection and a delete of the job at work; one restart and
one error are enough for each to meet every step, because each is an action of
its own that may fall between any two others. Two processes are enough for
every race of two claims. In `api`, two requests are enough for every way in
which a statement of one falls between two of another, and the tree has one row
of each table, with a second organization, tenant and job for what belongs to
somebody else; one fault breaks any one statement, answer or context. The
batch size 1 makes two batches of two rows. In `listing`, three rows and pages
of one and two give whole and short last pages; `MaxPage` is beyond the last
page of any walk that ends. In `tasks`, a second call of a caller is what makes
one enqueue come after another, and two callers what makes them overlap. In
`lifecycle`, a batch of two with four results gives full, partial and
other-job buffers. `MaxEntries`, `MaxRestarts`, `MaxErrors`, `MaxFaults`,
`MaxSaveFaults`, `MaxCalls`, `MaxId`, `MaxPage` and `MaxRetry` (25 in asynq)
are the only bounds that the code does not have.

Symmetry is used in `tasks` only, which checks no liveness. Deadlock is checked
in `job_provider`, where a producer can always push, and in `api`, `listing`
and `tasks`, whose last step, when every request, walk or call is over, is a
stutter of its own (`AllDone`, `Over`, `Idle`): a request that could not go on
would be a deadlock. It is not checked in the others: a finished crawl, a
client that was shut down and a process that has ended have no step left.

Fairness. Weak fairness of the goroutines' own steps: the Go scheduler runs
them. The engine keeps taking jobs (its worker pool). In `Webhook`, strong
fairness for the goroutines that wait for `batchMu`: sync.Mutex hands the lock
to its oldest waiter after a millisecond. Requests end because the HTTP client
has a timeout; the crawl of a web job ends because its context has a deadline.
In `JobProvider` each `fetchJobs` and each forwarder keeps running and the
engine keeps receiving; nobody has to push, to call `Jobs` or to restart. In
`Listing` the client asks for its next page, however many rows change. In
`Lifecycle` threads and goroutines that can go on do; a ping ends by the
client's timeout, a cancelled engine stops, and asynq takes tasks, calls their
handlers and requeues due retries. Nothing is assumed of users, signals, the
calls of Send, Flush and Shutdown, the ends of crawls of tasks, results of the
engine, failures, or deadlines in `Crawl`.

## 4. Proofs

All theorems hold for every finite set of seeds, links, records, endpoints,
jobs, callers, results, tasks and rows and every bound, from the named
assumptions of the modules only. Every safety property and every action property
that a passing run checks is one of them, and so are some state invariants that
no run checks by itself, because a stronger or more telling property of the run
stands on them (`CountInv`, `LinkInv`, `HookInv`, `BatchBounded`,
`ProviderInv`, `HeldBounded`, `RequestsInvariant`, `ListingInv`, the `TypeOK`s).

Most assumptions say only that a constant is a number or a finite set. Those of
`Requests` say what an operation is, because its theorems are about any
operations and not only those of `Database`: its shape (`OpsAssumption`); an
inserted key is new and an association is appended to a row of the operation's own
(`KeysAssumption`: ids come from the database, `db_*_create.go` appends what
it has created); a compensation looks for the one row the operation created and
deletes it (`UndoAssumption`: `grpc_create_account_api.go`); the four creations
that read their parent first insert between that read and the parent's
write-back (`ParentAssumption`); each step of a path of parents is made or
looked up by the script (`PathAssumption`); and NotFound is the answer to a
statement that finds too few of its rows (`AnswersAssumption`). TLC evaluates
all of them for every operation of `Api` in the run `api`, so they are facts of
the scripts, which are read against the code: a handler that looked a parent up
by its id alone, or did not look at the RowsAffected of its write-back, would be
refused there, before any interleaving.

`CrawlProofs`: `CountInv` is inductive: each counter equals the cardinality of
the set of jobs that have passed its increment (the counters alone say nothing
about which job is where), a place is known to the engine only after its seed
was counted, and a verdict still stands. When the counters agree, the completed
places are a subset of the found ones of the same size, hence equal: no early
exit, and no step from there changes either. `LinkInv` follows each shown link:
to be looked at, in the deduper, listed, or seen by a seed that lists it. With
both, a crawl the monitor ends has scraped every shown place. The refinement is
proved step by step from `CountInv`. A fast crawl needs less (`FastInv`): the
seeds completed are those past their first increment, a search makes it only
after its response is parsed, and the count never exceeds the seeds, so that a
verdict means every one of them is past it.

`WebhookProofs`: `HookInv` adds to the properties who may hold the lock
(`LockDiscipline`) and what Shutdown still owes (`OwedTracked`).

`WebJobsProofs`: `JobInv` says at each control point of `scrapeJob` what the
row can be: pending or deleted before the mark, working or deleted after it, so
that each of the worker's writes is one of the allowed moves; a cut crawl is
the worker's own only while the context is done.

`JobProviderProofs`: `ProviderInv` adds to `InOnePlace` what the rows say
(`HeldIsQueued`: held jobs are queued, except those a statement has only locked)
and what each goroutine can have in hand (`Tidy`). It is proved job by job
(`JobByJob`), where a step is seen to move one job from one place to the next.
A full channel holds at most two batches, `fetchJobs` one more and each
forwarder a job, which bounds a process's share (`HeldBounded`), counted with
an injection of the offered jobs into the forwarders. Every step but `HandOut`
and `Push` moves jobs of one process only, so it is a `Lose` of that process's
share, often of nothing: the refinement of `JobQueue`.

`RequestsProofs` is about any well-formed scripts (`OpsAssumption`), not only
those of `Database`. `TypeCorrect` follows each sort of statement through the
rows and the request. `DeletedIsGone` is an action property: no insert,
association or write-back brings a deleted row back. From both, `RequestInv`:
once a deletion that looks at RowsAffected has gone through, its rows are
deleted, and no two requests have passed one on the same row, because the
second would have hit fewer rows than it names. Hence at most one of any number of
requests is told that it deleted a row (`DeletedOnce`).

The other properties of the requests need to know what a statement that went
through still means after others have changed the rows: `RequestsInvariant`. A
row keeps its table and, unless it is a job, an old one keeps its parent, so
what was read of it stays right (`KeptRows`); a new row is known to nobody
before the request that creates it starts, and is seen without a parent or with
the one it was given, by whatever stale copy is written back (`NewRows`). From
these, a step of a path that has been made or looked up stays (`PathInv`, hence
`CreatedThere`). A parent that was read was there, so a child that comes too
late comes under a deleted one, which stays deleted; the write-back that
follows finds nothing and the creation is not acknowledged (`ChildInv`, hence
`NoLateChildren`). Who compensates has deleted its row or failed, and fails
only when the database has not answered or the row is gone already (`UndoInv`, hence
`NoHalfCreated`). A statement that ends in NotFound leaves a row unfound that
existed before and cannot come back to where it was asked for (`AnswerInv`,
hence `NotFoundIsTrue`).

`ListingProofs`: the walk has reached an offset, and `Position` counts the rows
before a row in the order of the query. A deletion moves every later row up by
one, so one row at most crosses the offset unseen; an insertion in a descending
order moves them down, so one listed row at most comes back (`WalkInv`). That
two rows never have one position (`Position` is injective on the rows alive)
is what makes it one, and a page holds the rows at `size` successive
positions. A walk of ListOrganizations that begins with page 1 begins with an
offset of one page, the rows before which are missed from the start
(`PageBefore`); ListTenants and ListScrapingJobs, begun with page 0, go from
there to page 1, which has the same offset (`PageTwice`). The theorems assume `MaxPage` is at least 1: page 1 is asked for.

`LifecycleProofs` proves each part through the steps of that part only, since
a step of the process either is one of the writer's or leaves its variables
alone (`EngineOrRest`). `SavedOnce` holds because a result is in one place
(`InOnePlace`), and a buffer holds stored results only in the last flush, which
has then visited it (`SavedInBuffer`); once the writer has ended without an error nothing is left in
a buffer (`ReceivedKept`), and main leaves the engine of the database mode
without an error only when the writer has ended (`DatabaseInv`), hence
`LifecycleZeroMeansSaved`. `CloseInv` follows `Close` through its places: "stop" is
closed before it waits, no ping is under way after it has waited, and then the
server is down unless `starter` started it later; hence `LifecycleClosedLast`.

`TaskQueueProofs`: `TaskInv` adds to the four properties of the run why each
holds. An entry that is anywhere belongs to a call that has pushed it
(`PlacedArePast`), so what a caller pushes next is nowhere yet (`OnePlace`; an aggregate whose
enqueue failed may be in the queue and counted as dropped, but is in no group).
Told entries stay in the list they were meant for unless it was given a time
to live (`ToldIsKept`, and `PushedIsKept` between the push and the answer).
Whoever holds the unique key has finished and the key is there
(`HoldersFinished`), and who has seen no key began before they did
(`SeenNoKey`), so a late duplicate is refused. The life an Update has read is
mortal unless the key vanished in between or its TTL was rounded to 0
(`ReadIsMortal`, hence `KeyStaysMortal`).

Only model-checked: the liveness properties (`CrawlEnds`, `FastCrawlEnds`,
`ShutdownEnds`, `SentInTimeIfTimerRuns`, `PendingTaken`, `NewIsClaimed`,
`ClaimedIsHanded`, `WalkEnds`, `SignalEnds`, `TaskSettles`), because fairness
and ENABLED are out of the prover's reach; the three violations are runs.
`Database` and `Api` are data for `Requests`: that their scripts are well formed
is evaluated by TLC for the rows of the run, not proved for all. What a
recursive definition computes for every input would need induction with an
operator as a parameter, which the installed provers cannot instantiate; no
module here needs one. `Listing` writes functions of several arguments one
argument at a time, because the provers know no others.

## 5. Findings

Three runs end in a violation of what a comment or a test of the code says:

- `webhook_retry`: the request body is read once, so a retry posts nothing.
- `api_transitions`: CreateLead has read a job as IN_PROGRESS, UpdateScrapingJob
  completes it, and CreateLead's write-back sets it to IN_PROGRESS again.
- `lifecycle_panic`: the `sync.Once` of the task handler's Close is new in every
  call. The run: a worker with Redis is signalled, `performShutdown` calls
  Close, and the goroutine in the handler's `Run` calls it too when its context
  ends: the channel is closed twice. In the worker the goroutine recovers from
  the panic and reports an error (`workerrunner.go:322`); the one of the grpc
  runner does not, and the process dies.

Two more disagree with a comment or a test and are written down as properties
that do not hold; the passing runs check what is left of them:

- `FirstPageIsFirst` (`Listing`): ListOrganizations counts its offset from page 0
  (`grpc_list_organizations_api.go:69`), while its own test calls page 1 "success -
  first page" (`grpc_list_organizations_api_test.go:33`), as every other list
  handler does. Asked for page 1 first, with nothing deleted, it never shows the
  newest page. `MissedBounded` has that page as its exception (`PageBefore`).
- `TTLPreserved` (`TaskQueue`): "Update updates an existing value by key while
  preserving its current TTL" (`operations.go:114`), but it passes the answer of
  TTL to `Set` (`operations.go:138`), and that answer is rounded: with less than
  half a second left it is 0, which `Set` takes for no expiry
  (`operations.go:59`), and a key that was there all the time becomes immortal.
  `MortalKey` has that rounding, and a key that vanished, as its exceptions.

As an `INVARIANT` of the configurations of `listing` and `tasks`, each is
violated within a few steps.

Met while modelling, and visible in the modules, without a run of their own:

- *Webhook.* A Send that races Shutdown leaves its record in a batch nobody
  flushes (`client.go:88`, `client_test.go:223`); a timer that fired on an empty
  batch is not started again (`client.go:116`, `config.go:12`).
- *Job provider.* A claimed job whose process ends is never retried
  (`provider.go:157`, `docs/outline.md:35`).
- *Writers.* The last save runs under the context whose end stops the engine,
  so a signal loses up to a batch; `lastSave` of the result writer is never set
  again, so after a minute every result is a statement of its own.
- *Lists.* ListTenantAPIKeys, ListWorkspaces and ListWebhooks read pages of an
  unordered query; most handlers answer page 0 and page 1 alike, and ListTenants
  names page 1 after page 0; ListWorkspaces
  names a next page for ever; the offset is computed in 32 bits.
- *Redis client.* Two overlapping unique enqueues are both accepted; the time to
  live of a unique task is set on the whole list; ArchiveTask keeps one task
  per queue; an Update during which its key expires makes the key immortal; a
  group whose aggregate failed is forgotten (`aggregator.go:311`).
- *Task server.* The queues of the subscriptions (`enterprise`, `pro`, `free`)
  are none of those the server asks (`config.go:51`), so their tasks stay
  pending; the Create functions wrap the payload (`tasks.go:198`) and the
  handlers read it flat, so those tasks always fail; `RunTask` and
  `GetTaskDetails` hand the id as the queue; crawls of tasks are cut after the
  handler's 30 seconds and reported as completed; the retry delay is negative
  after the configured number of retries.
- *Web jobs.* The error of `mate.Close` is ignored (`webrunner.go:274`): a job
  whose last flush failed is stored as ok with an incomplete file.
- *Runners.* The worker closes its own shutdown and done channels twice, in
  `Run` and again in `Close` (`workerrunner.go:428`, from `:349` and `:457`), and
  panics when it is signalled, with Redis or without; the worker with Redis reaches `executeWorkerProcess` only after its
  task handler has returned; the grpc runner without Redis follows a nil
  pointer; a server that fails to start is only logged; `-web` selects the web
  mode only with `-redis-enabled` (`runner.go:335`), and no flag selects the
  Redis runner; ParseConfig sets `REDIS_RETRY_INTERVAL_SECONDS` and the
  configuration reads `REDIS_RETRY_INTERVAL`.
- *Scheduler.* Nothing runs it; it is created with the address of the web
  server, and its running flag stays set when Stop times out.

## 6. Plan

What is left, in order of weight:

1. Composition of `WebJobs` with `Crawl`: one crawl per job, so that "ok" is
   tied to the exit monitor's verdict.
2. A refinement of the database result writer to a bag of saved results, and
   of the task queue to `JobQueue`'s kind of queue.
3. The web and lambda modes in `Lifecycle`, with the errgroup of the web runner.
4. The assumptions of `Requests` proved from the definitions of `Database`.
5. The scheduler, once a runner starts it.

## 7. Not modelled

The scrapemate engine, asynq, Redis, PostgreSQL and SQLite themselves (modelled
as far as the code uses them); the scheduler, the lead job provider, the Redis
runner and the worker's background operations, which nothing starts; browser
actions and page parsing; the page jobs that no runner creates; templates,
telemetry, metrics, health endpoints, interceptors and S3 uploads; the
test and cluster tooling under `internal/testutils` and `cmd/`.
