------------------------------- MODULE WebJobs -------------------------------
(***************************************************************************)
(* The web runner: HTTP handlers create and delete jobs (pkg/web), their   *)
(* rows live in SQLite (pkg/web/sqlite) and their results in one CSV file  *)
(* per job, and one goroutine (webrunner.work) picks a pending job a       *)
(* second, newest first, and scrapes it.  The process can be told to stop, *)
(* can die, and is started again on the same data folder.                  *)
(***************************************************************************)
EXTENDS Naturals, FiniteSets

CONSTANTS
  Jobs,             \* the jobs ever created
  MaxRestarts,      \* bound: how often the process is started again
  MaxErrors         \* bound: how often the database refuses a statement

ASSUME WebJobsAssumption ==
  /\ IsFiniteSet(Jobs)
  /\ MaxRestarts \in Nat
  /\ MaxErrors \in Nat

None == "none"      \* no job

VARIABLES
  row,        \* status of each job's row; "none" before, "deleted" after
  created,    \* created_at of the row, in seconds
  csv,        \* the file <id>.csv in the data folder: being written, closed
              \* ("written"), or closed after a failed flush ("short")
  delPc,      \* a Delete of the job has removed the file, not yet the row
  workPc,     \* control point of work and scrapeJob
  cur,        \* the job scrapeJob works on
  ctx,        \* the context of Run
  crawl,      \* auxiliary: how the crawl of each job went
  runs,       \* auxiliary: how often its scrape began, at most 2
  deleting,   \* auxiliary: jobs somebody has ever tried to delete
  restarts, errors

store   == <<row, created, csv>>
worker  == <<workPc, cur, ctx>>
history == <<crawl, runs, deleting>>
vars    == <<store, delPc, worker, history, restarts, errors>>

Statuses == {"pending", "working", "ok", "failed"}

TypeOK ==
  /\ row \in [Jobs -> Statuses \cup {"none", "deleted"}]
  /\ created \in [Jobs -> 0..Cardinality(Jobs)]
  /\ csv \in [Jobs -> {"none", "partial", "written", "short"}]
  /\ delPc \in [Jobs -> {"idle", "fileGone"}]
  /\ workPc \in {"wait", "mark", "open", "setup", "seeds", "crawl", "finish",
                 "store", "fail", "touch", "stopped", "down"}
  /\ cur \in Jobs \cup {None}
  /\ ctx \in {"live", "cancelled"}
  /\ crawl \in [Jobs -> {"none", "running", "ended", "cut", "error"}]
  /\ runs \in [Jobs -> 0..2]
  /\ deleting \in SUBSET Jobs
  /\ restarts \in 0..MaxRestarts
  /\ errors \in 0..MaxErrors

Init ==
  /\ row = [j \in Jobs |-> "none"]
  /\ created = [j \in Jobs |-> 0]
  /\ csv = [j \in Jobs |-> "none"]
  /\ delPc = [j \in Jobs |-> "idle"]
  /\ workPc = "wait"
  /\ cur = None
  /\ ctx = "live"
  /\ crawl = [j \in Jobs |-> "none"]
  /\ runs = [j \in Jobs |-> 0]
  /\ deleting = {}
  /\ restarts = 0
  /\ errors = 0

-----------------------------------------------------------------------------
(* The handlers.  A job that does not validate is answered with an error   *)
(* and leaves no trace; a validated one has keywords.                      *)

Created == {j \in Jobs : row[j] # "none"}

(* A request that came before the process was told to stop is still served *)
(* while it goes down.  created_at counts seconds and is taken before the  *)
(* row is inserted: it may be the second of another job, a later one or,   *)
(* when the insertions overtake each other, an earlier one.                *)
Up == workPc # "down"

Create(j) ==
  /\ Up
  /\ row[j] = "none"
  /\ row' = [row EXCEPT ![j] = "pending"]
  /\ \E t \in 0..Cardinality(Created) :
       created' = [created EXCEPT ![j] = t]
  /\ UNCHANGED <<csv, delPc, worker, history, restarts, errors>>

(* Service.Delete, of any id that was ever given out: first the file, if   *)
(* there is one,                                                           *)
DeleteFile(j) ==
  /\ Up
  /\ row[j] # "none"
  /\ delPc[j] = "idle"
  /\ delPc' = [delPc EXCEPT ![j] = "fileGone"]
  /\ csv' = [csv EXCEPT ![j] = "none"]
  /\ deleting' = deleting \cup {j}
  /\ UNCHANGED <<row, created, worker, crawl, runs, restarts, errors>>

(* ... then the row. *)
DeleteRow(j) ==
  /\ delPc[j] = "fileGone"
  /\ delPc' = [delPc EXCEPT ![j] = "idle"]
  /\ row' = [row EXCEPT ![j] = "deleted"]
  /\ UNCHANGED <<created, csv, worker, history, restarts, errors>>

(* The client has gone, or the database refuses: the row stays. *)
DeleteRowFails(j) ==
  /\ delPc[j] = "fileGone"
  /\ errors < MaxErrors
  /\ errors' = errors + 1
  /\ delPc' = [delPc EXCEPT ![j] = "idle"]
  /\ UNCHANGED <<store, worker, history, restarts>>

-----------------------------------------------------------------------------
(* repo.Update: UPDATE ... WHERE id = ?, which touches no row but this one *)
(* and finds none if the job was deleted meanwhile.                        *)

(* Mutant: Update inserts the row when it is not there. *)
WriteRowUpsert(j, s) == row' = [row EXCEPT ![j] = s]

WriteRow(j, s) ==
  row' = [row EXCEPT ![j] = IF @ \in Statuses THEN s ELSE @]

(* Mutant: the statement does not look at the context. *)
UpdateOkDetached(s) ==
  /\ WriteRow(cur, s)
  /\ UNCHANGED errors

(* The statement is refused when the context is done. *)
UpdateOk(s) ==
  /\ ctx = "live"
  /\ WriteRow(cur, s)
  /\ UNCHANGED errors

(* It fails.  (One that was done, but reports that its context has ended,  *)
(* is one that succeeds just before the worker stops.)                     *)
UpdateFails ==
  /\ \/ /\ ctx = "cancelled"
        /\ UNCHANGED errors
     \/ /\ errors < MaxErrors
        /\ errors' = errors + 1
  /\ UNCHANGED row

-----------------------------------------------------------------------------
(* work *)

Pending == {j \in Jobs : row[j] = "pending"}

(* Mutant: the newest job is looked at, and taken if it is pending. *)
SelectNewest ==
  /\ workPc = "wait"
  /\ ctx = "live"
  /\ \E j \in Pending :
       /\ \A k \in {i \in Jobs : row[i] \in Statuses} : created[k] <= created[j]
       /\ cur' = j
  /\ workPc' = "mark"
  /\ UNCHANGED <<store, delPc, ctx, history, restarts, errors>>

(* A tick that finds a pending job: SelectPending has LIMIT 1, newest first. *)
Select ==
  /\ workPc = "wait"
  /\ ctx = "live"
  /\ \E j \in Pending :
       /\ \A k \in Pending : created[k] <= created[j]
       /\ cur' = j
  /\ workPc' = "mark"
  /\ UNCHANGED <<store, delPc, ctx, history, restarts, errors>>

(* SelectPending fails: work returns, and with it Run. *)
SelectFails ==
  /\ workPc = "wait"
  /\ ctx = "live"
  /\ errors < MaxErrors
  /\ errors' = errors + 1
  /\ workPc' = "stopped"
  /\ ctx' = "cancelled"
  /\ UNCHANGED <<store, delPc, cur, history, restarts>>

WorkStops ==
  /\ workPc \in {"wait", "mark"}
  /\ ctx = "cancelled"
  /\ workPc' = "stopped"
  /\ cur' = None
  /\ UNCHANGED <<store, delPc, ctx, history, restarts, errors>>

-----------------------------------------------------------------------------
(* scrapeJob, on its own copy of the job *)

Goto(pc) ==
  /\ workPc' = pc
  /\ cur' = IF pc = "wait" THEN None ELSE cur
  /\ UNCHANGED ctx

(* Mutant: a job is marked as working only when its file is there. *)
MarkLate ==
  /\ workPc = "mark"
  /\ Goto("open")
  /\ UNCHANGED <<store, delPc, history, restarts, errors>>

Mark ==
  /\ workPc = "mark"
  /\ \/ UpdateOk("working") /\ Goto("open")
     \/ UpdateFails /\ Goto("wait")
  /\ UNCHANGED <<created, csv, delPc, history, restarts>>

(* Mutant: the scrape goes on without a file. *)
OpenFileIgnored ==
  /\ workPc = "open"
  /\ runs' = [runs EXCEPT ![cur] = IF @ < 2 THEN @ + 1 ELSE @]
  /\ \E f \in {"none", "partial"} : csv' = [csv EXCEPT ![cur] = f]
  /\ Goto("setup")
  /\ UNCHANGED <<row, created, delPc, crawl, deleting, restarts, errors>>

(* os.Create; when it fails the row is left as it is. *)
OpenFile ==
  /\ workPc = "open"
  /\ runs' = [runs EXCEPT ![cur] = IF @ < 2 THEN @ + 1 ELSE @]
  /\ \/ csv' = [csv EXCEPT ![cur] = "partial"] /\ Goto("setup")
     \/ UNCHANGED csv /\ Goto("wait")
  /\ UNCHANGED <<row, created, delPc, crawl, deleting, restarts, errors>>

SetupMate ==
  /\ workPc = "setup"
  /\ Goto("seeds") \/ Goto("fail")
  /\ UNCHANGED <<store, delPc, history, restarts, errors>>

(* CreateSeedJobs fails, makes no job (blank keywords), or makes some. *)
CreateSeedJobs ==
  /\ workPc = "seeds"
  /\ \/ Goto("touch") /\ UNCHANGED crawl
     \/ Goto("finish") /\ UNCHANGED crawl
     \/ Goto("crawl") /\ crawl' = [crawl EXCEPT ![cur] = "running"]
  /\ UNCHANGED <<store, delPc, runs, deleting, restarts, errors>>

(* mate.Start returns: the exit monitor or the job's own deadline ended    *)
(* the crawl, the runner's context did, or an error of another kind, after *)
(* which nothing more is written to the file.                              *)
CrawlReturns ==
  /\ workPc = "crawl"
  /\ \/ /\ crawl' = [crawl EXCEPT ![cur] = "ended"]
        /\ Goto("finish")
     \/ /\ ctx = "cancelled"
        /\ crawl' = [crawl EXCEPT ![cur] = "cut"]
        /\ Goto("finish")
     \/ /\ crawl' = [crawl EXCEPT ![cur] = "error"]
        /\ Goto("touch")
  /\ UNCHANGED <<store, delPc, runs, deleting, restarts, errors>>

(* mate.Close flushes the writers.  The flush may fail: nobody looks at    *)
(* the error it returns,                                                   *)
CloseMate ==
  /\ workPc = "finish"
  /\ \E f \in {"written", "short"} :
       csv' = [csv EXCEPT ![cur] = IF @ = "partial" THEN f ELSE @]
  /\ Goto("store")
  /\ UNCHANGED <<row, created, delPc, history, restarts, errors>>

(* ... and the job is stored as ok. *)
Finish ==
  /\ workPc = "store"
  /\ UpdateOk("ok") \/ UpdateFails
  /\ Goto("wait")
  /\ UNCHANGED <<created, csv, delPc, history, restarts>>

(* Mutant: the job gets a status that the rest of the code does not know. *)
FailWithError ==
  /\ workPc = "fail"
  /\ UpdateOk("error") \/ UpdateFails
  /\ Goto("wait")
  /\ UNCHANGED <<created, csv, delPc, history, restarts>>

(* setupMate failed: the job is stored as failed. *)
Fail ==
  /\ workPc = "fail"
  /\ UpdateOk("failed") \/ UpdateFails
  /\ Goto("wait")
  /\ UNCHANGED <<created, csv, delPc, history, restarts>>

(* The other error paths store the job with the status it has. *)
Touch ==
  /\ workPc = "touch"
  /\ UpdateOk("working") \/ UpdateFails
  /\ Goto("wait")
  /\ UNCHANGED <<created, csv, delPc, history, restarts>>

ScrapeJob == \/ Mark \/ OpenFile \/ SetupMate \/ CreateSeedJobs
             \/ CrawlReturns \/ CloseMate \/ Finish \/ Fail \/ Touch

-----------------------------------------------------------------------------
(* The process *)

(* A signal, or another part of the web runner that returns an error. *)
Cancel ==
  /\ ctx = "live"
  /\ ctx' = "cancelled"
  /\ UNCHANGED <<store, delPc, workPc, cur, history, restarts, errors>>

(* The process exits, after Run has returned or by being killed.  Run does *)
(* not wait for the handlers that are still at work.                       *)
Exit ==
  /\ workPc # "down"
  /\ workPc' = "down"
  /\ cur' = None
  /\ ctx' = "cancelled"
  /\ delPc' = [j \in Jobs |-> "idle"]
  /\ UNCHANGED <<store, history, restarts, errors>>

Restart ==
  /\ workPc = "down"
  /\ restarts < MaxRestarts
  /\ restarts' = restarts + 1
  /\ workPc' = "wait"
  /\ ctx' = "live"
  /\ UNCHANGED <<store, delPc, cur, history, errors>>

Next ==
  \/ \E j \in Jobs : \/ Create(j) \/ DeleteFile(j)
                     \/ DeleteRow(j) \/ DeleteRowFails(j)
  \/ Select \/ SelectFails \/ WorkStops
  \/ ScrapeJob
  \/ Cancel \/ Exit \/ Restart

Spec == Init /\ [][Next]_vars

(* The worker's loop runs on; a crawl returns because its context has a    *)
(* deadline.                                                               *)
FairSpec == Spec /\ WF_vars(Select) /\ WF_vars(ScrapeJob)

-----------------------------------------------------------------------------
(* Properties *)

(* No job is scraped twice, over all the lives of the process: its row has *)
(* left the status the worker selects before anything else is done, and no *)
(* later write of the worker's copy brings that status back.               *)
ScrapedOnce == \A j \in Jobs : runs[j] <= 1

(* A job stored as ok was not cut short by the end of the process: the     *)
(* worker takes the cancellation of its own context for a finished crawl,  *)
(* and only the refusal of a statement under that context keeps it from    *)
(* storing the job as ok.                                                  *)
OkIsNotCut == \A j \in Jobs : row[j] = "ok" => crawl[j] # "cut"

(* A job stored as ok has its file, and the file is closed, unless         *)
(* somebody tried to delete the job: its download link shows for the       *)
(* status ok.  That the file holds all results is not said: an error of    *)
(* the last flush is ignored.                                              *)
Closed == {"written", "short"}

OkHasFile ==
  \A j \in Jobs : row[j] = "ok" /\ j \notin deleting => csv[j] \in Closed

(* Statuses only move forward, and a deleted job does not come back: the   *)
(* worker writes its own copy of the job, taken before a Delete that runs  *)
(* at the same time.                                                       *)
StatusForward ==
  [][\A j \in Jobs :
       \/ row'[j] = row[j]
       \/ row[j] = "none" /\ row'[j] = "pending"
       \/ row[j] = "pending" /\ row'[j] = "working"
       \/ row[j] = "working" /\ row'[j] \in {"ok", "failed"}
       \/ row'[j] = "deleted"]_vars

(* Where scrapeJob has come to, and what that says of its job.             *)
Busy     == workPc \notin {"wait", "stopped", "down"}
Marked   == workPc \in {"open", "setup", "seeds", "crawl", "finish", "store",
                        "fail", "touch"}
FileOpen == Marked /\ workPc # "open"

WorkerHasJob ==
  /\ Busy => cur \in Jobs
  /\ workPc = "mark" => row[cur] \in {"pending", "deleted"}
  /\ Marked => row[cur] \in {"working", "deleted"}

(* A job that is not yet marked has never been scraped. *)
FreshUntouched ==
  /\ \A j \in Jobs : row[j] \in {"none", "pending"} => runs[j] = 0
  /\ \A j \in Jobs : row[j] \in {"none", "pending"} => crawl[j] = "none"
  /\ workPc \in {"mark", "open"} => runs[cur] = 0
  /\ workPc \in {"mark", "open", "setup", "seeds"} => crawl[cur] = "none"

(* A crawl that was cut can still be the worker's own only while the       *)
(* context is done, and otherwise nobody writes its row again.             *)
CutStaysCut ==
  \A j \in Jobs :
    crawl[j] = "cut" => /\ row[j] \in {"working", "deleted"}
                        /\ Busy /\ cur = j => /\ workPc \in {"finish", "store"}
                                              /\ ctx = "cancelled"

FileKept ==
  FileOpen /\ cur \notin deleting =>
    csv[cur] \in IF workPc = "store" THEN Closed ELSE {"partial"}

(* The inductive invariant of the web runner. *)
JobInv == TypeOK /\ WorkerHasJob /\ FreshUntouched /\ ScrapedOnce
                 /\ CutStaysCut /\ FileKept /\ OkHasFile

(* Every pending job is taken, or deleted, however the jobs before it      *)
(* ended, unless the process ends: newer jobs go first, but there are      *)
(* finitely many.                                                          *)
PendingTaken ==
  \A j \in Jobs : row[j] = "pending" ~> (row[j] # "pending" \/ ctx # "live")

=============================================================================
