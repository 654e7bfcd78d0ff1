---------------------------- MODULE WebJobsProofs ----------------------------
(***************************************************************************)
(* Theorems about WebJobs, for every finite set of jobs and however often  *)
(* the process is started again and the database fails.                    *)
(***************************************************************************)
EXTENDS WebJobs, FiniteSetTheorems, TLAPS

(* The second of a new job is one of the model's seconds. *)
LEMMA SecondsBounded == 0..Cardinality(Created) \subseteq 0..Cardinality(Jobs)
<1>1. Created \in SUBSET Jobs
  BY DEF Created
<1>2. /\ Cardinality(Created) \in Nat
      /\ Cardinality(Jobs) \in Nat
      /\ Cardinality(Created) <= Cardinality(Jobs)
  BY <1>1, WebJobsAssumption, FS_Subset, FS_CardinalityType
<1> QED BY <1>2

(* A handler's step, which knows nothing of the worker. *)
LEMMA HandlerStep ==
  ASSUME JobInv, NEW j \in Jobs,
         Create(j) \/ DeleteFile(j) \/ DeleteRow(j) \/ DeleteRowFails(j)
  PROVE  JobInv'
<1>1. CASE Create(j)
  <2>1. created' \in [Jobs -> 0..Cardinality(Jobs)]
    BY <1>1, SecondsBounded DEF Create, JobInv, TypeOK
  <2> QED
    BY <1>1, <2>1 DEF Create, Up, JobInv, TypeOK, WorkerHasJob, FreshUntouched,
       ScrapedOnce, CutStaysCut, FileKept, OkHasFile, Busy, Marked,
       FileOpen, Closed, worker, history, Statuses
<1>2. CASE DeleteFile(j)
  BY <1>2 DEF DeleteFile, Up, JobInv, TypeOK, WorkerHasJob, FreshUntouched,
     ScrapedOnce, CutStaysCut, FileKept, OkHasFile, Busy, Marked,
     FileOpen, Closed, worker
<1>3. CASE DeleteRow(j)
  BY <1>3 DEF DeleteRow, JobInv, TypeOK, WorkerHasJob, FreshUntouched,
     ScrapedOnce, CutStaysCut, FileKept, OkHasFile, Busy, Marked,
     FileOpen, Closed, worker, history
<1>4. CASE DeleteRowFails(j)
  BY <1>4, WebJobsAssumption DEF DeleteRowFails, JobInv, TypeOK, WorkerHasJob,
     FreshUntouched, ScrapedOnce, CutStaysCut, FileKept, OkHasFile, Busy,
     Marked, FileOpen, Closed, store, worker, history
<1> QED BY <1>1, <1>2, <1>3, <1>4

(* The worker's loop, and the process around it. *)
LEMMA LoopStep ==
  ASSUME JobInv, Select \/ SelectFails \/ WorkStops \/ Cancel \/ Exit \/ Restart
  PROVE  JobInv'
<1>1. CASE Select
  BY <1>1 DEF Select, Pending, JobInv, TypeOK, WorkerHasJob, FreshUntouched,
     ScrapedOnce, CutStaysCut, FileKept, OkHasFile, Busy, Marked,
     FileOpen, Closed, store, history
<1>2. CASE SelectFails \/ WorkStops
  BY <1>2, WebJobsAssumption DEF SelectFails, WorkStops, JobInv, TypeOK,
     WorkerHasJob, FreshUntouched, ScrapedOnce, CutStaysCut, FileKept,
     OkHasFile, Busy, Marked, FileOpen, Closed, store, history
<1>3. CASE Cancel \/ Exit \/ Restart
  BY <1>3, WebJobsAssumption DEF Cancel, Exit, Restart, JobInv, TypeOK,
     WorkerHasJob, FreshUntouched, ScrapedOnce, CutStaysCut, FileKept,
     OkHasFile, Busy, Marked, FileOpen, Closed, store, history
<1> QED BY <1>1, <1>2, <1>3

(* The worker's steps on its job. *)
LEMMA ScrapeStep ==
  ASSUME JobInv, ScrapeJob
  PROVE  JobInv'
<1>1. cur \in Jobs
  BY DEF JobInv, WorkerHasJob, Busy, ScrapeJob, Mark, OpenFile, SetupMate,
     CreateSeedJobs, CrawlReturns, CloseMate, Finish, Fail, Touch
<1>2. CASE Mark
  BY <1>1, <1>2, WebJobsAssumption DEF Mark, UpdateOk, UpdateFails, WriteRow,
     Goto, JobInv, TypeOK, WorkerHasJob, FreshUntouched, ScrapedOnce,
     CutStaysCut, FileKept, OkHasFile, Busy, Marked, FileOpen, Closed, Statuses,
     history
<1>3. CASE OpenFile
  BY <1>1, <1>3 DEF OpenFile, Goto, JobInv, TypeOK, WorkerHasJob,
     FreshUntouched, ScrapedOnce, CutStaysCut, FileKept, OkHasFile, Busy,
     Marked, FileOpen, Closed
<1>4. CASE SetupMate
  BY <1>1, <1>4 DEF SetupMate, Goto, JobInv, TypeOK, WorkerHasJob,
     FreshUntouched, ScrapedOnce, CutStaysCut, FileKept, OkHasFile, Busy,
     Marked, FileOpen, Closed, store, history
<1>5. CASE CreateSeedJobs
  BY <1>1, <1>5 DEF CreateSeedJobs, Goto, JobInv, TypeOK, WorkerHasJob,
     FreshUntouched, ScrapedOnce, CutStaysCut, FileKept, OkHasFile, Busy,
     Marked, FileOpen, Closed, store
<1>6. CASE CrawlReturns
  BY <1>1, <1>6 DEF CrawlReturns, Goto, JobInv, TypeOK, WorkerHasJob,
     FreshUntouched, ScrapedOnce, CutStaysCut, FileKept, OkHasFile, Busy,
     Marked, FileOpen, Closed, store
<1>7. CASE Finish
  BY <1>1, <1>7, WebJobsAssumption DEF Finish, UpdateOk, UpdateFails, WriteRow,
     Goto, JobInv, TypeOK, WorkerHasJob, FreshUntouched, ScrapedOnce,
     CutStaysCut, FileKept, OkHasFile, Busy, Marked, FileOpen, Closed, Statuses,
     history
<1>8. CASE Fail \/ Touch
  BY <1>1, <1>8, WebJobsAssumption DEF Fail, Touch, UpdateOk, UpdateFails,
     WriteRow, Goto, JobInv, TypeOK, WorkerHasJob, FreshUntouched,
     ScrapedOnce, CutStaysCut, FileKept, OkHasFile, Busy, Marked, FileOpen,
     Closed,
     Statuses, history
<1>9. CASE CloseMate
  BY <1>1, <1>9 DEF CloseMate, Goto, JobInv, TypeOK, WorkerHasJob,
     FreshUntouched, ScrapedOnce, CutStaysCut, FileKept, OkHasFile, Busy,
     Marked, FileOpen, Closed, history
<1> QED BY <1>2, <1>3, <1>4, <1>5, <1>6, <1>7, <1>8, <1>9 DEF ScrapeJob

LEMMA JobInvStep == ASSUME JobInv, [Next]_vars PROVE JobInv'
<1>1. CASE Next
  BY <1>1, HandlerStep, LoopStep, ScrapeStep DEF Next
<1>2. CASE UNCHANGED vars
  BY <1>2 DEF vars, JobInv, TypeOK, WorkerHasJob, FreshUntouched, ScrapedOnce,
     CutStaysCut, FileKept, OkHasFile, Busy, Marked, FileOpen, Closed, store,
     worker, history
<1> QED BY <1>1, <1>2

(* The inductive invariant: the worker's job is pending until it is marked *)
(* and working (or deleted) from then on, whatever the handlers do between *)
(* the worker's steps.                                                     *)
THEOREM JobInvariant == Spec => []JobInv
<1>1. Init => JobInv
  <2>1. Cardinality(Jobs) \in Nat
    BY WebJobsAssumption, FS_CardinalityType
  <2> QED
    BY <2>1, WebJobsAssumption DEF Init, JobInv, TypeOK, WorkerHasJob,
       FreshUntouched, ScrapedOnce, CutStaysCut, FileKept, OkHasFile, Busy,
       Marked, FileOpen, Closed
<1>2. JobInv /\ [Next]_vars => JobInv'
  BY JobInvStep
<1> QED BY <1>1, <1>2, PTL DEF Spec

(* No job is scraped twice, over all the lives of the process. *)
THEOREM NeverScrapedTwice == Spec => []ScrapedOnce
<1>1. JobInv => ScrapedOnce
  BY DEF JobInv
<1> QED BY <1>1, JobInvariant, PTL

(* A job stored as ok was not cut short by the end of the process. *)
THEOREM OkWasFinished == Spec => []OkIsNotCut
<1>1. JobInv => OkIsNotCut
  BY DEF JobInv, CutStaysCut, OkIsNotCut
<1> QED BY <1>1, JobInvariant, PTL

(* A job stored as ok has a closed file to download. *)
THEOREM OkIsDownloadable == Spec => []OkHasFile
<1>1. JobInv => OkHasFile
  BY DEF JobInv
<1> QED BY <1>1, JobInvariant, PTL

(* Statuses only move forward, and a deleted job does not come back. *)
THEOREM StatusesMoveForward == Spec => StatusForward
<1> DEFINE Forward ==
      \A j \in Jobs :
        \/ row'[j] = row[j]
        \/ row[j] = "none" /\ row'[j] = "pending"
        \/ row[j] = "pending" /\ row'[j] = "working"
        \/ row[j] = "working" /\ row'[j] \in {"ok", "failed"}
        \/ row'[j] = "deleted"
<1>1. ASSUME JobInv, [Next]_vars
      PROVE  Forward
  <2> USE <1>1
  <2>1. CASE \E j \in Jobs : \/ Create(j) \/ DeleteFile(j)
                             \/ DeleteRow(j) \/ DeleteRowFails(j)
    BY <2>1 DEF JobInv, TypeOK, Create, DeleteFile, DeleteRow, DeleteRowFails,
       store
  <2>2. CASE \/ Select \/ SelectFails \/ WorkStops \/ Cancel \/ Exit \/ Restart
             \/ OpenFile \/ SetupMate \/ CreateSeedJobs \/ CrawlReturns
             \/ CloseMate \/ UNCHANGED vars
    BY <2>2 DEF Select, SelectFails, WorkStops, Cancel, Exit, Restart,
       OpenFile, SetupMate, CreateSeedJobs, CrawlReturns, CloseMate, vars,
       store
  <2>3. CASE Mark \/ Finish \/ Fail \/ Touch
    BY <2>3 DEF JobInv, TypeOK, WorkerHasJob, Marked, Busy, Mark, Finish, Fail,
       Touch, UpdateOk, UpdateFails, WriteRow, Statuses
  <2> QED BY <2>1, <2>2, <2>3 DEF Next, ScrapeJob
<1>2. JobInv /\ [Next]_vars => [Forward]_vars
  BY <1>1
<1> QED BY <1>2, JobInvariant, PTL DEF Spec, StatusForward
=============================================================================
