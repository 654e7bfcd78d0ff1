------------------------------- MODULE Webhook -------------------------------
(***************************************************************************)
(* The webhook client (pkg/webhook): callers of Send add records to the    *)
(* current batch; a full batch, a batch whose timer runs out, a Flush and  *)
(* the Shutdown export it to every endpoint, all of it while holding       *)
(* batchMu.  One goroutine per endpoint posts the batch, with retries.     *)
(***************************************************************************)
EXTENDS Naturals, FiniteSets

CONSTANTS
  Records,          \* each is passed to Send once, by a goroutine of its own
  Endpoints,        \* config.Endpoints
  MaxBatchSize,     \* config.MaxBatchSize
  MaxRetries        \* config.RetryConfig.MaxRetries

(* What validateConfig accepts. *)
ASSUME WebhookAssumption ==
  /\ IsFiniteSet(Records)
  /\ IsFiniteSet(Endpoints) /\ Endpoints # {}
  /\ MaxBatchSize \in Nat \ {0}
  /\ MaxRetries \in Nat
  /\ Records \cap {"none", "loop", "shutdown", "flusher"} = {}

VARIABLES
  batch,      \* currentBatch.Records
  timer,      \* batchTimer: running, expired with its tick unread, or neither
  done,       \* the channel done is closed
  holder,     \* who holds batchMu across an export, "none" if nobody does
  outgoing,   \* the batch being exported
  attempt,    \* attempts that have failed, per endpoint, of this export
  answer,     \* what the goroutine of each endpoint has come to
  got,        \* records each endpoint has taken in
  outcome,    \* how ProcessBatch ended for the batch a record was in
  sendPc,     \* control point of the Send of each record
  loopPc,     \* control point of processingLoop
  shutPc,     \* control point of the one call that runs inside shutdownOnce
  owed        \* auxiliary: what was acknowledged when done was closed

exportVars == <<outgoing, attempt, answer, got, outcome>>
vars == <<batch, timer, done, holder, exportVars, sendPc, loopPc, shutPc, owed>>

Holders == Records \cup {"none", "loop", "shutdown", "flusher"}

TypeOK ==
  /\ batch \in SUBSET Records
  /\ timer \in {"running", "expired", "idle"}
  /\ done \in BOOLEAN
  /\ holder \in Holders
  /\ outgoing \in SUBSET Records
  /\ attempt \in [Endpoints -> 0..MaxRetries]
  /\ answer \in [Endpoints -> {"idle", "awaited", "accepted", "failed"}]
  /\ got \in [Endpoints -> SUBSET Records]
  /\ outcome \in [Records -> {"none", "sent", "failed"}]
  /\ sendPc \in [Records -> {"idle", "checked", "exporting", "ok", "failed",
                             "refused"}]
  /\ loopPc \in {"select", "ticked", "exporting", "stopped"}
  /\ shutPc \in {"idle", "closed", "timerStopped", "exporting", "done"}
  /\ owed \in SUBSET Records

Init ==
  /\ batch = {}
  /\ timer = "running"
  /\ done = FALSE
  /\ holder = "none"
  /\ outgoing = {}
  /\ attempt = [e \in Endpoints |-> 0]
  /\ answer = [e \in Endpoints |-> "idle"]
  /\ got = [e \in Endpoints |-> {}]
  /\ outcome = [r \in Records |-> "none"]
  /\ sendPc = [r \in Records |-> "idle"]
  /\ loopPc = "select"
  /\ shutPc = "idle"
  /\ owed = {}

-----------------------------------------------------------------------------
(* Mutant: the exported batch stays the current one. *)
BeginExportKeepsBatch(p, records) ==
  /\ batch' = records
  /\ timer' = "running"
  /\ holder' = p
  /\ outgoing' = records
  /\ attempt' = [e \in Endpoints |-> 0]
  /\ answer' = [e \in Endpoints |-> "awaited"]
  /\ UNCHANGED <<done, got, outcome, owed>>

(* flushLocked: on an empty batch it returns at once, and leaves the timer *)
(* as it is; otherwise it takes the batch, restarts the timer and goes on  *)
(* to export with the lock held.                                           *)
BeginExport(p, records) ==
  /\ batch' = {}
  /\ timer' = "running"
  /\ holder' = p
  /\ outgoing' = records
  /\ attempt' = [e \in Endpoints |-> 0]
  /\ answer' = [e \in Endpoints |-> "awaited"]
  /\ UNCHANGED <<done, got, outcome, owed>>

(* What one attempt posts.  Every attempt copies the body out of the same  *)
(* reader, which the first one leaves at its end.                          *)
Body(e) == IF attempt[e] = 0 THEN outgoing ELSE {}

(* The endpoint answers with a 2xx status. *)
Accepted(e) ==
  /\ answer[e] = "awaited"
  /\ got' = [got EXCEPT ![e] = @ \cup Body(e)]
  /\ answer' = [answer EXCEPT ![e] = "accepted"]
  /\ UNCHANGED <<batch, timer, done, holder, outgoing, attempt, outcome,
                 sendPc, loopPc, shutPc, owed>>

(* Mutant: one retry too many. *)
RejectedOnceMore(e) ==
  /\ answer[e] = "awaited"
  /\ \E taken \in {{}, Body(e)} : got' = [got EXCEPT ![e] = @ \cup taken]
  /\ attempt' = [attempt EXCEPT ![e] = @ + 1]
  /\ answer' = [answer EXCEPT ![e] = IF attempt[e] > MaxRetries THEN "failed"
                                                              ELSE @]
  /\ UNCHANGED <<batch, timer, done, holder, outgoing, outcome,
                 sendPc, loopPc, shutPc, owed>>

(* Another status, or an error of the request: an endpoint whose answer is *)
(* lost or late has taken the body in all the same.                        *)
Rejected(e) ==
  /\ answer[e] = "awaited"
  /\ \E taken \in {{}, Body(e)} : got' = [got EXCEPT ![e] = @ \cup taken]
  /\ \/ /\ attempt[e] < MaxRetries
        /\ attempt' = [attempt EXCEPT ![e] = @ + 1]
        /\ UNCHANGED answer
     \/ /\ attempt[e] = MaxRetries
        /\ answer' = [answer EXCEPT ![e] = "failed"]
        /\ UNCHANGED attempt
  /\ UNCHANGED <<batch, timer, done, holder, outgoing, outcome,
                 sendPc, loopPc, shutPc, owed>>

(* The caller's context is done; processingLoop has none that could be. *)
GivesUp(e) ==
  /\ answer[e] = "awaited"
  /\ holder # "loop"
  /\ answer' = [answer EXCEPT ![e] = "failed"]
  /\ UNCHANGED <<batch, timer, done, holder, outgoing, attempt, got, outcome,
                 sendPc, loopPc, shutPc, owed>>

(* Mutant: an export succeeds if any endpoint took it. *)
ExportErrorNoneAccepted ==
  IF \E e \in Endpoints : answer[e] = "accepted" THEN "sent" ELSE "failed"

(* Export: the goroutines' errors are collected, any of them is an error.  *)
ExportError ==
  IF \A e \in Endpoints : answer[e] = "accepted" THEN "sent" ELSE "failed"

(* Mutant: an export that fails returns without unlocking. *)
EndExportKeepsLock(p) ==
  /\ holder = p
  /\ \A e \in Endpoints : answer[e] # "awaited"
  /\ outcome' = [r \in Records |-> IF r \in outgoing THEN ExportError
                                                     ELSE outcome[r]]
  /\ holder' = IF ExportError = "failed" THEN p ELSE "none"
  /\ outgoing' = {}
  /\ attempt' = [e \in Endpoints |-> 0]
  /\ answer' = [e \in Endpoints |-> "idle"]
  /\ UNCHANGED <<batch, timer, done, got, owed>>

(* All goroutines have finished: the holder of the lock returns from       *)
(* flushLocked with their errors, and unlocks.                             *)
EndExport(p) ==
  /\ holder = p
  /\ \A e \in Endpoints : answer[e] # "awaited"
  /\ outcome' = [r \in Records |-> IF r \in outgoing THEN ExportError
                                                     ELSE outcome[r]]
  /\ holder' = "none"
  /\ outgoing' = {}
  /\ attempt' = [e \in Endpoints |-> 0]
  /\ answer' = [e \in Endpoints |-> "idle"]
  /\ UNCHANGED <<batch, timer, done, got, owed>>

-----------------------------------------------------------------------------
(* Send *)

SendCheck(r) ==
  /\ sendPc[r] = "idle"
  /\ sendPc' = [sendPc EXCEPT ![r] = IF done THEN "refused" ELSE "checked"]
  /\ UNCHANGED <<batch, timer, done, holder, exportVars, loopPc, shutPc, owed>>

(* Mutant: the batch is flushed once it has grown past its limit. *)
BatchFullLate(records) == Cardinality(records) > MaxBatchSize

BatchFull(records) == Cardinality(records) >= MaxBatchSize

SendAppend(r) ==
  /\ sendPc[r] = "checked"
  /\ holder = "none"
  /\ ~ BatchFull(batch \cup {r})
  /\ batch' = batch \cup {r}
  /\ sendPc' = [sendPc EXCEPT ![r] = "ok"]
  /\ UNCHANGED <<timer, done, holder, exportVars, loopPc, shutPc, owed>>

SendFull(r) ==
  /\ sendPc[r] = "checked"
  /\ holder = "none"
  /\ BatchFull(batch \cup {r})
  /\ BeginExport(r, batch \cup {r})
  /\ sendPc' = [sendPc EXCEPT ![r] = "exporting"]
  /\ UNCHANGED <<loopPc, shutPc>>

SendReturns(r) ==
  /\ EndExport(r)
  /\ sendPc' = [sendPc EXCEPT ![r] = IF ExportError = "sent" THEN "ok"
                                                             ELSE "failed"]
  /\ UNCHANGED <<loopPc, shutPc>>

-----------------------------------------------------------------------------
(* Flush, by any caller *)

FlushCall ==
  /\ holder = "none"
  /\ batch # {}
  /\ BeginExport("flusher", batch)
  /\ UNCHANGED <<sendPc, loopPc, shutPc>>

FlushReturns == EndExport("flusher") /\ UNCHANGED <<sendPc, loopPc, shutPc>>

-----------------------------------------------------------------------------
(* The timer and processingLoop *)

TimerExpires ==
  /\ timer = "running"
  /\ timer' = "expired"
  /\ UNCHANGED <<batch, done, holder, exportVars, sendPc, loopPc, shutPc, owed>>

LoopTick ==
  /\ loopPc = "select"
  /\ timer = "expired"
  /\ timer' = "idle"
  /\ loopPc' = "ticked"
  /\ UNCHANGED <<batch, done, holder, exportVars, sendPc, shutPc, owed>>

LoopStop ==
  /\ loopPc = "select"
  /\ done
  /\ loopPc' = "stopped"
  /\ UNCHANGED <<batch, timer, done, holder, exportVars, sendPc, shutPc, owed>>

(* The tick finds no record: flushLocked returns before it would have      *)
(* restarted the timer.                                                    *)
LoopFindsNothing ==
  /\ loopPc = "ticked"
  /\ holder = "none"
  /\ batch = {}
  /\ loopPc' = "select"
  /\ UNCHANGED <<batch, timer, done, holder, exportVars, sendPc, shutPc, owed>>

LoopFlush ==
  /\ loopPc = "ticked"
  /\ holder = "none"
  /\ batch # {}
  /\ BeginExport("loop", batch)
  /\ loopPc' = "exporting"
  /\ UNCHANGED <<sendPc, shutPc>>

(* Mutant: processingLoop returns when an export fails. *)
LoopEndsOnError ==
  /\ EndExport("loop")
  /\ loopPc' = IF ExportError = "failed" THEN "stopped" ELSE "select"
  /\ UNCHANGED <<sendPc, shutPc>>

LoopContinues ==
  /\ EndExport("loop")
  /\ loopPc' = "select"
  /\ UNCHANGED <<sendPc, shutPc>>

-----------------------------------------------------------------------------
(* Shutdown.  Later calls wait for the first and return its error.         *)

(* Send has answered for this record, and not with a refusal. *)
Acknowledged(r) == sendPc[r] \in {"ok", "failed"}

ShutdownClose ==
  /\ shutPc = "idle"
  /\ done' = TRUE
  /\ owed' = {r \in Records : Acknowledged(r)}
  /\ shutPc' = "closed"
  /\ UNCHANGED <<batch, timer, holder, exportVars, sendPc, loopPc>>

ShutdownStopsTimer ==
  /\ shutPc = "closed"
  /\ timer' = "idle"
  /\ shutPc' = "timerStopped"
  /\ UNCHANGED <<batch, done, holder, exportVars, sendPc, loopPc, owed>>

(* Mutant: Shutdown looks at the batch without taking the lock. *)
ShutdownFindsNothingUnlocked ==
  /\ shutPc = "timerStopped"
  /\ batch = {}
  /\ shutPc' = "done"
  /\ UNCHANGED <<batch, timer, done, holder, exportVars, sendPc, loopPc, owed>>

ShutdownFindsNothing ==
  /\ shutPc = "timerStopped"
  /\ holder = "none"
  /\ batch = {}
  /\ shutPc' = "done"
  /\ UNCHANGED <<batch, timer, done, holder, exportVars, sendPc, loopPc, owed>>

ShutdownFlush ==
  /\ shutPc = "timerStopped"
  /\ holder = "none"
  /\ batch # {}
  /\ BeginExport("shutdown", batch)
  /\ shutPc' = "exporting"
  /\ UNCHANGED <<sendPc, loopPc>>

ShutdownReturns ==
  /\ EndExport("shutdown")
  /\ shutPc' = "done"
  /\ UNCHANGED <<sendPc, loopPc>>

-----------------------------------------------------------------------------
Send(r)     == SendCheck(r) \/ SendAppend(r) \/ SendFull(r) \/ SendReturns(r)
Loop        == LoopTick \/ LoopStop \/ LoopFindsNothing \/ LoopFlush
                 \/ LoopContinues
Shutdown    == ShutdownClose \/ ShutdownStopsTimer \/ ShutdownFindsNothing
                 \/ ShutdownFlush \/ ShutdownReturns
Exporter(e) == Accepted(e) \/ Rejected(e) \/ GivesUp(e)

Next ==
  \/ \E r \in Records : Send(r)
  \/ FlushCall \/ FlushReturns
  \/ TimerExpires
  \/ Loop
  \/ Shutdown
  \/ \E e \in Endpoints : Exporter(e)

Spec == Init /\ [][Next]_vars

(* Goroutines run on, requests end (the HTTP client has a timeout), a      *)
(* running timer expires, and a goroutine that waits for the mutex gets it *)
(* (sync.Mutex serves its oldest waiter first once it has starved for a    *)
(* millisecond).  Nobody is obliged to call Send, Flush or Shutdown.       *)
Fairness ==
  /\ \A r \in Records : SF_vars(SendAppend(r) \/ SendFull(r))
                        /\ WF_vars(SendReturns(r))
  /\ WF_vars(FlushReturns)
  /\ WF_vars(TimerExpires)
  /\ WF_vars(LoopTick) /\ WF_vars(LoopStop) /\ WF_vars(LoopContinues)
  /\ SF_vars(LoopFindsNothing \/ LoopFlush)
  /\ WF_vars(ShutdownStopsTimer) /\ WF_vars(ShutdownReturns)
  /\ SF_vars(ShutdownFindsNothing \/ ShutdownFlush)
  /\ \A e \in Endpoints : WF_vars(Exporter(e))

FairSpec == Spec /\ Fairness

-----------------------------------------------------------------------------
(* Properties *)

Exported(r) == outcome[r] # "none"

(* A record that Send took is in exactly one place: waiting in the current *)
(* batch, in the batch on the wire, or exported; a record that Send has    *)
(* not taken is in none.  Four goroutines move batches about.              *)
EachRecordOnce ==
  /\ batch \cap outgoing = {}
  /\ \A r \in batch \cup outgoing : ~ Exported(r)
  /\ \A r \in Records :
       (r \in batch \cup outgoing \/ Exported(r))
         <=> sendPc[r] \in {"exporting", "ok", "failed"}

(* No request carries more than MaxBatchSize records, whoever flushes, and *)
(* between two critical sections the batch is below the limit.             *)
BatchBounded ==
  /\ Cardinality(outgoing) <= MaxBatchSize
  /\ Cardinality(batch) < MaxBatchSize

(* Once Shutdown has returned, every record that Send had acknowledged     *)
(* before the shutdown began has been exported, a batch that another       *)
(* goroutine was exporting at that time included.                          *)
ShutdownFlushes == shutPc = "done" => \A r \in owed : Exported(r)

(* Who holds the lock is at the point of its code that exports, and        *)
(* nothing is added to the batch behind its back.                          *)
LockDiscipline ==
  /\ \A r \in Records : holder = r <=> sendPc[r] = "exporting"
  /\ holder = "loop" <=> loopPc = "exporting"
  /\ holder = "shutdown" <=> shutPc = "exporting"
  /\ holder = "none" => outgoing = {}
  /\ holder # "none" => batch = {}

(* What Shutdown owes stays acknowledged, and its own export takes the     *)
(* last of it.                                                             *)
OwedTracked ==
  /\ \A r \in owed : Acknowledged(r)
  /\ shutPc = "exporting" => \A r \in owed : r \in outgoing \/ Exported(r)

(* The inductive invariant of the client. *)
HookInv == TypeOK /\ LockDiscipline /\ EachRecordOnce /\ BatchBounded
                  /\ OwedTracked /\ ShutdownFlushes

(* Test client_test.go:223, "Shutdown should process pending records":     *)
(* after Shutdown no record is left in the batch.  A Send that had passed  *)
(* its check of done appends after the last flush.                         *)
NothingPendingAfterShutdown == shutPc = "done" => batch = {}

(* An export that reports no error has handed every record of its batch to *)
(* every endpoint.  It holds while there are no retries.                   *)
SentIsReceived ==
  \A r \in Records : outcome[r] = "sent" => \A e \in Endpoints : r \in got[e]

(* Shutdown always returns, whatever Send, Flush and the timer are doing:  *)
(* it waits for the mutex, and the mutex for the endpoints.                *)
ShutdownEnds == shutPc = "closed" ~> shutPc = "done"

(* A Send that has passed its check returns. *)
SendEnds ==
  \A r \in Records : sendPc[r] = "checked" ~> sendPc[r] \in {"ok", "failed"}

(* config.go:12, "BatchTimeout is the maximum time to wait before sending  *)
(* a batch": a record in the batch leaves it, unless Shutdown comes first. *)
BatchSentInTime == \A r \in Records : r \in batch ~> (r \notin batch \/ done)

(* It holds of a record that found the timer running.                      *)
SentInTimeIfTimerRuns ==
  \A r \in Records :
    (r \in batch /\ timer = "running") ~> (r \notin batch \/ done)

=============================================================================
