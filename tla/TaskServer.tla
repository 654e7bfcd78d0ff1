------------------------------ MODULE TaskServer ------------------------------
(* Tasks of asynq: redis/client.go puts them into a queue, the asynq server   *)
(* that redis/server.go configures takes them, and tasks.Handler runs them.   *)
(*                                                                            *)
(* asynq is external. It takes a task of a queue it was configured with,      *)
(* calls the handler, and then completes the task, or retries it after a      *)
(* delay, or archives it once its retries are used up.                        *)
(*                                                                            *)
(* The kinds of task: "check" (health:check and connection:test), "scrape",   *)
(* "email", "unknown" (no handler is registered for it), and the eight kinds  *)
(* that validate their payload and do nothing yet, "wrapped" when one of the  *)
(* Create functions made it and "flat" when the caller wrote it.              *)
(*                                                                            *)
(* Left out: what a crawl finds and the file it is written to, custom queue   *)
(* priorities from REDIS_QUEUE_PRIORITIES, and RunTask of the handler, which  *)
(* passes the id as the queue and the queue as the id: no such queue exists   *)
(* and nothing changes.                                                       *)
EXTENDS Naturals

CONSTANTS Tasks,    \* tasks that may be enqueued
          Test,     \* the one that NewClient enqueues to test its connection
          Kinds,    \* the kinds that callers enqueue
          SubscriptionQueues,  \* the queues of the subscriptions
          MaxRetry  \* bound: asynq's default is 25

ASSUME ServerAssumption ==
    /\ Test \in Tasks
    /\ Kinds \subseteq {"scrape", "email", "wrapped", "flat", "unknown"}
    /\ SubscriptionQueues \subseteq {"enterprise", "pro", "free"}
    /\ MaxRetry \in Nat

VARIABLES
    task,     \* the kind and the queue of each task, and its state in Redis
    retried,  \* how often it has been retried
    handler   \* where the handler that runs it is
taskVars == <<task, retried, handler>>

(* The queues the server asks.                                                *)
ServerQueues == {"critical", "default", "low"}
States == {"pending", "active", "retry", "archived", "completed", "deleted"}
NoTask == [kind |-> "none", queue |-> "none", state |-> "none"]

TasksTypeOK ==
    /\ task \in [Tasks -> {NoTask} \cup
                          [kind : Kinds \cup {"check", "none"},
                           queue : ServerQueues \cup SubscriptionQueues \cup {"none"},
                           state : States]]
    /\ retried \in [Tasks -> 0..MaxRetry]
    /\ handler \in [Tasks -> {"none", "begin", "file", "mate", "crawl", "ok", "error"}]

TasksInit ==
    /\ task = [t \in Tasks |-> NoTask]
    /\ retried = [t \in Tasks |-> 0]
    /\ handler = [t \in Tasks |-> "none"]

At(t, s) == task[t].state = s
Moved(t, s) == [task EXCEPT ![t].state = s]
(* Nothing is kept of a task that was completed.                              *)
Gone(t, s) == [task EXCEPT ![t] = [NoTask EXCEPT !.state = s]]
-----------------------------------------------------------------------------
(* The client.                                                                *)
Enqueue(t, k, q) ==
    /\ task[t] = NoTask
    /\ task' = [task EXCEPT ![t] = [kind |-> k, queue |-> q, state |-> "pending"]]
    /\ UNCHANGED <<retried, handler>>

EnqueueTask(t) == \E k \in Kinds : Enqueue(t, k, "default")
EnqueueTaskBasedOnSubscription(t) ==
    \E k \in Kinds, q \in SubscriptionQueues : Enqueue(t, k, q)

(* testConnection.                                                            *)
EnqueueTest == Enqueue(Test, "check", "default")
-----------------------------------------------------------------------------
(* The server takes a task and hands it to the mux.                           *)
Take(t) ==
    /\ At(t, "pending") /\ task[t].queue \in ServerQueues
    /\ task' = Moved(t, "active")
    /\ handler' = [handler EXCEPT ![t] = "begin"]
    /\ UNCHANGED retried

Go(t, from, to) ==
    /\ handler[t] = from /\ handler' = [handler EXCEPT ![t] = to]
    /\ UNCHANGED <<task, retried>>

(* The fields of a payload that the Validate of a handler wants filled. JSON  *)
(* leaves a field empty that the top level of the object does not have.       *)
LeadProcess == {"lead_id", "source"}
LeadValidate == {"lead_id"}
LeadEnrich == {"lead_id", "enrich_types"}
ReportGenerate == {"report_type", "format"}
DataExport == {"export_type", "destination", "format"}
DataImport == {"import_type", "source", "format"}
DataCleanup == {"cleanup_type", "older_than"}
WorkflowExecution == {"workflow_id", "workflow_name", "cron_expression", "execution_time"}
Wanted == {LeadProcess, LeadValidate, LeadEnrich, ReportGenerate,
           DataExport, DataImport, DataCleanup, WorkflowExecution}
Validate(wanted, fields) == IF wanted \subseteq fields THEN "ok" ELSE "error"

(* NewTask, which the Create functions call, puts the payload into an object  *)
(* of its own.                                                                *)
NewTask == {"type", "payload"}

(* A scrape needs keywords and its file.                                      *)
ProcessScrapeTask == {"error", "file"}
(* An email task needs its engine.                                            *)
ProcessEmailTask == {"error", "mate"}

(* ProcessTask: where a task of each kind may go from here.                   *)
Routes(k) ==
    CASE k = "check"   -> {"ok"}
      [] k = "wrapped" -> {Validate(w, NewTask) : w \in Wanted}
      [] k = "flat"    -> {Validate(w, w) : w \in Wanted}
      [] k = "scrape"  -> ProcessScrapeTask
      [] k = "email"   -> ProcessEmailTask
      [] k = "unknown" -> {"error"}
ProcessTask(t) ==
    handler[t] = "begin" /\ \E to \in Routes(task[t].kind) : Go(t, "begin", to)

SetupMate(t) == \E to \in {"error", "mate"} : Go(t, "file", to)

(* Seeds are created and the crawl starts; without seeds there is none.       *)
RunScraping(t) ==
    task[t].kind = "scrape" /\ \E to \in {"error", "ok", "crawl"} : Go(t, "mate", to)
(* The one job of an email task always exists.                                *)
StartEmailJob(t) == task[t].kind = "email" /\ Go(t, "mate", "crawl")

CrawlReturns(t) == \E to \in {"ok", "error"} : Go(t, "crawl", to)

(* Mutant: the crawl runs on a context of its own.                            *)
CutNever(t) == FALSE
(* The context of the handler ends after taskTimeout, and the crawl with it:  *)
(* the handler returns nil.                                                   *)
CutByTimeout(t) == Go(t, "crawl", "ok")

(* What asynq does with a task whose handler has failed.                      *)
Failed(t) ==
    IF retried[t] < MaxRetry
    THEN task' = Moved(t, "retry") /\ retried' = [retried EXCEPT ![t] = @ + 1]
    ELSE task' = Moved(t, "archived") /\ UNCHANGED retried

(* The handler returns; a task that is no longer active is not its concern.   *)
HandlerReturns(t) ==
    /\ handler[t] \in {"ok", "error"}
    /\ handler' = [handler EXCEPT ![t] = "none"]
    /\ IF ~At(t, "active")
       THEN UNCHANGED <<task, retried>>
       ELSE IF handler[t] = "ok"
            THEN task' = Gone(t, "completed") /\ UNCHANGED retried
            ELSE Failed(t)

(* RetryDelayFunc only says how soon, and at once (-1 s) after cfg.MaxRetries *)
(* retries. asynq looks for due retries every few seconds: the model lets a   *)
(* handler that was cancelled return before that.                             *)
RetryDue(t) ==
    /\ At(t, "retry") /\ handler[t] = "none"
    /\ task' = Moved(t, "pending")
    /\ UNCHANGED <<retried, handler>>

HandlerGoes(t) ==
    \/ ProcessTask(t) \/ SetupMate(t) \/ RunScraping(t) \/ StartEmailJob(t)
    \/ CutByTimeout(t) \/ HandlerReturns(t)
ServerGoes(t) == Take(t) \/ RetryDue(t)
-----------------------------------------------------------------------------
(* Operations on a task. A cancelled handler returns nil; whether asynq sees  *)
(* that or the cancellation first is open.                                    *)
CancelTaskProcessing(t) ==
    /\ At(t, "active") /\ handler[t] \in {"begin", "file", "mate", "crawl"}
    /\ handler' = [handler EXCEPT ![t] = "ok"]
    /\ Failed(t) \/ UNCHANGED <<task, retried>>

ArchiveTask(t) ==
    /\ At(t, "pending") \/ At(t, "retry")
    /\ task' = Moved(t, "archived")
    /\ UNCHANGED <<retried, handler>>

DeleteTask(t) ==
    /\ At(t, "pending") \/ At(t, "retry") \/ At(t, "archived")
    /\ task' = Moved(t, "deleted")
    /\ UNCHANGED <<retried, handler>>

Operation(t) == CancelTaskProcessing(t) \/ ArchiveTask(t) \/ DeleteTask(t)

(* The server gives up waiting for its handlers and puts their tasks back.    *)
Requeue ==
    /\ task' = [t \in Tasks |-> IF At(t, "active") THEN [task[t] EXCEPT !.state = "pending"]
                                                    ELSE task[t]]
    /\ UNCHANGED <<retried, handler>>
-----------------------------------------------------------------------------
NoneActive == \A t \in Tasks : ~At(t, "active")
Settled(t) == task[t].state \in {"completed", "archived", "deleted"}

(* A task whose handler runs is one that was enqueued and not completed, and  *)
(* so its kind is known to ProcessTask.                                       *)
HandlerKnows ==
    \A t \in Tasks :
        /\ handler[t] # "none" => ~At(t, "none") /\ ~At(t, "completed")
        /\ ~At(t, "none") /\ ~At(t, "completed") => task[t].kind \in Kinds \cup {"check"}
===============================================================================
