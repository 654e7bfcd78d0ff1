---------------------------- MODULE LifecycleProofs ----------------------------
(***************************************************************************)
(* Theorems about Lifecycle and the two modules it is made of, for every   *)
(* set of results, writers, tasks, kinds and modes, every batch size and   *)
(* every number of retries.  A step of the process belongs to the engine   *)
(* and its writer, or leaves their variables alone: the invariants of the  *)
(* writer, of the tasks and of main are each followed through the steps    *)
(* of their own.                                                           *)
(***************************************************************************)
EXTENDS Lifecycle, SequenceTheorems, TLAPS

(***************************************************************************)
(* Who changes what.                                                       *)
(***************************************************************************)
ResultStep == SendResult \/ EngineStops \/ MinutePasses \/ WriterStep

LEMMA EngineOrRest ==
  ASSUME [Next]_vars
  PROVE  \/ InApp /\ ResultStep
         \/ UNCHANGED <<writer, resultVars>> /\ ctx' \in {ctx, "cancelled"}
<1>1. CASE proc = "up" /\ (Signal \/ MonitorPings \/ Calls)
  BY <1>1 DEF Signal, MonitorPings, Calls, EngineIdle
<1>2. ASSUME NEW t \in Threads, HandlerStep(t)
      PROVE  UNCHANGED <<ctx, writer, resultVars>>
  BY <1>2 DEF HandlerStep, RunHandler, ContextEnds, StopHandler, CloseChannel, Join,
              StopServer, ShutdownServer, CloseClient, EngineIdle
<1>3. CASE Main
  BY <1>2, <1>3 DEF Main, Threads, New, Begin, Selected, AppEnds, RunEnds, CallClose, Exit,
                    SignalShutdown, SignalDone, CloseChannel, EngineIdle
<1>4. CASE Side
  BY <1>2, <1>4 DEF Side, Threads
<1>5. CASE MonitorGoes \/ StarterGoes
  BY <1>5 DEF MonitorGoes, MonitorPinged, MonitorEnds, StarterGoes, StartServer, EngineIdle
<1>6. CASE \E t \in Tasks : TasksGo(t)
  BY <1>6 DEF TasksGo
<1>7. CASE EngineGoes \/ WriterGoes \/ (InApp /\ (SendResult \/ MinutePasses))
  BY <1>7 DEF EngineGoes, WriterGoes, ResultStep
<1>8. CASE UNCHANGED vars
  BY <1>8 DEF vars
<1> QED
  BY <1>1, <1>3, <1>4, <1>5, <1>6, <1>7, <1>8 DEF Next

(***************************************************************************)
(* The writer.                                                             *)
(***************************************************************************)
LEMMA KeyIsJob ==
  ASSUME NEW r \in Results
  PROVE  Key(r) \in Jobs
BY DEF Key, Jobs

LEMMA WriterInit ==
  ASSUME ResultsInit, ctx = "live"
  PROVE  ResultsTypeOK /\ WriterInv
<1> USE WriterAssumption DEF ResultsInit
<1>1. ResultsTypeOK
  <2>1. closed \in BOOLEAN /\ left \subseteq Jobs /\ buffers \in [Jobs -> SUBSET Results]
    OBVIOUS
  <2>2. saves \in [Results -> 0..3] /\ faults \in 0..MaxSaveFaults
    OBVIOUS
  <2> QED
    BY <2>1, <2>2 DEF ResultsTypeOK
<1>2. Received = {}
  BY DEF Received
<1>3. SavedOnce /\ SavedWasReceived
  BY DEF SavedOnce, SavedWasReceived
<1>4. InOnePlace /\ SavedInBuffer
  BY DEF InOnePlace, SavedInBuffer
<1>5. ReceivedKept
  BY <1>2 DEF ReceivedKept
<1> QED
  BY <1>1, <1>3, <1>4, <1>5 DEF WriterInv

(* The steps before the writer: a result goes from toCome to in, or the    *)
(* channel is closed.                                                      *)
LEMMA EngineKeepsWriter ==
  ASSUME ResultsTypeOK, WriterInv, UNCHANGED <<ctx, writer>>,
         SendResult \/ EngineStops \/ MinutePasses
  PROVE  ResultsTypeOK' /\ WriterInv'
<1> USE DEF WriterInv, SavedOnce, InOnePlace, SavedWasReceived, SavedInBuffer, ReceivedKept,
            Received, Key, WriterReturned
<1>1. CASE SendResult
  BY <1>1 DEF SendResult, writerVars, ResultsTypeOK
<1>2. CASE EngineStops
  BY <1>2 DEF EngineStops, writerVars, ResultsTypeOK
<1>3. CASE MinutePasses
  BY <1>3 DEF MinutePasses, engineVars, ResultsTypeOK
<1> QED
  BY <1>1, <1>2, <1>3

(* The steps of Run.                                                       *)
LEMMA RunKeepsWriter ==
  ASSUME ResultsTypeOK, WriterInv, UNCHANGED <<ctx, writer>>, WriterStep
  PROVE  ResultsTypeOK' /\ WriterInv'
<1> USE KeyIsJob, WriterAssumption
<1> USE DEF ResultsTypeOK, Received, WriterReturned
<1>k. Jobs' = Jobs /\ \A r \in Results : Key(r)' = Key(r)
  BY DEF Key, Jobs
<1>1. ASSUME Receive
      PROVE  ResultsTypeOK' /\ WriterInv'
  <2>1. PICK r \in in :
               /\ in' = in \ {r}
               /\ IF r \in Bad
                  THEN wpc' = "failed" /\ UNCHANGED <<buffers, left>>
                  ELSE /\ buffers' = [buffers EXCEPT ![Key(r)] = @ \cup {r}]
                       /\ IF Due(Cardinality(buffers[Key(r)]) + 1)
                          THEN wpc' = "flushing" /\ left' = FilledWith(r)
                          ELSE UNCHANGED <<wpc, left>>
    BY <1>1 DEF Receive
  <2>2. /\ wpc = "reading" /\ wpc' \in {"failed", "flushing", "reading"}
        /\ UNCHANGED <<toCome, closed, lastSave, saves, faults>>
    BY <1>1, <2>1 DEF Receive
  <2>3. r \in Results /\ r \notin toCome /\ r \notin Received /\ saves[r] = 0
    BY DEF WriterInv, InOnePlace, SavedWasReceived
  <2>4. Received' = Received \cup {r}
    BY <2>1, <2>2, <2>3
  <2>5. left' \subseteq Jobs /\ buffers' \in [Jobs -> SUBSET Results]
    BY <2>1, <2>3 DEF FilledWith, Filled
  <2>6. \A j \in Jobs : \A q \in buffers'[j] :
           q \in buffers[j] \/ (q = r /\ j = Key(r))
    BY <2>1, <2>3
  <2>7. wpc' # "failed" => \A j \in Jobs : buffers[j] \subseteq buffers'[j]
    BY <2>1, <2>3
  <2>8. wpc' # "failed" => r \in buffers'[Key(r)]
    BY <2>1, <2>3
  <2>9. SavedOnce' /\ SavedWasReceived'
    BY <2>2, <2>4 DEF WriterInv, SavedOnce, SavedWasReceived
  <2>10. InOnePlace'
    BY <1>k, <2>1, <2>2, <2>3, <2>4, <2>6 DEF WriterInv, InOnePlace
  <2>11. SavedInBuffer'
    BY <1>k, <2>2, <2>3, <2>6 DEF WriterInv, SavedInBuffer
  <2>12. ReceivedKept'
    BY <1>k, <2>2, <2>3, <2>4, <2>7, <2>8 DEF WriterInv, ReceivedKept
  <2> QED
    BY <2>1, <2>2, <2>5, <2>9, <2>10, <2>11, <2>12 DEF WriterInv
<1>2. ASSUME EndOfInput
      PROVE  ResultsTypeOK' /\ WriterInv'
  <2>1. ReceivedKept'
    BY <1>2, <1>k DEF WriterInv, ReceivedKept, EndOfInput, LeftAtEnd, Filled, engineVars
  <2> QED
    BY <1>2, <1>k, <2>1 DEF WriterInv, SavedOnce, InOnePlace, SavedWasReceived, SavedInBuffer,
                            EndOfInput, LeftAtEnd, Filled, engineVars
<1>3. ASSUME Save
      PROVE  ResultsTypeOK' /\ WriterInv'
  <2>1. PICK j \in left : /\ saves' = Stored(j)
                          /\ left' = left \ {j}
                          /\ buffers' = IF wpc = "flushing" THEN Emptied(j) ELSE buffers
    BY <1>3 DEF Save
  <2>2. /\ wpc \in {"flushing", "last"} /\ Received' = Received
        /\ UNCHANGED <<engineVars, wpc, lastSave, faults>>
    BY <1>3 DEF Save, engineVars
  <2>3. \A r \in buffers[j] : r \in Results /\ saves[r] = 0
    BY <2>1, <2>2 DEF WriterInv, SavedInBuffer
  <2>4. \A r \in Results : saves'[r] = IF r \in buffers[j] THEN saves[r] + 1 ELSE saves[r]
    BY <2>1 DEF Stored
  <2>5. SavedOnce' /\ \A r \in Results : saves[r] > 0 => saves'[r] > 0
    BY <2>3, <2>4 DEF WriterInv, SavedOnce
  <2>6. saves' \in [Results -> 0..3]
    BY <2>1, <2>3, <2>4 DEF Stored
  <2>7. buffers' \in [Jobs -> SUBSET Results] /\ \A k \in Jobs : buffers'[k] \subseteq buffers[k]
    BY <2>1 DEF Emptied
  <2>8. \A k \in Jobs : k # j => buffers'[k] = buffers[k]
    BY <2>1 DEF Emptied
  <2>9. InOnePlace' /\ SavedWasReceived'
    BY <1>k, <2>2, <2>4, <2>7 DEF WriterInv, InOnePlace, SavedWasReceived, engineVars
  <2>10. SavedInBuffer'
    <3> SUFFICES ASSUME NEW k \in Jobs, NEW r \in buffers'[k], saves'[r] > 0
                 PROVE  wpc = "last" /\ k \notin left'
      BY <1>k, <2>2 DEF SavedInBuffer
    <3>1. CASE k = j
      BY <3>1, <2>1, <2>2 DEF Emptied
    <3>2. CASE k # j
      BY <3>2, <2>1, <2>2, <2>4, <2>8 DEF WriterInv, SavedInBuffer, InOnePlace
    <3> QED
      BY <3>1, <3>2
  <2>11. ReceivedKept'
    <3> SUFFICES ASSUME NEW r \in Received, saves'[r] = 0
                 PROVE  r \in buffers'[Key(r)] /\ (wpc = "last" => Key(r) \in left')
      BY <1>k, <2>2, <2>6 DEF ReceivedKept
    <3>1. saves[r] = 0 /\ r \notin buffers[j]
      BY <2>3, <2>4
    <3>2. r \in buffers[Key(r)] /\ (wpc = "last" => Key(r) \in left)
      BY <2>2, <3>1 DEF WriterInv, ReceivedKept
    <3> QED
      BY <2>1, <2>8, <3>1, <3>2
  <2> QED
    BY <2>1, <2>2, <2>5, <2>6, <2>7, <2>9, <2>10, <2>11 DEF WriterInv, engineVars
<1>4. ASSUME SaveFails
      PROVE  ResultsTypeOK' /\ WriterInv'
  <2>1. PICK j \in left : saves' = Stored(j) \/ saves' = saves
    BY <1>4 DEF SaveFails
  <2>2. /\ wpc \in {"flushing", "last"} /\ wpc' = "failed" /\ Received' = Received
        /\ UNCHANGED <<engineVars, buffers, left, lastSave>>
        /\ faults' \in 0..MaxSaveFaults
    BY <1>4 DEF SaveFails, engineVars
  <2>3. \A r \in buffers[j] : r \in Results /\ saves[r] = 0
    BY <2>1, <2>2 DEF WriterInv, SavedInBuffer
  <2>4. \A r \in Results : saves'[r] = saves[r] \/ (r \in buffers[j] /\ saves'[r] = 1)
    BY <2>1, <2>3 DEF Stored
  <2>5. saves' \in [Results -> 0..3]
    BY <2>1, <2>3 DEF Stored
  <2>6. SavedOnce' /\ SavedWasReceived'
    BY <2>1, <2>2, <2>4 DEF WriterInv, SavedOnce, SavedWasReceived, InOnePlace
  <2>7. InOnePlace' /\ SavedInBuffer' /\ ReceivedKept'
    BY <1>k, <2>2 DEF WriterInv, InOnePlace, SavedInBuffer, ReceivedKept, engineVars
  <2> QED
    BY <2>2, <2>5, <2>6, <2>7 DEF WriterInv, engineVars
<1>5. ASSUME FlushDone \/ LastDone
      PROVE  ResultsTypeOK' /\ WriterInv'
  BY <1>5, <1>k DEF FlushDone, LastDone, WriterInv, SavedOnce, InOnePlace, SavedWasReceived,
                    SavedInBuffer, ReceivedKept, engineVars
<1> QED
  BY <1>1, <1>2, <1>3, <1>4, <1>5 DEF WriterStep

LEMMA WriterStepKeeps ==
  ASSUME ResultsTypeOK, WriterInv, [Next]_vars
  PROVE  ResultsTypeOK' /\ WriterInv'
<1>1. CASE InApp /\ ResultStep
  BY <1>1, EngineKeepsWriter, RunKeepsWriter DEF InApp, ResultStep
<1>2. CASE UNCHANGED <<writer, resultVars>> /\ ctx' \in {ctx, "cancelled"}
  <2>1. WriterInv'
    BY <1>2 DEF resultVars, engineVars, writerVars, WriterInv, SavedOnce, InOnePlace,
                SavedWasReceived, SavedInBuffer, ReceivedKept, Received, Key, WriterReturned
  <2> QED
    BY <1>2, <2>1 DEF resultVars, engineVars, writerVars, ResultsTypeOK
<1> QED
  BY <1>1, <1>2, EngineOrRest

(***************************************************************************)
(* The tasks.                                                              *)
(***************************************************************************)
(* The steps on one task but Take, after which no other task is active.    *)
TaskMove(t) ==
  \/ HandlerGoes(t) \/ RetryDue(t) \/ Operation(t) \/ CrawlReturns(t)
  \/ EnqueueTask(t) \/ EnqueueTaskBasedOnSubscription(t) \/ (t = Test /\ EnqueueTest)

LEMMA TasksOrRest ==
  ASSUME [Next]_vars
  PROVE  \/ UNCHANGED taskVars /\ (server' \in {"new", "stopped"} => server \in {"new", "stopped"})
         \/ UNCHANGED server /\ \E t \in Tasks : TaskMove(t)
         \/ UNCHANGED server /\ server = "running" /\ \E t \in Tasks : Take(t)
         \/ server' = "stopped" /\ Requeue
<1>1. CASE proc = "up" /\ (Signal \/ MonitorPings \/ Calls)
  BY <1>1 DEF Signal, MonitorPings, Calls, TaskMove, taskVars, lifeVars, handlerVars
<1>2. ASSUME NEW t \in Threads, HandlerStep(t)
      PROVE  \/ /\ UNCHANGED taskVars
                /\ server' \in {"new", "stopped"} => server \in {"new", "stopped"}
             \/ server' = "stopped" /\ Requeue
  BY <1>2 DEF HandlerStep, RunHandler, ContextEnds, StopHandler, CloseChannel, Join,
              StopServer, ShutdownServer, CloseClient, handlerVars, taskVars
<1>3. CASE New
  BY <1>3, ServerAssumption DEF New, NewStep, NewFails, NewDone, TaskMove, taskVars
<1>4. CASE Main
  BY <1>2, <1>3, <1>4 DEF Main, Threads, Begin, Selected, AppEnds, RunEnds, CallClose, Exit,
                          SignalShutdown, SignalDone, CloseChannel, handlerVars, taskVars
<1>5. CASE Side
  BY <1>2, <1>5 DEF Side, Threads
<1>6. CASE MonitorGoes \/ StarterGoes
  BY <1>6 DEF MonitorGoes, MonitorPinged, MonitorEnds, StarterGoes, StartServer, taskVars
<1>7. CASE \E t \in Tasks : TasksGo(t)
  BY <1>7 DEF TasksGo, ServerGoes, TaskMove, lifeVars, handlerVars
<1>8. CASE EngineGoes \/ WriterGoes \/ (InApp /\ (SendResult \/ MinutePasses))
  BY <1>8 DEF EngineGoes, WriterGoes, InApp, lifeVars, handlerVars
<1>9. CASE UNCHANGED vars
  BY <1>9 DEF vars, lifeVars, handlerVars
<1> QED
  BY <1>1, <1>4, <1>5, <1>6, <1>7, <1>8, <1>9 DEF Next

(* ProcessTask knows where to go with every kind that can be enqueued.     *)
LEMMA KnownRoutes ==
  ASSUME NEW k \in Kinds \cup {"check"}
  PROVE  Routes(k) \subseteq {"ok", "error", "file", "mate"}
BY ServerAssumption DEF Routes, Validate, ProcessScrapeTask, ProcessEmailTask

(* The types of one task, and what its move keeps.                         *)
TaskRecords ==
  {NoTask} \cup [kind : Kinds \cup {"check", "none"},
                 queue : ServerQueues \cup SubscriptionQueues \cup {"none"},
                 state : States]

LEMMA MovedIsTask ==
  ASSUME TasksTypeOK, NEW t \in Tasks, NEW s \in States
  PROVE  /\ Moved(t, s) \in [Tasks -> TaskRecords] \/ task[t] = NoTask
         /\ Gone(t, s) \in [Tasks -> TaskRecords]
<1>1. task \in [Tasks -> TaskRecords]
  BY DEF TasksTypeOK, TaskRecords
<1>2. [NoTask EXCEPT !.state = s] \in TaskRecords
  BY DEF NoTask, TaskRecords
<1>3. ASSUME task[t] # NoTask
      PROVE  [task[t] EXCEPT !.state = s] \in TaskRecords
  BY <1>1, <1>3 DEF TaskRecords
<1> QED
  BY <1>1, <1>2, <1>3 DEF Moved, Gone

LEMMA MovedFields ==
  ASSUME TasksTypeOK, NEW t \in Tasks, NEW s \in States, task[t] # NoTask
  PROVE  /\ Moved(t, s) \in [Tasks -> TaskRecords]
         /\ Moved(t, s)[t].state = s /\ Moved(t, s)[t].kind = task[t].kind
         /\ \A u \in Tasks \ {t} : Moved(t, s)[u] = task[u]
BY MovedIsTask DEF Moved, TasksTypeOK, TaskRecords

LEMMA OneTaskKeeps ==
  ASSUME TasksTypeOK, HandlerKnows, NEW t \in Tasks, TaskMove(t) \/ Take(t)
  PROVE  TasksTypeOK' /\ HandlerKnows'
<1> USE ServerAssumption
<1> DEFINE HandlerPlaces == {"none", "begin", "file", "mate", "crawl", "ok", "error"}
           Known(u) == /\ handler[u] # "none" => ~At(u, "none") /\ ~At(u, "completed")
                       /\ ~At(u, "none") /\ ~At(u, "completed") => task[u].kind \in Kinds \cup {"check"}
<1>t. task \in [Tasks -> TaskRecords] /\ (task[t] = NoTask <=> At(t, "none"))
  BY DEF TasksTypeOK, TaskRecords, At, NoTask, States
<1>k. Known(t)
  BY DEF HandlerKnows
(* It is enough to look at t.                                              *)
<1>s. ASSUME task' \in [Tasks -> TaskRecords], retried'[t] \in 0..MaxRetry,
             retried' = [retried EXCEPT ![t] = retried'[t]],
             handler'[t] \in HandlerPlaces, handler' = [handler EXCEPT ![t] = handler'[t]],
             \A u \in Tasks \ {t} : task'[u] = task[u], Known(t)'
      PROVE  TasksTypeOK' /\ HandlerKnows'
  <2>1. TasksTypeOK'
    BY <1>s DEF TasksTypeOK, TaskRecords
  <2>2. \A u \in Tasks \ {t} : Known(u)'
    BY <1>s DEF HandlerKnows, TasksTypeOK, At
  <2>3. HandlerKnows'
    BY <1>s, <2>2 DEF HandlerKnows
  <2> QED
    BY <2>1, <2>3
<1>r. retried[t] \in 0..MaxRetry /\ handler[t] \in HandlerPlaces
  BY DEF TasksTypeOK
<1>1. ASSUME NEW to \in HandlerPlaces, NEW from \in HandlerPlaces \ {"none"}, Go(t, from, to)
      PROVE  TasksTypeOK' /\ HandlerKnows'
  <2>1. task' = task /\ retried' = retried /\ handler'[t] = to /\ handler[t] # "none"
        /\ handler' = [handler EXCEPT ![t] = to]
    BY <1>1 DEF Go, TasksTypeOK
  <2>2. Known(t)'
    BY <2>1, <1>k DEF At
  <2> QED
    BY <1>s, <1>t, <1>r, <2>1, <2>2 DEF At, TasksTypeOK
<1>2. ASSUME ProcessTask(t)
      PROVE  TasksTypeOK' /\ HandlerKnows'
  <2>1. task[t].kind \in Kinds \cup {"check"}
    BY <1>2, <1>k DEF ProcessTask
  <2> QED
    BY <1>1, <1>2, <2>1, KnownRoutes DEF ProcessTask
<1>3. ASSUME SetupMate(t) \/ RunScraping(t) \/ StartEmailJob(t) \/ CutByTimeout(t) \/ CrawlReturns(t)
      PROVE  TasksTypeOK' /\ HandlerKnows'
  BY <1>1, <1>3 DEF SetupMate, RunScraping, StartEmailJob, CutByTimeout, CrawlReturns
(* The steps that move the task from one state of Redis to another.        *)
<1>4. ASSUME NEW s \in States \ {"completed"}, task' = Moved(t, s), task[t] # NoTask,
             ~At(t, "completed"), retried'[t] \in 0..MaxRetry,
             retried' = [retried EXCEPT ![t] = retried'[t]],
             handler'[t] \in HandlerPlaces, handler' = [handler EXCEPT ![t] = handler'[t]]
      PROVE  TasksTypeOK' /\ HandlerKnows'
  <2>1. /\ task' \in [Tasks -> TaskRecords] /\ task'[t].state = s
        /\ task'[t].kind = task[t].kind /\ \A u \in Tasks \ {t} : task'[u] = task[u]
    BY <1>4, MovedFields
  <2>2. Known(t)'
    BY <1>4, <1>k, <1>t, <2>1 DEF At, States
  <2> QED
    BY <1>4, <1>s, <2>1, <2>2
<1>5. ASSUME Failed(t), ~At(t, "none"), ~At(t, "completed"), handler'[t] \in HandlerPlaces,
             handler' = [handler EXCEPT ![t] = handler'[t]]
      PROVE  TasksTypeOK' /\ HandlerKnows'
  <2>1. /\ retried'[t] \in 0..MaxRetry /\ retried' = [retried EXCEPT ![t] = retried'[t]]
        /\ task' = Moved(t, "retry") \/ task' = Moved(t, "archived")
    BY <1>5, <1>r DEF Failed, TasksTypeOK
  <2> QED
    BY <1>5, <2>1, <1>4, <1>t DEF States
<1>6. ASSUME HandlerReturns(t)
      PROVE  TasksTypeOK' /\ HandlerKnows'
  <2>1. handler' = [handler EXCEPT ![t] = "none"] /\ handler'[t] = "none"
        /\ handler[t] \in {"ok", "error"}
    BY <1>6 DEF HandlerReturns, TasksTypeOK
  <2>2. CASE ~At(t, "active")
    <3>1. task' = task /\ retried' = retried
      BY <1>6, <2>2 DEF HandlerReturns
    <3> QED
      BY <1>s, <1>k, <1>t, <1>r, <2>1, <3>1 DEF At, TasksTypeOK
  <2>3. CASE At(t, "active") /\ handler[t] = "ok"
    <3>1. task' = Gone(t, "completed") /\ retried' = retried
      BY <1>6, <2>3 DEF HandlerReturns
    <3>2. /\ task' \in [Tasks -> TaskRecords] /\ task'[t].state = "completed"
          /\ \A u \in Tasks \ {t} : task'[u] = task[u]
      BY <1>t, <3>1, MovedIsTask DEF Gone, NoTask, States
    <3> QED
      BY <1>s, <1>r, <2>1, <3>1, <3>2 DEF At, TasksTypeOK
  <2>4. CASE At(t, "active") /\ handler[t] # "ok"
    <3>1. Failed(t)
      BY <1>6, <2>4 DEF HandlerReturns
    <3> QED
      BY <1>5, <2>1, <2>4, <3>1 DEF At
  <2> QED
    BY <2>2, <2>3, <2>4
<1>7. ASSUME RetryDue(t) \/ ArchiveTask(t) \/ DeleteTask(t)
      PROVE  TasksTypeOK' /\ HandlerKnows'
  BY <1>4, <1>7, <1>t, <1>r DEF RetryDue, ArchiveTask, DeleteTask, At, States, TasksTypeOK
<1>8. ASSUME CancelTaskProcessing(t)
      PROVE  TasksTypeOK' /\ HandlerKnows'
  <2>1. handler' = [handler EXCEPT ![t] = "ok"] /\ handler'[t] = "ok" /\ At(t, "active")
    BY <1>8 DEF CancelTaskProcessing, TasksTypeOK
  <2>2. CASE task' = task /\ retried' = retried
    BY <1>s, <1>k, <1>t, <1>r, <2>1, <2>2 DEF At, TasksTypeOK
  <2>3. CASE Failed(t)
    BY <1>5, <2>1, <2>3 DEF At
  <2> QED
    BY <1>8, <2>2, <2>3 DEF CancelTaskProcessing
<1>9. ASSUME NEW k \in Kinds \cup {"check"}, NEW q \in SubscriptionQueues \cup {"default"},
             Enqueue(t, k, q)
      PROVE  TasksTypeOK' /\ HandlerKnows'
  <2>1. [kind |-> k, queue |-> q, state |-> "pending"] \in TaskRecords
    BY DEF TaskRecords, ServerQueues, States
  <2>2. /\ task' = [task EXCEPT ![t] = [kind |-> k, queue |-> q, state |-> "pending"]]
        /\ retried' = retried /\ handler' = handler
    BY <1>9 DEF Enqueue
  <2> QED
    BY <1>s, <1>r, <1>t, <2>1, <2>2 DEF At, TasksTypeOK
<1>10. ASSUME Take(t)
       PROVE  TasksTypeOK' /\ HandlerKnows'
  BY <1>4, <1>10, <1>t, <1>r DEF Take, At, States, TasksTypeOK
<1> QED
  BY <1>2, <1>3, <1>6, <1>7, <1>8, <1>9, <1>10
     DEF TaskMove, HandlerGoes, Operation, EnqueueTask, EnqueueTaskBasedOnSubscription, EnqueueTest

(* Only Take makes a task active.                                          *)
LEMMA MoveActivatesNone ==
  ASSUME TasksTypeOK, NEW t \in Tasks, TaskMove(t), NoneActive
  PROVE  NoneActive'
<1>1. \/ UNCHANGED task
      \/ \E s \in States \ {"active"} : task' = Moved(t, s) \/ task' = Gone(t, s)
      \/ \E k \in Kinds \cup {"check"}, q \in SubscriptionQueues \cup {"default"} : Enqueue(t, k, q)
  <2>1. CASE HandlerGoes(t)
    BY <2>1 DEF HandlerGoes, ProcessTask, SetupMate, RunScraping, StartEmailJob, CutByTimeout,
                HandlerReturns, Failed, Go, States
  <2>2. CASE Operation(t)
    BY <2>2 DEF Operation, CancelTaskProcessing, ArchiveTask, DeleteTask, Failed, States
  <2>3. CASE RetryDue(t) \/ CrawlReturns(t)
    BY <2>3 DEF RetryDue, CrawlReturns, Go, States
  <2>4. CASE EnqueueTask(t) \/ EnqueueTaskBasedOnSubscription(t) \/ (t = Test /\ EnqueueTest)
    BY <2>4 DEF EnqueueTask, EnqueueTaskBasedOnSubscription, EnqueueTest
  <2> QED
    BY <2>1, <2>2, <2>3, <2>4 DEF TaskMove
<1>2. task \in [Tasks -> TaskRecords]
  BY DEF TasksTypeOK, TaskRecords
<1>3. \A u \in Tasks \ {t} : task'[u] = task[u]
  BY <1>1, <1>2 DEF Moved, Gone, Enqueue
<1>4. task'[t].state # "active"
  <2>1. task[t].state # "active"
    BY DEF NoneActive, At
  <2>2. ASSUME NEW s \in States \ {"active"}, task' = Moved(t, s)
        PROVE  task'[t].state # "active"
    BY <1>2, <2>1, <2>2, MovedFields DEF Moved, NoTask
  <2>3. ASSUME NEW s \in States \ {"active"}, task' = Gone(t, s)
        PROVE  task'[t].state # "active"
    BY <1>2, <2>3 DEF Gone, NoTask
  <2> QED
    BY <1>1, <1>2, <2>1, <2>2, <2>3 DEF Enqueue
<1> QED
  BY <1>3, <1>4 DEF NoneActive, At

LEMMA RequeueKeeps ==
  ASSUME TasksTypeOK, HandlerKnows, Requeue
  PROVE  TasksTypeOK' /\ HandlerKnows' /\ NoneActive'
<1>1. task \in [Tasks -> TaskRecords]
  BY DEF TasksTypeOK, TaskRecords
<1>2. \A t \in Tasks :
         /\ task'[t] = IF At(t, "active") THEN [task[t] EXCEPT !.state = "pending"] ELSE task[t]
         /\ task'[t] \in TaskRecords
  <2> TAKE t \in Tasks
  <2>1. task'[t] = IF At(t, "active") THEN [task[t] EXCEPT !.state = "pending"] ELSE task[t]
    BY DEF Requeue
  <2>2. At(t, "active") => task[t] # NoTask
    BY DEF At, NoTask
  <2> QED
    BY <1>1, <2>1, <2>2 DEF TaskRecords, States
<1>3. \A t \in Tasks : /\ task'[t].kind = task[t].kind
                      /\ \/ task'[t].state = task[t].state /\ task[t].state # "active"
                         \/ task'[t].state = "pending" /\ task[t].state = "active"
  BY <1>1, <1>2 DEF At, NoTask, TaskRecords
<1>4. task' \in [Tasks -> TaskRecords]
  BY <1>2 DEF Requeue
<1>5. TasksTypeOK'
  BY <1>4 DEF TasksTypeOK, TaskRecords, Requeue
<1>6. HandlerKnows' /\ NoneActive'
  BY <1>3 DEF HandlerKnows, NoneActive, At, Requeue
<1> QED
  BY <1>5, <1>6

LEMMA TasksStep ==
  ASSUME TasksTypeOK, HandlerKnows, ShutIdle, [Next]_vars
  PROVE  TasksTypeOK' /\ HandlerKnows' /\ ShutIdle'
<1>1. CASE UNCHANGED taskVars /\ (server' \in {"new", "stopped"} => server \in {"new", "stopped"})
  BY <1>1 DEF taskVars, TasksTypeOK, HandlerKnows, ShutIdle, NoneActive, At
<1>2. CASE UNCHANGED server /\ \E t \in Tasks : TaskMove(t)
  BY <1>2, OneTaskKeeps, MoveActivatesNone DEF ShutIdle
<1>3. CASE UNCHANGED server /\ server = "running" /\ \E t \in Tasks : Take(t)
  BY <1>3, OneTaskKeeps DEF ShutIdle
<1>4. CASE server' = "stopped" /\ Requeue
  BY <1>4, RequeueKeeps DEF ShutIdle
<1> QED
  BY <1>1, <1>2, <1>3, <1>4, TasksOrRest

(***************************************************************************)
(* main, the goroutine beside it, and what they start.                     *)
(***************************************************************************)
BoolTypeOK == redis \in BOOLEAN /\ runError \in BOOLEAN /\ errChan \in BOOLEAN /\ late \in BOOLEAN
ControlTypeOK ==
    /\ mode \in Modes /\ made \in 0..10
    /\ proc \in {"up", "exit0", "exit1", "panic", "crash"}
    /\ phase \in {"new", "run", "close"} /\ pc \in [Threads -> Places]
    /\ channels \subseteq {"shutdown", "done", "stop"}
    /\ monitor \in {"off", "waiting", "pinging", "ended"}
    /\ starter \in {"off", "on", "ended"} /\ server \in {"new", "running", "stopping", "stopped"}
    /\ client \in {"none", "open", "closed"}

(* The longest constructor is that of the grpc runner with Redis.          *)
LEMMA ShortSequences ==
  ASSUME NEW S, NEW x \in S, NEW y \in S
  PROVE  /\ <<>> \in Seq(S) /\ <<x>> \in Seq(S) /\ <<x, y>> \in Seq(S)
         /\ Len(<<>>) = 0 /\ Len(<<x>>) = 1 /\ Len(<<x, y>>) = 2
OBVIOUS

LEMMA ConstructorLength == Len(Constructor) \in 0..10
<1> DEFINE Steps == {"config", "enqueue", "ping", "instrumentation", "postgres", "operations",
                     "logger", "health", "entry", "service", "connection", "engine", "input",
                     "writers"}
           Fits(s, n) == s \in Seq(Steps) /\ Len(s) <= n
<1>1. ASSUME NEW x \in Steps, NEW y \in Steps
      PROVE  Fits(<<>>, 3) /\ Fits(<<x>>, 1) /\ Fits(<<x, y>>, 2)
  BY ShortSequences
<1>2. ASSUME NEW m \in Nat, NEW n \in Nat, NEW k, k = m + n, NEW s, NEW q, Fits(s, m), Fits(q, n)
      PROVE  Fits(s \o q, k)
  <2>1. s \o q \in Seq(Steps) /\ Len(s \o q) = Len(s) + Len(q)
    BY <1>2, ConcatProperties, Zenon
  <2>2. Len(s) \in Nat /\ Len(q) \in Nat
    BY <1>2, LenProperties, Zenon
  <2> QED
    BY <1>2, <2>1, <2>2
<1> HIDE DEF Fits
<1>3. Fits(ComponentsNew, 3)
  <2>1. Fits(RedisConfigNew, 1) /\ Fits(ClientNew, 2)
    BY <1>1 DEF RedisConfigNew, ClientNew
  <2> HIDE DEF Steps
  <2> QED
    BY <1>2, <2>1 DEF ComponentsNew
<1>4. Fits(HandlerNew, 3)
  BY <1>1, <1>3 DEF HandlerNew
<1>5. Fits(CoreNew, 3)
  <2>1. Fits(InstrumentationNew, 1) /\ Fits(<<"postgres", "operations">>, 2)
    BY <1>1 DEF InstrumentationNew
  <2> HIDE DEF Steps
  <2> QED
    BY <1>2, <2>1 DEF CoreNew
<1>6. Fits(<<"logger">>, 1) /\ Fits(<<"health", "entry">>, 2) /\ Fits(<<"service">>, 1)
  BY <1>1
<1>7. Fits(GRPCNew, 10)
  <2> HIDE DEF Steps
  <2>1. Fits(<<"logger">> \o HandlerNew, 4)
    BY <1>2, <1>4, <1>6
  <2>2. Fits(<<"logger">> \o HandlerNew \o <<"health", "entry">>, 6)
    BY <1>2, <1>6, <2>1
  <2>3. Fits(<<"logger">> \o HandlerNew \o <<"health", "entry">> \o CoreNew, 9)
    BY <1>2, <1>5, <2>2
  <2> QED
    BY <1>2, <1>6, <2>3 DEF GRPCNew
<1>8. Fits(WorkerNew, 7)
  <2> HIDE DEF Steps
  <2>1. Fits(<<"logger">> \o HandlerNew, 4)
    BY <1>2, <1>4, <1>6
  <2> QED
    BY <1>2, <1>5, <2>1 DEF WorkerNew
<1>9. Fits(SetInput, 1) /\ Fits(SetWriters, 1) /\ Fits(SetApp, 1) /\ Fits(DatabaseNew, 2)
  <2>1. Fits(SetInput, 1) /\ Fits(SetWriters, 1) /\ Fits(SetApp, 1)
    BY <1>1 DEF SetInput, SetWriters, SetApp
  <2>2. Fits(<<"connection">>, 1) /\ Fits(<<"connection", "engine">>, 2)
    BY <1>1
  <2>3. Fits(<<"connection">>, 2)
    BY <2>2 DEF Fits
  <2> QED
    BY <2>1, <2>2, <2>3 DEF DatabaseNew
<1>10. Fits(FileNew, 3)
  <2> HIDE DEF Steps
  <2>1. Fits(SetInput \o SetWriters, 2)
    BY <1>2, <1>9
  <2> QED
    BY <1>2, <1>9, <2>1 DEF FileNew
<1>11. \E n \in 0..10 : Fits(Constructor, n)
  BY <1>7, <1>8, <1>9, <1>10 DEF Constructor
<1>12. ASSUME NEW s, NEW n \in 0..10, Fits(s, n)
       PROVE  Len(s) \in 0..10
  <2>1. Len(s) \in Nat /\ Len(s) <= n
    BY <1>12, LenProperties, Zenon DEF Fits
  <2>2. \A k \in Nat : k <= n => k \in 0..10
    OBVIOUS
  <2> QED
    BY <2>1, <2>2, Zenon
<1> QED
  BY <1>11, <1>12, Zenon

LEMMA MadeBound ==
  ASSUME made \in 0..10, made < Len(Constructor)
  PROVE  made + 1 \in 0..10
<1> DEFINE n == Len(Constructor)
<1>1. n \in 0..10 /\ made < n
  BY ConstructorLength
<1> HIDE DEF n
<1> QED
  BY <1>1

LEMMA ControlInit ==
  ASSUME Init
  PROVE  ControlTypeOK /\ CloseInv /\ DatabaseInv
<1>1. pc = [t \in Threads |-> IF t = "main" THEN "new" ELSE "off"]
  BY DEF Init
<1>2. redis \in BOOLEAN
  BY DEF Init
<1>3. ControlTypeOK
  BY <1>1, <1>2 DEF Init, ControlTypeOK, Threads, Places
<1>4. NoneActive
  BY DEF Init, TasksInit, NoneActive, At, NoTask
<1> QED
  BY <1>1, <1>3, <1>4 DEF Init, CloseInv, Closing, StopClosed, NoPing, ServerShut, ShutIdle, DatabaseInv, Threads

LEMMA CloseChannelTypes ==
  ASSUME ControlTypeOK, NEW t \in Threads, NEW c \in {"shutdown", "done", "stop"}, NEW from, NEW to \in Places,
         CloseChannel(t, c, from, to)
  PROVE  ControlTypeOK'
<1>1. CASE Panics(t) /\ UNCHANGED channels
  BY <1>1 DEF CloseChannel, Panics, ControlTypeOK, Threads, Places, config, mainVars, handlerVars
<1>2. CASE channels' = channels \cup {c}
  BY <1>2 DEF CloseChannel, Panics, ControlTypeOK, Threads, Places, config, mainVars, handlerVars
<1> QED
  BY <1>1, <1>2 DEF CloseChannel

LEMMA HandlerTypes ==
  ASSUME ControlTypeOK, NEW t \in Threads, HandlerStep(t)
  PROVE  ControlTypeOK'
<1> USE DEF ControlTypeOK, Threads, Places, Jump, config, mainVars, handlerVars
<1>1. CASE RunHandler(t)
  BY <1>1 DEF RunHandler
<1>2. CASE ContextEnds(t)
  BY <1>2 DEF ContextEnds
<1>3. CASE StopHandler(t)
  BY <1>3, CloseChannelTypes DEF StopHandler
<1>4. CASE Join(t)
  BY <1>4 DEF Join
<1>5. CASE StopServer(t)
  BY <1>5 DEF StopServer
<1>6. CASE ShutdownServer(t)
  BY <1>6 DEF ShutdownServer
<1>7. CASE CloseClient(t)
  BY <1>7 DEF CloseClient, AfterClose
<1> QED
  BY <1>1, <1>2, <1>3, <1>4, <1>5, <1>6, <1>7 DEF HandlerStep

LEMMA MainTypes ==
  ASSUME ControlTypeOK, Main
  PROVE  ControlTypeOK'
<1> USE DEF ControlTypeOK, Threads, Places, Jump, config, mainVars, handlerVars
<1>1. CASE New
  <2>1. made < Len(Constructor) => made + 1 \in 0..10
    BY MadeBound
  <2>2. CASE made < Len(Constructor) /\ NewStep(Constructor[made + 1])
    BY <1>1, <2>1, <2>2 DEF New, NewStep
  <2>3. CASE NewFails(Constructor[made + 1])
    BY <1>1, <2>3 DEF New, NewFails
  <2>4. CASE NewDone
    BY <1>1, <2>4 DEF New, NewDone
  <2> QED
    BY <1>1, <2>2, <2>3, <2>4 DEF New
<1>2. CASE Begin
  <2>1. pc' \in [Threads -> Places]
    BY <1>2 DEF Begin
  <2> QED
    BY <1>2, <2>1 DEF Begin
<1>3. CASE Selected
  BY <1>3 DEF Selected, AfterSelect
<1>4. CASE AppEnds \/ RunEnds
  <2>1. pc' = [pc EXCEPT !["main"] = "returned"]
    BY <1>4 DEF AppEnds, RunEnds
  <2>2. UNCHANGED <<config, proc, phase, channels, handlerVars>>
    BY <1>4 DEF AppEnds, RunEnds
  <2> QED
    BY <2>1, <2>2
<1>5. CASE CallClose
  BY <1>5 DEF CallClose, AfterRun
<1>6. CASE Exit
  BY <1>6 DEF Exit
<1>7. CASE SignalShutdown \/ SignalDone
  BY <1>7, CloseChannelTypes DEF SignalShutdown, SignalDone
<1>8. CASE HandlerStep("main")
  BY <1>8, HandlerTypes
<1> QED
  BY <1>1, <1>2, <1>3, <1>4, <1>5, <1>6, <1>7, <1>8 DEF Main

LEMMA ControlTypes ==
  ASSUME ControlTypeOK, [Next]_vars
  PROVE  ControlTypeOK'
<1> USE DEF ControlTypeOK, config, mainVars, handlerVars, lifeVars
<1>1. CASE proc = "up" /\ (Signal \/ MonitorPings \/ Calls)
  BY <1>1 DEF Signal, MonitorPings, Calls
<1>2. CASE Main
  BY <1>2, MainTypes
<1>3. CASE Side
  BY <1>3, HandlerTypes DEF Side, Threads
<1>4. CASE MonitorGoes
  BY <1>4 DEF MonitorGoes, MonitorPinged, MonitorEnds
<1>5. CASE StarterGoes
  BY <1>5 DEF StarterGoes, StartServer, AfterStart
<1>6. CASE \E t \in Tasks : TasksGo(t)
  BY <1>6 DEF TasksGo
<1>7. CASE EngineGoes \/ WriterGoes \/ (InApp /\ (SendResult \/ MinutePasses))
  <2>1. InApp
    BY <1>7 DEF EngineGoes, WriterGoes
  <2>2. UNCHANGED lifeVars
    BY <2>1 DEF InApp
  <2> QED
    BY <2>2
<1>8. CASE UNCHANGED vars
  BY <1>8 DEF vars
<1> QED
  BY <1>1, <1>2, <1>3, <1>4, <1>5, <1>6, <1>7, <1>8 DEF Next

LEMMA BoolTypes ==
  ASSUME BoolTypeOK, [Next]_vars
  PROVE  BoolTypeOK'
<1> USE DEF BoolTypeOK, config, mainVars, handlerVars, lifeVars
<1>1. CASE proc = "up" /\ (Signal \/ MonitorPings \/ Calls)
  BY <1>1 DEF Signal, MonitorPings, Calls
<1>2. ASSUME NEW t, NEW c, NEW from, NEW to, CloseChannel(t, c, from, to)
      PROVE  BoolTypeOK'
  BY <1>2 DEF CloseChannel, Panics
<1>3. ASSUME NEW t, HandlerStep(t)
      PROVE  BoolTypeOK'
  BY <1>2, <1>3 DEF HandlerStep, RunHandler, ContextEnds, StopHandler, Join, StopServer,
                    ShutdownServer, CloseClient
<1>4. CASE New \/ Begin
  BY <1>4 DEF New, Begin
<1>5. CASE Selected \/ CallClose \/ Exit
  BY <1>5 DEF Selected, CallClose, Exit
<1>6. CASE AppEnds \/ RunEnds
  <2>1. runError' \in BOOLEAN
    BY <1>6 DEF AppEnds, RunEnds
  <2> QED
    BY <1>6, <2>1 DEF AppEnds, RunEnds
<1>7. CASE Main
  BY <1>2, <1>3, <1>4, <1>5, <1>6, <1>7 DEF Main, SignalShutdown, SignalDone
<1>8. CASE Side
  BY <1>3, <1>8 DEF Side
<1>9. CASE MonitorGoes
  BY <1>9 DEF MonitorGoes, MonitorPinged, MonitorEnds
<1>10. CASE StarterGoes
  <2>1. ("stop" \in channels) \in BOOLEAN
    OBVIOUS
  <2> QED
    BY <1>10, <2>1, Zenon DEF StarterGoes, StartServer
<1>11. CASE \E t \in Tasks : TasksGo(t)
  BY <1>11 DEF TasksGo
<1>12. CASE EngineGoes \/ WriterGoes \/ (InApp /\ (SendResult \/ MinutePasses))
  BY <1>12 DEF EngineGoes, WriterGoes, InApp
<1>13. CASE UNCHANGED vars
  BY <1>13 DEF vars
<1> QED
  BY <1>1, <1>7, <1>8, <1>9, <1>10, <1>11, <1>12, <1>13 DEF Next

(***************************************************************************)
(* Close, and the database mode.                                           *)
(***************************************************************************)
LEMMA CloseInvThread ==
  ASSUME ControlTypeOK, CloseInv, NEW t \in Threads, HandlerStep(t)
  PROVE  StopClosed' /\ NoPing' /\ ServerShut'
<1> USE DEF ControlTypeOK, Threads, CloseInv, StopClosed, NoPing, ServerShut, Closing
<1>1. CASE RunHandler(t)
  BY <1>1 DEF RunHandler, Jump
<1>2. CASE ContextEnds(t)
  BY <1>2 DEF ContextEnds, Jump, handlerVars
<1>3. CASE StopHandler(t)
  <2>1. CASE Panics(t) /\ UNCHANGED channels
    BY <1>3, <2>1 DEF StopHandler, CloseChannel, Panics, handlerVars
  <2>2. CASE channels' = channels \cup {"stop"} /\ pc' = [pc EXCEPT ![t] = "join"]
    BY <1>3, <2>2 DEF StopHandler, CloseChannel, handlerVars
  <2> QED
    BY <1>3, <2>1, <2>2 DEF StopHandler, CloseChannel
<1>4. CASE Join(t)
  BY <1>4 DEF Join, Jump, AllEnded, handlerVars
<1>5. CASE StopServer(t)
  BY <1>5 DEF StopServer
<1>6. CASE ShutdownServer(t)
  BY <1>6 DEF ShutdownServer, Jump
<1>7. CASE CloseClient(t)
  BY <1>7 DEF CloseClient, Jump, AfterClose
<1> QED
  BY <1>1, <1>2, <1>3, <1>4, <1>5, <1>6, <1>7 DEF HandlerStep

LEMMA CloseInvStep ==
  ASSUME ControlTypeOK, CloseInv, [Next]_vars
  PROVE  StopClosed' /\ NoPing' /\ ServerShut'
<1> USE DEF ControlTypeOK, Threads, CloseInv, StopClosed, NoPing, ServerShut, Closing
<1>1. CASE proc = "up" /\ Signal
  BY <1>1 DEF Signal, lifeVars, handlerVars
<1>2. CASE proc = "up" /\ Calls
  BY <1>2 DEF Calls, lifeVars, handlerVars
<1>3. CASE proc = "up" /\ MonitorPings
  BY <1>3 DEF MonitorPings
<1>4. CASE New
  BY <1>4 DEF New, NewStep, NewFails, NewDone, Jump
<1>5. CASE Begin
  <2>1. \A t \in Threads : pc'[t] \notin {"join", "server", "client"} \/ pc'[t] = pc[t]
    BY <1>5 DEF Begin
  <2> QED
    BY <1>5, <2>1 DEF Begin, handlerVars
<1>6. CASE Selected \/ AppEnds \/ RunEnds \/ CallClose
  BY <1>6 DEF Selected, AppEnds, RunEnds, CallClose, Jump, AfterSelect, AfterRun, handlerVars
<1>7. CASE Exit
  BY <1>7 DEF Exit, handlerVars
<1>8. CASE SignalShutdown \/ SignalDone
  BY <1>8 DEF SignalShutdown, SignalDone, CloseChannel, Panics, handlerVars
<1>9. CASE Main
  BY <1>4, <1>5, <1>6, <1>7, <1>8, <1>9, CloseInvThread DEF Main
<1>10. CASE Side
  BY <1>10, CloseInvThread DEF Side
<1>11. CASE MonitorGoes
  BY <1>11 DEF MonitorGoes, MonitorPinged, MonitorEnds
<1>12. CASE StarterGoes
  <2>1. UNCHANGED <<pc, channels, monitor, client>>
    BY <1>12 DEF StarterGoes, StartServer
  <2>2. \/ UNCHANGED <<server, late>>
        \/ "stop" \in channels => late'
    BY <1>12, Zenon DEF StarterGoes, StartServer
  <2> QED
    BY <2>1, <2>2
<1>13. CASE \E t \in Tasks : TasksGo(t)
  BY <1>13 DEF TasksGo, lifeVars, handlerVars
<1>14. CASE EngineGoes \/ WriterGoes \/ (InApp /\ (SendResult \/ MinutePasses))
  BY <1>14 DEF EngineGoes, WriterGoes, InApp, lifeVars, handlerVars
<1>15. CASE UNCHANGED vars
  BY <1>15 DEF vars, lifeVars, handlerVars
<1> QED
  BY <1>1, <1>2, <1>3, <1>9, <1>10, <1>11, <1>12, <1>13, <1>14, <1>15 DEF Next

LEMMA DatabaseStep ==
  ASSUME ControlTypeOK, DatabaseInv, [Next]_vars
  PROVE  DatabaseInv'
<1> SUFFICES ASSUME mode' = "database"
             PROVE  DatabaseInv'
  BY DEF DatabaseInv
<1> USE DEF ControlTypeOK, Threads, DatabaseInv, Jump, config, mainVars, lifeVars
<1> DEFINE Same == UNCHANGED <<mode, pc, runError, proc, wpc>>
<1>0. Same => DatabaseInv'
  OBVIOUS
<1>1. CASE proc = "up" /\ (Signal \/ MonitorPings \/ Calls)
  BY <1>0, <1>1 DEF Signal, MonitorPings, Calls, EngineIdle, resultVars, writerVars
<1>2. ASSUME NEW t \in Threads, HandlerStep(t)
      PROVE  FALSE
  <2>1. mode = "database"
    BY <1>2 DEF HandlerStep, RunHandler, ContextEnds, StopHandler, CloseChannel, Join, StopServer,
                ShutdownServer, CloseClient
  <2>2. pc[t] \in {"new", "begin", "app", "returned", "off"}
    BY <2>1
  <2> QED
    BY <1>2, <2>2 DEF HandlerStep, RunHandler, ContextEnds, StopHandler, CloseChannel, Join,
                      StopServer, ShutdownServer, CloseClient
<1>3. CASE Main
  <2>1. CASE New
    BY <2>1 DEF New, NewStep, NewFails, NewDone, EngineIdle, resultVars, writerVars
  <2>2. CASE Begin
    <3>1. mode = "database" /\ pc' = [pc EXCEPT !["main"] = "app"]
      BY <2>2 DEF Begin
    <3> QED
      BY <2>2, <3>1 DEF Begin, EngineIdle, resultVars, writerVars
  <2>3. CASE AppEnds
    <3>1. pc' = [pc EXCEPT !["main"] = "returned"] /\ (~runError' => wpc = "ended")
      BY <2>3 DEF AppEnds, WriterReturned
    <3> QED
      BY <2>3, <3>1 DEF AppEnds, EngineIdle, resultVars, writerVars
  <2>4. CASE CallClose
    BY <2>4 DEF CallClose, AfterRun, EngineIdle, resultVars, writerVars
  <2>5. CASE Exit
    BY <2>5 DEF Exit, EngineIdle, resultVars, writerVars
  <2>6. CASE Selected \/ RunEnds \/ SignalShutdown \/ SignalDone
    <3>1. mode = "database"
      BY <2>6 DEF Selected, RunEnds, SignalShutdown, SignalDone, CloseChannel
    <3> QED
      BY <2>6, <3>1 DEF Selected, RunEnds, SignalShutdown, SignalDone, CloseChannel
  <2> QED
    BY <1>2, <1>3, <2>1, <2>2, <2>3, <2>4, <2>5, <2>6 DEF Main
<1>4. CASE Side
  BY <1>2, <1>4 DEF Side
<1>5. CASE MonitorGoes \/ StarterGoes
  BY <1>0, <1>5 DEF MonitorGoes, MonitorPinged, MonitorEnds, StarterGoes, StartServer, EngineIdle,
                    resultVars, writerVars
<1>6. CASE \E t \in Tasks : TasksGo(t)
  BY <1>0, <1>6 DEF TasksGo, resultVars, writerVars
<1>7. CASE EngineGoes \/ WriterGoes \/ (InApp /\ (SendResult \/ MinutePasses))
  BY <1>7 DEF EngineGoes, WriterGoes, InApp
<1>8. CASE UNCHANGED vars
  BY <1>0, <1>8 DEF vars, resultVars, writerVars
<1> QED
  BY <1>1, <1>3, <1>4, <1>5, <1>6, <1>7, <1>8 DEF Next

(***************************************************************************)
(* The theorems.                                                           *)
(***************************************************************************)
LifecycleInv ==
    /\ ResultsTypeOK /\ WriterInv
    /\ TasksTypeOK /\ HandlerKnows
    /\ ControlTypeOK /\ BoolTypeOK /\ CloseInv /\ DatabaseInv

LEMMA LifecycleInvHolds == Spec => []LifecycleInv
<1>1. Init => LifecycleInv
  <2> SUFFICES ASSUME Init PROVE LifecycleInv
    OBVIOUS
  <2>1. TasksTypeOK /\ HandlerKnows
    BY ServerAssumption DEF Init, TasksInit, TasksTypeOK, HandlerKnows, At, NoTask
  <2>2. BoolTypeOK
    <3>1. redis \in BOOLEAN
      BY DEF Init
    <3> QED
      BY <3>1, Zenon DEF Init, BoolTypeOK
  <2> QED
    BY <2>1, <2>2, WriterInit, ControlInit DEF Init, LifecycleInv
<1>2. LifecycleInv /\ [Next]_vars => LifecycleInv'
  <2> SUFFICES ASSUME LifecycleInv, [Next]_vars PROVE LifecycleInv'
    OBVIOUS
  <2> QED
    BY WriterStepKeeps, TasksStep, ControlTypes, BoolTypes, CloseInvStep, DatabaseStep
       DEF LifecycleInv, CloseInv
<1> QED
  BY <1>1, <1>2, PTL DEF Spec

(* Every variable of the process, its writer and its tasks keeps its type. *)
THEOREM LifecycleTyped == Spec => []TypeOK
<1>1. LifecycleInv => TypeOK
  BY DEF LifecycleInv, ControlTypeOK, BoolTypeOK, TypeOK
<1> QED
  BY <1>1, LifecycleInvHolds, PTL

(* However flushes by size, by time and at the end of the channel follow   *)
(* each other, in whatever mode, no result is stored twice.                *)
THEOREM LifecycleSavedOnce == Spec => []SavedOnce
<1>1. LifecycleInv => SavedOnce
  BY DEF LifecycleInv, WriterInv
<1> QED
  BY <1>1, LifecycleInvHolds, PTL

(* An exit code of 0 in database mode: whatever was received is stored.    *)
THEOREM LifecycleZeroMeansSaved == Spec => []ZeroMeansSaved
<1>1. LifecycleInv => ZeroMeansSaved
  <2> SUFFICES ASSUME LifecycleInv, mode = "database", proc = "exit0", NEW r \in Received
               PROVE  saves[r] = 1
    BY DEF ZeroMeansSaved
  <2>1. wpc = "ended"
    BY DEF LifecycleInv, DatabaseInv
  <2>2. saves[r] > 0
    BY <2>1 DEF LifecycleInv, WriterInv, ReceivedKept
  <2>3. saves[r] \in 0..3 /\ saves[r] <= 1
    BY DEF LifecycleInv, WriterInv, SavedOnce, ResultsTypeOK, Received
  <2> QED
    BY <2>2, <2>3
<1> QED
  BY <1>1, LifecycleInvHolds, PTL

(* The client is the last to be closed, in every interleaving of main, the *)
(* goroutine beside it, the monitor, the starter and the server.           *)
THEOREM LifecycleClosedLast == Spec => []ClosedLast
<1>1. LifecycleInv => ClosedLast
  BY DEF LifecycleInv, CloseInv, NoPing, ServerShut, ShutIdle, Closing, ClosedLast
<1> QED
  BY <1>1, LifecycleInvHolds, PTL
================================================================================
