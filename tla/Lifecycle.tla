------------------------------- MODULE Lifecycle -------------------------------
(* The life of a process: main.go reads its flags, creates the runner of its  *)
(* mode, runs it until a signal cancels the context, closes it and exits.     *)
(*                                                                            *)
(* "worker" and "grpc" run the task handler (taskhandler.go) in a goroutine   *)
(* of their own, called side here, and wait beside it; a worker without Redis *)
(* has no handler. "database" runs the engine with its result writer; the     *)
(* lead writer, which no runner creates, is put in the same place. "file" and *)
(* "produce" run a crawl or push its seeds, and return. The handler starts    *)
(* the asynq server and a health monitor; its Close waits for both and closes *)
(* the components of Redis: the server, then the client.                      *)
(*                                                                            *)
(* Left out: the web and lambda modes, the background operations of the       *)
(* worker, which nothing registers, the New Relic clients, loggers and        *)
(* metrics, which end by their own timeouts, and the mutex of the grpc        *)
(* runner, which only main takes. No flag selects the redis runner.           *)
(*                                                                            *)
(* An operation on a channel that is closed already panics. A panic that no   *)
(* deferred function of its goroutine recovers ends the process.              *)
EXTENDS ResultWriter, TaskServer, Sequences

CONSTANT Modes   \* the modes of the processes that start
ASSUME ModesAssumption == Modes \subseteq {"worker", "grpc", "database", "file", "produce"}

VARIABLES
    mode, redis, \* what ParseConfig read: the mode, and whether Redis is enabled
    made,      \* how many steps of the constructor have been done
    proc,      \* "up", or how the process ended: "exit0", "exit1", "panic", or
               \* "crash": a nil pointer was followed
    phase,     \* what main calls: "new", "run" or "close"
    pc,        \* where main and side are
    runError,  \* Run returned an error
    errChan,   \* a message in the channel of the worker's errors
    channels,  \* the channels that are closed: "shutdown" and "done" of the
               \* runner, "stop" of the handler
    monitor,   \* the health monitor: "off", "waiting", "pinging", "ended"
    starter,   \* the goroutine that starts the server: "off", "on", "ended"
    server,    \* asynq's server: "new", "running", "stopping", "stopped"
    late,      \* it was started although the handler had been closed
    client     \* the Redis client: "none", "open", "closed"
config == <<mode, redis, made>>
mainVars == <<phase, runError>>
handlerVars == <<monitor, starter, server, late, client>>
lifeVars == <<config, proc, mainVars, pc, errChan, channels, handlerVars>>
vars == <<ctx, writer, resultVars, taskVars, lifeVars>>

Threads == {"main", "side"}
Places == {"new", "begin", "select", "signal", "running", "wait", "stop", "join",
           "server", "client", "done", "app", "crawl", "returned", "off", "ended"}

TypeOK ==
    /\ ResultsTypeOK
    /\ TasksTypeOK
    /\ mode \in Modes /\ redis \in BOOLEAN /\ made \in 0..10
    /\ proc \in {"up", "exit0", "exit1", "panic", "crash"}
    /\ phase \in {"new", "run", "close"} /\ pc \in [Threads -> Places]
    /\ runError \in BOOLEAN /\ errChan \in BOOLEAN
    /\ channels \subseteq {"shutdown", "done", "stop"}
    /\ monitor \in {"off", "waiting", "pinging", "ended"}
    /\ starter \in {"off", "on", "ended"} /\ server \in {"new", "running", "stopping", "stopped"}
    /\ late \in BOOLEAN /\ client \in {"none", "open", "closed"}

(* ParseConfig: the mode that the flags which are set select. -web selects the *)
(* web mode only together with -redis-enabled.                                *)
Flags == {"grpc", "aws-lambda-invoker", "aws-lambda", "worker", "redis-enabled",
          "web", "dsn", "produce", "input"}
RunMode(f) ==
    IF "grpc" \in f THEN "grpc"
    ELSE IF "aws-lambda-invoker" \in f THEN "invoker"
    ELSE IF "aws-lambda" \in f THEN "lambda"
    ELSE IF "worker" \in f THEN "worker"
    ELSE IF "redis-enabled" \in f /\ ("web" \in f \/ f \cap {"dsn", "input"} = {})
         THEN "web"
    ELSE IF "dsn" \notin f THEN "file"
    ELSE IF "produce" \in f THEN "produce" ELSE "database"

Init ==
    /\ ResultsInit /\ TasksInit /\ ctx = "live"
    /\ \E f \in SUBSET Flags : mode = RunMode(f) /\ redis = ("redis-enabled" \in f)
    /\ mode \in Modes
    /\ mode # "database" => writer = CHOOSE w \in Writers : TRUE  \* it has none
    /\ made = 0
    /\ proc = "up" /\ phase = "new" /\ runError = FALSE
    /\ pc = [t \in Threads |-> IF t = "main" THEN "new" ELSE "off"]
    /\ errChan = FALSE /\ channels = {}
    /\ monitor = "off" /\ starter = "off" /\ server = "new" /\ late = FALSE
    /\ client = "none"

Jump(t, from, to) == pc[t] = from /\ pc' = [pc EXCEPT ![t] = to]
HasHandler == redis /\ mode \in {"worker", "grpc"}
EngineIdle == UNCHANGED <<ctx, writer, resultVars>>
-----------------------------------------------------------------------------
(* Panics.                                                                    *)
(* Run of the grpc runner recovers in main and returns nil; the goroutine of  *)
(* the worker recovers and reports an error.                                  *)
Panics(t) ==
    CASE mode = "grpc" /\ t = "main" /\ phase = "run" ->
            pc' = [pc EXCEPT !["main"] = "returned"] /\ UNCHANGED <<proc, errChan>>
      [] mode = "worker" /\ t = "side" ->
            /\ pc' = [pc EXCEPT !["side"] = "ended"] /\ errChan' = TRUE
            /\ UNCHANGED proc
      [] OTHER -> proc' = "panic" /\ UNCHANGED <<pc, errChan>>

(* close(c) in thread t, which goes on at the place to.                       *)
CloseChannel(t, c, from, to) ==
    /\ pc[t] = from
    /\ IF c \in channels
       THEN Panics(t) /\ UNCHANGED channels
       ELSE /\ channels' = channels \cup {c}
            /\ pc' = [pc EXCEPT ![t] = to]
            /\ UNCHANGED <<proc, errChan>>
    /\ EngineIdle /\ UNCHANGED <<taskVars, config, mainVars, handlerVars>>
-----------------------------------------------------------------------------
(* main.                                                                      *)
Signal ==
    /\ ctx = "live"
    /\ ctx' = "cancelled"
    /\ UNCHANGED <<writer, resultVars, taskVars, lifeVars>>

(* The constructors, as the steps that can fail or be seen.                   *)
(* NewRedisConfig: a value of the environment is malformed or out of range.   *)
RedisConfigNew == <<"config">>
(* NewClient tests its two connections and closes all four when one fails.    *)
ClientNew == <<"enqueue", "ping">>
ComponentsNew == RedisConfigNew \o ClientNew
HandlerNew == IF redis THEN ComponentsNew ELSE <<>>

InstrumentationNew == <<"instrumentation">>
CoreNew == InstrumentationNew \o <<"postgres", "operations">>
GRPCNew == <<"logger">> \o HandlerNew \o <<"health", "entry">> \o CoreNew \o <<"service">>
WorkerNew == <<"logger">> \o HandlerNew \o CoreNew
DatabaseNew == IF mode = "produce" THEN <<"connection">> ELSE <<"connection", "engine">>

SetInput == <<"input">>
SetWriters == <<"writers">>
SetApp == <<"engine">>
FileNew == SetInput \o SetWriters \o SetApp

(* runnerFactory.                                                             *)
Constructor ==
    CASE mode = "grpc"   -> GRPCNew
      [] mode = "worker" -> WorkerNew
      [] mode = "file"   -> FileNew
      [] OTHER           -> DatabaseNew

(* One step. The health checker of the grpc runner asks the handler for its   *)
(* client, although there is no handler without Redis.                        *)
NewStep(s) ==
    /\ made' = made + 1
    /\ proc' = IF s = "health" /\ ~redis THEN "crash" ELSE "up"
    /\ client' = IF s = "ping" THEN "open" ELSE client
    /\ IF s = "enqueue" THEN EnqueueTest ELSE UNCHANGED taskVars
    /\ UNCHANGED <<phase, pc>>
NewFails(s) ==
    /\ s # "health"
    /\ proc' = "exit1"
    /\ UNCHANGED <<taskVars, made, phase, pc, client>>
NewDone ==
    /\ Jump("main", "new", "begin") /\ phase' = "run"
    /\ UNCHANGED <<taskVars, made, proc, client>>

New ==
    /\ pc["main"] = "new"
    /\ IF made < Len(Constructor)
       THEN NewStep(Constructor[made + 1]) \/ NewFails(Constructor[made + 1])
       ELSE NewDone
    /\ EngineIdle
    /\ UNCHANGED <<mode, redis, runError, errChan, channels, monitor, starter, server, late>>

(* Run of the runner.                                                         *)
Begin ==
    /\ pc["main"] = "begin" /\ phase = "run"
    /\ pc' = CASE mode \in {"worker", "grpc"} ->
                    [main |-> "select", side |-> IF redis THEN "running" ELSE "wait"]
               [] mode = "database" -> [pc EXCEPT !["main"] = "app"]
               [] OTHER             -> [pc EXCEPT !["main"] = "crawl"]
    /\ EngineIdle
    /\ UNCHANGED <<taskVars, config, proc, mainVars, errChan, channels, handlerVars>>

(* A crawl into a file ends by its exit monitor, and a producer once it has   *)
(* pushed its seeds; both end early when the context does.                    *)
RunEnds ==
    /\ Jump("main", "crawl", "returned")
    /\ runError' \in BOOLEAN
    /\ EngineIdle
    /\ UNCHANGED <<taskVars, config, proc, phase, errChan, channels, handlerVars>>

(* performShutdown of the worker closes the shutdown channel first; that of   *)
(* the grpc runner leaves it to Close.                                        *)
AfterSelect == IF mode = "grpc" THEN "stop" ELSE "signal"

Selected ==
    /\ \/ ctx = "cancelled" /\ Jump("main", "select", AfterSelect)
          /\ UNCHANGED <<errChan, runError>>
       \/ errChan /\ errChan' = FALSE /\ runError' = TRUE /\ Jump("main", "select", "returned")
    /\ EngineIdle /\ UNCHANGED <<taskVars, config, proc, phase, channels, handlerVars>>

AppEnds ==
    /\ closed /\ WriterReturned
    /\ Jump("main", "app", "returned")
    /\ runError' \in {e \in BOOLEAN : wpc = "failed" => e}
    /\ EngineIdle /\ UNCHANGED <<taskVars, config, proc, phase, errChan, channels, handlerVars>>

(* Run has returned and main calls Close.                                     *)
AfterRun == IF mode \in {"worker", "grpc"} THEN "signal" ELSE "returned"
CallClose ==
    /\ phase = "run" /\ phase' = "close"
    /\ Jump("main", "returned", AfterRun)
    /\ EngineIdle /\ UNCHANGED <<taskVars, config, proc, runError, errChan, channels, handlerVars>>

Exit ==
    /\ phase = "close" /\ pc["main"] = "returned"
    /\ proc' = IF runError THEN "exit1" ELSE "exit0"
    /\ EngineIdle /\ UNCHANGED <<taskVars, config, mainVars, pc, errChan, channels, handlerVars>>

(* The channels of the runner.                                                *)
SignalShutdown ==
    CloseChannel("main", "shutdown", "signal", IF HasHandler THEN "stop" ELSE "done")
SignalDone == CloseChannel("main", "done", "done", "returned")
-----------------------------------------------------------------------------
(* The task handler. Run starts the monitor and the starter of the server,    *)
(* waits for the context and closes the handler.                              *)
RunHandler(t) ==
    /\ Jump(t, "running", "wait")
    /\ monitor' = "waiting" /\ starter' = "on"
    /\ EngineIdle /\ UNCHANGED <<taskVars, config, proc, mainVars, errChan, channels,
                                  server, late, client>>

(* A worker without Redis has only executeWorkerProcess to wait in.           *)
ContextEnds(t) ==
    /\ ctx = "cancelled"
    /\ Jump(t, "wait", IF HasHandler THEN "stop" ELSE "ended")
    /\ EngineIdle /\ UNCHANGED <<taskVars, config, proc, mainVars, errChan, channels, handlerVars>>

(* Close of the handler. Its sync.Once is new in every call.                  *)
StopHandler(t) == CloseChannel(t, "stop", "stop", "join")

(* Mutant: Close does not wait for the monitor.                               *)
StartedOnly == starter \in {"off", "ended"}
(* wg.Wait; Components.Close then closes the server first.                    *)
AllEnded == starter \in {"off", "ended"} /\ monitor \in {"off", "ended"}

Join(t) ==
    /\ AllEnded
    /\ Jump(t, "join", "server")
    /\ EngineIdle /\ UNCHANGED <<taskVars, config, proc, mainVars, errChan, channels, handlerVars>>

(* asynq takes no more tasks, waits for those it runs as long as its timeout  *)
(* says and puts the others back; on a server that was never started Shutdown *)
(* does nothing.                                                              *)
StopServer(t) ==
    /\ pc[t] = "server" /\ server = "running"
    /\ server' = "stopping"
    /\ EngineIdle
    /\ UNCHANGED <<taskVars, config, proc, mainVars, pc, errChan, channels,
                   monitor, starter, late, client>>
ShutdownServer(t) ==
    /\ server # "running"
    /\ Jump(t, "server", "client")
    /\ IF server = "stopping"
       THEN server' = "stopped" /\ Requeue
       ELSE UNCHANGED <<server, taskVars>>
    /\ EngineIdle
    /\ UNCHANGED <<config, proc, mainVars, errChan, channels, monitor, starter, late, client>>

(* The client is closed, with an error or without, and Close returns to its   *)
(* caller: to performShutdown, or to the goroutine of the worker, which       *)
(* reports the error.                                                         *)
AfterClose(t) == IF t = "side" THEN "ended" ELSE "done"
CloseClient(t) ==
    /\ Jump(t, "client", AfterClose(t))
    /\ client' = "closed"
    /\ \/ UNCHANGED <<runError, errChan>>
       \/ mode = "worker" /\ t = "side" /\ errChan' = TRUE /\ UNCHANGED runError
       \/ mode = "worker" /\ t = "main" /\ phase = "run" /\ runError' = TRUE
          /\ UNCHANGED errChan
    /\ EngineIdle /\ UNCHANGED <<taskVars, config, proc, phase, channels,
                                  monitor, starter, server, late>>

(* monitorHealth and Server.Start.                                            *)
MonitorPings ==
    /\ monitor = "waiting" /\ ctx = "live" /\ "stop" \notin channels
    /\ monitor' = "pinging"
    /\ EngineIdle /\ UNCHANGED <<taskVars, config, proc, mainVars, pc, errChan, channels,
                                  starter, server, late, client>>
MonitorPinged ==
    /\ monitor = "pinging" /\ monitor' = "waiting"
    /\ EngineIdle /\ UNCHANGED <<taskVars, config, proc, mainVars, pc, errChan, channels,
                                  starter, server, late, client>>
MonitorEnds ==
    /\ monitor = "waiting" /\ (ctx = "cancelled" \/ "stop" \in channels)
    /\ monitor' = "ended"
    /\ EngineIdle /\ UNCHANGED <<taskVars, config, proc, mainVars, pc, errChan, channels,
                                  starter, server, late, client>>

(* Mutant: the goroutine that fails to start the server returns without Done. *)
AfterFailedStart == "gone"
(* wg.Done is deferred.                                                       *)
AfterStart == "ended"

(* The server starts unless Redis does not answer or it was stopped before.   *)
StartServer ==
    /\ starter = "on"
    /\ \/ server = "new" /\ server' = "running" /\ late' = ("stop" \in channels)
          /\ starter' = "ended"
       \/ UNCHANGED <<server, late>> /\ starter' = AfterStart
    /\ EngineIdle /\ UNCHANGED <<taskVars, config, proc, mainVars, pc, errChan, channels,
                                  monitor, client>>

(* What other processes and callers do with the tasks.                        *)
Calls ==
    /\ HasHandler
    /\ \/ \E t \in Tasks \ {Test} : EnqueueTask(t) \/ EnqueueTaskBasedOnSubscription(t)
       \/ \E t \in Tasks \ {Test} : Operation(t) \/ CrawlReturns(t)
    /\ UNCHANGED <<ctx, writer, resultVars, lifeVars>>
-----------------------------------------------------------------------------
(* The steps of a thread, of the goroutines beside it, and of the engine with *)
(* its writer. Nothing runs in a process that has ended.                      *)
HandlerStep(t) ==
    RunHandler(t) \/ ContextEnds(t) \/ StopHandler(t) \/ Join(t)
    \/ StopServer(t) \/ ShutdownServer(t) \/ CloseClient(t)
Main ==
    /\ proc = "up"
    /\ \/ New \/ Begin \/ Selected \/ AppEnds \/ RunEnds \/ CallClose \/ Exit
       \/ SignalShutdown \/ SignalDone \/ HandlerStep("main")
Side == proc = "up" /\ HandlerStep("side")
MonitorGoes == proc = "up" /\ (MonitorPinged \/ MonitorEnds)
StarterGoes == proc = "up" /\ StartServer
TasksGo(t) ==
    /\ proc = "up"
    /\ HandlerGoes(t) \/ (server = "running" /\ ServerGoes(t))
    /\ UNCHANGED <<ctx, writer, resultVars, lifeVars>>

InApp == proc = "up" /\ pc["main"] = "app" /\ UNCHANGED <<ctx, writer, taskVars, lifeVars>>
EngineGoes == InApp /\ EngineStops
WriterGoes == InApp /\ WriterStep

Next ==
    \/ proc = "up" /\ (Signal \/ MonitorPings \/ Calls)
    \/ Main \/ Side \/ MonitorGoes \/ StarterGoes
    \/ \E t \in Tasks : TasksGo(t)
    \/ EngineGoes \/ WriterGoes
    \/ InApp /\ (SendResult \/ MinutePasses)

(* A goroutine that can go on goes on, a ping ends within the timeout of the  *)
(* client, a cancelled engine stops, and asynq takes tasks and calls their    *)
(* handlers. No fairness is assumed of the signal, of callers, of a crawl, of *)
(* New's success or of the engine's results.                                  *)
Fairness ==
    /\ WF_vars(Main) /\ WF_vars(Side) /\ WF_vars(MonitorGoes) /\ WF_vars(StarterGoes)
    /\ WF_vars(EngineGoes) /\ WF_vars(WriterGoes)
    /\ \A t \in Tasks : WF_vars(TasksGo(t))
Spec == Init /\ [][Next]_vars /\ Fairness
-----------------------------------------------------------------------------
(* A process that was signalled ends, in every mode and at whatever point of  *)
(* its start the signal came.                                                 *)
SignalEnds == ctx = "cancelled" ~> proc # "up"

(* The connections of Redis are closed after everything that uses them: the   *)
(* monitor does not ping a closed client, and a task runs without the client  *)
(* only on a server that was started after Close had waited for nothing.      *)
ClosedLast ==
    client = "closed" => monitor # "pinging" /\ (~NoneActive => late)

(* A process in database mode that exits with 0 has stored every result its   *)
(* writer received, once.                                                     *)
ZeroMeansSaved ==
    mode = "database" /\ proc = "exit0" => \A r \in Received : saves[r] = 1

(* Why ClosedLast: Close goes on only after it has closed "stop",             *)
Closing(places) == client = "closed" \/ \E t \in Threads : pc[t] \in places
StopClosed == Closing({"join", "server", "client"}) => "stop" \in channels
(* after which no ping begins; it has waited for the one under way,           *)
NoPing == Closing({"server", "client"}) => monitor # "pinging"
(* and then for the server, unless that was started later.                    *)
ServerShut == Closing({"client"}) => late \/ server \in {"new", "stopped"}
ShutIdle == server \in {"new", "stopped"} => NoneActive
CloseInv == StopClosed /\ NoPing /\ ServerShut /\ ShutIdle

(* Why ZeroMeansSaved: main leaves the engine without an error only when the  *)
(* writer has ended, and nothing runs beside it.                              *)
DatabaseInv ==
    mode = "database" =>
        /\ pc["main"] \in {"new", "begin", "app", "returned"} /\ pc["side"] = "off"
        /\ pc["main"] = "returned" /\ ~runError => wpc = "ended"
        /\ proc = "exit0" => wpc = "ended"

(* A server that runs, and goes on running, settles the tasks of its queues:  *)
(* it completes them or gives them up after their retries, whatever hangs.    *)
TaskSettles ==
    \A t \in Tasks :
        server = "running" /\ At(t, "pending") /\ task[t].queue \in ServerQueues
            ~> Settled(t) \/ server # "running" \/ proc # "up"

(* taskhandler.go:380 "Use sync.Once to ensure the channel is closed only     *)
(* once": no call of the handler's Close closes a channel that is closed.     *)
StopClosedOnce == [][\A t \in Threads : StopHandler(t) => "stop" \notin channels]_vars
===============================================================================
