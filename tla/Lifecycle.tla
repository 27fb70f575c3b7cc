----------------------------- MODULE Lifecycle -----------------------------
(***************************************************************************)
(* How the programs cmd/server, cmd/consumers and cmd/crons start, run and *)
(* stop: the resources RunServers, RunConsumers and RunCrons open one      *)
(* after the other, the goroutines of their errgroup, what an interrupt    *)
(* and a failing goroutine set off, and the deferred calls that close what *)
(* is open.  Who is connected to the servers is the business of the module *)
(* that extends this one: it says when a shutdown has nobody to wait for.  *)
(*                                                                         *)
(* An interrupt is the one signal the programs ask for; every other way to *)
(* end a process needs no model.                                           *)
(***************************************************************************)
EXTENDS Naturals, Sequences

CONSTANTS Programs   \* those that may be started
ASSUME ProgramsAssumption == Programs \subseteq {"server", "consumers", "crons"}

VARIABLES
  program,      \* the one that was started
  stage,        \* where its main goroutine stands
  next,         \* the constructor it calls next, counted in Setup
  open,         \* what has to be closed
  missing,      \* what could not be constructed, which was only logged,
                \* and the interval of the crons, if it is not positive
  tasks,        \* the goroutines of its errgroup
  interrupted,  \* os.Interrupt was delivered to NotifyContext
  status        \* how it ended, or is about to

lifecycle == <<program, stage, next, open, missing, tasks, interrupted, status>>

-----------------------------------------------------------------------------
(* The constructors: whether they give up when the context is done, and    *)
(* what they leave to be closed.                                           *)

NewClusterC     == [ctx |-> TRUE,  opens |-> {"cluster"}]
RedisNewClient  == [ctx |-> FALSE, opens |-> {"redis"}]
InitNative      == [ctx |-> TRUE,  opens |-> {"driver"}]
NewSession      == [ctx |-> FALSE, opens |-> {}]
NewImageStorage == [ctx |-> TRUE,  opens |-> {}]
InitQueueReaders == [ctx |-> FALSE, opens |-> {"readers"}]
InitQueueWriters == [ctx |-> FALSE, opens |-> {"writers"}]
LoadConfig      == [ctx |-> FALSE, opens |-> {}]
SetupLogger     == [ctx |-> FALSE, opens |-> {}]
NewGRPCServer   == [ctx |-> FALSE, opens |-> {}]
NewConn         == [ctx |-> FALSE, opens |-> {"conn"}]
NewHTTPServer   == [ctx |-> FALSE, opens |-> {}]

Constructor ==
  [config |-> LoadConfig, logger |-> SetupLogger, cluster |-> NewClusterC,
   redis |-> RedisNewClient, driver |-> InitNative, session |-> NewSession,
   images |-> NewImageStorage, readers |-> InitQueueReaders, writers |-> InitQueueWriters,
   grpc |-> NewGRPCServer, conn |-> NewConn, http |-> NewHTTPServer]

ServerSetup ==
  <<"config", "images", "logger", "cluster", "redis", "driver", "session", "writers",
    "grpc", "conn", "http">>
ConsumersSetup ==
  <<"config", "logger", "cluster", "driver", "session", "images", "readers", "writers">>
CronsSetup ==
  <<"config", "logger", "cluster", "driver", "session", "writers", "redis">>

Setup == [server |-> ServerSetup, consumers |-> ConsumersSetup, crons |-> CronsSetup]

(* Without these the program goes on. *)
OnlyLogged == [server |-> {}, consumers |-> {"session", "images"}, crons |-> {"session"}]

CloseOrderDriverFirst ==
  [server    |-> <<"driver", "writers", "redis", "cluster">>,
   consumers |-> <<"driver", "writers", "readers", "cluster">>,
   crons     |-> <<"redis", "driver", "writers", "cluster">>]

CloseOrderNoRedis ==
  [server    |-> <<"writers", "driver", "cluster">>,
   consumers |-> <<"writers", "readers", "driver", "cluster">>,
   crons     |-> <<"writers", "driver", "cluster">>]

(* Deferred calls run last in, first out; Close of the crons has an order  *)
(* of its own.                                                             *)
CloseOrder ==
  [server    |-> <<"writers", "driver", "redis", "cluster">>,
   consumers |-> <<"writers", "readers", "driver", "cluster">>,
   crons     |-> <<"redis", "writers", "driver", "cluster">>]

Closable == {CloseOrder[program][i] : i \in DOMAIN CloseOrder[program]}

(* Tasks the errgroup runs, and where each begins. *)
ServerTasks    == {"grpc", "http", "stopper", "pprof", "pprof stopper"}
ConsumersTasks == {"topic", "queue", "http", "stopper"}
CronsTasks     == {"orders", "http", "stopper"}
Tasks == [server |-> ServerTasks, consumers |-> ConsumersTasks, crons |-> CronsTasks]

AllTasks == ServerTasks \cup ConsumersTasks \cup CronsTasks
Listeners == {"grpc", "http", "pprof"}
TaskStates ==
  {"off", "starting", "running", "busy", "waiting", "draining", "closing", "stopping",
   "done", "failed"}

-----------------------------------------------------------------------------
Init ==
  /\ program \in Programs
  /\ stage = "setup"
  /\ next = 1
  /\ open = {} /\ missing = {}
  /\ tasks = [t \in AllTasks |-> "off"]
  /\ interrupted = FALSE
  /\ status = "none"

Alive == stage # "exited"

(* The errgroup's context, which is the one of NotifyContext, too. *)
Failed == \E t \in AllTasks : tasks[t] = "failed"
Done   == interrupted \/ Failed

Begin(ts) ==
  [t \in AllTasks |->
     IF t \notin ts THEN tasks[t]
     ELSE CASE t \in Listeners                    -> "starting"
            [] t \in {"stopper", "pprof stopper"} -> "waiting"
            [] OTHER                              -> "running"]

(* What starts with the constructor c, and what with the last one. *)
Started(c) ==
  IF program = "server"
  THEN CASE c = "grpc" -> {"grpc"}
         [] c = "http" -> {"http", "stopper", "pprof", "pprof stopper"}
         [] OTHER      -> {}
  ELSE IF next = Len(Setup[program]) THEN Tasks[program] ELSE {}

(* LoadConfig takes any duration for the interval of the crons. *)
Accepted(c) == {{}} \cup IF c = "config" /\ program = "crons" THEN {{"interval"}} ELSE {}

Calling == Setup[program][next]
GoOn    == next' = next + 1 /\ stage' = IF next = Len(Setup[program]) THEN "wait" ELSE "setup"

(* The next constructor succeeds. *)
Construct ==
  /\ stage = "setup"
  /\ ~(Constructor[Calling].ctx /\ interrupted)
  /\ open' = open \cup Constructor[Calling].opens
  /\ \E odd \in Accepted(Calling) : missing' = missing \cup odd
  /\ tasks' = Begin(Started(Calling))
  /\ GoOn
  /\ UNCHANGED <<program, interrupted, status>>

(* It fails, and so does the program: nothing is deferred yet in cronResources. *)
ConstructFails ==
  /\ stage = "setup"
  /\ Calling \notin OnlyLogged[program]
  /\ stage' = IF program = "crons" THEN "exited" ELSE "close"
  /\ status' = "error"
  /\ UNCHANGED <<program, next, open, missing, tasks, interrupted>>

(* It fails, and the program goes on without. *)
ConstructMissing ==
  /\ stage = "setup"
  /\ Calling \in OnlyLogged[program]
  /\ missing' = missing \cup {Calling}
  /\ GoOn
  /\ UNCHANGED <<program, open, tasks, interrupted, status>>

-----------------------------------------------------------------------------
(* Signals.  RunConsumers calls NotifyContext first and stop last, the     *)
(* other two call it when all is open and stop before anything is closed.  *)
Notified ==
  CASE program = "consumers" -> next > 1 /\ Alive
    [] program = "server"    -> stage = "wait" \/ (stage = "setup" /\ next >= 9)
    [] program = "crons"     -> stage = "wait"

(* A second interrupt is swallowed. *)
Interrupt ==
  /\ Notified
  /\ ~interrupted
  /\ interrupted' = TRUE
  /\ UNCHANGED <<program, stage, next, open, missing, tasks, status>>

(* Without a handler the signal ends the process. *)
InterruptKills ==
  /\ Alive
  /\ ~Notified
  /\ stage' = "exited" /\ status' = "killed"
  /\ UNCHANGED <<program, next, open, missing, tasks, interrupted>>

-----------------------------------------------------------------------------
(* The goroutines. *)

Run(t, from, to) ==
  /\ Alive
  /\ tasks[t] = from
  /\ tasks' = [tasks EXCEPT ![t] = to]
  /\ UNCHANGED <<program, stage, next, open, missing, interrupted, status>>

(* The stopper of a listener has closed it, or keeps it from serving. *)
Closed(t) ==
  CASE t = "grpc"  -> tasks["stopper"] \in {"stopping", "done"}
    [] t = "http"  -> tasks["stopper"] \notin {"off", "waiting"}
    [] t = "pprof" -> tasks["pprof stopper"] # "waiting"

(* net.Listen fails: the port is taken. *)
ListenFails(t) == t \in Listeners /\ Run(t, "starting", "failed")

(* Serve returns ErrServerStopped after GracefulStop, ErrServerClosed,     *)
(* which is no error, after Shutdown.                                      *)
Listen(t) ==
  /\ t \in Listeners
  /\ Run(t, "starting", IF ~Closed(t) THEN "running" ELSE IF t = "grpc" THEN "failed" ELSE "done")

(* Serve returns: at once after Shutdown, when GracefulStop is through. *)
ServeReturns(t) ==
  /\ t \in Listeners
  /\ IF t = "grpc" THEN tasks["stopper"] = "done" ELSE Closed(t)
  /\ Run(t, "running", "done")

(* A panic nobody recovers from. *)
Panic ==
  /\ stage' = "exited" /\ status' = "crashed"
  /\ UNCHANGED <<program, next, open, missing, tasks, interrupted>>

(* RunYDBConsumer returns an error it cannot read or commit through; when  *)
(* the context is done both consumers come to an end after the message or  *)
(* batch they are at.                                                      *)
TopicFails    == Run("topic", "running", "failed")
ConsumerStops(t) == t \in {"topic", "queue"} /\ Done /\ Run(t, "running", "done")

(* RunSQSConsumer without a session: the first ReadMessages panics.        *)
QueuePanics ==
  /\ Alive
  /\ tasks["queue"] = "running"
  /\ "session" \in missing
  /\ Panic

(* OrderHandlers.Start: NewTicker panics unless the interval is positive.  *)
(* An error of the job is logged, the context is looked at between two.    *)
TickerPanics ==
  /\ Alive
  /\ tasks["orders"] = "running"
  /\ "interval" \in missing
  /\ Panic

Ticker    == "interval" \notin missing
Tick      == Ticker /\ Run("orders", "running", "busy")
TickEnds  == Run("orders", "busy", "running")
CronStops == Ticker /\ Done /\ Run("orders", "running", "done")

StopperWakesOnSignal == interrupted /\ Run("stopper", "waiting", "draining")

(* The goroutine that shuts the servers down. *)
StopperWakes == Done /\ Run("stopper", "waiting", "draining")

ShutdownReturnsAtOnce(drained) ==
  Run("stopper", "draining", IF program = "server" THEN "closing" ELSE "done")

ShutdownReturns(drained) ==
  /\ drained
  /\ Run("stopper", "draining", IF program = "server" THEN "closing" ELSE "done")

(* InterruptTimeout: the error ends the goroutine before conn.Close and    *)
(* GracefulStop.                                                           *)
ShutdownTimesOut(drained) == ~drained /\ Run("stopper", "draining", "failed")

ConnClose ==
  /\ Alive
  /\ tasks["stopper"] = "closing"
  /\ tasks' = [tasks EXCEPT !["stopper"] = "stopping"]
  /\ open' = open \ {"conn"}
  /\ UNCHANGED <<program, stage, next, missing, interrupted, status>>

GracefulStop(drained) == drained /\ Run("stopper", "stopping", "done")

(* startPprofServer; a profile may take longer than InterruptTimeout. *)
PprofStopperWakes == Done /\ Run("pprof stopper", "waiting", "draining")
PprofShutdown == \E to \in {"done", "failed"} : Run("pprof stopper", "draining", to)

-----------------------------------------------------------------------------
(* g.Wait, and the deferred calls. *)
WaitReturns ==
  /\ stage = "wait"
  /\ \A t \in Tasks[program] : tasks[t] \in {"done", "failed"}
  /\ stage' = "close"
  /\ status' = IF Failed THEN "error" ELSE "ok"
  /\ UNCHANGED <<program, next, open, missing, tasks, interrupted>>

(* The first in the order that is open. *)
Closes(r) ==
  LET order == CloseOrder[program]
  IN  \E i \in DOMAIN order : order[i] = r /\ \A j \in 1..(i - 1) : order[j] \notin open

CloseNext ==
  /\ stage = "close"
  /\ \E r \in open : Closes(r) /\ open' = open \ {r}
  /\ UNCHANGED <<program, stage, next, missing, tasks, interrupted, status>>

Exit ==
  /\ stage = "close"
  /\ open \cap Closable = {}
  /\ stage' = "exited"
  /\ UNCHANGED <<program, next, open, missing, tasks, interrupted, status>>

MainStep == Construct \/ ConstructFails \/ ConstructMissing \/ WaitReturns \/ CloseNext \/ Exit
Signal   == Interrupt \/ InterruptKills

ListenerStep == \E t \in Listeners : Listen(t) \/ ListenFails(t) \/ ServeReturns(t)
WorkerStops  == QueuePanics \/ TickerPanics \/ \E t \in {"topic", "queue"} : ConsumerStops(t)
=============================================================================
