--------------------------- MODULE ServicesProofs ---------------------------
(***************************************************************************)
(* Proofs about Services for any calls, and any methods each of them may   *)
(* ask for.                                                                *)
(***************************************************************************)
EXTENDS Services, TLAPS

(* While constructors are called, only the gRPC server may run already. *)
SetupIsQuiet ==
  stage = "setup" =>
    /\ next \in 1..Len(Setup[program])
    /\ \A t \in AllTasks : tasks[t] # "off" => program = "server" /\ t = "grpc" /\ next > 9

(* What was constructed stays open until the goroutines have returned. *)
OpenedSoFar ==
  /\ stage \in {"setup", "wait"} =>
       \A i \in 1..(next - 1) : Constructor[Setup[program][i]].opens \subseteq open \cup {"conn"}
  /\ stage = "wait" => next = Len(Setup[program]) + 1

(* Without a g.Wait, nothing runs but the gRPC server. *)
CloseIsWaited ==
  stage = "close" =>
    \/ \A t \in Tasks[program] : tasks[t] \in {"done", "failed"}
    \/ status = "error" /\ \A t \in AllTasks \ {"grpc"} : tasks[t] = "off"

DriverLast == open \cap {"readers", "writers"} # {} => stage = "exited" \/ "driver" \in open

(* The stopper wakes when the context is done, and closes the connection. *)
StopperIsWoken ==
  /\ tasks["stopper"] \notin {"off", "waiting"} => Done
  /\ tasks["stopper"] \in {"closing", "stopping"} => program = "server"
  /\ "conn" \in open => program = "server" /\ tasks["stopper"] \notin {"stopping", "done"}

OkIsDone ==
  status = "ok" =>
    /\ \A t \in Tasks[program] : tasks[t] = "done"
    /\ stage \in {"close", "exited"}
    /\ stage = "exited" => open \cap Closable = {}

(* Only a running gRPC server has calls, and a stopper that went on has    *)
(* seen them end.                                                          *)
CallsAreServed ==
  \A c \in Calls :
    /\ calls[c].at \in {"server", "service", "stream"} =>
         tasks["grpc"] = "running" /\ tasks["stopper"] # "done"
    /\ calls[c].at \in {"connected", "gateway"} => calls[c].via = "http"
    /\ tasks["stopper"] \in {"closing", "stopping", "done"} =>
         (calls[c].via = "http" => calls[c].at = "answered")

LifecycleInv ==
  /\ LifecycleTyped /\ SetupIsQuiet /\ OpenedSoFar /\ CloseIsWaited /\ DriverLast
  /\ StopperIsWoken /\ OkIsDone /\ CrashesOnlyUnset
CallsInv == CallsTyped /\ CallsAreServed /\ RoleChecked
-----------------------------------------------------------------------------
(* A request: its answer is a code, a result that is passed on as it is    *)
(* came from the service, and no panic gets past PanicHandler.             *)

(* What a handler answers; Unknown is left to ListDeliveries. *)
Known == {"OK", "InvalidArgument", "NotFound", "Aborted", "FailedPrecondition", "PermissionDenied",
          "Unauthenticated", "Unimplemented", "Internal"}

LEMMA AnswerIsCode ==
  ASSUME NEW result, NEW known, \A r \in DOMAIN known : known[r] \in Known
  PROVE  /\ Answer(result, known) \in Known \cup {"pending", "panic"}
         /\ Answer(result, known) = "pending" => result = "pending"
BY DEF Answer, Known

LEMMA HandlerIsCode ==
  ASSUME NEW m, NEW user, NEW valid, NEW result
  PROVE  /\ Handler(m, user, valid, result) \in Known \cup {"Unknown", "pending", "panic"}
         /\ Handler(m, user, valid, result) = "pending" => result = "pending"
         /\ Handler(m, user, valid, result) = "Unknown" => m = "ListDeliveries"
<1> DEFINE Good(code) == code \in Known \cup {"pending", "panic"} /\ (code = "pending" => result = "pending")
<1> USE DEF Check
<1>1. \A c \in Known \cup {"panic"} : Good(c)
  BY DEF Known
<1>2. \A b, c, code : c \in Known /\ Good(code) => Good(Check(b, c, code))
  BY <1>1
<1>3. Good(Answer(result, NoneKnown))
  BY AnswerIsCode DEF NoneKnown
<1>4. Good(Answer(result, [invalid |-> "InvalidArgument"]))
  BY AnswerIsCode DEF Known
<1>5. Good(Answer(result, [userNotFound |-> "NotFound"]))
  BY AnswerIsCode DEF Known
<1>6. Good(Answer(result, [productNotFound |-> "NotFound"]))
  BY AnswerIsCode DEF Known
<1>7. Good(Answer(result, [productNotFound |-> "NotFound", imageNotFound |-> "FailedPrecondition"]))
  BY AnswerIsCode DEF Known
<1>8. Good(parseCreateOrderError(result))
  BY AnswerIsCode DEF Known, parseCreateOrderError
<1>9. {"Unauthenticated", "PermissionDenied", "InvalidArgument", "OK", "Internal", "Unimplemented"}
        \subseteq Known
  BY DEF Known
<1>10. ListDeliveries(result) = "Unknown" \/ Good(ListDeliveries(result))
  BY <1>3 DEF ListDeliveries
<1> HIDE DEF Good, Check
<1>11. Good(CreateOrder(user, valid, result)) /\ Good(DeleteOrder(user, valid, result))
  BY <1>2, <1>3, <1>8, <1>9 DEF CreateOrder, DeleteOrder
<1>12. /\ Good(CreateUser(user, valid, result)) /\ Good(GetUser(user, valid, result))
       /\ Good(DeleteUser(user, valid, result))
  BY <1>2, <1>4, <1>5, <1>9 DEF CreateUser, GetUser, DeleteUser
<1>13. /\ Good(CreateProducts(valid, result)) /\ Good(GetProducts(valid, result))
       /\ Good(DeleteProducts(valid, result))
  BY <1>2, <1>3, <1>4, <1>6, <1>9 DEF CreateProducts, GetProducts, DeleteProducts
<1>14. Good(GetProductImageUploadURL(valid, result)) /\ Good(ConfirmProductImageUpload(valid, result))
  BY <1>2, <1>6, <1>7, <1>9 DEF GetProductImageUploadURL, ConfirmProductImageUpload
<1>15. Good(DeleteDelivery(valid, result))
  BY <1>2, <1>3, <1>9 DEF DeleteDelivery
<1>16. Good(CheckErrors) /\ Good(CheckPanics) /\ Good(UnimplementedCheckServiceServer) /\ Good("OK")
  BY <1>1, <1>9 DEF CheckErrors, CheckPanics, UnimplementedCheckServiceServer
<1>17. CASE m = "ListDeliveries"
  <2>1. Handler(m, user, valid, result) = ListDeliveries(result)
    BY <1>17 DEF Handler, Health
  <2> QED BY <1>10, <1>17, <2>1 DEF Good, Known
<1>18. CASE m # "ListDeliveries"
  <2>1. Good(Handler(m, user, valid, result))
    BY <1>11, <1>12, <1>13, <1>14, <1>15, <1>16, <1>18 DEF Handler
  <2> QED BY <2>1 DEF Good, Known
<1> QED BY <1>17, <1>18

LEMMA ChainIsCode ==
  ASSUME NEW req, NEW result
  PROVE  /\ Chain(req, result) \in Known \cup {"Unknown", "pending"}
         /\ Chain(req, result) = "pending" =>
              result = "pending" /\ Handler(req.method, req.user, req.valid, result) = "pending"
         /\ Chain(req, result) = "Unknown" =>
              req.method = "ListDeliveries" \/ req.requestId = "repeated"
<1> DEFINE answer == Handler(req.method, req.user, req.valid, result)
<1>1. /\ answer \in Known \cup {"Unknown", "pending", "panic"} /\ (answer = "pending" => result = "pending")
      /\ answer = "Unknown" => req.method = "ListDeliveries"
  BY HandlerIsCode
<1> HIDE DEF answer
<1>2. LET code == TraceMiddleware(req, PanicHandler(AuthMiddleware(req, answer)))
      IN  /\ code \in Known \cup {"Unknown", "pending"}
          /\ code = "pending" => answer = "pending"
          /\ code = "Unknown" => answer = "Unknown" \/ req.requestId = "repeated"
  BY <1>1 DEF TraceMiddleware, PanicHandler, AuthMiddleware, Known
<1> QED BY <1>1, <1>2 DEF Chain, answer

LEMMA KnownIsCode == Known \cup {"Unknown"} \subseteq Codes
BY DEF Known, Codes

LEMMA ChainNeverPanics ==
  ASSUME NEW req, NEW result
  PROVE  Chain(req, result) # "panic"
BY ChainIsCode DEF Known

LEMMA ReturnAnswers ==
  ASSUME NEW c \in Calls, Return(c)
  PROVE  \E code \in Known \cup {"Unknown"} :
           /\ At(c, "service") /\ Answered(c, code)
           /\ code = "Unknown" => calls[c].method = "ListDeliveries"
<1> DEFINE req == [method |-> calls[c].method, user |-> calls[c].user,
                   requestId |-> "single", valid |-> TRUE]
<1>1. PICK result \in Results :
        IF Chain(req, result) = "panic" THEN Panic /\ UNCHANGED calls ELSE Answered(c, Chain(req, result))
  BY DEF Return
<1>2. req.requestId = "single" /\ req.method = calls[c].method /\ At(c, "service")
  BY DEF Return
<1> HIDE DEF req
<1>3. Chain(req, result) \in Known \cup {"Unknown"} /\ Chain(req, result) # "panic"
  BY ChainIsCode, ChainNeverPanics DEF Results
<1>4. Chain(req, result) = "Unknown" => calls[c].method = "ListDeliveries"
  BY <1>2, ChainIsCode
<1> QED BY <1>1, <1>2, <1>3, <1>4

(* What a handler hands to its service was asked by somebody with the role. *)
LEMMA PendingHasRole ==
  ASSUME NEW m, NEW user, NEW valid, Handler(m, user, valid, "pending") = "pending"
  PROVE  /\ m = "CreateOrder" => user \in {"user", "admin"}
         /\ m \in UserRoutes \cup {"DeleteOrder"} => user = "admin"
<1>1. CASE m = "CreateOrder"
  BY <1>1 DEF Handler, CreateOrder, Check, IsEmpty, UserRoutes
<1>2. CASE m = "DeleteOrder"
  BY <1>2 DEF Handler, DeleteOrder, Check, IsAdmin, UserRoutes
<1>3. CASE m = "CreateUser"
  BY <1>3 DEF Handler, CreateUser, Check, IsAdmin, UserRoutes
<1>4. CASE m = "GetUser"
  BY <1>4 DEF Handler, GetUser, Check, IsAdmin, UserRoutes
<1>5. CASE m = "DeleteUser"
  BY <1>5 DEF Handler, DeleteUser, Check, IsAdmin, UserRoutes
<1> QED BY <1>1, <1>2, <1>3, <1>4, <1>5 DEF UserRoutes

-----------------------------------------------------------------------------
(* The steps of the lifecycle.  A goroutine moves on, but never back to    *)
(* where it had not begun or from where it has ended; *)
Moves(t, from, to) ==
  /\ Run(t, from, to)
  /\ t \in AllTasks
  /\ from \in TaskStates \ {"off", "done", "failed"} /\ to \in TaskStates \ {"off"}
  /\ t = "grpc" =>
       /\ to \in {"running", "done", "failed"}
       /\ from = "running" \/ to = "done" => tasks["stopper"] = "done"
  /\ t = "stopper" =>
       /\ from = "waiting" => Done /\ to = "draining"
       /\ from \in {"waiting", "draining", "stopping"} /\ to # "stopping"
       /\ from = "stopping" => to = "done"
       /\ to = "closing" => program = "server" /\ HTTPDrained
       /\ to = "done" => (program # "server" /\ HTTPDrained) \/ (from = "stopping" /\ RPCDrained)

(* the connection of the gateway is closed; somebody panics. *)
Crashes ==
  /\ Alive /\ Panic
  /\ \/ program = "consumers" /\ "session" \in missing
     \/ program = "crons" /\ "interval" \in missing

LEMMA ListenersMove ==
  ASSUME LifecycleTyped, NEW t \in Listeners, Listen(t) \/ ListenFails(t) \/ ServeReturns(t)
  PROVE  \E from, to \in TaskStates : Moves(t, from, to)
<1>1. t \in AllTasks /\ t # "stopper"
  BY DEF Listeners, AllTasks, ServerTasks
<1>2. CASE Listen(t)
  BY <1>1, <1>2 DEF Listen, Moves, TaskStates
<1>3. CASE ListenFails(t)
  BY <1>1, <1>3 DEF ListenFails, Moves, TaskStates
<1>4. CASE ServeReturns(t)
  BY <1>1, <1>4 DEF ServeReturns, Moves, TaskStates
<1> QED BY <1>2, <1>3, <1>4

LEMMA WorkersMove ==
  ASSUME LifecycleTyped,
         TopicFails \/ Tick \/ TickEnds \/ CronStops \/ (\E t \in {"topic", "queue"} : ConsumerStops(t))
  PROVE  \E t \in AllTasks, from, to \in TaskStates : Moves(t, from, to)
BY DEF TopicFails, Tick, TickEnds, CronStops, ConsumerStops, Moves, TaskStates, AllTasks,
       ConsumersTasks, CronsTasks

LEMMA StoppersMove ==
  ASSUME LifecycleTyped,
         \/ StopperWakes \/ ShutdownReturns(HTTPDrained) \/ ShutdownTimesOut(HTTPDrained)
         \/ GracefulStop(RPCDrained) \/ PprofStopperWakes \/ PprofShutdown
  PROVE  \E t \in AllTasks, from, to \in TaskStates : Moves(t, from, to)
<1>1. "stopper" \in AllTasks /\ "pprof stopper" \in AllTasks
  BY DEF AllTasks, ServerTasks
<1>2. CASE StopperWakes
  BY <1>1, <1>2 DEF StopperWakes, Moves, TaskStates
<1>3. CASE ShutdownReturns(HTTPDrained)
  <2>1. CASE program = "server"
    <3>1. HTTPDrained /\ Run("stopper", "draining", "closing")
      BY <1>3, <2>1 DEF ShutdownReturns
    <3> QED BY <1>1, <2>1, <3>1 DEF Moves, TaskStates
  <2>2. CASE program # "server"
    <3>1. HTTPDrained /\ Run("stopper", "draining", "done")
      BY <1>3, <2>2 DEF ShutdownReturns
    <3> QED BY <1>1, <2>2, <3>1 DEF Moves, TaskStates
  <2> QED BY <2>1, <2>2
<1>4. CASE ShutdownTimesOut(HTTPDrained)
  BY <1>1, <1>4 DEF ShutdownTimesOut, Moves, TaskStates
<1>5. CASE GracefulStop(RPCDrained)
  BY <1>1, <1>5 DEF GracefulStop, Moves, TaskStates
<1>6. CASE PprofStopperWakes \/ PprofShutdown
  BY <1>1, <1>6 DEF PprofStopperWakes, PprofShutdown, Moves, TaskStates
<1> QED BY <1>2, <1>3, <1>4, <1>5, <1>6

LEMMA WorkerIsOfProgram ==
  ASSUME LifecycleTyped
  PROVE  /\ tasks["queue"] # "off" => program = "consumers"
         /\ tasks["topic"] # "off" => program = "consumers"
         /\ tasks["orders"] # "off" => program = "crons"
         /\ tasks["grpc"] # "off" => program = "server"
<1>1. \A t \in AllTasks : tasks[t] # "off" => t \in Tasks[program]
  BY DEF LifecycleTyped
<1>2. /\ Tasks["server"] = ServerTasks /\ Tasks["consumers"] = ConsumersTasks
      /\ Tasks["crons"] = CronsTasks
  BY DEF Tasks
<1>3. program \in {"server", "consumers", "crons"}
  BY ProgramsAssumption DEF LifecycleTyped
<1>4. {"queue", "topic", "orders", "grpc"} \subseteq AllTasks
  BY DEF AllTasks, ServerTasks, ConsumersTasks, CronsTasks
<1>5. CASE program = "server"
  BY <1>1, <1>2, <1>4, <1>5 DEF ServerTasks
<1>6. CASE program = "consumers"
  BY <1>1, <1>2, <1>4, <1>6 DEF ConsumersTasks
<1>7. CASE program = "crons"
  BY <1>1, <1>2, <1>4, <1>7 DEF CronsTasks
<1> QED BY <1>3, <1>5, <1>6, <1>7

LEMMA PanicsAreExcused ==
  ASSUME LifecycleTyped, QueuePanics \/ TickerPanics
  PROVE  Crashes
BY WorkerIsOfProgram DEF QueuePanics, TickerPanics, Crashes

(* What a call does leaves the lifecycle alone. *)
LEMMA CallsLeaveLifecycle ==
  ASSUME NEW c \in Calls, Progress(c) \/ Client(c)
  PROVE  UNCHANGED lifecycle
<1>1. CASE Handle(c)
  <2>1. PICK req \in RequestsOf(c) :
          IF Chain(req, "pending") = "pending"
          THEN Put(c, [calls[c] EXCEPT !.at = "service", !.user = Asked(req)])
          ELSE IF Chain(req, "pending") = "panic" THEN Panic /\ UNCHANGED calls
          ELSE Answered(c, Chain(req, "pending"))
    BY <1>1 DEF Handle
  <2>2. Chain(req, "pending") # "panic"
    BY ChainNeverPanics
  <2> QED BY <2>1, <2>2 DEF Answered, Put
<1>2. CASE Return(c)
  <2>1. PICK code : Answered(c, code)
    BY <1>2, ReturnAnswers
  <2> QED BY <2>1 DEF Answered, Put
<1> QED BY <1>1, <1>2 DEF Progress, Client, DecodeFails, Invoke, NotInvoked, Connect, Disconnect, Ping,
                 SendRequest, CallDirectly, OpenStream, CloseStream, Abandon, Finish, Answered, Put

LEMMA LifecycleCases ==
  ASSUME LifecycleTyped, [Next]_vars
  PROVE  \/ UNCHANGED lifecycle
         \/ Construct \/ ConstructFails \/ ConstructMissing \/ WaitReturns \/ CloseNext \/ Exit
         \/ Interrupt \/ InterruptKills \/ ConnClose \/ Crashes
         \/ \E t \in AllTasks, from, to \in TaskStates : Moves(t, from, to)
<1>1. CASE UNCHANGED vars
  BY <1>1 DEF vars
<1>2. CASE \E c \in Calls : Progress(c) \/ Client(c)
  BY <1>2, CallsLeaveLifecycle
<1>3. CASE ListenerStep
  BY <1>3, ListenersMove DEF ListenerStep, Listeners, AllTasks, ServerTasks
<1>4. CASE Forward \/ ((Signal \/ TopicFails \/ Tick \/ TickEnds \/ CronStops) /\ UNCHANGED calls)
  BY <1>3, <1>4, WorkersMove, StoppersMove, PanicsAreExcused
     DEF Forward, MainStep, Signal, WorkerStops, Stopper, Overrun
<1> QED BY <1>1, <1>2, <1>4 DEF Next

-----------------------------------------------------------------------------
(* The constructors of the three programs. *)

LEMMA ServerConstructors ==
  /\ Len(ServerSetup) = 11
  /\ \A i \in 1..11 :
       /\ ServerSetup[i] = "grpc" <=> i = 9
       /\ ServerSetup[i] = "http" <=> i = 11
       /\ Constructor[ServerSetup[i]].opens \subseteq {"writers", "driver", "redis", "cluster", "conn"}
       /\ "conn" \in Constructor[ServerSetup[i]].opens => i = 10
       /\ "writers" \in Constructor[ServerSetup[i]].opens => i = 8
  /\ Constructor[ServerSetup[4]].opens = {"cluster"} /\ Constructor[ServerSetup[5]].opens = {"redis"}
  /\ Constructor[ServerSetup[6]].opens = {"driver"} /\ Constructor[ServerSetup[8]].opens = {"writers"}
<1>1. \A i \in 1..11 : i \in {1, 2, 3, 4, 5, 6, 7, 8, 9, 10, 11}
  OBVIOUS
<1> QED BY <1>1 DEF ServerSetup, Constructor, NewClusterC, RedisNewClient, InitNative, NewSession,
      NewImageStorage, InitQueueReaders, InitQueueWriters, LoadConfig, SetupLogger, NewGRPCServer,
      NewConn, NewHTTPServer

LEMMA ConsumersConstructors ==
  /\ Len(ConsumersSetup) = 8
  /\ \A i \in 1..8 :
       /\ ConsumersSetup[i] \in {"session", "images"} => i \in {5, 6}
       /\ Constructor[ConsumersSetup[i]].opens \subseteq {"writers", "readers", "driver", "cluster"}
       /\ Constructor[ConsumersSetup[i]].opens \cap {"readers", "writers"} # {} => i \in {7, 8}
       /\ ConsumersSetup[i] \in {"session", "images"} => Constructor[ConsumersSetup[i]].opens = {}
  /\ Constructor[ConsumersSetup[3]].opens = {"cluster"} /\ Constructor[ConsumersSetup[4]].opens = {"driver"}
  /\ Constructor[ConsumersSetup[7]].opens = {"readers"} /\ Constructor[ConsumersSetup[8]].opens = {"writers"}
<1>1. \A i \in 1..8 : i \in {1, 2, 3, 4, 5, 6, 7, 8}
  OBVIOUS
<1> QED BY <1>1 DEF ConsumersSetup, Constructor, NewClusterC, RedisNewClient, InitNative, NewSession,
      NewImageStorage, InitQueueReaders, InitQueueWriters, LoadConfig, SetupLogger, NewGRPCServer,
      NewConn, NewHTTPServer

LEMMA CronsConstructors ==
  /\ Len(CronsSetup) = 7
  /\ \A i \in 1..7 :
       /\ CronsSetup[i] = "session" => i = 5
       /\ Constructor[CronsSetup[i]].opens \subseteq {"redis", "writers", "driver", "cluster"}
       /\ "writers" \in Constructor[CronsSetup[i]].opens => i = 6
       /\ CronsSetup[i] = "session" => Constructor[CronsSetup[i]].opens = {}
  /\ Constructor[CronsSetup[3]].opens = {"cluster"} /\ Constructor[CronsSetup[4]].opens = {"driver"}
  /\ Constructor[CronsSetup[6]].opens = {"writers"} /\ Constructor[CronsSetup[7]].opens = {"redis"}
<1>1. \A i \in 1..7 : i \in {1, 2, 3, 4, 5, 6, 7}
  OBVIOUS
<1> QED BY <1>1 DEF CronsSetup, Constructor, NewClusterC, RedisNewClient, InitNative, NewSession,
      NewImageStorage, InitQueueReaders, InitQueueWriters, LoadConfig, SetupLogger, NewGRPCServer,
      NewConn, NewHTTPServer

LEMMA SetupIsThere ==
  ASSUME NEW p \in {"server", "consumers", "crons"}
  PROVE  Len(Setup[p]) \in Nat \ {0}
<1>1. CASE p = "server" BY <1>1, ServerConstructors DEF Setup
<1>2. CASE p = "consumers" BY <1>2, ConsumersConstructors DEF Setup
<1>3. CASE p = "crons" BY <1>3, CronsConstructors DEF Setup
<1> QED BY <1>1, <1>2, <1>3

(* What the tables hold for the program that was started. *)
LEMMA OfProgram ==
  ASSUME LifecycleTyped
  PROVE  /\ program \in {"server", "consumers", "crons"}
         /\ program = "server" =>
              /\ Setup[program] = ServerSetup /\ Tasks[program] = ServerTasks
              /\ OnlyLogged[program] = {}
              /\ Closable = {"writers", "driver", "redis", "cluster"}
         /\ program = "consumers" =>
              /\ Setup[program] = ConsumersSetup /\ Tasks[program] = ConsumersTasks
              /\ OnlyLogged[program] = {"session", "images"}
              /\ Closable = {"writers", "readers", "driver", "cluster"}
         /\ program = "crons" =>
              /\ Setup[program] = CronsSetup /\ Tasks[program] = CronsTasks
              /\ OnlyLogged[program] = {"session"}
              /\ Closable = {"redis", "writers", "driver", "cluster"}
         /\ Len(Setup[program]) \in Nat \ {0}
<1>1. program \in {"server", "consumers", "crons"}
  BY ProgramsAssumption DEF LifecycleTyped
<1>2. CASE program = "server"
  BY <1>2, ServerConstructors DEF Setup, Tasks, OnlyLogged, Closable, CloseOrder
<1>3. CASE program = "consumers"
  BY <1>3, ConsumersConstructors DEF Setup, Tasks, OnlyLogged, Closable, CloseOrder
<1>4. CASE program = "crons"
  BY <1>4, CronsConstructors DEF Setup, Tasks, OnlyLogged, Closable, CloseOrder
<1> QED BY <1>1, <1>2, <1>3, <1>4

(* What the constructors that have returned opened is open. *)
LEMMA OpenedBefore ==
  ASSUME OpenedSoFar, stage = "setup", next \in Nat, NEW i \in Nat \ {0}, i < next
  PROVE  Constructor[Setup[program][i]].opens \subseteq open \cup {"conn"}
<1>1. i \in 1..(next - 1)
  OBVIOUS
<1> QED BY <1>1 DEF OpenedSoFar

(* What a constructor leaves open. *)
LEMMA CallingOpens ==
  ASSUME LifecycleTyped, SetupIsQuiet, stage = "setup"
  PROVE  /\ Constructor[Calling].opens \subseteq Closable \cup {"conn"}
         /\ "conn" \in Constructor[Calling].opens => program = "server"
         /\ OpenedSoFar /\ Constructor[Calling].opens \cap {"readers", "writers"} # {} => "driver" \in open
         /\ Calling \in OnlyLogged[program] => Constructor[Calling].opens = {}
         /\ Calling \in OnlyLogged[program] => next # Len(Setup[program])
<1>1. CASE program = "server"
  <2>1. next \in 1..11 /\ Calling = ServerSetup[next] /\ stage = "setup"
    BY <1>1, OfProgram, ServerConstructors DEF Calling, SetupIsQuiet
  <2>2. ASSUME OpenedSoFar, next > 6 PROVE "driver" \in open
    <3>1. Setup[program] = ServerSetup /\ next \in Nat
      BY <1>1, <2>1, OfProgram
    <3>2. Constructor[Setup[program][6]].opens \subseteq open \cup {"conn"}
      BY <2>1, <2>2, <3>1, OpenedBefore
    <3>3. Constructor[ServerSetup[6]].opens = {"driver"}
      BY ServerConstructors
    <3> QED BY <3>1, <3>2, <3>3
  <2>3. Constructor[Calling].opens \cap {"readers", "writers"} # {} => next > 6
    BY <2>1, ServerConstructors
  <2>4. Constructor[Calling].opens \subseteq {"writers", "driver", "redis", "cluster", "conn"}
    BY <2>1, ServerConstructors
  <2> QED BY <1>1, <2>2, <2>3, <2>4, OfProgram
<1>2. CASE program = "consumers"
  <2>1. next \in 1..8 /\ Calling = ConsumersSetup[next] /\ stage = "setup"
    BY <1>2, OfProgram, ConsumersConstructors DEF Calling, SetupIsQuiet
  <2>2. ASSUME OpenedSoFar, next > 4 PROVE "driver" \in open
    <3>1. Setup[program] = ConsumersSetup /\ next \in Nat
      BY <1>2, <2>1, OfProgram
    <3>2. Constructor[Setup[program][4]].opens \subseteq open \cup {"conn"}
      BY <2>1, <2>2, <3>1, OpenedBefore
    <3>3. Constructor[ConsumersSetup[4]].opens = {"driver"}
      BY ConsumersConstructors
    <3> QED BY <3>1, <3>2, <3>3
  <2>3. Constructor[Calling].opens \cap {"readers", "writers"} # {} => next > 4
    BY <2>1, ConsumersConstructors
  <2>4. Calling \in {"session", "images"} => next # 8 /\ Constructor[Calling].opens = {}
    BY <2>1, ConsumersConstructors
  <2>5. Constructor[Calling].opens \subseteq {"writers", "readers", "driver", "cluster"}
    BY <2>1, ConsumersConstructors
  <2>6. Len(Setup[program]) = 8 BY <1>2, OfProgram, ConsumersConstructors
  <2> QED BY <1>2, <2>2, <2>3, <2>4, <2>5, <2>6, OfProgram
<1>3. CASE program = "crons"
  <2>1. next \in 1..7 /\ Calling = CronsSetup[next] /\ stage = "setup"
    BY <1>3, OfProgram, CronsConstructors DEF Calling, SetupIsQuiet
  <2>2. ASSUME OpenedSoFar, next > 4 PROVE "driver" \in open
    <3>1. Setup[program] = CronsSetup /\ next \in Nat
      BY <1>3, <2>1, OfProgram
    <3>2. Constructor[Setup[program][4]].opens \subseteq open \cup {"conn"}
      BY <2>1, <2>2, <3>1, OpenedBefore
    <3>3. Constructor[CronsSetup[4]].opens = {"driver"}
      BY CronsConstructors
    <3> QED BY <3>1, <3>2, <3>3
  <2>3. Constructor[Calling].opens \cap {"readers", "writers"} # {} => next > 4
    BY <2>1, CronsConstructors
  <2>4. Calling = "session" => next # 7 /\ Constructor[Calling].opens = {}
    BY <2>1, CronsConstructors
  <2>5. Constructor[Calling].opens \subseteq {"redis", "writers", "driver", "cluster"}
    BY <2>1, CronsConstructors
  <2>6. Len(Setup[program]) = 7 BY <1>3, OfProgram, CronsConstructors
  <2> QED BY <1>3, <2>2, <2>3, <2>4, <2>5, <2>6, OfProgram
<1> QED BY <1>1, <1>2, <1>3, OfProgram

(* A constructor starts goroutines that had not begun. *)
LEMMA ConstructStarts ==
  ASSUME LifecycleTyped, SetupIsQuiet, Construct
  PROVE  /\ tasks' \in [AllTasks -> TaskStates]
         /\ \A t \in AllTasks :
              \/ tasks'[t] = tasks[t]
              \/ /\ tasks[t] = "off" /\ t \in Tasks[program]
                 /\ tasks'[t] \in {"starting", "running", "waiting"}
                 /\ t = "stopper" => tasks'[t] = "waiting"
         /\ next # Len(Setup[program]) =>
              \A t \in AllTasks : tasks'[t] # "off" => program = "server" /\ t = "grpc" /\ next + 1 > 9
<1> DEFINE ts == Started(Calling)
<1>1. /\ ts \subseteq Tasks[program] /\ \A t \in ts : tasks[t] = "off"
      /\ next # Len(Setup[program]) => ts = {} \/ (program = "server" /\ ts = {"grpc"} /\ next = 9)
  <2>1. stage = "setup" /\ next \in 1..Len(Setup[program])
    BY DEF Construct, SetupIsQuiet
  <2>2. \A t \in AllTasks : tasks[t] # "off" => program = "server" /\ t = "grpc" /\ next > 9
    BY <2>1 DEF SetupIsQuiet
  <2>3. Tasks[program] \subseteq AllTasks
    BY OfProgram DEF AllTasks
  <2>4. CASE program = "server"
    <3>1. /\ next \in 1..11 /\ Len(Setup[program]) = 11 /\ Tasks[program] = ServerTasks
          /\ Calling = "grpc" <=> next = 9
          /\ Calling = "http" <=> next = 11
      <4>1. Setup[program] = ServerSetup /\ Tasks[program] = ServerTasks
        BY <2>4, OfProgram
      <4>2. Len(Setup[program]) = 11 /\ next \in 1..11 /\ Calling = ServerSetup[next]
        BY <2>1, <4>1, ServerConstructors DEF Calling
      <4> QED BY <4>1, <4>2, ServerConstructors
    <3>2. CASE next = 9
      <4>1. ts = {"grpc"} BY <2>4, <3>1, <3>2 DEF Started
      <4>2. tasks["grpc"] = "off"
        <5>1. "grpc" \in AllTasks /\ ~(next > 9) BY <3>2 DEF AllTasks, ServerTasks
        <5> QED BY <2>2, <5>1
      <4> QED BY <2>4, <3>1, <3>2, <4>1, <4>2 DEF ServerTasks
    <3>3. CASE next = 11
      <4>1. ts = {"http", "stopper", "pprof", "pprof stopper"} BY <2>4, <3>1, <3>3 DEF Started
      <4> QED BY <2>2, <2>3, <3>1, <3>3, <4>1 DEF ServerTasks
    <3>4. CASE next # 9 /\ next # 11
      <4>1. ts = {} BY <2>4, <3>1, <3>4 DEF Started
      <4> QED BY <4>1
    <3> QED BY <3>2, <3>3, <3>4
  <2>5. CASE program # "server"
    BY <2>1, <2>2, <2>3, <2>5 DEF Started
  <2> QED BY <2>4, <2>5
<1>2. tasks' = Begin(ts)
  BY DEF Construct
<1> HIDE DEF ts
<1>3. tasks' \in [AllTasks -> TaskStates]
  BY <1>2 DEF Begin, LifecycleTyped, TaskStates
<1>4. \A t \in AllTasks \ ts : tasks'[t] = tasks[t]
  BY <1>2 DEF Begin
<1>5. \A t \in AllTasks \cap ts :
         /\ tasks'[t] \in {"starting", "running", "waiting"}
         /\ t = "stopper" => tasks'[t] = "waiting"
  BY <1>2 DEF Begin, Listeners
<1>6. next # Len(Setup[program]) =>
        \A t \in AllTasks : tasks'[t] # "off" => program = "server" /\ t = "grpc" /\ next + 1 > 9
  <2> SUFFICES ASSUME next # Len(Setup[program]), NEW t \in AllTasks, tasks'[t] # "off"
               PROVE  program = "server" /\ t = "grpc" /\ next + 1 > 9
    OBVIOUS
  <2>1. next \in Nat BY OfProgram DEF LifecycleTyped
  <2>2. CASE t \in ts BY <1>1, <2>2
  <2>3. CASE t \notin ts
    <3>1. program = "server" /\ t = "grpc" /\ next > 9
      BY <1>4, <2>3 DEF SetupIsQuiet, Construct
    <3> QED BY <3>1, <2>1
  <2> QED BY <2>2, <2>3
<1>7. \A t \in AllTasks :
         \/ tasks'[t] = tasks[t]
         \/ /\ tasks[t] = "off" /\ t \in Tasks[program]
            /\ tasks'[t] \in {"starting", "running", "waiting"}
            /\ t = "stopper" => tasks'[t] = "waiting"
  <2> SUFFICES ASSUME NEW t \in AllTasks
               PROVE  \/ tasks'[t] = tasks[t]
                      \/ /\ tasks[t] = "off" /\ t \in Tasks[program]
                         /\ tasks'[t] \in {"starting", "running", "waiting"}
                         /\ t = "stopper" => tasks'[t] = "waiting"
    OBVIOUS
  <2>1. CASE t \in ts
    <3>1. tasks[t] = "off" /\ t \in Tasks[program] BY <1>1, <2>1
    <3>2. /\ tasks'[t] \in {"starting", "running", "waiting"}
          /\ t = "stopper" => tasks'[t] = "waiting"
      BY <1>5, <2>1
    <3> QED BY <3>1, <3>2
  <2>2. CASE t \notin ts BY <1>4, <2>2
  <2> QED BY <2>1, <2>2
<1> QED BY <1>3, <1>6, <1>7

-----------------------------------------------------------------------------
(* The lifecycle, action by action. *)

LEMMA InvConstructFails ==
  ASSUME LifecycleInv, ConstructFails
  PROVE  LifecycleInv'
<1> USE DEF LifecycleInv
<1>1. LifecycleTyped'
  BY DEF LifecycleTyped, ConstructFails, Closable, CloseOrder
<1>2. SetupIsQuiet'
  BY DEF SetupIsQuiet, ConstructFails, LifecycleTyped
<1>3. OpenedSoFar'
  BY DEF OpenedSoFar, ConstructFails, LifecycleTyped
<1>4. CloseIsWaited'
  <2>1. CASE program = "crons"
    BY <2>1 DEF CloseIsWaited, ConstructFails
  <2>2. CASE program # "crons"
    <3>1. \A t \in AllTasks \ {"grpc"} : tasks[t] = "off"
      BY DEF SetupIsQuiet, ConstructFails
    <3> QED BY <3>1 DEF CloseIsWaited, ConstructFails
  <2> QED BY <2>1, <2>2
<1>5. DriverLast'
  BY DEF DriverLast, ConstructFails, LifecycleTyped
<1>6. StopperIsWoken'
  BY DEF StopperIsWoken, Done, Failed, ConstructFails, LifecycleTyped
<1>7. OkIsDone'
  BY DEF OkIsDone, ConstructFails, LifecycleTyped, Closable
<1>8. CrashesOnlyUnset'
  BY DEF CrashesOnlyUnset, ConstructFails, LifecycleTyped
<1> QED BY <1>1, <1>2, <1>3, <1>4, <1>5, <1>6, <1>7, <1>8

LEMMA InvConstructMissing ==
  ASSUME LifecycleInv, ConstructMissing
  PROVE  LifecycleInv'
<1> USE DEF LifecycleInv
<1>1. LifecycleTyped'
  <2>1. next' \in 1..(Len(Setup[program]) + 1)
    BY OfProgram DEF SetupIsQuiet, ConstructMissing, GoOn
  <2> QED BY <2>1 DEF LifecycleTyped, ConstructMissing, GoOn, Closable, CloseOrder
<1>2. SetupIsQuiet'
  BY CallingOpens, OfProgram DEF SetupIsQuiet, ConstructMissing, GoOn, LifecycleTyped
<1>3. OpenedSoFar'
  <2>1. /\ next \in Nat \ {0} /\ next' = next + 1 /\ next # Len(Setup[program]) /\ stage' = "setup"
        /\ stage = "setup" /\ UNCHANGED <<program, open>>
    BY CallingOpens, OfProgram DEF SetupIsQuiet, ConstructMissing, GoOn
  <2>2. \A i \in 1..(next' - 1) : i \in 1..(next - 1) \/ i = next
    BY <2>1
  <2>3. Constructor[Setup[program][next]].opens = {}
    BY <2>1, CallingOpens DEF Calling, ConstructMissing
  <2> QED BY <2>1, <2>2, <2>3 DEF OpenedSoFar
<1>4. CloseIsWaited'
  BY CallingOpens, OfProgram DEF CloseIsWaited, ConstructMissing, GoOn, LifecycleTyped
<1>5. DriverLast'
  BY CallingOpens, OfProgram DEF DriverLast, ConstructMissing, GoOn, LifecycleTyped
<1>6. StopperIsWoken'
  BY CallingOpens, OfProgram DEF StopperIsWoken, Done, Failed, ConstructMissing, GoOn, LifecycleTyped
<1>7. OkIsDone'
  BY CallingOpens, OfProgram DEF OkIsDone, ConstructMissing, GoOn, LifecycleTyped, Closable
<1>8. CrashesOnlyUnset'
  BY CallingOpens, OfProgram DEF CrashesOnlyUnset, ConstructMissing, GoOn, LifecycleTyped
<1> QED BY <1>1, <1>2, <1>3, <1>4, <1>5, <1>6, <1>7, <1>8

LEMMA InvWaitReturns ==
  ASSUME LifecycleInv, WaitReturns
  PROVE  LifecycleInv'
<1> USE DEF LifecycleInv
<1>1. LifecycleTyped'
  BY DEF LifecycleTyped, WaitReturns, Failed, Closable, CloseOrder
<1>2. SetupIsQuiet'
  BY DEF SetupIsQuiet, WaitReturns, Failed, LifecycleTyped
<1>3. OpenedSoFar'
  BY DEF OpenedSoFar, WaitReturns, Failed, LifecycleTyped
<1>4. CloseIsWaited'
  BY DEF CloseIsWaited, WaitReturns, Failed, LifecycleTyped
<1>5. DriverLast'
  BY DEF DriverLast, WaitReturns, Failed, LifecycleTyped
<1>6. StopperIsWoken'
  BY DEF StopperIsWoken, Done, Failed, WaitReturns, LifecycleTyped
<1>7. OkIsDone'
  <2>1. Tasks[program] \subseteq AllTasks
    BY OfProgram DEF AllTasks
  <2>2. status' = "ok" => \A t \in Tasks[program] : tasks[t] = "done"
    BY <2>1 DEF WaitReturns, Failed
  <2> QED BY <2>2 DEF OkIsDone, WaitReturns
<1>8. CrashesOnlyUnset'
  BY DEF CrashesOnlyUnset, WaitReturns, Failed, LifecycleTyped
<1> QED BY <1>1, <1>2, <1>3, <1>4, <1>5, <1>6, <1>7, <1>8

LEMMA InvCloseNext ==
  ASSUME LifecycleInv, CloseNext
  PROVE  LifecycleInv'
<1> USE DEF LifecycleInv
<1>1. LifecycleTyped'
  BY OfProgram DEF LifecycleTyped, CloseNext, Closes, Closable, CloseOrder
<1>2. SetupIsQuiet'
  BY OfProgram DEF SetupIsQuiet, CloseNext, Closes, LifecycleTyped
<1>3. OpenedSoFar'
  BY OfProgram DEF OpenedSoFar, CloseNext, Closes, LifecycleTyped
<1>4. CloseIsWaited'
  BY OfProgram DEF CloseIsWaited, CloseNext, Closes, LifecycleTyped
<1>5. DriverLast'
  <2>1. PICK r \in open : Closes(r) /\ open' = open \ {r}
    BY DEF CloseNext
  <2>2. r = "driver" => open \cap {"readers", "writers"} = {}
    <3>1. CASE program = "server"
      BY <2>1, <3>1, OfProgram DEF Closes, CloseOrder, LifecycleTyped
    <3>2. CASE program = "consumers"
      BY <2>1, <3>2, OfProgram DEF Closes, CloseOrder, LifecycleTyped
    <3>3. CASE program = "crons"
      BY <2>1, <3>3, OfProgram DEF Closes, CloseOrder, LifecycleTyped
    <3> QED BY <3>1, <3>2, <3>3, OfProgram
  <2> QED BY <2>1, <2>2 DEF DriverLast, CloseNext
<1>6. StopperIsWoken'
  BY OfProgram DEF StopperIsWoken, Done, Failed, CloseNext, Closes, LifecycleTyped
<1>7. OkIsDone'
  BY OfProgram DEF OkIsDone, CloseNext, Closes, LifecycleTyped, Closable
<1>8. CrashesOnlyUnset'
  BY OfProgram DEF CrashesOnlyUnset, CloseNext, Closes, LifecycleTyped
<1> QED BY <1>1, <1>2, <1>3, <1>4, <1>5, <1>6, <1>7, <1>8

LEMMA InvExit ==
  ASSUME LifecycleInv, Exit
  PROVE  LifecycleInv'
<1> USE DEF LifecycleInv
<1>1. LifecycleTyped'
  BY DEF LifecycleTyped, Exit, Closable, CloseOrder
<1>2. SetupIsQuiet'
  BY DEF SetupIsQuiet, Exit, LifecycleTyped
<1>3. OpenedSoFar'
  BY DEF OpenedSoFar, Exit, LifecycleTyped
<1>4. CloseIsWaited'
  BY DEF CloseIsWaited, Exit, LifecycleTyped
<1>5. DriverLast'
  BY DEF DriverLast, Exit, LifecycleTyped
<1>6. StopperIsWoken'
  BY DEF StopperIsWoken, Done, Failed, Exit, LifecycleTyped
<1>7. OkIsDone'
  BY DEF OkIsDone, Exit, LifecycleTyped, Closable
<1>8. CrashesOnlyUnset'
  BY DEF CrashesOnlyUnset, Exit, LifecycleTyped
<1> QED BY <1>1, <1>2, <1>3, <1>4, <1>5, <1>6, <1>7, <1>8

LEMMA InvInterrupt ==
  ASSUME LifecycleInv, Interrupt
  PROVE  LifecycleInv'
<1> USE DEF LifecycleInv
<1>1. LifecycleTyped'
  BY DEF LifecycleTyped, Interrupt, Done, Failed, Closable, CloseOrder
<1>2. SetupIsQuiet'
  BY DEF SetupIsQuiet, Interrupt, Done, Failed, LifecycleTyped
<1>3. OpenedSoFar'
  BY DEF OpenedSoFar, Interrupt, Done, Failed, LifecycleTyped
<1>4. CloseIsWaited'
  BY DEF CloseIsWaited, Interrupt, Done, Failed, LifecycleTyped
<1>5. DriverLast'
  BY DEF DriverLast, Interrupt, Done, Failed, LifecycleTyped
<1>6. StopperIsWoken'
  BY DEF StopperIsWoken, Interrupt, Done, Failed, LifecycleTyped
<1>7. OkIsDone'
  BY DEF OkIsDone, Interrupt, Done, Failed, LifecycleTyped, Closable
<1>8. CrashesOnlyUnset'
  BY DEF CrashesOnlyUnset, Interrupt, Done, Failed, LifecycleTyped
<1> QED BY <1>1, <1>2, <1>3, <1>4, <1>5, <1>6, <1>7, <1>8

LEMMA InvInterruptKills ==
  ASSUME LifecycleInv, InterruptKills
  PROVE  LifecycleInv'
<1> USE DEF LifecycleInv
<1>1. LifecycleTyped'
  BY DEF LifecycleTyped, InterruptKills, Alive, Closable, CloseOrder
<1>2. SetupIsQuiet'
  BY DEF SetupIsQuiet, InterruptKills, Alive, LifecycleTyped
<1>3. OpenedSoFar'
  BY DEF OpenedSoFar, InterruptKills, Alive, LifecycleTyped
<1>4. CloseIsWaited'
  BY DEF CloseIsWaited, InterruptKills, Alive, LifecycleTyped
<1>5. DriverLast'
  BY DEF DriverLast, InterruptKills, Alive, LifecycleTyped
<1>6. StopperIsWoken'
  BY DEF StopperIsWoken, Done, Failed, InterruptKills, Alive, LifecycleTyped
<1>7. OkIsDone'
  BY DEF OkIsDone, InterruptKills, Alive, LifecycleTyped, Closable
<1>8. CrashesOnlyUnset'
  BY DEF CrashesOnlyUnset, InterruptKills, Alive, LifecycleTyped
<1> QED BY <1>1, <1>2, <1>3, <1>4, <1>5, <1>6, <1>7, <1>8

LEMMA InvConnClose ==
  ASSUME LifecycleInv, ConnClose
  PROVE  LifecycleInv'
<1> USE DEF LifecycleInv
<1>1. LifecycleTyped'
  <2>1. "stopper" \in Tasks[program]
    <3>1. "stopper" \in AllTasks /\ tasks["stopper"] = "closing"
      BY DEF ConnClose, AllTasks, ServerTasks
    <3> QED BY <3>1 DEF LifecycleTyped
  <2>2. tasks' \in [AllTasks -> TaskStates] /\ \A t \in AllTasks \ {"stopper"} : tasks'[t] = tasks[t]
    BY DEF ConnClose, LifecycleTyped, TaskStates
  <2> QED BY <2>1, <2>2 DEF LifecycleTyped, ConnClose, Closable
<1>2. SetupIsQuiet'
  BY OfProgram DEF SetupIsQuiet, ConnClose, Alive, Done, Failed, LifecycleTyped
<1>3. OpenedSoFar'
  BY OfProgram DEF OpenedSoFar, ConnClose, Alive, Done, Failed, LifecycleTyped
<1>4. CloseIsWaited'
  BY OfProgram DEF CloseIsWaited, ConnClose, Alive, Done, Failed, LifecycleTyped
<1>5. DriverLast'
  BY OfProgram DEF DriverLast, ConnClose, Alive, Done, Failed, LifecycleTyped
<1>6. StopperIsWoken'
  BY OfProgram DEF StopperIsWoken, ConnClose, Alive, Done, Failed, LifecycleTyped
<1>7. OkIsDone'
  BY OfProgram DEF OkIsDone, ConnClose, Alive, Done, Failed, LifecycleTyped, Closable
<1>8. CrashesOnlyUnset'
  BY OfProgram DEF CrashesOnlyUnset, ConnClose, Alive, Done, Failed, LifecycleTyped
<1> QED BY <1>1, <1>2, <1>3, <1>4, <1>5, <1>6, <1>7, <1>8

LEMMA InvCrashes ==
  ASSUME LifecycleInv, Crashes
  PROVE  LifecycleInv'
<1> USE DEF LifecycleInv
<1>1. LifecycleTyped'
  BY DEF LifecycleTyped, Crashes, Panic, Alive, Closable, CloseOrder
<1>2. SetupIsQuiet'
  BY DEF SetupIsQuiet, Crashes, Panic, Alive, LifecycleTyped
<1>3. OpenedSoFar'
  BY DEF OpenedSoFar, Crashes, Panic, Alive, LifecycleTyped
<1>4. CloseIsWaited'
  BY DEF CloseIsWaited, Crashes, Panic, Alive, LifecycleTyped
<1>5. DriverLast'
  BY DEF DriverLast, Crashes, Panic, Alive, LifecycleTyped
<1>6. StopperIsWoken'
  BY DEF StopperIsWoken, Done, Failed, Crashes, Panic, Alive, LifecycleTyped
<1>7. OkIsDone'
  BY DEF OkIsDone, Crashes, Panic, Alive, LifecycleTyped, Closable
<1>8. CrashesOnlyUnset'
  BY DEF CrashesOnlyUnset, Crashes, Panic, Alive, LifecycleTyped
<1> QED BY <1>1, <1>2, <1>3, <1>4, <1>5, <1>6, <1>7, <1>8

LEMMA InvConstruct ==
  ASSUME LifecycleInv, Construct
  PROVE  LifecycleInv'
<1> USE DEF LifecycleInv
<1>1. /\ stage = "setup" /\ status = "none" /\ UNCHANGED <<program, interrupted, status>>
      /\ next \in 1..Len(Setup[program]) /\ next' = next + 1
      /\ stage' = IF next = Len(Setup[program]) THEN "wait" ELSE "setup"
      /\ open' = open \cup Constructor[Calling].opens
  BY DEF Construct, GoOn, SetupIsQuiet, LifecycleTyped
<1>2. Len(Setup[program]) \in Nat \ {0} /\ Closable' = Closable
  BY <1>1, OfProgram DEF Closable
<1>3. /\ tasks' \in [AllTasks -> TaskStates]
      /\ \A t \in AllTasks :
           \/ tasks'[t] = tasks[t]
           \/ /\ tasks[t] = "off" /\ t \in Tasks[program]
              /\ tasks'[t] \in {"starting", "running", "waiting"}
              /\ t = "stopper" => tasks'[t] = "waiting"
  BY ConstructStarts
<1>4. LifecycleTyped'
  <2>1. missing' \subseteq OnlyLogged[program] \cup {"interval"}
    BY DEF Construct, Accepted, LifecycleTyped
  <2>2. \A t \in AllTasks \ Tasks[program] : tasks'[t] = "off"
    BY <1>3 DEF LifecycleTyped
  <2>3. open' \subseteq Closable \cup {"conn"}
    BY <1>1, CallingOpens DEF LifecycleTyped
  <2>4. next' \in 1..(Len(Setup[program]) + 1)
    BY <1>1, <1>2
  <2> QED BY <1>1, <1>2, <1>3, <2>1, <2>2, <2>3, <2>4 DEF LifecycleTyped
<1>5. SetupIsQuiet'
  <2> SUFFICES ASSUME stage' = "setup"
               PROVE  /\ next' \in 1..Len(Setup[program])
                      /\ \A t \in AllTasks : tasks'[t] # "off" => program = "server" /\ t = "grpc" /\ next' > 9
    BY <1>1 DEF SetupIsQuiet
  <2>1. next # Len(Setup[program]) BY <1>1
  <2>2. next' \in 1..Len(Setup[program]) BY <1>1, <1>2, <2>1
  <2> QED BY <1>1, <2>1, <2>2, ConstructStarts
<1>6. OpenedSoFar'
  <2>1. \A i \in 1..(next' - 1) : i \in 1..(next - 1) \/ i = next
    BY <1>1, <1>2
  <2>2. \A i \in 1..(next' - 1) : Constructor[Setup[program][i]].opens \subseteq open' \cup {"conn"}
    BY <1>1, <2>1 DEF OpenedSoFar, Calling
  <2> QED BY <1>1, <2>2 DEF OpenedSoFar
<1>7. CloseIsWaited'
  BY <1>1 DEF CloseIsWaited
<1>8. DriverLast'
  BY <1>1, CallingOpens DEF DriverLast
<1>9. StopperIsWoken'
  <2>1. tasks["stopper"] = "off" /\ "stopper" \in AllTasks
    <3>1. "stopper" \in AllTasks BY DEF AllTasks, ServerTasks
    <3> QED BY <1>1, <3>1 DEF SetupIsQuiet
  <2>2. tasks'["stopper"] \in {"off", "waiting"}
    BY <1>3, <2>1
  <2> QED BY <1>1, <2>2, CallingOpens DEF StopperIsWoken
<1>10. OkIsDone'
  BY <1>1 DEF OkIsDone
<1>11. CrashesOnlyUnset'
  BY <1>1 DEF CrashesOnlyUnset
<1> QED BY <1>4, <1>5, <1>6, <1>7, <1>8, <1>9, <1>10, <1>11

LEMMA InvMoves ==
  ASSUME LifecycleInv, NEW t \in AllTasks, NEW from \in TaskStates, NEW to \in TaskStates, Moves(t, from, to)
  PROVE  LifecycleInv'
<1> USE DEF LifecycleInv
<1>1. /\ UNCHANGED <<program, stage, next, open, missing, interrupted, status>>
      /\ stage # "exited" /\ tasks[t] = from /\ tasks' = [tasks EXCEPT ![t] = to]
      /\ from \notin {"off", "done", "failed"} /\ to # "off"
  BY DEF Moves, Run, Alive
<1>2. /\ tasks' \in [AllTasks -> TaskStates] /\ tasks'[t] = to
      /\ \A u \in AllTasks \ {t} : tasks'[u] = tasks[u]
  BY <1>1 DEF LifecycleTyped
<1>3. t \in Tasks[program] /\ Closable' = Closable
  BY <1>1 DEF LifecycleTyped, Closable
<1>4. Done => Done'
  BY <1>1, <1>2 DEF Done, Failed
<1>5. LifecycleTyped'
  BY <1>1, <1>2, <1>3 DEF LifecycleTyped
<1>6. SetupIsQuiet'
  BY <1>1, <1>2 DEF SetupIsQuiet
<1>7. OpenedSoFar'
  BY <1>1 DEF OpenedSoFar
<1>8. CloseIsWaited'
  <2>1. Tasks[program] \subseteq AllTasks BY OfProgram DEF AllTasks
  <2> QED BY <1>1, <1>2, <1>3, <2>1 DEF CloseIsWaited
<1>9. DriverLast'
  BY <1>1 DEF DriverLast
<1>10. StopperIsWoken'
  <2>1. CASE t # "stopper"
    <3>1. tasks'["stopper"] = tasks["stopper"]
      BY <1>2, <2>1 DEF AllTasks, ServerTasks
    <3> QED BY <1>1, <1>4, <3>1 DEF StopperIsWoken
  <2>2. CASE t = "stopper"
    <3>1. Done
      BY <1>1, <2>2 DEF StopperIsWoken, Moves
    <3> QED BY <1>1, <1>2, <1>4, <2>2, <3>1 DEF StopperIsWoken, Moves
  <2> QED BY <2>1, <2>2
<1>11. OkIsDone'
  BY <1>1, <1>3 DEF OkIsDone
<1>12. CrashesOnlyUnset'
  BY <1>1 DEF CrashesOnlyUnset
<1> QED BY <1>5, <1>6, <1>7, <1>8, <1>9, <1>10, <1>11, <1>12

LEMMA LifecycleInit == ServicesInit => LifecycleInv
<1> SUFFICES ASSUME ServicesInit PROVE LifecycleInv
  OBVIOUS
<1> USE DEF ServicesInit, Init
<1>1. program \in Programs /\ next = 1 /\ open = {} /\ stage = "setup" /\ status = "none"
  OBVIOUS
<1>2. Len(Setup[program]) \in Nat \ {0}
  BY <1>1, ProgramsAssumption, SetupIsThere
<1>3. LifecycleTyped
  <2>1. tasks \in [AllTasks -> TaskStates] /\ \A t \in AllTasks : tasks[t] = "off"
    BY DEF TaskStates
  <2>2. next \in 1..(Len(Setup[program]) + 1)
    BY <1>1, <1>2
  <2> QED BY <1>1, <2>1, <2>2 DEF LifecycleTyped
<1>4. SetupIsQuiet /\ OpenedSoFar /\ CloseIsWaited
  BY <1>1, <1>2 DEF SetupIsQuiet, OpenedSoFar, CloseIsWaited
<1>5. DriverLast /\ OkIsDone /\ CrashesOnlyUnset
  BY <1>1 DEF DriverLast, OkIsDone, CrashesOnlyUnset
<1>6. StopperIsWoken
  BY <1>1 DEF StopperIsWoken, AllTasks, ServerTasks
<1> QED BY <1>3, <1>4, <1>5, <1>6 DEF LifecycleInv

LEMMA LifecycleStep == LifecycleInv /\ [Next]_vars => LifecycleInv'
<1> SUFFICES ASSUME LifecycleInv, [Next]_vars PROVE LifecycleInv'
  OBVIOUS
<1>1. CASE UNCHANGED lifecycle
  BY <1>1 DEF lifecycle, LifecycleInv, LifecycleTyped, SetupIsQuiet, OpenedSoFar, CloseIsWaited, DriverLast,
              StopperIsWoken, OkIsDone, CrashesOnlyUnset, Closable, Done, Failed
<1>2. LifecycleTyped
  BY DEF LifecycleInv
<1> QED BY <1>1, <1>2, LifecycleCases, InvConstruct, InvConstructFails, InvConstructMissing, InvWaitReturns,
           InvCloseNext, InvExit, InvInterrupt, InvInterruptKills, InvConnClose, InvCrashes, InvMoves

-----------------------------------------------------------------------------
(* The calls. *)

LEMMA CallsInit == ServicesInit => CallsInv
<1> SUFFICES ASSUME ServicesInit PROVE CallsInv
  OBVIOUS
<1>1. \A c \in Calls : calls[c] = Free
  BY DEF ServicesInit
<1>2. CallsTyped
  BY <1>1 DEF ServicesInit, CallsTyped, Free, Stations
<1>3. CallsAreServed
  BY <1>1 DEF ServicesInit, Init, CallsAreServed, Free, AllTasks, ServerTasks
<1>4. RoleChecked
  BY <1>1 DEF RoleChecked, Free
<1> QED BY <1>2, <1>3, <1>4 DEF CallsInv

Call == [at : Stations, via : {"none", "http", "grpc"}, method : Methods \cup Streams \cup {"none"},
         user : Users \cup {"none"}, code : Codes \cup {"none"}]

(* What a call may become, as far as the calls alone tell. *)
Fits(call) ==
  /\ call \in Call
  /\ call.at = "service" =>
       /\ call.user \in {"none", "user", "admin"}
       /\ call.method = "CreateOrder" => call.user \in {"user", "admin"}
       /\ call.method \in UserRoutes \cup {"DeleteOrder"} => call.user = "admin"
  /\ call.at = "answered" => call.code \in Codes

(* and as far as the goroutines do. *)
Served(call) ==
  /\ call.at \in {"server", "service", "stream"} => tasks["grpc"] = "running" /\ tasks["stopper"] # "done"
  /\ call.at \in {"connected", "gateway"} => call.via = "http"
  /\ tasks["stopper"] \in {"closing", "stopping", "done"} => (call.via = "http" => call.at = "answered")

LEMMA CallsFit ==
  CallsInv <=> (calls \in [Calls -> Call] /\ \A c \in Calls : Fits(calls[c]) /\ Served(calls[c]))
BY DEF CallsInv, CallsTyped, CallsAreServed, RoleChecked, Fits, Served, Call

LEMMA FreeFits == Fits(Free) /\ Served(Free)
BY DEF Fits, Served, Free, Call, Stations

LEMMA AnsweredFits ==
  ASSUME NEW via \in {"none", "http", "grpc"}, NEW code \in Codes
  PROVE  LET call == [Free EXCEPT !.at = "answered", !.via = via, !.code = code]
         IN  Fits(call) /\ Served(call)
BY DEF Fits, Served, Free, Call, Stations

(* One call changes. *)
LEMMA OneChanges ==
  ASSUME CallsInv, NEW c \in Calls, NEW call, Put(c, call), Fits(call), Served(call)
  PROVE  CallsInv'
<1>1. calls \in [Calls -> Call] /\ \A d \in Calls : Fits(calls[d]) /\ Served(calls[d])
  BY CallsFit
<1>2. UNCHANGED tasks
  BY DEF Put, lifecycle
<1>3. calls' = [calls EXCEPT ![c] = call] /\ call \in Call
  BY DEF Put, Fits
<1>4. calls' \in [Calls -> Call] /\ \A d \in Calls : calls'[d] = call \/ calls'[d] = calls[d]
  BY <1>1, <1>3
<1>5. \A d \in Calls : Fits(calls'[d]) /\ Served(calls'[d])
  BY <1>1, <1>4
<1>6. CallsTyped' /\ RoleChecked'
  BY <1>4, <1>5 DEF CallsTyped, RoleChecked, Fits, Call
<1>7. CallsAreServed'
  BY <1>2, <1>5 DEF CallsAreServed, Served
<1> QED BY <1>6, <1>7 DEF CallsInv

LEMMA ClientFits ==
  ASSUME LifecycleInv, CallsInv, NEW c \in Calls, Client(c)
  PROVE  CallsInv'
<1> DEFINE call == calls[c]
<1>1. call \in Call /\ Fits(call) /\ Served(call)
  BY CallsFit
<1>2. call.via \in {"none", "http", "grpc"} /\ "OK" \in Codes
  BY <1>1 DEF Call, Codes
<1>3. \A t \in AllTasks : tasks[t] # "off" => t \in Tasks[program]
  BY DEF LifecycleInv, LifecycleTyped
<1>4. CASE Connect(c)
  <2> DEFINE new == [Free EXCEPT !.at = "connected", !.via = "http"]
  <2>1. Put(c, new) /\ tasks["stopper"] \in {"off", "waiting"}
    BY <1>4 DEF Connect, Closed
  <2>2. Fits(new) /\ Served(new)
    BY <2>1 DEF Fits, Served, Call, Free, Stations
  <2> QED BY <2>1, <2>2, OneChanges
<1>5. CASE Disconnect(c) \/ Finish(c) \/ CloseStream(c)
  BY <1>5, FreeFits, OneChanges DEF Disconnect, Finish, CloseStream
<1>6. CASE Ping(c)
  BY <1>2, <1>6, AnsweredFits, OneChanges DEF Ping, Answered
<1>7. CASE SendRequest(c)
  <2>1. PICK m \in Uses[c] : Put(c, [call EXCEPT !.at = "gateway", !.method = m]) /\ call.at = "connected"
    BY <1>7 DEF SendRequest, At
  <2>2. m \in Methods \cup Streams
    BY <2>1, UsesAssumption
  <2> DEFINE new == [call EXCEPT !.at = "gateway", !.method = m]
  <2>3. Fits(new) /\ Served(new)
    BY <1>1, <2>1, <2>2 DEF Fits, Served, Call, Stations
  <2> QED BY <2>1, <2>3, OneChanges
<1>8. CASE CallDirectly(c) \/ OpenStream(c)
  <2>1. PICK m, at :
          /\ m \in Methods \cup Streams /\ at \in {"server", "stream"}
          /\ Put(c, [Free EXCEPT !.at = at, !.via = "grpc", !.method = m])
    BY <1>8 DEF CallDirectly, OpenStream
  <2>3. tasks["grpc"] = "running" /\ tasks["stopper"] \notin {"stopping", "done"}
    BY <1>8 DEF CallDirectly, OpenStream, Closed
  <2> DEFINE new == [Free EXCEPT !.at = at, !.via = "grpc", !.method = m]
  <2>4. Fits(new) /\ Served(new)
    BY <2>1, <2>3 DEF Fits, Served, Call, Free, Stations
  <2> QED BY <2>1, <2>4, OneChanges
<1>9. CASE Abandon(c)
  <2>1. CASE Put(c, Free)
    BY <2>1, FreeFits, OneChanges
  <2>2. CASE Put(c, [call EXCEPT !.via = "grpc"]) /\ call.at \in {"server", "service"}
    <3> DEFINE new == [call EXCEPT !.via = "grpc"]
    <3>1. Fits(new) /\ Served(new)
      BY <1>1, <2>2 DEF Fits, Served, Call
    <3> QED BY <2>2, <3>1, OneChanges
  <2> QED BY <1>9, <2>1, <2>2 DEF Abandon
<1> QED BY <1>4, <1>5, <1>6, <1>7, <1>8, <1>9 DEF Client

(* The user a handler asks for is there when it goes on to its service. *)
LEMMA HandedOnHasRole ==
  ASSUME NEW c \in Calls, NEW req \in RequestsOf(c), Chain(req, "pending") = "pending"
  PROVE  /\ Asked(req) \in {"none", "user", "admin"}
         /\ calls[c].method = "CreateOrder" => Asked(req) \in {"user", "admin"}
         /\ calls[c].method \in UserRoutes \cup {"DeleteOrder"} => Asked(req) = "admin"
<1>1. req.method = calls[c].method
  BY DEF RequestsOf
<1>2. /\ req.method = "CreateOrder" => req.user \in {"user", "admin"}
      /\ req.method \in UserRoutes \cup {"DeleteOrder"} => req.user = "admin"
  BY ChainIsCode, PendingHasRole
<1> QED BY <1>1, <1>2 DEF Asked, OrderRoutes

LEMMA ProgressFits ==
  ASSUME CallsInv, NEW c \in Calls, Progress(c)
  PROVE  CallsInv'
<1> DEFINE call == calls[c]
<1>1. call \in Call /\ Fits(call) /\ Served(call)
  BY CallsFit
<1>2. call.via \in {"none", "http", "grpc"}
  BY <1>1 DEF Call
<1>3. ASSUME NEW code \in Codes, Answered(c, code) PROVE CallsInv'
  BY <1>2, <1>3, AnsweredFits, OneChanges DEF Answered
<1>4. {"Canceled", "Unavailable", "Internal", "InvalidArgument"} \subseteq Codes
  BY DEF Codes
<1>5. CASE DecodeFails(c)
  BY <1>3, <1>4, <1>5 DEF DecodeFails
<1>6. CASE Invoke(c)
  <2>1. CASE NotInvoked(c, "Canceled") \/ NotInvoked(c, "Unavailable")
    BY <1>3, <1>4, <2>1 DEF NotInvoked
  <2>2. CASE /\ call.at = "gateway" /\ tasks["grpc"] = "running" /\ ~Closed("grpc")
             /\ Put(c, [call EXCEPT !.at = "server"])
    <3> DEFINE new == [call EXCEPT !.at = "server"]
    <3>1. tasks["stopper"] \notin {"stopping", "done"}
      BY <2>2 DEF Closed
    <3>2. Fits(new) /\ Served(new)
      BY <1>1, <2>2, <3>1 DEF Fits, Served, Call, Stations
    <3> QED BY <2>2, <3>2, OneChanges
  <2> QED BY <1>6, <2>1, <2>2 DEF Invoke, At
<1>7. CASE Handle(c)
  <2>1. PICK req \in RequestsOf(c) :
          IF Chain(req, "pending") = "pending"
          THEN Put(c, [call EXCEPT !.at = "service", !.user = Asked(req)])
          ELSE IF Chain(req, "pending") = "panic" THEN Panic /\ UNCHANGED calls
          ELSE Answered(c, Chain(req, "pending"))
    BY <1>7 DEF Handle
  <2>2. call.at = "server"
    BY <1>7 DEF Handle, At
  <2>3. CASE Chain(req, "pending") = "pending"
    <3> DEFINE new == [call EXCEPT !.at = "service", !.user = Asked(req)]
    <3>1. new \in Call
      BY <1>1, <2>3, HandedOnHasRole DEF Call, Stations, Users
    <3>2. Fits(new) /\ Served(new)
      BY <1>1, <2>2, <2>3, <3>1, HandedOnHasRole DEF Fits, Served, Call
    <3> QED BY <2>1, <2>3, <3>2, OneChanges
  <2>4. CASE Chain(req, "pending") # "pending"
    <3>1. Chain(req, "pending") \in Codes /\ Chain(req, "pending") # "panic"
      BY <2>4, ChainIsCode, ChainNeverPanics, KnownIsCode
    <3> QED BY <1>3, <2>1, <2>4, <3>1
  <2> QED BY <2>3, <2>4
<1>8. CASE Return(c)
  BY <1>3, <1>8, ReturnAnswers, KnownIsCode
<1> QED BY <1>5, <1>6, <1>7, <1>8 DEF Progress

(* The goroutines move on, and the calls stay as they are. *)
LEMMA GoroutinesServe ==
  ASSUME LifecycleInv, CallsInv, [Next]_vars, UNCHANGED calls
  PROVE  CallsInv'
<1>1. CallsTyped' /\ RoleChecked'
  BY DEF CallsInv, CallsTyped, RoleChecked
<1>2. "stopper" \in AllTasks /\ "grpc" \in AllTasks /\ tasks \in [AllTasks -> TaskStates] /\ LifecycleTyped
  BY DEF AllTasks, ServerTasks, LifecycleInv, LifecycleTyped
<1>3. SUFFICES CallsAreServed'
  BY <1>1 DEF CallsInv
<1>4. CASE tasks'["grpc"] = tasks["grpc"] /\ tasks'["stopper"] = tasks["stopper"]
  BY <1>4 DEF CallsInv, CallsAreServed
<1>5. CASE Construct
  <2>1. /\ tasks["grpc"] = "running" => tasks'["grpc"] = "running"
        /\ tasks'["stopper"] = tasks["stopper"] \/ tasks'["stopper"] = "waiting"
    BY <1>2, <1>5, ConstructStarts DEF LifecycleInv
  <2> QED BY <2>1 DEF CallsInv, CallsAreServed
<1>6. CASE ConnClose
  <2>1. tasks'["grpc"] = tasks["grpc"] /\ tasks["stopper"] = "closing" /\ tasks'["stopper"] = "stopping"
    BY <1>2, <1>6 DEF ConnClose
  <2> QED BY <2>1 DEF CallsInv, CallsAreServed
<1>7. ASSUME NEW t \in AllTasks, NEW from \in TaskStates, NEW to \in TaskStates, Moves(t, from, to)
      PROVE  CallsAreServed'
  <2>1. /\ tasks[t] = from /\ tasks'[t] = to /\ UNCHANGED program
        /\ \A u \in AllTasks \ {t} : tasks'[u] = tasks[u]
    BY <1>2, <1>7 DEF Moves, Run
  <2>2. CASE t = "grpc"
    <3>1. from = "running" => tasks["stopper"] = "done"
      BY <1>7, <2>2 DEF Moves
    <3>2. tasks'["stopper"] = tasks["stopper"]
      BY <1>2, <2>1, <2>2
    <3> QED BY <2>1, <2>2, <3>1, <3>2 DEF CallsInv, CallsAreServed
  <2>3. CASE t = "stopper"
    <3>1. tasks'["grpc"] = tasks["grpc"]
      BY <1>2, <2>1, <2>3
    <3>2. to = "done" => \A c \in Calls : calls[c].at \notin {"server", "service", "stream"}
      <4>1. tasks["grpc"] = "running" => program = "server"
        BY <1>2, WorkerIsOfProgram
      <4>2. to = "done" => program # "server" \/ RPCDrained
        BY <1>7, <2>3 DEF Moves
      <4> QED BY <4>1, <4>2 DEF RPCDrained, CallsInv, CallsAreServed
    <3>3. to \in {"closing", "stopping", "done"} => \A c \in Calls : calls[c].via = "http" => calls[c].at = "answered"
      <4>1. to \in {"closing", "stopping", "done"} => HTTPDrained \/ from = "stopping"
        BY <1>7, <2>3 DEF Moves
      <4> QED BY <2>1, <2>3, <4>1 DEF HTTPDrained, CallsInv, CallsAreServed
    <3> QED BY <2>1, <2>3, <3>1, <3>2, <3>3 DEF CallsInv, CallsAreServed
  <2>4. CASE t # "grpc" /\ t # "stopper"
    BY <1>2, <1>4, <2>1, <2>4
  <2> QED BY <2>2, <2>3, <2>4
<1>8. CASE \/ UNCHANGED lifecycle \/ ConstructFails \/ ConstructMissing \/ WaitReturns \/ CloseNext \/ Exit
           \/ Interrupt \/ InterruptKills \/ Crashes
  BY <1>4, <1>8 DEF lifecycle, ConstructFails, ConstructMissing, WaitReturns, CloseNext, Exit, Interrupt,
                    InterruptKills, Crashes, Panic
<1> QED BY <1>2, <1>5, <1>6, <1>7, <1>8, LifecycleCases

LEMMA CallsStep == LifecycleInv /\ CallsInv /\ [Next]_vars => CallsInv'
<1> SUFFICES ASSUME LifecycleInv, CallsInv, [Next]_vars PROVE CallsInv'
  OBVIOUS
<1>1. CASE \E c \in Calls : Progress(c) \/ Client(c)
  BY <1>1, ClientFits, ProgressFits
<1>2. CASE ConnClose /\ CutOff
  <2>1. \A c \in Calls : calls[c].via = "http" => calls[c].at = "answered"
    BY <1>2 DEF ConnClose, CallsInv, CallsAreServed
  <2>2. UNCHANGED calls
    BY <1>2, <2>1 DEF CutOff, CallsInv, CallsTyped
  <2> QED BY <2>2, GoroutinesServe
<1>3. CASE UNCHANGED calls
  BY <1>3, GoroutinesServe
<1> QED BY <1>1, <1>2, <1>3 DEF Next, Forward, Stopper, Overrun, vars

LEMMA ServicesInv == Spec => [](LifecycleInv /\ CallsInv)
<1>1. ServicesInit => LifecycleInv /\ CallsInv
  BY LifecycleInit, CallsInit
<1>2. LifecycleInv /\ CallsInv /\ [Next]_vars => LifecycleInv' /\ CallsInv'
  BY LifecycleStep, CallsStep
<1> QED BY <1>1, <1>2, PTL DEF Spec

-----------------------------------------------------------------------------
(* The types of the lifecycle and of the calls.                            *)
THEOREM ServicesTypes == Spec => []TypeOK
<1>1. LifecycleInv /\ CallsInv => TypeOK
  BY DEF LifecycleInv, CallsInv, TypeOK
<1> QED BY <1>1, ServicesInv, PTL

(* A service works only for who has the role: through the gateway or not,  *)
(* whatever headers come, for any number of calls at once.                 *)
THEOREM NoServiceWithoutRole == Spec => []RoleChecked
<1>1. CallsInv => RoleChecked
  BY DEF CallsInv
<1> QED BY <1>1, ServicesInv, PTL

(* No call and no result of a service makes a program panic.               *)
THEOREM OnlyUnsetCrashes == Spec => []CrashesOnlyUnset
<1>1. LifecycleInv => CrashesOnlyUnset
  BY DEF LifecycleInv
<1> QED BY <1>1, ServicesInv, PTL

(* A program that says it ended well was told to end, closed everything,   *)
(* and left no call behind: in any order of shutdown steps and requests.   *)
THEOREM SuccessMeansClean == Spec => []SuccessIsClean
<1>1. LifecycleInv /\ CallsInv => SuccessIsClean
  <2> SUFFICES ASSUME LifecycleInv, CallsInv, stage = "exited", status = "ok"
               PROVE  interrupted /\ open = {} /\ \A c \in Calls : calls[c].at \in {"free", "answered"}
    BY DEF SuccessIsClean
  <2> USE DEF LifecycleInv
  <2>1. LifecycleTyped /\ "stopper" \in Tasks[program] /\ Tasks[program] \subseteq AllTasks
    BY OfProgram DEF ServerTasks, ConsumersTasks, CronsTasks, AllTasks
  <2>2. \A t \in Tasks[program] : tasks[t] = "done"
    BY DEF OkIsDone
  <2>3. tasks["stopper"] = "done" BY <2>1, <2>2
  <2>4. ~Failed
    BY <2>1, <2>2 DEF Failed, LifecycleTyped
  <2>5. interrupted
    BY <2>3, <2>4 DEF StopperIsWoken, Done
  <2>6. open = {}
    BY <2>1, <2>3 DEF OkIsDone, StopperIsWoken, LifecycleTyped
  <2>7. \A c \in Calls : calls[c].at \in {"free", "answered"}
    BY <2>3 DEF CallsInv, CallsAreServed, CallsTyped, Stations
  <2> QED BY <2>5, <2>6, <2>7
<1> QED BY <1>1, ServicesInv, PTL

(* What a handler, a consumer or a job works with is open while it works:  *)
(* during the setup, the shutdown and the closing that follows g.Wait.     *)
(* Not covered is the server's closing after startServers failed with the  *)
(* gRPC server running (run_servers.go:91-93), which does not wait.        *)
THEOREM ResourcesAreThere == Spec => []ResourcesOutliveUsers
<1>1. LifecycleInv /\ CallsInv => ResourcesOutliveUsers
  <2> SUFFICES ASSUME LifecycleInv, CallsInv, Alive
               PROVE  /\ Working /\ ~NotWaited => Closable \subseteq open
                      /\ open \cap {"readers", "writers"} # {} => "driver" \in open
    BY DEF ResourcesOutliveUsers
  <2> USE DEF LifecycleInv
  <2>1. open \cap {"readers", "writers"} # {} => "driver" \in open
    BY DEF DriverLast, Alive
  <2>2. ASSUME Working, ~NotWaited PROVE Closable \subseteq open
    <3>1. PICK t \in {"grpc", "topic", "queue", "orders"} : tasks[t] \in {"running", "busy"}
      BY <2>2 DEF Working, CallsInv, CallsAreServed
    <3>2. LifecycleTyped /\ t \in AllTasks /\ Tasks[program] \subseteq AllTasks
      BY OfProgram DEF AllTasks, ServerTasks, ConsumersTasks, CronsTasks
    <3>3. t \in Tasks[program]
      BY <3>1, <3>2 DEF LifecycleTyped
    <3>4. CASE stage = "setup"
      <4>1. program = "server" /\ next > 9 /\ next \in 1..Len(Setup[program])
        BY <3>1, <3>2, <3>4 DEF SetupIsQuiet
      <4>2. Setup[program] = ServerSetup /\ Closable = {"writers", "driver", "redis", "cluster"}
        BY <3>2, <4>1, OfProgram
      <4>3. next \in Nat /\ next > 9
        BY <3>2, <4>1, OfProgram
      <4>4. \A i \in {4, 5, 6, 8} : Constructor[ServerSetup[i]].opens \subseteq open \cup {"conn"}
        BY <3>4, <4>2, <4>3, OpenedBefore
      <4> QED BY <4>2, <4>4, ServerConstructors
    <3>5. CASE stage = "wait"
      <4>1. next = Len(Setup[program]) + 1
        BY <3>5 DEF OpenedSoFar
      <4>2. \A i \in 1..Len(Setup[program]) : Constructor[Setup[program][i]].opens \subseteq open \cup {"conn"}
        BY <3>2, <3>5, <4>1, OfProgram DEF OpenedSoFar
      <4>3. CASE program = "server"
        <5>1. Setup[program] = ServerSetup /\ Len(ServerSetup) = 11
          BY <3>2, <4>3, OfProgram, ServerConstructors
        <5>2. \A i \in {4, 5, 6, 8} : i \in 1..Len(Setup[program])
          BY <5>1
        <5>3. \A i \in {4, 5, 6, 8} : Constructor[ServerSetup[i]].opens \subseteq open \cup {"conn"}
          BY <4>2, <5>1, <5>2
        <5> QED BY <3>2, <4>3, <5>3, OfProgram, ServerConstructors
      <4>4. CASE program = "consumers"
        <5>1. Setup[program] = ConsumersSetup /\ Len(ConsumersSetup) = 8
          BY <3>2, <4>4, OfProgram, ConsumersConstructors
        <5>2. \A i \in {3, 4, 7, 8} : i \in 1..Len(Setup[program])
          BY <5>1
        <5>3. \A i \in {3, 4, 7, 8} : Constructor[ConsumersSetup[i]].opens \subseteq open \cup {"conn"}
          BY <4>2, <5>1, <5>2
        <5> QED BY <3>2, <4>4, <5>3, OfProgram, ConsumersConstructors
      <4>5. CASE program = "crons"
        <5>1. Setup[program] = CronsSetup /\ Len(CronsSetup) = 7
          BY <3>2, <4>5, OfProgram, CronsConstructors
        <5>2. \A i \in {3, 4, 6, 7} : i \in 1..Len(Setup[program])
          BY <5>1
        <5>3. \A i \in {3, 4, 6, 7} : Constructor[CronsSetup[i]].opens \subseteq open \cup {"conn"}
          BY <4>2, <5>1, <5>2
        <5> QED BY <3>2, <4>5, <5>3, OfProgram, CronsConstructors
      <4> QED BY <3>2, <4>3, <4>4, <4>5, OfProgram
    <3>6. CASE stage = "close"
      <4>1. t = "grpc" /\ tasks["stopper"] = "off"
        <5>1. "stopper" \in AllTasks BY DEF AllTasks, ServerTasks
        <5> QED BY <3>1, <3>2, <3>3, <3>6, <5>1 DEF CloseIsWaited
      <4>2. program = "server"
        BY <3>1, <3>2, <4>1, WorkerIsOfProgram
      <4> QED BY <2>2, <3>6, <4>1, <4>2 DEF NotWaited
    <3> QED BY <3>2, <3>4, <3>5, <3>6 DEF LifecycleTyped, Alive
  <2> QED BY <2>1, <2>2
<1> QED BY <1>1, ServicesInv, PTL
-----------------------------------------------------------------------------
(* The answers that the calls get. *)

(* The connection of the gateway is there once it was constructed, until   *)
(* the stopper closes it; the gRPC server is started before the HTTP       *)
(* server, and serves until it is stopped.                                 *)
ConnIsThere ==
  program = "server" /\ next > 10 => "conn" \in open \/ tasks["stopper"] \in {"stopping", "done"}

StartOrder ==
  program = "server" =>
    /\ tasks["http"] # "off" => next > 11
    /\ next > 9 => tasks["grpc"] # "off"

GRPCServes ==
  /\ tasks["grpc"] \in {"off", "starting", "running", "done", "failed"}
  /\ tasks["grpc"] = "done" => tasks["stopper"] = "done"

(* Who is connected has met the HTTP server, and only that of the server   *)
(* program has a gateway.                                                  *)
Connected ==
  \A c \in Calls :
    /\ calls[c].at \in {"connected", "gateway"} => tasks["http"] # "off"
    /\ calls[c].at = "gateway" => program = "server"

(* A code is an answer. *)
Unanswered == \A c \in Calls : calls[c].at # "answered" => calls[c].code = "none"

GatewayInv == ConnIsThere /\ StartOrder /\ GRPCServes /\ Connected /\ Unanswered

LEMMA TheTasks ==
  /\ {"http", "grpc", "stopper"} \subseteq AllTasks
  /\ Len(Setup["server"]) = 11
BY ServerConstructors DEF AllTasks, ServerTasks, Setup

LEMMA GatewayInit == ServicesInit => GatewayInv
<1> SUFFICES ASSUME ServicesInit PROVE GatewayInv
  OBVIOUS
<1>1. /\ next = 1 /\ tasks["http"] = "off" /\ tasks["grpc"] = "off"
      /\ \A c \in Calls : calls[c].at = "free" /\ calls[c].code = "none"
  BY TheTasks DEF ServicesInit, Init, Free
<1> QED BY <1>1 DEF GatewayInv, ConnIsThere, StartOrder, GRPCServes, Connected, Unanswered

(* A constructor of the server opens the connection before it starts the   *)
(* HTTP server.                                                            *)
LEMMA GatewayConstruct ==
  ASSUME LifecycleInv, GatewayInv, Construct
  PROVE  ConnIsThere' /\ StartOrder' /\ GRPCServes' /\ (tasks["http"] # "off" => tasks'["http"] # "off")
<1> USE DEF LifecycleInv
<1>1. /\ stage = "setup" /\ UNCHANGED program
      /\ next \in 1..Len(Setup[program]) /\ next' = next + 1
      /\ open' = open \cup Constructor[Calling].opens
      /\ tasks' = Begin(Started(Calling))
  BY DEF Construct, GoOn, SetupIsQuiet
<1>2. /\ tasks' \in [AllTasks -> TaskStates]
      /\ \A t \in AllTasks :
           \/ tasks'[t] = tasks[t]
           \/ tasks[t] = "off" /\ t \in Tasks[program] /\ tasks'[t] \in {"starting", "running", "waiting"}
      /\ next # Len(Setup[program]) =>
           \A t \in AllTasks : tasks'[t] # "off" => program = "server" /\ t = "grpc" /\ next + 1 > 9
  BY ConstructStarts
<1>3. tasks["http"] # "off" => tasks'["http"] # "off"
  BY <1>2, TheTasks
<1>4. tasks["stopper"] = "off"
  BY <1>1, TheTasks DEF SetupIsQuiet
<1>5. ConnIsThere' /\ StartOrder'
  <2> SUFFICES ASSUME program = "server" PROVE ConnIsThere' /\ StartOrder'
    BY <1>1 DEF ConnIsThere, StartOrder
  <2>1. next \in 1..11 /\ Calling = ServerSetup[next]
    BY <1>1, TheTasks DEF Calling, Setup
  <2>2. ConnIsThere'
    <3>1. CASE next > 10
      BY <1>1, <1>4, <3>1 DEF ConnIsThere, GatewayInv
    <3>2. CASE next = 10
      <4>1. "conn" \in Constructor[Calling].opens
        BY <2>1, <3>2 DEF ServerSetup, Constructor, NewConn
      <4> QED BY <1>1, <4>1 DEF ConnIsThere
    <3>3. CASE next < 10
      <4>1. ~(next' > 10) BY <1>1, <2>1, <3>3
      <4> QED BY <4>1 DEF ConnIsThere
    <3> QED BY <2>1, <3>1, <3>2, <3>3
  <2>3. tasks'["http"] # "off" => next' > 11
    <3>1. CASE next = 11 BY <1>1, <3>1
    <3>2. CASE next # 11 BY <1>2, <3>2, TheTasks
    <3> QED BY <3>1, <3>2
  <2>4. next' > 9 => tasks'["grpc"] # "off"
    <3>1. CASE next > 9
      BY <1>2, <3>1, TheTasks DEF GatewayInv, StartOrder
    <3>2. CASE next = 9
      <4>1. Calling = "grpc"
        BY <2>1, <3>2, ServerConstructors
      <4>2. Started(Calling) = {"grpc"}
        BY <4>1 DEF Started
      <4> QED BY <1>1, <4>2, TheTasks DEF Begin, Listeners
    <3>3. CASE next < 9
      BY <1>1, <2>1, <3>3
    <3> QED BY <2>1, <3>1, <3>2, <3>3
  <2> QED BY <1>1, <2>2, <2>3, <2>4 DEF StartOrder
<1>6. GRPCServes'
  <2>1. tasks'["grpc"] = tasks["grpc"] \/ tasks'["grpc"] = "starting"
    <3>1. tasks'["grpc"] = IF "grpc" \in Started(Calling) THEN "starting" ELSE tasks["grpc"]
      BY <1>1, TheTasks DEF Begin, Listeners
    <3> QED BY <3>1
  <2>2. tasks["grpc"] # "done"
    BY <1>4 DEF GatewayInv, GRPCServes
  <2> QED BY <2>1, <2>2 DEF GatewayInv, GRPCServes
<1> QED BY <1>3, <1>5, <1>6

LEMMA GatewayLifecycle ==
  ASSUME LifecycleInv, GatewayInv, [Next]_vars
  PROVE  /\ ConnIsThere' /\ StartOrder' /\ GRPCServes'
         /\ UNCHANGED program /\ (tasks["http"] # "off" => tasks'["http"] # "off")
<1> USE DEF LifecycleInv, GatewayInv
<1>1. CASE UNCHANGED lifecycle
  BY <1>1 DEF lifecycle, ConnIsThere, StartOrder, GRPCServes
<1>2. CASE Construct
  BY <1>2, GatewayConstruct DEF Construct
<1>3. CASE \/ ConstructFails \/ WaitReturns \/ Exit \/ Interrupt \/ InterruptKills \/ Crashes
  BY <1>3 DEF ConstructFails, WaitReturns, Exit, Interrupt, InterruptKills, Crashes, Panic,
              ConnIsThere, StartOrder, GRPCServes
<1>4. CASE ConstructMissing
  <2>1. program # "server"
    BY <1>4 DEF ConstructMissing, OnlyLogged
  <2> QED BY <1>4, <2>1 DEF ConstructMissing, ConnIsThere, StartOrder, GRPCServes
<1>5. CASE CloseNext
  <2>1. UNCHANGED <<program, next, tasks>>
    BY <1>5 DEF CloseNext
  <2>2. program = "server" /\ "conn" \in open => "conn" \in open'
    BY <1>5 DEF CloseNext, Closes, CloseOrder
  <2> QED BY <2>1, <2>2 DEF ConnIsThere, StartOrder, GRPCServes
<1>6. CASE ConnClose
  <2>1. /\ UNCHANGED <<program, next>> /\ tasks["stopper"] = "closing" /\ tasks'["stopper"] = "stopping"
        /\ tasks'["http"] = tasks["http"] /\ tasks'["grpc"] = tasks["grpc"]
    BY <1>6, TheTasks DEF ConnClose, LifecycleTyped
  <2> QED BY <2>1 DEF ConnIsThere, StartOrder, GRPCServes
<1>7. ASSUME NEW t \in AllTasks, NEW from \in TaskStates, NEW to \in TaskStates, Moves(t, from, to)
      PROVE  /\ ConnIsThere' /\ StartOrder' /\ GRPCServes'
             /\ UNCHANGED program /\ (tasks["http"] # "off" => tasks'["http"] # "off")
  <2>1. /\ UNCHANGED <<program, next, open>> /\ tasks[t] = from /\ tasks'[t] = to
        /\ \A u \in AllTasks \ {t} : tasks'[u] = tasks[u]
        /\ from \notin {"off", "done", "failed"} /\ to # "off"
    BY <1>7 DEF Moves, Run, LifecycleTyped
  <2>2. ConnIsThere'
    <3>1. tasks["stopper"] \in {"stopping", "done"} => tasks'["stopper"] \in {"stopping", "done"}
      <4>1. CASE t = "stopper" BY <1>7, <2>1, <4>1 DEF Moves
      <4>2. CASE t # "stopper" BY <2>1, <4>2, TheTasks
      <4> QED BY <4>1, <4>2
    <3> QED BY <2>1, <3>1 DEF ConnIsThere
  <2>3. \A u \in {"http", "grpc"} : tasks'[u] = "off" <=> tasks[u] = "off"
    BY <2>1, TheTasks
  <2>4. StartOrder'
    BY <2>1, <2>3 DEF StartOrder
  <2>5. GRPCServes'
    <3>1. CASE t = "grpc"
      <4>1. tasks'["stopper"] = tasks["stopper"]
        BY <2>1, <3>1, TheTasks
      <4> QED BY <1>7, <2>1, <3>1, <4>1 DEF Moves, GRPCServes
    <3>2. CASE t # "grpc"
      <4>1. tasks'["grpc"] = tasks["grpc"]
        BY <2>1, <3>2, TheTasks
      <4>2. tasks["stopper"] = "done" => tasks'["stopper"] = "done"
        BY <2>1, TheTasks
      <4> QED BY <4>1, <4>2 DEF GRPCServes
    <3> QED BY <3>1, <3>2
  <2> QED BY <2>1, <2>2, <2>3, <2>4, <2>5
<1> QED BY <1>1, <1>2, <1>3, <1>4, <1>5, <1>6, <1>7, LifecycleCases

-----------------------------------------------------------------------------
(* What one call does, as far as its answer tells.                         *)
Step(before, after) ==
  /\ after.at # "answered" => after.code = "none" \/ (before.at # "answered" /\ after.code = before.code)
  /\ after.at \in {"connected", "gateway"} =>
       \/ after.at = before.at
       \/ after.at = "connected" /\ tasks["http"] # "off"
       \/ after.at = "gateway" /\ before.at = "connected" /\ program = "server"
  /\ after.code # before.code =>
       /\ after.code = "Canceled" => before.at = "gateway" /\ "conn" \notin open
       /\ after.code = "Unavailable" =>
            before.at = "gateway" /\ ~(tasks["grpc"] = "running" /\ ~Closed("grpc"))
       /\ before.at = "service" /\ after.code = "Unknown" => before.method = "ListDeliveries"

LEMMA PutSteps ==
  ASSUME CallsInv, NEW c \in Calls, NEW call, Put(c, call), Step(calls[c], call)
  PROVE  \A d \in Calls : calls'[d] = calls[d] \/ Step(calls[d], calls'[d])
BY DEF Put, CallsInv, CallsTyped

LEMMA AnsweredSteps ==
  ASSUME CallsInv, NEW c \in Calls, NEW code, Answered(c, code),
         code = "Canceled" => At(c, "gateway") /\ "conn" \notin open,
         code = "Unavailable" => At(c, "gateway") /\ ~(tasks["grpc"] = "running" /\ ~Closed("grpc")),
         At(c, "service") /\ code = "Unknown" => calls[c].method = "ListDeliveries",
         Alive
  PROVE  \A d \in Calls : calls'[d] = calls[d] \/ Step(calls[d], calls'[d])
<1> DEFINE call == [Free EXCEPT !.at = "answered", !.via = calls[c].via, !.code = code]
<1>1. call.at = "answered" /\ call.code = code
  BY DEF Free
<1>2. Step(calls[c], call)
  BY <1>1 DEF Step, At
<1> QED BY <1>2, PutSteps DEF Answered

LEMMA ClientSteps ==
  ASSUME CallsInv, NEW c \in Calls, Client(c)
  PROVE  \A d \in Calls : calls'[d] = calls[d] \/ Step(calls[d], calls'[d])
<1> DEFINE call == calls[c]
<1>1. call \in Call
  BY CallsFit
<1>2. Step(call, Free)
  BY DEF Step, Free
<1>3. CASE Connect(c)
  <2> DEFINE new == [Free EXCEPT !.at = "connected", !.via = "http"]
  <2>1. Put(c, new) /\ tasks["http"] = "running"
    BY <1>3 DEF Connect
  <2>2. Step(call, new)
    BY <2>1 DEF Step, Free
  <2> QED BY <2>1, <2>2, PutSteps
<1>4. CASE Disconnect(c) \/ Finish(c) \/ CloseStream(c)
  BY <1>2, <1>4, PutSteps DEF Disconnect, Finish, CloseStream
<1>5. CASE Ping(c)
  BY <1>5, AnsweredSteps DEF Ping, At
<1>6. CASE SendRequest(c)
  <2>1. PICK m \in Uses[c] : Put(c, [call EXCEPT !.at = "gateway", !.method = m])
    BY <1>6 DEF SendRequest
  <2>2. call.at = "connected" /\ program = "server"
    BY <1>6 DEF SendRequest, At
  <2>3. Step(call, [call EXCEPT !.at = "gateway", !.method = m])
    BY <1>1, <2>2 DEF Step, Call
  <2> QED BY <2>1, <2>3, PutSteps
<1>7. CASE CallDirectly(c) \/ OpenStream(c)
  <2>1. PICK m, at : /\ at \in {"server", "stream"}
                     /\ Put(c, [Free EXCEPT !.at = at, !.via = "grpc", !.method = m])
    BY <1>7 DEF CallDirectly, OpenStream
  <2>2. Step(call, [Free EXCEPT !.at = at, !.via = "grpc", !.method = m])
    BY <2>1 DEF Step, Free
  <2> QED BY <2>1, <2>2, PutSteps
<1>8. CASE Abandon(c)
  <2>1. Step(call, [call EXCEPT !.via = "grpc"])
    BY <1>1 DEF Step, Call
  <2> QED BY <1>2, <1>8, <2>1, PutSteps DEF Abandon
<1> QED BY <1>3, <1>4, <1>5, <1>6, <1>7, <1>8 DEF Client

LEMMA ProgressSteps ==
  ASSUME CallsInv, NEW c \in Calls, Progress(c)
  PROVE  \A d \in Calls : calls'[d] = calls[d] \/ Step(calls[d], calls'[d])
<1> DEFINE call == calls[c]
<1>1. call \in Call
  BY CallsFit
<1>2. CASE DecodeFails(c)
  BY <1>2, AnsweredSteps DEF DecodeFails, At
<1>3. CASE Invoke(c)
  <2>1. At(c, "gateway") /\ Alive
    BY <1>3 DEF Invoke, At
  <2>2. CASE "conn" \notin open
    <3>1. NotInvoked(c, "Canceled")
      BY <1>3, <2>2 DEF Invoke
    <3>2. PICK code \in {"Canceled", "Internal"} : Answered(c, code)
      BY <3>1 DEF NotInvoked
    <3> QED BY <2>1, <2>2, <3>2, AnsweredSteps
  <2>3. CASE "conn" \in open /\ tasks["grpc"] = "running" /\ ~Closed("grpc")
    <3>1. Put(c, [call EXCEPT !.at = "server"])
      BY <1>3, <2>3 DEF Invoke
    <3>2. Step(call, [call EXCEPT !.at = "server"])
      BY <1>1, <2>1 DEF At, Step, Call
    <3> QED BY <3>1, <3>2, PutSteps
  <2>4. CASE "conn" \in open /\ ~(tasks["grpc"] = "running" /\ ~Closed("grpc"))
    <3>1. NotInvoked(c, "Unavailable")
      BY <1>3, <2>4 DEF Invoke
    <3>2. PICK code \in {"Unavailable", "Internal"} : Answered(c, code)
      BY <3>1 DEF NotInvoked
    <3> QED BY <2>1, <2>4, <3>2, AnsweredSteps
  <2> QED BY <2>2, <2>3, <2>4
<1>4. CASE Handle(c)
  <2>1. PICK req \in RequestsOf(c) :
          IF Chain(req, "pending") = "pending"
          THEN Put(c, [call EXCEPT !.at = "service", !.user = Asked(req)])
          ELSE IF Chain(req, "pending") = "panic" THEN Panic /\ UNCHANGED calls
          ELSE Answered(c, Chain(req, "pending"))
    BY <1>4 DEF Handle
  <2>2. call.at = "server" /\ Alive
    BY <1>4 DEF Handle, At
  <2>3. CASE Put(c, [call EXCEPT !.at = "service", !.user = Asked(req)])
    <3>1. Step(call, [call EXCEPT !.at = "service", !.user = Asked(req)])
      BY <1>1, <2>2 DEF Step, Call
    <3> QED BY <2>3, <3>1, PutSteps
  <2>4. CASE Answered(c, Chain(req, "pending"))
    <3>1. Chain(req, "pending") \notin {"Canceled", "Unavailable"}
      BY ChainIsCode DEF Known
    <3> QED BY <2>2, <2>4, <3>1, AnsweredSteps DEF At
  <2> QED BY <2>1, <2>3, <2>4, ChainNeverPanics
<1>5. CASE Return(c)
  <2>1. PICK code \in Known \cup {"Unknown"} :
           /\ At(c, "service") /\ Answered(c, code)
           /\ code = "Unknown" => call.method = "ListDeliveries"
    BY <1>5, ReturnAnswers
  <2>2. code \notin {"Canceled", "Unavailable"}
    BY DEF Known
  <2> QED BY <2>1, <2>2, AnsweredSteps DEF At
<1> QED BY <1>2, <1>3, <1>4, <1>5 DEF Progress

(* When the connection of the gateway is closed, nobody uses it: Shutdown  *)
(* has seen the requests of the HTTP clients end.                          *)
LEMMA CutOffCutsNobody ==
  ASSUME CallsInv, ConnClose, CutOff
  PROVE  UNCHANGED calls
<1>1. calls \in [Calls -> Call] /\ \A c \in Calls : calls[c].via = "http" => calls[c].at = "answered"
  BY CallsFit DEF ConnClose, CallsInv, CallsAreServed, Run
<1>2. \A c \in Calls : calls'[c] = calls[c]
  BY <1>1 DEF CutOff
<1>3. calls' \in [Calls -> Call]
  BY <1>1, <1>2 DEF CutOff
<1> QED BY <1>1, <1>2, <1>3

LEMMA CallsMove ==
  ASSUME CallsInv, [Next]_vars
  PROVE  \A c \in Calls : calls'[c] = calls[c] \/ Step(calls[c], calls'[c])
<1>1. CASE Stopper
  BY <1>1, CutOffCutsNobody DEF Stopper
<1>2. CASE \E c \in Calls : Progress(c) \/ Client(c)
  BY <1>2, ClientSteps, ProgressSteps
<1>3. CASE UNCHANGED calls
  BY <1>3
<1> QED BY <1>1, <1>2, <1>3 DEF Next, Forward, Overrun, vars

LEMMA GatewayStep == LifecycleInv /\ CallsInv /\ GatewayInv /\ [Next]_vars => GatewayInv'
<1> SUFFICES ASSUME LifecycleInv, CallsInv, GatewayInv, [Next]_vars PROVE GatewayInv'
  OBVIOUS
<1>1. /\ ConnIsThere' /\ StartOrder' /\ GRPCServes'
      /\ UNCHANGED program /\ (tasks["http"] # "off" => tasks'["http"] # "off")
  BY GatewayLifecycle
<1>2. Connected'
  <2> SUFFICES ASSUME NEW c \in Calls
               PROVE  /\ calls'[c].at \in {"connected", "gateway"} => tasks'["http"] # "off"
                      /\ calls'[c].at = "gateway" => program' = "server"
    BY DEF Connected
  <2>1. CASE calls'[c] = calls[c]
    BY <1>1, <2>1 DEF GatewayInv, Connected
  <2>2. CASE Step(calls[c], calls'[c])
    BY <1>1, <2>2 DEF GatewayInv, Connected, Step
  <2> QED BY <2>1, <2>2, CallsMove
<1>3. Unanswered'
  <2> SUFFICES ASSUME NEW c \in Calls, calls'[c].at # "answered" PROVE calls'[c].code = "none"
    BY DEF Unanswered
  <2>1. calls[c].at # "answered" => calls[c].code = "none"
    BY DEF GatewayInv, Unanswered
  <2> QED BY <2>1, CallsMove DEF Step
<1> QED BY <1>1, <1>2, <1>3 DEF GatewayInv

LEMMA AnswersInv == Spec => [](LifecycleInv /\ CallsInv /\ GatewayInv)
<1>1. Spec => [](LifecycleInv /\ CallsInv)
  BY ServicesInv
<1> QED BY <1>1, GatewayInit, GatewayStep, PTL DEF Spec

(* Where a call stands with the gateway, the connection is open, and the   *)
(* gRPC server was started and is not being stopped.                       *)
LEMMA GatewayConnects ==
  ASSUME LifecycleInv, CallsInv, GatewayInv, NEW c \in Calls, calls[c].at = "gateway"
  PROVE  "conn" \in open /\ ~Closed("grpc") /\ tasks["grpc"] \in {"starting", "running", "failed"}
<1>1. program = "server" /\ tasks["http"] # "off" /\ next \in Nat
  BY DEF GatewayInv, Connected, LifecycleInv, LifecycleTyped
<1>2. tasks["stopper"] \notin {"closing", "stopping", "done"}
  BY DEF CallsInv, CallsAreServed
<1>3. "conn" \in open /\ tasks["grpc"] # "off"
  BY <1>1, <1>2 DEF GatewayInv, ConnIsThere, StartOrder
<1> QED BY <1>2, <1>3 DEF GatewayInv, GRPCServes, Closed

(* No request that the HTTP server accepted is cut off by the shutdown; it *)
(* finds the gRPC server missing only before that listens.                 *)
THEOREM AcceptedRequestsAreServed == Spec => AcceptedIsServed
<1> DEFINE Answers == \A c \in Calls : calls'[c].code # calls[c].code =>
                        /\ calls'[c].code # "Canceled"
                        /\ calls'[c].code = "Unavailable" => tasks["grpc"] \in {"starting", "failed"}
<1>1. LifecycleInv /\ CallsInv /\ GatewayInv /\ [Next]_vars => [Answers]_vars
  <2> SUFFICES ASSUME LifecycleInv, CallsInv, GatewayInv, [Next]_vars, NEW c \in Calls,
                      calls'[c].code # calls[c].code
               PROVE  /\ calls'[c].code # "Canceled"
                      /\ calls'[c].code = "Unavailable" => tasks["grpc"] \in {"starting", "failed"}
    OBVIOUS
  <2>1. Step(calls[c], calls'[c])
    BY CallsMove
  <2> QED BY <2>1, GatewayConnects DEF Step
<1> QED BY <1>1, AnswersInv, PTL DEF Spec, AcceptedIsServed

(* The words of an unknown error of a service leave through ListDeliveries *)
(* alone, whatever request it was called for.                              *)
THEOREM UnknownErrorsStayInside == Spec => ErrorsStayInside
<1>1. LifecycleInv /\ CallsInv /\ GatewayInv /\ [Next]_vars =>
        [\A c \in Calls : calls[c].at = "service" /\ calls'[c].code = "Unknown" =>
            calls[c].method = "ListDeliveries"]_vars
  <2> SUFFICES ASSUME CallsInv, GatewayInv, [Next]_vars, NEW c \in Calls,
                      calls[c].at = "service", calls'[c].code = "Unknown"
               PROVE  calls[c].method = "ListDeliveries"
    OBVIOUS
  <2>1. calls[c].code # "Unknown"
    BY DEF GatewayInv, Unanswered
  <2> QED BY <2>1, CallsMove DEF Step
<1> QED BY <1>1, AnswersInv, PTL DEF Spec, ErrorsStayInside
=============================================================================
