------------------------------ MODULE Services ------------------------------
(***************************************************************************)
(* The programs of Lifecycle with those who call them.  An HTTP client     *)
(* connects and sends a request, which the gateway hands to the gRPC       *)
(* server over the connection startServers opened; a gRPC client calls the *)
(* server directly; either passes the interceptors and the handler of      *)
(* Requests.  A gRPC client may also open a stream, and keep it.           *)
(* The HTTP servers of the consumers and crons answer /ping.    *)
(* The services behind the handlers are external and return anything.      *)
(***************************************************************************)
EXTENDS Lifecycle, Requests

CONSTANTS
  Calls,   \* how many are under way at once
  Uses     \* the methods and streams each of them may ask for

ASSUME UsesAssumption == Uses \in [Calls -> SUBSET (Methods \cup Streams)]

VARIABLE calls   \* where each call stands, and what is known of it

vars == <<lifecycle, calls>>

Stations == {"free", "connected", "gateway", "server", "service", "stream", "answered"}
Free == [at |-> "free", via |-> "none", method |-> "none", user |-> "none", code |-> "none"]

ServicesInit == Init /\ calls = [c \in Calls |-> Free]

At(c, station) == Alive /\ calls[c].at = station
Put(c, call) == calls' = [calls EXCEPT ![c] = call] /\ UNCHANGED lifecycle

Answered(c, code) == Put(c, [Free EXCEPT !.at = "answered", !.via = calls[c].via, !.code = code])

-----------------------------------------------------------------------------
(* A connection to the HTTP server is accepted while it serves; what is    *)
(* accepted may send its request even when the server is shutting down.    *)
Connect(c) ==
  /\ At(c, "free")
  /\ tasks["http"] = "running" /\ ~Closed("http")
  /\ Put(c, [Free EXCEPT !.at = "connected", !.via = "http"])

Disconnect(c) == At(c, "connected") /\ Put(c, Free)

(* pingHandler *)
Ping(c) ==
  /\ At(c, "connected")
  /\ program # "server"
  /\ Answered(c, "OK")

SendRequest(c) ==
  /\ At(c, "connected")
  /\ program = "server"
  /\ \E m \in Uses[c] \cap (Routes \cup {Health}) :
       Put(c, [calls[c] EXCEPT !.at = "gateway", !.method = m])

(* A body that does not parse. *)
DecodeFails(c) ==
  /\ At(c, "gateway")
  /\ "body" \in Arguments(calls[c].method)
  /\ Answered(c, "InvalidArgument")

(* The client stub.  The health check handler has 500 for every error.     *)
NotInvoked(c, code) == Answered(c, IF calls[c].method = Health THEN "Internal" ELSE code)

Invoke(c) ==
  /\ At(c, "gateway")
  /\ CASE "conn" \notin open -> NotInvoked(c, "Canceled")
       [] "conn" \in open /\ tasks["grpc"] = "running" /\ ~Closed("grpc") ->
            Put(c, [calls[c] EXCEPT !.at = "server"])
       [] OTHER -> NotInvoked(c, "Unavailable")

(* A gRPC client calls without the gateway. *)
CallDirectly(c) ==
  /\ At(c, "free")
  /\ tasks["grpc"] = "running" /\ ~Closed("grpc")
  /\ \E m \in Uses[c] \cap Methods :
       Put(c, [Free EXCEPT !.at = "server", !.via = "grpc", !.method = m])

(* It opens a stream, which no interceptor sees, and ends it when it likes. *)
OpenStream(c) ==
  /\ At(c, "free")
  /\ tasks["grpc"] = "running" /\ ~Closed("grpc")
  /\ \E m \in Uses[c] \cap Streams :
       Put(c, [Free EXCEPT !.at = "stream", !.via = "grpc", !.method = m])

CloseStream(c) == At(c, "stream") /\ Put(c, Free)

(* The requests a call may be.  headerTransporter hands one value of each  *)
(* header on, but the gateway has a prefix of its own for others to join   *)
(* them: a header may arrive twice either way.                             *)
RequestsOf(c) ==
  [method : {calls[c].method}, user : Users, requestId : RequestIds, valid : BOOLEAN]

(* auth.GetUserInfo: the user, where the handler asks for it. *)
Asked(req) == IF req.method \in UserRoutes \cup OrderRoutes THEN req.user ELSE "none"

(* The interceptors and the handler, up to the call of the service. *)
Handle(c) ==
  /\ At(c, "server")
  /\ \E req \in RequestsOf(c) :
       IF Chain(req, "pending") = "pending"
       THEN Put(c, [calls[c] EXCEPT !.at = "service", !.user = Asked(req)])
       ELSE IF Chain(req, "pending") = "panic"
       THEN Panic /\ UNCHANGED calls
       ELSE Answered(c, Chain(req, "pending"))

(* The service returns. *)
Return(c) ==
  /\ At(c, "service")
  /\ \E result \in Results :
       LET code == Chain([method |-> calls[c].method, user |-> calls[c].user,
                          requestId |-> "single", valid |-> TRUE], result)
       IN  IF code = "panic"
           THEN Panic /\ UNCHANGED calls
           ELSE Answered(c, code)

(* The HTTP client goes away: the gateway gives up the call, the server's  *)
(* handler does not.                                                       *)
Abandon(c) ==
  /\ Alive
  /\ calls[c].via = "http"
  /\ \/ calls[c].at = "gateway" /\ Put(c, Free)
     \/ calls[c].at \in {"server", "service"} /\ Put(c, [calls[c] EXCEPT !.via = "grpc"])

Finish(c) == At(c, "answered") /\ Put(c, Free)

-----------------------------------------------------------------------------
(* http.Server.Shutdown waits for the connections that are not idle,       *)
(* GracefulStop for the handlers, those of streams included.               *)
HTTPDrained == \A c \in Calls : calls[c].via = "http" => calls[c].at = "answered"
RPCDrained  == \A c \in Calls : calls[c].at \notin {"server", "service", "stream"}

(* A closed connection takes the calls the gateway made over it along. *)
CutOff ==
  calls' = [c \in Calls |->
    IF calls[c].via = "http" /\ calls[c].at \in {"server", "service"}
    THEN [Free EXCEPT !.at = "answered", !.via = "http", !.code = "Canceled"]
    ELSE calls[c]]

Stopper ==
  \/ ShutdownReturns(HTTPDrained) /\ UNCHANGED calls
  \/ GracefulStop(RPCDrained) /\ UNCHANGED calls
  \/ ConnClose /\ CutOff

Overrun == ShutdownTimesOut(HTTPDrained) /\ UNCHANGED calls

(* The steps every program comes to an end of, however it is used. *)
Forward ==
  \/ (MainStep \/ ListenerStep \/ WorkerStops \/ StopperWakes
        \/ PprofStopperWakes \/ PprofShutdown) /\ UNCHANGED calls
  \/ Stopper \/ Overrun

Progress(c) == DecodeFails(c) \/ Invoke(c) \/ Handle(c) \/ Return(c)

Client(c) ==
  \/ Connect(c) \/ Disconnect(c) \/ Ping(c) \/ SendRequest(c) \/ Abandon(c) \/ Finish(c)
  \/ CallDirectly(c) \/ OpenStream(c) \/ CloseStream(c)

Next ==
  \/ Forward
  \/ (Signal \/ TopicFails \/ Tick \/ TickEnds \/ CronStops) /\ UNCHANGED calls
  \/ \E c \in Calls : Progress(c) \/ Client(c)

Spec == ServicesInit /\ [][Next]_vars

(* Goroutines run, Shutdown returns or times out, jobs end, and services   *)
(* answer.  A select with two cases ready takes each of them at times.     *)
(* Nobody has to call, to signal or to fail, nor to end a stream.          *)
FairSpec ==
  /\ Spec
  /\ WF_vars(Forward)
  /\ WF_vars(TickEnds /\ UNCHANGED calls) /\ SF_vars(CronStops /\ UNCHANGED calls)
  /\ \A c \in Calls : WF_vars(Progress(c))

-----------------------------------------------------------------------------
(* The types of the variables; what is open, under way or given up belongs *)
(* to the program; a call that is with a service has passed the            *)
(* interceptors, one that was answered has a code.                         *)
LifecycleTyped ==
  /\ program \in Programs
  /\ stage \in {"setup", "wait", "close", "exited"}
  /\ next \in 1..(Len(Setup[program]) + 1)
  /\ open \subseteq Closable \cup {"conn"}
  /\ missing \subseteq OnlyLogged[program] \cup {"interval"}
  /\ tasks \in [AllTasks -> TaskStates]
  /\ \A t \in AllTasks \ Tasks[program] : tasks[t] = "off"
  /\ interrupted \in BOOLEAN
  /\ status \in {"none", "ok", "error", "killed", "crashed"}
  /\ stage \in {"setup", "wait"} => status = "none"

CallsTyped ==
  /\ calls \in [Calls -> [at : Stations, via : {"none", "http", "grpc"},
                         method : Methods \cup Streams \cup {"none"}, user : Users \cup {"none"},
                         code : Codes \cup {"none"}]]
  /\ \A c \in Calls :
       /\ calls[c].at = "service" => calls[c].user \in {"none", "user", "admin"}
       /\ calls[c].at = "answered" => calls[c].code \in Codes

TypeOK == LifecycleTyped /\ CallsTyped

(* startServers failed after the gRPC server had started: RunServers       *)
(* closes everything under it and returns, without a g.Wait.               *)
NotWaited == program = "server" /\ stage = "close" /\ tasks["stopper"] = "off"

(* A handler, a consumer and a job have all their program opened for as    *)
(* long as they are at work, and the topic's readers and writers their     *)
(* driver.  Of a server whose setup failed like that the first does not    *)
(* hold once it closes: the code breaks it there.                          *)
Working == \/ \E c \in Calls : calls[c].at = "service"
           \/ \E t \in {"topic", "queue", "orders"} : tasks[t] \in {"running", "busy"}
ResourcesOutliveUsers ==
  Alive =>
    /\ Working /\ ~NotWaited => Closable \subseteq open
    /\ open \cap {"readers", "writers"} # {} => "driver" \in open

(* What a client or a service does cannot bring a process down: the only   *)
(* panics are that of a consumers process that lost its SQS session at the *)
(* start, which was only logged, and that of crons with an interval which  *)
(* is not positive.                                                        *)
CrashesOnlyUnset ==
  status = "crashed" =>
    \/ program = "consumers" /\ "session" \in missing
    \/ program = "crons" /\ "interval" \in missing

(* A process that reports success was interrupted, has nothing open, and   *)
(* owes nobody an answer.                                                  *)
SuccessIsClean ==
  stage = "exited" /\ status = "ok" =>
    /\ interrupted
    /\ open = {}
    /\ \A c \in Calls : calls[c].at \in {"free", "answered"}

(* A request that the HTTP server accepted is never cut off: its           *)
(* connection is closed when nobody uses it any more.  It may find the     *)
(* gRPC server not there, but only one that has not listened yet, or       *)
(* could not.                                                              *)
AcceptedIsServed ==
  [][\A c \in Calls : calls'[c].code # calls[c].code =>
       /\ calls'[c].code # "Canceled"
       /\ calls'[c].code = "Unavailable" => tasks["grpc"] \in {"starting", "failed"}]_vars

(* Whatever way a request came, and in whatever order its headers are      *)
(* looked at: no service works for somebody without the role.              *)
RoleChecked ==
  \A c \in Calls : calls[c].at = "service" =>
    /\ calls[c].method = "CreateOrder" => calls[c].user \in {"user", "admin"}
    /\ calls[c].method \in UserRoutes \cup {"DeleteOrder"} => calls[c].user = "admin"

(* The words of an error of a service that no handler knows stay inside,   *)
(* except for those of ListDeliveries.                                     *)
ErrorsStayInside ==
  [][\A c \in Calls :
       calls[c].at = "service" /\ calls'[c].code = "Unknown" =>
         calls[c].method = "ListDeliveries"]_vars

(* A program that was interrupted, or one of whose goroutines failed,      *)
(* stops - if Shutdown did not time out and no client keeps a stream open: *)
(* GracefulStop, which has no timeout, waits for it.                       *)
Held  == \E c \in Calls : calls[c].at = "stream"
Stops == []<>~Held => ((Alive /\ Done) ~> (~Alive \/ tasks["stopper"] = "failed"))

(* "Graceful shutdown logic of http and grpc server" (run_servers.go):     *)
(* an interrupted server stops.                                            *)
InterruptedStops == (Alive /\ interrupted) ~> ~Alive
=============================================================================
