------------------------------ MODULE Requests ------------------------------
(***************************************************************************)
(* What becomes of one request: the routes of the HTTP gateway, the chain  *)
(* of interceptors of the gRPC server (internal/application, pkg/auth,     *)
(* pkg/grpcutils, pkg/traces), and the handlers with the status they give  *)
(* to each error of the service.  The services are external: a handler     *)
(* reaches them with the result "pending" and is left with the result they *)
(* return.                                                                 *)
(***************************************************************************)

(* What the header with the user id holds, in the order auth looks at it. *)
Users == {"absent", "repeated", "malformed", "zero", "user", "admin"}

RequestIds == {"single", "repeated"}   \* none counts as single

(* What a service returns: done, an error a handler knows, any other error *)
(* ("failed"), or a panic.                                                 *)
Results ==
  {"done", "published", "userNotFound", "productNotFound", "reserveInited",
   "invalid", "imageNotFound", "failed", "panic"}

-----------------------------------------------------------------------------
(* The services as the gateway routes them, with what it decodes, and as   *)
(* the gRPC server dispatches them.  Only a body can fail to decode: the   *)
(* pattern of a route with an id has always bound it.                      *)

UserArguments == [CreateUser |-> {"body"}, GetUser |-> {"id"}, DeleteUser |-> {"id"}]
OrderArguments == [CreateOrder |-> {"body"}, DeleteOrder |-> {"id"}]
ProductArguments ==
  [CreateProducts |-> {"body"}, GetProducts |-> {"body"}, DeleteProducts |-> {"body"},
   GetProductImageUploadURL |-> {"body", "id"}, ConfirmProductImageUpload |-> {"id"}]
CheckArguments == [CheckTickets |-> {}, CheckErrors |-> {}, CheckPanics |-> {}]
DeliveryArguments == [ListDeliveries |-> {}, DeleteDelivery |-> {"id"}]

UserRoutes == {"CreateUser", "GetUser", "DeleteUser"}
OrderRoutes == {"CreateOrder", "DeleteOrder"}
ProductRoutes ==
  {"CreateProducts", "GetProducts", "DeleteProducts", "GetProductImageUploadURL",
   "ConfirmProductImageUpload"}
CheckRoutes == {"CheckTickets", "CheckErrors", "CheckPanics"}
DeliveryRoutes == {"ListDeliveries", "DeleteDelivery"}

UserServiceDesc == {"CreateUser", "GetUser", "DeleteUser"}
OrderServiceDesc == {"CreateOrder", "DeleteOrder"}
ProductServiceDesc ==
  {"CreateProducts", "GetProducts", "DeleteProducts", "GetProductImageUploadURL",
   "ConfirmProductImageUpload"}
CheckServiceDesc == {"CheckTickets", "CheckErrors", "CheckPanics"}
DeliveryServiceDesc == {"ListDeliveries", "DeleteDelivery"}

Health == "Check"   \* of grpc.health.v1.Health

(* SetupHTTPServer: the gateway, and /ping, which asks Health. *)
Routes == UserRoutes \cup OrderRoutes \cup ProductRoutes \cup CheckRoutes \cup DeliveryRoutes

Arguments(m) ==
  CASE m \in UserRoutes     -> UserArguments[m]
    [] m \in OrderRoutes    -> OrderArguments[m]
    [] m \in ProductRoutes  -> ProductArguments[m]
    [] m \in CheckRoutes    -> CheckArguments[m]
    [] m \in DeliveryRoutes -> DeliveryArguments[m]
    [] OTHER                -> {}

(* SetupGRPCServer: the methods that answer once, *)
Methods ==
  UserServiceDesc \cup OrderServiceDesc \cup ProductServiceDesc \cup CheckServiceDesc
    \cup DeliveryServiceDesc \cup {Health}

(* and those of Health and of the reflection that go on answering for as   *)
(* long as the client likes; no interceptor is set for them.               *)
Streams == {"Watch", "ServerReflectionInfo"}

-----------------------------------------------------------------------------
(* What a handler answers when a check fails, or goes on with. *)
Check(holds, code, rest) == IF holds THEN rest ELSE code

(* The code of a result: the known errors have theirs, all others are      *)
(* logged and answered with ErrInternalError.                              *)
Answer(result, known) ==
  CASE result \in {"pending", "panic"} -> result
    [] result = "done"                 -> "OK"
    [] result \in DOMAIN known         -> known[result]
    [] OTHER                           -> "Internal"

NoneKnown == [r \in {} |-> "Internal"]

IsEmpty(user) == user \notin {"user", "admin"}
IsAdmin(user) == user = "admin"

(* valid: the fields of the request make domain values. *)

parseCreateOrderErrorRaw(result) ==
  IF result = "failed" THEN "Unknown" ELSE
  Answer(result, [published |-> "Aborted", userNotFound |-> "NotFound",
                  productNotFound |-> "NotFound", reserveInited |-> "NotFound"])

parseCreateOrderError(result) ==
  Answer(result, [published |-> "Aborted", userNotFound |-> "NotFound",
                  productNotFound |-> "NotFound", reserveInited |-> "NotFound"])

CreateOrder(user, valid, result) ==
  Check(~IsEmpty(user), "Unauthenticated",
  Check(valid, "InvalidArgument",
    parseCreateOrderError(result)))

DeleteOrder(user, valid, result) ==
  Check(~IsEmpty(user), "Unauthenticated",
  Check(IsAdmin(user), "PermissionDenied",
  Check(valid, "InvalidArgument",
    Answer(result, NoneKnown))))

CreateUser(user, valid, result) ==
  Check(IsAdmin(user), "PermissionDenied",
  Check(valid, "InvalidArgument",
    Answer(result, [invalid |-> "InvalidArgument"])))

GetUser(user, valid, result) ==
  Check(IsAdmin(user), "PermissionDenied",
  Check(valid, "InvalidArgument",
    Answer(result, [userNotFound |-> "NotFound"])))

DeleteUserByAnyone(user, valid, result) ==
  Check(valid, "InvalidArgument",
    Answer(result, [userNotFound |-> "NotFound"]))

DeleteUser(user, valid, result) ==
  Check(IsAdmin(user), "PermissionDenied",
  Check(valid, "InvalidArgument",
    Answer(result, [userNotFound |-> "NotFound"])))

CreateProducts(valid, result) ==
  Check(valid, "InvalidArgument",
    Answer(result, [invalid |-> "InvalidArgument"]))

GetProducts(valid, result) ==
  Check(valid, "InvalidArgument",
    Answer(result, [productNotFound |-> "NotFound"]))

DeleteProducts(valid, result) ==
  Check(valid, "InvalidArgument",
    Answer(result, NoneKnown))

GetProductImageUploadURL(valid, result) ==
  Check(valid, "InvalidArgument",
    Answer(result, [productNotFound |-> "NotFound"]))

ConfirmProductImageUpload(valid, result) ==
  Check(valid, "InvalidArgument",
    Answer(result, [productNotFound |-> "NotFound", imageNotFound |-> "FailedPrecondition"]))

DeleteDelivery(valid, result) ==
  Check(valid, "InvalidArgument",
    Answer(result, NoneKnown))

(* Any error goes out as it is, which makes it Unknown. *)
ListDeliveries(result) ==
  IF result \in {"pending", "panic", "done"} THEN Answer(result, NoneKnown) ELSE "Unknown"

CheckErrors == "Internal"
CheckPanics == "panic"

(* gRPCServer embeds the handlers, and they the unimplemented servers: of  *)
(* CheckTickets there is no more.                                          *)
UnimplementedCheckServiceServer == "Unimplemented"

Handler(m, user, valid, result) ==
  CASE m = "CreateOrder"               -> CreateOrder(user, valid, result)
    [] m = "DeleteOrder"               -> DeleteOrder(user, valid, result)
    [] m = "CreateUser"                -> CreateUser(user, valid, result)
    [] m = "GetUser"                   -> GetUser(user, valid, result)
    [] m = "DeleteUser"                -> DeleteUser(user, valid, result)
    [] m = "CreateProducts"            -> CreateProducts(valid, result)
    [] m = "GetProducts"               -> GetProducts(valid, result)
    [] m = "DeleteProducts"            -> DeleteProducts(valid, result)
    [] m = "GetProductImageUploadURL"  -> GetProductImageUploadURL(valid, result)
    [] m = "ConfirmProductImageUpload" -> ConfirmProductImageUpload(valid, result)
    [] m = "DeleteDelivery"            -> DeleteDelivery(valid, result)
    [] m = "ListDeliveries"            -> ListDeliveries(result)
    [] m = "CheckErrors"               -> CheckErrors
    [] m = "CheckPanics"               -> CheckPanics
    [] m = Health                      -> "OK"
    [] OTHER                           -> UnimplementedCheckServiceServer

-----------------------------------------------------------------------------
(* The interceptors, outermost first; a request is [method, user,          *)
(* requestId, valid].                                                      *)

IsAuthRequired(m)  == m # Health
IsTraceRequired(m) == m # Health

TraceMiddleware(req, answer) ==
  IF IsTraceRequired(req.method) /\ req.requestId = "repeated" THEN "Unknown" ELSE answer

PanicHandlerNone(answer) == answer

PanicHandler(answer) == IF answer = "panic" THEN "Internal" ELSE answer

(* A header given twice counts as none. *)
AuthMiddleware(req, answer) ==
  IF IsAuthRequired(req.method) /\ req.user = "malformed" THEN "InvalidArgument" ELSE answer

(* LogRequestResult and AddMethodAndRequestToContext leave the answer be. *)
Chain(req, result) ==
  TraceMiddleware(req, PanicHandler(AuthMiddleware(req,
    Handler(req.method, req.user, req.valid, result))))

Codes ==
  {"OK", "InvalidArgument", "NotFound", "Aborted", "FailedPrecondition", "PermissionDenied",
   "Unauthenticated", "Unimplemented", "Internal", "Unknown", "Unavailable", "Canceled"}
=============================================================================
