--------------------------- MODULE RequestPipeline ---------------------------
(***************************************************************************)
(* The way of a request through gin's chain of middleware and handlers,    *)
(* with concurrent requests that share the process's metrics.              *)
(*                                                                         *)
(* A chain is the middleware of the router followed by what the route      *)
(* registers.  gin.Context.Next runs the elements in order from c.index; a *)
(* router middleware calls Next itself and has code that runs when Next    *)
(* returns, the elements of a route have none.  A panic unwinds the open   *)
(* middleware, without running that code, up to mid.Panic.                 *)
(*                                                                         *)
(* What the handlers do to the users table is UserHandlers' subject; here  *)
(* a handler is the set of the ways in which it can report its outcome.    *)
(***************************************************************************)
EXTENDS Naturals, Sequences, FiniteSets

CONSTANTS
  Requests,     \* the requests, each served once
  Routers,      \* "service": main.go and routes.go; "tests": handler_test.go
  Routes,       \* the routes that are asked for, named by their handlers
  SampleEvery   \* every how many requests the goroutines are counted (1000)

\* The routes that a router has.
Registered(w) ==
  IF w = "service"
  THEN {"create", "list", "login", "query", "update", "role", "disable", "delete"}
  ELSE {"create", "list", "update"}

ASSUME RequestsAssumption == IsFiniteSet(Requests)
ASSUME RoutersAssumption == Routers \subseteq {"service", "tests"}
ASSUME RoutesAssumption  == Routes \subseteq Registered("service")
ASSUME SampleAssumption == SampleEvery \in Nat \ {0}

VARIABLES
  router,     \* the router of this process, one of Routers
  ctx,        \* the gin.Context of every request
  requests,   \* expvar counters of internal/metrics
  errors,
  panics,
  sampled     \* how often AddGoroutine has run

counters == <<requests, errors, panics, sampled>>
vars == <<router, ctx, requests, errors, panics, sampled>>

(***************************************************************************)
(* The wiring.                                                             *)
(***************************************************************************)
\* Mutant of Stack: mid.Panic is registered first.
StackPanicOutermost(w) ==
  IF w = "service" THEN <<"panic", "telemetry", "logger", "metrics">> ELSE <<"error">>

\* Mutant of Stack: mid.Panic is missing.
StackWithoutPanic(w) ==
  IF w = "service" THEN <<"telemetry", "logger", "metrics">> ELSE <<"error">>

\* A router's middleware, in the order of the calls of Use.
Stack(w) ==
  IF w = "service"
  THEN <<"telemetry", "logger", "metrics", "panic">>
  ELSE <<"error">>

\* What the route registers, in the order of its arguments.
RouteChain(route) ==
  IF router = "tests"
  THEN IF route = "update" THEN <<"setUser", route>> ELSE <<route>>
  ELSE CASE route \in {"create", "list", "login"} -> <<route>>
         [] route = "query"                       -> <<route, "authenticate">>
         [] OTHER                                 -> <<route, "authenticate", "authorize">>

Chain(r) == Stack(router) \o RouteChain(ctx[r].route)

\* The role sets routes.go gives to mid.Authorized.  adminOrUser is made of
\* RoleUser twice.
AllowedRoles(route) == IF route = "role" THEN {"admin"} ELSE {"user"}

\* Who sends the request: nobody mid.Authenticate accepts, the user the route's
\* id names, an admin who is not, or another plain user.
Callers == {"nobody", "owner", "admin", "peer"}

ClaimedRoles(caller) == IF caller = "admin" THEN {"admin"} ELSE {"user"}

(***************************************************************************)
(* The outcomes of a handler: a response, an error recorded with c.Error   *)
(* (an errs.Error with its code, a validation error, an unknown error), or *)
(* a panic.                                                                *)
(***************************************************************************)
Outcome(kind, code) == [kind |-> kind, code |-> code]

NoError == Outcome("none", 0)

AppErrors(codes) == {Outcome("app", code) : code \in codes}

BindErrors == {Outcome("validation", 0), Outcome("unknown", 0)}

\* What the handler of a route may report when the context holds a user or not.
HandlerOutcomes(route, hasUser) ==
  {Outcome("panic", 0)} \cup
  CASE route = "create" ->
         {Outcome("json", 201)} \cup AppErrors({400, 500}) \cup BindErrors
    [] route \in {"list", "login"} ->
         {Outcome("json", 200)} \cup AppErrors({400, 500}) \cup BindErrors
    [] route = "query" ->
         {Outcome("json", 200)} \cup AppErrors({400, 404, 500})
    [] route = "update" /\ hasUser ->
         {Outcome("json", 200)} \cup AppErrors({400, 401, 500}) \cup BindErrors
    [] route = "role" /\ ~hasUser -> AppErrors({401})
    [] OTHER -> AppErrors({400, 401})

(***************************************************************************)
(* The state of a request.                                                 *)
(***************************************************************************)
\* Mutant of AbortIndex: Abort starts the chain over.
RestartIndex == 0

\* gin's abortIndex: larger than any chain is long.
AbortIndex == 63

Context ==
  [phase : {"new", "running", "counting", "panicking", "done", "dropped"},
   route : Routes \cup {"none"},
   index : 1 .. 8 \cup {63},     \* the element that runs next
   depth : 0 .. 4,               \* how many of Stack have called Next
   status : {200, 201, 204, 400, 401, 404, 500},
   bodies : 0 .. 2,              \* JSON documents written to the response
   err : {NoError} \cup BindErrors \cup AppErrors({400, 401, 404, 500}),
   keys : SUBSET {"metrics", "user", "claims"},
   caller : Callers \cup {"unknown"},
   after : SUBSET {"telemetry", "logger", "metrics", "error"},
   panicked : BOOLEAN]

TypeOK ==
  /\ router \in Routers
  /\ ctx \in [Requests -> Context]
  /\ \A n \in {requests, errors, panics, sampled} : n \in 0 .. Cardinality(Requests)

NewContext ==
  [phase |-> "new", route |-> "none", index |-> 1, depth |-> 0,
   status |-> 200, bodies |-> 0, err |-> NoError, keys |-> {},
   caller |-> "unknown", after |-> {}, panicked |-> FALSE]

Init ==
  /\ router \in Routers
  /\ ctx = [r \in Requests |-> NewContext]
  /\ requests = 0 /\ errors = 0 /\ panics = 0 /\ sampled = 0

Set(r, c) == ctx' = [ctx EXCEPT ![r] = c] /\ UNCHANGED router

\* c.JSON: the status can only be set while nothing is written.
Json(c, code) ==
  [c EXCEPT !.status = IF c.bodies = 0 THEN code ELSE c.status,
            !.bodies = c.bodies + 1]

Abort(c) == [c EXCEPT !.index = AbortIndex]

\* The loop of Next goes on behind an element that has returned.
Advance(c) == [c EXCEPT !.index = c.index + 1]

\* Element e of the chain runs now.
At(r, e) ==
  /\ ctx[r].phase = "running"
  /\ ctx[r].index <= Len(Chain(r))
  /\ Chain(r)[ctx[r].index] = e

(***************************************************************************)
(* The way down.                                                           *)
(***************************************************************************)
Start(r) ==
  /\ ctx[r].phase = "new"
  /\ \E route \in Routes \cap Registered(router) :
       Set(r, [ctx[r] EXCEPT !.phase = "running", !.route = route])
  /\ UNCHANGED counters

\* Telemetry, Logger, Panic and Error only call Next on the way down.
Enter(r) ==
  /\ \E m \in {"telemetry", "logger", "panic", "error"} : At(r, m)
  /\ Set(r, Advance([ctx[r] EXCEPT !.depth = @ + 1]))
  /\ UNCHANGED counters

\* Metrics: AddRequest adds ...
AddRequest(r) ==
  /\ At(r, "metrics")
  /\ requests' = requests + 1
  /\ Set(r, [ctx[r] EXCEPT !.phase = "counting"])
  /\ UNCHANGED <<errors, panics, sampled>>

\* ... and then reads the counter, which other requests may have moved on.
EnterMetrics(r) ==
  /\ ctx[r].phase = "counting"
  /\ sampled' = IF requests % SampleEvery = 0 THEN sampled + 1 ELSE sampled
  /\ Set(r, Advance([ctx[r] EXCEPT !.phase = "running", !.depth = @ + 1,
                                   !.keys = @ \cup {"metrics"}]))
  /\ UNCHANGED <<requests, errors, panics>>

\* handler_test.go puts the owner into the context.
SetUser(r) ==
  /\ At(r, "setUser")
  /\ Set(r, Advance([ctx[r] EXCEPT !.keys = @ \cup {"user"}]))
  /\ UNCHANGED counters

\* The handler of the route.
Handle(r) ==
  /\ At(r, ctx[r].route)
  /\ \E o \in HandlerOutcomes(ctx[r].route, "user" \in ctx[r].keys) :
       Set(r, CASE o.kind = "panic" ->
                     [ctx[r] EXCEPT !.phase = "panicking", !.panicked = TRUE]
                [] o.kind = "json" -> Advance(Json(ctx[r], o.code))
                [] OTHER           -> Advance([ctx[r] EXCEPT !.err = o]))
  /\ UNCHANGED counters

\* Mutant of Authenticate: a refusal answers but does not abort the chain.
AuthenticateWithoutAbort(r) ==
  /\ At(r, "authenticate")
  /\ \E caller \in Callers :
       LET c == [ctx[r] EXCEPT !.caller = caller]
       IN \/ /\ caller = "nobody"
             /\ Set(r, Advance(Json(c, 401)))
          \/ /\ caller # "nobody"
             /\ \/ Set(r, Advance([c EXCEPT !.keys = @ \cup {"user", "claims"}]))
                \/ Set(r, Abort(Json(c, 500)))
  /\ UNCHANGED counters

\* mid.Authenticate.
Authenticate(r) ==
  /\ At(r, "authenticate")
  /\ \E caller \in Callers :
       LET c == [ctx[r] EXCEPT !.caller = caller]
       IN \/ /\ caller = "nobody"
             /\ Set(r, Abort(Json(c, 401)))
          \/ /\ caller # "nobody"
             /\ \/ Set(r, Advance([c EXCEPT !.keys = @ \cup {"user", "claims"}]))
                \/ Set(r, Abort(Json(c, 500)))     \* QueryByID failed
  /\ UNCHANGED counters

\* mid.Authorized.
Authorize(r) ==
  /\ At(r, "authorize")
  /\ Set(r, IF /\ "claims" \in ctx[r].keys
               /\ ClaimedRoles(ctx[r].caller) \cap AllowedRoles(ctx[r].route) # {}
            THEN Advance(ctx[r])
            ELSE Abort(Json(ctx[r], 401)))
  /\ UNCHANGED counters

(***************************************************************************)
(* The way up.                                                             *)
(***************************************************************************)
\* The innermost middleware whose Next has not returned.
Top(r) == Stack(router)[ctx[r].depth]

\* Next returns to middleware m.
Returning(r, m) ==
  /\ ctx[r].phase = "running"
  /\ ctx[r].index > Len(Chain(r))
  /\ ctx[r].depth > 0
  /\ Top(r) = m

Leave(r, c) == Set(r, [c EXCEPT !.depth = @ - 1, !.after = @ \cup ({Top(r)} \ {"panic"})])

\* Telemetry and Logger report the status; Panic has nothing to do.
LeaveObserver(r) ==
  /\ \E m \in {"telemetry", "logger", "panic"} : Returning(r, m)
  /\ Leave(r, ctx[r])
  /\ UNCHANGED counters

\* Mutant of CountsAsError: only the server's own failures are counted.
CountsServerErrors(status) == status >= 500

CountsAsError(status) == status >= 400

LeaveMetrics(r) ==
  /\ Returning(r, "metrics")
  /\ errors' = IF CountsAsError(ctx[r].status) THEN errors + 1 ELSE errors
  /\ Leave(r, ctx[r])
  /\ UNCHANGED <<requests, panics, sampled>>

\* Mutant of RenderedCode: validation errors are unknown errors.
RenderedUnknown(err) == IF err.kind = "app" THEN err.code ELSE 500

\* The code mid.Error answers a recorded error with.
RenderedCode(err) ==
  CASE err.kind = "app"        -> err.code
    [] err.kind = "validation" -> 400
    [] err.kind = "unknown"    -> 500

NothingToRender(c) == c.bodies > 0 \/ c.err = NoError

LeaveError(r) ==
  /\ Returning(r, "error")
  /\ Leave(r, IF NothingToRender(ctx[r]) THEN ctx[r]
              ELSE Json(ctx[r], RenderedCode(ctx[r].err)))
  /\ UNCHANGED counters

\* A panic passes through a middleware that does not recover it.
Unwind(r) ==
  /\ ctx[r].phase = "panicking"
  /\ ctx[r].depth > 0
  /\ Top(r) # "panic"
  /\ Set(r, [ctx[r] EXCEPT !.depth = @ - 1])
  /\ UNCHANGED counters

\* mid.Panic recovers, counts, answers and aborts.
Recover(r) ==
  /\ ctx[r].phase = "panicking"
  /\ ctx[r].depth > 0
  /\ Top(r) = "panic"
  /\ panics' = IF "metrics" \in ctx[r].keys THEN panics + 1 ELSE panics
  /\ Set(r, Abort(Json([ctx[r] EXCEPT !.phase = "running", !.depth = @ - 1], 500)))
  /\ UNCHANGED <<requests, errors, sampled>>

\* Nobody recovered: net/http closes the connection without a response.
Drop(r) ==
  /\ ctx[r].phase = "panicking"
  /\ ctx[r].depth = 0
  /\ Set(r, [ctx[r] EXCEPT !.phase = "dropped"])
  /\ UNCHANGED counters

\* The outermost Next returns and gin writes the header.
Finish(r) ==
  /\ ctx[r].phase = "running"
  /\ ctx[r].index > Len(Chain(r))
  /\ ctx[r].depth = 0
  /\ Set(r, [ctx[r] EXCEPT !.phase = "done"])
  /\ UNCHANGED counters

Ended(r) == ctx[r].phase \in {"done", "dropped"}

\* No more requests: the server waits.
Quiet == (\A r \in Requests : Ended(r)) /\ UNCHANGED vars

\* A step of the goroutine that serves the request.
Proceed(r) ==
  \/ Enter(r) \/ AddRequest(r) \/ EnterMetrics(r) \/ SetUser(r)
  \/ Handle(r) \/ Authenticate(r) \/ Authorize(r)
  \/ LeaveObserver(r) \/ LeaveMetrics(r) \/ LeaveError(r)
  \/ Unwind(r) \/ Recover(r) \/ Drop(r) \/ Finish(r)

Next == (\E r \in Requests : Start(r) \/ Proceed(r)) \/ Quiet

\* net/http gives every request a goroutine of its own, which the scheduler
\* keeps running.  Nothing makes a client send a request.
Spec == Init /\ [][Next]_vars /\ \A r \in Requests : WF_vars(Proceed(r))

(***************************************************************************)
(* Properties.                                                             *)
(***************************************************************************)
Done(r) == ctx[r].phase = "done"

\* When all requests are answered, the counters of internal/metrics agree with
\* the responses: every request was counted once, every status of 400 or more
\* as an error, panics included, and every panic as a panic.
MetricsAgree ==
  (router = "service" /\ \A r \in Requests : Done(r)) =>
    /\ requests = Cardinality(Requests)
    /\ errors = Cardinality({r \in Requests : ctx[r].status >= 400})
    /\ panics = Cardinality({r \in Requests : ctx[r].panicked})

\* Whatever a handler does, a panic included, the request is logged as
\* completed, its span gets its status and its status is counted (the code of
\* Telemetry, Logger and Metrics behind c.Next).
CompletionObserved ==
  \A r \in Requests :
    router = "service" /\ Done(r) => ctx[r].after = {"telemetry", "logger", "metrics"}

\* Every request that has arrived at the service is answered: none is dropped by
\* a panic, none is left waiting in the chain.
AllAnswered ==
  \A r \in Requests : router = "service" /\ ctx[r].phase # "new" ~> Done(r)

\* What the misplaced middleware of routes.go can do to a response, whatever else
\* goes wrong on the way: a second JSON document is written in one case only, the
\* answered GET /:id whose caller mid.Authenticate then refuses (the route has no
\* mid.Authorized behind it), and there it stands under the 200 of the first.
\* Every other response of the service is one document at most: a panic, a refusal
\* and a handler's answer exclude each other.
OneDocument ==
  \A r \in Requests :
    router = "service" /\ ctx[r].bodies > 1 =>
      /\ ctx[r].route = "query" /\ ctx[r].status = 200
      /\ ctx[r].err = NoError /\ ~ctx[r].panicked

\* An error a handler records reaches the client with its code, as
\* handler_test.go expects of a duplicated e-mail address (400) and of a body
\* that fails the validation (400).
ErrorsRendered ==
  \A r \in Requests :
    Done(r) /\ ~ctx[r].panicked =>
      /\ ctx[r].err.kind = "app" => ctx[r].status = ctx[r].err.code
      /\ ctx[r].err.kind = "validation" => ctx[r].status = 400

\* On the router of handler_test.go, which has mid.Error, that expectation is
\* met.
TestsRenderErrors == router = "tests" => ErrorsRendered

\* handler.go:128, "either the user itself or admin can delete a user", and the
\* name adminOrUser in routes.go: an authenticated owner or admin is turned away
\* neither by the handler nor by mid.Authorized.
OwnerOrAdminMayDelete ==
  \A r \in Requests :
    (/\ Done(r) /\ ctx[r].route = "delete" /\ ctx[r].caller \in {"owner", "admin"}
     /\ "claims" \in ctx[r].keys /\ ~ctx[r].panicked)
      => ctx[r].status # 401 /\ ctx[r].err # Outcome("app", 401)
==============================================================================
