------------------------ MODULE RequestPipelineProofs ------------------------
(***************************************************************************)
(* Proofs about gin's chain, for any number of requests and any choice of  *)
(* routes and routers.                                                     *)
(*                                                                         *)
(* The invariant ties the index of a chain, the middlewares that are open  *)
(* (depth) and those whose code behind Next has run (after).  OnService    *)
(* says it for the service's four middlewares: the handlers run with all   *)
(* of them open, so that a panic meets mid.Panic first.  OnTests says it   *)
(* for the one of handler_test.go, whose handlers come last.               *)
(***************************************************************************)
EXTENDS RequestPipeline, FiniteSetTheorems, TLAPS

Errors == {NoError} \cup BindErrors \cup AppErrors({400, 401, 404, 500})

\* Context without its bounds.
LooseContext ==
  [phase : {"new", "running", "counting", "panicking", "done", "dropped"},
   route : Routes \cup {"none"}, index : Nat, depth : Nat, status : Nat,
   bodies : Nat, err : Errors, keys : SUBSET {"metrics", "user", "claims"},
   caller : Callers \cup {"unknown"},
   after : SUBSET {"telemetry", "logger", "metrics", "error"}, panicked : BOOLEAN]

Loose == router \in {"service", "tests"} /\ ctx \in [Requests -> LooseContext]

\* The route of a request that has begun is one of the router's.
Routed(r) == ctx[r].phase # "new" => ctx[r].route \in Routes \cap Registered(router)

\* The way up of the service: which code behind Next has run at which depth.
Rising(c) ==
  \/ c.depth = 3 /\ c.after = {}
  \/ c.depth = 2 /\ c.after = {"metrics"}
  \/ c.depth = 1 /\ c.after = {"metrics", "logger"}
  \/ c.depth = 0 /\ c.after = {"metrics", "logger", "telemetry"}

OnService(r) ==
  LET c == ctx[r]
  IN /\ c.phase = "new" => c.index = 1 /\ c.depth = 0 /\ c.after = {}
     /\ c.phase = "counting" => c.index = 3 /\ c.depth = 2 /\ c.after = {}
     /\ c.phase = "running" =>
          \/ c.index \in 1 .. 4 /\ c.depth = c.index - 1 /\ c.after = {}
          \/ c.index > 4 /\ c.depth = 4 /\ c.after = {}
          \/ c.index > Len(Chain(r)) /\ Rising(c)
     /\ c.phase = "panicking" => c.index > 4 /\ c.depth = 4 /\ c.after = {}
     /\ c.phase = "done" => c.after = {"telemetry", "logger", "metrics"}
     /\ c.phase # "dropped"

\* mid.Error has answered what was recorded.
Rendered(c) ==
  /\ c.err.kind = "app" => c.status = c.err.code
  /\ c.err.kind = "validation" => c.status = 400

OnTests(r) ==
  LET c == ctx[r]
  IN /\ c.phase = "new" =>
          c.index = 1 /\ c.depth = 0 /\ c.bodies = 0 /\ c.err = NoError
     /\ c.phase # "counting"
     /\ c.phase = "running" =>
          \/ c.index = 1 /\ c.depth = 0 /\ c.bodies = 0 /\ c.err = NoError
          \/ /\ c.index > 1 /\ c.depth = 1 /\ (c.bodies = 0 \/ c.err = NoError)
             /\ c.index <= Len(Chain(r)) => c.bodies = 0 /\ c.err = NoError
          \/ c.index > Len(Chain(r)) /\ c.depth = 0 /\ Rendered(c)
     /\ c.phase = "panicking" => c.depth <= 1
     /\ c.phase = "done" => Rendered(c)

Placed(r) ==
  /\ Routed(r)
  /\ router = "service" => OnService(r)
  /\ router = "tests" => OnTests(r)

PInv == Loose /\ \A r \in Requests : Placed(r)

------------------------------------------------------------------------------
\* The service's chains: the four middlewares, then what the route registers.
LEMMA ServiceChain ==
  ASSUME Loose, router = "service", NEW r \in Requests,
         ctx[r].route \in Registered("service")
  PROVE  /\ Len(Chain(r)) \in 5 .. 7
         /\ Chain(r)[1] = "telemetry" /\ Chain(r)[2] = "logger"
         /\ Chain(r)[3] = "metrics" /\ Chain(r)[4] = "panic"
         /\ \A i \in 5 .. Len(Chain(r)) :
              Chain(r)[i] \in {ctx[r].route, "authenticate", "authorize"}
<1> DEFINE route == ctx[r].route
           s == <<"telemetry", "logger", "metrics", "panic">>
           t == RouteChain(route)
<1>1. t \in {<<route>>, <<route, "authenticate">>, <<route, "authenticate", "authorize">>}
  BY DEF RouteChain, Registered
<1>2. Chain(r) = s \o t
  BY DEF Chain, Stack
<1> HIDE DEF t, route
<1>3. CASE t = <<route>>
  BY <1>2, <1>3 DEF route
<1>4. CASE t = <<route, "authenticate">>
  BY <1>2, <1>4 DEF route
<1>5. CASE t = <<route, "authenticate", "authorize">>
  BY <1>2, <1>5 DEF route
<1>6. QED
  BY <1>1, <1>3, <1>4, <1>5

\* The chains of handler_test.go: mid.Error, and the handler last.
LEMMA TestsChain ==
  ASSUME Loose, router = "tests", NEW r \in Requests,
         ctx[r].route \in Registered("tests")
  PROVE  /\ Len(Chain(r)) \in 2 .. 3
         /\ Chain(r)[1] = "error"
         /\ \A i \in 2 .. Len(Chain(r)) :
              Chain(r)[i] = IF i = Len(Chain(r)) THEN ctx[r].route ELSE "setUser"
<1> DEFINE route == ctx[r].route
           t == RouteChain(route)
<1>1. t \in {<<route>>, <<"setUser", route>>}
  BY DEF RouteChain
<1>2. Chain(r) = <<"error">> \o t
  BY DEF Chain, Stack
<1> HIDE DEF t, route
<1>3. CASE t = <<route>>
  BY <1>2, <1>3 DEF route
<1>4. CASE t = <<"setUser", route>>
  BY <1>2, <1>4 DEF route
<1>5. QED
  BY <1>1, <1>3, <1>4

\* What a handler reports: a panic, a response, or an error to record.
LEMMA OutcomeKinds ==
  ASSUME NEW r \in Requests,
         NEW o \in HandlerOutcomes(ctx[r].route, "user" \in ctx[r].keys)
  PROVE  \/ o.kind = "panic"
         \/ o.kind = "json" /\ o.code \in Nat /\ o.code \in {200, 201}
         \/ o.kind \notin {"panic", "json"} /\ o \in Errors
  BY DEF HandlerOutcomes, Outcome, Errors, AppErrors, BindErrors, NoError

\* Where a request is when element e of the chain runs.
LEMMA AtService ==
  ASSUME PInv, router = "service", NEW r \in Requests, NEW e, At(r, e)
  PROVE  /\ ctx[r].route \in Registered("service") /\ ctx[r].after = {}
         /\ \/ e = "telemetry" /\ ctx[r].index = 1 /\ ctx[r].depth = 0
            \/ e = "logger" /\ ctx[r].index = 2 /\ ctx[r].depth = 1
            \/ e = "metrics" /\ ctx[r].index = 3 /\ ctx[r].depth = 2
            \/ e = "panic" /\ ctx[r].index = 4 /\ ctx[r].depth = 3
            \/ /\ e \in {ctx[r].route, "authenticate", "authorize"}
               /\ ctx[r].index \in 5 .. Len(Chain(r)) /\ ctx[r].depth = 4
<1>1. ctx[r].phase = "running" /\ ctx[r].index <= Len(Chain(r)) /\ e = Chain(r)[ctx[r].index]
  BY DEF At
<1>2. Routed(r) /\ OnService(r) /\ ctx[r].index \in Nat /\ ctx[r].depth \in Nat
  BY DEF PInv, Placed, Loose, LooseContext
<1>3. ctx[r].route \in Registered("service")
  BY <1>1, <1>2 DEF Routed
<1>4. Len(Chain(r)) \in 5 .. 7
  BY <1>3, ServiceChain DEF PInv
<1>5. CASE ctx[r].index \in 1 .. 4 /\ ctx[r].depth = ctx[r].index - 1 /\ ctx[r].after = {}
  <2>1. ctx[r].index \in {1, 2, 3, 4}
    BY <1>5
  <2>2. QED
    BY <1>1, <1>3, <1>5, <2>1, ServiceChain DEF PInv
<1>6. CASE ctx[r].index > 4 /\ ctx[r].depth = 4 /\ ctx[r].after = {}
  <2>1. ctx[r].index \in 5 .. Len(Chain(r))
    BY <1>1, <1>2, <1>4, <1>6
  <2>2. QED
    BY <1>1, <1>3, <1>6, <2>1, ServiceChain DEF PInv
<1>7. QED
  BY <1>1, <1>2, <1>4, <1>5, <1>6 DEF OnService

LEMMA AtTests ==
  ASSUME PInv, router = "tests", NEW r \in Requests, NEW e, At(r, e)
  PROVE  /\ ctx[r].route \in Registered("tests")
         /\ ctx[r].bodies = 0 /\ ctx[r].err = NoError
         /\ \/ e = "error" /\ ctx[r].index = 1 /\ ctx[r].depth = 0
            \/ /\ ctx[r].index \in 2 .. Len(Chain(r)) /\ ctx[r].depth = 1
               /\ e = IF ctx[r].index = Len(Chain(r)) THEN ctx[r].route ELSE "setUser"
<1>1. ctx[r].phase = "running" /\ ctx[r].index <= Len(Chain(r)) /\ e = Chain(r)[ctx[r].index]
  BY DEF At
<1>2. Routed(r) /\ OnTests(r) /\ ctx[r].index \in Nat /\ ctx[r].depth \in Nat
  BY DEF PInv, Placed, Loose, LooseContext
<1>3. ctx[r].route \in Registered("tests")
  BY <1>1, <1>2 DEF Routed
<1>4. Len(Chain(r)) \in 2 .. 3 /\ Chain(r)[1] = "error"
  BY <1>3, TestsChain DEF PInv
<1>5. CASE ctx[r].index = 1 /\ ctx[r].depth = 0 /\ ctx[r].bodies = 0 /\ ctx[r].err = NoError
  BY <1>1, <1>3, <1>4, <1>5
<1>6. CASE /\ ctx[r].index > 1 /\ ctx[r].depth = 1
           /\ ctx[r].bodies = 0 /\ ctx[r].err = NoError
  <2>1. ctx[r].index \in 2 .. Len(Chain(r))
    BY <1>1, <1>2, <1>4, <1>6
  <2>2. QED
    BY <1>1, <1>3, <1>6, <2>1, TestsChain DEF PInv
<1>7. QED
  BY <1>1, <1>2, <1>4, <1>5, <1>6 DEF OnTests

\* Where a request is when Next returns to the middleware on top.
LEMMA ReturningService ==
  ASSUME PInv, router = "service", NEW r \in Requests, NEW m, Returning(r, m)
  PROVE  \/ m = "panic" /\ ctx[r].depth = 4 /\ ctx[r].after = {}
         \/ m = "metrics" /\ ctx[r].depth = 3 /\ ctx[r].after = {}
         \/ m = "logger" /\ ctx[r].depth = 2 /\ ctx[r].after = {"metrics"}
         \/ m = "telemetry" /\ ctx[r].depth = 1 /\ ctx[r].after = {"metrics", "logger"}
<1>1. ctx[r].phase = "running" /\ ctx[r].index > Len(Chain(r)) /\ ctx[r].depth > 0
      /\ m = Stack("service")[ctx[r].depth]
  BY DEF Returning, Top
<1>2. OnService(r) /\ ctx[r].index \in Nat /\ ctx[r].route \in Registered("service")
  <2>1. Routed(r) /\ OnService(r) /\ ctx[r].index \in Nat
    BY DEF PInv, Placed, Loose, LooseContext
  <2>2. QED
    BY <1>1, <2>1 DEF Routed
<1>3. Len(Chain(r)) \in 5 .. 7
  BY <1>2, ServiceChain DEF PInv
<1>4. \/ ctx[r].depth = 4 /\ ctx[r].after = {}
      \/ Rising(ctx[r])
  <2>0. ctx[r].index > Len(Chain(r)) /\ ctx[r].index \in Nat
    BY <1>1, <1>2
  <2>1. ctx[r].index \notin 1 .. 4
    <3>1. PICK n : n = Len(Chain(r))
      OBVIOUS
    <3>2. n \in 5 .. 7 /\ ctx[r].index > n
      BY <1>3, <2>0, <3>1
    <3>3. ctx[r].index > 4
      BY <2>0, <3>2
    <3>4. QED
      BY <2>0, <3>3
  <2>2. QED
    BY <1>1, <1>2, <2>1, Zenon DEF OnService
<1>5. QED
  BY <1>1, <1>4 DEF Rising, Stack

LEMMA ReturningTests ==
  ASSUME PInv, router = "tests", NEW r \in Requests, NEW m, Returning(r, m)
  PROVE  /\ m = "error" /\ ctx[r].depth = 1
         /\ ctx[r].bodies = 0 \/ ctx[r].err = NoError
<1>1. ctx[r].phase = "running" /\ ctx[r].index > Len(Chain(r)) /\ ctx[r].depth > 0
      /\ m = Stack("tests")[ctx[r].depth]
  BY DEF Returning, Top
<1>2. OnTests(r) /\ ctx[r].depth \in Nat
  BY DEF PInv, Placed, Loose, LooseContext
<1>3. ctx[r].depth = 1 /\ (ctx[r].bodies = 0 \/ ctx[r].err = NoError)
  BY <1>1, <1>2 DEF OnTests
<1>4. QED
  BY <1>1, <1>3 DEF Stack

\* A step of one request leaves the others where they are.
LEMMA OneMoves ==
  ASSUME PInv, NEW r \in Requests, NEW c \in LooseContext, Set(r, c), Placed(r)'
  PROVE  PInv'
<1>1. /\ router' = router /\ ctx' \in [Requests -> LooseContext]
      /\ \A q \in Requests \ {r} : ctx'[q] = ctx[q]
  BY DEF Set, PInv, Loose
<1>2. Loose'
  BY <1>1 DEF PInv, Loose
<1>3. ASSUME NEW q \in Requests \ {r} PROVE Placed(q)'
  <2>1. ctx'[q] = ctx[q] /\ router' = router
    BY <1>1
  <2>2. Chain(q)' = Chain(q)
    BY <2>1 DEF Chain, Stack, RouteChain
  <2>3. Placed(q)
    BY DEF PInv
  <2>4. Routed(q)'
    BY <2>1, <2>3 DEF Placed, Routed, Registered
  <2>5. router = "service" => OnService(q)'
    BY <2>1, <2>2, <2>3 DEF Placed, OnService, Rising
  <2>6. router = "tests" => OnTests(q)'
    BY <2>1, <2>2, <2>3 DEF Placed, OnTests, Rendered
  <2>7. QED
    BY <2>1, <2>4, <2>5, <2>6 DEF Placed
<1>4. QED
  BY <1>2, <1>3 DEF PInv

\* The chain of a request stays, once its route is known.
LEMMA SameRoute ==
  ASSUME PInv, NEW r \in Requests, NEW c \in LooseContext, Set(r, c),
         c.route = ctx[r].route, ctx[r].phase # "new"
  PROVE  /\ ctx'[r] = c /\ router' = router /\ Routed(r)' /\ Chain(r)' = Chain(r)
         /\ router = "service" =>
              ctx[r].route \in Registered("service") /\ Len(Chain(r)) \in 5 .. 7
         /\ router = "tests" =>
              ctx[r].route \in Registered("tests") /\ Len(Chain(r)) \in 2 .. 3
<1>1. ctx'[r] = c /\ router' = router
  BY DEF Set, PInv, Loose
<1>2. ctx[r].route \in Routes \cap Registered(router)
  BY DEF PInv, Placed, Routed
<1>3. Routed(r)'
  BY <1>1, <1>2 DEF Routed, Registered
<1>4. Chain(r)' = Chain(r)
  BY <1>1 DEF Chain, Stack, RouteChain
<1>5. QED
  BY <1>1, <1>2, <1>3, <1>4, ServiceChain, TestsChain DEF PInv

------------------------------------------------------------------------------
\* What the operators on contexts change.
Alike(c, d) == d.phase = c.phase /\ d.route = c.route /\ d.err = c.err

Marked(c, d) == d.keys = c.keys /\ d.panicked = c.panicked

LEMMA AdvanceFacts ==
  ASSUME NEW c \in LooseContext
  PROVE  /\ Advance(c) \in LooseContext /\ Alike(c, Advance(c)) /\ Marked(c, Advance(c))
         /\ Advance(c).index = c.index + 1 /\ Advance(c).depth = c.depth
         /\ Advance(c).after = c.after /\ Advance(c).bodies = c.bodies
         /\ Advance(c).status = c.status
<1>1. PICK n \in Nat : n = c.index + 1
  BY DEF LooseContext
<1>2. Advance(c) = [c EXCEPT !.index = n]
  BY <1>1 DEF Advance
<1>3. QED
  BY <1>1, <1>2 DEF LooseContext, Alike, Marked

LEMMA JsonFacts ==
  ASSUME NEW c \in LooseContext, NEW code \in Nat
  PROVE  /\ Json(c, code) \in LooseContext /\ Alike(c, Json(c, code))
         /\ Marked(c, Json(c, code))
         /\ Json(c, code).index = c.index /\ Json(c, code).depth = c.depth
         /\ Json(c, code).after = c.after /\ Json(c, code).bodies = c.bodies + 1
         /\ Json(c, code).status = IF c.bodies = 0 THEN code ELSE c.status
<1>1. PICK n \in Nat : n = c.bodies + 1
  BY DEF LooseContext
<1>2. PICK st \in Nat : st = IF c.bodies = 0 THEN code ELSE c.status
  BY DEF LooseContext
<1>3. Json(c, code) = [c EXCEPT !.status = st, !.bodies = n]
  BY <1>1, <1>2 DEF Json
<1>4. QED
  BY <1>1, <1>2, <1>3 DEF LooseContext, Alike, Marked

LEMMA AbortFacts ==
  ASSUME NEW c \in LooseContext
  PROVE  /\ Abort(c) \in LooseContext /\ Alike(c, Abort(c)) /\ Marked(c, Abort(c))
         /\ Abort(c).index = 63 /\ Abort(c).depth = c.depth
         /\ Abort(c).after = c.after /\ Abort(c).bodies = c.bodies
         /\ Abort(c).status = c.status
  BY DEF LooseContext, Abort, AbortIndex, Alike, Marked

\* A context with another depth.
LEMMA DepthFacts ==
  ASSUME NEW c \in LooseContext, NEW n \in Nat
  PROVE  LET d == [c EXCEPT !.depth = n]
         IN /\ d \in LooseContext /\ Alike(c, d) /\ Marked(c, d)
            /\ d.index = c.index /\ d.depth = n
            /\ d.after = c.after /\ d.bodies = c.bodies /\ d.status = c.status
  BY DEF LooseContext, Alike, Marked

------------------------------------------------------------------------------
\* One lemma per kind of step.
LEMMA StartKeeps == ASSUME PInv, NEW r \in Requests, Start(r) PROVE PInv'
<1>1. PICK route \in Routes \cap Registered(router) :
        Set(r, [ctx[r] EXCEPT !.phase = "running", !.route = route])
  BY DEF Start
<1> DEFINE c == [ctx[r] EXCEPT !.phase = "running", !.route = route]
<1>2. ctx[r] \in LooseContext /\ ctx[r].phase = "new" /\ Placed(r)
  BY DEF Start, PInv, Loose
<1>3. /\ c \in LooseContext /\ c.phase = "running" /\ c.route = route
      /\ c.index = ctx[r].index /\ c.depth = ctx[r].depth /\ c.after = ctx[r].after
      /\ c.bodies = ctx[r].bodies /\ c.err = ctx[r].err
  BY <1>2 DEF LooseContext
<1>4. Set(r, c)
  BY <1>1
<1> HIDE DEF c
<1>5. ctx'[r] = c /\ router' = router
  BY <1>4 DEF Set, PInv, Loose
<1>6. Placed(r)'
  <2>1. Routed(r)'
    BY <1>3, <1>5 DEF Routed, Registered
  <2>2. router = "service" => OnService(r)'
    <3>1. router = "service" => c.index = 1 /\ c.depth = 0 /\ c.after = {}
      BY <1>2, <1>3 DEF Placed, OnService
    <3>2. QED
      BY <1>3, <1>5, <3>1 DEF OnService
  <2>3. router = "tests" => OnTests(r)'
    BY <1>2, <1>3, <1>5 DEF Placed, OnTests
  <2>4. QED
    BY <1>5, <2>1, <2>2, <2>3 DEF Placed
<1>7. QED
  BY <1>3, <1>4, <1>6, OneMoves

LEMMA EnterKeeps == ASSUME PInv, NEW r \in Requests, Enter(r) PROVE PInv'
<1> DEFINE c == Advance([ctx[r] EXCEPT !.depth = @ + 1])
<1>1. PICK m \in {"telemetry", "logger", "panic", "error"} : At(r, m)
  BY DEF Enter
<1>2. ctx[r] \in LooseContext /\ ctx[r].phase = "running" /\ Set(r, c)
      /\ ctx[r].index \in Nat /\ ctx[r].depth \in Nat
  BY <1>1 DEF Enter, At, PInv, Loose, LooseContext
<1>3. /\ c \in LooseContext /\ c.phase = "running" /\ c.route = ctx[r].route
      /\ c.index = ctx[r].index + 1 /\ c.depth = ctx[r].depth + 1 /\ c.after = ctx[r].after
      /\ c.bodies = ctx[r].bodies /\ c.err = ctx[r].err
  <2>1. PICK n \in Nat : n = ctx[r].depth + 1
    BY <1>2
  <2>2. PICK d : d = [ctx[r] EXCEPT !.depth = n]
    OBVIOUS
  <2>3. /\ d \in LooseContext /\ Alike(ctx[r], d) /\ d.index = ctx[r].index /\ d.depth = n
        /\ d.after = ctx[r].after /\ d.bodies = ctx[r].bodies
    BY <1>2, <2>2, DepthFacts
  <2>4. c = Advance(d)
    BY <2>1, <2>2
  <2>5. QED
    BY <1>2, <2>1, <2>3, <2>4, AdvanceFacts DEF Alike
<1> HIDE DEF c
<1>4. /\ ctx'[r] = c /\ router' = router /\ Routed(r)' /\ Chain(r)' = Chain(r)
      /\ router = "tests" => ctx[r].route \in Registered("tests")
  BY <1>2, <1>3, SameRoute
<1>5. router = "service" => OnService(r)'
  <2> SUFFICES ASSUME router = "service" PROVE OnService(r)'
    OBVIOUS
  <2>1. /\ c.after = {}
        /\ \/ c.index = 2 /\ c.depth = 1
           \/ c.index = 3 /\ c.depth = 2
           \/ c.index = 5 /\ c.depth = 4
    BY <1>1, <1>3, AtService DEF Registered
  <2>2. QED
    BY <1>3, <1>4, <2>1 DEF OnService
<1>6. router = "tests" => OnTests(r)'
  <2> SUFFICES ASSUME router = "tests" PROVE OnTests(r)'
    OBVIOUS
  <2>1. c.index = 2 /\ c.depth = 1 /\ c.bodies = 0 /\ c.err = NoError
    BY <1>1, <1>3, <1>4, AtTests DEF Registered
  <2>2. QED
    BY <1>3, <1>4, <2>1 DEF OnTests
<1>7. QED
  BY <1>2, <1>3, <1>4, <1>5, <1>6, OneMoves DEF Placed

LEMMA MetricsKeeps ==
  ASSUME PInv, NEW r \in Requests, AddRequest(r) \/ EnterMetrics(r) PROVE PInv'
<1>1. CASE AddRequest(r)
  <2> DEFINE c == [ctx[r] EXCEPT !.phase = "counting"]
  <2>1. ctx[r] \in LooseContext /\ ctx[r].phase = "running" /\ Set(r, c) /\ At(r, "metrics")
    BY <1>1 DEF AddRequest, At, PInv, Loose
  <2>2. /\ c \in LooseContext /\ c.phase = "counting" /\ c.route = ctx[r].route
        /\ c.index = ctx[r].index /\ c.depth = ctx[r].depth /\ c.after = ctx[r].after
    BY <2>1 DEF LooseContext
  <2> HIDE DEF c
  <2>3. /\ ctx'[r] = c /\ router' = router /\ Routed(r)'
        /\ router = "tests" => ctx[r].route \in Registered("tests")
    BY <2>1, <2>2, SameRoute
  <2>4. router # "tests"
    BY <2>1, <2>3, AtTests DEF Registered
  <2>5. router = "service" => OnService(r)'
    <3>1. router = "service" => c.index = 3 /\ c.depth = 2 /\ c.after = {}
      BY <2>1, <2>2, AtService DEF Registered
    <3>2. QED
      BY <2>2, <2>3, <3>1 DEF OnService
  <2>6. QED
    BY <2>1, <2>2, <2>3, <2>4, <2>5, OneMoves DEF Placed
<1>2. CASE EnterMetrics(r)
  <2> DEFINE c == Advance([ctx[r] EXCEPT !.phase = "running", !.depth = @ + 1,
                                         !.keys = @ \cup {"metrics"}])
  <2>1. ctx[r] \in LooseContext /\ ctx[r].phase = "counting" /\ Set(r, c)
        /\ ctx[r].index \in Nat /\ ctx[r].depth \in Nat
        /\ ctx[r].keys \cup {"metrics"} \in SUBSET {"metrics", "user", "claims"}
    BY <1>2 DEF EnterMetrics, PInv, Loose, LooseContext
  <2>2. /\ c \in LooseContext /\ c.phase = "running" /\ c.route = ctx[r].route
        /\ c.index = ctx[r].index + 1 /\ c.depth = ctx[r].depth + 1 /\ c.after = ctx[r].after
    <3>1. PICK n \in Nat : n = ctx[r].depth + 1
      BY <2>1
    <3>2. PICK d : d = [ctx[r] EXCEPT !.phase = "running", !.depth = n,
                                      !.keys = @ \cup {"metrics"}]
      OBVIOUS
    <3>3. /\ d \in LooseContext /\ d.phase = "running" /\ d.route = ctx[r].route
          /\ d.index = ctx[r].index /\ d.depth = n /\ d.after = ctx[r].after
      BY <2>1, <3>2 DEF LooseContext
    <3>4. c = Advance(d)
      BY <3>1, <3>2
    <3>5. QED
      BY <2>1, <3>1, <3>3, <3>4, AdvanceFacts DEF Alike
  <2> HIDE DEF c
  <2>3. ctx'[r] = c /\ router' = router /\ Routed(r)'
    BY <2>1, <2>2, SameRoute
  <2>4. router # "tests"
    BY <2>1 DEF PInv, Placed, OnTests
  <2>5. router = "service" => OnService(r)'
    <3>1. router = "service" => ctx[r].index = 3 /\ ctx[r].depth = 2 /\ ctx[r].after = {}
      BY <2>1 DEF PInv, Placed, OnService
    <3>2. router = "service" => c.index = 4 /\ c.depth = 3 /\ c.after = {}
      BY <2>2, <3>1
    <3>3. QED
      BY <2>2, <2>3, <3>2 DEF OnService
  <2>6. QED
    BY <2>1, <2>2, <2>3, <2>4, <2>5, OneMoves DEF Placed
<1>3. QED
  BY <1>1, <1>2

\* A context that goes on behind the elements of the route, in the service.
LEMMA PastMiddleware ==
  ASSUME PInv, router = "service", NEW r \in Requests, NEW c \in LooseContext, Set(r, c),
         c.phase = "running", ctx[r].phase = "running", c.route = ctx[r].route,
         c.index > 4, c.depth = 4, c.after = {}
  PROVE  PInv'
<1>1. ctx'[r] = c /\ router' = router /\ Routed(r)'
  BY SameRoute
<1>2. OnService(r)'
  BY <1>1 DEF OnService
<1>3. QED
  BY <1>1, <1>2, OneMoves DEF Placed

LEMMA SetUserKeeps == ASSUME PInv, NEW r \in Requests, SetUser(r) PROVE PInv'
<1>1. PICK d : d = [ctx[r] EXCEPT !.keys = @ \cup {"user"}]
  OBVIOUS
<1>2. At(r, "setUser") /\ ctx[r] \in LooseContext /\ ctx[r].phase = "running"
      /\ Set(r, Advance(d)) /\ ctx[r].index \in Nat
  BY <1>1 DEF SetUser, At, PInv, Loose, LooseContext
<1>3. /\ d \in LooseContext /\ Alike(ctx[r], d) /\ d.index = ctx[r].index
      /\ d.depth = ctx[r].depth /\ d.bodies = ctx[r].bodies
  BY <1>1, <1>2 DEF LooseContext, Alike
<1>4. PICK c : c = Advance(d)
  OBVIOUS
<1>5. /\ c \in LooseContext /\ Set(r, c) /\ Alike(ctx[r], c) /\ c.index = ctx[r].index + 1
      /\ c.depth = ctx[r].depth /\ c.bodies = ctx[r].bodies
  BY <1>2, <1>3, <1>4, AdvanceFacts DEF Alike
<1>6. /\ ctx'[r] = c /\ router' = router /\ Routed(r)' /\ Chain(r)' = Chain(r)
  BY <1>2, <1>5, SameRoute DEF Alike
<1>7. router # "service"
  BY <1>2, AtService DEF Registered
<1>8. router = "tests" => OnTests(r)'
  <2>1. router = "tests" => /\ ctx[r].bodies = 0 /\ ctx[r].err = NoError
                            /\ ctx[r].index > 1 /\ ctx[r].depth = 1
    BY <1>2, AtTests
  <2>2. QED
    BY <1>2, <1>5, <1>6, <2>1 DEF OnTests, Alike
<1>9. QED
  BY <1>5, <1>6, <1>7, <1>8, OneMoves DEF Placed

LEMMA HandleKeeps == ASSUME PInv, NEW r \in Requests, Handle(r) PROVE PInv'
<1>1. PICK o \in HandlerOutcomes(ctx[r].route, "user" \in ctx[r].keys) :
        Set(r, CASE o.kind = "panic" ->
                      [ctx[r] EXCEPT !.phase = "panicking", !.panicked = TRUE]
                 [] o.kind = "json" -> Advance(Json(ctx[r], o.code))
                 [] OTHER           -> Advance([ctx[r] EXCEPT !.err = o]))
  BY DEF Handle
<1>2. At(r, ctx[r].route) /\ ctx[r] \in LooseContext /\ ctx[r].phase = "running"
      /\ ctx[r].index \in Nat /\ ctx[r].bodies \in Nat
  BY DEF Handle, At, PInv, Loose, LooseContext
<1>3. router = "service" => ctx[r].index > 4 /\ ctx[r].depth = 4 /\ ctx[r].after = {}
  <2> SUFFICES ASSUME router = "service"
               PROVE  ctx[r].index > 4 /\ ctx[r].depth = 4 /\ ctx[r].after = {}
    OBVIOUS
  <2>1. /\ ctx[r].after = {}
        /\ ctx[r].index \in 5 .. Len(Chain(r)) /\ ctx[r].depth = 4
    BY <1>2, AtService DEF Registered
  <2>2. QED
    BY <1>2, <2>1
<1>4. router = "tests" => /\ ctx[r].index = Len(Chain(r)) /\ ctx[r].index > 1
                          /\ ctx[r].depth = 1 /\ ctx[r].bodies = 0 /\ ctx[r].err = NoError
  BY <1>2, AtTests DEF Registered
<1>5. \/ o.kind = "panic"
      \/ o.kind = "json" /\ o.code \in Nat
      \/ o.kind \notin {"panic", "json"} /\ o \in Errors
  BY OutcomeKinds
<1>6. CASE o.kind = "panic"
  <2>1. PICK c : c = [ctx[r] EXCEPT !.phase = "panicking", !.panicked = TRUE]
    OBVIOUS
  <2>2. /\ c \in LooseContext /\ Set(r, c) /\ c.phase = "panicking" /\ c.route = ctx[r].route
        /\ c.index = ctx[r].index /\ c.depth = ctx[r].depth /\ c.after = ctx[r].after
    BY <1>1, <1>2, <1>6, <2>1 DEF LooseContext
  <2>3. ctx'[r] = c /\ router' = router /\ Routed(r)'
    BY <1>2, <2>2, SameRoute
  <2>4. router = "service" => OnService(r)'
    BY <1>3, <2>2, <2>3 DEF OnService
  <2>5. router = "tests" => OnTests(r)'
    BY <1>4, <2>2, <2>3 DEF OnTests
  <2>6. QED
    BY <2>2, <2>3, <2>4, <2>5, OneMoves DEF Placed
<1>7. ASSUME NEW d \in LooseContext, Set(r, Advance(d)),
             d.phase = "running", d.route = ctx[r].route, d.index = ctx[r].index,
             d.depth = ctx[r].depth, d.after = ctx[r].after,
             router = "tests" => d.bodies = 0 \/ d.err = NoError
      PROVE  PInv'
  <2>1. PICK c : c = Advance(d)
    OBVIOUS
  <2>2. /\ c \in LooseContext /\ Set(r, c) /\ c.phase = "running" /\ c.route = ctx[r].route
        /\ c.index = ctx[r].index + 1 /\ c.depth = ctx[r].depth /\ c.after = ctx[r].after
        /\ router = "tests" => c.bodies = 0 \/ c.err = NoError
    BY <1>7, <2>1, AdvanceFacts DEF Alike
  <2>3. ctx'[r] = c /\ router' = router /\ Routed(r)' /\ Chain(r)' = Chain(r)
    BY <1>2, <2>2, SameRoute
  <2>4. router = "service" => PInv'
    BY <1>2, <1>3, <2>2, PastMiddleware
  <2>5. router = "tests" => OnTests(r)'
    <3>1. router = "tests" => c.index > 1 /\ ~(c.index <= Len(Chain(r))) /\ c.depth = 1
      BY <1>2, <1>4, <2>2
    <3>2. QED
      BY <2>2, <2>3, <3>1 DEF OnTests
  <2>6. router = "service" => Placed(r)'
    BY <2>4 DEF PInv
  <2>7. QED
    BY <2>2, <2>3, <2>5, <2>6, OneMoves DEF Placed
<1>8. CASE o.kind = "json"
  <2>1. o.code \in Nat
    BY <1>5, <1>8
  <2>2. PICK d : d = Json(ctx[r], o.code)
    OBVIOUS
  <2>3. /\ d \in LooseContext /\ Alike(ctx[r], d) /\ d.index = ctx[r].index
        /\ d.depth = ctx[r].depth /\ d.after = ctx[r].after
    BY <1>2, <2>1, <2>2, JsonFacts
  <2>4. Set(r, Advance(d))
    BY <1>1, <1>8, <2>2
  <2>5. QED
    BY <1>2, <1>4, <1>7, <2>3, <2>4 DEF Alike
<1>9. CASE o.kind \notin {"panic", "json"}
  <2>1. o \in Errors
    BY <1>5, <1>9
  <2>2. PICK d : d = [ctx[r] EXCEPT !.err = o]
    OBVIOUS
  <2>3. /\ d \in LooseContext /\ d.phase = ctx[r].phase /\ d.route = ctx[r].route
        /\ d.index = ctx[r].index /\ d.depth = ctx[r].depth /\ d.after = ctx[r].after
        /\ d.bodies = ctx[r].bodies
    BY <1>2, <2>1, <2>2 DEF LooseContext
  <2>4. Set(r, Advance(d))
    BY <1>1, <1>9, <2>2
  <2>5. QED
    BY <1>2, <1>4, <1>7, <2>3, <2>4
<1>10. QED
  BY <1>6, <1>8, <1>9

\* mid.Authenticate and mid.Authorized are elements of the service's routes only.
LEMMA RouteMiddleware ==
  ASSUME PInv, NEW r \in Requests, NEW e \in {"authenticate", "authorize"}, At(r, e)
  PROVE  /\ router = "service" /\ ctx[r].phase = "running" /\ ctx[r] \in LooseContext
         /\ ctx[r].index \in Nat
         /\ ctx[r].index > 4 /\ ctx[r].depth = 4 /\ ctx[r].after = {}
<1>1. ctx[r].phase = "running" /\ ctx[r] \in LooseContext /\ ctx[r].index \in Nat
      /\ router \in {"service", "tests"}
  BY DEF At, PInv, Loose, LooseContext
<1>2. router # "tests"
  BY AtTests DEF Registered
<1>3. router = "service"
  BY <1>1, <1>2
<1>4. ctx[r].index \in 5 .. Len(Chain(r)) /\ ctx[r].depth = 4 /\ ctx[r].after = {}
  BY <1>3, AtService DEF Registered
<1>5. ctx[r].index > 4
  BY <1>1, <1>4
<1>6. QED
  BY <1>1, <1>3, <1>4, <1>5, Zenon

LEMMA AuthenticateKeeps == ASSUME PInv, NEW r \in Requests, Authenticate(r) PROVE PInv'
<1>1. PICK caller \in Callers :
        LET c == [ctx[r] EXCEPT !.caller = caller]
        IN \/ /\ caller = "nobody"
              /\ Set(r, Abort(Json(c, 401)))
           \/ /\ caller # "nobody"
              /\ \/ Set(r, Advance([c EXCEPT !.keys = @ \cup {"user", "claims"}]))
                 \/ Set(r, Abort(Json(c, 500)))
  BY DEF Authenticate
<1>2. /\ router = "service" /\ ctx[r].phase = "running" /\ ctx[r] \in LooseContext
      /\ ctx[r].index \in Nat
      /\ ctx[r].index > 4 /\ ctx[r].depth = 4 /\ ctx[r].after = {}
  BY RouteMiddleware DEF Authenticate
<1>3. PICK c : c = [ctx[r] EXCEPT !.caller = caller]
  OBVIOUS
<1>4. /\ c \in LooseContext /\ Alike(ctx[r], c) /\ c.index = ctx[r].index
      /\ c.depth = 4 /\ c.after = {}
  BY <1>2, <1>3 DEF LooseContext, Alike
<1>5. ASSUME NEW code \in Nat, Set(r, Abort(Json(c, code))) PROVE PInv'
  <2>1. PICK d : d = Json(c, code)
    OBVIOUS
  <2>2. d \in LooseContext /\ Alike(ctx[r], d) /\ d.depth = 4 /\ d.after = {}
    <3>1. d \in LooseContext /\ Alike(c, d) /\ d.depth = c.depth /\ d.after = c.after
      BY <1>4, <2>1, JsonFacts
    <3>2. QED
      BY <1>4, <3>1 DEF Alike
  <2>3. PICK a : a = Abort(d)
    OBVIOUS
  <2>4. a \in LooseContext /\ Alike(ctx[r], a) /\ a.index = 63 /\ a.depth = 4 /\ a.after = {}
    BY <2>2, <2>3, AbortFacts DEF Alike
  <2>5. Set(r, a)
    BY <1>5, <2>1, <2>3
  <2>6. QED
    BY <1>2, <2>4, <2>5, PastMiddleware DEF Alike
<1>6. ASSUME Set(r, Advance([c EXCEPT !.keys = @ \cup {"user", "claims"}])) PROVE PInv'
  <2>1. PICK d : d = [c EXCEPT !.keys = @ \cup {"user", "claims"}]
    OBVIOUS
  <2>2. /\ d \in LooseContext /\ Alike(ctx[r], d) /\ d.index = ctx[r].index
        /\ d.depth = 4 /\ d.after = {}
    BY <1>4, <2>1 DEF LooseContext, Alike
  <2>3. PICK a : a = Advance(d)
    OBVIOUS
  <2>4. a \in LooseContext /\ Alike(ctx[r], a) /\ a.index > 4 /\ a.depth = 4 /\ a.after = {}
    BY <1>2, <2>2, <2>3, AdvanceFacts DEF Alike
  <2>5. Set(r, a)
    BY <1>6, <2>1, <2>3
  <2>6. QED
    BY <1>2, <2>4, <2>5, PastMiddleware DEF Alike
<1>7. 401 \in Nat /\ 500 \in Nat
  OBVIOUS
<1>8. QED
  BY <1>1, <1>3, <1>5, <1>6, <1>7

LEMMA AuthorizeKeeps == ASSUME PInv, NEW r \in Requests, Authorize(r) PROVE PInv'
<1>1. Set(r, Advance(ctx[r])) \/ Set(r, Abort(Json(ctx[r], 401)))
  BY DEF Authorize
<1>2. /\ router = "service" /\ ctx[r].phase = "running" /\ ctx[r] \in LooseContext
      /\ ctx[r].index \in Nat
      /\ ctx[r].index > 4 /\ ctx[r].depth = 4 /\ ctx[r].after = {}
  BY RouteMiddleware DEF Authorize
<1>3. CASE Set(r, Advance(ctx[r]))
  <2>1. PICK a : a = Advance(ctx[r])
    OBVIOUS
  <2>2. a \in LooseContext /\ Alike(ctx[r], a) /\ a.index > 4 /\ a.depth = 4 /\ a.after = {}
    <3>1. /\ a \in LooseContext /\ Alike(ctx[r], a) /\ a.index = ctx[r].index + 1
          /\ a.depth = ctx[r].depth /\ a.after = ctx[r].after
      BY <1>2, <2>1, AdvanceFacts, Zenon
    <3>2. a.index > 4
      BY <1>2, <3>1
    <3>3. QED
      BY <1>2, <3>1, <3>2, Zenon
  <2>3. QED
    BY <1>2, <1>3, <2>1, <2>2, PastMiddleware DEF Alike
<1>4. CASE Set(r, Abort(Json(ctx[r], 401)))
  <2>1. PICK d : d = Json(ctx[r], 401)
    OBVIOUS
  <2>2. d \in LooseContext /\ Alike(ctx[r], d) /\ d.depth = 4 /\ d.after = {}
    <3>1. PICK code \in Nat : code = 401
      OBVIOUS
    <3>2. d = Json(ctx[r], code)
      BY <2>1, <3>1
    <3>3. QED
      BY <1>2, <3>2, JsonFacts
  <2>3. PICK a : a = Abort(d)
    OBVIOUS
  <2>4. a \in LooseContext /\ Alike(ctx[r], a) /\ a.index = 63 /\ a.depth = 4 /\ a.after = {}
    BY <2>2, <2>3, AbortFacts DEF Alike
  <2>5. QED
    BY <1>2, <1>4, <2>1, <2>3, <2>4, PastMiddleware DEF Alike
<1>5. QED
  BY <1>1, <1>3, <1>4

\* The code behind Next of the service's middleware.
LEMMA LeaveKeeps ==
  ASSUME PInv, NEW r \in Requests, LeaveObserver(r) \/ LeaveMetrics(r) PROVE PInv'
<1>1. PICK m \in {"telemetry", "logger", "panic", "metrics"} : Returning(r, m)
  BY DEF LeaveObserver, LeaveMetrics
<1>2. Leave(r, ctx[r])
  BY DEF LeaveObserver, LeaveMetrics
<1>3. ctx[r] \in LooseContext /\ ctx[r].phase = "running" /\ ctx[r].index > Len(Chain(r))
      /\ m = Top(r) /\ router \in {"service", "tests"}
  BY <1>1 DEF Returning, PInv, Loose
<1>4. router = "service"
  BY <1>1, <1>3, ReturningTests
<1>5. \/ m = "panic" /\ ctx[r].depth = 4 /\ ctx[r].after = {}
      \/ m = "metrics" /\ ctx[r].depth = 3 /\ ctx[r].after = {}
      \/ m = "logger" /\ ctx[r].depth = 2 /\ ctx[r].after = {"metrics"}
      \/ m = "telemetry" /\ ctx[r].depth = 1 /\ ctx[r].after = {"metrics", "logger"}
  BY <1>1, <1>4, ReturningService
<1>6. PICK n : n = ctx[r].depth - 1
  OBVIOUS
<1>7. PICK a : a = ctx[r].after \cup ({m} \ {"panic"})
  OBVIOUS
<1>8. /\ \/ n = 3 /\ a = {}
         \/ n = 2 /\ a = {"metrics"}
         \/ n = 1 /\ a = {"metrics", "logger"}
         \/ n = 0 /\ a = {"metrics", "logger", "telemetry"}
      /\ n \in Nat /\ a \in SUBSET {"telemetry", "logger", "metrics", "error"}
  BY <1>5, <1>6, <1>7
<1>9. PICK c : c = [ctx[r] EXCEPT !.depth = n, !.after = a]
  OBVIOUS
<1>10. /\ c \in LooseContext /\ c.phase = "running" /\ c.route = ctx[r].route
       /\ c.index = ctx[r].index /\ Rising(c)
  BY <1>3, <1>8, <1>9 DEF LooseContext, Rising
<1>11. Set(r, c)
  BY <1>2, <1>3, <1>6, <1>7, <1>9 DEF Leave
<1>12. ctx'[r] = c /\ router' = router /\ Routed(r)' /\ Chain(r)' = Chain(r)
  BY <1>3, <1>10, <1>11, SameRoute
<1>13. OnService(r)'
  BY <1>3, <1>10, <1>12 DEF OnService, Rising
<1>14. QED
  BY <1>4, <1>10, <1>11, <1>12, <1>13, OneMoves DEF Placed

\* The code an error is rendered with.
LEMMA RenderedCodes ==
  ASSUME NEW err \in Errors, err # NoError
  PROVE  /\ RenderedCode(err) \in Nat /\ RenderedCode(err) \in {400, 401, 404, 500}
         /\ err.kind = "app" => RenderedCode(err) = err.code
         /\ err.kind = "validation" => RenderedCode(err) = 400
  BY DEF Errors, BindErrors, AppErrors, NoError, Outcome, RenderedCode

\* mid.Error, the only middleware of the tests' router, leaves last.
LEMMA LeaveErrorKeeps == ASSUME PInv, NEW r \in Requests, LeaveError(r) PROVE PInv'
<1>1. Returning(r, "error") /\ ctx[r] \in LooseContext /\ ctx[r].phase = "running"
      /\ ctx[r].index > Len(Chain(r)) /\ Top(r) = "error" /\ router \in {"service", "tests"}
  BY DEF LeaveError, Returning, PInv, Loose
<1>2. router = "tests"
  BY <1>1, ReturningService
<1>3. ctx[r].depth = 1 /\ (ctx[r].bodies = 0 \/ ctx[r].err = NoError)
      /\ ctx[r].bodies \in Nat /\ ctx[r].err \in Errors
  BY <1>1, <1>2, ReturningTests DEF LooseContext
<1>4. PICK d : d = IF NothingToRender(ctx[r]) THEN ctx[r]
                   ELSE Json(ctx[r], RenderedCode(ctx[r].err))
  OBVIOUS
<1>5. /\ d \in LooseContext /\ Alike(ctx[r], d) /\ d.index = ctx[r].index
      /\ d.depth = 1 /\ Rendered(d)
  <2>1. CASE NothingToRender(ctx[r])
    <3>1. d = ctx[r] /\ ctx[r].err = NoError
      BY <1>3, <1>4, <2>1 DEF NothingToRender
    <3>2. QED
      BY <1>1, <1>3, <3>1 DEF Alike, Rendered, NoError, Outcome
  <2>2. CASE ~NothingToRender(ctx[r])
    <3>1. ctx[r].bodies = 0 /\ ctx[r].err # NoError
      BY <1>3, <2>2 DEF NothingToRender
    <3>2. PICK code : code = RenderedCode(ctx[r].err)
      OBVIOUS
    <3>3. /\ code \in Nat
          /\ ctx[r].err.kind = "app" => code = ctx[r].err.code
          /\ ctx[r].err.kind = "validation" => code = 400
      BY <1>3, <3>1, <3>2, RenderedCodes
    <3>4. d = Json(ctx[r], code)
      BY <1>4, <2>2, <3>2
    <3>5. /\ d \in LooseContext /\ Alike(ctx[r], d) /\ d.index = ctx[r].index
          /\ d.depth = 1 /\ d.status = code
      <4>1. /\ d \in LooseContext /\ Alike(ctx[r], d) /\ d.index = ctx[r].index
            /\ d.depth = ctx[r].depth
            /\ d.status = IF ctx[r].bodies = 0 THEN code ELSE ctx[r].status
        BY <1>1, <3>3, <3>4, JsonFacts, ZenonT(30)
      <4>2. QED
        BY <1>3, <3>1, <4>1
    <3>6. QED
      BY <3>3, <3>5 DEF Rendered, Alike
  <2>3. QED
    BY <2>1, <2>2
<1>6. Leave(r, d)
  BY <1>4 DEF LeaveError
<1>7. PICK a : a = d.after \cup ({"error"} \ {"panic"})
  OBVIOUS
<1>8. a \in SUBSET {"telemetry", "logger", "metrics", "error"}
  BY <1>5, <1>7 DEF LooseContext
<1>9. PICK c : c = [d EXCEPT !.depth = 0, !.after = a]
  OBVIOUS
<1>10. /\ c \in LooseContext /\ c.phase = "running" /\ c.route = ctx[r].route
       /\ c.index = ctx[r].index /\ c.depth = 0 /\ c.err = d.err /\ c.status = d.status
  BY <1>1, <1>5, <1>8, <1>9 DEF LooseContext, Alike
<1>11. Set(r, c)
  BY <1>1, <1>5, <1>6, <1>7, <1>9 DEF Leave
<1>12. ctx'[r] = c /\ router' = router /\ Routed(r)' /\ Chain(r)' = Chain(r)
  BY <1>1, <1>10, <1>11, SameRoute
<1>13. Rendered(c)
  BY <1>5, <1>10 DEF Rendered
<1>14. OnTests(r)'
  BY <1>1, <1>10, <1>12, <1>13 DEF OnTests
<1>15. QED
  BY <1>2, <1>10, <1>11, <1>12, <1>14, OneMoves DEF Placed

\* A panic of the service is met by mid.Panic, one of the tests by nobody.
LEMMA PanicKeeps ==
  ASSUME PInv, NEW r \in Requests, Unwind(r) \/ Recover(r) \/ Drop(r) PROVE PInv'
<1>1. ctx[r] \in LooseContext /\ ctx[r].phase = "panicking" /\ router \in {"service", "tests"}
      /\ ctx[r].depth \in Nat
  BY DEF Unwind, Recover, Drop, PInv, Loose, LooseContext
<1>2. router = "service" => /\ ctx[r].depth = 4 /\ ctx[r].after = {}
                            /\ Top(r) = "panic"
  BY <1>1 DEF PInv, Placed, OnService, Top, Stack
<1>3. router = "tests" => ctx[r].depth <= 1 /\ (ctx[r].depth > 0 => Top(r) = "error")
  <2> SUFFICES ASSUME router = "tests"
               PROVE  ctx[r].depth <= 1 /\ (ctx[r].depth > 0 => Top(r) = "error")
    OBVIOUS
  <2>1. ctx[r].depth <= 1
    BY <1>1 DEF PInv, Placed, OnTests
  <2>2. ctx[r].depth > 0 => ctx[r].depth = 1
    BY <1>1, <2>1
  <2>3. QED
    BY <2>1, <2>2 DEF Top, Stack
<1>4. CASE Unwind(r)
  <2>1. router = "tests" /\ ctx[r].depth = 1
    BY <1>1, <1>2, <1>3, <1>4 DEF Unwind
  <2>2. PICK c : c = [ctx[r] EXCEPT !.depth = 0]
    OBVIOUS
  <2>3. Set(r, c)
    BY <1>4, <2>1, <2>2 DEF Unwind
  <2>4. c \in LooseContext /\ Alike(ctx[r], c) /\ c.depth = 0
    BY <1>1, <2>2, DepthFacts
  <2>5. ctx'[r] = c /\ router' = router /\ Routed(r)'
    BY <1>1, <2>3, <2>4, SameRoute DEF Alike
  <2>6. OnTests(r)'
    BY <1>1, <2>4, <2>5 DEF OnTests, Alike
  <2>7. QED
    BY <2>1, <2>3, <2>4, <2>5, <2>6, OneMoves DEF Placed
<1>5. CASE Recover(r)
  <2>1. router = "service" /\ ctx[r].depth = 4 /\ ctx[r].after = {}
    BY <1>1, <1>2, <1>3, <1>5 DEF Recover
  <2>2. PICK d : d = [ctx[r] EXCEPT !.phase = "running", !.depth = 3]
    OBVIOUS
  <2>3. /\ d \in LooseContext /\ d.phase = "running" /\ d.route = ctx[r].route
        /\ d.depth = 3 /\ d.after = {}
    BY <1>1, <2>1, <2>2 DEF LooseContext
  <2>4. PICK code \in Nat : code = 500
    OBVIOUS
  <2>5. PICK e : e = Json(d, code)
    OBVIOUS
  <2>6. /\ e \in LooseContext /\ Alike(d, e) /\ e.depth = d.depth /\ e.after = d.after
    BY <2>3, <2>5, JsonFacts
  <2>7. PICK c : c = Abort(e)
    OBVIOUS
  <2>8. /\ c \in LooseContext /\ Alike(e, c) /\ c.index = 63
        /\ c.depth = e.depth /\ c.after = e.after
    BY <2>6, <2>7, AbortFacts
  <2>9. Set(r, c)
    BY <1>5, <2>1, <2>2, <2>4, <2>5, <2>7 DEF Recover
  <2>10. c.phase = "running" /\ c.route = ctx[r].route /\ Rising(c)
    BY <2>3, <2>6, <2>8 DEF Alike, Rising
  <2>11. /\ ctx'[r] = c /\ router' = router /\ Routed(r)' /\ Chain(r)' = Chain(r)
         /\ Len(Chain(r)) \in 5 .. 7
    BY <1>1, <2>1, <2>8, <2>9, <2>10, SameRoute
  <2>12. c.index > Len(Chain(r))
    <3>1. PICK n : n = Len(Chain(r))
      OBVIOUS
    <3>2. n \in 5 .. 7
      BY <2>11, <3>1
    <3>3. 63 > n
      BY <3>2
    <3>4. QED
      BY <2>8, <3>1, <3>3
  <2>13. OnService(r)'
    BY <2>10, <2>11, <2>12 DEF OnService, Rising
  <2>14. QED
    BY <2>1, <2>8, <2>9, <2>11, <2>13, OneMoves DEF Placed
<1>6. CASE Drop(r)
  <2>1. router = "tests"
    BY <1>1, <1>2, <1>6 DEF Drop
  <2>2. PICK c : c = [ctx[r] EXCEPT !.phase = "dropped"]
    OBVIOUS
  <2>3. Set(r, c)
    BY <1>6, <2>2 DEF Drop
  <2>4. c \in LooseContext /\ c.phase = "dropped" /\ c.route = ctx[r].route
    BY <1>1, <2>2 DEF LooseContext
  <2>5. ctx'[r] = c /\ router' = router /\ Routed(r)'
    BY <1>1, <2>3, <2>4, SameRoute
  <2>6. OnTests(r)'
    BY <2>4, <2>5 DEF OnTests
  <2>7. QED
    BY <2>1, <2>3, <2>4, <2>5, <2>6, OneMoves DEF Placed
<1>7. QED
  BY <1>4, <1>5, <1>6

LEMMA FinishKeeps == ASSUME PInv, NEW r \in Requests, Finish(r) PROVE PInv'
<1>1. PICK c : c = [ctx[r] EXCEPT !.phase = "done"]
  OBVIOUS
<1>2. ctx[r] \in LooseContext /\ ctx[r].phase = "running" /\ ctx[r].depth = 0
      /\ ctx[r].index > Len(Chain(r)) /\ Set(r, c) /\ ctx[r].index \in Nat /\ Placed(r)
  BY <1>1 DEF Finish, PInv, Loose, LooseContext
<1>3. /\ c \in LooseContext /\ c.phase = "done" /\ c.route = ctx[r].route
      /\ c.after = ctx[r].after /\ c.err = ctx[r].err /\ c.status = ctx[r].status
  BY <1>1, <1>2 DEF LooseContext
<1>4. /\ ctx'[r] = c /\ router' = router /\ Routed(r)'
      /\ router = "service" => Len(Chain(r)) \in 5 .. 7
      /\ router = "tests" => Len(Chain(r)) \in 2 .. 3
  BY <1>2, <1>3, SameRoute
<1>5. PICK n : n = Len(Chain(r))
  OBVIOUS
<1>6. ctx[r].index > 1
  <2>1. PInv => router \in {"service", "tests"}
    BY DEF PInv, Loose
  <2>2. n \in 2 .. 7
    BY <1>4, <1>5, <2>1, SMTT(30)
  <2>3. ctx[r].index > n
    BY <1>2, <1>5
  <2>4. QED
    BY <1>2, <2>2, <2>3
<1>7. router = "service" => OnService(r)'
  <2> SUFFICES ASSUME router = "service" PROVE OnService(r)'
    OBVIOUS
  <2>1. c.after = {"telemetry", "logger", "metrics"}
    BY <1>2, <1>3, <1>6 DEF Placed, OnService, Rising
  <2>2. QED
    BY <1>3, <1>4, <2>1 DEF OnService
<1>8. router = "tests" => OnTests(r)'
  <2> SUFFICES ASSUME router = "tests" PROVE OnTests(r)'
    OBVIOUS
  <2>1. Rendered(ctx[r])
    BY <1>2, <1>6 DEF Placed, OnTests
  <2>2. Rendered(c)
    BY <1>3, <2>1 DEF Rendered
  <2>3. QED
    BY <1>3, <1>4, <2>2 DEF OnTests
<1>9. QED
  BY <1>2, <1>3, <1>4, <1>7, <1>8, OneMoves DEF Placed

LEMMA InitPInv == Init => PInv
<1> SUFFICES ASSUME Init PROVE PInv
  OBVIOUS
<1>1. NewContext \in LooseContext
  BY DEF NewContext, LooseContext, Errors
<1>2. Loose
  BY <1>1, RoutersAssumption DEF Init, Loose
<1>3. ASSUME NEW r \in Requests PROVE Placed(r)
  <2>1. ctx[r] = NewContext
    BY DEF Init
  <2>2. QED
    BY <2>1 DEF NewContext, Placed, Routed, OnService, OnTests
<1>4. QED
  BY <1>2, <1>3 DEF PInv

LEMMA StutterPInv == ASSUME PInv, UNCHANGED vars PROVE PInv'
<1>1. router' = router /\ ctx' = ctx
  BY DEF vars
<1>2. Loose'
  BY <1>1 DEF PInv, Loose
<1>3. ASSUME NEW r \in Requests PROVE Placed(r)'
  <2>1. Placed(r)
    BY DEF PInv
  <2>2. Chain(r)' = Chain(r)
    BY <1>1 DEF Chain, Stack, RouteChain
  <2>3. Routed(r)' /\ (router = "service" => OnService(r)')
    BY <1>1, <2>1, <2>2 DEF Placed, Routed, Registered, OnService, Rising
  <2>4. router = "tests" => OnTests(r)'
    BY <1>1, <2>1, <2>2 DEF Placed, OnTests, Rendered
  <2>5. QED
    BY <1>1, <2>3, <2>4 DEF Placed
<1>4. QED
  BY <1>2, <1>3 DEF PInv

LEMMA StepPInv == PInv /\ [Next]_vars => PInv'
<1> SUFFICES ASSUME PInv, [Next]_vars PROVE PInv'
  OBVIOUS
<1>1. ASSUME NEW r \in Requests, Start(r) \/ Proceed(r) PROVE PInv'
  <2>1. CASE Start(r)
    BY <2>1, StartKeeps
  <2>2. CASE Enter(r) \/ AddRequest(r) \/ EnterMetrics(r) \/ SetUser(r)
    BY <2>2, EnterKeeps, MetricsKeeps, SetUserKeeps
  <2>3. CASE Handle(r) \/ Authenticate(r) \/ Authorize(r)
    BY <2>3, HandleKeeps, AuthenticateKeeps, AuthorizeKeeps
  <2>4. CASE LeaveObserver(r) \/ LeaveMetrics(r) \/ LeaveError(r)
    BY <2>4, LeaveKeeps, LeaveErrorKeeps
  <2>5. CASE Unwind(r) \/ Recover(r) \/ Drop(r) \/ Finish(r)
    BY <2>5, PanicKeeps, FinishKeeps
  <2>6. QED
    BY <1>1, <2>1, <2>2, <2>3, <2>4, <2>5 DEF Proceed
<1>2. CASE Quiet \/ UNCHANGED vars
  BY <1>2, StutterPInv DEF Quiet
<1>3. QED
  BY <1>1, <1>2 DEF Next

\* The invariant holds of every behaviour of the chain.
THEOREM PipelineInvariance == Spec => []PInv
  BY InitPInv, StepPInv, PTL DEF Spec

\* Whatever a handler does, a panic included, the code of Telemetry, Logger and
\* Metrics behind c.Next has run when the service's response is complete.
THEOREM CompletionIsObserved == Spec => []CompletionObserved
<1>1. PInv => CompletionObserved
  BY DEF PInv, Placed, OnService, CompletionObserved, Done
<1>2. QED
  BY <1>1, PipelineInvariance, PTL

\* No panic of a handler closes a connection of the service: mid.Panic, which is
\* the innermost middleware, meets every one (the safety half of AllAnswered).
NoneDropped == router = "service" => \A r \in Requests : ctx[r].phase # "dropped"

\* A request of the service never ends without a response (NoneDropped).
THEOREM PanicsAreMet == Spec => []NoneDropped
<1>1. PInv => NoneDropped
  BY DEF PInv, Placed, OnService, NoneDropped
<1>2. QED
  BY <1>1, PipelineInvariance, PTL

\* On the router of handler_test.go mid.Error answers every recorded error with
\* its own code, and a validation error with 400.
THEOREM TestsRender == Spec => []TestsRenderErrors
<1>1. PInv => TestsRenderErrors
  BY DEF PInv, Placed, OnTests, Rendered, TestsRenderErrors, ErrorsRendered, Done
<1>2. QED
  BY <1>1, PipelineInvariance, PTL

------------------------------------------------------------------------------
(***************************************************************************)
(* The metrics.  A counter is the number of requests that have passed the  *)
(* place where it is incremented; of every request the invariant says      *)
(* whether it has.                                                         *)
(***************************************************************************)
Statuses == {200, 201, 204, 400, 401, 404, 500}

Bounds(c) ==
  /\ c.index \in 1 .. 8 \cup {63} /\ c.depth <= 4 /\ c.bodies <= 2
  /\ c.status \in Statuses

\* A request that has yet to meet elements of its chain, which has n.
Early(c, n) == c.phase \in {"new", "counting"} \/ (c.phase = "running" /\ c.index <= n)

\* Whether a request of the service has met Metrics, panicked and answered.
Metered(c, n) ==
  /\ c.phase \in {"new", "counting"} \/ (c.phase = "running" /\ c.index < 4)
       => "metrics" \notin c.keys
  /\ c.phase \in {"panicking", "done"} \/ (c.phase = "running" /\ c.index > 3)
       => "metrics" \in c.keys
  /\ Early(c, n) => ~c.panicked /\ c.bodies <= 1
  /\ c.phase \in {"new", "counting", "panicking"} \/ (c.phase = "running" /\ c.index <= 5)
       => c.bodies = 0
  /\ c.phase = "panicking" => c.panicked

Tracked(r) ==
  /\ Bounds(ctx[r])
  /\ router = "service" => Metered(ctx[r], Len(Chain(r)))

\* Behind AddRequest, behind the sample, behind AddError and behind AddPanic.
Counted(c)  == c.phase = "counting" \/ "metrics" \in c.keys
Sampled(c)  == "metrics" \in c.keys
Failed(c)   == "metrics" \in c.after /\ c.status >= 400
Panicked(c) == c.panicked /\ c.phase # "panicking"

AllCounted  == {r \in Requests : Counted(ctx[r])}
AllSampled  == {r \in Requests : Sampled(ctx[r])}
AllFailed   == {r \in Requests : Failed(ctx[r])}
AllPanicked == {r \in Requests : Panicked(ctx[r])}

Tallied ==
  /\ requests = Cardinality(AllCounted) /\ errors = Cardinality(AllFailed)
  /\ panics = Cardinality(AllPanicked)
  /\ sampled \in Nat /\ sampled <= Cardinality(AllSampled)

NothingTallied == requests = 0 /\ errors = 0 /\ panics = 0 /\ sampled = 0

MInv ==
  /\ router \in Routers
  /\ \A r \in Requests : Tracked(r)
  /\ router = "service" => Tallied
  /\ router = "tests" => NothingTallied

\* One request more, or none.
LEMMA OneMore ==
  ASSUME NEW S \in SUBSET Requests, NEW T \in SUBSET Requests, NEW r \in Requests,
         \A q \in Requests \ {r} : q \in T <=> q \in S
  PROVE  /\ Cardinality(S) \in Nat /\ Cardinality(T) \in Nat
         /\ (r \in T <=> r \in S) => T = S
         /\ r \in T /\ r \notin S => Cardinality(T) = Cardinality(S) + 1
<1>1. IsFiniteSet(S) /\ IsFiniteSet(T)
  BY FS_Subset, RequestsAssumption
<1>2. Cardinality(S) \in Nat /\ Cardinality(T) \in Nat
  BY <1>1, FS_CardinalityType
<1>3. r \in T /\ r \notin S => Cardinality(T) = Cardinality(S) + 1
  <2> SUFFICES ASSUME r \in T, r \notin S PROVE Cardinality(T) = Cardinality(S) + 1
    OBVIOUS
  <2>1. T = S \cup {r}
    OBVIOUS
  <2>2. QED
    BY <1>1, <2>1, FS_AddElement
<1>4. QED
  BY <1>2, <1>3

\* What a step that takes a request from c to d does to the counters.
Tally(c, d) ==
  /\ \/ (Counted(d) <=> Counted(c)) /\ requests' = requests
     \/ Counted(d) /\ ~Counted(c) /\ requests' = requests + 1
  /\ \/ (Failed(d) <=> Failed(c)) /\ errors' = errors
     \/ Failed(d) /\ ~Failed(c) /\ errors' = errors + 1
  /\ \/ (Panicked(d) <=> Panicked(c)) /\ panics' = panics
     \/ Panicked(d) /\ ~Panicked(c) /\ panics' = panics + 1
  /\ \/ (Sampled(d) <=> Sampled(c)) /\ sampled' = sampled
     \/ Sampled(d) /\ ~Sampled(c) /\ sampled' \in {sampled, sampled + 1}

LEMMA TallyStep ==
  ASSUME PInv, Tallied, NEW r \in Requests, NEW d, Set(r, d), Tally(ctx[r], d)
  PROVE  Tallied'
<1>1. ctx'[r] = d /\ \A q \in Requests \ {r} : ctx'[q] = ctx[q]
  BY DEF Set, PInv, Loose
<1>2. requests' = Cardinality(AllCounted')
  <2>1. AllCounted \in SUBSET Requests /\ AllCounted' \in SUBSET Requests
        /\ \A q \in Requests \ {r} : q \in AllCounted' <=> q \in AllCounted
    BY <1>1 DEF AllCounted, Counted
  <2>2. (r \in AllCounted' <=> Counted(d)) /\ (r \in AllCounted <=> Counted(ctx[r]))
    BY <1>1 DEF AllCounted, Counted
  <2>3. /\ (r \in AllCounted' <=> r \in AllCounted) => AllCounted' = AllCounted
        /\ r \in AllCounted' /\ r \notin AllCounted
             => Cardinality(AllCounted') = Cardinality(AllCounted) + 1
    BY <2>1, OneMore
  <2>4. QED
    BY <2>2, <2>3 DEF Tally, Tallied
<1>3. errors' = Cardinality(AllFailed')
  <2>1. AllFailed \in SUBSET Requests /\ AllFailed' \in SUBSET Requests
        /\ \A q \in Requests \ {r} : q \in AllFailed' <=> q \in AllFailed
    BY <1>1 DEF AllFailed, Failed
  <2>2. (r \in AllFailed' <=> Failed(d)) /\ (r \in AllFailed <=> Failed(ctx[r]))
    BY <1>1 DEF AllFailed, Failed
  <2>3. /\ (r \in AllFailed' <=> r \in AllFailed) => AllFailed' = AllFailed
        /\ r \in AllFailed' /\ r \notin AllFailed
             => Cardinality(AllFailed') = Cardinality(AllFailed) + 1
    BY <2>1, OneMore
  <2>4. QED
    BY <2>2, <2>3 DEF Tally, Tallied
<1>4. panics' = Cardinality(AllPanicked')
  <2>1. AllPanicked \in SUBSET Requests /\ AllPanicked' \in SUBSET Requests
        /\ \A q \in Requests \ {r} : q \in AllPanicked' <=> q \in AllPanicked
    BY <1>1 DEF AllPanicked, Panicked
  <2>2. (r \in AllPanicked' <=> Panicked(d)) /\ (r \in AllPanicked <=> Panicked(ctx[r]))
    BY <1>1 DEF AllPanicked, Panicked
  <2>3. /\ (r \in AllPanicked' <=> r \in AllPanicked) => AllPanicked' = AllPanicked
        /\ r \in AllPanicked' /\ r \notin AllPanicked
             => Cardinality(AllPanicked') = Cardinality(AllPanicked) + 1
    BY <2>1, OneMore
  <2>4. QED
    BY <2>2, <2>3 DEF Tally, Tallied
<1>5. sampled' \in Nat /\ sampled' <= Cardinality(AllSampled')
  <2>1. AllSampled \in SUBSET Requests /\ AllSampled' \in SUBSET Requests
        /\ \A q \in Requests \ {r} : q \in AllSampled' <=> q \in AllSampled
    BY <1>1 DEF AllSampled, Sampled
  <2>2. (r \in AllSampled' <=> Sampled(d)) /\ (r \in AllSampled <=> Sampled(ctx[r]))
    BY <1>1 DEF AllSampled, Sampled
  <2>3. /\ (r \in AllSampled' <=> r \in AllSampled) => AllSampled' = AllSampled
        /\ r \in AllSampled' /\ r \notin AllSampled
             => Cardinality(AllSampled') = Cardinality(AllSampled) + 1
    BY <2>1, OneMore
  <2>4. PICK k \in Nat : k = Cardinality(AllSampled)
    BY <2>1, OneMore
  <2>5. \/ Cardinality(AllSampled') = k /\ sampled' = sampled
        \/ Cardinality(AllSampled') = k + 1 /\ sampled' \in {sampled, sampled + 1}
    BY <2>2, <2>3, <2>4 DEF Tally
  <2>6. sampled \in Nat /\ sampled <= k
    BY <2>4 DEF Tallied
  <2>7. QED
    BY <2>4, <2>5, <2>6
<1>6. QED
  BY <1>2, <1>3, <1>4, <1>5 DEF Tallied

\* A step of one request keeps MInv when it keeps its part.
LEMMA OneTracked ==
  ASSUME PInv, MInv, NEW r \in Requests, NEW d \in LooseContext, Set(r, d), Bounds(d),
         router = "service" => Metered(d, Len(Chain(r)')) /\ Tally(ctx[r], d),
         router = "tests" => UNCHANGED counters
  PROVE  MInv'
<1>1. ctx'[r] = d /\ router' = router /\ \A q \in Requests \ {r} : ctx'[q] = ctx[q]
  BY DEF Set, PInv, Loose
<1>2. ASSUME NEW q \in Requests \ {r} PROVE Tracked(q)'
  <2>1. ctx'[q] = ctx[q] /\ router' = router
    BY <1>1
  <2>2. Chain(q)' = Chain(q)
    BY <2>1 DEF Chain, Stack, RouteChain
  <2>3. Tracked(q)
    BY DEF MInv
  <2>4. QED
    BY <2>1, <2>2, <2>3 DEF Tracked
<1>3. Tracked(r)'
  BY <1>1 DEF Tracked
<1>4. router = "service" => Tallied'
  BY TallyStep DEF MInv
<1>5. router = "tests" => NothingTallied'
  BY DEF MInv, NothingTallied, counters
<1>6. QED
  BY <1>1, <1>2, <1>3, <1>4, <1>5 DEF MInv

\* The same for a step that increments nothing, of a request with a route.
Calm(c, d) ==
  /\ Counted(d) <=> Counted(c)
  /\ Failed(d) <=> Failed(c)
  /\ Panicked(d) <=> Panicked(c)
  /\ Sampled(d) <=> Sampled(c)

LEMMA CalmTracked ==
  ASSUME PInv, MInv, NEW r \in Requests, NEW d \in LooseContext, Set(r, d),
         UNCHANGED counters, Bounds(d), d.route = ctx[r].route, ctx[r].phase # "new",
         router = "service" => Metered(d, Len(Chain(r))) /\ Calm(ctx[r], d)
  PROVE  MInv'
<1>1. Chain(r)' = Chain(r)
  BY SameRoute
<1>2. Calm(ctx[r], d) => Tally(ctx[r], d)
  BY DEF Calm, Tally, counters
<1>3. router = "service" => Metered(d, Len(Chain(r)')) /\ Tally(ctx[r], d)
  BY <1>1, <1>2
<1>4. QED
  BY <1>3, OneTracked

LEMMA TrackedFacts ==
  ASSUME PInv, MInv, NEW r \in Requests
  PROVE  /\ ctx[r] \in LooseContext /\ Bounds(ctx[r]) /\ router \in {"service", "tests"}
         /\ ctx[r].index \in Nat /\ ctx[r].depth \in Nat /\ ctx[r].bodies \in Nat
         /\ router = "service" => Metered(ctx[r], Len(Chain(r))) /\ OnService(r)
         /\ router = "tests" => OnTests(r)
<1>1. ctx[r] \in LooseContext /\ router \in {"service", "tests"} /\ Placed(r) /\ Tracked(r)
  BY DEF PInv, Loose, MInv
<1>2. QED
  BY <1>1 DEF Tracked, Placed, LooseContext

\* How long a chain is.
LEMMA ChainLength ==
  ASSUME PInv, NEW r \in Requests, ctx[r].phase # "new"
  PROVE  /\ Len(Chain(r)) \in Nat /\ Len(Chain(r)) <= 7
         /\ router = "service" => Len(Chain(r)) >= 5
<1>1. ctx[r].route \in Registered(router) /\ Loose /\ router \in {"service", "tests"}
  BY DEF PInv, Placed, Routed, Loose
<1>2. CASE router = "service"
  <2>1. PICK n : n = Len(Chain(r))
    OBVIOUS
  <2>2. n \in 5 .. 7
    BY <1>1, <1>2, <2>1, ServiceChain
  <2>3. n \in Nat /\ n <= 7 /\ n >= 5
    BY <2>2
  <2>4. QED
    BY <2>1, <2>3
<1>3. CASE router = "tests"
  <2>1. PICK n : n = Len(Chain(r))
    OBVIOUS
  <2>2. n \in 2 .. 3
    BY <1>1, <1>3, <2>1, TestsChain
  <2>3. n \in Nat /\ n <= 7
    BY <2>2
  <2>4. QED
    BY <1>3, <2>1, <2>3
<1>4. QED
  BY <1>1, <1>2, <1>3

\* The service's routes run their handlers first.
LEMMA HandlerFirst ==
  ASSUME PInv, router = "service", NEW r \in Requests, At(r, ctx[r].route)
  PROVE  ctx[r].index = 5
<1> DEFINE route == ctx[r].route
           s == <<"telemetry", "logger", "metrics", "panic">>
           t == RouteChain(route)
<1>1. /\ ctx[r].route \in Registered("service") /\ ctx[r].index \in 5 .. Len(Chain(r))
      /\ Chain(r)[ctx[r].index] = ctx[r].route
  BY AtService DEF At, Registered
<1>2. t \in {<<route>>, <<route, "authenticate">>, <<route, "authenticate", "authorize">>}
  BY <1>1 DEF RouteChain, Registered
<1>3. Chain(r) = s \o t
  BY DEF Chain, Stack
<1>4. route \notin {"authenticate", "authorize"}
  BY <1>1 DEF Registered
<1>5. PICK i \in Nat : i = ctx[r].index
  BY <1>1
<1>6. i \in 5 .. Len(s \o t) /\ (s \o t)[i] = route
  BY <1>1, <1>3, <1>5
<1> HIDE DEF t, route
<1>7. CASE t = <<route>>
  BY <1>5, <1>6, <1>7
<1>8. CASE t = <<route, "authenticate">>
  <2>1. i \in {5, 6}
    BY <1>6, <1>8
  <2>2. i # 6
    BY <1>4, <1>6, <1>8
  <2>3. QED
    BY <1>5, <2>1, <2>2
<1>9. CASE t = <<route, "authenticate", "authorize">>
  <2>1. i \in {5, 6, 7}
    BY <1>6, <1>9
  <2>2. i # 6 /\ i # 7
    BY <1>4, <1>6, <1>9
  <2>3. QED
    BY <1>5, <2>1, <2>2
<1>10. QED
  BY <1>2, <1>7, <1>8, <1>9

\* Where two contexts agree the counters have nothing to see.
LEMMA SameTally ==
  ASSUME NEW c, NEW d, Marked(c, d), d.phase = c.phase, d.after = c.after,
         d.status = c.status \/ c.after = {}
  PROVE  Calm(c, d)
  BY DEF Calm, Marked, Counted, Failed, Panicked, Sampled

LEMMA StartTracked == ASSUME PInv, MInv, NEW r \in Requests, Start(r) PROVE MInv'
<1>1. PICK route \in Routes \cap Registered(router) :
        Set(r, [ctx[r] EXCEPT !.phase = "running", !.route = route])
  BY DEF Start
<1>2. PICK d : d = [ctx[r] EXCEPT !.phase = "running", !.route = route]
  OBVIOUS
<1>3. ctx[r] \in LooseContext /\ ctx[r].phase = "new" /\ Bounds(ctx[r]) /\ UNCHANGED counters
  BY TrackedFacts DEF Start
<1>4. /\ d \in LooseContext /\ d.phase = "running" /\ Marked(ctx[r], d)
      /\ d.index = ctx[r].index /\ d.depth = ctx[r].depth /\ d.after = ctx[r].after
      /\ d.bodies = ctx[r].bodies /\ d.status = ctx[r].status
  BY <1>2, <1>3 DEF LooseContext, Marked
<1>5. Set(r, d) /\ Bounds(d)
  BY <1>1, <1>2, <1>3, <1>4 DEF Bounds
<1>6. ASSUME router = "service" PROVE Metered(d, Len(Chain(r)')) /\ Tally(ctx[r], d)
  <2>1. Metered(ctx[r], Len(Chain(r))) /\ ctx[r].index = 1
    BY <1>3, <1>6, TrackedFacts DEF OnService
  <2>2. "metrics" \notin ctx[r].keys /\ ~ctx[r].panicked /\ ctx[r].bodies = 0
    BY <1>3, <2>1 DEF Metered, Early
  <2>3. Metered(d, Len(Chain(r)'))
    BY <1>4, <2>1, <2>2 DEF Metered, Marked
  <2>4. Calm(ctx[r], d)
    BY <1>3, <1>4, <2>2 DEF Calm, Marked, Counted, Failed, Panicked, Sampled
  <2>5. QED
    BY <1>3, <2>3, <2>4 DEF Calm, Tally, counters
<1>7. QED
  BY <1>3, <1>4, <1>5, <1>6, OneTracked DEF counters

LEMMA EnterTracked == ASSUME PInv, MInv, NEW r \in Requests, Enter(r) PROVE MInv'
<1>1. PICK m \in {"telemetry", "logger", "panic", "error"} : At(r, m)
  BY DEF Enter
<1>2. /\ ctx[r] \in LooseContext /\ ctx[r].phase = "running" /\ Bounds(ctx[r])
      /\ ctx[r].index \in Nat /\ ctx[r].depth \in Nat /\ UNCHANGED counters
  BY <1>1, TrackedFacts DEF Enter, At
<1>3. PICK n \in Nat : n = ctx[r].depth + 1
  BY <1>2
<1>4. PICK e : e = [ctx[r] EXCEPT !.depth = n]
  OBVIOUS
<1>5. PICK d : d = Advance(e)
  OBVIOUS
<1>6. Set(r, d)
  BY <1>3, <1>4, <1>5 DEF Enter
<1>7. /\ e \in LooseContext /\ Alike(ctx[r], e) /\ Marked(ctx[r], e) /\ e.depth = n
      /\ e.index = ctx[r].index /\ e.after = ctx[r].after
      /\ e.bodies = ctx[r].bodies /\ e.status = ctx[r].status
  BY <1>2, <1>4, DepthFacts
<1>8. /\ d \in LooseContext /\ Alike(e, d) /\ Marked(e, d) /\ d.depth = e.depth
      /\ d.index = e.index + 1 /\ d.after = e.after
      /\ d.bodies = e.bodies /\ d.status = e.status
  BY <1>5, <1>7, AdvanceFacts
<1>9. /\ d.phase = "running" /\ d.route = ctx[r].route /\ Marked(ctx[r], d)
      /\ d.depth = ctx[r].depth + 1 /\ d.index = ctx[r].index + 1
      /\ d.after = ctx[r].after /\ d.bodies = ctx[r].bodies /\ d.status = ctx[r].status
  BY <1>2, <1>3, <1>7, <1>8 DEF Alike, Marked
<1>10. /\ router = "service" =>
            \/ ctx[r].index \in {1, 2} /\ ctx[r].depth <= 1
            \/ ctx[r].index = 4 /\ ctx[r].depth = 3
       /\ router = "tests" => ctx[r].index = 1 /\ ctx[r].depth = 0
  <2>1. CASE router = "service"
    BY <1>1, <2>1, AtService DEF Registered
  <2>2. CASE router = "tests"
    BY <1>1, <2>2, AtTests DEF Registered
  <2>3. QED
    BY <2>1, <2>2
<1>11. Bounds(d)
  <2>1. d.index \in {2, 3, 5} /\ d.depth <= 4
    BY <1>2, <1>9, <1>10, TrackedFacts
  <2>2. QED
    BY <1>2, <1>9, <2>1 DEF Bounds
<1>12. ASSUME router = "service" PROVE Metered(d, Len(Chain(r))) /\ Calm(ctx[r], d)
  <2>1. Metered(ctx[r], Len(Chain(r))) /\ ctx[r].index <= Len(Chain(r))
    BY <1>1, <1>12, TrackedFacts DEF At
  <2>2. ~ctx[r].panicked /\ ctx[r].bodies = 0
        /\ (ctx[r].index < 4 => "metrics" \notin ctx[r].keys)
        /\ (ctx[r].index > 3 => "metrics" \in ctx[r].keys)
    BY <1>2, <1>10, <1>12, <2>1 DEF Metered, Early
  <2>3. Metered(d, Len(Chain(r)))
    <3>1. \/ d.index \in {2, 3} /\ "metrics" \notin d.keys
          \/ d.index = 5 /\ "metrics" \in d.keys
      BY <1>9, <1>10, <1>12, <2>2 DEF Marked
    <3>2. d.phase = "running" /\ d.bodies = 0 /\ ~d.panicked
      BY <1>9, <2>2 DEF Marked
    <3>3. QED
      BY <3>1, <3>2 DEF Metered
  <2>4. QED
    BY <1>2, <1>9, <2>3, SameTally
<1>13. QED
  BY <1>2, <1>6, <1>8, <1>9, <1>11, <1>12, CalmTracked

LEMMA AddRequestTracked == ASSUME PInv, MInv, NEW r \in Requests, AddRequest(r) PROVE MInv'
<1>1. PICK d : d = [ctx[r] EXCEPT !.phase = "counting"]
  OBVIOUS
<1>2. /\ At(r, "metrics") /\ Set(r, d) /\ ctx[r] \in LooseContext /\ Bounds(ctx[r])
      /\ ctx[r].phase = "running" /\ requests' = requests + 1
      /\ UNCHANGED <<errors, panics, sampled>>
  BY <1>1, TrackedFacts DEF AddRequest, At
<1>3. /\ d \in LooseContext /\ d.phase = "counting" /\ d.route = ctx[r].route
      /\ Marked(ctx[r], d) /\ d.depth = ctx[r].depth /\ d.index = ctx[r].index
      /\ d.after = ctx[r].after /\ d.bodies = ctx[r].bodies /\ d.status = ctx[r].status
  BY <1>1, <1>2 DEF LooseContext, Marked
<1>4. router = "service"
  BY <1>2, AtTests, TrackedFacts DEF Registered
<1>5. ctx[r].index = 3 /\ ctx[r].index <= Len(Chain(r)) /\ Metered(ctx[r], Len(Chain(r)))
  BY <1>2, <1>4, AtService, TrackedFacts DEF Registered, At
<1>6. "metrics" \notin ctx[r].keys /\ ~ctx[r].panicked /\ ctx[r].bodies = 0
  BY <1>2, <1>5 DEF Metered, Early
<1>7. \A n : Metered(d, n)
  BY <1>3, <1>6 DEF Metered, Marked
<1>8. Tally(ctx[r], d)
  <2>1. Counted(d) /\ ~Counted(ctx[r])
    BY <1>2, <1>3, <1>6 DEF Counted
  <2>2. (Failed(d) <=> Failed(ctx[r])) /\ (Panicked(d) <=> Panicked(ctx[r]))
        /\ (Sampled(d) <=> Sampled(ctx[r]))
    BY <1>3, <1>6 DEF Failed, Panicked, Sampled, Marked
  <2>3. QED
    BY <1>2, <2>1, <2>2 DEF Tally
<1>9. Bounds(d)
  BY <1>2, <1>3 DEF Bounds
<1>10. QED
  BY <1>2, <1>3, <1>4, <1>7, <1>8, <1>9, OneTracked

LEMMA EnterMetricsTracked ==
  ASSUME PInv, MInv, NEW r \in Requests, EnterMetrics(r) PROVE MInv'
<1>1. /\ ctx[r].phase = "counting" /\ ctx[r] \in LooseContext /\ Bounds(ctx[r])
      /\ ctx[r].depth \in Nat /\ ctx[r].index \in Nat
  BY TrackedFacts DEF EnterMetrics
<1>2. router = "service"
  BY <1>1, TrackedFacts DEF OnTests
<1>3. ctx[r].index = 3 /\ ctx[r].depth = 2 /\ Metered(ctx[r], Len(Chain(r)))
  BY <1>1, <1>2, TrackedFacts DEF OnService
<1>4. PICK k : k = ctx[r].keys \cup {"metrics"}
  OBVIOUS
<1>5. PICK e : e = [ctx[r] EXCEPT !.phase = "running", !.depth = 3, !.keys = k]
  OBVIOUS
<1>6. k \in SUBSET {"metrics", "user", "claims"} /\ "metrics" \in k
  BY <1>1, <1>4 DEF LooseContext
<1>7. /\ e \in LooseContext /\ e.phase = "running" /\ e.route = ctx[r].route
      /\ e.index = 3 /\ e.depth = 3 /\ e.keys = k /\ e.panicked = ctx[r].panicked
      /\ e.after = ctx[r].after /\ e.bodies = ctx[r].bodies /\ e.status = ctx[r].status
  BY <1>1, <1>3, <1>5, <1>6 DEF LooseContext
<1>8. PICK d : d = Advance(e)
  OBVIOUS
<1>9. /\ d \in LooseContext /\ Alike(e, d) /\ Marked(e, d) /\ d.depth = e.depth
      /\ d.index = e.index + 1 /\ d.after = e.after
      /\ d.bodies = e.bodies /\ d.status = e.status
  BY <1>7, <1>8, AdvanceFacts
<1>10. /\ d.phase = "running" /\ d.route = ctx[r].route /\ d.index = 4 /\ d.depth = 3
       /\ "metrics" \in d.keys /\ d.panicked = ctx[r].panicked
       /\ d.after = ctx[r].after /\ d.bodies = ctx[r].bodies /\ d.status = ctx[r].status
  BY <1>6, <1>7, <1>9 DEF Alike, Marked
<1>11. Set(r, d) /\ UNCHANGED <<requests, errors, panics>>
       /\ sampled' \in {sampled, sampled + 1}
  <2>1. Set(r, d)
    BY <1>3, <1>4, <1>5, <1>8 DEF EnterMetrics
  <2>2. QED
    BY <2>1 DEF EnterMetrics
<1>12. ~ctx[r].panicked /\ ctx[r].bodies = 0
  BY <1>1, <1>3 DEF Metered, Early
<1>13. \A n : Metered(d, n)
  BY <1>10, <1>12 DEF Metered
<1>14. Tally(ctx[r], d)
  <2>1. Counted(d) /\ Counted(ctx[r]) /\ Sampled(d)
    BY <1>1, <1>10 DEF Counted, Sampled
  <2>2. (Failed(d) <=> Failed(ctx[r])) /\ (Panicked(d) <=> Panicked(ctx[r]))
    BY <1>10, <1>12 DEF Failed, Panicked
  <2>3. ~Sampled(ctx[r])
    BY <1>1, <1>3 DEF Sampled, Metered
  <2>4. QED
    BY <1>11, <2>1, <2>2, <2>3 DEF Tally
<1>15. Bounds(d)
  BY <1>1, <1>10 DEF Bounds
<1>16. QED
  BY <1>2, <1>9, <1>11, <1>13, <1>14, <1>15, OneTracked

\* An element of a route of the service returns: the chain goes on, or is aborted
\* with an answer.
LEMMA ElementTracked ==
  ASSUME PInv, MInv, router = "service", NEW r \in Requests, ctx[r].phase = "running",
         ctx[r].index > 4, ctx[r].index <= Len(Chain(r)), ctx[r].depth = 4, ctx[r].after = {},
         NEW d \in LooseContext, Set(r, d), UNCHANGED counters, d.phase = "running",
         d.route = ctx[r].route, d.panicked = ctx[r].panicked,
         "metrics" \in d.keys <=> "metrics" \in ctx[r].keys, d.after = {}, d.depth = 4,
         d.status \in Statuses,
         \/ d.index = ctx[r].index + 1 /\ d.bodies <= 1
         \/ d.index = 63 /\ d.bodies <= 2
  PROVE  MInv'
<1>1. PICK n : n = Len(Chain(r))
  OBVIOUS
<1>2. n \in Nat /\ n <= 7 /\ ctx[r].index \in Nat /\ ctx[r].index <= n /\ d.bodies \in Nat
  BY <1>1, ChainLength, TrackedFacts DEF LooseContext
<1>3. Metered(ctx[r], n)
  BY <1>1, TrackedFacts
<1>4. "metrics" \in d.keys /\ ~d.panicked
  <2>1. ctx[r].index > 3
    BY <1>2
  <2>2. QED
    BY <1>2, <1>3, <2>1 DEF Metered, Early
<1>5. /\ d.index \in Nat /\ d.index > 5 /\ d.index \in 1 .. 8 \cup {63} /\ d.bodies <= 2
      /\ d.index <= n => d.bodies <= 1
  <2>1. CASE d.index = ctx[r].index + 1 /\ d.bodies <= 1
    BY <1>2, <2>1, SMTT(30)
  <2>2. CASE d.index = 63 /\ d.bodies <= 2
    BY <1>2, <2>2
  <2>3. QED
    BY <2>1, <2>2
<1>6. Metered(d, n)
  <2>1. ~(d.index < 4) /\ ~(d.index <= 5)
    BY <1>5
  <2>2. QED
    BY <1>4, <1>5, <2>1 DEF Metered, Early
<1>7. Bounds(d)
  BY <1>5 DEF Bounds
<1>8. Calm(ctx[r], d)
  BY <1>4 DEF Calm, Counted, Failed, Panicked, Sampled
<1>9. QED
  BY <1>1, <1>6, <1>7, <1>8, CalmTracked

\* A step of the tests' router, which has no metrics.
LEMMA TestsTracked ==
  ASSUME PInv, MInv, router = "tests", NEW r \in Requests, NEW d \in LooseContext,
         Set(r, d), UNCHANGED counters, Bounds(d)
  PROVE  MInv'
  BY OneTracked

LEMMA SetUserTracked == ASSUME PInv, MInv, NEW r \in Requests, SetUser(r) PROVE MInv'
<1>1. PICK e : e = [ctx[r] EXCEPT !.keys = @ \cup {"user"}]
  OBVIOUS
<1>2. PICK d : d = Advance(e)
  OBVIOUS
<1>3. /\ At(r, "setUser") /\ ctx[r] \in LooseContext /\ Bounds(ctx[r])
      /\ ctx[r].index \in Nat /\ UNCHANGED counters /\ Set(r, d)
  BY <1>1, <1>2, TrackedFacts DEF SetUser
<1>4. /\ e \in LooseContext /\ e.index = ctx[r].index /\ e.depth = ctx[r].depth
      /\ e.bodies = ctx[r].bodies /\ e.status = ctx[r].status
  BY <1>1, <1>3 DEF LooseContext
<1>5. /\ d \in LooseContext /\ d.index = e.index + 1 /\ d.depth = e.depth
      /\ d.bodies = e.bodies /\ d.status = e.status
  BY <1>2, <1>4, AdvanceFacts
<1>6. router = "tests"
  BY <1>3, AtService, TrackedFacts DEF Registered
<1>7. ctx[r].index <= 7
  <2>1. PICK n : n = Len(Chain(r))
    OBVIOUS
  <2>2. n \in Nat /\ n <= 7 /\ ctx[r].index <= n
    BY <1>3, <2>1, ChainLength DEF At
  <2>3. QED
    BY <1>3, <2>2
<1>8. d.index \in 1 .. 8
  BY <1>3, <1>4, <1>5, <1>7
<1>9. Bounds(d)
  BY <1>3, <1>4, <1>5, <1>8 DEF Bounds
<1>10. QED
  BY <1>3, <1>5, <1>6, <1>9, TestsTracked

LEMMA AuthorizeTracked == ASSUME PInv, MInv, NEW r \in Requests, Authorize(r) PROVE MInv'
<1>1. /\ router = "service" /\ ctx[r].phase = "running" /\ ctx[r] \in LooseContext
      /\ ctx[r].index > 4 /\ ctx[r].depth = 4 /\ ctx[r].after = {}
  BY RouteMiddleware DEF Authorize
<1>2. /\ ctx[r].index <= Len(Chain(r)) /\ Metered(ctx[r], Len(Chain(r))) /\ UNCHANGED counters
      /\ ctx[r].bodies \in Nat /\ Bounds(ctx[r])
  BY <1>1, TrackedFacts DEF Authorize, At
<1>3. ctx[r].bodies <= 1
  BY <1>1, <1>2 DEF Metered, Early
<1>4. CASE Set(r, Advance(ctx[r]))
  <2>1. PICK d : d = Advance(ctx[r])
    OBVIOUS
  <2>2. /\ d \in LooseContext /\ Alike(ctx[r], d) /\ Marked(ctx[r], d)
        /\ d.index = ctx[r].index + 1 /\ d.depth = ctx[r].depth /\ d.after = ctx[r].after
        /\ d.bodies = ctx[r].bodies /\ d.status = ctx[r].status
    BY <1>1, <2>1, AdvanceFacts
  <2>3. /\ d.phase = "running" /\ d.route = ctx[r].route /\ d.panicked = ctx[r].panicked
        /\ d.keys = ctx[r].keys /\ d.status \in Statuses /\ Set(r, d)
    BY <1>1, <1>2, <1>4, <2>1, <2>2 DEF Alike, Marked, Bounds
  <2>4. QED
    BY <1>1, <1>2, <1>3, <2>2, <2>3, ElementTracked
<1>5. CASE Set(r, Abort(Json(ctx[r], 401)))
  <2>1. PICK code \in Nat : code = 401
    OBVIOUS
  <2>2. PICK e : e = Json(ctx[r], code)
    OBVIOUS
  <2>3. /\ e \in LooseContext /\ Alike(ctx[r], e) /\ Marked(ctx[r], e)
        /\ e.depth = ctx[r].depth /\ e.after = ctx[r].after
        /\ e.bodies = ctx[r].bodies + 1
        /\ e.status = IF ctx[r].bodies = 0 THEN code ELSE ctx[r].status
    BY <1>1, <2>2, JsonFacts
  <2>4. PICK d : d = Abort(e)
    OBVIOUS
  <2>5. /\ d \in LooseContext /\ Alike(e, d) /\ Marked(e, d) /\ d.index = 63
        /\ d.depth = e.depth /\ d.after = e.after /\ d.bodies = e.bodies /\ d.status = e.status
    BY <2>3, <2>4, AbortFacts
  <2>6. /\ d.phase = "running" /\ d.route = ctx[r].route /\ d.panicked = ctx[r].panicked
        /\ d.keys = ctx[r].keys /\ d.after = {} /\ d.depth = 4
    BY <1>1, <2>3, <2>5 DEF Alike, Marked
  <2>7. d.status \in Statuses /\ d.bodies <= 2
    BY <1>2, <1>3, <2>1, <2>3, <2>5 DEF Bounds, Statuses
  <2>8. Set(r, d)
    BY <1>5, <2>1, <2>2, <2>4
  <2>9. QED
    BY <1>1, <1>2, <2>5, <2>6, <2>7, <2>8, ElementTracked
<1>6. QED
  BY <1>4, <1>5 DEF Authorize

LEMMA AuthenticateTracked ==
  ASSUME PInv, MInv, NEW r \in Requests, Authenticate(r) PROVE MInv'
<1>1. PICK caller \in Callers :
        LET c == [ctx[r] EXCEPT !.caller = caller]
        IN \/ /\ caller = "nobody"
              /\ Set(r, Abort(Json(c, 401)))
           \/ /\ caller # "nobody"
              /\ \/ Set(r, Advance([c EXCEPT !.keys = @ \cup {"user", "claims"}]))
                 \/ Set(r, Abort(Json(c, 500)))
  BY DEF Authenticate
<1>2. /\ router = "service" /\ ctx[r].phase = "running" /\ ctx[r] \in LooseContext
      /\ ctx[r].index > 4 /\ ctx[r].depth = 4 /\ ctx[r].after = {}
  BY RouteMiddleware DEF Authenticate
<1>3. /\ ctx[r].index <= Len(Chain(r)) /\ Metered(ctx[r], Len(Chain(r))) /\ UNCHANGED counters
      /\ ctx[r].bodies \in Nat /\ Bounds(ctx[r])
  BY <1>2, TrackedFacts DEF Authenticate, At
<1>4. ctx[r].bodies <= 1
  BY <1>2, <1>3 DEF Metered, Early
<1>5. PICK c : c = [ctx[r] EXCEPT !.caller = caller]
  OBVIOUS
<1>6. /\ c \in LooseContext /\ Alike(ctx[r], c) /\ Marked(ctx[r], c) /\ c.index = ctx[r].index
      /\ c.depth = 4 /\ c.after = {} /\ c.bodies = ctx[r].bodies /\ c.status = ctx[r].status
  BY <1>2, <1>5 DEF LooseContext, Alike, Marked
<1>7. ASSUME NEW code \in Nat, code \in {401, 500}, Set(r, Abort(Json(c, code))) PROVE MInv'
  <2>1. PICK e : e = Json(c, code)
    OBVIOUS
  <2>2. /\ e \in LooseContext /\ Alike(c, e) /\ Marked(c, e)
        /\ e.depth = c.depth /\ e.after = c.after /\ e.bodies = c.bodies + 1
        /\ e.status = IF c.bodies = 0 THEN code ELSE c.status
    BY <1>6, <2>1, JsonFacts
  <2>3. PICK d : d = Abort(e)
    OBVIOUS
  <2>4. /\ d \in LooseContext /\ Alike(e, d) /\ Marked(e, d) /\ d.index = 63
        /\ d.depth = e.depth /\ d.after = e.after /\ d.bodies = e.bodies /\ d.status = e.status
    BY <2>2, <2>3, AbortFacts
  <2>5. /\ d.phase = "running" /\ d.route = ctx[r].route /\ d.panicked = ctx[r].panicked
        /\ d.keys = ctx[r].keys /\ d.after = {} /\ d.depth = 4
    BY <1>2, <1>6, <2>2, <2>4 DEF Alike, Marked
  <2>6. d.status \in Statuses /\ d.bodies <= 2
    BY <1>3, <1>4, <1>6, <1>7, <2>2, <2>4 DEF Bounds, Statuses
  <2>7. Set(r, d)
    BY <1>7, <2>1, <2>3
  <2>8. QED
    BY <1>2, <1>3, <2>4, <2>5, <2>6, <2>7, ElementTracked
<1>8. ASSUME Set(r, Advance([c EXCEPT !.keys = @ \cup {"user", "claims"}])) PROVE MInv'
  <2>1. PICK e : e = [c EXCEPT !.keys = @ \cup {"user", "claims"}]
    OBVIOUS
  <2>2. /\ e \in LooseContext /\ Alike(ctx[r], e) /\ e.panicked = c.panicked
        /\ e.keys = c.keys \cup {"user", "claims"} /\ e.index = c.index
        /\ e.depth = 4 /\ e.after = {} /\ e.bodies = c.bodies /\ e.status = c.status
    BY <1>6, <2>1 DEF LooseContext, Alike
  <2>3. PICK d : d = Advance(e)
    OBVIOUS
  <2>4. /\ d \in LooseContext /\ Alike(e, d) /\ Marked(e, d) /\ d.index = e.index + 1
        /\ d.depth = e.depth /\ d.after = e.after /\ d.bodies = e.bodies /\ d.status = e.status
    BY <2>2, <2>3, AdvanceFacts
  <2>5. /\ d.phase = "running" /\ d.route = ctx[r].route /\ d.panicked = ctx[r].panicked
        /\ d.after = {} /\ d.depth = 4 /\ d.index = ctx[r].index + 1
        /\ d.bodies <= 1 /\ d.status \in Statuses
    BY <1>2, <1>3, <1>4, <1>6, <2>2, <2>4 DEF Alike, Marked, Bounds
  <2>6. "metrics" \in d.keys <=> "metrics" \in ctx[r].keys
    BY <1>6, <2>2, <2>4 DEF Marked
  <2>7. Set(r, d)
    BY <1>8, <2>1, <2>3
  <2>8. QED
    BY <1>2, <1>3, <2>4, <2>5, <2>6, <2>7, ElementTracked
<1>9. 401 \in Nat /\ 500 \in Nat
  OBVIOUS
<1>10. QED
  BY <1>1, <1>5, <1>7, <1>8, <1>9

LEMMA HandleTracked == ASSUME PInv, MInv, NEW r \in Requests, Handle(r) PROVE MInv'
<1>1. PICK o \in HandlerOutcomes(ctx[r].route, "user" \in ctx[r].keys) :
        Set(r, CASE o.kind = "panic" ->
                      [ctx[r] EXCEPT !.phase = "panicking", !.panicked = TRUE]
                 [] o.kind = "json" -> Advance(Json(ctx[r], o.code))
                 [] OTHER           -> Advance([ctx[r] EXCEPT !.err = o]))
  BY DEF Handle
<1>2. /\ At(r, ctx[r].route) /\ ctx[r] \in LooseContext /\ ctx[r].phase = "running"
      /\ ctx[r].index \in Nat /\ ctx[r].bodies \in Nat /\ Bounds(ctx[r])
      /\ UNCHANGED counters /\ router \in {"service", "tests"}
      /\ ctx[r].index <= Len(Chain(r))
  BY TrackedFacts DEF Handle, At
<1>3. ctx[r].index <= 7
  <2>1. PICK n : n = Len(Chain(r))
    OBVIOUS
  <2>2. n \in Nat /\ n <= 7 /\ ctx[r].index <= n
    BY <1>2, <2>1, ChainLength
  <2>3. QED
    BY <1>2, <2>2
<1>4. ASSUME router = "service"
      PROVE  /\ ctx[r].index = 5 /\ ctx[r].depth = 4 /\ ctx[r].after = {}
             /\ Metered(ctx[r], Len(Chain(r))) /\ ctx[r].bodies = 0
             /\ "metrics" \in ctx[r].keys /\ ~ctx[r].panicked
  <2>1. ctx[r].index = 5
    BY <1>2, <1>4, HandlerFirst
  <2>2. ctx[r].depth = 4 /\ ctx[r].after = {}
    BY <1>2, <1>4, <2>1, AtService
  <2>3. Metered(ctx[r], Len(Chain(r)))
    BY <1>4, TrackedFacts
  <2>4. ctx[r].bodies = 0 /\ "metrics" \in ctx[r].keys /\ ~ctx[r].panicked
    BY <1>2, <2>1, <2>3 DEF Metered, Early
  <2>5. QED
    BY <2>1, <2>2, <2>3, <2>4
<1>5. router = "tests" => ctx[r].bodies = 0
  BY <1>2, AtTests
<1>6. ctx[r].bodies = 0
  BY <1>2, <1>4, <1>5
<1>7. \/ o.kind = "panic"
      \/ o.kind = "json" /\ o.code \in Nat /\ o.code \in {200, 201}
      \/ o.kind \notin {"panic", "json"} /\ o \in Errors
  BY OutcomeKinds
<1>8. CASE o.kind = "panic"
  <2>1. PICK d : d = [ctx[r] EXCEPT !.phase = "panicking", !.panicked = TRUE]
    OBVIOUS
  <2>2. /\ d \in LooseContext /\ Set(r, d) /\ d.phase = "panicking" /\ d.panicked
        /\ d.route = ctx[r].route /\ d.keys = ctx[r].keys
        /\ d.index = ctx[r].index /\ d.depth = ctx[r].depth /\ d.after = ctx[r].after
        /\ d.bodies = ctx[r].bodies /\ d.status = ctx[r].status
    BY <1>1, <1>2, <1>8, <2>1 DEF LooseContext
  <2>3. Bounds(d)
    BY <1>2, <2>2 DEF Bounds
  <2>4. ASSUME router = "service" PROVE Metered(d, Len(Chain(r))) /\ Calm(ctx[r], d)
    <3>1. Metered(d, Len(Chain(r)))
      BY <1>4, <2>2, <2>4 DEF Metered, Early
    <3>2. Calm(ctx[r], d)
      BY <1>2, <1>4, <2>2, <2>4 DEF Calm, Counted, Failed, Panicked, Sampled
    <3>3. QED
      BY <3>1, <3>2
  <2>5. QED
    BY <1>2, <2>2, <2>3, <2>4, CalmTracked
<1>9. ASSUME NEW e \in LooseContext, Set(r, Advance(e)), e.phase = "running",
             e.route = ctx[r].route, Marked(ctx[r], e), e.index = ctx[r].index,
             e.depth = ctx[r].depth, e.after = ctx[r].after, e.bodies <= 1,
             e.status \in Statuses
      PROVE  MInv'
  <2>1. PICK d : d = Advance(e)
    OBVIOUS
  <2>2. /\ d \in LooseContext /\ Alike(e, d) /\ Marked(e, d) /\ d.index = e.index + 1
        /\ d.depth = e.depth /\ d.after = e.after /\ d.bodies = e.bodies /\ d.status = e.status
    BY <1>9, <2>1, AdvanceFacts
  <2>3. /\ d.phase = "running" /\ d.route = ctx[r].route /\ d.panicked = ctx[r].panicked
        /\ d.keys = ctx[r].keys /\ d.index = ctx[r].index + 1 /\ d.depth = ctx[r].depth
        /\ d.after = ctx[r].after /\ d.bodies <= 1 /\ d.status \in Statuses
    BY <1>9, <2>2 DEF Alike, Marked
  <2>4. Set(r, d)
    BY <1>9, <2>1
  <2>5. CASE router = "service"
    BY <1>2, <1>4, <2>2, <2>3, <2>4, <2>5, ElementTracked
  <2>6. CASE router = "tests"
    <3>1. d.index \in 1 .. 8 /\ d.bodies \in Nat
      <4>1. d.bodies \in Nat
        BY <2>2 DEF LooseContext
      <4>2. d.index = ctx[r].index + 1
        BY <2>3
      <4>3. QED
        BY <1>2, <1>3, <4>1, <4>2, SMTT(30)
    <3>2. d.bodies <= 2
      BY <2>3, <3>1
    <3>3. Bounds(d)
      BY <1>2, <2>3, <3>1, <3>2 DEF Bounds
    <3>4. QED
      BY <1>2, <2>2, <2>4, <2>6, <3>3, TestsTracked
  <2>7. QED
    BY <1>2, <2>5, <2>6
<1>10. CASE o.kind = "json"
  <2>1. o.code \in Nat /\ o.code \in {200, 201}
    BY <1>7, <1>10
  <2>2. PICK e : e = Json(ctx[r], o.code)
    OBVIOUS
  <2>3. /\ e \in LooseContext /\ Alike(ctx[r], e) /\ Marked(ctx[r], e)
        /\ e.index = ctx[r].index /\ e.depth = ctx[r].depth /\ e.after = ctx[r].after
        /\ e.bodies = ctx[r].bodies + 1
        /\ e.status = IF ctx[r].bodies = 0 THEN o.code ELSE ctx[r].status
    BY <1>2, <2>1, <2>2, JsonFacts, ZenonT(30)
  <2>4. e.bodies <= 1 /\ e.status \in Statuses
    BY <1>6, <2>1, <2>3 DEF Statuses
  <2>5. Set(r, Advance(e))
    BY <1>1, <1>10, <2>2
  <2>6. QED
    BY <1>2, <1>9, <2>3, <2>4, <2>5 DEF Alike
<1>11. CASE o.kind \notin {"panic", "json"}
  <2>1. o \in Errors
    BY <1>7, <1>11
  <2>2. PICK e : e = [ctx[r] EXCEPT !.err = o]
    OBVIOUS
  <2>3. /\ e \in LooseContext /\ e.phase = ctx[r].phase /\ e.route = ctx[r].route
        /\ Marked(ctx[r], e) /\ e.index = ctx[r].index /\ e.depth = ctx[r].depth
        /\ e.after = ctx[r].after /\ e.bodies = ctx[r].bodies /\ e.status = ctx[r].status
    BY <1>2, <2>1, <2>2 DEF LooseContext, Marked
  <2>4. Set(r, Advance(e))
    BY <1>1, <1>11, <2>2
  <2>5. e.bodies <= 1 /\ e.status \in Statuses
    BY <1>2, <1>6, <2>3 DEF Bounds
  <2>6. QED
    BY <1>2, <1>9, <2>3, <2>4, <2>5
<1>12. QED
  BY <1>8, <1>10, <1>11

LEMMA LeaveTracked ==
  ASSUME PInv, MInv, NEW r \in Requests, LeaveObserver(r) \/ LeaveMetrics(r) PROVE MInv'
<1>1. PICK m \in {"telemetry", "logger", "panic", "metrics"} :
        /\ Returning(r, m)
        /\ m = "metrics" => LeaveMetrics(r)
        /\ m # "metrics" => LeaveObserver(r)
  BY DEF LeaveObserver, LeaveMetrics
<1>2. Leave(r, ctx[r])
  BY DEF LeaveObserver, LeaveMetrics
<1>3. /\ ctx[r] \in LooseContext /\ ctx[r].phase = "running" /\ m = Top(r)
      /\ router \in {"service", "tests"} /\ Bounds(ctx[r]) /\ ctx[r].status \in Nat
  BY <1>1, TrackedFacts DEF Returning, LooseContext
<1>4. router = "service"
  BY <1>1, <1>3, ReturningTests
<1>5. \/ m = "panic" /\ ctx[r].depth = 4 /\ ctx[r].after = {}
      \/ m = "metrics" /\ ctx[r].depth = 3 /\ ctx[r].after = {}
      \/ m = "logger" /\ ctx[r].depth = 2 /\ ctx[r].after = {"metrics"}
      \/ m = "telemetry" /\ ctx[r].depth = 1 /\ ctx[r].after = {"metrics", "logger"}
  BY <1>1, <1>4, ReturningService
<1>6. PICK k : k = ctx[r].depth - 1
  OBVIOUS
<1>7. PICK a : a = ctx[r].after \cup ({m} \ {"panic"})
  OBVIOUS
<1>8. /\ k \in Nat /\ k <= 4 /\ a \in SUBSET {"telemetry", "logger", "metrics", "error"}
      /\ m # "metrics" => ("metrics" \in a <=> "metrics" \in ctx[r].after)
      /\ m = "metrics" => "metrics" \in a /\ "metrics" \notin ctx[r].after
  BY <1>5, <1>6, <1>7
<1>9. PICK d : d = [ctx[r] EXCEPT !.depth = k, !.after = a]
  OBVIOUS
<1>10. /\ d \in LooseContext /\ d.phase = "running" /\ d.route = ctx[r].route
       /\ Marked(ctx[r], d) /\ d.index = ctx[r].index /\ d.depth = k /\ d.after = a
       /\ d.bodies = ctx[r].bodies /\ d.status = ctx[r].status
  BY <1>3, <1>8, <1>9 DEF LooseContext, Marked
<1>11. Set(r, d)
  BY <1>2, <1>3, <1>6, <1>7, <1>9 DEF Leave
<1>12. Bounds(d)
  BY <1>3, <1>8, <1>10 DEF Bounds
<1>13. Metered(d, Len(Chain(r)))
  <2>1. Metered(ctx[r], Len(Chain(r)))
    BY <1>4, TrackedFacts
  <2>2. QED
    BY <1>3, <1>10, <2>1 DEF Metered, Early, Marked
<1>14. Chain(r)' = Chain(r)
  BY <1>3, <1>10, <1>11, SameRoute
<1>15. (Counted(d) <=> Counted(ctx[r])) /\ (Panicked(d) <=> Panicked(ctx[r]))
       /\ (Sampled(d) <=> Sampled(ctx[r]))
  BY <1>3, <1>10 DEF Counted, Panicked, Sampled, Marked
<1>16. CASE m = "metrics"
  <2>1. /\ errors' = IF CountsAsError(ctx[r].status) THEN errors + 1 ELSE errors
        /\ UNCHANGED <<requests, panics, sampled>>
    BY <1>1, <1>16 DEF LeaveMetrics
  <2>2. ~Failed(ctx[r]) /\ (Failed(d) <=> CountsAsError(ctx[r].status))
    BY <1>8, <1>10, <1>16 DEF Failed, CountsAsError
  <2>3. Tally(ctx[r], d)
    BY <1>15, <2>1, <2>2 DEF Tally
  <2>4. QED
    BY <1>4, <1>10, <1>11, <1>12, <1>13, <1>14, <2>3, OneTracked
<1>17. CASE m # "metrics"
  <2>1. UNCHANGED counters
    BY <1>1, <1>17 DEF LeaveObserver
  <2>2. Calm(ctx[r], d)
    BY <1>8, <1>10, <1>15, <1>17 DEF Calm, Failed
  <2>3. QED
    BY <1>3, <1>10, <1>11, <1>12, <1>13, <2>1, <2>2, CalmTracked
<1>18. QED
  BY <1>16, <1>17

LEMMA LeaveErrorTracked == ASSUME PInv, MInv, NEW r \in Requests, LeaveError(r) PROVE MInv'
<1>1. /\ Returning(r, "error") /\ ctx[r] \in LooseContext /\ Bounds(ctx[r])
      /\ Top(r) = "error" /\ router \in {"service", "tests"} /\ UNCHANGED counters
  BY TrackedFacts DEF LeaveError, Returning
<1>2. router = "tests"
  BY <1>1, ReturningService
<1>3. ctx[r].depth = 1 /\ ctx[r].bodies \in Nat /\ ctx[r].err \in Errors
  BY <1>1, <1>2, ReturningTests DEF LooseContext
<1>4. PICK e : e = IF NothingToRender(ctx[r]) THEN ctx[r]
                   ELSE Json(ctx[r], RenderedCode(ctx[r].err))
  OBVIOUS
<1>5. /\ e \in LooseContext /\ e.index = ctx[r].index /\ e.depth = 1
      /\ e.bodies <= 2 /\ e.status \in Statuses
  <2>1. CASE NothingToRender(ctx[r])
    BY <1>1, <1>3, <1>4, <2>1 DEF Bounds
  <2>2. CASE ~NothingToRender(ctx[r])
    <3>1. ctx[r].bodies = 0 /\ ctx[r].err # NoError
      BY <1>3, <2>2 DEF NothingToRender
    <3>2. PICK code : code = RenderedCode(ctx[r].err)
      OBVIOUS
    <3>3. code \in Nat /\ code \in {400, 401, 404, 500}
      BY <1>3, <3>1, <3>2, RenderedCodes
    <3>4. e = Json(ctx[r], code)
      BY <1>4, <2>2, <3>2
    <3>5. /\ e \in LooseContext /\ e.index = ctx[r].index /\ e.depth = ctx[r].depth
          /\ e.bodies = ctx[r].bodies + 1
          /\ e.status = IF ctx[r].bodies = 0 THEN code ELSE ctx[r].status
      <4>1. code \in Nat
        BY <3>3
      <4>2. QED
        BY <1>1, <3>4, <4>1, JsonFacts
    <3>6. QED
      BY <1>3, <3>1, <3>3, <3>5 DEF Statuses
  <2>3. QED
    BY <2>1, <2>2
<1>6. Leave(r, e)
  BY <1>4 DEF LeaveError
<1>7. PICK a : a = e.after \cup ({"error"} \ {"panic"})
  OBVIOUS
<1>8. a \in SUBSET {"telemetry", "logger", "metrics", "error"}
  BY <1>5, <1>7 DEF LooseContext
<1>9. PICK d : d = [e EXCEPT !.depth = 0, !.after = a]
  OBVIOUS
<1>10. /\ d \in LooseContext /\ d.index = e.index /\ d.depth = 0
       /\ d.bodies = e.bodies /\ d.status = e.status
  BY <1>5, <1>8, <1>9 DEF LooseContext
<1>11. Set(r, d)
  BY <1>1, <1>5, <1>6, <1>7, <1>9 DEF Leave
<1>12. Bounds(d)
  BY <1>1, <1>5, <1>10 DEF Bounds
<1>13. QED
  BY <1>1, <1>2, <1>10, <1>11, <1>12, TestsTracked

LEMMA RecoverTracked == ASSUME PInv, MInv, NEW r \in Requests, Recover(r) PROVE MInv'
<1>1. /\ ctx[r] \in LooseContext /\ ctx[r].phase = "panicking" /\ Bounds(ctx[r])
      /\ router \in {"service", "tests"} /\ ctx[r].depth > 0 /\ Top(r) = "panic"
      /\ UNCHANGED <<requests, errors, sampled>>
  BY TrackedFacts DEF Recover
<1>2. router = "service"
  <2> SUFFICES ASSUME router = "tests" PROVE FALSE
    BY <1>1
  <2>1. ctx[r].depth <= 1 /\ ctx[r].depth \in Nat
    BY <1>1, TrackedFacts DEF OnTests
  <2>2. ctx[r].depth = 1
    BY <1>1, <2>1
  <2>3. QED
    BY <1>1, <2>2 DEF Top, Stack
<1>3. ctx[r].depth = 4 /\ ctx[r].after = {} /\ Metered(ctx[r], Len(Chain(r)))
  BY <1>1, <1>2, TrackedFacts DEF OnService
<1>4. "metrics" \in ctx[r].keys /\ ctx[r].panicked /\ ctx[r].bodies = 0
  BY <1>1, <1>3 DEF Metered
<1>5. PICK e : e = [ctx[r] EXCEPT !.phase = "running", !.depth = 3]
  OBVIOUS
<1>6. /\ e \in LooseContext /\ e.phase = "running" /\ e.route = ctx[r].route
      /\ Marked(ctx[r], e) /\ e.depth = 3 /\ e.after = {} /\ e.bodies = 0
  BY <1>1, <1>3, <1>4, <1>5 DEF LooseContext, Marked
<1>7. PICK code \in Nat : code = 500
  OBVIOUS
<1>8. PICK f : f = Json(e, code)
  OBVIOUS
<1>9. /\ f \in LooseContext /\ Alike(e, f) /\ Marked(e, f) /\ f.depth = e.depth
      /\ f.after = e.after /\ f.bodies = e.bodies + 1
      /\ f.status = IF e.bodies = 0 THEN code ELSE e.status
  BY <1>6, <1>8, JsonFacts
<1>10. PICK d : d = Abort(f)
  OBVIOUS
<1>11. /\ d \in LooseContext /\ Alike(f, d) /\ Marked(f, d) /\ d.index = 63
       /\ d.depth = f.depth /\ d.after = f.after /\ d.bodies = f.bodies /\ d.status = f.status
  BY <1>9, <1>10, AbortFacts
<1>12. /\ d.phase = "running" /\ d.route = ctx[r].route /\ d.panicked
       /\ "metrics" \in d.keys /\ d.depth = 3 /\ d.after = {} /\ d.bodies = 1 /\ d.status = 500
  BY <1>4, <1>6, <1>7, <1>9, <1>11 DEF Alike, Marked
<1>13. Set(r, d) /\ panics' = panics + 1
  <2>1. Set(r, d)
    BY <1>3, <1>5, <1>7, <1>8, <1>10 DEF Recover
  <2>2. QED
    BY <1>4, <2>1 DEF Recover
<1>14. Bounds(d)
  BY <1>11, <1>12 DEF Bounds, Statuses
<1>15. Chain(r)' = Chain(r) /\ ~(63 <= Len(Chain(r)))
  <2>1. PICK n : n = Len(Chain(r))
    OBVIOUS
  <2>2. n \in Nat /\ n <= 7
    BY <1>1, <2>1, ChainLength
  <2>3. ~(63 <= n)
    BY <2>2
  <2>4. QED
    BY <1>1, <1>11, <1>12, <1>13, <2>1, <2>3, SameRoute
<1>16. Metered(d, Len(Chain(r)))
  BY <1>11, <1>12, <1>15 DEF Metered, Early
<1>17. Tally(ctx[r], d)
  <2>1. Counted(d) /\ Counted(ctx[r]) /\ Sampled(d) /\ Sampled(ctx[r])
    BY <1>4, <1>12 DEF Counted, Sampled
  <2>2. ~Failed(d) /\ ~Failed(ctx[r])
    BY <1>3, <1>12 DEF Failed
  <2>3. Panicked(d) /\ ~Panicked(ctx[r])
    BY <1>1, <1>12 DEF Panicked
  <2>4. QED
    BY <1>1, <1>13, <2>1, <2>2, <2>3 DEF Tally
<1>18. QED
  BY <1>2, <1>11, <1>13, <1>14, <1>15, <1>16, <1>17, OneTracked

\* What the tests' router does with a panic.
LEMMA UnmetTracked ==
  ASSUME PInv, MInv, NEW r \in Requests, Unwind(r) \/ Drop(r) PROVE MInv'
<1>1. /\ ctx[r] \in LooseContext /\ ctx[r].phase = "panicking" /\ Bounds(ctx[r])
      /\ router \in {"service", "tests"} /\ ctx[r].depth \in Nat /\ UNCHANGED counters
  BY TrackedFacts DEF Unwind, Drop
<1>2. router = "tests"
  <2> SUFFICES ASSUME router = "service" PROVE FALSE
    BY <1>1
  <2>1. ctx[r].depth = 4 /\ Top(r) = "panic"
    BY <1>1, TrackedFacts DEF OnService, Top, Stack
  <2>2. QED
    BY <2>1 DEF Unwind, Drop
<1>3. CASE Unwind(r)
  <2>1. PICK k \in Nat : k = ctx[r].depth - 1 /\ k <= 4
    BY <1>1, <1>3 DEF Unwind, Bounds
  <2>2. PICK d : d = [ctx[r] EXCEPT !.depth = k]
    OBVIOUS
  <2>3. Set(r, d)
    BY <1>3, <2>1, <2>2 DEF Unwind
  <2>4. /\ d \in LooseContext /\ d.index = ctx[r].index /\ d.depth = k
        /\ d.bodies = ctx[r].bodies /\ d.status = ctx[r].status
    BY <1>1, <2>2, DepthFacts
  <2>5. Bounds(d)
    BY <1>1, <2>1, <2>4 DEF Bounds
  <2>6. QED
    BY <1>1, <1>2, <2>3, <2>4, <2>5, TestsTracked
<1>4. CASE Drop(r)
  <2>1. PICK d : d = [ctx[r] EXCEPT !.phase = "dropped"]
    OBVIOUS
  <2>2. Set(r, d)
    BY <1>4, <2>1 DEF Drop
  <2>3. /\ d \in LooseContext /\ d.index = ctx[r].index /\ d.depth = ctx[r].depth
        /\ d.bodies = ctx[r].bodies /\ d.status = ctx[r].status
    BY <1>1, <2>1 DEF LooseContext
  <2>4. Bounds(d)
    BY <1>1, <2>3 DEF Bounds
  <2>5. QED
    BY <1>1, <1>2, <2>2, <2>3, <2>4, TestsTracked
<1>5. QED
  BY <1>3, <1>4

LEMMA FinishTracked == ASSUME PInv, MInv, NEW r \in Requests, Finish(r) PROVE MInv'
<1>1. PICK d : d = [ctx[r] EXCEPT !.phase = "done"]
  OBVIOUS
<1>2. /\ ctx[r] \in LooseContext /\ ctx[r].phase = "running" /\ Bounds(ctx[r])
      /\ ctx[r].index \in Nat /\ ctx[r].index > Len(Chain(r)) /\ Set(r, d)
      /\ UNCHANGED counters
  BY <1>1, TrackedFacts DEF Finish
<1>3. /\ d \in LooseContext /\ d.phase = "done" /\ d.route = ctx[r].route
      /\ Marked(ctx[r], d) /\ d.index = ctx[r].index /\ d.depth = ctx[r].depth
      /\ d.after = ctx[r].after /\ d.bodies = ctx[r].bodies /\ d.status = ctx[r].status
  BY <1>1, <1>2 DEF LooseContext, Marked
<1>4. Bounds(d)
  BY <1>2, <1>3 DEF Bounds
<1>5. ASSUME router = "service" PROVE Metered(d, Len(Chain(r))) /\ Calm(ctx[r], d)
  <2>1. ctx[r].index > 3
    <3>1. PICK n : n = Len(Chain(r))
      OBVIOUS
    <3>2. n \in Nat /\ n >= 5 /\ ctx[r].index > n
      BY <1>2, <1>5, <3>1, ChainLength
    <3>3. QED
      BY <1>2, <3>2
  <2>2. "metrics" \in ctx[r].keys
    BY <1>2, <1>5, <2>1, TrackedFacts DEF Metered
  <2>3. QED
    BY <1>2, <1>3, <2>2 DEF Metered, Early, Marked, Calm, Counted, Failed, Panicked, Sampled
<1>6. QED
  BY <1>2, <1>3, <1>4, <1>5, CalmTracked

LEMMA InitMInv == Init => MInv
<1> SUFFICES ASSUME Init PROVE MInv
  OBVIOUS
<1>1. ASSUME NEW r \in Requests
      PROVE  /\ Bounds(ctx[r]) /\ \A n : Metered(ctx[r], n)
             /\ ~Counted(ctx[r]) /\ ~Sampled(ctx[r]) /\ ~Failed(ctx[r]) /\ ~Panicked(ctx[r])
  <2>1. ctx[r] = NewContext
    BY DEF Init
  <2>2. QED
    BY <2>1 DEF NewContext, Bounds, Statuses, Metered, Early, Counted, Sampled, Failed, Panicked
<1>2. AllCounted = {} /\ AllSampled = {} /\ AllFailed = {} /\ AllPanicked = {}
  BY <1>1 DEF AllCounted, AllSampled, AllFailed, AllPanicked
<1>3. NothingTallied /\ router \in Routers
  BY DEF Init, NothingTallied
<1>4. Tallied
  <2>1. Cardinality({}) = 0
    BY FS_EmptySet
  <2>2. QED
    BY <1>2, <1>3, <2>1 DEF Tallied, NothingTallied
<1>5. QED
  BY <1>1, <1>3, <1>4 DEF MInv, Tracked

LEMMA StutterMInv == ASSUME MInv, UNCHANGED vars PROVE MInv'
<1>1. router' = router /\ ctx' = ctx /\ UNCHANGED <<requests, errors, panics, sampled>>
  BY DEF vars
<1>2. ASSUME NEW r \in Requests PROVE Tracked(r)'
  <2>1. Tracked(r)
    BY DEF MInv
  <2>2. Chain(r)' = Chain(r)
    BY <1>1 DEF Chain, Stack, RouteChain
  <2>3. QED
    BY <1>1, <2>1, <2>2 DEF Tracked
<1>3. Tallied => Tallied'
  BY <1>1 DEF Tallied, AllCounted, AllSampled, AllFailed, AllPanicked
<1>4. NothingTallied => NothingTallied'
  BY <1>1 DEF NothingTallied
<1>5. QED
  BY <1>1, <1>2, <1>3, <1>4 DEF MInv

LEMMA StepMInv == PInv /\ MInv /\ [Next]_vars => MInv'
<1> SUFFICES ASSUME PInv, MInv, [Next]_vars PROVE MInv'
  OBVIOUS
<1>1. ASSUME NEW r \in Requests, Start(r) \/ Proceed(r) PROVE MInv'
  <2>1. CASE Start(r)
    BY <2>1, StartTracked
  <2>2. CASE Enter(r) \/ AddRequest(r) \/ EnterMetrics(r) \/ SetUser(r)
    BY <2>2, EnterTracked, AddRequestTracked, EnterMetricsTracked, SetUserTracked
  <2>3. CASE Handle(r) \/ Authenticate(r) \/ Authorize(r)
    BY <2>3, HandleTracked, AuthenticateTracked, AuthorizeTracked
  <2>4. CASE LeaveObserver(r) \/ LeaveMetrics(r) \/ LeaveError(r)
    BY <2>4, LeaveTracked, LeaveErrorTracked
  <2>5. CASE Unwind(r) \/ Recover(r) \/ Drop(r) \/ Finish(r)
    BY <2>5, UnmetTracked, RecoverTracked, FinishTracked
  <2>6. QED
    BY <1>1, <2>1, <2>2, <2>3, <2>4, <2>5 DEF Proceed
<1>2. CASE Quiet \/ UNCHANGED vars
  BY <1>2, StutterMInv DEF Quiet
<1>3. QED
  BY <1>1, <1>2 DEF Next

\* At every moment, and not only when all requests are answered, each counter of
\* internal/metrics is the number of requests that have passed its increment.
THEOREM MetricsInvariance == Spec => []MInv
  BY InitMInv, StepMInv, PipelineInvariance, PTL DEF Spec

\* When all requests are answered, the counters are those of the responses:
\* requests of all, errors of the statuses of 400 and more, panics of the panics,
\* however the increments of the requests interleaved.
THEOREM MetricsAreExact == Spec => []MetricsAgree
<1>1. ASSUME PInv, MInv PROVE MetricsAgree
  <2> SUFFICES ASSUME router = "service", \A r \in Requests : Done(r)
               PROVE  /\ requests = Cardinality(Requests)
                      /\ errors = Cardinality({r \in Requests : ctx[r].status >= 400})
                      /\ panics = Cardinality({r \in Requests : ctx[r].panicked})
    BY DEF MetricsAgree
  <2>1. ASSUME NEW r \in Requests
        PROVE  /\ Counted(ctx[r])
               /\ Failed(ctx[r]) <=> ctx[r].status >= 400
               /\ Panicked(ctx[r]) <=> ctx[r].panicked
    <3>1. ctx[r].phase = "done"
      BY DEF Done
    <3>2. Metered(ctx[r], Len(Chain(r))) /\ OnService(r)
      BY <1>1, TrackedFacts
    <3>3. "metrics" \in ctx[r].keys /\ "metrics" \in ctx[r].after
      BY <3>1, <3>2 DEF Metered, OnService
    <3>4. QED
      BY <3>1, <3>3 DEF Counted, Failed, Panicked
  <2>2. AllCounted = Requests
    BY <2>1 DEF AllCounted
  <2>3. AllFailed = {r \in Requests : ctx[r].status >= 400}
    BY <2>1 DEF AllFailed
  <2>4. AllPanicked = {r \in Requests : ctx[r].panicked}
    BY <2>1 DEF AllPanicked
  <2>5. QED
    BY <1>1, <2>2, <2>3, <2>4 DEF MInv, Tallied
<1>2. QED
  BY <1>1, PipelineInvariance, MetricsInvariance, PTL

\* Every context keeps to the bounds of a chain (at most seven elements, four
\* open middlewares, two bodies) and no counter exceeds the number of requests:
\* none of them is incremented twice for a request.
THEOREM PipelineTypes == Spec => []TypeOK
<1>1. ASSUME PInv, MInv PROVE TypeOK
  <2>1. ASSUME NEW r \in Requests PROVE ctx[r] \in Context
    <3>1. ctx[r] \in LooseContext /\ Bounds(ctx[r])
      BY <1>1, TrackedFacts
    <3>2. PICK c : c = ctx[r]
      OBVIOUS
    <3>3. c.depth \in 0 .. 4 /\ c.bodies \in 0 .. 2
      BY <3>1, <3>2 DEF LooseContext, Bounds
    <3>4. c \in Context
      BY <3>1, <3>2, <3>3 DEF LooseContext, Bounds, Statuses, Context, Errors
    <3>5. QED
      BY <3>2, <3>4
  <2>2. ctx \in [Requests -> Context] /\ router \in Routers
    BY <1>1, <2>1 DEF PInv, Loose, MInv
  <2>3. Cardinality(Requests) \in Nat
    BY RequestsAssumption, FS_CardinalityType
  <2>4. \A n \in {requests, errors, panics, sampled} : n \in 0 .. Cardinality(Requests)
    <3>1. router \in {"service", "tests"}
      BY <1>1 DEF PInv, Loose
    <3>2. CASE router = "tests"
      BY <1>1, <2>3, <3>2 DEF MInv, NothingTallied
    <3>3. CASE router = "service"
      <4>1. ASSUME NEW S \in SUBSET Requests
            PROVE  Cardinality(S) \in Nat /\ Cardinality(S) <= Cardinality(Requests)
        <5>1. IsFiniteSet(S) /\ Cardinality(S) <= Cardinality(Requests)
          BY RequestsAssumption, FS_Subset
        <5>2. QED
          BY <5>1, FS_CardinalityType
      <4>2. /\ AllCounted \in SUBSET Requests /\ AllSampled \in SUBSET Requests
            /\ AllFailed \in SUBSET Requests /\ AllPanicked \in SUBSET Requests
        BY DEF AllCounted, AllSampled, AllFailed, AllPanicked
      <4>3. Tallied
        BY <1>1, <3>3 DEF MInv
      <4>4. /\ requests \in Nat /\ requests <= Cardinality(Requests)
            /\ errors \in Nat /\ errors <= Cardinality(Requests)
            /\ panics \in Nat /\ panics <= Cardinality(Requests)
        BY <4>1, <4>2, <4>3 DEF Tallied
      <4>5. /\ Cardinality(AllSampled) \in Nat
            /\ Cardinality(AllSampled) <= Cardinality(Requests)
        BY <4>1, <4>2
      <4>6. sampled \in Nat /\ sampled <= Cardinality(Requests)
        BY <2>3, <4>3, <4>5 DEF Tallied
      <4>7. QED
        BY <2>3, <4>4, <4>6
    <3>4. QED
      BY <3>1, <3>2, <3>3
  <2>5. QED
    BY <2>2, <2>4 DEF TypeOK
<1>2. QED
  BY <1>1, PipelineInvariance, MetricsInvariance, PTL

------------------------------------------------------------------------------
(***************************************************************************)
(* The documents of a response.  The handlers of the service run before    *)
(* mid.Authenticate and so without a user: those of the routes with two    *)
(* middlewares behind them never answer, which leaves GET /:id.            *)
(***************************************************************************)
Answered(c) == c.route = "query" /\ c.status = 200 /\ c.err = NoError /\ ~c.panicked

Docs(c, n) ==
  /\ c.phase \in {"new", "counting"} \/ (c.phase = "running" /\ c.index <= 5)
       => "user" \notin c.keys /\ c.err = NoError
  /\ c.phase = "running" /\ c.index <= n /\ c.bodies > 0 => Answered(c)
  /\ c.bodies > 1 => Answered(c)

DInv == router = "service" => \A r \in Requests : Docs(ctx[r], Len(Chain(r)))

\* A step of one request leaves the documents of the others.
LEMMA OneDocs ==
  ASSUME PInv, DInv, NEW r \in Requests, NEW d \in LooseContext, Set(r, d),
         router = "service" => Docs(d, Len(Chain(r)'))
  PROVE  DInv'
<1>1. ctx'[r] = d /\ router' = router /\ \A q \in Requests \ {r} : ctx'[q] = ctx[q]
  BY DEF Set, PInv, Loose
<1>2. ASSUME NEW q \in Requests \ {r}, router = "service"
      PROVE  Docs(ctx'[q], Len(Chain(q)'))
  <2>1. ctx'[q] = ctx[q] /\ router' = router
    BY <1>1
  <2>2. Chain(q)' = Chain(q)
    BY <2>1 DEF Chain, Stack, RouteChain
  <2>3. Docs(ctx[q], Len(Chain(q)))
    BY <1>2 DEF DInv
  <2>4. QED
    BY <2>1, <2>2, <2>3
<1>3. QED
  BY <1>1, <1>2 DEF DInv

\* The same for a request that has begun.
LEMMA SameDocs ==
  ASSUME PInv, DInv, NEW r \in Requests, NEW d \in LooseContext, Set(r, d),
         d.route = ctx[r].route, ctx[r].phase # "new",
         router = "service" => Docs(d, Len(Chain(r)))
  PROVE  DInv'
<1>1. Chain(r)' = Chain(r)
  BY SameRoute
<1>2. QED
  BY <1>1, OneDocs

\* A step that answers nothing, keeps the flag and goes no further back.
LEMMA QuietDocs ==
  ASSUME PInv, MInv, DInv, NEW r \in Requests, NEW d \in LooseContext, Set(r, d),
         d.route = ctx[r].route, ctx[r].phase # "new",
         d.bodies = ctx[r].bodies, d.status = ctx[r].status, d.err = ctx[r].err,
         d.panicked = ctx[r].panicked,
         d.phase = "running" =>
           /\ ctx[r].phase = "running"
           /\ ctx[r].index <= d.index
           /\ d.keys = ctx[r].keys \/ d.index > 5,
         d.phase # "counting", d.phase # "new"
  PROVE  DInv'
<1> SUFFICES ASSUME router = "service" PROVE Docs(d, Len(Chain(r)))
  BY SameDocs
<1>1. PICK n : n = Len(Chain(r))
  OBVIOUS
<1>2. Docs(ctx[r], n) /\ n \in Nat /\ ctx[r].index \in Nat /\ d.index \in Nat
  BY <1>1, ChainLength, TrackedFacts DEF DInv, LooseContext
<1>3. /\ d.bodies > 1 => Answered(d)
      /\ Answered(ctx[r]) => Answered(d)
  BY <1>2 DEF Docs, Answered
<1>4. d.phase = "running" /\ d.index <= n => ctx[r].phase = "running" /\ ctx[r].index <= n
  BY <1>2
<1>5. d.phase = "running" /\ d.index <= 5 => "user" \notin d.keys /\ d.err = NoError
  <2> SUFFICES ASSUME d.phase = "running", d.index <= 5
               PROVE  "user" \notin d.keys /\ d.err = NoError
    OBVIOUS
  <2>1. ctx[r].index <= 5 /\ d.keys = ctx[r].keys
    BY <1>2
  <2>2. QED
    BY <1>2, <2>1 DEF Docs
<1>6. d.phase = "running" /\ d.index <= n /\ d.bodies > 0 => Answered(d)
  BY <1>2, <1>3, <1>4 DEF Docs
<1>7. QED
  BY <1>1, <1>3, <1>5, <1>6 DEF Docs

\* A step on the way down to the handler, where nothing is answered.
LEMMA DownDocs ==
  ASSUME PInv, MInv, DInv, NEW r \in Requests, NEW d \in LooseContext, Set(r, d),
         router = "service" => d.bodies = 0 /\ "user" \notin d.keys /\ d.err = NoError
  PROVE  DInv'
<1> SUFFICES ASSUME router = "service" PROVE Docs(d, Len(Chain(r)'))
  BY OneDocs
<1>1. ~(d.bodies > 0) /\ ~(d.bodies > 1)
  OBVIOUS
<1>2. QED
  BY <1>1 DEF Docs

\* A step that aborts the chain with an answer.
LEMMA AbortDocs ==
  ASSUME PInv, MInv, DInv, NEW r \in Requests, NEW c \in LooseContext, NEW code \in Nat,
         Set(r, Abort(Json(c, code))), c.route = ctx[r].route, ctx[r].phase # "new",
         c.phase = "running",
         router = "service" => c.bodies = 0 \/ (c.bodies = 1 /\ Answered(c))
  PROVE  DInv'
<1>1. PICK e : e = Json(c, code)
  OBVIOUS
<1>2. /\ e \in LooseContext /\ Alike(c, e) /\ Marked(c, e) /\ e.bodies = c.bodies + 1
      /\ e.status = IF c.bodies = 0 THEN code ELSE c.status
  BY <1>1, JsonFacts
<1>3. PICK d : d = Abort(e)
  OBVIOUS
<1>4. /\ d \in LooseContext /\ Alike(e, d) /\ Marked(e, d) /\ d.index = 63
      /\ d.bodies = e.bodies /\ d.status = e.status /\ Set(r, d)
  BY <1>1, <1>2, <1>3, AbortFacts
<1>5. d.route = ctx[r].route /\ d.phase = "running"
  BY <1>2, <1>4 DEF Alike
<1>6. ASSUME router = "service" PROVE Docs(d, Len(Chain(r)))
  <2>1. PICK n : n = Len(Chain(r))
    OBVIOUS
  <2>2. n \in Nat /\ n <= 7
    BY <2>1, ChainLength
  <2>3. ~(d.index <= n) /\ ~(d.index <= 5)
    BY <1>4, <2>2
  <2>4. d.bodies > 1 => Answered(d)
    <3>1. CASE c.bodies = 0
      BY <1>2, <1>4, <3>1
    <3>2. CASE c.bodies = 1 /\ Answered(c)
      <4>1. d.status = c.status
        BY <1>2, <1>4, <3>2
      <4>2. QED
        BY <1>2, <1>4, <3>2, <4>1 DEF Answered, Alike, Marked
    <3>3. QED
      BY <1>6, <3>1, <3>2
  <2>5. QED
    BY <1>5, <2>1, <2>3, <2>4 DEF Docs
<1>7. QED
  BY <1>4, <1>5, <1>6, SameDocs

\* The first part of Docs, where a request has yet to meet its handler.
LEMMA EarlyDocs ==
  ASSUME PInv, MInv, DInv, router = "service", NEW r \in Requests,
         ctx[r].phase \in {"new", "counting"} \/ (ctx[r].phase = "running" /\ ctx[r].index <= 5)
  PROVE  "user" \notin ctx[r].keys /\ ctx[r].err = NoError /\ ctx[r].bodies = 0
<1>1. Docs(ctx[r], Len(Chain(r))) /\ Metered(ctx[r], Len(Chain(r)))
  BY TrackedFacts DEF DInv
<1>2. QED
  BY <1>1 DEF Docs, Metered

LEMMA WayDownDocs ==
  ASSUME PInv, MInv, DInv, NEW r \in Requests,
         Start(r) \/ Enter(r) \/ AddRequest(r) \/ EnterMetrics(r) \/ SetUser(r)
  PROVE  DInv'
<1>0. ctx[r] \in LooseContext
  BY TrackedFacts
<1>1. CASE Start(r)
  <2>1. PICK route \in Routes \cap Registered(router) :
          Set(r, [ctx[r] EXCEPT !.phase = "running", !.route = route])
    BY <1>1 DEF Start
  <2>2. PICK d : d = [ctx[r] EXCEPT !.phase = "running", !.route = route]
    OBVIOUS
  <2>3. /\ d \in LooseContext /\ d.bodies = ctx[r].bodies /\ d.keys = ctx[r].keys
        /\ d.err = ctx[r].err /\ Set(r, d)
    BY <1>0, <2>1, <2>2 DEF LooseContext
  <2>4. ctx[r].phase = "new"
    BY <1>1 DEF Start
  <2>5. QED
    BY <2>3, <2>4, EarlyDocs, DownDocs
<1>2. CASE Enter(r)
  <2>1. PICK m \in {"telemetry", "logger", "panic", "error"} : At(r, m)
    BY <1>2 DEF Enter
  <2>2. PICK k \in Nat : k = ctx[r].depth + 1
    BY <1>0 DEF LooseContext
  <2>3. PICK e : e = [ctx[r] EXCEPT !.depth = k]
    OBVIOUS
  <2>4. e \in LooseContext /\ Alike(ctx[r], e) /\ Marked(ctx[r], e) /\ e.bodies = ctx[r].bodies
    BY <1>0, <2>2, <2>3, DepthFacts
  <2>5. PICK d : d = Advance(e)
    OBVIOUS
  <2>6. /\ d \in LooseContext /\ Alike(e, d) /\ Marked(e, d) /\ d.bodies = e.bodies
    BY <2>4, <2>5, AdvanceFacts
  <2>7. Set(r, d)
    BY <1>2, <2>2, <2>3, <2>5 DEF Enter
  <2>8. ASSUME router = "service" PROVE ctx[r].phase = "running" /\ ctx[r].index <= 5
    <3>1. ctx[r].index \in {1, 2, 3, 4}
      BY <2>1, <2>8, AtService DEF Registered
    <3>2. QED
      BY <2>1, <3>1 DEF At
  <2>9. QED
    BY <2>4, <2>6, <2>7, <2>8, EarlyDocs, DownDocs DEF Alike, Marked
<1>3. CASE AddRequest(r)
  <2>1. PICK d : d = [ctx[r] EXCEPT !.phase = "counting"]
    OBVIOUS
  <2>2. /\ d \in LooseContext /\ d.bodies = ctx[r].bodies /\ d.keys = ctx[r].keys
        /\ d.err = ctx[r].err /\ Set(r, d)
    BY <1>0, <1>3, <2>1 DEF LooseContext, AddRequest
  <2>3. ASSUME router = "service" PROVE ctx[r].phase = "running" /\ ctx[r].index <= 5
    <3>1. At(r, "metrics")
      BY <1>3 DEF AddRequest
    <3>2. ctx[r].index = 3
      BY <2>3, <3>1, AtService DEF Registered
    <3>3. QED
      BY <3>1, <3>2 DEF At
  <2>4. QED
    BY <2>2, <2>3, EarlyDocs, DownDocs
<1>4. CASE EnterMetrics(r)
  <2>1. PICK k \in Nat : k = ctx[r].depth + 1
    BY <1>0 DEF LooseContext
  <2>2. PICK e : e = [ctx[r] EXCEPT !.phase = "running", !.depth = k,
                                    !.keys = @ \cup {"metrics"}]
    OBVIOUS
  <2>3. /\ e \in LooseContext /\ e.bodies = ctx[r].bodies /\ e.err = ctx[r].err
        /\ e.keys = ctx[r].keys \cup {"metrics"}
    BY <1>0, <2>1, <2>2 DEF LooseContext
  <2>4. PICK d : d = Advance(e)
    OBVIOUS
  <2>5. /\ d \in LooseContext /\ Alike(e, d) /\ Marked(e, d) /\ d.bodies = e.bodies
    BY <2>3, <2>4, AdvanceFacts
  <2>6. Set(r, d) /\ ctx[r].phase = "counting"
    BY <1>4, <2>1, <2>2, <2>4 DEF EnterMetrics
  <2>7. QED
    BY <2>3, <2>5, <2>6, EarlyDocs, DownDocs DEF Alike, Marked
<1>5. CASE SetUser(r)
  <2>1. PICK e : e = [ctx[r] EXCEPT !.keys = @ \cup {"user"}]
    OBVIOUS
  <2>2. e \in LooseContext
    BY <1>0, <2>1 DEF LooseContext
  <2>3. PICK d : d = Advance(e)
    OBVIOUS
  <2>4. d \in LooseContext /\ Set(r, d) /\ At(r, "setUser")
    BY <1>5, <2>1, <2>2, <2>3, AdvanceFacts DEF SetUser
  <2>5. router # "service"
    BY <2>4, AtService DEF Registered
  <2>6. QED
    BY <2>4, <2>5, OneDocs
<1>6. QED
  BY <1>1, <1>2, <1>3, <1>4, <1>5

\* What a handler of the service answers, run without a user: GET /:id alone has
\* elements behind it.
LEMMA ServiceAnswers ==
  ASSUME PInv, router = "service", NEW r \in Requests, ctx[r].phase # "new",
         NEW o \in HandlerOutcomes(ctx[r].route, "user" \in ctx[r].keys), o.kind = "json",
         "user" \notin ctx[r].keys
  PROVE  \/ ctx[r].route = "query" /\ o.code = 200
         \/ Len(Chain(r)) = 5
<1> DEFINE route == ctx[r].route
           s == <<"telemetry", "logger", "metrics", "panic">>
           t == RouteChain(route)
<1>1. route \in {"create", "list", "login", "query"} /\ (route = "query" => o.code = 200)
  BY DEF HandlerOutcomes, Outcome, AppErrors, BindErrors
<1>2. Chain(r) = s \o t
  BY DEF Chain, Stack
<1>3. route # "query" => t = <<route>>
  BY <1>1 DEF RouteChain
<1> HIDE DEF t, route
<1>4. ASSUME route # "query" PROVE Len(s \o t) = 5
  <2>1. t = <<route>>
    BY <1>3, <1>4
  <2>2. QED
    BY <2>1
<1>5. QED
  BY <1>1, <1>2, <1>4 DEF route

LEMMA HandleDocs == ASSUME PInv, MInv, DInv, NEW r \in Requests, Handle(r) PROVE DInv'
<1>1. PICK o \in HandlerOutcomes(ctx[r].route, "user" \in ctx[r].keys) :
        Set(r, CASE o.kind = "panic" ->
                      [ctx[r] EXCEPT !.phase = "panicking", !.panicked = TRUE]
                 [] o.kind = "json" -> Advance(Json(ctx[r], o.code))
                 [] OTHER           -> Advance([ctx[r] EXCEPT !.err = o]))
  BY DEF Handle
<1>2. At(r, ctx[r].route) /\ ctx[r] \in LooseContext /\ ctx[r].phase = "running"
  BY TrackedFacts DEF Handle, At
<1>3. ASSUME router = "service"
      PROVE  /\ ctx[r].index = 5 /\ ctx[r].bodies = 0 /\ ~ctx[r].panicked
             /\ "user" \notin ctx[r].keys /\ ctx[r].err = NoError
  <2>1. ctx[r].index = 5
    BY <1>2, <1>3, HandlerFirst
  <2>2. ctx[r].index <= Len(Chain(r)) /\ Metered(ctx[r], Len(Chain(r)))
    BY <1>2, <1>3, TrackedFacts DEF At
  <2>3. ~ctx[r].panicked
    BY <1>2, <2>2 DEF Metered, Early
  <2>4. "user" \notin ctx[r].keys /\ ctx[r].err = NoError /\ ctx[r].bodies = 0
    BY <1>2, <1>3, <2>1, EarlyDocs
  <2>5. QED
    BY <2>1, <2>3, <2>4
<1>4. CASE o.kind = "panic"
  <2>1. PICK d : d = [ctx[r] EXCEPT !.phase = "panicking", !.panicked = TRUE]
    OBVIOUS
  <2>2. /\ d \in LooseContext /\ Set(r, d) /\ d.phase = "panicking"
        /\ d.route = ctx[r].route /\ d.bodies = ctx[r].bodies
    BY <1>1, <1>2, <1>4, <2>1 DEF LooseContext
  <2>3. router = "service" => Docs(d, Len(Chain(r)))
    BY <1>3, <2>2 DEF Docs
  <2>4. QED
    BY <1>2, <2>2, <2>3, SameDocs
<1>5. CASE o.kind = "json"
  <2>1. o.code \in Nat
    BY <1>5, OutcomeKinds
  <2>2. PICK e : e = Json(ctx[r], o.code)
    OBVIOUS
  <2>3. /\ e \in LooseContext /\ Alike(ctx[r], e) /\ Marked(ctx[r], e)
        /\ e.index = ctx[r].index /\ e.bodies = ctx[r].bodies + 1
        /\ e.status = IF ctx[r].bodies = 0 THEN o.code ELSE ctx[r].status
    BY <1>2, <2>1, <2>2, JsonFacts, ZenonT(30)
  <2>4. PICK d : d = Advance(e)
    OBVIOUS
  <2>5. /\ d \in LooseContext /\ Alike(e, d) /\ Marked(e, d) /\ d.index = e.index + 1
        /\ d.bodies = e.bodies /\ d.status = e.status
    BY <2>3, <2>4, AdvanceFacts
  <2>6. d.route = ctx[r].route /\ d.phase = "running" /\ Set(r, d)
    BY <1>1, <1>2, <1>5, <2>2, <2>3, <2>4, <2>5 DEF Alike
  <2>7. ASSUME router = "service" PROVE Docs(d, Len(Chain(r)))
    <3>1. d.index = 6 /\ d.bodies = 1 /\ d.status = o.code /\ d.err = NoError /\ ~d.panicked
      <4>1. d.err = NoError /\ ~d.panicked
        BY <1>3, <2>3, <2>5, <2>7 DEF Alike, Marked
      <4>2. d.status = o.code
        BY <1>3, <2>3, <2>5, <2>7
      <4>3. d.index = 6 /\ d.bodies = 1
        BY <1>3, <2>3, <2>5, <2>7
      <4>4. QED
        BY <4>1, <4>2, <4>3
    <3>2. (d.route = "query" /\ o.code = 200) \/ Len(Chain(r)) = 5
      <4>1. "user" \notin ctx[r].keys
        BY <1>3, <2>7
      <4>2. QED
        BY <1>2, <1>5, <2>6, <2>7, <4>1, ServiceAnswers
    <3>3. Answered(d) \/ ~(d.index <= Len(Chain(r)))
      <4>1. CASE d.route = "query" /\ o.code = 200
        BY <3>1, <4>1 DEF Answered
      <4>2. CASE Len(Chain(r)) = 5
        BY <3>1, <4>2
      <4>3. QED
        BY <3>2, <4>1, <4>2
    <3>4. ~(d.bodies > 1) /\ ~(d.index <= 5)
      BY <3>1
    <3>5. QED
      BY <2>6, <3>3, <3>4 DEF Docs
  <2>8. QED
    BY <1>2, <2>5, <2>6, <2>7, SameDocs
<1>6. CASE o.kind \notin {"panic", "json"}
  <2>1. o \in Errors
    BY <1>6, OutcomeKinds
  <2>2. PICK e : e = [ctx[r] EXCEPT !.err = o]
    OBVIOUS
  <2>3. /\ e \in LooseContext /\ e.phase = ctx[r].phase /\ e.route = ctx[r].route
        /\ e.index = ctx[r].index /\ e.bodies = ctx[r].bodies
    BY <1>2, <2>1, <2>2 DEF LooseContext
  <2>4. PICK d : d = Advance(e)
    OBVIOUS
  <2>5. /\ d \in LooseContext /\ Alike(e, d) /\ d.index = e.index + 1
        /\ d.bodies = e.bodies
    BY <2>3, <2>4, AdvanceFacts
  <2>6. d.route = ctx[r].route /\ Set(r, d)
    BY <1>1, <1>6, <2>2, <2>3, <2>4, <2>5 DEF Alike
  <2>7. ASSUME router = "service" PROVE Docs(d, Len(Chain(r)))
    <3>1. d.index = 6 /\ d.bodies = 0 /\ d.phase = "running"
      BY <1>2, <1>3, <2>3, <2>5, <2>7 DEF Alike
    <3>2. ~(d.bodies > 1) /\ ~(d.bodies > 0) /\ ~(d.index <= 5)
      BY <3>1
    <3>3. QED
      BY <3>1, <3>2 DEF Docs
  <2>8. QED
    BY <1>2, <2>5, <2>6, <2>7, SameDocs
<1>7. QED
  BY <1>4, <1>5, <1>6

\* What a middleware of a route meets.
LEMMA MiddlewareMeets ==
  ASSUME PInv, MInv, DInv, NEW r \in Requests, Authenticate(r) \/ Authorize(r)
  PROVE  /\ router = "service" /\ ctx[r] \in LooseContext /\ ctx[r].phase = "running"
         /\ ctx[r].index \in Nat /\ ctx[r].index > 4
         /\ ctx[r].bodies = 0 \/ (ctx[r].bodies = 1 /\ Answered(ctx[r]))
<1>1. /\ router = "service" /\ ctx[r].phase = "running" /\ ctx[r] \in LooseContext
      /\ ctx[r].index > 4
  BY RouteMiddleware DEF Authenticate, Authorize
<1>2. /\ ctx[r].index <= Len(Chain(r)) /\ Metered(ctx[r], Len(Chain(r)))
      /\ ctx[r].bodies \in Nat /\ ctx[r].index \in Nat /\ Docs(ctx[r], Len(Chain(r)))
  BY <1>1, TrackedFacts DEF Authenticate, Authorize, At, DInv
<1>3. ctx[r].bodies <= 1
  BY <1>1, <1>2 DEF Metered, Early
<1>4. ctx[r].bodies > 0 => Answered(ctx[r])
  BY <1>1, <1>2 DEF Docs
<1>5. QED
  BY <1>1, <1>2, <1>3, <1>4

LEMMA MiddlewareDocs ==
  ASSUME PInv, MInv, DInv, NEW r \in Requests, Authenticate(r) \/ Authorize(r)
  PROVE  DInv'
<1>0. /\ ctx[r] \in LooseContext /\ ctx[r].phase = "running" /\ ctx[r].index > 4
      /\ ctx[r].index \in Nat
      /\ ctx[r].bodies = 0 \/ (ctx[r].bodies = 1 /\ Answered(ctx[r]))
  BY MiddlewareMeets
<1>1. ASSUME NEW e \in LooseContext, Set(r, Advance(e)), Alike(ctx[r], e),
             e.index = ctx[r].index, e.bodies = ctx[r].bodies, e.status = ctx[r].status,
             e.panicked = ctx[r].panicked
      PROVE  DInv'
  <2>1. PICK d : d = Advance(e)
    OBVIOUS
  <2>2. /\ d \in LooseContext /\ Alike(e, d) /\ Marked(e, d) /\ d.index = e.index + 1
        /\ d.bodies = e.bodies /\ d.status = e.status /\ Set(r, d)
    BY <1>1, <2>1, AdvanceFacts
  <2>3. /\ d.route = ctx[r].route /\ d.phase = "running" /\ d.err = ctx[r].err
        /\ d.panicked = ctx[r].panicked
    BY <1>0, <1>1, <2>2 DEF Alike, Marked
  <2>4. d.index > 5 /\ ctx[r].index <= d.index
    BY <1>0, <1>1, <2>2
  <2>5. QED
    BY <1>0, <1>1, <2>2, <2>3, <2>4, QuietDocs
<1>2. 401 \in Nat /\ 500 \in Nat
  OBVIOUS
<1>3. CASE Authenticate(r)
  <2>1. PICK caller \in Callers :
          LET c == [ctx[r] EXCEPT !.caller = caller]
          IN \/ /\ caller = "nobody"
                /\ Set(r, Abort(Json(c, 401)))
             \/ /\ caller # "nobody"
                /\ \/ Set(r, Advance([c EXCEPT !.keys = @ \cup {"user", "claims"}]))
                   \/ Set(r, Abort(Json(c, 500)))
    BY <1>3 DEF Authenticate
  <2>2. PICK c : c = [ctx[r] EXCEPT !.caller = caller]
    OBVIOUS
  <2>3. /\ c \in LooseContext /\ Alike(ctx[r], c) /\ Marked(ctx[r], c) /\ c.index = ctx[r].index
        /\ c.bodies = ctx[r].bodies /\ c.status = ctx[r].status
    BY <1>0, <2>2 DEF LooseContext, Alike, Marked
  <2>4. /\ c.route = ctx[r].route /\ c.phase = "running"
        /\ c.bodies = 0 \/ (c.bodies = 1 /\ Answered(c))
    BY <1>0, <2>3 DEF Alike, Marked, Answered
  <2>5. ASSUME NEW code \in Nat, Set(r, Abort(Json(c, code))) PROVE DInv'
    BY <1>0, <2>3, <2>4, <2>5, AbortDocs
  <2>6. PICK e : e = [c EXCEPT !.keys = @ \cup {"user", "claims"}]
    OBVIOUS
  <2>7. /\ e \in LooseContext /\ Alike(ctx[r], e) /\ e.panicked = ctx[r].panicked
        /\ e.index = ctx[r].index /\ e.bodies = ctx[r].bodies /\ e.status = ctx[r].status
    BY <2>3, <2>6 DEF LooseContext, Alike, Marked
  <2>8. Set(r, Abort(Json(c, 401))) \/ Set(r, Abort(Json(c, 500))) \/ Set(r, Advance(e))
    BY <2>1, <2>2, <2>6
  <2>9. QED
    BY <1>1, <1>2, <2>5, <2>7, <2>8
<1>4. CASE Authorize(r)
  <2>1. Set(r, Advance(ctx[r])) \/ Set(r, Abort(Json(ctx[r], 401)))
    BY <1>4 DEF Authorize
  <2>2. Alike(ctx[r], ctx[r])
    BY DEF Alike
  <2>3. QED
    BY <1>0, <1>1, <1>2, <2>1, <2>2, AbortDocs
<1>5. QED
  BY <1>3, <1>4

\* The way up answers only a panic, before anything else was written.
LEMMA WayUpDocs ==
  ASSUME PInv, MInv, DInv, NEW r \in Requests,
         \/ LeaveObserver(r) \/ LeaveMetrics(r) \/ LeaveError(r)
         \/ Unwind(r) \/ Recover(r) \/ Drop(r) \/ Finish(r)
  PROVE  DInv'
<1>0. ctx[r] \in LooseContext /\ router \in {"service", "tests"}
      /\ ctx[r].phase \in {"running", "panicking"}
  BY TrackedFacts
     DEF LeaveObserver, LeaveMetrics, LeaveError, Returning, Unwind, Recover, Drop, Finish
<1>1. CASE router = "tests"
  <2>1. router' = router
    BY DEF LeaveObserver, LeaveMetrics, LeaveError, Leave, Unwind, Recover, Drop, Finish, Set
  <2>2. QED
    BY <1>1, <2>1 DEF DInv
<1>2. CASE router = "service" /\ (LeaveObserver(r) \/ LeaveMetrics(r))
  <2>1. PICK m : Returning(r, m) /\ m = Top(r)
    BY <1>2 DEF LeaveObserver, LeaveMetrics, Returning
  <2>2. PICK k : k = ctx[r].depth - 1
    OBVIOUS
  <2>3. PICK a : a = ctx[r].after \cup ({m} \ {"panic"})
    OBVIOUS
  <2>4. k \in Nat /\ a \in SUBSET {"telemetry", "logger", "metrics", "error"}
    BY <1>2, <2>1, <2>2, <2>3, ReturningService
  <2>5. PICK d : d = [ctx[r] EXCEPT !.depth = k, !.after = a]
    OBVIOUS
  <2>6. /\ d \in LooseContext /\ d.phase = ctx[r].phase /\ d.route = ctx[r].route
        /\ Marked(ctx[r], d) /\ d.index = ctx[r].index /\ d.err = ctx[r].err
        /\ d.bodies = ctx[r].bodies /\ d.status = ctx[r].status
    BY <1>0, <2>4, <2>5 DEF LooseContext, Marked
  <2>7. Set(r, d)
    BY <1>2, <2>1, <2>2, <2>3, <2>5 DEF LeaveObserver, LeaveMetrics, Leave
  <2>8. ctx[r].index <= d.index
    BY <1>0, <2>6 DEF LooseContext
  <2>9. QED
    BY <1>0, <2>6, <2>7, <2>8, QuietDocs DEF Marked
<1>3. CASE router = "service" /\ LeaveError(r)
  BY <1>3, ReturningService DEF LeaveError
<1>4. CASE router = "service" /\ (Unwind(r) \/ Drop(r))
  <2>1. ctx[r].phase = "panicking"
    BY <1>4 DEF Unwind, Drop
  <2>2. ctx[r].depth = 4 /\ Top(r) = "panic"
    BY <1>4, <2>1, TrackedFacts DEF OnService, Top, Stack
  <2>3. QED
    BY <1>4, <2>2 DEF Unwind, Drop
<1>5. CASE router = "service" /\ Recover(r)
  <2>1. ctx[r].phase = "panicking" /\ ctx[r].depth = 4 /\ ctx[r].bodies = 0
    BY <1>5, TrackedFacts DEF Recover, OnService, Metered
  <2>2. PICK d : d = [ctx[r] EXCEPT !.phase = "running", !.depth = 3]
    OBVIOUS
  <2>3. /\ d \in LooseContext /\ d.phase = "running" /\ d.route = ctx[r].route
        /\ d.bodies = 0
    BY <1>0, <2>1, <2>2 DEF LooseContext
  <2>4. PICK code \in Nat : code = 500
    OBVIOUS
  <2>5. Set(r, Abort(Json(d, code)))
    BY <1>5, <2>1, <2>2, <2>4 DEF Recover
  <2>6. QED
    BY <1>0, <2>1, <2>3, <2>5, AbortDocs
<1>6. CASE router = "service" /\ Finish(r)
  <2>1. PICK d : d = [ctx[r] EXCEPT !.phase = "done"]
    OBVIOUS
  <2>2. /\ d \in LooseContext /\ d.phase = "done" /\ d.route = ctx[r].route
        /\ Marked(ctx[r], d) /\ d.err = ctx[r].err
        /\ d.bodies = ctx[r].bodies /\ d.status = ctx[r].status /\ Set(r, d)
    BY <1>0, <1>6, <2>1 DEF LooseContext, Marked, Finish
  <2>3. QED
    BY <1>0, <2>2, QuietDocs DEF Marked
<1>7. QED
  BY <1>0, <1>1, <1>2, <1>3, <1>4, <1>5, <1>6

LEMMA InitDInv == Init => DInv
<1> SUFFICES ASSUME Init, NEW r \in Requests PROVE Docs(ctx[r], Len(Chain(r)))
  BY DEF DInv
<1>1. ctx[r] = NewContext
  BY DEF Init
<1>2. QED
  BY <1>1 DEF NewContext, Docs

LEMMA StepDInv == PInv /\ MInv /\ DInv /\ [Next]_vars => DInv'
<1> SUFFICES ASSUME PInv, MInv, DInv, [Next]_vars PROVE DInv'
  OBVIOUS
<1>1. ASSUME NEW r \in Requests, Start(r) \/ Proceed(r) PROVE DInv'
  BY <1>1, WayDownDocs, HandleDocs, MiddlewareDocs, WayUpDocs DEF Proceed
<1>2. CASE Quiet \/ UNCHANGED vars
  <2>1. router' = router /\ ctx' = ctx
    BY <1>2 DEF Quiet, vars
  <2>2. ASSUME NEW r \in Requests PROVE Chain(r)' = Chain(r)
    BY <2>1 DEF Chain, Stack, RouteChain
  <2>3. QED
    BY <2>1, <2>2 DEF DInv
<1>3. QED
  BY <1>1, <1>2 DEF Next

\* A response of the service holds two documents only where GET /:id has answered
\* 200 and mid.Authenticate refuses behind it; the status is then the handler's.
THEOREM OneDocumentIsWritten == Spec => []OneDocument
<1>1. Spec => []DInv
  BY InitDInv, StepDInv, PipelineInvariance, MetricsInvariance, PTL DEF Spec
<1>2. DInv => OneDocument
  BY DEF DInv, Docs, Answered, OneDocument
<1>3. QED
  BY <1>1, <1>2, PTL
==============================================================================
