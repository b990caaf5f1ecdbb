------------------------------ MODULE Lifecycle ------------------------------
(***************************************************************************)
(* The life of the service process: the start of main.run, the API server  *)
(* in a goroutine of its own, connections and the requests on them, the    *)
(* spans of the requests, a shutdown signal, and the way out through the   *)
(* deferred calls.                                                         *)
(*                                                                         *)
(* The signal cancels the context main hands to run.  The same context is  *)
(* the base context of every request, the parent of the context that       *)
(* bounds server.Shutdown, and the one the deferred cleanup of the span    *)
(* exporter gets.  The debug and the health server run in goroutines that  *)
(* only log their failure and end with the process; they are left out.     *)
(*                                                                         *)
(* net/http counts a connection busy from the first byte of its request;   *)
(* that the server notices this byte in the same instant is idealised.     *)
(***************************************************************************)
EXTENDS Naturals, Sequences, FiniteSets

CONSTANTS
  Requests,     \* connections with one request each
  MaxQueueSize  \* spans the queue of the batch processor holds

ASSUME QueueAssumption == IsFiniteSet(Requests) /\ MaxQueueSize \in Nat \ {0}

VARIABLES
  pc,         \* where main.run is
  defers,     \* the deferred calls of run, by the step that deferred them, last first
  result,     \* what run returns: nil or an error
  signalled,  \* the context of main is cancelled
  elapsed,    \* ShutdownTimout has passed since Shutdown was called
  listener,   \* the API server's listener
  serverErrs, \* what the channel serverErrs (capacity 1) holds
  request,    \* each connection, and how its request is getting on
  db,         \* the connection pool
  processor,  \* the batch processor of the spans
  span,       \* what became of the span of each request
  handed,     \* the requests answered before run began to return (history)
  exitCode    \* what the process exited with

run == <<pc, defers, result, db, exitCode>>
server == <<listener, serverErrs, request>>
spans == <<processor, span, handed>>
context == <<signalled, elapsed>>
vars == <<run, server, spans, context>>

\* run before it serves, in order; each step can fail.
Startup == <<"conf", "openDB", "setupOTel", "loadKeys", "setActiveKey">>

\* A connection is "new" until its request comes, "stale" when that takes more
\* than five seconds; its handler is running while it is "active", and also when
\* the connection is "cut" under it, until it is "gone".
TypeOK ==
  /\ pc \in {"conf", "openDB", "setupOTel", "loadKeys", "setActiveKey",
             "serving", "shutdown", "returning", "cleanup", "exited"}
  /\ defers \in {<<>>, <<"openDB">>, <<"setupOTel", "openDB">>}
  /\ result \in {"none", "nil", "err"}
  /\ signalled \in BOOLEAN
  /\ elapsed \in BOOLEAN
  /\ listener \in {"none", "binding", "open", "closed"}
  /\ serverErrs \in {"empty", "failed", "closed"}
  /\ request \in [Requests -> {"none", "new", "stale", "active", "answered",
                               "cut", "gone", "closed"}]
  /\ db \in {"none", "open", "closed"}
  /\ processor \in {"none", "noop", "running", "draining", "done"}
  /\ span \in [Requests -> {"none", "ending", "queued", "batch", "exported",
                            "failed", "dropped", "refused"}]
  /\ handed \subseteq Requests
  /\ exitCode \in {"none", "zero", "one"}

Init ==
  /\ pc = "conf" /\ defers = <<>> /\ result = "none"
  /\ signalled = FALSE /\ elapsed = FALSE
  /\ listener = "none" /\ serverErrs = "empty"
  /\ request = [r \in Requests |-> "none"]
  /\ db = "none"
  /\ processor = "none"
  /\ span = [r \in Requests |-> "none"]
  /\ handed = {}
  /\ exitCode = "none"

Handling(r) == request[r] \in {"active", "cut"}

(***************************************************************************)
(* The environment.                                                        *)
(***************************************************************************)
\* SIGINT or SIGTERM arrives; signal.NotifyContext cancels the context.
Signal ==
  /\ ~signalled /\ pc # "exited"
  /\ signalled' = TRUE
  /\ UNCHANGED <<run, server, spans, elapsed>>

\* The timer of the shutdown context fires.
Elapse ==
  /\ pc = "shutdown" /\ ~elapsed
  /\ elapsed' = TRUE
  /\ UNCHANGED <<run, server, spans, signalled>>

\* The server accepts a client's connection.
Accept(r) ==
  /\ listener = "open" /\ pc # "exited"
  /\ request[r] = "none"
  /\ request' = [request EXCEPT ![r] = "new"]
  /\ UNCHANGED <<run, spans, context, listener, serverErrs>>

\* Five seconds pass without a request on a connection.
Linger(r) ==
  /\ request[r] = "new" /\ pc # "exited"
  /\ request' = [request EXCEPT ![r] = "stale"]
  /\ UNCHANGED <<run, spans, context, listener, serverErrs>>

\* The client's request reaches its handler.
Arrive(r) ==
  /\ request[r] \in {"new", "stale"} /\ pc # "exited"
  /\ request' = [request EXCEPT ![r] = "active"]
  /\ UNCHANGED <<run, spans, context, listener, serverErrs>>

\* mid.Telemetry's deferred span.End, for a sampled span: OnEnd refuses it when
\* the processor has been stopped.
EndSpan(r) ==
  /\ Handling(r) /\ span[r] = "none" /\ pc # "exited"
  /\ processor \in {"running", "draining", "done"}
  /\ span' = [span EXCEPT ![r] = IF processor = "running" THEN "ending" ELSE "refused"]
  /\ UNCHANGED <<run, server, context, processor, handed>>

Queue == {r \in Requests : span[r] = "queued"}
Batch == {r \in Requests : span[r] = "batch"}

\* enqueueDrop: the queue takes the span or, if it is full, the span is dropped.
Enqueue(r) ==
  /\ span[r] = "ending" /\ pc # "exited"
  /\ span' = [span EXCEPT ![r] =
                IF Cardinality(Queue) < MaxQueueSize THEN "queued" ELSE "dropped"]
  /\ UNCHANGED <<run, server, context, processor, handed>>

\* A handler returns, behind the end of its span.  Nothing obliges it to: its
\* context may be cancelled, and it is free not to look.
Answer(r) ==
  /\ Handling(r) /\ span[r] # "ending" /\ pc # "exited"
  /\ request' = [request EXCEPT ![r] = IF @ = "cut" THEN "gone" ELSE "answered"]
  /\ UNCHANGED <<run, spans, context, listener, serverErrs>>

(***************************************************************************)
(* The goroutine of the batch processor.                                   *)
(***************************************************************************)
Alive == processor \in {"running", "draining"} /\ pc # "exited"

\* processQueue and drainQueue move a span from the queue to the batch.
TakeSpan(r) ==
  /\ Alive /\ span[r] = "queued"
  /\ span' = [span EXCEPT ![r] = "batch"]
  /\ UNCHANGED <<run, server, context, processor, handed>>

\* exportSpans: the batch is cleared whether or not its export succeeded.
ExportSpans ==
  \E outcome \in {"exported", "failed"} :
    span' = [r \in Requests |-> IF r \in Batch THEN outcome ELSE span[r]]

\* The timer of a second has fired, or the batch is full.
ExportBatch ==
  /\ Alive /\ Batch # {}
  /\ ExportSpans
  /\ UNCHANGED <<run, server, context, processor, handed>>

\* drainQueue finds the queue empty, exports what is left and returns.
DrainQueue ==
  /\ Alive /\ processor = "draining" /\ Queue = {}
  /\ ExportSpans
  /\ processor' = "done"
  /\ UNCHANGED <<run, server, context, handed>>

Processor == ExportBatch \/ DrainQueue \/ \E r \in Requests : TakeSpan(r)

(***************************************************************************)
(* main.run.                                                               *)
(***************************************************************************)
\* What a step of the startup has deferred once it has succeeded.
Deferred(step) == IF step \in {"openDB", "setupOTel"} THEN <<step>> ELSE <<>>

\* Mutant of DeferredOnError: the call is deferred before the error is checked.
DeferredBeforeCheck(step) == Deferred(step)

\* What it has deferred when it fails: run checks the error first.
DeferredOnError(step) == <<>>

\* SetupOTelSDK: no provider for an empty host, else one that batches.
SetupOTelSDK == {"noop", "running"}

\* A startup step succeeds.  Behind the last one run starts the goroutine of
\* the API server and waits.  The signal is not looked at before that.
StartupStep ==
  \E i \in DOMAIN Startup :
    /\ pc = Startup[i]
    /\ pc' = IF i = Len(Startup) THEN "serving" ELSE Startup[i + 1]
    /\ db' = IF pc = "openDB" THEN "open" ELSE db
    /\ processor' \in IF pc = "setupOTel" THEN SetupOTelSDK ELSE {processor}
    /\ defers' = Deferred(pc) \o defers
    /\ listener' = IF i = Len(Startup) THEN "binding" ELSE listener
    /\ UNCHANGED <<context, result, exitCode, serverErrs, request, span, handed>>

\* run returns: the deferred calls are next.
Return(outcome) ==
  /\ result' = outcome
  /\ pc' = "returning"
  /\ handed' = {r \in Requests : request[r] = "answered"}

\* A startup step fails: run returns its error.
StartupFails ==
  /\ \E i \in DOMAIN Startup : pc = Startup[i]
  /\ defers' = DeferredOnError(pc) \o defers
  /\ Return("err")
  /\ UNCHANGED <<server, context, db, exitCode, processor, span>>

\* conf.ErrHelpWanted: run prints the help and returns nil.
HelpWanted ==
  /\ pc = "conf"
  /\ Return("nil")
  /\ UNCHANGED <<server, context, defers, db, exitCode, processor, span>>

\* ListenAndServe binds its address, or fails and reports the error.
Bind ==
  /\ pc = "serving" /\ listener = "binding"
  /\ \/ /\ listener' = "open"
        /\ serverErrs' = serverErrs
     \/ /\ listener' = "closed"
        /\ serverErrs' = "failed"
  /\ UNCHANGED <<run, spans, context, request>>

\* Accept fails for good while requests are being served: ListenAndServe
\* returns its error.  The connections it has accepted live on.
AcceptFails ==
  /\ pc = "serving" /\ listener = "open"
  /\ listener' = "closed"
  /\ serverErrs' = "failed"
  /\ UNCHANGED <<run, spans, context, request>>

\* Mutant of ReadsServerErrs: the channel is read while shutting down, too.
ReadsServerErrsAlways == pc \in {"serving", "shutdown"}

ReadsServerErrs == pc = "serving"

\* select, the branch of serverErrs: run returns the error and leaves the server
\* as it is.  When both channels are ready select takes either.
ServerError ==
  /\ ReadsServerErrs /\ serverErrs # "empty"
  /\ serverErrs' = "empty"
  /\ Return("err")
  /\ UNCHANGED <<context, defers, db, exitCode, listener, request, processor, span>>

\* select, the branch of ctx.Done(): server.Shutdown closes the listener, and
\* ListenAndServe returns ErrServerClosed, which nobody reads any more.
BeginShutdown ==
  /\ pc = "serving" /\ signalled
  /\ pc' = "shutdown"
  /\ listener' = IF listener = "open" THEN "closed" ELSE listener
  /\ serverErrs' = IF listener = "open" THEN "closed" ELSE serverErrs
  /\ UNCHANGED <<context, spans, defers, result, db, exitCode, request>>

\* ListenAndServe behind Shutdown refuses to serve with ErrServerClosed, or finds
\* the address taken.
LateBind ==
  /\ pc \in {"shutdown", "returning", "cleanup"} /\ listener = "binding"
  /\ listener' = "closed"
  /\ serverErrs' \in {"closed", "failed"}
  /\ UNCHANGED <<run, spans, context, request>>

\* Shutdown takes a connection without a request for idle once it is stale.
Drained == \A r \in Requests : request[r] \notin {"new", "active"}

\* The connections behind a call that closes those in the given states.
Closed(states) ==
  [r \in Requests |-> IF request[r] = "active" /\ "active" \in states THEN "cut"
                      ELSE IF request[r] \in states THEN "closed" ELSE request[r]]

\* Mutant of ShutdownDrained: run calls Shutdown in a goroutine.
ShutdownInBackground ==
  /\ pc = "shutdown"
  /\ request' = Closed({"stale"})
  /\ Return("nil")
  /\ UNCHANGED <<context, defers, db, exitCode, listener, serverErrs, processor, span>>

\* Shutdown finds every connection idle and closes it: run returns nil.
ShutdownDrained ==
  /\ pc = "shutdown" /\ Drained
  /\ request' = Closed({"stale"})
  /\ Return("nil")
  /\ UNCHANGED <<context, defers, db, exitCode, listener, serverErrs, processor, span>>

\* Mutant of ShutdownCtxDone: the shutdown context is never done.
ShutdownCtxNever == FALSE

\* context.WithTimeout(ctx, ShutdownTimout): done when the timer has fired or
\* when its parent, the cancelled context of main, is done.
ShutdownCtxDone == signalled \/ elapsed

\* Mutant of CloseReturns: the error of Shutdown is dropped behind Close.
CloseReturnsNil == "nil"

\* run returns the error of Shutdown behind server.Close.
CloseReturns == "err"

\* Shutdown finds a busy connection and its context done: server.Close closes the
\* connections that are left; the handlers run on.
ShutdownGivesUp ==
  /\ pc = "shutdown" /\ ~Drained /\ ShutdownCtxDone
  /\ request' = Closed({"new", "stale", "active"})
  /\ Return(CloseReturns)
  /\ UNCHANGED <<context, defers, db, exitCode, listener, serverErrs, processor, span>>

(***************************************************************************)
(* The deferred calls of run, the last deferred first, and the end.        *)
(***************************************************************************)
Calls(step) == pc = "returning" /\ defers # <<>> /\ Head(defers) = step

\* defer cleanup(ctx): the noop of an empty host returns at once, and so does
\* Shutdown of the provider if ctx is done; otherwise it stops the processor and
\* waits.  A cleanup that SetupOTelSDK has not returned is a nil function.
CallCleanup ==
  /\ Calls("setupOTel")
  /\ IF processor = "running" /\ ~signalled
       THEN /\ processor' = "draining"
            /\ pc' = "cleanup"
            /\ defers' = defers
       ELSE /\ processor' = processor
            /\ pc' = IF processor = "none" THEN "nil dereference" ELSE pc
            /\ defers' = Tail(defers)
  /\ UNCHANGED <<server, context, result, db, exitCode, span, handed>>

\* Mutant of ShutdownReturns: cleanup does not wait for the provider.
ShutdownReturnsAtOnce == TRUE

\* Shutdown of the processor waits for its goroutine, or for ctx.
ShutdownReturns == processor = "done" \/ signalled

CleanupReturns ==
  /\ pc = "cleanup" /\ ShutdownReturns
  /\ pc' = "returning"
  /\ defers' = Tail(defers)
  /\ UNCHANGED <<server, spans, context, result, db, exitCode>>

\* defer db.Close(), which waits for nobody.
CloseDB ==
  /\ Calls("openDB")
  /\ db' = "closed"
  /\ pc' = IF db = "none" THEN "nil dereference" ELSE pc
  /\ defers' = Tail(defers)
  /\ UNCHANGED <<server, spans, context, result, exitCode>>

\* main: exit code 1 on an error.  Whatever is still running dies here.
Exit ==
  /\ pc = "returning" /\ defers = <<>>
  /\ exitCode' = IF result = "err" THEN "one" ELSE "zero"
  /\ pc' = "exited"
  /\ UNCHANGED <<server, spans, context, defers, result, db>>

Exited == pc = "exited" /\ UNCHANGED vars

Run ==
  \/ StartupStep \/ StartupFails \/ HelpWanted \/ ServerError \/ BeginShutdown
  \/ ShutdownDrained \/ ShutdownGivesUp
  \/ CallCleanup \/ CleanupReturns \/ CloseDB \/ Exit

Next ==
  \/ Run \/ Processor \/ Signal \/ Elapse \/ Bind \/ AcceptFails \/ LateBind \/ Exited
  \/ \E r \in Requests :
       Accept(r) \/ Linger(r) \/ Arrive(r) \/ EndSpan(r) \/ Enqueue(r) \/ Answer(r)

\* The goroutine of main is scheduled, and Shutdown polls until one of its two
\* ways out is open; so is the goroutine of the processor, whose exports are
\* bounded by a timeout.  No fairness for clients, handlers, the network or the
\* signal.
Spec == Init /\ [][Next]_vars /\ WF_vars(Run) /\ WF_vars(Processor)

(***************************************************************************)
(* Properties.                                                             *)
(***************************************************************************)
\* The process ends after a signal, even if a handler never returns and even
\* if the signal arrives while the process is starting.  It ends after a failure
\* to start or to serve as well, although the way out then waits for the spans
\* to be exported while requests go on being served and end new ones.
ProcessEnds ==
  (signalled \/ serverErrs = "failed" \/ pc = "returning") ~> pc = "exited"

\* Exit code 0 means that nobody was cut off: run returns nil only when the
\* server has drained, and no new request slips in behind the drained check.
ZeroMeansDrained ==
  exitCode = "zero" => \A r \in Requests : ~Handling(r) /\ request[r] # "gone"

\* The deferred db.Close does not wait for anybody who uses the pool.  Where run
\* returns nil no handler is left to find its pool closed; only an error of run,
\* a server that failed or connections that were cut, leaves handlers running.
PoolOutlivesHandlers ==
  db = "closed" /\ (\E r \in Requests : Handling(r)) => result = "err"

\* cleanup has been called and has returned.
Cleaned ==
  pc \in {"returning", "exited"} /\ \A i \in DOMAIN defers : defers[i] # "setupOTel"

\* A process that ends by itself, because its listener failed, hands over the
\* spans of the requests it answered before: when cleanup has returned and no
\* signal has cancelled its context, each of these spans has been exported or
\* its export has failed, unless the full queue had dropped it or it was not
\* sampled.  None is left in the queue or in the batch, or refused by a processor
\* that is already stopped, whatever the requests that run on do meanwhile.
SpansFlushed ==
  Cleaned /\ ~signalled =>
    \A r \in handed : span[r] \in {"none", "exported", "failed", "dropped"}

\* Once main.run has left its select because of a signal, the error of a server
\* that was closed on purpose is never reported as a failure to serve: an error
\* after the shutdown began comes from connections that were closed under their
\* clients.
CloseNotMistaken ==
  [][pc = "shutdown" /\ result' = "err" =>
       \E r \in Requests : request[r] \in {"new", "active"} /\ request'[r] # request[r]]_vars

\* main.go:64, ShutdownTimout "default:120s", given to Shutdown at line 263: a
\* request in flight is cut off by the shutdown only when that time has passed.
GracePeriod ==
  [][pc = "shutdown" /\ (\E r \in Requests : request[r] = "active" /\ request'[r] = "cut")
       => elapsed]_vars
==============================================================================
