------------------------------ MODULE Readiness ------------------------------
(***************************************************************************)
(* The readiness probe against the clock: the kubelet asks every Period    *)
(* and hangs up after ClientTimeout; each question runs in a goroutine of  *)
(* the health server, whose handler hands ConnCheck a context that is done *)
(* after Deadline or when the kubelet has hung up.  ConnCheck pings until  *)
(* a ping succeeds, sleeps longer after every failed ping and looks at the *)
(* context only when it wakes up.                                          *)
(*                                                                         *)
(* Time is discrete; one unit is the 100 ms of ConnCheck's backoff.  Steps *)
(* that take no time happen between two ticks.  The kubelet is external:   *)
(* its numbers are those of infra/k8s/jumble/jumble-depl.yml.              *)
(***************************************************************************)
EXTENDS Naturals

CONSTANTS
  Probes,         \* the goroutines that can be in the handler at once
  Deadline,       \* the 10 s of the handler's context
  ClientTimeout,  \* timeoutSeconds of the probe
  Period,         \* periodSeconds of the probe
  MaxUp           \* bound of the model's memory of how long the database is up

ASSUME TimesAssumption ==
  {Deadline, ClientTimeout, Period, MaxUp} \subseteq Nat \ {0}

VARIABLES
  db,        \* the database: "up", "refusing" or "silent"
  upFor,     \* how long it has been up
  probe,     \* for every goroutine: where it is, and when
  next       \* the time until the kubelet's next question

vars == <<db, upFor, probe, next>>

Idle == [pc |-> "idle", attempt |-> 0, elapsed |-> 0, wake |-> 0, asked |-> FALSE]

\* elapsed: the time since the handler was entered; wake: when the sleep is
\* over; asked: the kubelet is still waiting for the answer.
Probe ==
  [pc : {"idle", "ping", "sleep", "query"}, attempt : Nat, elapsed : Nat,
   wake : Nat, asked : BOOLEAN]

TypeOK ==
  /\ db \in {"up", "refusing", "silent"}
  /\ upFor \in 0..MaxUp
  /\ probe \in [Probes -> Probe]
  /\ next \in 0..Period

Init ==
  /\ db \in {"up", "refusing", "silent"}
  /\ upFor = 0
  /\ probe = [p \in Probes |-> Idle]
  /\ next = 0

Least(a, b) == IF a < b THEN a ELSE b

\* When the context of a handler is done.
Limit(p) == IF probe[p].asked THEN Deadline ELSE Least(ClientTimeout, Deadline)

CtxDone(p) == probe[p].elapsed >= Limit(p)

(***************************************************************************)
(* The kubelet (external).                                                 *)
(***************************************************************************)
\* A question every Period; the handler is entered and begins its first ping.
Ask(p) ==
  /\ next = 0 /\ probe[p].pc = "idle"
  /\ probe' = [probe EXCEPT ![p] =
                 [pc |-> "ping", attempt |-> 1, elapsed |-> 0, wake |-> 0,
                  asked |-> TRUE]]
  /\ next' = Period
  /\ UNCHANGED <<db, upFor>>

\* The kubelet hangs up, which cancels the context of the request.
GiveUp(p) ==
  /\ probe[p].asked /\ probe[p].elapsed = ClientTimeout
  /\ probe' = [probe EXCEPT ![p].asked = FALSE]
  /\ UNCHANGED <<db, upFor, next>>

(***************************************************************************)
(* ConnCheck and the handler.                                              *)
(***************************************************************************)
\* ConnCheck returns and the handler answers, 200 or 500.
Answer(p) ==
  /\ probe' = [probe EXCEPT ![p] = Idle]
  /\ UNCHANGED <<db, upFor, next>>

PingSucceeds(p) ==
  /\ probe[p].pc = "ping" /\ db = "up" /\ ~CtxDone(p)
  /\ probe' = [probe EXCEPT ![p].pc = "query"]
  /\ UNCHANGED <<db, upFor, next>>

\* Mutant of Backoff: the pause grows with the square of the attempt.
QuadraticBackoff(attempt) == attempt * attempt

\* Mutant of Backoff: the attempts are counted from below zero.
EarlyBackoff(attempt) == attempt - 2

\* The pause behind a failed ping.
Backoff(attempt) == attempt

\* The ping fails: the connection is refused or the context is done.
PingFails(p) ==
  /\ probe[p].pc = "ping" /\ (db = "refusing" \/ CtxDone(p))
  /\ probe' = [probe EXCEPT
                 ![p].pc = "sleep",
                 ![p].wake = probe[p].elapsed + Backoff(probe[p].attempt)]
  /\ UNCHANGED <<db, upFor, next>>

Woken(p) == probe[p].pc = "sleep" /\ probe[p].elapsed = probe[p].wake

\* Mutant of Retry: ConnCheck goes on without a look at the context.
RetryForever(p) ==
  /\ Woken(p)
  /\ probe' = [probe EXCEPT ![p].pc = "ping", ![p].attempt = @ + 1]
  /\ UNCHANGED <<db, upFor, next>>

\* ConnCheck wakes up in time and tries again ...
Retry(p) ==
  /\ Woken(p) /\ ~CtxDone(p)
  /\ probe' = [probe EXCEPT ![p].pc = "ping", ![p].attempt = @ + 1]
  /\ UNCHANGED <<db, upFor, next>>

\* ... or finds the context done: the handler answers 500.
Expire(p) ==
  /\ Woken(p) /\ CtxDone(p)
  /\ Answer(p)

\* SELECT TRUE answers, or fails with the connection or with the context.
Query(p) ==
  /\ probe[p].pc = "query"
  /\ db # "silent" \/ CtxDone(p)
  /\ Answer(p)

(***************************************************************************)
(* The database and the clock.                                             *)
(***************************************************************************)
DBChanges ==
  /\ \E s \in {"up", "refusing", "silent"} \ {db} :
       /\ db' = s
       /\ upFor' = 0
  /\ UNCHANGED <<probe, next>>

\* Nothing in the goroutine happens before time passes.
Waits(p) ==
  CASE probe[p].pc = "idle"  -> TRUE
    [] probe[p].pc = "sleep" -> probe[p].elapsed < probe[p].wake
    [] OTHER                 -> db = "silent" /\ ~CtxDone(p)

\* One unit passes, once everything that is due has happened.
Tick ==
  /\ next > 0
  /\ \A p \in Probes :
       /\ Waits(p)
       /\ ~(probe[p].asked /\ probe[p].elapsed >= ClientTimeout)
  /\ next' = next - 1
  /\ upFor' = IF db = "up" THEN Least(upFor + 1, MaxUp) ELSE 0
  /\ probe' = [p \in Probes |->
                 IF probe[p].pc = "idle" THEN probe[p]
                 ELSE [probe[p] EXCEPT !.elapsed = @ + 1]]
  /\ UNCHANGED db

Handler(p) == PingSucceeds(p) \/ PingFails(p) \/ Retry(p) \/ Expire(p) \/ Query(p)

Next ==
  \/ DBChanges \/ Tick
  \/ \E p \in Probes : Ask(p) \/ GiveUp(p) \/ Handler(p)

Spec == Init /\ [][Next]_vars

(***************************************************************************)
(* Properties.                                                             *)
(***************************************************************************)
\* ConnCheck sleeps without looking at its context: it overruns the context by
\* at most its last pause, and the pauses are short enough that the last one is
\* bounded by the root of the time that was given.
OverrunBounded ==
  \A p \in Probes :
    LET h == probe[p]
    IN h.pc # "idle" =>
         /\ h.elapsed <= Limit(p) + h.attempt
         /\ h.attempt * (h.attempt - 1) <= 2 * h.elapsed

\* However long the database stays silent, the handler of one probe has ended
\* when the next one arrives: the probes of an outage do not pile up.
NoPileUp == \A p, q \in Probes : p # q => "idle" \in {probe[p].pc, probe[q].pc}

\* A database that is back is noticed by the probe that is backing off: as long
\* as the kubelet waits, the handler answers by the end of its pause.
RecoveryNoticed ==
  \A p \in Probes :
    db = "up" /\ probe[p].asked => Least(upFor, probe[p].elapsed) <= probe[p].attempt
==============================================================================
