--------------------------- MODULE ReadinessProofs ---------------------------
(***************************************************************************)
(* Proofs about the readiness probe, for every deadline, timeout and       *)
(* period and any number of goroutines.                                    *)
(*                                                                         *)
(* The pauses of ConnCheck are 1, 2, 3, ...: before attempt a it has slept *)
(* for a * (a - 1) / 2, and behind the pause that follows for the next of  *)
(* these sums.  Both facts are in Paused and make the bounds inductive.    *)
(***************************************************************************)
EXTENDS Readiness, Integers, TLAPS

\* Twice the time ConnCheck has slept before attempt a.
Area(a) == a * (a - 1)

LEMMA AreaFacts ==
  \A a \in Nat : /\ Area(a) \in Int
                 /\ Area(a + 1) \in Int
                 /\ Area(a + 1) = Area(a) + 2 * a
                 /\ Area(1) = 0
<1> SUFFICES ASSUME NEW a \in Nat
             PROVE  Area(a) \in Int /\ Area(a + 1) \in Int
                    /\ Area(a + 1) = Area(a) + 2 * a /\ Area(1) = 0
  OBVIOUS
<1>1. Area(a) = a * a - a
  BY DEF Area
<1>2. Area(a + 1) = a * a + a
  BY DEF Area
<1>3. Area(1) = 0
  BY DEF Area
<1>4. a * a \in Nat
  OBVIOUS
<1>5. QED
  BY <1>1, <1>2, <1>3, <1>4

\* A goroutine outside the handler is as new; inside, its attempts are paid for
\* with sleep, and it is past its context only while it sleeps.
Paused(p) ==
  LET h == probe[p]
  IN /\ h.pc = "idle" => h = Idle
     /\ h.pc # "idle" => /\ h.attempt >= 1
                         /\ Area(h.attempt) <= 2 * h.elapsed
                         /\ Area(h.attempt) <= 2 * Limit(p)
     /\ h.pc \in {"ping", "query"} => h.elapsed <= Limit(p)
     /\ h.pc = "sleep" => /\ h.elapsed <= h.wake
                          /\ h.wake <= h.elapsed + h.attempt
                          /\ h.wake <= Limit(p) + h.attempt
                          /\ Area(h.attempt + 1) <= 2 * h.wake
     /\ h.asked => h.elapsed <= ClientTimeout

RInv == TypeOK /\ \A p \in Probes : Paused(p)

\* Time has its types.
LEMMA Times ==
  /\ Deadline \in Nat /\ ClientTimeout \in Nat /\ Period \in Nat /\ MaxUp \in Nat
  /\ Deadline > 0 /\ ClientTimeout > 0 /\ Period > 0
  BY TimesAssumption

LEMMA ProbeTypes ==
  ASSUME TypeOK, NEW p \in Probes
  PROVE  /\ probe[p] \in Probe
         /\ probe[p].pc \in {"idle", "ping", "sleep", "query"}
         /\ probe[p].attempt \in Nat /\ probe[p].elapsed \in Nat
         /\ probe[p].wake \in Nat /\ probe[p].asked \in BOOLEAN
         /\ Limit(p) \in Nat
  BY Times DEF TypeOK, Probe, Limit, Least

LEMMA InitRInv == Init => RInv
  BY Times DEF Init, RInv, TypeOK, Paused, Idle, Probe

\* A step that leaves a goroutine and its limit alone keeps what is said of it.
LEMMA OthersPaused ==
  ASSUME NEW p \in Probes, Paused(p), probe'[p] = probe[p]
  PROVE  Paused(p)'
  BY DEF Paused, Limit

\* The limit of a goroutine whose kubelet still waits, or does not.
LEMMA LimitOf ==
  ASSUME TypeOK, NEW p \in Probes
  PROVE  /\ probe[p].asked => Limit(p) = Deadline
         /\ ~probe[p].asked => Limit(p) <= ClientTimeout /\ Limit(p) <= Deadline
  BY Times DEF Limit, Least

LEMMA StepPaused ==
  ASSUME RInv, Next
  PROVE  TypeOK' /\ \A p \in Probes : Paused(p)'
<1> USE Times
<1>1. ASSUME NEW p \in Probes, Ask(p) PROVE RInv'
  <2>1. TypeOK'
    BY <1>1 DEF Ask, RInv, TypeOK, Probe
  <2>2. Paused(p)'
    <3>1. /\ probe'[p].pc = "ping" /\ probe'[p].attempt = 1 /\ probe'[p].elapsed = 0
          /\ probe'[p].asked = TRUE
      BY <1>1 DEF Ask, RInv, TypeOK
    <3>2. Limit(p)' = Deadline
      BY <3>1 DEF Limit
    <3>3. QED
      BY <3>1, <3>2, AreaFacts DEF Paused
  <2>3. \A q \in Probes \ {p} : Paused(q)'
    BY <1>1, OthersPaused DEF Ask, RInv, TypeOK
  <2>4. QED
    BY <2>1, <2>2, <2>3 DEF RInv
<1>2. ASSUME NEW p \in Probes, GiveUp(p) PROVE RInv'
  <2>1. TypeOK'
    BY <1>2 DEF GiveUp, RInv, TypeOK, Probe
  <2>2. Paused(p)'
    <3>1. /\ probe'[p] = [probe[p] EXCEPT !.asked = FALSE]
          /\ probe[p].asked /\ probe[p].elapsed = ClientTimeout
      BY <1>2 DEF GiveUp, RInv, TypeOK
    <3>2. /\ probe'[p].pc = probe[p].pc /\ probe'[p].attempt = probe[p].attempt
          /\ probe'[p].elapsed = ClientTimeout /\ probe'[p].wake = probe[p].wake
          /\ probe'[p].asked = FALSE
      BY <3>1, ProbeTypes DEF RInv, Probe
    <3>3. Limit(p) = Deadline
      BY <3>1 DEF Limit
    <3>4. Limit(p)' = Least(ClientTimeout, Deadline)
      BY <3>2 DEF Limit
    <3>5. probe[p].pc # "idle"
      BY <3>1 DEF RInv, Paused, Idle
    <3>6. CASE ClientTimeout < Deadline
      <4>1. Limit(p)' = ClientTimeout
        BY <3>4, <3>6 DEF Least
      <4>2. QED
        BY <3>1, <3>2, <3>5, <4>1, ProbeTypes DEF RInv, Paused
    <3>7. CASE ~(ClientTimeout < Deadline)
      <4>1. Limit(p)' = Deadline
        BY <3>4, <3>7 DEF Least
      <4>2. QED
        BY <3>1, <3>2, <3>3, <3>5, <4>1 DEF RInv, Paused
    <3>8. QED
      BY <3>6, <3>7
  <2>3. \A q \in Probes \ {p} : Paused(q)'
    BY <1>2, OthersPaused DEF GiveUp, RInv, TypeOK
  <2>4. QED
    BY <2>1, <2>2, <2>3 DEF RInv
<1>3. ASSUME NEW p \in Probes, Answer(p) PROVE RInv'
  <2>1. TypeOK'
    BY <1>3 DEF Answer, RInv, TypeOK, Probe, Idle
  <2>2. Paused(p)'
    BY <1>3 DEF Answer, RInv, TypeOK, Paused, Idle
  <2>3. \A q \in Probes \ {p} : Paused(q)'
    BY <1>3, OthersPaused DEF Answer, RInv, TypeOK
  <2>4. QED
    BY <2>1, <2>2, <2>3 DEF RInv
<1>4. ASSUME NEW p \in Probes, PingSucceeds(p) PROVE RInv'
  <2>1. TypeOK'
    BY <1>4 DEF PingSucceeds, RInv, TypeOK, Probe
  <2>2. Paused(p)'
    <3>1. /\ probe[p].pc = "ping" /\ probe'[p].pc = "query"
          /\ probe'[p].elapsed = probe[p].elapsed /\ probe'[p].attempt = probe[p].attempt
          /\ probe'[p].asked = probe[p].asked
      BY <1>4 DEF PingSucceeds, RInv, TypeOK, Probe
    <3>2. Limit(p)' = Limit(p)
      BY <3>1 DEF Limit
    <3>3. QED
      BY <3>1, <3>2 DEF RInv, Paused
  <2>3. \A q \in Probes \ {p} : Paused(q)'
    BY <1>4, OthersPaused DEF PingSucceeds, RInv, TypeOK
  <2>4. QED
    BY <2>1, <2>2, <2>3 DEF RInv
<1>5. ASSUME NEW p \in Probes, PingFails(p) PROVE RInv'
  <2>0. probe[p].attempt \in Nat /\ probe[p].elapsed \in Nat
    BY ProbeTypes DEF RInv
  <2>1. TypeOK'
    <3> DEFINE until == probe[p].elapsed + probe[p].attempt
               h == [probe[p] EXCEPT !.pc = "sleep", !.wake = until]
    <3>1. h \in Probe
      <4>1. until \in Nat
        BY <2>0
      <4>2. probe[p] \in Probe
        BY ProbeTypes DEF RInv
      <4> HIDE DEF until
      <4>3. QED
        BY <4>1, <4>2 DEF Probe
    <3>2. probe' = [probe EXCEPT ![p] = h] /\ UNCHANGED <<db, upFor, next>>
      BY <1>5 DEF PingFails, Backoff
    <3>3. QED
      BY <3>1, <3>2 DEF RInv, TypeOK
  <2>2. Paused(p)'
    <3>1. /\ probe[p].pc = "ping" /\ probe'[p].pc = "sleep"
          /\ probe'[p].wake = probe[p].elapsed + probe[p].attempt
          /\ probe'[p].elapsed = probe[p].elapsed /\ probe'[p].attempt = probe[p].attempt
          /\ probe'[p].asked = probe[p].asked
      BY <1>5 DEF PingFails, Backoff, RInv, TypeOK, Probe
    <3>2. Limit(p)' = Limit(p)
      BY <3>1 DEF Limit
    <3>3. Limit(p) \in Nat
      BY ProbeTypes DEF RInv
    <3>4. Area(probe[p].attempt + 1) = Area(probe[p].attempt) + 2 * probe[p].attempt
          /\ Area(probe[p].attempt) \in Int
      BY <2>0, AreaFacts
    <3>5. QED
      BY <2>0, <3>1, <3>2, <3>3, <3>4 DEF RInv, Paused
  <2>3. \A q \in Probes \ {p} : Paused(q)'
    BY <1>5, OthersPaused DEF PingFails, RInv, TypeOK
  <2>4. QED
    BY <2>1, <2>2, <2>3 DEF RInv
<1>6. ASSUME NEW p \in Probes, Retry(p) PROVE RInv'
  <2>0. probe[p].attempt \in Nat /\ probe[p].elapsed \in Nat /\ Limit(p) \in Nat
    BY ProbeTypes DEF RInv
  <2>1. TypeOK'
    BY <1>6, <2>0 DEF Retry, Woken, RInv, TypeOK, Probe
  <2>2. Paused(p)'
    <3>1. /\ probe[p].pc = "sleep" /\ probe[p].elapsed = probe[p].wake
          /\ probe[p].elapsed < Limit(p)
          /\ probe'[p].pc = "ping" /\ probe'[p].attempt = probe[p].attempt + 1
          /\ probe'[p].elapsed = probe[p].elapsed /\ probe'[p].asked = probe[p].asked
      BY <1>6, <2>0 DEF Retry, Woken, CtxDone, RInv, TypeOK, Probe
    <3>2. Limit(p)' = Limit(p)
      BY <3>1 DEF Limit
    <3>3. Area(probe[p].attempt + 1) \in Int
      BY <2>0, AreaFacts
    <3>4. QED
      BY <2>0, <3>1, <3>2, <3>3 DEF RInv, Paused
  <2>3. \A q \in Probes \ {p} : Paused(q)'
    BY <1>6, OthersPaused DEF Retry, RInv, TypeOK
  <2>4. QED
    BY <2>1, <2>2, <2>3 DEF RInv
<1>7. CASE DBChanges
  <2>1. TypeOK'
    BY <1>7 DEF DBChanges, RInv, TypeOK
  <2>2. \A q \in Probes : Paused(q)'
    BY <1>7, OthersPaused DEF DBChanges, RInv
  <2>3. QED
    BY <2>1, <2>2 DEF RInv
<1>8. CASE Tick
  <2>1. TypeOK'
    BY <1>8, ProbeTypes DEF Tick, RInv, TypeOK, Probe, Least
  <2>2. ASSUME NEW p \in Probes PROVE Paused(p)'
    <3>1. CASE probe[p].pc = "idle"
      BY <1>8, <3>1, OthersPaused DEF Tick, RInv
    <3>2. CASE probe[p].pc # "idle"
      <4>1. /\ probe'[p].elapsed = probe[p].elapsed + 1
            /\ probe'[p].pc = probe[p].pc /\ probe'[p].attempt = probe[p].attempt
            /\ probe'[p].wake = probe[p].wake /\ probe'[p].asked = probe[p].asked
        BY <1>8, <3>2, ProbeTypes DEF Tick, RInv, Probe
      <4>2. Limit(p)' = Limit(p)
        BY <4>1 DEF Limit
      <4>3. /\ probe[p].pc = "sleep" => probe[p].elapsed < probe[p].wake
            /\ probe[p].pc \in {"ping", "query"} => probe[p].elapsed < Limit(p)
            /\ probe[p].asked => probe[p].elapsed < ClientTimeout
        BY <1>8, <3>2, ProbeTypes DEF Tick, Waits, CtxDone, RInv
      <4>4. /\ probe[p].attempt \in Nat /\ probe[p].elapsed \in Nat
            /\ probe[p].wake \in Nat /\ Limit(p) \in Nat
            /\ Area(probe[p].attempt) \in Int /\ Area(probe[p].attempt + 1) \in Int
        BY ProbeTypes, AreaFacts DEF RInv
      <4>5. Paused(p)
        BY DEF RInv
      <4>6. QED
        BY <3>2, <4>1, <4>2, <4>3, <4>4, <4>5 DEF Paused
    <3>3. QED
      BY <3>1, <3>2
  <2>3. QED
    BY <2>1, <2>2 DEF RInv
<1>9. QED
  BY <1>1, <1>2, <1>3, <1>4, <1>5, <1>6, <1>7, <1>8 DEF Next, Handler, Expire, Query, RInv

LEMMA StepRInv == RInv /\ [Next]_vars => RInv'
<1>1. CASE Next
  BY <1>1, StepPaused DEF RInv
<1>2. ASSUME RInv, UNCHANGED vars PROVE RInv'
  BY <1>2, OthersPaused DEF vars, RInv, TypeOK
<1>3. QED
  BY <1>1, <1>2

------------------------------------------------------------------------------
\* The inductive invariant of a probe's pauses.
THEOREM ReadinessInvariance == Spec => []RInv
  BY InitRInv, StepRInv, PTL DEF Spec

\* Attempts and times of every goroutine stay natural numbers, and the clock in range.
THEOREM ReadinessTypes == Spec => []TypeOK
<1>1. RInv => TypeOK
  BY DEF RInv
<1>2. QED
  BY <1>1, ReadinessInvariance, PTL

\* However the database behaves, the handler overruns its context by at most
\* the pause it is in, and the number of that pause is bounded by the root of
\* the time that has passed.
THEOREM OverrunIsOnePause == Spec => []OverrunBounded
<1>1. RInv => OverrunBounded
  <2> SUFFICES ASSUME RInv, NEW p \in Probes, probe[p].pc # "idle"
               PROVE  /\ probe[p].elapsed <= Limit(p) + probe[p].attempt
                      /\ probe[p].attempt * (probe[p].attempt - 1) <= 2 * probe[p].elapsed
    BY DEF OverrunBounded
  <2>1. Area(probe[p].attempt) <= 2 * probe[p].elapsed
    BY DEF RInv, Paused
  <2>2. probe[p].elapsed <= Limit(p) + probe[p].attempt
    BY ProbeTypes DEF RInv, Paused
  <2>3. QED
    BY <2>1, <2>2 DEF Area
<1>2. QED
  BY <1>1, ReadinessInvariance, PTL

------------------------------------------------------------------------------
\* The kubelet hangs up early enough: with the pauses that fit into its timeout,
\* the last of them is over before it asks again.
PauseFits ==
  \A a \in Nat : Area(a) <= 2 * ClientTimeout => ClientTimeout + a < Period

\* A handler that is running was entered when the kubelet last asked.
OnClock ==
  \A p \in Probes : probe[p].pc # "idle" => probe[p].elapsed + next = Period

\* A handler has answered before the next question.
LEMMA OutBeforeNext ==
  ASSUME RInv, PauseFits, NEW p \in Probes, probe[p].pc # "idle"
  PROVE  probe[p].elapsed < Period
<1> USE Times
<1>1. /\ probe[p].attempt \in Nat /\ probe[p].elapsed \in Nat /\ Limit(p) \in Nat
      /\ probe[p].wake \in Nat
      /\ probe[p].pc \in {"ping", "sleep", "query"} /\ probe[p].asked \in BOOLEAN
  BY ProbeTypes DEF RInv
<1>2. CASE probe[p].asked
  <2>1. Area(0) = 0
    BY DEF Area
  <2>2. ClientTimeout + 0 < Period
    BY <2>1 DEF PauseFits
  <2>3. QED
    BY <1>1, <1>2, <2>2 DEF RInv, Paused
<1>3. CASE ~probe[p].asked
  <2>1. Limit(p) <= ClientTimeout
    BY <1>3, LimitOf DEF RInv
  <2>2. /\ Area(probe[p].attempt) <= 2 * Limit(p)
        /\ probe[p].elapsed <= Limit(p) + probe[p].attempt
    BY <1>1 DEF RInv, Paused
  <2>3. Area(probe[p].attempt) <= 2 * ClientTimeout
    BY <1>1, <2>1, <2>2, AreaFacts
  <2>4. ClientTimeout + probe[p].attempt < Period
    BY <1>1, <2>3 DEF PauseFits
  <2>5. QED
    BY <1>1, <2>1, <2>2, <2>4
<1>4. QED
  BY <1>1, <1>2, <1>3

LEMMA StepAlone ==
  ASSUME RInv, OnClock, NoPileUp, PauseFits, [Next]_vars
  PROVE  OnClock' /\ NoPileUp'
<1> USE Times
<1>0. next \in Nat /\ probe \in [Probes -> Probe]
  BY DEF RInv, TypeOK
<1>1. ASSUME NEW p \in Probes, Ask(p) PROVE OnClock' /\ NoPileUp'
  <2>1. \A q \in Probes : probe[q].pc = "idle"
    <3> SUFFICES ASSUME NEW q \in Probes, probe[q].pc # "idle" PROVE FALSE
      OBVIOUS
    <3>1. probe[q].elapsed + next = Period /\ next = 0
      BY <1>1 DEF OnClock, Ask
    <3>2. probe[q].elapsed < Period /\ probe[q].elapsed \in Nat
      BY OutBeforeNext, ProbeTypes DEF RInv
    <3>3. QED
      BY <3>1, <3>2
  <2>2. /\ probe'[p].elapsed = 0 /\ next' = Period
        /\ \A q \in Probes \ {p} : probe'[q].pc = "idle"
    BY <1>0, <1>1, <2>1 DEF Ask
  <2>3. QED
    BY <2>2 DEF OnClock, NoPileUp
<1>2. ASSUME NEW p \in Probes, GiveUp(p) \/ Handler(p) PROVE OnClock' /\ NoPileUp'
  <2>1. /\ next' = next
        /\ \A q \in Probes :
             probe'[q].pc # "idle" => probe[q].pc # "idle" /\ probe'[q].elapsed = probe[q].elapsed
    BY <1>0, <1>2 DEF GiveUp, Handler, PingSucceeds, PingFails, Retry, Expire, Query,
       Answer, Woken, Idle, Probe
  <2>2. QED
    BY <2>1 DEF OnClock, NoPileUp
<1>3. CASE Tick
  <2>1. \A q \in Probes :
          /\ probe'[q].pc = probe[q].pc
          /\ probe[q].pc # "idle" => probe'[q].elapsed = probe[q].elapsed + 1
    BY <1>0, <1>3 DEF Tick, Probe
  <2>2. next' = next - 1 /\ next > 0
    BY <1>3 DEF Tick
  <2>3. \A q \in Probes : probe[q].elapsed \in Nat
    BY ProbeTypes DEF RInv
  <2>4. OnClock'
    BY <1>0, <2>1, <2>2, <2>3 DEF OnClock
  <2>5. NoPileUp'
    BY <2>1 DEF NoPileUp
  <2>6. QED
    BY <2>4, <2>5
<1>4. CASE DBChanges \/ UNCHANGED vars
  BY <1>4 DEF DBChanges, vars, OnClock, NoPileUp
<1>5. QED
  BY <1>1, <1>2, <1>3, <1>4 DEF Next

\* The probes of an outage do not pile up, whatever the deadline of the handler,
\* if the kubelet's timeout leaves room for the last pause (PauseFits; 5 s and
\* 10 s do).
THEOREM ProbesDoNotPileUp == PauseFits => (Spec => []NoPileUp)
<1> DEFINE I == RInv /\ OnClock /\ NoPileUp
<1> SUFFICES ASSUME PauseFits PROVE Spec => []NoPileUp
  OBVIOUS
<1>1. Init => OnClock /\ NoPileUp
  BY DEF Init, OnClock, NoPileUp, Idle
<1>2. I /\ [Next]_vars => I'
  BY StepAlone, StepRInv
<1>3. QED
  BY <1>1, <1>2, InitRInv, PTL DEF Spec

------------------------------------------------------------------------------
\* How long a goroutine whose kubelet waits has had a database that is up.
Unnoticed(p) == Least(upFor, probe[p].elapsed)

\* That is no longer than the pause it is in has lasted.
Noticing(p) ==
  db = "up" /\ probe[p].asked =>
    /\ Unnoticed(p) <= probe[p].attempt
    /\ probe[p].pc = "sleep" =>
         Unnoticed(p) + probe[p].wake <= probe[p].elapsed + probe[p].attempt

LEMMA StepNoticing ==
  ASSUME RInv, ClientTimeout < Deadline, [Next]_vars,
         NEW p \in Probes, Noticing(p)
  PROVE  Noticing(p)'
<1> USE Times
<1>0. /\ probe[p].attempt \in Nat /\ probe[p].elapsed \in Nat
      /\ probe[p].wake \in Nat /\ upFor \in Nat /\ probe \in [Probes -> Probe]
      /\ probe[p] \in Probe
      /\ probe[p].pc \in {"idle", "ping", "sleep", "query"} /\ probe[p].asked \in BOOLEAN
  BY ProbeTypes DEF RInv, TypeOK
<1> SUFFICES ASSUME db' = "up", probe'[p].asked
             PROVE  /\ Unnoticed(p)' <= probe'[p].attempt
                    /\ probe'[p].pc = "sleep" =>
                         Unnoticed(p)' + probe'[p].wake <= probe'[p].elapsed + probe'[p].attempt
  BY DEF Noticing
<1>1. CASE probe'[p] = probe[p] /\ db' = db /\ upFor' = upFor
  BY <1>1 DEF Noticing, Unnoticed
<1>2. CASE Ask(p)
  <2>1. probe'[p].elapsed = 0 /\ probe'[p].attempt = 1 /\ probe'[p].pc = "ping" /\ upFor' = upFor
    BY <1>0, <1>2 DEF Ask
  <2>2. QED
    BY <1>0, <2>1 DEF Unnoticed, Least
<1>3. CASE GiveUp(p) \/ Answer(p)
  BY <1>0, <1>3 DEF GiveUp, Answer, Idle, Probe
<1>4. CASE PingSucceeds(p)
  <2>1. /\ probe'[p].elapsed = probe[p].elapsed /\ probe'[p].attempt = probe[p].attempt
        /\ probe'[p].asked = probe[p].asked /\ probe'[p].pc = "query"
        /\ upFor' = upFor /\ db' = db
    BY <1>0, <1>4 DEF PingSucceeds, Probe
  <2>2. QED
    BY <2>1 DEF Noticing, Unnoticed
<1>5. CASE PingFails(p)
  <2>1. probe[p].asked /\ db = "up"
    BY <1>0, <1>5 DEF PingFails, Probe
  <2>2. probe[p].elapsed <= ClientTimeout /\ Limit(p) = Deadline
    BY <2>1, LimitOf DEF RInv, Paused
  <2>3. QED
    BY <1>0, <1>5, <2>1, <2>2 DEF PingFails, CtxDone
<1>6. CASE Retry(p)
  <2>1. /\ probe'[p].elapsed = probe[p].elapsed /\ probe'[p].attempt = probe[p].attempt + 1
        /\ probe'[p].asked = probe[p].asked /\ probe'[p].pc = "ping"
        /\ upFor' = upFor /\ db' = db
    BY <1>0, <1>6 DEF Retry, Probe
  <2>2. Unnoticed(p) <= probe[p].attempt /\ Unnoticed(p) \in Nat
    BY <1>0, <2>1 DEF Noticing, Unnoticed, Least
  <2>3. QED
    BY <1>0, <2>1, <2>2 DEF Unnoticed
<1>7. CASE DBChanges
  <2>1. probe' = probe /\ upFor' = 0
    BY <1>7 DEF DBChanges
  <2>2. Unnoticed(p)' = 0
    BY <1>0, <2>1 DEF Unnoticed, Least
  <2>3. probe[p].pc = "sleep" => probe[p].wake <= probe[p].elapsed + probe[p].attempt
    BY DEF RInv, Paused
  <2>4. QED
    BY <1>0, <2>1, <2>2, <2>3
<1>8. CASE Tick
  <2>1. CASE probe[p].pc = "idle"
    BY <1>0, <1>8, <2>1 DEF Tick, RInv, Paused, Idle
  <2>2. CASE probe[p].pc # "idle"
    <3>1. db = "up"
      BY <1>8 DEF Tick
    <3>2. probe[p].pc = "sleep" /\ probe[p].elapsed < probe[p].wake
      BY <1>0, <1>8, <2>2, <3>1 DEF Tick, Waits
    <3>3. /\ probe'[p].elapsed = probe[p].elapsed + 1
          /\ probe'[p].pc = probe[p].pc /\ probe'[p].attempt = probe[p].attempt
          /\ probe'[p].wake = probe[p].wake /\ probe'[p].asked = probe[p].asked
          /\ upFor' = Least(upFor + 1, MaxUp)
      BY <1>0, <1>8, <2>2, <3>1 DEF Tick, Probe
    <3>4. Unnoticed(p)' <= Unnoticed(p) + 1 /\ Unnoticed(p)' \in Nat /\ Unnoticed(p) \in Nat
      BY <1>0, <3>3 DEF Unnoticed, Least
    <3>5. Unnoticed(p) + probe[p].wake <= probe[p].elapsed + probe[p].attempt
      BY <3>1, <3>2, <3>3 DEF Noticing
    <3>6. QED
      BY <1>0, <3>2, <3>3, <3>4, <3>5
  <2>3. QED
    BY <2>1, <2>2
<1>9. ASSUME NEW q \in Probes, q # p, Ask(q) \/ GiveUp(q) \/ Handler(q)
      PROVE  probe'[p] = probe[p] /\ db' = db /\ upFor' = upFor
  BY <1>0, <1>9 DEF Ask, GiveUp, Handler, PingSucceeds, PingFails, Retry, Expire, Query, Answer
<1>10. CASE UNCHANGED vars
  BY <1>1, <1>10 DEF vars
<1>11. QED
  BY <1>1, <1>2, <1>3, <1>4, <1>5, <1>6, <1>7, <1>8, <1>9, <1>10
     DEF Next, Handler, Expire, Query

\* A database that is back is noticed by the end of the pause that is running, as
\* long as the kubelet waits, which needs it to hang up before the deadline.
THEOREM RecoveryIsNoticed == ClientTimeout < Deadline => (Spec => []RecoveryNoticed)
<1> DEFINE J == RInv /\ \A p \in Probes : Noticing(p)
<1> SUFFICES ASSUME ClientTimeout < Deadline PROVE Spec => []RecoveryNoticed
  OBVIOUS
<1>1. Init => \A p \in Probes : Noticing(p)
  BY DEF Init, Noticing, Idle
<1>2. J /\ [Next]_vars => J'
  BY StepNoticing, StepRInv
<1>3. J => RecoveryNoticed
  BY DEF RecoveryNoticed, Noticing, Unnoticed
<1>4. QED
  BY <1>1, <1>2, <1>3, InitRInv, PTL DEF Spec
==============================================================================
