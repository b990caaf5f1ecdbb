--------------------------- MODULE LifecycleProofs ---------------------------
(***************************************************************************)
(* Proofs of the safety of the process's life, for any number of requests  *)
(* and any size of the queue.                                              *)
(*                                                                         *)
(* ZeroMeansDrained and PoolOutlivesHandlers need to know that no          *)
(* connection is cut before run has an error (NobodyCutYet) and that the   *)
(* drained check stays true behind it, because the listener is closed by   *)
(* then (Quiet), also when run returns before it has listened at all       *)
(* (NothingBeforeServing).                                                 *)
(*                                                                         *)
(* SpansFlushed needs the order of the way out: which calls are deferred   *)
(* where run is (Pending), that the processor is stopped by run's way out  *)
(* only (StoppedByCleanup), and that a request answered before that has    *)
(* its span in the queue or behind it (Settled).                           *)
(***************************************************************************)
EXTENDS Lifecycle, SequenceTheorems, TLAPS

Starting == pc \in {"conf", "openDB", "setupOTel", "loadKeys", "setActiveKey"}

WayOut == pc \in {"returning", "cleanup", "exited"}

\* Before it serves the process has no listener and no connection.
NothingBeforeServing ==
  Starting => listener = "none" /\ \A r \in Requests : request[r] = "none"

\* Behind Shutdown nothing new arrives, and behind its success nothing is left.
Quiet ==
  /\ pc = "shutdown" => listener # "open"
  /\ result = "nil" =>
       /\ listener # "open"
       /\ \A r \in Requests : request[r] \in {"none", "answered", "closed"}

\* Connections are cut only on the way to a failure.
NobodyCutYet ==
  result # "err" => \A r \in Requests : request[r] \notin {"cut", "gone"}

\* run has a result exactly on its way out, and the process a code behind it.
Outcomes ==
  /\ WayOut <=> result # "none"
  /\ exitCode = "zero" => result = "nil"

\* The calls that are deferred, and what they are about, where run is.
Pending ==
  /\ pc \in {"conf", "openDB"} => defers = <<>> /\ processor = "none"
  /\ pc = "setupOTel" => defers = <<"openDB">> /\ processor = "none"
  /\ pc \in {"loadKeys", "setActiveKey", "serving", "shutdown"} =>
       defers = <<"setupOTel", "openDB">> /\ processor \in {"noop", "running"}
  /\ pc = "cleanup" =>
       defers = <<"setupOTel", "openDB">> /\ processor \in {"draining", "done"}
  /\ pc = "returning" /\ defers = <<"setupOTel", "openDB">> =>
       processor \in {"noop", "running"}
  /\ pc = "exited" => defers = <<>>
  /\ defers # <<>> => db = "open"

\* The pool and the processor are given up by the deferred calls only.
StoppedByCleanup ==
  /\ db = "closed" => result # "none"
  /\ processor \in {"draining", "done"} => result # "none"
  /\ Cleaned /\ ~signalled => processor \in {"none", "noop", "done"}

\* Spans of the requests answered before run returned, and of nobody earlier.
Settled ==
  /\ result = "none" => handed = {}
  /\ \A r \in Requests :
       /\ request[r] = "none" => span[r] = "none"
       /\ span[r] = "refused" => result # "none" /\ r \notin handed
       /\ span[r] = "ending" => Handling(r)
       /\ processor \in {"none", "noop"} => span[r] = "none"
  /\ \A r \in handed :
       /\ request[r] = "answered"
       /\ processor = "done" => span[r] \notin {"queued", "batch"}

LInv ==
  /\ TypeOK /\ NothingBeforeServing /\ Quiet /\ NobodyCutYet /\ Outcomes
  /\ Pending /\ StoppedByCleanup /\ Settled

------------------------------------------------------------------------------
\* Startup runs through the positions of Starting.
LEMMA StartupPositions ==
  /\ DOMAIN Startup = 1 .. 5 /\ Len(Startup) = 5
  /\ Startup[1] = "conf" /\ Startup[2] = "openDB" /\ Startup[3] = "setupOTel"
  /\ Startup[4] = "loadKeys" /\ Startup[5] = "setActiveKey"
  BY DEF Startup

\* The stack of deferred calls.
LEMMA Stack ==
  /\ Head(<<"setupOTel", "openDB">>) = "setupOTel"
  /\ Tail(<<"setupOTel", "openDB">>) = <<"openDB">>
  /\ Head(<<"openDB">>) = "openDB"
  /\ Tail(<<"openDB">>) = <<>>
  /\ <<"setupOTel", "openDB">> # <<"openDB">>
  /\ <<"setupOTel", "openDB">> # <<>> /\ <<"openDB">> # <<>>
  /\ <<"openDB">> \o <<>> = <<"openDB">>
  /\ <<"setupOTel">> \o <<"openDB">> = <<"setupOTel", "openDB">>
  /\ <<>> \o <<>> = <<>> /\ <<>> \o <<"openDB">> = <<"openDB">>
  /\ <<>> \o <<"setupOTel", "openDB">> = <<"setupOTel", "openDB">>
<1>1. /\ Head(<<"setupOTel", "openDB">>) = "setupOTel"
      /\ Head(<<"openDB">>) = "openDB"
  OBVIOUS
<1>2. Tail(<<"setupOTel", "openDB">>) = <<"openDB">>
  OBVIOUS
<1>3. Tail(<<"openDB">>) = <<>>
  OBVIOUS
<1>4. <<"setupOTel", "openDB">> # <<"openDB">>
  OBVIOUS
<1>5. <<"setupOTel", "openDB">> # <<>> /\ <<"openDB">> # <<>>
  OBVIOUS
<1>6. <<"openDB">> \o <<>> = <<"openDB">>
  OBVIOUS
<1>7. <<"setupOTel">> \o <<"openDB">> = <<"setupOTel", "openDB">>
  <2> DEFINE s == <<"setupOTel">>
             t == <<"openDB">>
             st == <<"setupOTel", "openDB">>
  <2>1. /\ s \in Seq({"setupOTel", "openDB"}) /\ t \in Seq({"setupOTel", "openDB"})
        /\ st \in Seq({"setupOTel", "openDB"})
    OBVIOUS
  <2>2. Len(s) = 1 /\ Len(t) = 1 /\ Len(st) = 2
    OBVIOUS
  <2>3. s[1] = "setupOTel" /\ t[1] = "openDB" /\ st[1] = "setupOTel" /\ st[2] = "openDB"
    OBVIOUS
  <2> HIDE DEF s, t, st
  <2>4. /\ s \o t \in Seq({"setupOTel", "openDB"}) /\ Len(s \o t) = Len(s) + Len(t)
        /\ \A i \in 1 .. Len(s) + Len(t) :
             (s \o t)[i] = IF i <= Len(s) THEN s[i] ELSE t[i - Len(s)]
    BY <2>1, ConcatProperties
  <2>5. Len(s \o t) = Len(st) /\ \A i \in 1 .. Len(st) : (s \o t)[i] = st[i]
    BY <2>2, <2>3, <2>4
  <2>6. s \o t = st
    BY <2>1, <2>4, <2>5, SeqEqual
  <2>7. QED
    BY <2>6 DEF s, t, st
<1>8. <<>> \o <<>> = <<>> /\ <<>> \o <<"openDB">> = <<"openDB">>
  OBVIOUS
<1>9. <<>> \o <<"setupOTel", "openDB">> = <<"setupOTel", "openDB">>
  OBVIOUS
<1>10. QED
  BY <1>1, <1>2, <1>3, <1>4, <1>5, <1>6, <1>7, <1>8, <1>9

\* Where cleanup has returned.
CleanupPending ==
  ~(pc \in {"returning", "exited"} /\ defers # <<"setupOTel", "openDB">>)

LEMMA CleanedStack == TypeOK => (Cleaned <=> ~CleanupPending)
<1> SUFFICES ASSUME TypeOK PROVE Cleaned <=> ~CleanupPending
  OBVIOUS
<1> USE DEF CleanupPending
<1>1. \A i \in DOMAIN <<>> : <<>>[i] # "setupOTel"
  OBVIOUS
<1>2. \A i \in DOMAIN <<"openDB">> : <<"openDB">>[i] # "setupOTel"
  OBVIOUS
<1>3. 1 \in DOMAIN <<"setupOTel", "openDB">> /\ <<"setupOTel", "openDB">>[1] = "setupOTel"
  OBVIOUS
<1>4. defers \in {<<>>, <<"openDB">>, <<"setupOTel", "openDB">>}
  BY DEF TypeOK
<1>5. CASE defers = <<>>
  BY <1>1, <1>5, Stack DEF Cleaned
<1>6. CASE defers = <<"openDB">>
  BY <1>2, <1>6, Stack DEF Cleaned
<1>7. CASE defers = <<"setupOTel", "openDB">>
  BY <1>3, <1>7 DEF Cleaned
<1>8. QED
  BY <1>4, <1>5, <1>6, <1>7

LEMMA InitLInv == Init => LInv
<1> SUFFICES ASSUME Init PROVE LInv
  OBVIOUS
<1>1. TypeOK
  BY DEF Init, TypeOK
<1>2. ~Cleaned
  BY DEF Init, Cleaned
<1>3. QED
  BY <1>1, <1>2, Stack DEF Init, LInv, NothingBeforeServing, Quiet, NobodyCutYet, Outcomes,
     Pending, StoppedByCleanup, Settled, Starting, WayOut, Handling

\* A startup step leads to the next position, and behind the last one to serving.
LEMMA StartupStepShape ==
  ASSUME LInv, StartupStep
  PROVE  /\ Starting
         /\ \/ /\ pc = "conf" /\ pc' = "openDB"
               /\ UNCHANGED <<db, processor, defers, listener>>
            \/ /\ pc = "openDB" /\ pc' = "setupOTel" /\ db' = "open"
               /\ defers' = <<"openDB">> /\ UNCHANGED <<processor, listener>>
            \/ /\ pc = "setupOTel" /\ pc' = "loadKeys"
               /\ processor' \in {"noop", "running"}
               /\ defers' = <<"setupOTel", "openDB">> /\ UNCHANGED <<db, listener>>
            \/ /\ pc = "loadKeys" /\ pc' = "setActiveKey"
               /\ UNCHANGED <<db, processor, defers, listener>>
            \/ /\ pc = "setActiveKey" /\ pc' = "serving" /\ listener' = "binding"
               /\ UNCHANGED <<db, processor, defers>>
         /\ UNCHANGED <<signalled, elapsed, result, exitCode, serverErrs, request, span, handed>>
<1>1. PICK i \in DOMAIN Startup :
        /\ pc = Startup[i]
        /\ pc' = IF i = Len(Startup) THEN "serving" ELSE Startup[i + 1]
        /\ db' = IF pc = "openDB" THEN "open" ELSE db
        /\ processor' \in IF pc = "setupOTel" THEN SetupOTelSDK ELSE {processor}
        /\ defers' = Deferred(pc) \o defers
        /\ listener' = IF i = Len(Startup) THEN "binding" ELSE listener
        /\ UNCHANGED <<context, result, exitCode, serverErrs, request, span, handed>>
  BY DEF StartupStep
<1>2. i \in 1 .. 5
  BY StartupPositions
<1>3. i = 1 \/ i = 2 \/ i = 3 \/ i = 4 \/ i = 5
  BY <1>2
<1>4. 1 + 1 = 2 /\ 2 + 1 = 3 /\ 3 + 1 = 4 /\ 4 + 1 = 5 /\ 1 # 5 /\ 2 # 5 /\ 3 # 5 /\ 4 # 5
  OBVIOUS
<1>5. UNCHANGED <<signalled, elapsed, result, exitCode, serverErrs, request, span, handed>>
  BY <1>1 DEF context
<1>6. CASE i = 1
  <2>1. pc = "conf" /\ pc' = "openDB" /\ defers = <<>>
    BY <1>1, <1>4, <1>6, StartupPositions DEF LInv, Pending
  <2>2. defers' = defers
    BY <1>1, <2>1, Stack DEF Deferred
  <2>3. QED
    BY <1>1, <1>4, <1>5, <1>6, <2>1, <2>2, StartupPositions DEF Starting
<1>7. CASE i = 2
  <2>1. pc = "openDB" /\ pc' = "setupOTel" /\ defers = <<>>
    BY <1>1, <1>4, <1>7, StartupPositions DEF LInv, Pending
  <2>2. defers' = <<"openDB">>
    BY <1>1, <2>1, Stack DEF Deferred
  <2>3. QED
    BY <1>1, <1>4, <1>5, <1>7, <2>1, <2>2, StartupPositions DEF Starting
<1>8. CASE i = 3
  <2>1. pc = "setupOTel" /\ pc' = "loadKeys" /\ defers = <<"openDB">>
    BY <1>1, <1>4, <1>8, StartupPositions DEF LInv, Pending
  <2>2. defers' = <<"setupOTel", "openDB">>
    BY <1>1, <2>1, Stack DEF Deferred
  <2>3. QED
    BY <1>1, <1>4, <1>5, <1>8, <2>1, <2>2, StartupPositions DEF Starting, SetupOTelSDK
<1>9. CASE i = 4
  <2>1. pc = "loadKeys" /\ pc' = "setActiveKey" /\ defers = <<"setupOTel", "openDB">>
    BY <1>1, <1>4, <1>9, StartupPositions DEF LInv, Pending
  <2>2. defers' = defers
    BY <1>1, <2>1, Stack DEF Deferred
  <2>3. QED
    BY <1>1, <1>4, <1>5, <1>9, <2>1, <2>2, StartupPositions DEF Starting
<1>10. CASE i = 5
  <2>1. pc = "setActiveKey" /\ pc' = "serving" /\ defers = <<"setupOTel", "openDB">>
    BY <1>1, <1>4, <1>10, StartupPositions DEF LInv, Pending
  <2>2. defers' = defers
    BY <1>1, <2>1, Stack DEF Deferred
  <2>3. QED
    BY <1>1, <1>4, <1>5, <1>10, <2>1, <2>2, StartupPositions DEF Starting
<1>11. QED
  BY <1>3, <1>6, <1>7, <1>8, <1>9, <1>10

------------------------------------------------------------------------------
\* run's steps towards its way out.
LEMMA ReturnKeeps ==
  ASSUME LInv, StartupFails \/ HelpWanted \/ ServerError \/ ShutdownDrained \/ ShutdownGivesUp
  PROVE  LInv'
<1> USE DEF Return
<1>1. /\ pc' = "returning" /\ result = "none" /\ result' \in {"nil", "err"}
      /\ handed' = {r \in Requests : request[r] = "answered"}
      /\ UNCHANGED <<signalled, elapsed, listener, db, exitCode, processor, span>>
      /\ serverErrs' \in {"empty", "failed", "closed"}
      /\ pc \in {"conf", "openDB", "setupOTel", "loadKeys", "setActiveKey", "serving", "shutdown"}
  BY StartupPositions DEF LInv, TypeOK, Outcomes, WayOut, StartupFails, HelpWanted,
     ServerError, ReadsServerErrs, ShutdownDrained, ShutdownGivesUp, CloseReturns,
     context, server
<1>2. defers' = defers
  <2>1. CASE StartupFails
    BY <2>1, Stack DEF StartupFails, DeferredOnError, LInv, TypeOK
  <2>2. QED
    BY <2>1 DEF HelpWanted, ServerError, ShutdownDrained, ShutdownGivesUp
<1>3. \A r \in Requests :
        /\ request'[r] \in {"none", "new", "stale", "active", "answered", "cut", "gone", "closed"}
        /\ request'[r] = "none" <=> request[r] = "none"
        /\ request'[r] = "answered" <=> request[r] = "answered"
        /\ Handling(r)' <=> Handling(r)
        /\ result' = "nil" => request'[r] \in {"none", "answered", "closed"}
  <2>1. CASE StartupFails \/ HelpWanted
    BY <2>1, StartupPositions DEF StartupFails, HelpWanted, server, LInv, TypeOK, Handling,
       NothingBeforeServing, Starting
  <2>2. CASE ServerError
    BY <2>2 DEF ServerError, LInv, TypeOK, Handling
  <2>3. CASE ShutdownDrained
    BY <2>3, <1>1 DEF ShutdownDrained, Drained, Closed, LInv, TypeOK, Handling, NobodyCutYet
  <2>4. CASE ShutdownGivesUp
    BY <2>4 DEF ShutdownGivesUp, CloseReturns, Closed, LInv, TypeOK, Handling
  <2>5. QED
    BY <2>1, <2>2, <2>3, <2>4
<1>4. request' \in [Requests -> {"none", "new", "stale", "active", "answered",
                                 "cut", "gone", "closed"}]
  <2>1. request' = [r \in Requests |-> request'[r]]
    BY DEF StartupFails, HelpWanted, ServerError, ShutdownDrained, ShutdownGivesUp, Closed,
       server, LInv, TypeOK
  <2>2. QED
    BY <1>3, <2>1
<1>5. TypeOK'
  BY <1>1, <1>2, <1>4 DEF LInv, TypeOK
<1>6. NothingBeforeServing' /\ NobodyCutYet' /\ Outcomes'
  BY <1>1, <1>3 DEF NothingBeforeServing, NobodyCutYet, Outcomes, Starting, WayOut, LInv
<1>7. Quiet'
  <2>1. result' = "nil" => pc \in {"conf", "shutdown"}
    BY StartupPositions DEF StartupFails, HelpWanted, ServerError, ShutdownDrained,
       ShutdownGivesUp, CloseReturns
  <2>2. result' = "nil" => listener # "open"
    BY <2>1 DEF LInv, Quiet, NothingBeforeServing, Starting
  <2>3. QED
    BY <1>1, <1>3, <2>2 DEF Quiet
<1>8. Pending'
  BY <1>1, <1>2, Stack DEF Pending, LInv
<1>9. StoppedByCleanup'
  <2>1. processor \notin {"draining", "done"} /\ db # "closed"
    BY <1>1 DEF LInv, StoppedByCleanup
  <2>2. Cleaned' <=> ~CleanupPending'
    BY <1>5, CleanedStack, PTL
  <2>3. Cleaned' => processor = "none"
    BY <1>1, <1>2, <2>2 DEF LInv, Pending, CleanupPending
  <2>4. QED
    BY <1>1, <2>1, <2>3 DEF StoppedByCleanup
<1>10. Settled'
  <2>1. \A r \in Requests : span[r] # "refused"
    BY <1>1 DEF LInv, Settled
  <2>2. processor # "done"
    BY <1>1 DEF LInv, StoppedByCleanup
  <2>3. \A r \in handed' : request'[r] = "answered"
    BY <1>1, <1>3
  <2>4. QED
    BY <1>1, <1>3, <2>1, <2>2, <2>3 DEF LInv, Settled
<1>11. QED
  BY <1>5, <1>6, <1>7, <1>8, <1>9, <1>10 DEF LInv

\* A startup step that succeeds.
LEMMA StartupKeeps == ASSUME LInv, StartupStep PROVE LInv'
<1> USE StartupStepShape
<1>1. TypeOK'
  BY Stack DEF LInv, TypeOK
<1>2. Pending'
  BY Stack DEF LInv, Pending
<1>3. /\ result = "none" /\ processor \notin {"draining", "done"} /\ db # "closed"
      /\ handed = {} /\ listener = "none"
      /\ processor' \in {processor, "noop", "running"} /\ db' \in {db, "open"}
      /\ pc' \in {"openDB", "setupOTel", "loadKeys", "setActiveKey", "serving"}
      /\ \A r \in Requests : request[r] = "none" /\ span[r] = "none"
  BY DEF LInv, Outcomes, Starting, WayOut, StoppedByCleanup, Settled, NothingBeforeServing
<1>4. NothingBeforeServing' /\ Quiet' /\ NobodyCutYet' /\ Outcomes' /\ Settled'
  BY <1>3 DEF LInv, NothingBeforeServing, Quiet, NobodyCutYet, Outcomes, Settled, Starting,
     WayOut, Handling
<1>5. StoppedByCleanup'
  BY <1>3 DEF StoppedByCleanup, Cleaned
<1>6. QED
  BY <1>1, <1>2, <1>4, <1>5 DEF LInv

\* The deferred calls and the end of the process.
LEMMA DeferredKeeps ==
  ASSUME LInv, CallCleanup \/ CleanupReturns \/ CloseDB \/ Exit
  PROVE  LInv'
<1>1. /\ pc \in {"returning", "cleanup"} /\ pc' \in {"returning", "cleanup", "exited"}
      /\ UNCHANGED <<listener, serverErrs, request, signalled, elapsed, result, span, handed>>
      /\ db' \in {db, "closed"} /\ processor' \in {processor, "draining"}
      /\ exitCode' \in {exitCode, "one", "zero"}
      /\ exitCode' = "zero" => result \in {"nil", "none"} \/ exitCode = "zero"
  <2>1. CASE CallCleanup
    <3>1. pc = "returning" /\ defers # <<>> /\ Head(defers) = "setupOTel"
      BY <2>1 DEF CallCleanup, Calls
    <3>2. processor # "none"
      BY <3>1, Stack DEF LInv, TypeOK, Pending
    <3>3. QED
      BY <2>1, <3>1, <3>2 DEF CallCleanup, server, context
  <2>2. CASE CleanupReturns
    BY <2>2 DEF CleanupReturns, server, spans, context
  <2>3. CASE CloseDB
    <3>1. pc = "returning" /\ defers # <<>>
      BY <2>3 DEF CloseDB, Calls
    <3>2. db # "none"
      BY <3>1 DEF LInv, Pending
    <3>3. QED
      BY <2>3, <3>1, <3>2 DEF CloseDB, server, spans, context
  <2>4. CASE Exit
    BY <2>4 DEF Exit, server, spans, context, LInv, TypeOK
  <2>5. QED
    BY <2>1, <2>2, <2>3, <2>4
<1>2. \/ /\ pc = "returning" /\ pc' = "cleanup" /\ defers = <<"setupOTel", "openDB">>
         /\ processor = "running" /\ processor' = "draining" /\ UNCHANGED <<db, defers>>
      \/ /\ pc = "returning" /\ pc' = "returning" /\ defers = <<"setupOTel", "openDB">>
         /\ defers' = <<"openDB">> /\ (signalled \/ processor # "running")
         /\ UNCHANGED <<db, processor>>
      \/ /\ pc = "cleanup" /\ pc' = "returning" /\ defers' = <<"openDB">>
         /\ (processor = "done" \/ signalled) /\ UNCHANGED <<db, processor>>
      \/ /\ pc = "returning" /\ pc' = "returning" /\ defers = <<"openDB">> /\ defers' = <<>>
         /\ db' = "closed" /\ UNCHANGED processor
      \/ /\ pc = "returning" /\ pc' = "exited" /\ defers = <<>> /\ UNCHANGED <<db, processor, defers>>
  <2>1. CASE CallCleanup
    <3>1. pc = "returning" /\ defers # <<>> /\ Head(defers) = "setupOTel"
      BY <2>1 DEF CallCleanup, Calls
    <3>2. defers = <<"setupOTel", "openDB">>
      BY <3>1, Stack DEF LInv, TypeOK
    <3>3. processor # "none"
      BY <3>1, <3>2 DEF LInv, Pending
    <3>4. QED
      BY <2>1, <3>1, <3>2, <3>3, Stack DEF CallCleanup
  <2>2. CASE CleanupReturns
    <3>1. defers = <<"setupOTel", "openDB">>
      BY <2>2 DEF CleanupReturns, LInv, Pending
    <3>2. QED
      BY <2>2, <3>1, Stack DEF CleanupReturns, ShutdownReturns, spans
  <2>3. CASE CloseDB
    <3>1. pc = "returning" /\ defers # <<>> /\ Head(defers) = "openDB"
      BY <2>3 DEF CloseDB, Calls
    <3>2. defers = <<"openDB">>
      BY <3>1, Stack DEF LInv, TypeOK
    <3>3. db # "none"
      BY <3>1 DEF LInv, Pending
    <3>4. QED
      BY <2>3, <3>1, <3>2, <3>3, Stack DEF CloseDB, spans
  <2>4. CASE Exit
    BY <2>4 DEF Exit, spans
  <2>5. QED
    BY <2>1, <2>2, <2>3, <2>4
<1>3. result # "none"
  BY <1>1 DEF LInv, Outcomes, WayOut
<1>4. TypeOK'
  <2>1. defers' \in {<<>>, <<"openDB">>, <<"setupOTel", "openDB">>}
    BY <1>2
  <2>2. QED
    BY <1>1, <2>1 DEF LInv, TypeOK
<1>5. NothingBeforeServing' /\ Quiet' /\ NobodyCutYet' /\ Outcomes'
  BY <1>1, <1>3 DEF LInv, NothingBeforeServing, Quiet, NobodyCutYet, Outcomes, Starting, WayOut
<1>6. Pending'
  BY <1>2, Stack DEF LInv, Pending
<1>7. StoppedByCleanup'
  <2>1. Cleaned <=> ~CleanupPending
    BY CleanedStack DEF LInv
  <2>2. Cleaned' <=> ~CleanupPending'
    BY <1>4, CleanedStack, PTL
  <2>3. CASE pc' = "cleanup"
    BY <1>1, <1>3, <2>2, <2>3 DEF LInv, StoppedByCleanup, CleanupPending
  <2>4. CASE pc = "returning" /\ defers = <<"setupOTel", "openDB">> /\ pc' = "returning"
    BY <1>1, <1>2, <1>3, <2>4, Stack DEF LInv, StoppedByCleanup, Pending
  <2>5. CASE pc = "cleanup"
    BY <1>1, <1>2, <1>3, <2>5 DEF LInv, StoppedByCleanup
  <2>6. CASE pc = "returning" /\ defers # <<"setupOTel", "openDB">>
    BY <1>1, <1>2, <1>3, <2>1, <2>6 DEF LInv, StoppedByCleanup, CleanupPending
  <2>7. QED
    BY <1>2, <2>3, <2>4, <2>5, <2>6
<1>8. Settled'
  <2>1. processor' = "done" => processor = "done"
    BY <1>1
  <2>2. processor' \in {"none", "noop"} => processor \in {"none", "noop"}
    BY <1>1
  <2>3. QED
    BY <1>1, <1>3, <2>1, <2>2 DEF LInv, Settled, Handling
<1>9. QED
  BY <1>4, <1>5, <1>6, <1>7, <1>8 DEF LInv

\* A step of the connections, of the signal or of the timer leaves run, the spans
\* and the processor alone.
LEMMA ServerKeeps ==
  ASSUME LInv, UNCHANGED <<run, spans>>, signalled' \in BOOLEAN, elapsed' \in BOOLEAN,
         signalled => signalled',
         listener' \in {"none", "binding", "open", "closed"},
         serverErrs' \in {"empty", "failed", "closed"},
         request' \in [Requests -> {"none", "new", "stale", "active", "answered",
                                    "cut", "gone", "closed"}],
         Starting => listener' = listener,
         listener' = "open" => listener = "open" \/ pc = "serving",
         \A r \in Requests :
           \/ request'[r] = request[r]
           \/ request[r] = "none" /\ request'[r] = "new" /\ listener = "open"
           \/ request[r] = "new" /\ request'[r] = "stale"
           \/ request[r] \in {"new", "stale"} /\ request'[r] = "active"
           \/ request[r] = "active" /\ request'[r] = "answered" /\ span[r] # "ending"
           \/ request[r] = "cut" /\ request'[r] = "gone" /\ span[r] # "ending"
  PROVE  LInv'
<1> USE DEF run, spans
<1>1. TypeOK'
  BY DEF LInv, TypeOK
<1>2. NothingBeforeServing'
  BY DEF LInv, NothingBeforeServing, Starting
<1>3. Quiet'
  <2>1. result = "nil" => pc # "serving"
    BY DEF LInv, Outcomes, WayOut
  <2>2. QED
    BY <2>1 DEF LInv, Quiet
<1>4. NobodyCutYet' /\ Outcomes' /\ Pending'
  BY DEF LInv, NobodyCutYet, Outcomes, Pending, WayOut
<1>5. StoppedByCleanup'
  <2>1. Cleaned' <=> Cleaned
    BY DEF Cleaned
  <2>2. QED
    BY <2>1 DEF LInv, StoppedByCleanup
<1>6. Settled'
  <2>1. \A r \in handed : r \in Requests /\ request'[r] = "answered"
    BY DEF LInv, TypeOK, Settled
  <2>2. \A r \in Requests : request'[r] = "none" => request[r] = "none"
    OBVIOUS
  <2>3. \A r \in Requests : span[r] = "ending" => Handling(r)'
    BY DEF LInv, Settled, Handling
  <2>4. QED
    BY <2>1, <2>2, <2>3 DEF LInv, Settled
<1>7. QED
  BY <1>1, <1>2, <1>3, <1>4, <1>5, <1>6 DEF LInv

\* A step of the spans and of their processor leaves run and the server alone.
LEMMA SpansKeep ==
  ASSUME LInv, UNCHANGED <<run, server, context, handed>>,
         \/ processor' = processor
         \/ processor = "draining" /\ processor' = "done",
         span' \in [Requests -> {"none", "ending", "queued", "batch", "exported",
                                 "failed", "dropped", "refused"}],
         \A r \in Requests :
           /\ \/ span'[r] = span[r]
              \/ /\ Handling(r) /\ span[r] = "none"
                 /\ processor \in {"running", "draining", "done"}
                 /\ span'[r] = IF processor = "running" THEN "ending" ELSE "refused"
              \/ /\ span[r] \in {"ending", "queued", "batch"}
                 /\ span'[r] \in {"queued", "batch", "exported", "failed", "dropped"}
           /\ processor' = "done" =>
                \/ span'[r] \notin {"queued", "batch"}
                \/ span[r] = "ending"
                \/ processor = "done"
  PROVE  LInv'
<1> USE DEF run, server, context
<1>1. TypeOK'
  BY DEF LInv, TypeOK
<1>2. NothingBeforeServing' /\ Quiet' /\ NobodyCutYet' /\ Outcomes'
  BY DEF LInv, NothingBeforeServing, Quiet, NobodyCutYet, Outcomes, Starting, WayOut
<1>3. Pending' /\ StoppedByCleanup'
  <2>1. Cleaned' <=> Cleaned
    BY DEF Cleaned
  <2>2. QED
    BY <2>1 DEF LInv, Pending, StoppedByCleanup
<1>4. Settled'
  <2>1. \A r \in Requests : Handling(r)' <=> Handling(r)
    BY DEF Handling
  <2>2. \A r \in Requests : Handling(r) => request[r] # "none" /\ r \notin handed
    BY DEF LInv, Settled, Handling
  <2>3. \A r \in Requests : span'[r] = "refused" => result # "none" /\ r \notin handed
    BY <2>2 DEF LInv, Settled, StoppedByCleanup
  <2>4. \A r \in handed : r \in Requests /\ request[r] = "answered" /\ ~Handling(r)
    BY DEF LInv, TypeOK, Settled, Handling
  <2>5. \A r \in handed : processor' = "done" => span'[r] \notin {"queued", "batch"}
    <3> SUFFICES ASSUME NEW r \in handed, processor' = "done"
                 PROVE  span'[r] \notin {"queued", "batch"}
      OBVIOUS
    <3>1. r \in Requests /\ ~Handling(r) /\ span[r] # "ending"
      BY <2>4 DEF LInv, Settled
    <3>2. CASE processor = "done"
      BY <3>1, <3>2 DEF LInv, Settled
    <3>3. CASE processor # "done"
      BY <3>1, <3>3
    <3>4. QED
      BY <3>2, <3>3
  <2>6. \A r \in Requests : span'[r] = "ending" => Handling(r)
    BY DEF LInv, Settled
  <2>7. processor' \in {"none", "noop"} => \A r \in Requests : span'[r] = "none"
    BY DEF LInv, Settled
  <2>8. \A r \in Requests : request[r] = "none" => span'[r] = "none"
    BY <2>2 DEF LInv, Settled
  <2>9. QED
    BY <2>1, <2>3, <2>4, <2>5, <2>6, <2>7, <2>8 DEF LInv, Settled
<1>5. QED
  BY <1>1, <1>2, <1>3, <1>4 DEF LInv

\* The shutdown begins: the listener is closed.
LEMMA BeginKeeps == ASSUME LInv, BeginShutdown PROVE LInv'
<1> USE DEF BeginShutdown, context, spans
<1>1. TypeOK'
  BY DEF LInv, TypeOK
<1>2. result = "none"
  BY DEF LInv, Outcomes, WayOut
<1>3. NothingBeforeServing' /\ Quiet' /\ NobodyCutYet' /\ Outcomes' /\ Pending'
  BY <1>2, Stack DEF LInv, TypeOK, NothingBeforeServing, Quiet, NobodyCutYet, Outcomes,
     Pending, Starting, WayOut
<1>4. StoppedByCleanup'
  BY <1>2 DEF LInv, StoppedByCleanup, Cleaned
<1>5. Settled'
  BY DEF LInv, Settled, Handling
<1>6. QED
  BY <1>1, <1>3, <1>4, <1>5 DEF LInv

\* A span ends and is queued, dropped or refused.
LEMMA SpanEndsKeep ==
  ASSUME LInv, NEW r \in Requests, EndSpan(r) \/ Enqueue(r) PROVE LInv'
<1>1. UNCHANGED <<run, server, context, processor, handed>>
  BY DEF EndSpan, Enqueue
<1>2. span' \in [Requests -> {"none", "ending", "queued", "batch", "exported",
                              "failed", "dropped", "refused"}]
  BY DEF EndSpan, Enqueue, LInv, TypeOK
<1>3. \A q \in Requests : q # r => span'[q] = span[q]
  BY DEF EndSpan, Enqueue, LInv, TypeOK
<1>4. \/ /\ Handling(r) /\ span[r] = "none"
         /\ processor \in {"running", "draining", "done"}
         /\ span'[r] = IF processor = "running" THEN "ending" ELSE "refused"
      \/ span[r] = "ending" /\ span'[r] \in {"queued", "dropped"}
  BY DEF EndSpan, Enqueue, LInv, TypeOK
<1>5. QED
  BY <1>1, <1>2, <1>3, <1>4, SpansKeep DEF run, server, context

\* The processor takes a span, exports its batch, or ends.
LEMMA ProcessorKeeps ==
  ASSUME LInv, ExportBatch \/ DrainQueue \/ \E r \in Requests : TakeSpan(r)
  PROVE  LInv'
<1>1. /\ UNCHANGED <<run, server, context, handed>>
      /\ \/ processor' = processor
         \/ processor = "draining" /\ processor' = "done"
      /\ processor # "done"
  <2>1. CASE ExportBatch
    <3>1. UNCHANGED <<run, server, context, processor, handed>> /\ Alive
      BY <2>1 DEF ExportBatch
    <3>2. QED
      BY <3>1 DEF Alive
  <2>2. CASE DrainQueue
    BY <2>2 DEF DrainQueue, Alive
  <2>3. CASE \E r \in Requests : TakeSpan(r)
    <3>1. UNCHANGED <<run, server, context, processor, handed>> /\ Alive
      BY <2>3 DEF TakeSpan
    <3>2. QED
      BY <3>1 DEF Alive
  <2>4. QED
    BY <2>1, <2>2, <2>3
<1>2. /\ span' \in [Requests -> {"none", "ending", "queued", "batch", "exported",
                                 "failed", "dropped", "refused"}]
      /\ \A q \in Requests :
           \/ span'[q] = span[q]
           \/ span[q] \in {"queued", "batch"} /\ span'[q] \in {"batch", "exported", "failed"}
  <2>1. CASE ExportBatch \/ DrainQueue
    BY <2>1 DEF ExportBatch, DrainQueue, ExportSpans, Batch, LInv, TypeOK
  <2>2. CASE \E r \in Requests : TakeSpan(r)
    BY <2>2 DEF TakeSpan, LInv, TypeOK
  <2>3. QED
    BY <2>1, <2>2
<1>3. processor' = "done" => \A q \in Requests : span'[q] \notin {"queued", "batch"}
  <2> SUFFICES ASSUME processor' = "done", NEW q \in Requests
               PROVE  span'[q] \notin {"queued", "batch"}
    OBVIOUS
  <2>1. DrainQueue
    BY <1>1 DEF ExportBatch, TakeSpan
  <2>2. span[q] # "queued"
    BY <2>1 DEF DrainQueue, Queue
  <2>3. QED
    BY <2>1, <2>2 DEF DrainQueue, ExportSpans, Batch, LInv, TypeOK
<1>4. QED
  BY <1>1, <1>2, <1>3, SpansKeep

LEMMA StepLInv == LInv /\ [Next]_vars => LInv'
<1> SUFFICES ASSUME LInv, [Next]_vars PROVE LInv'
  OBVIOUS
<1>1. CASE Run
  BY <1>1, StartupKeeps, ReturnKeeps, DeferredKeeps, BeginKeeps DEF Run
<1>2. CASE Processor
  BY <1>2, ProcessorKeeps DEF Processor
<1>3. CASE Signal \/ Elapse
  <2>1. UNCHANGED <<run, server, spans>> /\ signalled' \in BOOLEAN /\ elapsed' \in BOOLEAN
    BY <1>3 DEF Signal, Elapse, LInv, TypeOK
  <2>2. signalled => signalled'
    BY <1>3 DEF Signal, Elapse
  <2>3. QED
    BY <2>1, <2>2, ServerKeeps DEF server, LInv, TypeOK
<1>4. CASE Bind \/ AcceptFails \/ LateBind
  <2>1. /\ UNCHANGED <<run, spans, context, request>>
        /\ listener' \in {"open", "closed"} /\ serverErrs' \in {"empty", "failed", "closed"}
        /\ listener' = "open" => pc = "serving"
        /\ ~Starting
    BY <1>4 DEF Bind, AcceptFails, LateBind, Starting, LInv, TypeOK
  <2>2. QED
    BY <2>1, ServerKeeps DEF context, LInv, TypeOK
<1>5. ASSUME NEW r \in Requests, Accept(r) \/ Linger(r) \/ Arrive(r) \/ Answer(r)
      PROVE  LInv'
  <2>1. UNCHANGED <<run, spans, context, listener, serverErrs>>
    BY <1>5 DEF Accept, Linger, Arrive, Answer
  <2>2. request' \in [Requests -> {"none", "new", "stale", "active", "answered",
                                   "cut", "gone", "closed"}]
    BY <1>5 DEF Accept, Linger, Arrive, Answer, LInv, TypeOK
  <2>3. \A q \in Requests :
           \/ request'[q] = request[q]
           \/ request[q] = "none" /\ request'[q] = "new" /\ listener = "open"
           \/ request[q] = "new" /\ request'[q] = "stale"
           \/ request[q] \in {"new", "stale"} /\ request'[q] = "active"
           \/ request[q] = "active" /\ request'[q] = "answered" /\ span[q] # "ending"
           \/ request[q] = "cut" /\ request'[q] = "gone" /\ span[q] # "ending"
    BY <1>5 DEF Accept, Linger, Arrive, Answer, Handling, LInv, TypeOK
  <2>4. QED
    BY <2>1, <2>2, <2>3, ServerKeeps DEF context, LInv, TypeOK
<1>6. ASSUME NEW r \in Requests, EndSpan(r) \/ Enqueue(r) PROVE LInv'
  BY <1>6, SpanEndsKeep
<1>7. CASE UNCHANGED vars
  BY <1>7, ServerKeeps DEF vars, context, server, LInv, TypeOK
<1>8. QED
  BY <1>1, <1>2, <1>3, <1>4, <1>5, <1>6, <1>7 DEF Next, Exited

------------------------------------------------------------------------------
\* The inductive invariant holds of every run of the process.
THEOREM LifecycleInvariance == Spec => []LInv
  BY InitLInv, StepLInv, PTL DEF Spec

\* The listener, the channel, the pool, the processor and the spans keep their
\* types; no deferred call goes through a nil pool or a nil cleanup.
THEOREM LifecycleTypes == Spec => []TypeOK
<1>1. LInv => TypeOK
  BY DEF LInv
<1>2. QED
  BY <1>1, LifecycleInvariance, PTL

\* Exit code 0 means that no request was cut off, for any number of connections.
THEOREM ZeroExitsDrained == Spec => []ZeroMeansDrained
<1>1. LInv => ZeroMeansDrained
  BY DEF LInv, ZeroMeansDrained, Outcomes, Quiet, Handling
<1>2. QED
  BY <1>1, LifecycleInvariance, PTL

\* No handler finds its pool closed where run returns nil.
THEOREM PoolIsClosedLast == Spec => []PoolOutlivesHandlers
<1>1. LInv => PoolOutlivesHandlers
  BY DEF LInv, TypeOK, PoolOutlivesHandlers, StoppedByCleanup, Quiet, Handling
<1>2. QED
  BY <1>1, LifecycleInvariance, PTL

\* The spans of the requests answered before run returned have left the queue and
\* the batch when cleanup has returned without a signal, for any number of
\* requests still running and any size of the queue.
THEOREM SpansAreFlushed == Spec => []SpansFlushed
<1>1. LInv => SpansFlushed
  <2> SUFFICES ASSUME LInv, Cleaned, ~signalled, NEW r \in handed
               PROVE  span[r] \in {"none", "exported", "failed", "dropped"}
    BY DEF SpansFlushed
  <2>1. r \in Requests /\ request[r] = "answered"
    BY DEF LInv, TypeOK, Settled
  <2>2. processor \in {"none", "noop", "done"}
    BY DEF LInv, StoppedByCleanup
  <2>3. span[r] \notin {"refused", "ending"}
    BY <2>1 DEF LInv, Settled, Handling
  <2>4. QED
    BY <2>1, <2>2, <2>3 DEF LInv, TypeOK, Settled
<1>2. QED
  BY <1>1, LifecycleInvariance, PTL

\* Between the signal and the exit, the ErrServerClosed of run's own Shutdown is
\* never taken for a failure to serve: only a connection that is closed under its
\* client makes run fail.
THEOREM ClosingIsNoFailure == Spec => CloseNotMistaken
<1> DEFINE A == pc = "shutdown" /\ result' = "err" =>
                  \E r \in Requests : request[r] \in {"new", "active"} /\ request'[r] # request[r]
<1>1. LInv /\ [Next]_vars => [A]_vars
  <2> SUFFICES ASSUME LInv, Next, pc = "shutdown", result' = "err"
               PROVE  \E r \in Requests : request[r] \in {"new", "active"} /\ request'[r] # request[r]
    OBVIOUS
  <2>1. result = "none"
    BY DEF LInv, Outcomes, WayOut
  <2>2. ShutdownGivesUp
    <3>1. ~StartupStep
      BY StartupStepShape DEF Starting
    <3>2. ~StartupFails
      BY StartupPositions DEF StartupFails
    <3>3. ~Processor
      BY <2>1 DEF Processor, ExportBatch, DrainQueue, TakeSpan, run
    <3>4. ~(Signal \/ Elapse \/ Bind \/ AcceptFails \/ LateBind \/ Exited)
      BY <2>1 DEF Signal, Elapse, Bind, AcceptFails, LateBind, Exited, run
    <3>5. ~\E r \in Requests :
             Accept(r) \/ Linger(r) \/ Arrive(r) \/ EndSpan(r) \/ Enqueue(r) \/ Answer(r)
      BY <2>1 DEF Accept, Linger, Arrive, EndSpan, Enqueue, Answer, run
    <3>6. ~(HelpWanted \/ ServerError \/ BeginShutdown \/ ShutdownDrained)
      BY <2>1 DEF HelpWanted, ServerError, ReadsServerErrs, BeginShutdown, ShutdownDrained, Return
    <3>7. ~(CallCleanup \/ CleanupReturns \/ CloseDB \/ Exit)
      BY DEF CallCleanup, CleanupReturns, CloseDB, Exit, Calls
    <3>8. QED
      BY <3>1, <3>2, <3>3, <3>4, <3>5, <3>6, <3>7 DEF Next, Run
  <2>3. QED
    BY <2>2 DEF ShutdownGivesUp, Drained, Closed, LInv, TypeOK
<1>2. QED
  BY <1>1, LifecycleInvariance, PTL DEF Spec, CloseNotMistaken
==============================================================================
