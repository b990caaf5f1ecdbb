-------------------------- MODULE AuthTokensProofs ---------------------------
(***************************************************************************)
(* Proofs about tokens across restarts, for any keys and directories.      *)
(*                                                                         *)
(* The process is a caller of the key store, so that KInv of the key store *)
(* holds as it is; a crash leads back to an empty store.  On top of it,    *)
(* PhaseInv says how much of the directory the store reflects: Loaded(n)   *)
(* describes the map behind the first n - 1 paths of the walk.  A change   *)
(* of the secret during the load only adds to the versions a key of the    *)
(* map may come from.                                                      *)
(***************************************************************************)
EXTENDS AuthTokens, KeyStoreProofs

\* The map has a key for the ids of the listed paths before n, and no others; for
\* every id that of the last of these paths, as one of the versions had it that
\* were mounted during the load.
Held(i, key) == \E dir \in during : Parses(dir[i]) /\ dir[i].key = key

Loaded(n) ==
  \A k \in Kids :
    \/ store[k] = NoKey /\ \A i \in Places(startDir, k) : ~(i < n)
    \/ \E i \in Places(startDir, k) :
         /\ i < n /\ Held(i, store[k])
         /\ \A j \in Places(startDir, k) : j < n => j <= i

PhaseInv ==
  /\ phase = "down" => store = EmptyStore /\ call[main].pc = "idle"
  /\ phase = "loading" =>
       /\ call[main].pc \in {"walking", "parsed"} /\ call[main].dir = startDir
       /\ mount \in during /\ Loaded(call[main].pos)
       /\ call[main].pc = "parsed" =>
            /\ call[main].pos \in DOMAIN startDir /\ ~Skipped(startDir[call[main].pos])
            /\ Held(call[main].pos, call[main].key)
  /\ phase \in {"activating", "serving"} =>
       call[main].pc \in {"idle", "checked"} /\ Loaded(Len(startDir) + 1)
  /\ phase = "activating" => /\ call[main].pc = "checked" => call[main].kid = ActiveKid
                             /\ call[main].result = "set" => activeKey = ActiveKid
  /\ phase = "serving" => kid = ActiveKid /\ Lookup(kid) # NoKey
  /\ phase # "serving" => signed = {}
  /\ \A token \in signed : VerifyToken(token)

AInv == KInv /\ AuthTypeOK /\ PhaseInv

------------------------------------------------------------------------------
\* main is the only caller.
LEMMA MainCalls == main \in Callers /\ \A c \in Callers : c = main
  BY CallersAssumption

LEMMA StartDirs ==
  ASSUME AuthTypeOK
  PROVE  /\ startDir \in Seq(File) /\ DOMAIN startDir = 1 .. Len(startDir)
         /\ Len(startDir) \in Nat
         /\ \A i \in DOMAIN startDir : startDir[i] \in File
<1>1. startDir \in Dirs
  BY DEF AuthTypeOK
<1>2. startDir \in Seq(File)
  BY <1>1, DirsAssumption
<1>3. QED
  BY <1>2

\* What Loaded says depends on the map and the listing, and stays true when more
\* versions are mounted.
LEMMA LoadedStable ==
  ASSUME NEW n \in Nat, Loaded(n), store' = store, startDir' = startDir,
         during \subseteq during'
  PROVE  Loaded(n)'
<1>1. \A i, key : Held(i, key) => Held(i, key)'
  BY DEF Held
<1>2. QED
  BY <1>1 DEF Loaded, Places

\* A walk that is past the end has loaded everything.
LEMMA LoadedToTheEnd ==
  ASSUME AuthTypeOK, NEW n \in Nat, n > Len(startDir), Loaded(n)
  PROVE  Loaded(Len(startDir) + 1)
<1>1. \A i \in DOMAIN startDir : i < n /\ i < Len(startDir) + 1
  BY StartDirs
<1>2. \A k \in Kids : Places(startDir, k) \subseteq DOMAIN startDir
  BY DEF Places
<1>3. QED
  BY <1>1, <1>2 DEF Loaded

LEMMA InitAInv == AuthInit => AInv
<1> SUFFICES ASSUME AuthInit PROVE AInv
  OBVIOUS
<1>1. KInv
  BY InitKInv DEF AuthInit
<1>2. AuthTypeOK
  <2>1. TypeOK /\ startDir \in Dirs
    BY <1>1 DEF AuthInit, Init, KInv
  <2>2. QED
    BY <2>1 DEF AuthInit, AuthTypeOK
<1>3. PhaseInv
  BY MainCalls DEF AuthInit, Init, PhaseInv, NoCall
<1>4. QED
  BY <1>1, <1>2, <1>3 DEF AInv

\* The key store below the process: its own step, none, or a new beginning.
LEMMA StoreInvariant ==
  ASSUME KInv, AuthTypeOK, [AuthNext]_allVars PROVE KInv'
<1> USE MainCalls
<1>1. ASSUME Gone PROVE KInv'
  <2>1. Init'
    BY <1>1 DEF Gone, Init, AuthTypeOK, TypeOK
  <2>2. QED
    BY <2>1, InitKInv, PTL
<1>2. ASSUME UNCHANGED vars PROVE KInv'
  BY <1>2, NextKInv
<1>3. CASE Start
  BY <1>3, LoadBegins DEF Start
<1>4. CASE Load
  BY <1>4, SkipKeeps, ReadKeeps, StoreKeeps, ReturnKeeps DEF Load
<1>5. CASE Activate
  BY <1>5, CheckKeeps, SetKeeps, GetKeeps, ActiveKidAssumption DEF Activate
<1>6. CASE LoadFails \/ ActivateFails \/ Crash
  BY <1>1, <1>6 DEF LoadFails, ActivateFails, Crash
<1>7. CASE GenerateToken \/ Rotate \/ Expire
  BY <1>2, <1>7, RemountKeeps DEF GenerateToken, Rotate, Expire
<1>8. CASE UNCHANGED allVars
  BY <1>2, <1>8 DEF allVars
<1>9. QED
  BY <1>3, <1>4, <1>5, <1>6, <1>7, <1>8 DEF AuthNext

\* What the steps of a walk start from.
LEMMA WalkFacts ==
  ASSUME AInv, phase = "loading"
  PROVE  /\ call[main] \in Call /\ call[main].pos \in Nat /\ call[main].dir = startDir
         /\ Loaded(call[main].pos) /\ mount \in during
         /\ call \in [Callers -> Call] /\ store \in [Kids -> Keys \cup {NoKey}]
         /\ \A i \in DOMAIN startDir : i \in Nat /\ startDir[i] \in File
<1>1. call[main] \in Call /\ call[main].pos \in Nat
  BY MainCalls DEF AInv, KInv, TypeOK, Call
<1>2. \A i \in DOMAIN startDir : i \in Nat /\ startDir[i] \in File
  BY StartDirs DEF AInv
<1>3. QED
  BY <1>1, <1>2 DEF AInv, PhaseInv, KInv, TypeOK

\* The walk passes over a path: it is no place of any id.
LEMMA SkipLoads ==
  ASSUME AInv, phase = "loading", SkipFile(main), startDir' = startDir, during' = during
  PROVE  /\ Loaded(call[main].pos)' /\ call'[main].pc = "walking"
         /\ call'[main].dir = startDir
         /\ call'[main].result = call[main].result
<1>n. PICK n \in Nat : n = call[main].pos
  BY WalkFacts
<1>1. call[main].dir = startDir /\ call[main].pc = "walking" /\ Loaded(n)
  BY <1>n, WalkFacts DEF SkipFile, Walking
<1>2. /\ call'[main].pos = n + 1 /\ call'[main].pc = "walking"
      /\ call'[main].dir = startDir /\ call'[main].result = call[main].result
      /\ store' = store
  BY <1>n, <1>1, WalkFacts, MainCalls DEF SkipFile, Call
<1>3. Skipped(startDir[n])
  BY <1>n, <1>1 DEF SkipFile, Listed
<1>4. \A k \in Kids : \A i \in Places(startDir, k) : i < n + 1 <=> i < n
  <2>1. \A i \in DOMAIN startDir : i \in Nat
    BY WalkFacts
  <2>2. \A k \in Kids : \A i \in Places(startDir, k) : i \in DOMAIN startDir /\ i # n
    BY <1>3 DEF Places
  <2>3. \A i \in Nat : i # n => (i < n + 1 <=> i < n)
    OBVIOUS
  <2>4. QED
    BY <2>1, <2>2, <2>3
<1>5. Loaded(n + 1)
  BY <1>1, <1>4 DEF Loaded
<1>6. n + 1 \in Nat
  OBVIOUS
<1>7. Loaded(n + 1)'
  BY <1>2, <1>5, <1>6, LoadedStable
<1>8. QED
  BY <1>2, <1>7 DEF Loaded

\* The walk reads a file, in the version that is mounted.
LEMMA ReadLoads ==
  ASSUME AInv, phase = "loading", ReadFile(main), startDir' = startDir, during' = during
  PROVE  /\ Loaded(call[main].pos)' /\ call'[main].pc = "parsed"
         /\ call'[main].dir = startDir /\ call'[main].result = call[main].result
         /\ call'[main].pos \in DOMAIN startDir /\ ~Skipped(startDir[call'[main].pos])
         /\ Held(call[main].pos, call[main].key)'
<1>n. PICK n \in Nat : n = call[main].pos
  BY WalkFacts
<1>1. call[main].dir = startDir /\ Walking(main) /\ Loaded(n)
  BY <1>n, WalkFacts DEF ReadFile
<1>2. /\ call'[main].pos = n /\ call'[main].pc = "parsed"
      /\ call'[main].dir = startDir /\ call'[main].result = call[main].result
      /\ call'[main].key = mount[n].key /\ store' = store
  BY <1>n, <1>1, WalkFacts, MainCalls DEF ReadFile, Current, Call
<1>3. n \in DOMAIN startDir /\ ~Skipped(startDir[n]) /\ Parses(mount[n])
  BY <1>n, <1>1, MainCalls, CurrentFile DEF ReadFile, Listed, Current, AInv, KInv
<1>4. Held(n, mount[n].key)
  BY <1>3, WalkFacts DEF Held
<1>5. Loaded(n)'
  BY <1>1, <1>2, LoadedStable
<1>6. QED
  BY <1>2, <1>3, <1>4, <1>5 DEF Loaded, Held

\* The walk stores a key: its path is the last of its id so far.
LEMMA StoreLoads ==
  ASSUME AInv, phase = "loading", StoreFile(main), startDir' = startDir, during' = during
  PROVE  /\ Loaded(call[main].pos)' /\ call'[main].pc = "walking"
         /\ call'[main].dir = startDir
         /\ call'[main].result = call[main].result
<1>n. PICK n \in Nat : n = call[main].pos
  BY WalkFacts
<1>1. call[main].dir = startDir /\ call[main].pc = "parsed" /\ Loaded(n)
  BY <1>n, WalkFacts DEF StoreFile
<1>2. /\ call'[main].pos = n + 1 /\ call'[main].pc = "walking"
      /\ call'[main].dir = startDir /\ call'[main].result = call[main].result
  BY <1>n, <1>1, WalkFacts, MainCalls DEF StoreFile, Call
<1>3. /\ n \in DOMAIN startDir /\ ~Skipped(startDir[n]) /\ Held(n, call[main].key)
      /\ store' = [store EXCEPT ![startDir[n].kid] = call[main].key]
  BY <1>n, <1>1 DEF StoreFile, Listed, AInv, PhaseInv
<1>4. store \in [Kids -> Keys \cup {NoKey}] /\ startDir[n].kid \in Kids
  BY <1>3, WalkFacts DEF File
<1>5. \A i \in DOMAIN startDir : i \in Nat
  BY WalkFacts
<1>6. \A i \in DOMAIN startDir : i < n + 1 <=> i < n \/ i = n
  BY <1>5
<1>7. \A i \in DOMAIN startDir : i < n + 1 => i <= n
  BY <1>5
<1>8. n < n + 1
  OBVIOUS
<1>9. ASSUME NEW k \in Kids
      PROVE  \/ store'[k] = NoKey /\ \A i \in Places(startDir, k) : ~(i < n + 1)
             \/ \E i \in Places(startDir, k) :
                  /\ i < n + 1 /\ Held(i, store'[k])
                  /\ \A j \in Places(startDir, k) : j < n + 1 => j <= i
  <2>1. CASE k = startDir[n].kid
    <3>1. n \in Places(startDir, k)
      BY <1>3, <2>1 DEF Places
    <3>2. store'[k] = call[main].key
      BY <1>3, <1>4, <2>1
    <3>3. \A j \in Places(startDir, k) : j < n + 1 => j <= n
      BY <1>7 DEF Places
    <3>4. QED
      BY <1>3, <1>8, <3>1, <3>2, <3>3
  <2>2. CASE k # startDir[n].kid
    <3>1. store'[k] = store[k]
      BY <1>3, <1>4, <2>2
    <3>2. \A i \in Places(startDir, k) : i < n + 1 <=> i < n
      BY <1>6, <2>2 DEF Places
    <3>3. QED
      BY <1>1, <3>1, <3>2 DEF Loaded
  <2>3. QED
    BY <2>1, <2>2
<1>10. \A i, key : Held(i, key)' <=> Held(i, key)
  BY DEF Held
<1>11. Loaded(n + 1)'
  BY <1>9, <1>10 DEF Loaded, Places
<1>12. QED
  BY <1>2, <1>11 DEF Loaded

\* What Loaded says at the end of the directory, where nothing is loaded.
LEMMA EndStable ==
  ASSUME AuthTypeOK, Loaded(Len(startDir) + 1), store' = store, startDir' = startDir,
         during \subseteq during'
  PROVE  Loaded(Len(startDir) + 1)'
<1>1. PICK n \in Nat : n = Len(startDir) + 1
  BY StartDirs
<1>2. Loaded(n)'
  BY <1>1, LoadedStable
<1>3. QED
  BY <1>1, <1>2 DEF Loaded

LEMMA LoadKeeps ==
  ASSUME AInv, Load PROVE PhaseInv'
<1> USE MainCalls
<1>1. /\ phase = "loading" /\ startDir' = startDir /\ kid' = kid /\ signed' = signed
      /\ signed = {} /\ phase' \in {"activating", "loading"} /\ during' = during
      /\ phase' = "activating" <=> call'[main].result = "loaded"
  BY DEF Load, AInv, PhaseInv
<1>2. call[main].result = "none" /\ mount \in during
  BY <1>1 DEF AInv, KInv, NoEarlyResult, PhaseInv
<1>3. CASE SkipFile(main) \/ StoreFile(main) \/ ReadFile(main)
  <2>1. /\ Loaded(call[main].pos)' /\ call'[main].pc \in {"walking", "parsed"}
        /\ call'[main].dir = startDir /\ call'[main].result = "none"
        /\ call'[main].pc = "parsed" =>
             /\ call'[main].pos \in DOMAIN startDir /\ ~Skipped(startDir[call'[main].pos])
             /\ Held(call[main].pos, call[main].key)'
    BY <1>1, <1>2, <1>3, SkipLoads, StoreLoads, ReadLoads
  <2>2. phase' = "loading" /\ mount' = mount
    BY <1>1, <1>3, <2>1 DEF SkipFile, StoreFile, ReadFile
  <2>3. QED
    BY <1>1, <1>2, <2>1, <2>2 DEF PhaseInv
<1>4. CASE LoadReturns(main)
  <2>1. /\ call'[main].pc = "idle" /\ call'[main].result = "loaded" /\ store' = store
    BY <1>4 DEF LoadReturns, AInv, KInv, TypeOK, Call
  <2>2. Loaded(Len(startDir) + 1)
    <3>1. call[main].pos \in Nat /\ call[main].dir = startDir /\ Loaded(call[main].pos)
      BY <1>1 DEF AInv, PhaseInv, KInv, TypeOK, Call
    <3>2. call[main].pos > Len(startDir)
      BY <1>4, <3>1 DEF LoadReturns
    <3>3. PICK n \in Nat : n = call[main].pos
      BY <3>1
    <3>4. QED
      BY <3>1, <3>2, <3>3, LoadedToTheEnd DEF AInv
  <2>3. Loaded(Len(startDir) + 1)'
    BY <1>1, <2>1, <2>2, EndStable DEF AInv
  <2>4. QED
    BY <1>1, <2>1, <2>3 DEF PhaseInv
<1>5. QED
  BY <1>3, <1>4 DEF Load

LEMMA ActivateKeeps ==
  ASSUME AInv, Activate PROVE PhaseInv'
<1> USE MainCalls
<1>1. /\ phase = "activating" /\ startDir' = startDir /\ during' = during /\ signed' = {} /\ signed = {}
      /\ Loaded(Len(startDir) + 1) /\ call[main] \in Call
      /\ call[main].pc = "checked" => call[main].kid = ActiveKid
      /\ call[main].result = "set" => activeKey = ActiveKid
  BY DEF Activate, AInv, PhaseInv, KInv, TypeOK
<1>2. store' = store
  BY DEF Activate, SetActiveKeyCheck, SetActiveKeySet, GetActiveKid
<1>3. Loaded(Len(startDir) + 1)'
  BY <1>1, <1>2, EndStable DEF AInv
<1>4. CASE SetActiveKeyCheck(main, ActiveKid) /\ IsStored(ActiveKid) /\ UNCHANGED <<phase, kid>>
  <2>1. call'[main].pc = "checked" /\ call'[main].kid = ActiveKid
        /\ call'[main].result = "none"
    BY <1>4, NewCallFacts DEF SetActiveKeyCheck, AInv, KInv, TypeOK, Call
  <2>2. QED
    BY <1>1, <1>3, <1>4, <2>1 DEF PhaseInv
<1>5. CASE SetActiveKeySet(main) /\ UNCHANGED <<phase, kid>>
  <2>1. call'[main].pc = "idle" /\ activeKey' = ActiveKid
    BY <1>1, <1>5 DEF SetActiveKeySet, AInv, KInv, TypeOK, Call
  <2>2. QED
    BY <1>1, <1>3, <1>5, <2>1 DEF PhaseInv
<1>6. CASE call[main].result = "set" /\ GetActiveKid(main) /\ kid' = activeKey
           /\ phase' = "serving"
  <2>1. activeKey = ActiveKid /\ ActiveKid \in Kids /\ ActiveKid # NoKid
    BY <1>1, <1>6, ActiveKidAssumption, SentinelAssumption
  <2>2. Lookup(ActiveKid) # NoKey
    BY <2>1 DEF AInv, KInv, ActiveResolves
  <2>3. call'[main].pc = "idle" /\ kid' = ActiveKid /\ store'[ActiveKid] # NoKey
    BY <1>1, <1>2, <1>6, <2>1, <2>2 DEF GetActiveKid, AInv, KInv, TypeOK, Call, Lookup
  <2>4. QED
    BY <1>1, <1>3, <1>6, <2>3 DEF PhaseInv, Lookup
<1>7. QED
  BY <1>4, <1>5, <1>6 DEF Activate

LEMMA StepAInv == AInv /\ [AuthNext]_allVars => AInv'
<1> SUFFICES ASSUME AInv, [AuthNext]_allVars PROVE AInv'
  OBVIOUS
<1> USE MainCalls
<1>1. KInv'
  BY StoreInvariant DEF AInv
<1>2. TypeOK'
  BY <1>1 DEF KInv
<1>3. CASE Start
  <2>1. AuthTypeOK'
    BY <1>2, <1>3 DEF Start, AInv, AuthTypeOK, TypeOK
  <2>2. /\ call'[main].pc = "walking" /\ call'[main].dir = mount /\ call'[main].pos = 1
        /\ startDir' = mount /\ store' = EmptyStore /\ phase' = "loading" /\ signed' = {}
        /\ during' = {mount} /\ mount' = mount
    <3>1. NewCall(main) \in Call /\ NewCall(main).pos = 1 /\ mount \in Dirs
      BY NewCallFacts DEF AInv, KInv, TypeOK
    <3>2. phase = "down" /\ store = EmptyStore /\ signed = {}
      BY <1>3 DEF Start, AInv, PhaseInv
    <3>3. QED
      BY <1>3, <3>1, <3>2 DEF Start, LoadFromFileSystem, AInv, KInv, TypeOK, Call
  <2>3. Loaded(1)'
    <3>1. \A i \in DOMAIN startDir' : i \in Nat /\ ~(i < 1)
      <4>1. mount \in Seq(File)
        BY DirsAssumption DEF AInv, KInv, TypeOK
      <4>2. QED
        BY <2>2, <4>1
    <3>2. \A k \in Kids : store'[k] = NoKey
      BY <2>2 DEF EmptyStore
    <3>3. QED
      BY <3>1, <3>2 DEF Loaded, Places
  <2>4. PhaseInv'
    <3>1. Loaded(call[main].pos)'
      BY <2>2, <2>3 DEF Loaded
    <3>2. QED
      BY <2>2, <3>1 DEF PhaseInv
  <2>5. QED
    BY <1>1, <2>1, <2>4 DEF AInv
<1>4. CASE Load
  <2>1. AuthTypeOK'
    BY <1>2, <1>4 DEF Load, AInv, AuthTypeOK
  <2>2. QED
    BY <1>1, <1>4, <2>1, LoadKeeps DEF AInv
<1>5. CASE Activate
  <2>1. AuthTypeOK'
    BY <1>2, <1>5 DEF Activate, AInv, AuthTypeOK, KInv, TypeOK
  <2>2. QED
    BY <1>1, <1>5, <2>1, ActivateKeeps DEF AInv
<1>6. CASE Gone
  <2>1. AuthTypeOK'
    BY <1>2, <1>6 DEF Gone, AInv, AuthTypeOK
  <2>2. PhaseInv'
    BY <1>6 DEF Gone, PhaseInv, NoCall, EmptyStore
  <2>3. QED
    BY <1>1, <2>1, <2>2 DEF AInv
<1>7. CASE GenerateToken
  <2>1. /\ phase = "serving" /\ kid = ActiveKid /\ kid \in Kids
        /\ Lookup(kid) # NoKey /\ Lookup(kid) \in Keys
    BY <1>7, ActiveKidAssumption
       DEF GenerateToken, AInv, PhaseInv, Lookup, KInv, TypeOK
  <2>2. AuthTypeOK'
    BY <1>2, <1>7, <2>1 DEF GenerateToken, AInv, AuthTypeOK, Token
  <2>3. \A token \in signed' : VerifyToken(token)'
    <3>1. store' = store /\ signed' = signed \cup {[kid |-> kid, key |-> Lookup(kid)]}
      BY <1>7 DEF GenerateToken, vars
    <3>2. QED
      BY <2>1, <3>1 DEF AInv, PhaseInv, VerifyToken, Lookup
  <2>4. Loaded(Len(startDir) + 1)'
    BY <1>7, <2>1, EndStable DEF GenerateToken, vars, AInv, PhaseInv
  <2>5. PhaseInv'
    BY <1>7, <2>1, <2>3, <2>4 DEF GenerateToken, vars, AInv, PhaseInv, Lookup
  <2>6. QED
    BY <1>1, <2>2, <2>5 DEF AInv
<1>8. CASE Rotate \/ Expire \/ UNCHANGED allVars
  <2>1. /\ UNCHANGED <<store, activeKey, call, startDir, phase, kid>>
        /\ signed' \subseteq signed /\ during \subseteq during'
        /\ during' \subseteq during \cup {mount'}
        /\ phase = "loading" => (mount \in during => mount' \in during')
    BY <1>8 DEF Rotate, Remount, Expire, allVars, authVars, vars
  <2>2. AuthTypeOK'
    <3>1. during' \subseteq Dirs /\ startDir' \in Dirs
      BY <1>2, <2>1 DEF AInv, AuthTypeOK, TypeOK
    <3>2. signed' \subseteq tokens' /\ tokens' \subseteq Token
      BY <1>8 DEF Rotate, Expire, allVars, authVars, AInv, AuthTypeOK
    <3>3. QED
      BY <1>2, <2>1, <3>1, <3>2 DEF AInv, AuthTypeOK
  <2>3. \A token \in signed' : VerifyToken(token)'
    BY <2>1 DEF AInv, PhaseInv, VerifyToken, Lookup
  <2>4. phase = "loading" => Loaded(call[main].pos)'
    <3>1. PICK n \in Nat : n = call[main].pos
      BY DEF AInv, KInv, TypeOK, Call
    <3>2. phase = "loading" => Loaded(n)'
      BY <2>1, <3>1, LoadedStable DEF AInv, PhaseInv
    <3>3. QED
      BY <2>1, <3>1, <3>2 DEF Loaded
  <2>5. phase \in {"activating", "serving"} => Loaded(Len(startDir) + 1)'
    BY <2>1, EndStable DEF AInv, PhaseInv
  <2>6. Held(call[main].pos, call[main].key) => Held(call[main].pos, call[main].key)'
    BY <2>1 DEF Held
  <2>7. PhaseInv'
    BY <2>1, <2>3, <2>4, <2>5, <2>6 DEF AInv, PhaseInv, Lookup
  <2>8. QED
    BY <1>1, <2>2, <2>7 DEF AInv
<1>9. QED
  BY <1>3, <1>4, <1>5, <1>6, <1>7, <1>8 DEF AuthNext, LoadFails, ActivateFails, Crash

------------------------------------------------------------------------------
\* The inductive invariant holds across all restarts and changes of the secret: in
\* particular the map of a process that serves has, for every id that was listed,
\* the key of its last path in a version that was mounted during the load.
THEOREM AuthInvariance == AuthSpec => []AInv
  BY InitAInv, StepAInv, PTL DEF AuthSpec

\* The map keeps a key or none for every id, and what was signed is an unexpired token.
THEOREM AuthTypes == AuthSpec => []AuthTypeOK
<1>1. AInv => AuthTypeOK
  BY DEF AInv
<1>2. QED
  BY <1>1, AuthInvariance, PTL

\* A process that serves can sign with the configured key, and accepts what it
\* has signed until it expires.
THEOREM SignersVerify == AuthSpec => []SignerVerifies
<1>1. AInv => SignerVerifies
  BY DEF AInv, PhaseInv, SignerVerifies
<1>2. QED
  BY <1>1, AuthInvariance, PTL

\* A process accepts a token only if its key was the last file of its id in a version
\* that was mounted while the process loaded, and it accepts every token whose key
\* was that file in all of them.
THEOREM AcceptanceIsMounted == AuthSpec => []AcceptsWhatWasMounted
<1>1. AInv => AcceptsWhatWasMounted
  <2> SUFFICES ASSUME AInv, phase = "serving", NEW token \in tokens
               PROVE  /\ VerifyToken(token) => token.key \in Carried(token.kid)
                      /\ Carried(token.kid) = {token.key} => VerifyToken(token)
    BY DEF AcceptsWhatWasMounted
  <2> DEFINE k == token.kid
             P == Places(startDir, k)
  <2>1. k \in Kids /\ token.key \in Keys /\ token.key # NoKey
    BY SentinelAssumption DEF AInv, AuthTypeOK, Token
  <2>2. \A i \in P : i \in Nat /\ i < Len(startDir) + 1
    BY StartDirs DEF AInv, Places
  <2>3. \/ store[k] = NoKey /\ P = {}
        \/ \E i \in P : Held(i, store[k]) /\ \A j \in P : j <= i
    BY <2>1, <2>2 DEF AInv, PhaseInv, Loaded
  <2>4. VerifyToken(token) <=> store[k] = token.key
    BY <2>1 DEF VerifyToken, Lookup
  <2>5. \A i, key : i \in P /\ (\A j \in P : j <= i) /\ Held(i, key) => key \in Carried(k)
    BY DEF Carried, LastPlaces, Held
  <2>6. P = {} => Carried(k) = {}
    BY DEF Carried, LastPlaces
  <2> HIDE DEF P, k
  <2>7. store[k] = token.key => token.key \in Carried(k)
    BY <2>1, <2>3, <2>5
  <2>8. Carried(k) = {token.key} => store[k] = token.key
    BY <2>1, <2>3, <2>5, <2>6
  <2>9. QED
    BY <2>4, <2>7, <2>8 DEF k
<1>2. QED
  BY <1>1, AuthInvariance, PTL

\* No process serves with part of the keys that were visible when it started,
\* though the secret may change while it loads them.
THEOREM NoPartialService == AuthSpec => []ServesAllOrNothing
<1>1. AInv => ServesAllOrNothing
  <2> SUFFICES ASSUME AInv, phase = "serving", NEW i \in DOMAIN startDir,
                      ~startDir[i].hidden, startDir[i].content \notin {"other", "absent"}
               PROVE  startDir[i].kid \in Stored
    BY DEF ServesAllOrNothing, VisibleKids, Visible
  <2>1. i < Len(startDir) + 1 /\ startDir[i] \in File
    BY StartDirs DEF AInv
  <2>2. startDir[i].kid \in Kids /\ i \in Places(startDir, startDir[i].kid)
    BY <2>1 DEF Places, Skipped, File
  <2>3. PICK j \in Places(startDir, startDir[i].kid) : Held(j, store[startDir[i].kid])
    BY <2>1, <2>2 DEF AInv, PhaseInv, Loaded
  <2>4. PICK dir \in during : Parses(dir[j]) /\ dir[j].key = store[startDir[i].kid]
    BY <2>3 DEF Held
  <2>5. dir[j] \in File
    <3>1. dir \in Dirs /\ startDir \in Dirs /\ j \in DOMAIN startDir
      BY DEF AInv, AuthTypeOK, Places
    <3>2. Len(dir) = Len(startDir) /\ dir \in Seq(File)
      BY <3>1, PathsAssumption, DirsAssumption
    <3>3. j \in DOMAIN dir
      BY <3>1, <3>2, StartDirs DEF AInv
    <3>4. QED
      BY <3>2, <3>3
  <2>6. QED
    BY <2>2, <2>4, <2>5, SentinelAssumption DEF Stored, File
<1>2. QED
  BY <1>1, AuthInvariance, PTL
==============================================================================
