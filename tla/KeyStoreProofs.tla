---------------------------- MODULE KeyStoreProofs ----------------------------
(***************************************************************************)
(* Proofs about KeyStore, for any number of goroutines, keys and           *)
(* directories.                                                            *)
(*                                                                         *)
(* The invariant is KInv.  What the two locks of SetActiveKey leave open   *)
(* is closed by CheckedStays: the key that was found stays in the map,     *)
(* because no step takes a key away.  What the lock per file leaves open   *)
(* in LoadFromFileSystem is closed by WalkedStays, in the same way, and    *)
(* what may be mounted between reading a file and storing its key by       *)
(* ParsedVisible: the key came from a visible file of that path.           *)
(***************************************************************************)
EXTENDS KeyStore, FiniteSetTheorems, TLAPS

\* A caller between the two locks of SetActiveKey still has a key to set.
CheckedStays ==
  \A c \in Callers : call[c].pc = "checked" => call[c].kid \in Stored

\* The place a caller's walk has reached in its directory; a load that has
\* succeeded is past the end.
Past(c, i) ==
  \/ call[c].pc \in {"walking", "parsed"} /\ i < call[c].pos
  \/ call[c].result = "loaded"

\* The visible .pem files a walk has left behind are in the map.
WalkedStays ==
  \A c \in Callers : \A i \in DOMAIN call[c].dir :
    (Past(c, i) /\ ~Skipped(call[c].dir[i])) => call[c].dir[i].kid \in Stored

\* A key that waits for the lock is that of a visible file of the path the walk is
\* at, in some version of the directory.
ParsedFrom(c, dir) ==
  /\ call[c].pos \in DOMAIN dir
  /\ ~dir[call[c].pos].hidden /\ Parses(dir[call[c].pos])
  /\ dir[call[c].pos].kid = Listed(c).kid /\ dir[call[c].pos].key = call[c].key

ParsedVisible ==
  \A c \in Callers :
    call[c].pc = "parsed" =>
      /\ call[c].pos \in DOMAIN call[c].dir
      /\ \E dir \in Dirs : ParsedFrom(c, dir)

\* A load that has succeeded has counted the visible key ids at least.
CountCovers ==
  \A c \in Callers :
    call[c].result = "loaded" => call[c].count >= Cardinality(VisibleKids(call[c].dir))

\* Walking callers have no result yet, the others of SetActiveKey neither.
NoEarlyResult == \A c \in Callers : call[c].pc # "idle" => call[c].result = "none"

KInv ==
  /\ TypeOK /\ ActiveResolves /\ HiddenIgnored
  /\ CheckedStays /\ WalkedStays /\ ParsedVisible /\ CountCovers /\ NoEarlyResult

-------------------------------------------------------------------------------
\* Facts about directories.
LEMMA Directories ==
  ASSUME TypeOK, NEW c \in Callers
  PROVE  /\ call[c].dir \in Seq(File)
         /\ DOMAIN call[c].dir = 1 .. Len(call[c].dir)
         /\ Len(call[c].dir) \in Nat
         /\ call[c].pos \in Nat \ {0}
<1>1. call[c] \in Call
  BY DEF TypeOK
<1>2. call[c].dir \in Dirs \cup {<<>>} /\ call[c].pos \in Nat \ {0}
  BY <1>1 DEF Call
<1>3. \A dir \in Dirs : dir \in Seq(File)
  BY DirsAssumption
<1>4. <<>> \in Seq(File)
  OBVIOUS
<1>5. call[c].dir \in Seq(File)
  BY <1>2, <1>3, <1>4
<1>6. QED
  BY <1>2, <1>5

\* The file a walk is at: the path it listed, in the version that is mounted now.
LEMMA CurrentFile ==
  ASSUME TypeOK, NEW c \in Callers, Walking(c)
  PROVE  /\ call[c].dir \in Dirs /\ mount \in Dirs
         /\ call[c].pos \in DOMAIN call[c].dir /\ call[c].pos \in DOMAIN mount
         /\ Listed(c) = call[c].dir[call[c].pos] /\ Listed(c) \in File
         /\ Current(c) = mount[call[c].pos] /\ Current(c) \in File
         /\ Current(c).kid = Listed(c).kid /\ Current(c).hidden = Listed(c).hidden
<1>1. call[c].pos \in DOMAIN call[c].dir
  BY Directories DEF Walking
<1>2. Listed(c) = call[c].dir[call[c].pos] /\ Listed(c) \in File
  BY <1>1, Directories DEF Listed
<1>3. call[c].dir \in Dirs \cup {<<>>} /\ mount \in Dirs
  BY DEF TypeOK, Call
<1>4. call[c].dir # <<>>
  BY <1>1, Directories
<1>5. call[c].dir \in Dirs
  BY <1>3, <1>4
<1>6. Len(call[c].dir) = Len(mount)
  BY <1>3, <1>5, PathsAssumption
<1>7. mount \in Seq(File)
  BY <1>3, DirsAssumption
<1>8. call[c].pos \in DOMAIN mount /\ mount[call[c].pos] \in File
  BY <1>1, <1>6, <1>7, Directories
<1>9. /\ mount[call[c].pos].kid = call[c].dir[call[c].pos].kid
      /\ mount[call[c].pos].hidden = call[c].dir[call[c].pos].hidden
  BY <1>1, <1>3, <1>5, PathsAssumption
<1>10. QED
  BY <1>1, <1>2, <1>3, <1>5, <1>8, <1>9 DEF Current, Listed

LEMMA InitKInv == Init => KInv
<1> SUFFICES ASSUME Init PROVE KInv
  OBVIOUS
<1>1. TypeOK
  BY DEF Init, TypeOK, EmptyStore, NoCall, Call
<1>2. \A c \in Callers : /\ call[c].pc = "idle" /\ call[c].result = "none"
                         /\ call[c].held = NoKid
  BY DEF Init, NoCall
<1>3. ActiveResolves /\ HiddenIgnored
  BY <1>2 DEF Init, ActiveResolves, HiddenIgnored, Stored, EmptyStore
<1>4. CheckedStays /\ WalkedStays /\ CountCovers /\ NoEarlyResult
  BY <1>2 DEF CheckedStays, WalkedStays, Past, CountCovers, NoEarlyResult
<1>6. ParsedVisible
  BY <1>2 DEF ParsedVisible
<1>5. QED
  BY <1>1, <1>3, <1>4, <1>6 DEF KInv

-------------------------------------------------------------------------------
\* A step of one caller changes the call of that caller only; what the other
\* callers rely on depends on the map, which never loses a key id.
Frame(c) ==
  /\ \A k \in Stored : k \in Stored'
  /\ \A d \in Callers \ {c} : call'[d] = call[d]

LEMMA FrameKeeps ==
  ASSUME KInv, NEW c \in Callers, Frame(c)
  PROVE  \A d \in Callers \ {c} :
           /\ call'[d].pc = "checked" => call'[d].kid \in Stored'
           /\ \A i \in DOMAIN call'[d].dir :
                (Past(d, i)' /\ ~Skipped(call'[d].dir[i]))
                  => call'[d].dir[i].kid \in Stored'
           /\ call'[d].pc = "parsed" =>
                /\ call'[d].pos \in DOMAIN call'[d].dir
                /\ \E dir \in Dirs : ParsedFrom(d, dir)'
           /\ call'[d].result = "loaded"
                => call'[d].count >= Cardinality(VisibleKids(call'[d].dir))
           /\ call'[d].pc # "idle" => call'[d].result = "none"
<1> SUFFICES ASSUME NEW d \in Callers \ {c}
             PROVE  /\ call'[d].pc = "checked" => call'[d].kid \in Stored'
                    /\ \A i \in DOMAIN call'[d].dir :
                         (Past(d, i)' /\ ~Skipped(call'[d].dir[i]))
                           => call'[d].dir[i].kid \in Stored'
                    /\ call'[d].pc = "parsed" =>
                         /\ call'[d].pos \in DOMAIN call'[d].dir
                         /\ \E dir \in Dirs : ParsedFrom(d, dir)'
                    /\ call'[d].result = "loaded"
                         => call'[d].count >= Cardinality(VisibleKids(call'[d].dir))
                    /\ call'[d].pc # "idle" => call'[d].result = "none"
  OBVIOUS
<1>1. call'[d] = call[d] /\ \A k \in Stored : k \in Stored'
  BY DEF Frame
<1>2. \A i : Past(d, i)' <=> Past(d, i)
  BY <1>1 DEF Past
<1>3. call[d].pc = "checked" => call[d].kid \in Stored
  BY DEF KInv, CheckedStays
<1>4. \A i \in DOMAIN call[d].dir :
        (Past(d, i) /\ ~Skipped(call[d].dir[i])) => call[d].dir[i].kid \in Stored
  BY DEF KInv, WalkedStays
<1>5. /\ call[d].result = "loaded"
           => call[d].count >= Cardinality(VisibleKids(call[d].dir))
      /\ call[d].pc # "idle" => call[d].result = "none"
  BY DEF KInv, CountCovers, NoEarlyResult
<1>6. /\ call[d].pc = "parsed" =>
           /\ call[d].pos \in DOMAIN call[d].dir
           /\ \E dir \in Dirs : ParsedFrom(d, dir)
      /\ \A dir \in Dirs : ParsedFrom(d, dir) => ParsedFrom(d, dir)'
  BY <1>1 DEF KInv, ParsedVisible, ParsedFrom, Listed
<1>7. QED
  BY <1>1, <1>2, <1>3, <1>4, <1>5, <1>6

\* So what is left to show of a step is what concerns its own caller.
LEMMA OwnCallSuffices ==
  ASSUME KInv, NEW c \in Callers, Frame(c), TypeOK', ActiveResolves', HiddenIgnored',
         call'[c].pc = "checked" => call'[c].kid \in Stored',
         \A i \in DOMAIN call'[c].dir :
           (Past(c, i)' /\ ~Skipped(call'[c].dir[i])) => call'[c].dir[i].kid \in Stored',
         call'[c].pc = "parsed" =>
           /\ call'[c].pos \in DOMAIN call'[c].dir
           /\ \E dir \in Dirs : ParsedFrom(c, dir)',
         call'[c].result = "loaded"
           => call'[c].count >= Cardinality(VisibleKids(call'[c].dir)),
         call'[c].pc # "idle" => call'[c].result = "none"
  PROVE  KInv'
<1>1. CheckedStays'
  BY FrameKeeps DEF CheckedStays
<1>2. WalkedStays'
  BY FrameKeeps DEF WalkedStays
<1>3. CountCovers'
  BY FrameKeeps DEF CountCovers
<1>4. NoEarlyResult'
  BY FrameKeeps DEF NoEarlyResult
<1>5. ParsedVisible'
  BY FrameKeeps DEF ParsedVisible
<1>6. QED
  BY <1>1, <1>2, <1>3, <1>4, <1>5 DEF KInv

-------------------------------------------------------------------------------
\* The steps that leave the map and the active key alone, except for GetActiveKid.
LEMMA QuietStep ==
  ASSUME KInv, NEW c \in Callers, UNCHANGED <<mount, store, activeKey>>,
         NEW r \in Call, call' = [call EXCEPT ![c] = r],
         r.held = call[c].held
  PROVE  /\ TypeOK' /\ ActiveResolves' /\ HiddenIgnored' /\ Frame(c)
         /\ Stored' = Stored /\ call'[c] = r
<1>1. TypeOK' /\ Stored' = Stored /\ call'[c] = r /\ Frame(c)
  BY DEF KInv, TypeOK, Frame, Stored
<1>2. {call'[d].held : d \in Callers} = {call[d].held : d \in Callers}
  BY DEF KInv, TypeOK
<1>3. ActiveResolves'
  BY <1>2 DEF KInv, ActiveResolves, Lookup
<1>4. HiddenIgnored'
  BY <1>1 DEF KInv, HiddenIgnored
<1>5. QED
  BY <1>1, <1>3, <1>4

\* A new call has nothing of the last one but the key id the caller holds.
LEMMA NewCallFacts ==
  ASSUME TypeOK, NEW c \in Callers
  PROVE  /\ NewCall(c) \in Call /\ NewCall(c).held = call[c].held
         /\ NewCall(c).pc = "idle" /\ NewCall(c).pos = 1
         /\ NewCall(c).dir = <<>> /\ NewCall(c).result = "none"
<1>1. call[c].held \in Kids \cup {NoKid}
  BY DEF TypeOK, Call
<1>2. NoCall \in Call
  BY DEF NoCall, Call
<1>3. NewCall(c) \in Call
  BY <1>1, <1>2 DEF NewCall, Call
<1>4. QED
  BY <1>2, <1>3 DEF NewCall, NoCall, Call

LEMMA LoadBegins ==
  ASSUME KInv, NEW c \in Callers, LoadFromFileSystem(c)
  PROVE  KInv'
<1> DEFINE r == [NewCall(c) EXCEPT !.pc = "walking", !.dir = mount]
<1>1. r \in Call /\ r.held = call[c].held /\ r.pc = "walking" /\ r.dir = mount
      /\ r.pos = 1 /\ r.result = "none"
  BY NewCallFacts DEF KInv, TypeOK, Call
<1>2. call' = [call EXCEPT ![c] = r] /\ UNCHANGED <<mount, store, activeKey>>
  BY DEF LoadFromFileSystem
<1> HIDE DEF r
<1>3. /\ TypeOK' /\ ActiveResolves' /\ HiddenIgnored' /\ Frame(c)
      /\ call'[c] = r
  BY <1>1, <1>2, QuietStep
<1>4. \A i \in DOMAIN mount : ~Past(c, i)'
  <2>1. mount \in Seq(File)
    BY DirsAssumption DEF KInv, TypeOK
  <2>2. \A i \in DOMAIN mount : ~(i < 1)
    BY <2>1
  <2>3. QED
    BY <1>1, <1>3, <2>2 DEF Past
<1>5. QED
  BY <1>1, <1>3, <1>4, OwnCallSuffices

LEMMA SkipKeeps ==
  ASSUME KInv, NEW c \in Callers, SkipFile(c)
  PROVE  KInv'
<1> DEFINE r == [call[c] EXCEPT !.pos = @ + 1]
<1>1. call[c] \in Call /\ call[c].pos \in Nat /\ call[c].pc = "walking"
  BY DEF KInv, TypeOK, Call, SkipFile, Walking
<1>2. /\ r \in Call /\ r.held = call[c].held /\ r.pc = "walking"
      /\ r.dir = call[c].dir /\ r.pos = call[c].pos + 1 /\ r.result = call[c].result
  BY <1>1 DEF Call
<1>3. call' = [call EXCEPT ![c] = r] /\ UNCHANGED <<mount, store, activeKey>>
  BY <1>1 DEF SkipFile
<1> HIDE DEF r
<1>4. /\ TypeOK' /\ ActiveResolves' /\ HiddenIgnored' /\ Frame(c)
      /\ call'[c] = r /\ Stored' = Stored
  BY <1>2, <1>3, QuietStep
<1>5. call[c].result = "none"
  BY <1>1 DEF KInv, NoEarlyResult
<1>6. ASSUME NEW i \in DOMAIN call[c].dir, Past(c, i)', ~Skipped(call[c].dir[i])
      PROVE  call[c].dir[i].kid \in Stored
  <2>1. i \in Nat /\ i < call[c].pos + 1
    BY <1>1, <1>2, <1>4, <1>5, <1>6, Directories DEF KInv, Past
  <2>2. i # call[c].pos
    BY <1>6 DEF SkipFile, Listed
  <2>3. Past(c, i)
    BY <1>1, <2>1, <2>2 DEF Past
  <2>4. QED
    BY <1>6, <2>3 DEF KInv, WalkedStays
<1>7. QED
  BY <1>1, <1>2, <1>4, <1>5, <1>6, OwnCallSuffices

\* The walker has read a key: it is that of a visible file of some version.
LEMMA ReadKeeps ==
  ASSUME KInv, NEW c \in Callers, ReadFile(c)
  PROVE  KInv'
<1> DEFINE f == Current(c)
           r == [call[c] EXCEPT !.pc = "parsed", !.key = f.key]
<1>1. call[c] \in Call /\ call[c].pos \in Nat /\ call[c].pc = "walking" /\ Walking(c)
  BY DEF KInv, TypeOK, Call, ReadFile, Walking
<1>2. /\ mount \in Dirs /\ call[c].pos \in DOMAIN mount /\ call[c].pos \in DOMAIN call[c].dir
      /\ f = mount[call[c].pos] /\ f \in File
      /\ f.kid = Listed(c).kid /\ f.hidden = Listed(c).hidden
  BY <1>1, CurrentFile DEF KInv
<1>3. f.key \in Keys /\ ~f.hidden /\ Parses(f)
  BY <1>2 DEF File, ReadFile, Skipped
<1>4. /\ r \in Call /\ r.held = call[c].held /\ r.pc = "parsed" /\ r.key = f.key
      /\ r.dir = call[c].dir /\ r.pos = call[c].pos /\ r.result = call[c].result
  BY <1>1, <1>3 DEF Call
<1>5. call' = [call EXCEPT ![c] = r] /\ UNCHANGED <<mount, store, activeKey>>
  BY <1>1 DEF ReadFile
<1> HIDE DEF f, r
<1>6. /\ TypeOK' /\ ActiveResolves' /\ HiddenIgnored' /\ Frame(c)
      /\ call'[c] = r /\ Stored' = Stored
  BY <1>4, <1>5, QuietStep
<1>7. call[c].result = "none"
  BY <1>1 DEF KInv, NoEarlyResult
<1>8. ASSUME NEW i \in DOMAIN call[c].dir, Past(c, i)', ~Skipped(call[c].dir[i])
      PROVE  call[c].dir[i].kid \in Stored
  <2>1. Past(c, i)
    BY <1>1, <1>4, <1>6, <1>7, <1>8 DEF Past
  <2>2. QED
    BY <1>8, <2>1 DEF KInv, WalkedStays
<1>9. ParsedFrom(c, mount)'
  BY <1>2, <1>3, <1>4, <1>5, <1>6 DEF ParsedFrom, Listed
<1>10. \E dir \in Dirs : ParsedFrom(c, dir)'
  BY <1>2, <1>5, <1>9 DEF ParsedFrom
<1>11. QED
  BY <1>2, <1>4, <1>6, <1>7, <1>8, <1>10, OwnCallSuffices

\* The one step that changes the map: it takes no key id away, and what it puts
\* in comes from a visible file.
LEMMA StoreKeeps ==
  ASSUME KInv, NEW c \in Callers, StoreFile(c)
  PROVE  KInv'
<1> DEFINE k0 == Listed(c).kid
           n == call[c].pos + 1
           r == [call[c] EXCEPT !.pc = "walking", !.pos = n]
<1>1. /\ call[c] \in Call /\ call[c].pos \in Nat /\ call[c].pc = "parsed"
      /\ n \in Nat \ {0}
  BY DEF KInv, TypeOK, Call, StoreFile
<1>2. PICK from \in Dirs : ParsedFrom(c, from)
  BY <1>1 DEF KInv, ParsedVisible
<1>3. /\ call[c].pos \in DOMAIN call[c].dir /\ k0 = call[c].dir[call[c].pos].kid
      /\ k0 \in Kids /\ call[c].key \in Keys /\ call[c].key # NoKey
  <2>1. from \in Seq(File) /\ from[call[c].pos] \in File
    BY <1>2, DirsAssumption DEF ParsedFrom
  <2>2. call[c].pos \in DOMAIN call[c].dir
    BY <1>1 DEF KInv, ParsedVisible
  <2>3. QED
    BY <1>2, <2>1, <2>2, SentinelAssumption DEF ParsedFrom, File, Listed
<1>4. /\ r \in Call /\ r.held = call[c].held /\ r.pc = "walking"
      /\ r.dir = call[c].dir /\ r.pos = call[c].pos + 1 /\ r.result = call[c].result
  <2> HIDE DEF n
  <2>1. /\ r \in Call /\ r.held = call[c].held /\ r.pc = "walking"
        /\ r.dir = call[c].dir /\ r.pos = n /\ r.result = call[c].result
    BY <1>1 DEF Call
  <2>2. QED
    BY <2>1 DEF n
<1>5. /\ call' = [call EXCEPT ![c] = r] /\ activeKey' = activeKey /\ mount' = mount
      /\ store' = [store EXCEPT ![k0] = call[c].key]
  BY <1>1 DEF StoreFile
<1>x. ParsedFrom(c, from) => from[call[c].pos].kid = k0
  BY DEF ParsedFrom
<1> HIDE DEF k0, r
<1>6. TypeOK'
  BY <1>3, <1>4, <1>5 DEF KInv, TypeOK
<1>7. /\ k0 \in Stored' /\ \A k \in Stored : k \in Stored'
      /\ \A k \in Stored' : k = k0 \/ (k \in Stored /\ store'[k] = store[k])
      /\ store'[k0] = call[c].key
  BY <1>3, <1>5 DEF KInv, TypeOK, Stored
<1>8. Frame(c) /\ call'[c] = r /\ call' \in [Callers -> Call]
  BY <1>4, <1>5, <1>7 DEF KInv, TypeOK, Frame
<1>9. ActiveResolves'
  <2>1. {call'[d].held : d \in Callers} = {call[d].held : d \in Callers}
    BY <1>4, <1>8 DEF Frame
  <2>2. \A k \in {activeKey} \cup {call[d].held : d \in Callers} :
          k # NoKid => k \in Stored
    BY DEF KInv, ActiveResolves, Lookup, TypeOK, Call, Stored
  <2>3. \A k \in {activeKey'} \cup {call'[d].held : d \in Callers} :
          k # NoKid => k \in Stored'
    BY <1>5, <1>7, <2>1, <2>2
  <2>4. QED
    BY <2>3 DEF ActiveResolves, Lookup, Stored
<1>10. HiddenIgnored'
  <2>1. PICK f \in Visible(from) : f.kid = k0 /\ f.key = call[c].key /\ f.content = "rsa"
    BY <1>2, <1>x DEF Visible, ParsedFrom, Parses
  <2>2. SUFFICES ASSUME NEW k \in Stored'
                 PROVE  \E dir \in Dirs : \E g \in Visible(dir) :
                          g.kid = k /\ g.key = store'[k] /\ g.content = "rsa"
    BY DEF HiddenIgnored
  <2>3. CASE k = k0
    BY <1>2, <1>7, <2>1, <2>3
  <2>4. CASE k \in Stored /\ store'[k] = store[k]
    BY <2>4 DEF KInv, HiddenIgnored
  <2>5. QED
    BY <1>7, <2>3, <2>4
<1>11. call[c].result = "none"
  BY <1>1 DEF KInv, NoEarlyResult
<1>12. ASSUME NEW i \in DOMAIN call[c].dir, Past(c, i)', ~Skipped(call[c].dir[i])
       PROVE  call[c].dir[i].kid \in Stored'
  <2>1. i \in Nat /\ i < call[c].pos + 1
    BY <1>1, <1>4, <1>8, <1>11, <1>12, Directories DEF KInv, Past
  <2>2. CASE i = call[c].pos
    BY <1>3, <1>7, <2>2
  <2>3. CASE i # call[c].pos
    <3>1. Past(c, i)
      BY <1>1, <2>1, <2>3 DEF Past
    <3>2. QED
      BY <1>7, <1>12, <3>1 DEF KInv, WalkedStays
  <2>4. QED
    BY <2>2, <2>3
<1>13. QED
  BY <1>4, <1>6, <1>8, <1>9, <1>10, <1>11, <1>12, OwnCallSuffices

LEMMA FailureKeeps ==
  ASSUME KInv, NEW c \in Callers, WalkFails(c)
  PROVE  KInv'
<1> DEFINE r == [call[c] EXCEPT !.pc = "idle", !.result = "failed"]
<1>1. call[c] \in Call
  BY DEF KInv, TypeOK
<1>2. /\ r \in Call /\ r.held = call[c].held /\ r.pc = "idle"
      /\ r.dir = call[c].dir /\ r.result = "failed"
  BY <1>1 DEF Call
<1>3. call' = [call EXCEPT ![c] = r] /\ UNCHANGED <<mount, store, activeKey>>
  BY <1>1 DEF WalkFails
<1> HIDE DEF r
<1>4. /\ TypeOK' /\ ActiveResolves' /\ HiddenIgnored' /\ Frame(c)
      /\ call'[c] = r
  BY <1>2, <1>3, QuietStep
<1>5. \A i : ~Past(c, i)'
  BY <1>2, <1>4 DEF Past
<1>6. QED
  BY <1>2, <1>4, <1>5, OwnCallSuffices

\* The walk is past the end: all its visible ids are in the map, and counted.
LEMMA ReturnKeeps ==
  ASSUME KInv, NEW c \in Callers, LoadReturns(c)
  PROVE  KInv'
<1> DEFINE r == [call[c] EXCEPT !.pc = "idle", !.result = "loaded",
                                !.count = Cardinality(Stored)]
<1>1. call[c] \in Call /\ call[c].pc = "walking"
  BY DEF KInv, TypeOK, LoadReturns
<1>2. IsFiniteSet(Stored)
  BY KidsAssumption, FS_Subset DEF Stored
<1>3. Cardinality(Stored) \in Nat
  BY <1>2, FS_CardinalityType
<1>4. /\ r \in Call /\ r.held = call[c].held /\ r.pc = "idle"
      /\ r.dir = call[c].dir /\ r.result = "loaded" /\ r.count = Cardinality(Stored)
  BY <1>1, <1>3 DEF Call
<1>5. call' = [call EXCEPT ![c] = r] /\ UNCHANGED <<mount, store, activeKey>>
  BY <1>1 DEF LoadReturns
<1> HIDE DEF r
<1>6. /\ TypeOK' /\ ActiveResolves' /\ HiddenIgnored' /\ Frame(c)
      /\ call'[c] = r /\ Stored' = Stored
  BY <1>4, <1>5, QuietStep
<1>7. \A i \in DOMAIN call[c].dir :
        ~Skipped(call[c].dir[i]) => call[c].dir[i].kid \in Stored
  <2>1. \A i \in DOMAIN call[c].dir : i < call[c].pos
    BY Directories DEF KInv, LoadReturns
  <2>2. \A i \in DOMAIN call[c].dir : Past(c, i)
    BY <1>1, <2>1 DEF Past
  <2>3. QED
    BY <2>2 DEF KInv, WalkedStays
<1>8. VisibleKids(call[c].dir) \subseteq Stored
  BY <1>7 DEF VisibleKids, Visible, Skipped
<1>9. Cardinality(Stored) >= Cardinality(VisibleKids(call[c].dir))
  BY <1>2, <1>8, FS_Subset, FS_CardinalityType
<1>10. QED
  BY <1>4, <1>6, <1>7, <1>9, OwnCallSuffices

LEMMA CheckKeeps ==
  ASSUME KInv, NEW c \in Callers, NEW kid \in Kids, SetActiveKeyCheck(c, kid)
  PROVE  KInv'
<1> DEFINE r == IF IsStored(kid)
                THEN [NewCall(c) EXCEPT !.pc = "checked", !.kid = kid]
                ELSE [NewCall(c) EXCEPT !.result = "unknown"]
<1>1. /\ r \in Call /\ r.held = call[c].held /\ r.dir = <<>>
      /\ r.pc = "checked" => (r.kid \in Stored /\ r.result = "none")
      /\ r.result # "loaded" /\ r.pc \in {"idle", "checked"}
  BY NewCallFacts DEF KInv, Call, IsStored, Stored
<1>2. call' = [call EXCEPT ![c] = r] /\ UNCHANGED <<mount, store, activeKey>>
  BY DEF SetActiveKeyCheck
<1> HIDE DEF r
<1>3. /\ TypeOK' /\ ActiveResolves' /\ HiddenIgnored' /\ Frame(c)
      /\ call'[c] = r /\ Stored' = Stored
  BY <1>1, <1>2, QuietStep
<1>4. \A i : ~Past(c, i)'
  BY <1>1, <1>3 DEF Past
<1>5. QED
  BY <1>1, <1>3, <1>4, OwnCallSuffices

\* The second lock of SetActiveKey relies on what the first one has found.
LEMMA SetKeeps ==
  ASSUME KInv, NEW c \in Callers, SetActiveKeySet(c)
  PROVE  KInv'
<1> DEFINE r == [call[c] EXCEPT !.pc = "idle", !.result = "set"]
<1>1. call[c] \in Call /\ call[c].kid \in Stored
  BY DEF KInv, TypeOK, SetActiveKeySet, CheckedStays
<1>2. r \in Call /\ r.held = call[c].held /\ r.pc = "idle" /\ r.result = "set"
  BY <1>1 DEF Call
<1>3. call' = [call EXCEPT ![c] = r] /\ store' = store /\ mount' = mount
      /\ activeKey' = call[c].kid
  BY <1>1 DEF SetActiveKeySet
<1> HIDE DEF r
<1>4. /\ TypeOK' /\ Stored' = Stored /\ Frame(c) /\ call'[c] = r
      /\ {call'[d].held : d \in Callers} = {call[d].held : d \in Callers}
  BY <1>1, <1>2, <1>3 DEF KInv, TypeOK, Stored, Frame
<1>5. ActiveResolves'
  BY <1>1, <1>3, <1>4 DEF KInv, ActiveResolves, Lookup, Stored
<1>6. HiddenIgnored'
  BY <1>3, <1>4 DEF KInv, HiddenIgnored
<1>7. \A i : ~Past(c, i)'
  BY <1>2, <1>4 DEF Past
<1>8. QED
  BY <1>2, <1>4, <1>5, <1>6, <1>7, OwnCallSuffices

LEMMA GetKeeps ==
  ASSUME KInv, NEW c \in Callers, GetActiveKid(c)
  PROVE  KInv'
<1> DEFINE r == [call[c] EXCEPT !.held = activeKey]
<1>1. call[c] \in Call /\ activeKey \in Kids \cup {NoKid}
  BY DEF KInv, TypeOK
<1>2. /\ r \in Call /\ r.held = activeKey /\ r.pc = call[c].pc /\ r.kid = call[c].kid
      /\ r.dir = call[c].dir /\ r.pos = call[c].pos /\ r.result = call[c].result
      /\ r.count = call[c].count /\ r.key = call[c].key
  BY <1>1 DEF Call
<1>3. call' = [call EXCEPT ![c] = r] /\ UNCHANGED <<mount, store, activeKey>>
  BY <1>1 DEF GetActiveKid
<1> HIDE DEF r
<1>4. TypeOK' /\ Stored' = Stored /\ Frame(c) /\ call'[c] = r
  BY <1>2, <1>3 DEF KInv, TypeOK, Stored, Frame
<1>5. {call'[d].held : d \in Callers} \subseteq {activeKey} \cup {call[d].held : d \in Callers}
  BY <1>2, <1>4 DEF Frame
<1>6. ActiveResolves'
  BY <1>3, <1>5 DEF KInv, ActiveResolves, Lookup
<1>7. HiddenIgnored'
  BY <1>3, <1>4 DEF KInv, HiddenIgnored
<1>8. \A i : Past(c, i)' <=> Past(c, i)
  BY <1>2, <1>4 DEF Past
<1>9. /\ call'[c].pc = "checked" => call'[c].kid \in Stored'
      /\ call'[c].pc # "idle" => call'[c].result = "none"
      /\ call'[c].result = "loaded"
           => call'[c].count >= Cardinality(VisibleKids(call'[c].dir))
  BY <1>2, <1>4 DEF KInv, CheckedStays, NoEarlyResult, CountCovers
<1>10. \A i \in DOMAIN call'[c].dir :
         (Past(c, i)' /\ ~Skipped(call'[c].dir[i])) => call'[c].dir[i].kid \in Stored'
  BY <1>2, <1>4, <1>8 DEF KInv, WalkedStays
<1>11. call'[c].pc # "parsed"
  BY <1>2, <1>4 DEF GetActiveKid
<1>12. QED
  BY <1>4, <1>6, <1>7, <1>9, <1>10, <1>11, OwnCallSuffices

\* Another version is mounted: no call looks at what is mounted but to read a file.
LEMMA RemountKeeps ==
  ASSUME KInv, Remount \/ UNCHANGED vars PROVE KInv'
<1>1. UNCHANGED <<store, activeKey, call>> /\ mount' \in Dirs
  BY DEF Remount, vars, KInv, TypeOK
<1>2. TypeOK' /\ Stored' = Stored
  BY <1>1 DEF KInv, TypeOK, Stored
<1>3. ActiveResolves' /\ HiddenIgnored' /\ CheckedStays' /\ CountCovers' /\ NoEarlyResult'
  BY <1>1, <1>2 DEF KInv, ActiveResolves, HiddenIgnored, CheckedStays, CountCovers,
                    NoEarlyResult, Lookup
<1>4. WalkedStays' /\ ParsedVisible'
  BY <1>1, <1>2 DEF KInv, WalkedStays, Past, ParsedVisible, ParsedFrom, Listed
<1>5. QED
  BY <1>2, <1>3, <1>4 DEF KInv

LEMMA NextKInv == KInv /\ [Next]_vars => KInv'
<1> SUFFICES ASSUME KInv, [Next]_vars PROVE KInv'
  OBVIOUS
<1>1. ASSUME NEW c \in Callers, Step(c) PROVE KInv'
  BY <1>1, LoadBegins, SkipKeeps, ReadKeeps, StoreKeeps, FailureKeeps, ReturnKeeps,
     CheckKeeps, SetKeeps, GetKeeps DEF Step
<1>2. CASE Remount \/ UNCHANGED vars
  BY <1>2, RemountKeeps
<1>3. QED
  BY <1>1, <1>2 DEF Next

-------------------------------------------------------------------------------
\* The invariant holds in every behaviour of the key store.
THEOREM KeyStoreInvariance == Spec => []KInv
BY InitKInv, NextKInv, PTL DEF Spec

\* The map, the active key and the calls have their types.
THEOREM KeyStoreTypes == Spec => []TypeOK
<1>1. KInv => TypeOK
  BY DEF KInv
<1>2. QED
  BY <1>1, KeyStoreInvariance, PTL

\* SetActiveKey checks and sets under two locks, and yet no key id that it makes
\* active, or that GetActiveKid hands out, is ever without a key.
THEOREM ActiveKeyAlwaysResolves == Spec => []ActiveResolves
<1>1. KInv => ActiveResolves
  BY DEF KInv
<1>2. QED
  BY <1>1, KeyStoreInvariance, PTL

\* No key gets into the map from a hidden directory.
THEOREM HiddenNeverLoaded == Spec => []HiddenIgnored
<1>1. KInv => HiddenIgnored
  BY DEF KInv
<1>2. QED
  BY <1>1, KeyStoreInvariance, PTL

\* A load that reports success has loaded and counted every key id that was visible
\* when it began, and they stay loaded, whatever other goroutines do and whatever is
\* mounted meanwhile.
THEOREM LoadsComplete == Spec => []LoadComplete
<1>1. KInv => LoadComplete
  <2> SUFFICES ASSUME KInv, NEW c \in Callers, call[c].result = "loaded"
               PROVE  /\ VisibleKids(call[c].dir) \subseteq Stored
                      /\ call[c].count >= Cardinality(VisibleKids(call[c].dir))
    BY DEF LoadComplete
  <2>1. \A i \in DOMAIN call[c].dir :
          ~Skipped(call[c].dir[i]) => call[c].dir[i].kid \in Stored
    BY DEF KInv, WalkedStays, Past
  <2>2. VisibleKids(call[c].dir) \subseteq Stored
    BY <2>1 DEF VisibleKids, Visible, Skipped
  <2>3. QED
    BY <2>2 DEF KInv, CountCovers
<1>2. QED
  BY <1>1, KeyStoreInvariance, PTL

\* Every step between locks is a step of the atomic key ring or none.
THEOREM RingRefinement == Spec => ImplementsRing
<1>1. Init => Ring!Init
  BY DEF Init, Ring!Init, EmptyStore
<1>2. KInv /\ [Next]_vars => [Ring!Next]_(Ring!vars)
  <2> SUFFICES ASSUME KInv, [Next]_vars, ~UNCHANGED <<store, activeKey>>
               PROVE  Ring!Next
    BY DEF Ring!vars
  <2>1. PICK c \in Callers : StoreFile(c) \/ SetActiveKeySet(c)
    BY DEF Next, vars, Step, LoadFromFileSystem, SkipFile, ReadFile, WalkFails, LoadReturns,
           SetActiveKeyCheck, GetActiveKid, Remount
  <2>2. CASE StoreFile(c)
    <3>1. PICK from \in Dirs : ParsedFrom(c, from)
      BY <2>2 DEF KInv, ParsedVisible, StoreFile
    <3>2. Listed(c).kid \in Kids /\ call[c].key \in Keys
      <4>1. from \in Seq(File) /\ from[call[c].pos] \in File
        BY <3>1, DirsAssumption DEF ParsedFrom
      <4>2. QED
        BY <3>1, <4>1 DEF ParsedFrom, File
    <3>3. QED
      BY <2>2, <3>2 DEF StoreFile, Ring!Next, Ring!Put
  <2>3. CASE SetActiveKeySet(c)
    <3>1. call[c].kid \in Stored
      BY <2>3 DEF KInv, CheckedStays, SetActiveKeySet
    <3>2. QED
      BY <2>3, <3>1 DEF SetActiveKeySet, Ring!Next, Ring!Activate, Stored
  <2>4. QED
    BY <2>1, <2>2, <2>3
<1>3. QED
  BY <1>1, <1>2, KeyStoreInvariance, PTL DEF Spec, ImplementsRing, Ring!Spec
===============================================================================
