------------------------------ MODULE KeyStore -------------------------------
(***************************************************************************)
(* pkg/keystore: an in-memory map from key ids to RSA keys, shared by      *)
(* goroutines.  Every critical section of its RWMutex is one step here.    *)
(* LoadFromFileSystem takes the lock once for every file and once more to  *)
(* count; SetActiveKey takes it twice, to check and to set.                *)
(*                                                                         *)
(* The directory that is loaded is a mounted secret, which may change at   *)
(* any time.  A version of it is a sequence over its paths in the order    *)
(* fs.WalkDir meets them; a path lies in a hidden directory (a name that   *)
(* begins with ".." as Kubernetes makes them) or in the mounted directory  *)
(* itself.  WalkDir lists that directory once, when the walk begins, but   *)
(* the walker opens every file when it gets there, in the version that is  *)
(* mounted then.  The key id is the file's base name without ".pem" and    *)
(* without surrounding space, so two paths may share one.                  *)
(***************************************************************************)
EXTENDS Naturals, Sequences, FiniteSets

CONSTANTS
  Callers,   \* goroutines that use the store
  Kids,      \* key ids
  Keys,      \* RSA key pairs
  Dirs,      \* the versions of the mounted directory
  NoKey, NoKid

\* What a file holds: "rsa" is an RSA key with the PEM type PRIVATE KEY, in
\* either encoding; "pkcs1" one with the type RSA PRIVATE KEY, which is how
\* PKCS#1 is labelled; "ec" another key; "garbage" no key, a truncated file
\* included; "unreadable" cannot be opened or read, such as a link whose target
\* the swap of a secret has taken away; "other" is no .pem file; at an "absent"
\* path the version has no file.
Contents == {"rsa", "pkcs1", "ec", "garbage", "unreadable", "other", "absent"}

File == [kid : Kids, key : Keys, content : Contents, hidden : BOOLEAN]

ASSUME DirsAssumption == \A dir \in Dirs : dir \in Seq(File)

\* The versions are about the same paths, which decide the key id, whether the
\* file is hidden and whether it is a .pem file.
ASSUME PathsAssumption ==
  \A d, e \in Dirs :
    /\ Len(d) = Len(e)
    /\ \A i \in DOMAIN d :
         /\ d[i].kid = e[i].kid
         /\ d[i].hidden = e[i].hidden
         /\ d[i].content = "other" <=> e[i].content = "other"

ASSUME KidsAssumption == IsFiniteSet(Kids)
ASSUME SentinelAssumption == NoKey \notin Keys /\ NoKid \notin Kids

VARIABLES
  mount,       \* the version of the directory that is mounted now
  store,       \* the map: a key, or NoKey, for every key id
  activeKey,   \* the field activeKey, NoKid while it is empty
  call         \* for every caller: its call in progress and its last result

vars == <<mount, store, activeKey, call>>

\* pc "walking": in WalkDir, before path number pos of the listing dir; "parsed":
\* with the key of that file and before the lock; "checked": between the two locks
\* of SetActiveKey(kid).  held is what GetActiveKid last returned.
Call ==
  [pc : {"idle", "walking", "parsed", "checked"}, dir : Dirs \cup {<<>>},
   pos : Nat \ {0}, key : Keys \cup {NoKey},
   kid : Kids \cup {NoKid}, held : Kids \cup {NoKid},
   result : {"none", "loaded", "failed", "set", "unknown"}, count : Nat]

TypeOK ==
  /\ mount \in Dirs
  /\ store \in [Kids -> Keys \cup {NoKey}]
  /\ activeKey \in Kids \cup {NoKid}
  /\ call \in [Callers -> Call]

NoCall ==
  [pc |-> "idle", dir |-> <<>>, pos |-> 1, key |-> NoKey, kid |-> NoKid,
   held |-> NoKid, result |-> "none", count |-> 0]

\* A caller keeps the key id it holds from call to call.
NewCall(c) == [NoCall EXCEPT !.held = call[c].held]

\* Mutant of EmptyStore: New does not make the map.
NilMap == [kid \in {} |-> NoKey]

\* The map New makes.
EmptyStore == [kid \in Kids |-> NoKey]

Init ==
  /\ mount \in Dirs
  /\ store = EmptyStore
  /\ activeKey = NoKid
  /\ call = [c \in Callers |-> NoCall]

Stored == {kid \in Kids : store[kid] # NoKey}

(***************************************************************************)
(* The mounted secret.                                                     *)
(***************************************************************************)
\* Another version takes the place of the one that is mounted: the operator's, or
\* a state the kubelet passes through on its way there.
Remount ==
  /\ \E dir \in Dirs \ {mount} : mount' = dir
  /\ UNCHANGED <<store, activeKey, call>>

(***************************************************************************)
(* LoadFromFileSystem.                                                     *)
(***************************************************************************)
\* The walker passes over hidden directories and over files without ".pem", and
\* never hears of a path that was not there when the directory was listed.
Skipped(f) == f.hidden \/ f.content \in {"other", "absent"}

\* A PEM block of type PRIVATE KEY that parses to an RSA key.
Parses(f) == f.content = "rsa"

\* The walk begins: the directory is listed.
LoadFromFileSystem(c) ==
  /\ call[c].pc = "idle"
  /\ call' = [call EXCEPT ![c] = [NewCall(c) EXCEPT !.pc = "walking", !.dir = mount]]
  /\ UNCHANGED <<mount, store, activeKey>>

\* The entry of the listing the walk of caller c is at.
Listed(c) == call[c].dir[call[c].pos]

\* The file that is found when the walker opens that path.
Current(c) == mount[call[c].pos]

Walking(c) == call[c].pc = "walking" /\ call[c].pos <= Len(call[c].dir)

SkipFile(c) ==
  /\ Walking(c) /\ Skipped(Listed(c))
  /\ call' = [call EXCEPT ![c].pos = @ + 1]
  /\ UNCHANGED <<mount, store, activeKey>>

\* The file is opened, read and parsed, without the lock.
ReadFile(c) ==
  /\ Walking(c) /\ ~Skipped(Listed(c)) /\ Parses(Current(c))
  /\ call' = [call EXCEPT ![c].pc = "parsed", ![c].key = Current(c).key]
  /\ UNCHANGED <<mount, store, activeKey>>

\* Its key is stored under its base name, over whatever is there.
StoreFile(c) ==
  /\ call[c].pc = "parsed"
  /\ store' = [store EXCEPT ![Listed(c).kid] = call[c].key]
  /\ call' = [call EXCEPT ![c].pc = "walking", ![c].pos = @ + 1]
  /\ UNCHANGED <<mount, activeKey>>

\* Any other file ends the walk with an error, and so does one that is gone.
Unloadable(c) == Walking(c) /\ ~Skipped(Listed(c)) /\ ~Parses(Current(c))

WalkFails(c) ==
  /\ Unloadable(c)
  /\ call' = [call EXCEPT ![c].pc = "idle", ![c].result = "failed"]
  /\ UNCHANGED <<mount, store, activeKey>>

\* The number of keys in the map, not of files loaded, is returned.
LoadReturns(c) ==
  /\ call[c].pc = "walking" /\ call[c].pos > Len(call[c].dir)
  /\ call' = [call EXCEPT ![c].pc = "idle", ![c].result = "loaded",
                          ![c].count = Cardinality(Stored)]
  /\ UNCHANGED <<mount, store, activeKey>>

(***************************************************************************)
(* SetActiveKey, GetActiveKid, PublicKey and PrivateKey.                   *)
(***************************************************************************)
\* The lookup under the read lock.
IsStored(kid) == store[kid] # NoKey

SetActiveKeyCheck(c, kid) ==
  /\ call[c].pc = "idle"
  /\ call' = [call EXCEPT ![c] =
                IF IsStored(kid)
                THEN [NewCall(c) EXCEPT !.pc = "checked", !.kid = kid]
                ELSE [NewCall(c) EXCEPT !.result = "unknown"]]
  /\ UNCHANGED <<mount, store, activeKey>>

SetActiveKeySet(c) ==
  /\ call[c].pc = "checked"
  /\ activeKey' = call[c].kid
  /\ call' = [call EXCEPT ![c].pc = "idle", ![c].result = "set"]
  /\ UNCHANGED <<mount, store>>

GetActiveKid(c) ==
  /\ call[c].pc = "idle"
  /\ call' = [call EXCEPT ![c].held = activeKey]
  /\ UNCHANGED <<mount, store, activeKey>>

\* PublicKey and PrivateKey: the key, or NoKey for ErrKeyNotFound.
Lookup(kid) == store[kid]

------------------------------------------------------------------------------
Step(c) ==
  \/ LoadFromFileSystem(c)
  \/ SkipFile(c) \/ ReadFile(c) \/ StoreFile(c) \/ WalkFails(c) \/ LoadReturns(c)
  \/ \E kid \in Kids : SetActiveKeyCheck(c, kid)
  \/ SetActiveKeySet(c)
  \/ GetActiveKid(c)

Next == (\E c \in Callers : Step(c)) \/ Remount

Spec == Init /\ [][Next]_vars

(***************************************************************************)
(* Properties.                                                             *)
(***************************************************************************)
\* Between the two locks of SetActiveKey other callers may load or fail to
\* load: the active key, and every key id GetActiveKid ever returned, still
\* name a key, so that PrivateKey never answers ErrKeyNotFound for them.
ActiveResolves ==
  \A kid \in {activeKey} \cup {call[c].held : c \in Callers} :
    kid # NoKid => Lookup(kid) # NoKey

\* The files of a directory that are not hidden.
Visible(dir) == {dir[i] : i \in {j \in DOMAIN dir : ~dir[j].hidden}}

\* The key ids of its visible .pem files.
VisibleKids(dir) ==
  {f.kid : f \in {g \in Visible(dir) : g.content \notin {"other", "absent"}}}

\* A load that succeeds has loaded the id of every .pem file that was visible when
\* it began, whatever other callers did and whatever was mounted meanwhile, and the
\* number it returns covers them all.
LoadComplete ==
  \A c \in Callers :
    call[c].result = "loaded" =>
      /\ VisibleKids(call[c].dir) \subseteq Stored
      /\ call[c].count >= Cardinality(VisibleKids(call[c].dir))

\* Kubernetes shows every file of a secret twice, once in a hidden directory:
\* a key gets into the map from a visible file only.
HiddenIgnored ==
  \A kid \in Stored :
    \E dir \in Dirs : \E f \in Visible(dir) :
      f.kid = kid /\ f.key = store[kid] /\ f.content = "rsa"

\* The steps between the locks implement a store whose operations are atomic.
Ring == INSTANCE KeyRing WITH store <- store, activeKey <- activeKey

ImplementsRing == Ring!Spec
==============================================================================
