----------------------------- MODULE AuthTokens ------------------------------
(***************************************************************************)
(* Tokens over the life of several service processes: main loads the       *)
(* mounted keys into a KeyStore, activates the configured one and serves;  *)
(* requests have tokens signed and verified (internal/auth); the process   *)
(* crashes and is started again, while the mounted secret may change under *)
(* its feet, in the middle of a load too.  Tokens live on in the hands of  *)
(* the clients.                                                            *)
(*                                                                         *)
(* The process uses the store through KeyStore's own steps, with main as   *)
(* the one caller; the requests only look keys up.                         *)
(***************************************************************************)
EXTENDS KeyStore

CONSTANTS
  ActiveKid,  \* the option Auth.ActiveKey
  main        \* the goroutine of main

ASSUME CallersAssumption == Callers = {main}
ASSUME ActiveKidAssumption == ActiveKid \in Kids

VARIABLES
  startDir, \* what this process found when it listed the directory (history)
  during,   \* the versions that were mounted while it loaded (history)
  phase,    \* what the process is doing
  kid,      \* the key id the handlers were given (handler.kid)
  tokens,   \* the unexpired tokens: key id in the header, key of the signature
  signed    \* those of them the running process has signed (history)

authVars == <<startDir, during, phase, kid, tokens, signed>>
allVars == <<vars, authVars>>

Token == [kid : Kids, key : Keys]

AuthTypeOK ==
  /\ TypeOK
  /\ startDir \in Dirs
  /\ during \subseteq Dirs
  /\ phase \in {"down", "loading", "activating", "serving"}
  /\ kid \in Kids \cup {NoKid}
  /\ tokens \subseteq Token
  /\ signed \subseteq tokens

AuthInit ==
  /\ Init
  /\ startDir = mount /\ during = {}
  /\ phase = "down"
  /\ kid = NoKid
  /\ tokens = {}
  /\ signed = {}

(***************************************************************************)
(* The process (main.go, "Auth init").                                     *)
(***************************************************************************)
\* A new process has an empty store and starts to load what is mounted now.
Start ==
  /\ phase = "down"
  /\ LoadFromFileSystem(main)
  /\ startDir' = mount
  /\ during' = {mount}
  /\ phase' = "loading"
  /\ UNCHANGED <<kid, tokens, signed>>

Load ==
  /\ phase = "loading"
  /\ SkipFile(main) \/ ReadFile(main) \/ StoreFile(main) \/ LoadReturns(main)
  /\ phase' = IF call'[main].result = "loaded" THEN "activating" ELSE "loading"
  /\ UNCHANGED <<startDir, during, kid, tokens, signed>>

\* The end of the process, by a crash, a kill, or an error that run returns:
\* the memory is gone.
Gone ==
  /\ store' = EmptyStore
  /\ activeKey' = NoKid
  /\ call' = [c \in Callers |-> NoCall]
  /\ phase' = "down"
  /\ kid' = NoKid
  /\ signed' = {}
  /\ UNCHANGED <<mount, startDir, during, tokens>>

\* Mutant of LoadFails: run logs the error and goes on with what it has.
LoadFailsSoftly ==
  /\ phase = "loading"
  /\ WalkFails(main)
  /\ phase' = "activating"
  /\ UNCHANGED <<startDir, during, kid, tokens, signed>>

\* LoadFromFileSystem returns an error, and so does run.
LoadFails ==
  /\ phase = "loading" /\ Unloadable(main)
  /\ Gone

Activate ==
  /\ phase = "activating"
  /\ \/ /\ call[main].result # "set" /\ IsStored(ActiveKid)
        /\ SetActiveKeyCheck(main, ActiveKid)
        /\ UNCHANGED <<phase, kid>>
     \/ /\ SetActiveKeySet(main)
        /\ UNCHANGED <<phase, kid>>
     \/ /\ call[main].result = "set"
        /\ GetActiveKid(main)
        /\ kid' = activeKey
        /\ phase' = "serving"
  /\ UNCHANGED <<startDir, during, tokens, signed>>

\* Mutant of ActivateFails: run goes on without an active key.
ServesAnyway ==
  /\ phase = "activating" /\ call[main].pc = "idle"
  /\ ~IsStored(ActiveKid)
  /\ phase' = "serving"
  /\ UNCHANGED <<vars, startDir, during, kid, tokens, signed>>

\* SetActiveKey returns an error, and so does run.
ActivateFails ==
  /\ phase = "activating" /\ call[main].pc = "idle"
  /\ ~IsStored(ActiveKid)
  /\ Gone

Crash == phase # "down" /\ Gone

(***************************************************************************)
(* Requests, operator and clock.                                           *)
(***************************************************************************)
\* GenerateToken: the header names the key id, the signature is made with the
\* private key found under it.
GenerateToken ==
  /\ phase = "serving" /\ Lookup(kid) # NoKey
  /\ LET token == [kid |-> kid, key |-> Lookup(kid)]
     IN tokens' = tokens \cup {token} /\ signed' = signed \cup {token}
  /\ UNCHANGED <<vars, startDir, during, phase, kid>>

\* Mutant of VerifyToken: any key of the store will do.
VerifyTokenAnyKey(token) == \E k \in Stored : Lookup(k) = token.key

\* VerifyToken, of a token that has not expired: its key id is in the store and
\* the public key found there fits the signature.
VerifyToken(token) == Lookup(token.kid) # NoKey /\ Lookup(token.kid) = token.key

\* The mounted secret changes.  A load in progress opens its remaining files in
\* the new version; the process does not look at the directory again.
Rotate ==
  /\ Remount
  /\ during' = IF phase = "loading" THEN during \cup {mount'} ELSE during
  /\ UNCHANGED <<startDir, phase, kid, tokens, signed>>

\* A token reaches its age.
Expire ==
  /\ \E token \in tokens :
       /\ tokens' = tokens \ {token}
       /\ signed' = signed \ {token}
  /\ UNCHANGED <<vars, startDir, during, phase, kid>>

AuthNext ==
  \/ Start \/ Load \/ LoadFails \/ Activate \/ ActivateFails \/ Crash
  \/ GenerateToken \/ Rotate \/ Expire

AuthSpec == AuthInit /\ [][AuthNext]_allVars

(***************************************************************************)
(* Properties.                                                             *)
(***************************************************************************)
\* What main handed to the handlers can always sign, and what the process has
\* signed it accepts until it expires, however the mounted secret changes.
SignerVerifies ==
  phase = "serving" =>
    /\ kid = ActiveKid /\ Lookup(kid) # NoKey
    /\ \A token \in signed : VerifyToken(token)

\* The paths of a listing whose file is loaded as the key of id k, and the last of
\* them, whose key stays in the map.
Places(dir, k) == {i \in DOMAIN dir : dir[i].kid = k /\ ~Skipped(dir[i])}

LastPlaces(dir, k) == {i \in Places(dir, k) : \A j \in Places(dir, k) : j <= i}

\* The keys that this path held while the process loaded: one, unless the secret
\* was changed at that moment; none if the id was not listed.
Carried(k) ==
  UNION {{dir[i].key : dir \in {d \in during : Parses(d[i])}} : i \in LastPlaces(startDir, k)}

\* Which tokens of earlier processes a process accepts is decided by the secret
\* that was mounted while it loaded, one key id at a time: it accepts no key that
\* was not the last file of its id then, and none that was is refused unless the
\* secret changed during the load.  So a restart with the same secret refuses no
\* token, one with another refuses those of the keys that are gone, a swap in the
\* middle of a load leaves each id with its old key or its new one, and without a
\* restart nothing is revoked.
AcceptsWhatWasMounted ==
  phase = "serving" =>
    \A token \in tokens :
      /\ VerifyToken(token) => token.key \in Carried(token.kid)
      /\ Carried(token.kid) = {token.key} => VerifyToken(token)

\* Several wrong files are never enough to serve with part of the keys: every
\* .pem file that was visible at the start is loaded before the first request,
\* though the secret may change during the load.
ServesAllOrNothing ==
  phase = "serving" => VisibleKids(startDir) \subseteq Stored
==============================================================================
