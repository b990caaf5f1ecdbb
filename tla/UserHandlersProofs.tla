-------------------------- MODULE UserHandlersProofs -------------------------
(***************************************************************************)
(* Proofs about UserHandlers, for every number of users, addresses, role   *)
(* lists and concurrent requests, and for both wirings.                    *)
(*                                                                         *)
(* The argument has two layers.  A step does one of four things to the     *)
(* table: nothing, an insertion under a fresh id, a replacement that keeps *)
(* the roles, a removal: it is a step of UserDirectory (TableStep).  Such  *)
(* a step preserves what is known of every slot and every token            *)
(* (SlotStable, TokenStable), so that an action only has to establish the  *)
(* facts for the one slot and the one token it writes.                     *)
(***************************************************************************)
EXTENDS UserHandlers, TLAPS

(***************************************************************************)
(* The inductive invariant.                                                *)
(***************************************************************************)
\* What is known of a slot s when the table is t and the ids ever used are u.
SlotInv(s, t, u) ==
  /\ s.pc = "idle" => s.actor = NoID
  /\ s.pc # "idle" =>
       /\ s.actor \in u
       /\ s.snap \in Row
       /\ s.snap.enabled
       /\ s.resp = "none"
       /\ s.claims = s.snap.roles
       /\ t[s.actor] # NoRow => t[s.actor].roles = s.snap.roles
  /\ s.pc = "deleting" =>
       /\ s.target \in u
       /\ s.target = s.actor \/ "admin" \in s.snap.roles
  /\ s.resp = "noContent" => s.target \in u /\ t[s.target] = NoRow

\* What is known of a token c.
TokenInv(c, t, u) ==
  /\ c.sub \in u
  /\ t[c.sub] # NoRow => t[c.sub].roles = c.roles

\* Only ids that were used have a row.
Present == \A id \in UserIDs : users[id] # NoRow => id \in used

IInv ==
  /\ TypeOK
  /\ Present
  /\ UniqueEmail
  /\ \A r \in Requests : SlotInv(req[r], users, used)
  /\ \A c \in issued : TokenInv(c, users, used)

\* One step of the abstract directory, or none.
TableStep == Directory!Next \/ UNCHANGED <<users, used>>

\* The initial state satisfies the inductive invariant.
LEMMA InitInv == Init => IInv
<1> SUFFICES ASSUME Init PROVE IInv
  OBVIOUS
<1>1. Idle("none", NoID, "none") \in Slot
  BY DEF Idle, Slot, Ops, Outcomes
<1>2. TypeOK
  BY <1>1 DEF Init, TypeOK
<1>3. Present /\ UniqueEmail
  BY DEF Init, Present, UniqueEmail
<1>4. \A r \in Requests : SlotInv(req[r], users, used)
  BY DEF Init, SlotInv, Idle
<1>5. \A c \in issued : TokenInv(c, users, used)
  BY DEF Init
<1> QED
  BY <1>2, <1>3, <1>4, <1>5 DEF IInv

(***************************************************************************)
(* What a step of the directory preserves.                                 *)
(***************************************************************************)
\* The table keeps its type, its rows keep to used ids and to distinct
\* addresses.
LEMMA TableStable ==
  ASSUME TypeOK, Present, UniqueEmail, TableStep
  PROVE  /\ users' \in [UserIDs -> Row \cup {NoRow}]
         /\ used' \subseteq UserIDs
         /\ used \subseteq used'
         /\ Present'
         /\ UniqueEmail'
<1>0. CASE UNCHANGED <<users, used>>
  BY <1>0 DEF TypeOK, Present, UniqueEmail
<1>1. CASE Directory!Insert
  <2>1. PICK id \in UserIDs \ used, row \in Row :
          /\ Directory!EmailFree(row.email, id)
          /\ users' = [users EXCEPT ![id] = row]
          /\ used' = used \cup {id}
    BY <1>1 DEF Directory!Insert, Directory!Row, Row
  <2>2. Present'
    BY <2>1 DEF TypeOK, Present
  <2>3. UniqueEmail'
    BY <2>1 DEF TypeOK, UniqueEmail, Directory!EmailFree
  <2> QED
    BY <2>1, <2>2, <2>3 DEF TypeOK
<1>2. CASE Directory!Replace
  <2>1. PICK id \in UserIDs, row \in Row :
          /\ users[id] # NoRow
          /\ Directory!EmailFree(row.email, id)
          /\ users' = [users EXCEPT ![id] = row]
          /\ used' = used
    BY <1>2 DEF Directory!Replace, Directory!Row, Row
  <2>2. Present'
    BY <2>1 DEF TypeOK, Present
  <2>3. UniqueEmail'
    BY <2>1 DEF TypeOK, UniqueEmail, Directory!EmailFree
  <2> QED
    BY <2>1, <2>2, <2>3 DEF TypeOK
<1>3. CASE Directory!Remove
  <2>1. PICK id \in UserIDs :
          /\ users' = [users EXCEPT ![id] = NoRow]
          /\ used' = used
    BY <1>3 DEF Directory!Remove
  <2>2. Present'
    BY <2>1 DEF TypeOK, Present
  <2>3. UniqueEmail'
    BY <2>1 DEF TypeOK, UniqueEmail
  <2> QED
    BY <2>1, <2>2, <2>3 DEF TypeOK
<1> QED
  BY <1>0, <1>1, <1>2, <1>3 DEF TableStep, Directory!Next

\* The roles of a used id never change while it has a row, and an absent row
\* of a used id stays absent.
LEMMA UsedRows ==
  ASSUME TypeOK, Present, TableStep, NEW id \in used
  PROVE  /\ users'[id] # NoRow =>
              users[id] # NoRow /\ users'[id].roles = users[id].roles
         /\ id \in used'
<1>0. CASE UNCHANGED <<users, used>>
  BY <1>0
<1>1. CASE Directory!Insert
  BY <1>1 DEF Directory!Insert, TypeOK
<1>2. CASE Directory!Replace
  BY <1>2 DEF Directory!Replace, TypeOK
<1>3. CASE Directory!Remove
  BY <1>3 DEF Directory!Remove, TypeOK
<1> QED
  BY <1>0, <1>1, <1>2, <1>3 DEF TableStep, Directory!Next

\* What is known of a slot outlives every step on the table.
LEMMA SlotStable ==
  ASSUME TypeOK, Present, TableStep,
         NEW s, SlotInv(s, users, used)
  PROVE  SlotInv(s, users', used')
<1>1. s.pc # "idle" =>
        /\ s.actor \in used'
        /\ users'[s.actor] # NoRow => users'[s.actor].roles = s.snap.roles
  BY UsedRows DEF SlotInv
<1>2. s.pc = "deleting" => s.target \in used'
  BY UsedRows DEF SlotInv
<1>3. s.resp = "noContent" => s.target \in used' /\ users'[s.target] = NoRow
  BY UsedRows DEF SlotInv
<1> QED
  BY <1>1, <1>2, <1>3 DEF SlotInv

\* What is known of a token outlives every step on the table.
LEMMA TokenStable ==
  ASSUME TypeOK, Present, TableStep,
         NEW c, TokenInv(c, users, used)
  PROVE  TokenInv(c, users', used')
  BY UsedRows DEF TokenInv

(***************************************************************************)
(* What an action has to establish.                                        *)
(***************************************************************************)
\* The slot and the tokens a step of slot r leaves behind are as they must be.
StepOK(r) ==
  /\ TableStep
  /\ \E s \in Slot :
       req' = [req EXCEPT ![r] = s] /\ SlotInv(s, users', used')
  /\ issued' \subseteq [sub : used', roles : RoleSets]
  /\ \A c \in issued' : TokenInv(c, users', used')

\* A finished request leaves a slot about which, unless it answered 204, there
\* is nothing to know.
LEMMA IdleSlot ==
  ASSUME NEW op \in Ops \cup {"none"}, NEW id \in UserIDs \cup {NoID},
         NEW resp \in Outcomes \cup {"none"}, NEW t, NEW u,
         resp = "noContent" => id \in u /\ t[id] = NoRow
  PROVE  /\ Idle(op, id, resp) \in Slot
         /\ SlotInv(Idle(op, id, resp), t, u)
  BY DEF Idle, Slot, SlotInv

\* Every token signed before the step is as it must be after it.
LEMMA OldTokens ==
  ASSUME IInv, TableStep
  PROVE  /\ issued \subseteq [sub : used', roles : RoleSets]
         /\ \A c \in issued : TokenInv(c, users', used')
<1>1. used \subseteq used'
  BY TableStable DEF IInv
<1>2. issued \subseteq [sub : used', roles : RoleSets]
  BY <1>1 DEF IInv, TypeOK
<1>3. \A c \in issued : TokenInv(c, users', used')
  BY TokenStable DEF IInv
<1> QED
  BY <1>2, <1>3

\* A step that only ends a request, without a 204, preserves everything.
LEMMA QuietFinish ==
  ASSUME IInv, NEW r \in Requests,
         NEW op \in Ops \cup {"none"}, NEW id \in UserIDs \cup {NoID},
         NEW resp \in Outcomes \ {"noContent"},
         Finish(r, op, id, resp), UNCHANGED <<users, used, issued>>
  PROVE  StepOK(r)
<1>1. TableStep
  BY DEF TableStep
<1>2. /\ Idle(op, id, resp) \in Slot
      /\ SlotInv(Idle(op, id, resp), users', used')
  BY IdleSlot
<1>3. /\ issued' \subseteq [sub : used', roles : RoleSets]
      /\ \A c \in issued' : TokenInv(c, users', used')
  BY <1>1, OldTokens
<1> QED
  BY <1>1, <1>2, <1>3 DEF StepOK, Finish

(***************************************************************************)
(* One lemma per action.                                                   *)
(***************************************************************************)
\* An insertion happens under an id without row, token or request.
LEMMA CreateUserOK ==
  ASSUME IInv, NEW r \in Requests, CreateUser(r)
  PROVE  StepOK(r)
<1>1. CASE /\ Finish(r, "create", NoID, "badRequest")
           /\ UNCHANGED <<users, used, issued>>
  BY <1>1, QuietFinish DEF Ops, Outcomes
<1>2. CASE \E nu \in NewUser :
             /\ nu.password \in TooLong
             /\ Finish(r, "create", NoID, "internal")
             /\ UNCHANGED <<users, used, issued>>
  BY <1>2, QuietFinish DEF Ops, Outcomes
<1>3. ASSUME NEW nu \in NewUser, NEW id \in FreshIDs,
             nu.password \notin TooLong,
             NEW res \in StoreCreate(id, BusCreate(nu)),
             users' = res.table,
             used' = IF res.table = users THEN used ELSE used \cup {id},
             issued' = IF res.err = "none"
                       THEN issued \cup {Claims(id, nu.roles)} ELSE issued,
             Finish(r, "create", id,
                    CASE res.err = "none"       -> "created"
                      [] res.err = "duplicated" -> "badRequest"
                      [] res.err = "other"      -> "internal")
      PROVE  StepOK(r)
  <2> DEFINE row == BusCreate(nu)
             ins == [users EXCEPT ![id] = row]
             out == CASE res.err = "none"       -> "created"
                      [] res.err = "duplicated" -> "badRequest"
                      [] res.err = "other"      -> "internal"
  <2>1. /\ id \in UserIDs /\ id \notin used /\ users[id] = NoRow
        /\ row \in Row /\ row.roles = nu.roles /\ row.enabled = TRUE
        /\ row # NoRow
    <3>1. id \in UserIDs /\ id \notin used /\ users[id] = NoRow
      BY DEF FreshIDs, IInv, Present
    <3>2. row.roles = nu.roles /\ row.enabled = TRUE
      BY DEF BusCreate
    <3>3. row \in Row
      BY <1>3 DEF BusCreate, NewUser, Row
    <3> QED
      BY <3>1, <3>2, <3>3, SentinelAssumption
  <2>2. \/ ~EmailTaken(row.email, id) /\ res \in {Result(ins, "none"), Result(ins, "other")}
        \/ res.table = users /\ res.err \in {"duplicated", "other"}
    BY <1>3 DEF StoreCreate, Executed, NotExecuted, Result
  <2> HIDE DEF row
  <2>3. res.err \in {"none", "duplicated", "other"}
    BY <2>2 DEF Result
  <2>4. out \in Outcomes \ {"noContent"}
    BY <2>3 DEF Outcomes
  <2>5. Idle("create", id, out) \in Slot /\ SlotInv(Idle("create", id, out), users', used')
    <3> HIDE DEF out
    <3> QED BY <2>1, <2>4, IdleSlot DEF Ops
  <2>6. CASE /\ ~EmailTaken(row.email, id)
             /\ res \in {Result(ins, "none"), Result(ins, "other")}
    <3>0. ins[id] = row /\ ins # users
      BY <2>1 DEF IInv, TypeOK
    <3>1. users' = ins /\ used' = used \cup {id}
      <4> HIDE DEF ins
      <4> QED BY <1>3, <2>6, <3>0 DEF Result
    <3>2. Directory!EmailFree(row.email, id)
      BY <2>6 DEF EmailTaken, Directory!EmailFree
    <3>3. TableStep
      BY <2>1, <3>1, <3>2
      DEF TableStep, Directory!Next, Directory!Insert, Directory!Row, Row
    <3>4. /\ Claims(id, nu.roles) \in [sub : used', roles : RoleSets]
          /\ TokenInv(Claims(id, nu.roles), users', used')
      BY <1>3, <2>1, <3>1 DEF Claims, TokenInv, NewUser, IInv, TypeOK
    <3>5. issued' \subseteq issued \cup {Claims(id, nu.roles)}
      BY <1>3
    <3>6. /\ issued' \subseteq [sub : used', roles : RoleSets]
          /\ \A c \in issued' : TokenInv(c, users', used')
      BY <3>3, <3>4, <3>5, OldTokens
    <3> QED
      BY <1>3, <2>5, <3>3, <3>6 DEF StepOK, Finish
  <2>7. CASE res.table = users /\ res.err \in {"duplicated", "other"}
    <3>1. UNCHANGED <<users, used, issued>>
      BY <1>3, <2>7
    <3>2. TableStep
      BY <3>1 DEF TableStep
    <3> QED
      BY <1>3, <2>5, <3>1, <3>2, OldTokens DEF StepOK, Finish
  <2> QED
    BY <2>2, <2>6, <2>7
<1> QED
  BY <1>1, <1>2, <1>3 DEF CreateUser

\* Login changes no row; its token carries the roles of the row it read.
LEMMA LoginOK ==
  ASSUME IInv, NEW r \in Requests, Login(r)
  PROVE  StepOK(r)
<1>0. TableStep
  BY DEF Login, TableStep
<1>1. CASE Finish(r, "login", NoID, "badRequest") /\ issued' = issued
  BY <1>1, QuietFinish DEF Login, Ops, Outcomes
<1>2. ASSUME NEW id \in UserIDs, users[id] # NoRow,
             Finish(r, "login", id, "ok"),
             issued' = issued \cup {Claims(id, users[id].roles)}
      PROVE  StepOK(r)
  <2>1. users' = users /\ used' = used /\ id \in used /\ users[id] \in Row
    BY <1>2 DEF Login, IInv, Present, TypeOK
  <2>2. /\ Claims(id, users[id].roles) \in [sub : used', roles : RoleSets]
        /\ TokenInv(Claims(id, users[id].roles), users', used')
    BY <2>1 DEF Claims, TokenInv, Row
  <2>3. /\ issued' \subseteq [sub : used', roles : RoleSets]
        /\ \A c \in issued' : TokenInv(c, users', used')
    BY <1>0, <1>2, <2>2, OldTokens
  <2>4. /\ Idle("login", id, "ok") \in Slot
        /\ SlotInv(Idle("login", id, "ok"), users', used')
    BY <1>2, IdleSlot DEF Ops, Outcomes
  <2> QED
    BY <1>0, <1>2, <2>3, <2>4 DEF StepOK, Finish
<1> QED
  BY <1>1, <1>2 DEF Login, BusAuthenticate, FoundByEmail, Found

\* The snapshot is the row of an enabled user, and agrees with the token.
LEMMA AuthenticateOK ==
  ASSUME IInv, NEW r \in Requests, Authenticate(r)
  PROVE  StepOK(r)
<1>0. UNCHANGED <<users, used, issued>> /\ TableStep
  BY DEF Authenticate, TableStep
<1>1. CASE Reject(r, "unauthorized") \/ Reject(r, "internal")
  BY <1>0, <1>1, QuietFinish DEF Reject, Outcomes
<1>2. ASSUME NEW token \in issued, Admitted(token.sub),
             req' = [req EXCEPT ![r] =
               [pc |-> "authenticated", actor |-> token.sub,
                snap |-> users[token.sub], claims |-> token.roles,
                target |-> NoID, op |-> "none", resp |-> "none"]]
      PROVE  StepOK(r)
  <2> DEFINE s == [pc |-> "authenticated", actor |-> token.sub,
                   snap |-> users[token.sub], claims |-> token.roles,
                   target |-> NoID, op |-> "none", resp |-> "none"]
  <2>1. /\ token.sub \in used /\ token.sub \in UserIDs
        /\ token.roles \in RoleSets
        /\ users[token.sub] # NoRow /\ users[token.sub] \in Row
        /\ users[token.sub].roles = token.roles
        /\ users[token.sub].enabled
    BY <1>2 DEF IInv, TypeOK, TokenInv, Admitted, Found
  <2>2. s \in Slot
    BY <2>1 DEF Slot
  <2>3. SlotInv(s, users', used')
    BY <1>0, <2>1 DEF SlotInv
  <2> QED
    BY <1>0, <1>2, <2>2, <2>3, OldTokens DEF StepOK
<1> QED
  BY <1>1, <1>2 DEF Authenticate, VerifiedTokens

\* mid.Authorized only ends the request.
LEMMA RefuseOK ==
  ASSUME IInv, NEW r \in Requests, Refuse(r)
  PROVE  StepOK(r)
  BY QuietFinish DEF Refuse, Ops, Outcomes

\* A lookup only ends the request.
LEMMA QueryUserByIDOK ==
  ASSUME IInv, NEW r \in Requests, QueryUserByID(r)
  PROVE  StepOK(r)
<1>0. UNCHANGED <<users, used, issued>>
  BY DEF QueryUserByID
<1>1. CASE Finish(r, "query", NoID, "badRequest")
  BY <1>0, <1>1, QuietFinish DEF Ops, Outcomes
<1>2. ASSUME NEW id \in UserIDs, NEW out \in {"notFound", "ok", "internal"},
             Finish(r, "query", id, out)
      PROVE  StepOK(r)
  BY <1>0, <1>2, QuietFinish DEF Ops, Outcomes
<1> QED
  BY <1>1, <1>2 DEF QueryUserByID

\* The write back of a stale snapshot replaces a row and keeps its roles, or
\* meets an absent row and does nothing.
LEMMA UpdateUserOK ==
  ASSUME IInv, NEW r \in Requests, UpdateUser(r)
  PROVE  StepOK(r)
<1>0. used' = used /\ issued' = issued
  BY DEF UpdateUser
<1>1. ASSUME NEW id \in UserIDs \cup {NoID},
             NEW out \in {"badRequest", "unauthorized", "panic", "internal"},
             Finish(r, "update", id, out), users' = users
      PROVE  StepOK(r)
  BY <1>0, <1>1, QuietFinish DEF Ops, Outcomes
<1>2. req[r].actor \in UserIDs \cup {NoID}
  BY DEF IInv, TypeOK, Slot
<1>3. ASSUME NEW uu \in UpdateBody, ~NoUser(r), ~ConversionPanics(uu),
             uu.password \notin TooLong,
             NEW res \in StoreUpdate(req[r].actor, BusUpdate(req[r].snap, uu)),
             users' = res.table,
             Finish(r, "update", req[r].actor,
                    CASE res.err = "none"       -> "ok"
                      [] res.err = "duplicated" -> "badRequest"
                      [] res.err = "other"      -> "internal")
      PROVE  StepOK(r)
  <2> DEFINE id == req[r].actor
             row == BusUpdate(req[r].snap, uu)
             upd == [users EXCEPT ![id] = row]
             out == CASE res.err = "none"       -> "ok"
                      [] res.err = "duplicated" -> "badRequest"
                      [] res.err = "other"      -> "internal"
  <2>1. /\ id \in used /\ id \in UserIDs /\ req[r].snap \in Row
        /\ users[id] # NoRow => users[id].roles = req[r].snap.roles
    <3>1. req[r].pc # "idle"
      BY <1>3 DEF IInv, SlotInv, NoUser
    <3>2. id \in UserIDs
      BY <1>2, <1>3 DEF NoUser
    <3> QED
      BY <3>1, <3>2 DEF IInv, SlotInv
  <2>2. row \in Row /\ row.roles = req[r].snap.roles
    <3>1. /\ uu.email \in Emails
          /\ uu.profile \in Profiles \cup {Absent}
          /\ uu.password \in Passwords \cup {Absent}
          /\ uu.enabled \in BOOLEAN \cup {Absent}
      BY <1>3 DEF UpdateBody, ConversionPanics
    <3>2. /\ req[r].snap.profile \in Profiles
          /\ req[r].snap.password \in Passwords \ TooLong
          /\ req[r].snap.enabled \in BOOLEAN
          /\ req[r].snap.roles \in RoleSets
      BY <2>1 DEF Row
    <3>3. (IF uu.enabled = Absent THEN req[r].snap.enabled ELSE uu.enabled)
             \in BOOLEAN
      BY <3>1, <3>2, Zenon
    <3>4. (IF uu.password = Absent THEN req[r].snap.password ELSE uu.password)
             \in Passwords \ TooLong
      BY <1>3, <3>1, <3>2
    <3>5. (IF uu.profile = Absent THEN req[r].snap.profile ELSE uu.profile)
             \in Profiles
      BY <3>1, <3>2
    <3> QED
      BY <3>1, <3>2, <3>3, <3>4, <3>5 DEF BusUpdate, Row
  <2>3. \/ /\ users[id] # NoRow
           /\ ~EmailTaken(row.email, id)
           /\ res \in {Result(upd, "none"), Result(upd, "other")}
        \/ res.table = users /\ res.err \in {"none", "duplicated", "other"}
    <3> HIDE DEF row
    <3> QED
      BY <1>3 DEF StoreUpdate, Executed, NotExecuted, Result, row
  <2> HIDE DEF row, id
  <2>4. out \in Outcomes \ {"noContent"}
    <3>1. res.err \in {"none", "duplicated", "other"}
      BY <2>3 DEF Result
    <3> QED
      BY <3>1 DEF Outcomes
  <2>5. /\ Idle("update", id, out) \in Slot
        /\ SlotInv(Idle("update", id, out), users', used')
    <3> HIDE DEF out
    <3> QED
      BY <2>1, <2>4, IdleSlot DEF Ops
  <2>6. req' = [req EXCEPT ![r] = Idle("update", id, out)]
    BY <1>3 DEF Finish, id
  <2>7. TableStep
    <3>1. CASE res.table = users
      BY <1>0, <1>3, <3>1 DEF TableStep
    <3>2. CASE /\ users[id] # NoRow
               /\ ~EmailTaken(row.email, id)
               /\ res \in {Result(upd, "none"), Result(upd, "other")}
      <4>1. users' = upd
        BY <1>3, <3>2 DEF Result
      <4>2. Directory!EmailFree(row.email, id)
        BY <3>2 DEF EmailTaken, Directory!EmailFree
      <4>3. row.roles = users[id].roles
        BY <2>1, <2>2, <3>2
      <4> QED
        BY <1>0, <2>1, <2>2, <3>2, <4>1, <4>2, <4>3
        DEF TableStep, Directory!Next, Directory!Replace, Directory!Row, Row
    <3> QED
      BY <2>3, <3>1, <3>2
  <2> QED
    BY <1>0, <2>5, <2>6, <2>7, OldTokens DEF StepOK
<1> QED
  BY <1>1, <1>2, <1>3 DEF UpdateUser

\* UpdateRole only ends the request.
LEMMA UpdateRoleOK ==
  ASSUME IInv, NEW r \in Requests, UpdateRole(r)
  PROVE  StepOK(r)
  BY QuietFinish DEF UpdateRole, Ops, Outcomes

\* DisableUser only ends the request.
LEMMA DisableUserOK ==
  ASSUME IInv, NEW r \in Requests, DisableUser(r)
  PROVE  StepOK(r)
<1>1. UNCHANGED <<users, used, issued>>
  BY DEF DisableUser
<1>2. ASSUME NEW id \in UserIDs \cup {NoID},
             NEW out \in Outcomes \ {"noContent"},
             Finish(r, "disable", id, out)
      PROVE  StepOK(r)
  BY <1>1, <1>2, QuietFinish DEF Ops
<1> QED
  BY <1>2 DEF DisableUser, Outcomes

\* The fetch remembers a target that has, or had, a row.
LEMMA DeleteUserFetchOK ==
  ASSUME IInv, NEW r \in Requests, DeleteUserFetch(r)
  PROVE  StepOK(r)
<1>1. UNCHANGED <<users, used, issued>> /\ TableStep
  BY DEF DeleteUserFetch, TableStep
<1>2. ASSUME NEW id \in UserIDs \cup {NoID},
             NEW out \in Outcomes \ {"noContent"},
             Finish(r, "delete", id, out)
      PROVE  StepOK(r)
  BY <1>1, <1>2, QuietFinish DEF Ops
<1>3. ASSUME NEW id \in UserIDs, ~(req[r].actor # id /\ ~IsAdmin(r)),
             users[id] # NoRow,
             req' = [req EXCEPT ![r].pc = "deleting",
                                ![r].target = id, ![r].op = "delete"]
      PROVE  StepOK(r)
  <2> DEFINE s == [req[r] EXCEPT !.pc = "deleting", !.target = id, !.op = "delete"]
  <2>1. req[r] \in Slot /\ SlotInv(req[r], users, used)
    BY DEF IInv, TypeOK
  <2>2. ~NoUser(r) /\ (req[r].actor = id \/ "admin" \in req[r].snap.roles)
    BY <1>3, SentinelAssumption DEF IsAdmin, NoUser
  <2>3. req[r].pc # "idle"
    BY <2>1, <2>2 DEF SlotInv, NoUser
  <2>4. id \in used
    BY <1>3 DEF IInv, Present
  <2>5. s \in Slot
    BY <2>1 DEF Slot, Ops
  <2>6. /\ s.pc = "deleting" /\ s.target = id /\ s.resp = req[r].resp
        /\ s.actor = req[r].actor /\ s.snap = req[r].snap
        /\ s.claims = req[r].claims
    BY <2>1 DEF Slot
  <2>7. SlotInv(s, users', used')
    <3> HIDE DEF s
    <3> QED
      BY <1>1, <2>1, <2>2, <2>3, <2>4, <2>6 DEF SlotInv
  <2>8. req' = [req EXCEPT ![r] = s]
    BY <1>3, <2>1 DEF IInv, TypeOK
  <2> QED
    BY <1>1, <2>5, <2>7, <2>8, OldTokens DEF StepOK
<1> QED
  BY <1>2, <1>3 DEF DeleteUserFetch, Found, Outcomes

\* After a 204 the target is absent.
LEMMA DeleteUserExecOK ==
  ASSUME IInv, NEW r \in Requests, DeleteUserExec(r)
  PROVE  StepOK(r)
<1> DEFINE id == req[r].target
           del == [users EXCEPT ![id] = NoRow]
<1>0. used' = used /\ issued' = issued
  BY DEF DeleteUserExec
<1>1. id \in used /\ id \in UserIDs
  BY DEF DeleteUserExec, IInv, SlotInv, TypeOK
<1>2. PICK res \in StoreDelete(id) :
        /\ users' = res.table
        /\ Finish(r, "delete", id,
                  IF res.err = "none" THEN "noContent" ELSE "internal")
  BY DEF DeleteUserExec
<1> DEFINE out == IF res.err = "none" THEN "noContent" ELSE "internal"
<1>3. \/ users' = del
      \/ users' = users /\ res.err # "none"
  BY <1>2 DEF StoreDelete, Executed, NotExecuted, Result
<1>4. TableStep
  <2>1. CASE users' = users \/ users[id] = NoRow
    BY <1>0, <1>1, <1>3, <2>1 DEF TableStep, IInv, TypeOK
  <2>2. CASE users' = del /\ users[id] # NoRow
    BY <1>0, <1>1, <2>2 DEF TableStep, Directory!Next, Directory!Remove
  <2> QED
    BY <1>3, <2>1, <2>2
<1>5. out = "noContent" => id \in used' /\ users'[id] = NoRow
  BY <1>0, <1>1, <1>3 DEF IInv, TypeOK
<1>6. /\ Idle("delete", id, out) \in Slot
      /\ SlotInv(Idle("delete", id, out), users', used')
  <2>1. out \in Outcomes
    BY DEF Outcomes
  <2> HIDE DEF out, id
  <2> QED
    BY <1>1, <1>5, <2>1, IdleSlot DEF Ops
<1> QED
  BY <1>0, <1>2, <1>4, <1>6, OldTokens DEF StepOK, Finish

(***************************************************************************)
(* The invariant is inductive.                                             *)
(***************************************************************************)
\* Every action establishes StepOK.
LEMMA StepsOK ==
  ASSUME IInv, NEW r \in Requests, Step(r)
  PROVE  StepOK(r)
  BY CreateUserOK, LoginOK, AuthenticateOK, RefuseOK, QueryUserByIDOK,
     UpdateUserOK, UpdateRoleOK, DisableUserOK, DeleteUserFetchOK,
     DeleteUserExecOK
  DEF Step

\* What StepOK says of one slot is enough for all of them.
LEMMA StepInv == IInv /\ [Next]_vars => IInv'
<1> SUFFICES ASSUME IInv, [Next]_vars PROVE IInv'
  OBVIOUS
<1>1. CASE UNCHANGED vars
  BY <1>1 DEF vars, IInv, TypeOK, Present, UniqueEmail
<1>2. ASSUME NEW r \in Requests, Step(r) PROVE IInv'
  <2>1. StepOK(r)
    BY <1>2, StepsOK
  <2>2. PICK s \in Slot : req' = [req EXCEPT ![r] = s] /\ SlotInv(s, users', used')
    BY <2>1 DEF StepOK
  <2>3. TableStep
    BY <2>1 DEF StepOK
  <2>4. /\ users' \in [UserIDs -> Row \cup {NoRow}]
        /\ used' \subseteq UserIDs
        /\ Present' /\ UniqueEmail'
    BY <2>3, TableStable DEF IInv
  <2>5. req' \in [Requests -> Slot]
    BY <2>2 DEF IInv, TypeOK
  <2>6. TypeOK'
    BY <2>1, <2>4, <2>5 DEF StepOK, TypeOK
  <2>7. \A q \in Requests : SlotInv(req'[q], users', used')
    <3> SUFFICES ASSUME NEW q \in Requests PROVE SlotInv(req'[q], users', used')
      OBVIOUS
    <3>1. CASE q = r
      BY <2>2, <3>1 DEF IInv, TypeOK
    <3>2. CASE q # r
      <4>1. req'[q] = req[q]
        BY <2>2, <3>2 DEF IInv, TypeOK
      <4>2. SlotInv(req[q], users', used')
        BY <2>3, SlotStable DEF IInv
      <4> QED
        BY <4>1, <4>2
    <3> QED
      BY <3>1, <3>2
  <2>8. \A c \in issued' : TokenInv(c, users', used')
    BY <2>1 DEF StepOK
  <2> QED
    BY <2>4, <2>6, <2>7, <2>8 DEF IInv
<1> QED
  BY <1>1, <1>2 DEF Next

\* The inductive invariant holds in every reachable state of every instance.
THEOREM Invariance == Spec => []IInv
<1>1. Init => IInv
  BY InitInv
<1>2. IInv /\ [Next]_vars => IInv'
  BY StepInv
<1> QED
  BY <1>1, <1>2, PTL DEF Spec

\* The table, the tokens and the slots keep their types: in particular no
\* optional field of a body and no unhashable password reaches the table.
THEOREM TypeCorrect == Spec => []TypeOK
<1>1. IInv => TypeOK
  BY DEF IInv
<1> QED
  BY <1>1, Invariance, PTL

\* E-mail addresses stay distinct, however requests interleave and fail.
THEOREM EmailsDistinct == Spec => []UniqueEmail
<1>1. IInv => UniqueEmail
  BY DEF IInv
<1> QED
  BY <1>1, Invariance, PTL

\* A DELETE answered with 204 is final.
THEOREM DeleteIsFinal == Spec => []DeleteAck
<1>1. IInv => DeleteAck
  BY DEF IInv, SlotInv, DeleteAck
<1> QED
  BY <1>1, Invariance, PTL

\* The roles in tokens and snapshots are the roles in the table.
THEOREM RolesFresh == Spec => []RolesNeverStale
<1>1. IInv => RolesNeverStale
  BY DEF IInv, SlotInv, TokenInv, RolesNeverStale
<1> QED
  BY <1>1, Invariance, PTL

(***************************************************************************)
(* Refinement, and the action properties.                                  *)
(***************************************************************************)
\* Every step is a step of the directory, or leaves the table alone.
LEMMA NextTable ==
  ASSUME IInv, [Next]_vars
  PROVE  TableStep
<1>1. CASE UNCHANGED vars
  BY <1>1 DEF vars, TableStep
<1>2. CASE Next
  BY <1>2, StepsOK DEF Next, StepOK
<1> QED
  BY <1>1, <1>2

\* Every behaviour of the handlers is a behaviour of the abstract directory.
THEOREM Refinement == Spec => ImplementsDirectory
<1>1. Init => Directory!Init
  BY DEF Init, Directory!Init
<1>2. IInv /\ [Next]_vars => [Directory!Next]_(Directory!vars)
  BY NextTable DEF TableStep, Directory!vars
<1> QED
  BY <1>1, <1>2, Invariance, PTL DEF Spec, ImplementsDirectory, Directory!Spec

\* A deleted row never comes back.
THEOREM NeverResurrected == Spec => NoResurrection
<1>1. ASSUME IInv, [Next]_vars
      PROVE  \A id \in UserIDs :
               users[id] = NoRow /\ users'[id] # NoRow => id \notin used
  <2>1. TableStep
    BY <1>1, NextTable
  <2> QED
    BY <1>1, <2>1, UsedRows DEF IInv
<1> QED
  BY <1>1, Invariance, PTL DEF Spec, NoResurrection

\* A step that changes an existing row is the write back of UpdateUser or the
\* statement of DeleteUser, and it ends its request.
LEMMA RowWrites ==
  ASSUME IInv, NEW r \in Requests, Step(r), NEW id \in UserIDs,
         users[id] # NoRow, users'[id] # users[id]
  PROVE  /\ req[r].pc # "idle" /\ req'[r].pc = "idle"
         /\ \/ req[r].actor = id
            \/ "admin" \in req[r].snap.roles /\ users'[id] = NoRow
<1>0. /\ req \in [Requests -> Slot]
      /\ users \in [UserIDs -> Row \cup {NoRow}]
      /\ SlotInv(req[r], users, used)
  BY DEF IInv, TypeOK
<1>1. CASE users' = users
  BY <1>1
<1>2. CASE CreateUser(r) /\ users' # users
  <2>1. PICK nu \in NewUser, new \in FreshIDs :
          \E res \in StoreCreate(new, BusCreate(nu)) : users' = res.table
    BY <1>2 DEF CreateUser
  <2>2. users' = [users EXCEPT ![new] = BusCreate(nu)]
    BY <1>2, <2>1 DEF StoreCreate, Executed, NotExecuted, Result
  <2>3. new \in UserIDs /\ users[new] = NoRow
    BY DEF FreshIDs, IInv, Present
  <2> QED
    BY <1>0, <2>2, <2>3
<1>3. CASE UpdateUser(r) /\ users' # users
  <2>1. PICK uu \in UpdateBody :
          /\ ~NoUser(r)
          /\ \E res \in StoreUpdate(req[r].actor, BusUpdate(req[r].snap, uu)) :
               users' = res.table
    BY <1>3 DEF UpdateUser
  <2>2. users' = [users EXCEPT ![req[r].actor] = BusUpdate(req[r].snap, uu)]
    BY <1>3, <2>1 DEF StoreUpdate, Executed, NotExecuted, Result
  <2>3. req[r].actor = id
    BY <1>0, <2>2
  <2>4. req[r].pc # "idle"
    BY <1>0, <2>1 DEF SlotInv, NoUser
  <2>5. req'[r].pc = "idle"
    BY <1>0, <1>3 DEF UpdateUser, Finish, Idle
  <2> QED
    BY <2>3, <2>4, <2>5
<1>4. CASE DeleteUserExec(r) /\ users' # users
  <2>1. users' = [users EXCEPT ![req[r].target] = NoRow]
    BY <1>4 DEF DeleteUserExec, StoreDelete, Executed, NotExecuted, Result
  <2>2. req[r].target = id /\ users'[id] = NoRow
    BY <1>0, <2>1
  <2>3. req[r].pc = "deleting"
    BY <1>4 DEF DeleteUserExec
  <2>4. req'[r].pc = "idle"
    BY <1>0, <1>4 DEF DeleteUserExec, Finish, Idle
  <2> QED
    BY <1>0, <2>2, <2>3, <2>4 DEF SlotInv
<1> QED
  BY <1>1, <1>2, <1>3, <1>4
  DEF Step, Login, Authenticate, Refuse, QueryUserByID, UpdateRole,
      DisableUser, DeleteUserFetch

\* An existing row changes only through its owner, or is deleted by an admin.
THEOREM OnlyOwnersAndAdminsWrite == Spec => WriteAuthority
<1>1. ASSUME IInv, [Next]_vars
      PROVE  \A id \in UserIDs :
               users[id] # NoRow /\ users'[id] # users[id] =>
                 \E r \in Requests :
                   /\ req[r].pc # "idle" /\ req'[r].pc = "idle"
                   /\ \/ req[r].actor = id
                      \/ "admin" \in req[r].snap.roles /\ users'[id] = NoRow
  BY <1>1, RowWrites DEF Next, vars
<1> QED
  BY <1>1, Invariance, PTL DEF Spec, WriteAuthority

\* A disabled row is enabled again only by a request let in before.
THEOREM DisablingLasts == Spec => DisabledSticks
<1>1. ASSUME IInv, [Next]_vars
      PROVE  \A id \in UserIDs :
               (/\ users[id] # NoRow /\ users'[id] # NoRow
                /\ ~users[id].enabled /\ users'[id].enabled)
               => \E r \in Requests : req[r].actor = id /\ req[r].snap.enabled
  <2> SUFFICES ASSUME NEW id \in UserIDs, users[id] # NoRow,
                      users'[id] # NoRow, users'[id] # users[id]
               PROVE  \E r \in Requests :
                        req[r].actor = id /\ req[r].snap.enabled
    OBVIOUS
  <2>1. PICK r \in Requests : Step(r)
    BY <1>1 DEF Next, vars
  <2>2. req[r].pc # "idle" /\ req[r].actor = id
    BY <1>1, <2>1, RowWrites
  <2> QED
    BY <1>1, <2>2 DEF IInv, SlotInv
<1> QED
  BY <1>1, Invariance, PTL DEF Spec, DisabledSticks

(***************************************************************************)
(* The order routes.go registers.                                          *)
(***************************************************************************)
\* No request ever holds a user.
AllIdle == \A r \in Requests : req[r].pc = "idle"

\* With the handlers before the middleware, no row is ever changed or deleted.
THEOREM RegisteredRowsFrozen ==
  ASSUME Wiring = "registered"
  PROVE  Spec => RowsFrozen
<1>0. ~AuthenticateRunsFirst
  BY DEF AuthenticateRunsFirst
<1>1. Init => AllIdle
  BY DEF Init, AllIdle, Idle
<1>2. ASSUME IInv, AllIdle, [Next]_vars PROVE AllIdle'
  <2>1. CASE UNCHANGED vars
    BY <1>2, <2>1 DEF AllIdle, vars
  <2>2. ASSUME NEW r \in Requests, Step(r) PROVE AllIdle'
    <3>1. req[r].pc = "idle" /\ req[r].actor = NoID
      BY <1>2 DEF AllIdle, IInv, SlotInv
    <3>2. \E op, id, resp : Finish(r, op, id, resp)
      <4>1. CASE DeleteUserFetch(r)
        BY <3>1, <4>1, SentinelAssumption DEF DeleteUserFetch, IsAdmin, NoUser
      <4>2. CASE DeleteUserExec(r)
        BY <3>1, <4>2 DEF DeleteUserExec
      <4>3. CASE Authenticate(r) \/ Refuse(r)
        BY <1>0, <4>3 DEF Authenticate, Refuse
      <4>4. CASE CreateUser(r) \/ Login(r) \/ QueryUserByID(r)
        BY <4>4 DEF CreateUser, Login, QueryUserByID
      <4>5. CASE UpdateUser(r)
        BY <4>5 DEF UpdateUser
      <4>6. CASE UpdateRole(r) \/ DisableUser(r)
        BY <4>6 DEF UpdateRole, DisableUser
      <4> QED
        BY <2>2, <4>1, <4>2, <4>3, <4>4, <4>5, <4>6 DEF Step
    <3> QED
      BY <1>2, <3>2 DEF Finish, Idle, AllIdle, IInv, TypeOK
  <2> QED
    BY <1>2, <2>1, <2>2 DEF Next
<1>3. ASSUME IInv, AllIdle, [Next]_vars
      PROVE  \A id \in UserIDs : users[id] # NoRow => users'[id] = users[id]
  BY <1>3, RowWrites DEF AllIdle, Next, vars
<1> QED
  BY <1>1, <1>2, <1>3, Invariance, PTL DEF Spec, RowsFrozen
==============================================================================
