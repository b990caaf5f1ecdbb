---------------------------- MODULE UserHandlers -----------------------------
(***************************************************************************)
(* Concurrent HTTP requests to /v1/users over one PostgreSQL table.        *)
(*                                                                         *)
(* gin serves every request in a goroutine of its own and no transaction   *)
(* or lock spans two statements, so the requests interleave between their  *)
(* database accesses: an action below is one handler, or the part of a     *)
(* handler from one database access up to the next.  What a request keeps  *)
(* from an access (the bus.User that mid.Authenticate stores in the gin    *)
(* context) is a snapshot that may be stale when it is used.               *)
(*                                                                         *)
(* resp is the outcome the handler reports (c.JSON, c.Status, c.Error or a *)
(* panic); what the middleware chain makes of it is RequestPipeline's      *)
(* subject.                                                                *)
(***************************************************************************)
EXTENDS UserModel

CONSTANTS
  Requests,   \* slots of concurrent requests, each reused for ever
  Wiring      \* the order of a protected route's chain, see below

\* "registered" is the order of routes.go: the handler, then the middleware.
\* "intended" is the order the handlers are written for and handler_test.go
\* arranges ("add the owner into ctx to pass the auth checks inside handler").
ASSUME WiringAssumption == Wiring \in {"registered", "intended"}

VARIABLES
  users,    \* the users table: a row, or NoRow, for every id
  used,     \* the ids ever inserted (history; uuid.New does not repeat one)
  issued,   \* the claims (subject and roles) of the tokens signed so far
  req       \* for every slot: where its request is and what it holds

vars == <<users, used, issued, req>>

Ops == {"create", "login", "query", "update", "role", "disable", "delete"}

Outcomes ==
  {"ok", "created", "noContent", "badRequest", "unauthorized", "notFound",
   "internal", "panic"}

\* The states of a slot.  "idle": no request, op and resp tell the last one's
\* outcome; "authenticated": mid.Authenticate has stored the actor, its row
\* snap and the roles its token claims in the context; "deleting": DeleteUser
\* has fetched its target.
Slot ==
  [pc : {"idle", "authenticated", "deleting"},
   actor : UserIDs \cup {NoID}, snap : Row \cup {NoRow},
   claims : RoleSets \cup {{}}, target : UserIDs \cup {NoID},
   op : Ops \cup {"none"}, resp : Outcomes \cup {"none"}]

TypeOK ==
  /\ users \in [UserIDs -> Row \cup {NoRow}]
  /\ used \subseteq UserIDs
  /\ issued \subseteq [sub : used, roles : RoleSets]
  /\ req \in [Requests -> Slot]

Idle(op, id, resp) ==
  [pc |-> "idle", actor |-> NoID, snap |-> NoRow, claims |-> {},
   target |-> id, op |-> op, resp |-> resp]

Init ==
  /\ users = [id \in UserIDs |-> NoRow]
  /\ used = {}
  /\ issued = {}
  /\ req = [r \in Requests |-> Idle("none", NoID, "none")]

\* The request in slot r ends with outcome resp.
Finish(r, op, id, resp) == req' = [req EXCEPT ![r] = Idle(op, id, resp)]

(***************************************************************************)
(* The store (userdb.go) over the table.  An operation is the set of its   *)
(* possible results: the table it leaves and the error it returns.  Error  *)
(* "other" is any failure of the driver, the connection or the context's   *)
(* deadline; it tells nothing of whether the statement was executed.       *)
(***************************************************************************)
EmailTaken(e, id) ==
  \E other \in UserIDs \ {id} : users[other] # NoRow /\ users[other].email = e

Result(table, err) == [table |-> table, err |-> err]

Executed(table) == {Result(table, "none"), Result(table, "other")}

NotExecuted(err) == {Result(users, err), Result(users, "other")}

\* INSERT: unique_violation becomes ErrDuplicatedEmail.
StoreCreate(id, row) ==
  IF EmailTaken(row.email, id)
  THEN NotExecuted("duplicated")
  ELSE Executed([users EXCEPT ![id] = row]) \cup NotExecuted("other")

\* Mutant of StoreUpdate: the table lacks its UNIQUE constraint.
StoreUpdateUnconstrained(id, row) ==
  IF users[id] = NoRow
  THEN NotExecuted("none")
  ELSE Executed([users EXCEPT ![id] = row]) \cup NotExecuted("other")

\* UPDATE ... WHERE id: of an absent row it changes nothing and succeeds.
StoreUpdate(id, row) ==
  IF users[id] = NoRow
  THEN NotExecuted("none")
  ELSE IF EmailTaken(row.email, id)
       THEN NotExecuted("duplicated")
       ELSE Executed([users EXCEPT ![id] = row]) \cup NotExecuted("other")

\* Mutant of StoreDelete: the statement's error is swallowed.
StoreDeleteUnchecked(id) ==
  {Result([users EXCEPT ![id] = NoRow], "none"), Result(users, "none")}

\* DELETE ... WHERE id: of an absent row it succeeds.
StoreDelete(id) ==
  Executed([users EXCEPT ![id] = NoRow]) \cup NotExecuted("other")

\* SELECT ... WHERE id: ErrUserNotFound or the row.
Found(id) == users[id] # NoRow

\* SELECT ... WHERE email.
FoundByEmail(email) == {id \in UserIDs : Found(id) /\ users[id].email = email}

(***************************************************************************)
(* The business layer (bus.go).                                            *)
(***************************************************************************)
\* Mutant of FreshIDs: the id of a deleted row may be drawn again.
RecycledIDs == {id \in UserIDs : users[id] = NoRow}

\* uuid.New: an id that no user ever had.
FreshIDs == UserIDs \ used

\* Mutant of BusCreate: Enabled is left at its zero value.
BusCreateDisabled(nu) ==
  [email |-> nu.email, profile |-> nu.profile, roles |-> nu.roles,
   password |-> nu.password, enabled |-> FALSE]

\* bus.Create: the row of a new user whose password could be hashed.
BusCreate(nu) ==
  [email |-> nu.email, profile |-> nu.profile, roles |-> nu.roles,
   password |-> nu.password, enabled |-> TRUE]

\* Mutant of BusUpdate: the roles fall back to a default.
BusUpdateDefaultRoles(snap, uu) ==
  [email    |-> uu.email,
   profile  |-> IF uu.profile = Absent THEN snap.profile ELSE uu.profile,
   roles    |-> {"user"},
   password |-> IF uu.password = Absent THEN snap.password ELSE uu.password,
   enabled  |-> IF uu.enabled = Absent THEN snap.enabled ELSE uu.enabled]

\* bus.Update: the whole row that is written back, from the caller's snapshot.
BusUpdate(snap, uu) ==
  [email    |-> uu.email,
   profile  |-> IF uu.profile = Absent THEN snap.profile ELSE uu.profile,
   roles    |-> snap.roles,
   password |-> IF uu.password = Absent THEN snap.password ELSE uu.password,
   enabled  |-> IF uu.enabled = Absent THEN snap.enabled ELSE uu.enabled]

\* bus.Authenticate: the users a login with these credentials finds.
BusAuthenticate(email, password) ==
  {id \in FoundByEmail(email) : password = users[id].password}

\* Mutant of ConversionPanics: a missing e-mail is stored as it is.
ConversionLenient(uu) == FALSE

\* toBusUpdateUser dereferences the e-mail pointer whatever the body holds.
ConversionPanics(uu) == uu.email = Absent

(***************************************************************************)
(* Routes without authentication.                                          *)
(***************************************************************************)
\* The payload of the token GenerateToken signs.
Claims(id, roles) == [sub |-> id, roles |-> roles]

\* POST /: bind, hash, insert under a fresh id, sign a token.  The token may
\* fail to be signed after the insert: one more way to end in "internal"
\* with the row in the table.
CreateUser(r) ==
  /\ req[r].pc = "idle"
  /\ \/ /\ Finish(r, "create", NoID, "badRequest")
        /\ UNCHANGED <<users, used, issued>>
     \/ \E nu \in NewUser :
          /\ nu.password \in TooLong
          /\ Finish(r, "create", NoID, "internal")
          /\ UNCHANGED <<users, used, issued>>
     \/ \E nu \in NewUser, id \in FreshIDs :
          /\ nu.password \notin TooLong
          /\ \E res \in StoreCreate(id, BusCreate(nu)) :
               /\ users' = res.table
               /\ used' = IF res.table = users THEN used ELSE used \cup {id}
               /\ issued' = IF res.err = "none"
                            THEN issued \cup {Claims(id, nu.roles)} ELSE issued
               /\ Finish(r, "create", id,
                         CASE res.err = "none"       -> "created"
                           [] res.err = "duplicated" -> "badRequest"
                           [] res.err = "other"      -> "internal")

\* POST /login: every error is answered with 400.  A disabled user gets its
\* token; mid.Authenticate is where it is turned away.
Login(r) ==
  /\ req[r].pc = "idle"
  /\ \/ /\ Finish(r, "login", NoID, "badRequest")
        /\ issued' = issued
     \/ \E email \in Emails, password \in Passwords :
        \E id \in BusAuthenticate(email, password) :
          /\ Finish(r, "login", id, "ok")
          /\ issued' = issued \cup {Claims(id, users[id].roles)}
  /\ UNCHANGED <<users, used>>

(***************************************************************************)
(* mid.Authenticate, where it runs before the handler.                     *)
(***************************************************************************)
\* Mutant of AuthenticateRunsFirst: the middleware comes first on every route.
MiddlewareFirst == TRUE

AuthenticateRunsFirst == Wiring = "intended"

\* The request ends in the middleware.  Its route does not matter: it is not
\* chosen before the handler is entered.
Reject(r, resp) == Finish(r, "none", NoID, resp)

\* VerifyToken accepts what GenerateToken signed and has not expired.
VerifiedTokens == issued

\* Mutant of Admitted: a disabled user is let in.
AdmittedIfPresent(id) == Found(id)

\* The row QueryByID returned exists and is enabled.
Admitted(id) == Found(id) /\ users[id].enabled

Authenticate(r) ==
  /\ AuthenticateRunsFirst
  /\ req[r].pc = "idle"
  /\ \/ Reject(r, "unauthorized")            \* token missing, invalid, expired
     \/ Reject(r, "internal")                \* QueryByID failed
     \/ \E token \in VerifiedTokens :
          IF Admitted(token.sub)
          THEN req' = [req EXCEPT ![r] =
                 [pc |-> "authenticated", actor |-> token.sub,
                  snap |-> users[token.sub], claims |-> token.roles,
                  target |-> NoID, op |-> "none", resp |-> "none"]]
          ELSE Reject(r, "unauthorized")
  /\ UNCHANGED <<users, used, issued>>

(***************************************************************************)
(* Protected routes.  In the intended order mid.Authorized stands between  *)
(* mid.Authenticate and the handler and reads the roles the token claims.  *)
(***************************************************************************)
\* The role sets routes.go passes to mid.Authorized; "query" has none.
RequiredRoles(op) == IF op = "role" THEN {"admin"} ELSE {"user"}

Authorized(r, op) ==
  op = "query" \/ req[r].claims \cap RequiredRoles(op) # {}

\* mid.Authorized aborts the chain.
Refuse(r) ==
  /\ AuthenticateRunsFirst
  /\ req[r].pc = "authenticated"
  /\ \E op \in {"update", "role", "disable", "delete"} :
       /\ ~Authorized(r, op)
       /\ Finish(r, op, NoID, "unauthorized")
  /\ UNCHANGED <<users, used, issued>>

\* The handler of op runs now.  In the registered order it is the first of
\* its chain and runs on a context without a user.
Entered(r, op) ==
  IF AuthenticateRunsFirst
  THEN req[r].pc = "authenticated" /\ Authorized(r, op)
  ELSE req[r].pc = "idle"

NoUser(r) == req[r].actor = NoID

\* Mutant of IsAdmin: any role will do.
IsAnyone(r) == ~NoUser(r) /\ req[r].snap.roles # {}

IsAdmin(r) == ~NoUser(r) /\ "admin" \in req[r].snap.roles

\* GET /:id needs no user in the context.
QueryUserByID(r) ==
  /\ Entered(r, "query")
  /\ \/ Finish(r, "query", NoID, "badRequest")
     \/ \E id \in UserIDs :
          \/ Finish(r, "query", id, IF Found(id) THEN "ok" ELSE "notFound")
          \/ Finish(r, "query", id, "internal")
  /\ UNCHANGED <<users, used, issued>>

\* PUT /:id: only the owner; the row written back is the context's snapshot
\* with the body's fields laid over it.
UpdateUser(r) ==
  /\ Entered(r, "update")
  /\ \/ /\ Finish(r, "update", NoID, "badRequest")
        /\ users' = users
     \/ \E id \in UserIDs :
          /\ req[r].actor # id
          /\ Finish(r, "update", id, "unauthorized")
          /\ users' = users
     \/ \E uu \in UpdateBody :
          /\ ~NoUser(r)
          /\ ConversionPanics(uu)
          /\ Finish(r, "update", req[r].actor, "panic")
          /\ users' = users
     \/ \E uu \in UpdateBody :
          /\ ~NoUser(r)
          /\ ~ConversionPanics(uu)
          /\ uu.password \in TooLong
          /\ Finish(r, "update", req[r].actor, "internal")
          /\ users' = users
     \/ \E uu \in UpdateBody :
          /\ ~NoUser(r)
          /\ ~ConversionPanics(uu)
          /\ uu.password \notin TooLong
          /\ \E res \in StoreUpdate(req[r].actor, BusUpdate(req[r].snap, uu)) :
               /\ users' = res.table
               /\ Finish(r, "update", req[r].actor,
                         CASE res.err = "none"       -> "ok"
                           [] res.err = "duplicated" -> "badRequest"
                           [] res.err = "other"      -> "internal")
  /\ UNCHANGED <<used, issued>>

\* PUT /roles/:id: the binding of updateUserRoles applies oneof to the slice
\* itself, on which the validator panics for every list that is present; the
\* lines below the binding are never reached.
UpdateRole(r) ==
  /\ Entered(r, "role")
  /\ \/ /\ ~IsAdmin(r)
        /\ Finish(r, "role", NoID, "unauthorized")
     \/ /\ IsAdmin(r)
        /\ \/ Finish(r, "role", NoID, "badRequest")
           \/ Finish(r, "role", NoID, "panic")
  /\ UNCHANGED <<users, used, issued>>

\* The body DisableUser makes up.
DisableBody ==
  [email |-> Absent, profile |-> Absent, password |-> Absent, enabled |-> FALSE]

\* PUT /disable/:id: the conversion of DisableBody panics, so that the update
\* below it is never reached.
DisableUser(r) ==
  /\ Entered(r, "disable")
  /\ \/ Finish(r, "disable", NoID, "badRequest")
     \/ \E id \in UserIDs :
          IF req[r].actor # id /\ ~IsAdmin(r)
          THEN Finish(r, "disable", id, "unauthorized")
          ELSE \/ Finish(r, "disable", id, "internal")
               \/ /\ ~Found(id)
                  /\ Finish(r, "disable", id, "notFound")
               \/ /\ Found(id)
                  /\ ConversionPanics(DisableBody)
                  /\ Finish(r, "disable", id, "panic")
  /\ UNCHANGED <<users, used, issued>>

\* DELETE /:id, up to the fetch of the target.
DeleteUserFetch(r) ==
  /\ Entered(r, "delete")
  /\ \/ Finish(r, "delete", NoID, "badRequest")
     \/ \E id \in UserIDs :
          IF req[r].actor # id /\ ~IsAdmin(r)
          THEN Finish(r, "delete", id, "unauthorized")
          ELSE \/ Finish(r, "delete", id, "internal")
               \/ /\ ~Found(id)
                  /\ Finish(r, "delete", id, "notFound")
               \/ /\ Found(id)
                  /\ req' = [req EXCEPT ![r].pc = "deleting",
                                        ![r].target = id, ![r].op = "delete"]
  /\ UNCHANGED <<users, used, issued>>

\* DELETE /:id, the statement itself.
DeleteUserExec(r) ==
  /\ req[r].pc = "deleting"
  /\ \E res \in StoreDelete(req[r].target) :
       /\ users' = res.table
       /\ Finish(r, "delete", req[r].target,
                 IF res.err = "none" THEN "noContent" ELSE "internal")
  /\ UNCHANGED <<used, issued>>

------------------------------------------------------------------------------
Step(r) ==
  \/ CreateUser(r) \/ Login(r) \/ Authenticate(r) \/ Refuse(r)
  \/ QueryUserByID(r) \/ UpdateUser(r) \/ UpdateRole(r) \/ DisableUser(r)
  \/ DeleteUserFetch(r) \/ DeleteUserExec(r)

Next == \E r \in Requests : Step(r)

Spec == Init /\ [][Next]_vars

(***************************************************************************)
(* Properties.                                                             *)
(***************************************************************************)
\* No two users share an e-mail address, whatever creations and updates race
\* and however their statements fail (the UNIQUE constraint as Create and
\* Update of userdb.go meet it).
UniqueEmail ==
  \A a, b \in UserIDs :
    /\ users[a] # NoRow /\ users[b] # NoRow
    /\ users[a].email = users[b].email
    => a = b

\* A DELETE answered with 204 is final: the target is gone, and no write back
\* of a snapshot fetched earlier (UpdateUser) brings its row back.
DeleteAck ==
  \A r \in Requests :
    req[r].resp = "noContent" => users[req[r].target] = NoRow

\* The roles that mid.Authorized reads from a token and the handlers read from
\* a snapshot are never stale: as long as the user exists they are the roles in
\* the table, however long ago they were copied.
RolesNeverStale ==
  /\ \A token \in issued :
       users[token.sub] # NoRow => users[token.sub].roles = token.roles
  /\ \A r \in Requests :
       req[r].pc # "idle" =>
         /\ req[r].claims = req[r].snap.roles
         /\ users[req[r].actor] # NoRow
              => users[req[r].actor].roles = req[r].snap.roles

\* An id that was ever inserted is not inserted again, and a row that was
\* deleted does not come back: rows appear only under fresh ids.
NoResurrection ==
  [][\A id \in UserIDs :
       users[id] = NoRow /\ users'[id] # NoRow => id \notin used]_vars

\* An existing row changes only through a request of the user it belongs to,
\* or disappears through a DELETE of an actor who was an admin when it was
\* authenticated.
WriteAuthority ==
  [][\A id \in UserIDs :
       users[id] # NoRow /\ users'[id] # users[id] =>
         \E r \in Requests :
           /\ req[r].pc # "idle" /\ req'[r].pc = "idle"
           /\ \/ req[r].actor = id
              \/ "admin" \in req[r].snap.roles /\ users'[id] = NoRow]_vars

\* Disabling lasts once the requests authenticated before it have ended: a
\* disabled row becomes enabled again only while a request of its user is under
\* way that mid.Authenticate let in while the row was still enabled.
DisabledSticks ==
  [][\A id \in UserIDs :
       (/\ users[id] # NoRow /\ users'[id] # NoRow
        /\ ~users[id].enabled /\ users'[id].enabled)
       => \E r \in Requests : req[r].actor = id /\ req[r].snap.enabled]_vars

\* In the order routes.go registers, the protected handlers never find a user
\* in the context, so no request ever changes or deletes a row.
RowsFrozen ==
  [][\A id \in UserIDs : users[id] # NoRow => users'[id] = users[id]]_vars

\* handler.go:322, "since we are setting the enabled to false no need for
\* error checking": the conversion in DisableUser always goes well.
DisableConverts ==
  \A r \in Requests : req[r].op = "disable" => req[r].resp # "panic"

\* Requests, snapshots and failures together implement the abstract directory.
Directory == INSTANCE UserDirectory WITH users <- users, used <- used

ImplementsDirectory == Directory!Spec
==============================================================================
