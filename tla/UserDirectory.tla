---------------------------- MODULE UserDirectory ----------------------------
(***************************************************************************)
(* What the user service promises of the users table, without requests,    *)
(* snapshots or errors.  A user is inserted once, enabled, under an        *)
(* e-mail address nobody else has; an existing user is replaced in place   *)
(* and keeps its roles; a removed user never comes back.                   *)
(***************************************************************************)
EXTENDS UserModel

VARIABLES
  users,  \* the table: a row, or NoRow, for every id
  used    \* the ids ever inserted

vars == <<users, used>>

\* No user but id has the e-mail address e.
EmailFree(e, id) ==
  \A other \in UserIDs \ {id} : users[other] # NoRow => users[other].email # e

Init ==
  /\ users = [id \in UserIDs |-> NoRow]
  /\ used = {}

Insert ==
  \E id \in UserIDs \ used, row \in Row :
    /\ row.enabled = TRUE
    /\ EmailFree(row.email, id)
    /\ users' = [users EXCEPT ![id] = row]
    /\ used' = used \cup {id}

Replace ==
  \E id \in UserIDs, row \in Row :
    /\ users[id] # NoRow
    /\ row.roles = users[id].roles
    /\ EmailFree(row.email, id)
    /\ users' = [users EXCEPT ![id] = row]
    /\ used' = used

Remove ==
  \E id \in UserIDs :
    /\ users[id] # NoRow
    /\ users' = [users EXCEPT ![id] = NoRow]
    /\ used' = used

Next == Insert \/ Replace \/ Remove

Spec == Init /\ [][Next]_vars
==============================================================================
