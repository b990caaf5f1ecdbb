------------------------------ MODULE UserModel ------------------------------
(***************************************************************************)
(* The data of the user domain: the columns of a row of the users table    *)
(* (migrate/sql/20250914214924_init.up.sql, bus/models.go) and the JSON    *)
(* bodies the handlers bind (handler/models.go).  Timestamps are left out: *)
(* no guard of the code reads them.  A password hash is represented by the *)
(* password it was made from, because bcrypt compares equal exactly then.  *)
(***************************************************************************)
CONSTANTS
  UserIDs,     \* the pool uuid.New draws from (bound: each id is drawn once)
  Emails,      \* parsed mail addresses, the UNIQUE column
  Profiles,    \* a name together with a department
  RoleSets,    \* the role lists a body may carry, as sets of role names
  Passwords,   \* passwords that pass the binding (8 to 128 bytes)
  TooLong,     \* those of more than 72 bytes: bcrypt refuses to hash them
  NoRow,       \* "no such row"
  NoID,        \* "no user": the gin context holds no "user" key
  Absent       \* an optional JSON field that the body does not carry

\* A row as bus.User carries it between the store and the handlers.
Row ==
  [email : Emails, profile : Profiles, roles : RoleSets,
   password : Passwords \ TooLong, enabled : BOOLEAN]

\* A body that the newUser binding accepts, converted by toBusNewUser.
NewUser ==
  [email : Emails, profile : Profiles, roles : RoleSets, password : Passwords]

\* A body that the updateUser binding accepts: every field is a pointer.
UpdateBody ==
  [email : Emails \cup {Absent}, profile : Profiles \cup {Absent},
   password : Passwords \cup {Absent}, enabled : BOOLEAN \cup {Absent}]

ASSUME TooLongAssumption == TooLong \subseteq Passwords

\* The three sentinels are no row, no id and no value of a field.
ASSUME SentinelAssumption ==
  /\ NoRow \notin Row
  /\ NoID \notin UserIDs
  /\ Absent \notin Emails \cup Profiles \cup Passwords \cup BOOLEAN
==============================================================================
