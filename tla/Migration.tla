------------------------------ MODULE Migration ------------------------------
(***************************************************************************)
(* internal/migrate over golang-migrate: processes that bring databases to *)
(* the one version there is, by marking the version dirty, running its     *)
(* script and marking it clean, under an advisory lock.  Every statement   *)
(* is one step and commits by itself; a process may be killed and its      *)
(* connection may break between any two of them.                           *)
(*                                                                         *)
(* Up and the postgres driver are translated from the vendored library;    *)
(* PostgreSQL itself is external.  Making the version table beforehand     *)
(* (WithInstance) is repeatable and leaves nothing to tell apart: a        *)
(* database without it reads as one without a version.                     *)
(***************************************************************************)
EXTENDS Naturals

CONSTANTS Procs, Dbs, NoProc, NoDb

ASSUME MigrationAssumption == NoProc \notin Procs /\ NoDb \notin Dbs

VARIABLES
  schema,   \* for every database: what is in it and who locks it
  mig       \* for every process: its call of Migrate

migrationVars == <<schema, mig>>

\* runs counts how often the script was given to the database (history).
Schema ==
  [exists : BOOLEAN, table : BOOLEAN, version : {"none", "dirty", "clean"},
   lock : Procs \cup {NoProc}, runs : Nat]

\* pc "locking": waiting for the lock; "locked", "dirtied", "ran": behind the
\* steps of Up that are named so.  result is what the last call returned.
Call ==
  [pc : {"out", "locking", "locked", "dirtied", "ran"}, db : Dbs \cup {NoDb},
   result : {"none", "ok", "error"}]

MigrationTypeOK ==
  /\ schema \in [Dbs -> Schema]
  /\ mig \in [Procs -> Call]

Empty(exists) ==
  [exists |-> exists, table |-> FALSE, version |-> "none", lock |-> NoProc, runs |-> 0]

NoCall == [pc |-> "out", db |-> NoDb, result |-> "none"]

\* Mutant of MigrateResult: whatever Up says, the schema is there.
IgnoresErrors(err) == "ok"

\* Migrate's own answer to the error of Up: ErrNoChange is none.
MigrateResult(err) == IF err \in {"none", "noChange"} THEN "ok" ELSE "error"

Unlocked(p, s) ==
  [d \in Dbs |-> IF s[d].lock = p THEN [s[d] EXCEPT !.lock = NoProc] ELSE s[d]]

\* Up unlocks and returns err; s is the schema behind its last statement.
Return(p, err, s) ==
  /\ schema' = Unlocked(p, s)
  /\ mig' = [mig EXCEPT ![p].pc = "out", ![p].result = MigrateResult(err)]

\* The database the call of p works on.
Db(p) == mig[p].db

\* Process p calls Migrate for database d.
MigrateBegin(p, d) ==
  /\ mig[p].pc = "out"
  /\ mig' = [mig EXCEPT ![p] = [pc |-> "locking", db |-> d, result |-> "none"]]
  /\ UNCHANGED schema

Lock(p) ==
  /\ mig[p].pc = "locking" /\ schema[Db(p)].lock = NoProc
  /\ schema' = [schema EXCEPT ![Db(p)].lock = p]
  /\ mig' = [mig EXCEPT ![p].pc = "locked"]

\* The lock is not had in time, or the database is out of reach.
LockFails(p) ==
  /\ mig[p].pc = "locking"
  /\ Return(p, "other", schema)

\* What a statement that leaves schema s may have done when its error arrives.
Doubtful(s) == {s, schema}

\* Mutant of Pending: a dirty version is tried again.
PendingUnlessClean(version) == version # "clean"

\* Whether Up has a migration to run: a dirty version is refused, and behind the
\* only one there is none.
Pending(version) == version = "none"

\* Version says that there is nothing to do, refuses a dirty version or cannot
\* be read, ...
NothingToDo(p) ==
  /\ mig[p].pc = "locked"
  /\ \/ /\ ~Pending(schema[Db(p)].version)
        /\ Return(p, IF schema[Db(p)].version = "dirty" THEN "dirty" ELSE "noChange", schema)
     \/ Return(p, "other", schema)

\* ... or SetVersion marks the version dirty before its script runs.
SetDirty(p) ==
  /\ mig[p].pc = "locked"
  /\ Pending(schema[Db(p)].version)
  /\ LET s == [schema EXCEPT ![Db(p)].version = "dirty"]
     IN \/ schema' = s /\ mig' = [mig EXCEPT ![p].pc = "dirtied"]
        \/ \E t \in Doubtful(s) : Return(p, "other", t)

\* CREATE TABLE users is not repeatable: it fails on a table that is there.
RunScript(p) ==
  /\ mig[p].pc = "dirtied"
  /\ LET tried == [schema EXCEPT ![Db(p)].runs = @ + 1]
         s     == [tried EXCEPT ![Db(p)].table = TRUE]
     IN \/ /\ ~schema[Db(p)].table
           /\ schema' = s /\ mig' = [mig EXCEPT ![p].pc = "ran"]
        \/ \E t \in {s, tried} : Return(p, "other", t)

\* SetVersion marks the version clean, and Up is done.
SetClean(p) ==
  /\ mig[p].pc = "ran"
  /\ LET s == [schema EXCEPT ![Db(p)].version = "clean"]
     IN \/ Return(p, "none", s)
        \/ \E t \in Doubtful(s) : Return(p, "other", t)

MigrateStep(p) ==
  \/ Lock(p) \/ LockFails(p) \/ NothingToDo(p) \/ SetDirty(p)
  \/ RunScript(p) \/ SetClean(p)

\* The process is killed: its session ends, and with it the lock.  A statement
\* on its way may still be executed.
Kill(p) ==
  /\ mig[p].pc # "out"
  /\ \E t \in {schema} \cup
        (CASE mig[p].pc = "locked" /\ Pending(schema[Db(p)].version)
                -> {[schema EXCEPT ![Db(p)].version = "dirty"]}
           [] mig[p].pc = "dirtied"
                -> {[schema EXCEPT ![Db(p)].table = TRUE, ![Db(p)].runs = @ + 1]}
           [] mig[p].pc = "ran"
                -> {[schema EXCEPT ![Db(p)].version = "clean"]}
           [] OTHER -> {}) :
       schema' = Unlocked(p, t)
  /\ mig' = [mig EXCEPT ![p] = NoCall]

(***************************************************************************)
(* Properties.                                                             *)
(***************************************************************************)
\* The script, which cannot be repeated, is given to a database at most once,
\* however the processes interleave, die and start over.
ScriptRunsOnce == \A d \in Dbs : schema[d].runs <= 1
==============================================================================
