------------------------- MODULE TestDatabasesProofs -------------------------
(***************************************************************************)
(* Proofs about migrations and about the databases of the tests, for any   *)
(* number of packages, admin commands and names.                           *)
(*                                                                         *)
(* An incarnation of the container that was stopped never runs again, and  *)
(* a package holds its database only while its own incarnation runs        *)
(* (Holds).  Of the databases that are held, Claim says who has the lock   *)
(* and how far the holder's migration is; a process that lost its          *)
(* container may still believe that it has the lock of a database whose    *)
(* name was drawn again, and changes nothing there.                        *)
(***************************************************************************)
EXTENDS TestDatabases, TLAPS

Holding == {"migrating", "testing", "cleanup"}

\* Version, table and runs of a database fit together.
Sound(s) ==
  /\ s.runs <= 1
  /\ s.version = "none" => ~s.table /\ s.runs = 0
  /\ s.version = "clean" => s.table

\* A process that holds its database has the lock behind Lock, and the database
\* is as its program counter says.
Ready(s) == s.version = "clean" /\ s.table

InPlace(p) ==
  /\ mig[p].pc \in {"locked", "dirtied", "ran"} => schema[Db(p)].lock = p
  /\ mig[p].pc = "dirtied" =>
       /\ schema[Db(p)].version = "dirty" /\ schema[Db(p)].runs = 0
       /\ ~schema[Db(p)].table
  /\ mig[p].pc = "ran" =>
       schema[Db(p)].version = "dirty" /\ schema[Db(p)].table
  /\ mig[p].pc = "out" /\ mig[p].result = "ok" => Ready(schema[Db(p)])

Claim(p) == Holds(p) => InPlace(p)

\* The database a process works on: the deployed one, or the one it made.
Place(p) ==
  IF p \in Admins
  THEN /\ Db(p) \in {Deployed, NoDb}
       /\ mig[p].pc # "out" \/ mig[p].result # "none" => Db(p) = Deployed
  ELSE /\ mig[p].pc # "out" => pkg[p].pc = "migrating"
       /\ pkg[p].pc \in Holding => pkg[p].db \in Names /\ Db(p) = pkg[p].db
       /\ Holds(p) => schema[pkg[p].db].exists

\* A package that got its container has it, or it was stopped.
Kept(p) ==
  /\ pkg[p].id <= container.id
  /\ container.state = "created" /\ pkg[p].id = container.id => pkg[p].pc = "start"
  /\ pkg[p].pc \in Holding \cup {"inspect", "got"} =>
       Runs(pkg[p].id) \/ pkg[p].id \in stopped
  /\ pkg[p].fail = "lost" =>
       pkg[p].id \in stopped /\ pkg[p].pc \in {"cleanup", "stopping", "removing", "done"}

Apart(p, q) == Holds(p) /\ Holds(q) => pkg[p].db # pkg[q].db

TInv ==
  /\ TypeOK
  /\ container.state # "absent" => container.id >= 1
  /\ \A d \in Dbs : Sound(schema[d])
  /\ \A p \in Procs : Claim(p) /\ Place(p)
  /\ \A p \in Packages : Kept(p)
  /\ \A p, q \in Packages : p # q => Apart(p, q)

------------------------------------------------------------------------------
(***************************************************************************)
(* Migration: what a step of one process does to the databases.            *)
(***************************************************************************)
\* What p may make of the databases: nothing where somebody else has the lock,
\* and a migration that is complete stays complete.
Follows(t, p) ==
  \A d \in Dbs :
    /\ Sound(t[d]) /\ t[d].exists = schema[d].exists
    /\ schema[d].lock \notin {NoProc, p} => t[d] = schema[d]
    /\ Ready(schema[d]) => Ready(t[d])

\* Unlocking changes locks of p and nothing else.
LEMMA UnlockedFacts ==
  ASSUME NEW p \in Procs, NEW t \in [Dbs -> Schema], Follows(t, p)
  PROVE  /\ Unlocked(p, t) \in [Dbs -> Schema] /\ Follows(Unlocked(p, t), p)
         /\ \A d \in Dbs : Ready(t[d]) => Ready(Unlocked(p, t)[d])
<1> DEFINE u == Unlocked(p, t)
<1>1. ASSUME NEW d \in Dbs
      PROVE  /\ u[d] \in Schema /\ u[d].exists = t[d].exists /\ u[d].table = t[d].table
             /\ u[d].version = t[d].version /\ u[d].runs = t[d].runs
             /\ t[d].lock # p => u[d] = t[d]
  <2>1. t[d] \in Schema
    OBVIOUS
  <2>2. u[d] = IF t[d].lock = p THEN [t[d] EXCEPT !.lock = NoProc] ELSE t[d]
    BY DEF Unlocked
  <2> HIDE DEF u
  <2>3. CASE t[d].lock = p
    BY <2>1, <2>2, <2>3 DEF Schema
  <2>4. CASE t[d].lock # p
    BY <2>1, <2>2, <2>4
  <2>5. QED
    BY <2>3, <2>4
<1>2. u \in [Dbs -> Schema]
  <2>1. u = [d \in Dbs |-> u[d]]
    BY DEF Unlocked
  <2> HIDE DEF u
  <2>2. QED
    BY <1>1, <2>1
<1> HIDE DEF u
<1>3. Follows(u, p)
  <2> SUFFICES ASSUME NEW d \in Dbs
               PROVE  /\ Sound(u[d]) /\ u[d].exists = schema[d].exists
                      /\ schema[d].lock \notin {NoProc, p} => u[d] = schema[d]
                      /\ Ready(schema[d]) => Ready(u[d])
    BY DEF Follows
  <2>1. /\ Sound(t[d]) /\ t[d].exists = schema[d].exists
        /\ schema[d].lock \notin {NoProc, p} => t[d] = schema[d]
        /\ Ready(schema[d]) => Ready(t[d])
    BY DEF Follows
  <2>2. QED
    BY <1>1, <2>1 DEF Sound, Ready
<1>4. QED
  BY <1>1, <1>2, <1>3 DEF u, Ready

\* Up returns: p is out, and where Migrate reports success the database is ready.
LEMMA ReturnFacts ==
  ASSUME MigrationTypeOK, NEW p \in Procs, NEW err, NEW t \in [Dbs -> Schema],
         Follows(t, p), Return(p, err, t),
         MigrateResult(err) = "ok" => Db(p) \in Dbs /\ Ready(t[Db(p)])
  PROVE  /\ MigrationTypeOK' /\ Follows(schema', p) /\ InPlace(p)'
         /\ \A q \in Procs \ {p} : mig'[q] = mig[q]
         /\ mig'[p].db = mig[p].db /\ mig'[p].pc = "out"
<1>1. schema' = Unlocked(p, t)
      /\ mig' = [mig EXCEPT ![p].pc = "out", ![p].result = MigrateResult(err)]
  BY DEF Return
<1>2. MigrateResult(err) \in {"ok", "error"}
  BY DEF MigrateResult
<1>3. mig[p] \in Call
  BY DEF MigrationTypeOK
<1>4. /\ mig'[p].pc = "out" /\ mig'[p].db = mig[p].db /\ mig'[p].result = MigrateResult(err)
      /\ mig'[p] \in Call /\ \A q \in Procs \ {p} : mig'[q] = mig[q]
  BY <1>1, <1>2, <1>3 DEF MigrationTypeOK, Call
<1>5. mig' \in [Procs -> Call]
  BY <1>1, <1>4 DEF MigrationTypeOK
<1>6. schema' \in [Dbs -> Schema] /\ Follows(schema', p)
      /\ \A d \in Dbs : Ready(t[d]) => Ready(schema'[d])
  BY <1>1, UnlockedFacts
<1>7. InPlace(p)'
  BY <1>4, <1>6 DEF InPlace, Db, Ready
<1>8. QED
  BY <1>4, <1>5, <1>6, <1>7 DEF MigrationTypeOK

\* A statement that changes the database of p, which has its lock or takes it.
LEMMA OwnStatement ==
  ASSUME MigrationTypeOK, NEW p \in Procs, Db(p) \in Dbs,
         \A d \in Dbs : Sound(schema[d]),
         schema[Db(p)].lock \in {NoProc, p},
         NEW new \in Schema, new.exists = schema[Db(p)].exists, Sound(new),
         Ready(schema[Db(p)]) => Ready(new),
         NEW t, t = [schema EXCEPT ![Db(p)] = new]
  PROVE  t \in [Dbs -> Schema] /\ t[Db(p)] = new /\ Follows(t, p)
<1>1. t \in [Dbs -> Schema] /\ t[Db(p)] = new
      /\ \A d \in Dbs \ {Db(p)} : t[d] = schema[d]
  BY DEF MigrationTypeOK
<1>2. ASSUME NEW d \in Dbs
      PROVE  /\ Sound(t[d]) /\ t[d].exists = schema[d].exists
             /\ schema[d].lock \notin {NoProc, p} => t[d] = schema[d]
             /\ Ready(schema[d]) => Ready(t[d])
  BY <1>1
<1>3. QED
  BY <1>1, <1>2 DEF Follows

LEMMA NoStatement ==
  ASSUME MigrationTypeOK, NEW p \in Procs, \A d \in Dbs : Sound(schema[d])
  PROVE  schema \in [Dbs -> Schema] /\ Follows(schema, p)
  BY DEF Follows, MigrationTypeOK

\* The call of p goes on.
LEMMA GoesOn ==
  ASSUME MigrationTypeOK, NEW p \in Procs,
         NEW pc \in {"out", "locking", "locked", "dirtied", "ran"},
         mig' = [mig EXCEPT ![p].pc = pc]
  PROVE  /\ mig' \in [Procs -> Call] /\ mig'[p].pc = pc /\ mig'[p].db = mig[p].db
         /\ \A q \in Procs \ {p} : mig'[q] = mig[q]
<1>1. mig[p] \in Call
  BY DEF MigrationTypeOK
<1>2. mig'[p] \in Call /\ mig'[p].pc = pc /\ mig'[p].db = mig[p].db
      /\ \A q \in Procs \ {p} : mig'[q] = mig[q]
  BY <1>1 DEF MigrationTypeOK, Call
<1>3. QED
  BY <1>2 DEF MigrationTypeOK

\* The statements of a migration, as the new contents of the database.
LEMMA Statements ==
  ASSUME MigrationTypeOK, NEW p \in Procs, Db(p) \in Dbs
  PROVE  LET s == schema[Db(p)]
         IN /\ [schema EXCEPT ![Db(p)].lock = p]
                 = [schema EXCEPT ![Db(p)] = [s EXCEPT !.lock = p]]
            /\ \A v : [schema EXCEPT ![Db(p)].version = v]
                        = [schema EXCEPT ![Db(p)] = [s EXCEPT !.version = v]]
            /\ [schema EXCEPT ![Db(p)].runs = @ + 1]
                 = [schema EXCEPT ![Db(p)] = [s EXCEPT !.runs = s.runs + 1]]
            /\ [[schema EXCEPT ![Db(p)].runs = @ + 1] EXCEPT ![Db(p)].table = TRUE]
                 = [schema EXCEPT ![Db(p)] = [s EXCEPT !.runs = s.runs + 1, !.table = TRUE]]
            /\ [schema EXCEPT ![Db(p)].table = TRUE, ![Db(p)].runs = @ + 1]
                 = [schema EXCEPT ![Db(p)] = [s EXCEPT !.runs = s.runs + 1, !.table = TRUE]]
<1> DEFINE s == schema[Db(p)]
<1>0. s \in Schema /\ schema \in [Dbs -> Schema]
  BY DEF MigrationTypeOK
<1>1. [[schema EXCEPT ![Db(p)].runs = @ + 1] EXCEPT ![Db(p)].table = TRUE]
        = [schema EXCEPT ![Db(p)] = [s EXCEPT !.runs = s.runs + 1, !.table = TRUE]]
  BY <1>0 DEF Schema
<1>2. [schema EXCEPT ![Db(p)].table = TRUE, ![Db(p)].runs = @ + 1]
        = [schema EXCEPT ![Db(p)] = [s EXCEPT !.runs = s.runs + 1, !.table = TRUE]]
  BY <1>0 DEF Schema
<1>3. QED
  BY <1>0, <1>1, <1>2

\* What a step of p's call promises to the others and to p.
Promise(p) ==
  /\ MigrationTypeOK' /\ Follows(schema', p) /\ InPlace(p)'
  /\ \A q \in Procs \ {p} : mig'[q] = mig[q]

LEMMA LockStep ==
  ASSUME MigrationTypeOK, NEW p \in Procs, Db(p) \in Dbs,
         \A d \in Dbs : Sound(schema[d]), Lock(p) \/ LockFails(p)
  PROVE  Promise(p) /\ mig'[p].db = mig[p].db
<1>1. CASE Lock(p)
  <2>1. schema[Db(p)] \in Schema /\ schema[Db(p)].lock = NoProc
        /\ schema' = [schema EXCEPT ![Db(p)].lock = p]
        /\ mig' = [mig EXCEPT ![p].pc = "locked"]
    BY <1>1 DEF Lock, MigrationTypeOK
  <2>2. PICK new : new = [schema[Db(p)] EXCEPT !.lock = p]
    OBVIOUS
  <2>3. /\ new \in Schema /\ new.exists = schema[Db(p)].exists /\ new.lock = p
        /\ new.version = schema[Db(p)].version /\ new.table = schema[Db(p)].table
        /\ new.runs = schema[Db(p)].runs
    BY <2>1, <2>2 DEF Schema
  <2>4. Sound(new) /\ (Ready(schema[Db(p)]) => Ready(new))
    BY <2>3 DEF Sound, Ready
  <2>5. schema' = [schema EXCEPT ![Db(p)] = new]
    BY <2>1, <2>2, Statements
  <2>6. schema' \in [Dbs -> Schema] /\ schema'[Db(p)] = new /\ Follows(schema', p)
    BY <2>1, <2>3, <2>4, <2>5, OwnStatement, ZenonT(30)
  <2>7. mig' \in [Procs -> Call] /\ mig'[p].pc = "locked" /\ mig'[p].db = mig[p].db
        /\ \A q \in Procs \ {p} : mig'[q] = mig[q]
    BY <2>1, GoesOn
  <2>8. QED
    BY <2>3, <2>6, <2>7 DEF Promise, MigrationTypeOK, InPlace, Db
<1>2. CASE LockFails(p)
  <2>1. Return(p, "other", schema) /\ MigrateResult("other") # "ok"
    BY <1>2 DEF LockFails, MigrateResult
  <2>2. QED
    BY <2>1, NoStatement, ReturnFacts DEF Promise
<1>3. QED
  BY <1>1, <1>2

LEMMA SetDirtyStep ==
  ASSUME MigrationTypeOK, NEW p \in Procs, Db(p) \in Dbs,
         \A d \in Dbs : Sound(schema[d]), InPlace(p), NothingToDo(p) \/ SetDirty(p)
  PROVE  Promise(p) /\ mig'[p].db = mig[p].db
<1>1. mig[p].pc = "locked" /\ schema[Db(p)].lock = p /\ schema[Db(p)] \in Schema
  BY DEF NothingToDo, SetDirty, InPlace, MigrationTypeOK
<1>2. MigrateResult("other") # "ok" /\ MigrateResult("dirty") # "ok"
  BY DEF MigrateResult
<1>3. ASSUME Return(p, "other", schema) PROVE Promise(p) /\ mig'[p].db = mig[p].db
  BY <1>2, <1>3, NoStatement, ReturnFacts DEF Promise
<1>4. CASE NothingToDo(p)
  <2>1. CASE schema[Db(p)].version = "dirty" /\ Return(p, "dirty", schema)
    BY <1>2, <2>1, NoStatement, ReturnFacts DEF Promise
  <2>2. CASE schema[Db(p)].version \notin {"none", "dirty"} /\ Return(p, "noChange", schema)
    <3>1. Ready(schema[Db(p)])
      BY <1>1, <2>2 DEF Schema, Sound, Ready
    <3>2. QED
      BY <2>2, <3>1, NoStatement, ReturnFacts DEF Promise
  <2>3. QED
    BY <1>3, <1>4, <2>1, <2>2 DEF NothingToDo, Pending
<1>5. CASE SetDirty(p)
  <2>1. PICK new : new = [schema[Db(p)] EXCEPT !.version = "dirty"]
    OBVIOUS
  <2>2. schema[Db(p)].version = "none"
    BY <1>5 DEF SetDirty, Pending
  <2>3. /\ new \in Schema /\ new.exists = schema[Db(p)].exists /\ new.lock = p
        /\ new.version = "dirty" /\ new.table = schema[Db(p)].table
        /\ new.runs = schema[Db(p)].runs
    BY <1>1, <2>1 DEF Schema
  <2>4. Sound(new) /\ ~Ready(schema[Db(p)]) /\ ~new.table /\ new.runs = 0
    BY <2>2, <2>3 DEF Sound, Ready
  <2>5. PICK s : s = [schema EXCEPT ![Db(p)].version = "dirty"]
    OBVIOUS
  <2>6. s = [schema EXCEPT ![Db(p)] = new]
    BY <2>1, <2>5, Statements
  <2>7. s \in [Dbs -> Schema] /\ s[Db(p)] = new /\ Follows(s, p)
    BY <1>1, <2>3, <2>4, <2>6, OwnStatement, ZenonT(30)
  <2>8. \/ schema' = s /\ mig' = [mig EXCEPT ![p].pc = "dirtied"]
        \/ Return(p, "other", s)
        \/ Return(p, "other", schema)
    BY <1>5, <2>5 DEF SetDirty, Doubtful
  <2>9. CASE schema' = s /\ mig' = [mig EXCEPT ![p].pc = "dirtied"]
    <3>1. mig' \in [Procs -> Call] /\ mig'[p].pc = "dirtied" /\ mig'[p].db = mig[p].db
          /\ \A q \in Procs \ {p} : mig'[q] = mig[q]
      BY <2>9, GoesOn
    <3>2. QED
      BY <2>3, <2>4, <2>7, <2>9, <3>1 DEF Promise, MigrationTypeOK, InPlace, Db
  <2>10. CASE Return(p, "other", s)
    BY <1>2, <2>7, <2>10, ReturnFacts DEF Promise
  <2>11. QED
    BY <1>3, <2>8, <2>9, <2>10
<1>6. QED
  BY <1>4, <1>5

\* The contents of a database behind the script, behind a script that failed,
\* and behind the mark that closes the migration.
LEMMA ScriptRecord ==
  ASSUME NEW s \in Schema, NEW n, n = [s EXCEPT !.runs = 1, !.table = TRUE]
  PROVE  /\ n \in Schema /\ n.exists = s.exists /\ n.lock = s.lock
         /\ n.version = s.version /\ n.table /\ n.runs = 1
  BY DEF Schema

Tabled(s) == s.table

LEMMA ScriptContents ==
  ASSUME MigrationTypeOK, NEW p \in Procs, Db(p) \in Dbs, InPlace(p), mig[p].pc = "dirtied",
         NEW new, new = [schema[Db(p)] EXCEPT !.runs = schema[Db(p)].runs + 1, !.table = TRUE]
  PROVE  /\ new \in Schema /\ new.exists = schema[Db(p)].exists /\ new.lock = p
         /\ new.version = "dirty" /\ Tabled(new)
         /\ Sound(new) /\ ~Ready(schema[Db(p)]) /\ schema[Db(p)].lock = p
<1>1. schema[Db(p)] \in Schema
  BY DEF MigrationTypeOK
<1>2. schema[Db(p)].lock = p /\ schema[Db(p)].version = "dirty" /\ schema[Db(p)].runs = 0
  BY DEF InPlace
<1>3. new = [schema[Db(p)] EXCEPT !.runs = 1, !.table = TRUE]
  BY <1>2
<1>4. /\ new \in Schema /\ new.exists = schema[Db(p)].exists /\ new.lock = p
      /\ new.version = "dirty" /\ new.table /\ new.runs = 1
  <2>1. PICK a : a = schema[Db(p)]
    OBVIOUS
  <2>2. a \in Schema /\ new = [a EXCEPT !.runs = 1, !.table = TRUE]
    BY <1>1, <1>3, <2>1
  <2>3. /\ new \in Schema /\ new.exists = a.exists /\ new.lock = a.lock
        /\ new.version = a.version /\ new.table /\ new.runs = 1
    BY <2>2, ScriptRecord
  <2>4. QED
    BY <1>2, <2>1, <2>3
<1>5. QED
  BY <1>2, <1>4 DEF Sound, Ready, Tabled

LEMMA TriedContents ==
  ASSUME MigrationTypeOK, NEW p \in Procs, Db(p) \in Dbs, InPlace(p), mig[p].pc = "dirtied",
         NEW new, new = [schema[Db(p)] EXCEPT !.runs = schema[Db(p)].runs + 1]
  PROVE  /\ new \in Schema /\ new.exists = schema[Db(p)].exists /\ new.lock = p
         /\ new.version = "dirty"
         /\ Sound(new) /\ ~Ready(schema[Db(p)]) /\ schema[Db(p)].lock = p
<1>1. schema[Db(p)] \in Schema
  BY DEF MigrationTypeOK
<1>2. schema[Db(p)].lock = p /\ schema[Db(p)].version = "dirty" /\ schema[Db(p)].runs = 0
  BY DEF InPlace
<1>3. new = [schema[Db(p)] EXCEPT !.runs = 1]
  BY <1>2
<1>4. /\ new \in Schema /\ new.exists = schema[Db(p)].exists /\ new.lock = p
      /\ new.version = "dirty" /\ new.runs = 1
  BY <1>1, <1>2, <1>3 DEF Schema
<1>5. QED
  BY <1>2, <1>4 DEF Sound, Ready

LEMMA CleanContents ==
  ASSUME MigrationTypeOK, NEW p \in Procs, Db(p) \in Dbs, InPlace(p), mig[p].pc = "ran",
         Sound(schema[Db(p)]), NEW new, new = [schema[Db(p)] EXCEPT !.version = "clean"]
  PROVE  /\ new \in Schema /\ new.exists = schema[Db(p)].exists
         /\ Sound(new) /\ Ready(new) /\ schema[Db(p)].lock = p
<1>1. schema[Db(p)] \in Schema /\ schema[Db(p)].lock = p /\ schema[Db(p)].table
  BY DEF MigrationTypeOK, InPlace
<1>2. /\ new \in Schema /\ new.exists = schema[Db(p)].exists /\ new.version = "clean"
      /\ new.table = schema[Db(p)].table /\ new.runs = schema[Db(p)].runs
  BY <1>1 DEF Schema
<1>3. QED
  BY <1>1, <1>2 DEF Sound, Ready

LEMMA RunScriptStep ==
  ASSUME MigrationTypeOK, NEW p \in Procs, Db(p) \in Dbs,
         \A d \in Dbs : Sound(schema[d]), InPlace(p), RunScript(p)
  PROVE  Promise(p) /\ mig'[p].db = mig[p].db
<1>1. mig[p].pc = "dirtied" /\ MigrateResult("other") # "ok" /\ ~schema[Db(p)].table
      /\ schema[Db(p)] \in Schema
  BY DEF RunScript, MigrateResult, InPlace, MigrationTypeOK
<1>2. PICK tried : tried = [schema EXCEPT ![Db(p)].runs = @ + 1]
  OBVIOUS
<1>3. PICK s : s = [tried EXCEPT ![Db(p)].table = TRUE]
  OBVIOUS
<1>4. s \in [Dbs -> Schema] /\ Follows(s, p)
      /\ s[Db(p)].lock = p /\ s[Db(p)].version = "dirty" /\ Tabled(s[Db(p)])
  <2>1. PICK new : new = [schema[Db(p)] EXCEPT !.runs = schema[Db(p)].runs + 1, !.table = TRUE]
    OBVIOUS
  <2>2. s = [schema EXCEPT ![Db(p)] = new]
    BY <1>2, <1>3, <2>1, Statements
  <2>3. /\ new \in Schema /\ new.exists = schema[Db(p)].exists /\ new.lock = p
        /\ new.version = "dirty" /\ Tabled(new)
        /\ Sound(new) /\ ~Ready(schema[Db(p)]) /\ schema[Db(p)].lock = p
    <3>1. mig[p].pc = "dirtied"
      BY <1>1
    <3>2. QED
      BY <2>1, <3>1, ScriptContents, ZenonT(30)
  <2>4. QED
    BY <2>2, <2>3, OwnStatement
<1>5. tried \in [Dbs -> Schema] /\ Follows(tried, p)
  <2>1. PICK new : new = [schema[Db(p)] EXCEPT !.runs = schema[Db(p)].runs + 1]
    OBVIOUS
  <2>2. tried = [schema EXCEPT ![Db(p)] = new]
    BY <1>2, <2>1, Statements
  <2>3. /\ new \in Schema /\ new.exists = schema[Db(p)].exists
        /\ Sound(new) /\ ~Ready(schema[Db(p)]) /\ schema[Db(p)].lock = p
    BY <1>1, <2>1, TriedContents
  <2>4. QED
    BY <2>2, <2>3, OwnStatement
<1>6. \/ schema' = s /\ mig' = [mig EXCEPT ![p].pc = "ran"]
      \/ Return(p, "other", s)
      \/ Return(p, "other", tried)
  BY <1>2, <1>3 DEF RunScript
<1>7. CASE schema' = s /\ mig' = [mig EXCEPT ![p].pc = "ran"]
  <2>1. mig' \in [Procs -> Call] /\ mig'[p].pc = "ran" /\ mig'[p].db = mig[p].db
        /\ \A q \in Procs \ {p} : mig'[q] = mig[q]
    BY <1>7, GoesOn
  <2>2. QED
    BY <1>4, <1>7, <2>1 DEF Promise, MigrationTypeOK, InPlace, Db, Tabled
<1>8. CASE Return(p, "other", s)
  BY <1>1, <1>4, <1>8, ReturnFacts DEF Promise
<1>9. CASE Return(p, "other", tried)
  BY <1>1, <1>5, <1>9, ReturnFacts DEF Promise
<1>10. QED
  BY <1>6, <1>7, <1>8, <1>9

LEMMA SetCleanStep ==
  ASSUME MigrationTypeOK, NEW p \in Procs, Db(p) \in Dbs,
         \A d \in Dbs : Sound(schema[d]), InPlace(p), SetClean(p)
  PROVE  Promise(p) /\ mig'[p].db = mig[p].db
<1>1. mig[p].pc = "ran" /\ MigrateResult("other") # "ok"
  BY DEF SetClean, MigrateResult
<1>2. PICK s : s = [schema EXCEPT ![Db(p)].version = "clean"]
  OBVIOUS
<1>3. PICK new : new = [schema[Db(p)] EXCEPT !.version = "clean"]
  OBVIOUS
<1>4. s = [schema EXCEPT ![Db(p)] = new]
  BY <1>2, <1>3, Statements
<1>5. s \in [Dbs -> Schema] /\ Follows(s, p) /\ Ready(s[Db(p)])
  <2>1. /\ new \in Schema /\ new.exists = schema[Db(p)].exists
        /\ Sound(new) /\ Ready(new) /\ schema[Db(p)].lock = p
    BY <1>1, <1>3, CleanContents
  <2>2. QED
    BY <1>4, <2>1, OwnStatement
<1>6. \/ Return(p, "none", s)
      \/ Return(p, "other", s)
      \/ Return(p, "other", schema)
  BY <1>2 DEF SetClean, Doubtful
<1>7. CASE Return(p, "none", s)
  BY <1>5, <1>7, ReturnFacts DEF Promise
<1>8. CASE Return(p, "other", s)
  BY <1>1, <1>5, <1>8, ReturnFacts DEF Promise
<1>9. CASE Return(p, "other", schema)
  BY <1>1, <1>9, NoStatement, ReturnFacts DEF Promise
<1>10. QED
  BY <1>6, <1>7, <1>8, <1>9

LEMMA CallStep ==
  ASSUME MigrationTypeOK, NEW p \in Procs, Db(p) \in Dbs,
         \A d \in Dbs : Sound(schema[d]), InPlace(p), MigrateStep(p)
  PROVE  Promise(p) /\ mig'[p].db = mig[p].db
  BY LockStep, SetDirtyStep, RunScriptStep, SetCleanStep DEF MigrateStep

\* A process that is killed promises the same.
LEMMA KillStep ==
  ASSUME MigrationTypeOK, NEW p \in Procs, Db(p) \in Dbs,
         \A d \in Dbs : Sound(schema[d]), InPlace(p), Kill(p)
  PROVE  Promise(p) /\ mig'[p] = NoCall
<1>1. mig[p].pc # "out" /\ mig' = [mig EXCEPT ![p] = NoCall] /\ schema[Db(p)] \in Schema
  BY DEF Kill, MigrationTypeOK
<1>2. PICK t : /\ schema' = Unlocked(p, t)
               /\ \/ t = schema
                  \/ /\ mig[p].pc = "locked" /\ Pending(schema[Db(p)].version)
                     /\ t = [schema EXCEPT ![Db(p)].version = "dirty"]
                  \/ /\ mig[p].pc = "dirtied"
                     /\ t = [schema EXCEPT ![Db(p)].table = TRUE, ![Db(p)].runs = @ + 1]
                  \/ /\ mig[p].pc = "ran"
                     /\ t = [schema EXCEPT ![Db(p)].version = "clean"]
  <2> DEFINE late == (CASE mig[p].pc = "locked" /\ Pending(schema[Db(p)].version)
                             -> {[schema EXCEPT ![Db(p)].version = "dirty"]}
                        [] mig[p].pc = "dirtied"
                             -> {[schema EXCEPT ![Db(p)].table = TRUE, ![Db(p)].runs = @ + 1]}
                        [] mig[p].pc = "ran"
                             -> {[schema EXCEPT ![Db(p)].version = "clean"]}
                        [] OTHER -> {})
  <2>1. PICK t \in {schema} \cup late : schema' = Unlocked(p, t)
    BY DEF Kill
  <2>2. CASE mig[p].pc = "locked" /\ Pending(schema[Db(p)].version)
    BY <2>1, <2>2
  <2>3. CASE mig[p].pc = "dirtied"
    BY <2>1, <2>3
  <2>4. CASE mig[p].pc = "ran"
    BY <2>1, <2>4
  <2>5. CASE /\ ~(mig[p].pc = "locked" /\ Pending(schema[Db(p)].version))
             /\ mig[p].pc \notin {"dirtied", "ran"}
    BY <2>1, <2>5
  <2>6. QED
    BY <2>2, <2>3, <2>4, <2>5
<1>3. t \in [Dbs -> Schema] /\ Follows(t, p)
  <2>1. CASE t = schema
    BY <2>1, NoStatement
  <2>2. CASE /\ mig[p].pc = "locked" /\ Pending(schema[Db(p)].version)
             /\ t = [schema EXCEPT ![Db(p)].version = "dirty"]
    <3>1. PICK new : new = [schema[Db(p)] EXCEPT !.version = "dirty"]
      OBVIOUS
    <3>2. schema[Db(p)].version = "none" /\ schema[Db(p)].lock = p
      BY <2>2 DEF Pending, InPlace
    <3>3. /\ new \in Schema /\ new.exists = schema[Db(p)].exists
          /\ new.version = "dirty" /\ new.runs = schema[Db(p)].runs
      BY <1>1, <3>1 DEF Schema
    <3>4. Sound(new) /\ ~Ready(schema[Db(p)])
      BY <3>2, <3>3 DEF Sound, Ready
    <3>5. t = [schema EXCEPT ![Db(p)] = new]
      BY <2>2, <3>1, Statements
    <3>6. QED
      BY <3>2, <3>3, <3>4, <3>5, OwnStatement
  <2>3. CASE /\ mig[p].pc = "dirtied"
             /\ t = [schema EXCEPT ![Db(p)].table = TRUE, ![Db(p)].runs = @ + 1]
    <3>1. PICK new : new = [schema[Db(p)] EXCEPT !.runs = schema[Db(p)].runs + 1, !.table = TRUE]
      OBVIOUS
    <3>2. t = [schema EXCEPT ![Db(p)] = new]
      BY <2>3, <3>1, Statements
    <3>3. /\ new \in Schema /\ new.exists = schema[Db(p)].exists
          /\ Sound(new) /\ ~Ready(schema[Db(p)]) /\ schema[Db(p)].lock = p
      BY <2>3, <3>1, ScriptContents
    <3>4. QED
      BY <3>2, <3>3, OwnStatement
  <2>4. CASE mig[p].pc = "ran" /\ t = [schema EXCEPT ![Db(p)].version = "clean"]
    <3>1. PICK new : new = [schema[Db(p)] EXCEPT !.version = "clean"]
      OBVIOUS
    <3>2. t = [schema EXCEPT ![Db(p)] = new]
      BY <2>4, <3>1, Statements
    <3>3. /\ new \in Schema /\ new.exists = schema[Db(p)].exists
          /\ Sound(new) /\ Ready(new) /\ schema[Db(p)].lock = p
      BY <2>4, <3>1, CleanContents
    <3>4. QED
      BY <3>2, <3>3, OwnStatement
  <2>5. QED
    BY <1>2, <2>1, <2>2, <2>3, <2>4
<1>4. schema' \in [Dbs -> Schema] /\ Follows(schema', p)
  BY <1>2, <1>3, UnlockedFacts
<1>5. NoCall \in Call /\ NoCall.pc = "out" /\ NoCall.result = "none"
  BY DEF NoCall, Call
<1>6. mig' \in [Procs -> Call] /\ mig'[p] = NoCall
      /\ \A q \in Procs \ {p} : mig'[q] = mig[q]
  BY <1>1, <1>5 DEF MigrationTypeOK
<1>7. QED
  BY <1>4, <1>5, <1>6 DEF Promise, MigrationTypeOK, InPlace

------------------------------------------------------------------------------
(***************************************************************************)
(* What a step of one process leaves to the others.                        *)
(***************************************************************************)
\* The container goes on: numbers grow, what runs is lost to a stop only, and
\* nothing begins to run but the container of the process that starts it.
Evolves(p) ==
  /\ container.id <= container'.id /\ stopped \subseteq stopped'
  /\ \A i \in Nat : Runs(i) => Runs(i)' \/ i \in stopped'
  /\ container'.state = "created" =>
       container' = container \/ container'.id = container.id + 1
  /\ container'.state # "absent" => container'.id >= 1
  /\ \A q \in Packages \ {p} :
       pkg[q].pc \in Holding /\ Runs(pkg[q].id)' => Runs(pkg[q].id)

\* What a step does to the database that q holds.
Spared(q) ==
  Holds(q) /\ Db(q) \in Dbs =>
    /\ schema[Db(q)].exists => schema'[Db(q)].exists
    /\ schema[Db(q)].lock = q => schema'[Db(q)] = schema[Db(q)]
    /\ Ready(schema[Db(q)]) => Ready(schema'[Db(q)])

LEMMA BystanderKeeps ==
  ASSUME TInv, NEW q \in Procs, mig'[q] = mig[q], q \in Packages => pkg'[q] = pkg[q],
         Holds(q)' => Holds(q), Spared(q)
  PROVE  Claim(q)' /\ Place(q)'
<1>1. Claim(q) /\ Place(q) /\ Db(q)' = Db(q)
  BY DEF TInv, Db
<1>2. q \in Admins \/ q \in Packages
  BY TestAssumption
<1>3. Place(q)'
  <2>1. CASE q \in Admins
    BY <1>1, <2>1 DEF Place
  <2>2. CASE q \notin Admins
    <3>1. /\ mig[q].pc # "out" => pkg[q].pc = "migrating"
          /\ pkg[q].pc \in Holding => pkg[q].db \in Names /\ Db(q) = pkg[q].db
          /\ Holds(q) => schema[pkg[q].db].exists
      BY <1>1, <2>2 DEF Place
    <3>2. pkg'[q] = pkg[q]
      BY <1>2, <2>2
    <3>3. Holds(q)' => schema'[pkg[q].db].exists
      <4> SUFFICES ASSUME Holds(q)' PROVE schema'[pkg[q].db].exists
        OBVIOUS
      <4>1. Holds(q) /\ pkg[q].pc \in Holding
        BY <2>2 DEF Holds, Holding
      <4>2. Db(q) = pkg[q].db /\ Db(q) \in Dbs /\ schema[Db(q)].exists
        BY <3>1, <4>1, TestAssumption
      <4>3. QED
        BY <4>1, <4>2 DEF Spared
    <3>4. QED
      BY <1>1, <2>2, <3>1, <3>2, <3>3 DEF Place
  <2>3. QED
    BY <2>1, <2>2
<1>4. Claim(q)'
  <2> SUFFICES ASSUME Holds(q)' PROVE InPlace(q)'
    BY DEF Claim
  <2>1. Holds(q) /\ InPlace(q)
    BY <1>1 DEF Claim
  <2>2. mig[q].pc # "out" \/ mig[q].result = "ok" => Db(q) \in Dbs
    <3>1. CASE q \in Admins
      BY <1>1, <3>1, TestAssumption DEF Place
    <3>2. CASE q \notin Admins
      <4>1. pkg[q].pc \in Holding
        BY <2>1, <3>2 DEF Holds, Holding
      <4>2. QED
        BY <1>1, <3>2, <4>1, TestAssumption DEF Place
    <3>3. QED
      BY <3>1, <3>2
  <2>3. QED
    BY <1>1, <2>1, <2>2 DEF Spared, InPlace
<1>5. QED
  BY <1>3, <1>4

LEMMA BystanderKept ==
  ASSUME TInv, TypeOK', NEW p, NEW q \in Packages \ {p}, pkg'[q] = pkg[q], Evolves(p)
  PROVE  Kept(q)'
<1>1. Kept(q) /\ pkg[q].id \in Nat /\ container.id \in Nat /\ container'.id \in Nat
  BY DEF TInv, TypeOK, Package
<1>2. pkg'[q].id <= container'.id
  BY <1>1 DEF Kept, Evolves
<1>3. container'.state = "created" /\ pkg'[q].id = container'.id => pkg'[q].pc = "start"
  BY <1>1 DEF Kept, Evolves
<1>4. QED
  BY <1>1, <1>2, <1>3 DEF Kept, Evolves

\* A step of p keeps the invariant when p keeps its part and spares the others.
LEMMA OneMoves ==
  ASSUME TInv, TypeOK', NEW p \in Procs, Evolves(p),
         \A d \in Dbs : Sound(schema'[d]),
         \A q \in Packages \ {p} : pkg'[q] = pkg[q],
         \A q \in Procs \ {p} : mig'[q] = mig[q] /\ Spared(q),
         Claim(p)', Place(p)', p \in Packages => Kept(p)',
         \A q \in Packages \ {p} : p \in Packages => Apart(p, q)' /\ Apart(q, p)'
  PROVE  TInv'
<1>1. ASSUME NEW q \in Procs \ {p} PROVE Claim(q)' /\ Place(q)' /\ (Holds(q)' => Holds(q))
  <2>1. q \in Packages => pkg'[q] = pkg[q]
    OBVIOUS
  <2>2. Holds(q)' => Holds(q)
    <3>1. q \in Admins \/ q \in Packages
      BY TestAssumption
    <3>2. QED
      BY <2>1, <3>1 DEF Holds, Holding, Evolves
  <2>3. QED
    BY <2>1, <2>2, BystanderKeeps
<1>2. \A q \in Procs : Claim(q)' /\ Place(q)'
  BY <1>1
<1>3. \A q \in Packages : Kept(q)'
  BY BystanderKept
<1>4. ASSUME NEW q \in Packages, NEW r \in Packages, q # r PROVE Apart(q, r)'
  <2>1. CASE q # p /\ r # p
    <3>1. (Holds(q)' => Holds(q)) /\ (Holds(r)' => Holds(r)) /\ Apart(q, r)
      BY <1>1, <1>4, <2>1, TestAssumption DEF TInv
    <3>2. pkg'[q] = pkg[q] /\ pkg'[r] = pkg[r]
      BY <2>1
    <3>3. QED
      BY <3>1, <3>2 DEF Apart
  <2>2. QED
    BY <1>4, <2>1
<1>5. QED
  BY <1>2, <1>3, <1>4 DEF TInv, Evolves

------------------------------------------------------------------------------
(***************************************************************************)
(* The steps of a package.                                                 *)
(***************************************************************************)
Points ==
  {"exists", "rm", "create", "start", "inspect", "stop", "rmNew",
   "got", "migrating", "testing", "cleanup", "stopping", "removing", "done"}

\* A process of a package moves on and keeps its container and its database.
Moves(p, pc, fail) ==
  /\ pkg' \in [Packages -> Package]
  /\ pkg'[p].pc = pc /\ pkg'[p].fail = fail
  /\ pkg'[p].id = pkg[p].id /\ pkg'[p].db = pkg[p].db
  /\ \A q \in Packages \ {p} : pkg'[q] = pkg[q]

LEMMA GotoMoves ==
  ASSUME TypeOK, NEW p \in Packages, NEW pc \in Points, Goto(p, pc)
  PROVE  Moves(p, pc, pkg[p].fail)
<1>1. pkg[p] \in Package /\ pkg' = [pkg EXCEPT ![p].pc = pc] /\ pkg \in [Packages -> Package]
  BY DEF TypeOK, Goto
<1>2. pkg'[p] \in Package /\ pkg'[p].pc = pc /\ pkg'[p].fail = pkg[p].fail
      /\ pkg'[p].id = pkg[p].id /\ pkg'[p].db = pkg[p].db
      /\ \A q \in Packages \ {p} : pkg'[q] = pkg[q]
  BY <1>1 DEF Package, Points
<1>3. QED
  BY <1>1, <1>2 DEF Moves

LEMMA FailsMoves ==
  ASSUME TypeOK, NEW p \in Packages, NEW pc \in Points,
         NEW why \in {"docker", "name", "lost", "migration"}, Fails(p, why, pc)
  PROVE  Moves(p, pc, why)
<1>1. pkg[p] \in Package /\ pkg' = [pkg EXCEPT ![p].pc = pc, ![p].fail = why]
      /\ pkg \in [Packages -> Package]
  BY DEF TypeOK, Fails
<1>2. pkg'[p] \in Package /\ pkg'[p].pc = pc /\ pkg'[p].fail = why
      /\ pkg'[p].id = pkg[p].id /\ pkg'[p].db = pkg[p].db
      /\ \A q \in Packages \ {p} : pkg'[q] = pkg[q]
  BY <1>1, ZenonT(30) DEF Package, Points
<1>3. QED
  BY <1>1, <1>2 DEF Moves

LEMMA RetryMoves ==
  ASSUME TypeOK, NEW p \in Packages, Retry(p)
  PROVE  Moves(p, "exists", pkg[p].fail) \/ Moves(p, "done", "docker")
<1>1. CASE pkg[p].try < MaxTries
  <2>1. pkg[p] \in Package /\ pkg' = [pkg EXCEPT ![p].pc = "exists", ![p].try = @ + 1]
        /\ pkg \in [Packages -> Package]
    BY <1>1 DEF TypeOK, Retry
  <2>2. PICK n : n = pkg[p].try + 1
    OBVIOUS
  <2>3. n \in 1 .. MaxTries
    BY <1>1, <2>1, <2>2, TestAssumption DEF Package
  <2>4. pkg' = [pkg EXCEPT ![p].pc = "exists", ![p].try = n]
    BY <2>1, <2>2
  <2>5. pkg'[p] \in Package /\ pkg'[p].pc = "exists" /\ pkg'[p].fail = pkg[p].fail
        /\ pkg'[p].id = pkg[p].id /\ pkg'[p].db = pkg[p].db
        /\ \A q \in Packages \ {p} : pkg'[q] = pkg[q]
    BY <2>1, <2>3, <2>4 DEF Package
  <2>6. QED
    BY <2>1, <2>4, <2>5 DEF Moves
<1>2. CASE ~(pkg[p].try < MaxTries)
  BY <1>2, FailsMoves DEF Retry, Points
<1>3. QED
  BY <1>1, <1>2

\* What TypeOK and the invariant say of a package, in one place.
LEMMA PackageFacts ==
  ASSUME TInv, NEW p \in Packages
  PROVE  /\ TypeOK /\ p \in Procs /\ p \notin Admins /\ pkg[p].id \in Nat
         /\ Kept(p) /\ Place(p) /\ Claim(p)
         /\ pkg[p].pc # "migrating" => mig[p].pc = "out"
         /\ container.id \in Nat /\ pkg[p].fail \in {"none", "docker", "name", "lost", "migration"}
<1>1. p \in Procs /\ p \notin Admins
  BY TestAssumption
<1>2. TypeOK /\ Kept(p) /\ Place(p) /\ Claim(p)
  BY <1>1 DEF TInv
<1>3. pkg[p].id \in Nat /\ container.id \in Nat
      /\ pkg[p].fail \in {"none", "docker", "name", "lost", "migration"}
  BY <1>2 DEF TypeOK, Package
<1>4. QED
  BY <1>1, <1>2, <1>3 DEF Place

\* Where the container stays as it is.
LEMMA ContainerStays ==
  ASSUME TInv, NEW p, UNCHANGED <<container, stopped>>,
         \A q \in Packages \ {p} : pkg'[q] = pkg[q]
  PROVE  Evolves(p)
<1>1. container.id \in Nat
  BY DEF TInv, TypeOK
<1>2. QED
  BY <1>1 DEF Evolves, Runs, TInv

LEMMA SchemaStays ==
  ASSUME TInv, schema' = schema
  PROVE  (\A q \in Procs : Spared(q)) /\ \A d \in Dbs : Sound(schema'[d])
  BY DEF Spared, TInv

\* A package that holds no database and makes no call afterwards.
LEMMA OutsideStep ==
  ASSUME TInv, TypeOK', NEW p \in Packages, Evolves(p),
         \A d \in Dbs : Sound(schema'[d]),
         \A q \in Packages \ {p} : pkg'[q] = pkg[q],
         mig' = mig, mig[p].pc = "out", \A q \in Procs \ {p} : Spared(q),
         pkg'[p].pc \notin Holding, Kept(p)'
  PROVE  TInv'
<1>1. p \in Procs /\ p \notin Admins
  BY TestAssumption
<1>2. ~Holds(p)'
  BY <1>1 DEF Holds, Holding
<1>3. Claim(p)' /\ Place(p)'
  BY <1>1, <1>2 DEF Claim, Place
<1>4. \A q \in Packages \ {p} : Apart(p, q)' /\ Apart(q, p)'
  BY <1>2 DEF Apart
<1>5. QED
  BY <1>1, <1>3, <1>4, OneMoves

\* A step that changes the state of one package only.
LEMMA OnlyPackage ==
  ASSUME TInv, NEW p \in Packages, NEW pc \in Points \ Holding, NEW fail,
         Moves(p, pc, fail), UNCHANGED <<schema, mig, container, stopped>>,
         mig[p].pc = "out", pc # "start",
         container.state = "created" => pkg[p].id # container.id,
         pc \in {"inspect", "got"} => Runs(pkg[p].id) \/ pkg[p].id \in stopped,
         fail = "lost" => pkg[p].id \in stopped /\ pc \in {"stopping", "removing", "done"}
  PROVE  TInv'
<1>1. TypeOK'
  BY DEF TInv, TypeOK, Moves, MigrationTypeOK
<1>2. Kept(p)'
  BY PackageFacts DEF Kept, Moves, Runs, Points
<1>3. Evolves(p)
  BY ContainerStays DEF Moves
<1>4. QED
  BY <1>1, <1>2, <1>3, SchemaStays, OutsideStep DEF Moves

\* A step that changes the state of one package only, which holds its database.
LEMMA StillHolding ==
  ASSUME TInv, NEW p \in Packages, NEW pc \in {"testing", "cleanup"}, NEW fail,
         Moves(p, pc, fail), UNCHANGED <<schema, mig, container, stopped>>,
         mig[p].pc = "out", pkg[p].pc \in Holding,
         fail = "lost" => pkg[p].id \in stopped /\ pc = "cleanup"
  PROVE  TInv'
<1>1. TypeOK'
  BY DEF TInv, TypeOK, Moves, MigrationTypeOK
<1>2. Evolves(p)
  BY ContainerStays DEF Moves
<1>3. Kept(p)'
  BY PackageFacts DEF Kept, Moves, Runs, Holding
<1>4. p \in Procs /\ p \notin Admins /\ (Holds(p)' => Holds(p))
      /\ pkg'[p].db = pkg[p].db /\ Db(p)' = Db(p)
  BY PackageFacts DEF Holds, Moves, Runs, Holding, Db
<1>5. Claim(p)' /\ Place(p)'
  <2>1. Claim(p)'
    BY <1>4, PackageFacts DEF Claim, InPlace
  <2>2. Place(p)'
    BY <1>4, PackageFacts DEF Place, Holding
  <2>3. QED
    BY <2>1, <2>2
<1>6. \A q \in Packages \ {p} : Apart(p, q)' /\ Apart(q, p)'
  <2> SUFFICES ASSUME NEW q \in Packages \ {p} PROVE Apart(p, q)' /\ Apart(q, p)'
    OBVIOUS
  <2>1. Apart(p, q) /\ Apart(q, p) /\ pkg'[q] = pkg[q] /\ (Holds(q)' => Holds(q))
    BY DEF TInv, Moves, Holds, Runs
  <2>2. QED
    BY <1>4, <2>1 DEF Apart
<1>7. QED
  BY <1>1, <1>2, <1>3, <1>4, <1>5, <1>6, SchemaStays, OneMoves DEF Moves

LEMMA ExistsStep == ASSUME TInv, NEW p \in Packages, Exists(p) PROVE TInv'
<1>1. At(p, "exists") /\ UNCHANGED <<schema, mig, container, stopped>>
  BY DEF Exists
<1>2. mig[p].pc = "out" /\ pkg[p].fail # "lost"
      /\ (container.state = "created" => pkg[p].id # container.id)
  BY <1>1, PackageFacts DEF At, Kept
<1>3. CASE container.state = "running"
  <2>1. pkg' = [pkg EXCEPT ![p].pc = "got", ![p].id = container.id]
    BY <1>3 DEF Exists
  <2>2. pkg[p] \in Package /\ container.id \in Nat /\ pkg \in [Packages -> Package]
    BY PackageFacts DEF TypeOK
  <2>3. /\ pkg'[p] \in Package /\ pkg'[p].pc = "got" /\ pkg'[p].id = container.id
        /\ pkg'[p].fail = pkg[p].fail /\ \A q \in Packages \ {p} : pkg'[q] = pkg[q]
    BY <2>1, <2>2 DEF Package
  <2>4. TypeOK'
    BY <1>1, <2>1, <2>2, <2>3, PackageFacts DEF TypeOK, MigrationTypeOK
  <2>5. Evolves(p)
    BY <1>1, <2>3, ContainerStays
  <2>6. Runs(container.id)
    BY <1>3, PackageFacts DEF Runs, TypeOK
  <2>7. Kept(p)'
    BY <1>1, <1>2, <1>3, <2>2, <2>3, <2>6 DEF Kept, Runs
  <2>8. QED
    BY <1>1, <1>2, <2>3, <2>4, <2>5, <2>7, SchemaStays, OutsideStep DEF Holding
<1>4. CASE container.state # "running"
  <2>1. Moves(p, "rm", pkg[p].fail)
    BY <1>4, PackageFacts, GotoMoves DEF Exists, Points
  <2>2. QED
    BY <1>1, <1>2, <2>1, OnlyPackage DEF Points, Holding
<1>5. QED
  BY <1>3, <1>4

LEMMA InspectStep == ASSUME TInv, NEW p \in Packages, Inspect(p) PROVE TInv'
<1>1. At(p, "inspect") /\ UNCHANGED <<schema, mig, container, stopped>>
  BY DEF Inspect
<1>2. mig[p].pc = "out" /\ pkg[p].fail # "lost"
      /\ (container.state = "created" => pkg[p].id # container.id)
  BY <1>1, PackageFacts DEF At, Kept
<1>3. CASE Runs(pkg[p].id) /\ Goto(p, "got")
  <2>1. Moves(p, "got", pkg[p].fail)
    BY <1>3, PackageFacts, GotoMoves DEF Points
  <2>2. QED
    BY <1>1, <1>2, <1>3, <2>1, OnlyPackage DEF Points, Holding
<1>4. CASE Goto(p, "stop")
  <2>1. Moves(p, "stop", pkg[p].fail)
    BY <1>4, PackageFacts, GotoMoves DEF Points
  <2>2. QED
    BY <1>1, <1>2, <2>1, OnlyPackage DEF Points, Holding
<1>5. QED
  BY <1>3, <1>4 DEF Inspect

\* Where a package goes behind its tests.
LEMMA AfterTestsFacts ==
  ASSUME NEW p
  PROVE  AfterTests(p) \in Points \ Holding /\ AfterTests(p) \in {"stopping", "done"}
  BY DEF AfterTests, Points, Holding

\* A package gives up what it held: it fails, and nothing else changes.
LEMMA GivesUp ==
  ASSUME TInv, NEW p \in Packages, NEW why \in {"docker", "name", "lost", "migration"},
         Fails(p, why, AfterTests(p)), pkg[p].pc \in Holding \cup {"got"},
         mig[p].pc = "out", why = "lost" => ~Runs(pkg[p].id),
         UNCHANGED <<schema, mig, container, stopped>>
  PROVE  TInv'
<1>1. Moves(p, AfterTests(p), why)
  BY PackageFacts, AfterTestsFacts, FailsMoves
<1>2. (container.state = "created" => pkg[p].id # container.id)
      /\ (why = "lost" => pkg[p].id \in stopped)
  BY PackageFacts DEF Kept, Holding
<1>3. PICK pc : pc = AfterTests(p)
  OBVIOUS
<1>4. pc \in Points \ Holding /\ pc \in {"stopping", "done"} /\ Moves(p, pc, why)
  BY <1>1, <1>3, AfterTestsFacts
<1>5. QED
  BY <1>2, <1>4, OnlyPackage

LEMMA MigratedStep == ASSUME TInv, NEW p \in Packages, Migrated(p) PROVE TInv'
<1>1. At(p, "migrating") /\ mig[p].pc = "out" /\ UNCHANGED <<schema, mig, container, stopped>>
  BY DEF Migrated
<1>2. pkg[p].pc \in Holding /\ pkg[p].fail # "lost"
  BY <1>1, PackageFacts DEF At, Kept, Holding
<1>3. CASE mig[p].result = "ok"
  <2>1. Moves(p, "testing", pkg[p].fail)
    BY <1>3, PackageFacts, GotoMoves DEF Migrated, Points
  <2>2. QED
    BY <1>1, <1>2, <2>1, StillHolding
<1>4. CASE mig[p].result # "ok" /\ Runs(pkg[p].id)
  <2>1. Fails(p, "migration", AfterTests(p))
    BY <1>4 DEF Migrated
  <2>2. QED
    BY <1>1, <1>2, <2>1, GivesUp
<1>5. CASE mig[p].result # "ok" /\ ~Runs(pkg[p].id)
  <2>1. Fails(p, "lost", AfterTests(p))
    BY <1>5 DEF Migrated
  <2>2. QED
    BY <1>1, <1>2, <1>5, <2>1, GivesUp
<1>6. QED
  BY <1>3, <1>4, <1>5

LEMMA TestStep == ASSUME TInv, NEW p \in Packages, Test(p) PROVE TInv'
<1>1. At(p, "testing") /\ UNCHANGED <<schema, mig, container, stopped>>
  BY DEF Test
<1>2. pkg[p].pc \in Holding /\ pkg[p].fail # "lost" /\ mig[p].pc = "out"
  BY <1>1, PackageFacts DEF At, Kept, Holding
<1>3. CASE Runs(pkg[p].id)
  <2>1. Moves(p, "cleanup", pkg[p].fail)
    BY <1>3, PackageFacts, GotoMoves DEF Test, Points
  <2>2. QED
    BY <1>1, <1>2, <2>1, StillHolding
<1>4. CASE ~Runs(pkg[p].id)
  <2>1. Moves(p, "cleanup", "lost")
    BY <1>4, PackageFacts, FailsMoves DEF Test, Points
  <2>2. pkg[p].id \in stopped
    BY <1>2, <1>4, PackageFacts DEF Kept
  <2>3. QED
    BY <1>1, <1>2, <2>1, <2>2, StillHolding
<1>5. QED
  BY <1>3, <1>4

\* Steps of docker, by a package that holds nothing and holds nothing behind it.
LEMMA DockerStep ==
  ASSUME TInv, TypeOK', NEW p \in Packages, NEW pc \in Points \ Holding, NEW fail,
         Moves(p, pc, fail), mig' = mig, mig[p].pc = "out",
         pc \notin {"start", "got"},
         Evolves(p), \A d \in Dbs : Sound(schema'[d]), \A q \in Procs \ {p} : Spared(q),
         container'.state = "created" => container' = container /\ pkg[p].id # container.id,
         pc = "inspect" => Runs(pkg[p].id)',
         fail = "lost" => pkg[p].id \in stopped' /\ pc \in {"stopping", "removing", "done"}
  PROVE  TInv'
<1>1. Kept(p)'
  <2>1. pkg[p].id <= container.id /\ container.id <= container'.id
        /\ pkg[p].id \in Nat /\ container.id \in Nat /\ container'.id \in Nat
    BY PackageFacts DEF Kept, Evolves, TypeOK
  <2>2. pkg'[p].id <= container'.id
    BY <2>1 DEF Moves
  <2>3. pkg'[p].pc = pc /\ pkg'[p].id = pkg[p].id /\ pkg'[p].fail = fail
    BY DEF Moves
  <2>4. QED
    BY <2>2, <2>3 DEF Kept, Holding
<1>2. QED
  BY <1>1, OutsideStep DEF Moves

\* docker rm takes a container that does not run: nobody holds a database in it.
LEMMA RemovalStep ==
  ASSUME TInv, NEW p \in Packages, NEW pc \in {"create", "exists", "done"}, NEW fail,
         Moves(p, pc, fail), container.state \in RemovableStates, Removed, Vanish,
         UNCHANGED <<mig, stopped>>, mig[p].pc = "out",
         fail = "lost" => pkg[p].id \in stopped /\ pc = "done"
  PROVE  TInv'
<1>1. /\ container \in [state : {"absent", "created", "running", "stopped"}, id : Nat]
      /\ schema \in [Dbs -> Schema] /\ mig \in [Procs -> Call]
      /\ stopped \subseteq 1 .. container.id
  BY DEF TInv, TypeOK, MigrationTypeOK
<1>2. /\ container'.state = "absent" /\ container'.id = container.id
      /\ container' \in [state : {"absent", "created", "running", "stopped"}, id : Nat]
  BY <1>1 DEF Removed
<1>3. Empty(FALSE) \in Schema /\ Sound(Empty(FALSE))
  BY DEF Empty, Schema, Sound
<1>4. /\ schema' \in [Dbs -> Schema]
      /\ \A d \in Dbs : schema'[d] = IF d \in Names THEN Empty(FALSE) ELSE schema[d]
  BY <1>1, <1>3 DEF Vanish
<1>5. TypeOK'
  BY <1>1, <1>2, <1>4 DEF TypeOK, MigrationTypeOK, Moves
<1>6. \A d \in Dbs : Sound(schema'[d])
  BY <1>3, <1>4 DEF TInv
<1>7. \A i : ~Runs(i) /\ ~Runs(i)'
  BY <1>2 DEF Runs, RemovableStates
<1>8. Evolves(p)
  BY <1>1, <1>2, <1>7 DEF Evolves
<1>9. ASSUME NEW q \in Procs, Holds(q), Db(q) \in Dbs PROVE schema'[Db(q)] = schema[Db(q)]
  <2>1. q \in Admins
    BY <1>7, <1>9 DEF Holds
  <2>2. Place(q)
    BY DEF TInv
  <2>3. Db(q) = Deployed /\ Db(q) \notin Names
    BY <1>9, <2>1, <2>2, TestAssumption, MigrationAssumption DEF Place
  <2>4. QED
    BY <1>4, <1>9, <2>3
<1>10. \A q \in Procs : Spared(q)
  BY <1>9 DEF Spared
<1>11. QED
  BY <1>2, <1>5, <1>6, <1>8, <1>10, DockerStep DEF Points, Holding

\* Nothing but the package moves: docker refused, or there was nothing to do.
LEMMA IdleStep ==
  ASSUME TInv, NEW p \in Packages,
         NEW pc \in {"rm", "create", "exists", "rmNew", "removing", "done"}, NEW fail,
         Moves(p, pc, fail), UNCHANGED <<schema, mig, container, stopped>>,
         pkg[p].pc # "migrating",
         container.state = "created" => pkg[p].id # container.id,
         fail = "lost" => pkg[p].fail = "lost" /\ pc \in {"removing", "done"}
  PROVE  TInv'
<1>1. mig[p].pc = "out" /\ (fail = "lost" => pkg[p].id \in stopped)
  BY PackageFacts DEF Kept
<1>2. QED
  BY <1>1, OnlyPackage DEF Points, Holding

LEMMA RemoveStep == ASSUME TInv, NEW p \in Packages, Remove(p) PROVE TInv'
<1>1. At(p, "rm") /\ UNCHANGED <<mig, stopped>> /\ Goto(p, "create")
  BY DEF Remove
<1>2. mig[p].pc = "out" /\ pkg[p].fail # "lost"
      /\ (container.state = "created" => pkg[p].id # container.id)
  BY <1>1, PackageFacts DEF At, Kept
<1>3. Moves(p, "create", pkg[p].fail)
  BY <1>1, PackageFacts, GotoMoves DEF Points
<1>4. CASE container.state \in RemovableStates
  BY <1>1, <1>2, <1>3, <1>4, RemovalStep DEF Remove
<1>5. CASE container.state \notin RemovableStates
  <2>1. UNCHANGED <<container, schema>>
    BY <1>5 DEF Remove
  <2>2. QED
    BY <1>1, <1>2, <1>3, <2>1, IdleStep DEF At
<1>6. QED
  BY <1>4, <1>5

\* Retry behind a failure of docker.
LEMMA RetryStep ==
  ASSUME TInv, NEW p \in Packages, Retry(p), UNCHANGED <<schema, mig, container, stopped>>,
         pkg[p].pc \in {"create", "start", "stop", "rmNew"},
         container.state = "created" => pkg[p].id # container.id
  PROVE  TInv'
<1>1. pkg[p].fail # "lost" /\ TypeOK
  BY PackageFacts DEF Kept
<1>2. CASE Moves(p, "exists", pkg[p].fail)
  BY <1>1, <1>2, IdleStep
<1>3. CASE Moves(p, "done", "docker")
  BY <1>3, IdleStep
<1>4. QED
  BY <1>1, <1>2, <1>3, RetryMoves

LEMMA CreateStep == ASSUME TInv, NEW p \in Packages, Create(p) PROVE TInv'
<1>1. At(p, "create") /\ UNCHANGED <<schema, mig, stopped>>
  BY DEF Create
<1>2. mig[p].pc = "out" /\ pkg[p].fail # "lost" /\ TypeOK /\ container.id \in Nat
      /\ (container.state = "created" => pkg[p].id # container.id)
  BY <1>1, PackageFacts DEF At, Kept
<1>3. CASE container.state = "absent"
  <2>1. PICK n : n = container.id + 1
    OBVIOUS
  <2>2. n \in Nat /\ container.id <= n /\ n >= 1
    BY <1>2, <2>1
  <2>3. /\ container' = [state |-> "created", id |-> n]
        /\ pkg' = [pkg EXCEPT ![p].pc = "start", ![p].id = n]
    BY <1>3, <2>1 DEF Create
  <2>4. pkg[p] \in Package /\ pkg \in [Packages -> Package]
    BY <1>2 DEF TypeOK
  <2>5. /\ pkg'[p] \in Package /\ pkg'[p].pc = "start" /\ pkg'[p].id = n
        /\ pkg'[p].fail = pkg[p].fail /\ \A q \in Packages \ {p} : pkg'[q] = pkg[q]
    BY <2>2, <2>3, <2>4 DEF Package
  <2>6. pkg' \in [Packages -> Package]
    BY <2>3, <2>4, <2>5
  <2>7. stopped' \subseteq 1 .. container'.id
    BY <1>1, <1>2, <2>2, <2>3 DEF TypeOK
  <2>8. TypeOK'
    BY <1>1, <1>2, <2>2, <2>3, <2>6, <2>7 DEF TypeOK, MigrationTypeOK
  <2>9. \A i : ~Runs(i) /\ ~Runs(i)'
    BY <1>3, <2>3 DEF Runs
  <2>10. Evolves(p)
    BY <1>1, <2>1, <2>2, <2>3, <2>9 DEF Evolves
  <2>11. Kept(p)'
    BY <1>2, <2>2, <2>3, <2>5 DEF Kept, Holding
  <2>12. QED
    BY <1>1, <1>2, <2>5, <2>8, <2>10, <2>11, SchemaStays, OutsideStep DEF Holding
<1>4. CASE container.state # "absent"
  <2>1. Retry(p) /\ UNCHANGED container
    BY <1>4 DEF Create
  <2>2. QED
    BY <1>1, <1>2, <2>1, RetryStep DEF At
<1>5. QED
  BY <1>3, <1>4

LEMMA StartStep == ASSUME TInv, NEW p \in Packages, Start(p) PROVE TInv'
<1>1. At(p, "start") /\ UNCHANGED <<schema, mig, stopped>>
  BY DEF Start
<1>2. mig[p].pc = "out" /\ pkg[p].fail # "lost" /\ TypeOK /\ pkg[p].id \in Nat
      /\ container \in [state : {"absent", "created", "running", "stopped"}, id : Nat]
  BY <1>1, PackageFacts DEF At, Kept, TypeOK
<1>3. CASE container = [state |-> "created", id |-> pkg[p].id]
  <2>1. /\ container' = [container EXCEPT !.state = "running"]
        /\ container.state = "created" /\ container.id = pkg[p].id /\ Goto(p, "inspect")
    BY <1>3 DEF Start
  <2>2. /\ container'.state = "running" /\ container'.id = pkg[p].id
        /\ container' = [state |-> "running", id |-> pkg[p].id]
    BY <1>2, <2>1
  <2>3. Moves(p, "inspect", pkg[p].fail)
    BY <1>2, <2>1, GotoMoves DEF Points
  <2>4. TypeOK'
    BY <1>1, <1>2, <2>1, <2>2, <2>3 DEF TypeOK, MigrationTypeOK, Moves
  <2>5. Runs(pkg[p].id)' /\ \A i : ~Runs(i)
    <3>1. \A i : ~Runs(i)
      BY <2>1 DEF Runs
    <3>2. Runs(pkg[p].id)'
      BY <2>2, <2>3 DEF Runs, Moves
    <3>3. QED
      BY <3>1, <3>2
  <2>6. Evolves(p)
    <3>1. ASSUME NEW q \in Packages \ {p}, pkg[q].pc \in Holding PROVE ~Runs(pkg[q].id)'
      <4>1. Kept(q) /\ pkg'[q] = pkg[q]
        BY <2>3 DEF TInv, Moves
      <4>2. pkg[q].id # container.id
        BY <2>1, <3>1, <4>1 DEF Kept, Holding
      <4>3. QED
        BY <2>1, <2>2, <4>1, <4>2 DEF Runs
    <3>2. container.id \in Nat /\ container.id >= 1 /\ container'.id = container.id
      BY <1>2, <2>1, <2>2 DEF TInv
    <3>3. QED
      BY <1>1, <2>1, <2>2, <2>5, <3>1, <3>2 DEF Evolves
  <2>7. QED
    BY <1>1, <1>2, <2>2, <2>3, <2>4, <2>5, <2>6, SchemaStays, DockerStep DEF Points, Holding
<1>4. CASE container # [state |-> "created", id |-> pkg[p].id]
  <2>1. Retry(p) /\ UNCHANGED container
    BY <1>4 DEF Start
  <2>2. container.state = "created" => pkg[p].id # container.id
    BY <1>2, <1>4
  <2>3. QED
    BY <1>1, <2>1, <2>2, RetryStep DEF At
<1>5. QED
  BY <1>3, <1>4

\* What follows a StopContainer that found nothing to stop.
LEMMA StoppedStep ==
  ASSUME TInv, NEW p \in Packages, Stopped(p), UNCHANGED <<schema, mig, container, stopped>>,
         pkg[p].pc \in {"stop", "rmNew", "stopping", "removing"}
  PROVE  TInv'
<1>1. TypeOK /\ (container.state = "created" => pkg[p].id # container.id)
  BY PackageFacts DEF Kept
<1>2. CASE pkg[p].pc \in {"stop", "rmNew"}
  BY <1>1, <1>2, RetryStep DEF Stopped, At
<1>3. CASE pkg[p].pc \in {"stopping", "removing"}
  <2>1. Moves(p, "done", pkg[p].fail)
    BY <1>1, <1>3, GotoMoves DEF Stopped, At, Points
  <2>2. QED
    BY <1>1, <1>3, <2>1, IdleStep
<1>4. QED
  BY <1>2, <1>3

LEMMA StopStep == ASSUME TInv, NEW p \in Packages, Stop(p) PROVE TInv'
<1>1. UNCHANGED <<schema, mig>> /\ pkg[p].pc \in {"stop", "stopping"}
  BY DEF Stop, At
<1>2. /\ TypeOK /\ container.id \in Nat /\ mig[p].pc = "out"
      /\ container.state = "created" => pkg[p].id # container.id
      /\ pkg[p].fail = "lost" => pkg[p].id \in stopped /\ pkg[p].pc = "stopping"
  BY <1>1, PackageFacts DEF Kept
<1>3. CASE Addressed(p)
  <2>1. PICK pc : pc = IF At(p, "stop") THEN "rmNew" ELSE "removing"
    OBVIOUS
  <2>2. pc \in {"rmNew", "removing"} /\ (pkg[p].pc = "stopping" => pc = "removing")
    BY <2>1 DEF At
  <2>3. Moves(p, pc, pkg[p].fail)
    BY <1>2, <1>3, <2>1, <2>2, GotoMoves DEF Stop, Points
  <2>4. CASE container.state = "running"
    <3>1. /\ container' = [container EXCEPT !.state = "stopped"]
          /\ stopped' = stopped \cup {container.id}
      BY <1>3, <2>4 DEF Stop
    <3>2. /\ container \in [state : {"absent", "created", "running", "stopped"}, id : Nat]
          /\ stopped \subseteq 1 .. container.id /\ container.id >= 1
      BY <1>2, <2>4 DEF TypeOK, TInv
    <3>3. /\ container'.state = "stopped" /\ container'.id = container.id
          /\ container' \in [state : {"absent", "created", "running", "stopped"}, id : Nat]
      BY <3>1, <3>2
    <3>4. stopped' \subseteq 1 .. container'.id
      BY <3>1, <3>2, <3>3
    <3>5. TypeOK'
      BY <1>1, <1>2, <2>3, <3>3, <3>4 DEF TypeOK, MigrationTypeOK, Moves
    <3>6. Evolves(p)
      <4>1. \A q \in Packages : ~Runs(pkg[q].id)'
        BY <3>3 DEF Runs
      <4>2. \A i \in Nat : Runs(i) => i \in stopped'
        BY <3>1 DEF Runs
      <4>3. QED
        BY <3>1, <3>2, <3>3, <4>1, <4>2 DEF Evolves
    <3>7. QED
      BY <1>1, <1>2, <2>2, <2>3, <3>1, <3>3, <3>5, <3>6, SchemaStays, DockerStep
         DEF Points, Holding
  <2>5. CASE container.state # "running"
    <3>1. UNCHANGED <<container, stopped>>
      BY <2>5 DEF Stop
    <3>2. QED
      BY <1>1, <1>2, <2>2, <2>3, <3>1, IdleStep
  <2>6. QED
    BY <2>4, <2>5
<1>4. CASE ~Addressed(p)
  <2>1. Stopped(p) /\ UNCHANGED <<container, stopped>>
    BY <1>4 DEF Stop
  <2>2. QED
    BY <1>1, <2>1, StoppedStep
<1>5. QED
  BY <1>3, <1>4

LEMMA RemoveStoppedStep == ASSUME TInv, NEW p \in Packages, RemoveStopped(p) PROVE TInv'
<1>1. UNCHANGED <<mig, stopped>> /\ pkg[p].pc \in {"rmNew", "removing"} /\ Stopped(p)
  BY DEF RemoveStopped, At
<1>2. /\ TypeOK /\ mig[p].pc = "out"
      /\ pkg[p].fail = "lost" => pkg[p].id \in stopped /\ pkg[p].pc = "removing"
  BY <1>1, PackageFacts DEF Kept
<1>3. CASE Addressed(p) /\ container.state \in RemovableStates
  <2>1. Removed /\ Vanish
    BY <1>3 DEF RemoveStopped
  <2>2. CASE pkg[p].pc = "removing"
    <3>1. Moves(p, "done", pkg[p].fail)
      BY <1>1, <1>2, <2>2, GotoMoves DEF Stopped, At, Points
    <3>2. QED
      BY <1>1, <1>2, <1>3, <2>1, <3>1, RemovalStep
  <2>3. CASE pkg[p].pc = "rmNew"
    <3>1. Retry(p)
      BY <1>1, <2>3 DEF Stopped, At
    <3>2. CASE Moves(p, "exists", pkg[p].fail)
      BY <1>1, <1>2, <1>3, <2>1, <2>3, <3>2, RemovalStep
    <3>3. CASE Moves(p, "done", "docker")
      BY <1>1, <1>2, <1>3, <2>1, <3>3, RemovalStep
    <3>4. QED
      BY <1>2, <3>1, <3>2, <3>3, RetryMoves
  <2>4. QED
    BY <1>1, <2>2, <2>3
<1>4. CASE ~(Addressed(p) /\ container.state \in RemovableStates)
  <2>1. UNCHANGED <<container, schema>>
    BY <1>4 DEF RemoveStopped
  <2>2. QED
    BY <1>1, <2>1, StoppedStep
<1>5. QED
  BY <1>3, <1>4

\* A database that a package holds is its own, and nobody else's.
LEMMA HeldFacts ==
  ASSUME TInv, NEW p \in Packages, Holds(p)
  PROVE  /\ pkg[p].pc \in Holding /\ pkg[p].db \in Names /\ Db(p) = pkg[p].db /\ Db(p) \in Dbs
         /\ schema[Db(p)].exists
         /\ \A q \in Procs \ {p} : Holds(q) => Db(q) # Db(p)
<1>1. pkg[p].pc \in Holding /\ pkg[p].db \in Names /\ Db(p) = pkg[p].db /\ Db(p) \in Dbs
      /\ schema[Db(p)].exists
  <2>1. pkg[p].pc \in Holding
    BY PackageFacts DEF Holds, Holding
  <2>2. QED
    BY <2>1, PackageFacts, TestAssumption DEF Place
<1>2. ASSUME NEW q \in Procs \ {p}, Holds(q) PROVE Db(q) # Db(p)
  <2>1. CASE q \in Admins
    <3>1. Db(q) \in {Deployed, NoDb}
      BY <2>1 DEF TInv, Place
    <3>2. QED
      BY <1>1, <3>1, TestAssumption, MigrationAssumption
  <2>2. CASE q \in Packages
    <3>1. pkg[q].pc \in Holding
      BY <1>2, <2>2, PackageFacts DEF Holds, Holding
    <3>2. Db(q) = pkg[q].db
      BY <2>2, <3>1, PackageFacts DEF Place
    <3>3. Apart(p, q)
      BY <2>2 DEF TInv
    <3>4. QED
      BY <1>1, <1>2, <3>2, <3>3 DEF Apart
  <2>3. QED
    BY <2>1, <2>2, TestAssumption
<1>3. QED
  BY <1>1, <1>2

LEMMA CleanupStep == ASSUME TInv, NEW p \in Packages, Cleanup(p) PROVE TInv'
<1>1. At(p, "cleanup") /\ UNCHANGED <<mig, container, stopped>>
  BY DEF Cleanup
<1>2. /\ pkg[p].pc \in Holding /\ mig[p].pc = "out" /\ TypeOK
      /\ container.state = "created" => pkg[p].id # container.id
      /\ pkg[p].fail = "lost" => pkg[p].id \in stopped
  BY <1>1, PackageFacts DEF At, Kept, Holding
<1>3. CASE Runs(pkg[p].id)
  <2>1. PICK pc : pc = AfterTests(p)
    OBVIOUS
  <2>2. /\ schema' = [schema EXCEPT ![pkg[p].db] = Empty(FALSE)] /\ Goto(p, pc)
        /\ pc \in Points \ Holding /\ pc \in {"stopping", "done"}
    BY <1>3, <2>1, AfterTestsFacts DEF Cleanup
  <2>3. Moves(p, pc, pkg[p].fail)
    BY <1>2, <2>2, GotoMoves
  <2>4. Holds(p)
    BY <1>2, <1>3 DEF Holds, Holding
  <2>5. /\ pkg[p].db \in Dbs /\ Db(p) = pkg[p].db
        /\ \A q \in Procs \ {p} : Holds(q) => Db(q) # Db(p)
    BY <2>4, HeldFacts
  <2>6. Empty(FALSE) \in Schema /\ Sound(Empty(FALSE))
    BY DEF Empty, Schema, Sound
  <2>7. /\ schema' \in [Dbs -> Schema] /\ schema'[pkg[p].db] = Empty(FALSE)
        /\ \A d \in Dbs \ {pkg[p].db} : schema'[d] = schema[d]
    BY <1>2, <2>2, <2>5, <2>6 DEF TypeOK, MigrationTypeOK
  <2>8. \A d \in Dbs : Sound(schema'[d])
    BY <2>6, <2>7 DEF TInv
  <2>9. \A q \in Procs \ {p} : Spared(q)
    BY <2>5, <2>7 DEF Spared
  <2>10. TypeOK'
    BY <1>1, <1>2, <2>3, <2>7 DEF TypeOK, MigrationTypeOK, Moves
  <2>11. Evolves(p)
    BY <1>1, <2>3, ContainerStays DEF Moves
  <2>12. QED
    BY <1>1, <1>2, <2>2, <2>3, <2>8, <2>9, <2>10, <2>11, DockerStep
<1>4. CASE ~Runs(pkg[p].id)
  <2>1. Fails(p, "lost", AfterTests(p)) /\ UNCHANGED schema
    BY <1>4 DEF Cleanup
  <2>2. QED
    BY <1>1, <1>2, <1>4, <2>1, GivesUp
<1>5. QED
  BY <1>3, <1>4

\* A database as CREATE DATABASE makes it.
LEMMA CreatedRecord ==
  ASSUME NEW s \in Schema, NEW n, n = [s EXCEPT !.exists = TRUE]
  PROVE  /\ n \in Schema /\ n.exists /\ n.lock = s.lock
         /\ n.version = s.version /\ n.table = s.table /\ n.runs = s.runs
  BY DEF Schema

LEMMA CreatedDatabase ==
  ASSUME TInv, NEW name \in Names, schema' = [schema EXCEPT ![name].exists = TRUE]
  PROVE  /\ schema' \in [Dbs -> Schema] /\ schema'[name].exists
         /\ \A d \in Dbs : Sound(schema'[d])
         /\ \A d \in Dbs \ {name} : schema'[d] = schema[d]
<1>1. schema \in [Dbs -> Schema] /\ name \in Dbs
  BY TestAssumption DEF TInv, TypeOK, MigrationTypeOK
<1>2. PICK s : s = schema[name]
  OBVIOUS
<1>3. PICK n : n = [s EXCEPT !.exists = TRUE]
  OBVIOUS
<1>4. s \in Schema /\ Sound(s)
  BY <1>1, <1>2 DEF TInv
<1>5. n \in Schema /\ n.exists /\ n.lock = s.lock
      /\ n.version = s.version /\ n.table = s.table /\ n.runs = s.runs
  BY <1>3, <1>4, CreatedRecord
<1>6. Sound(n)
  BY <1>4, <1>5 DEF Sound
<1>7. schema' = [schema EXCEPT ![name] = n]
  BY <1>1, <1>2, <1>3
<1>8. schema' \in [Dbs -> Schema] /\ schema'[name] = n
      /\ \A d \in Dbs \ {name} : schema'[d] = schema[d]
  BY <1>1, <1>5, <1>7
<1>9. \A d \in Dbs : Sound(schema'[d])
  BY <1>6, <1>8 DEF TInv
<1>10. QED
  BY <1>5, <1>8, <1>9

\* The database is new: nobody else holds one of that name.
LEMMA CreatedStep ==
  ASSUME TInv, NEW p \in Packages, At(p, "got"), Runs(pkg[p].id),
         NEW name \in Names, CanCreate(name), UNCHANGED <<container, stopped>>,
         schema' = [schema EXCEPT ![name].exists = TRUE],
         pkg' = [pkg EXCEPT ![p].pc = "migrating", ![p].db = name],
         mig' = [mig EXCEPT ![p] = [pc |-> "locking", db |-> name, result |-> "none"]]
  PROVE  TInv'
<1>1. /\ schema' \in [Dbs -> Schema] /\ schema'[name].exists
      /\ \A d \in Dbs : Sound(schema'[d])
      /\ \A d \in Dbs \ {name} : schema'[d] = schema[d]
  BY CreatedDatabase
<1>2. /\ TypeOK /\ p \in Procs /\ p \notin Admins /\ name \in Dbs /\ pkg[p].id \in Nat
      /\ pkg[p].fail # "lost" /\ pkg[p].id <= container.id /\ mig \in [Procs -> Call]
      /\ pkg[p] \in Package /\ pkg \in [Packages -> Package]
  BY PackageFacts, TestAssumption DEF At, Kept, TypeOK, MigrationTypeOK
<1>3. /\ pkg'[p] \in Package /\ pkg'[p].pc = "migrating" /\ pkg'[p].db = name
      /\ pkg'[p].id = pkg[p].id /\ pkg'[p].fail = pkg[p].fail
      /\ \A q \in Packages \ {p} : pkg'[q] = pkg[q]
  BY <1>2 DEF Package
<1>4. pkg' \in [Packages -> Package]
  BY <1>2, <1>3
<1>5. PICK c : c = [pc |-> "locking", db |-> name, result |-> "none"]
  OBVIOUS
<1>6. c \in Call /\ c.pc = "locking" /\ c.db = name /\ c.result = "none"
  BY <1>2, <1>5 DEF Call
<1>7. mig' \in [Procs -> Call] /\ mig'[p] = c /\ \A q \in Procs \ {p} : mig'[q] = mig[q]
  BY <1>2, <1>5, <1>6
<1>8. TypeOK'
  BY <1>1, <1>2, <1>4, <1>7 DEF TypeOK, MigrationTypeOK
<1>9. Evolves(p)
  BY <1>3, ContainerStays
<1>10. ASSUME NEW q \in Procs \ {p}, Holds(q) PROVE Db(q) # name
  <2>1. CASE q \in Admins
    <3>1. Db(q) \in {Deployed, NoDb}
      BY <2>1 DEF TInv, Place
    <3>2. QED
      BY <1>2, <3>1, TestAssumption, MigrationAssumption
  <2>2. CASE q \in Packages
    BY <1>10, <2>2, HeldFacts DEF CanCreate
  <2>3. QED
    BY <2>1, <2>2, TestAssumption
<1>11. \A q \in Procs \ {p} : Spared(q)
  BY <1>1, <1>10 DEF Spared
<1>12. Claim(p)'
  BY <1>6, <1>7 DEF Claim, InPlace
<1>13. Place(p)'
  BY <1>1, <1>2, <1>3, <1>6, <1>7 DEF Place, Db, Holding
<1>14. Kept(p)'
  BY <1>2, <1>3 DEF Kept, Runs
<1>15. \A q \in Packages \ {p} : Apart(p, q)' /\ Apart(q, p)'
  <2> SUFFICES ASSUME NEW q \in Packages \ {p}, Holds(q)' PROVE pkg'[q].db # pkg'[p].db
    BY DEF Apart
  <2>1. pkg'[q] = pkg[q] /\ q \notin Admins /\ q \in Procs
    BY <1>3, TestAssumption
  <2>2. Holds(q)
    BY <1>9, <2>1 DEF Holds, Runs
  <2>3. Db(q) = pkg[q].db
    BY <2>2, HeldFacts
  <2>4. QED
    BY <1>3, <1>10, <2>1, <2>2, <2>3
<1>16. QED
  BY <1>1, <1>2, <1>3, <1>7, <1>8, <1>9, <1>11, <1>12, <1>13, <1>14, <1>15, OneMoves

LEMMA NewDatabaseStep == ASSUME TInv, NEW p \in Packages, NewDatabase(p) PROVE TInv'
<1>1. At(p, "got") /\ UNCHANGED <<container, stopped>>
  BY DEF NewDatabase
<1>2. mig[p].pc = "out" /\ pkg[p].pc = "got"
  BY <1>1, PackageFacts DEF At
<1>3. CASE Runs(pkg[p].id)
  <2>1. PICK name \in Names :
            IF CanCreate(name)
            THEN /\ schema' = [schema EXCEPT ![name].exists = TRUE]
                 /\ pkg' = [pkg EXCEPT ![p].pc = "migrating", ![p].db = name]
                 /\ mig' = [mig EXCEPT ![p] =
                              [pc |-> "locking", db |-> name, result |-> "none"]]
            ELSE Fails(p, "name", AfterTests(p)) /\ UNCHANGED <<schema, mig>>
    BY <1>3 DEF NewDatabase
  <2>2. CASE CanCreate(name)
    BY <1>1, <1>3, <2>1, <2>2, CreatedStep
  <2>3. CASE ~CanCreate(name)
    <3>1. Fails(p, "name", AfterTests(p)) /\ UNCHANGED <<schema, mig>>
      BY <2>1, <2>3
    <3>2. QED
      BY <1>1, <1>2, <3>1, GivesUp
  <2>4. QED
    BY <2>2, <2>3
<1>4. CASE ~Runs(pkg[p].id)
  <2>1. Fails(p, "lost", AfterTests(p)) /\ UNCHANGED <<schema, mig>>
    BY <1>4 DEF NewDatabase
  <2>2. QED
    BY <1>1, <1>2, <1>4, <2>1, GivesUp
<1>5. QED
  BY <1>3, <1>4

\* A promise of p spares whoever else holds a database.
LEMMA PromiseSpares ==
  ASSUME TInv, NEW p \in Procs, Promise(p)
  PROVE  (\A q \in Procs \ {p} : Spared(q)) /\ \A d \in Dbs : Sound(schema'[d])
<1>1. ASSUME NEW q \in Procs \ {p}, Db(q) \in Dbs
      PROVE  /\ schema[Db(q)].exists => schema'[Db(q)].exists
             /\ schema[Db(q)].lock = q => schema'[Db(q)] = schema[Db(q)]
             /\ Ready(schema[Db(q)]) => Ready(schema'[Db(q)])
  <2>1. q \notin {NoProc, p}
    BY MigrationAssumption
  <2>2. QED
    BY <1>1, <2>1 DEF Promise, Follows
<1>2. \A d \in Dbs : Sound(schema'[d])
  BY DEF Promise, Follows
<1>3. QED
  BY <1>1, <1>2 DEF Spared

LEMMA MigrateTestStep == ASSUME TInv, NEW p \in Packages, MigrateTest(p) PROVE TInv'
<1>1. At(p, "migrating") /\ UNCHANGED <<container, pkg, stopped>>
  BY DEF MigrateTest, testVars
<1>2. /\ TypeOK /\ MigrationTypeOK /\ p \in Procs /\ p \notin Admins
      /\ \A d \in Dbs : Sound(schema[d])
  BY PackageFacts DEF TInv, TypeOK
<1>3. Promise(p) /\ mig'[p].db = mig[p].db
  <2>1. CASE Runs(pkg[p].id)
    <3>1. Holds(p)
      BY <1>1, <2>1 DEF Holds, At
    <3>2. Db(p) \in Dbs /\ InPlace(p)
      BY <3>1, HeldFacts, PackageFacts DEF Claim
    <3>3. MigrateStep(p)
      BY <2>1 DEF MigrateTest
    <3>4. QED
      BY <1>2, <3>2, <3>3, CallStep
  <2>2. CASE ~Runs(pkg[p].id)
    <3>1. Return(p, "other", schema) /\ MigrateResult("other") # "ok"
      BY <2>2 DEF MigrateTest, MigrateResult
    <3>2. QED
      BY <1>2, <3>1, NoStatement, ReturnFacts DEF Promise
  <2>3. QED
    BY <2>1, <2>2
<1>4. TypeOK'
  BY <1>1, <1>2, <1>3 DEF TypeOK, Promise
<1>5. Evolves(p)
  BY <1>1, ContainerStays
<1>6. Claim(p)' /\ Kept(p)'
  BY <1>1, <1>3, PackageFacts DEF Claim, Promise, Kept, Runs
<1>7. Place(p)'
  <2>1. Holds(p)' => Holds(p)
    BY <1>1 DEF Holds, Runs
  <2>2. ASSUME Holds(p) PROVE schema'[pkg[p].db].exists
    <3>1. Db(p) = pkg[p].db /\ Db(p) \in Dbs /\ schema[Db(p)].exists
      BY <2>2, HeldFacts
    <3>2. QED
      BY <1>3, <3>1 DEF Promise, Follows
  <2>3. pkg[p].db \in Names /\ Db(p) = pkg[p].db
    BY <1>1, PackageFacts DEF Place, At, Holding
  <2>4. QED
    BY <1>1, <1>2, <1>3, <2>1, <2>2, <2>3 DEF Place, Db, At
<1>8. \A q \in Packages \ {p} : Apart(p, q)' /\ Apart(q, p)'
  BY <1>1 DEF TInv, Apart, Holds, Runs
<1>9. QED
  BY <1>1, <1>2, <1>3, <1>4, <1>5, <1>6, <1>7, <1>8, PromiseSpares, OneMoves DEF Promise

LEMMA PackageStepKeeps == ASSUME TInv, NEW p \in Packages, PackageStep(p) PROVE TInv'
  BY ExistsStep, RemoveStep, CreateStep, StartStep, InspectStep, StopStep, RemoveStoppedStep,
     NewDatabaseStep, MigrateTestStep, MigratedStep, TestStep, CleanupStep DEF PackageStep

------------------------------------------------------------------------------
(***************************************************************************)
(* The admin command.                                                      *)
(***************************************************************************)
LEMMA AdminMoves ==
  ASSUME TInv, NEW a \in Admins, UNCHANGED testVars, MigrationTypeOK',
         \A d \in Dbs : Sound(schema'[d]),
         \A q \in Procs \ {a} : mig'[q] = mig[q] /\ Spared(q),
         InPlace(a)', Db(a)' \in {Deployed, NoDb},
         mig'[a].pc # "out" \/ mig'[a].result # "none" => Db(a)' = Deployed
  PROVE  TInv'
<1>1. a \in Procs /\ a \notin Packages /\ UNCHANGED <<container, pkg, stopped>>
  BY TestAssumption DEF testVars
<1>2. TypeOK' /\ Evolves(a)
  BY <1>1, ContainerStays DEF TInv, TypeOK
<1>3. Claim(a)' /\ Place(a)'
  BY DEF Claim, Place
<1>4. QED
  BY <1>1, <1>2, <1>3, OneMoves

LEMMA AdminMigrateStep == ASSUME TInv, NEW a \in Admins, AdminMigrate(a) PROVE TInv'
<1>1. UNCHANGED testVars /\ schema' = schema
      /\ mig' = [mig EXCEPT ![a] = [pc |-> "locking", db |-> Deployed, result |-> "none"]]
  BY DEF AdminMigrate, MigrateBegin
<1>2. schema \in [Dbs -> Schema] /\ mig \in [Procs -> Call] /\ a \in Procs /\ Deployed \in Dbs
  BY TestAssumption DEF TInv, TypeOK, MigrationTypeOK
<1>3. PICK c : c = [pc |-> "locking", db |-> Deployed, result |-> "none"]
  OBVIOUS
<1>4. c \in Call /\ c.pc = "locking" /\ c.db = Deployed /\ c.result = "none"
  BY <1>2, <1>3 DEF Call
<1>5. mig' \in [Procs -> Call] /\ mig'[a] = c /\ \A q \in Procs \ {a} : mig'[q] = mig[q]
  BY <1>1, <1>2, <1>3, <1>4
<1>6. MigrationTypeOK' /\ InPlace(a)' /\ Db(a)' = Deployed
  BY <1>1, <1>2, <1>4, <1>5 DEF MigrationTypeOK, InPlace, Db
<1>7. QED
  BY <1>1, <1>5, <1>6, SchemaStays, AdminMoves

LEMMA AdminStepKeeps == ASSUME TInv, NEW a \in Admins, AdminStep(a) PROVE TInv'
<1>1. UNCHANGED testVars /\ (MigrateStep(a) \/ Kill(a)) /\ a \in Procs
  BY TestAssumption DEF AdminStep
<1>2. mig[a].pc # "out"
  BY <1>1 DEF MigrateStep, Lock, LockFails, NothingToDo, SetDirty, RunScript, SetClean, Kill
<1>3. MigrationTypeOK /\ InPlace(a) /\ Db(a) = Deployed /\ \A d \in Dbs : Sound(schema[d])
  BY <1>1, <1>2 DEF TInv, TypeOK, Claim, Holds, Place
<1>4. Db(a) \in Dbs
  BY <1>3, TestAssumption
<1>5. CASE MigrateStep(a)
  <2>1. Promise(a) /\ Db(a)' = Deployed
    BY <1>1, <1>3, <1>4, <1>5, CallStep DEF Db
  <2>2. (\A q \in Procs \ {a} : Spared(q)) /\ \A d \in Dbs : Sound(schema'[d])
    BY <1>1, <2>1, PromiseSpares
  <2>3. QED
    BY <1>1, <2>1, <2>2, AdminMoves DEF Promise
<1>6. CASE Kill(a)
  <2>1. Promise(a) /\ mig'[a] = NoCall
    BY <1>1, <1>3, <1>4, <1>6, KillStep
  <2>2. Db(a)' = NoDb /\ mig'[a].pc = "out" /\ mig'[a].result = "none"
    BY <2>1 DEF Db, NoCall
  <2>3. (\A q \in Procs \ {a} : Spared(q)) /\ \A d \in Dbs : Sound(schema'[d])
    BY <1>1, <2>1, PromiseSpares
  <2>4. QED
    BY <1>1, <2>1, <2>2, <2>3, AdminMoves DEF Promise
<1>7. QED
  BY <1>1, <1>5, <1>6

------------------------------------------------------------------------------
LEMMA TInvInit == ASSUME Init PROVE TInv
<1>1. \A e \in BOOLEAN : Empty(e) \in Schema /\ Sound(Empty(e))
  BY DEF Empty, Schema, Sound
<1>2. NoCall \in Call /\ NoCall.pc = "out" /\ NoCall.db = NoDb /\ NoCall.result = "none"
  BY DEF NoCall, Call
<1>3. /\ schema = [d \in Dbs |-> Empty(d = Deployed)] /\ mig = [p \in Procs |-> NoCall]
      /\ container = [state |-> "absent", id |-> 0] /\ stopped = {}
  BY DEF Init
<1>4. PICK pc \in {"exists", "done"} :
        pkg = [p \in Packages |->
                 [pc |-> pc, try |-> 1, id |-> 0, db |-> NoDb, fail |-> "none"]]
  BY DEF Init
<1>5. PICK r : r = [pc |-> pc, try |-> 1, id |-> 0, db |-> NoDb, fail |-> "none"]
  OBVIOUS
<1>6. 1 \in 1 .. MaxTries
  BY TestAssumption
<1>7. r \in Package /\ r.pc \in {"exists", "done"} /\ r.id = 0 /\ r.fail = "none"
  BY <1>5, <1>6 DEF Package
<1>8. pkg \in [Packages -> Package] /\ \A p \in Packages : pkg[p] = r
  BY <1>4, <1>5, <1>7
<1>9. TypeOK /\ \A d \in Dbs : Sound(schema[d])
  BY <1>1, <1>2, <1>3, <1>8 DEF TypeOK, MigrationTypeOK
<1>10. \A i : ~Runs(i)
  BY <1>3 DEF Runs
<1>11. ASSUME NEW p \in Procs PROVE Claim(p) /\ Place(p)
  <2>1. mig[p] = NoCall /\ (p \notin Admins => p \in Packages /\ ~Holds(p))
    BY <1>3, <1>10, TestAssumption DEF Holds
  <2>2. Claim(p)
    BY <1>2, <2>1 DEF Claim, InPlace
  <2>3. Place(p)
    BY <1>2, <1>7, <1>8, <2>1 DEF Place, Db, Holding
  <2>4. QED
    BY <2>2, <2>3
<1>12. ASSUME NEW p \in Packages PROVE Kept(p)
  <2>1. pkg[p].id <= container.id /\ container.state = "absent"
    BY <1>3, <1>7, <1>8
  <2>2. pkg[p].pc \in {"exists", "done"} /\ pkg[p].fail = "none"
    BY <1>7, <1>8
  <2>3. QED
    BY <2>1, <2>2 DEF Kept, Holding
<1>13. \A p, q \in Packages : Apart(p, q)
  BY <1>10, TestAssumption DEF Apart, Holds
<1>14. QED
  BY <1>3, <1>9, <1>11, <1>12, <1>13 DEF TInv

\* The inductive invariant, for any number of packages, admin commands, names
\* and tries: who holds a database has its lock while it migrates it, and what a
\* process that lost its container still believes changes nothing there.
THEOREM TestDatabasesInvariance == Spec => []TInv
<1>1. Init => TInv
  BY TInvInit
<1>2. TInv /\ [Next]_vars => TInv'
  <2> SUFFICES ASSUME TInv, [Next]_vars PROVE TInv'
    OBVIOUS
  <2>1. CASE UNCHANGED vars
    BY <2>1 DEF vars, TInv, TypeOK, MigrationTypeOK, Sound, Claim, InPlace, Place, Kept,
                Apart, Holds, Runs, Db, Ready
  <2>2. ASSUME NEW p \in Packages, PackageStep(p) PROVE TInv'
    BY <2>2, PackageStepKeeps
  <2>3. ASSUME NEW a \in Admins, AdminMigrate(a) \/ AdminStep(a) PROVE TInv'
    BY <2>3, AdminMigrateStep, AdminStepKeeps
  <2>4. QED
    BY <2>1, <2>2, <2>3 DEF Next
<1>3. QED
  BY <1>1, <1>2, PTL DEF Spec

\* Every variable keeps its type: a container's number only grows, the tries of
\* StartContainer stay within its loop, and what was stopped had been created.
THEOREM TestDatabasesTypes == Spec => []TypeOK
<1>1. TInv => TypeOK
  BY DEF TInv
<1>2. QED
  BY <1>1, TestDatabasesInvariance, PTL

\* A database that a call of Migrate has called migrated has the users table and
\* a clean version, whoever was killed or failed in it before.
THEOREM MigratedIsReady == Spec => []MigratedMeansReady
<1>1. TInv => MigratedMeansReady
  BY DEF TInv, MigratedMeansReady, Claim, InPlace, Ready
<1>2. QED
  BY <1>1, TestDatabasesInvariance, PTL

\* No interleaving of calls of Migrate, of kills and of new starts gives the
\* script, which cannot be repeated, to a database twice.
THEOREM ScriptGivenOnce == Spec => []ScriptRunsOnce
<1>1. TInv => ScriptRunsOnce
  BY DEF TInv, ScriptRunsOnce, Sound
<1>2. QED
  BY <1>1, TestDatabasesInvariance, PTL

\* Packages that test in the same container work on databases of their own.
THEOREM DatabasesAreOwn == Spec => []OwnDatabase
<1>1. TInv => OwnDatabase
  <2> SUFFICES ASSUME TInv, NEW p \in Packages, NEW q \in Packages, p # q,
                      pkg[p].id = pkg[q].id, Runs(pkg[p].id),
                      {pkg[p].pc, pkg[q].pc} \subseteq {"migrating", "testing", "cleanup"}
               PROVE  pkg[p].db # pkg[q].db
    BY DEF OwnDatabase
  <2>1. Holds(p) /\ Holds(q)
    BY DEF Holds
  <2>2. Apart(p, q)
    BY DEF TInv
  <2>3. QED
    BY <2>1, <2>2 DEF Apart
<1>2. QED
  BY <1>1, TestDatabasesInvariance, PTL

\* A package loses its container to a StopContainer only, never to another
\* package that removes what it finds under the name.
THEOREM LostToStopOnly == Spec => []LostOnlyToStop
<1>1. TInv => LostOnlyToStop
  BY DEF TInv, LostOnlyToStop, Kept
<1>2. QED
  BY <1>1, TestDatabasesInvariance, PTL
==============================================================================
