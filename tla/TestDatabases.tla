---------------------------- MODULE TestDatabases ----------------------------
(***************************************************************************)
(* The databases of the tests: go test runs the packages' test binaries in *)
(* parallel processes, which share one PostgreSQL container by its name    *)
(* (dbtest.CreateDBContainer, pkg/docker).  A test gets a database of its  *)
(* own in it, migrated by Migration's steps (dbtest.New); TestMain of the  *)
(* handler package stops the container at its end, that of the bus package *)
(* defers the stop behind os.Exit and never gets there.                    *)
(*                                                                         *)
(* Beside them the admin command migrates the deployed database: an init   *)
(* container that the kubelet starts over, or an operator.                 *)
(***************************************************************************)
EXTENDS Migration, FiniteSets

CONSTANTS
  Packages,   \* the packages with a TestMain; those in Stoppers stop at the end
  Stoppers,
  Admins,     \* runs of the admin command
  Names,      \* the names dbtest.New may draw
  Deployed,   \* the deployed database
  MaxTries    \* how often StartContainer tries (3)

ASSUME TestAssumption ==
  /\ Procs = Packages \cup Admins /\ Packages \cap Admins = {}
  /\ Stoppers \subseteq Packages
  /\ Dbs = Names \cup {Deployed} /\ Deployed \notin Names
  /\ MaxTries \in Nat \ {0}

VARIABLES
  container,  \* the container named "bustest": its state and its incarnation
  pkg,        \* for every package: its process
  stopped     \* the incarnations a StopContainer has stopped (history)

testVars == <<container, pkg, stopped>>
vars == <<schema, mig, container, pkg, stopped>>

\* "fail": what the process ended with, or "none".
Package ==
  [pc : {"exists", "rm", "create", "start", "inspect", "stop", "rmNew",
         "got", "migrating", "testing", "cleanup", "stopping", "removing", "done"},
   try : 1 .. MaxTries, id : Nat, db : Names \cup {NoDb},
   fail : {"none", "docker", "name", "lost", "migration"}]

TypeOK ==
  /\ MigrationTypeOK
  /\ container \in [state : {"absent", "created", "running", "stopped"}, id : Nat]
  /\ pkg \in [Packages -> Package]
  /\ stopped \subseteq 1 .. container.id

\* The tests and the deployment share no server and no lock: a behaviour is of
\* one or of the other.
Init ==
  /\ schema = [d \in Dbs |-> Empty(d = Deployed)]
  /\ mig = [p \in Procs |-> NoCall]
  /\ container = [state |-> "absent", id |-> 0]
  /\ \E pc \in {"exists", "done"} :
       pkg = [p \in Packages |->
                [pc |-> pc, try |-> 1, id |-> 0, db |-> NoDb, fail |-> "none"]]
  /\ stopped = {}

At(p, pc) == pkg[p].pc = pc

Goto(p, pc) == pkg' = [pkg EXCEPT ![p].pc = pc]

(***************************************************************************)
(* docker (external): commands on the container.                           *)
(***************************************************************************)
\* docker rm removes what does not run, and the databases with it.
Removed == container' = [container EXCEPT !.state = "absent"]

Vanish == schema' = [d \in Dbs |-> IF d \in Names THEN Empty(FALSE) ELSE schema[d]]

\* Incarnation id runs.
Runs(id) == container = [state |-> "running", id |-> id]

(***************************************************************************)
(* docker.StartContainer.                                                  *)
(***************************************************************************)
\* The process ends with a failure: os.Exit, log.Fatalf, or tests that fail.
\* TestMain runs what follows m.Run all the same.
Fails(p, why, pc) == pkg' = [pkg EXCEPT ![p].pc = pc, ![p].fail = why]

\* Mutant of Retry: the loop runs once too often.
RetryOnceMore(p) ==
  IF pkg[p].try <= MaxTries
  THEN pkg' = [pkg EXCEPT ![p].pc = "exists", ![p].try = @ + 1]
  ELSE Fails(p, "docker", "done")

\* startContainer failed: try again, or give up.
Retry(p) ==
  IF pkg[p].try < MaxTries
  THEN pkg' = [pkg EXCEPT ![p].pc = "exists", ![p].try = @ + 1]
  ELSE Fails(p, "docker", "done")

\* exists: a container of that name that runs is taken as it is.
Exists(p) ==
  /\ At(p, "exists")
  /\ IF container.state = "running"
     THEN pkg' = [pkg EXCEPT ![p].pc = "got", ![p].id = container.id]
     ELSE Goto(p, "rm")
  /\ UNCHANGED <<schema, mig, container, stopped>>

\* Mutant of RemovableStates: docker rm --force.
ForceRemovable == {"created", "running", "stopped"}

\* What docker rm without --force removes.
RemovableStates == {"created", "stopped"}

\* A container with this name that does not run is deleted first.
Remove(p) ==
  /\ At(p, "rm")
  /\ IF container.state \in RemovableStates
     THEN Removed /\ Vanish ELSE UNCHANGED <<container, schema>>
  /\ Goto(p, "create")
  /\ UNCHANGED <<mig, stopped>>

\* docker run creates the container, unless the name is taken ...
Create(p) ==
  /\ At(p, "create")
  /\ IF container.state = "absent"
     THEN /\ container' = [state |-> "created", id |-> container.id + 1]
          /\ pkg' = [pkg EXCEPT ![p].pc = "start", ![p].id = container.id + 1]
     ELSE Retry(p) /\ UNCHANGED container
  /\ UNCHANGED <<schema, mig, stopped>>

\* ... and starts it, unless somebody has removed it meanwhile.
Start(p) ==
  /\ At(p, "start")
  /\ IF container = [state |-> "created", id |-> pkg[p].id]
     THEN container' = [container EXCEPT !.state = "running"] /\ Goto(p, "inspect")
     ELSE Retry(p) /\ UNCHANGED container
  /\ UNCHANGED <<schema, mig, stopped>>

\* extractIPPort of the new container: where it fails the container is stopped.
Inspect(p) ==
  /\ At(p, "inspect")
  /\ \/ Runs(pkg[p].id) /\ Goto(p, "got")
     \/ Goto(p, "stop")
  /\ UNCHANGED <<schema, mig, container, stopped>>

(***************************************************************************)
(* docker.StopContainer: of the new container by its id ("stop", "rmNew"), *)
(* of whatever has the name at the end of TestMain ("stopping",            *)
(* "removing").                                                            *)
(***************************************************************************)
\* The container that package p addresses is there.
Addressed(p) ==
  /\ container.state # "absent"
  /\ At(p, "stop") \/ At(p, "rmNew") => container.id = pkg[p].id

\* What follows a StopContainer, whose error nobody looks at.
Stopped(p) == IF At(p, "stop") \/ At(p, "rmNew") THEN Retry(p) ELSE Goto(p, "done")

\* docker stop also succeeds on a container that does not run.
Stop(p) ==
  /\ At(p, "stop") \/ At(p, "stopping")
  /\ IF Addressed(p)
     THEN Goto(p, IF At(p, "stop") THEN "rmNew" ELSE "removing")
     ELSE Stopped(p)
  /\ IF Addressed(p) /\ container.state = "running"
     THEN /\ container' = [container EXCEPT !.state = "stopped"]
          /\ stopped' = stopped \cup {container.id}
     ELSE UNCHANGED <<container, stopped>>
  /\ UNCHANGED <<schema, mig>>

RemoveStopped(p) ==
  /\ At(p, "rmNew") \/ At(p, "removing")
  /\ IF Addressed(p) /\ container.state \in RemovableStates
     THEN Removed /\ Vanish ELSE UNCHANGED <<container, schema>>
  /\ Stopped(p)
  /\ UNCHANGED <<mig, stopped>>

(***************************************************************************)
(* dbtest.New and the test that asked for the database.                    *)
(***************************************************************************)
\* What comes behind m.Run in TestMain.
AfterTests(p) == IF p \in Stoppers THEN "stopping" ELSE "done"

\* Mutant of CanCreate: CREATE DATABASE is skipped for a name that is there.
CanCreateAny(name) == TRUE

\* CREATE DATABASE refuses a name that is taken.
CanCreate(name) == ~schema[name].exists

\* ConnCheck and CREATE DATABASE, under a random name.
NewDatabase(p) ==
  /\ At(p, "got")
  /\ IF Runs(pkg[p].id)
     THEN \E name \in Names :
            IF CanCreate(name)
            THEN /\ schema' = [schema EXCEPT ![name].exists = TRUE]
                 /\ pkg' = [pkg EXCEPT ![p].pc = "migrating", ![p].db = name]
                 /\ mig' = [mig EXCEPT ![p] =
                              [pc |-> "locking", db |-> name, result |-> "none"]]
            ELSE Fails(p, "name", AfterTests(p)) /\ UNCHANGED <<schema, mig>>
     ELSE Fails(p, "lost", AfterTests(p)) /\ UNCHANGED <<schema, mig>>
  /\ UNCHANGED <<container, stopped>>

\* The statements of Migrate reach the container the package has connected to.
MigrateTest(p) ==
  /\ At(p, "migrating") /\ mig[p].pc # "out"
  /\ IF Runs(pkg[p].id) THEN MigrateStep(p) ELSE Return(p, "other", schema)
  /\ UNCHANGED testVars

\* A failed migration is fatal, and the database stays: Cleanup is registered
\* behind it.
Migrated(p) ==
  /\ At(p, "migrating") /\ mig[p].pc = "out"
  /\ IF mig[p].result = "ok" THEN Goto(p, "testing")
     ELSE Fails(p, IF Runs(pkg[p].id) THEN "migration" ELSE "lost", AfterTests(p))
  /\ UNCHANGED <<schema, mig, container, stopped>>

\* The test runs its statements, then its Cleanup.
Test(p) ==
  /\ At(p, "testing")
  /\ IF Runs(pkg[p].id) THEN Goto(p, "cleanup") ELSE Fails(p, "lost", "cleanup")
  /\ UNCHANGED <<schema, mig, container, stopped>>

\* Cleanup drops the database, if the container is still there.
Cleanup(p) ==
  /\ At(p, "cleanup")
  /\ IF Runs(pkg[p].id)
     THEN /\ schema' = [schema EXCEPT ![pkg[p].db] = Empty(FALSE)]
          /\ Goto(p, AfterTests(p))
     ELSE Fails(p, "lost", AfterTests(p)) /\ UNCHANGED schema
  /\ UNCHANGED <<mig, container, stopped>>

(***************************************************************************)
(* The admin command.                                                      *)
(***************************************************************************)
AdminMigrate(a) ==
  /\ container.id = 0 /\ \A p \in Packages : At(p, "done")
  /\ MigrateBegin(a, Deployed)
  /\ UNCHANGED testVars

AdminStep(a) ==
  /\ MigrateStep(a) \/ Kill(a)
  /\ UNCHANGED testVars

PackageStep(p) ==
  \/ Exists(p) \/ Remove(p) \/ Create(p) \/ Start(p) \/ Inspect(p)
  \/ Stop(p) \/ RemoveStopped(p)
  \/ NewDatabase(p) \/ MigrateTest(p) \/ Migrated(p) \/ Test(p) \/ Cleanup(p)

Next ==
  \/ \E p \in Packages : PackageStep(p)
  \/ \E a \in Admins : AdminMigrate(a) \/ AdminStep(a)

Spec == Init /\ [][Next]_vars

(***************************************************************************)
(* Properties.                                                             *)
(***************************************************************************)
\* The database of p's last call of Migrate is still the one it migrated.
Holds(p) ==
  \/ p \in Admins
  \/ Runs(pkg[p].id) /\ pkg[p].pc \in {"migrating", "testing", "cleanup"}

\* A database that a call of Migrate has called migrated has the users table
\* and a clean version, whoever crashed or failed in it before: neither a test
\* nor the service behind the init container starts on half a migration.
MigratedMeansReady ==
  \A p \in Procs :
    (mig[p].pc = "out" /\ mig[p].result = "ok" /\ Holds(p))
      => schema[Db(p)].table /\ schema[Db(p)].version = "clean"

\* Packages that test at the same time in the same container never work on the
\* same database, although names are drawn at random and migrations are slow.
OwnDatabase ==
  \A p, q \in Packages :
    (/\ p # q /\ pkg[p].id = pkg[q].id /\ Runs(pkg[p].id)
     /\ {pkg[p].pc, pkg[q].pc} \subseteq {"migrating", "testing", "cleanup"})
      => pkg[p].db # pkg[q].db

\* Both packages use the name "bustest", and each deletes what it finds stopped
\* under it: a package loses its container only to a StopContainer, never to
\* another package that is starting its own.
LostOnlyToStop == \A p \in Packages : pkg[p].fail = "lost" => pkg[p].id \in stopped
==============================================================================
