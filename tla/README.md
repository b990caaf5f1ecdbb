# A TLA+ model of jumble

jumble is a small web service in Go: user accounts behind a gin router, a
PostgreSQL table, JWTs signed with keys of an in-memory key store, an admin
command that migrates the schema, and tests that run against a container. This
directory holds TLA+ modules that model it, the TLC configurations that check
them, and proofs for TLAPS. `PROJECT.json` lists components, runs, mutants,
findings, hazards and theorems, and maps every definition to source lines.

## 1. Inventory

| Part | State | Operations | Interacts with |
|---|---|---|---|
| user handlers (`user/handler`) | none; the request's gin context | create, login, query by id, update, update roles, disable, delete, list | bus, auth, context key `user` |
| business layer (`user/bus`) | none | hash, merge an update into a snapshot, compare a password, parse roles and order | store |
| store (`user/store/userdb`) | table `users`, `UNIQUE(email)` | INSERT, UPDATE, DELETE, SELECT, COUNT; each a statement of its own, no transaction | PostgreSQL |
| listing (`page`, `bus/order.go`, filters) | none | parse page, filters, order; query, then count | store |
| role arrays (`bus/roles.go`) | none | to and from the text form of an array | store |
| key store (`pkg/keystore`) | kid -> key, active kid, one RWMutex | load a directory, activate, look up | auth, main |
| auth (`internal/auth`) | none | sign, verify, authorize | login, create, `mid.Authenticate` |
| middleware (`internal/mid`) | the gin context | Authenticate, Authorized, Error, Logger, Metrics, Panic, Telemetry | each other, through their order |
| metrics | expvar counters | add | Metrics, Panic |
| process (`cmd/services`), telemetry | listener, pool, exporter, span queue, signal context | start, serve, shut down, exit | everything |
| connection check, health probes | attempt count | ping with backoff; readiness, liveness | the pool, the kubelet |
| migrations, admin command | `schema_migrations`, advisory lock | lock, mark dirty, run, mark clean | golang-migrate, init container |
| test infrastructure (`dbtest`, `docker`) | a container shared by its name, one database per test | start, stop, create, migrate, drop | both test packages |
| logger, debug server | none | write | - |

What is hard here: requests run in goroutines without locks or transactions, so
what a request read (the context's user, a fetched target, roles in a token, a
page) may be stale when it is used; a statement that fails may have been
executed; the order of middleware decides what a panic or an error becomes; the
end of the process races with requests, the listener and the start; tokens
outlive processes and keys; a sleep does not look at its context; a migration
may die between any two of its statements; test processes share a container
nobody owns. The hazards in `PROJECT.json` name the lines.

## 2. Modules

| Module | What it is |
|---|---|
| `UserModel` | constants and data of the user handlers, with their assumptions |
| `UserDirectory` | abstract specification of the users table |
| `UserHandlers` | concurrent requests: handlers, bus, store, `mid.Authenticate`, `mid.Authorized` |
| `UserList`, `RoleArray` | the list route over a changing table; the text form of roles as pure operators |
| `RequestPipeline` | gin's chain of middleware and handlers, panics, recorded errors, metrics |
| `KeyRing` | abstract specification of a key store with atomic operations |
| `KeyStore` | the key store, one step per critical section |
| `AuthTokens` | composes `KeyStore` with the process and the tokens: restarts, key rotation |
| `Lifecycle` | `main.run`: start, signal, shutdown, deferred calls, exit; queued spans |
| `Readiness` | ConnCheck and the readiness handler against clock, database and kubelet |
| `Migration` | `migrate.Migrate` over golang-migrate, for any processes and databases |
| `TestDatabases` | composes `Migration` with `docker`, `dbtest`, the TestMains and the admin command |
| `...Proofs` | the TLAPS proofs about the module of that name |
| `MC...` | the instances TLC checks |

Definitions that begin with the comment "Mutant of X" are faulty variants of X.
They are used by no specification; substituted for X they must make a property
fail (`mutants` in `PROJECT.json`).

### UserHandlers

`users` is the table, `used` the ids ever inserted (history), `issued` the claims
of the tokens signed, and `req[r]` one slot per concurrent request, used again
and again. An action is one handler, or the part of it from one database access
to the next: create, login, lookup, update, update-roles and disable touch the
database once, `DeleteUser` twice (`DeleteUserFetch`, `DeleteUserExec`). In
between a slot holds the context's user as a snapshot (`actor`, `snap`) and the
token's roles (`claims`). A body is chosen when the statement runs: between the
binding and the statement nothing is shared.

The store's operators return the set of possible results, a table and an error.
Error `other` stands for every failure of driver, connection, deadline or
cancelled context, and leaves open whether the statement was executed. An UPDATE
of an absent row does nothing and succeeds, as in SQL.

Three handlers end in ways the code's author did not intend, and the model says so:
`UpdateUser` panics when the body has no e-mail address, `DisableUser` always
panics once it has fetched its target, both in `toBusUpdateUser`; `UpdateRole`
panics in the validator on every list of roles (`oneof` on a slice without
`dive`). The lines behind these panics are unreachable and have no action.

`Wiring` selects the order of a protected route. `"registered"` is `routes.go`:
the handler is the first of its chain and finds no user in its context.
`"intended"` is the order the handlers are written for: Authenticate, Authorized,
handler; `handler_test.go` arranges it by hand ("add the owner into ctx to pass
the auth checks inside handler"). The safety properties are checked and proved
for the intended order because that is where the handlers' logic runs at all,
and the proofs hold for both. What is said of `DisableUser` is about that order
too: as deployed, the 401 of the missing user comes before the panic.

Left out: timestamps (no guard reads them), name and department beyond one
opaque `profile`, expiry (a token may be refused at any time), `resp` is what
the handler reports, not what the chain makes of it. A body that is not JSON,
which `mid.Error` answers with 500, counts as `badRequest` like one that fails the
validation. The branch of `bus.Update` that replaces the roles (`bus.go:80`) is
unreachable, because `UpdateRole` is the only caller that sets them. A lookup whose
`rows.Next()` is false because of an error (`userdb.go:125`) reports `notFound` for a
row that exists; the model reports it for absent rows only, and no property here
depends on it.

### UserList and RoleArray

A client walks through `GET /v1/users` page by page (`walk`) while other requests
insert, update and delete. `ListQuery` and `ListCount` are the two statements of
`handler.Query`, with the gap between them. Addresses, profiles and times are
ranks, so that ORDER BY has something to sort; users are numbered in the order
of their INSERTs. `bus.Create` takes `created_at` in whole microseconds
(`bus.go:46`) before the INSERT (`bus.go:60`), and the column is not unique: an
inserted row therefore has any time, equal to that of another row or earlier than that
of rows inserted before it. An UPDATE may change address and profile at once, and
never `created_at`. The walk keeps a history of what happened to the listing: two rows `tied`,
one `moved`, one came `cameAhead` of another (or came back behind the client's
page), one left (`leftAhead`) ahead of another. `page.Page` is made of integers from `-Half` to `Half - 1` (2^63 in Go), so
the offset overflows as Go's `int` does: `page.Parse` bounds the number and not the rows.
A negative offset is refused by PostgreSQL (500). Ties come in any order, another
one for every statement. Every row's roles go through
`ParsePostgresArray(PostgresForm(Value(...), quoted))`, with or without the
quotes PostgreSQL may put around an element. Filters by name, department and time are
one choice of profiles: they are clauses joined with AND like the filter by role.

### RequestPipeline

`ctx[r]` is a gin context: the index of `Next`, how many middlewares have called
`Next`, status, number of JSON documents written, recorded error, keys. Each
request is served once. The `update` handler with a user in its context may still
record 401, for another user's id. `Json` keeps gin's rule that a status cannot be changed
once something is written. Handlers are sets of outcomes, the same ones
`UserHandlers` has, and any handler may panic. `router` is the service's
(`main.go`, `routes.go`) or the tests' (`handler_test.go`), chosen once.
Authenticate and Authorized have no code behind `Next`, so they are not put on
the stack of open middleware. `AddRequest` is two steps, as in the code.

### KeyStore, KeyRing and AuthTokens

Every critical section of the RWMutex is an action: `LoadFromFileSystem` locks
once per file and once to count, `SetActiveKey` once to check and once to set. The
mounted directory (`mount`) has versions, and `Remount` puts another one in its place at
any time. A version is a sequence over the paths in the order of `fs.WalkDir`; a
path is visible or in a hidden directory (Kubernetes mounts every secret twice),
and what it holds is one of the cases the parser tells apart, or nothing. The walk
lists the directory when it begins (`Listed`) and opens each file when it gets
there (`Current`, `ReadFile`, `keystore.go:68`): a swap in between gives keys of both
versions, a file that is gone ends the walk, and one that is new is not noticed.
Storing the key is a step of its own, as the lock is taken behind the parsing.
`KeyRing` is the same store with atomic operations.

`AuthTokens` uses the store through these actions, with main as the caller, and
adds what lives longer than a process: the mounted secret, which an operator
replaces at any time, in the middle of a load too (`Rotate`), and the tokens in
clients' hands. `during` remembers the versions that were mounted while the process
loaded; `Carried(k)` are the keys that the last path of id k had in them. A crash empties the
memory. A token is a key id and the key that signed it; `Expire` removes it.

### Lifecycle

`pc` is the position of `main.run`, `defers` its deferred calls; the listener runs
in its own goroutine and reports through a channel of capacity one; a signal
cancels the context, which is also the parent of the shutdown context and the
argument of the deferred `cleanup(ctx)`. Five startup steps may fail, each before
it has deferred anything; `--help` returns early without an error. The deferred
calls are steps of their own, the last deferred first (`CallCleanup`, `CleanupReturns`,
`CloseDB`), and `Exit` comes behind them. On the `serverErrs` branch nobody closes the
server: connections that were accepted live on until the process ends, and their
handlers answer while the way out is under way.

A connection is `new` until its request comes, `stale` when that takes longer than
five seconds, then `active`; `Shutdown` takes a new or an active one for busy, so a
client that has only connected is enough to make it fail once the context is done.
Behind `Close` a handler runs on without its connection (`cut`, then `gone`).

A span that is sampled goes through the batch processor, read in the vendored SDK:
`OnEnd` refuses it once the processor is stopped, `enqueueDrop` drops it when the
queue is full, the goroutine of the processor takes spans into a batch and exports
it, with or without success, and drains the queue when it is stopped. The
provider's `Shutdown` returns at once when its context is cancelled already, and
stops waiting when it is cancelled later. `handed` are the requests answered
before run began to return.

net/http is external: a server that was shut down does not serve again; that it
notices the first byte of a request in the same instant is an idealisation. A
connection between `Accept` and its registration is none: `Server.Shutdown` waits for the
accept loop to end before it first looks for busy connections, and the loop registers each
connection it has accepted.

### Readiness

Time is discrete, one unit for the 100 ms of the backoff. `Ask` and `GiveUp` are
the kubelet with the numbers of `jumble-depl.yml`; ConnCheck's loop is
`PingSucceeds`, `PingFails`, `Retry`, `Expire`, `Query`. The context is done after
the handler's 10 s or when the kubelet hangs up, and ConnCheck sees that only
when it wakes up. The database may refuse, be silent or be up, and change at any
moment. A ping that is pending on a silent database succeeds in the instant the
database is up; in fact a lost SYN is sent again only after a second or more, so
`RecoveryNoticed` is about the pauses of ConnCheck and not about those of TCP. `Tick` waits until everything that is due has happened.

### Migration and TestDatabases

`Migration` has one step per statement of `migrate.Up`, read in the vendored
library: lock, read the version, mark it dirty, run the script, mark it clean,
unlock. Each may fail after it was executed (`Doubtful`), and a process may be
killed between two of them, its last statement still on its way. A second try
meets a dirty version and is refused.

`TestDatabases` has the two test packages as processes that look for, remove,
create, start, inspect and stop one container by its name (`pkg/docker`, one
action per docker command), create a database of a random name in it
(`dbtest.New`), migrate, test and clean up. Incarnations of the container are
numbered, so that a package that lost its own is told from one that still has it.
A package stands for one of its tests, although both have several, each with a
database of its own. A `docker inspect` that fails although the container runs, and
a `docker run` that creates but does not start, have no step of their own: both
lead to the retry that the other failures lead to.
The TestMain of `handler` stops the container; that of `bus` defers the stop
behind `os.Exit` and never gets there. Two runs of the admin command migrate the
deployed database in behaviours of their own, as the two share no server.

## 3. Runs

| Run | Instance | Shows |
|---|---|---|
| `handlers` | 2 users, 2 addresses, 3 role lists, 2 slots, intended order; 38 667 states | `UniqueEmail`, `DeleteAck`, `RolesNeverStale`, `NoResurrection`, `WriteAuthority`, `DisabledSticks`, and refinement of `UserDirectory` |
| `handlers_registered` | the same, registered order | `RowsFrozen`: no row is ever changed or deleted |
| `disable_panics` | the same, intended order | violation: `DisableUser` panics |
| `pipeline` | 2 requests to create, query, update, through either router; 214 618 states | `MetricsAgree`, `CompletionObserved`, `OneDocument`, `AllAnswered` for the service, `TestsRenderErrors` for the tests' router |
| `errors_not_rendered`, `delete_refused` | 1 request, all routes, the service's router | violations: recorded errors become 200; owner and admin cannot delete |
| `lifecycle` | 3 connections, a queue of one span; 329 752 states | `ZeroMeansDrained`, `PoolOutlivesHandlers`, `SpansFlushed`, `CloseNotMistaken`, `ProcessEnds` |
| `grace_period` | 2 requests | violation: requests in flight are cut at once |
| `tokens` | 2 key ids, 3 keys, 5 versions of a secret over 5 paths; 59 097 states | `SignerVerifies`, `AcceptsWhatWasMounted`, `ServesAllOrNothing` |
| `readiness` | 2 goroutines, the deployed times | `OverrunBounded`, `NoPileUp`, `RecoveryNoticed` |
| `listing` | 3 users, 9 rows of 4 addresses, 2 profiles and 3 times, 5-bit integers, 11 requests, 2 writes per walk; 1 100 722 states | `WalkMissesNothing`, `WalkRepeatsNothing`, `TotalWithinDrift`, `RolesSurvive`, `PageInPlace` |
| `testdb` | 2 packages, 2 names, 2 admin runs; 230 422 states | `MigratedMeansReady`, `ScriptRunsOnce`, `OwnDatabase`, `LostOnlyToStop` |

Every passing run also checks its module's type invariant, except
`handlers_registered`, whose module's is checked by `handlers`.

Bounds. `handlers`: two slots are enough for the races here, all of which are
between one request that holds a snapshot and one that writes; two users give an
actor and a target, two addresses a conflict and a way out of it. An id is drawn
once, so at most two creations succeed; a slot is used any number of times.
`pipeline`: three routes stand for the eight, one for each length of chain; the
others differ only in their outcome sets and, for role, in the role that is asked
for; the two runs with one request have them all. `SampleEvery = 2` makes the
sample happen. `lifecycle`: with three requests and a queue of one span, a span is
dropped, one is exported and one is refused in the same behaviour. `tokens`: five versions rotate the active key, add an older one,
hold two files of one id, lose the active key, or carry a file that does not
parse, and a load meets any sequence of them. `readiness`: the times are the real ones; `MaxUp` = 20 is longer than
any pause that fits into the kubelet's timeout. `listing`: three users and pages
of one or two rows give walks of several pages; the nine rows tie in time and in
profile, and the three orders differ on them; `Half` = 16 (five bits) makes one page size
overflow to a negative offset and one to a wrong but valid offset; two writes
are a cause and a compensation. `testdb`: `MaxTries` = 3 is the code's; two names
suffice for a collision. Symmetry (ids, addresses, profiles, slots, goroutines,
database names, admin runs) is used in runs that check no liveness.
`testdb` may stop, because tests end.

Fairness. `RequestPipeline`: weak fairness of each request's goroutine once it
has arrived, which assumes that the handler's database call returns; nothing
makes a client send. `Lifecycle`: weak fairness of main's goroutine and of the
batch processor's, whose exports are bounded by the SDK's timeout of 30 s; none
for handlers, clients, network or signal. The other modules state safety only;
in `Readiness` time cannot pass a step that is due, which makes its bounds
statements about how soon something happens.

What a property does *not* say matters too. `DisabledSticks` is the strongest
form that holds: `bus.Update` writes a whole row back, so a request let in before
its user was disabled does enable the user again. `DeleteAck` holds although a
concurrent update of the deleted row is answered with 200: the UPDATE meets no
row. `RolesNeverStale` holds because no route can change roles, `UpdateRole`
included; repairing its binding would break it, and with it the freshness of
token claims. `WalkMissesNothing` needs that no row left the listing ahead of
another: OFFSET shifts. Both walk properties exclude ties, which the default
order by `created_at` can have, and `WalkRepeatsNothing` excludes rows that come ahead of
another, which that order does not rule out either. `PageInPlace`,
`TotalWithinDrift` and the walks exclude pages whose offset can overflow (`Fits`):
such a page is a 500 or a wrong page, and nothing in the repository says what it should
be. `SpansFlushed` excuses a signal, because `cleanup(ctx)` then gets a
cancelled context, spans that a full queue drops, and those of requests that are
answered behind run's return: the processor refuses them. `PoolOutlivesHandlers`
excuses an error of run: handlers then do find their pool closed. `LostOnlyToStop`
does not say that tests never lose their container: the handler package's stop at
its end takes it from the bus package. `AcceptsWhatWasMounted` also says that
removing a key from the secret revokes nothing until the restart; it does not say
that a process has the keys of one version, because a swap during the load mixes two.
`MigratedMeansReady` does not promise progress: a dirty version is never repaired
by the repository, and every later `Up` returns `ErrDirty`.

## 4. Findings

* `DisableUser` panics (`handler.go:323`, `models.go:107`) once it finds a user in its
  context; as deployed, it answers 401 before it gets there (third item).
* `main.go` does not register `mid.Error`: recorded errors are answered 200.
* `routes.go` puts handlers before middleware, so that protected routes refuse
  everyone, and builds `adminOrUser` from the role user twice.
* The shutdown context is derived from a cancelled context: no grace period.

Met while modelling, without a run of their own: `page.go:44` accepts 100 where
its message says "less than 100"; a direction in `order_by` is not trimmed while
the field is; an "RSA PRIVATE KEY" block is refused although PKCS#1 is parsed
(`keystore.go:84`); the limits on connections are handed to `sqldb.Open`, which
ignores them (`main.go:133`); `extractIPPort` returns an empty port for
an empty HostIP (`docker.go:118`); the deferred `StopContainer` of `bus_test.go:34`
never runs behind `os.Exit`; spans queued at a signal are lost (`main.go:160`); a
secret swapped during the load leaves a mixture of two versions (`keystore.go:68`).

## 5. Proofs

| Module | Properties proved, for every value of the constants |
|---|---|
| `UserHandlersProofs` | `TypeOK`, `UniqueEmail`, `DeleteAck`, `RolesNeverStale`, `NoResurrection`, `WriteAuthority`, `DisabledSticks`, `ImplementsDirectory`; with `Wiring = "registered"` also `RowsFrozen` |
| `KeyStoreProofs` | `TypeOK`, `ActiveResolves`, `HiddenIgnored`, `LoadComplete`, `ImplementsRing` |
| `AuthTokensProofs` | `AuthTypeOK`, `SignerVerifies`, `AcceptsWhatWasMounted`, `ServesAllOrNothing` |
| `RequestPipelineProofs` | `CompletionObserved`, `OneDocument`, `TestsRenderErrors`, `TypeOK`, `MetricsAgree`; and that the service drops no request |
| `LifecycleProofs` | `TypeOK`, `ZeroMeansDrained`, `PoolOutlivesHandlers`, `SpansFlushed`, `CloseNotMistaken` |
| `ReadinessProofs` | `TypeOK`, `OverrunBounded`; `NoPileUp` and `RecoveryNoticed` under conditions on the times |
| `TestDatabasesProofs` | `TypeOK`, `MigratedMeansReady`, `ScriptRunsOnce`, `OwnDatabase`, `LostOnlyToStop` |
| `UserListProofs` | `TypeOK`, `RolesSurvive`, `TotalWithinDrift`, `WalkMissesNothing`, `WalkRepeatsNothing`, `PageInPlace`; and the round trip of every list of roles through the array's text |

Assumptions: the named ASSUMEs of the modules, all about constants (sentinels are
no values, times are positive, key ids and requests are finite, the versions of a
secret are about the same paths, the queue of spans has room for one, main is the one caller
of the key store in a process, a container start is tried at least once, page
bounds are positive and fit the integers, a parse error is no list of roles).

**UserHandlers.** The inductive invariant `IInv` adds to `TypeOK` and `UniqueEmail`:
`Present` (only used ids have rows, so that a fresh id has no row, no token and no
request), `SlotInv` for each slot (an idle slot holds no user; otherwise actor,
snapshot and claims agree on the roles, the snapshot is of an enabled row, a
pending delete is the actor's own or an admin's; behind a 204 the target is used
and absent) and `TokenInv` for each token (its subject is used and its roles are
the row's). `DeleteAck` alone is not inductive (an insertion could reuse the id)
and neither is `RolesNeverStale` (a write back could change roles). The proof has
two layers: each action is a step of `UserDirectory` on the table (`TableStep`),
and such a step preserves what is said of everything it does not write
(`SlotStable`, `TokenStable`). The refinement comes with the first layer, the
action properties from `RowWrites`.

**KeyStore.** `KInv` adds to the properties what the code relies on between two
locks: the key `SetActiveKey` has found is still there when it is set
(`CheckedStays`), and what a walk has stored is still there when the load counts
(`WalkedStays`, `CountCovers`). Both hold because no step takes a key id out of
the map (`Frame`); a store with a delete would need one critical section.

**AuthTokens.** Each step of the process is a step of the key store, none, or a
return to the empty store, so that `KInv` holds as it is (`StoreInvariant`). On
top, `Loaded(n)` says that the map has a key for the ids of the listed paths before
place n and no others, and for each of them a key that the last of these paths held
in one of the versions mounted during the load. A swap only adds to these
versions. At the end of the listing this gives both halves of `AcceptsWhatWasMounted`: the
key is among those `Carried`, and if there is one only, it is that one.

**RequestPipeline.** `CompletionObserved` speaks of completed requests only. `PInv`
says at every point of a chain how many middlewares are open (`depth`) and whose
code behind Next has run (`after`): `OnService` for the service, where every
handler runs at depth 4, so that a panic meets mid.Panic before any of the others
(`PanicsAreMet`, the safety half of `AllAnswered`), and `OnTests` for the tests'
router, where mid.Error leaves last and nothing was written if an error was
recorded. `OneDocument` needs `DInv`: a handler of the service runs without a user in
the context and before anything is recorded, so what is written while elements of
the chain are still to run is the 200 of GET /:id, and whatever follows a panic or a
refusal is cut off by the abort. `MetricsAgree` compares the
counters with the number of completed requests, which no step keeps equal: a
request is counted long before it completes. `MInv` says that each counter is the
cardinality of the requests that are behind its line (`AddRequest`, LeaveMetrics
with a status of 400 or more, `Recover`), and that each sampled value is at most
the number of requests behind the sample. Since a request takes each of
these lines once, a step adds exactly one member to one of these sets.

**Lifecycle.** For `ZeroMeansDrained` and `PoolOutlivesHandlers`, no request is cut before
run has failed (`NobodyCutYet`), and nothing arrives behind the drained check
because the listener is closed (`Quiet`) or was never opened
(`NothingBeforeServing`, for `--help`). `Outcomes` ties the result of run to its way
out. `SpansFlushed` needs the order of the way out: which calls are deferred where
run is (`Pending`), that the processor is stopped by the deferred cleanup only
(`StoppedByCleanup`), and that the span of a request answered before run returned
is in the queue or behind it, and behind it once the processor is done
(`Settled`). None of these follows from the property by itself, as handlers go on
ending spans while the queue drains.

**Readiness.** Before attempt a, ConnCheck has slept a(a-1)/2 units, and behind the
next pause a(a+1)/2 (`Paused`); with that, the bounds are inductive. `NoPileUp`
needs `PauseFits`: the last pause that fits into the kubelet's timeout ends before
its period does (5 s and 10 s: at most ten pauses, 6 s). `RecoveryNoticed` needs
the timeout to be shorter than the handler's deadline.

**TestDatabases.** What a test knows of its database holds only while the container
it was created in runs, so `TInv` guards every claim with `Holds`: the holder's own
incarnation is the running one. Under it, the schema lock, the version and the
table are what the holder's position in the migration says (`Claim`), and two
holders have different names (`Apart`). In every database the script has run at
most once, and never without a version or behind a clean one without its table
(`Sound`). An incarnation that was stopped never runs again
(`Kept`), so nothing comes back into reach with a half-done migration, and what
a test loses it loses to that stop.

**RoleArray.** `ParsePostgresArray` gives back every list of roles, of every length,
with or without quotes (`RoundTrip`). The library's induction theorems cannot be
used here, so the two inductions are written as the absence of a least
counterexample, which the well-foundedness of the naturals gives for a set.
`FlattenSeq` is the one solution of its equation, so its value on a literal is
found by giving the prefixes and showing that they solve it; `Split` cuts
where counted separators are, and each piece loses its quotes in `Trim`.

**UserList.** `ListInv` relates the walk to the table. `Progress`: a walk on page n
has been shown (n-1) * rows rows, so that the next offset is the number of rows
shown; `OffsetOf` does not wrap where `Fits` holds. `Untied` says that a walk whose
history has no tie has none in the table now, whatever the order. `Repeats` and `Misses` are about
the rows before a row in the order: without ties, the row in place p has p-1
before it (`ExactPlace`), so what was shown has fewer than the number shown
before it and what was there all along and was not shown has at least as many.
Rows that come can only raise that number, and do so only if they come ahead of
another; rows that leave can only lower it, and do so only if they leave ahead of another,
which is why each of the two properties excludes just one of them. `Counted` keeps the rows a page
was taken from and the rows counted apart by at most the writes between the two
statements: each write changes the set by one member.

Only model-checked: liveness (`AllAnswered` and `ProcessEnds`), which is out of
the prover's reach together with fairness. The properties of the four runs
that expect a violation are false of the code and are refuted by TLC. Every other
property of a run is stated by a theorem.

## 6. Not modelled, and what is left

Not modelled: the logger (levels and formatting of output, no state), the debug
server (registers library handlers), the liveness handler (reports constants),
the health server's listener (nothing relates it to the API server's; a pod can
be ready before the API listens, see the hazard at `main.go:226`), exporters and
sampling of telemetry (a library's), log dumps of the test container.

What is left of the proofs: liveness, which stays with TLC. The safety half of
`AllAnswered` is proved (`PanicsAreMet`); that no state between the signal and the
exit is without a successor is shown by the deadlock check of the `lifecycle`
run, on its instance.
