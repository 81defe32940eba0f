# Verification of pdbcore

TLA+ models of [pdbcore](https://github.com/suprbdev/pdbcore), the engine that
turns a live PostgreSQL database into an API, with TLC runs on small instances
and TLAPS proofs for every value of the constants. `PROJECT.json` lists the
runs, the mutants that show each property can fail, the lines each definition
models, the hazards and the theorems. Paths below are relative to `src/`.

To repeat a run: `tlc -config MCWatchOne.cfg MCWatch`; a proof:
`tlapm WatchProofs.tla`.

## 1. Inventory

pdbcore is a library. A *product* (a GraphQL or a REST server) wires its parts:

```
            confx.Load/Validate/AuthConfig            (start-up)
                     |
   introspect.Introspect or cache.Load --> plugin.TransformCatalog --> product
        ^                                  (smartcomments hook)      builds its API
        | re-introspects                                                 ^
   watch.Watcher --------------------- OnChange(catalog) ----------------+

   request: httpx middleware -> auth.Authenticate -> pgexec.RunTx(identity, fn)
                                   | jwksCache          | pool, SET LOCAL ROLE
```

| Part | State | Operations | Meets | What is hard | What makes it correct |
|---|---|---|---|---|---|
| `watch` | a LISTEN connection, the trigger in the database, `lastHash` | `Run`: acquire, LISTEN, install, wait/drain/introspect, or poll | pool, PostgreSQL, `introspect`, product's `OnChange` | notifications against reads, torn reads, fallback, cancellation, restarts, shared triggers | a product at rest holds the current schema; none is taken back to an older one; drift arrives; `Run` starts and stops |
| `introspect` | the `Catalog` under construction | `Introspect` (eight or more queries), `convertEnumTables`, `sortStable`, `Hash`, `Diff` | PostgreSQL | queries without a common snapshot; rows of `@enum` tables read late; order of overloads; equality | equal schemas have equal hashes; an empty diff means equality (neither of overloads, section 12) |
| `pgexec` | a transaction per attempt on a pooled connection | `RunTx`, `ApplyIdentity`, `Classify` | pool, PostgreSQL, request context | retries, lost commits, cancellation, settings left on a connection | effects at most once, answers that are true, every callback under its own identity |
| `auth` (keys) | `jwksCache`: keys, `fetched`, a mutex | `key`, `fetchLocked` | JWKS endpoint | rotation during a fetch, failing endpoint, callers queueing | no key long withdrawn, no key refused for long, everybody answered |
| `auth` (decision) | configuration only | `Authenticate`, `fromJWT`, `fromHeaders`, `resolve` | `jwksCache`, `confx.AuthConfig` | header names that collide, empty lists that mean "all", tokens older than the configuration | never fails open, never the connection's own role |
| `confx` | none after loading | `Load`, `Validate*`, `AuthConfig`, `ExampleYAML` | files, environment | precedence, values validation admits and others do not expect | what validation admits, the parts can work with |
| `plugin`, `smartcomments/catalog` | registry, `h.idx` | `TransformCatalog`, `Index` | catalog, product | reload while requests read; names that collide; a hook that fails half-way | tags change the catalog as documented, whatever the order |
| `cache` | one file | `Save`, `Load`, `Check` | file system | crash or `Load` during `Save` | a load is a catalog somebody saved, or an error |
| `jwtmint` | none | `Mint`, `Sign` | `auth` | numbers, missing `exp` | minted tokens are accepted back |
| `httpx` | server state | `CORS`, `Gzip`, `ListenAndServe` | net/http | order of middleware, pooled writers, shutdown deadline | a writer serves one response, headers add up, shutdown ends |
| `smarttags`, `inflect`, `postgis`, `testutil` | none | parsing, spelling, SQL text, a fixture | | text | (not modelled, section 14) |

The hazards of `PROJECT.json` name, line by line, what of this is hard to test;
those without a property say why.

## 2. Modules

| Module | Models | Role |
|---|---|---|
| `Watch` | `watch/watch.go`, `introspect/introspect.go:20-55` | detailed specification |
| `SchemaFeed` | what a product may be handed | abstract specification of `Watch` |
| `RunTx` | `pgexec/tx.go` | detailed specification |
| `TxOutcome` | what a caller of `RunTx` may conclude | abstract specification of `RunTx` |
| `Introspect` | `introspect/introspect.go`, `introspect/enumtables.go` | what one introspection returns |
| `JWKS` | `auth/jwks.go` | detailed specification |
| `KeyService` | what a verifier may be told about a key | abstract specification of `JWKS` |
| `Auth` | `auth/auth.go`, the rls section of `confx`, `jwtmint/mint.go` | who a request is, composed with the minting of tokens |
| `SmartComments` | `smartcomments/catalog`, `plugin/plugin.go`, `smarttags.Omits` | the passes over the hooks and the index they leave |
| `Drift` | `introspect/diff.go`, `Catalog.Hash` | operators: hash and diff of two catalogs |
| `Cache` | `cache/cache.go` | saves, loads and checks of one file; uses `Drift` |
| `Serve` | `httpx/serve.go`, `gzip.go`, `cors.go` | the server and the requests passing its middlewares |
| `MCWatch`, `MCRunTx`, `MCJWKS`, `MCIntrospect`, `MCAuth`, `MCSmartComments`, `MCCache`, `MCServe` | | instances for TLC |
| `WatchProofs`, `RunTxProofs`, `JWKSProofs`, `IntrospectProofs`, `AuthProofs`, `SmartCommentsProofs`, `CacheProofs`, `ServeProofs` | | theorems and proofs |

A `Mutant of X` beside a definition `X` is never part of a specification; it
is the plausible mistake that the property it is paired with must catch.

## 3. Watch

**State.** The catalog is a function from *parts* (what one query of
`Introspect` reads) to versions; `db` is the committed one. `Content` says
which versions have the same text, so that `SameHash` can be true of different
versions, as `Catalog.Hash` can. `txn` holds the open DDL transactions with
the notifications they will send. `fn` and `trig` are the notify functions and
the event triggers, which outlive watchers. A watcher's `pc` names the points
of `Run` at which others can act; `queue` is what waits on its LISTEN
connection; `at` and `cat` are the introspection in progress, `last` is
`lastHash`, `held` the catalog the product works with. `busy` counts the
connections the product's requests hold.

**Actions.** One per step of `Run`: `Acquire`, `Listen`, `StartFails`,
`CreateFunction`, `CreateTrigger`, `InstallFails`, `Notified`, `WaitFails`,
`Drain`, `Drained`, `ReadPart`, `Rebuild`, `ReadFails` and, for the fallback,
`Tick`, `StopPolling`, `PollFails`, `Compare`. `CREATE OR REPLACE FUNCTION` is
DDL itself and fires triggers that are there already; `CREATE EVENT TRIGGER`
fires none. `InstallFails` may leave the statement's effect behind. `End` is
every return and every crash: the connection and its notifications go, the
trigger stays. Around them act sessions (`ExecDDL`, `Commit`, `Rollback`), rows
of `@enum` tables (`ChangeSilently`), the pool (`Borrow`, `GiveBack`), the
network (`DropConn`) and the product (`Boot`, `Cancel`, `Crash`).

**History.** `installed[w]` says this `Run` has its trigger and its connection;
`waived[w]` collects the parts whose last change the code does not promise to
announce: changed before the trigger or the baseline was in place, changed
without DDL in trigger mode, changed before the LISTEN connection was lost, or
announced by a notification whose introspection failed. The properties are
about the other parts.

**Properties.**

- `SettledIsCurrent`: a watcher that waits with an empty queue has handed on
  the current version of every part not waived. Needs LISTEN before install,
  the notification at commit, drain before read.
- `BaselineIsHeld`: `lastHash` is the hash of what the product works with.
- `FeedSpec`: `Watch` implements `SchemaFeed`: a part of the product's catalog
  never goes back and is never invented. The catalog as a whole need not be a
  schema that ever existed, because the queries share no transaction.
- `DriftReachesProduct`, `RunSettlesAndStops`: liveness.
- `NotifiedDriftAnnounced` (violated): see section 12.

**Fairness.** Weak fairness of `Run` and of the requests' giving back their
connections; strong fairness of what needs a connection (pgxpool serves its
waiters in order; a request that borrows again and again queues behind them),
of reads (queries do not fail for ever), of what follows a complete read, and
of `StopPolling` (Go's `select` chooses among ready cases at random). Weak
fairness of `Drained`: a burst of DDL leaves a pause of 50 ms some time.
Nothing is assumed of the database's clients.

## 4. RunTx

**State.** Per call `pc`, `attempt`, `cancelled`, `conn`, the claims still
`todo`, the error in hand and the `reply`. Per connection `tx` and `identity`,
the role and claims statements run under; a claim is tagged with the request it
was set for. `inflight` is a COMMIT whose answer nobody will get; `effect`
counts the committed transactions of a call.

**Actions.** `Begin`/`BeginFails`, `SetRole`/`RefuseRole`, `SetClaim` in any
order (the claims are a Go map), `IdentityFails`, `FnStatementFails` (the
callback may ignore the error), `FnFails`, `FnReturns`, `Commit`,
`CommitRefused`, `CommitNotSent`, `CommitLost`, `Rollback` (deferred, with the
request's context), `Retry`, `Return`. `ServerFinishes` decides a lost COMMIT
either way, at any time. A connection whose context was cancelled in a call is
destroyed by pgx; that is why a rollback that cannot be sent still leaves a
clean pool. `Scope` is the reach of `SET LOCAL` and `set_config(.., true)`.

**Properties.** `RunsAsItself` (a callback runs under exactly its request's
identity), `PoolIsClean`, `OutcomeSpec` (`RunTx` implements `TxOutcome`:
effects at most once; "ok" only after them, "failed" only without them for
ever), `RetriesAreSafe` (an attempt is repeated only after one that left
nothing behind), `EveryCallReturns`.

**Fairness.** A call proceeds when it can; the pool serves its waiters in
order (strong fairness of `Begin`). Callbacks return and queries are answered.

`CHECK_DEADLOCK FALSE` in these runs: every call ends, and a finished system
is not a deadlock; `EveryCallReturns` rules out the deadlocks that matter.

## 5. JWKS

**State.** A document is a function from key ids (and the empty one) to keys:
what `fetchLocked` keeps of it. Times are ages, counted up to `Horizon`, so
there is no clock value to bound: `age` is the time since `c.fetched`, `spent`
the time since the request under way was sent, and `seen[n][x]` the time since
the published document last gave `x` for `n`, a history variable that turns
"too stale" and "refused too long" into comparisons. The mutex is the guard
`Unlocked`; a fetch holds it.

**Actions.** `Call`, `FromCache`, `BeginFetch` (expired keys, or an unknown kid
when the keys are a minute old), `Serve`, `FetchDone`, `FetchFails`, `Publish`,
`Tick`. A fetch takes at most `Timeout`: `InTime` keeps time from passing it.
The code reads the clock up to three times in `key`; cache hits take no time in
the model, so these reads agree.

**Properties.** `ServiceSpec` (the cache implements `KeyService`: a key handed
out was published at most TTL + one fetch ago, a kid is refused only if it had
no key at some time in the last minute + one fetch), `EveryCallerAnswered`,
`RotationTaken`, `AtMostOncePerMinute` (violated, section 12).

**Fairness.** Time passes; Go's mutex starves no waiter (strong fairness of
taking it); the client's timeout ends every fetch (weak fairness of the
finish); an endpoint asked again and again answers some time (strong fairness
of `Serve` and `FetchDone`) — used by `RotationTaken` only.

## 6. Introspect

`Watch` takes one introspection as reads of opaque parts; `Introspect` is what
the reads make of the rows.

**State.** `db` is the database, one of `Databases`: per relation its comment,
columns, keys, foreign keys, indexes and rows, and the types and functions.
`pc` is the query to come; `tables`, `types` and `backed` are the catalog as
far as it has been read, `backed` being the enums made of tables; `todo` are
the `@enum` tables whose rows are still to be read. Relations, columns and
constraints are numbered in PostgreSQL's order, which is what "the first unique
constraint commented @enum" and "the last foreign key that binds the column"
depend on.

**Actions.** One per query (`ReadTables` to `ReadFunctions`), `ReadRows` and
`RowsFail` per `@enum` table, `Convert`, `QueryFails` (any query, for reasons
outside the database's contents) and `Again`, the next call. `Change` commits
any other database between any two of them: the queries share no transaction.
`RowsFail` needs no bad luck: the relation or a column has gone since it was
listed, or a value is NULL, which `Scan` into a string refuses.

**Properties.** `touched` is history, the relations changed since the
introspection began.

- `Closed`: a finished catalog hangs together even when it mixes databases: no
  relation is both table and enum, no foreign key leads to an enum, and every
  bound column exists and names an enum of the catalog. (Foreign keys may lead
  to tables that are not in the catalog: unreadable ones, other schemas.)
- `Undisturbed`: of a relation that nobody touched, the catalog says what the
  documentation says, stated as a reference definition over the database
  (`IsValue`, `BecomesEnum`, `Described`), whatever else was committed.
- `FailsForAReason`: reading `@enum` rows fails only if a table was touched or
  its value column holds a NULL. Validation elsewhere does not exclude the
  second: one row without a value fails every introspection until it goes.

## 7. Auth

**State.** `rls` is the section in force, `auth` the `Config` that `AuthConfig`
made of it, `now` the clock, `issued` the tokens in circulation, each with the
section it was minted `under` (or `Nil` for somebody else's), and `exchange`
the last request with its reply, forgotten by the next step.

**Actions.** `Request` answers one request; `Authenticate` is the set of
replies it may get: claim headers are visited in the order of a map, so that
of two names that become one claim (`-` becomes `_`) either value may stay, and
a key may not be found where a JWKS URL is set. `Mint` turns the result of a
function into tokens (one item that is no object leaves the whole result as it
was), `Issue` is another service with a key of its own or a shared secret,
`Restart` puts another section in force, `Tick` passes time. The jwt library's
checks are `Signed`, `Timely` and `Matches`; peers and prefixes are the sets
`Covers`, which contain the unmapped address.

**Properties.** `NeverConnectionRole` (valid section: a served request has a
role), `OnlyListedPeers` (claim headers count from inside an entry that parses,
also when none does), `NeverFailsOpen` (who presents a credential is refused or
gets exactly its claims: a token's, if it is in time and of the key, issuer and
audience in force now, or those of the claim headers, each with a value one of
them has; who presents none is anonymous), `RolesAreAllowed`, `MintedIsAccepted` (a token minted under the secret, issuer
and audience in force is accepted until it expires). With a JWKS URL, or
without `exp`, a minted token is never accepted: the property leaves both out.

## 8. SmartComments

**State.** The registry (`plugins`), the copy a pass ranges over (`pass`), the
catalog in the making (`tables`, `functions`), the hook's point in it (`pc`,
and in `todo` what its loop has not visited), the index `BuildIndex` fills
(`ix`) and `Hook.idx`, which outlives passes. Comments are parsed tags. The
catalog the hook began with is kept in `given`, the plugins added and run in
`added` and `ran`. A list the code filters is a function of positions that
keeps the positions of what stays; its order is theirs. Keys, which the code
joins with a dot, are pairs: names with dots in them are left out.

**Actions.** `Add` at any time; `Begin` a pass with some names disabled;
`OtherHook` takes a table away or nothing, `HookFails` ends the pass; the hook
itself is `Index`, one `IndexTable` or `IndexFunction` per object, `Publish`
(the assignment to `h.idx`), `Filter`, one `Apply` per table in the catalog's
order, and `Functions`. `Apply` writes the tags of `|@` segments into `idx`
before it drops the constraints their tags omit, as the code does.

**Properties.** `HooksInOrder`, `LogicalKeysHold` (the keys the hook adds refer
to tables and columns that are still there; the keys a catalog comes with may
not, because columns and constraints are read by different queries),
`OwnCommentsDecide` (where no two objects
share a key of the index, an object's own comment decides: not other comments,
nor the order of the tables, nor an earlier or failed pass), `FoundByName`
(every commented object is found under its key; the schema-less maps answer
with the tags of the only object of a name, and with nothing where two of that
name, or three, are commented), `AmbiguousNameIsNil` (violated: nothing is found
under a name of two tables, commented or not) and `EveryCommentIsIndexed`
(violated).

## 9. Drift and Cache

`Drift` holds `Hash` and `Diff` as operators on catalogs: what JSON
distinguishes, distinct values. A catalog is the whole struct the hash is of, its
format version and the list of schemas included. `Hash` sorts schemas and
functions (`Sorted`); overloads stay in the order they came in, which
`sort.Slice` keeps in lists of up to twelve. `Diff` makes a set of the schemas
(`DiffStringSet`), does not look at the format, and names functions without the
schemas of their arguments' types (`FunctionMap`).

**State** of `Cache`: the one `file` as a sequence of pieces `<<v, i>>`, the
`offset` of each saver, what each loader has `got`. Savers and loaders share
nothing else: `os.Create` truncates under everybody's feet, and a saver writes
at its own offset, which leaves a `Hole` when another truncated meanwhile.
Checksum and hash are the comparison with a `Whole` file; the cap on the
decompressed size and the format version make versions `Oversized` or
`OldFormat`. `alone`, `sure`, `may` and `due` are history.

**Properties.** `LoadedWasSaved` (an error or one whole catalog, of a save the
file held something of when the load began, or that began since),
`SavedIsLoaded` (what an undisturbed save left is what later loads return, also
after one that was killed), `DriftIsTold`: `Check` says "no drift" only of
catalogs that are the same but for the order of their lists; without overloads
it says so of all of those, and where they differ in what `Diff` looks at
(`Covered`) there is a line. What is left over has properties of its own, both
violated: `EmptyMeansNoDrift` (drift has a line) and `OrderIsNoDrift` (the order
in which overloads were read is no drift).

Loaders do not meet one another (they only read), so one suffices; savers do.

## 10. Serve

**State.** `main` is `ListenAndServe` at its select, `listener` its goroutine,
`queued` what is in `errCh`; per request its place in the nesting, the gzip
`writer` it holds, and three headers; per writer the response it is reset to.

**Actions.** The select's two branches (either may be taken when both are
ready), `ShutdownEnds` with nil when everything is idle or with the deadline,
`Send` into a channel of `Capacity` 1; `Cors` and `Gzip` in the order of
`order`, the handler, and the deferred `Close` and `Put`, which run also when
the handler panics.

**Properties.** `WritersAreExclusive`, `ResponsesVary` (a response that allows an
origin says that it varies with it, in either nesting; an encoded one says that
it is where `CORS` is outside or no origin is allowed), `EncodedResponsesVary`
(violated: the same of every encoded response), `NilMeansDrained`,
`CancelEndsIt`. **Fairness:** the goroutines run, `Shutdown`'s context ends and
a listener that was shut down stops; handlers may take for ever.

`CHECK_DEADLOCK FALSE` in `serve` and `auth`: a server that has returned stays
so; and at the last tick with the tokens used up only requests are left.

## 11. Runs and bounds

| Run | Checks | Bounds, and why they are enough |
|---|---|---|
| `watch_one` | `TypeOK`, `BaselineIsHeld`, `FeedSpec`, `DriftReachesProduct`, `RunSettlesAndStops` | one watcher, one session, two parts (torn reads need two) of which the second also changes silently, one change per part, queue to 2 (a burst), two connections, so that the pool can be full |
| `watch_two` | `SettledIsCurrent` | two watchers with one channel and trigger name: reinstall, crash and restart of one beside the other; one part, one change |
| `watch_drift` | `NotifiedDriftAnnounced`, violated | one part, one change |
| `runtx` | `TypeOK`, `RunsAsItself`, `PoolIsClean`, `OutcomeSpec`, `RetriesAreSafe`, `EveryCallReturns` | three requests on one connection (each follows the others on it): role and two claims of which one cannot be set; an invalid role; no RLS; one retry |
| `introspect` | `TypeOK`, `Closed`, `Undisturbed`, `FailsForAReason` | 63 databases: one `@enum` table in nine shapes (by key, by label, with a NULL, two labels, a pair as key, no rows, no comment, unreadable, one column), a table referring to it in five ways, a second `@enum` table; two commits per introspection, so that a relation can go and come back |
| `jwks` | `TypeOK`, `ServiceSpec`, `EveryCallerAnswered`, `RotationTaken` | two callers, CacheTTL 0 (the hour applies, 2 units), one key under an id and another without; minute 1, timeout 1 (all branches reachable), ages to 4 > hour + timeout |
| `jwks_minute` | `AtMostOncePerMinute`, violated | two ids, a rotation a → b and a document without usable keys; TTL 2 |
| `auth` | `TypeOK`, `OnlyListedPeers`, `NeverConnectionRole`, `RolesAreAllowed`, `NeverFailsOpen`, `MintedIsAccepted` | ten sections: every mode, listed and unlisted peers, entries that do not parse, with and without default, anonymous role, issuer and list of roles; two headers that become one claim; one token at a time (tokens do not interact), clock to 2 (a token not yet valid, valid, expired) |
| `smart` | `TypeOK`, `HooksInOrder`, `LogicalKeysHold`, `OwnCommentsDecide`, `FoundByName` | two tables of one schema with eight comments each, a third in another schema, overloads, three namesakes of which two or three are commented, real keys that name a column the table has not (819 887 states); three plugins of which two have one priority |
| `smart_index` | `EveryCommentIsIndexed`, violated | the same |
| `cache` | `TypeOK`, `LoadedWasSaved`, `SavedIsLoaded`, `DriftIsTold` | two savers, one loader, files of one, two and three pieces (a longer file under a shorter one), an oversized one and one of another format; live catalogs, one per line of `Diff`, and some with a schema named twice, schemas or functions in another order, overloads that differ, differ in the schemas of their arguments or stand in another order; a catalog of another format only in the proof |
| `serve` | `TypeOK`, `WritersAreExclusive`, `ResponsesVary`, `NilMeansDrained`, `CancelEndsIt` | two requests and two writers (a writer can be passed on while another is in use), both nestings |

What the larger instances of a state space would add is what the proofs of
section 13 give for every size: `SettledIsCurrent` also for one watcher with
torn reads, the refinement of `KeyService` also for more documents.

Bounds that appear in guards: `MaxVersion` (DDL stops there; the proofs show
that commits never pass it), `MaxQueue` (only "is there another one" is
observable; counting saturates), `Horizon` (ages saturate above every
threshold they are compared with), `MaxChanges` (commits during one
introspection), `MaxNow` and `MaxTokens` (the clock and the tokens in
circulation).

## 12. Where code and comments disagree

- `watch_drift`: "Watcher triggers OnChange whenever the database schema
  drifts" (watch/watch.go:20). In trigger mode a notification is spent before
  the introspection it causes; when that fails, the drift is not announced
  until the next DDL (watch/watch.go:148-151). The polling mode retries.
- `jwks_minute`: "at most once per minute" (auth/jwks.go:72-73). Only a
  successful fetch moves the time the minute is measured from; after a failed
  early refetch the next unknown kid fetches at once (auth/jwks.go:104).
- `smart_index`: "Index holds the parsed tags of every commented catalog
  object" (smartcomments/catalog/index.go:16). Constraints are keyed by schema
  and name, but a foreign key's name is unique per table only, and overloads
  share one key: the last comment wins, and an `@omit` on one object also drops
  the other.

Four more claims are properties of the modules that TLC finds violated; their
configurations stand beside the runs, on the same instances:

| Configuration | Violated | The text | The code |
|---|---|---|---|
| `MCSmartNames.cfg` of `MCSmartComments` | `AmbiguousNameIsNil` | "an ambiguous name (same table name in two schemas) maps to nil" (smartcomments/catalog/index.go:17-18) | `BuildIndex` returns for an object without tags (index.go:48-50) before it looks for a namesake (index.go:52): a lookup without the schema finds the tags of the one that is commented, whichever was meant |
| `MCCacheSilent.cfg` of `MCCache` | `EmptyMeansNoDrift` | "Empty means no drift" (introspect/diff.go:12) | `Check` goes by the hash (cache/cache.go:111). Overloads whose arguments' types differ in their schemas only share a name in `functionMap` (diff.go:179), and of a schema listed twice `diffStringSet` sees one: the hash differs, and there is no line |
| `MCCacheOrder.cfg` of `MCCache` | `OrderIsNoDrift` | "Hash returns a stable content hash of the catalog" (introspect/catalog.go:225) | neither the query (introspect/introspect.go:305) nor `sortStable` (catalog.go:257) orders overloads: another order is drift, and `Diff` may name a function as changed |
| `MCServeVary.cfg` of `MCServe` | `EncodedResponsesVary` | `Vary` is to hold "Accept-Encoding" (httpx/httpx_test.go:129) | in `Gzip(CORS(...))`, the nesting of httpx_test.go:158, `CORS` sets `Vary` (httpx/cors.go:28) and drops what `Gzip` added |

The passing runs and the theorems claim nothing of these cases: `FoundByName`
leaves out names shared with an object that has no comment, `DriftIsTold` what
`Diff` does not look at and the order of overloads, `ResponsesVary` the encoding
where `Gzip` is outside and the origin allowed.

Read from the code while modelling it, and not stated as properties:

- A catalog above 256 MB is saved without complaint and can never be loaded
  (`Oversized`).
- With `MaxConns = 1` `RunSettlesAndStops` fails, because `installTrigger` needs a
  second connection while `Run` holds the first.
- With a JWKS URL and a `jwt_type`, which validation admits, the server mints
  tokens it refuses itself.

## 13. Proofs

Everything below holds for all values of the constants that satisfy
`ConstantsAssumption` of the module: types of the configuration functions,
distinct "none" values, `MaxQueue > 0`, for `JWKS` a `Horizon` above
TTL + timeout and minute + timeout, for `Serve` an order of two different
middlewares, for `Cache` files of at least one piece, and for `Introspect` what
PostgreSQL guarantees of a database: constraint names are unique within a
relation, text columns and commented ones are columns, and there are finitely
many names (stated as: every set of them has a first and a last). `Cache` also
assumes that what is compared are catalogs (`ContentAssumption`: the fields of
the struct, maps by name, a list of functions), and `SmartComments` that hooks
are given what `Introspect` returns (`CatalogsAssumption`: no two tables of one
schema and name, which the one query of `pg_class` rows guarantees; schemas that
have a name; a flag per column, privileges of the three kinds; of keys nothing,
since they may name columns that an earlier query did not see) and that priorities are integers (`PluginsAssumption`). TLC evaluates
these assumptions in every run.

**WatchProofs** (`TypeCorrect`, `Settled`, `BaselineMatches`, `Refinement`).
The invariant `Inv` adds to the types: *Locking* — open transactions hold
disjoint parts, each with room for one more version, so a commit keeps the
types and the versions monotonic; *Installation* — a watcher that counts its
trigger as installed has it in `trig` with its function on its channel, which
no other watcher undoes unless it shares the name (`Sole`); *Owing* — DDL that
ran with the trigger in place carries the notification; *Progress* — nothing of
an introspection or of a poll survives it; and per part *Feeding* (held ≤ read
≤ db, and held ≤ last ≤ db where they are compared), *Knowing* (a part not
waived is current in `held`, or a notification is queued, or it will be read
again) and *Baseline*. `SettledIsCurrent` alone is not inductive: it says
nothing of the states between the commit and the read, which *Knowing* covers.

**RunTxProofs** (`TypeCorrect`, `Isolation`, `CleanPool`, `SafeRetries`,
`Refinement`). *Ownership*: a connection belongs to one call exactly from its
BEGIN to its release. *Applying*: the identity on the connection is the part of
`Own(r)` that `ApplyIdentity` has come to. *Telling*: what the error in hand
says of `effect` and `inflight` is true. `PoolIsClean` is what makes
`RunsAsItself` inductive: `Begin` starts from `Nobody`.

**JWKSProofs** (`TypeCorrect`, `Refinement`). The invariant bounds ages by
ages: what was received is at most `spent` old, what is cached at most
`age + Timeout`, and the mutex means one fetch at a time. The refinement maps
`FromCache`, `FetchDone` and `FetchFails` to `Tell`, `Call` to `Ask`, `Tick`
and `Publish` to `Pass`, the rest to stuttering.

**AuthProofs** (`TypeCorrect`, `AlwaysARole`, `PeersAreListed`,
`GrantedRolesAreAllowed`, `FailsClosed`, `MintedTokensAreAccepted`). The
invariant says that the `Config` is what `AuthConfig` makes of the section
(*Built*), that minted tokens carry what their section says (*Stamped*), and
that the reply in `exchange` is one `Authenticate` gives in the present state
(*Answered*); a step that changes what it depends on forgets it. The lemma
`Ways` then lists the three ways out of `Authenticate`, `Grants` what a granted
reply holds, and each property is a few lines on top of them.

**IntrospectProofs** (`TypeCorrect`, `CatalogsAreClosed`, `QuietTablesAreRead`,
`QuietTablesAreDescribed`). None of the last three is inductive: they speak of
the end of an introspection. *AsRead* says what is known before it: of a
relation no commit touched, the tables say what the database still says, up to
the query made last; *Collected* that the enums made so far hold the rows of
such relations. `ValueColumnIs` shows that the column the code picks is the one
the documentation describes, and the only one; that is where unique names are
needed. The three properties then follow at the one step that can make each
false (`Convert`, `RowsFail`, `Convert`), `Undisturbed` by way of `BindingIs`
(the foreign keys that type a column) and `ConvertedIs` (which tables become
enums).

**SmartCommentsProofs** (`TypeCorrect`, `HooksRunInOrder`,
`LogicalKeysAreOfRealColumns`, `NamesAreFound`, `CommentsDecide`). Three of the
properties speak of the hook's return and say nothing before it, so `Inv`
follows its loops. *Registered*: the plugins are sorted by priority and order
of registration, which `InsertIs` shows to survive one more (the positions with
a priority no greater are an initial segment, `InitialSet`); a pass is a part
of that order, and what ran is before what is left. *Indexing*: the maps hold
exactly the commented objects visited so far (`Exactly`, `ByName`, `Comments`);
that a name once ambiguous stays so is `IndexedByName`. *Published*: from
`Publish` on `idx` is that of `given`. *Transforming*: what is left is what its
own comment leaves; a table visited has the keys added to it checked
(`LogicalKeysOf`) and, where keys are not shared, is `Decided` by its comment; a
table not visited is as it was given. The foreign keys of a table visited stay
valid while later tables change, because validation reads keys and columns only
and these never change (`AcceptedStable`, `DecidedStays`). *Carried* bounds what
the loop writes into the index it reads: tags of real constraints and of
accepted logical keys; `CarriedOwn` derives that a lookup finds an object's own.

**CacheProofs** (`TypeCorrect`, `LoadsWereSaved`, `SavesAreLoaded`,
`DriftsAreTold`). *Reading*: the pieces a load has read, and those it can still
meet, are of versions in `may`. *Undisturbed*: as long as a save has met no
other, the file is the start of its version and it alone is saving; after it,
and until the next `Create`, the file is whole, so that an undisturbed load's
pieces are a prefix of it. `LoadedIs` shows that `Load` recognises one version
at most. `DriftIsTold` is a fact about two catalogs, whatever they are: the
lemmas under *Drift* show, function by function of `diff.go`, that each stays
silent only about equal values (`DiffTableTells`, `DiffTablesTells`), or, of
lists, about equal sets (`DiffStringSetTells`). `SortedReorders` shows that lists
which sort alike are reorderings of one another, also where keys are shared (an
element has a rank among those of its key, and ranks number them without a gap),
so that equal hashes mean `SameButOrder` (`HashTells`). `ReorderedNames` and
`OrderIsNotHashed` are the converse, which needs that no key is shared, as
`DiffTells` does (`FunctionMapIs`).

**ServeProofs** (`TypeCorrect`, `OneResponsePerWriter`, `CachesAreTold`,
`NilAfterDraining`). *Holding* says at which stages a request has a writer,
*Said* what its response has said on the way in, which depends on the nesting,
and *Stopping* that `Shutdown` runs with the listener closed, so that nothing
arrives after `Drained` was seen.

Only model-checked: the liveness properties (they rest on fairness, which the
prover does not reason about) and the violated properties. Every invariant and
action property of the passing runs has its theorem.

## 14. Not modelled, and why

In `Watch`: that a connection released to the pool keeps its LISTEN, that `Run`
returns nil or an error, a DBA who drops the trigger, a panic in `OnChange` or
in `time.NewTicker` for a `PollInterval` that is not positive. In `RunTx`: the
isolation level (PostgreSQL's business; its outcomes are in `CommitRefused` and
`FnFails`), callbacks with side effects outside the transaction, which the
documentation forbids. In `Introspect`: texts (types, defaults, descriptions),
write privileges, and that one query may itself see a small part of a later
commit through `has_table_privilege`. In `JWKS`: decoding of RSA and EC
parameters, and pauses between the clock reads of one `key` call. In `Auth`:
an empty `header_prefix` (every header would be a claim), which validation
admits, and the spelling of headers and tokens; the key service behind it is
module `JWKS`. In `SmartComments`: the tags of enums and the `Renamed` helpers,
whose results the products spell names with; two `@foreignKey` tags of one text
in two tables of a schema are in the instances, an empty `@primaryKey ,` is
not. In `Cache`: `Hash` failing, and permissions. In `Serve`: the other
timeouts, `Healthz`, and the parsing of `Accept-Encoding`.

Not modelled at all: `smarttags.Parse`, `inflect` and `postgis` (text without
state), `testutil` (data), `pgexec.Classify` (a table), `confx.Load` and
`pgexec.Connect`, which hand everything to a library, and `Registry.Inflector`,
a composition of functions without state.

## 15. Plan

1. More of what TLC finds and the provers could show for every size: that the
   bounds which saturate (`Horizon`, `MaxQueue`) lose nothing.
2. **Reload**: `Watch`'s `OnChange`, `TransformCatalog`, `cache` and requests
   composed, so that a request sees one catalog and one index. The composition
   is the products' code; it waits until src/ has a part of it.
