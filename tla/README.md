# TLA+ models of ethereum-fetcher

This directory holds TLA+ specifications of the ethereum-fetcher server, the
TLC instances that model-check them, and proofs of their main properties for
TLAPS. Paths below are relative to the root of the repository. `PROJECT.json`
is the index: components, runs, the source lines every definition models,
hazards, findings and theorems.

## The system

A REST server answers `GET /lime/eth?transactionHashes=...` (and `GET
/lime/eth/{rlphex}`) with Ethereum transactions. It looks the hashes up in
PostgreSQL, fetches the missing ones from an Ethereum node with a pool of
workers behind a rate limiter, stores what it fetched, links it to the user
when there is one, and answers in the order of the request.

| component | source | state | operations |
|---|---|---|---|
| Service | `internal/app/service.go` | none of its own; per request: the list of result channels, the merged context | `GetTransactionsByHashes`, `MergeContexts`; `GetUser`, `GetAllTransactions`, `GetMyTransactions` forward to the store |
| EthNode, worker pool | `internal/network/setup.go` | `tasksChan` (unbuffered), `workersChan` (20 permits), one dispatcher goroutine, up to 20 worker goroutines | take a task, wait for a permit, fetch, offer the result, close the channel, return the permit |
| EthNode, fetch | `internal/network/node.go` | per task: two goroutines, a wait group, an error channel | `GetTransactionByHash`, `ScheduleTask` |
| RateLimiter | `internal/network/ratelimiter.go` | a buffered channel of credits, a ticker, a refill goroutine | `Allow`, `WaitDuration`, refill |
| Store, writes | `internal/store/pg/db.go` | `txCount`, the connection pool, the tables | `InsertTransactions`, `InsertTransactionsUser`, `BeginTx`, `CommitTx`, `RollbackTx` |
| Store, reads | `internal/store/pg/db.go` | - | `GetUser`, `GetAllTransactions`, `GetMyTransactions`, `GetTransactionsByHashes` |
| Store, set-up | `internal/store/pg/setup.go` | - | connect loop, migrations, search for the migrations path |
| Generated models | `internal/store/pg/models` | - | SQLBoiler code: `Upsert`, `AddUsers`, queries |
| Handlers | `internal/server/handlers.go` | - | one per route: validate, call the service, answer |
| Authentication | `internal/server/auth.go` | none (signed tokens) | issue and verify tokens, middleware |
| WebServer | `internal/server/webapi.go` | the http server, a shutdown goroutine | `Run` |
| Process | `main.go`, `cmd`, `internal/di` | application context | wiring, configuration, signal handler, start and end |

How they interact. Every HTTP request runs in a goroutine of `net/http`, which
calls a handler, the service and the store; the store is one value shared by
all of them. The service hands tasks to the dispatcher over `tasksChan` and
gets results back over one unbuffered channel per task. Cancellation travels
over three contexts: the application's (signal handler), the request's
(`net/http`, on disconnect and after the handler returned), and the one
`MergeContexts` makes of the two, which the service and the pool watch. The
store and the rate limiter watch the application's context only.

What is hard in it:

- the pool and the service wait for each other (permits are held until a reader
  comes, and readers come after everything is scheduled);
- a closed channel and a cancelled context compete in the same `select`;
- the transaction counter of the store is a plain integer shared by all
  requests;
- results arrive in any order and are read in one; a failed request leaves
  workers behind that nobody will read from;
- shutdown cancels contexts while fetches poll a limiter that stopped, and main
  returns while the web server still shuts down;
- one transaction has several names: requests look up, schedule and answer by
  string, the node fetches by value, the tables know one spelling;
- what a request found is stale by the time it links and inserts;
- a COMMIT whose answer is lost has failed for its caller and may have stored
  everything, or do so later;
- a migration can stop half way, and the next start finds what it left.

What makes each part correct:

- *Service and pool*: an answer only when every missing hash was fetched and
  stored; every request comes to an end; no more than 20 fetches at a time; no
  permit and no goroutine is lost; a result is lost only to a cancellation.
- *Rate limiter*: a bound on the calls of any stretch of time; the refill never
  stops while the application runs; fetches end on shutdown.
- *Store*: an acknowledged write is committed, row and link together; a failed
  one is stored whole or not at all; no transaction is left open; every call
  returns.
- *Fetch*: the transaction returned is complete; errors of either half arrive;
  no goroutine is left behind.
- *Service, store and handlers together*: an answer has what was asked for, each
  hash in its place; what was answered is remembered, and for the user who
  asked; a user's list has nothing the user did not earn; a request fails only
  for a reason.
- *WebServer and process*: requests in flight get their grace period on
  shutdown; a signal ends the process, whenever it comes.
- *Set-up*: the server serves or stops, it does not retry for ever; it serves a
  whole schema only; the migrations path is the one that exists.

## Modules

| module | about |
|---|---|
| `FetchContract` | abstract: what `GetTransactionsByHashes` owes its caller |
| `FetchPool` | the service, the dispatcher, the workers, the contexts; implements `FetchContract` |
| `FetchPoolProofs` | proofs about `FetchPool` |
| `StoreContract` | abstract: what the writes of the store promise |
| `Store` | the writes of the store over a database; implements `StoreContract` |
| `StoreProofs` | proofs about `Store` |
| `RateLimiter` | credits, refill, polling callers |
| `RateLimiterProofs` | proofs about `RateLimiter` |
| `TxFetch` | one fetch in its goroutines, as callers of `RateLimiter` (composed with `INSTANCE`) |
| `TxFetchProofs` | proofs about `TxFetch` |
| `Service` | the routes, the middleware, `GetTransactionsByHashes` and the queries over the tables, with the names of hashes |
| `ServiceProofs` | proofs about `Service` |
| `MigrationPath` | how the working directory leads to the migrations (functions only) |
| `MigrationPathProofs` | proofs about `MigrationPath`: from where the migrations are found |
| `Process` | start, migration, serving, signals, shutdown, crashes and restarts; EXTENDS `MigrationPath` |
| `ProcessProofs` | proofs about `Process` |
| `MCFetchPool`, `MCStore`, `MCRateLimiter`, `MCTxFetch`, `MCService`, `MCProcess` | TLC instances |

`Service` sees a request from the outside, with few and large steps; the others
open those steps up. `Schedule` to `Receive` of one request is `FetchPool`,
`InsertTransactions` is `Store`, one fetch of the pool is `TxFetch`, its calls
to the node go through `RateLimiter`. `Service` takes from the others what they
prove or refute: results are read in the order of the request (`ContractKept`
of `FetchPool`), and an insert of the store is one step that adds the row and its
link, or adds nothing because the link is there or the call fails
(`ContractKept` of `Store`). The two exceptions that `Store` shows are actions of
`Service` as well: nil without storing takes an earlier overlap (`Lose` of
`StoreContract`, the counterexample of `store_overlap`; `InsertLost`), and a call
that failed with its answer lost may store later (`InsertInDoubt`, `Settle`;
`LateInsert`, `LateLink`). That `Service` has these and no other effects on the
tables is read off its actions; no property is claimed of it.

Operators whose comment starts with "Mutant" are faulty variants of the
definition that follows them. No specification uses them; put in its place,
each makes one property fail.

### FetchPool

A task is a pair of a request and a position among the hashes the store lacked;
`stage[t]` follows it and its result channel: `held` by the dispatcher, `fetch`
and `tx`/`err` in a worker, `closed`. `pc[r]` follows
`GetTransactionsByHashes`.

| code | actions |
|---|---|
| lookup of stored transactions, linking, start of `MergeContexts` (service.go:60-80) | `Lookup`, `LookupFails` |
| scheduling loop and `ScheduleTask` (service.go:82-92, node.go) | `Take` (rendezvous with the dispatcher), `ScheduleDone` |
| receive loop (service.go:95-114) | `Deliver`, `CancelSend`, `CancelHeld` (a value comes), `ReceiveZero` (a closed channel is read), `ReceiveDone`, `Save`, `SaveFails` |
| return and deferred `cancel()` | `Answer`, `Return` |
| dispatcher (setup.go:50-65) | `Take`, `CancelHeld`, `GrantPermit`, `DispatcherExit` |
| worker (setup.go:66-88) | `FetchReturns`, `Deliver`, `CancelSend`, `ReleasePermit` |
| `MergeContexts` goroutine | `Merge` |
| `net/http`, signal handler | `Disconnect`, `Finish`, `AppCancel` |

Steps that are one here and several in the code: the look-up with its linking
loop (`Lookup`), one `InsertTransactions` (`Save`, refined in `Store`), one
`GetTransactionByHash` (`FetchReturns`, refined in `TxFetch`),
and a send with the close that follows it, between which no other goroutine can
see a difference: the reader has moved on and reads that channel no more.
Releasing the permit is a step of its own. A select with several ready cases
takes any of them. Stored and fetched data are left out: only which task, and
`tx` or `err`.

`MaxHashes[r]` is the limit of the route: 20 hashes in a query string, and what
fits in 3000 hex characters of RLP (22 hashes of proper length).

### Store

A call is one `InsertTransactions` or `InsertTransactionsUser` with the one
transaction the service passes. `txCount++` and `txCount--` are a load and a
store each (`IncLoad`, `IncStore`, `DecLoad`, `DecStore`), because the field is
shared without a lock; the comparison `txCount <= 0` sees what the call just
stored or what the field holds by then (`CountSeen`). `LeaveOpen` is the early
`return nil` of `CommitTx` and `RollbackTx`.

The database is what the code uses of it: a transaction holds one of
`MaxOpenConns` connections until it ends; a row or link another open
transaction wrote makes a writer wait; keys are unique; an aborted transaction
keeps its connection until rollback; `database/sql` rolls back what was begun
under a context once it is cancelled (`AwaitDone`). Any statement may fail, at
any time.

`COMMIT`, and the insert of a link that commits itself, may be sent and not
answered: the connection breaks, or the context is cancelled meanwhile
(`CommitUnanswered`, `LinkUnanswered`). The call returns an error and its
transaction is in doubt: the server still holds its locks, no longer one of the
pool's connections, and some time later has committed all of it or nothing
(`Settle`). `overlapped` is an auxiliary variable: it remembers whether two calls
of `InsertTransactions` were ever in progress at once. The branch of `BeginTx`
for a `*sql.Tx` executor serves tests and is left out.

### RateLimiter

`credits` is the channel, `tick` the ticker's own buffer of one, `Refill` the
goroutine, and `AllowTrue`, `AllowFalse`, `Wake`, `CallReturns` the loops of
`fetchTransactionDetails` and `fetchTransactionReceipt`. Time is the ticks of
the ticker. The audit variables `ticks` and `allowed` are not in the program:
`OpenWindow` starts counting anywhere, so a property of the window is one of
every stretch of an execution. A caller whose call returned comes again, as
another goroutine of another fetch would (`Again`): there is no end of callers.

### TxFetch

`status[t]` is the worker in `GetTransactionByHash`, `working` the wait group,
`errCh` and `closed` the error channel, `answer[f]` what the node told
goroutine `f` (a task and its half). `Poll` is the loop of the two fetch
functions and consists of the actions of `RateLimiter`; `NodeAnswers` extends
its `CallReturns` with the answer; `LimiterStep` is the limiter's own steps.
The deferred `wg.Done()` is part of the step that ends the goroutine: only
`wg.Wait()` looks at the group. The errors in the channel are a set, because
the code sorts them before joining. The context a task gets is cancelled by
`Cancel`, at any moment of the fetch, before it or never. The audit of
`RateLimiter` is carried along with windows of no length (`Horizon = 0`).

### Service

A name in a request is a transaction of the chain and a spelling. `lower` is
the node's own, `mixed` becomes it under `strings.ToLower`; `bare` (66 digits
without 0x) and `other` (any other string in an RLP list that `HexToHash` makes
the same hash of) remain aliases: never a key of `availableMap`, but fetched and
stored as the transaction they denote.

| code | actions |
|---|---|
| `POST /lime/authenticate`, expiry of a token | `Authenticate`, `Expire` |
| middleware (auth.go), validation, RLP decoding, `ToLower` | `Arrive` (`Accepted`, `Valid`, `Refuse`, `Admit`) |
| `GET /lime/all`, `GET /lime/my` | `GetAllTransactions`, `GetMyTransactions` |
| look-up of rows, eager load of their users (two queries) | `Select`, `LoadUsers` |
| `InsertTransactionsUser`, one row at a time | `InsertTransactionsUser` |
| scheduling loop | `ScheduleTasks` |
| receive loop, `InsertTransactions` | `Receive`, then `InsertTransactions`, `InsertDuplicate` or `InsertLost` |
| the list in the order of the request | `Answer` |
| an error of the database, the node or a context | `Fail`; the write of a request that it failed may still take effect: `LateInsert`, `LateLink` |

Between any two of these steps other requests take theirs. `answer[r]` is a
function from positions of the request, so that a hash left out does not hide
which the others belong to. `failed` and `overlapped` are auxiliary: they tell
a failure that something caused from one that the code made up, and mark the
states after two inserts were in progress at once. A request that fails while
it waits for a write is `late`: it has answered 500, and at any later moment, or
never, its row and link are there (`LateInsert`), or its link (`LateLink`). Other
writers do not wait for it here, as they may in `Store`: one that writes first
stands for one that waited until the late write was dropped. The linking of stored rows
happens before the look-up's rows are all mapped in the code, and after in the
model; the map is private to the request. The rows an earlier run of the server
left are any set (`Init`); their links are left out, because links need the
token that earned them.

`Header` has tokens this server issued, absent and invalid ones: signatures are
taken to be unforgeable, and the claims of a token are its user and its expiry.

### Process and MigrationPath

`pc` is main: `connect` and `poll` are the loop of `NewStore`, `locate` to
`finish` the migration, `dial` to `notify` what follows in main, `listen` and
`serve` the call of `ListenAndServe`. `listener` is the goroutine that
`WebServer.Run` starts. The database, `version` (the row of
`schema_migrations`) and `tables` survive every end of the process; `Start`
begins again in any working directory. `Crash` is enabled everywhere. A signal
before `signal.Notify` ends the process by default; afterwards the channel of
one holds it and drops more. golang-migrate marks the version dirty, runs the
file (one query, hence one transaction) and marks it clean, and refuses a dirty
version; the model takes this from the library's contract.

`MigrationPath` works on paths as sequences of components. `Findable` is stated
without the algorithm. A directory is on the way (`OnTheWay`) if it is the root
of the repository or its path below the root is a run of components of
`internal/store/pg/migrations`, not only from the first: from `store` in the root
the migrations are found as well. It is `Shadowed` if a run as long stands
further up, in the path of the root. Both directions hold, but for one accident
(`Echoed`): a run in the root's path is cut, and what is left happens to be the
same path, because the working directory ends as the root does.

The branch of `ctx.Done()` in the connect loop is left out: only the handler of
signals cancels the context, and main installs it after the store is there. (If
it were taken, `NewStore` would return a nil store and no error.)

## Runs

| run | question | instance | result |
|---|---|---|---|
| `pool` | safety of the pool, that it implements the contract, that every request, task and context goroutine ends | 2 and 1 hashes, 2 permits | holds |
| `pool_wedge` | do requests return when requests can outnumber the permits? | 2 and 1 hashes, 1 permit | violated |
| `pool_panic` | can a request panic? | 2 requests x 2 hashes, 3 permits | violated |
| `store` | acknowledged is stored, counter balanced, failed stored whole or not at all, no link without its row, no waiting for others and every call returns while none overlap, that it implements the contract | 3 calls, 1 hash, 1 user, 2 connections | holds |
| `store_overlap` | is an acknowledged write stored when calls overlap? | 2 calls | violated |
| `limiter` | bound on every window, the limiter keeps nobody waiting | 3 callers that come again and again, limit by default (2), windows of 3 ticks | holds |
| `fetch` | no half result, no lost error, no goroutine left, every fetch ends | 1 fetch, limit 1 | holds |
| `fetch_quit` | does a cancelled fetch end, after shutdown too? | 1 fetch, limit 1 | violated |
| `service` | answers exact and remembered, links earned and with their rows, failures explained, `/lime/my` complete | 2 requests of up to 2 names, 2 transactions, 2 users | holds |
| `service_duplicate` | is a valid request that nothing failed answered? | 1 request, 1 transaction, 1 user | violated |
| `process` | only a whole schema is served, the migrations are found, a signal ends the process, an orderly end has a reason, it does not retry for ever | 1 client, 54 working directories, any number of restarts | holds |
| `process_graceful` | does a request in flight get its two seconds? | as `process` | violated |

The properties of each run by name, and in brackets the theorem that states
the property for every value of the constants (in the module's `...Proofs`):

| run | properties |
|---|---|
| `pool` | `TypeOK` (`TypeCorrect`), `PermitDiscipline` (`PermitsKept`), `ChannelHonest` (`ChannelsHonest`), `NotWedged` (`PoolNeverWedges`), `PanicOnlyIfCanceled` (`PanicNeedsCancel`), `ContractKept` (`Refinement`), `RequestReturns`, `TasksEnd`, `MergerExits` |
| `pool_wedge` | `RequestReturns` |
| `pool_panic` | `NoPanic` |
| `store` | `TypeOK` (`TypeCorrect`), `SerialAckStored` (`SerialAckIsStored`), `SerialBalanced` (`SerialIsBalanced`), `SerialNeverWaits` (`SerialWritesNeverWait`), `LinksHaveRows` (`ForeignKeyKept`), `FailureAllOrNothing` (`FailureIsWhole`), `SerialCallsReturn`, `ContractKept` (`Refinement`) |
| `store_overlap` | `AckStored` |
| `limiter` | `TypeOK` (`TypeCorrect`), `BurstBound` (`BurstBounded`), `OvertakenOrServed` |
| `fetch` | `TypeOK` (`TypeCorrect`), `ResultComplete` (`ResultsComplete`), `ErrorsReported` (`ErrorsNotLost`), `NothingLeftBehind` (`NothingIsLeft`), `FetchEnds` |
| `fetch_quit` | `CanceledQuits` |
| `service` | `TypeOK` (`TypeCorrect`), `AnswerExact` (`AnswersExact`), `Remembered` (`AnswersRemembered`), `LinksEarned` (`LinksAreEarned`), `LinksHaveRows` (`ForeignKeyKept`), `FailuresExplained` (`FailuresAreExplained`), `MyTransactionsComplete` (`MyAnswersComplete`) |
| `service_duplicate` | `NoSpuriousFailure` |
| `process` | `TypeOK` (`TypeCorrect`), `ServesMigrated` (`SchemaIsMigrated`), `PathFound` (`PathIsFound`), `EndsForReason` (`EndHasReason`), `StopsOnSignal`, `StartsOrStops` |
| `process_graceful` | `GracefulShutdown` |

### Bounds, and why they are enough

*Pool.* Two requests are the least that contend for permits and the dispatcher;
two hashes are the least for which scheduling, receiving and storing have an
order (a first, a last, and one that finishes before its turn). The other
request has one hash, so that safety and liveness can be asked of one instance:
two permits are the fewest `Capacity` allows, and three tasks compete for them.
The proofs remove the bounds for safety. Requests are served
once: a later request meets the pool only through permits, the dispatcher and
`appDone`, and `TasksEnd` says that the first two come back.

*Store.* Three calls let a transaction left open by two overlapping ones meet a
third; one hash makes every pair of calls meet at the same row, which is where
they can wait for each other (calls on different hashes meet only in `txCount`
and the connections, as these do); one user next to the anonymous one lets
links exist or not; two connections can be exhausted by two transactions left
open. The proofs hold for any calls, hashes, users and connections.

*Limiter.* Two credits and three callers: the channel drains, refills and keeps
callers waiting while others, of which there is no end (`Again`), take every
credit. Windows of three ticks are longer than a "second" of two.
`NodeRateLimit = 0` takes the default branch; `fetch` has a limit of its own.

*Fetch.* The properties are about one fetch at a time, and its two goroutines
already compete for the single credit. Several fetches meet in the limiter
only; the run `limiter` has three callers, and the proofs of `TxFetch` hold for
any number of fetches (the inductive invariant was also checked by TLC for
two).

*Service.* Two requests are the least that interleave, of one user or of two,
and one may be anonymous. Two names are the least that can repeat, alias,
reorder or half succeed; `MaxHashes` is two so that a third is refused. The
lists are all those of up to two proper or bare names, one list for each other
spelling and each reason to refuse. Transactions, users and requests are
symmetric (no temporal property but action properties are checked). `IInv` was
also checked by TLC on this instance.

*Process.* One client is enough: requests meet only in the shutdown, which
waits for any. Six roots, with and without components of the path to the
migrations, crossed with nine paths below them, on the way and beside it, give
each kind of overlap: none, the right one, a shorter, an equal and a longer wrong
one, and the accident. The proofs hold for every directory.

### Fairness

- *Goroutines that can run do*: the Go scheduler starves no goroutine. Fairness
  is per goroutine, never per case of a select: one that has two ready cases
  takes either.
- *`Merge` and `Finish`*: `net/http` cancels the context of every request whose
  handler returned, and the goroutine of `MergeContexts` then runs.
- *`FetchReturns` only while the application runs*: the node or its client
  answers. After `AppCancel` a fetch may spin (run `fetch_quit`), so nothing
  is assumed of it; `RequestReturns` then rests on the merged context, and
  `TasksEnd` is claimed only of a running application.
- *`StoreReturns`*: `RequestReturns`, `TasksEnd` and `MergerExits` of the pool
  assume that every call of the store returns. `SerialCallsReturn` shows it while
  no two inserts overlap. After an overlap an abandoned transaction can make a
  call wait for ever (`store_overlap` has the transaction, no timeout ends it),
  and then the request does not return either. The assumption is a formula of
  its own, next to the fairness of the goroutines.
- *Store*: a statement that neither waits nor must fail completes; failures the
  database may report are not relied on, those it must report (duplicate key,
  cancelled context) are. The server is done with a transaction in doubt at some
  time: it commits, or notices that the connection is gone.
- *Limiter and fetch*: the ticker ticks, the refill goroutine and the callers
  run, calls of the node return, and a stop of the application reaches the
  task's context (`MergeContexts`).
  No caller has to come again, and a poll need not find a credit: they are not
  handed out in order, and the server has an endless supply of fetches. Nothing in
  the code keeps one fetch from being overtaken for ever, so `OvertakenOrServed`
  claims the rest: one that is not served is overtaken again and again, and never
  waits because the refill stopped. `FetchEnds` is about one fetch that no other
  overtakes.
- *Process*: `Main`, the ticker, the goroutine of the signal handler and that of
  `WebServer.Run` run. Calls of the database return, with an error if it is
  down; nothing is assumed of when it comes back. No fairness on `Serve`,
  `Shutdown` or `Deadline`: the process ends without them.
- `Service` is checked for safety only: its requests end because those of
  `FetchPool` and the calls of `Store` do.
- No fairness on a client leaving, on the operator stopping the server, or on
  any optional failure.

### What the violated runs show

- `pool_wedge`: the service schedules every missing hash before it reads a
  result, workers keep their permit until they are read, the dispatcher keeps
  the task it took until there is a permit. Once the permits are all held for
  requests that still schedule, nothing moves until a client leaves. With 20
  permits, two concurrent requests of 20 new hashes are enough: 19 + 19 tasks
  may be waiting unread. `Capacity` is the condition under which it cannot
  happen, and `NotWedged` is proved from it.
- `pool_panic`: a cancelled task's channel is closed, often without a value; the
  select of the receive loop may read the closed channel instead of
  `muxCtx.Done()`, finds `Err == nil` and dereferences a nil `Tx`.
  `PanicOnlyIfCanceled` bounds the damage: the client is gone or the server is
  stopping, and `net/http` recovers the panic.
- `store_overlap`: call 1 begins (count 1), call 2 begins (count 2), call 1
  decrements to 1, `CommitTx` returns nil without committing. Call 1 is
  acknowledged, its transaction stays open with its connection and row lock.
  The service runs `InsertTransactions` from every request's goroutine, so two
  concurrent requests suffice. `SerialAckStored` and `SerialBalanced` say that
  overlap is the only cause; `FailureAllOrNothing` holds regardless.
- `fetch_quit`: after the application context is done no credit is added and
  the loops look at no context: the goroutines poll for ever.
- `service_duplicate`: a user asks for a stored transaction by its hash and, in
  the same list, by another spelling of it. The look-up finds the row for the
  first name and links it to the user; the second name is no key of the table, is
  fetched and inserted, and meets that link: a duplicate key, status 500. A new
  hash named twice does the same (the validation does not ask for distinct
  hashes), the first insert making the link that the second meets.
  `FailuresExplained` bounds it: only transactions that the same user names more
  than once, in one request or in two, at a name that the look-up did not find.
- `process_graceful`: `Shutdown` closes the listener before it waits,
  `ListenAndServe` returns at once, and nothing joins the goroutine that waits.

What else differs from the documents, met while modelling:

- Nearly twice the configured rate can pass in one second (README.md:201,
  `.env.example`): a full channel, then its refill. `BurstBound` is the bound
  that does hold.
- An alias is fetched from the node every time (`docs/ASSIGNMENT.md`: "should
  get the information from the database"), and its transaction is missing from
  the answer, because both use the string of the request.
- `docs/openapi.yaml` shows `rlphex` with 0x in front, which
  `hex.DecodeString` refuses (422); it lists 400 where the handlers answer 422.
- A migration that a crash interrupted leaves the version dirty: every later
  start ends with "migration failed" until somebody repairs
  `schema_migrations`. `ServesMigrated` is the safe half of it.
- The driver of golang-migrate keeps one of the 25 connections for as long as
  the server runs.

## Proofs

All theorems hold for every value of the constants, under the named
assumptions of the modules only.

**FetchPoolProofs** (finitely many requests, at least one hash each, at least
one worker). `IInv` is inductive:

- `TypeOK` and `PermitDiscipline`;
- `MuxHonest`: the merged context of a request in progress is cancelled only
  because the client left or the application stops. The deferred `cancel()`
  happens with the return, which is why the condition is on requests in
  progress;
- `ClosedHonest`: `ChannelHonest` extended to requests before their look-up;
  a channel is closed without a value only where the code saw `muxDone`, so it
  follows from `MuxHonest`;
- `HandedInOrder`: a hash not scheduled yet is `idle`, needed to know that a
  fresh task was not closed before;
- `SavedInOrder`: in the receive loop exactly the hashes before `next` are
  stored, which is what the refinement needs of `Answer` and `Save`.

From it: `TypeCorrect`, `PermitsKept`, `ChannelsHonest`, `PanicNeedsCancel`
(an action property), and `Refinement` (`Spec => Contract!Spec`; every step is
a step of the contract or a stutter: `Cancel` for `Disconnect`, `Finish` and
`AppCancel`, `Crash` for `ReceiveZero`, `Fail` for the errors). `PoolNeverWedges`
needs `Capacity` as well: if all permits were held for requests that still
schedule, the tasks holding them would be among the hashes that are not their
request's last, and there are fewer of those than permits.

**StoreProofs** (`NonAuthenticatedUser` is no user, at least one connection).
`IInv` has `ArgInv` (only authenticated users write links), `WroteAll` (a
transaction about to commit wrote everything its call was asked to store),
`LinkingStored`, `FailureAllOrNothing`, and, while nothing overlapped,
`SerialInv`: at most one call is inside `InsertTransactions`, the counter and
its copy are what its position says (`SerialCount`), only it has a transaction
open, and acknowledged rows are stored. The counter's value is what excludes
`LeaveOpen`. `LinksIsolated` holds whatever overlaps: a link that an open
transaction, or one in doubt, wrote is in no other of them and not committed.
An insert in doubt wrote all that its call was asked to store (`ArgInv`), which is
what makes a late commit whole.

From it: `TypeCorrect`, `SerialAckIsStored`, `SerialIsBalanced`,
`FailureIsWhole` (every stored row and link is one of a committed call, and a
committed call is stored whole); `SerialWritesNeverWait`, the safety half of
`SerialCallsReturn`: what fairness has to give is only that steps which can be
taken are taken, never that somebody else lets go of a lock or a connection; and
`Refinement` (`Spec => Contract!Spec`). In it `Commit` is `Insert` by `WroteAll`
and `LinksIsolated`, `CommitUnanswered` is `InsertInDoubt`, which `Settle` ends with
or without the row and the link, `LeaveOpen` is `Lose` or `InsertFails` (the counter, in
`SerialInv`, says that something overlapped), `LinkUser` is `Link` by
`LinkingStored`, and the steps in between show the contract nothing.
`ForeignKeyKept` is proved of the contract and holds of the store through the
refinement.

**RateLimiterProofs** (any integer as limit, a positive default).
`TypeCorrect` gives `credits <= MaxCredits` for every configured limit, and
`BurstBounded` the bound on every window.

**TxFetchProofs** (the same). `IInv` has `LoopInv` (a
goroutine that calls the node is counted by the wait group and has no answer
yet), `IdleInv`, `ClosedInv` (closed means both are done; past the loop means
closed and drained) and `ErrorsAccounted`: an error is in the channel, in the
list, or was dropped because the context was cancelled. Together they give
`ResultsComplete`, since `Conclude` looks at the context before the list,
`ErrorsNotLost` and `NothingIsLeft`. `TypeCorrect` takes the limiter's part from
`RateLimiterProofs`, since the steps of the fetches that touch the limiter are its
own (`LimiterUsed`).

**ServiceProofs** (`NonAuthenticatedUser` is no user, queries are lists of
names). `IInv` has `TypeOK` and, for every request,

- `Progressed`: what it has where it stands (rows without a link only between
  `LoadUsers` and the last `InsertTransactionsUser`, results awaited only in the
  receive loop);
- `KeysAsked`: availableMap has every proper name whose result is not awaited,
  which gives `AnswerExact` at `Answer`; an alias never matches a key, so only
  the places of proper names are filled;
- `KeysStored`, until inserts overlap: what is in the map is stored and linked,
  or is the row being inserted, or is on the list of rows to link. It gives
  `Remembered`;

then `FoundStored` (rows found are still in the table while they are linked, lost
inserts or not), which with `LinksHaveRows` itself gives `ForeignKeyKept`;
`UserTokens`; and `LinksSettled`: every link belongs to a request and a
position of it that is stored. Without it `FailuresExplained` would not be
inductive: when `InsertDuplicate` meets a link, the request whose position made
it is either another one, or this one at another position, because the position
at hand is still missing. `MyAnswersComplete` follows from `Remembered` and
`LinksEarned` in the state before.

**MigrationPathProofs** (no assumptions). `UnshadowedFound`: the run below the
root is an overlap (`RunIsOverlap`), none is longer since every overlap lies in
the working directory or crosses from the root into it (`OverlapIsRun`,
`ShorterRun`), and none of the same length comes first, so it is the one that
is cut (`LongestCut`). `FoundOnTheWay` compares the parts that are left with the
path to the migrations, position by position. The overlap that the code finds is
the longest because `LongestFirst` shows by well-founded induction on numbers, in
the form the library has it for sets, that one exists; no induction over
sequences is needed.

**ProcessProofs** (the root and the path below it have neither empty components
nor dots, as `os.Getwd` returns them). `MigratedInOrder` ties `pc`, `version` and
`tables`: dirty before the tables, done after them, and no way past `NewStore`
but from done. Every action but `Up`, `Apply` and `Finish` leaves the schema
alone, also those that end the process. `LocatedByPath` says that main goes past
`locate` in the directories that `removeOverlap` leads to the migrations and in
no others; with the theorems of `MigrationPathProofs` it gives `PathIsFound`.
`StoppedForReason` follows a handled signal or a failed listener to the end of
main and gives `EndHasReason`.

Only model-checked: the liveness properties (`RequestReturns`, `TasksEnd`,
`MergerExits`, `SerialCallsReturn`, `OvertakenOrServed`, `FetchEnds`, `StopsOnSignal`,
`StartsOrStops`), because proofs under fairness are out of the prover's reach,
and every violation. Every invariant and every action property of a passing run
is a theorem. What no theorem says: that a step can be taken (`ENABLED`), hence
that every outcome which `Store` allows can happen in `Service`, and that no call
of the code deadlocks beyond `PoolNeverWedges` and `SerialWritesNeverWait`.

## Not modelled

- *Data*: the contents of transactions, receipts, rows and messages; the fields
  of the JSON answers, their formatting, logging.
- *Generated models*: `Upsert`, `AddUsers`, `LoadUsers` and `All` are modelled by
  what they do to the tables. The rest of `models` (finders, deletes, hooks,
  query caches, the relation from users to transactions) is not called by the
  program.
- *Mocks and tests*: read as documentation.
- *Configuration*: its values are the constants of the modules.
- *Signatures and password hashes*: a token is the user it was issued to, a
  password is right or wrong.
- *Database*: PostgreSQL fails statements, connections and commits, and goes
  away and comes back in `Process`; its own recovery is taken for granted. In
  `Service` a query sees all that was committed when it runs (READ COMMITTED).
- *Several servers on one database*: the repository runs one.

## Plan

Done, in this order: `FetchPool` with `FetchContract`, `Store`, `RateLimiter`,
`TxFetch`; then `Service`, `MigrationPath`, `Process`; and their proofs. What
would come next:

1. `Service` against `FetchContract`: it needs the positions that a request
   scheduled, which `Service` forgets as results arrive.
2. One specification of `Service`, `FetchPool` and `Store` that share the tables,
   in place of the two contracts: a step of `Service` would then be the steps of
   the others, and its refinement more than a copy of theirs.
