# A TLA+ model of the community waste collection system

The repository is a Go service: an Echo HTTP API over PostgreSQL and an S3 bucket, and
one background worker. Households ask for pickups, pickups are scheduled and completed,
a completion creates a payment, a payment is confirmed with an uploaded proof file.

Everything interesting happens *between* SQL statements. Only one operation,
`pickupService.Complete`, uses a transaction; every other handler reads a row with one
statement, decides in Go, and writes with another. Several requests and the worker do so
at the same time, statements and S3 calls fail, replies get lost, and the process may die
anywhere. The main model (`WasteCollection`) therefore takes one SQL statement, or one S3
call, as its step and asks which of the business rules survive. Four smaller models look
where that grain is too coarse or too fine: `Transactions` at the locks inside a statement,
`Readers` at the requests that only read, `Shutdown` at the end of the process,
`RateLimiter` at goroutines that share memory without a lock.

Paths below are relative to `src/`.

## 1. Inventory

| Component | Code | State | Operations | Where the difficulty is | What makes it correct |
|---|---|---|---|---|---|
| Domain | `internal/domain` | none | statuses, waste types, price list, sentinel errors | — | — |
| Schema, repositories | `migrations/*.up.sql`, `internal/repository` | tables `households`, `waste_pickups`, `payments` | conditional UPDATEs, INSERTs with unique indexes and foreign keys, DELETE with cascade | rows change between two statements of one request; row locks, waiting and deadlocks inside a statement or transaction | references intact; at most one payment per pickup and one pending one per household; what a transaction checked stays true, and every transaction ends |
| Pickup service | `internal/service/pickup.go`, `internal/handler/pickup.go` | locals of requests in flight | Create, Schedule, Complete, Cancel, List | checks on a stale row; half a completion; lost COMMIT reply | BR-01, BR-03, BR-05; an acknowledged reply stays true |
| Payment service | `internal/service/payment.go`, `internal/handler/payment.go` | locals of requests in flight | Create, Confirm, List | two confirmations of one payment, upload before UPDATE, cleanup after it | right household and price; a paid payment has its proof |
| Household service | `internal/service/household.go`, `internal/handler/household.go` | none | Create, Get, List, Delete | a deletion under any other request | cascade leaves nothing dangling |
| Organic canceler | `internal/worker/organic_canceler.go` | the ids the running cycle selected | tick, find, bulk cancel | select and update are two statements | BR-04: cancels what nobody scheduled, and eventually does |
| Object storage | `internal/storage/s3.go` | the bucket | Upload, Delete, EnsureBucket, Ping | ambiguous failures; nobody removes leaked objects | no proof lost, no object leaked without a failure |
| Reports | `internal/service/report.go`, `internal/repository/payment.go` | none | WasteSummary, PaymentSummary, HouseholdHistory | three concurrent reads without a common snapshot | what a client may conclude from a mixed answer |
| Rate limiter | `internal/middleware/ratelimit.go` | `sync.Map` of token buckets, a gauge | LoadOrStore, touch, sweep | the sweeper decides on a time that may be stale | a busy client keeps its bucket; gauge equals the map's size |
| Shutdown | `cmd/api/main.go` | worker running, server open, pool open | cancel the worker, drain, drain HTTP, close the pool | timeouts give up waiting; requests keep arriving while the worker is drained | no statement on a closed pool and no request lost, unless a timeout expired; the process exits |
| HTTP pipeline | `internal/handler`, `internal/middleware` | none that lasts | validation, error mapping, pagination, lists, metrics, recovery, readiness | COUNT and page are two statements, every page is another request | a walk through a list misses and repeats no more than the writers account for |
| Configuration, logging, metrics, tracing, pool set-up, route extractor | `internal/config`, `internal/observability`, `internal/repository/db.go`, `cmd/route-extract` | none | — | — | — |

The components call each other in one direction: handler → service → repository or
storage. They interact only through shared state: the tables, the bucket and, inside the
middleware, the limiter map. The worker shares nothing with requests but `waste_pickups`.

`PROJECT.json` lists the hazards of this code, each at its line, with the properties that
would notice if it went wrong, or the reason none does yet.

## 2. What is modelled

```
WasteDomain          vocabulary, prices, BR-03's condition
  Database           the tables, and each SQL statement as an operator over them
    ApiRequests      requests in flight, replies, failures
      PickupService      create, schedule, complete, cancel
      PaymentService     create, confirm; the bucket
      OrganicCanceler    clock, find, bulk cancel
    HouseholdService     create, delete
      BusinessRules      what the tables must satisfy; the contract they follow
        WasteCollection      all services interleaved, crashes; its properties
          MCWasteCollection         instances for TLC
          MCWasteCollectionSafety   the inductive invariant under TLC
        Transactions         locks, connections, deadlocks; its properties
          MCTransactions            instances for TLC
  CollectionContract     the abstract specification, implemented by
                         WasteCollection and by Transactions
    Readers              lists, reports and histories amid its steps
      MCReaders                 an instance for TLC

RateLimiter          buckets per address, the sweeper, the gauge    MCRateLimiter
Shutdown             main goroutine, worker, requests, pool         MCShutdown

DatabaseProofs           what statements do to the tables, and to the business rules
  WasteCollectionSafety      types, inductive invariant, theorems, refinement
    ProofObjectSafety            the bucket and the table
  TransactionsProofs         locks and what they protect, refinement
ReadersProofs            histories and summaries
  ListProofs                 walks through a list
ShutdownProofs, RateLimiterProofs
```

### WasteCollection: state

| Variable | In the program |
|---|---|
| `households`, `pickups`, `payments` | the tables: a set of keys, and functions from primary keys to a row or `NoRow` |
| `issued` | every UUID generated so far. `gen_random_uuid` and `uuid.NewString` are taken not to repeat |
| `req[r]` | what the goroutine serving request slot `r` does next (`at`) and the locals it still needs |
| `acked` | history: what 2xx replies told clients |
| `objects` | keys in the bucket |
| `aged` | pickups older than the worker's cutoff |
| `found` | ids the worker's running cycle selected |

Columns no decision reads (names, addresses, timestamps other than the cutoff) are left
out, and so are logs, metrics and spans. A date is a model value; "in the future" is a
separate input, since the code compares with a clock that moves.

### WasteCollection: actions

An action is a handler's work from one statement to the next. Its name says which
statement it issues; `ScheduleFind` is `FindByID` *and* all the checks Schedule makes on
what it got, because no other request can be noticed in between.

| Handler | Actions |
|---|---|
| `POST /api/pickups` | `CreatePickupValidate` (the validator's query), `CreatePickupCheck` (BR-01), `CreatePickupInsert` |
| `PUT /api/pickups/:id/schedule` | `ScheduleFind`, `ScheduleUpdate` |
| `PUT /api/pickups/:id/complete` | `CompleteFind`, `CompleteTx` |
| `PUT /api/pickups/:id/cancel` | `CancelUpdate`, `CancelFind` |
| `POST /api/payments` | `CreatePaymentValidate`, `CreatePaymentFind`, `CreatePaymentInsert` |
| `PUT /api/payments/:id/confirm` | `ConfirmFind`, `ConfirmUpload`, `ConfirmUpdate`, `ConfirmCleanUp` |
| `POST`, `DELETE /api/households` | `CreateHousehold`, `DeleteHousehold` (one statement each, so they need no slot) |
| worker | `FindExpiredOrganic`, `BulkCancel`, `CycleFails` |
| environment | `Age` (time passes), `Crash`, `PickupStatementFails`, `PaymentStatementFails` |

The validator of `POST /api/payments` issues two queries; they are one action because the
second answer alone cannot mislead: the pickup is looked up again by the next statement,
and the household is compared with that row.

`CompleteTx` is BEGIN, UPDATE, INSERT, COMMIT in one action, and `DeleteHousehold` one
statement with its cascade. That nothing is lost by this grain is what `Transactions` is
for.

### Transactions

The transaction of Complete, the INSERT of `POST /api/payments`, the cascading DELETE and
the worker's UPDATE of many rows, taken lock by lock. The tables are the *committed* rows.

| Variable | In the program |
|---|---|
| `tx[s]` | what session `s` does next: wait for a connection (`begin`), `update`, `insert`, `keys`, `delete`, `cascade`, `sweep`, `commit`; with the payment or rows it works on |
| `locks[s]` | row locks (`keyShare` for a foreign key, `noKeyUpdate` for a status, `update` for a DELETE) and uncommitted entries of the two unique indexes on `payments` |
| `canceled` | sessions whose client has gone, or whose timeout expired |

`Connect` needs one of `MaxOpenConns` connections. `CompleteUpdate`, `InsertEntries`,
`InsertKeys`, `DeleteRow`, `CascadeRow` and `SweepRow` each wait until the locks they want
conflict with nobody's, re-check the committed row, and either go on or roll back. Multi-row
statements visit rows in any order, since no ORDER BY fixes one. `Commit` writes the tables
and releases everything; `Interrupt` is the driver canceling a statement whose context is
done; in a transaction that is the context of `BeginTxx`, so it reaches the INSERT of
`CreateWithTx` too, which is given none of its own. `DeadlockVictim` is PostgreSQL's
detector, for a minimal circle of waiting sessions. `SingleStatement` stands
for the statements that lock one row and commit at once: they wait while holding nothing,
so they are one step taken when the row is free.

Two simplifications. An INSERT that meets a payment a DELETE is about to remove reports
the conflict at once instead of waiting for the DELETE to commit; it ends without a payment
either way, since with the payment gone its pickup is gone too. And every pickup created here
has had its safety check: BR-03 is decided by `ScheduleFind`, which locks nothing, and is
`WasteCollection`'s matter.

### Readers

The requests that only read, amid writers that take any step of `CollectionContract`.
Since `WasteCollection` and `Transactions` implement the contract, what is shown here holds
with either as the writers.

| Variable | In the program |
|---|---|
| `created` | the order of `created_at` among the rows of a table; a row may come in with an older one than rows already there, because `NOW()` is when its transaction began |
| `reader` | one client: walking through a list (`count`, `select`, per page), reading a history (`todo`: its three concurrent SELECTs), or the two summaries one after the other; with what it was told |
| `during` | history: what writers did since it started, as far as the properties tell it apart: rows that came and went for a walk, what the household had at the start and whether it left for a history, whether any household left for the summaries |

`TotalPages` is the reply's arithmetic; `OnPage` is LIMIT and OFFSET. The filters by
household and status are modelled, the date range of payments is not. A history needs only
that some statement of the three may run before or after any write.

### Shutdown

| Variable | In the program |
|---|---|
| `main` | where `main()` is: serving, or which step of `gracefulShutdown` comes next |
| `late` | which of `WorkerShutdownTimeout` and `HTTPShutdownTimeout` has expired |
| `active`, `worker` | requests in their handlers; where the canceler's loop is |
| `stmt[a]` | whether a request or the worker waits for a connection or has one |
| `dropped`, `cut` | history: requests lost to the closed pool or the exit; a cycle of the worker ended after it had selected pickups |

Requests arrive until the listener closes, hence also while the worker is drained. `select`
may take either ready case, in the worker as in `gracefulShutdown`. `db.Close` refuses
statements that wait for a connection and does not wait for those that have one. What
statements do to tables does not matter here.

### The rate limiter

| Variable | In `internal/middleware/ratelimit.go` |
|---|---|
| `limiters` | the `sync.Map`: each address has a limiter or `None` |
| `tokens` | the bucket inside each `ipLimiter` |
| `stale` | limiters whose `lastSeenNano` lies before the cutoff a sweep starting now would use |
| `rq[r]` | a request: its step and the locals `ip`, `l`, `loaded` |
| `sweep` | keys Range has yet to reach, the key it is about to delete, `removed` |
| `gauge` | `RateLimitActiveClients` |
| `excess` | history: grants since the client was last idle, less the tokens regained |

A request is `Load` or `Store` (the two outcomes of LoadOrStore), `Touch`, `Count` if it
stored, `Allow`. A sweep is `SweepStart`, `SweepVisit` for each key in any order,
`SweepDelete` for an expired one, `SweepEnd`. Range promises no snapshot; keys stored while
it runs may be left out here, since they are too young to expire in that sweep.
The comparison and the deletion are separate steps, and so is everything the code does not
do atomically.

Time appears as two of its effects. `Refill` gives a bucket a token back, at any moment; how many
per second does not matter to properties that subtract what was refilled. `FallIdle` lets
`evictThreshold` pass since a client's last request. Whether the bucket is full again by
then depends on the configured rate and burst, so nothing is said of it. It assumes that requests are short
compared with 30 minutes, with two exceptions it must not exclude: the request that ends the
idle period may already hold the limiter, and a sweep that already runs keeps its earlier
cutoff. Limiters nobody refers to are garbage and may be allocated again.

### Why one statement is one step

The pool uses autocommit at READ COMMITTED. An UPDATE that meets a row locked by another
session waits, then re-evaluates its WHERE clause on the newest committed version. An
INSERT waits for a competing entry of a unique index and takes key locks on the rows its
foreign keys name. So each statement takes effect at one instant against committed data,
except for statements over several rows. `BulkCancel` is one of these: rows it updates are
re-checked one by one, and since its WHERE clause looks at each row alone the result is
that of some instant per row; the model uses one instant for all of them. A DELETE of a household removes
rows of three tables, and another session sees all of them gone or none. `Transactions`
drops the assumption for everything that holds a lock while it waits: there the same
operators of `Database` are applied at commit, to rows the locks have kept as they were, and the same
contract is implemented.

### Failures

`Faults` switches them on per instance:

- `dbError`: a statement fails and has no effect (connection refused, timeout).
- `s3Error`: an S3 call fails and has no effect.
- `lostReply`: a call takes effect and its caller sees an error. For a database this is a
  connection that breaks after COMMIT, for S3 a timeout after the object was stored.
- `crash`: the process dies; requests in flight and the worker's cycle vanish.

A retry is a new request: any client may send any request at any time. The organic
canceler retries by selecting again at its next tick.

### The contract

`CollectionContract` says what the system promises about its three tables, with each
business operation a single step: a pickup is asked for, planned, collected together with
its bill, canceled; a payment is paid together with its proof; a household leaves with
everything it has. It knows nothing of requests, statements, keys issued, the worker or
failures. Two specifications of different grain are shown to implement it, statement by
statement (`WasteCollection`) and lock by lock (`Transactions`); a third, `Readers`, builds
on it. The refinement mapping (`Contract` in `BusinessRules.tla`) takes the tables for the
contract's and forgets the rest: keys issued, requests, locks, the bucket.

Two documented rules are deliberately *not* in the contract, because the code does not
keep them between its statements: BR-01, and "pending" in BR-04 (section 4). Billing a
pickup that is not completed is in it (`BillOnly`), because `POST /api/payments` does it.

## 3. Runs and what they show

Each run asks one question. Deadlock is checked where the system cannot stop by itself; a
process that has exited may, and so may sessions that nobody gives a new request
because every key has been used. Keys, dates and slots are
interchangeable model values that no operator orders or chooses among, so `Symmetry`
permutes them; no run that uses it checks a liveness property.

| Run | Instance | Question |
|---|---|---|
| `pickups` | 1 household, 2 electronic pickups, 2 payments, 2 uploads, 3 slots | Do foreign keys, billing rules and BR-03 survive three requests, the worker and deletions? Do bucket and table agree after competing confirmations? Is a pickup billed early blocked for good? |
| `faults` | 2 households, 1 organic pickup, 1 payment, 2 uploads, 2 dates, 2 slots, every failure | Is completion atomic, does an acknowledged reply stay true, is each payment made out to the right household, is every step a step of the contract, and what becomes of objects left behind? Is the inductive invariant of the proofs an invariant at all? |
| `canceler` | 2 pickups, 1 payment, **1** slot, failing cycles, crashes | Is an expired pickup ever forgotten? Does BR-01 hold when requests do not overlap? |
| `transactions` | 3 sessions, 2 connections, 2 pickups, 1 payment | Do locks keep what a transaction checked? Who can deadlock? Is every commit one operation of the contract? |
| `transactions_end` | 3 sessions, 2 connections, 1 pickup, no confirmations | Does every transaction end and return its connection? |
| `shutdown` | 3 requests, the worker, 2 connections | Is anything lost, or under way when the pool closes, unless a timeout expired? Does the process exit? |
| `readers` | 3 electronic pickups, 1 payment, pages of 1 and 2 | What can a walk, a history or a pair of summaries get wrong? |
| `limiter` | 2 addresses, 2 requests, 2 limiters, burst 2 | Does the gauge follow the map? What does an eviction cost at most? Does every silent client leave? |
| `gate_race` | 2 slots | *Violated:* BR-01 under concurrency |
| `sweep_race` | 1 slot and the worker | *Violated:* the worker cancels only what nobody scheduled |
| `lost_confirm` | 1 slot, lost replies | *Violated:* a paid payment's proof is stored |
| `shutdown_drain` | 1 request, the worker | *Violated:* a clean shutdown drops no background job |

Bounds. In this code a race is between two requests, or a request and the worker, or a
request and a deletion, because each handler holds at most one fact over at most one
statement boundary; `pickups` has a third slot all the same. Two pickups of
one household are what the index on pending payments needs to bite; two households are
what a wrong household needs. A key is never issued twice, so an instance also bounds the
length of its histories: at most that many rows are ever created. Prices are told apart by
the waste types of the proofs, each run having one type. Three
sessions and two pickups allow a circle of three; two connections make a session wait for
the pool while another waits for a lock. Three pickups make a walk of up to three pages. The proofs
remove these bounds for every property but the four liveness properties. For the limiter, two
requests let one hold a deleted bucket while the other uses its successor, and two addresses
let one sweep remove several entries or meet a first request of another address. With two
limiters an address that draws on two leaves none to the other meanwhile; its state is then
only that of an address nobody has asked for. (Three limiters, burst 2 and no liveness pass too.)

The properties of `BusinessRules.tla` and `WasteCollection.tla`:

- `ReferentialIntegrity`, `PaymentMatchesPickup`, `BilledOnce`, `CompletedHasPayment`,
  `ElectronicIsSafe`: relations between tables that no single statement establishes.
- `AckedRepliesHold`: two schedulers of one pickup are never both told that their date
  stands; a cancellation answered 200 is not overtaken by a completion; and so on.
- `PaidProofStored`, `NoStrayObject`: the bucket and the table agree. The second names
  its exception: deleting a household leaves the proofs of its payments in the bucket.
- `StrayObjectsStayStray`: under every failure, an object left behind is out of the game.
  No retry overwrites it, becomes its owner, or removes it; what leaks, leaks for good.
- `EarlyBillBlocksCompletion`: a consequence of `UNIQUE(waste_id)` a client may not
  expect: after `POST /api/payments` for a scheduled pickup, completing it always answers 409.
- `NoPickupWhilePaymentPending`: BR-01, true serially, false concurrently.
- `ExpiredIsHandled`: liveness, BR-04. A pickup that expired while pending is scheduled,
  canceled or deleted in the end.

Those of `Transactions.tla`:

- `ChecksStillHold`: between a check and the COMMIT that relies on it, nobody else changes
  the answer: the pickup stays scheduled, no other claim to the payment appears, the rows a
  foreign key names stay, the rows a sweep took stay cancellable.
- `DeadlockNeedsDelete`: a circle of sessions waiting for one another always contains a
  DELETE of a household at its cascade. It depends on there being one worker: two sweeps
  deadlock with each other (that is its mutant). `main.go` starts one; nothing is
  said of two processes that share a database.
- `TransactionsEnd`: liveness. No transaction waits for ever, and none keeps its connection.

Those of `Readers.tla`:

- `WalkIsComplete`: pages are cut by OFFSET, so rows that leave shift others past the
  reader. The property bounds the damage: rows missed by those that left or came in after
  the last COUNT, rows repeated by those that came in.
- `HistoryIsConsistent`: three reads without a snapshot may show a payment without its
  pickup, or a completed pickup without its payment. Whatever does so was asked for, or
  completed, while the history was read, and still is there; only the deletion of the
  household takes more away. And its verdict, found or not found, was right at some moment.
- `SummariesAgree`: read waste first and payments after it, and every completed pickup is
  accounted for. (In the other order it would not be so.)

Those of `Shutdown.tla`:

- `RequestsAreDrained`, `PoolClosesIdle`: each names the one timeout that excuses it.
- `ShutdownEnds`: liveness, with handlers, statements, scrapes and the worker free to hang.

Those of `RateLimiter.tla`:

- `GaugeFollowsMap`: says exactly by how much gauge and map may differ, and when. Two first
  requests of one address, or a sweep amid them, must not make the gauge drift.
- `AtMostTwiceTheBurst`: the price of an eviction under a returning client. The bound is
  tight: the instance reaches `2 * Burst`.
- `IdleClientsLeave`: liveness of the sweep.

Fairness. `FairSpec` of `WasteCollection` is weak fairness of the worker's select (its ticker
fires as long as the process lives, and the process is restarted) and strong fairness of its
update: a cycle may fail or die between the two any number of times, but not every time.
The code does its part: errors are logged, panics recovered, and the next tick selects
afresh. That the database comes back is an assumption on the environment, and so is that
the process is restarted. Requests and the passing of time get no fairness. `FairSpec` of
`RateLimiter` is weak fairness of the sweeper's steps, a goroutine that only waits for its
ticker. `FairTxSpec` is strong fairness of each session's own progress, and
weak fairness of the deadlock detector. Strong, because what a session waits for may be
taken and returned any number of times, yet it is not passed over for ever: PostgreSQL lets
the sessions queue for a lock, and database/sql hands a connection that comes back to one of
those that wait for one, before anybody new. It picks that one at random, not in the order
of arrival, so here the assumption is one of probability. Nothing is assumed of clients giving up or of statements
failing. `FairSpec` of `Shutdown` assumes that the clocks run and that `main()` goes on
when nothing holds it or its deadline is over; nothing of requests, statements, the exporter
or the worker.

## 4. Where code and documents disagree

Runs that end in a counterexample, with the shortest story each:

1. `gate_race`. Create asks for pending payments, a concurrent `POST /api/payments` or
   completion commits one, Create inserts its pickup. `docs/architecture.md:251` claims
   enforcement "at both the service layer and the DB" and line 267 an advisory lock;
   neither is in the code. `OnlyTheGateRace` shows that this is the only way: in a
   behaviour without it, BR-01 holds under every failure.
2. `sweep_race`. The worker selects an expired pending pickup, an operator schedules it,
   `BulkCancel` accepts `scheduled` too and cancels it. Again nothing else does it
   (`OnlyTheSweepRace`).
3. `lost_confirm`. The UPDATE that marks the payment paid commits, the connection breaks
   before its reply arrives, and the cleanup deletes the proof that row now names. (If it is
   the client that has gone, the cleanup shares the canceled context and deletes nothing.)
   It is a corner of failure handling: without lost replies `PaidProofStored` holds
   (`ProofsKept`).
4. `shutdown_drain`. SIGTERM arrives when the worker has selected its pickups. `workerCancel`
   cancels the context `BulkCancel` would run under, so the cycle ends there, though no
   timeout expired. `docs/deployment.md:71` says that no background job is dropped, and
   `docs/architecture.md:510` that the worker drains its current cycle. The pickups
   wait for the next process, so nothing is lost for good. Requests are drained
   as the documents say (`RequestsAreDrained`), and a shutdown that meets no such cycle
   does what the guide says (`OnlyOpenCyclesAreCut`).

Noted while reading, without a run because they are about wording or numbers the model
leaves out, or follow at once from reading the code:

- `docs/architecture.md:475` says "there can be at most one pending pickup per household";
  no migration creates such an index, and Create looks at payments only.
- `README.md:19` gives the lifecycle (BR-02) without the transition pending → canceled, which both
  cancel paths make.
- `paymentService.Create` compares households and never looks at the pickup's status;
  `internal/domain/payment.go:24` speaks of "a completed waste pickup". The contract has it
  as `BillOnly`, its consequence is `EarlyBillBlocksCompletion`.
- `internal/middleware/ratelimit.go:40`: an address that returns just as the sweeper has found its
  entry expired draws on the entry about to be deleted and then on a new one. The damage is
  bounded by `AtMostTwiceTheBurst`.
- `docs/architecture.md` says the HTTP server is part of the WaitGroup; only the worker is.
  It is `e.Shutdown` that waits for handlers.
- A page number near the largest integer makes `(page-1)*perPage` wrap to a negative
  OFFSET; PostgreSQL refuses it and the reply is 500 instead of an empty page.
- `config.go:112` explains that a cutoff below one day means "BR-04 would never trigger";
  it would trigger at once.
- A missing proof (BR-06) is answered as a validation error, status 400, where documents
  speak of a business rule error, 422; a failed upload is answered 500.
- `OrganicCancelsTotal` counts the ids handed to `BulkCancel`, not the rows it changed.
- A cancellation whose household is deleted before the row is read back is answered 404
  although it took place.

## 5. Proofs

Checked by TLAPS, for **any** sets of households, pickups, payments, proofs, dates and
request slots, and any subset of failures. The assumptions are the ones the modules
declare: requests ask for waste types that exist (`TypesAssumption`), `NoRow` is not a row
(`NoRowAssumption`), `Null` is neither a date nor a key (`NullAssumption`), failures are of
the four kinds (`FaultsAssumption`), the pool has at least one connection
(`PoolAssumption`, `ShutdownAssumption`). Sets may be infinite, except where something is
counted: `Readers` takes the keys of each table to be finitely many and of one table only
(`FiniteAssumption`, `KeysAssumption`), as UUIDs are, and pages to hold a row
(`ReadersAssumption`; `paginationParams` refuses any other `per_page`).

| Theorem | Module | Establishes |
|---|---|---|
| `TypeCorrect` | `WasteCollectionSafety` | `[]TypeOK` |
| `InvAlways` | `WasteCollectionSafety` | `[]IInv`, the inductive invariant |
| `ReferencesIntact`, `BillsMatch`, `BillingUnique`, `CompletionIsBilled`, `ElectronicChecked`, `RepliesHold` | `WasteCollectionSafety` | `[]` of the invariant of the same subject |
| `EarlyBillIsFinal` | `WasteCollectionSafety` | `EarlyBillBlocksCompletion` |
| `OnlyTheGateRace`, `OneRequestKeepsTheGate` | `WasteCollectionSafety` | `NoPickupWhilePaymentPending`, unless the race of `gate_race` happens; hence always, when requests come one at a time |
| `OnlyTheSweepRace` | `WasteCollectionSafety` | `CancelerSparesScheduled`, unless the race of `sweep_race` happens |
| `Implementation` | `WasteCollectionSafety` | every behaviour of `Spec` is one of the contract |
| `ProofsKept` | `ProofObjectSafety` | `[]PaidProofStored`, when no reply is lost |
| `NothingStray` | `ProofObjectSafety` | `[]NoStrayObject`, when statements may fail but nothing else does |
| `StrayForEver` | `ProofObjectSafety` | `StrayObjectsStayStray`, under every failure |
| `TxTypes` | `TransactionsProofs` | `[]TxTypeOK` |
| `ChecksHold` | `TransactionsProofs` | `[]ChecksStillHold` |
| `OnlyDeletesDeadlock` | `TransactionsProofs` | `[]DeadlockNeedsDelete` |
| `TransactionsImplement` | `TransactionsProofs` | every behaviour of `TxSpec` is one of the contract |
| `HistoryFits` | `ReadersProofs` | `[]HistoryIsConsistent` |
| `SummariesFit` | `ReadersProofs` | `[]SummariesAgree` |
| `WalksAreComplete` | `ListProofs` | `[]WalkIsComplete` |
| `ShutdownTypes` | `ShutdownProofs` | `[]TypeOK` of the shutdown |
| `RequestsDrained` | `ShutdownProofs` | `[]RequestsAreDrained` |
| `NothingUnderWayAtClose` | `ShutdownProofs` | `[]PoolClosesIdle` |
| `OnlyOpenCyclesAreCut` | `ShutdownProofs` | `[]DrainsInFlightWork`, unless the shutdown meets an open cycle |
| `LimiterTypes` | `RateLimiterProofs` | `[]TypeOK` of the limiter: no bucket is overdrawn |
| `GaugeExact` | `RateLimiterProofs` | `[]GaugeFollowsMap` |
| `BurstBound` | `RateLimiterProofs` | `[]AtMostTwiceTheBurst` |

None of the safety invariants is inductive alone. A request in `complete.tx` carries a
bill it made from a row read earlier, so an invariant of the tables only survives its step
if something is known of that bill. And that knowledge must survive every step of
everybody else. `IInv` has four parts:

- `TypeOK`;
- `TablesInv`: the table invariants, plus `KeysIssued` (a row's key was issued, so an
  INSERT never replaces a row) and `NoFailedPayment` (nobody writes the third status);
- `RequestsInv`: what each request in flight `Remembers`: a bill fits its pickup *if the
  pickup still exists*, a pickup about to be scheduled passed BR-03, a pickup about to be
  reported canceled is canceled, an upload belongs to its payment;
- `AcksInv`: each acknowledged fact holds of an issued key.

The proof goes in three layers.

1. `StepEffect`: whatever a step is, what it does to the tables is one of eight effects
   (insert, schedule, bill, complete, cancel, pay, join or leave, none). This is the only
   place where handlers and tables meet. The effects themselves, and layer 2, are in
   `DatabaseProofs`, for both specifications that issue statements.
2. `EffectTables`, `EffectKeepsRows`: each effect keeps `TablesInv`, and satisfies
   `RowsKept`: no issued key comes back once its row is gone, the household, type and
   safety check of a row never change, a final status stays. `CompletedHasPayment` under
   deletion needs `PaymentMatchesPickup`: otherwise a bill could go with a household that
   is not its pickup's.
3. `RemembersStays`, `AckStays`: under `RowsKept`, what was true of a row that still
   exists is still true. So stale reads do no harm here, for a reason: the columns
   decisions use are immutable, and the mutable one, the status, is re-checked by
   every UPDATE. BR-01 is the check with no such UPDATE behind it, and it fails.

`Implementation` reuses layer 1: `EffectIsContractStep` maps each effect to one action of
the contract.

`ProofsKept` and `NothingStray` each name the failures they exclude, because they are
false with them: `lost_confirm` refutes the first, and a crash between upload and UPDATE
leaves an object behind. Their invariants, `KeysInv` and `OwnersInv`, say that an upload's key
is fresh and owned: by the request that holds it, until its UPDATE hands it over to the
payment. The loser of two confirmations therefore deletes a key nobody else names, and no
later upload meets the key of an object left behind (`StrayForEver`, under every failure).

The limiter's theorems assume a positive burst (`BurstAssumption`, which the configuration
validates) and that `None` is neither an address nor a limiter (`NoneAssumption`). `GaugeInv` adds to the
gauge's equation that only the request that stored increments and that the key about to be
deleted is in the map; then each step changes both sides alike. `BurstInv` says that nobody
shares a bucket, that a client draws on at most two at once and has no more left in them than its
allowance, and, the key point, that a client the sweeper may delete (`Condemned`) is
`Thrifty`: it has had one bucket only since it was idle. So two evictions never add up.

`Transactions`. `TxInv` is `TxTypeOK` and `TablesInv`, `Exclusive` (no two sessions hold
locks that exclude each other), `OneSweeper`, and for each session: what it has locked by how
far it has come (`HoldsLocks`), that the payment it carries is right for its pickup
(`Carries`), and what it found (`Knows`). The core is that a step which changes a committed
row has a lock on it, or finds it free, and so `Spares` whoever relies on that row: a status
change takes `noKeyUpdate`, a deletion `update`, an insertion its index entries.
`ChecksHold` follows at once, and so does the refinement: what a commit does is one of the
effects of `DatabaseProofs`, with a bill that still fits. `OnlyDeletesDeadlock`: without a
cascading DELETE in the circle, an INSERT waits only for one that is past its own entries
and checks its foreign keys, and that one waits for DELETE only, so neither is in the
circle; what is left are sweeps, and there is one (`OneSweeper`: one process, one worker).

`OnlyTheGateRace` and `OnlyTheSweepRace` say of a rule the code breaks when it does hold.
`GateRace` is a state: one request has passed the gate for a household and another is
about to bill it. While no such state occurs, `GateInv` is inductive on top of `IInv`: who
has passed the gate still has no pending payment, because only those two statements
make one. `SweepInv` is the same for what a cycle has selected. With one request at a time
a `GateRace` is impossible, which leaves the theorem the `canceler` run checks.

`Readers`. `TablesFit` (payments fit their pickups, completed pickups are billed) is shown
of the contract itself; `HistoryInv` says that what each SELECT of a history returned
lies between what the household had at the start and what it has now
(`BetweenStartAndNow`), as long as it stays: a pickup is not taken away, nor its completion
undone (`HouseholdKeepsPickups`). So of the two reads that should fit, the later one
covers the earlier, except for what is newer than the start.

`SummariesAgree` compares sums. `MapThenSumSet` is a fold, whose recursion the prover cannot
unfold, so `ReadersProofs` brings its own definition: `SumsOf(g, f, S)` says that `g` gives
the sum of `f` over every subset of `S`, and `SumsExist`, `SumOfUnion` and `RecursionIsSum`
(the fold computes that sum) are proved by `FiniteInduction`, an induction on finite sets
stated with a set of sets instead of an operator. The argument itself: a payment has
the price of its pickup's type (`PricesFit`), so the bills of the completed pickups sum to what
these cost (`BillsCoverDue`) and the revenue is no less; and completed pickups stay while
no household leaves (`CompletedStays`), so that what the first report counted is still there
for the second.

`WalkIsComplete` counts rows that cross an offset. `FirstCount`: there are always
`min(m, rows)` rows before offset `m`, so when the result changes, no more rows cross `m`
towards the front than left it (`Crossing`, and the same turned round for those that come
in). `WalkInv` therefore counts, for the offset the client has come to, the rows that were
there all the time and crossed it untold (`Missed`, at most those that left) and the rows that
were told and are now behind it again (`Again`, with those repeated already at most those
that came in). A page moves the offset and never adds to either. After the last page
(`LastPage`) only rows beyond the total of its COUNT are left, and these came in since.

`Shutdown`. `StagesWereWaitedFor` says that past a stage left without its timeout, what the
stage waited for is gone, and nothing starts it again; `StatementsHaveOwners` that only
what is running has a statement. `OnlyOpenCyclesAreCut` adds that a cycle is cut only when
the shutdown meets it between its two statements, or in the second (`CycleIsOpen`).

Checked by TLC only: the four liveness properties (`ExpiredIsHandled`, `TransactionsEnd`,
`ShutdownEnds`, `IdleClientsLeave`), which depend on fairness and ENABLED, beyond the
prover; and the counterexamples. Every safety property a run checks has its theorem.

## 6. Plan

Done, in this order: the three tables under concurrent requests and failures
(`WasteDomain` to `WasteCollection`); `CollectionContract` and the refinement; type
correctness, inductive invariant, safety theorems; the bucket; the limiter and its theorems;
`Transactions`, its refinement and theorems; objects that leak; `Shutdown`; `Readers`; the
conditions under which the broken rules hold; sums, and walks through lists.

Left:

1. Ties of `created_at` between pages.
2. Start-up: migrations, bucket creation, a listener that cannot bind.

## 7. Not modelled, and why

- Configuration, logging, metrics export, tracing: set once or only written;
  no decision of the program depends on them later. What the configuration refuses is an
  assumption on constants (`BurstAssumption`, `PoolAssumption`).
- Start-up: every failure before serving exits the process, except a listener that cannot
  bind, which is logged.
- Readiness probes, request ids, panics recovered by the middleware: a recovered panic is a
  request that ends in 500, like a failed statement.
- `cmd/route-extract`: a build-time tool.
- Proof file inspection (MIME type, size): one input, a proof or none.
- SQL text, JSON, HTTP formats: a request is its parsed parameters; the validators'
  format rules only ever refuse.
- PostgreSQL and S3 themselves: modelled from how the repositories and the storage client
  use them. Serialization failures do not occur at READ COMMITTED.

## 8. Running

```
tlc -workers 2 -config MCPickups.cfg MCWasteCollection.tla
tlc -workers 2 -config MCFaults.cfg MCWasteCollectionSafety.tla
tlc -workers 2 -config MCTransactions.cfg MCTransactions.tla
tlc -workers 2 -config MCReaders.cfg MCReaders.tla
tlc -workers 2 -config MCShutdown.cfg MCShutdown.tla
tlc -workers 2 -config MCLimiter.cfg MCRateLimiter.tla
tlapm WasteCollectionSafety.tla
tlapm TransactionsProofs.tla
```

and so on for the other configurations and `*Proofs` modules. The longest runs, `readers`
(1.4 million distinct states), `limiter`, `transactions` and `transactions_end`, take two to
three minutes. Next to some operators stands a
variant marked "mutant": a plausible mistake in that code (a dropped WHERE condition, a
missing rollback). Substituting it for the original breaks the property `PROJECT.json`
pairs it with, which shows that the property depends on that line of the code.
