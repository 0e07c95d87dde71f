# PayRecon in TLA+

Specifications of the payment-reconciliation system of this repository: a mock
payment gateway posts webhooks to an ingestion service, which publishes them on a
Redis stream; a fleet of reconciliation workers judges each payment against its
order, moves the order, books a double-entry ledger and retries what fails; bank
settlement files later confirm what was booked. Paths below are relative to the
repository.

The modules model every `await` as a step of its own. This is where Node gives up
the event loop and where a call to Redis or Postgres can fail, so it is where two
handlers, two workers or two processes can interleave.

## 1. Inventory

| Component | Code | State it keeps | Operations | What makes it correct |
|---|---|---|---|---|
| Stream consumer | `services/reconciliation-worker/src/consumer/stream-consumer.ts` | consumer group (position, pending entries), batch in memory | loop, `handleMessage`, `handleFailure`, `promoteDueRetries`, start, stop | no event dropped, every entry acked, every event concluded |
| Distributed lock | `.../lib/redis-lock.ts` | one Redis key per event, with a TTL | `acquire`, `release` | one worker per event; a late release harms nobody |
| Retry schedule | `.../lib/retry-schedule.ts` | Redis sorted set | `schedule`, `pullDue` | a scheduled event is published again |
| Runner | `.../services/reconciliation-runner.service.ts` | none of its own: writes orders, payment events, mismatches, ledger | `run`, `resolveOrder` | a verdict is backed by the rows it implies; one booking per payment, per order one for each worker at most |
| `reconcile()` | `.../services/reconciliation.service.ts` | none (pure) | the verdict, its mismatches, the status update | the ledger agrees with the order over any sequence of verdicts |
| Ledger booking | `.../services/ledger.service.ts`, `.../repositories/ledger.repository.ts` | debit/credit pairs | one transaction with the verdict | a pair per moved order |
| Webhook intake | `services/ingestion/src/services/webhook.service.ts`, `idempotency.service.ts`, `packages/shared/src/queue/stream-producer.ts` | idempotency key, payment event row, stream entry | `processWebhook` | published once; what is published is stored; a 200 is a promise |
| Mock gateway | `services/mock-gateway/src/services/*.ts` | timers and sends in memory | simulate, send, retry, duplicate, shutdown | every simulated payment is delivered |
| Settlement | `services/ingestion/src/services/settlement*.ts` | batches, records, ledger pairs' settlement status | `processUpload`, `matchSettlementRecord` | a file is processed once; a settled pair was confirmed |
| Ledger API | `services/ingestion/src/services/ledger.service.ts` | none: reads `ledger_entries` | trial balance, listing | the books net to zero and follow the orders |
| Orders API | `services/ingestion/src/services/order.service.ts` | orders | create (get and list only read) | - |
| Dashboard | `services/dashboard/src/api/hooks.ts`, `pages/Orders.tsx` | a query cache: the orders as last fetched, requests in flight | poll, create an order, trigger a payment | the cache never goes back; what was paid appears while it is listed; a second press on a stale page costs nothing |
| Stats API | `services/ingestion/src/services/stats.service.ts` | none | read-only | - |
| Shared library, database schema, deployment | `packages/*`, `docker-compose.yml` | tables and their unique constraints | - | - |

How they interact: gateway -> ingestion over HTTP (lost, repeated, answered late);
ingestion -> worker over the stream (redelivered, never re-claimed); workers with
each other through the locks, the retry set and the rows of Postgres; settlement
with the worker and the intake through `payment_events` and `ledger_entries` only;
the dashboard with ingestion and the gateway by polling and by two POSTs, which it
sends from what its cache shows.
Nothing calls the worker back, and no transaction spans two of these stores. The
one Postgres transaction of the pipeline holds the ledger pair and the verdict.

The hard behaviours, each listed in `PROJECT.json` under `hazards` at the line
where it bites: interleaved workers on one event or one order, locks that expire,
calls that take effect and lose their reply, failures between two writes that
belong together, crashes with a batch in memory, retries racing their own
scheduler, keys that expire before the duplicate arrives, two uploads of one file,
settlement overtaking the worker, and a page that shows what no longer holds.

## 2. Modules

| Module | Kind | Models |
|---|---|---|
| `Reconciliation` | operators | `reconcile()` |
| `Ledger` | operators | `createLedgerEntries` of the worker, `getBalance` of ingestion |
| `ReconciliationWorker` | component | consumer, lock, retry schedule, runner, and their Postgres and Redis state |
| `SerialReconciliation` | abstract specification | reconciliation as one atomic step per event |
| `SerialWorker` | refinement | the mapping from the worker to `SerialReconciliation` |
| `PaymentDelivery` | abstract specification | what the webhook path promises: stored once, published only when stored |
| `WebhookIntake` | component, refinement | gateway, idempotency key, `processWebhook`, orders; implements `PaymentDelivery` |
| `Settlement` | component | `processUpload`, next to ingestion and the worker |
| `Dashboard` | component | the Orders page: its cache, its form and its buttons |
| `PayRecon` | composition | `PaymentDelivery`, `SerialReconciliation`, `Settlement` and `Dashboard` over one database |
| `MC...` | instances | payments, files and rows for TLC |
| `ReconciliationWorkerProofs`, `OrderProofs`, `PelProofs` | proofs | theorems about the worker: locks, verdicts and bookings; orders; stream entries and stranded events |
| `SerialProofs`, `SerialWorkerProofs` | proofs | the books and the trial balance of the atomic specification; that the worker implements it, keeps those books, and what it takes to part an order from them |
| `WebhookIntakeProofs`, `SettlementProofs` | proofs | theorems about the intake and about settlement |
| `PayReconProofs` | proofs | theorems about the composition |

    WebhookIntake --implements--> PaymentDelivery ---------+
    ReconciliationWorker --implements--> SerialReconciliation +--> PayRecon
                     (SerialWorker)       Settlement, Dashboard +

`PROJECT.json` maps each definition to its lines. Operators named `Wrong...`,
`Optimistic...` and `Impatient...` are mutated forms of the definition after them,
kept as evidence that a property does notice that bug; no specification uses them.

### ReconciliationWorker

`pc[w]` is the `await` worker `w` stands at, and `job[w]` what its handler keeps
across awaits: the rest of the batch (an interval of stream ids), whether the row
it read already had its order, the order status it read, and the attempt count.
The action of a label performs the call and everything up to the next await:

| Code | Actions |
|---|---|
| `loop()` | `Read`; its `catch` is `Throws` with label `read` |
| `handleMessage()` | `Acquire`, `Skip` (lock taken: ack and drop), `Ack`, `Release` |
| `run()`, `resolveOrder()` | `Find`, `Resolve`, `Attach`, `RecordMismatches`, `UpdateStatus`, `Book` or `MarkProcessed` |
| `handleFailure()` | `IncrementAttempts`, `AckFailed`, then `DeadLetter`, `MarkDeadLettered` or `MarkFailed`, `ScheduleRetry` |
| `promoteDueRetries()` | `PullDue` (ZRANGEBYSCORE), `RemoveDue` (ZREM), `Republish` (one XADD each) |
| process | `Crash`, `Stop`, `PromotionThrows` (unhandled rejection), `Restart` |
| environment | `Store` and `Publish` (the intake's upsert and XADD, two awaits), `CreateOrder`, `Expire` (the lock's TTL) |

Every call may end in three ways: it returns (`Returns`), it is rejected without
effect (`Rejected`), or it takes effect and its reply is lost (the second disjunct
of `Returns`). The last is real because the Redis client gives up after a bounded
number of resends (`packages/shared/src/redis/client.ts`) and a Postgres connection
can drop after the commit. `OnThrow` says where the exception lands.

Abstractions, and why they are sound. The lock token is the worker's id: a worker
handles one message at a time and never releases an old token later, so a fresh
UUID per acquisition tells nothing more apart. Stream ids are indices. Mismatch rows
are a set of reasons, so repeated rows of one reason are not told apart. A booking
counts ledger transactions, each of which writes one balanced pair. `processedAt`
and `lastError` are left out. When a retry is due is left open, so any back-off is
covered. At most one promotion per worker is in flight; two workers cover the
overlap of two pollers. The runner's "event not found" is left out because the
intake publishes only after storing and no code deletes rows (`PublishedIsStored`
checks the first half).

### SerialReconciliation and SerialWorker

The abstract specification judges an event, moves its order, books and records the
verdict in one step, and may at any time record a failure instead. Its only
concession to the real worker is that the order may be seen as it was just before
its creation. `Bookable` is the set of numbers of pairs an event may have: `Nat` for
the specification, an interval where TLC has to stop. `Entries` are the ledger rows
its bookings have written, by
`Ledger!CreateLedgerEntries`; `BalanceFollowsOrders` says what the trial balance
(`Ledger!GetBalance`) makes of them. `SerialWorker` maps the worker onto it: between the status write and
the commit of the ledger transaction the order still counts as it was read. It also
states what the refinement needs of a behaviour: `OneRunPerOrder`, no order is judged
by two workers at a time, and `KeepsWhole`, no step parts a status write from its
booking.

### WebhookIntake

A `send` is one call of `WebhookSenderService.send`: the timer, up to `MaxAttempts`
POSTs with back-off between them, and its result; `deliver()` may follow the first
with a duplicate. Each POST has a handler of its own, at one of the awaits of
`processWebhook` (`Mark`, `Existing`, `Lookup`, `Upsert`, `Publish`), which runs on
when the gateway has given up on the connection. `Fails` is a rejected call,
`Crash` the death of ingestion with all its handlers, `Shutdown` and `Restart` the
end of the gateway, whose timers exist only in memory. `row` keeps which delivery
wrote the payment event, because the two differ in `occurredAt`. Which status a
payment has, and requests rejected before the first await (signature, schema), make
no difference to this state and are left out. `Delivery` maps the module onto
`PaymentDelivery` variable by variable: the detail that disappears is who sends,
handles, fails and repeats.

### Settlement

A request walks through `processUpload`: `FindBatch`, `CreateBatch`, then for each
row `Lookup`, `CreateRecord` and, when matched, `Settle`, and at last `Finalize`.
File contents are identified with their hash. `ledger[e]` is the sequence of the
payment's debit/credit pairs (a second one exists after `refund_rebooking`), each
`Pending` or the row that settled it; `Settle` settles those that are pending. `Malformed` files fail in
`parseCsv`; a row that is not `storable` passes `parseCsv` (it checks only
`Number.isFinite`) and is refused by its column. `Ingest` and `Book` stand for the
intake and the worker.

### Dashboard and PayRecon

`Dashboard` is the Orders page with the query cache below it: `Poll` starts a fetch
when none runs, `List` is the server's answer, `Arrive` replaces the cache. The answer is
`Newest`, the `Limit` newest orders (`useOrders(50)`): `newer` counts, for each order, those
created after it (no two have one `createdAt`), and an order with `Limit` of them has left the list. `Submit`
and `Press` send the two mutations, `Created` and `Triggered` are their `onSuccess`
with `Invalidate`; `Lose` loses any request or answer. What the cache library does -
one fetch at a time, an invalidation abandons the running one unless it is the first
- is modelled from how `hooks.ts` relies on it. The servers' halves, `CreateOrder` and
`SimulatePayment`, are actions of their own, which `PayRecon` joins with the servers'.

`PayRecon` instantiates the four specifications over shared variables: an order with
a status is what `PaymentDelivery` calls an order, a row of `payment_events` is what
`Settlement` calls ingested, and the length of an event's ledger is what
`SerialReconciliation` calls its bookings. An action is a conjunction of the parts'
actions (`Judge` is `Judgement!Process` with `Bank!Book` exactly when money moves).
It takes the abstract intake and worker, so what it shows of them holds of the
detailed modules under the conditions of their refinements, below. In particular `Judge`
is one step, although the runner writes the order (`reconciliation-runner.service.ts:57`)
and commits the ledger transaction (`:71`) in two awaits: nothing `PayRecon` says holds
for two workers on one order or for a booking that fails after its status write. What
holds then is said of `ReconciliationWorker` itself: `OnePairPerWorker`, `PaidIsTraceable`
and the run `partial_failure`. Processing that
throws, expiring keys and failing uploads stay with the modules of the parts; `Judge`
may repeat at any time, which covers the redeliveries an expired key lets through.

## 3. Runs

Passing runs:

| Run | Instance | What it shows |
|---|---|---|
| `worker_safety` | 2 workers, 2 attempts; either 1 payment delivered twice, with up to 2 failing calls anywhere, 1 exit and 1 handler outliving its lock, three of these in all, or 2 payments of one order, with one of them (1.0 M states) | `TypeOK`, `LockExclusion`, `AtMostOneBooking`, `OnePairPerWorker`, `VerdictHasEvidence`, `PaidIsTraceable`, `OwnerKeepsLock` |
| `worker_progress` | 2 workers, a payment and its refund in one batch, 1 failing call in `run()` or the ack, fairness (246 k) | `NoEventStranded`, `NoPelLeak`, `EventuallyConcluded`, `RefundFollowsPayment` |
| `worker_serial` | 2 workers on different orders, one payment too late, redelivery, 1 failing call (321 k) | `ImplementsSerial` |
| `intake` | 1 payment, both deliveries with 2 attempts, 1 failing call, 2 network losses, 1 key expiry, 1 crash, 1 gateway stop, fairness (414 k) | `TypeOK`, `PublishedOncePerKey`, `PublishedIsStored`, `DeliveredIsCarried`, `ImplementsDelivery`, `EventuallyPublished` |
| `settlement` | 3 racing requests for any of 3 files (one malformed, one with a row that cannot be stored), 2 payments booked up to twice, 1 failing call (623 k) | `TypeOK`, `ProcessedOnce`, `CompletedIsWhole`, `SettledIsConfirmed`, `FirstSettlementWins` |
| `payrecon` | 2 orders, a list that holds one; pressed for on the page 2 payments of the first order and 1 of the second, 1 lost request; from elsewhere a refund, a payment and one of the wrong amount; a file that confirms the last two; fairness (69 k) | `NetBooking`, `BalanceFollowsOrders`, `BothReconciliationsAgree`, `ButtonStaysGone`, `PublishedIsShown` |

Runs that find the code at odds with its own documentation (`findings`):

| Run | Property, as the repository states it | What happens |
|---|---|---|
| `partial_failure` | `PartialFailureTolerated` (`reconciliation-runner.service.ts:62-64`) | the ledger transaction fails after the status write; the retry sees PAID, calls the payment a duplicate and never books it |
| `refund_rebooking` | `AtMostOneBooking` (`README.md:28`) | a payment redelivered after its refund is matched and booked again, and the order is PAID again |
| `worker_crash` | `NoEventStranded` (`EXPLAINED-SIMPLY.md:48`) | only `>` is read and nothing claims pending entries: what a dead worker had been delivered stays unprocessed |
| `failed_publish` | `FailedPublishIsRedelivered` (`stream-producer.ts:8-9`) | the idempotency key outlives the failed publish, so the gateway's retry is answered "duplicate" and nothing is published |
| `order_backfill` | `LateOrderIsBackfilled` (`README.md:216`) | a payment judged before its order exists is MISMATCHED for good: no further attempt finds the order, and the column stays null |
| `settled_early` | `MatchedIsSettled` (`README.md:238`) | a row matched before the worker booked the payment leaves the later pair PENDING_SETTLEMENT, and the file is not processed again |

### Bounds

`MaxFaults`, `MaxExits`, `MaxOverruns`, `MaxDeliveries` (worker), `MaxBookings`
(settlement and `PayRecon`, which hands it to `SerialReconciliation` as `Bookable`),
`MaxFaults`, `MaxLosses`, `MaxExpiries`, `MaxCrashes`,
`MaxStops` (intake), `MaxFaults` (settlement) and `MaxLosses` (dashboard) count what the environment may do; each stands in the
guard of the action it limits (one more, a state constraint, is named below). They do not limit what the code does in response.

* Two workers are enough for every race of the code: a lock, a poller and a batch
  each concern a holder and one other. Two deliveries and one retry give three
  entries of one event. `MaxAttempts = 2` makes the first failure a retry and the
  second a dead letter. Two faults let a failing call and a failing call of the
  catch block, or of the redelivery, combine. With batches of two, one
  message's exception can take its successor with it.
* The intake's two attempts exercise retry and exhaustion; with two losses the
  first send can be exhausted, or both its posts be answered to nobody.
  Events share nothing but the order's existence, so one payment is enough.
* Three requests allow two uploads of one file and another file in between.
* `worker_safety` has a second payment of the order for `OnePairPerWorker`. Its state
  constraint, `FewTroubles`, bounds failing calls, exits and overruns together: three
  while only the first payment is stored, one with the second. Both workers do book in
  it, so the bound of that property is reached.
* `payrecon` runs with two bookings per event, so every event can be processed after
  every other, twice. Five bounds keep it small: behaviours either have the page
  open throughout (and then `Watched` names the events that occur, the pressed
  payments, and no file is uploaded) or never; without the page only an order that
  somebody else pays for is created; the page stops creating orders when none of
  `Orders` is left; a pressed payment is one of the events not in `External`; and
  `Press` needs one of them left. Two presses are what a stale page adds to one. With
  two orders and a list for one (`Limit`), an order does leave the list, before its
  payment, after it, or while a list with it is on its way.

Symmetry over the workers or requests is used in the runs without liveness only.
`CHECK_DEADLOCK FALSE` is set because a bounded environment stops: all deliveries
spent and every worker waiting for the stream is a legitimate end.

### Conditions of the properties

* `LockExclusion` speaks of behaviours up to the first lock that expires under its
  running holder (`overruns = 0`), the code's own assumption behind a TTL of 30 s.
  `AtMostOneBooking` counts such expiries, one more booking each, and needs that no
  refunds occur, by `refund_rebooking`. It speaks of one event: two successful
  payments of one order hold different locks, may both read CREATED, and are then
  both booked. `OnePairPerWorker` is what bounds that: of all payments of an order
  together, at most one pair per worker is booked, refunds aside, and expiring locks
  do not raise it. Everything else is checked with such expiries.
* `PaidIsTraceable` is what remains of "a PAID order is booked" when calls fail and
  workers die: otherwise an attempt was counted or an entry is un-acked.
* `NoEventStranded`, `NoPelLeak` and `EventuallyConcluded` are checked for failing
  calls of `run()` and its ack, the ones `handleFailure` exists for, and with
  `PromptRelease`: a retry becomes due no sooner than its scheduler has released
  the lock (the back-off starts at a second, the release is the next call). Without
  it the retry meets its own lock and is acked and skipped. They also need that no
  dead-lettered event fails again while a batch goes on behind it, and that no poller
  removes a retry it never read (known limits). `NoEventStranded` is proved under these
  conditions and for locks that last as long as their holders.
* `NoEventStranded` and `EventuallyConcluded` are about published events (between
  upsert and XADD the event is the gateway's to redeliver, see `failed_publish`)
  and, the latter, about payments that have an outcome. A PENDING one is acked and
  stays PENDING by design.
* `DeliveredIsCarried` is about network failures; `failed_publish` shows it does
  not extend to failing calls. `EventuallyPublished` is conditional on fewer losses
  than one send has attempts, and on no crash, stop or failing call.
* `ImplementsSerial` holds when no order is judged by two workers at a time and no
  failure or death comes between a status write and its booking. Both restrictions
  are needed: two workers that read an order CREATED both book it, and
  `partial_failure` shows the other. They are the hypotheses of `WorkerIsSerial`.
* The properties of `PayRecon` inherit those two conditions. `PublishedIsShown`
  starts from a published payment, because a lost publish is possible, and is about an
  order that newer ones do not push out of the list. `ButtonStaysGone` has no such
  condition: an order that has left the list is not shown as CREATED either.

### Fairness

`ReconciliationWorker!Fairness`: a worker's loop keeps running (weak fairness of
`Step(w)`), its timer keeps firing (`Promote(w)`), an ended process is restarted
(the compose file's restart policy), and a key with a TTL expires once its holder
no longer runs. `WebhookIntake!Fairness`: a scheduled send proceeds and a handler's
calls return or fail. `PayRecon!Fairness`: a published
event that is PENDING is judged (what `EventuallyConcluded` says of the worker), and
an open page polls and gets its list; both servers answer, and the browser keeps the
tab in the foreground, where `refetchInterval` runs. Nothing forces the environment: simulating, ordering, losing,
crashing and ingesting carry no fairness. A failing call is never forced, and the
budgets make sure that it does not recur for ever.

## 4. Theorems

Proved in `ReconciliationWorkerProofs`, `OrderProofs` and `PelProofs` for every set of workers,
events and orders, every payment, batch size and bound (`WorkerAssumption` is all
that is assumed of the constants), with crashes, faults and expiring locks:

| Theorem | States |
|---|---|
| `TypeCorrect` | `Spec => []TypeOK` |
| `StatusCorrect` | a worker about to write an order's status has one to write |
| `LockSafe` | `Spec => []LockExclusion` |
| `LateReleaseIsHarmless` | `Spec => OwnerKeepsLock` |
| `VerdictsBacked` | `Spec => []VerdictHasEvidence` |
| `BookedOnce` | `NoRefunds` gives `Spec => []AtMostOneBooking`: one booking of a payment, and one more for each overrun |
| `BookedOncePerWorker` | `NoRefunds` and finitely many workers give `Spec => []OnePairPerWorker`: of the payments of an order, at most one pair per worker, with any number of overruns |
| `RefundAfterPayment` | `Spec => RefundFollowsPayment` |
| `PaidLeavesTrace` | `Spec => []PaidIsTraceable` |
| `NothingLeaks` | `OnlyRunFails` gives `Spec => [](deadLetters = {} \/ BatchSize = 1 => NoPelLeak)` |
| `NothingStranded` | `OnlyRunFails`, payments with an outcome and no overrun give `Spec /\ []RetriesWait => [](Uncut => NoEventStranded)`, where `Uncut` is `deadLetters = {} \/ BatchSize = 1` |
| `CalmFleetStrandsNothing` | the same without `[]RetriesWait`, for one worker, or for any number with `PromptRelease` and at most two attempts |

Proved in `SerialProofs`, of the atomic specification, for events whose orders are among
`Orders`; and in `SerialWorkerProofs`, of the worker, again for every value of the constants:

| Theorem | States |
|---|---|
| `BooksFollowOrders` | `SerialReconciliation`: `Spec => []NetBooking` |
| `BalanceAlwaysFollows` | `SerialReconciliation`: `Spec => []BalanceFollowsOrders`, for finitely many orders and integer amounts |
| `WorkerIsSerial` | `Spec /\ []OneRunPerOrder /\ [][KeepsWhole]_vars => ImplementsSerial`: the worker implements `SerialReconciliation`, with crashes, overruns, redeliveries and faults elsewhere |
| `ApartIsSerial` | `Spec => ImplementsSerial` for one worker, or for events of different orders whose locks do not expire under their holders, when status write, booking and process do not fail |
| `WorkerKeepsBooks` | the worker's bookings follow its orders (`NetBooking` through the mapping), under the conditions of `WorkerIsSerial` |
| `WorkerBalances` | the trial balance over the worker's rows follows its orders (`BalanceFollowsOrders` through the mapping), under the same conditions and for finitely many orders |
| `ToleratedIfWhole` | `Spec /\ [][KeepsWhole]_vars => []PartialFailureTolerated`: nothing but a status write parted from its booking leaves a PAID order without one |
| `BackfilledIfInTime` | `Spec /\ [][OrdersInTime]_vars => [](deadLetters = {} => LateOrderIsBackfilled)`: nothing but an order created after a run of its payment resolved it leaves a judged payment detached |

Proved in `WebhookIntakeProofs` for every set of payments and orders, every number
of attempts and every bound on failures (`IntakeAssumption`):

| Theorem | States |
|---|---|
| `TypeCorrect` | `Spec => []TypeOK` |
| `PublishedStored` | `Spec => []PublishedIsStored` |
| `IntakeDelivers` | `Spec => ImplementsDelivery`: the intake implements `PaymentDelivery` |
| `OncePerKey` | `Spec => []PublishedOncePerKey` |
| `PromiseKept` | `Spec => []DeliveredIsCarried` |
| `RedeliveredUnlessFailing` | `Spec => [](faults + crashes = 0 => FailedPublishIsRedelivered)` |

Proved in `SettlementProofs` for every set of payments, files, rows and requests, every
number of bookings and failures (`SettlementAssumption`, and `RowIds` distinct from
`Pending`, which it contains):

| Theorem | States |
|---|---|
| `TypeCorrect` | `Spec => []TypeOK` |
| `RecordedOnce` | `Spec => []ProcessedOnce` |
| `SettledConfirmed` | `Spec => []SettledIsConfirmed` |
| `FirstConfirmationStays` | `Spec => FirstSettlementWins` |
| `CompletedWhole` | `Spec => []CompletedIsWhole` |
| `SettledIfBookedFirst` | `Spec /\ [][BookedFirst /\ SettlesMatches]_vars => []MatchedIsSettled`: nothing but a booking after the match, or an upload that fails between a record and its settling, leaves a pair of a MATCHED payment pending |

Proved in `PayReconProofs` for every set of payments, orders, files, rows, uploads and
lost requests, with orders of any amounts (`PayReconAssumption`, the types of the
data). These are theorems of the composition, whose worker is the atomic one:

| Theorem | States |
|---|---|
| `ButtonGone` | `Spec => ButtonStaysGone` |
| `TwoConfirmations` | `Spec => []BothReconciliationsAgree` |
| `LedgerFollowsOrders` | `Spec => []NetBooking` |
| `BalanceFollows` | `Spec => []BalanceFollowsOrders`, for finitely many orders |
| `PartsKeepTheirSpecs` | `Spec => Delivery!Spec /\ Judgement!Spec /\ Bank!Spec`: each part goes by its own specification in the whole |

Four of these theorems are about properties that a run finds violated: `ToleratedIfWhole`,
`BackfilledIfInTime`, `RedeliveredUnlessFailing` and `SettledIfBookedFirst` say that the
cause the run shows is the only one. Their hypotheses exclude steps, not states, and
name exactly that cause: the property holds of every behaviour without such a step,
whatever else fails, crashes, expires, races or is delivered twice. For `worker_crash` and
`refund_rebooking`, `NothingStranded` and `BookedOnce` exclude the cause by the constants.

The arguments for the worker:

* `TypeOK` is not inductive by itself: `UpdateStatus` would write `NO_UPDATE` if a
  worker without an update could reach it. `TypeOK /\ StatusInv` is. `BatchOK`
  inside `TypeOK` says a busy worker points into its own batch and a batch into the
  delivered part of the stream, so `Current(w)` is always an event. The stream only
  grows (`StreamGrows`), so a worker that does not move keeps its message
  (`CurrentStable`). Those two lemmas carry all later proofs.
* `LockInv`: a worker inside the critical section owns the lock of its message.
  Acquisition needs a free key, a release deletes only the owner's, and before the
  first overrun expiry spares a running holder. Exclusion follows, as a lock has one owner.
* `EvidenceInv` and `BookingInv` state what a worker about to record a verdict has
  made sure of: the mismatches it found are stored, the attempts it counted are
  spent, its dead-letter row exists, it has money to move. Evidence is never removed
  (`EvidenceStays`), so the rows stay behind the state.
* `PaidInv`: what is booked shows in the order (PAID, and without refunds it stays
  PAID), and a run about to book has paid the order. `StrayInv`: the workers that run
  on without their lock are at most as many as the overruns. `OnceInv`: what is booked of
  an event and the workers `Ready` to book it, which read its order unpaid, are together
  at most one and the overruns. Before the order is PAID nothing is booked and only
  the lock's owner and strays can be ready; afterwards nobody becomes ready
  (`ReadyStep`), and a booking takes one that is.
* `ShareInv`, in `OrderProofs`: the pairs booked for an order and the workers `ReadyFor`
  one more, which have read it unpaid, are together at most the workers. Before the
  order is PAID nothing is booked of it, and the ready ones are workers; afterwards
  nobody becomes ready, and a booking trades a ready worker for a pair (`BookAddsPair`).
  No lock is needed.
* `LateReleaseIsHarmless` needs only the types: `CompareAndDelete` frees only a
  lock of the worker that releases, and that worker is still at the lock's event.
* `SeenPaidInv`, in `OrderProofs`: an order a run has read as PAID is still PAID or
  REFUNDED when the run writes it. A refund has an update only if it read PAID, so
  `RefundFollowsPayment` needs no lock and survives every overrun.
* `PelInv` and `TraceInv`: no two workers hold one stream entry, and what a worker
  has still to handle is un-acked (two batches are disjoint intervals of the
  delivered stream, `DisjointStep`). A run that paid the order and dies or throws
  before its booking leaves its entry `Torn`, and a torn entry is left only through
  a booking or through `IncrementAttempts`, before the ack (`TornWorker`).
* `HeldInv`: an un-acked entry is ahead of a worker in its batch, or a worker is at
  it and has yet to ack it. Only `run()` and its ack may throw (`OnlyRunFails`: those
  are the sites of failing calls, and no process ends), and then the worker stays at
  its entry, so the one way out of a batch is a second dead letter. The condition of
  `NothingLeaks` is that none can have happened yet or that it has nothing to cut
  short, and it is needed (known limits). `TidyInv` adds that an idle
  worker holds nothing, which at rest leaves no entry at all.
* `FleetInv` is what holds of an event while locks outlive their holders. `OwnerInv`:
  an owned lock has its holder running, so a refused `Acquire` means that somebody is
  at the event. `TriesInv`: that holder alone counts attempts, so what it knows of
  them is true. `DeadInv` and `VerdictInv`: a dead-lettered event is out of attempts
  and about to be marked; who acks has a verdict, who releases a verdict or a failure.
* `InHandInv`: an event without a verdict is unread, planned (in the retry set or with a
  poller) or with a worker *that has yet to deal with it*. `Carried` also counts a
  worker that is about to drop its entry, so `NoEventStranded` is not inductive. The
  critical step is a refused `Acquire`: the delivery will be dropped because another
  worker has the lock, and that one is either at work or at its release, with the
  retry scheduled (`SkipIsCovered`). The latter is `RetriesWait`.
* `RetryInv` gives `RetriesWait` for at most two attempts: before the first failure
  nothing is planned, so at that failure no poller has the event, and until the
  release none reads it. With a third attempt a poller may still be about to remove
  what it read for the second, and TLC finds the event it strands (known limits).

The arguments for the atomic specification and its implementation:

* `BooksInv`: the pairs of an order's payments are finitely many, even with infinitely
  many events, since each step books one (`PairsGrow`); and `NetBooking` is inductive,
  because a verdict that moves money either makes an order PAID that was not, by a
  payment, or makes a PAID one REFUNDED, by a refund (`MoneyMoves`).
* `FreshInv`: what a worker has read of its order is still the order's status, or the
  order did not exist and is CREATED now; after the status write the order has what
  was written. It needs `OneRunPerOrder`. `StoredInv`: what a worker is busy with
  has a row.
* `StepSimulates`: a status write leaves `SettledOrders` as it is (`UpdateStutters`), the
  booking that follows is `Process` with both (`BookProcesses`), `MarkProcessed` is
  `Process` without money (`MarkProcesses`), the failure path is `Fail`
  (`FailureFails`). A verdict reached before the order was created is the one
  `Process` reaches by the other of its snapshots (`SameVerdict`).
* Sums: the trial balance adds up the rows of the ledger with the community modules'
  fold, which takes them in an order of its choice. `SubsetInduction` is induction over a
  finite set's subsets with a set in the place of the predicate, from the library's
  facts that strict inclusion is well founded there. With it a sum exists
  (`SumExists`), is unique (`SumUnique`) and does not depend on the order (`SumRemove`):
  an element more adds its value (`SumAdd`). `TrialBalance` is a lemma about `Ledger`
  alone: rows whose debits are receivables and whose credits are payables of the same
  sum net to zero, whatever the groups.
* `BalanceInv`: each side of the ledger has finitely many rows, and they add up to
  `Receivable`, what the orders say. A booking adds one row to each side (`SideGrows`)
  and changes `Receivable` by the same amount (`ReceivableGrows`), because `MoneyMoves`
  gives the payment that moves an order that order's amount (anything else is an
  `AMOUNT_MISMATCH`). `InFull` keeps that of the rows booked. `NetBooking` is part of the
  invariant: it says by how much a move of the order changes what is expected.
  `Orders` is finite because a sum over infinitely many orders says nothing.
* `WorkerKeepsBooks` and `WorkerBalances` instantiate `SerialProofs` with the mapping, so
  the worker's books follow from the refinement and from nothing else about the worker;
  `LedgerFollowsOrders` and `BalanceFollows` do the same for the composition.
* `CoveredInv`, for `ToleratedIfWhole`: a payment of a PAID order is booked, or a worker
  is at its booking. It needs neither locks nor `OneRunPerOrder`: two workers on one
  order book twice, but they book.
* `BackfillInv`, for `BackfilledIfInTime`: an order a run has seen is attached before it
  judges, an attached id read before is still there (`AttachedStays`), and a run that saw no
  order judges one that does not exist yet. A dead letter is a verdict without a run.

The arguments for the intake:

* `SendInv` bounds the attempt by where the send stands (a sleeping one has attempts
  left, so the next POST is one of `1 .. MaxAttempts`) and says that the duplicate
  has not begun before the first send is over, so scheduling it starts from nothing.
  `TypeOK` is inductive only together with it.
* `HandlerEffect` and `OtherEffect` say once what every step does to keys, rows,
  stream entries and handlers; the invariants below use them and no action again.
* `StoredInv`: a handler about to publish has a row, and an order it found exists
  (orders are never removed).
* `KeyInv`: entries published, handlers on their way to publish, and one more if the
  key is free, are at most one plus the key's expiries. Winning the key trades its
  freedom for a handler, publishing trades the handler for an entry, expiry pays for
  a new key, and failures and crashes only lose. The handlers of one payment are
  finitely many (`CarryingFinite`) even when there are infinitely many payments.
* `IntakeDelivers` is a step simulation. Each step of the intake is a `Store`, a
  `Publish`, an `Expire` or a `CreateOrder` of `PaymentDelivery`, or leaves its
  variables alone; `StoredInv` gives `Store` its order and `Publish` its row, `KeyInv`
  bounds the number of entries by the expiries.
* `PromiseInv`: a post not made yet has no handler, so a retry overwrites nobody; and
  whatever may lead to a 200 (the key, a handler that saw it, a finished send) is
  carried by an entry or by a handler on its way.

The arguments for settlement:

* `Starts` (an upload outside the loop has counted nothing) makes `TypeOK` inductive;
  `TypeInv` is the conjunction.
* `OwnInv`: of a file, one upload is in the row loop, ever. The unique hash lets one
  `CreateBatch` through, and a batch never disappears.
* `RowsInv`: the rows with a record are those that upload has passed, `Recorded(q)`.
  It gives `ProcessedOnce`, because the loop meets a row without a record, and, with
  `RecordsGrow` (records are only appended) and `LedgerSteps` (pending pairs become
  settled ones, by a row whose record says MATCHED), the two properties of settled
  pairs.
* `MatchInv`, for `SettledIfBookedFirst`: the pairs of a confirmed payment are settled, or
  an upload is at its `settle` for that row. Settling leaves nothing pending of the payment,
  so a later row of another file changes nothing.
* `CountInv`: the counts of an upload are the numbers of the rows it has passed, by
  status. At `finalize` these are all rows, and afterwards nobody adds a record.

The arguments for the composition:

* `OrderStep`: an order that has moved never goes back to CREATED. What the verdict
  writes is PAID or REFUNDED (`UpdateMoves`), and only over an order it has read.
* `PageInv`: at most one list is being fetched; one that has left the server is no
  older than what is shown and no newer than what is true, or leaves the order out
  (`NewestIsTrue`). An abandoned fetch is removed before the next is asked for, hence
  nothing overtakes. An order shown as moved is `Retired`: it has moved, and neither what
  is shown nor what is on its way says CREATED. That is kept by every step
  (`RetiredStep`) whether or not the order is still listed.
* `AgreeInv` relates the ledger to both reconciliations. A pair has an order that
  agrees with the gateway, since `ProcessMoves` says that a payment is booked only
  when no mismatch applies; a settled pair has a row that agrees with it, since an
  upload reaches `settle` only with a row that matched (`UploadStep`), and `SettleStep`
  marks pairs of that row's payment only. The two agreements meet in the gateway's amount.
* `PartsKeepTheirSpecs` is a step simulation for each part: what the others write is a
  stutter or an environment step of it. A verdict writes over an order and creates or
  removes none (`DeliversAlone`); the worker judges only what is stored, so its booking is
  `Settlement`'s (`SettlesAlone`); settling keeps the number of pairs
  (`ReconcilesSerially`).

Only model-checked: all liveness (`EventuallyConcluded`, `EventuallyPublished`,
`PublishedIsShown`; fairness and `ENABLED` are outside the prover's reach). Every safety
property of a passing run is proved, `NoEventStranded`, `NoPelLeak` and
`ImplementsSerial` under the conditions stated with their theorems. The hypotheses of `NothingStranded`
and `WorkerIsSerial` restrict behaviours; each theorem has a companion
(`CalmFleetStrandsNothing`, `ApartIsSerial`) that restricts the constants instead, to
values that contain those of the run.

## 5. Not modelled

* Signature checks, request schemas, money formatting, logging, OpenAPI, health
  checks: pure functions or I/O; what they reject changes no state.
* Statistics and listing endpoints: they only read. The trial balance reads too, but
  is a statement about the books, hence `Ledger`; the list of orders is read by the
  dashboard, hence `Dashboard!List`, with its limit. Paging (`cursor`) is left to Prisma; the
  dashboard asks for the first page only.
* The dashboard's other pages (`Overview`, `Ledger`, `Mismatches`, `Settlements`): they show what
  they poll. `Settlements` also uploads, which is a request of `Settlement`.
* The gateway's choice of a payment's status: the MC modules fix one per event.
* The individual rows of a booking, in the concurrent modules: every ledger
  transaction writes one balanced pair, refunds in the same direction as payments,
  which the project's own README documents as a simplification. `Ledger` has the
  rows, and `ReconciliationWorker` and `Settlement` count or mark pairs.
* Trimming of the stream and loss of the consumer group: the code does neither.
* Deployment: start order and restarts appear as actions of the modules.

Known limits that no run states as a property. Two pollers may read one due entry
(`retry-schedule.ts:22`); the first removes and publishes it, and it fails and is
scheduled again before the second one's ZREM, whose return value nobody looks at. That
removes the new entry, and its delivery meets the lock of a worker that is only at its
release: it is acked and skipped, and the event stays FAILED for good (two workers,
three attempts, two failing calls; not with one worker or two attempts; the default is
five, `env.ts:15`). An event that was dead-lettered, is delivered again and fails again
meets the unique `paymentEventId` of its first dead
letter (`stream-consumer.ts:158`, `schema.prisma:124`), and that exception leaves the
entries behind it in the batch un-acked, which the comment at
`stream-consumer.ts:148-150` sets out to avoid (`NoPelLeak` with one worker, two
events, batches of two, two attempts, three deliveries and three failing calls); a
failing `incrementAttempts` leaves its entry pending (`stream-consumer.ts:148-150`), a
late duplicate of a matched payment turns its event's state into MISMATCHED
(`README.md:213`), and the detail of a settlement batch is not polled
(`hooks.ts:92-98`). They are in the hazards.

## 6. Plan

Done: all components above, their composition, and proofs of every safety property the
runs check. What could follow:

The Settlements page beside the Orders page, with an upload whose answer is lost.
