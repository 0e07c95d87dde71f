------------------------ MODULE ReconciliationWorker ------------------------
(***************************************************************************)
(* The reconciliation worker: a fleet of consumers of one Redis stream     *)
(* (stream-consumer.ts), each handling one message at a time under a       *)
(* per-event Redis lock (redis-lock.ts), running the reconciliation of the *)
(* event against Postgres (reconciliation-runner.service.ts), and retrying *)
(* what throws through a sorted set (retry-schedule.ts) until it is        *)
(* dead-lettered.                                                          *)
(*                                                                         *)
(* Every await of the code is a step of its own, so workers interleave     *)
(* exactly where the code gives up the event loop or the network.  A call  *)
(* may also fail: it is rejected without effect, or takes effect and loses *)
(* its reply; either way the handler sees an exception.                    *)
(***************************************************************************)
EXTENDS Reconciliation, Sequences, FiniteSets

CONSTANTS
  Workers,         \* worker processes
  Events,          \* payment events (rows of payment_events, by id)
  Orders,          \* order ids
  NoOne,           \* the lock key does not exist
  Payment,         \* Events -> [orderId, amount, currency, gatewayStatus, receivedAt]
  OrderData,       \* Orders -> [amount, currency, createdAt]
  DelayThreshold,  \* RECONCILIATION_DELAY_THRESHOLD_MS
  MaxAttempts,     \* RECONCILIATION_MAX_ATTEMPTS
  BatchSize,       \* STREAM_BATCH_SIZE
  PromptRelease,   \* a retry comes due only once its scheduler released the lock
  FaultSites,      \* labels whose calls may fail
  MaxFaults,       \* bound: failing calls
  MaxExits,        \* bound: crashes and shutdowns of workers
  MaxOverruns,     \* bound: locks that expire under a running holder
  MaxDeliveries    \* bound: stream entries published by ingestion

\* The awaits inside runner.run() and the ack after it: what the try block of
\* handleMessage covers.
RunSites == {"find", "resolve", "attach", "mismatch", "status", "book", "mark", "ack"}

\* The awaits of handleFailure, which run in its catch block.
FailureSites == {"fail", "failAck", "dead", "deadMark", "failed", "schedule"}

Holding == RunSites \cup FailureSites \cup {"release", "releaseThrow"}
Busy    == Holding \cup {"acquire", "skip"}
Labels  == Busy \cup {"read", "down"}
Sites   == (Labels \ {"down"}) \cup {"promote"}

ASSUME WorkerAssumption ==
  /\ NoOne \notin Workers
  /\ Payment \in [Events -> [orderId : Orders, amount : Int, currency : STRING,
                             gatewayStatus : PaymentStatus, receivedAt : Int]]
  /\ OrderData \in [Orders -> [amount : Int, currency : STRING, createdAt : Int]]
  /\ DelayThreshold \in Int
  /\ MaxAttempts \in Nat \ {0}
  /\ BatchSize \in Nat \ {0}
  /\ PromptRelease \in BOOLEAN
  /\ FaultSites \subseteq Sites
  /\ {MaxFaults, MaxExits, MaxOverruns, MaxDeliveries} \subseteq Nat

VARIABLES
  \* Postgres
  orders,        \* orders.status, Absent until the order is created
  state,         \* payment_events.reconciliationState, Absent until stored
  attempts,      \* payment_events.attempts
  attached,      \* payment_events.orderId is not null
  mismatches,    \* reasons of the event's rows in mismatches
  bookings,      \* debit/credit pairs of the event in ledger_entries
  deadLetters,   \* events with a row in dead_letter_events
  \* Redis
  stream,        \* payrecon:payment-events, append-only; an entry's id is its index
  lastDelivered, \* the consumer group's last delivered id
  pending,       \* the group's pending-entries list: delivered, not acked
  lock,          \* owner of payrecon:lock:payment-event:<id>, or NoOne
  retries,       \* payrecon:retry-schedule
  \* worker processes
  pc,            \* where the worker's loop is
  job,           \* its batch and the locals of the message it handles
  promotion,     \* its promoteDueRetries() call in flight
  \* spent budgets
  faults, exits, overruns, deliveries

postgres == <<orders, state, attempts, attached, mismatches, bookings, deadLetters>>
redis    == <<stream, lastDelivered, pending, lock, retries>>
local    == <<pc, job, promotion>>
budgets  == <<faults, exits, overruns, deliveries>>
vars     == <<postgres, redis, local, budgets>>

\* A batch is the interval cur..end of stream ids one XREADGROUP returned;
\* known, seen and tries are the row reads the handler keeps across awaits.
Batch(first, last) ==
  [cur |-> first, end |-> last, known |-> FALSE, seen |-> Absent, tries |-> 0]

NoJob == Batch(1, 0)

Forget(j) == Batch(j.cur, j.end)

Idle == [due |-> {}, removed |-> FALSE]

Smaller(a, b) == IF a < b THEN a ELSE b

Current(w) == stream[job[w].cur]

OrderOf(e) == Payment[e].orderId

PostgresOK ==
  /\ orders \in [Orders -> OrderStatus \cup {Absent}]
  /\ state \in [Events -> ReconciliationState \cup {Absent}]
  /\ attempts \in [Events -> Nat]
  /\ attached \in [Events -> BOOLEAN]
  /\ mismatches \in [Events -> SUBSET MismatchReason]
  /\ bookings \in [Events -> Nat]
  /\ deadLetters \subseteq Events

RedisOK ==
  /\ stream \in Seq(Events)
  /\ lastDelivered \in 0 .. Len(stream)
  /\ pending \subseteq 1 .. lastDelivered
  /\ lock \in [Events -> Workers \cup {NoOne}]
  /\ retries \subseteq Events

Job == [cur : Nat \ {0}, end : Nat, known : BOOLEAN,
        seen : OrderStatus \cup {Absent}, tries : Nat]

LocalOK ==
  /\ pc \in [Workers -> Labels]
  /\ job \in [Workers -> Job]
  /\ promotion \in [Workers -> [due : SUBSET Events, removed : BOOLEAN]]

\* A batch consists of delivered entries, and a busy worker is inside its own.
BatchOK ==
  \A w \in Workers :
    /\ job[w].end <= lastDelivered
    /\ pc[w] \in Busy => job[w].cur <= job[w].end

BudgetsOK == {faults, exits, overruns, deliveries} \subseteq Nat

\* Every variable has its type, and no worker points outside the stream.
TypeOK == PostgresOK /\ RedisOK /\ LocalOK /\ BatchOK /\ BudgetsOK

Init ==
  /\ orders = [o \in Orders |-> Absent]
  /\ state = [e \in Events |-> Absent]
  /\ attempts = [e \in Events |-> 0]
  /\ attached = [e \in Events |-> FALSE]
  /\ mismatches = [e \in Events |-> {}]
  /\ bookings = [e \in Events |-> 0]
  /\ deadLetters = {}
  /\ stream = <<>>
  /\ lastDelivered = 0
  /\ pending = {}
  /\ lock = [e \in Events |-> NoOne]
  /\ retries = {}
  /\ pc = [w \in Workers |-> "read"]
  /\ job = [w \in Workers |-> NoJob]
  /\ promotion = [w \in Workers |-> Idle]
  /\ faults = 0 /\ exits = 0 /\ overruns = 0 /\ deliveries = 0

-----------------------------------------------------------------------------
(***************************************************************************)
(* How an awaited call ends.                                               *)
(***************************************************************************)
\* Mutated: handleMessage has no catch block.
WrongOnThrow(label) ==
  IF label \in RunSites \cup FailureSites THEN "releaseThrow" ELSE "read"

\* Where an exception thrown at `label' takes the worker: the catch block of
\* handleMessage, its finally block, or the catch block of the loop.
OnThrow(label) ==
  IF label \in RunSites THEN "fail"
  ELSE IF label \in FailureSites THEN "releaseThrow" ELSE "read"

\* The loop's catch block abandons what is left of the batch: the next
\* XREADGROUP asks for ">", which never returns a delivered entry again.
Throws(w) ==
  /\ pc' = [pc EXCEPT ![w] = OnThrow(@)]
  /\ job' = [job EXCEPT ![w] = IF OnThrow(pc[w]) = "read" THEN NoJob ELSE Forget(@)]

Fails(w) ==
  /\ pc[w] \in FaultSites
  /\ faults < MaxFaults
  /\ faults' = faults + 1
  /\ Throws(w)

\* The call took effect.  Its reply arrives, or is lost and the call throws.
Returns(w, next, j) ==
  \/ /\ pc' = [pc EXCEPT ![w] = next]
     /\ job' = [job EXCEPT ![w] = j]
     /\ UNCHANGED faults
  \/ Fails(w)

\* The call is rejected without effect.
Rejected(w) ==
  /\ Fails(w)
  /\ UNCHANGED <<postgres, redis, promotion, exits, overruns, deliveries>>

\* The for loop over the batch, back in loop() once it is exhausted.
LastOfBatch(w) == job[w].cur = job[w].end

NextLabel(w) == IF LastOfBatch(w) THEN "read" ELSE "acquire"

NextJob(w) ==
  IF LastOfBatch(w) THEN NoJob ELSE Batch(job[w].cur + 1, job[w].end)

-----------------------------------------------------------------------------
(***************************************************************************)
(* loop() and handleMessage().                                             *)
(***************************************************************************)
\* XREADGROUP ">": everything it returns enters the pending-entries list at
\* once.  An empty reply (BLOCK timed out) only goes round the loop.
Read(w) ==
  /\ pc[w] = "read"
  /\ lastDelivered < Len(stream)
  /\ LET last == lastDelivered + Smaller(BatchSize, Len(stream) - lastDelivered)
     IN  /\ lastDelivered' = last
         /\ pending' = pending \cup (lastDelivered + 1 .. last)
         /\ Returns(w, "acquire", Batch(lastDelivered + 1, last))
  /\ UNCHANGED <<postgres, stream, lock, retries, promotion, exits, overruns, deliveries>>

\* Mutated: SET without NX.
WrongCanAcquire(e) == TRUE

\* SET key token PX ttl NX succeeds only on a free key.
CanAcquire(e) == lock[e] = NoOne

Acquire(w) ==
  /\ pc[w] = "acquire"
  /\ \/ /\ CanAcquire(Current(w))
        /\ lock' = [lock EXCEPT ![Current(w)] = w]
        /\ Returns(w, "find", job[w])
     \/ /\ ~CanAcquire(Current(w))
        /\ UNCHANGED lock
        /\ Returns(w, "skip", job[w])
  /\ UNCHANGED <<postgres, stream, lastDelivered, pending, retries,
                 promotion, exits, overruns, deliveries>>

\* Mutated: XACK misses the entry.
WrongAcked(w) == pending' = pending

Acked(w) == pending' = pending \ {job[w].cur}

\* Another worker owns the event: the delivery is acked and skipped.
Skip(w) ==
  /\ pc[w] = "skip"
  /\ Acked(w)
  /\ Returns(w, NextLabel(w), NextJob(w))
  /\ UNCHANGED <<postgres, stream, lastDelivered, lock, retries,
                 promotion, exits, overruns, deliveries>>

-----------------------------------------------------------------------------
(***************************************************************************)
(* ReconciliationRunner.run().  The row of the event exists: ingestion     *)
(* publishes an id only after its upsert, and nothing deletes rows.        *)
(***************************************************************************)
Find(w) ==
  /\ pc[w] = "find"
  /\ Returns(w, "resolve", [job[w] EXCEPT !.known = attached[Current(w)]])
  /\ UNCHANGED <<postgres, redis, promotion, exits, overruns, deliveries>>

\* reconcile() on the order as it was read: `seen' is its status then.
Result(w, seen) ==
  LET e == Current(w)
      d == OrderData[OrderOf(e)]
  IN  Reconcile(Payment[e],
                [amount |-> d.amount, currency |-> d.currency,
                 createdAt |-> d.createdAt, status |-> seen],
                DelayThreshold)

\* Mutated: the status write has no guard.
WrongAfterMismatches(result) == "status"

\* The await run() reaches after the mismatches are written.
AfterMismatches(result) == IF result.update = NoUpdate THEN "mark" ELSE "status"

\* Mutated: the mismatches are not written.
WrongAfterReconcile(result) == AfterMismatches(result)

\* The await run() reaches after reconcile() has judged the event.
AfterReconcile(result) ==
  IF result.mismatches # {} THEN "mismatch" ELSE AfterMismatches(result)

\* resolveOrder(): the order is read by the attached id or by the id in the
\* raw payload, which is the same order; found the second way, it is attached.
Resolve(w) ==
  /\ pc[w] = "resolve"
  /\ LET seen == orders[OrderOf(Current(w))]
     IN  Returns(w,
                 IF seen # Absent /\ ~job[w].known
                 THEN "attach" ELSE AfterReconcile(Result(w, seen)),
                 [job[w] EXCEPT !.seen = seen])
  /\ UNCHANGED <<postgres, redis, promotion, exits, overruns, deliveries>>

Attach(w) ==
  /\ pc[w] = "attach"
  /\ attached' = [attached EXCEPT ![Current(w)] = TRUE]
  /\ Returns(w, AfterReconcile(Result(w, job[w].seen)), job[w])
  /\ UNCHANGED <<orders, state, attempts, mismatches, bookings, deadLetters,
                 redis, promotion, exits, overruns, deliveries>>

RecordMismatches(w) ==
  /\ pc[w] = "mismatch"
  /\ LET result == Result(w, job[w].seen)
     IN  /\ mismatches' = [mismatches EXCEPT ![Current(w)] = @ \cup result.mismatches]
         /\ Returns(w, AfterMismatches(result), job[w])
  /\ UNCHANGED <<orders, state, attempts, attached, bookings, deadLetters,
                 redis, promotion, exits, overruns, deliveries>>

\* Mutated: no ledger transaction.
WrongAfterStatus == "ack"

\* The await after the status write.
AfterStatus == "book"

UpdateStatus(w) ==
  /\ pc[w] = "status"
  /\ orders' = [orders EXCEPT ![OrderOf(Current(w))] = Result(w, job[w].seen).update]
  /\ Returns(w, AfterStatus, job[w])
  /\ UNCHANGED <<state, attempts, attached, mismatches, bookings, deadLetters,
                 redis, promotion, exits, overruns, deliveries>>

\* The $transaction: ledger entries and reconciliation state commit together.
Book(w) ==
  /\ pc[w] = "book"
  /\ bookings' = [bookings EXCEPT ![Current(w)] = @ + 1]
  /\ state' = [state EXCEPT ![Current(w)] = Result(w, job[w].seen).state]
  /\ Returns(w, "ack", Forget(job[w]))
  /\ UNCHANGED <<orders, attempts, attached, mismatches, deadLetters,
                 redis, promotion, exits, overruns, deliveries>>

MarkProcessed(w) ==
  /\ pc[w] = "mark"
  /\ state' = [state EXCEPT ![Current(w)] = Result(w, job[w].seen).state]
  /\ Returns(w, "ack", Forget(job[w]))
  /\ UNCHANGED <<orders, attempts, attached, mismatches, bookings, deadLetters,
                 redis, promotion, exits, overruns, deliveries>>

Ack(w) ==
  /\ pc[w] = "ack"
  /\ Acked(w)
  /\ Returns(w, "release", job[w])
  /\ UNCHANGED <<postgres, stream, lastDelivered, lock, retries,
                 promotion, exits, overruns, deliveries>>

-----------------------------------------------------------------------------
(***************************************************************************)
(* handleFailure(), and the release in the finally block.                  *)
(***************************************************************************)
IncrementAttempts(w) ==
  /\ pc[w] = "fail"
  /\ attempts' = [attempts EXCEPT ![Current(w)] = @ + 1]
  /\ Returns(w, "failAck", [job[w] EXCEPT !.tries = attempts[Current(w)] + 1])
  /\ UNCHANGED <<orders, state, attached, mismatches, bookings, deadLetters,
                 redis, promotion, exits, overruns, deliveries>>

Exhausted(w) == job[w].tries >= MaxAttempts

AckFailed(w) ==
  /\ pc[w] = "failAck"
  /\ Acked(w)
  /\ Returns(w, IF Exhausted(w) THEN "dead" ELSE "failed", job[w])
  /\ UNCHANGED <<postgres, stream, lastDelivered, lock, retries,
                 promotion, exits, overruns, deliveries>>

\* payment_event_id is unique in dead_letter_events: a second insert throws.
DeadLetter(w) ==
  /\ pc[w] = "dead"
  /\ \/ /\ Current(w) \notin deadLetters
        /\ deadLetters' = deadLetters \cup {Current(w)}
        /\ Returns(w, "deadMark", job[w])
     \/ /\ Current(w) \in deadLetters
        /\ Throws(w)
        /\ UNCHANGED <<deadLetters, faults>>
  /\ UNCHANGED <<orders, state, attempts, attached, mismatches, bookings,
                 redis, promotion, exits, overruns, deliveries>>

MarkDeadLettered(w) ==
  /\ pc[w] = "deadMark"
  /\ state' = [state EXCEPT ![Current(w)] = "DEAD_LETTERED"]
  /\ Returns(w, "release", Forget(job[w]))
  /\ UNCHANGED <<orders, attempts, attached, mismatches, bookings, deadLetters,
                 redis, promotion, exits, overruns, deliveries>>

MarkFailed(w) ==
  /\ pc[w] = "failed"
  /\ state' = [state EXCEPT ![Current(w)] = "FAILED"]
  /\ Returns(w, "schedule", Forget(job[w]))
  /\ UNCHANGED <<orders, attempts, attached, mismatches, bookings, deadLetters,
                 redis, promotion, exits, overruns, deliveries>>

\* Mutated: ZADD is forgotten.
WrongScheduled(e) == retries

Scheduled(e) == retries \cup {e}

ScheduleRetry(w) ==
  /\ pc[w] = "schedule"
  /\ retries' = Scheduled(Current(w))
  /\ Returns(w, "release", job[w])
  /\ UNCHANGED <<postgres, stream, lastDelivered, pending, lock,
                 promotion, exits, overruns, deliveries>>

\* Mutated: a plain DEL.
WrongCompareAndDelete(e, w) == [lock EXCEPT ![e] = NoOne]

\* RELEASE_SCRIPT: only the owner's token deletes the key.
CompareAndDelete(e, w) == [lock EXCEPT ![e] = IF @ = w THEN NoOne ELSE @]

\* After a throw in the catch block the finally block still releases, and the
\* exception then reaches the loop.
Release(w) ==
  /\ pc[w] \in {"release", "releaseThrow"}
  /\ lock' = CompareAndDelete(Current(w), w)
  /\ \/ /\ pc[w] = "release"
        /\ Returns(w, NextLabel(w), NextJob(w))
     \/ /\ pc[w] = "releaseThrow"
        /\ Throws(w)
        /\ UNCHANGED faults
  /\ UNCHANGED <<postgres, stream, lastDelivered, pending, retries,
                 promotion, exits, overruns, deliveries>>

-----------------------------------------------------------------------------
(***************************************************************************)
(* promoteDueRetries(), on a timer beside the loop of the same process.    *)
(***************************************************************************)
\* Back-off is random, so any scheduled retry may be the one that is due.
Due ==
  {e \in retries :
     PromptRelease => \A w \in Workers : pc[w] = "release" => Current(w) # e}

\* ZRANGEBYSCORE: a read; the entries are still there for another poller.
PullDue(w) ==
  /\ pc[w] # "down"
  /\ promotion[w] = Idle
  /\ \E due \in SUBSET Due :
       /\ due # {}
       /\ Cardinality(due) <= BatchSize
       /\ promotion' = [promotion EXCEPT ![w].due = due]
  /\ UNCHANGED <<postgres, redis, pc, job, budgets>>

\* ZREM of what was read.
RemoveDue(w) ==
  /\ promotion[w].due # {}
  /\ ~promotion[w].removed
  /\ retries' = retries \ promotion[w].due
  /\ promotion' = [promotion EXCEPT ![w].removed = TRUE]
  /\ UNCHANGED <<postgres, stream, lastDelivered, pending, lock, pc, job, budgets>>

Without(p, e) ==
  IF p.due = {e} THEN Idle ELSE [due |-> p.due \ {e}, removed |-> TRUE]

\* One XADD per pulled event, one after the other.
Republish(w) ==
  /\ promotion[w].removed
  /\ \E e \in promotion[w].due :
       /\ stream' = Append(stream, e)
       /\ promotion' = [promotion EXCEPT ![w] = Without(@, e)]
  /\ UNCHANGED <<postgres, lastDelivered, pending, lock, retries, pc, job, budgets>>

-----------------------------------------------------------------------------
(***************************************************************************)
(* The life of the process.                                                *)
(***************************************************************************)
Dies(w) ==
  /\ pc' = [pc EXCEPT ![w] = "down"]
  /\ job' = [job EXCEPT ![w] = NoJob]
  /\ promotion' = [promotion EXCEPT ![w] = Idle]
  /\ UNCHANGED <<postgres, redis>>

Crash(w) ==
  /\ pc[w] # "down"
  /\ exits < MaxExits
  /\ exits' = exits + 1
  /\ Dies(w)
  /\ UNCHANGED <<faults, overruns, deliveries>>

\* stop() on SIGTERM: the loop ends where it would read again, the timer is
\* cleared, and redis.quit() cuts off a promotion still in flight.
Stop(w) ==
  /\ pc[w] = "read"
  /\ exits < MaxExits
  /\ exits' = exits + 1
  /\ Dies(w)
  /\ UNCHANGED <<faults, overruns, deliveries>>

\* The timer discards the promise of promoteDueRetries(): a call that throws
\* there is an unhandled rejection, which ends the process.
PromotionThrows(w) ==
  /\ pc[w] # "down"
  /\ "promote" \in FaultSites
  /\ faults < MaxFaults
  /\ faults' = faults + 1
  /\ Dies(w)
  /\ UNCHANGED <<exits, overruns, deliveries>>

\* start(): the consumer group already exists and keeps its position.
Restart(w) ==
  /\ pc[w] = "down"
  /\ pc' = [pc EXCEPT ![w] = "read"]
  /\ UNCHANGED <<postgres, redis, job, promotion, budgets>>

-----------------------------------------------------------------------------
(***************************************************************************)
(* The environment.                                                        *)
(***************************************************************************)
Runs(w, e) == pc[w] \in Holding /\ Current(w) = e

\* PX ttl: the key of a dead or departed holder expires; that of a running
\* one only when the handler outlives RECONCILIATION_LOCK_TTL_MS.
Expire(e) ==
  /\ lock[e] # NoOne
  /\ lock' = [lock EXCEPT ![e] = NoOne]
  /\ \/ /\ ~Runs(lock[e], e)
        /\ UNCHANGED overruns
     \/ /\ Runs(lock[e], e)
        /\ overruns < MaxOverruns
        /\ overruns' = overruns + 1
  /\ UNCHANGED <<postgres, stream, lastDelivered, pending, retries, local,
                 faults, exits, deliveries>>

\* Ingestion's upsert on the gateway's event id (a second one updates nothing).
\* The order was looked up in the await before: it may exist by now and still
\* not be attached.
Store(e) ==
  /\ state[e] = Absent
  /\ state' = [state EXCEPT ![e] = "PENDING"]
  /\ \E found \in BOOLEAN :
       /\ found => orders[OrderOf(e)] # Absent
       /\ attached' = [attached EXCEPT ![e] = found]
  /\ UNCHANGED <<orders, attempts, mismatches, bookings, deadLetters, redis, local, budgets>>

\* Ingestion's XADD, one await after the upsert; again when the idempotency key
\* expired before a late duplicate.
Publish(e) ==
  /\ state[e] # Absent
  /\ deliveries < MaxDeliveries
  /\ deliveries' = deliveries + 1
  /\ stream' = Append(stream, e)
  /\ UNCHANGED <<postgres, lastDelivered, pending, lock, retries, local,
                 faults, exits, overruns>>

CreateOrder(o) ==
  /\ orders[o] = Absent
  /\ orders' = [orders EXCEPT ![o] = "CREATED"]
  /\ UNCHANGED <<state, attempts, attached, mismatches, bookings, deadLetters,
                 redis, local, budgets>>

-----------------------------------------------------------------------------
Step(w) ==
  \/ Read(w) \/ Acquire(w) \/ Skip(w)
  \/ Find(w) \/ Resolve(w) \/ Attach(w) \/ RecordMismatches(w)
  \/ UpdateStatus(w) \/ Book(w) \/ MarkProcessed(w) \/ Ack(w)
  \/ IncrementAttempts(w) \/ AckFailed(w) \/ DeadLetter(w) \/ MarkDeadLettered(w)
  \/ MarkFailed(w) \/ ScheduleRetry(w) \/ Release(w)

Promote(w) == PullDue(w) \/ RemoveDue(w) \/ Republish(w)

Next ==
  \/ \E w \in Workers :
       \/ Step(w) \/ Rejected(w) \/ Promote(w)
       \/ Crash(w) \/ Stop(w) \/ PromotionThrows(w) \/ Restart(w)
  \/ \E e \in Events : Expire(e) \/ Store(e) \/ Publish(e)
  \/ \E o \in Orders : CreateOrder(o)

Spec == Init /\ [][Next]_vars

\* The loop runs and its timer fires; a process that ended is started again.
\* Nothing obliges ingestion to publish, an order to be created or a lock to
\* outlive its TTL.
Fairness ==
  /\ \A w \in Workers : WF_vars(Step(w)) /\ WF_vars(Promote(w)) /\ WF_vars(Restart(w))
  /\ \A e \in Events : WF_vars(Expire(e) /\ UNCHANGED overruns)

FairSpec == Spec /\ Fairness
-----------------------------------------------------------------------------
(***************************************************************************)
(* Properties.                                                             *)
(***************************************************************************)
\* At most one worker at a time is between acquiring an event's lock and
\* releasing it (redis-lock.ts:15-22), until a lock expires under its holder.
LockExclusion ==
  overruns = 0 =>
    \A v, w \in Workers, e \in Events : Runs(v, e) /\ Runs(w, e) => v = w

\* A lock changes hands only by expiring or by its own holder's release: the
\* late finally block of a worker whose lock expired, and was acquired by
\* another one since, takes nothing away (RELEASE_SCRIPT).
OwnerKeepsLock ==
  [][\A w \in Workers, e \in Events :
       lock[e] = w /\ lock'[e] # w =>
         \/ UNCHANGED pc
         \/ Runs(w, e) /\ pc'[w] # pc[w]]_vars

\* However often an event is delivered, retried or interrupted, its payment is
\* booked at most once, and once more for each lock that expired under its
\* holder: what a late holder costs is one pair, not one per retry.  A refund of
\* the order breaks it (the run refund_rebooking).
AtMostOneBooking == \A e \in Events : bookings[e] <= 1 + overruns

\* Two payments of one order hold different locks, and workers that read the
\* order unpaid at once all book (reconciliation-runner.service.ts:41): at most
\* one pair per worker enters the ledger.  Whatever is redelivered, retried or
\* interrupted, the gap between reading the order and writing it costs no more,
\* and a lone worker books an order once.
Pairs(o) ==
  UNION {{<<e, n>> : n \in 1 .. bookings[e]} : e \in {f \in Events : OrderOf(f) = o}}

OnePairPerWorker == \A o \in Orders : Cardinality(Pairs(o)) <= Cardinality(Workers)

\* The state an event reached is backed by what was persisted for it: a
\* matched payment that moves money is booked, a mismatched one has a reason
\* on record, a dead-lettered one is in dead_letter_events after MaxAttempts.
VerdictHasEvidence ==
  \A e \in Events :
    /\ state[e] = "MATCHED" /\ OrderStatusUpdate(Payment[e]) # NoUpdate
         => bookings[e] > 0
    /\ state[e] = "MISMATCHED" => mismatches[e] # {}
    /\ state[e] = "DEAD_LETTERED" => e \in deadLetters /\ attempts[e] >= MaxAttempts

\* Something will still process e: an entry nobody has read, a batch being
\* worked through, the retry set or a promotion in flight.
Carried(e) ==
  \/ \E i \in lastDelivered + 1 .. Len(stream) : stream[i] = e
  \/ \E w \in Workers : \E i \in job[w].cur .. job[w].end :
       stream[i] = e /\ ~(i = job[w].cur /\ pc[w] = "releaseThrow")
  \/ e \in retries
  \/ \E w \in Workers : e \in promotion[w].due

Published(e) == \E i \in 1 .. Len(stream) : stream[i] = e

\* A published event without a verdict has not been dropped on the floor.
NoEventStranded ==
  \A e \in Events : Published(e) /\ state[e] \in {"PENDING", "FAILED"} => Carried(e)

\* Once everything that was published has been dealt with, no delivered entry
\* is left un-acked (stream-consumer.ts:148-150).
AtRest ==
  /\ \A w \in Workers : pc[w] = "read" /\ promotion[w] = Idle
  /\ lastDelivered = Len(stream)
  /\ retries = {}

NoPelLeak == AtRest => pending = {}

\* An order is PAID only if a payment of it is booked or the run that paid it
\* left a trace: a failed attempt on the event, or its stream entry un-acked.
\* Whatever crashes, fails, expires or is delivered twice, money that is
\* missing from the ledger can be found.
PaidIsTraceable ==
  \A o \in Orders : orders[o] = "PAID" =>
    \E e \in Events :
      /\ OrderOf(e) = o
      /\ bookings[e] > 0 \/ attempts[e] > 0 \/ \E i \in pending : stream[i] = e

\* Whatever interleaves, a refund is applied only to an order that was paid:
\* none skips from CREATED, or from not existing, to REFUNDED.
RefundFollowsPayment ==
  [][\A o \in Orders :
       orders'[o] = "REFUNDED" => orders[o] \in {"PAID", "REFUNDED"}]_vars

\* Every published event gets a final verdict, whatever fails inside run().
Concluded(e) == state[e] \in {"MATCHED", "MISMATCHED", "DEAD_LETTERED"}

EventuallyConcluded ==
  \A e \in Events : Published(e) ~> [](Concluded(e))

\* A failure between the order-status write and the ledger transaction is made
\* good by the retries (reconciliation-runner.service.ts:59-64): at rest a paid
\* order is a booked one.
PartialFailureTolerated ==
  AtRest => \A o \in Orders :
    orders[o] = "PAID" => \E e \in Events : OrderOf(e) = o /\ bookings[e] > 0

\* The worker re-resolves the order "on each attempt and backfills the column
\* once the order shows up" (README.md:216): at rest, no event that was judged
\* is detached from an order that exists.
LateOrderIsBackfilled ==
  AtRest => \A e \in Events :
    Concluded(e) /\ orders[OrderOf(e)] # Absent => attached[e]
=============================================================================
