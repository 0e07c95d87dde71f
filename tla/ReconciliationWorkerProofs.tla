--------------------- MODULE ReconciliationWorkerProofs ---------------------
(***************************************************************************)
(* Theorems about ReconciliationWorker for every number of workers, events *)
(* and orders, every payment and every bound.                              *)
(***************************************************************************)
EXTENDS ReconciliationWorker, FiniteSetTheorems, TLAPS

USE DEF Absent, NoUpdate

-----------------------------------------------------------------------------
(***************************************************************************)
(* What reconcile() returns.                                               *)
(***************************************************************************)
\* reconcile() returns a verdict, reasons and a status update of their types.
LEMMA ReconcileType ==
  ASSUME NEW payment, payment.gatewayStatus \in PaymentStatus,
         NEW order, NEW threshold
  PROVE  LET r == Reconcile(payment, order, threshold)
         IN  /\ r.state \in ReconciliationState
             /\ r.mismatches \in SUBSET MismatchReason
             /\ r.update \in OrderStatus \cup {NoUpdate}
  BY DEF Reconcile, Mismatches, Verdict, OrderStatusUpdate, PaymentStatus,
         ReconciliationState, MismatchReason, OrderStatus

-----------------------------------------------------------------------------
(***************************************************************************)
(* Type correctness.                                                       *)
(***************************************************************************)
\* The message a busy worker handles is an entry of the stream.
LEMMA CurrentIsEvent ==
  ASSUME TypeOK, NEW w \in Workers, pc[w] \in Busy
  PROVE  /\ job[w].cur \in 1 .. lastDelivered
         /\ Current(w) \in Events
         /\ OrderOf(Current(w)) \in Orders
  <1>1. job[w].cur \in 1 .. lastDelivered
    BY DEF TypeOK, RedisOK, LocalOK, BatchOK, Job
  <1>2. stream \in Seq(Events) /\ lastDelivered \in 0 .. Len(stream)
    BY DEF TypeOK, RedisOK
  <1>3. Current(w) \in Events
    BY <1>1, <1>2 DEF Current
  <1>4. OrderOf(Current(w)) \in Orders
    BY <1>3, WorkerAssumption DEF OrderOf
  <1> QED
    BY <1>1, <1>3, <1>4

\* The result a worker computes for its message has its type.
LEMMA ResultType ==
  ASSUME TypeOK, NEW w \in Workers, pc[w] \in Busy, NEW seen
  PROVE  /\ Result(w, seen).state \in ReconciliationState
         /\ Result(w, seen).mismatches \in SUBSET MismatchReason
         /\ Result(w, seen).update \in OrderStatus \cup {NoUpdate}
  <1>1. Payment[Current(w)].gatewayStatus \in PaymentStatus
    BY CurrentIsEvent, WorkerAssumption
  <1> QED
    BY <1>1, ReconcileType DEF Result

\* What a fresh or forgotten job is.
LEMMA BatchType ==
  ASSUME NEW first \in Nat \ {0}, NEW last \in Nat
  PROVE  /\ Batch(first, last) \in Job
         /\ Batch(first, last).cur = first
         /\ Batch(first, last).end = last
  BY DEF Batch, Job

\* An exception leaves the worker where it is caught, with its batch or none.
LEMMA ThrowsType ==
  ASSUME TypeOK, NEW w \in Workers, Throws(w),
         lastDelivered' \in Nat, lastDelivered' >= lastDelivered, UNCHANGED promotion,
         pc[w] \in Busy \cup {"read"}
  PROVE  LocalOK' /\ BatchOK'
  <1>1. OnThrow(pc[w]) \in {"fail", "releaseThrow", "read"}
    BY DEF OnThrow
  <1>2. OnThrow(pc[w]) = "read" \/ pc[w] \in Busy
    BY DEF OnThrow, Busy, Holding
  <1>3. /\ {"fail", "releaseThrow", "read"} \subseteq Labels
        /\ "read" \notin Busy
    BY DEF Labels, Busy, Holding, RunSites, FailureSites
  <1>4. /\ NoJob \in Job
        /\ NoJob.end = 0
        /\ Forget(job[w]) \in Job
        /\ Forget(job[w]).cur = job[w].cur
        /\ Forget(job[w]).end = job[w].end
    <2>1. job[w].cur \in Nat \ {0} /\ job[w].end \in Nat
      BY DEF TypeOK, LocalOK, Job
    <2> QED
      BY <2>1, BatchType, 1 \in Nat \ {0}, 0 \in Nat DEF NoJob, Forget
  <1>5. LocalOK'
    BY <1>1, <1>3, <1>4 DEF TypeOK, LocalOK, Throws
  <1>6. BatchOK'
    <2> SUFFICES ASSUME NEW v \in Workers
                 PROVE  /\ job'[v].end <= lastDelivered'
                        /\ pc'[v] \in Busy => job'[v].cur <= job'[v].end
      BY DEF BatchOK
    <2>0. /\ job[v].end <= lastDelivered'
          /\ pc[v] \in Busy => job[v].cur <= job[v].end
      BY DEF TypeOK, LocalOK, RedisOK, BatchOK, Job
    <2>1. CASE v # w
      BY <2>0, <2>1 DEF TypeOK, LocalOK, Throws
    <2>2. CASE v = w
      BY <2>0, <2>2, <1>1, <1>2, <1>3, <1>4 DEF TypeOK, LocalOK, Throws
    <2> QED
      BY <2>1, <2>2
  <1> QED
    BY <1>5, <1>6

\* A call that returns or throws leaves the worker at a label with a batch of
\* delivered entries.
LEMMA ReturnsType ==
  ASSUME TypeOK, NEW w \in Workers, pc[w] \in Busy \cup {"read"},
         NEW next \in Labels, NEW j \in Job, Returns(w, next, j),
         lastDelivered' \in Nat, lastDelivered' >= lastDelivered,
         j.end <= lastDelivered', next \in Busy => j.cur <= j.end,
         UNCHANGED promotion
  PROVE  LocalOK' /\ BatchOK' /\ faults' \in Nat
  <1>1. CASE Fails(w)
    BY <1>1, ThrowsType DEF TypeOK, BudgetsOK, Fails
  <1>2. CASE ~Fails(w)
    <2>1. /\ pc' = [pc EXCEPT ![w] = next]
          /\ job' = [job EXCEPT ![w] = j]
          /\ faults' = faults
      BY <1>2 DEF Returns
    <2>2. LocalOK'
      BY <2>1 DEF TypeOK, LocalOK
    <2>3. BatchOK'
      BY <2>1 DEF TypeOK, LocalOK, RedisOK, BatchOK, Job
    <2> QED
      BY <2>1, <2>2, <2>3 DEF TypeOK, BudgetsOK
  <1> QED
    BY <1>1, <1>2

\* The same for a step of the handler that stays with its message, ...
LEMMA HandlerStepType ==
  ASSUME TypeOK, NEW w \in Workers, pc[w] \in Busy,
         NEW next \in Labels, NEW j \in Job, Returns(w, next, j),
         j.cur = job[w].cur, j.end = job[w].end,
         UNCHANGED <<lastDelivered, promotion>>
  PROVE  LocalOK' /\ BatchOK' /\ faults' \in Nat
  <1>1. job[w].end <= lastDelivered /\ job[w].cur <= job[w].end /\ lastDelivered \in Nat
    BY DEF TypeOK, BatchOK, RedisOK
  <1> QED
    BY <1>1, ReturnsType

\* ... and for one that leaves it for the next of the batch.
LEMMA NextMessageType ==
  ASSUME TypeOK, NEW w \in Workers, pc[w] \in Busy,
         Returns(w, NextLabel(w), NextJob(w)), UNCHANGED <<lastDelivered, promotion>>
  PROVE  LocalOK' /\ BatchOK' /\ faults' \in Nat
  <1>1. /\ job[w].cur \in Nat \ {0}
        /\ job[w].end \in Nat
        /\ lastDelivered \in Nat
        /\ job[w].end <= lastDelivered
        /\ job[w].cur <= job[w].end
    BY DEF TypeOK, LocalOK, BatchOK, RedisOK, Job
  <1>2. {"read", "acquire"} \subseteq Labels /\ "read" \notin Busy
    BY DEF Labels, Busy, Holding, RunSites, FailureSites
  <1>3. CASE LastOfBatch(w)
    <2>1. NoJob \in Job /\ NoJob.end = 0
      BY BatchType, 1 \in Nat \ {0}, 0 \in Nat DEF NoJob
    <2> QED
      BY <1>1, <1>2, <1>3, <2>1, ReturnsType DEF NextLabel, NextJob
  <1>4. CASE ~LastOfBatch(w)
    <2>1. job[w].cur + 1 \in Nat \ {0} /\ job[w].cur + 1 <= job[w].end
      BY <1>1, <1>4 DEF LastOfBatch
    <2>2. /\ NextJob(w) \in Job
          /\ NextJob(w).cur = job[w].cur + 1
          /\ NextJob(w).end = job[w].end
      BY <1>1, <1>4, <2>1, BatchType DEF NextJob
    <2> QED
      BY <1>1, <1>2, <1>4, <2>1, <2>2, ReturnsType DEF NextLabel
  <1> QED
    BY <1>3, <1>4

USE DEF postgres, redis, local, budgets

\* A worker reaches the status write only with a status to write.
StatusInv ==
  \A w \in Workers :
    pc[w] = "status" => Result(w, job[w].seen).update # NoUpdate

\* Where the run goes on after a verdict.
LEMMA AfterReconcileLabel ==
  ASSUME NEW result
  PROVE  /\ AfterReconcile(result) \in {"mismatch", "mark", "status"}
         /\ AfterMismatches(result) \in {"mark", "status"}
  BY DEF AfterReconcile, AfterMismatches

\* The initial state has its type.
LEMMA InitType == ASSUME Init PROVE TypeOK
  <1>1. NoJob \in Job /\ NoJob.end = 0
    BY BatchType, 1 \in Nat \ {0}, 0 \in Nat DEF NoJob
  <1>2. "read" \in Labels /\ "read" \notin Busy
    BY DEF Labels, Busy, Holding, RunSites, FailureSites
  <1>3. PostgresOK
    BY DEF Init, PostgresOK, OrderStatus, ReconciliationState, MismatchReason
  <1>4. RedisOK /\ BudgetsOK
    BY DEF Init, RedisOK, BudgetsOK
  <1>5. LocalOK /\ BatchOK
    BY <1>1, <1>2 DEF Init, LocalOK, BatchOK, Idle
  <1> QED
    BY <1>3, <1>4, <1>5 DEF TypeOK

\* Each step of a worker's loop preserves the type invariant.
LEMMA StepType ==
  ASSUME TypeOK, StatusInv, NEW w \in Workers, Step(w)
  PROVE  TypeOK'
  <1> USE DEF TypeOK
  <1>0. /\ Busy \subseteq Labels
        /\ {"read", "acquire", "skip", "find", "resolve", "attach", "mismatch",
            "status", "book", "mark", "ack", "fail", "failAck", "dead", "deadMark",
            "failed", "schedule", "release", "releaseThrow"} \subseteq Labels
        /\ {"acquire", "skip", "find", "resolve", "attach", "mismatch",
            "status", "book", "mark", "ack", "fail", "failAck", "dead", "deadMark",
            "failed", "schedule", "release", "releaseThrow"} \subseteq Busy
    BY DEF Labels, Busy, Holding, RunSites, FailureSites
  <1>j. /\ job[w] \in Job
        /\ job[w].cur \in Nat \ {0}
        /\ job[w].end \in Nat
        /\ Forget(job[w]) \in Job
        /\ Forget(job[w]).cur = job[w].cur
        /\ Forget(job[w]).end = job[w].end
    BY BatchType DEF LocalOK, Job, Forget
  <1>r. CASE Read(w)
    <2> DEFINE last == lastDelivered + Smaller(BatchSize, Len(stream) - lastDelivered)
               j == Batch(lastDelivered + 1, last)
    <2>1. /\ last \in Nat
          /\ last > lastDelivered
          /\ last <= Len(stream)
          /\ lastDelivered + 1 \in Nat \ {0}
      <3>1. BatchSize \in Nat \ {0}
        BY WorkerAssumption
      <3>2. lastDelivered \in Nat /\ Len(stream) \in Nat /\ lastDelivered < Len(stream)
        BY <1>r DEF Read, RedisOK
      <3> QED
        BY <3>1, <3>2 DEF Smaller
    <2>2. /\ j \in Job
          /\ j.cur = lastDelivered + 1
          /\ j.end = last
      BY <2>1, BatchType
    <2>3. /\ lastDelivered' = last
          /\ pending' = pending \cup (lastDelivered + 1 .. last)
          /\ Returns(w, "acquire", j)
          /\ UNCHANGED <<postgres, stream, lock, retries, promotion, exits, overruns, deliveries>>
          /\ pc[w] = "read"
      BY <1>r DEF Read
    <2> HIDE DEF last, j
    <2>4. LocalOK' /\ BatchOK' /\ faults' \in Nat
      <3>1. lastDelivered \in Nat
        BY DEF RedisOK
      <3>2. lastDelivered' >= lastDelivered /\ j.cur <= j.end /\ j.end <= lastDelivered'
        BY <2>1, <2>2, <2>3, <3>1
      <3> QED
        BY <1>0, <2>1, <2>2, <2>3, <3>2, ReturnsType
    <2>5. RedisOK'
      BY <2>1, <2>3 DEF RedisOK
    <2> QED
      BY <2>3, <2>4, <2>5 DEF PostgresOK, BudgetsOK
  <1>a. CASE Acquire(w)
    <2>1. pc[w] \in Busy /\ UNCHANGED <<lastDelivered, promotion>>
      BY <1>a, <1>0 DEF Acquire
    <2>2. Current(w) \in Events
      BY <2>1, CurrentIsEvent
    <2>3. LocalOK' /\ BatchOK' /\ faults' \in Nat
      BY <1>a, <1>0, <1>j, <2>1, HandlerStepType DEF Acquire
    <2>4. PostgresOK' /\ RedisOK'
      BY <1>a, <2>1, <2>2 DEF Acquire, PostgresOK, RedisOK
    <2> QED
      BY <1>a, <2>3, <2>4 DEF Acquire, BudgetsOK
  <1>s. CASE Skip(w)
    <2>1. pc[w] \in Busy /\ UNCHANGED <<lastDelivered, promotion>>
      BY <1>s, <1>0 DEF Skip, Acked
    <2>2. Current(w) \in Events
      BY <2>1, CurrentIsEvent
    <2>3. LocalOK' /\ BatchOK' /\ faults' \in Nat
      BY <1>s, <1>0, <1>j, <2>1, NextMessageType DEF Skip, Acked
    <2>4. PostgresOK' /\ RedisOK'
      BY <1>s, <2>1, <2>2 DEF Skip, Acked, PostgresOK, RedisOK
    <2> QED
      BY <1>s, <2>3, <2>4 DEF Skip, Acked, BudgetsOK
  <1>f. CASE Find(w)
    <2> DEFINE j == [job[w] EXCEPT !.known = attached[Current(w)]]
    <2>1. pc[w] \in Busy /\ UNCHANGED <<lastDelivered, promotion>>
      BY <1>f, <1>0 DEF Find
    <2>2. Current(w) \in Events
      BY <2>1, CurrentIsEvent
    <2>3. j \in Job /\ j.cur = job[w].cur /\ j.end = job[w].end
      BY <1>j, <2>2 DEF PostgresOK, Job
    <2>4. Returns(w, "resolve", j) /\ UNCHANGED <<postgres, redis, exits, overruns, deliveries>>
      BY <1>f DEF Find
    <2> HIDE DEF j
    <2>5. LocalOK' /\ BatchOK' /\ faults' \in Nat
      BY <1>0, <2>1, <2>3, <2>4, HandlerStepType
    <2> QED
      BY <2>4, <2>5 DEF PostgresOK, RedisOK, BudgetsOK
  <1>v. CASE Resolve(w)
    <2> DEFINE seen == orders[OrderOf(Current(w))]
               j == [job[w] EXCEPT !.seen = seen]
               next == IF seen # Absent /\ ~job[w].known
                       THEN "attach" ELSE AfterReconcile(Result(w, seen))
    <2>1. pc[w] \in Busy /\ UNCHANGED <<lastDelivered, promotion>>
      BY <1>v, <1>0 DEF Resolve
    <2>2. seen \in OrderStatus \cup {Absent}
      BY <2>1, CurrentIsEvent DEF PostgresOK
    <2>3. j \in Job /\ j.cur = job[w].cur /\ j.end = job[w].end
      BY <1>j, <2>2 DEF Job
    <2>4. next \in Labels
      BY <1>0, AfterReconcileLabel
    <2>5. Returns(w, next, j) /\ UNCHANGED <<postgres, redis, exits, overruns, deliveries>>
      BY <1>v DEF Resolve
    <2> HIDE DEF j, next, seen
    <2>6. LocalOK' /\ BatchOK' /\ faults' \in Nat
      BY <2>1, <2>3, <2>4, <2>5, HandlerStepType
    <2> QED
      BY <2>5, <2>6 DEF PostgresOK, RedisOK, BudgetsOK
  <1>t. CASE Attach(w)
    <2>1. pc[w] \in Busy /\ UNCHANGED <<lastDelivered, promotion>>
      BY <1>t, <1>0 DEF Attach
    <2>2. Current(w) \in Events
      BY <2>1, CurrentIsEvent
    <2>3. LocalOK' /\ BatchOK' /\ faults' \in Nat
      BY <1>t, <1>0, <1>j, <2>1, HandlerStepType, AfterReconcileLabel DEF Attach
    <2>4. PostgresOK' /\ RedisOK'
      BY <1>t, <2>1, <2>2 DEF Attach, PostgresOK, RedisOK
    <2> QED
      BY <1>t, <2>3, <2>4 DEF Attach, BudgetsOK
  <1>m. CASE RecordMismatches(w)
    <2>1. pc[w] \in Busy /\ UNCHANGED <<lastDelivered, promotion>>
      BY <1>m, <1>0 DEF RecordMismatches
    <2>2. Current(w) \in Events
      BY <2>1, CurrentIsEvent
    <2>3. LocalOK' /\ BatchOK' /\ faults' \in Nat
      BY <1>m, <1>0, <1>j, <2>1, HandlerStepType, AfterReconcileLabel DEF RecordMismatches
    <2>4. PostgresOK' /\ RedisOK'
      BY <1>m, <2>1, <2>2, ResultType DEF RecordMismatches, PostgresOK, RedisOK
    <2> QED
      BY <1>m, <2>3, <2>4 DEF RecordMismatches, BudgetsOK
  <1>u. CASE UpdateStatus(w)
    <2>1. pc[w] \in Busy /\ pc[w] = "status" /\ UNCHANGED <<lastDelivered, promotion>>
      BY <1>u, <1>0 DEF UpdateStatus
    <2>2. OrderOf(Current(w)) \in Orders
      BY <2>1, CurrentIsEvent
    <2>3. LocalOK' /\ BatchOK' /\ faults' \in Nat
      BY <1>u, <1>0, <1>j, <2>1, HandlerStepType DEF UpdateStatus, AfterStatus
    <2>4. Result(w, job[w].seen).update \in OrderStatus
      BY <2>1, ResultType DEF StatusInv
    <2>5. PostgresOK' /\ RedisOK'
      BY <1>u, <2>1, <2>2, <2>4 DEF UpdateStatus, PostgresOK, RedisOK
    <2> QED
      BY <1>u, <2>3, <2>5 DEF UpdateStatus, BudgetsOK
  <1>b. CASE Book(w)
    <2>1. pc[w] \in Busy /\ UNCHANGED <<lastDelivered, promotion>>
      BY <1>b, <1>0 DEF Book
    <2>2. Current(w) \in Events
      BY <2>1, CurrentIsEvent
    <2>3. LocalOK' /\ BatchOK' /\ faults' \in Nat
      BY <1>b, <1>0, <1>j, <2>1, HandlerStepType DEF Book
    <2>4. PostgresOK' /\ RedisOK'
      <3>1. Result(w, job[w].seen).state \in ReconciliationState
        BY <2>1, ResultType
      <3>2. bookings[Current(w)] + 1 \in Nat
        BY <2>2 DEF PostgresOK
      <3> QED
        BY <1>b, <2>2, <3>1, <3>2 DEF Book, PostgresOK, RedisOK
    <2> QED
      BY <1>b, <2>3, <2>4 DEF Book, BudgetsOK
  <1>p. CASE MarkProcessed(w)
    <2>1. pc[w] \in Busy /\ UNCHANGED <<lastDelivered, promotion>>
      BY <1>p, <1>0 DEF MarkProcessed
    <2>2. Current(w) \in Events
      BY <2>1, CurrentIsEvent
    <2>3. LocalOK' /\ BatchOK' /\ faults' \in Nat
      BY <1>p, <1>0, <1>j, <2>1, HandlerStepType DEF MarkProcessed
    <2>4. PostgresOK' /\ RedisOK'
      BY <1>p, <2>1, <2>2, ResultType DEF MarkProcessed, PostgresOK, RedisOK
    <2> QED
      BY <1>p, <2>3, <2>4 DEF MarkProcessed, BudgetsOK
  <1>k. CASE Ack(w)
    <2>1. pc[w] \in Busy /\ UNCHANGED <<lastDelivered, promotion>>
      BY <1>k, <1>0 DEF Ack, Acked
    <2>2. Current(w) \in Events
      BY <2>1, CurrentIsEvent
    <2>3. LocalOK' /\ BatchOK' /\ faults' \in Nat
      BY <1>k, <1>0, <1>j, <2>1, HandlerStepType DEF Ack, Acked
    <2>4. PostgresOK' /\ RedisOK'
      BY <1>k, <2>1, <2>2 DEF Ack, Acked, PostgresOK, RedisOK
    <2> QED
      BY <1>k, <2>3, <2>4 DEF Ack, Acked, BudgetsOK
  <1>i. CASE IncrementAttempts(w)
    <2> DEFINE j == [job[w] EXCEPT !.tries = attempts[Current(w)] + 1]
    <2>1. pc[w] \in Busy /\ UNCHANGED <<lastDelivered, promotion>>
      BY <1>i, <1>0 DEF IncrementAttempts
    <2>2. Current(w) \in Events
      BY <2>1, CurrentIsEvent
    <2>3. j \in Job /\ j.cur = job[w].cur /\ j.end = job[w].end
      BY <1>j, <2>2 DEF PostgresOK, Job
    <2>4. Returns(w, "failAck", j)
      BY <1>i DEF IncrementAttempts
    <2> HIDE DEF j
    <2>5. LocalOK' /\ BatchOK' /\ faults' \in Nat
      BY <1>0, <2>1, <2>3, <2>4, HandlerStepType
    <2>6. PostgresOK' /\ RedisOK'
      BY <1>i, <2>2 DEF IncrementAttempts, PostgresOK, RedisOK
    <2> QED
      BY <1>i, <2>5, <2>6 DEF IncrementAttempts, BudgetsOK
  <1>n. CASE AckFailed(w)
    <2>1. pc[w] \in Busy /\ UNCHANGED <<lastDelivered, promotion>>
      BY <1>n, <1>0 DEF AckFailed, Acked
    <2>2. Current(w) \in Events
      BY <2>1, CurrentIsEvent
    <2>3. LocalOK' /\ BatchOK' /\ faults' \in Nat
      BY <1>n, <1>0, <1>j, <2>1, HandlerStepType DEF AckFailed, Acked
    <2>4. PostgresOK' /\ RedisOK'
      BY <1>n, <2>1, <2>2 DEF AckFailed, Acked, PostgresOK, RedisOK
    <2> QED
      BY <1>n, <2>3, <2>4 DEF AckFailed, Acked, BudgetsOK
  <1>d. CASE DeadLetter(w)
    <2>1. pc[w] \in Busy /\ UNCHANGED <<lastDelivered, promotion>>
      BY <1>d, <1>0 DEF DeadLetter
    <2>2. Current(w) \in Events
      BY <2>1, CurrentIsEvent
    <2>3. LocalOK' /\ BatchOK' /\ faults' \in Nat
      <3>1. lastDelivered \in Nat
        BY DEF RedisOK
      <3>2. CASE Returns(w, "deadMark", job[w])
        BY <1>0, <1>j, <2>1, <3>2, HandlerStepType
      <3>3. CASE Throws(w) /\ UNCHANGED faults
        BY <2>1, <3>1, <3>3, ThrowsType DEF BudgetsOK
      <3> QED
        BY <1>d, <3>2, <3>3 DEF DeadLetter
    <2>4. PostgresOK' /\ RedisOK'
      BY <1>d, <2>2 DEF DeadLetter, PostgresOK, RedisOK
    <2> QED
      BY <1>d, <2>3, <2>4 DEF DeadLetter, BudgetsOK
  <1>e. CASE MarkDeadLettered(w)
    <2>1. pc[w] \in Busy /\ UNCHANGED <<lastDelivered, promotion>>
      BY <1>e, <1>0 DEF MarkDeadLettered
    <2>2. Current(w) \in Events
      BY <2>1, CurrentIsEvent
    <2>3. LocalOK' /\ BatchOK' /\ faults' \in Nat
      BY <1>e, <1>0, <1>j, <2>1, HandlerStepType DEF MarkDeadLettered
    <2>4. PostgresOK' /\ RedisOK'
      BY <1>e, <2>1, <2>2 DEF MarkDeadLettered, ReconciliationState, PostgresOK, RedisOK
    <2> QED
      BY <1>e, <2>3, <2>4 DEF MarkDeadLettered, BudgetsOK
  <1>g. CASE MarkFailed(w)
    <2>1. pc[w] \in Busy /\ UNCHANGED <<lastDelivered, promotion>>
      BY <1>g, <1>0 DEF MarkFailed
    <2>2. Current(w) \in Events
      BY <2>1, CurrentIsEvent
    <2>3. LocalOK' /\ BatchOK' /\ faults' \in Nat
      BY <1>g, <1>0, <1>j, <2>1, HandlerStepType DEF MarkFailed
    <2>4. PostgresOK' /\ RedisOK'
      BY <1>g, <2>1, <2>2 DEF MarkFailed, ReconciliationState, PostgresOK, RedisOK
    <2> QED
      BY <1>g, <2>3, <2>4 DEF MarkFailed, BudgetsOK
  <1>h. CASE ScheduleRetry(w)
    <2>1. pc[w] \in Busy /\ UNCHANGED <<lastDelivered, promotion>>
      BY <1>h, <1>0 DEF ScheduleRetry, Scheduled
    <2>2. Current(w) \in Events
      BY <2>1, CurrentIsEvent
    <2>3. LocalOK' /\ BatchOK' /\ faults' \in Nat
      BY <1>h, <1>0, <1>j, <2>1, HandlerStepType DEF ScheduleRetry, Scheduled
    <2>4. PostgresOK' /\ RedisOK'
      BY <1>h, <2>1, <2>2 DEF ScheduleRetry, Scheduled, PostgresOK, RedisOK
    <2> QED
      BY <1>h, <2>3, <2>4 DEF ScheduleRetry, Scheduled, BudgetsOK
  <1>l. CASE Release(w)
    <2>1. pc[w] \in Busy /\ UNCHANGED <<lastDelivered, promotion>>
      BY <1>l, <1>0 DEF Release
    <2>2. Current(w) \in Events
      BY <2>1, CurrentIsEvent
    <2>3. LocalOK' /\ BatchOK' /\ faults' \in Nat
      <3>1. lastDelivered \in Nat
        BY DEF RedisOK
      <3>2. CASE Returns(w, NextLabel(w), NextJob(w))
        BY <2>1, <3>2, NextMessageType
      <3>3. CASE Throws(w) /\ UNCHANGED faults
        BY <2>1, <3>1, <3>3, ThrowsType DEF BudgetsOK
      <3> QED
        BY <1>l, <3>2, <3>3 DEF Release
    <2>4. PostgresOK' /\ RedisOK'
      BY <1>l, <2>2 DEF Release, CompareAndDelete, PostgresOK, RedisOK
    <2> QED
      BY <1>l, <2>3, <2>4 DEF Release, BudgetsOK
  <1> QED
    BY <1>r, <1>a, <1>s, <1>f, <1>v, <1>t, <1>m, <1>u, <1>b, <1>p, <1>k, <1>i, <1>n,
       <1>d, <1>e, <1>g, <1>h, <1>l DEF Step

\* A rejected call, and what happens beside the loops, preserve it too.
LEMMA OtherStepsType ==
  ASSUME TypeOK, [Next]_vars, ~\E w \in Workers : Step(w)
  PROVE  TypeOK'
  <1> USE DEF TypeOK
  <1>0. /\ {"read", "down"} \subseteq Labels
        /\ "read" \notin Busy /\ "down" \notin Busy
        /\ "down" \notin FaultSites
    BY WorkerAssumption DEF Labels, Busy, Holding, RunSites, FailureSites, Sites
  <1>j. NoJob \in Job /\ NoJob.end = 0
    BY BatchType, 1 \in Nat \ {0}, 0 \in Nat DEF NoJob
  <1>1. ASSUME NEW w \in Workers, Rejected(w)
        PROVE  TypeOK'
    <2>1. /\ Throws(w)
          /\ faults' = faults + 1
          /\ UNCHANGED <<postgres, redis, promotion, exits, overruns, deliveries>>
          /\ pc[w] \in FaultSites
      BY <1>1 DEF Rejected, Fails
    <2>2. pc[w] \in Busy \cup {"read"}
      BY <2>1, <1>0 DEF LocalOK, Labels
    <2>3. lastDelivered \in Nat
      BY DEF RedisOK
    <2>4. LocalOK' /\ BatchOK'
      BY <2>1, <2>2, <2>3, ThrowsType
    <2>5. PostgresOK' /\ RedisOK'
      BY <2>1 DEF PostgresOK, RedisOK
    <2>6. BudgetsOK'
      BY <2>1 DEF BudgetsOK
    <2> QED
      BY <2>4, <2>5, <2>6
  <1>2. ASSUME NEW w \in Workers, PullDue(w)
        PROVE  TypeOK'
    <2>1. PICK due \in SUBSET Due : promotion' = [promotion EXCEPT ![w].due = due]
      BY <1>2 DEF PullDue
    <2>2. due \subseteq Events
      BY DEF Due, RedisOK
    <2>3. LocalOK'
      BY <1>2, <2>1, <2>2 DEF PullDue, LocalOK
    <2> QED
      BY <1>2, <2>3 DEF PullDue, PostgresOK, RedisOK, BatchOK, BudgetsOK
  <1>3. ASSUME NEW w \in Workers, RemoveDue(w)
        PROVE  TypeOK'
    BY <1>3 DEF RemoveDue, PostgresOK, RedisOK, LocalOK, BatchOK, BudgetsOK
  <1>4. ASSUME NEW w \in Workers, Republish(w)
        PROVE  TypeOK'
    <2>1. PICK e \in promotion[w].due :
            /\ stream' = Append(stream, e)
            /\ promotion' = [promotion EXCEPT ![w] = Without(@, e)]
      BY <1>4 DEF Republish
    <2>2. e \in Events
      BY DEF LocalOK
    <2>3. RedisOK'
      BY <1>4, <2>1, <2>2 DEF Republish, RedisOK
    <2>4. LocalOK'
      BY <1>4, <2>1 DEF Republish, LocalOK, Without, Idle
    <2> QED
      BY <1>4, <2>3, <2>4 DEF Republish, PostgresOK, BatchOK, BudgetsOK
  <1>5. ASSUME NEW w \in Workers, Crash(w) \/ Stop(w) \/ PromotionThrows(w)
        PROVE  TypeOK'
    <2>1. Dies(w) /\ BudgetsOK'
      BY <1>5 DEF Crash, Stop, PromotionThrows, BudgetsOK
    <2>2. LocalOK'
      BY <2>1, <1>0, <1>j DEF Dies, LocalOK, Idle
    <2>3. BatchOK'
      BY <2>1, <1>0, <1>j DEF Dies, LocalOK, BatchOK, RedisOK
    <2> QED
      BY <2>1, <2>2, <2>3 DEF Dies, PostgresOK, RedisOK
  <1>6. ASSUME NEW w \in Workers, Restart(w)
        PROVE  TypeOK'
    BY <1>6, <1>0 DEF Restart, PostgresOK, RedisOK, LocalOK, BatchOK, BudgetsOK
  <1>7. ASSUME NEW e \in Events, Expire(e)
        PROVE  TypeOK'
    BY <1>7 DEF Expire, PostgresOK, RedisOK, LocalOK, BatchOK, BudgetsOK
  <1>8. ASSUME NEW e \in Events, Store(e)
        PROVE  TypeOK'
    <2>1. state' \in [Events -> ReconciliationState \cup {Absent}]
      BY <1>8 DEF Store, PostgresOK, ReconciliationState
    <2>2. attached' \in [Events -> BOOLEAN]
      <3>1. PICK found \in BOOLEAN : attached' = [attached EXCEPT ![e] = found]
        BY <1>8 DEF Store
      <3> QED
        BY <3>1 DEF PostgresOK
    <2>3. PostgresOK'
      BY <1>8, <2>1, <2>2 DEF Store, PostgresOK
    <2>4. RedisOK'
      BY <1>8 DEF Store, RedisOK
    <2>5. LocalOK' /\ BatchOK' /\ BudgetsOK'
      BY <1>8 DEF Store, LocalOK, BatchOK, BudgetsOK
    <2> QED
      BY <2>3, <2>4, <2>5
  <1>p. ASSUME NEW e \in Events, Publish(e)
        PROVE  TypeOK'
    <2>1. RedisOK'
      BY <1>p DEF Publish, RedisOK
    <2> QED
      BY <1>p, <2>1 DEF Publish, PostgresOK, LocalOK, BatchOK, BudgetsOK
  <1>9. ASSUME NEW o \in Orders, CreateOrder(o)
        PROVE  TypeOK'
    BY <1>9 DEF CreateOrder, PostgresOK, RedisOK, LocalOK, BatchOK, BudgetsOK, OrderStatus
  <1>10. CASE UNCHANGED vars
    BY <1>10 DEF vars, PostgresOK, RedisOK, LocalOK, BatchOK, BudgetsOK
  <1> QED
    BY <1>1, <1>2, <1>3, <1>4, <1>5, <1>6, <1>7, <1>8, <1>p, <1>9, <1>10
       DEF Next, Promote

-----------------------------------------------------------------------------
(***************************************************************************)
(* What one step can do to a worker, whoever takes it.                     *)
(***************************************************************************)
\* The stream only grows: an id keeps naming the same event.
LEMMA StreamGrows ==
  ASSUME TypeOK, [Next]_vars, NEW i \in 1 .. Len(stream)
  PROVE  stream'[i] = stream[i]
  <1>1. stream \in Seq(Events)
    BY DEF TypeOK, RedisOK
  <1>2. \/ UNCHANGED stream
        \/ \E e \in Events : stream' = Append(stream, e)
    <2>1. ASSUME NEW w \in Workers, Step(w) \/ Rejected(w)
          PROVE  UNCHANGED stream
      BY <2>1 DEF Step, Read, Acquire, Skip, Find, Resolve, Attach, RecordMismatches,
           UpdateStatus, Book, MarkProcessed, Ack, IncrementAttempts, AckFailed,
           DeadLetter, MarkDeadLettered, MarkFailed, ScheduleRetry, Release, Rejected
    <2>2. ASSUME NEW w \in Workers, Republish(w)
          PROVE  \E e \in Events : stream' = Append(stream, e)
      BY <2>2 DEF Republish, TypeOK, LocalOK
    <2>3. ASSUME NEW w \in Workers,
                 \/ PullDue(w) \/ RemoveDue(w) \/ Crash(w) \/ Stop(w)
                 \/ PromotionThrows(w) \/ Restart(w)
          PROVE  UNCHANGED stream
      BY <2>3 DEF PullDue, RemoveDue, Crash, Stop, PromotionThrows, Dies, Restart
    <2>4. ASSUME NEW e \in Events, Expire(e) \/ Store(e) \/ Publish(e)
          PROVE  UNCHANGED stream \/ stream' = Append(stream, e)
      BY <2>4 DEF Expire, Store, Publish
    <2>5. ASSUME NEW o \in Orders, CreateOrder(o)
          PROVE  UNCHANGED stream
      BY <2>5 DEF CreateOrder
    <2> QED
      BY <2>1, <2>2, <2>3, <2>4, <2>5 DEF Next, Promote, vars
  <1> QED
    BY <1>1, <1>2

\* A worker stands still, takes a step of its own, dies or restarts.
LEMMA WorkerMoves ==
  ASSUME TypeOK, [Next]_vars, NEW v \in Workers
  PROVE  \/ pc'[v] = pc[v] /\ job'[v] = job[v]
         \/ Step(v) \/ Rejected(v)
         \/ pc'[v] = "down" /\ job'[v] = NoJob
         \/ pc[v] = "down" /\ pc'[v] = "read" /\ job'[v] = job[v]
  <1> USE DEF TypeOK, LocalOK
  <1>1. ASSUME NEW w \in Workers, w # v, Step(w) \/ Rejected(w)
        PROVE  pc'[v] = pc[v] /\ job'[v] = job[v]
    <2>1. Throws(w) \/ \E next, j : Returns(w, next, j)
      BY <1>1 DEF Step, Read, Acquire, Skip, Find, Resolve, Attach, RecordMismatches,
           UpdateStatus, Book, MarkProcessed, Ack, IncrementAttempts, AckFailed,
           DeadLetter, MarkDeadLettered, MarkFailed, ScheduleRetry, Release, Rejected,
           Fails
    <2> QED
      BY <1>1, <2>1 DEF Returns, Fails, Throws
  <1>2. ASSUME NEW w \in Workers, Promote(w)
        PROVE  pc'[v] = pc[v] /\ job'[v] = job[v]
    BY <1>2 DEF Promote, PullDue, RemoveDue, Republish
  <1>3. ASSUME NEW w \in Workers, Crash(w) \/ Stop(w) \/ PromotionThrows(w)
        PROVE  \/ pc'[v] = "down" /\ job'[v] = NoJob
               \/ pc'[v] = pc[v] /\ job'[v] = job[v]
    <2>1. Dies(w)
      BY <1>3 DEF Crash, Stop, PromotionThrows
    <2> QED
      BY <2>1 DEF Dies
  <1>4. ASSUME NEW w \in Workers, Restart(w)
        PROVE  \/ pc[v] = "down" /\ pc'[v] = "read" /\ job'[v] = job[v]
               \/ pc'[v] = pc[v] /\ job'[v] = job[v]
    BY <1>4 DEF Restart
  <1>5. ASSUME NEW e \in Events, Expire(e) \/ Store(e) \/ Publish(e)
        PROVE  pc'[v] = pc[v] /\ job'[v] = job[v]
    BY <1>5 DEF Expire, Store, Publish
  <1>6. ASSUME NEW o \in Orders, CreateOrder(o)
        PROVE  pc'[v] = pc[v] /\ job'[v] = job[v]
    BY <1>6 DEF CreateOrder
  <1> QED
    BY <1>1, <1>2, <1>3, <1>4, <1>5, <1>6 DEF Next, vars

\* What a step of worker v does to v: it returns to the next await of the code,
\* with the locals that await needs, or throws.
LEMMA OwnStep ==
  ASSUME TypeOK, NEW v \in Workers, Step(v)
  PROVE  /\ pc[v] \in Busy \cup {"read"}
         /\ \/ Throws(v)
            \/ Read(v) /\ pc'[v] = "acquire"
            \/ Acquire(v) /\ pc'[v] \in {"find", "skip"} /\ job'[v] = job[v]
            \/ pc[v] = "skip" /\ pc'[v] \in {"acquire", "read"}
            \/ pc[v] = "find" /\ pc'[v] = "resolve" /\ job'[v].cur = job[v].cur
            \/ /\ Resolve(v)
               /\ pc'[v] \in {"attach", "mismatch", "mark", "status"}
               /\ job'[v].cur = job[v].cur
               /\ job'[v].seen = orders[OrderOf(Current(v))]
               /\ \/ pc'[v] = "attach"
                  \/ pc'[v] = AfterReconcile(Result(v, job'[v].seen))
            \/ /\ pc[v] = "attach"
               /\ pc'[v] = AfterReconcile(Result(v, job[v].seen))
               /\ job'[v] = job[v]
            \/ /\ RecordMismatches(v)
               /\ pc'[v] = AfterMismatches(Result(v, job[v].seen))
               /\ job'[v] = job[v]
            \/ UpdateStatus(v) /\ pc'[v] = "book" /\ job'[v] = job[v]
            \/ /\ pc[v] \in {"book", "mark"}
               /\ pc'[v] = "ack"
               /\ job'[v].cur = job[v].cur
            \/ pc[v] = "ack" /\ pc'[v] = "release" /\ job'[v] = job[v]
            \/ /\ IncrementAttempts(v)
               /\ pc'[v] = "failAck"
               /\ job'[v].cur = job[v].cur
               /\ job'[v].tries = attempts[Current(v)] + 1
            \/ /\ pc[v] = "failAck"
               /\ pc'[v] = IF Exhausted(v) THEN "dead" ELSE "failed"
               /\ job'[v] = job[v]
            \/ DeadLetter(v) /\ pc'[v] = "deadMark" /\ job'[v] = job[v]
            \/ /\ pc[v] \in {"deadMark", "schedule"}
               /\ pc'[v] = "release"
               /\ job'[v].cur = job[v].cur
            \/ /\ pc[v] = "failed"
               /\ pc'[v] = "schedule"
               /\ job'[v].cur = job[v].cur
            \/ pc[v] = "release" /\ pc'[v] \in {"acquire", "read"}
  <1> USE DEF TypeOK, LocalOK, Fails
  <1>0. {"acquire", "skip", "find", "resolve", "attach", "mismatch",
         "status", "book", "mark", "ack", "fail", "failAck", "dead", "deadMark",
         "failed", "schedule", "release", "releaseThrow"} \subseteq Busy
    BY DEF Busy, Holding, RunSites, FailureSites
  <1>j. job[v] \in Job /\ Forget(job[v]).cur = job[v].cur
    BY DEF Forget, Batch
  <1>1. CASE Read(v)
    BY <1>1, <1>0, <1>j DEF Read, Returns
  <1>2. CASE Acquire(v)
    BY <1>2, <1>0, <1>j DEF Acquire, Returns
  <1>3. CASE Skip(v)
    BY <1>3, <1>0, <1>j DEF Skip, Returns, NextLabel
  <1>4. CASE Find(v)
    BY <1>4, <1>0, <1>j DEF Find, Returns, Job
  <1>5. CASE Resolve(v)
    <2> DEFINE seen == orders[OrderOf(Current(v))]
               j == [job[v] EXCEPT !.seen = seen]
               next == IF seen # Absent /\ ~job[v].known
                       THEN "attach" ELSE AfterReconcile(Result(v, seen))
    <2>1. pc[v] = "resolve" /\ Returns(v, next, j)
      BY <1>5 DEF Resolve
    <2>2. j.cur = job[v].cur /\ j.seen = seen
      BY <1>j DEF Job
    <2>3. \/ next = "attach"
          \/ /\ next = AfterReconcile(Result(v, seen))
             /\ next \in {"mismatch", "mark", "status"}
      BY AfterReconcileLabel
    <2> HIDE DEF next, j, seen
    <2>4. Throws(v) \/ (pc'[v] = next /\ job'[v] = j)
      BY <2>1 DEF Returns
    <2> QED
      BY <1>5, <1>0, <2>1, <2>2, <2>3, <2>4 DEF seen
  <1>6. CASE Attach(v)
    BY <1>6, <1>0, <1>j DEF Attach, Returns
  <1>7. CASE RecordMismatches(v)
    BY <1>7, <1>0, <1>j DEF RecordMismatches, Returns
  <1>8. CASE UpdateStatus(v)
    BY <1>8, <1>0, <1>j DEF UpdateStatus, Returns, AfterStatus
  <1>9. CASE Book(v)
    BY <1>9, <1>0, <1>j DEF Book, Returns
  <1>10. CASE MarkProcessed(v)
    BY <1>10, <1>0, <1>j DEF MarkProcessed, Returns
  <1>11. CASE Ack(v)
    BY <1>11, <1>0, <1>j DEF Ack, Returns
  <1>12. CASE IncrementAttempts(v)
    <2> DEFINE j == [job[v] EXCEPT !.tries = attempts[Current(v)] + 1]
    <2>1. pc[v] = "fail" /\ Returns(v, "failAck", j)
      BY <1>12 DEF IncrementAttempts
    <2>2. j.cur = job[v].cur /\ j.tries = attempts[Current(v)] + 1
      BY <1>j DEF Job
    <2> HIDE DEF j
    <2> QED
      BY <1>12, <1>0, <2>1, <2>2 DEF Returns
  <1>13. CASE AckFailed(v)
    BY <1>13, <1>0, <1>j DEF AckFailed, Returns
  <1>14. CASE DeadLetter(v)
    BY <1>14, <1>0, <1>j DEF DeadLetter, Returns
  <1>15. CASE MarkDeadLettered(v)
    BY <1>15, <1>0, <1>j DEF MarkDeadLettered, Returns
  <1>16. CASE MarkFailed(v)
    BY <1>16, <1>0, <1>j DEF MarkFailed, Returns
  <1>17. CASE ScheduleRetry(v)
    BY <1>17, <1>0, <1>j DEF ScheduleRetry, Returns
  <1>18. CASE Release(v)
    BY <1>18, <1>0, <1>j DEF Release, Returns, NextLabel
  <1> QED
    BY <1>1, <1>2, <1>3, <1>4, <1>5, <1>6, <1>7, <1>8, <1>9, <1>10, <1>11, <1>12, <1>13, <1>14, <1>15, <1>16, <1>17, <1>18 DEF Step

\* Where v can be after an exception of its own.
LEMMA ThrowStep ==
  ASSUME TypeOK, NEW v \in Workers, Throws(v)
  PROVE  \/ pc[v] \in RunSites /\ pc'[v] = "fail" /\ job'[v].cur = job[v].cur
         \/ pc[v] \in FailureSites /\ pc'[v] = "releaseThrow" /\ job'[v].cur = job[v].cur
         \/ pc'[v] = "read"
  <1>1. Forget(job[v]).cur = job[v].cur
    BY DEF Forget, Batch
  <1> QED
    BY <1>1 DEF TypeOK, LocalOK, Throws, OnThrow

\* While v stays with a message, the message stays the same event.
LEMMA CurrentStable ==
  ASSUME TypeOK, [Next]_vars, NEW v \in Workers, pc[v] \in Busy,
         job'[v].cur = job[v].cur
  PROVE  Current(v)' = Current(v)
  <1>1. job[v].cur \in 1 .. Len(stream)
    BY CurrentIsEvent DEF TypeOK, RedisOK
  <1> QED
    BY <1>1, StreamGrows DEF Current

-----------------------------------------------------------------------------
(***************************************************************************)
(* The status write always has a status to write: TypeOK is inductive      *)
(* together with StatusInv.                                                *)
(***************************************************************************)
\* A worker reaches its status write only with a status to write.
LEMMA StatusStep ==
  ASSUME TypeOK, StatusInv, [Next]_vars
  PROVE  StatusInv'
  <1> SUFFICES ASSUME NEW v \in Workers, pc'[v] = "status"
               PROVE  (Result(v, job[v].seen).update # NoUpdate)'
    BY DEF StatusInv
  <1>0. "status" \in Busy
    BY DEF Busy, Holding, RunSites
  <1>1. \/ pc'[v] = pc[v] /\ job'[v] = job[v]
        \/ Step(v) \/ Rejected(v)
    BY WorkerMoves
  <1>2. /\ pc[v] \in Busy
        /\ job'[v].cur = job[v].cur
        /\ Result(v, job'[v].seen).update # NoUpdate
    <2>1. CASE pc'[v] = pc[v] /\ job'[v] = job[v]
      BY <2>1, <1>0 DEF StatusInv
    <2>2. CASE Rejected(v)
      BY <2>2, ThrowStep DEF Rejected, Fails
    <2>3. CASE Step(v)
      <3>1. \/ /\ Resolve(v)
               /\ job'[v].cur = job[v].cur
               /\ pc'[v] = AfterReconcile(Result(v, job'[v].seen))
            \/ /\ pc[v] = "attach"
               /\ pc'[v] = AfterReconcile(Result(v, job[v].seen))
               /\ job'[v] = job[v]
            \/ /\ RecordMismatches(v)
               /\ pc'[v] = AfterMismatches(Result(v, job[v].seen))
               /\ job'[v] = job[v]
        BY <2>3, OwnStep, ThrowStep
      <3>2. pc[v] \in {"resolve", "attach", "mismatch"}
        BY <3>1 DEF Resolve, RecordMismatches
      <3>3. {"resolve", "attach", "mismatch"} \subseteq Busy
        BY DEF Busy, Holding, RunSites
      <3> QED
        BY <3>1, <3>2, <3>3 DEF AfterReconcile, AfterMismatches
    <2> QED
      BY <1>1, <2>1, <2>2, <2>3
  <1>3. Current(v)' = Current(v)
    BY <1>2, CurrentStable
  <1> QED
    BY <1>2, <1>3 DEF Result

\* Every variable of the worker fleet keeps its type and no worker's batch
\* points outside the stream.
THEOREM TypeCorrect == Spec => []TypeOK
  <1>1. Init => TypeOK /\ StatusInv
    BY InitType DEF Init, StatusInv
  <1>2. TypeOK /\ StatusInv /\ [Next]_vars => TypeOK' /\ StatusInv'
    BY StepType, OtherStepsType, StatusStep
  <1> QED
    BY <1>1, <1>2, PTL DEF Spec

\* No run writes an order status that reconcile() left undefined.
THEOREM StatusCorrect == Spec => []StatusInv
  <1>1. Init => TypeOK /\ StatusInv
    BY InitType DEF Init, StatusInv
  <1>2. TypeOK /\ StatusInv /\ [Next]_vars => TypeOK' /\ StatusInv'
    BY StepType, OtherStepsType, StatusStep
  <1> QED
    BY <1>1, <1>2, PTL DEF Spec

-----------------------------------------------------------------------------
(***************************************************************************)
(* Mutual exclusion per event, until a lock expires under its holder.      *)
(***************************************************************************)
\* Until a lock has expired under its holder, whoever is between acquire and
\* release owns the key.
LockInv ==
  overruns = 0 => \A w \in Workers : pc[w] \in Holding => lock[Current(w)] = w

\* No step takes an overrun back.
LEMMA OverrunsGrow ==
  ASSUME TypeOK, [Next]_vars
  PROVE  overruns \in Nat /\ overruns' \in Nat /\ overruns' >= overruns
  <1>0. overruns \in Nat
    BY DEF TypeOK, BudgetsOK
  <1>1. ASSUME NEW e \in Events, Expire(e)
        PROVE  overruns' = overruns \/ overruns' = overruns + 1
    BY <1>1 DEF Expire
  <1>2. ASSUME NEW w \in Workers, Step(w) \/ Rejected(w)
        PROVE  UNCHANGED overruns
    BY <1>2 DEF Step, Read, Acquire, Skip, Find, Resolve, Attach, RecordMismatches,
         UpdateStatus, Book, MarkProcessed, Ack, IncrementAttempts, AckFailed,
         DeadLetter, MarkDeadLettered, MarkFailed, ScheduleRetry, Release, Rejected
  <1>3. ASSUME NEW w \in Workers,
               \/ Promote(w) \/ Crash(w) \/ Stop(w) \/ PromotionThrows(w) \/ Restart(w)
        PROVE  UNCHANGED overruns
    BY <1>3 DEF Promote, PullDue, RemoveDue, Republish, Crash, Stop, PromotionThrows,
         Dies, Restart
  <1>4. ASSUME NEW e \in Events, Store(e) \/ Publish(e)
        PROVE  UNCHANGED overruns
    BY <1>4 DEF Store, Publish
  <1>5. ASSUME NEW o \in Orders, CreateOrder(o)
        PROVE  UNCHANGED overruns
    BY <1>5 DEF CreateOrder
  <1> QED
    BY <1>0, <1>1, <1>2, <1>3, <1>4, <1>5 DEF Next, vars

\* A worker enters the guarded section only by acquiring the lock, and stays
\* with its message inside.
LEMMA HolderStep ==
  ASSUME TypeOK, [Next]_vars, NEW v \in Workers, pc'[v] \in Holding
  PROVE  /\ pc[v] \in Busy
         /\ Current(v)' = Current(v)
         /\ \/ pc[v] \in Holding
            \/ Acquire(v) /\ pc'[v] = "find"
  <1>0. /\ "acquire" \notin Holding /\ "read" \notin Holding /\ "skip" \notin Holding
        /\ "down" \notin Holding
        /\ Holding \subseteq Busy /\ "acquire" \in Busy
        /\ RunSites \subseteq Holding /\ FailureSites \subseteq Holding
        /\ {"find", "resolve", "attach", "mismatch", "status", "book", "mark", "ack",
            "fail", "failAck", "dead", "deadMark", "failed", "schedule", "release",
            "releaseThrow"} \subseteq Holding
    BY DEF Busy, Holding, RunSites, FailureSites
  <1>1. /\ job'[v].cur = job[v].cur
        /\ \/ pc[v] \in Holding
           \/ Acquire(v) /\ pc'[v] = "find"
    <2>1. CASE pc'[v] = pc[v] /\ job'[v] = job[v]
      BY <2>1
    <2>2. CASE Throws(v)
      BY <2>2, <1>0, ThrowStep
    <2>3. CASE Step(v) /\ ~Throws(v)
      BY <2>3, <1>0, OwnStep DEF Resolve, RecordMismatches, UpdateStatus,
           IncrementAttempts, DeadLetter
    <2> QED
      BY <2>1, <2>2, <2>3, <1>0, WorkerMoves DEF Rejected, Fails
  <1>2. pc[v] \in Busy
    BY <1>0, <1>1 DEF Acquire
  <1> QED
    BY <1>1, <1>2, CurrentStable

\* A lock is lost by its holder only in the holder's own release, or by
\* expiring, which is counted.
LEMMA LockStep ==
  ASSUME TypeOK, [Next]_vars,
         NEW v \in Workers, NEW e \in Events, Runs(v, e), lock[e] = v,
         pc'[v] \in Holding
  PROVE  \/ lock'[e] = v
         \/ Expire(e) /\ overruns' = overruns + 1
  <1> USE DEF TypeOK, RedisOK
  <1>0. /\ NoOne \notin Workers
        /\ overruns \in Nat
    BY WorkerAssumption DEF BudgetsOK
  <1>1. ASSUME NEW w \in Workers, Acquire(w)
        PROVE  lock'[e] = v
    BY <1>0, <1>1 DEF Acquire, CanAcquire
  <1>2. ASSUME NEW w \in Workers, Release(w)
        PROVE  lock'[e] = v
    <2>1. w # v
      <3>1. ASSUME w = v PROVE pc'[v] \in {"read", "acquire"}
        <4>1. pc[v] \in {"release", "releaseThrow"}
          BY <1>2, <3>1 DEF Release
        <4>2. Throws(v) \/ Returns(v, NextLabel(v), NextJob(v))
          BY <1>2, <3>1 DEF Release
        <4>3. CASE Throws(v)
          BY <4>1, <4>3, ThrowStep DEF RunSites, FailureSites
        <4>4. CASE ~Throws(v)
          BY <4>2, <4>4 DEF Returns, Fails, NextLabel, LocalOK
        <4> QED
          BY <4>3, <4>4
      <3>2. "read" \notin Holding /\ "acquire" \notin Holding
        BY DEF Holding, RunSites, FailureSites
      <3> QED
        BY <3>1, <3>2
    <2> QED
      BY <1>2, <2>1 DEF Release, CompareAndDelete
  <1>3. ASSUME NEW w \in Workers,
               Step(w) \/ Rejected(w), ~Acquire(w), ~Release(w)
        PROVE  UNCHANGED lock
    BY <1>3 DEF Step, Read, Skip, Find, Resolve, Attach, RecordMismatches,
         UpdateStatus, Book, MarkProcessed, Ack, IncrementAttempts, AckFailed,
         DeadLetter, MarkDeadLettered, MarkFailed, ScheduleRetry, Rejected
  <1>4. ASSUME NEW w \in Workers,
               \/ Promote(w) \/ Crash(w) \/ Stop(w) \/ PromotionThrows(w) \/ Restart(w)
        PROVE  UNCHANGED lock
    BY <1>4 DEF Promote, PullDue, RemoveDue, Republish, Crash, Stop, PromotionThrows,
         Dies, Restart
  <1>5. ASSUME NEW f \in Events, Expire(f)
        PROVE  lock'[e] = v \/ (Expire(e) /\ overruns' = overruns + 1)
    BY <1>0, <1>5 DEF Expire
  <1>6. ASSUME NEW f \in Events, Store(f) \/ Publish(f)
        PROVE  UNCHANGED lock
    BY <1>6 DEF Store, Publish
  <1>7. ASSUME NEW o \in Orders, CreateOrder(o)
        PROVE  UNCHANGED lock
    BY <1>7 DEF CreateOrder
  <1> QED
    BY <1>1, <1>2, <1>3, <1>4, <1>5, <1>6, <1>7 DEF Next, vars

\* Who enters the guarded section owns the key.
LEMMA EntryOwns ==
  ASSUME TypeOK, NEW v \in Workers, Acquire(v), pc'[v] = "find", Current(v)' = Current(v),
         Current(v) \in Events
  PROVE  lock'[Current(v)'] = v
  <1>1. CASE CanAcquire(Current(v))
    BY <1>1 DEF Acquire, TypeOK, RedisOK
  <1>2. CASE ~CanAcquire(Current(v))
    <2>1. Returns(v, "skip", job[v]) /\ pc[v] = "acquire"
      BY <1>2 DEF Acquire
    <2>2. pc'[v] = "skip" \/ pc'[v] = "read"
      BY <2>1, ThrowStep DEF Returns, Fails, TypeOK, LocalOK, RunSites, FailureSites
    <2> QED
      BY <2>2
  <1> QED
    BY <1>1, <1>2

\* Owning the key while inside is inductive.
LEMMA LockInvStep ==
  ASSUME TypeOK, LockInv, [Next]_vars
  PROVE  LockInv'
  <1> SUFFICES ASSUME overruns' = 0, NEW v \in Workers, pc'[v] \in Holding
               PROVE  lock'[Current(v)'] = v
    BY DEF LockInv
  <1>0. overruns = 0
    BY OverrunsGrow
  <1>1. /\ pc[v] \in Busy
        /\ Current(v)' = Current(v)
        /\ \/ pc[v] \in Holding
           \/ Acquire(v) /\ pc'[v] = "find"
    BY HolderStep
  <1>2. Current(v) \in Events
    BY <1>1, CurrentIsEvent
  <1>3. CASE pc[v] \in Holding
    <2>1. ~(overruns' = overruns + 1)
      BY <1>0
    <2> QED
      BY <1>0, <1>1, <1>2, <1>3, <2>1, LockStep DEF LockInv, Runs
  <1>4. CASE Acquire(v) /\ pc'[v] = "find"
    BY <1>1, <1>2, <1>4, EntryOwns
  <1> QED
    BY <1>1, <1>3, <1>4

\* Until a handler outlives the TTL of its lock, no two workers process the same
\* event at the same time (redis-lock.ts:15-22), whatever is delivered twice,
\* retried early, crashes or fails.
THEOREM LockSafe == Spec => []LockExclusion
  <1>1. Init => LockInv
    BY DEF Init, LockInv, Holding, RunSites, FailureSites
  <1>2. TypeOK /\ LockInv /\ [Next]_vars => LockInv'
    BY LockInvStep
  <1>3. LockInv => LockExclusion
    BY DEF LockInv, LockExclusion, Runs
  <1> QED
    BY <1>1, <1>2, <1>3, TypeCorrect, PTL DEF Spec

\* A late release takes no one else's lock away, even when locks expire under
\* their holders (RELEASE_SCRIPT): no assumption on overruns.
THEOREM LateReleaseIsHarmless == Spec => OwnerKeepsLock
  <1> DEFINE Keeps ==
        \A w \in Workers, e \in Events :
          lock[e] = w /\ lock'[e] # w =>
            \/ UNCHANGED pc
            \/ Runs(w, e) /\ pc'[w] # pc[w]
  <1>1. TypeOK /\ [Next]_vars => [Keeps]_vars
    <2> SUFFICES ASSUME TypeOK, Next, NEW w \in Workers, NEW e \in Events,
                        lock[e] = w, lock'[e] # w
                 PROVE  \/ UNCHANGED pc
                        \/ Runs(w, e) /\ pc'[w] # pc[w]
      OBVIOUS
    <2> USE DEF TypeOK, RedisOK
    <2>0. NoOne \notin Workers
      BY WorkerAssumption
    <2>1. ASSUME NEW v \in Workers, Acquire(v)
          PROVE  FALSE
      BY <2>0, <2>1 DEF Acquire, CanAcquire
    <2>2. ASSUME NEW v \in Workers, Release(v)
          PROVE  Runs(w, e) /\ pc'[w] # pc[w]
      <3>1. lock' = [lock EXCEPT ![Current(v)] = IF @ = v THEN NoOne ELSE @]
        BY <2>2 DEF Release, CompareAndDelete
      <3>2. v = w /\ Current(w) = e
        BY <3>1
      <3>3. pc[w] \in {"release", "releaseThrow"}
        BY <2>2, <3>2 DEF Release
      <3>4. Throws(w) \/ Returns(w, NextLabel(w), NextJob(w))
        BY <2>2, <3>2 DEF Release
      <3>5. pc'[w] \in {"read", "acquire"}
        <4>1. CASE Throws(w)
          BY <3>3, <4>1, ThrowStep DEF RunSites, FailureSites
        <4>2. CASE ~Throws(w)
          BY <3>4, <4>2 DEF Returns, Fails, NextLabel, LocalOK
        <4> QED
          BY <4>1, <4>2
      <3> QED
        BY <3>2, <3>3, <3>5 DEF Runs, Holding
    <2>3. ASSUME NEW v \in Workers,
                 Step(v) \/ Rejected(v), ~Acquire(v), ~Release(v)
          PROVE  UNCHANGED lock
      BY <2>3 DEF Step, Read, Skip, Find, Resolve, Attach, RecordMismatches,
           UpdateStatus, Book, MarkProcessed, Ack, IncrementAttempts, AckFailed,
           DeadLetter, MarkDeadLettered, MarkFailed, ScheduleRetry, Rejected
    <2>4. ASSUME NEW v \in Workers,
                 \/ Promote(v) \/ Crash(v) \/ Stop(v) \/ PromotionThrows(v) \/ Restart(v)
          PROVE  UNCHANGED lock
      BY <2>4 DEF Promote, PullDue, RemoveDue, Republish, Crash, Stop, PromotionThrows,
           Dies, Restart
    <2>5. ASSUME NEW f \in Events, Expire(f) \/ Store(f) \/ Publish(f)
          PROVE  UNCHANGED pc
      BY <2>5 DEF Expire, Store, Publish
    <2>6. ASSUME NEW o \in Orders, CreateOrder(o)
          PROVE  UNCHANGED pc
      BY <2>6 DEF CreateOrder
    <2> QED
      BY <2>1, <2>2, <2>3, <2>4, <2>5, <2>6 DEF Next
  <1> QED
    BY <1>1, TypeCorrect, PTL DEF Spec, OwnerKeepsLock

-----------------------------------------------------------------------------
(***************************************************************************)
(* Every verdict has its evidence.                                         *)
(***************************************************************************)
\* How the parts of reconcile()'s result belong together.
LEMMA ReconcileCoherent ==
  ASSUME NEW payment, payment.gatewayStatus \in PaymentStatus,
         NEW order, NEW threshold
  PROVE  LET r == Reconcile(payment, order, threshold)
         IN  /\ r.state \in {"PENDING", "MATCHED", "MISMATCHED"}
             /\ r.state = "MISMATCHED" <=> r.mismatches # {}
             /\ r.update # NoUpdate =>
                  r.state = "MATCHED" /\ r.update = OrderStatusUpdate(payment)
             /\ r.state = "MATCHED" /\ r.update = NoUpdate =>
                  OrderStatusUpdate(payment) = NoUpdate
  <1> DEFINE m == Mismatches(payment, order, threshold)
  <1>1. /\ Reconcile(payment, order, threshold).state = Verdict(payment, m)
        /\ Reconcile(payment, order, threshold).mismatches = m
        /\ Reconcile(payment, order, threshold).update =
             IF m = {} THEN OrderStatusUpdate(payment) ELSE NoUpdate
    BY DEF Reconcile
  <1> HIDE DEF m
  <1>2. CASE m # {}
    BY <1>1, <1>2 DEF Verdict
  <1>3. CASE m = {}
    BY <1>1, <1>3 DEF Verdict, OrderStatusUpdate, PaymentStatus
  <1> QED
    BY <1>2, <1>3

\* Evidence once recorded is never taken back.
LEMMA EvidenceStays ==
  ASSUME TypeOK, [Next]_vars, NEW e \in Events
  PROVE  /\ bookings[e] \in Nat /\ bookings'[e] \in Nat /\ bookings'[e] >= bookings[e]
         /\ attempts[e] \in Nat /\ attempts'[e] \in Nat /\ attempts'[e] >= attempts[e]
         /\ mismatches[e] \subseteq mismatches'[e]
         /\ deadLetters \subseteq deadLetters'
  <1> USE DEF TypeOK, PostgresOK
  <1>1. ASSUME NEW w \in Workers, Book(w)
        PROVE  /\ bookings'[e] \in Nat /\ bookings'[e] >= bookings[e]
               /\ UNCHANGED <<attempts, mismatches, deadLetters>>
    BY <1>1 DEF Book
  <1>2. ASSUME NEW w \in Workers, IncrementAttempts(w)
        PROVE  /\ attempts'[e] \in Nat /\ attempts'[e] >= attempts[e]
               /\ UNCHANGED <<bookings, mismatches, deadLetters>>
    BY <1>2 DEF IncrementAttempts
  <1>3. ASSUME NEW w \in Workers, RecordMismatches(w)
        PROVE  /\ mismatches[e] \subseteq mismatches'[e]
               /\ UNCHANGED <<bookings, attempts, deadLetters>>
    BY <1>3 DEF RecordMismatches
  <1>4. ASSUME NEW w \in Workers, DeadLetter(w)
        PROVE  /\ deadLetters \subseteq deadLetters'
               /\ UNCHANGED <<bookings, attempts, mismatches>>
    BY <1>4 DEF DeadLetter
  <1>5. ASSUME NEW w \in Workers, Step(w), ~Book(w), ~IncrementAttempts(w),
               ~RecordMismatches(w), ~DeadLetter(w)
        PROVE  UNCHANGED <<bookings, attempts, mismatches, deadLetters>>
    BY <1>5 DEF Step, Read, Acquire, Skip, Find, Resolve, Attach, RecordMismatches,
         UpdateStatus, Book, MarkProcessed, Ack, IncrementAttempts, AckFailed,
         DeadLetter, MarkDeadLettered, MarkFailed, ScheduleRetry, Release
  <1>6. ASSUME NEW w \in Workers,
               \/ Rejected(w) \/ Promote(w) \/ Crash(w) \/ Stop(w)
               \/ PromotionThrows(w) \/ Restart(w)
        PROVE  UNCHANGED <<bookings, attempts, mismatches, deadLetters>>
    BY <1>6 DEF Rejected, Promote, PullDue, RemoveDue, Republish, Crash, Stop,
         PromotionThrows, Dies, Restart
  <1>7. ASSUME NEW f \in Events, Expire(f) \/ Store(f) \/ Publish(f)
        PROVE  UNCHANGED <<bookings, attempts, mismatches, deadLetters>>
    BY <1>7 DEF Expire, Store, Publish
  <1>8. ASSUME NEW x \in Orders, CreateOrder(x)
        PROVE  UNCHANGED <<bookings, attempts, mismatches, deadLetters>>
    BY <1>8 DEF CreateOrder
  <1>9. bookings[e] \in Nat /\ attempts[e] \in Nat
    OBVIOUS
  <1> QED
    BY <1>1, <1>2, <1>3, <1>4, <1>5, <1>6, <1>7, <1>8, <1>9 DEF Next, vars

\* What a worker about to record a verdict has already made sure of.
EvidenceInv ==
  \A w \in Workers :
    /\ pc[w] = "mark" =>
         /\ Result(w, job[w].seen).update = NoUpdate
         /\ Result(w, job[w].seen).mismatches \subseteq mismatches[Current(w)]
    /\ pc[w] \in {"failAck", "dead"} => job[w].tries <= attempts[Current(w)]
    /\ pc[w] = "dead" => job[w].tries >= MaxAttempts
    /\ pc[w] = "deadMark" =>
         Current(w) \in deadLetters /\ attempts[Current(w)] >= MaxAttempts

\* A worker about to record a verdict has recorded its evidence before.
LEMMA EvidenceInvStep ==
  ASSUME TypeOK, EvidenceInv, [Next]_vars
  PROVE  EvidenceInv'
  <1> SUFFICES ASSUME NEW v \in Workers,
                      pc'[v] \in {"mark", "failAck", "dead", "deadMark"}
               PROVE  (/\ pc[v] = "mark" =>
                            /\ Result(v, job[v].seen).update = NoUpdate
                            /\ Result(v, job[v].seen).mismatches
                                  \subseteq mismatches[Current(v)]
                       /\ pc[v] \in {"failAck", "dead"} =>
                            job[v].tries <= attempts[Current(v)]
                       /\ pc[v] = "dead" => job[v].tries >= MaxAttempts
                       /\ pc[v] = "deadMark" =>
                            /\ Current(v) \in deadLetters
                            /\ attempts[Current(v)] >= MaxAttempts)'
    BY DEF EvidenceInv
  <1>0. pc'[v] \in Holding /\ MaxAttempts \in Nat
    BY WorkerAssumption DEF Holding, RunSites, FailureSites
  <1>1. pc[v] \in Busy /\ Current(v)' = Current(v)
    BY <1>0, HolderStep
  <1> DEFINE e == Current(v)
  <1>2. e \in Events
    BY <1>1, CurrentIsEvent
  <1>3. /\ attempts[e] \in Nat /\ attempts'[e] \in Nat /\ attempts'[e] >= attempts[e]
        /\ mismatches[e] \subseteq mismatches'[e]
        /\ deadLetters \subseteq deadLetters'
    BY <1>2, EvidenceStays
  <1>4. /\ pc'[v] = "mark" =>
             /\ Result(v, job'[v].seen).update = NoUpdate
             /\ Result(v, job'[v].seen).mismatches \subseteq mismatches'[e]
        /\ pc'[v] \in {"failAck", "dead"} => job'[v].tries <= attempts'[e]
        /\ pc'[v] = "dead" => job'[v].tries >= MaxAttempts
        /\ pc'[v] = "deadMark" => e \in deadLetters' /\ attempts'[e] >= MaxAttempts
    <2>t. job[v].tries \in Nat
      BY DEF TypeOK, LocalOK, Job
    <2>1. CASE pc'[v] = pc[v] /\ job'[v] = job[v]
      BY <2>1, <2>t, <1>0, <1>3 DEF EvidenceInv
    <2>2. CASE Throws(v)
      BY <2>2, ThrowStep
    <2>3. CASE Step(v) /\ ~Throws(v)
      <3>1. CASE pc'[v] = "mark"
        <4>1. \/ pc'[v] = AfterReconcile(Result(v, job'[v].seen))
              \/ /\ RecordMismatches(v)
                 /\ pc'[v] = AfterMismatches(Result(v, job[v].seen))
                 /\ job'[v] = job[v]
          BY <2>3, <3>1, OwnStep
        <4>2. CASE pc'[v] = AfterReconcile(Result(v, job'[v].seen))
          BY <3>1, <4>2 DEF AfterReconcile, AfterMismatches
        <4>3. CASE /\ RecordMismatches(v)
                   /\ pc'[v] = AfterMismatches(Result(v, job[v].seen))
                   /\ job'[v] = job[v]
          <5>1. Result(v, job[v].seen).mismatches \subseteq mismatches'[e]
            BY <4>3, <1>2 DEF RecordMismatches, TypeOK, PostgresOK
          <5> QED
            BY <3>1, <4>3, <5>1 DEF AfterMismatches
        <4> QED
          BY <3>1, <4>1, <4>2, <4>3
      <3>2. CASE pc'[v] = "failAck"
        <4>1. IncrementAttempts(v) /\ job'[v].tries = attempts[e] + 1
          BY <2>3, <3>2, OwnStep, AfterReconcileLabel
        <4>2. attempts'[e] = attempts[e] + 1
          BY <4>1, <1>2 DEF IncrementAttempts, TypeOK, PostgresOK
        <4> QED
          BY <1>3, <3>2, <4>1, <4>2
      <3>3. CASE pc'[v] = "dead"
        <4>1. pc[v] = "failAck" /\ Exhausted(v) /\ job'[v] = job[v]
          BY <2>3, <3>3, OwnStep, AfterReconcileLabel
        <4> QED
          BY <1>0, <1>3, <2>t, <3>3, <4>1 DEF Exhausted, EvidenceInv
      <3>4. CASE pc'[v] = "deadMark"
        <4>1. DeadLetter(v) /\ pc[v] = "dead"
          BY <2>3, <3>4, OwnStep, AfterReconcileLabel DEF DeadLetter
        <4>2. e \in deadLetters'
          BY <1>2, <2>3, <4>1 DEF DeadLetter
        <4>3. attempts[e] >= MaxAttempts
          BY <1>0, <1>3, <2>t, <4>1 DEF EvidenceInv
        <4> QED
          BY <1>0, <1>3, <3>4, <4>2, <4>3
      <3> QED
        BY <3>1, <3>2, <3>3, <3>4
    <2> QED
      BY <2>1, <2>2, <2>3, WorkerMoves DEF Rejected, Fails
  <1> QED
    BY <1>1, <1>4 DEF Result

\* A worker books only what its run found to be a matched payment.
BookingInv ==
  \A w \in Workers :
    pc[w] = "book" => Result(w, job[w].seen).update # NoUpdate

\* A worker reaches the ledger transaction only with money to move.
LEMMA BookingInvStep ==
  ASSUME TypeOK, StatusInv, BookingInv, [Next]_vars
  PROVE  BookingInv'
  <1> SUFFICES ASSUME NEW v \in Workers, pc'[v] = "book"
               PROVE  (Result(v, job[v].seen).update # NoUpdate)'
    BY DEF BookingInv
  <1>1. pc[v] \in Busy /\ Current(v)' = Current(v)
    BY HolderStep DEF Holding, RunSites
  <1>2. Result(v, job'[v].seen).update # NoUpdate
    <2>1. CASE pc'[v] = pc[v] /\ job'[v] = job[v]
      BY <2>1 DEF BookingInv
    <2>2. CASE Throws(v)
      BY <2>2, ThrowStep
    <2>3. CASE Step(v) /\ ~Throws(v)
      BY <2>3, OwnStep, AfterReconcileLabel DEF UpdateStatus, StatusInv
    <2> QED
      BY <2>1, <2>2, <2>3, WorkerMoves DEF Rejected, Fails
  <1> QED
    BY <1>1, <1>2 DEF Result

\* Only these steps give an event another state.
LEMMA StateStep ==
  ASSUME TypeOK, [Next]_vars, NEW e \in Events, state'[e] # state[e]
  PROVE  \/ \E w \in Workers :
              /\ pc[w] \in Busy /\ Current(w) = e
              /\ \/ Book(w) \/ MarkProcessed(w) \/ MarkDeadLettered(w) \/ MarkFailed(w)
         \/ state[e] = Absent /\ state'[e] = "PENDING"
  <1> USE DEF TypeOK, PostgresOK
  <1>1. ASSUME NEW w \in Workers,
               Book(w) \/ MarkProcessed(w) \/ MarkDeadLettered(w) \/ MarkFailed(w)
        PROVE  pc[w] \in Busy /\ Current(w) = e
    BY <1>1 DEF Book, MarkProcessed, MarkDeadLettered, MarkFailed, Busy, Holding,
         RunSites, FailureSites
  <1>2. ASSUME NEW w \in Workers, Step(w), ~Book(w), ~MarkProcessed(w),
               ~MarkDeadLettered(w), ~MarkFailed(w)
        PROVE  UNCHANGED state
    BY <1>2 DEF Step, Read, Acquire, Skip, Find, Resolve, Attach, RecordMismatches,
         UpdateStatus, Book, MarkProcessed, Ack, IncrementAttempts, AckFailed,
         DeadLetter, MarkDeadLettered, MarkFailed, ScheduleRetry, Release
  <1>3. ASSUME NEW w \in Workers,
               \/ Rejected(w) \/ Promote(w) \/ Crash(w) \/ Stop(w)
               \/ PromotionThrows(w) \/ Restart(w)
        PROVE  UNCHANGED state
    BY <1>3 DEF Rejected, Promote, PullDue, RemoveDue, Republish, Crash, Stop,
         PromotionThrows, Dies, Restart
  <1>4. ASSUME NEW f \in Events, Expire(f) \/ Store(f) \/ Publish(f)
        PROVE  \/ UNCHANGED state
               \/ state'[e] = state[e]
               \/ state[e] = Absent /\ state'[e] = "PENDING"
    BY <1>4 DEF Expire, Store, Publish
  <1>5. ASSUME NEW o \in Orders, CreateOrder(o)
        PROVE  UNCHANGED state
    BY <1>5 DEF CreateOrder
  <1> QED
    BY <1>1, <1>2, <1>3, <1>4, <1>5 DEF Next, vars

\* No step gives an event a state that its rows do not back.
LEMMA EvidenceStep ==
  ASSUME TypeOK, StatusInv, BookingInv, EvidenceInv, VerdictHasEvidence, [Next]_vars
  PROVE  VerdictHasEvidence'
  <1> SUFFICES ASSUME NEW e \in Events
               PROVE  /\ state'[e] = "MATCHED" /\ OrderStatusUpdate(Payment[e]) # NoUpdate
                           => bookings'[e] > 0
                      /\ state'[e] = "MISMATCHED" => mismatches'[e] # {}
                      /\ state'[e] = "DEAD_LETTERED" =>
                           e \in deadLetters' /\ attempts'[e] >= MaxAttempts
    BY DEF VerdictHasEvidence
  <1>0. MaxAttempts \in Nat
    BY WorkerAssumption
  <1>1. /\ bookings[e] \in Nat /\ bookings'[e] \in Nat /\ bookings'[e] >= bookings[e]
        /\ attempts[e] \in Nat /\ attempts'[e] \in Nat /\ attempts'[e] >= attempts[e]
        /\ mismatches[e] \subseteq mismatches'[e]
        /\ deadLetters \subseteq deadLetters'
    BY EvidenceStays
  <1>2. CASE state'[e] = state[e]
    BY <1>0, <1>1, <1>2 DEF VerdictHasEvidence
  <1>3. CASE state'[e] = "PENDING"
    BY <1>3
  <1>4. ASSUME NEW w \in Workers, pc[w] \in Busy, Current(w) = e,
               \/ Book(w) \/ MarkProcessed(w) \/ MarkDeadLettered(w) \/ MarkFailed(w)
        PROVE  /\ state'[e] = "MATCHED" /\ OrderStatusUpdate(Payment[e]) # NoUpdate
                    => bookings'[e] > 0
               /\ state'[e] = "MISMATCHED" => mismatches'[e] # {}
               /\ state'[e] = "DEAD_LETTERED" =>
                    e \in deadLetters' /\ attempts'[e] >= MaxAttempts
    <2> DEFINE r == Result(w, job[w].seen)
    <2>1. Payment[e].gatewayStatus \in PaymentStatus
      BY WorkerAssumption
    <2>2. /\ r.state \in {"PENDING", "MATCHED", "MISMATCHED"}
          /\ r.state = "MISMATCHED" <=> r.mismatches # {}
          /\ r.update # NoUpdate => r.state = "MATCHED"
          /\ r.state = "MATCHED" /\ r.update = NoUpdate =>
               OrderStatusUpdate(Payment[e]) = NoUpdate
      BY <1>4, <2>1, ReconcileCoherent DEF Result
    <2>3. state \in [Events -> ReconciliationState \cup {Absent}]
      BY DEF TypeOK, PostgresOK
    <2>4. CASE Book(w)
      <3>1. state'[e] = r.state /\ bookings'[e] = bookings[e] + 1 /\ pc[w] = "book"
        BY <1>4, <2>3, <2>4 DEF Book, TypeOK, PostgresOK
      <3>2. r.update # NoUpdate
        BY <3>1 DEF BookingInv
      <3> QED
        BY <1>1, <2>2, <3>1, <3>2
    <2>5. CASE MarkProcessed(w)
      <3>1. state'[e] = r.state /\ pc[w] = "mark"
        BY <1>4, <2>3, <2>5 DEF MarkProcessed
      <3>2. r.update = NoUpdate /\ r.mismatches \subseteq mismatches[e]
        BY <1>4, <3>1 DEF EvidenceInv
      <3> QED
        BY <1>1, <2>2, <3>1, <3>2
    <2>6. CASE MarkDeadLettered(w)
      <3>1. state'[e] = "DEAD_LETTERED" /\ pc[w] = "deadMark"
        BY <1>4, <2>3, <2>6 DEF MarkDeadLettered
      <3>2. e \in deadLetters /\ attempts[e] >= MaxAttempts
        BY <1>4, <3>1 DEF EvidenceInv
      <3> QED
        BY <1>0, <1>1, <3>1, <3>2
    <2>7. CASE MarkFailed(w)
      <3>1. state'[e] = "FAILED"
        BY <1>4, <2>3, <2>7 DEF MarkFailed
      <3> QED
        BY <3>1
    <2> QED
      BY <1>4, <2>4, <2>5, <2>6, <2>7
  <1> QED
    BY <1>2, <1>3, <1>4, StateStep

\* Whatever is delivered twice, interleaved, interrupted or retried, a state an
\* event reached is backed by its booking, its mismatch rows or its
\* dead-letter row, for every payment and every bound.
THEOREM VerdictsBacked == Spec => []VerdictHasEvidence
  <1>1. Init => BookingInv /\ EvidenceInv /\ VerdictHasEvidence
    BY DEF Init, BookingInv, EvidenceInv, VerdictHasEvidence
  <1>2. TypeOK /\ StatusInv /\ BookingInv /\ [Next]_vars => BookingInv'
    BY BookingInvStep
  <1>3. TypeOK /\ EvidenceInv /\ [Next]_vars => EvidenceInv'
    BY EvidenceInvStep
  <1>4. /\ TypeOK /\ StatusInv /\ BookingInv /\ EvidenceInv /\ VerdictHasEvidence
        /\ [Next]_vars
        => VerdictHasEvidence'
    BY EvidenceStep
  <1> QED
    BY <1>1, <1>2, <1>3, <1>4, TypeCorrect, StatusCorrect, PTL DEF Spec

-----------------------------------------------------------------------------
(***************************************************************************)
(* A payment is booked once, and once more for each lock that expired      *)
(* under its holder, if no refund ever takes an order out of PAID again.   *)
(***************************************************************************)
NoRefunds == \A e \in Events : Payment[e].gatewayStatus # "REFUNDED"

\* Without refunds reconcile() only ever says: an unpaid order becomes PAID.
LEMMA PaysUnpaidOrder ==
  ASSUME NEW payment, payment.gatewayStatus \in PaymentStatus,
         payment.gatewayStatus # "REFUNDED", NEW order, NEW threshold,
         Reconcile(payment, order, threshold).update # NoUpdate
  PROVE  /\ Reconcile(payment, order, threshold).update = "PAID"
         /\ order.status # "PAID"
  <1> DEFINE m == Mismatches(payment, order, threshold)
  <1>1. Reconcile(payment, order, threshold).update =
          IF m = {} THEN OrderStatusUpdate(payment) ELSE NoUpdate
    BY DEF Reconcile
  <1>2. m = {} /\ OrderStatusUpdate(payment) # NoUpdate
    BY <1>1
  <1>3. payment.gatewayStatus = "SUCCESS" /\ OrderStatusUpdate(payment) = "PAID"
    BY <1>2 DEF OrderStatusUpdate, PaymentStatus
  <1>4. ASSUME order.status = "PAID" PROVE "DUPLICATE_PAYMENT" \in m
    BY <1>3, <1>4 DEF Mismatches, Applies, DuplicatePayment, MismatchReason
  <1> QED
    BY <1>1, <1>2, <1>3, <1>4

\* The same for a worker's result.
LEMMA RunPaysUnpaidOrder ==
  ASSUME TypeOK, NoRefunds, NEW w \in Workers, pc[w] \in Busy, NEW seen,
         Result(w, seen).update # NoUpdate
  PROVE  Result(w, seen).update = "PAID" /\ seen # "PAID"
  <1>1. Current(w) \in Events
    BY CurrentIsEvent
  <1>2. /\ Payment[Current(w)].gatewayStatus \in PaymentStatus
        /\ Payment[Current(w)].gatewayStatus # "REFUNDED"
    BY <1>1, WorkerAssumption DEF NoRefunds
  <1> QED
    BY <1>2, PaysUnpaidOrder DEF Result

\* Without refunds a paid order stays paid.
LEMMA PaidStays ==
  ASSUME TypeOK, StatusInv, NoRefunds, [Next]_vars,
         NEW o \in Orders, orders[o] = "PAID"
  PROVE  orders'[o] = "PAID"
  <1> USE DEF TypeOK, PostgresOK
  <1>1. ASSUME NEW w \in Workers, UpdateStatus(w)
        PROVE  orders'[o] = "PAID"
    <2>1. pc[w] = "status" /\ pc[w] \in Busy
      BY <1>1 DEF UpdateStatus, Busy, Holding, RunSites
    <2>2. Result(w, job[w].seen).update = "PAID"
      BY <2>1, RunPaysUnpaidOrder DEF StatusInv
    <2> QED
      BY <1>1, <2>2 DEF UpdateStatus
  <1>2. ASSUME NEW w \in Workers, Step(w), ~UpdateStatus(w)
        PROVE  UNCHANGED orders
    BY <1>2 DEF Step, Read, Acquire, Skip, Find, Resolve, Attach, RecordMismatches,
         UpdateStatus, Book, MarkProcessed, Ack, IncrementAttempts, AckFailed,
         DeadLetter, MarkDeadLettered, MarkFailed, ScheduleRetry, Release
  <1>3. ASSUME NEW w \in Workers,
               \/ Rejected(w) \/ Promote(w) \/ Crash(w) \/ Stop(w)
               \/ PromotionThrows(w) \/ Restart(w)
        PROVE  UNCHANGED orders
    BY <1>3 DEF Rejected, Promote, PullDue, RemoveDue, Republish, Crash, Stop,
         PromotionThrows, Dies, Restart
  <1>4. ASSUME NEW f \in Events, Expire(f) \/ Store(f) \/ Publish(f)
        PROVE  UNCHANGED orders
    BY <1>4 DEF Expire, Store, Publish
  <1>5. ASSUME NEW x \in Orders, CreateOrder(x)
        PROVE  orders'[o] = orders[o]
    BY <1>5 DEF CreateOrder
  <1> QED
    BY <1>1, <1>2, <1>3, <1>4, <1>5 DEF Next, vars

\* Only a worker's ledger transaction books, and one pair at a time.
LEMMA BookingStep ==
  ASSUME TypeOK, [Next]_vars, NEW e \in Events, bookings'[e] # bookings[e]
  PROVE  \E w \in Workers :
           /\ Book(w) /\ pc[w] = "book" /\ Current(w) = e
           /\ bookings'[e] = bookings[e] + 1
  <1> USE DEF TypeOK, PostgresOK
  <1>1. ASSUME NEW w \in Workers, Book(w)
        PROVE  /\ pc[w] = "book" /\ Current(w) = e
               /\ bookings'[e] = bookings[e] + 1
    BY <1>1 DEF Book
  <1>2. ASSUME NEW w \in Workers, Step(w), ~Book(w)
        PROVE  UNCHANGED bookings
    BY <1>2 DEF Step, Read, Acquire, Skip, Find, Resolve, Attach, RecordMismatches,
         UpdateStatus, Book, MarkProcessed, Ack, IncrementAttempts, AckFailed,
         DeadLetter, MarkDeadLettered, MarkFailed, ScheduleRetry, Release
  <1>3. ASSUME NEW w \in Workers,
               \/ Rejected(w) \/ Promote(w) \/ Crash(w) \/ Stop(w)
               \/ PromotionThrows(w) \/ Restart(w)
        PROVE  UNCHANGED bookings
    BY <1>3 DEF Rejected, Promote, PullDue, RemoveDue, Republish, Crash, Stop,
         PromotionThrows, Dies, Restart
  <1>4. ASSUME NEW f \in Events, Expire(f) \/ Store(f) \/ Publish(f)
        PROVE  UNCHANGED bookings
    BY <1>4 DEF Expire, Store, Publish
  <1>5. ASSUME NEW x \in Orders, CreateOrder(x)
        PROVE  UNCHANGED bookings
    BY <1>5 DEF CreateOrder
  <1> QED
    BY <1>1, <1>2, <1>3, <1>4, <1>5 DEF Next, vars

\* What has been booked shows in the order, and a run about to book has paid it.
PaidInv ==
  /\ \A e \in Events : bookings[e] > 0 => orders[OrderOf(e)] = "PAID"
  /\ \A w \in Workers : pc[w] = "book" => orders[OrderOf(Current(w))] = "PAID"

\* The workers that run on although their lock expired.
Strays == {w \in Workers : pc[w] \in Holding /\ lock[Current(w)] # w}

\* Each of them has cost an overrun.
StrayInv == IsFiniteSet(Strays) /\ Cardinality(Strays) <= overruns

\* The workers that read the order of event e unpaid and may yet book it.
Ready(e) ==
  {w \in Workers : /\ pc[w] \in {"attach", "mismatch", "status", "book"}
                   /\ job[w].seen # "PAID"
                   /\ Current(w) = e}

\* What is booked and what may yet be: one, and one more for each overrun.
OnceInv ==
  \A e \in Events :
    /\ IsFiniteSet(Ready(e))
    /\ bookings[e] + Cardinality(Ready(e)) <= 1 + overruns

LEMMA PaidInvStep ==
  ASSUME TypeOK, StatusInv, NoRefunds, PaidInv, [Next]_vars
  PROVE  PaidInv'
  <1>0. \A e \in Events : OrderOf(e) \in Orders
    BY WorkerAssumption DEF OrderOf
  <1>1. ASSUME NEW e \in Events, bookings'[e] > 0
        PROVE  orders'[OrderOf(e)] = "PAID"
    <2>1. orders[OrderOf(e)] = "PAID"
      <3>1. CASE bookings'[e] = bookings[e]
        BY <1>1, <3>1 DEF PaidInv
      <3>2. CASE bookings'[e] # bookings[e]
        BY <3>2, BookingStep DEF PaidInv
      <3> QED
        BY <3>1, <3>2
    <2> QED
      BY <1>0, <2>1, PaidStays
  <1>2. ASSUME NEW v \in Workers, pc'[v] = "book"
        PROVE  orders'[OrderOf(Current(v)')] = "PAID"
    <2>1. pc[v] \in Busy /\ Current(v)' = Current(v)
      BY <1>2, HolderStep DEF Holding, RunSites
    <2>2. OrderOf(Current(v)) \in Orders
      BY <2>1, CurrentIsEvent
    <2>3. CASE pc'[v] = pc[v] /\ job'[v] = job[v]
      BY <1>2, <2>1, <2>2, <2>3, PaidStays DEF PaidInv
    <2>4. CASE Throws(v)
      BY <1>2, <2>4, ThrowStep
    <2>5. CASE Step(v) /\ ~Throws(v)
      <3>1. UpdateStatus(v) /\ pc[v] = "status"
        BY <1>2, <2>5, OwnStep, AfterReconcileLabel DEF UpdateStatus
      <3>2. Result(v, job[v].seen).update = "PAID"
        BY <2>1, <3>1, RunPaysUnpaidOrder DEF StatusInv
      <3> QED
        BY <2>1, <2>2, <3>1, <3>2 DEF UpdateStatus, TypeOK, PostgresOK
    <2> QED
      BY <1>2, <2>3, <2>4, <2>5, WorkerMoves DEF Rejected, Fails
  <1> QED
    BY <1>1, <1>2 DEF PaidInv

\* A worker goes astray by the expiry of the lock it owns, one at a time.
LEMMA StrayInvStep ==
  ASSUME TypeOK, StrayInv, [Next]_vars
  PROVE  StrayInv'
  <1>0. overruns \in Nat /\ overruns' \in Nat /\ overruns' >= overruns
    BY OverrunsGrow
  <1>1. ASSUME NEW v \in Strays', v \notin Strays
        PROVE  \E e \in Events : v = lock[e] /\ Expire(e) /\ overruns' = overruns + 1
    <2>1. v \in Workers /\ pc'[v] \in Holding /\ lock'[Current(v)'] # v
      BY <1>1 DEF Strays
    <2>2. /\ pc[v] \in Busy
          /\ Current(v)' = Current(v)
          /\ \/ pc[v] \in Holding
             \/ Acquire(v) /\ pc'[v] = "find"
      BY <2>1, HolderStep
    <2>3. Current(v) \in Events
      BY <2>1, <2>2, CurrentIsEvent
    <2>4. pc[v] \in Holding
      BY <2>1, <2>2, <2>3, EntryOwns
    <2>5. lock[Current(v)] = v
      BY <1>1, <2>1, <2>4 DEF Strays
    <2> QED
      BY <2>1, <2>2, <2>3, <2>4, <2>5, LockStep DEF Runs
  <1>2. CASE Strays' \subseteq Strays
    <2>1. IsFiniteSet(Strays') /\ Cardinality(Strays') <= Cardinality(Strays)
      BY <1>2, FS_Subset DEF StrayInv
    <2>2. Cardinality(Strays') \in Nat /\ Cardinality(Strays) \in Nat
      BY <2>1, FS_CardinalityType DEF StrayInv
    <2> QED
      BY <1>0, <2>1, <2>2 DEF StrayInv
  <1>3. CASE ~(Strays' \subseteq Strays)
    <2>1. PICK v \in Strays' : v \notin Strays
      BY <1>3
    <2>2. PICK e \in Events : v = lock[e] /\ Expire(e) /\ overruns' = overruns + 1
      BY <1>1, <2>1
    <2>3. ASSUME NEW u \in Strays', u \notin Strays
          PROVE  u = v
      <3>1. PICK f \in Events : u = lock[f] /\ Expire(f)
        BY <1>1, <2>3
      <3>2. f = e
        BY <2>2, <3>1 DEF Expire, TypeOK, RedisOK
      <3> QED
        BY <2>2, <3>1, <3>2
    <2>4. Strays' \subseteq Strays \cup {v}
      BY <2>3
    <2>5. /\ IsFiniteSet(Strays \cup {v})
          /\ Cardinality(Strays \cup {v}) = Cardinality(Strays) + 1
      BY <2>1, FS_AddElement DEF StrayInv
    <2>6. IsFiniteSet(Strays') /\ Cardinality(Strays') <= Cardinality(Strays) + 1
      BY <2>4, <2>5, FS_Subset
    <2>7. Cardinality(Strays') \in Nat /\ Cardinality(Strays) \in Nat
      BY <2>6, FS_CardinalityType DEF StrayInv
    <2> QED
      BY <1>0, <2>2, <2>6, <2>7 DEF StrayInv
  <1> QED
    BY <1>2, <1>3

\* The workers ready to book one event are its owner and strays.
ReadyInv ==
  \A e \in Events : IsFiniteSet(Ready(e)) /\ Cardinality(Ready(e)) <= 1 + overruns

LEMMA ReadyIsFew ==
  ASSUME TypeOK, StrayInv
  PROVE  ReadyInv
  <1> SUFFICES ASSUME NEW e \in Events
               PROVE  IsFiniteSet(Ready(e)) /\ Cardinality(Ready(e)) <= 1 + overruns
    BY DEF ReadyInv
  <1>1. Ready(e) \subseteq Strays \cup {lock[e]}
    BY DEF Ready, Strays, Holding, RunSites
  <1>2. /\ IsFiniteSet(Strays \cup {lock[e]})
        /\ Cardinality(Strays \cup {lock[e]}) <= Cardinality(Strays) + 1
    <2>1. Cardinality(Strays) \in Nat
      BY FS_CardinalityType DEF StrayInv
    <2>2. /\ IsFiniteSet(Strays \cup {lock[e]})
          /\ \/ Cardinality(Strays \cup {lock[e]}) = Cardinality(Strays)
             \/ Cardinality(Strays \cup {lock[e]}) = Cardinality(Strays) + 1
      BY FS_AddElement, Zenon DEF StrayInv
    <2> QED
      BY <2>1, <2>2
  <1>3. /\ IsFiniteSet(Ready(e))
        /\ Cardinality(Ready(e)) <= Cardinality(Strays \cup {lock[e]})
    BY <1>1, <1>2, FS_Subset
  <1>4. /\ Cardinality(Ready(e)) \in Nat /\ Cardinality(Strays) \in Nat
        /\ Cardinality(Strays \cup {lock[e]}) \in Nat /\ overruns \in Nat
    BY <1>2, <1>3, FS_CardinalityType DEF StrayInv, TypeOK, BudgetsOK
  <1> QED
    BY <1>2, <1>3, <1>4 DEF StrayInv

\* Nobody gets ready to book a paid order.
LEMMA ReadyStep ==
  ASSUME TypeOK, [Next]_vars, NEW e \in Events, orders'[OrderOf(e)] = "PAID",
         NEW v \in Ready(e)'
  PROVE  v \in Ready(e)
  <1>1. /\ v \in Workers /\ pc'[v] \in {"attach", "mismatch", "status", "book"}
        /\ job'[v].seen # "PAID" /\ Current(v)' = e
    BY DEF Ready
  <1>2. /\ pc[v] \in Holding /\ Current(v) = e
    BY <1>1, HolderStep DEF Holding, RunSites
  <1>3. CASE pc'[v] = pc[v] /\ job'[v] = job[v]
    BY <1>1, <1>2, <1>3 DEF Ready
  <1>4. CASE Throws(v)
    BY <1>1, <1>4, ThrowStep
  <1>5. CASE Step(v) /\ ~Throws(v)
    <2>1. \/ pc[v] \in {"attach", "mismatch", "status"} /\ job'[v] = job[v]
          \/ Resolve(v) /\ job'[v].seen = orders[OrderOf(Current(v))]
      BY <1>1, <1>5, OwnStep, AfterReconcileLabel DEF RecordMismatches, UpdateStatus
    <2>2. ~Resolve(v) \/ orders' = orders
      BY DEF Resolve, postgres
    <2> QED
      BY <1>1, <1>2, <2>1, <2>2 DEF Ready
  <1> QED
    BY <1>1, <1>3, <1>4, <1>5, WorkerMoves DEF Rejected, Fails

\* Before an order is paid nothing of it is booked, and at most its owner and
\* the strays are ready to book; from then on each booking is one of theirs.
LEMMA OnceInvStep ==
  ASSUME TypeOK, TypeOK', BookingInv, NoRefunds, PaidInv', ReadyInv', OnceInv, [Next]_vars
  PROVE  OnceInv'
  <1> SUFFICES ASSUME NEW e \in Events
               PROVE  /\ IsFiniteSet(Ready(e)')
                      /\ bookings'[e] + Cardinality(Ready(e)') <= 1 + overruns'
    BY DEF OnceInv
  <1>0. /\ overruns \in Nat /\ overruns' \in Nat /\ overruns' >= overruns
        /\ bookings[e] \in Nat /\ bookings'[e] \in Nat
    BY OverrunsGrow, EvidenceStays
  <1>1. CASE orders'[OrderOf(e)] # "PAID"
    <2>1. bookings'[e] = 0
      BY <1>0, <1>1 DEF PaidInv
    <2>2. IsFiniteSet(Ready(e)') /\ Cardinality(Ready(e)') <= 1 + overruns'
      BY DEF ReadyInv
    <2>3. Cardinality(Ready(e)') \in Nat
      BY <2>2, FS_CardinalityType
    <2> QED
      BY <1>0, <2>1, <2>2, <2>3
  <1>2. CASE orders'[OrderOf(e)] = "PAID"
    <2>1. Ready(e)' \subseteq Ready(e)
      BY <1>2, ReadyStep
    <2>2. IsFiniteSet(Ready(e)) /\ bookings[e] + Cardinality(Ready(e)) <= 1 + overruns
      BY DEF OnceInv
    <2>3. IsFiniteSet(Ready(e)') /\ Cardinality(Ready(e)') <= Cardinality(Ready(e))
      BY <2>1, <2>2, FS_Subset
    <2>4. Cardinality(Ready(e)') \in Nat /\ Cardinality(Ready(e)) \in Nat
      BY <2>2, <2>3, FS_CardinalityType
    <2>5. CASE bookings'[e] = bookings[e]
      BY <1>0, <2>2, <2>3, <2>4, <2>5
    <2>6. CASE bookings'[e] # bookings[e]
      <3>1. PICK w \in Workers : /\ Book(w) /\ pc[w] = "book" /\ Current(w) = e
                                 /\ bookings'[e] = bookings[e] + 1
        BY <2>6, BookingStep
      <3>2. w \in Ready(e)
        <4>1. job[w].seen # "PAID"
          BY <3>1, RunPaysUnpaidOrder DEF BookingInv, Busy, Holding, RunSites
        <4> QED
          BY <3>1, <4>1 DEF Ready
      <3>3. w \notin Ready(e)'
        <4>1. pc'[w] = "ack" \/ Throws(w)
          BY <3>1 DEF Book, Returns, Fails, TypeOK, LocalOK
        <4> QED
          BY <4>1, ThrowStep DEF Ready
      <3>4. Cardinality(Ready(e)') # Cardinality(Ready(e))
        BY <2>1, <2>2, <3>2, <3>3, FS_Subset
      <3> QED
        BY <1>0, <2>2, <2>3, <2>4, <3>1, <3>4
    <2> QED
      BY <2>5, <2>6
  <1> QED
    BY <1>1, <1>2

\* Redelivered, retried, crashed or failed halfway: a payment enters the ledger
\* at most once, and once more for each lock that expired under its holder.
\* Without refunds: the run refund_rebooking shows a second booking after one.
THEOREM BookedOnce ==
  ASSUME NoRefunds
  PROVE  Spec => []AtMostOneBooking
  <1>1. Init => BookingInv /\ PaidInv /\ StrayInv /\ OnceInv
    <2> SUFFICES ASSUME Init
                 PROVE  BookingInv /\ PaidInv /\ StrayInv /\ OnceInv
      OBVIOUS
    <2>1. BookingInv /\ PaidInv
      BY DEF Init, BookingInv, PaidInv
    <2>2. Strays = {} /\ \A e \in Events : Ready(e) = {}
      BY DEF Init, Strays, Ready, Holding, RunSites, FailureSites
    <2>3. overruns = 0 /\ \A e \in Events : bookings[e] = 0
      BY DEF Init
    <2> QED
      BY <2>1, <2>2, <2>3, FS_EmptySet DEF StrayInv, OnceInv
  <1>2. TypeOK /\ StatusInv /\ BookingInv /\ [Next]_vars => BookingInv'
    BY BookingInvStep
  <1>3. TypeOK /\ StatusInv /\ PaidInv /\ [Next]_vars => PaidInv'
    BY PaidInvStep
  <1>4. TypeOK /\ StrayInv /\ [Next]_vars => StrayInv'
    BY StrayInvStep
  <1>5. /\ TypeOK /\ TypeOK' /\ BookingInv /\ PaidInv' /\ ReadyInv' /\ OnceInv
        /\ [Next]_vars
        => OnceInv'
    BY OnceInvStep
  <1>6. TypeOK /\ OnceInv => AtMostOneBooking
    <2> SUFFICES ASSUME TypeOK, OnceInv, NEW e \in Events
                 PROVE  bookings[e] <= 1 + overruns
      BY DEF AtMostOneBooking
    <2>1. /\ bookings[e] \in Nat /\ overruns \in Nat
          /\ bookings[e] + Cardinality(Ready(e)) <= 1 + overruns
      BY DEF OnceInv, TypeOK, PostgresOK, BudgetsOK
    <2>2. Cardinality(Ready(e)) \in Nat
      BY FS_CardinalityType DEF OnceInv
    <2> QED
      BY <2>1, <2>2
  <1>7. TypeOK /\ StrayInv => ReadyInv
    BY ReadyIsFew
  <1> QED
    BY <1>1, <1>2, <1>3, <1>4, <1>5, <1>6, <1>7, TypeCorrect, StatusCorrect, PTL DEF Spec
=============================================================================
