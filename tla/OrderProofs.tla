----------------------------- MODULE OrderProofs -----------------------------
(***************************************************************************)
(* What the worker fleet may do to an order: no refund before a payment,   *)
(* and no payment without a trace.  Both hold under every fault, crash and *)
(* expiring lock, so neither leans on mutual exclusion.                    *)
(***************************************************************************)
EXTENDS ReconciliationWorkerProofs

USE DEF Absent, NoUpdate, postgres, redis, local, budgets

-----------------------------------------------------------------------------
(***************************************************************************)
(* A refund is applied only to an order that was paid.                     *)
(***************************************************************************)
\* reconcile() asks for PAID or REFUNDED, and for REFUNDED only of an order it
\* saw PAID.
LEMMA RefundsPaidOrder ==
  ASSUME NEW payment, payment.gatewayStatus \in PaymentStatus,
         NEW order, NEW threshold,
         Reconcile(payment, order, threshold).update # NoUpdate
  PROVE  /\ Reconcile(payment, order, threshold).update \in {"PAID", "REFUNDED"}
         /\ Reconcile(payment, order, threshold).update = "REFUNDED" =>
              order.status = "PAID"
  <1> DEFINE m == Mismatches(payment, order, threshold)
  <1>1. Reconcile(payment, order, threshold).update =
          IF m = {} THEN OrderStatusUpdate(payment) ELSE NoUpdate
    BY DEF Reconcile
  <1>2. m = {} /\ OrderStatusUpdate(payment) # NoUpdate
    BY <1>1
  <1>3. OrderStatusUpdate(payment) \in {"PAID", "REFUNDED"}
    BY <1>2 DEF OrderStatusUpdate, PaymentStatus
  <1>4. ASSUME OrderStatusUpdate(payment) = "REFUNDED", order.status # "PAID"
        PROVE  m # {}
    <2>1. payment.gatewayStatus = "REFUNDED"
      BY <1>4 DEF OrderStatusUpdate, PaymentStatus
    <2>2. CASE order.status = Absent
      BY <2>2 DEF Mismatches
    <2>3. CASE order.status # Absent
      <3>1. "STATUS_CONFLICT" \in m
        BY <1>4, <2>1, <2>3 DEF Mismatches, Applies, StatusConflict, MismatchReason
      <3> QED
        BY <3>1
    <2> QED
      BY <2>2, <2>3
  <1> QED
    BY <1>1, <1>2, <1>3, <1>4

\* The same for the status a worker is about to write.
LEMMA RunRefundsPaidOrder ==
  ASSUME TypeOK, StatusInv, NEW w \in Workers, pc[w] = "status"
  PROVE  /\ Result(w, job[w].seen).update \in {"PAID", "REFUNDED"}
         /\ Result(w, job[w].seen).update = "REFUNDED" => job[w].seen = "PAID"
  <1>1. pc[w] \in Busy
    BY DEF Busy, Holding, RunSites
  <1>2. Payment[Current(w)].gatewayStatus \in PaymentStatus
    BY <1>1, CurrentIsEvent, WorkerAssumption
  <1> QED
    BY <1>2, RefundsPaidOrder DEF Result, StatusInv

\* An order a run has read as PAID has not gone back to unpaid.
SeenPaidInv ==
  \A w \in Workers :
    /\ pc[w] \in {"attach", "mismatch", "status"}
    /\ job[w].seen = "PAID"
    => orders[OrderOf(Current(w))] \in {"PAID", "REFUNDED"}

\* What a step can do to an order's status.
LEMMA OrderStep ==
  ASSUME TypeOK, StatusInv, [Next]_vars, NEW o \in Orders, orders'[o] # orders[o]
  PROVE  \/ orders[o] = Absent /\ orders'[o] = "CREATED"
         \/ \E w \in Workers :
              /\ UpdateStatus(w) /\ pc[w] = "status" /\ OrderOf(Current(w)) = o
              /\ orders'[o] = Result(w, job[w].seen).update
  <1> USE DEF TypeOK, PostgresOK
  <1>1. ASSUME NEW w \in Workers, UpdateStatus(w)
        PROVE  /\ pc[w] = "status" /\ OrderOf(Current(w)) = o
               /\ orders'[o] = Result(w, job[w].seen).update
    BY <1>1 DEF UpdateStatus
  <1>2. ASSUME NEW w \in Workers, Step(w), ~UpdateStatus(w)
        PROVE  UNCHANGED orders
    BY <1>2 DEF Step, Read, Acquire, Skip, Find, Resolve, Attach, RecordMismatches,
         UpdateStatus, Book, MarkProcessed, Ack, IncrementAttempts, AckFailed,
         DeadLetter, MarkDeadLettered, MarkFailed, ScheduleRetry, Release
  <1>3. ASSUME NEW w \in Workers,
               \/ Rejected(w) \/ Promote(w) \/ Crash(w) \/ Stop(w)
               \/ PromotionThrows(w) \/ Restart(w)
        PROVE  UNCHANGED orders
    BY <1>3 DEF Rejected, Promote, PullDue, RemoveDue, Republish, Crash, Stop,
         PromotionThrows, Dies, Restart
  <1>4. ASSUME NEW f \in Events, Expire(f) \/ Store(f) \/ Publish(f)
        PROVE  UNCHANGED orders
    BY <1>4 DEF Expire, Store, Publish
  <1>5. ASSUME NEW x \in Orders, CreateOrder(x)
        PROVE  orders[o] = Absent /\ orders'[o] = "CREATED"
    BY <1>5 DEF CreateOrder
  <1> QED
    BY <1>1, <1>2, <1>3, <1>4, <1>5 DEF Next, vars

\* An order that was paid stays paid or refunded.
LEMMA PaidForGood ==
  ASSUME TypeOK, StatusInv, [Next]_vars, NEW o \in Orders,
         orders[o] \in {"PAID", "REFUNDED"}
  PROVE  orders'[o] \in {"PAID", "REFUNDED"}
  BY OrderStep, RunRefundsPaidOrder

\* What a run has read stays true enough for the write it leads to.
LEMMA SeenPaidStep ==
  ASSUME TypeOK, StatusInv, SeenPaidInv, [Next]_vars
  PROVE  SeenPaidInv'
  <1> SUFFICES ASSUME NEW v \in Workers, pc'[v] \in {"attach", "mismatch", "status"},
                      job'[v].seen = "PAID"
               PROVE  orders'[OrderOf(Current(v)')] \in {"PAID", "REFUNDED"}
    BY DEF SeenPaidInv, OrderOf
  <1>1. /\ pc[v] \in Busy
        /\ Current(v)' = Current(v)
    BY HolderStep DEF Holding, RunSites
  <1>2. OrderOf(Current(v)) \in Orders
    BY <1>1, CurrentIsEvent
  <1>3. orders[OrderOf(Current(v))] \in {"PAID", "REFUNDED"}
    <2>1. CASE pc'[v] = pc[v] /\ job'[v] = job[v]
      BY <2>1 DEF SeenPaidInv
    <2>2. CASE Throws(v)
      BY <2>2, ThrowStep
    <2>3. CASE Step(v) /\ ~Throws(v)
      <3>1. \/ pc[v] \in {"attach", "mismatch"} /\ job'[v] = job[v]
            \/ job'[v].seen = orders[OrderOf(Current(v))]
        BY <2>3, OwnStep, AfterReconcileLabel DEF RecordMismatches
      <3> QED
        BY <3>1 DEF SeenPaidInv
    <2> QED
      BY <2>1, <2>2, <2>3, WorkerMoves DEF Rejected, Fails
  <1> QED
    BY <1>1, <1>2, <1>3, PaidForGood

\* Whatever interleaves, expires, crashes or is delivered twice, a refund is
\* applied only to an order that was paid.
THEOREM RefundAfterPayment == Spec => RefundFollowsPayment
  <1>1. Init => SeenPaidInv
    BY DEF Init, SeenPaidInv
  <1>2. TypeOK /\ StatusInv /\ SeenPaidInv /\ [Next]_vars => SeenPaidInv'
    BY SeenPaidStep
  <1>3. TypeOK /\ StatusInv /\ SeenPaidInv /\ [Next]_vars =>
          [\A o \in Orders :
             orders'[o] = "REFUNDED" => orders[o] \in {"PAID", "REFUNDED"}]_vars
    <2> SUFFICES ASSUME TypeOK, StatusInv, SeenPaidInv, Next,
                        NEW o \in Orders, orders'[o] = "REFUNDED", orders[o] # "REFUNDED"
                 PROVE  orders[o] = "PAID" \/ orders[o] = "REFUNDED"
      OBVIOUS
    <2>1. PICK w \in Workers : /\ pc[w] = "status" /\ OrderOf(Current(w)) = o
                               /\ orders'[o] = Result(w, job[w].seen).update
      BY OrderStep
    <2>2. job[w].seen = "PAID"
      BY <2>1, RunRefundsPaidOrder
    <2> QED
      BY <2>1, <2>2 DEF SeenPaidInv
  <1> QED
    BY <1>1, <1>2, <1>3, TypeCorrect, StatusCorrect, PTL DEF Spec, RefundFollowsPayment

-----------------------------------------------------------------------------
(***************************************************************************)
(* A payment leaves a trace.  The run that pays an order works on a stream *)
(* entry that stays in the pending-entries list until the payment is       *)
(* booked or a failed attempt is counted: no other worker has the entry in *)
(* its batch, and an abandoned entry is nobody's.                          *)
(***************************************************************************)
\* An exception leaves the batch as it is, or abandons it.
LEMMA ThrowBatch ==
  ASSUME TypeOK, NEW v \in Workers, Throws(v), pc[v] \in Busy \cup {"read"}
  PROVE  \/ /\ pc[v] \in Busy
            /\ \/ pc[v] \in RunSites /\ pc'[v] = "fail"
               \/ pc[v] \in FailureSites /\ pc'[v] = "releaseThrow"
            /\ job'[v].cur = job[v].cur /\ job'[v].end = job[v].end
         \/ pc'[v] = "read" /\ job'[v] = NoJob
  <1>1. Forget(job[v]).cur = job[v].cur /\ Forget(job[v]).end = job[v].end
    BY DEF Forget, Batch
  <1>2. RunSites \subseteq Busy /\ FailureSites \subseteq Busy
    BY DEF Busy, Holding
  <1>3. "read" \notin RunSites /\ "read" \notin FailureSites
    BY DEF RunSites, FailureSites
  <1> QED
    BY <1>1, <1>2, <1>3 DEF TypeOK, LocalOK, Throws, OnThrow

\* What any step makes of a worker's batch: it stays, ends, moves on to its next
\* entry, or is read anew.
LEMMA BatchStep ==
  ASSUME TypeOK, [Next]_vars, NEW v \in Workers
  PROVE  \/ /\ job'[v].cur = job[v].cur /\ job'[v].end = job[v].end
            /\ \/ pc'[v] = pc[v]
               \/ pc[v] \in Busy /\ pc'[v] \in Busy \ {"acquire"}
               \/ pc[v] = "down" /\ pc'[v] = "read"
         \/ pc'[v] \in {"read", "down"} /\ job'[v] = NoJob
         \/ /\ pc[v] \in {"skip", "release"} /\ pc'[v] = "acquire"
            /\ job'[v].cur = job[v].cur + 1 /\ job'[v].end = job[v].end
         \/ /\ Read(v) /\ pc'[v] = "acquire"
            /\ job'[v].cur = lastDelivered + 1 /\ job'[v].end = lastDelivered'
  <1> USE DEF TypeOK, LocalOK, Fails
  <1>0. /\ {"acquire", "skip", "find", "resolve", "attach", "mismatch", "status", "book",
            "mark", "ack", "fail", "failAck", "dead", "deadMark", "failed", "schedule",
            "release", "releaseThrow"} \subseteq Busy
        /\ RunSites \cup FailureSites \subseteq Busy
        /\ "read" \notin Busy
    BY DEF Busy, Holding, RunSites, FailureSites
  <1>j. /\ job[v] \in Job
        /\ Forget(job[v]).cur = job[v].cur /\ Forget(job[v]).end = job[v].end
    BY DEF Forget, Batch
  <1> DEFINE Stays == /\ job'[v].cur = job[v].cur /\ job'[v].end = job[v].end
                      /\ pc[v] \in Busy /\ pc'[v] \in Busy \ {"acquire"}
             Ends  == pc'[v] \in {"read", "down"} /\ job'[v] = NoJob
             Moves == /\ pc[v] \in {"skip", "release"} /\ pc'[v] = "acquire"
                      /\ job'[v].cur = job[v].cur + 1 /\ job'[v].end = job[v].end
  <1>t. ASSUME Throws(v), pc[v] \in Busy \cup {"read"}
        PROVE  Stays \/ Ends
    BY <1>0, <1>t, ThrowBatch
  <1>n. ASSUME pc[v] \in {"skip", "release"},
               pc' = [pc EXCEPT ![v] = NextLabel(v)],
               job' = [job EXCEPT ![v] = NextJob(v)]
        PROVE  Ends \/ Moves
    <2>1. CASE LastOfBatch(v)
      BY <1>n, <2>1 DEF NextLabel, NextJob
    <2>2. CASE ~LastOfBatch(v)
      <3>1. NextJob(v).cur = job[v].cur + 1 /\ NextJob(v).end = job[v].end
        BY <2>2 DEF NextJob, Batch
      <3> QED
        BY <1>n, <2>2, <3>1 DEF NextLabel
    <2> QED
      BY <2>1, <2>2
  <1>1. CASE Step(v) /\ ~Throws(v)
    <2>1. CASE Read(v)
      <3> DEFINE last == lastDelivered + Smaller(BatchSize, Len(stream) - lastDelivered)
      <3>1. /\ lastDelivered' = last
            /\ pc' = [pc EXCEPT ![v] = "acquire"]
            /\ job' = [job EXCEPT ![v] = Batch(lastDelivered + 1, last)]
        BY <1>1, <2>1 DEF Read, Returns
      <3> HIDE DEF last
      <3>2. /\ Batch(lastDelivered + 1, last).cur = lastDelivered + 1
            /\ Batch(lastDelivered + 1, last).end = last
        BY DEF Batch
      <3> QED
        BY <2>1, <3>1, <3>2
    <2>2. CASE Skip(v) \/ Release(v)
      <3>1. /\ pc[v] \in {"skip", "release"}
            /\ pc' = [pc EXCEPT ![v] = NextLabel(v)]
            /\ job' = [job EXCEPT ![v] = NextJob(v)]
        BY <1>1, <2>2 DEF Skip, Release, Returns
      <3> QED
        BY <1>n, <3>1
    <2>3. CASE Acquire(v)
      BY <1>0, <1>1, <2>3 DEF Acquire, Returns
    <2>4. CASE Find(v)
      BY <1>0, <1>1, <1>j, <2>4 DEF Find, Returns, Job
    <2>5. CASE Resolve(v)
      <3> DEFINE j == [job[v] EXCEPT !.seen = orders[OrderOf(Current(v))]]
      <3>1. job' = [job EXCEPT ![v] = j] /\ pc[v] = "resolve"
        BY <1>1, <2>5 DEF Resolve, Returns
      <3>2. j.cur = job[v].cur /\ j.end = job[v].end
        BY <1>j DEF Job
      <3>3. pc'[v] \in {"attach", "mismatch", "mark", "status"}
        BY <1>1, <2>5, OwnStep DEF Resolve, Read, Acquire, RecordMismatches, UpdateStatus,
             IncrementAttempts, DeadLetter
      <3> HIDE DEF j
      <3> QED
        BY <1>0, <3>1, <3>2, <3>3
    <2>6. CASE Attach(v) \/ RecordMismatches(v)
      BY <1>0, <1>1, <2>6, AfterReconcileLabel DEF Attach, RecordMismatches, Returns
    <2>7. CASE UpdateStatus(v) \/ Ack(v) \/ DeadLetter(v) \/ ScheduleRetry(v)
      BY <1>0, <1>1, <2>7
      DEF UpdateStatus, AfterStatus, Ack, DeadLetter, ScheduleRetry, Returns
    <2>8. CASE Book(v) \/ MarkProcessed(v) \/ MarkDeadLettered(v) \/ MarkFailed(v)
      BY <1>0, <1>1, <1>j, <2>8
      DEF Book, MarkProcessed, MarkDeadLettered, MarkFailed, Returns
    <2>9. CASE IncrementAttempts(v)
      <3> DEFINE j == [job[v] EXCEPT !.tries = attempts[Current(v)] + 1]
      <3>1. /\ job' = [job EXCEPT ![v] = j]
            /\ pc[v] = "fail" /\ pc' = [pc EXCEPT ![v] = "failAck"]
        BY <1>1, <2>9 DEF IncrementAttempts, Returns
      <3>2. j.cur = job[v].cur /\ j.end = job[v].end
        BY <1>j DEF Job
      <3> HIDE DEF j
      <3> QED
        BY <1>0, <3>1, <3>2
    <2>10. CASE AckFailed(v)
      BY <1>0, <1>1, <2>10 DEF AckFailed, Returns
    <2> QED
      BY <1>1, <2>1, <2>2, <2>3, <2>4, <2>5, <2>6, <2>7, <2>8, <2>9, <2>10 DEF Step
  <1>2. CASE (Step(v) \/ Rejected(v)) /\ Throws(v)
    <2>1. pc[v] \in Busy \cup {"read"}
      BY <1>2, <1>0, OwnStep, WorkerAssumption DEF Rejected, Sites, Labels
    <2> QED
      BY <1>2, <1>t, <2>1
  <1> QED
    BY <1>1, <1>2, WorkerMoves DEF Rejected

\* The stream entries of a worker's batch it has not finished with.
Held(w) == job[w].cur .. job[w].end

\* Two workers never hold the same entry, and what a worker has still to handle
\* is un-acked.
PelInv ==
  /\ \A v, w \in Workers : v # w => Held(v) \cap Held(w) = {}
  /\ \A w \in Workers :
       /\ job[w].cur + 1 .. job[w].end \subseteq pending
       /\ pc[w] \in RunSites \cup {"acquire", "skip"} => job[w].cur \in pending

\* An entry leaves the pending-entries list only when the worker at it acks it.
LEMMA AckStep ==
  ASSUME TypeOK, [Next]_vars, NEW i \in pending, i \notin pending'
  PROVE  \E w \in Workers : /\ pc[w] \in {"skip", "ack", "failAck"}
                           /\ pc'[w] \notin RunSites \cup {"skip"}
                           /\ job[w].cur = i /\ i \in Held(w)
  <1> USE DEF TypeOK, LocalOK, RedisOK
  <1>1. ASSUME NEW w \in Workers, Skip(w) \/ Ack(w) \/ AckFailed(w)
        PROVE  /\ pc[w] \in {"skip", "ack", "failAck"}
               /\ pc'[w] \notin RunSites \cup {"skip"}
               /\ job[w].cur = i /\ i \in Held(w)
    <2>1. pc[w] \in {"skip", "ack", "failAck"} /\ job[w].cur = i
      BY <1>1 DEF Skip, Ack, AckFailed, Acked
    <2>2. pc[w] \in Busy /\ pc[w] # "read"
      BY <2>1 DEF Busy, Holding, RunSites, FailureSites
    <2>3. i \in Held(w)
      BY <2>1, <2>2 DEF Held, BatchOK, Job
    <2>4. pc'[w] \notin RunSites \cup {"skip"}
      <3>1. CASE Throws(w)
        BY <3>1, ThrowStep DEF RunSites
      <3>2. CASE ~Throws(w)
        BY <1>1, <3>2 DEF Skip, Ack, AckFailed, Returns, Fails, NextLabel, RunSites
      <3> QED
        BY <3>1, <3>2
    <2> QED
      BY <2>1, <2>3, <2>4
  <1>2. ASSUME NEW w \in Workers, Step(w), ~Skip(w), ~Ack(w), ~AckFailed(w)
        PROVE  i \in pending'
    BY <1>2 DEF Step, Read, Acquire, Find, Resolve, Attach, RecordMismatches,
         UpdateStatus, Book, MarkProcessed, IncrementAttempts,
         DeadLetter, MarkDeadLettered, MarkFailed, ScheduleRetry, Release
  <1>3. ASSUME NEW w \in Workers,
               \/ Rejected(w) \/ Promote(w) \/ Crash(w) \/ Stop(w)
               \/ PromotionThrows(w) \/ Restart(w)
        PROVE  UNCHANGED pending
    BY <1>3 DEF Rejected, Promote, PullDue, RemoveDue, Republish, Crash, Stop,
         PromotionThrows, Dies, Restart
  <1>4. ASSUME NEW f \in Events, Expire(f) \/ Store(f) \/ Publish(f)
        PROVE  UNCHANGED pending
    BY <1>4 DEF Expire, Store, Publish
  <1>5. ASSUME NEW o \in Orders, CreateOrder(o)
        PROVE  UNCHANGED pending
    BY <1>5 DEF CreateOrder
  <1> QED
    BY <1>1, <1>2, <1>3, <1>4, <1>5 DEF Next, vars

\* A worker's batch only shrinks, unless it has just read a new one from the end
\* of what was delivered.
LEMMA HeldStep ==
  ASSUME TypeOK, [Next]_vars, NEW v \in Workers
  PROVE  \/ Held(v)' \subseteq Held(v)
         \/ Read(v) /\ Held(v)' = lastDelivered + 1 .. lastDelivered'
  <1>1. /\ job[v].cur \in Nat /\ job[v].end \in Nat
    BY DEF TypeOK, LocalOK, Job
  <1>2. CASE job'[v] = NoJob
    BY <1>2 DEF Held, NoJob, Batch
  <1>3. CASE job'[v].cur \in {job[v].cur, job[v].cur + 1} /\ job'[v].end = job[v].end
    BY <1>1, <1>3 DEF Held
  <1>4. CASE Read(v) /\ job'[v].cur = lastDelivered + 1 /\ job'[v].end = lastDelivered'
    BY <1>4 DEF Held
  <1> QED
    BY <1>2, <1>3, <1>4, BatchStep

\* No two workers come to hold one entry: a read takes entries nobody was given.
LEMMA DisjointStep ==
  ASSUME TypeOK, PelInv, [Next]_vars,
         NEW v \in Workers, NEW w \in Workers, v # w
  PROVE  Held(v)' \cap Held(w)' = {}
  <1> USE DEF TypeOK, LocalOK
  <1>0. /\ lastDelivered \in Nat
        /\ job[v].cur \in Nat /\ job[v].end \in Nat /\ job[v].end <= lastDelivered
        /\ job[w].cur \in Nat /\ job[w].end \in Nat /\ job[w].end <= lastDelivered
    BY DEF RedisOK, BatchOK, Job
  <1>1. Held(v) \cap Held(w) = {}
    BY DEF PelInv
  <1>2. ASSUME NEW x \in Workers, NEW y \in Workers, x # y, Read(x),
               Held(x)' = lastDelivered + 1 .. lastDelivered',
               job[y].cur \in Nat, job[y].end \in Nat, job[y].end <= lastDelivered
        PROVE  Held(x)' \cap Held(y)' = {}
    <2>1. job'[y] = job[y]
      BY <1>2 DEF Read, Returns, Fails, Throws
    <2>2. Held(y)' = job[y].cur .. job[y].end
      BY <2>1 DEF Held
    <2>3. lastDelivered' \in Nat
      <3>1. BatchSize \in Nat /\ Len(stream) \in Nat
        BY WorkerAssumption DEF RedisOK
      <3>2. /\ lastDelivered < Len(stream)
            /\ lastDelivered' = lastDelivered
                                  + Smaller(BatchSize, Len(stream) - lastDelivered)
        BY <1>2 DEF Read
      <3> QED
        BY <1>0, <3>1, <3>2 DEF Smaller
    <2> QED
      BY <1>0, <1>2, <2>2, <2>3
  <1>3. CASE Held(v)' \subseteq Held(v) /\ Held(w)' \subseteq Held(w)
    BY <1>1, <1>3
  <1>4. CASE Read(v) /\ Held(v)' = lastDelivered + 1 .. lastDelivered'
    BY <1>0, <1>2, <1>4
  <1>5. CASE Read(w) /\ Held(w)' = lastDelivered + 1 .. lastDelivered'
    BY <1>0, <1>2, <1>5
  <1> QED
    BY <1>3, <1>4, <1>5, HeldStep

\* What a worker has still to handle stays un-acked.
LEMMA PelStep ==
  ASSUME TypeOK, StatusInv, PelInv, [Next]_vars
  PROVE  PelInv'
  <1>1. \A v, w \in Workers : v # w => Held(v)' \cap Held(w)' = {}
    BY DisjointStep
  <1> SUFFICES ASSUME NEW v \in Workers
               PROVE  /\ job'[v].cur + 1 .. job'[v].end \subseteq pending'
                      /\ pc'[v] \in RunSites \cup {"acquire", "skip"} =>
                           job'[v].cur \in pending'
    BY <1>1 DEF PelInv, Held
  <1>0. /\ job[v].cur \in Nat /\ job[v].end \in Nat /\ lastDelivered \in Nat
        /\ pc[v] \in Busy => job[v].cur <= job[v].end
    BY DEF TypeOK, LocalOK, RedisOK, BatchOK, Job
  <1>b. /\ {"acquire", "skip", "release"} \subseteq Busy /\ RunSites \subseteq Busy
        /\ "read" \notin Busy /\ "down" \notin Busy
        /\ "acquire" \notin RunSites /\ "skip" \notin RunSites
    BY DEF Busy, Holding, RunSites, FailureSites
  <1>2. ASSUME NEW i \in Held(v), i \in pending, i \notin pending'
        PROVE  i = job[v].cur /\ pc'[v] \notin RunSites \cup {"skip"}
    BY <1>2, AckStep DEF PelInv
  <1>3. job[v].cur + 1 .. job[v].end \subseteq pending'
    <2> SUFFICES ASSUME NEW i \in job[v].cur + 1 .. job[v].end
                 PROVE  i \in pending'
      OBVIOUS
    <2>1. i \in pending /\ i \in Held(v) /\ i # job[v].cur
      BY <1>0 DEF PelInv, Held
    <2> QED
      BY <1>2, <2>1
  <1>4. CASE job'[v].cur = job[v].cur /\ job'[v].end = job[v].end
             /\ (\/ pc'[v] = pc[v]
                 \/ pc[v] \in Busy /\ pc'[v] \in Busy \ {"acquire"}
                 \/ pc[v] = "down" /\ pc'[v] = "read")
    <2> SUFFICES ASSUME pc'[v] \in RunSites \cup {"acquire", "skip"}
                 PROVE  job[v].cur \in pending'
      BY <1>3, <1>4
    <2>1. pc[v] \in RunSites \cup {"acquire", "skip"}
      <3>1. CASE pc'[v] = pc[v]
        BY <3>1
      <3>2. CASE Throws(v) /\ pc'[v] # pc[v]
        BY <3>2, <1>b, ThrowStep DEF RunSites
      <3>3. CASE Step(v) /\ ~Throws(v) /\ pc'[v] # pc[v]
        BY <1>4, <1>b, <3>3, OwnStep, AfterReconcileLabel
        DEF RunSites, Acquire, Resolve, RecordMismatches, UpdateStatus, IncrementAttempts,
            DeadLetter
      <3> QED
        BY <1>b, <3>1, <3>2, <3>3, WorkerMoves DEF Rejected, Fails
    <2>2. job[v].cur \in pending /\ job[v].cur \in Held(v)
      BY <1>0, <1>b, <2>1 DEF PelInv, Held
    <2>3. CASE pc'[v] \in RunSites \cup {"skip"}
      BY <1>2, <2>2, <2>3
    <2>4. CASE pc'[v] = "acquire"
      <3>1. pc[v] = "acquire"
        BY <1>4, <1>b, <2>4
      <3> QED
        BY <2>2, <2>4, <3>1, AckStep DEF PelInv
    <2> QED
      BY <2>3, <2>4
  <1>5. CASE pc'[v] \in {"read", "down"} /\ job'[v] = NoJob
    BY <1>b, <1>5 DEF NoJob, Batch
  <1>6. CASE /\ pc[v] \in {"skip", "release"} /\ pc'[v] = "acquire"
             /\ job'[v].cur = job[v].cur + 1 /\ job'[v].end = job[v].end
    <2>1. job'[v].cur <= job'[v].end
      <3>1. TypeOK'
        BY StepType, OtherStepsType
      <3> QED
        BY <1>b, <1>6, <3>1 DEF TypeOK, BatchOK
    <2>2. job'[v].cur \in job[v].cur + 1 .. job[v].end
      BY <1>0, <1>6, <2>1
    <2>3. job'[v].cur + 1 .. job'[v].end \subseteq job[v].cur + 1 .. job[v].end
      BY <1>0, <1>6
    <2> QED
      BY <1>3, <2>2, <2>3
  <1>7. CASE /\ Read(v) /\ pc'[v] = "acquire"
             /\ job'[v].cur = lastDelivered + 1 /\ job'[v].end = lastDelivered'
    <2>1. pending' = pending \cup (lastDelivered + 1 .. lastDelivered')
      BY <1>7 DEF Read
    <2>2. lastDelivered' \in Nat /\ lastDelivered' > lastDelivered
      BY <1>7, <1>0, WorkerAssumption DEF Read, Smaller, TypeOK, RedisOK
    <2> QED
      BY <1>0, <1>7, <2>1, <2>2
  <1> QED
    BY <1>4, <1>5, <1>6, <1>7, BatchStep

\* An un-acked entry whose run paid the order and has not booked: nobody's, or
\* of a worker before its booking or on its way out after a failure.
Torn(i) ==
  /\ i \in pending
  /\ \A w \in Workers :
       i \in Held(w) => job[w].cur = i /\ pc[w] \in {"book", "fail", "releaseThrow"}

\* A booking, a counted attempt, or a torn entry accounts for the payment.
Accounted(e) ==
  \/ bookings[e] > 0
  \/ attempts[e] > 0
  \/ \E i \in pending : stream[i] = e /\ Torn(i)

TraceInv == \A o \in Orders : orders[o] = "PAID" => \E e \in Events : OrderOf(e) = o /\ Accounted(e)

\* A worker at a torn entry books it, counts a failed attempt, or leaves it torn.
LEMMA TornWorker ==
  ASSUME TypeOK, PelInv, [Next]_vars, NEW w \in Workers, NEW i \in pending, Torn(i),
         i \in Held(w)', i <= lastDelivered
  PROVE  \/ bookings'[stream[i]] > 0
         \/ attempts'[stream[i]] > 0
         \/ job'[w].cur = i /\ pc'[w] \in {"book", "fail", "releaseThrow"}
  <1>0. /\ {"book", "fail", "releaseThrow"} \subseteq Busy
        /\ lastDelivered \in Nat /\ i \in Nat
    BY DEF Busy, Holding, RunSites, FailureSites, TypeOK, RedisOK
  <1>1. i \in Held(w)
    <2>1. CASE Held(w)' \subseteq Held(w)
      BY <2>1
    <2>2. CASE Held(w)' = lastDelivered + 1 .. lastDelivered'
      BY <1>0, <2>2
    <2> QED
      BY <2>1, <2>2, HeldStep
  <1>2. job[w].cur = i /\ pc[w] \in {"book", "fail", "releaseThrow"}
    BY <1>1 DEF Torn
  <1>3. Current(w) = stream[i] /\ Current(w) \in Events
    BY <1>0, <1>2, CurrentIsEvent DEF Current
  <1>4. CASE pc'[w] = pc[w] /\ job'[w] = job[w]
    BY <1>2, <1>4
  <1>5. CASE Throws(w)
    BY <1>0, <1>2, <1>5, ThrowBatch DEF Held, NoJob, Batch, RunSites
  <1>6. CASE pc'[w] = "down" /\ job'[w] = NoJob
    BY <1>6 DEF Held, NoJob, Batch
  <1>7. CASE Step(w) /\ ~Throws(w)
    <2>1. CASE pc[w] = "book"
      <3>1. Book(w)
        BY <1>7, <2>1 DEF Step, Read, Acquire, Skip, Find, Resolve, Attach,
             RecordMismatches, UpdateStatus, MarkProcessed, Ack, IncrementAttempts,
             AckFailed, DeadLetter, MarkDeadLettered, MarkFailed, ScheduleRetry, Release
      <3>2. bookings'[Current(w)] = bookings[Current(w)] + 1
        BY <1>3, <3>1 DEF Book, TypeOK, PostgresOK
      <3>3. bookings[Current(w)] \in Nat
        BY <1>3 DEF TypeOK, PostgresOK
      <3> QED
        BY <1>3, <3>2, <3>3
    <2>2. CASE pc[w] = "fail"
      <3>1. IncrementAttempts(w)
        BY <1>7, <2>2 DEF Step, Read, Acquire, Skip, Find, Resolve, Attach,
             RecordMismatches, UpdateStatus, Book, MarkProcessed, Ack,
             AckFailed, DeadLetter, MarkDeadLettered, MarkFailed, ScheduleRetry, Release
      <3>2. attempts'[Current(w)] = attempts[Current(w)] + 1
        BY <1>3, <3>1 DEF IncrementAttempts, TypeOK, PostgresOK
      <3>3. attempts[Current(w)] \in Nat
        BY <1>3 DEF TypeOK, PostgresOK
      <3> QED
        BY <1>3, <3>2, <3>3
    <2>3. CASE pc[w] = "releaseThrow"
      <3>1. Release(w)
        BY <1>7, <2>3 DEF Step, Read, Acquire, Skip, Find, Resolve, Attach,
             RecordMismatches, UpdateStatus, Book, MarkProcessed, Ack, IncrementAttempts,
             AckFailed, DeadLetter, MarkDeadLettered, MarkFailed, ScheduleRetry
      <3> QED
        BY <1>7, <2>3, <3>1 DEF Release
    <2> QED
      BY <1>2, <2>1, <2>2, <2>3
  <1> QED
    BY <1>0, <1>2, <1>4, <1>5, <1>6, <1>7, WorkerMoves DEF Rejected, Fails

\* What accounts for a payment keeps accounting for it.
LEMMA AccountedStays ==
  ASSUME TypeOK, PelInv, [Next]_vars, NEW e \in Events, Accounted(e)
  PROVE  Accounted(e)'
  <1>1. /\ bookings[e] \in Nat /\ bookings'[e] \in Nat /\ bookings'[e] >= bookings[e]
        /\ attempts[e] \in Nat /\ attempts'[e] \in Nat /\ attempts'[e] >= attempts[e]
    BY EvidenceStays
  <1>2. CASE bookings[e] > 0 \/ attempts[e] > 0
    BY <1>1, <1>2 DEF Accounted
  <1>3. CASE \E i \in pending : stream[i] = e /\ Torn(i)
    <2>1. PICK i \in pending : stream[i] = e /\ Torn(i)
      BY <1>3
    <2>2. i \in 1 .. Len(stream) /\ i <= lastDelivered
      BY DEF TypeOK, RedisOK
    <2>3. stream'[i] = e
      BY <2>1, <2>2, StreamGrows
    <2>4. i \in pending'
      BY <2>1, AckStep DEF Torn
    <2>5. \/ bookings'[e] > 0 \/ attempts'[e] > 0
          \/ \A w \in Workers :
               i \in Held(w)' =>
                 job'[w].cur = i /\ pc'[w] \in {"book", "fail", "releaseThrow"}
      BY <2>1, <2>2, TornWorker
    <2>6. \/ bookings'[e] > 0 \/ attempts'[e] > 0 \/ Torn(i)'
      BY <2>4, <2>5 DEF Torn
    <2> QED
      BY <2>3, <2>4, <2>6 DEF Accounted
  <1> QED
    BY <1>2, <1>3 DEF Accounted

\* The run that pays an order leaves its entry torn.
LEMMA TraceStep ==
  ASSUME TypeOK, StatusInv, PelInv, TraceInv, [Next]_vars
  PROVE  TraceInv'
  <1> SUFFICES ASSUME NEW o \in Orders, orders'[o] = "PAID"
               PROVE  \E e \in Events : OrderOf(e) = o /\ Accounted(e)'
    BY DEF TraceInv, OrderOf
  <1>1. CASE orders[o] = "PAID"
    BY <1>1, AccountedStays DEF TraceInv
  <1>2. CASE orders[o] # "PAID"
    <2>1. PICK w \in Workers : UpdateStatus(w) /\ pc[w] = "status" /\ OrderOf(Current(w)) = o
      BY <1>2, OrderStep
    <2>2. pc[w] \in Busy /\ pc[w] \in RunSites
      BY <2>1 DEF Busy, Holding, RunSites
    <2>i. PICK i \in 1 .. Len(stream) : i = job[w].cur
      BY <2>2, CurrentIsEvent DEF TypeOK, RedisOK
    <2>3. Current(w) \in Events
      BY <2>2, CurrentIsEvent
    <2>4. stream'[i] = Current(w)
      BY <2>i, StreamGrows DEF Current
    <2>5. i \in pending /\ pending' = pending
      BY <2>1, <2>2, <2>i DEF PelInv, UpdateStatus
    <2>6. job'[w].cur = i /\ pc'[w] \in {"book", "fail"}
      <3>1. CASE Throws(w)
        <4>1. pc'[w] = "fail"
          BY <2>1, <3>1 DEF Throws, OnThrow, RunSites, TypeOK, LocalOK
        <4> QED
          BY <2>2, <2>i, <3>1, <4>1, ThrowBatch
      <3>2. CASE ~Throws(w)
        BY <2>1, <2>i, <3>2 DEF UpdateStatus, AfterStatus, Returns, Fails, TypeOK, LocalOK
      <3> QED
        BY <2>i, <3>1, <3>2
    <2>7. i \in Held(w)
      <3>1. job[w].cur \in Nat /\ job[w].end \in Nat
        BY DEF TypeOK, LocalOK, Job
      <3>2. job[w].cur <= job[w].end
        BY <2>2 DEF TypeOK, BatchOK
      <3> QED
        BY <2>i, <3>1, <3>2 DEF Held
    <2>8. ASSUME NEW v \in Workers, v # w
          PROVE  i \notin Held(v)'
      <3>1. i \notin Held(v)
        BY <2>7, <2>8 DEF PelInv
      <3>2. job'[v] = job[v]
        BY <2>1, <2>8 DEF UpdateStatus, Returns, Fails, Throws, TypeOK, LocalOK
      <3> QED
        BY <3>1, <3>2 DEF Held
    <2>9. Torn(i)'
      BY <2>5, <2>6, <2>8 DEF Torn
    <2> QED
      BY <2>1, <2>3, <2>4, <2>5, <2>9 DEF Accounted
  <1> QED
    BY <1>1, <1>2

\* Whatever crashes, fails, expires or is delivered twice, an order is PAID only
\* if a payment of it is in the ledger, counts a failed attempt or is un-acked in
\* the stream.
THEOREM PaidLeavesTrace == Spec => []PaidIsTraceable
  <1>1. Init => PelInv /\ TraceInv
    <2> SUFFICES ASSUME Init PROVE PelInv /\ TraceInv
      OBVIOUS
    <2>1. \A w \in Workers : Held(w) = {} /\ job[w].cur + 1 .. job[w].end = {}
      BY DEF Init, Held, NoJob, Batch
    <2>2. \A w \in Workers : pc[w] \notin RunSites \cup {"acquire", "skip"}
      BY DEF Init, RunSites
    <2> QED
      BY <2>1, <2>2 DEF PelInv, TraceInv, Init
  <1>2. TypeOK /\ StatusInv /\ PelInv /\ [Next]_vars => PelInv'
    BY PelStep
  <1>3. TypeOK /\ StatusInv /\ PelInv /\ TraceInv /\ [Next]_vars => TraceInv'
    BY TraceStep
  <1>4. TraceInv => PaidIsTraceable
    BY DEF TraceInv, Accounted, PaidIsTraceable
  <1> QED
    BY <1>1, <1>2, <1>3, <1>4, TypeCorrect, StatusCorrect, PTL DEF Spec

-----------------------------------------------------------------------------
(***************************************************************************)
(* Two payments of one order.  Their locks differ, so the only thing that  *)
(* bounds what is booked is the number of workers that can have read the   *)
(* order unpaid.                                                           *)
(***************************************************************************)
\* The workers that read order o unpaid and may yet book a payment of it.
ReadyFor(o) ==
  {w \in Workers : /\ pc[w] \in {"attach", "mismatch", "status", "book"}
                   /\ job[w].seen # "PAID"
                   /\ OrderOf(Current(w)) = o}

\* What is booked of an order and what may yet be: one pair per worker.
ShareInv ==
  \A o \in Orders :
    /\ IsFiniteSet(Pairs(o))
    /\ Cardinality(Pairs(o)) + Cardinality(ReadyFor(o)) <= Cardinality(Workers)

\* A pair is a number up to its event's bookings.
LEMMA PairsAre ==
  ASSUME NEW o, NEW p
  PROVE  p \in Pairs(o) <=>
           \E e \in Events : \E n \in 1 .. bookings[e] : OrderOf(e) = o /\ p = <<e, n>>
  BY DEF Pairs

\* A booking adds its pair to those of its order, and none to others.
LEMMA BookAddsPair ==
  ASSUME TypeOK, NEW e \in Events, bookings' = [bookings EXCEPT ![e] = @ + 1], NEW o
  PROVE  IF OrderOf(e) = o
         THEN /\ Pairs(o)' = Pairs(o) \cup {<<e, bookings[e] + 1>>}
              /\ <<e, bookings[e] + 1>> \notin Pairs(o)
         ELSE Pairs(o)' = Pairs(o)
  <1>1. /\ bookings[e] \in Nat /\ bookings'[e] = bookings[e] + 1
        /\ \A f \in Events : f # e => bookings'[f] = bookings[f]
        /\ 1 .. bookings[e] + 1 = 1 .. bookings[e] \cup {bookings[e] + 1}
        /\ bookings[e] + 1 \notin 1 .. bookings[e]
    BY DEF TypeOK, PostgresOK
  <1>2. \A p : p \in Pairs(o)' <=>
          \E f \in Events : \E n \in 1 .. bookings'[f] : OrderOf(f) = o /\ p = <<f, n>>
    BY DEF Pairs, OrderOf
  <1>3. \A p : p \in Pairs(o) <=>
          \E f \in Events : \E n \in 1 .. bookings[f] : OrderOf(f) = o /\ p = <<f, n>>
    BY PairsAre
  <1>4. \A p : p \in Pairs(o)' <=>
          p \in Pairs(o) \/ (OrderOf(e) = o /\ p = <<e, bookings[e] + 1>>)
    BY <1>1, <1>2, <1>3
  <1>5. <<e, bookings[e] + 1>> \notin Pairs(o)
    BY <1>1, <1>3
  <1> QED
    BY <1>4, <1>5

\* Before an order is paid nothing of it is booked; from then on nobody becomes
\* ready to book it, and each booking is by a worker that was.
LEMMA ShareStep ==
  ASSUME IsFiniteSet(Workers), TypeOK, TypeOK', BookingInv, NoRefunds, PaidInv', ShareInv,
         [Next]_vars
  PROVE  ShareInv'
  <1> SUFFICES ASSUME NEW o \in Orders
               PROVE  /\ IsFiniteSet(Pairs(o)')
                      /\ Cardinality(Pairs(o)') + Cardinality(ReadyFor(o)')
                           <= Cardinality(Workers)
    BY DEF ShareInv
  <1>1. /\ IsFiniteSet(ReadyFor(o)) /\ Cardinality(ReadyFor(o)) \in Nat
        /\ IsFiniteSet(ReadyFor(o)') /\ Cardinality(ReadyFor(o)') \in Nat
        /\ Cardinality(ReadyFor(o)') <= Cardinality(Workers)
        /\ Cardinality(Workers) \in Nat
    <2>1. ReadyFor(o) \subseteq Workers /\ ReadyFor(o)' \subseteq Workers
      BY DEF ReadyFor
    <2> QED
      BY <2>1, FS_Subset, FS_CardinalityType
  <1>2. /\ IsFiniteSet(Pairs(o)) /\ Cardinality(Pairs(o)) \in Nat
        /\ Cardinality(Pairs(o)) + Cardinality(ReadyFor(o)) <= Cardinality(Workers)
    BY FS_CardinalityType DEF ShareInv
  <1>3. CASE orders'[o] # "PAID"
    <2>1. \A e \in Events : OrderOf(e) = o => 1 .. bookings'[e] = {}
      BY <1>3 DEF PaidInv, TypeOK, PostgresOK, OrderOf
    <2>2. Pairs(o)' = {}
      BY <2>1 DEF Pairs, OrderOf
    <2> QED
      BY <1>1, <2>2, FS_EmptySet
  <1>4. CASE orders'[o] = "PAID"
    <2>1. ReadyFor(o)' \subseteq ReadyFor(o)
      <3> SUFFICES ASSUME NEW v \in ReadyFor(o)'
                   PROVE  v \in ReadyFor(o)
        OBVIOUS
      <3>1. /\ v \in Workers /\ pc'[v] \in {"attach", "mismatch", "status", "book"}
            /\ job'[v].seen # "PAID" /\ OrderOf(Current(v)') = o
        BY DEF ReadyFor, OrderOf
      <3>2. pc[v] \in Busy /\ Current(v)' = Current(v) /\ Current(v) \in Events
        BY <3>1, HolderStep, CurrentIsEvent DEF Holding, RunSites
      <3>3. v \in Ready(Current(v))'
        BY <3>1, <3>2 DEF Ready
      <3>4. v \in Ready(Current(v))
        BY <1>4, <3>1, <3>2, <3>3, ReadyStep
      <3> QED
        BY <3>1, <3>2, <3>4 DEF Ready, ReadyFor
    <2>2. Cardinality(ReadyFor(o)') <= Cardinality(ReadyFor(o))
      BY <1>1, <2>1, FS_Subset
    <2>3. CASE Pairs(o)' = Pairs(o)
      BY <1>1, <1>2, <2>2, <2>3
    <2>4. CASE Pairs(o)' # Pairs(o)
      <3>1. PICK e \in Events : bookings'[e] # bookings[e]
        BY <2>4 DEF Pairs, OrderOf
      <3>2. PICK w \in Workers : /\ Book(w) /\ pc[w] = "book" /\ Current(w) = e
        BY <3>1, BookingStep
      <3>3. /\ OrderOf(e) = o
            /\ Pairs(o)' = Pairs(o) \cup {<<e, bookings[e] + 1>>}
            /\ <<e, bookings[e] + 1>> \notin Pairs(o)
        BY <2>4, <3>2, BookAddsPair DEF Book
      <3>4. w \in ReadyFor(o)
        <4>1. job[w].seen # "PAID"
          BY <3>2, RunPaysUnpaidOrder DEF BookingInv, Busy, Holding, RunSites
        <4> QED
          BY <3>2, <3>3, <4>1 DEF ReadyFor
      <3>5. w \notin ReadyFor(o)'
        <4>1. pc'[w] = "ack" \/ Throws(w)
          BY <3>2 DEF Book, Returns, Fails, TypeOK, LocalOK
        <4> QED
          BY <4>1, ThrowStep DEF ReadyFor
      <3>6. Cardinality(ReadyFor(o)') # Cardinality(ReadyFor(o))
        BY <1>1, <2>1, <3>4, <3>5, FS_Subset
      <3>7. /\ IsFiniteSet(Pairs(o)')
            /\ Cardinality(Pairs(o)') = Cardinality(Pairs(o)) + 1
        BY <1>2, <3>3, FS_AddElement
      <3> QED
        BY <1>1, <1>2, <2>2, <3>6, <3>7
    <2> QED
      BY <2>3, <2>4
  <1> QED
    BY <1>3, <1>4

\* However many payments of one order there are, and whatever overlaps, expires,
\* fails, crashes or is redelivered: without refunds the order is booked at most
\* once per worker, so a lone worker books it once.
THEOREM BookedOncePerWorker ==
  ASSUME NoRefunds, IsFiniteSet(Workers)
  PROVE  Spec => []OnePairPerWorker
  <1>1. Init => BookingInv /\ PaidInv /\ ShareInv
    <2> SUFFICES ASSUME Init
                 PROVE  BookingInv /\ PaidInv /\ ShareInv
      OBVIOUS
    <2>1. BookingInv /\ PaidInv
      BY DEF Init, BookingInv, PaidInv
    <2>2. \A o : ReadyFor(o) = {} /\ Pairs(o) = {}
      BY DEF Init, ReadyFor, Pairs
    <2>3. Cardinality(Workers) \in Nat
      BY FS_CardinalityType
    <2> QED
      BY <2>1, <2>2, <2>3, FS_EmptySet DEF ShareInv
  <1>2. TypeOK /\ StatusInv /\ BookingInv /\ [Next]_vars => BookingInv'
    BY BookingInvStep
  <1>3. TypeOK /\ StatusInv /\ PaidInv /\ [Next]_vars => PaidInv'
    BY PaidInvStep
  <1>4. /\ TypeOK /\ TypeOK' /\ BookingInv /\ PaidInv' /\ ShareInv /\ [Next]_vars
        => ShareInv'
    BY ShareStep
  <1>5. ShareInv => OnePairPerWorker
    <2> SUFFICES ASSUME ShareInv, NEW o \in Orders
                 PROVE  Cardinality(Pairs(o)) <= Cardinality(Workers)
      BY DEF OnePairPerWorker
    <2>1. ReadyFor(o) \subseteq Workers
      BY DEF ReadyFor
    <2>2. /\ Cardinality(Pairs(o)) \in Nat /\ Cardinality(ReadyFor(o)) \in Nat
          /\ Cardinality(Workers) \in Nat
      BY <2>1, FS_Subset, FS_CardinalityType DEF ShareInv
    <2> QED
      BY <2>2 DEF ShareInv
  <1> QED
    BY <1>1, <1>2, <1>3, <1>4, <1>5, TypeCorrect, StatusCorrect, PTL DEF Spec
=============================================================================
