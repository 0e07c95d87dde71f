------------------------- MODULE SerialWorkerProofs -------------------------
(***************************************************************************)
(* ReconciliationWorker implements SerialReconciliation: step by step, for *)
(* any fleet, payments, failures, crashes and expiring locks, as long as   *)
(* no order is judged by two workers at a time and no status write is      *)
(* parted from its booking.  What keeps both from happening follows, and   *)
(* with it what the worker makes of the books; and at last what it takes   *)
(* for a paid order to stay unbooked, or a judged payment detached.        *)
(***************************************************************************)
EXTENDS SerialWorker, PelProofs

USE DEF Absent, NoUpdate, postgres, redis, local, budgets

\* What a worker has read of its order is what the order still is, or the order
\* was created meanwhile; after the status write it is what was written.
FreshInv ==
  \A w \in Workers :
    /\ pc[w] = "book" =>
         /\ job[w].seen # Absent
         /\ orders[OrderOf(Current(w))] = Result(w, job[w].seen).update
    /\ pc[w] \in Judging \ {"book"} =>
         \/ job[w].seen = orders[OrderOf(Current(w))]
         \/ job[w].seen = Absent /\ orders[OrderOf(Current(w))] = "CREATED"

\* Nothing is updated for an order that does not exist.
LEMMA UpdateNeedsOrder ==
  ASSUME NEW w \in Workers, NEW seen, Result(w, seen).update # NoUpdate
  PROVE  seen # Absent
  BY DEF Result, Reconcile, Mismatches

LEMMA FreshStep ==
  ASSUME TypeOK, StatusInv, FreshInv, OneRunPerOrder, [Next]_vars
  PROVE  FreshInv'
  <1> SUFFICES ASSUME NEW v \in Workers, pc'[v] \in Judging
               PROVE  (/\ pc[v] = "book" =>
                            /\ job[v].seen # Absent
                            /\ orders[OrderOf(Current(v))] = Result(v, job[v].seen).update
                       /\ pc[v] \in Judging \ {"book"} =>
                            \/ job[v].seen = orders[OrderOf(Current(v))]
                            \/ /\ job[v].seen = Absent
                               /\ orders[OrderOf(Current(v))] = "CREATED")'
    BY DEF FreshInv, Judging
  <1>0. pc'[v] \in Holding
    BY DEF Judging, Holding, RunSites
  <1>1. pc[v] \in Busy /\ Current(v)' = Current(v)
    BY <1>0, HolderStep
  <1>2. PICK o \in Orders : o = OrderOf(Current(v))
    BY <1>1, CurrentIsEvent
  <1> DEFINE Fresh == /\ pc'[v] = "book" =>
                           /\ job'[v].seen # Absent
                           /\ orders'[o] = Result(v, job'[v].seen).update
                      /\ pc'[v] \in Judging \ {"book"} =>
                           \/ job'[v].seen = orders'[o]
                           \/ job'[v].seen = Absent /\ orders'[o] = "CREATED"
  <1>3. /\ pc[v] = "book" =>
             job[v].seen # Absent /\ orders[o] = Result(v, job[v].seen).update
        /\ pc[v] \in Judging \ {"book"} =>
             job[v].seen = orders[o] \/ (job[v].seen = Absent /\ orders[o] = "CREATED")
    BY <1>2 DEF FreshInv
  <1>4. \/ orders'[o] = orders[o]
        \/ orders[o] = Absent /\ orders'[o] = "CREATED"
        \/ /\ UpdateStatus(v) /\ pc[v] = "status"
           /\ orders'[o] = Result(v, job[v].seen).update
        \/ pc[v] \notin Judging
    <2>1. ASSUME NEW w \in Workers, pc[w] = "status", OrderOf(Current(w)) = o,
                 pc[v] \in Judging
          PROVE  w = v
      BY <1>2, <2>1 DEF OneRunPerOrder, Judging
    <2> QED
      BY <2>1, OrderStep
  <1> SUFFICES Fresh
    BY <1>1, <1>2 DEF Result
  <1>5. CASE pc'[v] = pc[v] /\ job'[v] = job[v]
    <2>1. ~UpdateStatus(v)
      BY <1>5 DEF UpdateStatus, Returns, Fails, Throws, OnThrow, AfterStatus, RunSites,
         TypeOK, LocalOK
    <2>2. CASE pc[v] = "book"
      <3>1. orders[o] # Absent
        <4>1. /\ Result(v, job[v].seen).update = orders[o]
              /\ Result(v, job[v].seen).update # Absent
          BY <1>1, <1>3, <2>2, ResultType DEF Judging, OrderStatus
        <4> QED
          BY <4>1
      <3> QED
        BY <1>3, <1>4, <1>5, <2>1, <2>2, <3>1 DEF Judging
    <2>3. CASE pc[v] # "book"
      BY <1>3, <1>4, <1>5, <2>1, <2>3
    <2> QED
      BY <2>2, <2>3
  <1>6. CASE Step(v) /\ ~Throws(v)
    <2>1. CASE Resolve(v)
      <3>1. orders' = orders /\ pc[v] = "resolve"
        BY <2>1 DEF Resolve
      <3>2. job'[v].seen = orders[o] /\ pc'[v] # "book"
        BY <1>2, <1>6, <3>1, OwnStep
        DEF Read, Acquire, RecordMismatches, UpdateStatus, IncrementAttempts, DeadLetter
      <3> QED
        BY <3>1, <3>2
    <2>2. CASE pc[v] \in {"attach", "mismatch"} /\ job'[v] = job[v] /\ pc'[v] # "book"
      BY <1>3, <1>4, <2>2 DEF Judging
    <2>3. CASE UpdateStatus(v) /\ pc'[v] = "book" /\ job'[v] = job[v]
      <3>1. pc[v] = "status" /\ orders'[o] = Result(v, job[v].seen).update
        BY <1>2, <2>3 DEF UpdateStatus, TypeOK, PostgresOK
      <3>2. job[v].seen # Absent
        BY <3>1, UpdateNeedsOrder DEF StatusInv
      <3> QED
        BY <2>3, <3>1, <3>2
    <2>4. \/ Resolve(v)
          \/ pc[v] \in {"attach", "mismatch"} /\ job'[v] = job[v] /\ pc'[v] # "book"
          \/ UpdateStatus(v) /\ pc'[v] = "book" /\ job'[v] = job[v]
      BY <1>6, OwnStep, AfterReconcileLabel DEF Judging, RecordMismatches
    <2> HIDE DEF Fresh
    <2> QED
      BY <2>1, <2>2, <2>3, <2>4
  <1>7. ~(Throws(v) \/ pc'[v] \in {"down", "read"})
    BY ThrowStep DEF Judging
  <1> HIDE DEF Fresh
  <1> QED
    BY <1>5, <1>6, <1>7, WorkerMoves DEF Rejected, Fails

-----------------------------------------------------------------------------
(***************************************************************************)
(* How the order a run has under way looks meanwhile.                      *)
(***************************************************************************)
\* Only the status write brings a worker to its booking, and it stays there
\* until its own next step or its end.
LEMMA AtBooking ==
  ASSUME TypeOK, [Next]_vars, NEW v \in Workers, pc[v] = "book" \/ pc'[v] = "book"
  PROVE  \/ pc'[v] = pc[v] /\ job'[v] = job[v]
         \/ pc[v] = "status" /\ UpdateStatus(v)
         \/ pc[v] = "book" /\ pc'[v] # "book"
  <1>1. CASE Throws(v)
    BY <1>1, ThrowStep
  <1>2. CASE Step(v) /\ ~Throws(v)
    BY <1>2, OwnStep, AfterReconcileLabel
    DEF Read, Acquire, Resolve, RecordMismatches, UpdateStatus, IncrementAttempts, DeadLetter
  <1> QED
    BY <1>1, <1>2, WorkerMoves DEF Rejected, Fails

\* An order settles for another status only through its own row or a worker at
\* its booking.
LEMMA SettledAt ==
  ASSUME TypeOK, [Next]_vars, NEW o \in Orders, orders'[o] = orders[o],
         \A v \in Workers :
           \/ pc[v] = "book" /\ OrderOf(Current(v)) = o
           \/ pc'[v] = "book" /\ OrderOf(Current(v)') = o
           => pc'[v] = pc[v] /\ job'[v] = job[v]
  PROVE  SettledOrders'[o] = SettledOrders[o]
  <1> DEFINE now  == {v \in Workers : pc[v] = "book" /\ OrderOf(Current(v)) = o}
             next == {v \in Workers : pc'[v] = "book" /\ OrderOf(Current(v)') = o}
  <1>1. ASSUME NEW v \in Workers, pc[v] = "book", pc'[v] = pc[v] /\ job'[v] = job[v]
        PROVE  Current(v)' = Current(v)
    BY <1>1, CurrentStable DEF Busy, Holding, RunSites
  <1>2. now = next
    BY <1>1
  <1>3. now # {} => (CHOOSE v \in now : TRUE) \in now
    OBVIOUS
  <1>4. now # {} => job'[CHOOSE v \in now : TRUE] = job[CHOOSE v \in now : TRUE]
    BY <1>3
  <1>5. /\ SettledOrders[o] =
             IF now = {} THEN orders[o] ELSE job[CHOOSE v \in now : TRUE].seen
        /\ SettledOrders'[o] =
             IF next = {} THEN orders'[o] ELSE job'[CHOOSE v \in next : TRUE].seen
    BY DEF SettledOrders, OrderOf
  <1> HIDE DEF now, next
  <1> QED
    BY <1>2, <1>4, <1>5

\* The order of a worker that is about to book, and of one that is not.
LEMMA Settled ==
  ASSUME OneRunPerOrder, NEW w \in Workers, pc[w] \in Judging,
         OrderOf(Current(w)) \in Orders
  PROVE  SettledOrders[OrderOf(Current(w))] =
           IF pc[w] = "book" THEN job[w].seen ELSE orders[OrderOf(Current(w))]
  <1> DEFINE now == {v \in Workers : pc[v] = "book" /\ OrderOf(Current(v)) = OrderOf(Current(w))}
  <1>1. SettledOrders[OrderOf(Current(w))] =
          IF now = {} THEN orders[OrderOf(Current(w))]
          ELSE job[CHOOSE v \in now : TRUE].seen
    BY DEF SettledOrders
  <1>2. now = IF pc[w] = "book" THEN {w} ELSE {}
    BY DEF OneRunPerOrder, Judging
  <1>3. (CHOOSE v \in {w} : TRUE) = w
    OBVIOUS
  <1> HIDE DEF now
  <1> QED
    BY <1>1, <1>2, <1>3

\* A step that neither writes an order nor books settles nothing.
LEMMA SettledStays ==
  ASSUME TypeOK, [Next]_vars, KeepsWhole, UNCHANGED <<orders, bookings>>,
         \A w \in Workers : ~UpdateStatus(w)
  PROVE  SettledOrders' = SettledOrders
  <1>1. ASSUME NEW v \in Workers, pc[v] = "book" \/ pc'[v] = "book"
        PROVE  pc'[v] = pc[v] /\ job'[v] = job[v]
    BY <1>1, AtBooking DEF KeepsWhole
  <1>2. \A o \in Orders : SettledOrders'[o] = SettledOrders[o]
    BY <1>1, SettledAt
  <1> QED
    BY <1>2 DEF SettledOrders

-----------------------------------------------------------------------------
(***************************************************************************)
(* Every step of the fleet is a step of SerialReconciliation, or none.     *)
(***************************************************************************)
\* The verdict of a run is that of SerialReconciliation on what it has read.
LEMMA SameVerdict ==
  ASSUME NEW w \in Workers, NEW seen
  PROVE  /\ Serial!Reconcile(Payment[Current(w)],
                             Serial!OrderAs(OrderOf(Current(w)), seen), DelayThreshold)
              = Result(w, seen)
         /\ Serial!NoUpdate = NoUpdate /\ Serial!Absent = Absent
         /\ Serial!OrderOf(Current(w)) = OrderOf(Current(w))
  <1>1. Serial!OrderAs(OrderOf(Current(w)), seen)
          = [amount |-> OrderData[OrderOf(Current(w))].amount,
             currency |-> OrderData[OrderOf(Current(w))].currency,
             createdAt |-> OrderData[OrderOf(Current(w))].createdAt, status |-> seen]
    BY DEF Serial!OrderAs
  <1>2. \A payment, order, threshold :
          Serial!Mismatches(payment, order, threshold) = Mismatches(payment, order, threshold)
    BY DEF Serial!Mismatches, Mismatches, Serial!Applies, Applies, Serial!AmountMismatch,
       AmountMismatch, Serial!DelayedWebhook, DelayedWebhook, Serial!DuplicatePayment,
       DuplicatePayment, Serial!StatusConflict, StatusConflict, Serial!MismatchReason,
       MismatchReason, Serial!Absent
  <1>3. \A payment, order, threshold :
          Serial!Reconcile(payment, order, threshold) = Reconcile(payment, order, threshold)
    BY <1>2 DEF Serial!Reconcile, Reconcile, Serial!Verdict, Verdict,
       Serial!OrderStatusUpdate, OrderStatusUpdate, Serial!NoUpdate
  <1> QED
    BY <1>1, <1>3 DEF Result, Serial!NoUpdate, Serial!Absent, Serial!OrderOf, OrderOf

\* No update repeats the status the order was read with.
LEMMA UpdateMoves ==
  ASSUME TypeOK, NEW w \in Workers, pc[w] \in Busy, NEW seen,
         Result(w, seen).update # NoUpdate
  PROVE  Result(w, seen).update # seen
  <1>1. Payment[Current(w)].gatewayStatus \in PaymentStatus
    BY CurrentIsEvent, WorkerAssumption
  <1>2. /\ Result(w, seen).update \in {"PAID", "REFUNDED"}
        /\ Result(w, seen).update = "REFUNDED" => seen = "PAID"
    BY <1>1, RefundsPaidOrder DEF Result
  <1>3. ASSUME Result(w, seen).update = "PAID"
        PROVE  seen # "PAID"
    <2>1. Payment[Current(w)].gatewayStatus # "REFUNDED"
      BY <1>1, <1>3, ReconcileCoherent DEF Result, OrderStatusUpdate
    <2> QED
      BY <1>1, <2>1, PaysUnpaidOrder DEF Result
  <1> QED
    BY <1>2, <1>3

\* What the simulation needs of a state.
RunInv ==
  /\ TypeOK /\ StatusInv /\ EvidenceInv /\ BookingInv
  /\ StoredInv /\ FreshInv /\ OneRunPerOrder

\* An event a worker is busy with has a row.
LEMMA CurrentStored ==
  ASSUME RunInv, NEW w \in Workers, pc[w] \in Busy
  PROVE  /\ Current(w) \in Events /\ OrderOf(Current(w)) \in Orders
         /\ state[Current(w)] # Absent
  BY CurrentIsEvent DEF RunInv, StoredInv, Current, TypeOK, RedisOK

\* A worker reads an order at a moment SerialReconciliation allows for.
LEMMA SeenIsSnapshot ==
  ASSUME RunInv, NEW w \in Workers, pc[w] \in {"book", "mark"}
  PROVE  job[w].seen \in Serial!Snapshots(OrderOf(Current(w)))
  <1>1. pc[w] \in Busy /\ pc[w] \in Judging
    BY DEF Busy, Holding, RunSites, Judging
  <1>2. SettledOrders[OrderOf(Current(w))] =
          IF pc[w] = "book" THEN job[w].seen ELSE orders[OrderOf(Current(w))]
    BY <1>1, CurrentStored, Settled DEF RunInv
  <1>3. CASE pc[w] = "book"
    BY <1>2, <1>3 DEF Serial!Snapshots
  <1>4. CASE pc[w] = "mark"
    <2>1. \/ job[w].seen = orders[OrderOf(Current(w))]
          \/ job[w].seen = Absent /\ orders[OrderOf(Current(w))] = "CREATED"
      BY <1>1, <1>4 DEF RunInv, FreshInv
    <2> QED
      BY <1>2, <1>4, <2>1 DEF Serial!Snapshots, Serial!Absent
  <1> QED
    BY <1>3, <1>4

\* The status write does write.
LEMMA UpdateWrites ==
  ASSUME RunInv, NEW w \in Workers, UpdateStatus(w)
  PROVE  orders' # orders
  <1>1. /\ pc[w] = "status" /\ pc[w] \in Busy /\ pc[w] \in Judging /\ TypeOK
        /\ OrderOf(Current(w)) \in Orders
    BY CurrentStored DEF UpdateStatus, Busy, Holding, RunSites, Judging, RunInv
  <1>2. Result(w, job[w].seen).update # NoUpdate
    BY <1>1 DEF RunInv, StatusInv
  <1>3. job[w].seen = orders[OrderOf(Current(w))]
    <2>1. job[w].seen # Absent
      BY <1>2, UpdateNeedsOrder
    <2> QED
      BY <1>1, <2>1 DEF RunInv, FreshInv
  <1>4. orders'[OrderOf(Current(w))] = Result(w, job[w].seen).update
    BY <1>1 DEF UpdateStatus, TypeOK, PostgresOK
  <1> QED
    BY <1>1, <1>2, <1>3, <1>4, UpdateMoves

\* The status write alone does not show.
LEMMA UpdateStutters ==
  ASSUME RunInv, [Next]_vars, KeepsWhole, NEW w \in Workers, UpdateStatus(w)
  PROVE  UNCHANGED <<SettledOrders, state, bookings>>
  <1>1. /\ pc[w] = "status" /\ pc[w] \in Busy /\ pc[w] \in Judging /\ TypeOK
        /\ OrderOf(Current(w)) \in Orders
    BY CurrentStored DEF UpdateStatus, Busy, Holding, RunSites, Judging, RunInv
  <1> DEFINE o == OrderOf(Current(w))
  <1>2. Result(w, job[w].seen).update # NoUpdate
    BY <1>1 DEF RunInv, StatusInv
  <1>3. job[w].seen = orders[o]
    <2>1. job[w].seen # Absent
      BY <1>2, UpdateNeedsOrder
    <2> QED
      BY <1>1, <2>1 DEF RunInv, FreshInv
  <1>4. orders' = [orders EXCEPT ![o] = Result(w, job[w].seen).update]
    BY DEF UpdateStatus
  <1>5. orders' # orders
    BY UpdateWrites
  <1>6. pc'[w] = "book" /\ job'[w] = job[w]
    <2>1. pc'[w] \in {"status", "book"}
      BY <1>1, <1>5 DEF KeepsWhole
    <2> QED
      BY <1>1, <2>1 DEF UpdateStatus, AfterStatus, Returns, Fails, Throws, OnThrow, RunSites,
         TypeOK, LocalOK
  <1>7. \A v \in Workers : v # w => pc'[v] = pc[v] /\ job'[v] = job[v]
    BY <1>1, OthersStand DEF Step
  <1>8. Current(w)' = Current(w)
    BY <1>1, <1>6, CurrentStable
  <1>9. ASSUME NEW v \in Workers, v # w, pc[v] = "book"
        PROVE  OrderOf(Current(v)) # o /\ Current(v)' = Current(v)
    <2>1. pc[v] \in Judging /\ pc[v] \in Busy
      BY <1>9 DEF Judging, Busy, Holding, RunSites
    <2> QED
      BY <1>1, <1>7, <1>9, <2>1, CurrentStable DEF RunInv, OneRunPerOrder
  <1>10. SettledOrders'[o] = SettledOrders[o]
    <2>1. SettledOrders[o] = orders[o]
      BY <1>1, Settled DEF RunInv
    <2> DEFINE next == {v \in Workers : pc'[v] = "book" /\ OrderOf(Current(v)') = o}
    <2>2. next = {w}
      BY <1>6, <1>7, <1>8, <1>9
    <2>3. SettledOrders'[o] =
            IF next = {} THEN orders'[o] ELSE job'[CHOOSE v \in next : TRUE].seen
      BY <1>1 DEF SettledOrders, OrderOf
    <2>4. (CHOOSE v \in {w} : TRUE) = w
      OBVIOUS
    <2> HIDE DEF next
    <2> QED
      BY <1>3, <1>6, <2>1, <2>2, <2>3, <2>4
  <1>11. ASSUME NEW p \in Orders, p # o
         PROVE  SettledOrders'[p] = SettledOrders[p]
    <2>1. orders'[p] = orders[p]
      BY <1>1, <1>4, <1>11 DEF TypeOK, PostgresOK
    <2>2. ASSUME NEW v \in Workers,
                 \/ pc[v] = "book" /\ OrderOf(Current(v)) = p
                 \/ pc'[v] = "book" /\ OrderOf(Current(v)') = p
          PROVE  v # w
      BY <1>1, <1>8, <1>11, <2>2
    <2> QED
      BY <1>1, <1>7, <2>1, <2>2, SettledAt
  <1>12. SettledOrders' = SettledOrders
    BY <1>10, <1>11 DEF SettledOrders
  <1> QED
    BY <1>12 DEF UpdateStatus

\* The ledger transaction is where a payment is processed.
LEMMA BookProcesses ==
  ASSUME RunInv, [Next]_vars, NEW w \in Workers, Book(w)
  PROVE  Serial!Process(Current(w))
  <1>1. /\ pc[w] = "book" /\ pc[w] \in Busy /\ pc[w] \in Judging /\ TypeOK
        /\ Current(w) \in Events /\ OrderOf(Current(w)) \in Orders
        /\ state[Current(w)] # Absent
    BY CurrentStored DEF Book, Busy, Holding, RunSites, Judging, RunInv
  <1> DEFINE e == Current(w)
             o == OrderOf(e)
             result == Result(w, job[w].seen)
  <1>2. /\ result.update # NoUpdate /\ orders[o] = result.update
        /\ SettledOrders[o] = job[w].seen
    BY <1>1, Settled DEF RunInv, BookingInv, FreshInv
  <1>3. pc'[w] # "book"
    <2>1. CASE Throws(w)
      BY <1>1, <2>1, ThrowStep
    <2>2. CASE ~Throws(w)
      BY <1>1, <2>2 DEF Book, Returns, Fails, TypeOK, LocalOK
    <2> QED
      BY <2>1, <2>2
  <1>4. \A v \in Workers : v # w => pc'[v] = pc[v] /\ job'[v] = job[v]
    BY <1>1, OthersStand DEF Step
  <1>5. ASSUME NEW v \in Workers, v # w, pc[v] = "book"
        PROVE  OrderOf(Current(v)) # o /\ Current(v)' = Current(v)
    <2>1. pc[v] \in Judging /\ pc[v] \in Busy
      BY <1>5 DEF Judging, Busy, Holding, RunSites
    <2> QED
      BY <1>1, <1>4, <1>5, <2>1, CurrentStable DEF RunInv, OneRunPerOrder
  <1>6. orders' = orders
    BY DEF Book
  <1>7. SettledOrders'[o] = result.update
    <2> DEFINE next == {v \in Workers : pc'[v] = "book" /\ OrderOf(Current(v)') = o}
    <2>1. next = {}
      BY <1>3, <1>4, <1>5
    <2>2. SettledOrders'[o] =
            IF next = {} THEN orders'[o] ELSE job'[CHOOSE v \in next : TRUE].seen
      BY <1>1 DEF SettledOrders, OrderOf
    <2> HIDE DEF next
    <2> QED
      BY <1>2, <1>6, <2>1, <2>2
  <1>8. ASSUME NEW p \in Orders, p # o
        PROVE  SettledOrders'[p] = SettledOrders[p]
    <2>1. ASSUME NEW v \in Workers,
                 \/ pc[v] = "book" /\ OrderOf(Current(v)) = p
                 \/ pc'[v] = "book" /\ OrderOf(Current(v)') = p
          PROVE  v # w
      BY <1>3, <1>8, <2>1
    <2> QED
      BY <1>1, <1>4, <1>6, <2>1, SettledAt
  <1>9. SettledOrders' = [SettledOrders EXCEPT ![o] = result.update]
    BY <1>7, <1>8 DEF SettledOrders
  <1>10. /\ bookings' = [bookings EXCEPT ![e] = @ + 1]
         /\ state' = [state EXCEPT ![e] = result.state]
         /\ bookings[e] + 1 \in Nat
    BY <1>1 DEF Book, TypeOK, PostgresOK
  <1>11. job[w].seen \in Serial!Snapshots(o)
    BY <1>1, SeenIsSnapshot
  <1> HIDE DEF result
  <1> QED
    BY <1>1, <1>2, <1>9, <1>10, <1>11, SameVerdict DEF Serial!Process, result

\* A verdict without a booking is processed when it is marked.
LEMMA MarkProcesses ==
  ASSUME RunInv, [Next]_vars, KeepsWhole, NEW w \in Workers, MarkProcessed(w)
  PROVE  Serial!Process(Current(w))
  <1>1. /\ pc[w] = "mark" /\ pc[w] \in Busy /\ TypeOK
        /\ Current(w) \in Events /\ state[Current(w)] # Absent
    BY CurrentStored DEF MarkProcessed, Busy, Holding, RunSites, RunInv
  <1> DEFINE result == Result(w, job[w].seen)
  <1>2. result.update = NoUpdate
    BY <1>1 DEF RunInv, EvidenceInv
  <1>3. /\ state' = [state EXCEPT ![Current(w)] = result.state]
        /\ UNCHANGED <<orders, bookings>>
    BY DEF MarkProcessed
  <1>4. \A v \in Workers : ~UpdateStatus(v)
    BY <1>3, UpdateWrites
  <1>5. SettledOrders' = SettledOrders
    BY <1>1, <1>3, <1>4, SettledStays
  <1>6. job[w].seen \in Serial!Snapshots(OrderOf(Current(w)))
    BY <1>1, SeenIsSnapshot
  <1> HIDE DEF result
  <1> QED
    BY <1>1, <1>2, <1>3, <1>5, <1>6, SameVerdict DEF Serial!Process, result

\* A failed attempt is recorded.
LEMMA FailureFails ==
  ASSUME RunInv, [Next]_vars, KeepsWhole, NEW w \in Workers,
         MarkDeadLettered(w) \/ MarkFailed(w)
  PROVE  Serial!Fail(Current(w))
  <1>1. pc[w] \in Busy /\ TypeOK /\ state[Current(w)] # Absent
    BY CurrentStored DEF MarkDeadLettered, MarkFailed, Busy, Holding, FailureSites, RunInv
  <1>2. /\ \E s \in {"FAILED", "DEAD_LETTERED"} : state' = [state EXCEPT ![Current(w)] = s]
        /\ UNCHANGED <<orders, bookings>>
    BY DEF MarkDeadLettered, MarkFailed
  <1>3. \A v \in Workers : ~UpdateStatus(v)
    BY <1>2, UpdateWrites
  <1>4. SettledOrders' = SettledOrders
    BY <1>1, <1>2, <1>3, SettledStays
  <1> QED
    BY <1>1, <1>2, <1>4, SameVerdict DEF Serial!Fail

\* A new order has no worker at its booking.
LEMMA OrderIsCreated ==
  ASSUME RunInv, [Next]_vars, NEW o \in Orders, CreateOrder(o)
  PROVE  Serial!CreateOrder(o)
  <1>1. /\ orders[o] = Absent /\ orders' = [orders EXCEPT ![o] = "CREATED"]
        /\ UNCHANGED <<state, bookings, pc, job, stream>> /\ TypeOK
    BY DEF CreateOrder, RunInv
  <1>2. ASSUME NEW w \in Workers, pc[w] = "book"
        PROVE  OrderOf(Current(w)) # o
    <2>1. pc[w] \in Busy
      BY <1>2 DEF Busy, Holding, RunSites
    <2>2. /\ Result(w, job[w].seen).update # Absent
          /\ Result(w, job[w].seen).update = orders[OrderOf(Current(w))]
      BY <1>1, <1>2, <2>1, ResultType DEF RunInv, FreshInv, BookingInv, OrderStatus
    <2> QED
      BY <1>1, <2>2
  <1>3. SettledOrders[o] = orders[o] /\ SettledOrders'[o] = orders'[o]
    <2> DEFINE now  == {w \in Workers : pc[w] = "book" /\ OrderOf(Current(w)) = o}
               next == {w \in Workers : pc'[w] = "book" /\ OrderOf(Current(w)') = o}
    <2>1. now = {} /\ next = {}
      BY <1>1, <1>2 DEF Current
    <2>2. /\ SettledOrders[o] =
               IF now = {} THEN orders[o] ELSE job[CHOOSE w \in now : TRUE].seen
          /\ SettledOrders'[o] =
               IF next = {} THEN orders'[o] ELSE job'[CHOOSE w \in next : TRUE].seen
      BY DEF SettledOrders, OrderOf
    <2> HIDE DEF now, next
    <2> QED
      BY <2>1, <2>2
  <1>4. \A p \in Orders : p # o => SettledOrders'[p] = SettledOrders[p]
    BY <1>1, SettledAt DEF TypeOK, PostgresOK
  <1>5. SettledOrders'[o] = "CREATED"
    BY <1>1, <1>3 DEF TypeOK, PostgresOK
  <1>6. SettledOrders' = [SettledOrders EXCEPT ![o] = "CREATED"]
    <2>1. /\ SettledOrders' = [p \in Orders |-> SettledOrders'[p]]
          /\ SettledOrders = [p \in Orders |-> SettledOrders[p]]
      BY DEF SettledOrders
    <2> QED
      BY <1>4, <1>5, <2>1
  <1> QED
    BY <1>1, <1>3, <1>6 DEF Serial!CreateOrder, Serial!Absent

\* Every step maps to a step or a stutter.
LEMMA StepSimulates ==
  ASSUME RunInv, [Next]_vars, [KeepsWhole]_vars
  PROVE  [Serial!Next]_Serial!vars
  <1>1. CASE UNCHANGED vars
    BY <1>1 DEF vars, Serial!vars, SettledOrders, Current, OrderOf
  <1>2. CASE KeepsWhole /\ ~UNCHANGED vars
    <2> USE <1>2
    <2>1. ASSUME NEW w \in Workers, UpdateStatus(w)
          PROVE  UNCHANGED Serial!vars
      BY <2>1, UpdateStutters DEF Serial!vars
    <2>2. ASSUME NEW w \in Workers, Book(w)
          PROVE  Serial!Next
      <3>1. Current(w) \in Events
        BY <2>2, CurrentStored DEF Book, Busy, Holding, RunSites
      <3> QED
        BY <2>2, <3>1, BookProcesses DEF Serial!Next
    <2>3. ASSUME NEW w \in Workers, MarkProcessed(w)
          PROVE  Serial!Next
      <3>1. Current(w) \in Events
        BY <2>3, CurrentStored DEF MarkProcessed, Busy, Holding, RunSites
      <3> QED
        BY <2>3, <3>1, MarkProcesses DEF Serial!Next
    <2>4. ASSUME NEW w \in Workers, MarkDeadLettered(w) \/ MarkFailed(w)
          PROVE  Serial!Next
      <3>1. Current(w) \in Events
        BY <2>4, CurrentStored DEF MarkDeadLettered, MarkFailed, Busy, Holding, FailureSites
      <3> QED
        BY <2>4, <3>1, FailureFails DEF Serial!Next
    <2>5. ASSUME NEW o \in Orders, CreateOrder(o)
          PROVE  Serial!Next
      BY <2>5, OrderIsCreated DEF Serial!Next
    <2>6. ASSUME UNCHANGED <<orders, bookings>>
          PROVE  SettledOrders' = SettledOrders
      <3>1. \A w \in Workers : ~UpdateStatus(w)
        BY <2>6, UpdateWrites
      <3> QED
        BY <2>6, <3>1, SettledStays DEF RunInv
    <2>7. ASSUME NEW e \in Events, Store(e)
          PROVE  Serial!Next
      <3>1. /\ state[e] = Absent /\ state' = [state EXCEPT ![e] = "PENDING"]
            /\ UNCHANGED <<orders, bookings>>
        BY <2>7 DEF Store
      <3> QED
        BY <2>6, <3>1 DEF Serial!Next, Serial!Receive, Serial!Absent
    <2>8. ASSUME NEW w \in Workers, Step(w) \/ Rejected(w), ~UpdateStatus(w), ~Book(w),
                 ~MarkProcessed(w), ~MarkDeadLettered(w), ~MarkFailed(w)
          PROVE  UNCHANGED <<orders, state, bookings>>
      BY <2>8 DEF Step, Read, Acquire, Skip, Find, Resolve, Attach, RecordMismatches, Ack,
           IncrementAttempts, AckFailed, DeadLetter, ScheduleRetry, Release, Rejected
    <2>9. ASSUME NEW w \in Workers,
                 Promote(w) \/ Crash(w) \/ Stop(w) \/ PromotionThrows(w) \/ Restart(w)
          PROVE  UNCHANGED <<orders, state, bookings>>
      BY <2>9 DEF Promote, PullDue, RemoveDue, Republish, Crash, Stop, PromotionThrows,
           Dies, Restart
    <2>10. ASSUME NEW e \in Events, Expire(e) \/ Publish(e)
           PROVE  UNCHANGED <<orders, state, bookings>>
      BY <2>10 DEF Expire, Publish
    <2>11. UNCHANGED <<orders, state, bookings>> => UNCHANGED Serial!vars
      BY <2>6 DEF Serial!vars
    <2> QED
      BY <2>1, <2>2, <2>3, <2>4, <2>5, <2>7, <2>8, <2>9, <2>10, <2>11 DEF Next
  <1> QED
    BY <1>1, <1>2

LEMMA RunStep ==
  ASSUME RunInv, [Next]_vars, OneRunPerOrder'
  PROVE  RunInv'
  <1>1. TypeOK' /\ StatusInv'
    BY StepType, OtherStepsType, StatusStep DEF RunInv
  <1>2. EvidenceInv' /\ BookingInv'
    BY EvidenceInvStep, BookingInvStep DEF RunInv
  <1>3. StoredInv' /\ FreshInv'
    BY <1>1, StoredStep, FreshStep DEF RunInv
  <1> QED
    BY <1>1, <1>2, <1>3 DEF RunInv

LEMMA RunInit ==
  ASSUME Init, OneRunPerOrder
  PROVE  RunInv
  <1>1. TypeOK
    BY InitType
  <1>2. \A w \in Workers : pc[w] = "read" /\ promotion[w].due = {}
    BY DEF Init, Idle
  <1>3. Len(stream) = 0 /\ retries = {}
    BY DEF Init
  <1>4. StoredInv
    BY <1>2, <1>3 DEF StoredInv
  <1> QED
    BY <1>1, <1>2, <1>4 DEF RunInv, StatusInv, EvidenceInv, BookingInv, FreshInv, Judging

LEMMA InitSimulates ==
  ASSUME Init
  PROVE  Serial!Init
  <1>1. SettledOrders = [o \in Orders |-> Absent]
    <2>1. \A w \in Workers : pc[w] # "book"
      BY DEF Init
    <2>2. ASSUME NEW o \in Orders
          PROVE  SettledOrders[o] = Absent
      <3>1. {w \in Workers : pc[w] = "book" /\ OrderOf(Current(w)) = o} = {}
        BY <2>1
      <3> QED
        BY <3>1 DEF SettledOrders, Init
    <2> QED
      BY <2>2 DEF SettledOrders
  <1> QED
    BY <1>1 DEF Init, Serial!Init, Serial!Absent

\* As long as no two workers judge one order at a time and no status write is
\* parted from its booking, the fleet implements SerialReconciliation: whatever
\* is delivered twice, retried, killed or failing elsewhere, each event is in
\* effect processed in single atomic steps.
THEOREM WorkerIsSerial ==
  Spec /\ []OneRunPerOrder /\ [][KeepsWhole]_vars => ImplementsSerial
  <1>1. Init /\ OneRunPerOrder => RunInv
    BY RunInit
  <1>2. RunInv /\ [Next]_vars /\ OneRunPerOrder' => RunInv'
    BY RunStep
  <1>3. Init => Serial!Init
    BY InitSimulates
  <1>4. RunInv /\ [Next]_vars /\ [KeepsWhole]_vars => [Serial!Next]_Serial!vars
    BY StepSimulates
  <1> QED
    BY <1>1, <1>2, <1>3, <1>4, PTL DEF Spec, ImplementsSerial, Serial!Spec

-----------------------------------------------------------------------------
(***************************************************************************)
(* When neither can happen.                                                *)
(***************************************************************************)
\* One worker; or no lock outlives its TTL and every order has one event.
Apart ==
  \/ \A v, w \in Workers : v = w
  \/ /\ MaxOverruns = 0
     /\ \A e, f \in Events : OrderOf(e) = OrderOf(f) => e = f

\* No process ends, and neither the status write nor the ledger transaction fails.
Unharmed == MaxExits = 0 /\ FaultSites \cap {"status", "book", "promote"} = {}

\* A worker judges the event it has locked.
LEMMA ApartOneRun ==
  ASSUME Apart, LockExclusion, MaxOverruns = 0 => overruns = 0, TypeOK
  PROVE  OneRunPerOrder
  <1> SUFFICES ASSUME NEW v \in Workers, NEW w \in Workers, pc[v] \in Judging,
                      pc[w] \in Judging, OrderOf(Current(v)) = OrderOf(Current(w))
               PROVE  v = w
    BY DEF OneRunPerOrder
  <1>1. {pc[v], pc[w]} \subseteq Holding /\ {pc[v], pc[w]} \subseteq Busy
    BY DEF Judging, Busy, Holding, RunSites
  <1>2. Current(v) \in Events /\ Current(w) \in Events
    BY <1>1, CurrentIsEvent
  <1> QED
    BY <1>1, <1>2 DEF Apart, LockExclusion, Runs

\* No process ends between the two writes.
LEMMA NobodyEnds ==
  ASSUME Unharmed, TypeOK, [Next]_vars, NEW w \in Workers, pc[w] \in {"status", "book"}
  PROVE  pc'[w] # "down"
  <1>1. ~Fails(w)
    BY DEF Fails, Unharmed
  <1>2. ASSUME NEW v \in Workers
        PROVE  ~Crash(v) /\ ~Stop(v) /\ ~PromotionThrows(v)
    BY DEF Crash, Stop, PromotionThrows, Unharmed, TypeOK, BudgetsOK
  <1>3. ASSUME NEW v \in Workers, Step(v) \/ Rejected(v)
        PROVE  pc'[w] # "down"
    BY <1>1, <1>3, OthersStand, KeepsRunning DEF Rejected
  <1>4. ASSUME NEW v \in Workers, Promote(v) \/ Restart(v)
        PROVE  pc'[w] # "down"
    BY <1>4 DEF Promote, PullDue, RemoveDue, Republish, Restart, TypeOK, LocalOK
  <1>5. ASSUME NEW e \in Events, Expire(e) \/ Store(e) \/ Publish(e)
        PROVE  pc'[w] # "down"
    BY <1>5 DEF Expire, Store, Publish
  <1>6. ASSUME NEW o \in Orders, CreateOrder(o)
        PROVE  pc'[w] # "down"
    BY <1>6 DEF CreateOrder
  <1> QED
    BY <1>2, <1>3, <1>4, <1>5, <1>6 DEF Next, vars

\* Who does not fail, does not part the two writes.
LEMMA UnharmedIsWhole ==
  ASSUME Unharmed, TypeOK, [Next]_vars
  PROVE  KeepsWhole
  <1> SUFFICES ASSUME NEW w \in Workers
               PROVE  /\ pc[w] = "status" /\ orders' # orders => pc'[w] \in {"status", "book"}
                      /\ pc[w] = "book" /\ pc'[w] # "book" => bookings' # bookings
    BY DEF KeepsWhole
  <1>0. ~Fails(w) \/ pc[w] \notin {"status", "book"}
    BY DEF Fails, Unharmed
  <1>1. ASSUME pc[w] \in {"status", "book"}, pc'[w] # pc[w] \/ job'[w] # job[w]
        PROVE  Step(w) \/ pc'[w] = "down"
    BY <1>0, <1>1, WorkerMoves DEF Rejected
  <1>2. ASSUME pc[w] \in {"status", "book"}
        PROVE  ~(pc'[w] = "down")
    BY <1>2, NobodyEnds
  <1>3. CASE Step(w) /\ pc[w] = "status"
    <2>1. UpdateStatus(w)
      BY <1>3 DEF Step, Read, Acquire, Skip, Find, Resolve, Attach, RecordMismatches,
           Book, MarkProcessed, Ack, IncrementAttempts, AckFailed, DeadLetter,
           MarkDeadLettered, MarkFailed, ScheduleRetry, Release
    <2> QED
      BY <1>0, <1>3, <2>1 DEF UpdateStatus, AfterStatus, Returns, TypeOK, LocalOK
  <1>4. CASE Step(w) /\ pc[w] = "book"
    <2>1. Book(w)
      BY <1>4 DEF Step, Read, Acquire, Skip, Find, Resolve, Attach, RecordMismatches,
           UpdateStatus, MarkProcessed, Ack, IncrementAttempts, AckFailed, DeadLetter,
           MarkDeadLettered, MarkFailed, ScheduleRetry, Release
    <2>2. Current(w) \in Events
      BY <1>4, CurrentIsEvent DEF Busy, Holding, RunSites
    <2> QED
      BY <1>4, <2>1, <2>2 DEF Book, TypeOK, PostgresOK
  <1> QED
    BY <1>1, <1>2, <1>3, <1>4

\* What the run worker_serial checks on two workers and two orders: one worker, or
\* workers whose events are of different orders, process atomically, whatever
\* else is delivered twice, retried or fails.
THEOREM ApartIsSerial ==
  ASSUME Apart, Unharmed
  PROVE  Spec => ImplementsSerial
  <1>1. Init => (MaxOverruns = 0 => overruns = 0)
    BY DEF Init
  <1>2. TypeOK /\ (MaxOverruns = 0 => overruns = 0) /\ [Next]_vars
          => (MaxOverruns = 0 => overruns = 0)'
    BY NoOverrun
  <1>3. LockExclusion /\ (MaxOverruns = 0 => overruns = 0) /\ TypeOK => OneRunPerOrder
    BY ApartOneRun
  <1>4. TypeOK /\ [Next]_vars => [KeepsWhole]_vars
    BY UnharmedIsWhole
  <1> QED
    BY <1>1, <1>2, <1>3, <1>4, TypeCorrect, LockSafe, WorkerIsSerial, PTL DEF Spec

-----------------------------------------------------------------------------
(***************************************************************************)
(* What that makes of the books: SerialProofs, about this ledger.          *)
(***************************************************************************)
Books == INSTANCE SerialProofs WITH orders <- SettledOrders, Bookable <- Nat

\* SerialProofs speaks of the same specification.
LEMMA SameBooks ==
  /\ Serial!Init => Books!Init
  /\ [Serial!Next]_(Serial!vars) => [Books!Next]_(Books!vars)
  /\ Books!NetBooking => Serial!NetBooking
  <1>1. \A payment, order, threshold :
          Serial!Mismatches(payment, order, threshold)
            = Books!Mismatches(payment, order, threshold)
    BY DEF Serial!Mismatches, Books!Mismatches, Serial!Applies, Books!Applies,
       Serial!AmountMismatch, Books!AmountMismatch, Serial!DelayedWebhook,
       Books!DelayedWebhook, Serial!DuplicatePayment, Books!DuplicatePayment,
       Serial!StatusConflict, Books!StatusConflict, Serial!MismatchReason,
       Books!MismatchReason, Serial!Absent, Books!Absent
  <1>2. \A payment, order, threshold :
          Serial!Reconcile(payment, order, threshold)
            = Books!Reconcile(payment, order, threshold)
    BY <1>1 DEF Serial!Reconcile, Books!Reconcile, Serial!Verdict, Books!Verdict,
       Serial!OrderStatusUpdate, Books!OrderStatusUpdate, Serial!NoUpdate, Books!NoUpdate
  <1>3. \A e : Serial!OrderOf(e) = Books!OrderOf(e)
    BY DEF Serial!OrderOf, Books!OrderOf
  <1>4. /\ \A o : Serial!Snapshots(o) = Books!Snapshots(o)
        /\ \A o, status : Serial!OrderAs(o, status) = Books!OrderAs(o, status)
    BY DEF Serial!Snapshots, Books!Snapshots, Serial!OrderAs, Books!OrderAs,
       Serial!Absent, Books!Absent
  <1>5. \A e \in Events : Serial!Process(e) => Books!Process(e)
    BY <1>2, <1>3, <1>4 DEF Serial!Process, Books!Process, Serial!NoUpdate, Books!NoUpdate,
       Serial!Absent, Books!Absent
  <1>6. /\ \A o \in Orders : Serial!CreateOrder(o) => Books!CreateOrder(o)
        /\ \A e \in Events : Serial!Receive(e) => Books!Receive(e)
        /\ \A e \in Events : Serial!Fail(e) => Books!Fail(e)
    BY DEF Serial!CreateOrder, Books!CreateOrder, Serial!Receive, Books!Receive,
       Serial!Fail, Books!Fail, Serial!Absent, Books!Absent
  <1>7. [Serial!Next]_(Serial!vars) => [Books!Next]_(Books!vars)
    BY <1>5, <1>6 DEF Serial!Next, Books!Next, Serial!vars, Books!vars
  <1>8. Serial!Init => Books!Init
    BY DEF Serial!Init, Books!Init, Serial!Absent, Books!Absent
  <1>9. \A s : Serial!Cardinality(s) = Books!Cardinality(s)
    BY DEF Serial!Cardinality, Books!Cardinality
  <1>10. \A o, status : Serial!PairsAs(o, status) = Books!PairsAs(o, status)
    BY <1>3 DEF Serial!PairsAs, Books!PairsAs
  <1>11. Books!NetBooking => Serial!NetBooking
    BY <1>9, <1>10
    DEF Serial!NetBooking, Books!NetBooking, Serial!BookedAs, Books!BookedAs
  <1> QED
    BY <1>7, <1>8, <1>11

\* Under the same conditions as WorkerIsSerial, the worker's ledger agrees with
\* the orders: one pair more of payments than of refunds for each order that is
\* PAID, a run under way not counted, and as many for every other.
THEOREM WorkerKeepsBooks ==
  Spec /\ []OneRunPerOrder /\ [][KeepsWhole]_vars => []Serial!NetBooking
  <1>1. Init /\ OneRunPerOrder => RunInv
    BY RunInit
  <1>2. RunInv /\ [Next]_vars /\ OneRunPerOrder' => RunInv'
    BY RunStep
  <1>3. Init => Books!BooksInv
    BY InitSimulates, SameBooks, Books!BooksInit
  <1>4. Books!OrdersKnown
    BY WorkerAssumption DEF Books!OrdersKnown, Books!OrderOf
  <1>5. RunInv /\ [Next]_vars /\ [KeepsWhole]_vars /\ Books!BooksInv => Books!BooksInv'
    BY <1>4, StepSimulates, SameBooks, Books!BooksStep
  <1>6. Books!BooksInv => Serial!NetBooking
    BY SameBooks DEF Books!BooksInv
  <1> QED
    BY <1>1, <1>2, <1>3, <1>5, <1>6, PTL DEF Spec

\* The trial balance of both instances is the same fold.
LEMMA SameBalance == Books!BalanceFollowsOrders => Serial!BalanceFollowsOrders
  <1>1. \A f : Serial!SumFunction(f) = Books!SumFunction(f)
    BY DEF Serial!SumFunction, Books!SumFunction, Serial!SumFunctionOnSet,
       Books!SumFunctionOnSet, Serial!FoldFunctionOnSet, Books!FoldFunctionOnSet,
       Serial!MapThenFoldSet, Books!MapThenFoldSet
  <1>2. /\ \A rows : Serial!SumOf(rows) = Books!SumOf(rows)
        /\ \A accounts : Serial!NetOf(accounts) = Books!NetOf(accounts)
        /\ \A groups, a, isDebit :
             Serial!TotalOf(groups, a, isDebit) = Books!TotalOf(groups, a, isDebit)
    BY <1>1 DEF Serial!SumOf, Books!SumOf, Serial!NetOf, Books!NetOf,
       Serial!TotalOf, Books!TotalOf
  <1>3. \A rows : Serial!AggregateBalance(rows) = Books!AggregateBalance(rows)
    BY <1>2 DEF Serial!AggregateBalance, Books!AggregateBalance
  <1>4. \A rows : Serial!GetBalance(rows) = Books!GetBalance(rows)
    BY <1>2, <1>3 DEF Serial!GetBalance, Books!GetBalance
  <1>5. Serial!Entries = Books!Entries
    BY DEF Serial!Entries, Books!Entries, Serial!CreateLedgerEntries,
       Books!CreateLedgerEntries, Serial!Draft, Books!Draft,
       Serial!OrderStatusUpdate, Books!OrderStatusUpdate, Serial!NoUpdate,
       Books!NoUpdate
  <1>6. \A o, status : Serial!BookedAs(o, status) = Books!BookedAs(o, status)
    BY DEF Serial!BookedAs, Books!BookedAs, Serial!PairsAs, Books!PairsAs,
       Serial!OrderOf, Books!OrderOf, Serial!Cardinality, Books!Cardinality
  <1> QED
    BY <1>1, <1>2, <1>4, <1>5, <1>6
    DEF Serial!BalanceFollowsOrders, Books!BalanceFollowsOrders

\* Under the same conditions the trial balance over the worker's rows nets to
\* zero, and its receivables are what the orders say.
THEOREM WorkerBalances ==
  ASSUME IsFiniteSet(Orders)
  PROVE  Spec /\ []OneRunPerOrder /\ [][KeepsWhole]_vars => []Serial!BalanceFollowsOrders
  <1>1. Init /\ OneRunPerOrder => RunInv
    BY RunInit
  <1>2. RunInv /\ [Next]_vars /\ OneRunPerOrder' => RunInv'
    BY RunStep
  <1>3. Books!IsFiniteSet(Orders)
    BY DEF IsFiniteSet, Books!IsFiniteSet
  <1>4. Books!OrdersKnown /\ Books!AmountsKnown
    BY WorkerAssumption DEF Books!OrdersKnown, Books!OrderOf, Books!AmountsKnown
  <1>5. Init => Books!BalanceInv
    BY <1>3, <1>4, InitSimulates, SameBooks, Books!BalanceInit
  <1>6. RunInv /\ [Next]_vars /\ [KeepsWhole]_vars /\ Books!BalanceInv => Books!BalanceInv'
    BY <1>3, <1>4, StepSimulates, SameBooks, Books!BalanceStep
  <1>7. Books!BalanceInv => Serial!BalanceFollowsOrders
    BY <1>3, <1>4, SameBalance, Books!BalanceHolds
  <1> QED
    BY <1>1, <1>2, <1>5, <1>6, <1>7, PTL DEF Spec

-----------------------------------------------------------------------------
(***************************************************************************)
(* The one way a paid order stays without a booking                        *)
(* (PartialFailureTolerated) is a run cut between its two writes.          *)
(***************************************************************************)
\* A payment of o is in the ledger, or its run is about to book it.
Covered(o) ==
  \E e \in Events :
    /\ OrderOf(e) = o
    /\ \/ bookings[e] > 0
       \/ \E w \in Workers : pc[w] = "book" /\ Current(w) = e

CoveredInv == \A o \in Orders : orders[o] = "PAID" => Covered(o)

\* A booking adds a pair of the message of a worker at its booking.
LEMMA BookedBy ==
  ASSUME TypeOK, [Next]_vars, bookings' # bookings
  PROVE  \E w \in Workers : Book(w)
  <1>1. ASSUME NEW w \in Workers, Step(w), ~Book(w)
        PROVE  UNCHANGED bookings
    BY <1>1 DEF Step, Read, Acquire, Skip, Find, Resolve, Attach, RecordMismatches,
         UpdateStatus, Book, MarkProcessed, Ack, IncrementAttempts, AckFailed,
         DeadLetter, MarkDeadLettered, MarkFailed, ScheduleRetry, Release
  <1>2. ASSUME NEW w \in Workers,
               \/ Rejected(w) \/ Promote(w) \/ Crash(w) \/ Stop(w)
               \/ PromotionThrows(w) \/ Restart(w)
        PROVE  UNCHANGED bookings
    BY <1>2 DEF Rejected, Promote, PullDue, RemoveDue, Republish, Crash, Stop,
         PromotionThrows, Dies, Restart
  <1>3. ASSUME NEW f \in Events, Expire(f) \/ Store(f) \/ Publish(f)
        PROVE  UNCHANGED bookings
    BY <1>3 DEF Expire, Store, Publish
  <1>4. ASSUME NEW x \in Orders, CreateOrder(x)
        PROVE  UNCHANGED bookings
    BY <1>4 DEF CreateOrder
  <1> QED
    BY <1>1, <1>2, <1>3, <1>4 DEF Next, vars

\* What covers an order goes on covering it: a run leaves its booking with the
\* pair in the ledger.
LEMMA CoveredStays ==
  ASSUME TypeOK, [Next]_vars, KeepsWhole, NEW o \in Orders, Covered(o)
  PROVE  Covered(o)'
  <1>1. PICK e \in Events : /\ OrderOf(e) = o
                            /\ \/ bookings[e] > 0
                               \/ \E w \in Workers : pc[w] = "book" /\ Current(w) = e
    BY DEF Covered
  <1>2. /\ bookings[e] \in Nat /\ bookings'[e] \in Nat /\ bookings'[e] >= bookings[e]
        /\ OrderOf(e)' = o
    BY <1>1, EvidenceStays DEF OrderOf
  <1>3. CASE bookings[e] > 0
    BY <1>2, <1>3 DEF Covered, OrderOf
  <1>4. ASSUME NEW w \in Workers, pc[w] = "book", Current(w) = e
        PROVE  Covered(o)'
    <2>0. pc[w] \in Busy
      BY <1>4 DEF Busy, Holding, RunSites
    <2>1. CASE pc'[w] = "book"
      <3>1. job'[w] = job[w]
        BY <1>4, <2>1, AtBooking
      <3>2. Current(w)' = e
        BY <1>4, <2>0, <3>1, CurrentStable
      <3> QED
        BY <1>2, <2>1, <3>2 DEF Covered
    <2>2. CASE pc'[w] # "book"
      <3>1. PICK v \in Workers : Book(v)
        BY <1>4, <2>2, BookedBy DEF KeepsWhole
      <3>2. v = w
        BY <1>4, <2>2, <3>1 DEF Book, Returns, Fails, Throws, TypeOK, LocalOK
      <3>3. bookings'[e] = bookings[e] + 1
        BY <1>4, <3>1, <3>2 DEF Book, TypeOK, PostgresOK
      <3>4. bookings'[e] > 0
        BY <1>2, <3>3
      <3> QED
        BY <1>2, <3>4 DEF Covered
    <2> QED
      BY <2>1, <2>2
  <1> QED
    BY <1>1, <1>3, <1>4

LEMMA CoveredStep ==
  ASSUME TypeOK, StatusInv, CoveredInv, [Next]_vars, [KeepsWhole]_vars
  PROVE  CoveredInv'
  <1>1. CASE UNCHANGED vars
    BY <1>1 DEF vars, CoveredInv, Covered, OrderOf, Current
  <1>2. CASE KeepsWhole
    <2> SUFFICES ASSUME NEW o \in Orders, orders'[o] = "PAID"
                 PROVE  Covered(o)'
      BY DEF CoveredInv
    <2>1. CASE orders[o] = "PAID"
      BY <1>2, <2>1, CoveredStays DEF CoveredInv
    <2>2. CASE orders[o] # "PAID"
      <3>1. PICK w \in Workers : UpdateStatus(w) /\ pc[w] = "status" /\ OrderOf(Current(w)) = o
        BY <2>2, OrderStep
      <3>2. pc[w] \in Busy
        BY <3>1 DEF Busy, Holding, RunSites
      <3>3. Current(w) \in Events /\ orders' # orders
        BY <2>2, <3>2, CurrentIsEvent
      <3>4. ~Throws(w)
        BY <1>2, <3>1, <3>3
        DEF KeepsWhole, Throws, OnThrow, RunSites, TypeOK, LocalOK
      <3>5. pc'[w] = "book" /\ job'[w] = job[w]
        BY <3>1, <3>4 DEF UpdateStatus, AfterStatus, Returns, Fails, TypeOK, LocalOK
      <3>6. Current(w)' = Current(w)
        BY <3>2, <3>5, CurrentStable
      <3> QED
        BY <3>1, <3>3, <3>5, <3>6 DEF Covered, OrderOf
    <2> QED
      BY <2>1, <2>2
  <1> QED
    BY <1>1, <1>2

\* Were no status write parted from its booking by an exception or an exit, a
\* paid order would be a booked one whenever nothing is under way
\* (reconciliation-runner.service.ts:59-64), with overruns, redeliveries and
\* failures anywhere else, and with any number of workers on one order.
THEOREM ToleratedIfWhole ==
  Spec /\ [][KeepsWhole]_vars => []PartialFailureTolerated
  <1>1. Init => CoveredInv
    BY DEF Init, CoveredInv
  <1>2. TypeOK /\ StatusInv /\ CoveredInv /\ [Next]_vars /\ [KeepsWhole]_vars => CoveredInv'
    BY CoveredStep
  <1>3. CoveredInv => PartialFailureTolerated
    BY DEF CoveredInv, Covered, PartialFailureTolerated, AtRest
  <1> QED
    BY <1>1, <1>2, <1>3, TypeCorrect, StatusCorrect, PTL DEF Spec

-----------------------------------------------------------------------------
(***************************************************************************)
(* The one way a judged payment stays detached from its order              *)
(* (LateOrderIsBackfilled) is an order created after the judgement began.  *)
(***************************************************************************)
Judged == {"MATCHED", "MISMATCHED"}

\* A step creates no order with a payment that was judged or is being judged.
OrdersInTime ==
  \A o \in Orders : orders[o] = Absent /\ orders'[o] # Absent =>
    /\ \A e \in Events : OrderOf(e) = o => state[e] \notin Judged
    /\ \A w \in Workers : pc[w] \in Judging => OrderOf(Current(w)) # o

\* A payment with a verdict, or one whose run has resolved the order, is attached
\* to the order if there is one.
BackfillInv ==
  /\ \A e \in Events :
       state[e] \in Judged /\ orders[OrderOf(e)] # Absent => attached[e]
  /\ \A w \in Workers :
       /\ pc[w] = "resolve" /\ job[w].known => attached[Current(w)]
       /\ pc[w] \in Judging /\ orders[OrderOf(Current(w))] # Absent => job[w].seen # Absent
       /\ pc[w] \in Judging \ {"attach"} /\ job[w].seen # Absent => attached[Current(w)]

\* No step detaches a stored payment.
LEMMA AttachedStays ==
  ASSUME TypeOK, [Next]_vars, NEW e \in Events, state[e] # Absent, attached[e]
  PROVE  attached'[e]
  <1>0. attached \in [Events -> BOOLEAN]
    BY DEF TypeOK, PostgresOK
  <1>1. ASSUME NEW w \in Workers, Attach(w)
        PROVE  attached'[e]
    BY <1>0, <1>1 DEF Attach
  <1>2. ASSUME NEW w \in Workers, Step(w), ~Attach(w)
        PROVE  UNCHANGED attached
    BY <1>2 DEF Step, Read, Acquire, Skip, Find, Resolve, Attach, RecordMismatches,
         UpdateStatus, Book, MarkProcessed, Ack, IncrementAttempts, AckFailed,
         DeadLetter, MarkDeadLettered, MarkFailed, ScheduleRetry, Release
  <1>3. ASSUME NEW w \in Workers,
               \/ Rejected(w) \/ Promote(w) \/ Crash(w) \/ Stop(w)
               \/ PromotionThrows(w) \/ Restart(w)
        PROVE  UNCHANGED attached
    BY <1>3 DEF Rejected, Promote, PullDue, RemoveDue, Republish, Crash, Stop,
         PromotionThrows, Dies, Restart
  <1>4. ASSUME NEW f \in Events, Store(f)
        PROVE  attached'[e]
    BY <1>0, <1>4 DEF Store
  <1>5. ASSUME NEW f \in Events, Expire(f) \/ Publish(f)
        PROVE  UNCHANGED attached
    BY <1>5 DEF Expire, Publish
  <1>6. ASSUME NEW x \in Orders, CreateOrder(x)
        PROVE  UNCHANGED attached
    BY <1>6 DEF CreateOrder
  <1> QED
    BY <1>1, <1>2, <1>3, <1>4, <1>5, <1>6 DEF Next, vars

\* What a run has made sure of about its order, at each of its awaits.
LEMMA RunBackfills ==
  ASSUME TypeOK, StoredInv, BackfillInv, [Next]_vars, OrdersInTime,
         NEW v \in Workers, pc'[v] \in Judging \cup {"resolve"}
  PROVE  /\ pc'[v] = "resolve" /\ job'[v].known => attached'[Current(v)']
         /\ pc'[v] \in Judging /\ orders'[OrderOf(Current(v)')] # Absent => job'[v].seen # Absent
         /\ pc'[v] \in Judging \ {"attach"} /\ job'[v].seen # Absent => attached'[Current(v)']
  <1> DEFINE e == Current(v)
  <1>1. pc[v] \in Busy /\ Current(v)' = e
    BY HolderStep DEF Judging, Holding, RunSites
  <1>2. e \in Events /\ OrderOf(e) \in Orders /\ state[e] # Absent
    BY <1>1, CurrentIsEvent DEF StoredInv, Current, TypeOK, RedisOK
  <1>3. attached[e] => attached'[e]
    BY <1>2, AttachedStays
  <1>4. pc[v] \in Judging /\ orders'[OrderOf(e)] # Absent => orders[OrderOf(e)] # Absent
    BY <1>2 DEF OrdersInTime
  <1>5. /\ pc[v] = "resolve" /\ job[v].known => attached[e]
        /\ pc[v] \in Judging /\ orders[OrderOf(e)] # Absent => job[v].seen # Absent
        /\ pc[v] \in Judging \ {"attach"} /\ job[v].seen # Absent => attached[e]
    BY DEF BackfillInv
  <1>6. CASE pc'[v] = pc[v] /\ job'[v] = job[v]
    BY <1>1, <1>3, <1>4, <1>5, <1>6
  <1>7. CASE Throws(v)
    BY <1>7, ThrowStep DEF Judging
  <1>8. CASE Step(v) /\ ~Throws(v)
    <2>1. CASE pc[v] = "find"
      <3>1. Find(v)
        BY <1>8, <2>1 DEF Step, Read, Acquire, Skip, Resolve, Attach, RecordMismatches,
             UpdateStatus, Book, MarkProcessed, Ack, IncrementAttempts, AckFailed,
             DeadLetter, MarkDeadLettered, MarkFailed, ScheduleRetry, Release
      <3>2. job' = [job EXCEPT ![v] = [job[v] EXCEPT !.known = attached[e]]]
        BY <1>8, <3>1 DEF Find, Returns, Fails
      <3>3. job'[v].known = attached[e]
        BY <3>2 DEF TypeOK, LocalOK, Job
      <3>4. pc'[v] = "resolve"
        BY <1>8, <3>1 DEF Find, Returns, Fails, TypeOK, LocalOK
      <3> QED
        BY <1>1, <1>3, <3>3, <3>4 DEF Judging
    <2>2. CASE Resolve(v)
      <3>1. /\ pc[v] = "resolve" /\ pc'[v] # "resolve"
            /\ job'[v].seen = orders[OrderOf(e)]
            /\ pc'[v] = IF orders[OrderOf(e)] # Absent /\ ~job[v].known
                         THEN "attach" ELSE AfterReconcile(Result(v, orders[OrderOf(e)]))
        BY <1>8, <2>2, AfterReconcileLabel
        DEF Resolve, Returns, Fails, TypeOK, LocalOK, Job
      <3>2. orders' = orders
        BY <2>2 DEF Resolve
      <3> QED
        BY <1>1, <1>3, <1>5, <3>1, <3>2
    <2>3. CASE pc[v] = "attach"
      <3>1. Attach(v)
        BY <1>8, <2>3 DEF Step, Read, Acquire, Skip, Find, Resolve, RecordMismatches,
             UpdateStatus, Book, MarkProcessed, Ack, IncrementAttempts, AckFailed,
             DeadLetter, MarkDeadLettered, MarkFailed, ScheduleRetry, Release
      <3>2. attached'[e] /\ orders' = orders
        BY <1>2, <3>1 DEF Attach, TypeOK, PostgresOK
      <3>3. job'[v] = job[v] /\ pc'[v] # "resolve"
        BY <1>8, <3>1, AfterReconcileLabel DEF Attach, Returns, Fails, TypeOK, LocalOK
      <3> QED
        BY <1>1, <1>5, <2>3, <3>2, <3>3 DEF Judging
    <2>4. CASE RecordMismatches(v) \/ UpdateStatus(v)
      <3>1. /\ pc[v] \in Judging \ {"attach"} /\ job'[v] = job[v] /\ pc'[v] # "resolve"
        BY <1>8, <2>4, AfterReconcileLabel
        DEF RecordMismatches, UpdateStatus, AfterMismatches, AfterStatus, Returns, Fails,
            TypeOK, LocalOK, Judging
      <3> QED
        BY <1>1, <1>3, <1>4, <1>5, <3>1
    <2>5. pc[v] = "find" \/ Resolve(v) \/ pc[v] = "attach" \/ RecordMismatches(v) \/ UpdateStatus(v)
      BY <1>8, OwnStep
      DEF Judging, Read, Acquire, IncrementAttempts, DeadLetter, Exhausted
    <2> QED
      BY <2>1, <2>2, <2>3, <2>4, <2>5
  <1> QED
    BY <1>6, <1>7, <1>8, WorkerMoves DEF Rejected, Fails, Judging

LEMMA BackfillStep ==
  ASSUME TypeOK, StoredInv, BackfillInv, [Next]_vars, [OrdersInTime]_vars
  PROVE  BackfillInv'
  <1>1. CASE UNCHANGED vars
    BY <1>1 DEF vars, BackfillInv, Current
  <1>2. CASE OrdersInTime
    <2>1. ASSUME NEW e \in Events, state'[e] \in Judged, orders'[OrderOf(e)] # Absent
          PROVE  attached'[e]
      <3>0. OrderOf(e) \in Orders
        BY WorkerAssumption DEF OrderOf
      <3>1. CASE state[e] \in Judged
        <4>1. orders[OrderOf(e)] # Absent
          BY <1>2, <2>1, <3>0, <3>1 DEF OrdersInTime
        <4>2. attached[e] /\ state[e] # Absent
          BY <3>1, <4>1 DEF BackfillInv, Judged
        <4> QED
          BY <4>2, AttachedStays
      <3>2. CASE state[e] \notin Judged
        <4>1. PICK w \in Workers :
                /\ pc[w] \in Busy /\ Current(w) = e
                /\ Book(w) \/ MarkProcessed(w) \/ MarkDeadLettered(w) \/ MarkFailed(w)
          BY <2>1, <3>2, StateStep DEF Judged
        <4>2. ~MarkDeadLettered(w) /\ ~MarkFailed(w)
          BY <2>1, <4>1 DEF MarkDeadLettered, MarkFailed, Judged, TypeOK, PostgresOK
        <4>3. pc[w] \in Judging \ {"attach"} /\ orders' = orders /\ attached' = attached
          BY <4>1, <4>2 DEF Book, MarkProcessed, Judging
        <4> QED
          BY <2>1, <4>1, <4>3 DEF BackfillInv
      <3> QED
        BY <3>1, <3>2
    <2>2. \A v \in Workers :
            /\ pc'[v] = "resolve" /\ job'[v].known => attached'[Current(v)']
            /\ pc'[v] \in Judging /\ orders'[OrderOf(Current(v)')] # Absent =>
                 job'[v].seen # Absent
            /\ pc'[v] \in Judging \ {"attach"} /\ job'[v].seen # Absent =>
                 attached'[Current(v)']
      BY <1>2, RunBackfills
    <2> QED
      BY <2>1, <2>2 DEF BackfillInv, OrderOf
  <1> QED
    BY <1>1, <1>2

\* Did every order exist before a payment of it is judged, every payment with a
\* verdict would be attached to its order (README.md:216), with failures, crashes,
\* overruns and redeliveries: an attached id read before is still there, and a
\* run that finds the order attaches it before it judges.
THEOREM BackfilledIfInTime ==
  Spec /\ [][OrdersInTime]_vars => [](deadLetters = {} => LateOrderIsBackfilled)
  <1>1. Init => StoredInv /\ BackfillInv
    <2> SUFFICES ASSUME Init PROVE StoredInv /\ BackfillInv
      OBVIOUS
    <2>1. \A w \in Workers : pc[w] = "read" /\ promotion[w].due = {}
      BY DEF Init, Idle
    <2>2. Len(stream) = 0 /\ retries = {}
      BY DEF Init
    <2>3. StoredInv
      BY <2>1, <2>2 DEF StoredInv
    <2> QED
      BY <2>1, <2>3 DEF BackfillInv, Init, Judging, Judged
  <1>2. TypeOK /\ TypeOK' /\ StoredInv /\ [Next]_vars => StoredInv'
    BY StoredStep
  <1>3. TypeOK /\ StoredInv /\ BackfillInv /\ [Next]_vars /\ [OrdersInTime]_vars => BackfillInv'
    BY BackfillStep
  <1>4. BackfillInv /\ VerdictHasEvidence => (deadLetters = {} => LateOrderIsBackfilled)
    BY DEF BackfillInv, VerdictHasEvidence, LateOrderIsBackfilled, Concluded, Judged
  <1> QED
    BY <1>1, <1>2, <1>3, <1>4, TypeCorrect, VerdictsBacked, PTL DEF Spec
=============================================================================
