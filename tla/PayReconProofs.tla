--------------------------- MODULE PayReconProofs ---------------------------
(***************************************************************************)
(* Theorems about the system put together: the page never goes back, and   *)
(* a settled pair was confirmed by the order, the gateway and the bank.    *)
(***************************************************************************)
EXTENDS PayRecon, TLAPS

Moved(status) == status \notin {Absent, "CREATED"}

\* The orders of this moment, and those that have moved stay so.
OrdersOK == orders \in [Orders -> OrderStatus \cup {Absent}]

\* What a payment makes of its order, if anything: PAID or REFUNDED.
LEMMA UpdateMoves ==
  ASSUME NEW e \in Events
  PROVE  Judgement!OrderStatusUpdate(Payment[e]) \in {"PAID", "REFUNDED", Judgement!NoUpdate}
  <1>1. Payment[e].gatewayStatus \in PaymentStatus
    BY PayReconAssumption
  <1> QED
    BY <1>1 DEF PaymentStatus, Judgement!OrderStatusUpdate, Judgement!NoUpdate

\* An event is judged against its order or, created meanwhile, against none;
\* and it moves the order only when nothing speaks against it.
LEMMA ProcessMoves ==
  ASSUME NEW e \in Events, Judgement!Process(e)
  PROVE  \/ /\ UNCHANGED orders
            /\ \A f \in Events : Len(ledger'[f]) = Len(ledger[f])
         \/ /\ \E status \in {"PAID", "REFUNDED"} :
                 orders' = [orders EXCEPT ![Order(e)] = status]
            /\ orders[Order(e)] # Absent
            /\ Payment[e].amount = OrderData[Order(e)].amount
            /\ Payment[e].currency = OrderData[Order(e)].currency
  <1>1. PICK seen \in Judgement!Snapshots(Order(e)) :
          LET result == Judgement!Reconcile(Payment[e],
                          Judgement!OrderAs(Order(e), seen), DelayThreshold)
          IN  IF result.update = Judgement!NoUpdate
              THEN /\ UNCHANGED orders
                   /\ [f \in Events |-> Len(ledger'[f])] = [f \in Events |-> Len(ledger[f])]
              ELSE orders' = [orders EXCEPT ![Order(e)] = result.update]
    BY DEF Judgement!Process, Judgement!OrderOf, Order
  <1> DEFINE order == Judgement!OrderAs(Order(e), seen)
             mismatches == Judgement!Mismatches(Payment[e], order, DelayThreshold)
             update == Judgement!Reconcile(Payment[e], order, DelayThreshold).update
  <1>2. update = IF mismatches = {} THEN Judgement!OrderStatusUpdate(Payment[e])
                 ELSE Judgement!NoUpdate
    BY DEF Judgement!Reconcile
  <1>3. CASE update = Judgement!NoUpdate
    <2>1. [f \in Events |-> Len(ledger'[f])] = [f \in Events |-> Len(ledger[f])]
      BY <1>1, <1>3
    <2>2. ASSUME NEW f \in Events
          PROVE  Len(ledger'[f]) = Len(ledger[f])
      <3>1. [g \in Events |-> Len(ledger'[g])][f] = [g \in Events |-> Len(ledger[g])][f]
        BY <2>1
      <3> QED
        BY <3>1
    <2> QED
      BY <1>1, <1>3, <2>2
  <1>4. CASE update # Judgement!NoUpdate
    <2>1. mismatches = {} /\ update \in {"PAID", "REFUNDED"}
      BY <1>2, <1>4, UpdateMoves
    <2>2. orders' = [orders EXCEPT ![Order(e)] = update]
      BY <1>1, <1>4
    <2>3. order.status = seen /\ order.amount = OrderData[Order(e)].amount
          /\ order.currency = OrderData[Order(e)].currency
      BY DEF Judgement!OrderAs
    <2> HIDE DEF order
    <2>4. seen # Judgement!Absent /\ "AMOUNT_MISMATCH" \notin mismatches
      BY <2>1, <2>3 DEF Judgement!Mismatches
    <2>5. ~Judgement!AmountMismatch(Payment[e], order)
      BY <2>3, <2>4 DEF Judgement!Mismatches, Judgement!MismatchReason, Judgement!Applies
    <2>6. /\ Payment[e].amount = OrderData[Order(e)].amount
          /\ Payment[e].currency = OrderData[Order(e)].currency
      BY <2>3, <2>5 DEF Judgement!AmountMismatch
    <2>7. orders[Order(e)] = seen
      BY <2>4 DEF Judgement!Snapshots
    <2> QED
      BY <2>1, <2>2, <2>4, <2>6, <2>7 DEF Judgement!Absent, Absent
  <1> QED
    BY <1>3, <1>4

\* No step takes an order back.
LEMMA OrderStep ==
  ASSUME OrdersOK, [Next]_vars
  PROVE  /\ OrdersOK'
         /\ \A o \in Orders : Moved(orders[o]) => Moved(orders'[o])
  <1>1. ASSUME NEW o \in Orders, CreateOrder(o)
        PROVE  OrdersOK' /\ \A p \in Orders : Moved(orders[p]) => Moved(orders'[p])
    BY <1>1 DEF CreateOrder, Judgement!CreateOrder, OrdersOK, OrderStatus, Moved, Absent,
         Judgement!Absent
  <1>2. ASSUME NEW e \in Events, Judge(e)
        PROVE  OrdersOK' /\ \A p \in Orders : Moved(orders[p]) => Moved(orders'[p])
    <2>1. Order(e) \in Orders
      BY PayReconAssumption DEF Order
    <2> QED
      BY <1>2, <2>1, ProcessMoves DEF Judge, OrdersOK, OrderStatus, Moved, Absent
  <1>3. ASSUME NEW e \in Events, SimulatePayment(e) \/ Store(e) \/ Publish(e)
        PROVE  orders' = orders
    BY <1>3 DEF SimulatePayment, Page!SimulatePayment, Store, Publish
  <1>4. ASSUME Settle \/ Browse \/ UNCHANGED vars
        PROVE  orders' = orders
    BY <1>4 DEF Settle, Browse, vars, Page!Poll, Page!List, Page!Submit, Page!Created,
         Page!Lose, Page!Arrive, Press, Page!Press, Page!Triggered
  <1> QED
    BY <1>1, <1>2, <1>3, <1>4 DEF Next, OrdersOK

-----------------------------------------------------------------------------
(***************************************************************************)
(* The page.                                                               *)
(***************************************************************************)
\* One fetch at a time; what is shown or on its way is true, or has been; and
\* what is on its way is no older than what is shown.
PageInv ==
  /\ \A k, l \in fetches : k = l
  /\ \A o \in Orders : Moved(shown[o]) => Moved(orders[o])
  /\ \A l \in fetches \ {Page!Asked} : \A o \in Orders :
       /\ Moved(l[o]) => Moved(orders[o])
       /\ Moved(shown[o]) => l[o] # "CREATED"

\* Only an arriving list changes what is shown.
PageKeeps ==
  /\ shown' = shown
  /\ \/ UNCHANGED fetches
     \/ fetches' = {}
     \/ fetches' = {Page!Asked}
     \/ Page!Asked \in fetches /\ fetches' = (fetches \ {Page!Asked}) \cup {Page!Newest}

LEMMA PageStep ==
  ASSUME [Next]_vars
  PROVE  PageKeeps \/ \E l \in fetches : Page!Arrive(l)
  <1>1. ASSUME NEW o \in Orders, CreateOrder(o)
        PROVE  PageKeeps
    BY <1>1 DEF CreateOrder, Page!CreateOrder, pageVars, PageKeeps
  <1>2. ASSUME NEW e \in Events, SimulatePayment(e)
        PROVE  PageKeeps
    BY <1>2 DEF SimulatePayment, Page!SimulatePayment, PageKeeps
  <1>3. ASSUME NEW e \in Events, Store(e) \/ Publish(e) \/ Judge(e)
        PROVE  PageKeeps
    BY <1>3 DEF Store, Publish, Judge, pageVars, PageKeeps
  <1>4. ASSUME Settle \/ UNCHANGED vars
        PROVE  PageKeeps
    BY <1>4 DEF Settle, vars, pageVars, PageKeeps
  <1>5. ASSUME Browse
        PROVE  PageKeeps \/ \E l \in fetches : Page!Arrive(l)
    <2>1. CASE Page!Poll \/ Page!List \/ Page!Submit \/ Page!Created \/ Page!Lose
      BY <2>1 DEF Page!Poll, Page!List, Page!Submit, Page!Created, Page!Lose,
           Page!Invalidate, PageKeeps
    <2>2. ASSUME NEW o \in Orders, Press(o) \/ Page!Triggered(o)
          PROVE  PageKeeps
      BY <2>2 DEF Press, Page!Press, Page!Triggered, Page!Invalidate, PageKeeps
    <2> QED
      BY <1>5, <2>1, <2>2 DEF Browse
  <1> QED
    BY <1>1, <1>2, <1>3, <1>4, <1>5 DEF Next

\* The list the server answers with: orders as they are, or left out.
LEMMA NewestIsTrue ==
  ASSUME NEW o \in Orders
  PROVE  Page!Newest[o] \in {orders[o], Absent}
  BY DEF Page!Newest, Absent

LEMMA PageInvStep ==
  ASSUME OrdersOK, PageInv, [Next]_vars
  PROVE  PageInv'
  <1>1. \A o \in Orders : Moved(orders[o]) => Moved(orders'[o])
    BY OrderStep
  <1>2. CASE PageKeeps
    <2>1. ASSUME NEW o \in Orders
          PROVE  /\ Moved(Page!Newest[o]) => Moved(orders[o])
                 /\ Moved(orders[o]) => Page!Newest[o] # "CREATED"
      BY <2>1, NewestIsTrue DEF Moved, Absent
    <2> QED
      BY <1>1, <1>2, <2>1 DEF PageKeeps, PageInv
  <1>3. ASSUME NEW l \in fetches, Page!Arrive(l)
        PROVE  PageInv'
    <2>1. shown' = l /\ l # Page!Asked /\ fetches' = {}
      BY <1>3 DEF Page!Arrive, PageInv
    <2> QED
      BY <1>1, <2>1 DEF PageInv
  <1> QED
    BY <1>2, <1>3, PageStep

\* From now on no list offers to pay order o.
Retired(o) ==
  /\ Moved(orders[o])
  /\ shown[o] # "CREATED"
  /\ \A l \in fetches \ {Page!Asked} : l[o] # "CREATED"

LEMMA RetiredStep ==
  ASSUME OrdersOK, PageInv, [Next]_vars, NEW o \in Orders, Retired(o)
  PROVE  Retired(o)'
  <1>1. Moved(orders'[o])
    BY OrderStep DEF Retired
  <1>2. CASE PageKeeps
    <2>1. Page!Newest[o] # "CREATED"
      BY NewestIsTrue DEF Retired, Moved, Absent
    <2> QED
      BY <1>1, <1>2, <2>1 DEF PageKeeps, Retired
  <1>3. ASSUME NEW l \in fetches, Page!Arrive(l)
        PROVE  Retired(o)'
    BY <1>1, <1>3 DEF Page!Arrive, PageInv, Retired
  <1> QED
    BY <1>2, <1>3, PageStep

\* Once the page has shown an order as moved it never offers to pay it again,
\* whatever requests are lost, overtaken or abandoned, however orders and
\* payments come, and though the order may leave the list: its lists are fetched
\* one at a time, and no order goes back.
THEOREM ButtonGone == Spec => ButtonStaysGone
  <1>1. Init => OrdersOK /\ PageInv
    <2> SUFFICES ASSUME Init
                 PROVE  OrdersOK /\ PageInv
      OBVIOUS
    <2>1. OrdersOK
      BY DEF Init, OrdersOK
    <2>2. shown = [o \in Orders |-> Absent] /\ fetches = {}
      BY DEF Init, Page!Init, Page!Nothing, Absent
    <2> QED
      BY <2>1, <2>2 DEF PageInv, Moved
  <1>2. OrdersOK /\ PageInv /\ [Next]_vars => (OrdersOK /\ PageInv)'
    BY OrderStep, PageInvStep
  <1>3. ASSUME NEW o \in Orders
        PROVE  Spec => [](shown[o] \notin {Absent, "CREATED"} => [](shown[o] # "CREATED"))
    <2>1. PageInv /\ shown[o] \notin {Absent, "CREATED"} => Retired(o)
      BY DEF PageInv, Retired, Moved
    <2>2. OrdersOK /\ PageInv /\ Retired(o) /\ [Next]_vars => Retired(o)'
      BY RetiredStep
    <2>3. Retired(o) => shown[o] # "CREATED"
      BY DEF Retired
    <2> QED
      BY <1>1, <1>2, <2>1, <2>2, <2>3, PTL DEF Spec
  <1> QED
    BY <1>3 DEF ButtonStaysGone

-----------------------------------------------------------------------------
(***************************************************************************)
(* The two reconciliations.                                                *)
(***************************************************************************)
Agrees(line, data) == line.amount = data.amount /\ line.currency = data.currency

PairsOK == ledger \in [Events -> Seq({Pending} \cup (Files \X Nat))]

UploadsOK == request \in [Requests -> Bank!Local]

\* What a pair owes to the first reconciliation: its order exists and agrees
\* with the gateway.
BookedAgree ==
  \A e \in Events : Len(ledger[e]) > 0 =>
    orders[Order(e)] # Absent /\ Agrees(Payment[e], OrderData[Order(e)])

\* And, once settled, to the second: the bank's row is of that payment and
\* agrees with the gateway.
SettledAgree ==
  \A e \in Events : \A i \in 1 .. Len(ledger[e]) : ledger[e][i] # Pending =>
    LET line == Rows[ledger[e][i][1]][ledger[e][i][2]]
    IN  line.event = e /\ Agrees(line, Payment[e])

\* An upload about to settle holds a row that matched.
AboutToSettle ==
  \A q \in Requests : request[q].pc = "settle" => Bank!MatchOf(q) = "MATCHED"

AgreeInv == PairsOK /\ UploadsOK /\ BookedAgree /\ SettledAgree /\ AboutToSettle

\* MATCHED means that the row's amount and currency are the gateway's.
LEMMA MatchedAgrees ==
  ASSUME UploadsOK, NEW q \in Requests, Bank!RowOf(q).event \in Events,
         Bank!MatchOf(q) = "MATCHED"
  PROVE  Agrees(Bank!RowOf(q), Payment[Bank!RowOf(q).event])
  <1> DEFINE line == Bank!RowOf(q)
             e == line.event
  <1>1. request[q].found \in BOOLEAN
    BY DEF UploadsOK, Bank!Local
  <1>2. <<line.amount, line.currency>> = <<Payment[e].amount, Payment[e].currency>>
    BY <1>1 DEF Bank!MatchOf, Bank!MatchSettlementRecord
  <1> QED
    BY <1>2 DEF Agrees

\* A request that only changes where it is stays at its row.
LEMMA GotoStep ==
  ASSUME UploadsOK, NEW q \in Requests, NEW pc \in Bank!RequestPc, Bank!Goto(q, pc)
  PROVE  /\ UploadsOK'
         /\ \A p \in Requests : p # q => request'[p] = request[p]
         /\ request'[q] = [request[q] EXCEPT !.pc = pc]
  <1>1. request \in [Requests -> Bank!Local]
    BY DEF UploadsOK
  <1>2. request' = [request EXCEPT ![q].pc = pc]
    BY DEF Bank!Goto
  <1>3. request'[q] = [request[q] EXCEPT !.pc = pc]
    BY <1>1, <1>2
  <1>4. request'[q] \in Bank!Local
    BY <1>1, <1>3 DEF Bank!Local
  <1> QED
    BY <1>1, <1>2, <1>3, <1>4 DEF UploadsOK

\* The bottom of the loop does not settle.
LEMMA CountedStep ==
  ASSUME UploadsOK, NEW q \in Requests, request' = Bank!Counted(q)
  PROVE  /\ UploadsOK'
         /\ \A p \in Requests : p # q => request'[p] = request[p]
         /\ request'[q].pc # "settle"
  <1>1. request \in [Requests -> Bank!Local] /\ request[q] \in Bank!Local
    BY DEF UploadsOK
  <1>2. PICK m \in Bank!MatchStatus : m = Bank!MatchOf(q)
    BY <1>1 DEF Bank!MatchOf, Bank!MatchSettlementRecord, Bank!MatchStatus, Bank!Local
  <1>3. PICK pc \in Bank!RequestPc \ {"settle"} :
          pc = Bank!LoopAt(Bank!FileOf(q), request[q].next + 1)
    BY DEF Bank!LoopAt, Bank!RequestPc, Bank!Sites
  <1>4. PICK c \in Bank!Counts : c = [request[q].counts EXCEPT ![m] = @ + 1]
    <2>1. request[q].counts \in [Bank!MatchStatus -> Nat]
      BY <1>1 DEF Bank!Local, Bank!Counts
    <2>2. [request[q].counts EXCEPT ![m] = @ + 1] \in [Bank!MatchStatus -> Nat]
      BY <1>2, <2>1
    <2> QED
      BY <2>2 DEF Bank!Counts
  <1>5. PICK n \in Nat \ {0} : n = request[q].next + 1
    BY <1>1 DEF Bank!Local
  <1>6. request' = [request EXCEPT ![q] =
                      [pc |-> pc, file |-> @.file, next |-> n, found |-> @.found, counts |-> c]]
    BY <1>1, <1>2, <1>3, <1>4, <1>5 DEF Bank!Counted, Bank!Local
  <1>7. /\ \A p \in Requests : p # q => request'[p] = request[p]
        /\ request'[q] = [pc |-> pc, file |-> request[q].file, next |-> n,
                          found |-> request[q].found, counts |-> c]
    BY <1>1, <1>6
  <1>8. request'[q] \in Bank!Local
    BY <1>1, <1>7 DEF Bank!Local
  <1>9. request' \in [Requests -> Bank!Local]
    BY <1>1, <1>6, <1>8
  <1> QED
    BY <1>3, <1>7, <1>9 DEF UploadsOK

\* Unless it settles, a step of an upload leaves the ledger alone; it comes to
\* settle with a row that matched.
LEMMA UploadStep ==
  ASSUME UploadsOK, AboutToSettle, NEW q \in Requests, Bank!Process(q)
  PROVE  UploadsOK' /\ AboutToSettle' /\ (UNCHANGED ledger \/ Bank!Settle(q))
  <1>1. ASSUME NEW pc \in Bank!RequestPc, Bank!Goto(q, pc),
               pc = "settle" => Bank!MatchOf(q) = "MATCHED"
        PROVE  UploadsOK' /\ AboutToSettle'
    <2>1. /\ UploadsOK'
          /\ \A p \in Requests : p # q => request'[p] = request[p]
          /\ request'[q] = [request[q] EXCEPT !.pc = pc]
      BY <1>1, GotoStep
    <2>2. /\ request'[q].pc = pc
          /\ request'[q].file = request[q].file
          /\ request'[q].next = request[q].next
          /\ request'[q].found = request[q].found
      BY <2>1 DEF UploadsOK, Bank!Local
    <2>3. \A p \in Requests : p # q => Bank!MatchOf(p)' = Bank!MatchOf(p)
      BY <2>1 DEF Bank!MatchOf, Bank!RowOf, Bank!FileOf, Bank!MatchSettlementRecord
    <2>4. Bank!MatchOf(q)' = Bank!MatchOf(q)
      BY <2>2 DEF Bank!MatchOf, Bank!RowOf, Bank!FileOf, Bank!MatchSettlementRecord
    <2> QED
      BY <1>1, <2>1, <2>2, <2>3, <2>4 DEF AboutToSettle
  <1>2. ASSUME request' = Bank!Counted(q)
        PROVE  UploadsOK' /\ AboutToSettle'
    <2>1. /\ UploadsOK'
          /\ \A p \in Requests : p # q => request'[p] = request[p]
          /\ request'[q].pc # "settle"
      BY <1>2, CountedStep
    <2>2. \A p \in Requests : p # q => Bank!MatchOf(p)' = Bank!MatchOf(p)
      BY <2>1 DEF Bank!MatchOf, Bank!RowOf, Bank!FileOf, Bank!MatchSettlementRecord
    <2> QED
      BY <2>1, <2>2 DEF AboutToSettle
  <1>3. CASE Bank!Upload(q) \/ Bank!Finalize(q)
    BY <1>1, <1>3 DEF Bank!Upload, Bank!Finalize, Bank!RequestPc, Bank!Sites
  <1>4. CASE Bank!FindBatch(q)
    <2>1. PICK pc \in {"returned", "rejected", "create"} : Bank!Goto(q, pc)
      BY <1>4 DEF Bank!FindBatch
    <2> QED
      BY <1>1, <1>4, <2>1 DEF Bank!FindBatch, Bank!RequestPc, Bank!Sites
  <1>5. CASE Bank!CreateBatch(q)
    <2>1. PICK pc \in {"lookup", "finalize", "error"} : Bank!Goto(q, pc)
      BY <1>5 DEF Bank!CreateBatch, Bank!LoopAt
    <2> QED
      BY <1>1, <1>5, <2>1 DEF Bank!CreateBatch, Bank!RequestPc, Bank!Sites
  <1>6. CASE Bank!Lookup(q)
    <2> DEFINE found == Bank!RowOf(q).event \in {e \in Events : row[e] # NoRow}
    <2>1. found \in BOOLEAN
      OBVIOUS
    <2>2. request' = [request EXCEPT ![q].pc = "record", ![q].found = found]
      BY <1>6 DEF Bank!Lookup
    <2> HIDE DEF found
    <2>3. request \in [Requests -> Bank!Local] /\ request[q] \in Bank!Local
      BY DEF UploadsOK
    <2>4. /\ \A p \in Requests : p # q => request'[p] = request[p]
          /\ request'[q] = [request[q] EXCEPT !.pc = "record", !.found = found]
      BY <2>2, <2>3
    <2>5. request'[q] \in Bank!Local /\ request'[q].pc = "record"
      BY <2>1, <2>3, <2>4 DEF Bank!Local, Bank!RequestPc, Bank!Sites
    <2>6. UploadsOK'
      BY <2>2, <2>3, <2>5 DEF UploadsOK
    <2>7. \A p \in Requests : p # q => Bank!MatchOf(p)' = Bank!MatchOf(p)
      BY <2>4 DEF Bank!MatchOf, Bank!RowOf, Bank!FileOf, Bank!MatchSettlementRecord
    <2> QED
      BY <1>6, <2>4, <2>5, <2>6, <2>7 DEF AboutToSettle, Bank!Lookup
  <1>7. CASE Bank!CreateRecord(q)
    <2>1. CASE Bank!MatchOf(q) = "MATCHED" /\ Bank!Goto(q, "settle")
      BY <1>1, <1>7, <2>1 DEF Bank!CreateRecord, Bank!RequestPc, Bank!Sites
    <2>2. CASE Bank!Goto(q, "error")
      BY <1>1, <1>7, <2>2 DEF Bank!CreateRecord, Bank!RequestPc, Bank!Sites
    <2> QED
      BY <1>2, <1>7, <2>1, <2>2 DEF Bank!CreateRecord
  <1>8. CASE Bank!Settle(q)
    BY <1>2, <1>8 DEF Bank!Settle
  <1> QED
    BY <1>3, <1>4, <1>5, <1>6, <1>7, <1>8 DEF Bank!Process

\* Settling marks the pairs of the row's payment that were pending.
LEMMA SettleStep ==
  ASSUME PairsOK, UploadsOK, NEW q \in Requests, Bank!Settle(q)
  PROVE  /\ PairsOK'
         /\ \A e \in Events :
              /\ Len(ledger'[e]) = Len(ledger[e])
              /\ \A i \in 1 .. Len(ledger[e]) :
                   \/ ledger'[e][i] = ledger[e][i]
                   \/ e = Bank!RowOf(q).event /\ ledger'[e][i] = Bank!RowId(q)
  <1> DEFINE Ids == {Pending} \cup (Files \X Nat)
             paid == Bank!RowOf(q).event
  <1>1. ledger \in [Events -> Seq(Ids)]
    BY DEF PairsOK
  <1>2. Bank!RowId(q) \in Ids
    BY DEF UploadsOK, Bank!Local, Bank!RowId
  <1>3. ledger' = [ledger EXCEPT ![paid] =
                     [i \in DOMAIN @ |-> IF @[i] = Pending THEN Bank!RowId(q) ELSE @[i]]]
    BY DEF Bank!Settle, Bank!Settled
  <1> HIDE DEF paid
  <1>4. CASE paid \notin Events
    BY <1>1, <1>3, <1>4 DEF PairsOK
  <1>5. CASE paid \in Events
    <2>1. PICK s \in Seq(Ids) : s = ledger[paid]
      BY <1>1, <1>5
    <2>2. PICK t : t = [i \in DOMAIN s |-> IF s[i] = Pending THEN Bank!RowId(q) ELSE s[i]]
      OBVIOUS
    <2>3. /\ t \in Seq(Ids) /\ Len(t) = Len(s)
          /\ \A i \in 1 .. Len(s) : t[i] = s[i] \/ t[i] = Bank!RowId(q)
      <3>1. Len(s) \in Nat /\ DOMAIN s = 1 .. Len(s) /\ \A i \in 1 .. Len(s) : s[i] \in Ids
        BY <2>1
      <3>2. /\ t \in [1 .. Len(s) -> Ids]
            /\ \A i \in 1 .. Len(s) : t[i] = s[i] \/ t[i] = Bank!RowId(q)
        BY <1>2, <2>2, <3>1
      <3> HIDE DEF Ids
      <3> QED
        BY <3>1, <3>2
    <2>4. ledger' = [ledger EXCEPT ![paid] = t]
      BY <1>3, <2>1, <2>2
    <2>5. \A e \in Events : ledger'[e] = IF e = paid THEN t ELSE ledger[e]
      BY <1>1, <2>4
    <2>6. ledger' \in [Events -> Seq(Ids)]
      BY <1>1, <2>3, <2>4
    <2> QED
      BY <2>1, <2>3, <2>5, <2>6 DEF PairsOK, paid
  <1> QED
    BY <1>4, <1>5

\* Booking appends a pair that is pending.
LEMMA BookStep ==
  ASSUME PairsOK, NEW e \in Events, UNCHANGED ledger \/ Bank!Book(e)
  PROVE  /\ PairsOK'
         /\ \A f \in Events :
              /\ f # e => ledger'[f] = ledger[f]
              /\ \A i \in 1 .. Len(ledger'[f]) :
                   \/ ledger'[f][i] = Pending
                   \/ i \in 1 .. Len(ledger[f]) /\ ledger'[f][i] = ledger[f][i]
  <1> DEFINE Ids == {Pending} \cup (Files \X Nat)
  <1>1. ledger \in [Events -> Seq(Ids)]
    BY DEF PairsOK
  <1>2. CASE UNCHANGED ledger
    BY <1>1, <1>2 DEF PairsOK
  <1>3. CASE Bank!Book(e)
    <2>1. ledger' = [ledger EXCEPT ![e] = Append(ledger[e], Pending)]
      BY <1>3 DEF Bank!Book
    <2>2. PICK s \in Seq(Ids) : s = ledger[e]
      BY <1>1
    <2>3. /\ Append(s, Pending) \in Seq(Ids)
          /\ \A i \in 1 .. Len(Append(s, Pending)) :
               \/ Append(s, Pending)[i] = Pending
               \/ i \in 1 .. Len(s) /\ Append(s, Pending)[i] = s[i]
      BY <2>2
    <2>4. \A f \in Events : ledger'[f] = IF f = e THEN Append(s, Pending) ELSE ledger[f]
      BY <1>1, <2>1, <2>2
    <2>5. ledger' \in [Events -> Seq(Ids)]
      BY <1>1, <2>1, <2>2, <2>3
    <2> QED
      BY <1>1, <2>2, <2>3, <2>4, <2>5 DEF PairsOK
  <1> QED
    BY <1>2, <1>3

\* Orders do not disappear.
LEMMA OrdersStay ==
  ASSUME OrdersOK, [Next]_vars
  PROVE  \A o \in Orders : orders[o] # Absent => orders'[o] # Absent
  <1>1. ASSUME NEW o \in Orders, CreateOrder(o)
        PROVE  \A p \in Orders : orders[p] # Absent => orders'[p] # Absent
    BY <1>1 DEF CreateOrder, Judgement!CreateOrder, OrdersOK, Absent, Judgement!Absent
  <1>2. ASSUME NEW e \in Events, Judge(e)
        PROVE  \A p \in Orders : orders[p] # Absent => orders'[p] # Absent
    BY <1>2, ProcessMoves DEF Judge, OrdersOK, Absent
  <1>3. ASSUME NEW e \in Events, SimulatePayment(e) \/ Store(e) \/ Publish(e)
        PROVE  orders' = orders
    BY <1>3 DEF SimulatePayment, Page!SimulatePayment, Store, Publish
  <1>4. ASSUME Settle \/ Browse \/ UNCHANGED vars
        PROVE  orders' = orders
    BY <1>4 DEF Settle, Browse, vars, Page!Poll, Page!List, Page!Submit, Page!Created,
         Page!Lose, Page!Arrive, Press, Page!Press, Page!Triggered
  <1> QED
    BY <1>1, <1>2, <1>3, <1>4 DEF Next

\* What the worker judges changes no upload; what it books agrees.
LEMMA JudgeAgrees ==
  ASSUME AgreeInv, OrdersOK, NEW e \in Events, Judge(e)
  PROVE  AgreeInv'
  <1>1. UNCHANGED request /\ (UNCHANGED ledger \/ Bank!Book(e)) /\ Judgement!Process(e)
    BY DEF Judge, uploadVars
  <1>2. PairsOK /\ UploadsOK /\ BookedAgree /\ SettledAgree /\ AboutToSettle
    BY DEF AgreeInv
  <1>3. /\ PairsOK'
        /\ \A f \in Events :
             /\ f # e => ledger'[f] = ledger[f]
             /\ \A i \in 1 .. Len(ledger'[f]) :
                  \/ ledger'[f][i] = Pending
                  \/ i \in 1 .. Len(ledger[f]) /\ ledger'[f][i] = ledger[f][i]
    BY <1>1, <1>2, BookStep
  <1>4. SettledAgree'
    <2> SUFFICES ASSUME NEW f \in Events, NEW i \in 1 .. Len(ledger'[f]), ledger'[f][i] # Pending
                 PROVE  LET line == Rows[ledger'[f][i][1]][ledger'[f][i][2]]
                        IN  line.event = f /\ Agrees(line, Payment[f])
      BY DEF SettledAgree, Agrees
    <2>1. i \in 1 .. Len(ledger[f]) /\ ledger'[f][i] = ledger[f][i]
      BY <1>3
    <2>2. LET line == Rows[ledger[f][i][1]][ledger[f][i][2]]
          IN  line.event = f /\ Agrees(line, Payment[f])
      BY <1>2, <2>1 DEF SettledAgree
    <2> QED
      BY <2>1, <2>2
  <1>5. UploadsOK' /\ AboutToSettle'
    BY <1>1, <1>2 DEF UploadsOK, AboutToSettle, Bank!MatchOf, Bank!RowOf, Bank!FileOf,
         Bank!MatchSettlementRecord
  <1>6. \A o \in Orders : orders[o] # Absent => orders'[o] # Absent
    BY OrdersStay DEF Next
  <1>7. \A f \in Events : Order(f) \in Orders
    BY PayReconAssumption DEF Order
  <1>8. BookedAgree'
    <2>1. CASE \A f \in Events : Len(ledger'[f]) = Len(ledger[f])
      BY <1>2, <1>6, <1>7, <2>1 DEF BookedAgree
    <2>2. CASE /\ orders[Order(e)] # Absent
               /\ Payment[e].amount = OrderData[Order(e)].amount
               /\ Payment[e].currency = OrderData[Order(e)].currency
      BY <1>2, <1>3, <1>6, <1>7, <2>2 DEF BookedAgree, Agrees
    <2> QED
      BY <1>1, <2>1, <2>2, ProcessMoves
  <1> QED
    BY <1>3, <1>4, <1>5, <1>8 DEF AgreeInv

\* An upload settles with a row that matched.
LEMMA SettleAgrees ==
  ASSUME AgreeInv, Settle
  PROVE  AgreeInv'
  <1>1. PICK q \in Requests : Bank!Process(q)
    BY DEF Settle
  <1>2. PairsOK /\ UploadsOK /\ BookedAgree /\ SettledAgree /\ AboutToSettle
    BY DEF AgreeInv
  <1>3. UploadsOK' /\ AboutToSettle' /\ (UNCHANGED ledger \/ Bank!Settle(q))
    BY <1>1, <1>2, UploadStep
  <1>4. orders' = orders
    BY DEF Settle
  <1>5. CASE UNCHANGED ledger
    BY <1>2, <1>3, <1>4, <1>5 DEF AgreeInv, PairsOK, BookedAgree, SettledAgree
  <1>6. CASE Bank!Settle(q)
    <2>1. /\ PairsOK'
          /\ \A e \in Events :
               /\ Len(ledger'[e]) = Len(ledger[e])
               /\ \A i \in 1 .. Len(ledger[e]) :
                    \/ ledger'[e][i] = ledger[e][i]
                    \/ e = Bank!RowOf(q).event /\ ledger'[e][i] = Bank!RowId(q)
      BY <1>2, <1>6, SettleStep
    <2>2. Bank!MatchOf(q) = "MATCHED"
      BY <1>2, <1>6 DEF AboutToSettle, Bank!Settle
    <2>3. Bank!RowOf(q).event \in Events =>
            Agrees(Bank!RowOf(q), Payment[Bank!RowOf(q).event])
      BY <1>2, <2>2, MatchedAgrees
    <2>4. Rows[Bank!RowId(q)[1]][Bank!RowId(q)[2]] = Bank!RowOf(q)
      BY DEF Bank!RowId, Bank!RowOf, Bank!FileOf
    <2>5. BookedAgree'
      BY <1>2, <1>4, <2>1 DEF BookedAgree
    <2>6. SettledAgree'
      <3> SUFFICES ASSUME NEW e \in Events, NEW i \in 1 .. Len(ledger'[e]), ledger'[e][i] # Pending
                   PROVE  LET line == Rows[ledger'[e][i][1]][ledger'[e][i][2]]
                          IN  line.event = e /\ Agrees(line, Payment[e])
        BY DEF SettledAgree, Agrees
      <3>1. i \in 1 .. Len(ledger[e])
        BY <2>1
      <3>2. CASE ledger'[e][i] = ledger[e][i]
        BY <1>2, <3>1, <3>2 DEF SettledAgree
      <3>3. CASE e = Bank!RowOf(q).event /\ ledger'[e][i] = Bank!RowId(q)
        BY <2>3, <2>4, <3>3
      <3> QED
        BY <2>1, <3>1, <3>2, <3>3
    <2> QED
      BY <1>3, <2>1, <2>5, <2>6 DEF AgreeInv
  <1> QED
    BY <1>3, <1>5, <1>6

LEMMA AgreeStep ==
  ASSUME AgreeInv, OrdersOK, [Next]_vars
  PROVE  AgreeInv'
  <1>1. ASSUME UNCHANGED ledger, UNCHANGED request
        PROVE  AgreeInv'
    <2>1. \A o \in Orders : orders[o] # Absent => orders'[o] # Absent
      BY OrdersStay
    <2>2. \A f \in Events : Order(f) \in Orders
      BY PayReconAssumption DEF Order
    <2>3. PairsOK' /\ SettledAgree' /\ BookedAgree'
      BY <1>1, <2>1, <2>2 DEF AgreeInv, PairsOK, BookedAgree, SettledAgree
    <2>4. UploadsOK' /\ AboutToSettle'
      BY <1>1 DEF AgreeInv, UploadsOK, AboutToSettle, Bank!MatchOf, Bank!RowOf, Bank!FileOf,
         Bank!MatchSettlementRecord
    <2> QED
      BY <2>3, <2>4 DEF AgreeInv
  <1>2. ASSUME NEW e \in Events, SimulatePayment(e) \/ Store(e) \/ Publish(e)
        PROVE  UNCHANGED ledger /\ UNCHANGED request
    BY <1>2 DEF SimulatePayment, Store, Publish, uploadVars
  <1>3. ASSUME NEW o \in Orders, CreateOrder(o)
        PROVE  UNCHANGED ledger /\ UNCHANGED request
    BY <1>3 DEF CreateOrder, uploadVars
  <1>4. ASSUME Browse \/ UNCHANGED vars
        PROVE  UNCHANGED ledger /\ UNCHANGED request
    BY <1>4 DEF Browse, vars, uploadVars
  <1> QED
    BY <1>1, <1>2, <1>3, <1>4, JudgeAgrees, SettleAgrees DEF Next

LEMMA AgreeInit == Init => OrdersOK /\ AgreeInv
  <1> SUFFICES ASSUME Init
               PROVE  OrdersOK /\ AgreeInv
    OBVIOUS
  <1>1. OrdersOK
    BY DEF Init, OrdersOK
  <1>2. ledger = [e \in Events |-> <<>>]
    BY DEF Init
  <1>3. PairsOK /\ BookedAgree /\ SettledAgree
    BY <1>2 DEF PairsOK, BookedAgree, SettledAgree
  <1>4. Bank!None \in Bank!Counts
    BY DEF Bank!None, Bank!Counts
  <1>5. \A f \in Files :
          [pc |-> "new", file |-> f, next |-> 1, found |-> FALSE,
           counts |-> Bank!None] \in Bank!Local
    BY <1>4 DEF Bank!Local, Bank!RequestPc
  <1>6. UploadsOK /\ \A q \in Requests : request[q].pc = "new"
    BY <1>5 DEF Init, Bank!Init, UploadsOK
  <1> QED
    BY <1>1, <1>3, <1>6 DEF AgreeInv, AboutToSettle

\* Whatever the files say, however uploads interleave with the booking and
\* however often a payment is booked: a settled pair was confirmed by its order
\* and by the bank, because both agreed with the gateway.
THEOREM TwoConfirmations == Spec => []BothReconciliationsAgree
  <1>1. Init => OrdersOK /\ AgreeInv
    BY AgreeInit
  <1>2. OrdersOK /\ AgreeInv /\ [Next]_vars => (OrdersOK /\ AgreeInv)'
    BY OrderStep, AgreeStep
  <1>3. AgreeInv => BothReconciliationsAgree
    <2> SUFFICES ASSUME AgreeInv, NEW e \in Events, NEW i \in DOMAIN ledger[e],
                        ledger[e][i] # Pending
                 PROVE  LET line  == Rows[ledger[e][i][1]][ledger[e][i][2]]
                            order == OrderData[Order(e)]
                        IN  /\ orders[Order(e)] # Absent
                            /\ line.event = e
                            /\ <<line.amount, line.currency>> = <<order.amount, order.currency>>
      BY DEF BothReconciliationsAgree
    <2>1. ledger[e] \in Seq({Pending} \cup (Files \X Nat))
      BY DEF AgreeInv, PairsOK
    <2>2. i \in 1 .. Len(ledger[e]) /\ Len(ledger[e]) > 0
      BY <2>1
    <2>3. orders[Order(e)] # Absent /\ Agrees(Payment[e], OrderData[Order(e)])
      BY <2>2 DEF AgreeInv, BookedAgree
    <2>4. LET line == Rows[ledger[e][i][1]][ledger[e][i][2]]
          IN  line.event = e /\ Agrees(line, Payment[e])
      BY <2>2 DEF AgreeInv, SettledAgree
    <2> QED
      BY <2>3, <2>4 DEF Agrees
  <1> QED
    BY <1>1, <1>2, <1>3, PTL DEF Spec

-----------------------------------------------------------------------------
(***************************************************************************)
(* The books of the system put together.                                   *)
(***************************************************************************)
Books == INSTANCE SerialProofs WITH
           bookings <- [e \in Events |-> Len(ledger[e])], Bookable <- 0 .. MaxBookings

\* The orders, the verdicts and the lengths of the ledger move as
\* SerialReconciliation says: settling a pair keeps it a pair.
LEMMA ReconcilesSerially ==
  ASSUME AgreeInv, OrdersOK, [Next]_vars
  PROVE  [Judgement!Next]_(Judgement!vars)
  <1>1. PairsOK /\ UploadsOK /\ AboutToSettle
    BY DEF AgreeInv
  <1>2. ASSUME UNCHANGED <<orders, state>>, \A f \in Events : Len(ledger'[f]) = Len(ledger[f])
        PROVE  UNCHANGED Judgement!vars
    <2>1. [f \in Events |-> Len(ledger'[f])] = [f \in Events |-> Len(ledger[f])]
      BY <1>2
    <2> QED
      BY <1>2, <2>1 DEF Judgement!vars
  <1>3. ASSUME NEW o \in Orders, CreateOrder(o)
        PROVE  Judgement!Next
    BY <1>3 DEF CreateOrder, Judgement!Next
  <1>4. ASSUME NEW e \in Events, Store(e)
        PROVE  Judgement!Next
    BY <1>4 DEF Store, Judgement!Next
  <1>5. ASSUME NEW e \in Events, Judge(e)
        PROVE  Judgement!Next
    BY <1>5 DEF Judge, Judgement!Next
  <1>6. ASSUME NEW e \in Events, SimulatePayment(e) \/ Publish(e)
        PROVE  UNCHANGED <<orders, state, ledger>>
    BY <1>6 DEF SimulatePayment, Page!SimulatePayment, Publish
  <1>7. ASSUME Browse \/ UNCHANGED vars
        PROVE  UNCHANGED <<orders, state, ledger>>
    BY <1>7 DEF Browse, vars, Page!Poll, Page!List, Page!Submit, Page!Created,
         Page!Lose, Page!Arrive, Press, Page!Press, Page!Triggered
  <1>8. ASSUME Settle
        PROVE  /\ UNCHANGED <<orders, state>>
               /\ \A f \in Events : Len(ledger'[f]) = Len(ledger[f])
    <2>1. PICK q \in Requests : Bank!Process(q)
      BY <1>8 DEF Settle
    <2>2. UNCHANGED ledger \/ Bank!Settle(q)
      BY <1>1, <2>1, UploadStep
    <2> QED
      BY <1>1, <1>8, <2>2, SettleStep DEF Settle
  <1> QED
    BY <1>2, <1>3, <1>4, <1>5, <1>6, <1>7, <1>8 DEF Next

\* SerialProofs speaks of the same specification.
LEMMA SameBooks ==
  /\ Judgement!Init => Books!Init
  /\ [Judgement!Next]_(Judgement!vars) => [Books!Next]_(Books!vars)
  /\ Books!NetBooking <=> Judgement!NetBooking
  <1>1. \A payment, order, threshold :
          Judgement!Mismatches(payment, order, threshold)
            = Books!Mismatches(payment, order, threshold)
    BY DEF Judgement!Mismatches, Books!Mismatches, Judgement!Applies, Books!Applies,
       Judgement!AmountMismatch, Books!AmountMismatch, Judgement!DelayedWebhook,
       Books!DelayedWebhook, Judgement!DuplicatePayment, Books!DuplicatePayment,
       Judgement!StatusConflict, Books!StatusConflict, Judgement!MismatchReason,
       Books!MismatchReason, Judgement!Absent, Books!Absent
  <1>2. \A payment, order, threshold :
          Judgement!Reconcile(payment, order, threshold)
            = Books!Reconcile(payment, order, threshold)
    BY <1>1 DEF Judgement!Reconcile, Books!Reconcile, Judgement!Verdict, Books!Verdict,
       Judgement!OrderStatusUpdate, Books!OrderStatusUpdate, Judgement!NoUpdate,
       Books!NoUpdate
  <1>3. \A e : Judgement!OrderOf(e) = Books!OrderOf(e)
    BY DEF Judgement!OrderOf, Books!OrderOf
  <1>4. /\ \A o : Judgement!Snapshots(o) = Books!Snapshots(o)
        /\ \A o, status : Judgement!OrderAs(o, status) = Books!OrderAs(o, status)
    BY DEF Judgement!Snapshots, Books!Snapshots, Judgement!OrderAs, Books!OrderAs,
       Judgement!Absent, Books!Absent
  <1>5. \A e \in Events : Judgement!Process(e) => Books!Process(e)
    BY <1>2, <1>3, <1>4 DEF Judgement!Process, Books!Process, Judgement!NoUpdate,
       Books!NoUpdate, Judgement!Absent, Books!Absent
  <1>6. /\ \A o \in Orders : Judgement!CreateOrder(o) => Books!CreateOrder(o)
        /\ \A e \in Events : Judgement!Receive(e) => Books!Receive(e)
        /\ \A e \in Events : Judgement!Fail(e) => Books!Fail(e)
    BY DEF Judgement!CreateOrder, Books!CreateOrder, Judgement!Receive, Books!Receive,
       Judgement!Fail, Books!Fail, Judgement!Absent, Books!Absent
  <1>7. [Judgement!Next]_(Judgement!vars) => [Books!Next]_(Books!vars)
    BY <1>5, <1>6 DEF Judgement!Next, Books!Next, Judgement!vars, Books!vars
  <1>8. Judgement!Init => Books!Init
    BY DEF Judgement!Init, Books!Init, Judgement!Absent, Books!Absent
  <1>9. \A s : Judgement!Cardinality(s) = Books!Cardinality(s)
    BY DEF Judgement!Cardinality, Books!Cardinality
  <1>10. \A o, status : Judgement!PairsAs(o, status) = Books!PairsAs(o, status)
    BY <1>3 DEF Judgement!PairsAs, Books!PairsAs
  <1>11. Books!NetBooking <=> Judgement!NetBooking
    BY <1>9, <1>10
    DEF Judgement!NetBooking, Books!NetBooking, Judgement!BookedAs, Books!BookedAs
  <1> QED
    BY <1>7, <1>8, <1>11

\* Whatever is pressed twice, refunded, judged again or settled meanwhile, the
\* ledger agrees with the orders: one pair more of payments than of refunds for
\* an order that is PAID, as many for every other.
THEOREM LedgerFollowsOrders == Spec => []NetBooking
  <1>1. Init => OrdersOK /\ AgreeInv
    BY AgreeInit
  <1>2. OrdersOK /\ AgreeInv /\ [Next]_vars => (OrdersOK /\ AgreeInv)'
    BY OrderStep, AgreeStep
  <1>3. Init => Books!BooksInv
    BY SameBooks, Books!BooksInit DEF Init
  <1>4. Books!OrdersKnown
    BY PayReconAssumption DEF Books!OrdersKnown, Books!OrderOf
  <1>5. OrdersOK /\ AgreeInv /\ [Next]_vars /\ Books!BooksInv => Books!BooksInv'
    BY <1>4, ReconcilesSerially, SameBooks, Books!BooksStep
  <1>6. Books!BooksInv => NetBooking
    BY SameBooks DEF Books!BooksInv, NetBooking
  <1> QED
    BY <1>1, <1>2, <1>3, <1>5, <1>6, PTL DEF Spec

\* The trial balance of both instances is the same fold.
LEMMA SameBalance == Books!BalanceFollowsOrders <=> BalanceFollowsOrders
  <1>1. \A f : Judgement!SumFunction(f) = Books!SumFunction(f)
    BY DEF Judgement!SumFunction, Books!SumFunction, Judgement!SumFunctionOnSet,
       Books!SumFunctionOnSet, Judgement!FoldFunctionOnSet, Books!FoldFunctionOnSet,
       Judgement!MapThenFoldSet, Books!MapThenFoldSet
  <1>2. /\ \A rows : Judgement!SumOf(rows) = Books!SumOf(rows)
        /\ \A accounts : Judgement!NetOf(accounts) = Books!NetOf(accounts)
        /\ \A groups, a, isDebit :
             Judgement!TotalOf(groups, a, isDebit) = Books!TotalOf(groups, a, isDebit)
    BY <1>1 DEF Judgement!SumOf, Books!SumOf, Judgement!NetOf, Books!NetOf,
       Judgement!TotalOf, Books!TotalOf
  <1>3. \A rows : Judgement!AggregateBalance(rows) = Books!AggregateBalance(rows)
    BY <1>2 DEF Judgement!AggregateBalance, Books!AggregateBalance
  <1>4. \A rows : Judgement!GetBalance(rows) = Books!GetBalance(rows)
    BY <1>2, <1>3 DEF Judgement!GetBalance, Books!GetBalance
  <1>5. Judgement!Entries = Books!Entries
    BY DEF Judgement!Entries, Books!Entries, Judgement!CreateLedgerEntries,
       Books!CreateLedgerEntries, Judgement!Draft, Books!Draft,
       Judgement!OrderStatusUpdate, Books!OrderStatusUpdate, Judgement!NoUpdate,
       Books!NoUpdate
  <1>6. \A o, status : Judgement!BookedAs(o, status) = Books!BookedAs(o, status)
    BY DEF Judgement!BookedAs, Books!BookedAs, Judgement!PairsAs, Books!PairsAs,
       Judgement!OrderOf, Books!OrderOf, Judgement!Cardinality, Books!Cardinality
  <1> QED
    BY <1>1, <1>2, <1>4, <1>5, <1>6
    DEF BalanceFollowsOrders, Judgement!BalanceFollowsOrders, Books!BalanceFollowsOrders

\* The trial balance that ingestion reports nets to zero and shows what the
\* orders say, while pages, the bank and other clients do what they like with
\* finitely many orders.
THEOREM BalanceFollows ==
  ASSUME IsFiniteSet(Orders)
  PROVE  Spec => []BalanceFollowsOrders
  <1>1. Init => OrdersOK /\ AgreeInv
    BY AgreeInit
  <1>2. OrdersOK /\ AgreeInv /\ [Next]_vars => (OrdersOK /\ AgreeInv)'
    BY OrderStep, AgreeStep
  <1>3. Books!IsFiniteSet(Orders)
    BY DEF IsFiniteSet, Books!IsFiniteSet
  <1>4. Books!OrdersKnown /\ Books!AmountsKnown
    BY PayReconAssumption DEF Books!OrdersKnown, Books!OrderOf, Books!AmountsKnown
  <1>5. Init => Books!BalanceInv
    BY <1>3, <1>4, SameBooks, Books!BalanceInit DEF Init
  <1>6. OrdersOK /\ AgreeInv /\ [Next]_vars /\ Books!BalanceInv => Books!BalanceInv'
    BY <1>3, <1>4, ReconcilesSerially, SameBooks, Books!BalanceStep
  <1>7. Books!BalanceInv => BalanceFollowsOrders
    BY <1>3, <1>4, SameBalance, Books!BalanceHolds
  <1> QED
    BY <1>1, <1>2, <1>5, <1>6, <1>7, PTL DEF Spec

-----------------------------------------------------------------------------
(***************************************************************************)
(* Each part goes by its own specification in the whole.                   *)
(***************************************************************************)
Exist(status) == {o \in Orders : status[o] # Absent}

\* Payments are stored and published as PaymentDelivery says: a verdict writes
\* over orders, and creates and removes none.
LEMMA DeliversAlone ==
  ASSUME OrdersOK, [Next]_vars
  PROVE  [Delivery!Next]_(Delivery!vars)
  <1>1. ASSUME UNCHANGED deliveryVars, Exist(orders') = Exist(orders)
        PROVE  UNCHANGED Delivery!vars
    BY <1>1 DEF Delivery!vars, deliveryVars, Exist
  <1>2. ASSUME NEW o \in Orders, CreateOrder(o)
        PROVE  Delivery!Next
    BY <1>2 DEF CreateOrder, Delivery!Next
  <1>3. ASSUME NEW e \in Events, Store(e) \/ Publish(e)
        PROVE  Delivery!Next
    BY <1>3 DEF Store, Publish, Delivery!Next
  <1>4. ASSUME NEW e \in Events, Judge(e)
        PROVE  UNCHANGED deliveryVars /\ Exist(orders') = Exist(orders)
    <2>1. \/ UNCHANGED orders
          \/ /\ \E status \in {"PAID", "REFUNDED"} :
                  orders' = [orders EXCEPT ![Order(e)] = status]
             /\ orders[Order(e)] # Absent
      BY <1>4, ProcessMoves DEF Judge
    <2>2. \A o \in Orders : orders'[o] # Absent <=> orders[o] # Absent
      BY <2>1 DEF OrdersOK, Absent
    <2> QED
      BY <1>4, <2>2 DEF Judge, Exist
  <1>5. ASSUME NEW e \in Events, SimulatePayment(e)
        PROVE  UNCHANGED <<orders, deliveryVars>>
    BY <1>5 DEF SimulatePayment, Page!SimulatePayment
  <1>6. ASSUME Settle \/ Browse \/ UNCHANGED vars
        PROVE  UNCHANGED <<orders, deliveryVars>>
    BY <1>6 DEF Settle, Browse, vars, Page!Poll, Page!List, Page!Submit, Page!Created,
         Page!Lose, Page!Arrive, Press, Page!Press, Page!Triggered
  <1>7. UNCHANGED orders => Exist(orders') = Exist(orders)
    OBVIOUS
  <1> QED
    BY <1>1, <1>2, <1>3, <1>4, <1>5, <1>6, <1>7 DEF Next

\* The bank's files are processed as Settlement says, which books a pair only of
\* a payment that is stored: the worker judges no other.
LEMMA SettlesAlone ==
  ASSUME [Next]_vars
  PROVE  [Bank!Next]_(Bank!vars)
  <1>1. ASSUME UNCHANGED <<row, ledger, uploadVars>>
        PROVE  UNCHANGED Bank!vars
    BY <1>1 DEF Bank!vars, uploadVars
  <1>2. ASSUME NEW e \in Events, Store(e)
        PROVE  Bank!Next
    BY <1>2 DEF Store, Bank!Next
  <1>3. ASSUME NEW e \in Events, Judge(e), ~UNCHANGED ledger
        PROVE  Bank!Next
    BY <1>3 DEF Judge, Bank!Next
  <1>4. ASSUME NEW e \in Events, Judge(e), UNCHANGED ledger
        PROVE  UNCHANGED <<row, ledger, uploadVars>>
    BY <1>4 DEF Judge, deliveryVars
  <1>5. ASSUME Settle
        PROVE  Bank!Next
    BY <1>5 DEF Settle, Bank!Next
  <1>6. ASSUME NEW o \in Orders, CreateOrder(o)
        PROVE  UNCHANGED <<row, ledger, uploadVars>>
    BY <1>6 DEF CreateOrder, deliveryVars
  <1>7. ASSUME NEW e \in Events, SimulatePayment(e) \/ Publish(e)
        PROVE  UNCHANGED <<row, ledger, uploadVars>>
    BY <1>7 DEF SimulatePayment, Publish, Delivery!Publish, deliveryVars
  <1>8. ASSUME Browse \/ UNCHANGED vars
        PROVE  UNCHANGED <<row, ledger, uploadVars>>
    BY <1>8 DEF Browse, vars, deliveryVars
  <1> QED
    BY <1>1, <1>2, <1>3, <1>4, <1>5, <1>6, <1>7, <1>8 DEF Next

\* Put together, no part is made to do what its own specification excludes:
\* payments are delivered as PaymentDelivery says, judged and booked as
\* SerialReconciliation says, and settled as Settlement says, although each sees
\* rows that the others write.
THEOREM PartsKeepTheirSpecs ==
  Spec => Delivery!Spec /\ Judgement!Spec /\ Bank!Spec
  <1>1. Init => OrdersOK /\ AgreeInv
    BY AgreeInit
  <1>2. OrdersOK /\ AgreeInv /\ [Next]_vars => (OrdersOK /\ AgreeInv)'
    BY OrderStep, AgreeStep
  <1>3. Init => Delivery!Init /\ Judgement!Init /\ Bank!Init
    BY DEF Init
  <1>4. OrdersOK /\ AgreeInv /\ [Next]_vars =>
          /\ [Delivery!Next]_(Delivery!vars)
          /\ [Judgement!Next]_(Judgement!vars)
          /\ [Bank!Next]_(Bank!vars)
    BY DeliversAlone, ReconcilesSerially, SettlesAlone
  <1> QED
    BY <1>1, <1>2, <1>3, <1>4, PTL DEF Spec, Delivery!Spec, Judgement!Spec, Bank!Spec
=============================================================================
