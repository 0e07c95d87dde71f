---------------------------- MODULE SerialProofs ----------------------------
(***************************************************************************)
(* The promise of SerialReconciliation to the books: through any sequence  *)
(* of payments, duplicates, refunds and repeated processing, an order has  *)
(* one pair more of payments than of refunds while it is PAID, and as many *)
(* otherwise; and the trial balance over the rows of those pairs nets to   *)
(* zero and shows what the orders say.                                     *)
(***************************************************************************)
EXTENDS SerialReconciliation, FiniteSetTheorems, TLAPS

USE DEF Absent, NoUpdate

-----------------------------------------------------------------------------
(***************************************************************************)
(* Sums.  The trial balance is a fold over the rows of the ledger, and a   *)
(* fold adds up in an order of its choice.  The library's induction over   *)
(* finite sets takes a predicate; here a set G stands for it, so that      *)
(* nothing but sets is quantified.                                         *)
(***************************************************************************)
LEMMA SubsetInduction ==
  ASSUME NEW S, IsFiniteSet(S), NEW G,
         \A T \in SUBSET S : (\A U \in SUBSET T : U # T => U \in G) => T \in G
  PROVE  S \in G
  <1> DEFINE Bad == {T \in SUBSET S : T \notin G}
  <1>1. IsWellFoundedOn(StrictSubsetOrdering(S), SUBSET S)
    BY FS_FiniteSubsetsOfFinite, FS_StrictSubsetOrderingWellFounded, Zenon
  <1>2. SUFFICES ASSUME Bad # {} PROVE FALSE
    OBVIOUS
  <1>3. PICK T \in Bad : \A U \in Bad : <<U, T>> \notin StrictSubsetOrdering(S)
    <2> DEFINE R == StrictSubsetOrdering(S)
               All == SUBSET S
    <2>1. Bad \subseteq All
      OBVIOUS
    <2>2. IsWellFoundedOn(R, All)
      BY <1>1
    <2> HIDE DEF Bad, R, All
    <2>3. \E T \in Bad : \A U \in Bad : ~(<<U, T>> \in R)
      BY <1>2, <2>1, <2>2, WFMin
    <2> QED
      BY <2>3 DEF R
  <1>4. \A U \in SUBSET T : U # T => U \in G
    BY <1>3, Zenon DEF StrictSubsetOrdering
  <1> QED
    BY <1>3, <1>4

Chosen(s) == CHOOSE x \in s : TRUE

LEMMA ChosenIn == \A s : s # {} => Chosen(s) \in s
  BY DEF Chosen

\* A function on the subsets of S that adds up f the way the fold does.
IsSum(g, f, S) ==
  g = [s \in SUBSET S |-> IF s = {} THEN 0 ELSE f[Chosen(s)] + g[s \ {Chosen(s)}]]

LEMMA SumChosen ==
  ASSUME NEW f, NEW S
  PROVE  SumFunctionOnSet(f, S) = (CHOOSE g : IsSum(g, f, S))[S]
  BY Zenon DEF SumFunctionOnSet, FoldFunctionOnSet, MapThenFoldSet, IsSum, Chosen

LEMMA SumEquation ==
  ASSUME NEW g, NEW f, NEW S, IsSum(g, f, S), NEW s \in SUBSET S
  PROVE  g[s] = IF s = {} THEN 0 ELSE f[Chosen(s)] + g[s \ {Chosen(s)}]
  BY DEF IsSum

LEMMA SumUnique ==
  ASSUME NEW f, NEW S, IsFiniteSet(S), NEW g, IsSum(g, f, S), NEW h, IsSum(h, f, S)
  PROVE  g[S] = h[S]
  <1> DEFINE G == {s \in SUBSET S : g[s] = h[s]}
  <1>1. ASSUME NEW T \in SUBSET S, \A U \in SUBSET T : U # T => U \in G
        PROVE  g[T] = h[T]
    <2>1. CASE T = {}
      BY <2>1, SumEquation
    <2>2. CASE T # {}
      <3>1. T \ {Chosen(T)} \in SUBSET T /\ T \ {Chosen(T)} # T
        BY <2>2, ChosenIn
      <3>2. g[T \ {Chosen(T)}] = h[T \ {Chosen(T)}]
        BY <1>1, <3>1
      <3> QED
        BY <2>2, <3>2, SumEquation
    <2> QED
      BY <2>1, <2>2
  <1>2. S \in G
    <2>1. \A T \in SUBSET S : (\A U \in SUBSET T : U # T => U \in G) => T \in G
      BY <1>1
    <2> HIDE DEF G
    <2> QED
      BY <2>1, SubsetInduction
  <1> QED
    BY <1>2

LEMMA SumRestricted ==
  ASSUME NEW f, NEW S, NEW g, IsSum(g, f, S), NEW T \in SUBSET S
  PROVE  IsSum([s \in SUBSET T |-> g[s]], f, T)
  <1> DEFINE h == [s \in SUBSET T |-> g[s]]
  <1>1. ASSUME NEW s \in SUBSET T
        PROVE  h[s] = IF s = {} THEN 0 ELSE f[Chosen(s)] + h[s \ {Chosen(s)}]
    BY SumEquation
  <1> QED
    BY <1>1 DEF IsSum

\* The fold is well defined on finite sets.
LEMMA SumExists ==
  ASSUME NEW f, NEW S, IsFiniteSet(S)
  PROVE  \E g : IsSum(g, f, S)
  <1> DEFINE G == {s \in SUBSET S : \E g : IsSum(g, f, s)}
  <1>1. ASSUME NEW T \in SUBSET S, \A U \in SUBSET T : U # T => U \in G
        PROVE  \E g : IsSum(g, f, T)
    <2> DEFINE h == [s \in SUBSET T |-> (CHOOSE g : IsSum(g, f, s))[s]]
               k == [s \in SUBSET T |-> IF s = {} THEN 0 ELSE f[Chosen(s)] + h[s \ {Chosen(s)}]]
    <2>1. ASSUME NEW s \in SUBSET T, s # T
          PROVE  h[s] = k[s]
      <3> DEFINE g == CHOOSE g : IsSum(g, f, s)
      <3>1. IsSum(g, f, s)
        BY <1>1, <2>1
      <3>2. CASE s = {}
        BY <3>1, <3>2, SumEquation
      <3>3. CASE s # {}
        <4> DEFINE t == s \ {Chosen(s)}
                   gt == CHOOSE g2 : IsSum(g2, f, t)
        <4>1. t \in SUBSET s /\ t \in SUBSET T /\ t # T /\ t \in SUBSET S
          BY <2>1
        <4>2. IsSum(gt, f, t)
          BY <1>1, <4>1
        <4>3. IsSum([u \in SUBSET t |-> g[u]], f, t)
          BY <3>1, <4>1, SumRestricted
        <4>4. IsFiniteSet(t)
          BY <4>1, FS_Subset
        <4>5. gt[t] = g[t]
          <5> DEFINE r == [u \in SUBSET t |-> g[u]]
          <5>1. r[t] = g[t]
            OBVIOUS
          <5> HIDE DEF r, gt, g, t
          <5> QED
            BY <4>2, <4>3, <4>4, <5>1, SumUnique DEF r
        <4>6. h[t] = gt[t]
          BY <4>1
        <4>7. g[s] = f[Chosen(s)] + g[t]
          BY <3>1, <3>3, SumEquation
        <4> QED
          BY <3>3, <4>5, <4>6, <4>7
      <3> QED
        BY <3>2, <3>3
    <2>2. ASSUME NEW s \in SUBSET T
          PROVE  k[s] = IF s = {} THEN 0 ELSE f[Chosen(s)] + k[s \ {Chosen(s)}]
      <3>1. CASE s = {}
        BY <3>1
      <3>2. CASE s # {}
        <4>1. s \ {Chosen(s)} \in SUBSET T /\ s \ {Chosen(s)} # T
          BY <3>2, ChosenIn
        <4>2. h[s \ {Chosen(s)}] = k[s \ {Chosen(s)}]
          BY <2>1, <4>1
        <4> HIDE DEF h
        <4> QED
          BY <3>2, <4>1, <4>2
      <3> QED
        BY <3>1, <3>2
    <2>3. IsSum(k, f, T)
      <3>1. k = [s \in SUBSET T |-> k[s]]
        OBVIOUS
      <3> HIDE DEF k
      <3> QED
        BY <2>2, <3>1 DEF IsSum
    <2> QED
      BY <2>3
  <1>2. S \in G
    <2>1. \A T \in SUBSET S : (\A U \in SUBSET T : U # T => U \in G) => T \in G
      BY <1>1
    <2> HIDE DEF G
    <2> QED
      BY <2>1, SubsetInduction
  <1> QED
    BY <1>2

LEMMA SumStep ==
  ASSUME NEW f, NEW S, IsFiniteSet(S)
  PROVE  SumFunctionOnSet(f, S) =
           IF S = {} THEN 0 ELSE f[Chosen(S)] + SumFunctionOnSet(f, S \ {Chosen(S)})
  <1> DEFINE g == CHOOSE g : IsSum(g, f, S)
             T == S \ {Chosen(S)}
             h == CHOOSE h : IsSum(h, f, T)
             r == [s \in SUBSET T |-> g[s]]
  <1>1. IsSum(g, f, S)
    BY SumExists
  <1>2. IsFiniteSet(T)
    BY FS_Subset
  <1>3. IsSum(h, f, T)
    BY <1>2, SumExists
  <1>4. IsSum(r, f, T)
    BY <1>1, SumRestricted
  <1>5. r[T] = g[T]
    OBVIOUS
  <1>6. SumFunctionOnSet(f, S) = g[S] /\ SumFunctionOnSet(f, T) = h[T]
    BY SumChosen
  <1>7. g[S] = IF S = {} THEN 0 ELSE f[Chosen(S)] + g[T]
    BY <1>1, SumEquation
  <1> HIDE DEF g, h, r, T
  <1>8. h[T] = r[T]
    BY <1>2, <1>3, <1>4, SumUnique
  <1> QED
    BY <1>5, <1>6, <1>7, <1>8 DEF T

\* A sum of integers is one, and may be taken in any order.
LEMMA SumRemove ==
  ASSUME NEW f, NEW S, IsFiniteSet(S), \A x \in S : f[x] \in Int
  PROVE  /\ SumFunctionOnSet(f, S) \in Int
         /\ \A x \in S : SumFunctionOnSet(f, S) = f[x] + SumFunctionOnSet(f, S \ {x})
  <1> DEFINE Sum(s) == SumFunctionOnSet(f, s)
             G == {s \in SUBSET S : Sum(s) \in Int /\ \A x \in s : Sum(s) = f[x] + Sum(s \ {x})}
  <1>0. \A s \in SUBSET S : Sum(s) = IF s = {} THEN 0 ELSE f[Chosen(s)] + Sum(s \ {Chosen(s)})
    BY FS_Subset, SumStep
  <1> HIDE DEF Sum
  <1>1. ASSUME NEW T \in SUBSET S, \A U \in SUBSET T : U # T => U \in G
        PROVE  Sum(T) \in Int /\ \A x \in T : Sum(T) = f[x] + Sum(T \ {x})
    <2>1. CASE T = {}
      <3>1. Sum(T) = 0
        BY <1>0, <2>1
      <3> QED
        BY <2>1, <3>1
    <2>2. CASE T # {}
      <3> DEFINE c == Chosen(T)
      <3>1. c \in T
        BY <2>2, ChosenIn
      <3>2. Sum(T) = f[c] + Sum(T \ {c})
        BY <1>0, <2>2
      <3>3. T \ {c} \in G
        BY <1>1, <3>1
      <3>4. ASSUME NEW x \in T, x # c
            PROVE  Sum(T) = f[x] + Sum(T \ {x})
        <4>1. T \ {x} \in G
          BY <1>1
        <4>2. Sum(T \ {c}) = f[x] + Sum((T \ {c}) \ {x})
          BY <3>3, <3>4
        <4>3. Sum(T \ {x}) = f[c] + Sum((T \ {x}) \ {c})
          BY <3>1, <3>4, <4>1
        <4>4. (T \ {c}) \ {x} = (T \ {x}) \ {c}
          OBVIOUS
        <4>5. (T \ {x}) \ {c} \in G
          BY <1>1
        <4>6. Sum((T \ {x}) \ {c}) \in Int /\ f[x] \in Int /\ f[c] \in Int
          BY <3>1, <4>5
        <4>7. Sum(T) = f[c] + (f[x] + Sum((T \ {x}) \ {c}))
          BY <3>2, <4>2, <4>4
        <4>8. \A i, j, k \in Int : i + (j + k) = j + (i + k)
          OBVIOUS
        <4> QED
          BY <4>3, <4>6, <4>7, <4>8
      <3>5. Sum(T) \in Int
        BY <3>1, <3>2, <3>3
      <3> QED
        BY <3>2, <3>4, <3>5
    <2> QED
      BY <2>1, <2>2
  <1>2. S \in G
    <2>1. \A T \in SUBSET S : (\A U \in SUBSET T : U # T => U \in G) => T \in G
      BY <1>1
    <2> HIDE DEF G
    <2> QED
      BY <2>1, SubsetInduction
  <1> QED
    BY <1>2 DEF Sum

LEMMA SumEmpty == \A f : SumFunctionOnSet(f, {}) = 0
  BY FS_EmptySet, SumStep

LEMMA SumAdd ==
  ASSUME NEW f, NEW S, IsFiniteSet(S), NEW x, x \notin S, \A y \in S \cup {x} : f[y] \in Int
  PROVE  /\ SumFunctionOnSet(f, S) \in Int
         /\ SumFunctionOnSet(f, S \cup {x}) = SumFunctionOnSet(f, S) + f[x]
  <1>1. IsFiniteSet(S \cup {x}) /\ (S \cup {x}) \ {x} = S
    BY FS_AddElement
  <1>2. SumFunctionOnSet(f, S) \in Int
    BY SumRemove
  <1>3. SumFunctionOnSet(f, S \cup {x}) = f[x] + SumFunctionOnSet(f, S)
    BY <1>1, SumRemove
  <1> QED
    BY <1>2, <1>3

\* Only the values that are added matter.
LEMMA SumSame ==
  ASSUME NEW f, NEW h, NEW S, IsFiniteSet(S), \A x \in S : f[x] = h[x]
  PROVE  SumFunctionOnSet(f, S) = SumFunctionOnSet(h, S)
  <1> DEFINE G == {s \in SUBSET S : SumFunctionOnSet(f, s) = SumFunctionOnSet(h, s)}
  <1>1. ASSUME NEW T \in SUBSET S, \A U \in SUBSET T : U # T => U \in G
        PROVE  SumFunctionOnSet(f, T) = SumFunctionOnSet(h, T)
    <2>1. IsFiniteSet(T)
      BY FS_Subset
    <2>2. T # {} => /\ T \ {Chosen(T)} \in G
                    /\ f[Chosen(T)] = h[Chosen(T)]
      BY <1>1, ChosenIn
    <2> QED
      BY <2>1, <2>2, SumStep
  <1>2. S \in G
    <2>1. \A T \in SUBSET S : (\A U \in SUBSET T : U # T => U \in G) => T \in G
      BY <1>1
    <2> HIDE DEF G
    <2> QED
      BY <2>1, SubsetInduction
  <1> QED
    BY <1>2

LEMMA SumOne ==
  ASSUME NEW f, NEW x, f[x] \in Int
  PROVE  SumFunctionOnSet(f, {x}) = f[x]
  <1>1. IsFiniteSet({}) /\ {} \cup {x} = {x}
    BY FS_EmptySet
  <1>2. SumFunctionOnSet(f, {} \cup {x}) = SumFunctionOnSet(f, {}) + f[x]
    BY <1>1, SumAdd
  <1> QED
    BY <1>1, <1>2, SumEmpty

LEMMA SumTwo ==
  \A f, x, y : x # y /\ f[x] \in Int /\ f[y] \in Int
                 => SumFunctionOnSet(f, {x, y}) = f[x] + f[y]
  <1> SUFFICES ASSUME NEW f, NEW x, NEW y, x # y, f[x] \in Int, f[y] \in Int
               PROVE  SumFunctionOnSet(f, {x, y}) = f[x] + f[y]
    OBVIOUS
  <1>1. IsFiniteSet({x}) /\ {x} \cup {y} = {x, y}
    BY FS_Singleton
  <1>2. SumFunctionOnSet(f, {x} \cup {y}) = SumFunctionOnSet(f, {x}) + f[y]
    BY <1>1, SumAdd
  <1> QED
    BY <1>1, <1>2, SumOne

LEMMA NetOfOne ==
  ASSUME NEW a, a.net \in Int
  PROVE  NetOf({a}) = a.net
  <1> DEFINE f == [c \in {a} |-> c.net]
  <1>1. NetOf({a}) = SumFunctionOnSet(f, {a}) /\ f[a] = a.net
    BY DEF NetOf, SumFunction
  <1> HIDE DEF f
  <1> QED
    BY <1>1, SumOne

LEMMA NetOfTwo ==
  ASSUME NEW a, NEW b, a # b, a.net \in Int, b.net \in Int
  PROVE  NetOf({a, b}) = a.net + b.net
  <1> DEFINE f == [c \in {a, b} |-> c.net]
  <1>1. NetOf({a, b}) = SumFunctionOnSet(f, {a, b}) /\ f[a] = a.net /\ f[b] = b.net
    BY DEF NetOf, SumFunction
  <1>2. f[a] \in Int /\ f[b] \in Int
    BY <1>1
  <1> HIDE DEF f
  <1>3. SumFunctionOnSet(f, {a, b}) = f[a] + f[b]
    BY <1>2, SumTwo, Zenon
  <1> QED
    BY <1>1, <1>3

\* What the trial balance makes of rows that debit receivables and credit
\* payables, on neither side or on both, and with the same sum.
LEMMA TrialBalance ==
  ASSUME NEW rows,
         \A r \in rows : \/ r.accountType = "GATEWAY_RECEIVABLE" /\ r.direction = "DEBIT"
                         \/ r.accountType = "MERCHANT_PAYABLE" /\ r.direction = "CREDIT",
         NEW debits, debits = {r \in rows : r.direction = "DEBIT"},
         NEW credits, credits = {r \in rows : r.direction = "CREDIT"},
         debits = {} <=> credits = {},
         SumOf(debits) \in Int, SumOf(credits) = SumOf(debits)
  PROVE  /\ GetBalance(rows).overallNet = 0
         /\ NetOf({a \in GetBalance(rows).accounts : a.accountType = "GATEWAY_RECEIVABLE"})
              = SumOf(debits)
  <1> DEFINE total == SumOf(debits)
             inGroup == [accountType |-> "GATEWAY_RECEIVABLE", direction |-> "DEBIT", total |-> total]
             outGroup == [accountType |-> "MERCHANT_PAYABLE", direction |-> "CREDIT", total |-> total]
             groups == AggregateBalance(rows)
             debit(a) == TotalOf(groups, a, TRUE)
             credit(a) == TotalOf(groups, a, FALSE)
             account(a) == [accountType |-> a, totalDebit |-> debit(a),
                            totalCredit |-> credit(a), net |-> debit(a) - credit(a)]
             accounts == {account(a) : a \in {g.accountType : g \in groups}}
  <1>1. /\ GetBalance(rows).accounts = accounts
        /\ GetBalance(rows).overallNet = NetOf(accounts)
    BY DEF GetBalance
  <1>2. \A f : /\ SumFunction(f) = SumFunctionOnSet(f, DOMAIN f)
    BY DEF SumFunction
  <1>3. \A s : NetOf(s) = SumFunctionOnSet([a \in s |-> a.net], s)
    BY <1>2 DEF NetOf
  <1>4. CASE rows = {}
    <2>1. groups = {}
      BY <1>4 DEF AggregateBalance
    <2>2. accounts = {}
      BY <2>1
    <2>3. {a \in accounts : a.accountType = "GATEWAY_RECEIVABLE"} = {}
      BY <2>2
    <2>4. NetOf({}) = 0
      BY <1>3, SumEmpty
    <2>5. SumOf({}) = 0
      BY <1>2, SumEmpty DEF SumOf
    <2>6. debits = {}
      BY <1>4
    <2> HIDE DEF accounts
    <2> QED
      BY <1>1, <2>2, <2>3, <2>4, <2>5, <2>6
  <1>5. CASE rows # {}
    <2>1. PICK r1 \in debits, r2 \in credits : TRUE
      BY <1>5
    <2>2. \A r \in rows :
            {s \in rows : s.accountType = r.accountType /\ s.direction = r.direction}
              = IF r \in debits THEN debits ELSE credits
      OBVIOUS
    <2>3. groups = {inGroup, outGroup}
      <3> DEFINE group(r) == [accountType |-> r.accountType, direction |-> r.direction,
                   total |-> SumOf({s \in rows : s.accountType = r.accountType
                                              /\ s.direction = r.direction})]
      <3>1. groups = {group(r) : r \in rows}
        BY DEF AggregateBalance
      <3>2. ASSUME NEW r \in rows
            PROVE  group(r) = IF r \in debits THEN inGroup ELSE outGroup
        BY <2>2
      <3>3. r1 \in rows /\ r1 \in debits /\ r2 \in rows /\ r2 \notin debits
        BY <2>1
      <3> HIDE DEF groups, group, inGroup, outGroup
      <3> QED
        BY <3>1, <3>2, <3>3
    <2> HIDE DEF total, groups
    <2>4. total \in Int
      BY DEF total
    <2>5. \A s, g : s = {g} /\ g.total \in Int
                      => SumFunction([h \in s |-> h.total]) = g.total
      BY <1>2, SumOne
    <2>6. /\ debit("GATEWAY_RECEIVABLE") = total
          /\ credit("MERCHANT_PAYABLE") = total
      <3>1. {g \in groups : g.accountType = "GATEWAY_RECEIVABLE"
                              /\ (g.direction = "DEBIT") = TRUE} = {inGroup}
        BY <2>3
      <3>2. {g \in groups : g.accountType = "MERCHANT_PAYABLE"
                              /\ (g.direction = "DEBIT") = FALSE} = {outGroup}
        BY <2>3
      <3>3. inGroup.total = total /\ outGroup.total = total
        OBVIOUS
      <3> HIDE DEF inGroup, outGroup
      <3> QED
        BY <2>4, <2>5, <3>1, <3>2, <3>3 DEF TotalOf
    <2>7. /\ debit("MERCHANT_PAYABLE") = 0
          /\ credit("GATEWAY_RECEIVABLE") = 0
      <3>1. {g \in groups : g.accountType = "MERCHANT_PAYABLE"
                              /\ (g.direction = "DEBIT") = TRUE} = {}
        BY <2>3
      <3>2. {g \in groups : g.accountType = "GATEWAY_RECEIVABLE"
                              /\ (g.direction = "DEBIT") = FALSE} = {}
        BY <2>3
      <3>3. \A s : s = {} => SumFunction([h \in s |-> h.total]) = 0
        BY <1>2, SumEmpty
      <3> QED
        BY <3>1, <3>2, <3>3 DEF TotalOf
    <2> DEFINE in == account("GATEWAY_RECEIVABLE")
               out == account("MERCHANT_PAYABLE")
    <2>8. accounts = {in, out}
      <3>1. {g.accountType : g \in groups} = {"GATEWAY_RECEIVABLE", "MERCHANT_PAYABLE"}
        BY <2>3
      <3> HIDE DEF account
      <3> QED
        BY <3>1
    <2>9. /\ in.accountType = "GATEWAY_RECEIVABLE" /\ in.net = total - 0
          /\ out.accountType = "MERCHANT_PAYABLE" /\ out.net = 0 - total
      BY <2>6, <2>7
    <2> HIDE DEF in, out, accounts
    <2>10. /\ in # out
           /\ in.net = total /\ out.net = 0 - total /\ out.net \in Int
           /\ {a \in accounts : a.accountType = "GATEWAY_RECEIVABLE"} = {in}
      BY <2>4, <2>8, <2>9
    <2>11. NetOf({in, out}) = total + (0 - total)
      BY <2>4, <2>10, NetOfTwo
    <2>12. NetOf({in}) = total
      BY <2>4, <2>10, NetOfOne
    <2>13. total + (0 - total) = 0
      BY <2>4
    <2> QED
      BY <1>1, <2>8, <2>10, <2>11, <2>12, <2>13 DEF total
  <1> QED
    BY <1>4, <1>5
-----------------------------------------------------------------------------
(***************************************************************************)
(* The pairs of an order.                                                  *)
(***************************************************************************)
\* Every payment is one of an order the shop may create.
OrdersKnown == \A e \in Events : OrderOf(e) \in Orders

TypeOK ==
  /\ DOMAIN orders = Orders
  /\ bookings \in [Events -> Nat]

\* The pairs of an order's payments and of its refunds are finitely many, for
\* any number of events.
FiniteInv ==
  \A o \in Orders, status \in {"SUCCESS", "REFUNDED"} : IsFiniteSet(PairsAs(o, status))

\* What a verdict that moves money presupposes and does.
LEMMA MoneyMoves ==
  ASSUME NEW payment, NEW order, NEW threshold,
         Reconcile(payment, order, threshold).update # NoUpdate
  PROVE  /\ payment.amount = order.amount
         /\ \/ /\ payment.gatewayStatus = "SUCCESS" /\ order.status # "PAID"
               /\ Reconcile(payment, order, threshold).update = "PAID"
            \/ /\ payment.gatewayStatus = "REFUNDED" /\ order.status = "PAID"
               /\ Reconcile(payment, order, threshold).update = "REFUNDED"
  <1>1. /\ Mismatches(payment, order, threshold) = {}
        /\ Reconcile(payment, order, threshold).update = OrderStatusUpdate(payment)
        /\ OrderStatusUpdate(payment) # NoUpdate
    BY DEF Reconcile
  <1>2. /\ order.status # Absent
        /\ \A reason \in MismatchReason : ~Applies(reason, payment, order, threshold)
    BY <1>1 DEF Mismatches
  <1>3. /\ ~DuplicatePayment(payment, order) /\ ~StatusConflict(payment, order)
        /\ ~AmountMismatch(payment, order)
    BY <1>2 DEF Applies, MismatchReason
  <1> QED
    BY <1>1, <1>3
    DEF OrderStatusUpdate, DuplicatePayment, StatusConflict, AmountMismatch

\* A pair of e is booked, and its order moves with it.
Booked(e) ==
  /\ bookings' = [bookings EXCEPT ![e] = @ + 1]
  /\ Payment[e].amount = OrderData[OrderOf(e)].amount
  /\ \/ /\ Payment[e].gatewayStatus = "SUCCESS" /\ orders[OrderOf(e)] # "PAID"
        /\ orders' = [orders EXCEPT ![OrderOf(e)] = "PAID"]
     \/ /\ Payment[e].gatewayStatus = "REFUNDED" /\ orders[OrderOf(e)] = "PAID"
        /\ orders' = [orders EXCEPT ![OrderOf(e)] = "REFUNDED"]

\* Nothing is booked, and no order moves but to exist.
NotBooked ==
  /\ UNCHANGED bookings
  /\ \/ UNCHANGED orders
     \/ \E o \in Orders : orders[o] = Absent /\ orders' = [orders EXCEPT ![o] = "CREATED"]

\* All the books see of a step.
LEMMA BookingStep ==
  ASSUME [Next]_vars
  PROVE  NotBooked \/ \E e \in Events : Booked(e)
  <1>1. CASE UNCHANGED vars
    BY <1>1 DEF vars, NotBooked
  <1>2. ASSUME NEW o \in Orders, CreateOrder(o)
        PROVE  NotBooked
    BY <1>2 DEF CreateOrder, NotBooked
  <1>3. ASSUME NEW e \in Events, Receive(e) \/ Fail(e)
        PROVE  NotBooked
    BY <1>3 DEF Receive, Fail, NotBooked
  <1>4. ASSUME NEW e \in Events, Process(e)
        PROVE  NotBooked \/ Booked(e)
    <2>1. PICK seen \in Snapshots(OrderOf(e)) :
            LET result == Reconcile(Payment[e], OrderAs(OrderOf(e), seen), DelayThreshold)
            IN  \/ result.update = NoUpdate /\ UNCHANGED <<orders, bookings>>
                \/ /\ result.update # NoUpdate
                   /\ bookings' = [bookings EXCEPT ![e] = @ + 1]
                   /\ orders' = [orders EXCEPT ![OrderOf(e)] = result.update]
      BY <1>4 DEF Process
    <2> DEFINE order == OrderAs(OrderOf(e), seen)
               result == Reconcile(Payment[e], order, DelayThreshold)
    <2>2. CASE result.update = NoUpdate
      BY <2>1, <2>2 DEF NotBooked
    <2>3. CASE result.update # NoUpdate
      <3>1. order.status = seen /\ order.amount = OrderData[OrderOf(e)].amount
        BY DEF OrderAs
      <3>2. /\ Payment[e].amount = order.amount
            /\ \/ /\ Payment[e].gatewayStatus = "SUCCESS" /\ seen # "PAID"
                  /\ result.update = "PAID"
               \/ /\ Payment[e].gatewayStatus = "REFUNDED" /\ seen = "PAID"
                  /\ result.update = "REFUNDED"
        BY <2>3, <3>1, MoneyMoves
      <3>3. seen = "PAID" <=> orders[OrderOf(e)] = "PAID"
        BY DEF Snapshots
      <3>4. /\ bookings' = [bookings EXCEPT ![e] = @ + 1]
            /\ orders' = [orders EXCEPT ![OrderOf(e)] = result.update]
        BY <2>1, <2>3
      <3> HIDE DEF result, order
      <3> QED
        BY <3>1, <3>2, <3>3, <3>4 DEF Booked
    <2> QED
      BY <2>2, <2>3
  <1> QED
    BY <1>1, <1>2, <1>3, <1>4 DEF Next

\* Booking adds one pair to those of its order and kind, and none to others.
LEMMA PairsGrow ==
  ASSUME TypeOK, NEW e \in Events, bookings' = [bookings EXCEPT ![e] = @ + 1],
         NEW o, NEW status
  PROVE  IF OrderOf(e) = o /\ Payment[e].gatewayStatus = status
         THEN /\ PairsAs(o, status)' = PairsAs(o, status) \cup {<<e, bookings[e] + 1>>}
              /\ <<e, bookings[e] + 1>> \notin PairsAs(o, status)
         ELSE PairsAs(o, status)' = PairsAs(o, status)
  <1> DEFINE Mine == {f \in Events : OrderOf(f) = o /\ Payment[f].gatewayStatus = status}
  <1>1. \A b : /\ \A p \in UNION {{<<f, n>> : n \in 1 .. b[f]} : f \in Mine} :
                    \E f \in Mine : \E n \in 1 .. b[f] : p = <<f, n>>
               /\ \A f \in Mine : \A n \in 1 .. b[f] :
                    <<f, n>> \in UNION {{<<g, m>> : m \in 1 .. b[g]} : g \in Mine}
    OBVIOUS
  <1>2. /\ PairsAs(o, status) = UNION {{<<f, n>> : n \in 1 .. bookings[f]} : f \in Mine}
        /\ PairsAs(o, status)' = UNION {{<<f, n>> : n \in 1 .. bookings'[f]} : f \in Mine}
    BY DEF PairsAs, OrderOf
  <1>3. /\ bookings[e] \in Nat /\ bookings'[e] = bookings[e] + 1
        /\ \A f \in Mine : f # e => bookings'[f] = bookings[f]
        /\ 1 .. bookings[e] + 1 = 1 .. bookings[e] \cup {bookings[e] + 1}
        /\ bookings[e] + 1 \notin 1 .. bookings[e]
    BY DEF TypeOK
  <1>4. CASE e \in Mine
    <2>1. PairsAs(o, status)' \subseteq PairsAs(o, status) \cup {<<e, bookings[e] + 1>>}
      BY <1>1, <1>2, <1>3
    <2>2. PairsAs(o, status) \cup {<<e, bookings[e] + 1>>} \subseteq PairsAs(o, status)'
      <3>1. PairsAs(o, status) \subseteq PairsAs(o, status)'
        BY <1>1, <1>2, <1>3
      <3>2. bookings[e] + 1 \in 1 .. bookings'[e]
        BY <1>3
      <3> QED
        BY <1>1, <1>2, <1>4, <3>1, <3>2
    <2>3. <<e, bookings[e] + 1>> \notin PairsAs(o, status)
      BY <1>1, <1>2, <1>3
    <2> QED
      BY <1>4, <2>1, <2>2, <2>3
  <1>5. CASE e \notin Mine
    <2>1. \A f \in Mine : bookings'[f] = bookings[f]
      BY <1>3, <1>5
    <2>2. PairsAs(o, status)' = PairsAs(o, status)
      BY <1>2, <2>1
    <2> QED
      BY <1>5, <2>2
  <1> QED
    BY <1>4, <1>5

\* As numbers: one more, or as many.
LEMMA BookedGrows ==
  ASSUME TypeOK, FiniteInv, NEW e \in Events, bookings' = [bookings EXCEPT ![e] = @ + 1],
         NEW o \in Orders, NEW status \in {"SUCCESS", "REFUNDED"}
  PROVE  /\ IsFiniteSet(PairsAs(o, status)')
         /\ BookedAs(o, status) \in Nat
         /\ BookedAs(o, status)' =
              IF OrderOf(e) = o /\ Payment[e].gatewayStatus = status
              THEN BookedAs(o, status) + 1 ELSE BookedAs(o, status)
  <1>1. IsFiniteSet(PairsAs(o, status))
    BY DEF FiniteInv
  <1>2. Cardinality(PairsAs(o, status)) \in Nat
    BY <1>1, FS_CardinalityType
  <1>3. CASE OrderOf(e) = o /\ Payment[e].gatewayStatus = status
    <2>1. /\ PairsAs(o, status)' = PairsAs(o, status) \cup {<<e, bookings[e] + 1>>}
          /\ <<e, bookings[e] + 1>> \notin PairsAs(o, status)
      BY <1>3, PairsGrow
    <2>2. /\ IsFiniteSet(PairsAs(o, status) \cup {<<e, bookings[e] + 1>>})
          /\ Cardinality(PairsAs(o, status) \cup {<<e, bookings[e] + 1>>})
               = Cardinality(PairsAs(o, status)) + 1
      BY <1>1, <2>1, FS_AddElement
    <2> QED
      BY <1>2, <1>3, <2>1, <2>2 DEF BookedAs
  <1>4. CASE ~(OrderOf(e) = o /\ Payment[e].gatewayStatus = status)
    <2>1. PairsAs(o, status)' = PairsAs(o, status)
      BY <1>4, PairsGrow
    <2> QED
      BY <1>1, <1>2, <1>4, <2>1 DEF BookedAs
  <1> QED
    BY <1>3, <1>4

BooksInv == TypeOK /\ FiniteInv /\ NetBooking

LEMMA BooksInit ==
  ASSUME Init
  PROVE  BooksInv
  <1>1. \A o \in Orders, status \in {"SUCCESS", "REFUNDED"} : PairsAs(o, status) = {}
    BY DEF Init, PairsAs
  <1>2. \A o \in Orders : orders[o] # "PAID"
    BY DEF Init
  <1>3. IsFiniteSet({}) /\ Cardinality({}) = 0
    BY FS_EmptySet
  <1> QED
    BY <1>1, <1>2, <1>3 DEF Init, BooksInv, TypeOK, FiniteInv, NetBooking, BookedAs

LEMMA BooksStay ==
  ASSUME BooksInv, NotBooked
  PROVE  /\ BooksInv'
         /\ \A o \in Orders : /\ orders'[o] = "PAID" <=> orders[o] = "PAID"
                              /\ BookedAs(o, "REFUNDED")' = BookedAs(o, "REFUNDED")
  <1>1. \A o \in Orders, status \in {"SUCCESS", "REFUNDED"} :
          PairsAs(o, status)' = PairsAs(o, status)
    BY DEF PairsAs, OrderOf, NotBooked
  <1>2. /\ DOMAIN orders' = Orders
        /\ \A o \in Orders : orders'[o] = "PAID" <=> orders[o] = "PAID"
    BY DEF BooksInv, TypeOK, NotBooked
  <1> QED
    BY <1>1, <1>2 DEF BooksInv, TypeOK, FiniteInv, NetBooking, BookedAs, NotBooked

LEMMA BooksStep ==
  ASSUME OrdersKnown, BooksInv, [Next]_vars
  PROVE  BooksInv'
  <1>1. CASE NotBooked
    BY <1>1, BooksStay
  <1>2. ASSUME NEW e \in Events, Booked(e)
        PROVE  BooksInv'
    <2>1. OrderOf(e) \in Orders
      BY DEF OrdersKnown
    <2>2. \A o \in Orders, status \in {"SUCCESS", "REFUNDED"} :
            /\ IsFiniteSet(PairsAs(o, status)')
            /\ BookedAs(o, status) \in Nat
            /\ BookedAs(o, status)' =
                 IF OrderOf(e) = o /\ Payment[e].gatewayStatus = status
                 THEN BookedAs(o, status) + 1 ELSE BookedAs(o, status)
      BY <1>2, BookedGrows DEF BooksInv, Booked
    <2>3. TypeOK'
      BY <1>2, <2>1 DEF BooksInv, TypeOK, Booked
    <2>4. NetBooking'
      <3> SUFFICES ASSUME NEW o \in Orders
                   PROVE  BookedAs(o, "SUCCESS")' - BookedAs(o, "REFUNDED")'
                            = IF orders'[o] = "PAID" THEN 1 ELSE 0
        BY DEF NetBooking
      <3>1. BookedAs(o, "SUCCESS") - BookedAs(o, "REFUNDED")
              = IF orders[o] = "PAID" THEN 1 ELSE 0
        BY DEF BooksInv, NetBooking
      <3>2. o # OrderOf(e) => orders'[o] = orders[o]
        BY <1>2 DEF BooksInv, TypeOK, Booked
      <3>3. orders'[OrderOf(e)] = IF Payment[e].gatewayStatus = "SUCCESS"
                                  THEN "PAID" ELSE "REFUNDED"
        BY <1>2, <2>1 DEF BooksInv, TypeOK, Booked
      <3> QED
        BY <1>2, <2>2, <3>1, <3>2, <3>3 DEF Booked
    <2> QED
      BY <2>2, <2>3, <2>4 DEF BooksInv, FiniteInv
  <1> QED
    BY <1>1, <1>2, BookingStep

\* The ledger agrees with the orders, for any payments and refunds of any
\* orders, processed in any order and any number of times.
THEOREM BooksFollowOrders ==
  ASSUME OrdersKnown
  PROVE  Spec => []NetBooking
  <1>1. Init => BooksInv
    BY BooksInit
  <1>2. BooksInv /\ [Next]_vars => BooksInv'
    BY BooksStep
  <1>3. BooksInv => NetBooking
    BY DEF BooksInv
  <1> QED
    BY <1>1, <1>2, <1>3, PTL DEF Spec

-----------------------------------------------------------------------------
(***************************************************************************)
(* The trial balance over the rows of those pairs.                         *)
(***************************************************************************)
AmountsKnown == \A o \in Orders : OrderData[o].amount \in Int

\* The two rows of the n-th pair of e.
InRow(e, n)  == [event |-> e, transaction |-> n, accountType |-> "GATEWAY_RECEIVABLE",
                 direction |-> "DEBIT", amount |-> Payment[e].amount]
OutRow(e, n) == [event |-> e, transaction |-> n, accountType |-> "MERCHANT_PAYABLE",
                 direction |-> "CREDIT", amount |-> Payment[e].amount]

Side(direction) == {r \in Entries : r.direction = direction}

\* What is booked are payments and refunds in full.
InFull ==
  \A e \in Events : bookings[e] > 0 =>
    /\ Payment[e].gatewayStatus \in {"SUCCESS", "REFUNDED"}
    /\ Payment[e].amount = OrderData[OrderOf(e)].amount

\* What the orders say is receivable.
Expected(o) ==
  OrderData[o].amount * (2 * BookedAs(o, "REFUNDED") + (IF orders[o] = "PAID" THEN 1 ELSE 0))

Receivable == SumFunctionOnSet([o \in Orders |-> Expected(o)], Orders)

SidesAgree ==
  \A direction \in {"DEBIT", "CREDIT"} :
    /\ IsFiniteSet(Side(direction))
    /\ \A r \in Side(direction) : r.amount \in Int
    /\ SumOf(Side(direction)) = Receivable

BalanceInv == BooksInv /\ InFull /\ SidesAgree

LEMMA EntriesAre ==
  ASSUME TypeOK, InFull
  PROVE  /\ \A e \in Events : \A n \in 1 .. bookings[e] :
              InRow(e, n) \in Entries /\ OutRow(e, n) \in Entries
         /\ \A r \in Entries : \E e \in Events : \E n \in 1 .. bookings[e] :
              r = InRow(e, n) \/ r = OutRow(e, n)
  <1> DEFINE Drafts(e) == CreateLedgerEntries(Payment[e], OrderStatusUpdate(Payment[e]))
             Row(e, n, draft) ==
               [event |-> e, transaction |-> n, accountType |-> draft.accountType,
                direction |-> draft.direction, amount |-> draft.amount]
             In(e)  == Draft("GATEWAY_RECEIVABLE", "DEBIT", Payment[e])
             Out(e) == Draft("MERCHANT_PAYABLE", "CREDIT", Payment[e])
  <1>1. Entries = UNION {{Row(e, n, draft) : n \in 1 .. bookings[e], draft \in Drafts(e)} :
                            e \in Events}
    BY DEF Entries
  <1>2. ASSUME NEW e \in Events, NEW n \in 1 .. bookings[e]
        PROVE  Drafts(e) = {In(e), Out(e)}
    BY DEF TypeOK, InFull, CreateLedgerEntries, OrderStatusUpdate
  <1>3. \A e, n : Row(e, n, In(e)) = InRow(e, n) /\ Row(e, n, Out(e)) = OutRow(e, n)
    BY DEF Draft, InRow, OutRow
  <1> HIDE DEF Drafts, Row, In, Out
  <1>4. ASSUME NEW e \in Events, NEW n \in 1 .. bookings[e]
        PROVE  InRow(e, n) \in Entries /\ OutRow(e, n) \in Entries
    <2>1. Row(e, n, In(e)) \in Entries /\ Row(e, n, Out(e)) \in Entries
      BY <1>1, <1>2
    <2> QED
      BY <1>3, <2>1
  <1>5. ASSUME NEW r \in Entries
        PROVE  \E e \in Events : \E n \in 1 .. bookings[e] :
                 r = InRow(e, n) \/ r = OutRow(e, n)
    <2>1. PICK e \in Events : \E n \in 1 .. bookings[e], draft \in Drafts(e) : r = Row(e, n, draft)
      BY <1>1
    <2>2. PICK n \in 1 .. bookings[e], draft \in Drafts(e) : r = Row(e, n, draft)
      BY <2>1
    <2>3. draft = In(e) \/ draft = Out(e)
      BY <1>2
    <2> QED
      BY <1>3, <2>2, <2>3
  <1> QED
    BY <1>4, <1>5

\* Either side is a row for every pair.
SidesOfPairs ==
  /\ \A r : r \in Side("DEBIT") <=>
              \E e \in Events : \E n \in 1 .. bookings[e] : r = InRow(e, n)
  /\ \A r : r \in Side("CREDIT") <=>
              \E e \in Events : \E n \in 1 .. bookings[e] : r = OutRow(e, n)
  /\ Entries = Side("DEBIT") \cup Side("CREDIT")

LEMMA SidesAre == TypeOK /\ InFull => SidesOfPairs
  <1> SUFFICES ASSUME TypeOK, InFull
               PROVE  SidesOfPairs
    OBVIOUS
  <1>1. \A e, n : InRow(e, n).direction = "DEBIT" /\ OutRow(e, n).direction = "CREDIT"
    BY DEF InRow, OutRow
  <1> QED
    BY <1>1, EntriesAre DEF Side, SidesOfPairs

\* The n-th pair of an event is not its m-th, nor one of another event.
LEMMA SideGrows ==
  ASSUME TypeOK, InFull, TypeOK', InFull', NEW e \in Events,
         bookings' = [bookings EXCEPT ![e] = @ + 1]
  PROVE  /\ Side("DEBIT")' = Side("DEBIT") \cup {InRow(e, bookings[e] + 1)}
         /\ InRow(e, bookings[e] + 1) \notin Side("DEBIT")
         /\ Side("CREDIT")' = Side("CREDIT") \cup {OutRow(e, bookings[e] + 1)}
         /\ OutRow(e, bookings[e] + 1) \notin Side("CREDIT")
  <1>1. /\ bookings[e] \in Nat /\ bookings'[e] = bookings[e] + 1
        /\ \A f \in Events : f # e => bookings'[f] = bookings[f]
        /\ 1 .. bookings[e] + 1 = 1 .. bookings[e] \cup {bookings[e] + 1}
        /\ bookings[e] + 1 \notin 1 .. bookings[e]
    BY DEF TypeOK
  <1>2. \A f, n : /\ InRow(f, n).event = f /\ InRow(f, n).transaction = n
                  /\ OutRow(f, n).event = f /\ OutRow(f, n).transaction = n
    BY DEF InRow, OutRow
  <1>3. /\ \A r : r \in Side("DEBIT")' <=>
                    \E f \in Events : \E n \in 1 .. bookings'[f] : r = InRow(f, n)
        /\ \A r : r \in Side("CREDIT")' <=>
                    \E f \in Events : \E n \in 1 .. bookings'[f] : r = OutRow(f, n)
    <2>1. SidesOfPairs'
      BY SidesAre, PTL
    <2> QED
      BY <2>1 DEF SidesOfPairs, InRow, OutRow
  <1>4. \A f \in Events : \A n : n \in 1 .. bookings'[f]
          <=> n \in 1 .. bookings[f] \/ (f = e /\ n = bookings[e] + 1)
    BY <1>1
  <1>5. /\ Side("DEBIT")' = Side("DEBIT") \cup {InRow(e, bookings[e] + 1)}
        /\ Side("CREDIT")' = Side("CREDIT") \cup {OutRow(e, bookings[e] + 1)}
    BY <1>3, <1>4, SidesAre DEF SidesOfPairs
  <1>6. /\ InRow(e, bookings[e] + 1) \notin Side("DEBIT")
        /\ OutRow(e, bookings[e] + 1) \notin Side("CREDIT")
    BY <1>1, <1>2, SidesAre DEF SidesOfPairs
  <1> QED
    BY <1>5, <1>6

LEMMA SumOfAdd ==
  ASSUME NEW rows, IsFiniteSet(rows), NEW r, r \notin rows,
         \A s \in rows \cup {r} : s.amount \in Int
  PROVE  /\ IsFiniteSet(rows \cup {r})
         /\ SumOf(rows) \in Int
         /\ SumOf(rows \cup {r}) = SumOf(rows) + r.amount
  <1> DEFINE f == [s \in rows |-> s.amount]
             h == [s \in rows \cup {r} |-> s.amount]
  <1>1. SumOf(rows) = SumFunctionOnSet(f, rows)
    BY DEF SumOf, SumFunction
  <1>2. SumOf(rows \cup {r}) = SumFunctionOnSet(h, rows \cup {r})
    BY DEF SumOf, SumFunction
  <1>3. /\ \A s \in rows : f[s] = h[s]
        /\ \A s \in rows \cup {r} : h[s] \in Int
        /\ h[r] = r.amount
    OBVIOUS
  <1> HIDE DEF f, h
  <1>4. SumFunctionOnSet(f, rows) = SumFunctionOnSet(h, rows)
    BY <1>3, SumSame
  <1>5. /\ SumFunctionOnSet(h, rows) \in Int
        /\ SumFunctionOnSet(h, rows \cup {r}) = SumFunctionOnSet(h, rows) + h[r]
    BY <1>3, SumAdd
  <1>6. IsFiniteSet(rows \cup {r})
    BY FS_AddElement
  <1> QED
    BY <1>1, <1>2, <1>3, <1>4, <1>5, <1>6

\* A sum in which one value changes.
LEMMA SumChange ==
  ASSUME NEW f, NEW h, NEW S, IsFiniteSet(S), NEW x \in S, NEW d \in Int,
         \A y \in S : f[y] \in Int, \A y \in S \ {x} : h[y] = f[y], h[x] = f[x] + d
  PROVE  SumFunctionOnSet(h, S) = SumFunctionOnSet(f, S) + d
  <1>1. IsFiniteSet(S \ {x})
    BY FS_Subset
  <1>2. SumFunctionOnSet(f, S) = f[x] + SumFunctionOnSet(f, S \ {x})
    BY SumRemove
  <1>3. \A y \in S : h[y] \in Int
    OBVIOUS
  <1>4. SumFunctionOnSet(h, S) = h[x] + SumFunctionOnSet(h, S \ {x})
    BY <1>3, SumRemove
  <1>5. SumFunctionOnSet(h, S \ {x}) = SumFunctionOnSet(f, S \ {x})
    BY <1>1, SumSame
  <1>6. SumFunctionOnSet(f, S \ {x}) \in Int
    BY <1>1, SumRemove
  <1> QED
    BY <1>2, <1>4, <1>5, <1>6

\* A booking adds its amount to what is receivable.
LEMMA ReceivableGrows ==
  ASSUME AmountsKnown, IsFiniteSet(Orders), OrdersKnown, BooksInv, BooksInv',
         NEW e \in Events, Booked(e)
  PROVE  Receivable' = Receivable + Payment[e].amount
  <1> DEFINE p == OrderOf(e)
             f == [o \in Orders |-> Expected(o)]
             h == [o \in Orders |-> Expected(o)']
  <1>1. p \in Orders /\ Payment[e].amount = OrderData[p].amount /\ OrderData[p].amount \in Int
    BY DEF OrdersKnown, AmountsKnown, Booked
  <1>2. \A o \in Orders :
          /\ BookedAs(o, "REFUNDED") \in Nat
          /\ BookedAs(o, "REFUNDED")' =
               IF p = o /\ Payment[e].gatewayStatus = "REFUNDED"
               THEN BookedAs(o, "REFUNDED") + 1 ELSE BookedAs(o, "REFUNDED")
    BY BookedGrows DEF BooksInv, Booked
  <1>3. \A o \in Orders : o # p => orders'[o] = orders[o]
    BY DEF BooksInv, TypeOK, Booked
  <1>4. orders'[p] = IF Payment[e].gatewayStatus = "SUCCESS" THEN "PAID" ELSE "REFUNDED"
    BY <1>1 DEF BooksInv, TypeOK, Booked
  <1>5. \A o \in Orders : Expected(o) \in Int
    BY <1>2 DEF Expected, AmountsKnown
  <1>6. \A o \in Orders \ {p} : Expected(o)' = Expected(o)
    BY <1>2, <1>3 DEF Expected
  <1>7. Expected(p)' = Expected(p) + OrderData[p].amount
    <2> DEFINE amount == OrderData[p].amount
               n == BookedAs(p, "REFUNDED")
    <2>1. amount \in Int /\ n \in Nat
      BY <1>1, <1>2
    <2>2. CASE Payment[e].gatewayStatus = "SUCCESS"
      <3>1. orders[p] # "PAID" /\ orders'[p] = "PAID" /\ BookedAs(p, "REFUNDED")' = n
        BY <1>1, <1>2, <1>4, <2>2 DEF Booked
      <3>2. Expected(p) = amount * (2 * n + 0) /\ Expected(p)' = amount * (2 * n + 1)
        BY <3>1 DEF Expected
      <3> HIDE DEF amount, n
      <3>3. amount * (2 * n + 1) = amount * (2 * n + 0) + amount
        BY <2>1
      <3> QED
        BY <3>2, <3>3 DEF amount
    <2>3. CASE Payment[e].gatewayStatus # "SUCCESS"
      <3>1. /\ orders[p] = "PAID" /\ orders'[p] = "REFUNDED"
            /\ BookedAs(p, "REFUNDED")' = n + 1
        BY <1>1, <1>2, <1>4, <2>3 DEF Booked
      <3>2. /\ Expected(p) = amount * (2 * n + 1)
            /\ Expected(p)' = amount * (2 * (n + 1) + 0)
        BY <3>1 DEF Expected
      <3> HIDE DEF amount, n
      <3>3. amount * (2 * (n + 1) + 0) = amount * (2 * n + 1) + amount
        BY <2>1
      <3> QED
        BY <3>2, <3>3 DEF amount
    <2> QED
      BY <2>2, <2>3
  <1>8. Receivable = SumFunctionOnSet(f, Orders) /\ Receivable' = SumFunctionOnSet(h, Orders)
    BY DEF Receivable
  <1>9. /\ \A o \in Orders : f[o] \in Int
        /\ \A o \in Orders \ {p} : h[o] = f[o]
        /\ h[p] = f[p] + Payment[e].amount
        /\ Payment[e].amount \in Int
    BY <1>1, <1>5, <1>6, <1>7
  <1> HIDE DEF f, h, p
  <1> QED
    BY <1>1, <1>8, <1>9, SumChange

LEMMA BalanceInit ==
  ASSUME IsFiniteSet(Orders), AmountsKnown, Init
  PROVE  BalanceInv
  <1>1. BooksInv
    BY BooksInit
  <1>2. InFull
    BY DEF Init, InFull
  <1>3. \A direction : Side(direction) = {}
    BY DEF Init, Side, Entries
  <1>4. SumOf({}) = 0
    BY SumEmpty DEF SumOf, SumFunction
  <1>5. Receivable = 0
    <2> DEFINE f == [o \in Orders |-> Expected(o)]
               G == {s \in SUBSET Orders : SumFunctionOnSet(f, s) = 0}
    <2>1. \A o \in Orders : f[o] = 0
      <3>1. \A o \in Orders : orders[o] # "PAID" /\ PairsAs(o, "REFUNDED") = {}
        BY DEF Init, PairsAs
      <3>2. \A o \in Orders : BookedAs(o, "REFUNDED") = 0
        BY <3>1, FS_EmptySet DEF BookedAs
      <3> QED
        BY <3>1, <3>2 DEF Expected, AmountsKnown
    <2> HIDE DEF f
    <2>2. ASSUME NEW T \in SUBSET Orders, \A U \in SUBSET T : U # T => U \in G
          PROVE  T \in G
      <3>1. IsFiniteSet(T)
        BY FS_Subset
      <3>2. T # {} => T \ {Chosen(T)} \in G /\ Chosen(T) \in Orders
        BY <2>2, ChosenIn
      <3>3. T # {} => SumFunctionOnSet(f, T \ {Chosen(T)}) = 0 /\ f[Chosen(T)] = 0
        BY <2>1, <3>2
      <3> QED
        BY <3>1, <3>3, SumStep
    <2>3. Orders \in G
      <3> HIDE DEF G
      <3> QED
        BY <2>2, SubsetInduction
    <2> QED
      BY <2>3 DEF Receivable, f
  <1> QED
    BY <1>1, <1>2, <1>3, <1>4, <1>5, FS_EmptySet DEF BalanceInv, SidesAgree

LEMMA BalanceStep ==
  ASSUME IsFiniteSet(Orders), AmountsKnown, OrdersKnown, BalanceInv, [Next]_vars
  PROVE  BalanceInv'
  <1>1. BooksInv'
    BY BooksStep DEF BalanceInv
  <1>2. CASE NotBooked
    <2>1. /\ \A o \in Orders : /\ orders'[o] = "PAID" <=> orders[o] = "PAID"
                               /\ BookedAs(o, "REFUNDED")' = BookedAs(o, "REFUNDED")
      BY <1>2, BooksStay DEF BalanceInv
    <2>2. \A o \in Orders : Expected(o)' = Expected(o)
      BY <2>1 DEF Expected
    <2>3. Receivable' = Receivable
      BY <2>2 DEF Receivable
    <2>4. UNCHANGED Entries
      BY <1>2 DEF NotBooked, Entries
    <2>5. InFull'
      BY <1>2 DEF BalanceInv, InFull, NotBooked, OrderOf
    <2> QED
      BY <1>1, <2>3, <2>4, <2>5 DEF BalanceInv, SidesAgree, Side
  <1>3. ASSUME NEW e \in Events, Booked(e)
        PROVE  BalanceInv'
    <2>1. InFull'
      BY <1>3 DEF BalanceInv, BooksInv, TypeOK, InFull, Booked, OrderOf
    <2>2. TypeOK /\ TypeOK' /\ InFull
      BY <1>1 DEF BalanceInv, BooksInv
    <2> DEFINE in == InRow(e, bookings[e] + 1)
               out == OutRow(e, bookings[e] + 1)
    <2>3. /\ Side("DEBIT")' = Side("DEBIT") \cup {in} /\ in \notin Side("DEBIT")
          /\ Side("CREDIT")' = Side("CREDIT") \cup {out} /\ out \notin Side("CREDIT")
      BY <1>3, <2>1, <2>2, SideGrows DEF Booked
    <2>4. /\ in.amount = Payment[e].amount /\ out.amount = Payment[e].amount
          /\ Payment[e].amount \in Int
      BY <1>3 DEF InRow, OutRow, Booked, AmountsKnown, OrdersKnown
    <2>5. Receivable' = Receivable + Payment[e].amount
      BY <1>1, <1>3, ReceivableGrows DEF BalanceInv
    <2> HIDE DEF in, out
    <2>6. SidesAgree
      BY DEF BalanceInv
    <2>7. /\ IsFiniteSet(Side("DEBIT")') /\ \A r \in Side("DEBIT")' : r.amount \in Int
          /\ SumOf(Side("DEBIT")') = Receivable'
      <3>1. /\ IsFiniteSet(Side("DEBIT")) /\ SumOf(Side("DEBIT")) = Receivable
            /\ \A r \in Side("DEBIT") \cup {in} : r.amount \in Int
        BY <2>4, <2>6 DEF SidesAgree
      <3>2. /\ IsFiniteSet(Side("DEBIT") \cup {in})
            /\ SumOf(Side("DEBIT") \cup {in}) = SumOf(Side("DEBIT")) + in.amount
        BY <2>3, <3>1, SumOfAdd
      <3> QED
        BY <2>3, <2>4, <2>5, <3>1, <3>2
    <2>8. /\ IsFiniteSet(Side("CREDIT")') /\ \A r \in Side("CREDIT")' : r.amount \in Int
          /\ SumOf(Side("CREDIT")') = Receivable'
      <3>1. /\ IsFiniteSet(Side("CREDIT")) /\ SumOf(Side("CREDIT")) = Receivable
            /\ \A r \in Side("CREDIT") \cup {out} : r.amount \in Int
        BY <2>4, <2>6 DEF SidesAgree
      <3>2. /\ IsFiniteSet(Side("CREDIT") \cup {out})
            /\ SumOf(Side("CREDIT") \cup {out}) = SumOf(Side("CREDIT")) + out.amount
        BY <2>3, <3>1, SumOfAdd
      <3> QED
        BY <2>3, <2>4, <2>5, <3>1, <3>2
    <2>9. SidesAgree'
      BY <2>7, <2>8 DEF SidesAgree
    <2> QED
      BY <1>1, <2>1, <2>9 DEF BalanceInv
  <1> QED
    BY <1>2, <1>3, BookingStep

LEMMA BalanceHolds ==
  ASSUME IsFiniteSet(Orders), AmountsKnown, BalanceInv
  PROVE  BalanceFollowsOrders
  <1> DEFINE debits == Side("DEBIT")
             credits == Side("CREDIT")
  <1>1. TypeOK /\ InFull
    BY DEF BalanceInv, BooksInv
  <1>2. \A r \in Entries : \/ r.accountType = "GATEWAY_RECEIVABLE" /\ r.direction = "DEBIT"
                           \/ r.accountType = "MERCHANT_PAYABLE" /\ r.direction = "CREDIT"
    BY <1>1, EntriesAre DEF InRow, OutRow
  <1>3. debits = {} <=> credits = {}
    BY <1>1, SidesAre DEF SidesOfPairs
  <1>4. /\ IsFiniteSet(debits) /\ \A r \in debits : r.amount \in Int
        /\ SumOf(debits) = Receivable /\ SumOf(credits) = Receivable
    BY DEF BalanceInv, SidesAgree
  <1>5. SumOf(debits) \in Int
    <2> DEFINE f == [r \in debits |-> r.amount]
    <2>1. SumOf(debits) = SumFunctionOnSet(f, debits)
      BY DEF SumOf, SumFunction
    <2>2. \A r \in debits : f[r] \in Int
      BY <1>4
    <2> HIDE DEF f, debits
    <2> QED
      BY <1>4, <2>1, <2>2, SumRemove
  <1>6. /\ debits = {r \in Entries : r.direction = "DEBIT"}
        /\ credits = {r \in Entries : r.direction = "CREDIT"}
    BY DEF Side
  <1> HIDE DEF debits, credits
  <1>7. /\ GetBalance(Entries).overallNet = 0
        /\ NetOf({a \in GetBalance(Entries).accounts : a.accountType = "GATEWAY_RECEIVABLE"})
             = SumOf(debits)
    BY <1>2, <1>3, <1>4, <1>5, <1>6, TrialBalance
  <1>8. SumFunction([o \in Orders |-> Expected(o)]) = Receivable
    BY DEF SumFunction, Receivable
  <1> QED
    BY <1>4, <1>7, <1>8 DEF BalanceFollowsOrders, Expected

\* The trial balance of a shop with finitely many orders nets to zero and
\* shows as receivable what its orders say, whatever is paid, refunded and
\* processed how often.
THEOREM BalanceAlwaysFollows ==
  ASSUME IsFiniteSet(Orders), AmountsKnown, OrdersKnown
  PROVE  Spec => []BalanceFollowsOrders
  <1>1. Init => BalanceInv
    BY BalanceInit
  <1>2. BalanceInv /\ [Next]_vars => BalanceInv'
    BY BalanceStep
  <1>3. BalanceInv => BalanceFollowsOrders
    BY BalanceHolds
  <1> QED
    BY <1>1, <1>2, <1>3, PTL DEF Spec

=============================================================================
