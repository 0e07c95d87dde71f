------------------------ MODULE WebhookIntakeProofs ------------------------
(***************************************************************************)
(* Theorems about WebhookIntake for any set of payments and orders, any    *)
(* number of attempts and any bound on what goes wrong.                    *)
(***************************************************************************)
EXTENDS WebhookIntake, FiniteSetTheorems, TLAPS

-----------------------------------------------------------------------------
(***************************************************************************)
(* Type correctness.                                                       *)
(***************************************************************************)
\* Where a send stands bounds its attempt, and the duplicate has not begun
\* before the first send is over.
SendInv ==
  /\ \A s \in Sends :
       /\ send[s].pc \in {"none", "timer"} => send[s].attempt = 0
       /\ send[s].pc = "sleep" => send[s].attempt < MaxAttempts
       /\ send[s].pc \in Running => send[s].attempt # 0
  /\ \A e \in Events :
       send[<<e, "first">>].pc \in {"none", "timer"} \cup Running =>
         send[<<e, "duplicate">>].pc = "none"

GatewayInv == TypeOK /\ SendInv

\* A send in the middle of its first part, by its event and kind.
LEMMA SendParts ==
  ASSUME NEW s \in Sends
  PROVE  /\ s = <<s[1], s[2]>>
         /\ s[1] \in Events
         /\ s[2] \in Kinds
         /\ <<s[1], "first">> \in Sends
         /\ <<s[1], "duplicate">> \in Sends
  BY DEF Sends, Kinds

\* A send that ends, and perhaps starts the timer of its duplicate.
LEMMA ReturnType ==
  ASSUME GatewayInv, NEW s \in Sends, send[s].pc \in Running,
         NEW pc \in {"done", "exhausted"}, Return(s, pc)
  PROVE  send' \in [Sends -> [pc : SendPc, attempt : 0 .. MaxAttempts]] /\ SendInv'
  <1> DEFINE twin == <<s[1], "duplicate">>
  <1>1. /\ send \in [Sends -> [pc : SendPc, attempt : 0 .. MaxAttempts]]
        /\ pc \in SendPc /\ "timer" \in SendPc
        /\ pc \notin {"none", "timer", "sleep"} \cup Running
        /\ "timer" \notin Running
    BY DEF GatewayInv, TypeOK, SendPc, Running
  <1>2. CASE send' = At(s, pc, send[s].attempt)
    <2>1. send' \in [Sends -> [pc : SendPc, attempt : 0 .. MaxAttempts]]
      BY <1>1, <1>2 DEF At
    <2>2. SendInv'
      <3>1. ASSUME NEW t \in Sends
            PROVE  send'[t] = IF t = s THEN [pc |-> pc, attempt |-> send[s].attempt] ELSE send[t]
        BY <1>1, <1>2 DEF At
      <3>2. \A e \in Events : <<e, "first">> \in Sends /\ <<e, "duplicate">> \in Sends
        BY DEF Sends, Kinds
      <3>3. \A e \in Events : s = <<e, "duplicate">> =>
              send[<<e, "first">>].pc \notin {"none", "timer"} \cup Running
        BY DEF GatewayInv, SendInv, Running
      <3> QED
        BY <1>1, <3>1, <3>2, <3>3 DEF GatewayInv, SendInv
    <2> QED
      BY <2>1, <2>2
  <1>3. CASE /\ s[2] = "first"
             /\ send' = [At(s, pc, send[s].attempt) EXCEPT ![twin].pc = "timer"]
    <2>1. s = <<s[1], "first">> /\ s[1] \in Events /\ twin \in Sends /\ twin # s
      BY <1>3, SendParts
    <2>2. send[twin].pc = "none" /\ send[twin].attempt = 0
      BY <2>1 DEF GatewayInv, SendInv
    <2>3. ASSUME NEW t \in Sends
          PROVE  send'[t] = CASE t = s -> [pc |-> pc, attempt |-> send[s].attempt]
                              [] t = twin -> [pc |-> "timer", attempt |-> 0]
                              [] OTHER -> send[t]
      BY <1>1, <1>3, <2>1, <2>2 DEF At
    <2>4. send' \in [Sends -> [pc : SendPc, attempt : 0 .. MaxAttempts]]
      BY <1>1, <1>3, <2>1 DEF At
    <2>5. \A t \in Sends :
            /\ send'[t].pc \in {"none", "timer"} => send'[t].attempt = 0
            /\ send'[t].pc = "sleep" => send'[t].attempt < MaxAttempts
            /\ send'[t].pc \in Running => send'[t].attempt # 0
      BY <1>1, <2>3 DEF GatewayInv, SendInv
    <2>6. ASSUME NEW e \in Events,
                 send'[<<e, "first">>].pc \in {"none", "timer"} \cup Running
          PROVE  send'[<<e, "duplicate">>].pc = "none"
      <3>1. <<e, "first">> \in Sends /\ <<e, "duplicate">> \in Sends
        BY DEF Sends, Kinds
      <3>2. e # s[1]
        BY <1>1, <2>1, <2>3, <2>6, <3>1
      <3>3. <<e, "first">> \notin {s, twin} /\ <<e, "duplicate">> \notin {s, twin}
        BY <2>1, <3>2
      <3> QED
        BY <2>3, <2>6, <3>1, <3>3 DEF GatewayInv, SendInv
    <2> QED
      BY <2>4, <2>5, <2>6 DEF SendInv
  <1> QED
    BY <1>2, <1>3 DEF Return

\* A send told that its attempt failed sleeps within its attempts, or ends.
LEMMA NotDeliveredType ==
  ASSUME GatewayInv, NEW s \in Sends, send[s].pc \in Running, NotDelivered(s)
  PROVE  send' \in [Sends -> [pc : SendPc, attempt : 0 .. MaxAttempts]] /\ SendInv'
  <1>1. CASE send[s].attempt < MaxAttempts
    <2>1. send' = At(s, "sleep", send[s].attempt)
      BY <1>1 DEF NotDelivered
    <2>2. send \in [Sends -> [pc : SendPc, attempt : 0 .. MaxAttempts]] /\ "sleep" \in SendPc
      BY DEF GatewayInv, TypeOK, SendPc
    <2>3. send' \in [Sends -> [pc : SendPc, attempt : 0 .. MaxAttempts]]
      BY <2>1, <2>2 DEF At
    <2>4. ASSUME NEW t \in Sends
          PROVE  /\ t # s => send'[t] = send[t]
                 /\ t = s => send'[t].pc = "sleep" /\ send'[t].attempt = send[s].attempt
      BY <2>1, <2>2 DEF At
    <2>5. \A e \in Events : <<e, "first">> \in Sends /\ <<e, "duplicate">> \in Sends
      BY DEF Sends, Kinds
    <2>6. \A e \in Events : s = <<e, "duplicate">> =>
            send[<<e, "first">>].pc \notin {"none", "timer"} \cup Running
      BY DEF GatewayInv, SendInv, Running
    <2>7. \A e \in Events : s = <<e, "first">> => send[<<e, "duplicate">>].pc = "none"
      BY DEF GatewayInv, SendInv
    <2>8. \A e \in Events : <<e, "first">> # <<e, "duplicate">>
      OBVIOUS
    <2> QED
      BY <1>1, <2>3, <2>4, <2>5, <2>6, <2>7, <2>8 DEF GatewayInv, SendInv
  <1>2. CASE ~(send[s].attempt < MaxAttempts)
    <2>1. Return(s, "exhausted")
      BY <1>2 DEF NotDelivered
    <2> QED
      BY <2>1, ReturnType
  <1> QED
    BY <1>1, <1>2

\* What a handler's call writes has its type.
LEMMA StoredType ==
  ASSUME TypeOK, NEW p \in Posts
  PROVE  /\ EventOf(p) \in Events
         /\ handler[p].found \in BOOLEAN
         /\ Stored(p) \in [Events -> Row \cup {NoRow}]
         /\ [key EXCEPT ![EventOf(p)] = TRUE] \in [Events -> BOOLEAN]
         /\ [published EXCEPT ![EventOf(p)] = @ + 1] \in [Events -> Nat]
  <1>1. EventOf(p) \in Events /\ p[2] \in Kinds
    BY DEF Posts, EventOf
  <1>2. handler[p].found \in BOOLEAN
    BY DEF TypeOK
  <1>3. [from |-> p[2], attached |-> handler[p].found] \in Row
    BY <1>1, <1>2 DEF Row
  <1>4. Stored(p) \in [Events -> Row \cup {NoRow}]
    BY <1>1, <1>3 DEF TypeOK, Stored
  <1> QED
    BY <1>1, <1>2, <1>4 DEF TypeOK

LEMMA GotoType ==
  ASSUME TypeOK, NEW p \in Posts, NEW pc \in HandlerPc, Goto(p, pc)
  PROVE  handler' \in [Posts -> [pc : HandlerPc, found : BOOLEAN]]
  BY DEF TypeOK, Goto

\* The steps of the gateway keep the types and SendInv.
LEMMA GatewayStep ==
  ASSUME IntakeAssumption, GatewayInv,
         \/ \E e \in Events : Simulate(e)
         \/ \E s \in Sends : Deliver(s)
         \/ Shutdown \/ Restart
  PROVE  GatewayInv'
  <1> USE DEF GatewayInv, store, budgets
  <1>0. /\ send \in [Sends -> [pc : SendPc, attempt : 0 .. MaxAttempts]]
        /\ {"none", "timer", "fetch", "sleep", "gone"} \subseteq SendPc
        /\ MaxAttempts \in Nat \ {0}
        /\ faults \in Nat /\ losses \in Nat /\ crashes \in Nat /\ stops \in Nat
    BY IntakeAssumption DEF TypeOK, SendPc
  <1>1. ASSUME NEW e \in Events, Simulate(e)
        PROVE  GatewayInv'
    <2>1. /\ send[<<e, "first">>].pc = "none"
          /\ send' = [send EXCEPT ![<<e, "first">>] = [pc |-> "timer", attempt |-> 0]]
          /\ UNCHANGED <<closing, handler, store, budgets>>
      BY <1>1 DEF Simulate, At
    <2>2. TypeOK'
      <3>1. [pc |-> "timer", attempt |-> 0] \in [pc : SendPc, attempt : 0 .. MaxAttempts]
        BY <1>0
      <3>2. send' \in [Sends -> [pc : SendPc, attempt : 0 .. MaxAttempts]]
        BY <1>0, <2>1, <3>1
      <3> QED
        BY <2>1, <3>2 DEF TypeOK
    <2>3. \A d \in Events : /\ <<d, "first">> \in Sends
                            /\ <<d, "duplicate">> \in Sends
                            /\ <<d, "duplicate">> # <<e, "first">>
      BY DEF Sends, Kinds
    <2>4. SendInv'
      BY <1>0, <2>1, <2>3 DEF SendInv, Running
    <2> QED
      BY <2>2, <2>4
  <1>2. ASSUME NEW s \in Sends, Post(s)
        PROVE  GatewayInv'
    <2> DEFINE n == send[s].attempt + 1
    <2>1. /\ send[s].pc \in {"timer", "sleep"}
          /\ send' = [send EXCEPT ![s] = [pc |-> "fetch", attempt |-> n]]
          /\ UNCHANGED <<closing, store, expired, faults, crashes, stops>>
      BY <1>2 DEF Post, At
    <2>2. send[s].attempt \in Nat /\ n \in 1 .. MaxAttempts
      BY <1>0, <2>1 DEF SendInv
    <2>3. <<s[1], s[2], n>> \in Posts /\ "mark" \in HandlerPc
      BY <2>2, SendParts DEF Posts, HandlerPc, Sites
    <2>4. handler' \in [Posts -> [pc : HandlerPc, found : BOOLEAN]] /\ losses' \in Nat
      <3>1. handler \in [Posts -> [pc : HandlerPc, found : BOOLEAN]]
        BY DEF TypeOK
      <3>2. CASE handler' = [handler EXCEPT ![<<s[1], s[2], n>>].pc = "mark"] /\ UNCHANGED losses
        BY <1>0, <2>3, <3>1, <3>2
      <3>3. CASE losses' = losses + 1 /\ UNCHANGED handler
        BY <1>0, <3>1, <3>3
      <3> QED
        BY <1>2, <3>2, <3>3 DEF Post
    <2>5. TypeOK'
      <3>1. [pc |-> "fetch", attempt |-> n] \in [pc : SendPc, attempt : 0 .. MaxAttempts]
        BY <1>0, <2>2
      <3>2. send' \in [Sends -> [pc : SendPc, attempt : 0 .. MaxAttempts]]
        BY <1>0, <2>1, <3>1
      <3> QED
        BY <2>1, <2>4, <3>2 DEF TypeOK
    <2>6. \A e \in Events : <<e, "first">> \in Sends /\ <<e, "duplicate">> \in Sends
      BY DEF Sends, Kinds
    <2>7. SendInv'
      BY <1>0, <2>1, <2>2, <2>6 DEF SendInv, Running
    <2> QED
      BY <2>5, <2>7
  <1>3. ASSUME NEW s \in Sends, Answered(s) \/ Unanswered(s)
        PROVE  GatewayInv'
    <2>1. send[s].pc \in Running /\ (Return(s, "done") \/ NotDelivered(s))
      BY <1>3 DEF Answered, Unanswered, Running
    <2>2. send' \in [Sends -> [pc : SendPc, attempt : 0 .. MaxAttempts]] /\ SendInv'
      BY <2>1, ReturnType, NotDeliveredType
    <2>3. /\ UNCHANGED <<closing, handler, store, expired, faults, crashes, stops>>
          /\ losses' \in Nat
      BY <1>3 DEF Answered, Unanswered, TypeOK
    <2> QED
      BY <2>2, <2>3 DEF TypeOK
  <1>4. ASSUME Shutdown \/ Restart
        PROVE  GatewayInv'
    <2>1. /\ \A s \in Sends : send'[s] \in {send[s], [send[s] EXCEPT !.pc = "gone"]}
          /\ \A s \in Sends : send[s].pc \notin {"timer"} \cup Running => send'[s] = send[s]
          /\ send' \in [Sends -> [pc : SendPc, attempt : 0 .. MaxAttempts]]
      <3>1. \A s \in Sends : [send[s] EXCEPT !.pc = "gone"]
                               \in [pc : SendPc, attempt : 0 .. MaxAttempts]
        BY <1>0
      <3>2. CASE Shutdown
        BY <1>0, <3>1, <3>2 DEF Shutdown
      <3>3. CASE Restart
        BY <1>0, <3>1, <3>3 DEF Restart
      <3> QED
        BY <1>4, <3>2, <3>3
    <2>2. /\ closing' \in BOOLEAN /\ stops' \in Nat
          /\ UNCHANGED <<handler, store, expired, faults, losses, crashes>>
      <3>1. CASE Shutdown
        BY <1>0, <3>1 DEF Shutdown
      <3>2. CASE Restart
        <4>1. stops' = stops \/ stops' = stops + 1
          BY <3>2, Zenon DEF Restart
        <4>2. /\ closing' \in BOOLEAN
              /\ UNCHANGED <<handler, store, expired, faults, losses, crashes>>
          BY <3>2, Zenon DEF Restart
        <4> QED
          BY <1>0, <4>1, <4>2
      <3> QED
        BY <1>4, <3>1, <3>2
    <2>3. TypeOK'
      BY <2>1, <2>2 DEF TypeOK
    <2>4. \A e \in Events : <<e, "first">> \in Sends /\ <<e, "duplicate">> \in Sends
      BY DEF Sends, Kinds
    <2>5. \A s \in Sends : /\ send'[s].pc \in {send[s].pc, "gone"}
                           /\ send'[s].attempt = send[s].attempt
                           /\ send[s].pc = "none" => send'[s].pc = "none"
      BY <1>0, <2>1 DEF Running
    <2>6. SendInv'
      BY <2>4, <2>5 DEF SendInv, Running
    <2> QED
      BY <2>3, <2>6
  <1> QED
    BY <1>1, <1>2, <1>3, <1>4 DEF Deliver

\* The steps of a handler keep the types; they do not touch the gateway.
LEMMA HandlerStep ==
  ASSUME IntakeAssumption, TypeOK, NEW p \in Posts, Handle(p) \/ Fails(p)
  PROVE  TypeOK' /\ UNCHANGED gateway
  <1> USE DEF gateway, store, budgets
  <1>0. /\ Sites \cup {"accepted", "seen", "error"} \subseteq HandlerPc
        /\ handler \in [Posts -> [pc : HandlerPc, found : BOOLEAN]]
        /\ faults \in Nat
    BY DEF TypeOK, HandlerPc, Outcomes
  <1>1. CASE Mark(p)
    <2>1. handler' \in [Posts -> [pc : HandlerPc, found : BOOLEAN]]
      BY <1>0, <1>1 DEF Mark, Goto, Sites
    <2>2. key' \in [Events -> BOOLEAN] /\ UNCHANGED <<gateway, published, row, orders, budgets>>
      BY <1>1, StoredType DEF Mark
    <2> QED
      BY <2>1, <2>2 DEF TypeOK
  <1>2. CASE Existing(p)
    <2>1. handler' \in [Posts -> [pc : HandlerPc, found : BOOLEAN]]
      BY <1>0, <1>2 DEF Existing, Goto
    <2> QED
      BY <1>2, <2>1 DEF TypeOK, Existing
  <1>3. CASE Lookup(p)
    <2>1. handler' \in [Posts -> [pc : HandlerPc, found : BOOLEAN]]
      BY <1>0, <1>3 DEF Lookup, AfterLookup, Sites
    <2> QED
      BY <1>3, <2>1 DEF TypeOK, Lookup
  <1>4. CASE Upsert(p)
    <2>1. handler' \in [Posts -> [pc : HandlerPc, found : BOOLEAN]]
      BY <1>0, <1>4 DEF Upsert, Goto, Sites
    <2>2. row' \in [Events -> Row \cup {NoRow}]
          /\ UNCHANGED <<gateway, key, published, orders, budgets>>
      BY <1>4, StoredType DEF Upsert
    <2> QED
      BY <2>1, <2>2 DEF TypeOK
  <1>5. CASE Publish(p)
    <2>1. handler' \in [Posts -> [pc : HandlerPc, found : BOOLEAN]]
      BY <1>0, <1>5 DEF Publish, Goto
    <2>2. published' \in [Events -> Nat] /\ UNCHANGED <<gateway, key, row, orders, budgets>>
      BY <1>5, StoredType DEF Publish
    <2> QED
      BY <2>1, <2>2 DEF TypeOK
  <1>6. CASE Fails(p)
    <2>1. handler' \in [Posts -> [pc : HandlerPc, found : BOOLEAN]]
      BY <1>0, <1>6 DEF Fails, Goto
    <2>2. faults' \in Nat /\ UNCHANGED <<gateway, orders, expired, losses, crashes, stops>>
      BY <1>0, <1>6 DEF Fails
    <2>3. /\ key' \in [Events -> BOOLEAN]
          /\ published' \in [Events -> Nat]
          /\ row' \in [Events -> Row \cup {NoRow}]
      <3>1. /\ key' \in {key, [key EXCEPT ![EventOf(p)] = TRUE]}
            /\ published' \in {published, [published EXCEPT ![EventOf(p)] = @ + 1]}
            /\ row' \in {row, Stored(p)}
        <4>1. handler[p].pc \in {"mark", "existing", "lookup", "upsert", "publish"}
          BY <1>6, IntakeAssumption DEF Fails, Sites
        <4>2. CASE Effect(p)
          BY <4>1, <4>2 DEF Effect
        <4>3. CASE UNCHANGED <<key, published, row>>
          BY <4>3
        <4> QED
          BY <1>6, <4>2, <4>3 DEF Fails
      <3>2. key \in [Events -> BOOLEAN] /\ [key EXCEPT ![EventOf(p)] = TRUE] \in [Events -> BOOLEAN]
        BY StoredType DEF TypeOK
      <3>3. /\ published \in [Events -> Nat]
            /\ [published EXCEPT ![EventOf(p)] = @ + 1] \in [Events -> Nat]
        BY StoredType DEF TypeOK
      <3>4. row \in [Events -> Row \cup {NoRow}] /\ Stored(p) \in [Events -> Row \cup {NoRow}]
        BY StoredType DEF TypeOK
      <3>5. key' \in [Events -> BOOLEAN]
        BY <3>1, <3>2, Zenon
      <3>6. published' \in [Events -> Nat] /\ row' \in [Events -> Row \cup {NoRow}]
        BY <3>1, <3>3, <3>4, Zenon
      <3> QED
        BY <3>5, <3>6
    <2> QED
      BY <2>1, <2>2, <2>3 DEF TypeOK
  <1> QED
    BY <1>1, <1>2, <1>3, <1>4, <1>5, <1>6 DEF Handle

\* The steps of the environment keep the types.
LEMMA EnvironmentStep ==
  ASSUME IntakeAssumption, TypeOK,
         Crash \/ (\E e \in Events : Expire(e)) \/ (\E o \in Orders : CreateOrder(o))
  PROVE  TypeOK' /\ UNCHANGED gateway
  <1> USE DEF gateway, store, budgets
  <1>1. CASE Crash
    <2>1. handler \in [Posts -> [pc : HandlerPc, found : BOOLEAN]]
          /\ "dead" \in HandlerPc /\ crashes \in Nat
      BY DEF TypeOK, HandlerPc, Outcomes
    <2>2. handler' \in [Posts -> [pc : HandlerPc, found : BOOLEAN]] /\ crashes' \in Nat
      BY <1>1, <2>1 DEF Crash
    <2> QED
      BY <1>1, <2>2 DEF TypeOK, Crash
  <1>2. ASSUME NEW e \in Events, Expire(e)
        PROVE  TypeOK' /\ UNCHANGED gateway
    BY <1>2 DEF TypeOK, Expire
  <1>3. ASSUME NEW o \in Orders, CreateOrder(o)
        PROVE  TypeOK' /\ UNCHANGED gateway
    BY <1>3 DEF TypeOK, CreateOrder
  <1> QED
    BY <1>1, <1>2, <1>3

LEMMA GatewayInvInit == IntakeAssumption /\ Init => GatewayInv
  <1> SUFFICES ASSUME IntakeAssumption, Init
               PROVE  GatewayInv
    OBVIOUS
  <1>1. TypeOK
    <2>1. /\ "none" \in SendPc /\ "none" \in HandlerPc /\ 0 \in 0 .. MaxAttempts
      BY DEF IntakeAssumption, SendPc, HandlerPc
    <2>2. send \in [Sends -> [pc : SendPc, attempt : 0 .. MaxAttempts]]
      BY <2>1 DEF Init
    <2>3. handler \in [Posts -> [pc : HandlerPc, found : BOOLEAN]]
      BY <2>1 DEF Init
    <2>4. closing \in BOOLEAN /\ key \in [Events -> BOOLEAN]
      BY DEF Init
    <2>5. /\ published \in [Events -> Nat]
          /\ row \in [Events -> Row \cup {NoRow}]
          /\ orders \subseteq Orders
          /\ expired \in [Events -> Nat]
          /\ {faults, losses, crashes, stops} \subseteq Nat
      BY DEF Init
    <2> QED
      BY <2>2, <2>3, <2>4, <2>5, Zenon DEF TypeOK
  <1>2. \A e \in Events : <<e, "first">> \in Sends /\ <<e, "duplicate">> \in Sends
    BY DEF Sends, Kinds
  <1>3. SendInv
    BY <1>2 DEF Init, SendInv, Running
  <1> QED
    BY <1>1, <1>3 DEF GatewayInv

LEMMA GatewayInvNext == IntakeAssumption /\ GatewayInv /\ [Next]_vars => GatewayInv'
  <1> SUFFICES ASSUME IntakeAssumption, GatewayInv, [Next]_vars
               PROVE  GatewayInv'
    OBVIOUS
  <1>1. CASE \/ \E e \in Events : Simulate(e)
             \/ \E s \in Sends : Deliver(s)
             \/ Shutdown \/ Restart
    BY <1>1, GatewayStep
  <1>2. CASE \/ \E p \in Posts : Handle(p) \/ Fails(p)
             \/ Crash \/ (\E e \in Events : Expire(e)) \/ (\E o \in Orders : CreateOrder(o))
    <2>1. TypeOK' /\ UNCHANGED gateway
      BY <1>2, HandlerStep, EnvironmentStep DEF GatewayInv
    <2> QED
      BY <2>1 DEF GatewayInv, SendInv, gateway
  <1>3. CASE UNCHANGED vars
    BY <1>3 DEF GatewayInv, TypeOK, SendInv, vars, gateway, store, budgets
  <1> QED
    BY <1>1, <1>2, <1>3 DEF Next

\* Every variable of gateway, ingestion and stores keeps its type, and a send
\* never posts more often than WEBHOOK_MAX_ATTEMPTS (webhook-sender.service.ts:27).
THEOREM TypeCorrect == Spec => []TypeOK
  <1>1. Init => GatewayInv
    BY GatewayInvInit, IntakeAssumption
  <1>2. GatewayInv /\ [Next]_vars => GatewayInv'
    BY GatewayInvNext, IntakeAssumption
  <1>3. GatewayInv => TypeOK
    BY DEF GatewayInv
  <1> QED
    BY <1>1, <1>2, <1>3, PTL DEF Spec

-----------------------------------------------------------------------------
(***************************************************************************)
(* What the steps do to handlers, keys, rows and stream entries, for the   *)
(* invariants below.                                                       *)
(***************************************************************************)
\* Where a handler is that has won the key and not published yet.
Carries(p) == handler[p].pc \in {"lookup", "upsert", "publish"}

\* A step of p's handler: the row is written at "upsert" only, and "publish" is
\* reached from there; the key is won at "mark", and spent by one publication.
LEMMA HandlerEffect ==
  ASSUME IntakeAssumption, TypeOK, NEW p \in Posts, Handle(p) \/ Fails(p)
  PROVE  /\ \A q \in Posts : q # p => handler'[q] = handler[q]
         /\ handler'[p].found \in {handler[p].found, OrderOf[EventOf(p)] \in orders}
         /\ UNCHANGED <<orders, expired>>
         /\ row' = row \/ (handler[p].pc = "upsert" /\ row' = Stored(p))
         /\ handler'[p].pc = "publish" => handler[p].pc = "upsert" /\ row' = Stored(p)
         /\ \/ key' = key /\ published' = published /\ (Carries(p)' => Carries(p))
            \/ /\ handler[p].pc = "publish" /\ ~Carries(p)'
               /\ key' = key
               /\ published' = [published EXCEPT ![EventOf(p)] = @ + 1]
            \/ /\ handler[p].pc = "mark"
               /\ Carries(p)' => ~key[EventOf(p)]
               /\ key' = [key EXCEPT ![EventOf(p)] = TRUE]
               /\ published' = published
  <1> USE DEF gateway, store, budgets, Carries
  <1>0. handler \in [Posts -> [pc : HandlerPc, found : BOOLEAN]]
    BY DEF TypeOK
  <1>1. CASE Mark(p)
    <2>1. /\ handler[p].pc = "mark"
          /\ handler' = [handler EXCEPT ![p].pc =
                           IF key[EventOf(p)] THEN "existing" ELSE "lookup"]
          /\ key' = [key EXCEPT ![EventOf(p)] = TRUE]
          /\ UNCHANGED <<published, row, orders, expired>>
      BY <1>1 DEF Mark, Goto
    <2>2. /\ \A q \in Posts : q # p => handler'[q] = handler[q]
          /\ handler'[p].found = handler[p].found
          /\ handler'[p].pc = IF key[EventOf(p)] THEN "existing" ELSE "lookup"
      BY <1>0, <2>1
    <2> QED
      BY <2>1, <2>2
  <1>2. CASE Existing(p)
    BY <1>0, <1>2 DEF Existing, Goto
  <1>3. CASE Lookup(p)
    BY <1>0, <1>3 DEF Lookup, AfterLookup
  <1>4. CASE Upsert(p)
    BY <1>0, <1>4 DEF Upsert, Goto
  <1>5. CASE Publish(p)
    BY <1>0, <1>5 DEF Publish, Goto
  <1>6. CASE Fails(p)
    <2>1. /\ handler' = [handler EXCEPT ![p].pc = "error"]
          /\ UNCHANGED <<orders, expired>>
          /\ handler[p].pc \in {"mark", "existing", "lookup", "upsert", "publish"}
          /\ Effect(p) \/ UNCHANGED <<key, published, row>>
      BY <1>6, IntakeAssumption DEF Fails, Goto, Sites
    <2>2. /\ \A q \in Posts : q # p => handler'[q] = handler[q]
          /\ handler'[p].found = handler[p].found
          /\ handler'[p].pc = "error"
      BY <1>0, <2>1
    <2>3. CASE UNCHANGED <<key, published, row>>
      BY <2>1, <2>2, <2>3
    <2>4. CASE Effect(p)
      BY <2>1, <2>2, <2>4 DEF Effect
    <2> QED
      BY <2>1, <2>3, <2>4
  <1> QED
    BY <1>1, <1>2, <1>3, <1>4, <1>5, <1>6 DEF Handle

\* Every other step leaves rows and stream alone, carries nothing further and
\* frees a key only by expiring it.
LEMMA OtherEffect ==
  ASSUME IntakeAssumption, GatewayInv,
         \/ \E e \in Events : Simulate(e) \/ Expire(e)
         \/ \E s \in Sends : Deliver(s)
         \/ \E o \in Orders : CreateOrder(o)
         \/ Shutdown \/ Restart \/ Crash \/ UNCHANGED vars
  PROVE  /\ UNCHANGED <<published, row>>
         /\ orders \subseteq orders'
         /\ \A p \in Posts : /\ handler'[p].found = handler[p].found
                             /\ Carries(p)' => handler'[p] = handler[p]
         /\ \/ UNCHANGED <<key, expired>>
            \/ \E e \in Events : /\ key[e]
                                 /\ key' = [key EXCEPT ![e] = FALSE]
                                 /\ expired' = [expired EXCEPT ![e] = @ + 1]
  <1> USE DEF vars, gateway, store, budgets, Carries
  <1>0. handler \in [Posts -> [pc : HandlerPc, found : BOOLEAN]]
    BY DEF GatewayInv, TypeOK
  <1>1. ASSUME NEW s \in Sends, Post(s)
        PROVE  /\ UNCHANGED store /\ UNCHANGED expired
               /\ \A p \in Posts : /\ handler'[p].found = handler[p].found
                                   /\ Carries(p)' => handler'[p] = handler[p]
    <2>1. PICK q : handler' = [handler EXCEPT ![q].pc = "mark"] \/ handler' = handler
      BY <1>1 DEF Post
    <2>2. \A p \in Posts : /\ handler'[p].found = handler[p].found
                           /\ handler'[p].pc = "mark" \/ handler'[p] = handler[p]
      BY <1>0, <2>1
    <2> QED
      BY <1>1, <2>2 DEF Post
  <1>2. ASSUME Crash
        PROVE  /\ UNCHANGED store /\ UNCHANGED expired
               /\ \A p \in Posts : /\ handler'[p].found = handler[p].found
                                   /\ Carries(p)' => handler'[p] = handler[p]
    BY <1>0, <1>2 DEF Crash
  <1>3. ASSUME NEW e \in Events, Simulate(e)
        PROVE  UNCHANGED <<store, handler, expired>>
    BY <1>3 DEF Simulate
  <1>4. ASSUME NEW s \in Sends, Answered(s) \/ Unanswered(s)
        PROVE  UNCHANGED <<store, handler, expired>>
    BY <1>4 DEF Answered, Unanswered
  <1>5. ASSUME Shutdown \/ Restart
        PROVE  UNCHANGED <<store, handler, expired>>
    BY <1>5 DEF Shutdown, Restart
  <1>6. ASSUME NEW e \in Events, Expire(e)
        PROVE  /\ UNCHANGED <<published, row, orders, handler>>
               /\ key[e]
               /\ key' = [key EXCEPT ![e] = FALSE]
               /\ expired' = [expired EXCEPT ![e] = @ + 1]
    BY <1>6 DEF Expire
  <1>7. ASSUME NEW o \in Orders, CreateOrder(o)
        PROVE  /\ UNCHANGED <<published, row, key, expired, handler>>
               /\ orders \subseteq orders'
    BY <1>7 DEF CreateOrder
  <1> QED
    BY <1>1, <1>2, <1>3, <1>4, <1>5, <1>6, <1>7 DEF Deliver

-----------------------------------------------------------------------------
(***************************************************************************)
(* What is published is stored.                                            *)
(***************************************************************************)
\* A handler about to publish has its row, and what it found existed.
StoredInv ==
  /\ PublishedIsStored
  /\ \A p \in Posts : handler[p].pc = "publish" => row[EventOf(p)] # NoRow
  /\ \A p \in Posts : handler[p].found => OrderOf[EventOf(p)] \in orders

\* upsertPending leaves a row, keeps every row there is, and attaches a new one
\* to an order only if its handler found it.
LEMMA StoredRow ==
  ASSUME IntakeAssumption, TypeOK, NEW p \in Posts
  PROVE  /\ Stored(p)[EventOf(p)] # NoRow
         /\ \A e \in Events : row[e] # NoRow => Stored(p)[e] = row[e]
         /\ \A e \in Events :
              \/ Stored(p)[e] = row[e]
              \/ e = EventOf(p) /\ Stored(p)[e].attached = handler[p].found
  <1>1. EventOf(p) \in Events /\ p[2] \in Kinds
    BY DEF Posts, EventOf
  <1>2. [from |-> p[2], attached |-> handler[p].found] # NoRow
    BY <1>1, IntakeAssumption DEF TypeOK
  <1> QED
    BY <1>1, <1>2 DEF Stored, TypeOK

LEMMA StoredInvNext ==
  IntakeAssumption /\ GatewayInv /\ StoredInv /\ [Next]_vars => StoredInv'
  <1> SUFFICES ASSUME IntakeAssumption, GatewayInv, StoredInv, [Next]_vars
               PROVE  StoredInv'
    OBVIOUS
  <1> USE DEF StoredInv, PublishedIsStored
  <1>1. ASSUME NEW p \in Posts, Handle(p) \/ Fails(p)
        PROVE  StoredInv'
    <2>1. TypeOK /\ EventOf(p) \in Events /\ published \in [Events -> Nat]
      BY DEF GatewayInv, TypeOK, Posts, EventOf
    <2>2. /\ \A q \in Posts : q # p => handler'[q] = handler[q]
          /\ handler'[p].found => OrderOf[EventOf(p)] \in orders
          /\ orders' = orders
          /\ row' = row \/ (handler[p].pc = "upsert" /\ row' = Stored(p))
          /\ handler'[p].pc = "publish" => row' = Stored(p)
      BY <1>1, <2>1, HandlerEffect
    <2>3. \A e \in Events : row[e] # NoRow => row'[e] = row[e]
      BY <2>1, <2>2, StoredRow
    <2>4. ASSUME NEW e \in Events, published'[e] > 0
          PROVE  row'[e] # NoRow
      <3>1. published'[e] = published[e] \/ (e = EventOf(p) /\ handler[p].pc = "publish")
        BY <1>1, <2>1, HandlerEffect
      <3> QED
        BY <2>3, <2>4, <3>1
    <2>5. ASSUME NEW e \in Events, row'[e] # NoRow, row'[e].attached
          PROVE  OrderOf[e] \in orders'
      <3>1. row'[e] = row[e] \/ (e = EventOf(p) /\ row'[e].attached = handler[p].found)
        BY <2>1, <2>2, StoredRow
      <3> QED
        BY <2>2, <2>5, <3>1
    <2>6. ASSUME NEW q \in Posts, handler'[q].pc = "publish"
          PROVE  row'[EventOf(q)] # NoRow
      <3>1. CASE q = p
        BY <2>1, <2>2, <2>6, <3>1, StoredRow
      <3>2. CASE q # p
        BY <2>2, <2>3, <2>6, <3>2 DEF Posts, EventOf
      <3> QED
        BY <3>1, <3>2
    <2>7. \A q \in Posts : handler'[q].found => OrderOf[EventOf(q)] \in orders'
      BY <2>2
    <2> QED
      BY <2>4, <2>5, <2>6, <2>7
  <1>2. ASSUME \/ \E e \in Events : Simulate(e) \/ Expire(e)
               \/ \E s \in Sends : Deliver(s)
               \/ \E o \in Orders : CreateOrder(o)
               \/ Shutdown \/ Restart \/ Crash \/ UNCHANGED vars
        PROVE  StoredInv'
    <2>1. /\ UNCHANGED <<published, row>>
          /\ orders \subseteq orders'
          /\ \A p \in Posts : /\ handler'[p].found = handler[p].found
                              /\ handler'[p].pc = "publish" => handler[p].pc = "publish"
      BY <1>2, OtherEffect DEF Carries
    <2> QED
      BY <2>1
  <1> QED
    BY <1>1, <1>2 DEF Next

LEMMA StoredInvInit == Init => StoredInv
  BY DEF Init, StoredInv, PublishedIsStored, Posts, EventOf

\* What the consumer reads from the stream it finds in Postgres, attached to no
\* order but its own existing one: the worker's "event not found" cannot happen,
\* whatever fails, crashes or is delivered twice (webhook.service.ts:50-53).
THEOREM PublishedStored == Spec => []PublishedIsStored
  <1>1. Init => GatewayInv /\ StoredInv
    BY StoredInvInit, GatewayInvInit, IntakeAssumption
  <1>2. GatewayInv /\ StoredInv /\ [Next]_vars => (GatewayInv /\ StoredInv)'
    BY GatewayInvNext, StoredInvNext, IntakeAssumption
  <1>3. StoredInv => PublishedIsStored
    BY DEF StoredInv
  <1> QED
    BY <1>1, <1>2, <1>3, PTL DEF Spec

-----------------------------------------------------------------------------
(***************************************************************************)
(* One publication per lifetime of the key.                                *)
(***************************************************************************)
\* A key that is free could still be won once.
KeyInv ==
  \A e \in Events :
    published[e] + Cardinality(Carrying(e)) + (IF key[e] THEN 0 ELSE 1) <= 1 + expired[e]

\* The posts of one payment are finitely many, and so are their handlers.
LEMMA CarryingFinite ==
  ASSUME IntakeAssumption, NEW e \in Events
  PROVE  /\ IsFiniteSet(Carrying(e))
         /\ Cardinality(Carrying(e)) \in Nat
  <1> DEFINE Deliveries == Kinds \X (1 .. MaxAttempts)
             PostsOf    == {p \in Posts : EventOf(p) = e}
             post       == [d \in Deliveries |-> <<e, d[1], d[2]>>]
  <1>1. IsFiniteSet(Kinds)
    <2>1. IsFiniteSet({"first"}) /\ Kinds = {"first"} \cup {"duplicate"}
      BY FS_Singleton DEF Kinds
    <2> QED
      BY <2>1, FS_AddElement
  <1>2. IsFiniteSet(1 .. MaxAttempts)
    BY FS_Interval, 1 \in Int, MaxAttempts \in Int DEF IntakeAssumption
  <1>3. IsFiniteSet(Deliveries)
    BY <1>1, <1>2, FS_Product
  <1>4. post \in Surjection(Deliveries, PostsOf)
    <2>1. post \in [Deliveries -> PostsOf]
      BY DEF Posts, EventOf
    <2>2. ASSUME NEW p \in PostsOf
          PROVE  \E d \in Deliveries : post[d] = p
      <3>1. <<p[2], p[3]>> \in Deliveries /\ post[<<p[2], p[3]>>] = p
        BY DEF Posts, EventOf
      <3> QED
        BY <3>1
    <2> QED
      BY <2>1, <2>2 DEF Surjection
  <1>5. IsFiniteSet(PostsOf)
    BY <1>3, <1>4, FS_Surjection
  <1>6. Carrying(e) \in SUBSET PostsOf
    BY DEF Carrying
  <1>7. IsFiniteSet(Carrying(e))
    BY <1>5, <1>6, FS_Subset
  <1> QED
    BY <1>7, FS_CardinalityType

LEMMA KeyInvNext ==
  IntakeAssumption /\ GatewayInv /\ KeyInv /\ [Next]_vars => KeyInv'
  <1> SUFFICES ASSUME IntakeAssumption, GatewayInv, KeyInv, [Next]_vars,
                      NEW e \in Events
               PROVE  published'[e] + Cardinality(Carrying(e)') + (IF key'[e] THEN 0 ELSE 1)
                        <= 1 + expired'[e]
    BY DEF KeyInv
  <1>0. /\ published[e] + Cardinality(Carrying(e)) + (IF key[e] THEN 0 ELSE 1)
             <= 1 + expired[e]
        /\ published \in [Events -> Nat] /\ expired \in [Events -> Nat]
        /\ key \in [Events -> BOOLEAN]
        /\ IsFiniteSet(Carrying(e)) /\ Cardinality(Carrying(e)) \in Nat
        /\ \A p \in Posts : EventOf(p) \in Events
    BY CarryingFinite DEF KeyInv, GatewayInv, TypeOK, Posts, EventOf
  <1>1. ASSUME NEW p \in Posts, Handle(p) \/ Fails(p)
        PROVE  published'[e] + Cardinality(Carrying(e)') + (IF key'[e] THEN 0 ELSE 1)
                 <= 1 + expired'[e]
    <2>1. /\ \A q \in Posts : q # p => handler'[q] = handler[q]
          /\ expired' = expired
      BY <1>1, HandlerEffect DEF GatewayInv
    <2>2. CASE EventOf(p) # e
      <3>1. Carrying(e)' = Carrying(e)
        BY <2>1, <2>2 DEF Carrying, EventOf
      <3>2. published'[e] = published[e] /\ key'[e] = key[e]
        BY <1>0, <1>1, <2>2, HandlerEffect DEF GatewayInv
      <3> QED
        BY <1>0, <2>1, <3>1, <3>2
    <2>3. CASE EventOf(p) = e
      <3>1. CASE key' = key /\ published' = published /\ (Carries(p)' => Carries(p))
        <4>1. Carrying(e)' \in SUBSET Carrying(e)
          BY <2>1, <3>1 DEF Carrying, Carries, EventOf
        <4>2. /\ Cardinality(Carrying(e)') <= Cardinality(Carrying(e))
              /\ Cardinality(Carrying(e)') \in Nat
          BY <1>0, <4>1, FS_Subset, FS_CardinalityType
        <4> QED
          BY <1>0, <2>1, <3>1, <4>2
      <3>2. CASE /\ handler[p].pc = "publish" /\ ~Carries(p)'
                 /\ key' = key
                 /\ published' = [published EXCEPT ![EventOf(p)] = @ + 1]
        <4>1. p \in Carrying(e) /\ Carrying(e)' = Carrying(e) \ {p}
          BY <2>1, <2>3, <3>2 DEF Carrying, Carries, EventOf
        <4>2. Cardinality(Carrying(e)') = Cardinality(Carrying(e)) - 1
          <5>1. IsFiniteSet(Carrying(e)) /\ p \in Carrying(e)
            BY <1>0, <4>1
          <5>2. Cardinality(Carrying(e) \ {p}) = Cardinality(Carrying(e)) - 1
            BY <5>1, FS_RemoveElement
          <5> QED
            BY <4>1, <5>2
        <4>3. published'[e] = published[e] + 1
          BY <1>0, <2>3, <3>2
        <4> QED
          BY <1>0, <2>1, <3>2, <4>2, <4>3
      <3>3. CASE /\ handler[p].pc = "mark"
                 /\ Carries(p)' => ~key[EventOf(p)]
                 /\ key' = [key EXCEPT ![EventOf(p)] = TRUE]
                 /\ published' = published
        <4>1. key'[e] /\ p \notin Carrying(e)
          BY <1>0, <2>3, <3>3 DEF Carrying
        <4>2. CASE Carries(p)'
          <5>1. Carrying(e)' = Carrying(e) \cup {p} /\ ~key[e]
            BY <2>1, <2>3, <3>3, <4>2 DEF Carrying, Carries, EventOf
          <5>2. Cardinality(Carrying(e)') = Cardinality(Carrying(e)) + 1
            BY <1>0, <4>1, <5>1, FS_AddElement
          <5> QED
            BY <1>0, <2>1, <3>3, <4>1, <5>1, <5>2
        <4>3. CASE ~Carries(p)'
          <5>1. Carrying(e)' = Carrying(e)
            BY <2>1, <3>3, <4>3 DEF Carrying, Carries, EventOf
          <5> QED
            BY <1>0, <2>1, <3>3, <4>1, <5>1
        <4> QED
          BY <4>2, <4>3
      <3> QED
        BY <1>1, <3>1, <3>2, <3>3, HandlerEffect DEF GatewayInv
    <2> QED
      BY <2>2, <2>3
  <1>2. ASSUME \/ \E d \in Events : Simulate(d) \/ Expire(d)
               \/ \E s \in Sends : Deliver(s)
               \/ \E o \in Orders : CreateOrder(o)
               \/ Shutdown \/ Restart \/ Crash \/ UNCHANGED vars
        PROVE  published'[e] + Cardinality(Carrying(e)') + (IF key'[e] THEN 0 ELSE 1)
                 <= 1 + expired'[e]
    <2>1. /\ published' = published
          /\ \A p \in Posts : Carries(p)' => Carries(p)
          /\ \/ UNCHANGED <<key, expired>>
             \/ \E d \in Events : /\ key[d]
                                  /\ key' = [key EXCEPT ![d] = FALSE]
                                  /\ expired' = [expired EXCEPT ![d] = @ + 1]
      BY <1>2, OtherEffect DEF Carries
    <2>2. Carrying(e)' \in SUBSET Carrying(e)
      BY <2>1 DEF Carrying, Carries, EventOf
    <2>3. /\ Cardinality(Carrying(e)') <= Cardinality(Carrying(e))
          /\ Cardinality(Carrying(e)') \in Nat
      BY <1>0, <2>2, FS_Subset, FS_CardinalityType
    <2>4. \/ key'[e] = key[e] /\ expired'[e] = expired[e]
          \/ key[e] /\ ~key'[e] /\ expired'[e] = expired[e] + 1
      BY <1>0, <2>1
    <2> QED
      BY <1>0, <2>1, <2>3, <2>4
  <1> QED
    BY <1>1, <1>2 DEF Next

LEMMA KeyInvInit == Init => KeyInv
  <1> SUFFICES ASSUME Init, NEW e \in Events
               PROVE  published[e] + Cardinality(Carrying(e)) + (IF key[e] THEN 0 ELSE 1)
                        <= 1 + expired[e]
    BY DEF KeyInv
  <1>1. Carrying(e) = {}
    BY DEF Init, Carrying
  <1> QED
    BY <1>1, FS_EmptySet DEF Init

\* A payment is published at most once per lifetime of its idempotency key,
\* however often the gateway posts it and wherever a handler fails or dies
\* (idempotency.service.ts:19-23).
THEOREM OncePerKey == Spec => []PublishedOncePerKey
  <1>1. Init => GatewayInv /\ KeyInv
    BY KeyInvInit, GatewayInvInit, IntakeAssumption
  <1>2. GatewayInv /\ KeyInv /\ [Next]_vars => (GatewayInv /\ KeyInv)'
    BY GatewayInvNext, KeyInvNext, IntakeAssumption
  <1>3. GatewayInv /\ KeyInv => PublishedOncePerKey
    <2> SUFFICES ASSUME GatewayInv, KeyInv, NEW e \in Events
                 PROVE  published[e] + Cardinality(Carrying(e)) <= 1 + expired[e]
      BY DEF PublishedOncePerKey
    <2>1. /\ published[e] \in Nat /\ expired[e] \in Nat
          /\ Cardinality(Carrying(e)) \in Nat
      BY CarryingFinite, IntakeAssumption DEF GatewayInv, TypeOK
    <2> QED
      BY <2>1 DEF KeyInv
  <1> QED
    BY <1>1, <1>2, <1>3, PTL DEF Spec

-----------------------------------------------------------------------------
(***************************************************************************)
(* The webhook path implements PaymentDelivery.                            *)
(***************************************************************************)
\* A handler's step stores, publishes, or is not seen.
LEMMA HandlerDelivers ==
  ASSUME IntakeAssumption, GatewayInv, StoredInv, KeyInv,
         NEW p \in Posts, Handle(p) \/ Fails(p)
  PROVE  [Delivery!Next]_Delivery!vars
  <1> DEFINE e == EventOf(p)
  <1>0. /\ TypeOK /\ e \in Events /\ p[2] \in Kinds
        /\ published \in [Events -> Nat] /\ expired \in [Events -> Nat]
        /\ handler[p].found \in BOOLEAN
    BY DEF GatewayInv, TypeOK, Posts, EventOf
  <1>1. UNCHANGED <<orders, expired>>
    BY <1>0, HandlerEffect
  <1>2. row' = row \/ (handler[p].pc = "upsert" /\ row' = Stored(p))
    BY <1>0, HandlerEffect
  <1>3. \/ published' = published
        \/ /\ handler[p].pc = "publish"
           /\ published' = [published EXCEPT ![e] = @ + 1]
    BY <1>0, HandlerEffect
  <1>4. CASE row' = row /\ published' = published
    BY <1>1, <1>4 DEF Delivery!vars
  <1>5. CASE row' # row
    <2>1. /\ row[e] = NoRow
          /\ row' = [row EXCEPT ![e] = [from |-> p[2], attached |-> handler[p].found]]
      BY <1>2, <1>5 DEF Stored
    <2>2. handler[p].found => OrderOf[e] \in orders
      BY DEF StoredInv
    <2>3. published' = published
      BY <1>2, <1>3, <1>5
    <2>4. Delivery!Store(e)
      BY <1>0, <1>1, <2>1, <2>2, <2>3 DEF Delivery!Store
    <2> QED
      BY <1>0, <2>4 DEF Delivery!Next
  <1>6. CASE row' = row /\ published' # published
    <2>1. handler[p].pc = "publish" /\ published' = [published EXCEPT ![e] = @ + 1]
      BY <1>3, <1>6
    <2>2. row[e] # NoRow
      BY <2>1 DEF StoredInv
    <2>3. published[e] <= expired[e]
      <3>1. p \in Carrying(e)
        BY <2>1 DEF Carrying
      <3>2. IsFiniteSet(Carrying(e)) /\ Cardinality(Carrying(e)) \in Nat
        BY <1>0, CarryingFinite
      <3>3. Cardinality(Carrying(e)) # 0
        BY <3>1, <3>2, FS_EmptySet
      <3>4. published[e] \in Nat /\ expired[e] \in Nat
        BY <1>0
      <3>5. published[e] + Cardinality(Carrying(e)) + (IF key[e] THEN 0 ELSE 1)
              <= 1 + expired[e]
        BY <1>0 DEF KeyInv
      <3> QED
        BY <3>2, <3>3, <3>4, <3>5
    <2>4. Delivery!Publish(e)
      BY <1>1, <1>6, <2>1, <2>2, <2>3 DEF Delivery!Publish
    <2> QED
      BY <1>0, <2>4 DEF Delivery!Next
  <1> QED
    BY <1>4, <1>5, <1>6

\* Every other step creates an order, expires a key, or is not seen.
LEMMA RestDelivers ==
  ASSUME IntakeAssumption, GatewayInv,
         \/ \E e \in Events : Simulate(e) \/ Expire(e)
         \/ \E s \in Sends : Deliver(s)
         \/ \E o \in Orders : CreateOrder(o)
         \/ Shutdown \/ Restart \/ Crash \/ UNCHANGED vars
  PROVE  [Delivery!Next]_Delivery!vars
  <1> USE DEF vars, gateway, store, budgets, Delivery!vars
  <1>1. ASSUME NEW e \in Events, Expire(e)
        PROVE  Delivery!Next
    BY <1>1 DEF Expire, Delivery!Next, Delivery!Expire
  <1>2. ASSUME NEW o \in Orders, CreateOrder(o)
        PROVE  Delivery!Next
    BY <1>2 DEF CreateOrder, Delivery!Next, Delivery!CreateOrder
  <1>3. ASSUME NEW e \in Events, Simulate(e)
        PROVE  UNCHANGED Delivery!vars
    BY <1>3 DEF Simulate
  <1>4. ASSUME NEW s \in Sends, Deliver(s)
        PROVE  UNCHANGED Delivery!vars
    BY <1>4 DEF Deliver, Post, Answered, Unanswered
  <1>5. ASSUME Shutdown \/ Restart \/ Crash \/ UNCHANGED vars
        PROVE  UNCHANGED Delivery!vars
    BY <1>5 DEF Shutdown, Restart, Crash
  <1> QED
    BY <1>1, <1>2, <1>3, <1>4, <1>5

\* Whatever is posted twice, retried, lost, rejected or cut off by a crash, what
\* the worker and the settlement see of the webhook path is PaymentDelivery: one
\* row per payment, for good, and one publication per lifetime of its key.
THEOREM IntakeDelivers == Spec => ImplementsDelivery
  <1>1. Init => GatewayInv /\ StoredInv /\ KeyInv
    BY GatewayInvInit, StoredInvInit, KeyInvInit, IntakeAssumption
  <1>2. GatewayInv /\ StoredInv /\ KeyInv /\ [Next]_vars
          => (GatewayInv /\ StoredInv /\ KeyInv)'
    BY GatewayInvNext, StoredInvNext, KeyInvNext, IntakeAssumption
  <1>3. Init => Delivery!Init
    BY DEF Init, Delivery!Init
  <1>4. GatewayInv /\ StoredInv /\ KeyInv /\ [Next]_vars => [Delivery!Next]_Delivery!vars
    BY HandlerDelivers, RestDelivers, IntakeAssumption DEF Next
  <1> QED
    BY <1>1, <1>2, <1>3, <1>4, PTL DEF Spec, ImplementsDelivery, Delivery!Spec

-----------------------------------------------------------------------------
(***************************************************************************)
(* A 200 is a promise.                                                     *)
(***************************************************************************)
Carried(e) == published[e] > 0 \/ Carrying(e) # {}

\* Somebody has seen, or could see, that e has been received.
Told(e) ==
  \/ key[e]
  \/ \E p \in Posts : EventOf(p) = e /\ handler[p].pc \in {"existing", "seen", "accepted"}
  \/ \E s \in Sends : s[1] = e /\ send[s].pc = "done"

\* A post that has not been made has no handler; what is told is carried.
PromiseInv ==
  /\ \A s \in Sends, n \in 1 .. MaxAttempts :
       n > send[s].attempt => handler[<<s[1], s[2], n>>].pc = "none"
  /\ faults + crashes = 0 => \A e \in Events : Told(e) => Carried(e)

\* A send never goes back an attempt, and is done only when the handler of its
\* current post said so.
LEMMA SendEffect ==
  ASSUME IntakeAssumption, GatewayInv,
         \/ \E e \in Events : Simulate(e)
         \/ \E s \in Sends : Deliver(s)
         \/ Shutdown \/ Restart,
         NEW t \in Sends
  PROVE  /\ send'[t].attempt >= send[t].attempt
         /\ send'[t].pc = "done" =>
              \/ send[t].pc = "done"
              \/ send[t].pc = "fetch" /\ handler[PostOf(t)].pc \in {"accepted", "seen"}
  <1>0. /\ send \in [Sends -> [pc : SendPc, attempt : 0 .. MaxAttempts]]
        /\ send[t].attempt \in Nat
        /\ \A e \in Events : <<e, "first">> \in Sends
    BY IntakeAssumption DEF GatewayInv, TypeOK, IntakeAssumption, Sends, Kinds
  <1>1. ASSUME NEW e \in Events, Simulate(e)
        PROVE  send'[t].attempt >= send[t].attempt /\ (send'[t].pc = "done" => send[t].pc = "done")
    <2>1. send[<<e, "first">>].attempt = 0
      BY <1>0, <1>1 DEF Simulate, GatewayInv, SendInv
    <2> QED
      BY <1>0, <1>1, <2>1 DEF Simulate, At
  <1>2. ASSUME NEW s \in Sends, Post(s)
        PROVE  send'[t].attempt >= send[t].attempt /\ (send'[t].pc = "done" => send[t].pc = "done")
    BY <1>0, <1>2 DEF Post, At
  <1>3. ASSUME NEW s \in Sends, NEW pc \in {"done", "exhausted"}, Return(s, pc)
        PROVE  /\ send'[t].attempt = send[t].attempt
               /\ send'[t].pc = "done" => send[t].pc = "done" \/ (t = s /\ pc = "done")
    <2>1. <<s[1], "duplicate">> \in Sends
      BY SendParts
    <2>2. CASE send' = At(s, pc, send[s].attempt)
      BY <1>0, <2>2 DEF At
    <2>3. CASE send' = [At(s, pc, send[s].attempt) EXCEPT ![<<s[1], "duplicate">>].pc = "timer"]
      BY <1>0, <2>1, <2>3 DEF At
    <2> QED
      BY <1>3, <2>2, <2>3 DEF Return
  <1>4. ASSUME NEW s \in Sends, NotDelivered(s)
        PROVE  send'[t].attempt = send[t].attempt /\ (send'[t].pc = "done" => send[t].pc = "done")
    <2>1. CASE send' = At(s, "sleep", send[s].attempt)
      BY <1>0, <2>1 DEF At
    <2>2. CASE Return(s, "exhausted")
      BY <1>3, <2>2
    <2> QED
      BY <1>4, <2>1, <2>2 DEF NotDelivered
  <1>5. ASSUME NEW s \in Sends, Answered(s) \/ Unanswered(s)
        PROVE  /\ send'[t].attempt = send[t].attempt
               /\ send'[t].pc = "done" =>
                    \/ send[t].pc = "done"
                    \/ send[t].pc = "fetch" /\ handler[PostOf(t)].pc \in {"accepted", "seen"}
    <2>1. \/ NotDelivered(s)
          \/ /\ Return(s, "done")
             /\ send[s].pc = "fetch"
             /\ handler[PostOf(s)].pc \in {"accepted", "seen"}
      BY <1>5 DEF Answered, Unanswered
    <2> QED
      BY <1>3, <1>4, <2>1
  <1>6. ASSUME Shutdown \/ Restart
        PROVE  send'[t].attempt = send[t].attempt /\ (send'[t].pc = "done" => send[t].pc = "done")
    <2>1. CASE Shutdown
      BY <1>0, <2>1 DEF Shutdown
    <2>2. CASE Restart
      BY <1>0, <2>2 DEF Restart
    <2> QED
      BY <1>6, <2>1, <2>2
  <1> QED
    BY <1>0, <1>1, <1>2, <1>5, <1>6 DEF Deliver

\* Of the gateway's steps only a post touches a handler: that of an attempt not
\* made before.
LEMMA PostEffect ==
  ASSUME GatewayInv, NEW s \in Sends, Deliver(s)
  PROVE  \/ handler' = handler
         \/ LET n == send[s].attempt + 1
            IN  /\ n \in 1 .. MaxAttempts
                /\ send'[s].attempt = n
                /\ handler' = [handler EXCEPT ![<<s[1], s[2], n>>].pc = "mark"]
  <1>1. CASE Post(s)
    <2>1. /\ send \in [Sends -> [pc : SendPc, attempt : 0 .. MaxAttempts]]
          /\ send[s].attempt \in 0 .. MaxAttempts
      BY DEF GatewayInv, TypeOK
    <2>2. send[s].attempt < MaxAttempts
      BY <1>1, IntakeAssumption DEF Post, GatewayInv, SendInv, IntakeAssumption
    <2> QED
      BY <1>1, <2>1, <2>2, IntakeAssumption DEF Post, At, IntakeAssumption
  <1>2. CASE Answered(s) \/ Unanswered(s)
    BY <1>2 DEF Answered, Unanswered
  <1> QED
    BY <1>1, <1>2 DEF Deliver

\* Without failing calls and crashes a handler's step keeps what is carried, and
\* tells only of what is carried then.
LEMMA CarriedByHandler ==
  ASSUME IntakeAssumption, GatewayInv, NEW p \in Posts, Handle(p), NEW e \in Events
  PROVE  /\ Carried(e) => Carried(e)'
         /\ Told(e)' => Told(e) \/ Carried(e)'
  <1> USE DEF gateway, store, budgets
  <1>0. /\ handler \in [Posts -> [pc : HandlerPc, found : BOOLEAN]]
        /\ published \in [Events -> Nat]
        /\ key \in [Events -> BOOLEAN]
        /\ EventOf(p) \in Events
    BY DEF GatewayInv, TypeOK, Posts, EventOf
  <1>1. /\ \A q \in Posts : q # p => handler'[q] = handler[q]
        /\ UNCHANGED send
    BY <1>0 DEF Handle, Mark, Existing, Lookup, Upsert, Publish, Goto
  <1>2. CASE EventOf(p) # e
    <2>1. published'[e] = published[e] /\ key'[e] = key[e]
      BY <1>0, <1>2 DEF Handle, Mark, Existing, Lookup, Upsert, Publish
    <2>2. Carrying(e)' = Carrying(e)
      BY <1>1, <1>2 DEF Carrying, EventOf
    <2>3. Told(e)' => Told(e)
      BY <1>1, <1>2, <2>1 DEF Told, EventOf
    <2> QED
      BY <2>1, <2>2, <2>3 DEF Carried
  <1>3. CASE EventOf(p) = e
    <2>1. CASE Mark(p) /\ key[e]
      <3>1. /\ published' = published /\ Carrying(e)' = Carrying(e)
        BY <1>0, <1>1, <1>3, <2>1 DEF Mark, Goto, Carrying, EventOf
      <3> QED
        BY <2>1, <3>1 DEF Carried, Told
    <2>2. CASE \/ Mark(p) /\ ~key[e]
               \/ Lookup(p) \/ Upsert(p)
      <3>1. handler'[p].pc \in {"lookup", "upsert", "publish"}
        BY <1>0, <1>3, <2>2 DEF Mark, Lookup, AfterLookup, Upsert, Goto
      <3>2. p \in Carrying(e)'
        BY <1>3, <3>1 DEF Carrying, EventOf
      <3> QED
        BY <3>2 DEF Carried
    <2>3. CASE Existing(p)
      <3>1. published' = published /\ Carrying(e)' = Carrying(e) /\ Told(e)
        BY <1>0, <1>1, <1>3, <2>3 DEF Existing, Goto, Carrying, EventOf, Told
      <3> QED
        BY <3>1 DEF Carried
    <2>4. CASE Publish(p)
      <3>1. published'[e] > 0
        BY <1>0, <1>3, <2>4 DEF Publish
      <3> QED
        BY <3>1 DEF Carried
    <2> QED
      BY <2>1, <2>2, <2>3, <2>4 DEF Handle
  <1> QED
    BY <1>2, <1>3

LEMMA PromiseInvNext ==
  IntakeAssumption /\ GatewayInv /\ PromiseInv /\ [Next]_vars => PromiseInv'
  <1> SUFFICES ASSUME IntakeAssumption, GatewayInv, PromiseInv, [Next]_vars
               PROVE  PromiseInv'
    OBVIOUS
  <1> DEFINE Fresh == \A s \in Sends, n \in 1 .. MaxAttempts :
                        n > send[s].attempt => handler[<<s[1], s[2], n>>].pc = "none"
             Kept  == \A e \in Events : Told(e) => Carried(e)
  <1>0. /\ send \in [Sends -> [pc : SendPc, attempt : 0 .. MaxAttempts]]
        /\ handler \in [Posts -> [pc : HandlerPc, found : BOOLEAN]]
        /\ faults \in Nat /\ crashes \in Nat /\ MaxAttempts \in Nat
        /\ \A s \in Sends, n \in 1 .. MaxAttempts : <<s[1], s[2], n>> \in Posts
        /\ \A p \in Posts : EventOf(p) \in Events
    BY DEF GatewayInv, TypeOK, IntakeAssumption, Sends, Posts, EventOf
  <1>1. ASSUME NEW p \in Posts, Handle(p) \/ Fails(p)
        PROVE  PromiseInv'
    <2>1. handler[p].pc # "none" /\ UNCHANGED send
      BY <1>1, IntakeAssumption
         DEF Handle, Mark, Existing, Lookup, Upsert, Publish, Fails, Sites, gateway
    <2>2. \A q \in Posts : q # p => handler'[q] = handler[q]
      BY <1>1, HandlerEffect DEF GatewayInv
    <2>3. Fresh'
      BY <1>0, <2>1, <2>2 DEF PromiseInv
    <2>4. CASE Handle(p)
      <3>1. UNCHANGED <<faults, crashes>>
        BY <2>4 DEF Handle, Mark, Existing, Lookup, Upsert, Publish, budgets
      <3>2. Kept => Kept'
        BY <2>4, CarriedByHandler
      <3> QED
        BY <2>3, <3>1, <3>2 DEF PromiseInv
    <2>5. CASE Fails(p)
      <3>1. faults' + crashes' # 0
        BY <1>0, <2>5 DEF Fails
      <3> QED
        BY <2>3, <3>1 DEF PromiseInv
    <2> QED
      BY <1>1, <2>4, <2>5
  <1>2. ASSUME Crash
        PROVE  PromiseInv'
    <2>1. UNCHANGED send /\ \A p \in Posts : handler[p].pc = "none" => handler'[p].pc = "none"
      BY <1>0, <1>2 DEF Crash, Sites, gateway
    <2>2. faults' + crashes' # 0
      BY <1>0, <1>2 DEF Crash
    <2>3. Fresh'
      BY <1>0, <2>1 DEF PromiseInv
    <2> QED
      BY <2>2, <2>3 DEF PromiseInv
  <1>3. ASSUME \/ \E e \in Events : Simulate(e)
               \/ \E s \in Sends : Deliver(s)
               \/ Shutdown \/ Restart
        PROVE  PromiseInv'
    <2>1. UNCHANGED <<key, published, faults, crashes>>
      BY <1>3 DEF Simulate, Deliver, Post, Answered, Unanswered, Shutdown, Restart,
                  store, budgets
    <2>2. \/ handler' = handler
          \/ \E s \in Sends :
               LET n == send[s].attempt + 1
               IN  /\ n \in 1 .. MaxAttempts
                   /\ send'[s].attempt = n
                   /\ handler' = [handler EXCEPT ![<<s[1], s[2], n>>].pc = "mark"]
      <3>1. CASE \E s \in Sends : Deliver(s)
        BY <3>1, PostEffect
      <3>2. CASE (\E e \in Events : Simulate(e)) \/ Shutdown \/ Restart
        BY <3>2 DEF Simulate, Shutdown, Restart
      <3> QED
        BY <1>3, <3>1, <3>2
    <2>3. \A s \in Sends : send'[s].attempt >= send[s].attempt /\ send'[s].attempt \in Nat
      BY <1>0, <1>3, SendEffect, GatewayStep DEF GatewayInv, TypeOK
    <2>4. \A p \in Posts :
            \/ handler'[p] = handler[p]
            \/ /\ handler[p].pc = "none" /\ handler'[p].pc = "mark"
               /\ p[3] <= send'[<<p[1], p[2]>>].attempt
      <3>1. CASE handler' = handler
        BY <3>1
      <3>2. ASSUME NEW s \in Sends, NEW n \in 1 .. MaxAttempts,
                   n = send[s].attempt + 1, send'[s].attempt = n,
                   handler' = [handler EXCEPT ![<<s[1], s[2], n>>].pc = "mark"]
            PROVE  \A p \in Posts :
                     \/ handler'[p] = handler[p]
                     \/ /\ handler[p].pc = "none" /\ handler'[p].pc = "mark"
                        /\ p[3] <= send'[<<p[1], p[2]>>].attempt
        <4> DEFINE q == <<s[1], s[2], n>>
        <4>1. q \in Posts /\ <<q[1], q[2]>> = s /\ q[3] = n
          BY <1>0, SendParts
        <4>2. handler[q].pc = "none"
          BY <1>0, <3>2 DEF PromiseInv
        <4>3. \A p \in Posts : p # q => handler'[p] = handler[p]
          BY <1>0, <3>2
        <4>4. handler'[q].pc = "mark"
          BY <1>0, <3>2, <4>1
        <4>5. q[3] <= send'[<<q[1], q[2]>>].attempt
          BY <3>2, <4>1
        <4> QED
          BY <4>2, <4>3, <4>4, <4>5
      <3> QED
        BY <2>2, <3>1, <3>2
    <2>5. Fresh'
      <3> SUFFICES ASSUME NEW s \in Sends, NEW n \in 1 .. MaxAttempts, n > send'[s].attempt
                   PROVE  handler'[<<s[1], s[2], n>>].pc = "none"
        OBVIOUS
      <3>1. n > send[s].attempt
        BY <1>0, <2>3
      <3>2. handler[<<s[1], s[2], n>>].pc = "none"
        BY <3>1 DEF PromiseInv
      <3> DEFINE q == <<s[1], s[2], n>>
      <3>3. q \in Posts /\ <<q[1], q[2]>> = s /\ q[3] = n
        BY <1>0, SendParts
      <3>4. ~(q[3] <= send'[<<q[1], q[2]>>].attempt)
        BY <2>3, <3>3
      <3>5. handler'[q] = handler[q]
        BY <2>4, <3>3, <3>4
      <3> QED
        BY <3>2, <3>5
    <2>6. ASSUME Kept
          PROVE  Kept'
      <3> SUFFICES ASSUME NEW e \in Events, Told(e)'
                   PROVE  Carried(e)'
        OBVIOUS
      <3>1. Carrying(e)' = Carrying(e)
        BY <2>4 DEF Carrying, EventOf
      <3>2. CASE key'[e]
        BY <2>1, <2>6, <3>1, <3>2 DEF Told, Carried
      <3>3. ASSUME NEW p \in Posts, EventOf(p) = e,
                   handler'[p].pc \in {"existing", "seen", "accepted"}
            PROVE  Told(e)
        BY <2>4, <3>3 DEF Told
      <3>4. ASSUME NEW s \in Sends, s[1] = e, send'[s].pc = "done"
            PROVE  Told(e)
        <4>1. CASE send[s].pc = "done"
          BY <3>4, <4>1 DEF Told
        <4>2. CASE send[s].pc = "fetch" /\ handler[PostOf(s)].pc \in {"accepted", "seen"}
          <5>1. send[s].attempt \in 1 .. MaxAttempts
            BY <1>0, <4>2 DEF GatewayInv, SendInv, Running
          <5>2. PostOf(s) \in Posts /\ EventOf(PostOf(s)) = e
            BY <3>4, <5>1 DEF PostOf, EventOf, Sends, Posts
          <5> QED
            BY <4>2, <5>2 DEF Told
        <4> QED
          BY <1>3, <3>4, <4>1, <4>2, SendEffect
      <3> QED
        BY <2>1, <2>6, <3>1, <3>2, <3>3, <3>4 DEF Told, Carried, EventOf
    <2> QED
      BY <2>1, <2>5, <2>6 DEF PromiseInv
  <1>4. ASSUME \/ \E e \in Events : Expire(e)
               \/ \E o \in Orders : CreateOrder(o)
               \/ UNCHANGED vars
        PROVE  PromiseInv'
    <2>1. UNCHANGED <<send, handler, published, faults, crashes>>
      BY <1>4 DEF Expire, CreateOrder, vars, gateway, store, budgets
    <2>2. \A e \in Events : key'[e] => key[e]
      BY <1>4 DEF Expire, CreateOrder, vars, store, GatewayInv, TypeOK
    <2>3. Kept => Kept'
      BY <2>1, <2>2 DEF Told, Carried, Carrying, EventOf
    <2> QED
      BY <2>1, <2>3 DEF PromiseInv
  <1> QED
    BY <1>1, <1>2, <1>3, <1>4 DEF Next

\* As long as the network is all that fails, a payment any delivery of which was
\* answered with a 200 is in the stream or on its way there
\* (webhook.service.ts:36-56).
THEOREM PromiseKept == Spec => []DeliveredIsCarried
  <1>1. Init => GatewayInv /\ PromiseInv
    <2>1. ASSUME Init
          PROVE  PromiseInv
      <3>1. \A s \in Sends, n \in 1 .. MaxAttempts : handler[<<s[1], s[2], n>>].pc = "none"
        BY <2>1 DEF Init, Sends, Posts
      <3>2. \A e \in Events : ~Told(e)
        BY <2>1 DEF Init, Told
      <3> QED
        BY <3>1, <3>2 DEF PromiseInv
    <2> QED
      BY <2>1, GatewayInvInit, IntakeAssumption
  <1>2. GatewayInv /\ PromiseInv /\ [Next]_vars => (GatewayInv /\ PromiseInv)'
    BY GatewayInvNext, PromiseInvNext, IntakeAssumption
  <1>3. PromiseInv => DeliveredIsCarried
    BY DEF PromiseInv, Told, Carried, DeliveredIsCarried, Sends
  <1> QED
    BY <1>1, <1>2, <1>3, PTL DEF Spec

\* While no handler's call fails and ingestion does not crash, whatever was
\* answered with a 200 is in the stream once every request has ended
\* (stream-producer.ts:8-11): lost connections, retries, duplicates, expiring keys
\* and the end of the gateway never leave such a payment unpublished.
THEOREM RedeliveredUnlessFailing ==
  Spec => [](faults + crashes = 0 => FailedPublishIsRedelivered)
  <1>1. DeliveredIsCarried => (faults + crashes = 0 => FailedPublishIsRedelivered)
    BY DEF DeliveredIsCarried, FailedPublishIsRedelivered, Carrying, Sites
  <1> QED
    BY <1>1, PromiseKept, PTL
=============================================================================
