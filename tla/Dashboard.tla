----------------------------- MODULE Dashboard ------------------------------
(***************************************************************************)
(* The Orders page of the dashboard (pages/Orders.tsx, api/hooks.ts): a    *)
(* list of orders polled every three seconds, a form that creates orders   *)
(* and a button that triggers the payment of an order shown as CREATED.    *)
(* The query cache is TanStack Query's: one fetch of a query runs at a     *)
(* time, and invalidating the query abandons the running one.              *)
(*                                                                         *)
(* The servers' side of each request is an action of its own; PayRecon     *)
(* joins it with what the servers do.                                      *)
(***************************************************************************)
EXTENDS Naturals

CONSTANTS
  Orders,
  Limit,      \* useOrders(50): how many orders the list holds
  MaxLosses   \* bound: requests and responses that get lost

VARIABLES
  open,       \* somebody has the page open
  orders,     \* the servers' orders: Orders -> status, or "ABSENT"
  newer,      \* how many orders were created after this one
  shown,      \* the cached list the page renders
  fetches,    \* GET /orders in flight: Asked, or the list on its way back
  create,     \* useCreateOrder: "idle", "sent" or "answered"
  trigger,    \* useTriggerPayment, by order: "idle", "sent" or "answered"
  losses

vars == <<open, orders, newer, shown, fetches, create, trigger, losses>>

Nothing == [o \in Orders |-> "ABSENT"]
Asked   == [o \in Orders |-> "ASKED"]

Init ==
  /\ open \in BOOLEAN
  /\ shown = Nothing
  /\ fetches = {}
  /\ create = "idle"
  /\ trigger = [o \in Orders |-> "idle"]
  /\ losses = 0

\* Mutated: the list is not polled once there is one.
WrongPoll ==
  /\ open
  /\ fetches = {} /\ shown = Nothing
  /\ fetches' = {Asked}
  /\ UNCHANGED <<open, orders, newer, shown, create, trigger, losses>>

\* refetchInterval, mount and focus: nothing while a fetch is running.
Poll ==
  /\ open
  /\ fetches = {}
  /\ fetches' = {Asked}
  /\ UNCHANGED <<open, orders, newer, shown, create, trigger, losses>>

\* The list: the newest Limit orders (createdAt descending, take limit).
Newest == [o \in Orders |-> IF newer[o] < Limit THEN orders[o] ELSE "ABSENT"]

\* GET /orders is answered with the orders of this moment.
List ==
  /\ Asked \in fetches
  /\ fetches' = (fetches \ {Asked}) \cup {Newest}
  /\ UNCHANGED <<open, orders, newer, shown, create, trigger, losses>>

Arrive(list) ==
  /\ list \in fetches \ {Asked}
  /\ shown' = list
  /\ fetches' = fetches \ {list}
  /\ UNCHANGED <<open, orders, newer, create, trigger, losses>>

\* Mutated: what is running is not abandoned.
WrongInvalidate == fetches' = fetches \cup {Asked}

\* invalidateQueries(["orders"]): a new fetch takes the place of a running one,
\* except of the very first, which goes on (an empty list and no list at all
\* look the same here).
Invalidate ==
  \/ fetches' = {Asked}
  \/ shown = Nothing /\ fetches # {} /\ UNCHANGED fetches

\* The form: disabled while a creation is pending.  Bound: there is an order
\* left to create.
Submit ==
  /\ open
  /\ create = "idle"
  /\ "ABSENT" \in {orders[o] : o \in Orders}
  /\ create' = "sent"
  /\ UNCHANGED <<open, orders, newer, shown, fetches, trigger, losses>>

\* POST /orders on the server; the order itself is the server's.
CreateOrder ==
  /\ create = "sent"
  /\ create' = "answered"
  /\ UNCHANGED <<open, shown, fetches, trigger, losses>>

Created ==
  /\ create = "answered"
  /\ create' = "idle"
  /\ Invalidate
  /\ UNCHANGED <<open, orders, newer, shown, trigger, losses>>

\* The button: there while the cached status is CREATED, disabled while any
\* triggered payment is pending.
Press(o) ==
  /\ shown[o] = "CREATED"
  /\ \A p \in Orders : trigger[p] = "idle"
  /\ trigger' = [trigger EXCEPT ![o] = "sent"]
  /\ UNCHANGED <<open, orders, newer, shown, fetches, create, losses>>

\* POST /payments on the gateway, which only schedules the payment.
SimulatePayment(o) ==
  /\ trigger[o] = "sent"
  /\ trigger' = [trigger EXCEPT ![o] = "answered"]
  /\ UNCHANGED <<open, orders, newer, shown, fetches, create, losses>>

Triggered(o) ==
  /\ trigger[o] = "answered"
  /\ trigger' = [trigger EXCEPT ![o] = "idle"]
  /\ Invalidate
  /\ UNCHANGED <<open, orders, newer, shown, create, losses>>

\* A request or a response is lost: the page keeps what it has, the mutation is
\* over and invalidates nothing.
Lose ==
  /\ losses < MaxLosses
  /\ losses' = losses + 1
  /\ \/ /\ fetches # {}
        /\ fetches' = {}
        /\ UNCHANGED <<create, trigger>>
     \/ /\ create # "idle"
        /\ create' = "idle"
        /\ UNCHANGED <<fetches, trigger>>
     \/ \E o \in Orders :
          /\ trigger[o] # "idle"
          /\ trigger' = [trigger EXCEPT ![o] = "idle"]
          /\ UNCHANGED <<fetches, create>>
  /\ UNCHANGED <<open, orders, newer, shown>>
=============================================================================
