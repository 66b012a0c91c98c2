------------------------------ MODULE Checkout ------------------------------
(***************************************************************************)
(* modules/checkout with the parts of modules/order and modules/payment it *)
(* calls: a checkout session is started from a cart, and completing it     *)
(* creates an order, closes the session and initiates a payment.  These    *)
(* are three transactions and one call to the payment provider; nothing    *)
(* ties them together, and nothing stops two calls for one session.        *)
(*                                                                         *)
(* What an order contains, and what it costs, is read from the session and *)
(* never changes, so it does not appear here.                              *)
(***************************************************************************)
EXTENDS Naturals, FiniteSets

CONSTANTS Sessions,  \* checkout sessions
          Calls      \* calls of the complete endpoint; a call names the order it creates

VARIABLES
  session,   \* [Sessions -> status of the stored session; "validated": not stored yet]
  asked,     \* [Calls -> the session the call is about]
  stage,     \* [Calls -> how far the call is]
  order,     \* [Calls -> status of the order it created]
  payment,   \* orders with a payment
  intents,   \* orders the payment provider was asked to collect
  announced, \* outbox messages, each written with the change it announces
  cancelling \* orders a cancel call has loaded and not saved yet

vars == <<session, asked, stage, order, payment, intents, announced, cancelling>>

Stages == {"received", "checked", "ordered", "closed", "charged", "ok", "failed"}
Message == [type: {"CheckoutStarted"}, session: Sessions]
             \cup [type: {"CheckoutCompleted"}, session: Sessions, order: Calls]
             \cup [type: {"OrderCreated", "OrderCancelled", "PaymentInitiated"}, order: Calls]

Init ==
  /\ session = [s \in Sessions |-> "none"]
  /\ asked \in [Calls -> Sessions]
  /\ stage = [c \in Calls |-> "received"]
  /\ order = [c \in Calls |-> "none"]
  /\ payment = {}
  /\ intents = {}
  /\ announced = {}
  /\ cancelling = {}

Announce(msgs) == announced' = announced \cup msgs

\* The start handler finds every line of the cart in stock ...
Validate(s) ==
  /\ session[s] = "none"
  /\ session' = [session EXCEPT ![s] = "validated"]
  /\ UNCHANGED <<asked, stage, order, payment, intents, announced, cancelling>>

\* ... and later stores the session.
Start(s) ==
  /\ session[s] = "validated"
  /\ session' = [session EXCEPT ![s] = "started"]
  /\ Announce({[type |-> "CheckoutStarted", session |-> s]})
  /\ UNCHANGED <<asked, stage, order, payment, intents, cancelling>>

Step(c, from, to) == stage[c] = from /\ stage' = [stage EXCEPT ![c] = to]

\* The complete handler loads the session, which must be STARTED.
Check(c) ==
  /\ session[asked[c]] = "started"
  /\ Step(c, "received", "checked")
  /\ UNCHANGED <<session, asked, order, payment, intents, announced, cancelling>>

CreateOrder(c) ==
  /\ Step(c, "checked", "ordered")
  /\ order' = [order EXCEPT ![c] = "pending"]
  /\ Announce({[type |-> "OrderCreated", order |-> c]})
  /\ UNCHANGED <<session, asked, payment, intents, cancelling>>

\* complete() on the session loaded by Check, which is still STARTED in memory,
\* and the save that writes its status whatever the database says by now.
BugCloseSession(c) ==
  /\ Step(c, "checked", "closed")
  /\ session' = [session EXCEPT ![asked[c]] = "completed"]
  /\ Announce({[type |-> "CheckoutCompleted", session |-> asked[c], order |-> c]})
  /\ UNCHANGED <<asked, order, payment, intents, cancelling>>
CloseSession(c) ==
  /\ Step(c, "ordered", "closed")
  /\ session' = [session EXCEPT ![asked[c]] = "completed"]
  /\ Announce({[type |-> "CheckoutCompleted", session |-> asked[c], order |-> c]})
  /\ UNCHANGED <<asked, order, payment, intents, cancelling>>

\* The provider is called before the payment is stored.
BugChargeProvider(c) ==
  /\ Step(c, "ordered", "charged")
  /\ intents' = intents \cup {c}
  /\ UNCHANGED <<session, asked, order, payment, announced, cancelling>>
ChargeProvider(c) ==
  /\ Step(c, "closed", "charged")
  /\ intents' = intents \cup {c}
  /\ UNCHANGED <<session, asked, order, payment, announced, cancelling>>

SavePayment(c) ==
  /\ Step(c, "charged", "ok")
  /\ payment' = payment \cup {c}
  /\ Announce({[type |-> "PaymentInitiated", order |-> c]})
  /\ UNCHANGED <<session, asked, order, intents, cancelling>>

\* The session is not active, a call or a transaction fails, or the process
\* stops; the transactions already committed stay.
GiveUp(c) ==
  /\ stage[c] \notin {"ok", "failed"}
  /\ stage' = [stage EXCEPT ![c] = "failed"]
  /\ UNCHANGED <<session, asked, order, payment, intents, announced, cancelling>>

\* The cancel handler: load, decide on what was loaded, save.
LoadForCancel(c) ==
  /\ order[c] = "pending"
  /\ c \notin cancelling
  /\ cancelling' = cancelling \cup {c}
  /\ UNCHANGED <<session, asked, stage, order, payment, intents, announced>>

Cancel(c) ==
  /\ c \in cancelling
  /\ order' = [order EXCEPT ![c] = "cancelled"]
  /\ Announce({[type |-> "OrderCancelled", order |-> c]})
  /\ cancelling' = cancelling \ {c}
  /\ UNCHANGED <<session, asked, stage, payment, intents>>

CompleteStep(c) == \/ Check(c) \/ CloseSession(c) \/ ChargeProvider(c)
                   \/ SavePayment(c) \/ GiveUp(c)

Next == \/ \E s \in Sessions : Validate(s) \/ Start(s)
        \/ \E c \in Calls : \/ CreateOrder(c) \/ CompleteStep(c)
                            \/ LoadForCancel(c) \/ Cancel(c)

Spec == Init /\ [][Next]_vars

-----------------------------------------------------------------------------
TypeOK ==
  /\ session \in [Sessions -> {"none", "validated", "started", "completed"}]
  /\ asked \in [Calls -> Sessions]
  /\ stage \in [Calls -> Stages]
  /\ order \in [Calls -> {"none", "pending", "cancelled"}]
  /\ payment \subseteq Calls /\ intents \subseteq Calls /\ cancelling \subseteq Calls
  /\ announced \subseteq Message

OrdersOf(s) == {c \in Calls : asked[c] = s /\ order[c] # "none"}

CompletedSessionHasOrder ==
  /\ \A s \in Sessions : session[s] = "completed" => OrdersOf(s) # {}
  /\ \A m \in announced : m.type = "CheckoutCompleted" => order[m.order] # "none"

ChargedOrderIsClosed ==
  \A c \in intents \cup payment :
    order[c] # "none" /\ session[asked[c]] = "completed"

\* A completed session has an order, and the CheckoutCompleted message that closed it
\* names one; and money is asked for, and a payment recorded, only for an order that
\* exists and whose session is closed, so that a later call cannot charge it again.
CheckoutInOrder == CompletedSessionHasOrder /\ ChargedOrderIsClosed

\* One checkout makes one order, however often the customer's client sends the
\* call.  Two calls that both load the session before one of them closes it, or
\* a retry after a call that stopped in between, break it.
OneOrderPerSession == \A s \in Sessions : Cardinality(OrdersOf(s)) <= 1
=============================================================================
