------------------------------- MODULE Returns -------------------------------
(***************************************************************************)
(* modules/return-refund with the payments it refunds: a customer asks for *)
(* the return of a completed order, staff approve or reject it, and staff  *)
(* process the refund.  Processing first runs the refund handler of        *)
(* Payment, a transaction of its own, and then marks the return request.   *)
(*                                                                         *)
(* The payments of an order may also be confirmed, failed and refunded     *)
(* directly.  Nothing in src/ completes an order, so which orders are      *)
(* completed is given.                                                     *)
(*                                                                         *)
(* Operators whose name starts with Bug are mistakes the code does not     *)
(* make, put in place of the operator that follows them to see that a      *)
(* property notices.                                                       *)
(***************************************************************************)
EXTENDS Naturals, FiniteSets

CONSTANTS Orders,    \* completed orders
          Payments,  \* payments, numbered by created_at
          PaidFor,   \* [Payments -> the order it is for]
          Direct,    \* calls of the payment endpoints
          Calls      \* calls of the return endpoints; a create call names its request

ASSUME PaymentsAssumption == Payments \subseteq Nat
ASSUME PaidForAssumption == PaidFor \in [Payments -> Orders]

VARIABLES
  payments, outbox, phase, job, memory, overwrote,  \* of Payment
  returns,   \* [Calls -> the stored return request]
  announced, \* outbox messages of the return requests
  stage,     \* [Calls -> how far the call is]
  task,      \* [Calls -> what the call does]
  seen,      \* [Calls -> the status of the request it has loaded]
  clobbered  \* history: a save replaced a return request its call had not read

payVars == <<payments, outbox, phase, job, memory, overwrote>>
returnVars == <<returns, announced, stage, task, seen, clobbered>>
vars == <<payVars, returnVars>>

Pay == INSTANCE Payment WITH Requests <- Direct \cup Calls

Statuses == {"requested", "approved", "rejected", "refunded"}
Request == [status: {"none"}] \cup [status: Statuses, order: Orders, payment: Payments]
Task == [op: {"none"}] \cup [op: {"create"}, order: Orders, payment: Payments]
          \cup [op: {"approve", "reject", "refund"}, request: Calls]
Message == [type: {"ReturnRequested", "ReturnApproved", "ReturnRejected", "ReturnRefunded"},
            request: Calls, by: Calls]
Stages == {"idle", "valid", "clear", "loaded", "refunding", "paidBack", "ok", "failed"}

Init ==
  /\ Pay!Init
  /\ returns = [q \in Calls |-> [status |-> "none"]]
  /\ announced = {}
  /\ stage = [q \in Calls |-> "idle"]
  /\ task = [q \in Calls |-> [op |-> "none"]]
  /\ seen = [q \in Calls |-> "none"]
  /\ clobbered = FALSE

Move(q, from, to) == stage[q] = from /\ stage' = [stage EXCEPT ![q] = to]
Announce(type, request, q) ==
  announced' = announced \cup {[type |-> type, request |-> request, by |-> q]}

-----------------------------------------------------------------------------
(* The payment endpoints. *)

PaymentStep ==
  /\ \/ \E p \in Payments :
          Pay!Initiate(p) \/ \E r \in Direct, op \in Pay!Operations : Pay!SelectRow(r, op, p)
     \/ \E r \in Direct : Pay!Continue(r)
  /\ UNCHANGED returnVars

-----------------------------------------------------------------------------
(* The create handler. *)

\* findByOrderId: the payment of the order that was created last.
LatestPayment(o, p) ==
  /\ PaidFor[p] = o /\ Pay!Stored(p)
  /\ \A n \in Payments : PaidFor[n] = o /\ Pay!Stored(n) => n <= p

BugPaid(p) == payments[p].status # "failed"
Paid(p) == payments[p].status = "succeeded"

Validate(q) ==
  /\ Move(q, "idle", "valid")
  /\ \E o \in Orders, p \in Payments :
       /\ LatestPayment(o, p)
       /\ Paid(p)
       /\ task' = [task EXCEPT ![q] = [op |-> "create", order |-> o, payment |-> p]]
  /\ UNCHANGED <<payVars, returns, announced, seen, clobbered>>

ActiveFor(o) == {q \in Calls : /\ returns[q].status \in {"requested", "approved"}
                               /\ returns[q].order = o}

FindNone(q) ==
  /\ Move(q, "valid", "clear")
  /\ ActiveFor(task[q].order) = {}
  /\ UNCHANGED <<payVars, returns, announced, task, seen, clobbered>>

SaveRequested(q) ==
  /\ Move(q, "clear", "ok")
  /\ returns' = [returns EXCEPT ![q] = [status |-> "requested", order |-> task[q].order,
                                        payment |-> task[q].payment]]
  /\ Announce("ReturnRequested", q, q)
  /\ UNCHANGED <<payVars, task, seen, clobbered>>

-----------------------------------------------------------------------------
(* The approve, reject and process handlers. *)

Load(q) ==
  /\ Move(q, "idle", "loaded")
  /\ \E op \in {"approve", "reject", "refund"}, n \in Calls :
       /\ returns[n].status # "none"
       /\ task' = [task EXCEPT ![q] = [op |-> op, request |-> n]]
       /\ seen' = [seen EXCEPT ![q] = returns[n].status]
  /\ UNCHANGED <<payVars, returns, announced, clobbered>>

\* save(): the row and the message.
Save(q, status, type) ==
  LET n == task[q].request IN
  /\ returns' = [returns EXCEPT ![n].status = status]
  /\ Announce(type, n, q)
  /\ clobbered' = (clobbered \/ returns[n].status # seen[q])
  /\ UNCHANGED <<task, seen>>

BugMayDecide(q) == seen[q] # "refunded"
MayDecide(q) == seen[q] = "requested"

Approve(q) ==
  /\ task[q].op = "approve" /\ MayDecide(q)
  /\ Move(q, "loaded", "ok")
  /\ Save(q, "approved", "ReturnApproved")
  /\ UNCHANGED payVars

Reject(q) ==
  /\ task[q].op = "reject" /\ MayDecide(q)
  /\ Move(q, "loaded", "ok")
  /\ Save(q, "rejected", "ReturnRejected")
  /\ UNCHANGED payVars

\* The process handler calls the refund handler with the payment of the request,
\* whatever the status of the request ...
StartRefund(q) ==
  /\ task[q].op = "refund"
  /\ Move(q, "loaded", "refunding")
  /\ Pay!SelectRow(q, "refund", returns[task[q].request].payment)
  /\ UNCHANGED <<returns, announced, task, seen, clobbered>>

Refund(q) ==
  /\ stage[q] = "refunding"
  /\ Pay!Continue(q)
  /\ UNCHANGED returnVars

BugRefundReturns(q) ==
  /\ Move(q, "refunding", "paidBack")
  /\ phase[q] \in {"ok", "failed"}
  /\ UNCHANGED <<payVars, returns, announced, task, seen, clobbered>>
RefundReturns(q) ==
  /\ Move(q, "refunding", "paidBack")
  /\ phase[q] = "ok"
  /\ UNCHANGED <<payVars, returns, announced, task, seen, clobbered>>

\* ... and only then looks at the status it has loaded.
BugMarkRefunded(q) ==
  /\ Move(q, "paidBack", "ok")
  /\ Save(q, "refunded", "ReturnRefunded")
  /\ UNCHANGED payVars
BugMarkPaidStatus(q) ==
  /\ Move(q, "paidBack", "ok")
  /\ seen[q] = "approved"
  /\ Save(q, "succeeded", "ReturnRefunded")
  /\ UNCHANGED payVars
MarkRefunded(q) ==
  /\ Move(q, "paidBack", "ok")
  /\ seen[q] = "approved"
  /\ Save(q, "refunded", "ReturnRefunded")
  /\ UNCHANGED payVars

\* A check or a transaction fails, or the process stops.  What the refund
\* handler has committed stays.
GiveUp(q) ==
  /\ stage[q] \notin {"ok", "failed"}
  /\ stage' = [stage EXCEPT ![q] = "failed"]
  /\ UNCHANGED <<payVars, returns, announced, task, seen, clobbered>>

Next ==
  \/ PaymentStep
  \/ \E q \in Calls :
       \/ Validate(q) \/ FindNone(q) \/ SaveRequested(q)
       \/ Load(q) \/ Approve(q) \/ Reject(q)
       \/ StartRefund(q) \/ Refund(q) \/ RefundReturns(q) \/ MarkRefunded(q)
       \/ GiveUp(q)

Spec == Init /\ [][Next]_vars

-----------------------------------------------------------------------------
(* Properties *)

\* Every variable has its type, those of Payment included.
TypeOK ==
  /\ Pay!TypeOK
  /\ returns \in [Calls -> Request]
  /\ announced \subseteq Message
  /\ stage \in [Calls -> Stages]
  /\ task \in [Calls -> Task]
  /\ seen \in [Calls -> Statuses \cup {"none"}]
  /\ clobbered \in BOOLEAN

\* The properties of payments hold with return calls among their callers.
StatusHasReasons == Pay!StatusHasReasons
HistoryExplainsPayment == Pay!HistoryExplainsPayment

ReturnWasPaid ==
  \A q \in Calls : returns[q].status # "none" =>
    Pay!Announced("PaymentSucceeded", returns[q].payment) # {}

\* Whoever announces that a return was refunded has refunded its payment: its own
\* call committed the refund, so two announcements stand for two refunds.
AnnouncedRefundHappened ==
  \A m \in announced : m.type = "ReturnRefunded" =>
    [type |-> "PaymentRefunded", payment |-> returns[m.request].payment, by |-> m.by] \in outbox

Told(type, q) == {m \in announced : m.type = type /\ m.request = q}

RefundedWasApproved ==
  \A q \in Calls : Told("ReturnRefunded", q) # {} => Told("ReturnApproved", q) # {}

\* Whatever the interleaving of customers and staff, a return request is only ever stored
\* for a payment that had succeeded, and called refunded only when it was approved at
\* some time.
ReturnHasReasons == ReturnWasPaid /\ RefundedWasApproved

\* As long as no save replaced a request its call had not read, a decision is
\* taken once and is final: nothing is both approved and rejected.
DecidedOnce ==
  ~clobbered => \A q \in Calls :
    /\ Cardinality(Told("ReturnApproved", q) \cup Told("ReturnRejected", q)) <= 1
    /\ returns[q].status = "rejected" <=> Told("ReturnRejected", q) # {}
    /\ returns[q].status = "refunded" <=> Told("ReturnRefunded", q) # {}

\* Processing a return pays back only what staff approved.  Processing one that
\* is not approved breaks it: the payment is refunded before the status is
\* looked at.
RefundNeedsApproval ==
  \A q \in Calls : (\E m \in outbox : m.type = "PaymentRefunded" /\ m.by = q) =>
    Told("ReturnApproved", task[q].request) # {}

\* An order has at most one return request in progress.  Two calls that both look
\* before one of them saves break it.
OneActiveReturn == \A o \in Orders : Cardinality(ActiveFor(o)) <= 1

OneOutcome == Pay!OneOutcome
=============================================================================
