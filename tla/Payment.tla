------------------------------- MODULE Payment -------------------------------
(***************************************************************************)
(* modules/payment: payments with their one attempt and their              *)
(* transactions, and the confirm, fail and refund handlers.                *)
(*                                                                         *)
(* A handler loads the payment (one SELECT for the row and one for each    *)
(* relation, none of them locked), lets the aggregate decide in memory,    *)
(* and writes the whole aggregate back with its outbox message in one      *)
(* transaction.  Amounts are left out: no guard depends on them.           *)
(*                                                                         *)
(* Operators whose name starts with Bug are mistakes the code does not     *)
(* make, put in place of the operator that follows them to see that a      *)
(* property notices.                                                       *)
(***************************************************************************)
EXTENDS Naturals, FiniteSets

CONSTANTS Payments,  \* payment ids
          Requests   \* handler executions

VARIABLES
  payments,  \* the database
  outbox,    \* outbox messages written with the payments
  phase,     \* how far each request is
  job,       \* what it is to do to which payment
  memory,    \* the payment it has loaded
  overwrote  \* history: some save replaced a state its request had not read

vars == <<payments, outbox, phase, job, memory, overwrote>>

Operations == {"confirm", "fail", "refund"}
Job == [op: {"none"}] \cup [op: Operations, payment: Payments]
Message == [type: {"PaymentInitiated"}, payment: Payments]
             \cup [type: {"PaymentSucceeded", "PaymentFailed", "PaymentRefunded"},
                   payment: Payments, by: Requests]
Aggregate == [status: {"none", "initiated", "succeeded", "failed", "refunded"},
              attempt: {"pending", "succeeded", "failed"},
              transactions: SUBSET Requests]

New(status) == [status |-> status, attempt |-> "pending", transactions |-> {}]

Init ==
  /\ payments = [p \in Payments |-> New("none")]
  /\ outbox = {}
  /\ phase = [r \in Requests |-> "idle"]
  /\ job = [r \in Requests |-> [op |-> "none"]]
  /\ memory = [r \in Requests |-> New("none")]
  /\ overwrote = FALSE

Stored(p) == payments[p].status # "none"

\* The initiate handler, once the provider has accepted the intent.
Initiate(p) ==
  /\ ~Stored(p)
  /\ payments' = [payments EXCEPT ![p] = New("initiated")]
  /\ outbox' = outbox \cup {[type |-> "PaymentInitiated", payment |-> p]}
  /\ UNCHANGED <<phase, job, memory, overwrote>>

\* findById: the row, then its attempts, then its transactions.
SelectRow(r, op, p) ==
  /\ phase[r] = "idle"
  /\ Stored(p)
  /\ phase' = [phase EXCEPT ![r] = "row"]
  /\ job' = [job EXCEPT ![r] = [op |-> op, payment |-> p]]
  /\ memory' = [memory EXCEPT ![r] = New(payments[p].status)]
  /\ UNCHANGED <<payments, outbox, overwrote>>

SelectAttempts(r) ==
  /\ phase[r] = "row"
  /\ phase' = [phase EXCEPT ![r] = "attempts"]
  /\ memory' = [memory EXCEPT ![r].attempt = payments[job[r].payment].attempt]
  /\ UNCHANGED <<payments, outbox, job, overwrote>>

SelectTransactions(r) ==
  /\ phase[r] = "attempts"
  /\ phase' = [phase EXCEPT ![r] = "loaded"]
  /\ memory' = [memory EXCEPT ![r].transactions = payments[job[r].payment].transactions]
  /\ UNCHANGED <<payments, outbox, job, overwrote>>

\* save(): the row, the attempt, the transactions (those not in memory are
\* deleted) and the message.
Save(r, a, type) ==
  LET p == job[r].payment IN
  /\ payments' = [payments EXCEPT ![p] = a]
  /\ outbox' = outbox \cup {[type |-> type, payment |-> p, by |-> r]}
  /\ overwrote' = (overwrote \/ payments[p] # memory[r])
  /\ phase' = [phase EXCEPT ![r] = "ok"]
  /\ memory' = [memory EXCEPT ![r] = New("none")]
  /\ UNCHANGED job

BugMarkSucceeded(a, r) ==
  [a EXCEPT !.status = "succeeded", !.transactions = @ \cup {r}]
MarkSucceeded(a, r) ==
  [status |-> "succeeded", attempt |-> "succeeded", transactions |-> a.transactions \cup {r}]

BugNotFinal(a) == a.status \notin {"succeeded", "refunded"}
NotFinal(a) == a.status \notin {"succeeded", "failed", "refunded"}

SaveConfirmed(r) ==
  /\ phase[r] = "loaded" /\ job[r].op = "confirm"
  /\ NotFinal(memory[r])
  /\ Save(r, MarkSucceeded(memory[r], r), "PaymentSucceeded")

SaveFailed(r) ==
  /\ phase[r] = "loaded" /\ job[r].op = "fail"
  /\ NotFinal(memory[r])
  /\ Save(r, [memory[r] EXCEPT !.status = "failed", !.attempt = "failed"], "PaymentFailed")

BugRefundable(a) == a.status # "refunded"
Refundable(a) == a.status = "succeeded"

SaveRefunded(r) ==
  /\ phase[r] = "loaded" /\ job[r].op = "refund"
  /\ Refundable(memory[r])
  /\ Save(r, [memory[r] EXCEPT !.status = "refunded"], "PaymentRefunded")

\* The aggregate refuses, the transaction fails, or the process stops.
Fail(r) ==
  /\ phase[r] \notin {"ok", "failed"}
  /\ phase' = [phase EXCEPT ![r] = "failed"]
  /\ memory' = [memory EXCEPT ![r] = New("none")]
  /\ UNCHANGED <<payments, outbox, job, overwrote>>

\* The rest of a request that has read the row.
Continue(r) == \/ SelectAttempts(r) \/ SelectTransactions(r)
               \/ SaveConfirmed(r) \/ SaveFailed(r) \/ SaveRefunded(r)
               \/ phase[r] # "idle" /\ Fail(r)

Next == \/ \E p \in Payments : \/ Initiate(p)
                               \/ \E r \in Requests, op \in Operations : SelectRow(r, op, p)
        \/ \E r \in Requests : Continue(r)

Spec == Init /\ [][Next]_vars

-----------------------------------------------------------------------------
(* Properties *)

TypeOK ==
  /\ payments \in [Payments -> Aggregate]
  /\ outbox \subseteq Message
  /\ phase \in [Requests -> {"idle", "row", "attempts", "loaded", "ok", "failed"}]
  /\ job \in [Requests -> Job]
  /\ memory \in [Requests -> Aggregate]
  /\ overwrote \in BOOLEAN

Announced(type, p) == {m \in outbox : m.type = type /\ m.payment = p}

RefundFollowsSuccess ==
  \A p \in Payments : Announced("PaymentRefunded", p) # {}
                        => Announced("PaymentSucceeded", p) # {}

ChildrenFollowStatus ==
  \A p \in Payments :
    /\ payments[p].status \in {"none", "initiated"} <=> payments[p].attempt = "pending"
    /\ payments[p].status = "succeeded" =>
         payments[p].attempt = "succeeded" /\ payments[p].transactions # {}
    /\ payments[p].status = "failed" => payments[p].attempt = "failed"

\* Whatever handlers overwrite each other, money goes back only for a payment that
\* succeeded at some time, and the attempt and the transactions never fall behind the
\* status, although a load may return a row and children of different moments.
StatusHasReasons == RefundFollowsSuccess /\ ChildrenFollowStatus

\* As long as no save has overwritten what its request had not read, a payment
\* has one outcome and at most one refund, and its status and transactions are
\* what its announced history says.
HistoryExplainsPayment ==
  ~overwrote => \A p \in Payments :
    LET won  == Announced("PaymentSucceeded", p)
        lost == Announced("PaymentFailed", p)
        back == Announced("PaymentRefunded", p)
    IN
    /\ Cardinality(won \cup lost) <= 1 /\ Cardinality(back) <= 1
    /\ payments[p].transactions = {m.by : m \in won}
    /\ payments[p].status = "refunded" <=> back # {}
    /\ payments[p].status = "failed" <=> lost # {}
    /\ payments[p].status = "succeeded" <=> won # {} /\ back = {}

\* A payment never both succeeds and fails.  A confirm and a fail that load it at
\* the same time break it.
OneOutcome ==
  \A p \in Payments : Announced("PaymentSucceeded", p) = {} \/ Announced("PaymentFailed", p) = {}
=============================================================================
