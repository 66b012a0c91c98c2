---------------------------- MODULE ReturnsProofs ----------------------------
(***************************************************************************)
(* Theorems about Returns and the payments it refunds, for any orders,     *)
(* payments and calls.                                                     *)
(*                                                                         *)
(* Every step of Returns is a step of Payment or leaves the payments alone *)
(* (PaymentMoves), so that Payment's part is proved by itself (PaymentInv) *)
(* and the return requests' part (ReturnInv) on top of it.                 *)
(***************************************************************************)
EXTENDS Returns, FiniteSetTheorems, TLAPS

Callers == Direct \cup Calls
Reading(r) == phase[r] \in {"row", "attempts", "loaded"}
Won(p) == Pay!Announced("PaymentSucceeded", p) # {}

\* Reasons of what is stored: a payment has succeeded that is called so.
StoredHasReasons ==
  \A p \in Payments : payments[p].status \in {"succeeded", "refunded"} => Won(p)

\* Reasons of what is in memory, while a caller is at work on a payment: it exists, it
\* was announced when its row says so, and then its attempt, read later, has an outcome.
HasReasons(r) ==
  /\ job[r].op # "none"
  /\ memory[r].status # "none"
  /\ payments[job[r].payment].status # "none"
  /\ memory[r].status \in {"succeeded", "refunded"} =>
       /\ Won(job[r].payment)
       /\ payments[job[r].payment].attempt # "pending"
       /\ phase[r] # "row" => memory[r].attempt # "pending"

MemoryHasReasons == \A r \in Callers : Reading(r) => HasReasons(r)

\* A caller that is through with a refund has announced it.
RefundIsDone ==
  \A r \in Callers : phase[r] = "ok" /\ job[r].op = "refund" =>
    [type |-> "PaymentRefunded", payment |-> job[r].payment, by |-> r] \in outbox

PaymentInv ==
  /\ Pay!TypeOK
  /\ StoredHasReasons
  /\ MemoryHasReasons
  /\ RefundIsDone
  /\ Pay!StatusHasReasons

\* What a call of the return endpoints holds, by how far it is: the payment it has
\* validated has succeeded, the request it has loaded is stored and was approved when
\* it says so, and the refund it has started is that of its request.
Knows(q) ==
  /\ stage[q] \in {"idle", "valid", "clear"} => returns[q].status = "none"
  /\ stage[q] \in {"valid", "clear"} => task[q].op = "create" /\ Won(task[q].payment)
  /\ stage[q] \in {"loaded", "refunding", "paidBack"} =>
       /\ task[q].op \in {"approve", "reject", "refund"}
       /\ returns[task[q].request].status # "none"
       /\ seen[q] # "none"
       /\ seen[q] = "approved" => Told("ReturnApproved", task[q].request) # {}
  /\ stage[q] \in {"refunding", "paidBack"} =>
       job[q] = [op |-> "refund", payment |-> returns[task[q].request].payment]
  /\ stage[q] = "refunding" => phase[q] # "idle"
  /\ stage[q] = "paidBack" => phase[q] = "ok"

CallsKnow == \A q \in Calls : Knows(q)

ApprovedWasTold ==
  \A q \in Calls : returns[q].status = "approved" => Told("ReturnApproved", q) # {}

AnnouncedExist == \A m \in announced : returns[m.request].status # "none"

ReturnInv ==
  /\ CallsKnow
  /\ ApprovedWasTold
  /\ AnnouncedExist
  /\ AnnouncedRefundHappened
  /\ ReturnHasReasons

IInv == TypeOK /\ PaymentInv /\ ReturnInv

AtMostOne(S) == \A x, y \in S : x = y

\* HistoryExplainsPayment of one payment, without cardinalities.
Explained(p) ==
  LET won  == Pay!Announced("PaymentSucceeded", p)
      lost == Pay!Announced("PaymentFailed", p)
      back == Pay!Announced("PaymentRefunded", p)
  IN
  /\ AtMostOne(won \cup lost) /\ AtMostOne(back)
  /\ payments[p].transactions = {m.by : m \in won}
  /\ payments[p].status = "refunded" <=> back # {}
  /\ payments[p].status = "failed" <=> lost # {}
  /\ payments[p].status = "succeeded" <=> won # {} /\ back = {}

\* DecidedOnce of one request, without cardinalities; and nothing is decided as long
\* as it is only requested.
Decided(q) ==
  /\ AtMostOne(Told("ReturnApproved", q) \cup Told("ReturnRejected", q))
  /\ returns[q].status = "rejected" <=> Told("ReturnRejected", q) # {}
  /\ returns[q].status = "refunded" <=> Told("ReturnRefunded", q) # {}
  /\ returns[q].status \in {"none", "requested"} => Told("ReturnApproved", q) = {}

AllExplained == ~overwrote => \A p \in Payments : Explained(p)
AllDecided == ~clobbered => \A q \in Calls : Decided(q)

-----------------------------------------------------------------------------
(* Finite sets *)

LEMMA AtMostOneCardinality ==
  ASSUME NEW S, AtMostOne(S)
  PROVE  Cardinality(S) <= 1
<1>1. CASE S = {}
  BY <1>1, FS_EmptySet
<1>2. CASE S # {}
  <2>1. PICK x : x \in S
    BY <1>2
  <2>2. S = {x}
    BY <2>1 DEF AtMostOne
  <2>3. Cardinality(S) = 1
    BY <2>2, FS_Singleton
  <2> QED BY <2>3
<1> QED BY <1>1, <1>2

\* Payment counts as this module does.
LEMMA SameCardinality == \A S : Pay!Cardinality(S) = Cardinality(S)
BY DEF Pay!Cardinality, Cardinality

-----------------------------------------------------------------------------
(* The payments *)

LEMMA PaymentInit == Pay!Init => PaymentInv
<1> SUFFICES ASSUME Pay!Init PROVE PaymentInv
  OBVIOUS
<1>1. Pay!TypeOK
  BY DEF Pay!Init, Pay!TypeOK, Pay!New, Pay!Aggregate, Pay!Job, Callers
<1>2. \A p \in Payments : payments[p].status = "none" /\ payments[p].attempt = "pending"
  BY DEF Pay!Init, Pay!New
<1>3. StoredHasReasons /\ MemoryHasReasons /\ RefundIsDone
  BY <1>2 DEF Pay!Init, StoredHasReasons, MemoryHasReasons, RefundIsDone, Reading, Callers
<1>4. Pay!StatusHasReasons
  BY <1>2 DEF Pay!Init, Pay!StatusHasReasons, Pay!RefundFollowsSuccess, Pay!Announced,
              Pay!ChildrenFollowStatus
<1> QED BY <1>1, <1>3, <1>4 DEF PaymentInv

\* Announcements stay.
LEMMA AnnouncedStays ==
  ASSUME NEW m, outbox' = outbox \cup {m}, NEW type, NEW p
  PROVE  /\ Pay!Announced(type, p) \subseteq Pay!Announced(type, p)'
         /\ Pay!Announced(type, p)' \subseteq Pay!Announced(type, p) \cup {m}
         /\ ~(m.type = type /\ m.payment = p) =>
              Pay!Announced(type, p)' = Pay!Announced(type, p)
BY DEF Pay!Announced

LEMMA InitiateKeeps ==
  ASSUME PaymentInv, NEW p \in Payments, Pay!Initiate(p)
  PROVE  PaymentInv'
<1> DEFINE m == [type |-> "PaymentInitiated", payment |-> p]
<1>1. Pay!TypeOK /\ payments[p].status = "none"
  BY DEF PaymentInv, Pay!Initiate, Pay!Stored
<1>2. /\ payments' = [payments EXCEPT ![p] = Pay!New("initiated")]
      /\ outbox' = outbox \cup {m}
      /\ UNCHANGED <<phase, job, memory, overwrote>>
  BY DEF Pay!Initiate
<1>3. Pay!New("initiated") \in Pay!Aggregate /\ m \in Pay!Message
  BY DEF Pay!New, Pay!Aggregate, Pay!Message
<1>4. Pay!TypeOK'
  BY <1>1, <1>2, <1>3 DEF Pay!TypeOK
<1>5. /\ payments'[p].status = "initiated" /\ payments'[p].attempt = "pending"
      /\ \A x \in Payments \ {p} : payments'[x] = payments[x]
  BY <1>1, <1>2 DEF Pay!TypeOK, Pay!New
<1>6. \A type, x : Pay!Announced(type, x) \subseteq Pay!Announced(type, x)'
  BY <1>2, AnnouncedStays
<1>7. \A x : Pay!Announced("PaymentRefunded", x)' = Pay!Announced("PaymentRefunded", x)
  BY <1>2 DEF Pay!Announced
<1>8. StoredHasReasons'
  BY <1>5, <1>6 DEF PaymentInv, StoredHasReasons, Won
<1>9. MemoryHasReasons'
  <2> SUFFICES ASSUME NEW r \in Callers, Reading(r)' PROVE HasReasons(r)'
    BY DEF MemoryHasReasons
  <2>1. HasReasons(r)
    BY <1>2 DEF PaymentInv, MemoryHasReasons, Reading
  <2>2. job[r].payment \in Payments \ {p}
    BY <1>1, <2>1 DEF HasReasons, Pay!TypeOK, Pay!Job, Callers
  <2> QED BY <1>2, <1>5, <1>6, <2>1, <2>2 DEF HasReasons, Won
<1>10. RefundIsDone'
  BY <1>2 DEF PaymentInv, RefundIsDone
<1>11. Pay!StatusHasReasons'
  BY <1>5, <1>6, <1>7 DEF PaymentInv, Pay!StatusHasReasons, Pay!RefundFollowsSuccess,
                          Pay!ChildrenFollowStatus
<1> QED BY <1>4, <1>8, <1>9, <1>10, <1>11 DEF PaymentInv
\* The loads: they change what callers have in memory, and nothing else.
LEMMA LoadKeeps ==
  ASSUME PaymentInv, NEW r \in Callers,
         Pay!TypeOK', UNCHANGED <<payments, outbox>>,
         phase[r] # "ok", phase'[r] # "ok",
         Reading(r)' => HasReasons(r)',
         \A s \in Callers \ {r} : /\ phase'[s] = phase[s] /\ job'[s] = job[s]
                                  /\ memory'[s] = memory[s]
  PROVE  PaymentInv'
<1>1. MemoryHasReasons'
  <2> SUFFICES ASSUME NEW s \in Callers \ {r}, Reading(s)' PROVE HasReasons(s)'
    BY DEF MemoryHasReasons
  <2>1. HasReasons(s)
    BY DEF PaymentInv, MemoryHasReasons, Reading
  <2> QED BY <2>1 DEF HasReasons, Won, Pay!Announced
<1>2. RefundIsDone'
  BY DEF PaymentInv, RefundIsDone
<1>3. StoredHasReasons' /\ Pay!StatusHasReasons'
  BY DEF PaymentInv, StoredHasReasons, Won, Pay!StatusHasReasons, Pay!RefundFollowsSuccess,
         Pay!ChildrenFollowStatus, Pay!Announced
<1> QED BY <1>1, <1>2, <1>3 DEF PaymentInv

LEMMA SelectRowKeeps ==
  ASSUME PaymentInv, NEW r \in Callers, NEW op \in Pay!Operations, NEW p \in Payments,
         Pay!SelectRow(r, op, p)
  PROVE  PaymentInv'
<1> DEFINE j == [op |-> op, payment |-> p]
           a == Pay!New(payments[p].status)
<1>1. Pay!TypeOK /\ payments[p].status # "none"
  BY DEF PaymentInv, Pay!SelectRow, Pay!Stored
<1>2. a \in Pay!Aggregate /\ a.status = payments[p].status
  BY <1>1 DEF Pay!TypeOK, Pay!Aggregate, Pay!New
<1>3. j \in Pay!Job /\ j.op # "none" /\ j.payment = p
  BY DEF Pay!Job, Pay!Operations
<1>4. /\ phase[r] = "idle"
      /\ phase' = [phase EXCEPT ![r] = "row"]
      /\ job' = [job EXCEPT ![r] = j]
      /\ memory' = [memory EXCEPT ![r] = a]
      /\ UNCHANGED <<payments, outbox, overwrote>>
  BY DEF Pay!SelectRow
<1> HIDE DEF j, a
<1>5. Pay!TypeOK'
  BY <1>1, <1>2, <1>3, <1>4 DEF Pay!TypeOK, Callers
<1>6. phase'[r] = "row" /\ job'[r] = j /\ memory'[r] = a
  BY <1>1, <1>4 DEF Pay!TypeOK, Callers
<1>7. HasReasons(r)'
  <2>1. payments[p].status \in {"succeeded", "refunded"} =>
          Won(p) /\ payments[p].attempt # "pending"
    BY DEF PaymentInv, StoredHasReasons, Pay!StatusHasReasons, Pay!ChildrenFollowStatus
  <2>2. Won(p) => Won(p)'
    BY <1>4 DEF Won, Pay!Announced
  <2> QED BY <1>1, <1>2, <1>3, <1>4, <1>6, <2>1, <2>2 DEF HasReasons, Won
<1> QED BY <1>1, <1>4, <1>5, <1>6, <1>7, LoadKeeps DEF Pay!TypeOK, Callers

LEMMA SelectChildrenKeeps ==
  ASSUME PaymentInv, NEW r \in Callers, Pay!SelectAttempts(r) \/ Pay!SelectTransactions(r)
  PROVE  PaymentInv'
<1> DEFINE p == job[r].payment
<1>1. Pay!TypeOK /\ Reading(r) /\ HasReasons(r) /\ memory[r] \in Pay!Aggregate
  BY DEF PaymentInv, MemoryHasReasons, Reading, Pay!SelectAttempts, Pay!SelectTransactions,
         Pay!TypeOK, Callers
<1>2. p \in Payments /\ payments[p] \in Pay!Aggregate
  BY <1>1 DEF Pay!TypeOK, Pay!Job, HasReasons, Callers
<1>3. /\ UNCHANGED <<payments, outbox, job, overwrote>>
      /\ \E to \in {"attempts", "loaded"} : phase' = [phase EXCEPT ![r] = to]
      /\ \E a \in Pay!Aggregate :
           /\ memory' = [memory EXCEPT ![r] = a]
           /\ a.status = memory[r].status
           /\ \/ phase[r] = "row" /\ a.attempt = payments[p].attempt
              \/ phase[r] # "row" /\ a.attempt = memory[r].attempt
  <2>1. CASE Pay!SelectAttempts(r)
    <3> DEFINE a == [memory[r] EXCEPT !.attempt = payments[p].attempt]
    <3>1. a \in Pay!Aggregate /\ a.status = memory[r].status /\ a.attempt = payments[p].attempt
      BY <1>1, <1>2 DEF Pay!Aggregate
    <3>2. memory' = [memory EXCEPT ![r] = a]
      BY <2>1 DEF Pay!SelectAttempts
    <3> QED BY <2>1, <3>1, <3>2 DEF Pay!SelectAttempts
  <2>2. CASE Pay!SelectTransactions(r)
    <3> DEFINE a == [memory[r] EXCEPT !.transactions = payments[p].transactions]
    <3>1. a \in Pay!Aggregate /\ a.status = memory[r].status /\ a.attempt = memory[r].attempt
      BY <1>1, <1>2 DEF Pay!Aggregate
    <3>2. memory' = [memory EXCEPT ![r] = a]
      BY <2>2 DEF Pay!SelectTransactions
    <3> QED BY <2>2, <3>1, <3>2 DEF Pay!SelectTransactions
  <2> QED BY <2>1, <2>2
<1> HIDE DEF p
<1>4. Pay!TypeOK'
  BY <1>1, <1>3 DEF Pay!TypeOK, Callers
<1>5. HasReasons(r)'
  <2>1. Won(p) => Won(p)'
    BY <1>3 DEF Won, Pay!Announced, p
  <2>2. memory'[r].status = memory[r].status /\ phase'[r] # "row" /\ job' = job
    BY <1>1, <1>3 DEF Pay!TypeOK, Callers
  <2>3. \/ phase[r] = "row" /\ memory'[r].attempt = payments[p].attempt
        \/ phase[r] # "row" /\ memory'[r].attempt = memory[r].attempt
    BY <1>1, <1>3 DEF Pay!TypeOK, Callers
  <2> QED BY <1>1, <1>3, <2>1, <2>2, <2>3 DEF HasReasons, Won, p
<1>6. phase[r] # "ok" /\ phase'[r] # "ok"
  BY <1>1, <1>3 DEF Reading, Pay!TypeOK, Callers
<1>7. \A s \in Callers \ {r} : phase'[s] = phase[s] /\ job'[s] = job[s] /\ memory'[s] = memory[s]
  BY <1>1, <1>3 DEF Pay!TypeOK, Callers
<1> QED BY <1>3, <1>4, <1>5, <1>6, <1>7, LoadKeeps

LEMMA FailKeeps ==
  ASSUME PaymentInv, NEW r \in Callers, Pay!Fail(r)
  PROVE  PaymentInv'
<1>1. Pay!TypeOK /\ Pay!New("none") \in Pay!Aggregate
  BY DEF PaymentInv, Pay!New, Pay!Aggregate
<1>2. /\ phase[r] # "ok"
      /\ phase' = [phase EXCEPT ![r] = "failed"]
      /\ memory' = [memory EXCEPT ![r] = Pay!New("none")]
      /\ UNCHANGED <<payments, outbox, job, overwrote>>
  BY DEF Pay!Fail
<1>3. Pay!TypeOK' /\ phase'[r] = "failed"
  BY <1>1, <1>2 DEF Pay!TypeOK, Callers
<1>4. \A s \in Callers \ {r} : phase'[s] = phase[s] /\ job'[s] = job[s] /\ memory'[s] = memory[s]
  BY <1>1, <1>2 DEF Pay!TypeOK, Callers
<1> QED BY <1>2, <1>3, <1>4, LoadKeeps DEF Reading
\* The saves: what they write, its message and its reasons.
LEMMA SaveKeeps ==
  ASSUME PaymentInv, NEW r \in Callers, phase[r] = "loaded",
         NEW type \in {"PaymentSucceeded", "PaymentFailed", "PaymentRefunded"},
         NEW a \in Pay!Aggregate, Pay!Save(r, a, type),
         a.status \in {"succeeded", "failed", "refunded"}, a.attempt # "pending",
         a.status = "succeeded" => a.attempt = "succeeded" /\ a.transactions # {}
                                     /\ type = "PaymentSucceeded",
         a.status = "failed" => a.attempt = "failed",
         a.status = "refunded" => Won(job[r].payment),
         type = "PaymentRefunded" <=> a.status = "refunded",
         job[r].op = "refund" <=> type = "PaymentRefunded"
  PROVE  PaymentInv'
<1> DEFINE p == job[r].payment
           m == [type |-> type, payment |-> p, by |-> r]
<1>1. Pay!TypeOK /\ HasReasons(r)
  BY DEF PaymentInv, MemoryHasReasons, Reading
<1>2. p \in Payments
  BY <1>1 DEF Pay!TypeOK, Pay!Job, HasReasons, Callers
<1>3. /\ payments' = [payments EXCEPT ![p] = a]
      /\ outbox' = outbox \cup {m}
      /\ overwrote' = (overwrote \/ payments[p] # memory[r])
      /\ phase' = [phase EXCEPT ![r] = "ok"]
      /\ memory' = [memory EXCEPT ![r] = Pay!New("none")]
      /\ job' = job
  BY DEF Pay!Save
<1>4. /\ m \in Pay!Message /\ Pay!New("none") \in Pay!Aggregate
      /\ m.type = type /\ m.payment = p /\ m.by = r
  BY <1>2 DEF Pay!Message, Pay!New, Pay!Aggregate, Callers
<1>5. Pay!TypeOK'
  BY <1>1, <1>2, <1>3, <1>4 DEF Pay!TypeOK, Callers
<1>6. payments'[p] = a /\ \A x \in Payments \ {p} : payments'[x] = payments[x]
  BY <1>1, <1>2, <1>3 DEF Pay!TypeOK
<1>7. phase'[r] = "ok" /\ \A s \in Callers \ {r} : phase'[s] = phase[s] /\ memory'[s] = memory[s]
  BY <1>1, <1>3 DEF Pay!TypeOK, Callers
<1>8. \A x \in Payments : Won(x) => Pay!Announced("PaymentSucceeded", x)' # {}
  BY <1>3 DEF Won, Pay!Announced
<1> HIDE DEF p, m
<1>9. \A x \in Payments : x = p /\ type = "PaymentSucceeded" =>
        Pay!Announced("PaymentSucceeded", x)' # {}
  BY <1>3, <1>4 DEF Pay!Announced
<1>10. \A x \in Payments : Pay!Announced("PaymentRefunded", x)' # {} =>
         Pay!Announced("PaymentRefunded", x) # {} \/ (x = p /\ type = "PaymentRefunded")
  <2> SUFFICES ASSUME NEW x \in Payments, NEW n \in outbox',
                      n.type = "PaymentRefunded", n.payment = x
               PROVE  Pay!Announced("PaymentRefunded", x) # {} \/ (x = p /\ type = "PaymentRefunded")
    BY DEF Pay!Announced
  <2> QED BY <1>3, <1>4 DEF Pay!Announced
<1>11. StoredHasReasons'
  <2> SUFFICES ASSUME NEW x \in Payments, payments'[x].status \in {"succeeded", "refunded"}
               PROVE  Pay!Announced("PaymentSucceeded", x)' # {}
    BY DEF StoredHasReasons, Won
  <2>1. CASE x = p
    BY <1>2, <1>6, <1>8, <1>9, <2>1 DEF p
  <2>2. CASE x # p
    BY <1>6, <1>8, <2>2 DEF PaymentInv, StoredHasReasons
  <2> QED BY <2>1, <2>2
<1>12. MemoryHasReasons'
  <2> SUFFICES ASSUME NEW s \in Callers, Reading(s)' PROVE HasReasons(s)'
    BY DEF MemoryHasReasons
  <2>1. s # r /\ Reading(s) /\ HasReasons(s)
    BY <1>7 DEF PaymentInv, MemoryHasReasons, Reading
  <2>2. job[s].payment \in Payments
    BY <1>1, <2>1 DEF HasReasons, Pay!TypeOK, Pay!Job, Callers
  <2>3. payments'[job[s].payment].status # "none"
        /\ (payments[job[s].payment].attempt # "pending"
             => payments'[job[s].payment].attempt # "pending")
    BY <1>6, <2>1, <2>2 DEF HasReasons
  <2> QED BY <1>3, <1>7, <1>8, <2>1, <2>2, <2>3 DEF HasReasons, Won
<1>13. RefundIsDone'
  <2> SUFFICES ASSUME NEW s \in Callers, phase'[s] = "ok", job[s].op = "refund"
               PROVE  [type |-> "PaymentRefunded", payment |-> job[s].payment, by |-> s] \in outbox'
    BY <1>3 DEF RefundIsDone
  <2>1. CASE s = r
    BY <1>3, <2>1 DEF m, p
  <2>2. CASE s # r
    BY <1>3, <1>7, <2>2 DEF PaymentInv, RefundIsDone
  <2> QED BY <2>1, <2>2
<1>14. Pay!RefundFollowsSuccess'
  <2> SUFFICES ASSUME NEW x \in Payments, Pay!Announced("PaymentRefunded", x)' # {}
               PROVE  Pay!Announced("PaymentSucceeded", x)' # {}
    BY DEF Pay!RefundFollowsSuccess
  <2>1. CASE Pay!Announced("PaymentRefunded", x) # {}
    BY <1>8, <2>1 DEF PaymentInv, Pay!StatusHasReasons, Pay!RefundFollowsSuccess, Won
  <2>2. CASE x = p /\ type = "PaymentRefunded"
    BY <1>8, <2>2 DEF p
  <2> QED BY <1>10, <2>1, <2>2
<1>15. Pay!ChildrenFollowStatus'
  BY <1>2, <1>6 DEF PaymentInv, Pay!StatusHasReasons, Pay!ChildrenFollowStatus
<1> QED BY <1>5, <1>11, <1>12, <1>13, <1>14, <1>15 DEF PaymentInv, Pay!StatusHasReasons

LEMMA SavesKeep ==
  ASSUME PaymentInv, NEW r \in Callers,
         Pay!SaveConfirmed(r) \/ Pay!SaveFailed(r) \/ Pay!SaveRefunded(r)
  PROVE  PaymentInv'
<1>1. memory[r] \in Pay!Aggregate /\ r \in Direct \cup Calls
  BY DEF PaymentInv, Pay!TypeOK, Callers
<1>2. phase[r] = "loaded" /\ HasReasons(r)
  BY DEF PaymentInv, MemoryHasReasons, Reading, Pay!SaveConfirmed, Pay!SaveFailed, Pay!SaveRefunded
<1>3. CASE Pay!SaveConfirmed(r)
  <2> DEFINE a == Pay!MarkSucceeded(memory[r], r)
  <2>1. a \in Pay!Aggregate /\ a.status = "succeeded" /\ a.attempt = "succeeded" /\ a.transactions # {}
    BY <1>1 DEF Pay!MarkSucceeded, Pay!Aggregate
  <2>2. Pay!Save(r, a, "PaymentSucceeded") /\ job[r].op = "confirm"
    BY <1>3 DEF Pay!SaveConfirmed
  <2> HIDE DEF a
  <2> QED BY <1>2, <2>1, <2>2, SaveKeeps
<1>4. CASE Pay!SaveFailed(r)
  <2> DEFINE a == [memory[r] EXCEPT !.status = "failed", !.attempt = "failed"]
  <2>1. a \in Pay!Aggregate /\ a.status = "failed" /\ a.attempt = "failed"
    BY <1>1 DEF Pay!Aggregate
  <2>2. Pay!Save(r, a, "PaymentFailed") /\ job[r].op = "fail"
    BY <1>4 DEF Pay!SaveFailed
  <2> HIDE DEF a
  <2> QED BY <1>2, <2>1, <2>2, SaveKeeps
<1>5. CASE Pay!SaveRefunded(r)
  <2> DEFINE a == [memory[r] EXCEPT !.status = "refunded"]
  <2>1. a \in Pay!Aggregate /\ a.status = "refunded" /\ a.attempt = memory[r].attempt
    BY <1>1 DEF Pay!Aggregate
  <2>2. Pay!Save(r, a, "PaymentRefunded") /\ job[r].op = "refund" /\ memory[r].status = "succeeded"
    BY <1>5 DEF Pay!SaveRefunded, Pay!Refundable
  <2>3. Won(job[r].payment) /\ a.attempt # "pending"
    BY <1>2, <2>1, <2>2 DEF HasReasons
  <2> HIDE DEF a
  <2> QED BY <1>2, <2>1, <2>2, <2>3, SaveKeeps
<1> QED BY <1>3, <1>4, <1>5

LEMMA PaymentStepKeeps == PaymentInv /\ [Pay!Next]_payVars => PaymentInv'
<1> SUFFICES ASSUME PaymentInv, [Pay!Next]_payVars PROVE PaymentInv'
  OBVIOUS
<1>1. ASSUME NEW p \in Payments, Pay!Initiate(p) PROVE PaymentInv'
  BY <1>1, InitiateKeeps
<1>2. ASSUME NEW p \in Payments, NEW r \in Callers, NEW op \in Pay!Operations,
             Pay!SelectRow(r, op, p)
      PROVE  PaymentInv'
  BY <1>2, SelectRowKeeps
<1>3. ASSUME NEW r \in Callers, Pay!Continue(r) PROVE PaymentInv'
  BY <1>3, SelectChildrenKeeps, SavesKeep, FailKeeps DEF Pay!Continue
<1>4. CASE UNCHANGED payVars
  BY <1>4 DEF payVars, PaymentInv, Pay!TypeOK, StoredHasReasons, MemoryHasReasons, HasReasons,
              Reading, Won, RefundIsDone, Pay!StatusHasReasons, Pay!RefundFollowsSuccess,
              Pay!ChildrenFollowStatus, Pay!Announced
<1> QED BY <1>1, <1>2, <1>3, <1>4 DEF Pay!Next, Callers
-----------------------------------------------------------------------------
(* The history of the payments *)

Outcomes == {"PaymentSucceeded", "PaymentFailed", "PaymentRefunded"}

LEMMA SameExplained ==
  ASSUME NEW p, Explained(p), payments'[p] = payments[p],
         \A type \in Outcomes : Pay!Announced(type, p)' = Pay!Announced(type, p)
  PROVE  Explained(p)'
BY DEF Explained, Outcomes

\* A save that replaces what its caller has read.
LEMMA SaveExplained ==
  ASSUME PaymentInv, NEW p \in Payments, Explained(p), NEW r \in Callers,
         NEW type \in Outcomes, NEW a \in Pay!Aggregate,
         payments' = [payments EXCEPT ![p] = a],
         outbox' = outbox \cup {[type |-> type, payment |-> p, by |-> r]},
         \/ /\ type = "PaymentSucceeded" /\ payments[p].status = "initiated"
            /\ a.status = "succeeded" /\ a.transactions = payments[p].transactions \cup {r}
         \/ /\ type = "PaymentFailed" /\ payments[p].status = "initiated"
            /\ a.status = "failed" /\ a.transactions = payments[p].transactions
         \/ /\ type = "PaymentRefunded" /\ payments[p].status = "succeeded"
            /\ a.status = "refunded" /\ a.transactions = payments[p].transactions
  PROVE  Explained(p)'
<1> DEFINE m == [type |-> type, payment |-> p, by |-> r]
           won  == Pay!Announced("PaymentSucceeded", p)
           lost == Pay!Announced("PaymentFailed", p)
           back == Pay!Announced("PaymentRefunded", p)
<1>1. payments'[p] = a
  BY DEF PaymentInv, Pay!TypeOK
<1>2. /\ AtMostOne(won \cup lost) /\ AtMostOne(back)
      /\ payments[p].transactions = {n.by : n \in won}
      /\ payments[p].status = "refunded" <=> back # {}
      /\ payments[p].status = "failed" <=> lost # {}
      /\ payments[p].status = "succeeded" <=> won # {} /\ back = {}
  BY DEF Explained
<1>3. \A t \in Outcomes : Pay!Announced(t, p)' =
        Pay!Announced(t, p) \cup (IF t = type THEN {m} ELSE {})
  BY DEF Pay!Announced
<1>4. m.by = r
  OBVIOUS
<1>5. /\ won' = won \cup (IF type = "PaymentSucceeded" THEN {m} ELSE {})
      /\ lost' = lost \cup (IF type = "PaymentFailed" THEN {m} ELSE {})
      /\ back' = back \cup (IF type = "PaymentRefunded" THEN {m} ELSE {})
  BY <1>3 DEF Outcomes
<1> SUFFICES /\ AtMostOne(won' \cup lost') /\ AtMostOne(back')
             /\ a.transactions = {n.by : n \in won'}
             /\ a.status = "refunded" <=> back' # {}
             /\ a.status = "failed" <=> lost' # {}
             /\ a.status = "succeeded" <=> won' # {} /\ back' = {}
  BY <1>1 DEF Explained
<1> HIDE DEF m, won, lost, back
<1>6. CASE type = "PaymentSucceeded"
  <2>1. won = {} /\ lost = {} /\ back = {}
    BY <1>2, <1>6
  <2>2. won' = {m} /\ lost' = {} /\ back' = {}
    BY <1>5, <1>6, <2>1
  <2>3. a.transactions = {r} /\ a.status = "succeeded"
    BY <1>2, <1>6, <2>1
  <2> QED BY <1>4, <2>2, <2>3 DEF AtMostOne
<1>7. CASE type = "PaymentFailed"
  <2>1. won = {} /\ lost = {} /\ back = {}
    BY <1>2, <1>7
  <2>2. won' = {} /\ lost' = {m} /\ back' = {}
    BY <1>5, <1>7, <2>1
  <2>3. a.transactions = {} /\ a.status = "failed"
    BY <1>2, <1>7, <2>1
  <2> QED BY <2>2, <2>3 DEF AtMostOne
<1>8. CASE type = "PaymentRefunded"
  <2>1. won # {} /\ lost = {} /\ back = {}
    BY <1>2, <1>8
  <2>2. won' = won /\ lost' = {} /\ back' = {m}
    BY <1>5, <1>8, <2>1
  <2>3. a.transactions = payments[p].transactions /\ a.status = "refunded"
    BY <1>8
  <2> QED BY <1>2, <2>1, <2>2, <2>3 DEF AtMostOne
<1> QED BY <1>6, <1>7, <1>8 DEF Outcomes

LEMMA SavesExplained ==
  ASSUME PaymentInv, AllExplained, NEW r \in Callers,
         Pay!SaveConfirmed(r) \/ Pay!SaveFailed(r) \/ Pay!SaveRefunded(r)
  PROVE  AllExplained'
<1> SUFFICES ASSUME ~overwrote', NEW x \in Payments PROVE Explained(x)'
  BY DEF AllExplained
<1> DEFINE p == job[r].payment
<1>1. memory[r] \in Pay!Aggregate /\ HasReasons(r) /\ p \in Payments
  BY DEF PaymentInv, MemoryHasReasons, Reading, Pay!SaveConfirmed, Pay!SaveFailed,
         Pay!SaveRefunded, Pay!TypeOK, Pay!Job, HasReasons, Callers
<1>2. PICK type \in Outcomes, a \in Pay!Aggregate :
        /\ Pay!Save(r, a, type)
        /\ \/ /\ type = "PaymentSucceeded" /\ memory[r].status = "initiated"
              /\ a.status = "succeeded" /\ a.transactions = memory[r].transactions \cup {r}
           \/ /\ type = "PaymentFailed" /\ memory[r].status = "initiated"
              /\ a.status = "failed" /\ a.transactions = memory[r].transactions
           \/ /\ type = "PaymentRefunded" /\ memory[r].status = "succeeded"
              /\ a.status = "refunded" /\ a.transactions = memory[r].transactions
  <2>1. Pay!NotFinal(memory[r]) => memory[r].status = "initiated"
    BY <1>1 DEF Pay!NotFinal, Pay!Aggregate, HasReasons
  <2>2. CASE Pay!SaveConfirmed(r)
    <3> DEFINE a == Pay!MarkSucceeded(memory[r], r)
    <3>1. /\ a \in Pay!Aggregate /\ a.status = "succeeded"
          /\ a.transactions = memory[r].transactions \cup {r}
      BY <1>1 DEF Pay!MarkSucceeded, Pay!Aggregate, Callers
    <3>2. Pay!Save(r, a, "PaymentSucceeded") /\ Pay!NotFinal(memory[r])
      BY <2>2 DEF Pay!SaveConfirmed
    <3> HIDE DEF a
    <3> QED BY <2>1, <3>1, <3>2 DEF Outcomes
  <2>3. CASE Pay!SaveFailed(r)
    <3> DEFINE a == [memory[r] EXCEPT !.status = "failed", !.attempt = "failed"]
    <3>1. /\ a \in Pay!Aggregate /\ a.status = "failed"
          /\ a.transactions = memory[r].transactions
      BY <1>1 DEF Pay!Aggregate
    <3>2. Pay!Save(r, a, "PaymentFailed") /\ Pay!NotFinal(memory[r])
      BY <2>3 DEF Pay!SaveFailed
    <3> HIDE DEF a
    <3> QED BY <2>1, <3>1, <3>2 DEF Outcomes
  <2>4. CASE Pay!SaveRefunded(r)
    <3> DEFINE a == [memory[r] EXCEPT !.status = "refunded"]
    <3>1. /\ a \in Pay!Aggregate /\ a.status = "refunded"
          /\ a.transactions = memory[r].transactions
      BY <1>1 DEF Pay!Aggregate
    <3>2. Pay!Save(r, a, "PaymentRefunded") /\ memory[r].status = "succeeded"
      BY <2>4 DEF Pay!SaveRefunded, Pay!Refundable
    <3> HIDE DEF a
    <3> QED BY <3>1, <3>2 DEF Outcomes
  <2> QED BY <2>2, <2>3, <2>4
<1>3. /\ payments' = [payments EXCEPT ![p] = a]
      /\ outbox' = outbox \cup {[type |-> type, payment |-> p, by |-> r]}
      /\ payments[p] = memory[r] /\ ~overwrote
  BY <1>2 DEF Pay!Save
<1> HIDE DEF p
<1>4. CASE x = p
  <2>1. Explained(p)
    BY <1>1, <1>3 DEF AllExplained
  <2> QED BY <1>1, <1>2, <1>3, <1>4, <2>1, SaveExplained
<1>5. CASE x # p
  <2>1. payments'[x] = payments[x]
    BY <1>1, <1>3, <1>5 DEF PaymentInv, Pay!TypeOK
  <2>2. \A t \in Outcomes : Pay!Announced(t, x)' = Pay!Announced(t, x)
    BY <1>3, <1>5 DEF Pay!Announced
  <2> QED BY <1>3, <2>1, <2>2, SameExplained DEF AllExplained
<1> QED BY <1>4, <1>5

LEMMA InitiateExplained ==
  ASSUME PaymentInv, AllExplained, NEW p \in Payments, Pay!Initiate(p)
  PROVE  AllExplained'
<1> SUFFICES ASSUME ~overwrote', NEW x \in Payments PROVE Explained(x)'
  BY DEF AllExplained
<1>1. Explained(x) /\ payments[p].status = "none" /\ overwrote' = overwrote
  BY DEF AllExplained, Pay!Initiate, Pay!Stored
<1>2. \A t \in Outcomes : Pay!Announced(t, x)' = Pay!Announced(t, x)
  BY DEF Pay!Initiate, Pay!Announced, Outcomes
<1>3. CASE x = p
  <2>1. payments'[p].status = "initiated" /\ payments'[p].transactions = {}
    BY DEF Pay!Initiate, Pay!New, PaymentInv, Pay!TypeOK
  <2>2. Pay!Announced("PaymentSucceeded", p) = {}
    BY <1>1, <1>3 DEF Explained
  <2> QED BY <1>1, <1>2, <1>3, <2>1, <2>2 DEF Explained, Outcomes
<1>4. CASE x # p
  <2>1. payments'[x] = payments[x]
    BY <1>4 DEF Pay!Initiate, PaymentInv, Pay!TypeOK
  <2> QED BY <1>1, <1>2, <2>1, SameExplained
<1> QED BY <1>3, <1>4

LEMMA PaymentStepExplained ==
  PaymentInv /\ AllExplained /\ [Pay!Next]_payVars => AllExplained'
<1> SUFFICES ASSUME PaymentInv, AllExplained, [Pay!Next]_payVars PROVE AllExplained'
  OBVIOUS
<1>1. ASSUME UNCHANGED <<payments, outbox, overwrote>> PROVE AllExplained'
  BY <1>1 DEF AllExplained, Explained, Pay!Announced
<1>2. ASSUME NEW r \in Callers, Pay!Continue(r) PROVE AllExplained'
  BY <1>1, <1>2, SavesExplained
  DEF Pay!Continue, Pay!SelectAttempts, Pay!SelectTransactions, Pay!Fail
<1>3. ASSUME NEW p \in Payments, NEW r \in Callers, NEW op \in Pay!Operations,
             Pay!SelectRow(r, op, p)
      PROVE  AllExplained'
  BY <1>1, <1>3 DEF Pay!SelectRow
<1>4. CASE UNCHANGED payVars
  BY <1>1, <1>4 DEF payVars
<1> QED BY <1>2, <1>3, <1>4, InitiateExplained DEF Pay!Next, Callers
-----------------------------------------------------------------------------
(* The return requests *)

StoredRequest == [status: Statuses, order: Orders, payment: Payments]

LEMMA StoredType ==
  ASSUME TypeOK, NEW n \in Calls, returns[n].status # "none"
  PROVE  returns[n] \in StoredRequest
BY DEF TypeOK, Request, StoredRequest

LEMMA TaskType ==
  ASSUME TypeOK, NEW q \in Calls
  PROVE  /\ task[q].op = "create" => task[q].order \in Orders /\ task[q].payment \in Payments
         /\ task[q].op \in {"approve", "reject", "refund"} => task[q].request \in Calls
BY DEF TypeOK, Task

LEMMA PaymentMoves == IInv /\ [Next]_vars => [Pay!Next]_payVars
<1> SUFFICES ASSUME IInv, [Next]_vars PROVE Pay!Next \/ UNCHANGED payVars
  OBVIOUS
<1>1. CASE PaymentStep
  BY <1>1 DEF PaymentStep, Pay!Next
<1>2. ASSUME NEW q \in Calls, StartRefund(q) PROVE Pay!Next
  <2>1. task[q].request \in Calls /\ returns[task[q].request].status # "none"
    BY <1>2, TaskType DEF IInv, ReturnInv, CallsKnow, Knows, StartRefund, Move
  <2>2. returns[task[q].request].payment \in Payments
    BY <2>1, StoredType DEF IInv, StoredRequest
  <2> QED BY <1>2, <2>2 DEF StartRefund, Pay!Next, Pay!Operations
<1>3. ASSUME NEW q \in Calls, Refund(q) PROVE Pay!Next
  BY <1>3 DEF Refund, Pay!Next
<1>4. ASSUME NEW q \in Calls,
             \/ Validate(q) \/ FindNone(q) \/ SaveRequested(q) \/ Load(q) \/ Approve(q)
             \/ Reject(q) \/ RefundReturns(q) \/ MarkRefunded(q) \/ GiveUp(q)
      PROVE  UNCHANGED payVars
  BY <1>4 DEF Validate, FindNone, SaveRequested, Load, Approve, Reject, RefundReturns,
              MarkRefunded, GiveUp
<1>5. CASE UNCHANGED vars
  BY <1>5 DEF vars
<1> QED BY <1>1, <1>2, <1>3, <1>4, <1>5 DEF Next

\* What is announced stays, and the caller of a payment handler stays with its payment.
Grows ==
  /\ outbox \subseteq outbox'
  /\ \A p : Won(p) => Won(p)'
  /\ \A r \in Callers : phase[r] # "idle" => job'[r] = job[r] /\ phase'[r] # "idle"
  /\ \A r \in Callers : phase[r] = "ok" => phase'[r] = "ok"

LEMMA PaymentGrows ==
  ASSUME Pay!TypeOK, [Pay!Next]_payVars
  PROVE  Grows
<1>1. outbox \subseteq outbox'
  BY DEF Pay!Next, Pay!Initiate, Pay!SelectRow, Pay!Continue, Pay!SelectAttempts,
         Pay!SelectTransactions, Pay!SaveConfirmed, Pay!SaveFailed, Pay!SaveRefunded,
         Pay!Save, Pay!Fail, payVars
<1>2. \A p : Won(p) => Won(p)'
  BY <1>1 DEF Won, Pay!Announced
<1>3. ASSUME NEW r \in Callers, phase[r] # "idle"
      PROVE  job'[r] = job[r] /\ phase'[r] # "idle"
  BY <1>3 DEF Pay!Next, Pay!Initiate, Pay!SelectRow, Pay!Continue, Pay!SelectAttempts,
         Pay!SelectTransactions, Pay!SaveConfirmed, Pay!SaveFailed, Pay!SaveRefunded,
         Pay!Save, Pay!Fail, payVars, Pay!TypeOK, Callers
<1>4. ASSUME NEW r \in Callers, phase[r] = "ok" PROVE phase'[r] = "ok"
  BY <1>4 DEF Pay!Next, Pay!Initiate, Pay!SelectRow, Pay!Continue, Pay!SelectAttempts,
         Pay!SelectTransactions, Pay!SaveConfirmed, Pay!SaveFailed, Pay!SaveRefunded,
         Pay!Save, Pay!Fail, payVars, Pay!TypeOK, Callers
<1> QED BY <1>1, <1>2, <1>3, <1>4 DEF Grows

\* Stored requests stay, with their payment, and so does what is told of them.
Keeps ==
  /\ announced \subseteq announced'
  /\ \A n \in Calls : returns[n].status # "none" =>
       returns'[n].status # "none" /\ returns'[n].payment = returns[n].payment

\* A call that does not move goes on knowing what it knew.
LEMMA OthersKnow ==
  ASSUME IInv, Grows, Keeps, NEW q \in Calls,
         stage'[q] = stage[q], task'[q] = task[q], seen'[q] = seen[q],
         returns[q].status = "none" => returns'[q].status = "none"
  PROVE  Knows(q)'
<1>1. Knows(q)
  BY DEF IInv, ReturnInv, CallsKnow
<1>2. q \in Callers
  BY DEF Callers
<1>3. CASE stage[q] \in {"idle", "valid", "clear"}
  BY <1>1, <1>3 DEF Knows, Grows, Won
<1>4. CASE stage[q] \in {"loaded", "refunding", "paidBack"}
  <2>1. task[q].request \in Calls
    BY <1>1, <1>4, TaskType DEF Knows, IInv
  <2>2. Told("ReturnApproved", task[q].request) # {} =>
          Told("ReturnApproved", task[q].request)' # {}
    BY DEF Keeps, Told
  <2> QED BY <1>1, <1>2, <1>4, <2>1, <2>2 DEF Knows, Grows, Keeps
<1>5. CASE stage[q] \in {"ok", "failed"}
  BY <1>5 DEF Knows
<1> QED BY <1>3, <1>4, <1>5 DEF IInv, TypeOK, Stages
LEMMA TypeStep ==
  ASSUME IInv, [Next]_vars, Pay!TypeOK'
  PROVE  TypeOK'
<1> USE DEF IInv, TypeOK
<1>1. ASSUME UNCHANGED returnVars PROVE TypeOK'
  BY <1>1 DEF returnVars
<1>2. ASSUME NEW q \in Calls, Validate(q) PROVE TypeOK'
  <2>1. PICK o \in Orders, p \in Payments :
          task' = [task EXCEPT ![q] = [op |-> "create", order |-> o, payment |-> p]]
    BY <1>2 DEF Validate
  <2>2. [op |-> "create", order |-> o, payment |-> p] \in Task
    BY DEF Task
  <2> QED BY <1>2, <2>1, <2>2 DEF Validate, Move, Stages
<1>3. ASSUME NEW q \in Calls, Load(q) PROVE TypeOK'
  <2>1. PICK op \in {"approve", "reject", "refund"}, n \in Calls :
          /\ returns[n].status # "none"
          /\ task' = [task EXCEPT ![q] = [op |-> op, request |-> n]]
          /\ seen' = [seen EXCEPT ![q] = returns[n].status]
    BY <1>3 DEF Load
  <2>2. [op |-> op, request |-> n] \in Task
    BY DEF Task
  <2>3. returns[n].status \in Statuses
    BY <2>1, StoredType DEF StoredRequest
  <2> QED BY <1>3, <2>1, <2>2, <2>3 DEF Load, Move, Stages
<1>4. ASSUME NEW q \in Calls, SaveRequested(q) PROVE TypeOK'
  <2> DEFINE new == [status |-> "requested", order |-> task[q].order, payment |-> task[q].payment]
             m == [type |-> "ReturnRequested", request |-> q, by |-> q]
  <2>1. task[q].order \in Orders /\ task[q].payment \in Payments
    BY <1>4, TaskType DEF SaveRequested, Move, ReturnInv, CallsKnow, Knows
  <2>2. new \in Request /\ m \in Message
    BY <2>1 DEF Request, Statuses, Message
  <2>3. returns' = [returns EXCEPT ![q] = new] /\ announced' = announced \cup {m}
    BY <1>4 DEF SaveRequested, Announce
  <2> HIDE DEF new, m
  <2> QED BY <1>4, <2>2, <2>3 DEF SaveRequested, Move, Stages
<1>5. ASSUME NEW q \in Calls, NEW status \in Statuses,
             NEW type \in {"ReturnApproved", "ReturnRejected", "ReturnRefunded"},
             Save(q, status, type), stage[q] \in {"loaded", "paidBack"},
             stage' = [stage EXCEPT ![q] = "ok"]
      PROVE  TypeOK'
  <2> DEFINE n == task[q].request
             new == [returns[n] EXCEPT !.status = status]
             m == [type |-> type, request |-> n, by |-> q]
  <2>1. n \in Calls /\ returns[n].status # "none"
    BY <1>5, TaskType DEF ReturnInv, CallsKnow, Knows
  <2>2. returns[n] \in StoredRequest
    BY <2>1, StoredType
  <2>3. new \in Request /\ m \in Message
    BY <2>1, <2>2 DEF StoredRequest, Request, Message
  <2>4. /\ returns' = [returns EXCEPT ![n] = new] /\ announced' = announced \cup {m}
        /\ clobbered' = (clobbered \/ returns[n].status # seen[q])
        /\ UNCHANGED <<task, seen>>
    BY <1>5 DEF Save, Announce
  <2> HIDE DEF n, new, m
  <2> QED BY <1>5, <2>1, <2>3, <2>4 DEF Stages
<1>6. ASSUME NEW q \in Calls, Approve(q) \/ Reject(q) \/ MarkRefunded(q) PROVE TypeOK'
  BY <1>5, <1>6 DEF Approve, Reject, MarkRefunded, Move, Statuses
<1>7. ASSUME NEW q \in Calls, FindNone(q) \/ StartRefund(q) \/ RefundReturns(q) \/ GiveUp(q)
      PROVE  TypeOK'
  BY <1>7 DEF FindNone, StartRefund, RefundReturns, GiveUp, Move, Stages
<1>8. CASE UNCHANGED vars
  BY <1>1, <1>8 DEF vars
<1>9. PaymentStep \/ (\E q \in Calls : Refund(q)) => UNCHANGED returnVars
  BY DEF PaymentStep, Refund
<1> QED BY <1>1, <1>2, <1>3, <1>4, <1>6, <1>7, <1>8, <1>9 DEF Next

\* The steps that write no return request.
LEMMA QuietKeeps ==
  ASSUME IInv, Grows, UNCHANGED <<returns, announced>>,
         \A q \in Calls : Knows(q)' \/ UNCHANGED <<stage[q], task[q], seen[q]>>
  PROVE  ReturnInv'
<1>1. CallsKnow'
  <2> SUFFICES ASSUME NEW q \in Calls PROVE Knows(q)'
    BY DEF CallsKnow
  <2>1. Keeps
    BY DEF Keeps
  <2> QED BY <2>1, OthersKnow
<1>2. AnnouncedRefundHappened'
  BY DEF IInv, ReturnInv, AnnouncedRefundHappened, Grows
<1>3. ReturnHasReasons'
  BY DEF IInv, ReturnInv, ReturnHasReasons, ReturnWasPaid, RefundedWasApproved, Told, Grows, Won
<1> QED BY <1>1, <1>2, <1>3 DEF IInv, ReturnInv, ApprovedWasTold, AnnouncedExist, Told

LEMMA QuietSteps ==
  ASSUME IInv, Grows, NEW q \in Calls,
         \/ Validate(q) \/ FindNone(q) \/ Load(q) \/ StartRefund(q) \/ Refund(q)
         \/ RefundReturns(q) \/ GiveUp(q)
  PROVE  ReturnInv'
<1>1. Knows(q) /\ q \in Callers /\ TypeOK /\ Pay!TypeOK
  BY DEF IInv, ReturnInv, CallsKnow, Callers, TypeOK
<1>2. CASE Validate(q)
  <2>1. PICK o \in Orders, p \in Payments :
          /\ payments[p].status = "succeeded"
          /\ task' = [task EXCEPT ![q] = [op |-> "create", order |-> o, payment |-> p]]
    BY <1>2 DEF Validate, Paid
  <2>2. Won(p)'
    BY <2>1 DEF IInv, PaymentInv, StoredHasReasons, Grows
  <2>3. stage'[q] = "valid" /\ task'[q].op = "create" /\ task'[q].payment = p
    BY <1>1, <1>2, <2>1 DEF Validate, Move, TypeOK
  <2>4. Knows(q)'
    BY <1>1, <1>2, <2>2, <2>3 DEF Validate, Move, Knows, Won
  <2> QED BY <1>1, <1>2, <2>4, QuietKeeps DEF Validate, Move, TypeOK
<1>3. CASE FindNone(q)
  <2>1. Knows(q)'
    BY <1>1, <1>3 DEF FindNone, Move, Knows, Won, Grows, TypeOK
  <2> QED BY <1>1, <1>3, <2>1, QuietKeeps DEF FindNone, Move, TypeOK
<1>4. CASE Load(q)
  <2>1. PICK op \in {"approve", "reject", "refund"}, n \in Calls :
          /\ returns[n].status # "none"
          /\ task' = [task EXCEPT ![q] = [op |-> op, request |-> n]]
          /\ seen' = [seen EXCEPT ![q] = returns[n].status]
    BY <1>4 DEF Load
  <2>2. /\ stage'[q] = "loaded" /\ task'[q].op = op /\ task'[q].request = n
        /\ seen'[q] = returns[n].status
    BY <1>1, <1>4, <2>1 DEF Load, Move, TypeOK
  <2>3. seen'[q] = "approved" => Told("ReturnApproved", task[q].request)' # {}
    BY <1>4, <2>2 DEF IInv, ReturnInv, ApprovedWasTold, Told, Load
  <2>4. Knows(q)'
    BY <1>4, <2>1, <2>2, <2>3 DEF Knows, Load
  <2> QED BY <1>1, <1>4, <2>1, <2>4, QuietKeeps DEF Load, Move, TypeOK
<1>5. CASE StartRefund(q)
  <2>1. /\ stage[q] = "loaded" /\ stage'[q] = "refunding" /\ phase'[q] = "row"
        /\ job'[q] = [op |-> "refund", payment |-> returns[task[q].request].payment]
        /\ UNCHANGED <<returns, announced, task, seen>>
    BY <1>1, <1>5 DEF StartRefund, Move, TypeOK, Pay!SelectRow, Pay!TypeOK, Callers
  <2>2. Knows(q)'
    BY <1>1, <2>1 DEF Knows, Told
  <2> QED BY <1>1, <1>5, <2>2, QuietKeeps DEF StartRefund, Move, TypeOK
<1>6. CASE Refund(q)
  BY <1>6, QuietKeeps DEF Refund, returnVars
<1>7. CASE RefundReturns(q)
  <2>1. /\ stage[q] = "refunding" /\ stage'[q] = "paidBack" /\ phase'[q] = "ok"
        /\ UNCHANGED <<returns, announced, task, seen, job>>
    BY <1>1, <1>7 DEF RefundReturns, Move, TypeOK, payVars
  <2>2. Knows(q)'
    BY <1>1, <2>1 DEF Knows, Told
  <2> QED BY <1>1, <1>7, <2>2, QuietKeeps DEF RefundReturns, Move, TypeOK
<1>8. CASE GiveUp(q)
  <2>1. stage'[q] = "failed"
    BY <1>1, <1>8 DEF GiveUp, TypeOK
  <2>2. Knows(q)'
    BY <2>1 DEF Knows
  <2> QED BY <1>1, <1>8, <2>2, QuietKeeps DEF GiveUp, TypeOK
<1> QED BY <1>2, <1>3, <1>4, <1>5, <1>6, <1>7, <1>8
LEMMA SaveRequestedKeeps ==
  ASSUME IInv, Grows, NEW q \in Calls, SaveRequested(q)
  PROVE  ReturnInv'
<1>1. TypeOK /\ Knows(q)
  BY DEF IInv, ReturnInv, CallsKnow
<1>2. /\ returns[q].status = "none" /\ Won(task[q].payment)
      /\ stage[q] = "clear" /\ stage' = [stage EXCEPT ![q] = "ok"]
  BY <1>1 DEF SaveRequested, Move, Knows
<1>3. /\ returns'[q].status = "requested" /\ returns'[q].payment = task[q].payment
      /\ \A n \in Calls \ {q} : returns'[n] = returns[n]
      /\ stage'[q] = "ok" /\ \A n \in Calls \ {q} : stage'[n] = stage[n]
  BY <1>1, <1>2 DEF SaveRequested, TypeOK
<1>4. announced' = announced \cup {[type |-> "ReturnRequested", request |-> q, by |-> q]}
      /\ UNCHANGED <<payVars, task, seen, clobbered>>
  BY DEF SaveRequested, Announce
<1>5. Keeps
  BY <1>2, <1>3, <1>4 DEF Keeps
<1>6. CallsKnow'
  <2> SUFFICES ASSUME NEW c \in Calls PROVE Knows(c)'
    BY DEF CallsKnow
  <2>1. CASE c = q
    BY <1>3, <2>1 DEF Knows
  <2>2. CASE c # q
    BY <1>3, <1>4, <1>5, <2>2, OthersKnow
  <2> QED BY <2>1, <2>2
<1>7. \A type \in {"ReturnApproved", "ReturnRejected", "ReturnRefunded"}, n \in Calls :
        Told(type, n)' = Told(type, n)
  BY <1>4 DEF Told
<1>8. ApprovedWasTold'
  BY <1>3, <1>7 DEF IInv, ReturnInv, ApprovedWasTold
<1>9. AnnouncedExist' /\ AnnouncedRefundHappened'
  <2> SUFFICES ASSUME NEW m \in announced'
               PROVE  /\ returns'[m.request].status # "none"
                      /\ m.type = "ReturnRefunded" =>
                           [type |-> "PaymentRefunded", payment |-> returns'[m.request].payment,
                            by |-> m.by] \in outbox'
    BY DEF AnnouncedExist, AnnouncedRefundHappened
  <2>1. CASE m \in announced
    <3>1. returns[m.request].status # "none" /\ m.request \in Calls
      BY <1>1, <2>1 DEF IInv, ReturnInv, AnnouncedExist, TypeOK, Message
    <3> QED BY <1>5, <2>1, <3>1 DEF IInv, ReturnInv, AnnouncedRefundHappened, Keeps, Grows
  <2>2. CASE m = [type |-> "ReturnRequested", request |-> q, by |-> q]
    BY <1>3, <2>2
  <2> QED BY <1>4, <2>1, <2>2
<1>10. ReturnWasPaid'
  <2> SUFFICES ASSUME NEW n \in Calls, returns'[n].status # "none"
               PROVE  Pay!Announced("PaymentSucceeded", returns[n].payment)' # {}
    BY DEF ReturnWasPaid
  <2>1. CASE n = q
    BY <1>2, <1>3, <1>4, <2>1 DEF Won, payVars, Pay!Announced
  <2>2. CASE n # q
    BY <1>3, <1>4, <2>2 DEF IInv, ReturnInv, ReturnHasReasons, ReturnWasPaid, payVars, Pay!Announced
  <2> QED BY <2>1, <2>2
<1>11. RefundedWasApproved'
  BY <1>7 DEF IInv, ReturnInv, ReturnHasReasons, RefundedWasApproved
<1> QED BY <1>6, <1>8, <1>9, <1>10, <1>11 DEF ReturnInv, ReturnHasReasons

Decisions == {<<"approved", "ReturnApproved">>, <<"rejected", "ReturnRejected">>,
              <<"refunded", "ReturnRefunded">>}

\* What a save of a decision is: of approve, reject and the end of process alike.
Decides(q, n, status, type) ==
  /\ <<status, type>> \in Decisions
  /\ n \in Calls /\ n = task[q].request
  /\ returns[n] \in StoredRequest
  /\ status \in {"approved", "rejected"} => seen[q] = "requested"
  /\ status = "refunded" =>
       /\ seen[q] = "approved" /\ Told("ReturnApproved", n) # {}
       /\ [type |-> "PaymentRefunded", payment |-> returns[n].payment, by |-> q] \in outbox
  /\ returns' = [returns EXCEPT ![n].status = status]
  /\ announced' = announced \cup {[type |-> type, request |-> n, by |-> q]}
  /\ clobbered' = (clobbered \/ returns[n].status # seen[q])
  /\ stage' = [stage EXCEPT ![q] = "ok"]
  /\ UNCHANGED <<payVars, task, seen>>

LEMMA SavesDecide ==
  ASSUME IInv, NEW q \in Calls, Approve(q) \/ Reject(q) \/ MarkRefunded(q)
  PROVE  \E n, status, type : Decides(q, n, status, type)
<1> DEFINE n == task[q].request
<1>1. Knows(q) /\ stage[q] \in {"loaded", "paidBack"}
  BY DEF IInv, ReturnInv, CallsKnow, Approve, Reject, MarkRefunded, Move
<1>2. n \in Calls /\ returns[n].status # "none"
  BY <1>1, TaskType DEF Knows, IInv
<1>3. returns[n] \in StoredRequest
  BY <1>2, StoredType DEF IInv
<1>4. ASSUME MarkRefunded(q)
      PROVE  /\ seen[q] = "approved" /\ Told("ReturnApproved", n) # {}
             /\ [type |-> "PaymentRefunded", payment |-> returns[n].payment, by |-> q] \in outbox
  <2>1. stage[q] = "paidBack" /\ seen[q] = "approved"
    BY <1>4 DEF MarkRefunded, Move
  <2>2. phase[q] = "ok" /\ job[q].op = "refund" /\ job[q].payment = returns[n].payment
    BY <1>1, <2>1 DEF Knows
  <2> QED BY <1>1, <2>1, <2>2 DEF IInv, PaymentInv, RefundIsDone, Knows, Callers
<1>5. Approve(q) => Decides(q, n, "approved", "ReturnApproved")
  BY <1>2, <1>3 DEF Approve, MayDecide, Move, Save, Announce, Decides, Decisions
<1>6. Reject(q) => Decides(q, n, "rejected", "ReturnRejected")
  BY <1>2, <1>3 DEF Reject, MayDecide, Move, Save, Announce, Decides, Decisions
<1>7. MarkRefunded(q) => Decides(q, n, "refunded", "ReturnRefunded")
  BY <1>2, <1>3, <1>4 DEF MarkRefunded, Move, Save, Announce, Decides, Decisions
<1> QED BY <1>5, <1>6, <1>7

LEMMA DecisionKeeps ==
  ASSUME IInv, Grows, NEW q \in Calls, NEW n, NEW status, NEW type, Decides(q, n, status, type)
  PROVE  ReturnInv'
<1> DEFINE m == [type |-> type, request |-> n, by |-> q]
<1>1. TypeOK /\ n \in Calls /\ returns[n].status # "none" /\ status \in Statuses
  BY DEF IInv, Decides, Decisions, StoredRequest, Statuses
<1>2. /\ returns'[n].status = status /\ returns'[n].payment = returns[n].payment
      /\ \A x \in Calls \ {n} : returns'[x] = returns[x]
  BY <1>1 DEF Decides, TypeOK, StoredRequest
<1>3. announced' = announced \cup {m} /\ UNCHANGED <<payVars, task, seen>>
  BY DEF Decides
<1>4. stage'[q] = "ok" /\ \A x \in Calls \ {q} : stage'[x] = stage[x]
  BY <1>1 DEF Decides, TypeOK
<1>5. Keeps
  BY <1>1, <1>2, <1>3 DEF Keeps, Statuses
<1>6. CallsKnow'
  <2> SUFFICES ASSUME NEW c \in Calls PROVE Knows(c)'
    BY DEF CallsKnow
  <2>1. CASE c = q
    BY <1>4, <2>1 DEF Knows
  <2>2. CASE c # q
    BY <1>1, <1>2, <1>3, <1>4, <1>5, <2>2, OthersKnow
  <2> QED BY <2>1, <2>2
<1>7. \A t, x : Told(t, x) \subseteq Told(t, x)'
  BY <1>3 DEF Told
<1>8. m \in Told(type, n)'
  BY <1>3 DEF Told
<1>9. ApprovedWasTold'
  <2> SUFFICES ASSUME NEW x \in Calls, returns'[x].status = "approved"
               PROVE  Told("ReturnApproved", x)' # {}
    BY DEF ApprovedWasTold
  <2>1. CASE x = n
    <3>1. type = "ReturnApproved"
      BY <1>2, <2>1 DEF Decides, Decisions
    <3> QED BY <1>8, <2>1, <3>1
  <2>2. CASE x # n
    BY <1>2, <1>7, <2>2 DEF IInv, ReturnInv, ApprovedWasTold
  <2> QED BY <2>1, <2>2
<1>10. AnnouncedExist' /\ AnnouncedRefundHappened'
  <2> SUFFICES ASSUME NEW a \in announced'
               PROVE  /\ returns'[a.request].status # "none"
                      /\ a.type = "ReturnRefunded" =>
                           [type |-> "PaymentRefunded", payment |-> returns'[a.request].payment,
                            by |-> a.by] \in outbox'
    BY DEF AnnouncedExist, AnnouncedRefundHappened
  <2>1. CASE a \in announced
    <3>1. returns[a.request].status # "none" /\ a.request \in Calls
      BY <1>1, <2>1 DEF IInv, ReturnInv, AnnouncedExist, TypeOK, Message
    <3> QED BY <1>5, <2>1, <3>1 DEF IInv, ReturnInv, AnnouncedRefundHappened, Keeps, Grows
  <2>2. CASE a = m
    <3>1. a.request = n /\ a.by = q /\ a.type = type
      BY <2>2
    <3>2. type = "ReturnRefunded" => status = "refunded"
      BY DEF Decides, Decisions
    <3>3. returns'[n].status # "none"
      BY <1>1, <1>2 DEF Statuses
    <3> QED BY <1>2, <3>1, <3>2, <3>3 DEF Decides, Grows
  <2> QED BY <1>3, <2>1, <2>2
<1>11. ReturnWasPaid'
  BY <1>2, <1>1, <1>3 DEF IInv, ReturnInv, ReturnHasReasons, ReturnWasPaid, payVars, Pay!Announced
<1>12. RefundedWasApproved'
  <2> SUFFICES ASSUME NEW x \in Calls, Told("ReturnRefunded", x)' # {}
               PROVE  Told("ReturnApproved", x)' # {}
    BY DEF RefundedWasApproved
  <2>1. CASE Told("ReturnRefunded", x) # {}
    BY <1>7, <2>1 DEF IInv, ReturnInv, ReturnHasReasons, RefundedWasApproved
  <2>2. CASE Told("ReturnRefunded", x) = {}
    <3>1. x = n /\ type = "ReturnRefunded"
      BY <1>3, <2>2 DEF Told
    <3>2. Told("ReturnApproved", n) # {}
      BY <3>1 DEF Decides, Decisions
    <3> QED BY <1>7, <3>1, <3>2
  <2> QED BY <2>1, <2>2
<1> QED BY <1>6, <1>9, <1>10, <1>11, <1>12 DEF ReturnInv, ReturnHasReasons
LEMMA InvInit == Init => IInv
<1> SUFFICES ASSUME Init PROVE IInv
  OBVIOUS
<1>1. PaymentInv
  BY PaymentInit DEF Init
<1>2. TypeOK
  BY <1>1 DEF Init, PaymentInv, TypeOK, Request, Task, Stages
<1>3. ReturnInv
  BY DEF Init, ReturnInv, CallsKnow, Knows, ApprovedWasTold, AnnouncedExist,
         AnnouncedRefundHappened, ReturnHasReasons, ReturnWasPaid, RefundedWasApproved, Told
<1> QED BY <1>1, <1>2, <1>3 DEF IInv

LEMMA InvStep == IInv /\ [Next]_vars => IInv'
<1> SUFFICES ASSUME IInv, [Next]_vars PROVE IInv'
  OBVIOUS
<1>1. [Pay!Next]_payVars
  BY PaymentMoves
<1>2. PaymentInv' /\ Grows
  BY <1>1, PaymentStepKeeps, PaymentGrows DEF IInv, PaymentInv
<1>3. TypeOK'
  BY <1>2, TypeStep DEF PaymentInv
<1>4. ReturnInv'
  <2>1. CASE PaymentStep \/ UNCHANGED vars
    BY <1>2, <2>1, QuietKeeps DEF PaymentStep, vars, returnVars
  <2>2. ASSUME NEW q \in Calls, Approve(q) \/ Reject(q) \/ MarkRefunded(q) PROVE ReturnInv'
    BY <1>2, <2>2, SavesDecide, DecisionKeeps
  <2>3. ASSUME NEW q \in Calls,
               \/ Validate(q) \/ FindNone(q) \/ Load(q) \/ StartRefund(q) \/ Refund(q)
               \/ RefundReturns(q) \/ GiveUp(q)
        PROVE  ReturnInv'
    BY <1>2, <2>3, QuietSteps
  <2>4. ASSUME NEW q \in Calls, SaveRequested(q) PROVE ReturnInv'
    BY <1>2, <2>4, SaveRequestedKeeps
  <2> QED BY <2>1, <2>2, <2>3, <2>4 DEF Next
<1> QED BY <1>2, <1>3, <1>4 DEF IInv

LEMMA Invariance == Spec => []IInv
BY InvInit, InvStep, PTL DEF Spec

-----------------------------------------------------------------------------
(* The history of the return requests *)

LEMMA DecisionDecided ==
  ASSUME IInv, AllDecided, NEW q \in Calls, NEW n, NEW status, NEW type,
         Decides(q, n, status, type)
  PROVE  AllDecided'
<1> SUFFICES ASSUME ~clobbered', NEW x \in Calls PROVE Decided(x)'
  BY DEF AllDecided
<1> DEFINE m == [type |-> type, request |-> n, by |-> q]
           approved == Told("ReturnApproved", n)
           rejected == Told("ReturnRejected", n)
           refunded == Told("ReturnRefunded", n)
<1>1. /\ <<status, type>> \in Decisions /\ n \in Calls
      /\ announced' = announced \cup {m} /\ returns[n].status = seen[q] /\ ~clobbered
      /\ status \in {"approved", "rejected"} => returns[n].status = "requested"
      /\ status = "refunded" => returns[n].status = "approved"
  BY DEF Decides
<1>2. Decided(x) /\ Decided(n)
  BY <1>1 DEF AllDecided
<1>3. returns'[n].status = status /\ \A y \in Calls \ {n} : returns'[y] = returns[y]
  BY <1>1 DEF Decides, IInv, TypeOK, StoredRequest
<1>4. CASE x # n
  <2>1. \A t : Told(t, x)' = Told(t, x)
    BY <1>1, <1>4 DEF Told
  <2> QED BY <1>2, <1>3, <1>4, <2>1 DEF Decided
<1>5. CASE x = n
  <2>1. /\ approved' = approved \cup (IF type = "ReturnApproved" THEN {m} ELSE {})
        /\ rejected' = rejected \cup (IF type = "ReturnRejected" THEN {m} ELSE {})
        /\ refunded' = refunded \cup (IF type = "ReturnRefunded" THEN {m} ELSE {})
    BY <1>1 DEF Told
  <2>2. /\ AtMostOne(approved \cup rejected)
        /\ returns[n].status = "rejected" <=> rejected # {}
        /\ returns[n].status = "refunded" <=> refunded # {}
        /\ returns[n].status \in {"none", "requested"} => approved = {}
    BY <1>2 DEF Decided
  <2> SUFFICES /\ AtMostOne(approved' \cup rejected')
               /\ status = "rejected" <=> rejected' # {}
               /\ status = "refunded" <=> refunded' # {}
               /\ status \in {"none", "requested"} => approved' = {}
    BY <1>3, <1>5 DEF Decided
  <2> HIDE DEF m, approved, rejected, refunded
  <2>3. CASE status \in {"approved", "rejected"}
    <3>1. approved = {} /\ rejected = {} /\ refunded = {}
      BY <1>1, <2>2, <2>3
    <3> QED BY <1>1, <2>1, <2>3, <3>1 DEF AtMostOne, Decisions
  <2>4. CASE status = "refunded"
    <3>1. rejected = {} /\ type = "ReturnRefunded"
      BY <1>1, <2>2, <2>4 DEF Decisions
    <3> QED BY <2>1, <2>2, <2>4, <3>1 DEF AtMostOne
  <2> QED BY <1>1, <2>3, <2>4 DEF Decisions
<1> QED BY <1>4, <1>5

LEMMA DecidedStep == IInv /\ AllDecided /\ [Next]_vars => AllDecided'
<1> SUFFICES ASSUME IInv, AllDecided, [Next]_vars PROVE AllDecided'
  OBVIOUS
<1>1. ASSUME UNCHANGED <<returns, announced, clobbered>> PROVE AllDecided'
  BY <1>1 DEF AllDecided, Decided, Told
<1>2. CASE PaymentStep \/ UNCHANGED vars
  BY <1>1, <1>2 DEF PaymentStep, vars, returnVars
<1>3. ASSUME NEW q \in Calls,
             \/ Validate(q) \/ FindNone(q) \/ Load(q) \/ StartRefund(q) \/ Refund(q)
             \/ RefundReturns(q) \/ GiveUp(q)
      PROVE  AllDecided'
  BY <1>1, <1>3 DEF Validate, FindNone, Load, StartRefund, Refund, RefundReturns, GiveUp, returnVars
<1>4. ASSUME NEW q \in Calls, SaveRequested(q) PROVE AllDecided'
  <2> SUFFICES ASSUME ~clobbered, NEW x \in Calls PROVE Decided(x)'
    BY <1>4 DEF AllDecided, SaveRequested
  <2>1. Decided(x)
    BY DEF AllDecided
  <2>2. \A t \in {"ReturnApproved", "ReturnRejected", "ReturnRefunded"} : Told(t, x)' = Told(t, x)
    BY <1>4 DEF SaveRequested, Announce, Told
  <2>3. CASE x = q
    <3>1. returns[q].status = "none" /\ returns'[q].status = "requested"
      BY <1>4 DEF IInv, ReturnInv, CallsKnow, Knows, SaveRequested, Move, TypeOK
    <3> QED BY <2>1, <2>2, <2>3, <3>1 DEF Decided
  <2>4. CASE x # q
    <3>1. returns'[x] = returns[x]
      BY <1>4, <2>4 DEF SaveRequested, IInv, TypeOK
    <3> QED BY <2>1, <2>2, <3>1 DEF Decided
  <2> QED BY <2>3, <2>4
<1>5. ASSUME NEW q \in Calls, Approve(q) \/ Reject(q) \/ MarkRefunded(q) PROVE AllDecided'
  BY <1>5, SavesDecide, DecisionDecided
<1> QED BY <1>2, <1>3, <1>4, <1>5 DEF Next

-----------------------------------------------------------------------------

\* Types of the return requests and of the payments they refund, for any calls.
THEOREM TypeCorrect == Spec => []TypeOK
BY Invariance, PTL DEF IInv

\* However loads and saves of a payment cross, money goes back only for a payment that
\* was announced as succeeded, and the rows written with a status fit to it.
THEOREM PaymentsHaveReasons == Spec => []StatusHasReasons
<1>1. IInv => StatusHasReasons
  BY DEF IInv, PaymentInv, StatusHasReasons
<1> QED BY <1>1, Invariance, PTL

\* As long as nobody overwrote what he had not read, the announced history of a payment
\* says what is stored.
THEOREM HistoryExplains == Spec => []HistoryExplainsPayment
<1>1. Init => AllExplained
  BY DEF Init, Pay!Init, Pay!New, Pay!Announced, AllExplained, Explained, AtMostOne
<1>2. IInv /\ AllExplained /\ [Next]_vars => AllExplained'
  BY PaymentMoves, PaymentStepExplained DEF IInv
<1>3. AllExplained => HistoryExplainsPayment
  <2> SUFFICES ASSUME ~overwrote, AllExplained, NEW p \in Payments
               PROVE  LET won  == Pay!Announced("PaymentSucceeded", p)
                          lost == Pay!Announced("PaymentFailed", p)
                          back == Pay!Announced("PaymentRefunded", p)
                      IN  /\ Cardinality(won \cup lost) <= 1 /\ Cardinality(back) <= 1
                          /\ payments[p].transactions = {m.by : m \in won}
                          /\ payments[p].status = "refunded" <=> back # {}
                          /\ payments[p].status = "failed" <=> lost # {}
                          /\ payments[p].status = "succeeded" <=> won # {} /\ back = {}
    BY SameCardinality DEF HistoryExplainsPayment, Pay!HistoryExplainsPayment
  <2>1. Explained(p)
    BY DEF AllExplained
  <2> QED BY <2>1, AtMostOneCardinality DEF Explained
<1> QED BY <1>1, <1>2, <1>3, Invariance, PTL DEF Spec

\* A return that was announced as refunded has been paid back by the call that says so.
THEOREM RefundsHappened == Spec => []AnnouncedRefundHappened
<1>1. IInv => AnnouncedRefundHappened
  BY DEF IInv, ReturnInv
<1> QED BY <1>1, Invariance, PTL

\* A return is stored only for a payment that had succeeded, and refunded only when it
\* was approved.
THEOREM ReturnsHaveReasons == Spec => []ReturnHasReasons
<1>1. IInv => ReturnHasReasons
  BY DEF IInv, ReturnInv
<1> QED BY <1>1, Invariance, PTL

\* As long as no save replaced a request its call had not read, a return is decided once.
THEOREM ReturnsDecidedOnce == Spec => []DecidedOnce
<1>1. Init => AllDecided
  BY DEF Init, AllDecided, Decided, Told, AtMostOne
<1>2. AllDecided => DecidedOnce
  BY AtMostOneCardinality DEF AllDecided, Decided, DecidedOnce
<1> QED BY <1>1, <1>2, DecidedStep, Invariance, PTL DEF Spec
=============================================================================
