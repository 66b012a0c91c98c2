---------------------------- MODULE OutboxProofs ----------------------------
(***************************************************************************)
(* Proofs about Outbox for every set of messages and workers, every batch  *)
(* size and any number of crashes: its safety invariants, and that it      *)
(* implements AtLeastOnce.                                                 *)
(*                                                                         *)
(* The invariant that carries them is Progress: whichever worker is at a   *)
(* message, the handlers before the one it runs next have completed it,    *)
(* because a worker enters every message at step 0 and goes on only when   *)
(* a handler has returned.                                                 *)
(***************************************************************************)
EXTENDS Outbox, TLAPS

\* A worker without a batch starts the next one at its first message's step 0.
IdleAtZero == \A w \in Workers : batch[w] = {} => step[w] = 0

Progress ==
  \A w \in Workers, m \in Messages : At(w, m) =>
    /\ step[w] <= Handlers[m] + 1
    /\ \A k \in 1..Handlers[m] : k < step[w] => k \in completed[m]

Inv == TypeOK /\ IdleAtZero /\ Progress /\ HandlersInOrder /\ ProcessedAfterAllHandlers

\* A worker is at one message only: the oldest of its batch.
LEMMA OneAt ==
  ASSUME NEW w \in Workers, NEW m \in Messages, NEW n \in Messages, At(w, m), At(w, n)
  PROVE  m = n
  BY MessagesAssumption DEF At

LEMMA AllCompleted ==
  ASSUME Inv, NEW w \in Workers, NEW m \in Messages, At(w, m), step[w] = Handlers[m] + 1
  PROVE  completed[m] = 1..Handlers[m]
<1>1. completed[m] \subseteq 1..Handlers[m]
  BY DEF Inv, TypeOK
<1>2. \A k \in 1..Handlers[m] : k < Handlers[m] + 1
  BY HandlersAssumption
<1>3. \A k \in 1..Handlers[m] : k \in completed[m]
  BY <1>2 DEF Inv, Progress
<1>. QED
  BY <1>1, <1>3

LEMMA InvInit == Init => Inv
  BY MaxFaultsAssumption
     DEF Init, Inv, TypeOK, IdleAtZero, Progress, At, HandlersInOrder, ProcessedAfterAllHandlers

LEMMA WriteKeepsInv ==
  ASSUME Inv, NEW m \in Messages, Write(m)
  PROVE  Inv'
  BY DEF Inv, TypeOK, IdleAtZero, Progress, At, HandlersInOrder, ProcessedAfterAllHandlers, Write

LEMMA FetchKeepsInv ==
  ASSUME Inv, NEW w \in Workers, Fetch(w)
  PROVE  Inv'
<1>1. Oldest(Unprocessed) \subseteq written
  BY DEF Oldest, Unprocessed
<1>2. batch' \in [Workers -> SUBSET written'] /\ step[w] = 0
  BY <1>1 DEF Fetch, Inv, TypeOK, IdleAtZero
<1>3. Progress'
  BY <1>2, HandlersAssumption DEF Fetch, Inv, TypeOK, Progress, At
<1>. QED
  BY <1>2, <1>3 DEF Fetch, Inv, TypeOK, IdleAtZero, HandlersInOrder, ProcessedAfterAllHandlers

LEMMA ParseKeepsInv ==
  ASSUME Inv, NEW w \in Workers, NEW m \in Messages, Parse(w, m)
  PROVE  Inv'
<1>1. Progress'
  BY HandlersAssumption, OneAt DEF Parse, Inv, TypeOK, Progress, At
<1>. QED
  BY <1>1 DEF Parse, At, Inv, TypeOK, IdleAtZero, HandlersInOrder, ProcessedAfterAllHandlers

LEMMA HandleKeepsInv ==
  ASSUME Inv, NEW w \in Workers, NEW m \in Messages, Handle(w, m)
  PROVE  Inv'
<1>. DEFINE k == step[w]
<1>1. /\ k \in 1..Handlers[m] /\ k \in Nat /\ Handlers[m] \in Nat
      /\ \A j \in 1..Handlers[m] : j < k => j \in completed[m]
  BY HandlersAssumption DEF Handle, Inv, Progress, TypeOK
<1>2. /\ completed' \in [Messages -> SUBSET Nat]
      /\ completed'[m] = completed[m] \cup {k}
      /\ \A n \in Messages \ {m} : completed'[n] = completed[n]
  BY <1>1 DEF Handle, Inv, TypeOK
<1>. HIDE DEF k
<1>3. TypeOK'
  BY <1>1, <1>2 DEF Handle, Inv, TypeOK
<1>4. IdleAtZero'
  BY DEF Handle, At, Inv, TypeOK, IdleAtZero
<1>5. Progress'
  <2>1. \A n \in Messages : completed[n] \subseteq completed'[n]
    BY <1>2
  <2>2. step' = [step EXCEPT ![w] = k + 1] /\ batch' = batch
    BY DEF Handle, k
  <2>3. ASSUME NEW u \in Workers, NEW n \in Messages, At(u, n)'
        PROVE  /\ step'[u] <= Handlers[n] + 1
               /\ \A j \in 1..Handlers[n] : j < step'[u] => j \in completed'[n]
    <3>1. At(u, n)
      BY <2>2, <2>3 DEF At
    <3>2. CASE u # w
      BY <2>1, <2>2, <3>1, <3>2 DEF Inv, Progress, TypeOK
    <3>3. CASE u = w
      <4>1. n = m
        BY <3>1, <3>3, OneAt DEF Handle
      <4>2. step'[u] = k + 1
        BY <2>2, <3>3 DEF Inv, TypeOK
      <4>. QED
        BY <1>1, <1>2, <4>1, <4>2
    <3>. QED
      BY <3>2, <3>3
  <2>. QED
    BY <2>3 DEF Progress
<1>6. HandlersInOrder'
  <2>1. \A j \in completed'[m] : 1..j \subseteq completed'[m]
    BY <1>1, <1>2 DEF Inv, TypeOK, HandlersInOrder
  <2>. QED
    BY <1>2, <2>1 DEF Inv, HandlersInOrder
<1>7. ProcessedAfterAllHandlers'
  <2>1. processed' = processed /\ processed \subseteq Messages
    BY DEF Handle, Inv, TypeOK
  <2>2. m \in processed => completed'[m] = 1..Handlers[m]
    BY <1>1, <1>2 DEF Inv, ProcessedAfterAllHandlers
  <2>. QED
    BY <1>2, <2>1, <2>2 DEF Inv, ProcessedAfterAllHandlers
<1>. QED
  BY <1>3, <1>4, <1>5, <1>6, <1>7 DEF Inv

\* A worker that leaves a message, or drops its batch, is at step 0 again.
LEMMA LeavingKeepsProgress ==
  ASSUME Inv, NEW w \in Workers, UNCHANGED <<written, completed>>,
         NEW B \in SUBSET batch[w],
         batch' = [batch EXCEPT ![w] = B], step' = [step EXCEPT ![w] = 0]
  PROVE  /\ IdleAtZero' /\ Progress' /\ HandlersInOrder'
         /\ batch' \in [Workers -> SUBSET written'] /\ step' \in [Workers -> Nat]
<1>1. batch' \in [Workers -> SUBSET written'] /\ step' \in [Workers -> Nat]
  BY DEF Inv, TypeOK
<1>2. IdleAtZero'
  BY DEF Inv, TypeOK, IdleAtZero
<1>3. Progress'
  <2>1. \A u \in Workers, n \in Messages : u # w /\ At(u, n)' => At(u, n) /\ step'[u] = step[u]
    BY DEF At, Inv, TypeOK
  <2>2. step'[w] = 0
    BY DEF Inv, TypeOK
  <2>. QED
    BY <2>1, <2>2, HandlersAssumption DEF Inv, Progress
<1>4. HandlersInOrder'
  BY DEF Inv, HandlersInOrder
<1>. QED
  BY <1>1, <1>2, <1>3, <1>4

LEMMA MarkKeepsInv ==
  ASSUME Inv, NEW w \in Workers, NEW m \in Messages, MarkProcessed(w, m)
  PROVE  Inv'
<1>1. /\ UNCHANGED <<written, completed>> /\ batch[w] \ {m} \in SUBSET batch[w]
      /\ batch' = [batch EXCEPT ![w] = batch[w] \ {m}] /\ step' = [step EXCEPT ![w] = 0]
  BY DEF MarkProcessed, Advance
<1>2. completed[m] = 1..Handlers[m]
  BY AllCompleted DEF MarkProcessed
<1>3. ProcessedAfterAllHandlers'
  BY <1>2 DEF MarkProcessed, Inv, ProcessedAfterAllHandlers
<1>. QED
  BY <1>1, <1>3, LeavingKeepsProgress DEF MarkProcessed, Inv, TypeOK

LEMMA FailureKeepsInv ==
  ASSUME Inv, NEW w \in Workers, NEW m \in Messages, RecordFailure(w, m),
         faults' \in 0..MaxFaults
  PROVE  Inv'
<1>1. /\ UNCHANGED <<written, completed>> /\ batch[w] \ {m} \in SUBSET batch[w]
      /\ batch' = [batch EXCEPT ![w] = batch[w] \ {m}] /\ step' = [step EXCEPT ![w] = 0]
  BY DEF RecordFailure, Advance
<1>. QED
  BY <1>1, LeavingKeepsProgress DEF RecordFailure, Inv, TypeOK, ProcessedAfterAllHandlers

LEMMA CrashKeepsInv ==
  ASSUME Inv, NEW w \in Workers, Crash(w)
  PROVE  Inv'
<1>1. /\ UNCHANGED <<written, completed>> /\ {} \in SUBSET batch[w]
      /\ batch' = [batch EXCEPT ![w] = {}] /\ step' = [step EXCEPT ![w] = 0]
  BY DEF Crash
<1>2. faults' \in 0..MaxFaults
  BY MaxFaultsAssumption DEF Crash, Fault, Inv, TypeOK
<1>. QED
  BY <1>1, <1>2, LeavingKeepsProgress DEF Crash, Inv, TypeOK, ProcessedAfterAllHandlers

LEMMA InvStep == Inv /\ [Next]_vars => Inv'
<1>. SUFFICES ASSUME Inv, [Next]_vars PROVE Inv'
  OBVIOUS
<1>1. CASE UNCHANGED vars
  BY <1>1 DEF vars, Inv, TypeOK, IdleAtZero, Progress, At, HandlersInOrder,
              ProcessedAfterAllHandlers
<1>2. ASSUME NEW w \in Workers, NEW m \in Messages, Refuse(w, m) \/ FailOnce(w, m)
      PROVE  Inv'
  <2>1. RecordFailure(w, m) /\ faults' \in 0..MaxFaults
    BY <1>2, MaxFaultsAssumption DEF Refuse, FailOnce, Fault, Inv, TypeOK
  <2>. QED
    BY <2>1, FailureKeepsInv
<1>3. CASE Next
  BY <1>2, <1>3, WriteKeepsInv, FetchKeepsInv, ParseKeepsInv, HandleKeepsInv, MarkKeepsInv,
     CrashKeepsInv DEF Next, Work
<1>. QED
  BY <1>1, <1>3

\* Every reachable state of the outbox is well typed: no message is completed by a
\* handler that is not subscribed to it.
THEOREM TypeCorrect == Spec => []TypeOK
<1>1. Inv => TypeOK
  BY DEF Inv
<1>. QED
  BY <1>1, InvInit, InvStep, PTL DEF Spec

\* processed_at is set only on messages every subscribed handler has completed, for
\* any number of workers, crashes and failures.
THEOREM ProcessedOnlyAfterAllHandlers == Spec => []ProcessedAfterAllHandlers
<1>1. Inv => ProcessedAfterAllHandlers
  BY DEF Inv
<1>. QED
  BY <1>1, InvInit, InvStep, PTL DEF Spec

\* The handlers of a message complete it in the order they subscribed in.
THEOREM HandlersStayInOrder == Spec => []HandlersInOrder
<1>1. Inv => HandlersInOrder
  BY DEF Inv
<1>. QED
  BY <1>1, InvInit, InvStep, PTL DEF Spec

-----------------------------------------------------------------------------
(* The worker implements AtLeastOnce. *)

LEMMA PromiseInit == Init => Promise!Init
  BY DEF Init, Promise!Init

LEMMA PromiseStep == Inv /\ [Next]_vars => [Promise!Next]_Promise!vars
<1>. SUFFICES ASSUME Inv, [Next]_vars, ~UNCHANGED <<written, completed, processed>>
              PROVE  Promise!Next
  BY DEF Promise!vars
<1>1. ASSUME NEW m \in Messages, Write(m)
      PROVE  Promise!Next
  BY <1>1 DEF Write, Promise!Next, Promise!Accept
<1>2. ASSUME NEW w \in Workers, NEW m \in Messages, Handle(w, m)
      PROVE  Promise!Next
  <2>1. m \in written
    BY <1>2 DEF Handle, At, Inv, TypeOK
  <2>2. Promise!Deliver(m, step[w])
    BY <1>2, <2>1 DEF Handle, Promise!Deliver
  <2>. QED
    BY <1>2, <2>2 DEF Handle, Promise!Next
<1>3. ASSUME NEW w \in Workers, NEW m \in Messages, MarkProcessed(w, m)
      PROVE  Promise!Next
  <2>1. m \in written
    BY <1>3 DEF MarkProcessed, At, Inv, TypeOK
  <2>2. completed[m] = 1..Handlers[m]
    BY <1>3, AllCompleted DEF MarkProcessed
  <2>. QED
    BY <1>3, <2>1, <2>2 DEF MarkProcessed, Promise!Next, Promise!Close
<1>4. \/ \E m \in Messages : Write(m)
      \/ \E w \in Workers, m \in Messages : Handle(w, m) \/ MarkProcessed(w, m)
  BY DEF vars, Next, Work, Fetch, Parse, Refuse, FailOnce, RecordFailure, Crash
<1>. QED
  BY <1>1, <1>2, <1>3, <1>4

\* What the modules are promised when they write a message with their business
\* state: it reaches every handler before it is closed, and is never closed early.
THEOREM WorkerDeliversAtLeastOnce == Spec => DeliversAtLeastOnce
<1>. QED
  BY PromiseInit, PromiseStep, InvInit, InvStep, PTL DEF Spec, DeliversAtLeastOnce, Promise!Spec
=============================================================================
