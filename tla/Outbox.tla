------------------------------- MODULE Outbox -------------------------------
(***************************************************************************)
(* The transactional outbox: the table every module's save() appends to,   *)
(* and the worker processes that poll it, run the subscribed handlers of   *)
(* each message in turn on the in-memory bus and mark it processed         *)
(* (packages/building-blocks, packages/database, workers/outbox-publisher).*)
(*                                                                         *)
(* A worker holds a batch it has read; nothing is locked, so a second      *)
(* worker, or the same one restarted, may hold the same messages.          *)
(*                                                                         *)
(* Operators whose name starts with Bug are mistakes the code does not     *)
(* make, put in place of the operator that follows them to see that a      *)
(* property notices.                                                       *)
(***************************************************************************)
EXTENDS Integers, FiniteSets

CONSTANTS Messages,   \* outbox messages, numbered by created_at
          Handlers,   \* [Messages -> number of handlers subscribed to its event]
          FailsAt,    \* [Messages -> 0: the payload does not parse, k: its k-th handler
                      \*  refuses it, Handlers[m] + 1: nothing is wrong with it]
          Workers,    \* worker processes
          BatchSize,  \* WORKER_BATCH_SIZE
          MaxFaults   \* bound: crashes and transient failures in a behaviour

ASSUME MessagesAssumption == Messages \subseteq Nat
ASSUME HandlersAssumption == Handlers \in [Messages -> Nat]
ASSUME FailsAtAssumption ==
         /\ FailsAt \in [Messages -> Nat]
         /\ \A m \in Messages : FailsAt[m] <= Handlers[m] + 1
ASSUME BatchSizeAssumption == BatchSize \in Nat \ {0}
ASSUME MaxFaultsAssumption == MaxFaults \in Nat

VARIABLES
  written,    \* rows of outbox_messages
  processed,  \* rows with processed_at set
  failedOnce, \* rows with retry_count > 0
  completed,  \* [Messages -> handlers that have returned without an error]
  batch,      \* [Workers -> messages read and not done with]
  step,       \* [Workers -> 0: its message is not parsed yet, k: the k-th handler is next]
  faults      \* crashes and transient failures so far

vars == <<written, processed, failedOnce, completed, batch, step, faults>>

Sound(m) == FailsAt[m] = Handlers[m] + 1

Init ==
  /\ written = {}
  /\ processed = {}
  /\ failedOnce = {}
  /\ completed = [m \in Messages |-> {}]
  /\ batch = [w \in Workers |-> {}]
  /\ step = [w \in Workers |-> 0]
  /\ faults = 0

\* A save() commits with its messages.  Concurrent transactions may commit in
\* another order than their messages were created in.
Write(m) ==
  /\ m \notin written
  /\ written' = written \cup {m}
  /\ UNCHANGED <<processed, failedOnce, completed, batch, step, faults>>

\* WHERE processed_at IS NULL ORDER BY created_at ASC LIMIT BatchSize
BugUnprocessed == written \ (processed \cup failedOnce)
Unprocessed == written \ processed
Oldest(S) == {m \in S : Cardinality({n \in S : n < m}) < BatchSize}

Fetch(w) ==
  /\ batch[w] = {}
  /\ Unprocessed # {}
  /\ batch' = [batch EXCEPT ![w] = Oldest(Unprocessed)]
  /\ UNCHANGED <<written, processed, failedOnce, completed, step, faults>>

\* The message the loop over the batch is at.
At(w, m) == m \in batch[w] /\ \A n \in batch[w] : m <= n

Advance(w, m) ==
  /\ batch' = [batch EXCEPT ![w] = @ \ {m}]
  /\ step' = [step EXCEPT ![w] = 0]

\* buildIntegrationEventFromOutbox accepts the payload.
Parse(w, m) ==
  /\ At(w, m)
  /\ step[w] = 0
  /\ FailsAt[m] # 0
  /\ step' = [step EXCEPT ![w] = 1]
  /\ UNCHANGED <<written, processed, failedOnce, completed, batch, faults>>

\* await handler(event)
BugHandle(w, m) ==
  /\ At(w, m)
  /\ step[w] <= Handlers[m]
  /\ completed' = [completed EXCEPT ![m] = @ \cup {step[w]}]
  /\ step' = [step EXCEPT ![w] = @ + 1]
  /\ UNCHANGED <<written, processed, failedOnce, batch, faults>>
Handle(w, m) ==
  /\ At(w, m)
  /\ step[w] \in 1..Handlers[m]
  /\ step[w] # FailsAt[m]
  /\ completed' = [completed EXCEPT ![m] = @ \cup {step[w]}]
  /\ step' = [step EXCEPT ![w] = @ + 1]
  /\ UNCHANGED <<written, processed, failedOnce, batch, faults>>

\* publish() returned: markProcessed
BugMarkProcessed(w, m) ==
  /\ At(w, m)
  /\ step[w] >= Handlers[m]
  /\ processed' = processed \cup {m}
  /\ Advance(w, m)
  /\ UNCHANGED <<written, failedOnce, completed, faults>>
BugForgetMark(w, m) ==
  /\ At(w, m)
  /\ step[w] = Handlers[m] + 1
  /\ Advance(w, m)
  /\ UNCHANGED <<written, processed, failedOnce, completed, faults>>
MarkProcessed(w, m) ==
  /\ At(w, m)
  /\ step[w] = Handlers[m] + 1
  /\ processed' = processed \cup {m}
  /\ Advance(w, m)
  /\ UNCHANGED <<written, failedOnce, completed, faults>>

\* The catch block: recordFailure, and on to the next message.
BugRecordFailure(w, m) ==
  /\ failedOnce' = failedOnce \cup {m}
  /\ processed' = processed \cup {m}
  /\ Advance(w, m)
  /\ UNCHANGED <<written, completed>>
RecordFailure(w, m) ==
  /\ failedOnce' = failedOnce \cup {m}
  /\ Advance(w, m)
  /\ UNCHANGED <<written, processed, completed>>

\* Parsing or a handler throws, and will throw again at the next attempt.
BugRefuse(w, m) ==
  /\ At(w, m)
  /\ step[w] = FailsAt[m]
  /\ ~Sound(m)
  /\ step' = [step EXCEPT ![w] = @ + 1]
  /\ UNCHANGED <<written, processed, failedOnce, completed, batch, faults>>
Refuse(w, m) ==
  /\ At(w, m)
  /\ step[w] = FailsAt[m]
  /\ ~Sound(m)
  /\ RecordFailure(w, m)
  /\ UNCHANGED faults

Fault == faults < MaxFaults /\ faults' = faults + 1

\* A handler or markProcessed throws once: the database was away for a moment.
FailOnce(w, m) ==
  /\ At(w, m)
  /\ step[w] > 0
  /\ Fault
  /\ RecordFailure(w, m)

\* recordFailure throws as well (run() in main.ts drops the batch), or the
\* process stops between any two steps and starts again.
Crash(w) ==
  /\ batch[w] # {}
  /\ Fault
  /\ batch' = [batch EXCEPT ![w] = {}]
  /\ step' = [step EXCEPT ![w] = 0]
  /\ UNCHANGED <<written, processed, failedOnce, completed>>

\* One turn of the loop in main.ts.
Work(w) == \/ Fetch(w)
           \/ \E m \in Messages : \/ Parse(w, m) \/ Handle(w, m)
                                  \/ MarkProcessed(w, m) \/ Refuse(w, m)

Next == \/ \E m \in Messages : Write(m)
        \/ \E w \in Workers : \/ Work(w)
                              \/ \E m \in Messages : FailOnce(w, m)
                              \/ Crash(w)

Spec == Init /\ [][Next]_vars

\* A worker keeps polling: the loop catches every error and sleeps for a fixed
\* time, and a process that dies is started again.
FairSpec == Spec /\ \A w \in Workers : WF_vars(Work(w))

-----------------------------------------------------------------------------
(* Properties *)

\* Every variable has its type; a message is only ever completed by handlers that
\* are subscribed to its event.
TypeOK ==
  /\ written \subseteq Messages
  /\ processed \subseteq Messages
  /\ failedOnce \subseteq Messages
  /\ completed \in [Messages -> SUBSET Nat]
  /\ \A m \in Messages : completed[m] \subseteq 1..Handlers[m]
  /\ batch \in [Workers -> SUBSET written]
  /\ step \in [Workers -> Nat]
  /\ faults \in 0..MaxFaults

\* A message is marked processed only when every handler subscribed to it has
\* returned without an error at least once, whoever ran them, in whatever
\* crashes and retries.
ProcessedAfterAllHandlers ==
  \A m \in processed : completed[m] = 1..Handlers[m]

\* A worker never runs two handlers of a message out of their subscription order:
\* when a later handler has completed, so have the earlier ones.
HandlersInOrder ==
  \A m \in Messages : \A k \in completed[m] : 1..k \subseteq completed[m]

\* The promise to the modules that write messages.
Promise == INSTANCE AtLeastOnce
  WITH Consumers <- [m \in Messages |-> 1..Handlers[m]],
       Deliverable <- {m \in Messages : Sound(m)},
       accepted <- written, reached <- completed, closed <- processed

\* The worker implements the abstract outbox.
DeliversAtLeastOnce == Promise!Spec

\* Every message nothing is wrong with is processed in the end, as long as fewer
\* messages than fit one batch can never be processed.
EverythingIsDelivered == Promise!Delivery
=============================================================================
