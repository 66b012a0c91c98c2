---------------------------- MODULE Notification ----------------------------
(***************************************************************************)
(* modules/notification: notifications with a delivery for each channel,   *)
(* and the half of the worker's loop that sends them.                      *)
(*                                                                         *)
(* A worker reads a batch of pending deliveries, loads the notification of *)
(* each, calls the channel up to MaxAttempts times and then saves the      *)
(* WHOLE notification, every delivery with the status it had in memory.    *)
(* It never looks at the status again, and nothing is locked: two workers, *)
(* or one restarted, may hold the same deliveries.                         *)
(*                                                                         *)
(* Three event handlers make the requests, all with templates and channels *)
(* that exist, so the branches for unknown ones are unreachable and absent. *)
(*                                                                         *)
(* Operators whose name starts with Bug are mistakes the code does not     *)
(* make, put in place of the operator that follows them to see that a      *)
(* property notices.                                                       *)
(***************************************************************************)
EXTENDS Integers, FiniteSets

CONSTANTS Notifications, \* notifications, numbered by created_at
          Channels,      \* the channels of a notification (email and push)
          Workers,       \* worker processes
          BatchSize,     \* batchSize of the processor
          MaxAttempts,   \* maxAttempts of the retry policy
          MaxFaults      \* bound: crashes and thrown errors in a behaviour

ASSUME NotificationsAssumption == Notifications \subseteq Nat
ASSUME BatchSizeAssumption == BatchSize \in Nat \ {0}
ASSUME MaxAttemptsAssumption == MaxAttempts \in Nat \ {0}
ASSUME MaxFaultsAssumption == MaxFaults \in Nat

VARIABLES
  status,     \* [Notifications -> [Channels -> status of the stored delivery]]
  announced,  \* outbox messages, each written with the change it announces
  queue,      \* [Workers -> deliveries read and not started]
  job,        \* [Workers -> the delivery being made, or << >>]
  memory,     \* [Workers -> [Channels -> status in the loaded notification]]
  stage,      \* [Workers -> how far the delivery is]
  tries,      \* [Workers -> refusals by the channel so far]
  faults,     \* crashes and thrown errors so far
  taken,      \* history: deliveries a channel has accepted
  repeats,    \* history: times it accepted one again while workers did not overlap
  shared      \* history: two workers were at work at the same time

vars == <<status, announced, queue, job, memory, stage, tries, faults, taken, repeats, shared>>

Delivery == Notifications \X Channels
Loaded == [Channels -> {"none", "pending", "sent", "failed"}]
Unloaded == [c \in Channels |-> "none"]
\* The delivery identifies a message for the properties; the payloads carry the
\* channel, the delivery and the reason, by type.
Message == [type: {"NotificationRequested", "NotificationSent", "NotificationFailed"},
            delivery: Delivery]

Init ==
  /\ status = [n \in Notifications |-> Unloaded]
  /\ announced = {}
  /\ queue = [w \in Workers |-> {}]
  /\ job = [w \in Workers |-> << >>]
  /\ memory = [w \in Workers |-> Unloaded]
  /\ stage = [w \in Workers |-> "idle"]
  /\ tries = [w \in Workers |-> 0]
  /\ faults = 0
  /\ taken = {}
  /\ repeats = 0
  /\ shared = FALSE

Announce(type, S) == announced' = announced \cup {[type |-> type, delivery |-> d] : d \in S}

\* RequestNotificationService: the notification with all its deliveries.
Request(n) ==
  /\ status[n] = Unloaded
  /\ status' = [status EXCEPT ![n] = [c \in Channels |-> "pending"]]
  /\ Announce("NotificationRequested", {n} \X Channels)
  /\ UNCHANGED <<queue, job, memory, stage, tries, faults, taken, repeats, shared>>

BugPending == {d \in Delivery : status[d[1]][d[2]] \in {"pending", "sent"}}
Pending == {d \in Delivery : status[d[1]][d[2]] = "pending"}

\* WHERE status = 'pending' ORDER BY created_at ASC LIMIT BatchSize.  The
\* deliveries of one notification are made in the same instant, so their order
\* is open.
Oldest(S) ==
  {T \in SUBSET S : /\ T # {}
                    /\ Cardinality(T) <= BatchSize
                    /\ Cardinality(T) = BatchSize \/ T = S
                    /\ \A d \in T, e \in S \ T : d[1] <= e[1]}

Busy(w) == queue[w] # {} \/ stage[w] # "idle"

Fetch(w) ==
  /\ ~Busy(w)
  /\ \E T \in Oldest(Pending) : queue' = [queue EXCEPT ![w] = T]
  /\ shared' = (shared \/ \E v \in Workers \ {w} : Busy(v))
  /\ UNCHANGED <<status, announced, job, memory, stage, tries, faults, taken, repeats>>

\* execute(): findById.  The row of a notification never changes; its deliveries
\* are read in one statement.
Load(w) ==
  /\ stage[w] = "idle"
  /\ \E d \in queue[w] :
       /\ \A e \in queue[w] : d[1] <= e[1]
       /\ queue' = [queue EXCEPT ![w] = @ \ {d}]
       /\ job' = [job EXCEPT ![w] = d]
       /\ memory' = [memory EXCEPT ![w] = status[d[1]]]
  /\ stage' = [stage EXCEPT ![w] = "sending"]
  /\ tries' = [tries EXCEPT ![w] = 0]
  /\ UNCHANGED <<status, announced, faults, taken, repeats, shared>>

\* sendViaChannel reports success ...
Accepted(w) ==
  /\ stage[w] = "sending"
  /\ stage' = [stage EXCEPT ![w] = "accepted"]
  /\ taken' = taken \cup {job[w]}
  /\ repeats' = IF job[w] \in taken /\ ~shared THEN repeats + 1 ELSE repeats
  /\ UNCHANGED <<status, announced, queue, job, memory, tries, faults, shared>>

\* ... or not, and is tried again while attempts are left.
BugRefused(w) ==
  /\ stage[w] = "sending"
  /\ tries' = [tries EXCEPT ![w] = @ + 1]
  /\ stage' = [stage EXCEPT ![w] = IF tries[w] > MaxAttempts THEN "refused" ELSE @]
  /\ UNCHANGED <<status, announced, queue, job, memory, faults, taken, repeats, shared>>
Refused(w) ==
  /\ stage[w] = "sending"
  /\ tries' = [tries EXCEPT ![w] = @ + 1]
  /\ stage' = [stage EXCEPT ![w] = IF tries'[w] = MaxAttempts THEN "refused" ELSE @]
  /\ UNCHANGED <<status, announced, queue, job, memory, faults, taken, repeats, shared>>

Leave(w) ==
  /\ job' = [job EXCEPT ![w] = << >>]
  /\ memory' = [memory EXCEPT ![w] = Unloaded]
  /\ stage' = [stage EXCEPT ![w] = "idle"]
  /\ tries' = [tries EXCEPT ![w] = 0]

\* save(): every delivery of the notification, and the message.
BugSave(w, outcome, type) ==
  LET n == job[w][1] IN
  /\ status' = [status EXCEPT ![n] =
                  [c \in Channels |-> IF c = job[w][2] THEN outcome ELSE "pending"]]
  /\ Announce(type, {job[w]})
  /\ Leave(w)
  /\ UNCHANGED <<queue, faults, taken, repeats, shared>>
Save(w, outcome, type) ==
  /\ status' = [status EXCEPT ![job[w][1]] = [memory[w] EXCEPT ![job[w][2]] = outcome]]
  /\ Announce(type, {job[w]})
  /\ Leave(w)
  /\ UNCHANGED <<queue, faults, taken, repeats, shared>>

BugSaveSent(w) == stage[w] \in {"sending", "accepted"} /\ Save(w, "sent", "NotificationSent")
SaveSent(w) == stage[w] = "accepted" /\ Save(w, "sent", "NotificationSent")

BugSaveFailed(w) ==
  /\ stage[w] = "refused"
  /\ Leave(w)
  /\ UNCHANGED <<status, announced, queue, faults, taken, repeats, shared>>
SaveFailed(w) == stage[w] = "refused" /\ Save(w, "failed", "NotificationFailed")

\* The channel or the database throws, which ends the batch (run() in main.ts),
\* or the process stops between any two steps and starts again.
Crash(w) ==
  /\ Busy(w)
  /\ faults < MaxFaults
  /\ faults' = faults + 1
  /\ queue' = [queue EXCEPT ![w] = {}]
  /\ Leave(w)
  /\ UNCHANGED <<status, announced, taken, repeats, shared>>

\* One turn of processBatch().
Work(w) == \/ Fetch(w) \/ Load(w) \/ Accepted(w) \/ Refused(w)
           \/ SaveSent(w) \/ SaveFailed(w)

Next == \/ \E n \in Notifications : Request(n)
        \/ \E w \in Workers : Work(w) \/ Crash(w)

Spec == Init /\ [][Next]_vars

\* The loop in main.ts goes on whatever happens, and a process that dies is
\* started again.  Nothing obliges a channel to accept.
FairSpec == Spec /\ \A w \in Workers : WF_vars(Work(w))

-----------------------------------------------------------------------------
(* Properties *)

\* Every variable has its type; no delivery is tried more than MaxAttempts times.
TypeOK ==
  /\ status \in [Notifications -> Loaded]
  /\ announced \subseteq Message
  /\ queue \in [Workers -> SUBSET Delivery]
  /\ job \in [Workers -> Delivery \cup {<< >>}]
  /\ memory \in [Workers -> Loaded]
  /\ stage \in [Workers -> {"idle", "sending", "accepted", "refused"}]
  /\ tries \in [Workers -> 0..MaxAttempts]
  /\ faults \in 0..MaxFaults
  /\ taken \subseteq Delivery
  /\ repeats \in Nat
  /\ shared \in BOOLEAN

Requested == {n \in Notifications : status[n] # Unloaded}
Told(type, d) == [type |-> type, delivery |-> d] \in announced

\* As long as workers do not overlap, customers are sent the same message again at
\* most as often as there were faults, and a delivery is announced as sent or as failed
\* but never as both, with the status in the database agreeing.
RepeatsAreFaults ==
  ~shared => repeats <= faults /\ \A n \in Notifications, c \in Channels :
    /\ Told("NotificationSent", <<n, c>>) <=> status[n][c] = "sent"
    /\ Told("NotificationFailed", <<n, c>>) <=> status[n][c] = "failed"

\* As long as workers do not overlap, a delivery that is sent or failed stays so,
\* although saving one delivery writes all the others of its notification.
OutcomesStay ==
  [][~shared' => \A n \in Notifications, c \in Channels :
       status[n][c] \in {"sent", "failed"} => status'[n][c] = status[n][c]]_vars

\* The promise to the modules whose events are notified: a notification counts as
\* sent when all its channels were announced as sent, and only after each of them
\* took it, even when workers overlap and write over each other.
Promise == INSTANCE AtLeastOnce
  WITH Messages <- Notifications,
       Consumers <- [n \in Notifications |-> Channels],
       Deliverable <- {},
       accepted <- Requested,
       reached <- [n \in Notifications |-> {c \in Channels : <<n, c>> \in taken}],
       closed <- {n \in Requested : \A c \in Channels : Told("NotificationSent", <<n, c>>)}

SendsAtLeastOnce == Promise!Spec

\* Every requested delivery is sent or failed in the end and stays so, even when
\* two workers write over each other: they cannot undo each other's work for ever.
EveryDeliveryEnds ==
  <>[](\A n \in Requested, c \in Channels : status[n][c] \in {"sent", "failed"})
=============================================================================
