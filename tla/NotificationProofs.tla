------------------------- MODULE NotificationProofs -------------------------
(***************************************************************************)
(* Proofs about Notification for any number of notifications, channels,    *)
(* workers, attempts and faults: the type invariant, that it implements    *)
(* AtLeastOnce, and what holds as long as workers do not overlap.          *)
(*                                                                         *)
(* A save replaces all statuses of a notification by those a worker has in *)
(* memory.  What makes that harmless for the refinement is that a worker   *)
(* only holds notifications that were requested, with no status missing:   *)
(* so no save can take a request back.                                     *)
(*                                                                         *)
(* While workers do not overlap, what one holds is what is stored (Alone), *)
(* and each delivery that was taken but not saved stands for a fault.      *)
(***************************************************************************)
EXTENDS Notification, FiniteSetTheorems, TLAPS

\* A notification is stored with all its deliveries.
WholeRequests ==
  \A n \in Notifications : n \in Requested => \A c \in Channels : status[n][c] # "none"

\* Whatever a worker holds was requested.
HeldIsRequested ==
  \A w \in Workers :
    /\ \A d \in queue[w] : d[1] \in Requested
    /\ stage[w] # "idle" =>
         /\ job[w] \in Delivery
         /\ job[w][1] \in Requested
         /\ \A c \in Channels : memory[w][c] # "none"

\* While a worker is sending, it has an attempt left.
AttemptsLeft ==
  \A w \in Workers : stage[w] = "sending" => tries[w] < MaxAttempts

\* A delivery about to be stored as sent, or announced as sent, was taken by its
\* channel, and only deliveries that were requested are.
SentWasTaken ==
  /\ \A w \in Workers : stage[w] = "accepted" => job[w] \in taken
  /\ \A d \in Delivery : Told("NotificationSent", d) => d \in taken
  /\ \A d \in taken : d[1] \in Requested

Inv == TypeOK /\ WholeRequests /\ HeldIsRequested /\ AttemptsLeft /\ SentWasTaken

-----------------------------------------------------------------------------
LEMMA UnloadedType == Unloaded \in Loaded /\ \A c \in Channels : Unloaded[c] = "none"
  BY DEF Unloaded, Loaded

LEMMA DeliveryType ==
  \A d \in Delivery : d[1] \in Notifications /\ d[2] \in Channels /\ d = <<d[1], d[2]>>
  BY DEF Delivery

LEMMA InvInit == Init => Inv
<1>. SUFFICES ASSUME Init PROVE Inv
  OBVIOUS
<1>1. TypeOK
  <2>1. status \in [Notifications -> Loaded] /\ memory \in [Workers -> Loaded]
    BY UnloadedType DEF Init
  <2>2. queue \in [Workers -> SUBSET Delivery] /\ job \in [Workers -> Delivery \cup {<< >>}]
    BY DEF Init
  <2>3. /\ stage \in [Workers -> {"idle", "sending", "accepted", "refused"}]
        /\ tries \in [Workers -> 0..MaxAttempts] /\ faults \in 0..MaxFaults
    BY MaxFaultsAssumption, MaxAttemptsAssumption DEF Init
  <2>. QED
    BY <2>1, <2>2, <2>3 DEF Init, TypeOK
<1>2. Requested = {}
  BY DEF Init, Requested
<1>3. WholeRequests /\ HeldIsRequested /\ AttemptsLeft /\ SentWasTaken
  BY <1>2 DEF Init, WholeRequests, HeldIsRequested, AttemptsLeft, SentWasTaken, Told
<1>. QED
  BY <1>1, <1>3 DEF Inv

-----------------------------------------------------------------------------
(* One lemma per group of actions. *)

LEMMA RequestKeepsInv ==
  ASSUME Inv, NEW n \in Notifications, Request(n)
  PROVE  Inv'
<1>. DEFINE new == [c \in Channels |-> "pending"]
<1>1. new \in Loaded /\ \A c \in Channels : new[c] # "none"
  BY DEF Loaded
<1>2. /\ status' = [status EXCEPT ![n] = new]
      /\ announced' = announced \cup
           {[type |-> "NotificationRequested", delivery |-> d] : d \in {n} \X Channels}
      /\ UNCHANGED <<queue, job, memory, stage, tries, faults, taken, repeats, shared>>
  BY DEF Request, Announce
<1>. HIDE DEF new
<1>3. TypeOK'
  <2>1. announced' \subseteq Message
    BY <1>2 DEF Inv, TypeOK, Message, Delivery
  <2>. QED
    BY <1>1, <1>2, <2>1 DEF Inv, TypeOK
<1>4. Requested \subseteq Requested' /\ Requested' \subseteq Requested \cup {n}
  BY <1>2 DEF Inv, TypeOK, Requested, Request
<1>5. WholeRequests'
  BY <1>1, <1>2, <1>4 DEF Inv, TypeOK, WholeRequests
<1>6. HeldIsRequested'
  BY <1>2, <1>4 DEF Inv, HeldIsRequested
<1>7. AttemptsLeft'
  BY <1>2 DEF Inv, AttemptsLeft
<1>8. \A d : Told("NotificationSent", d)' => Told("NotificationSent", d)
  BY <1>2 DEF Told
<1>9. SentWasTaken'
  BY <1>2, <1>4, <1>8 DEF Inv, SentWasTaken
<1>. QED
  BY <1>3, <1>5, <1>6, <1>7, <1>9 DEF Inv

LEMMA FetchKeepsInv ==
  ASSUME Inv, NEW w \in Workers, Fetch(w)
  PROVE  Inv'
<1>1. PICK T \in Oldest(Pending) : queue' = [queue EXCEPT ![w] = T]
  BY DEF Fetch
<1>2. T \in SUBSET Delivery /\ \A d \in T : d[1] \in Requested
  <2>1. \A d \in Pending : d \in Delivery /\ status[d[1]][d[2]] = "pending"
    BY DEF Pending
  <2>2. \A d \in Delivery : status[d[1]][d[2]] = "pending" => status[d[1]] # Unloaded
    BY DeliveryType, UnloadedType DEF Inv, TypeOK
  <2>3. T \subseteq Pending
    BY DEF Oldest
  <2>. QED
    BY <2>1, <2>2, <2>3, DeliveryType DEF Requested
<1>3. UNCHANGED <<status, announced, job, memory, stage, tries, faults, taken, repeats>>
  BY DEF Fetch
<1>4. shared' \in BOOLEAN
  BY DEF Fetch, Inv, TypeOK
<1>5. TypeOK'
  BY <1>1, <1>2, <1>3, <1>4 DEF Inv, TypeOK
<1>6. Requested' = Requested
  BY <1>3 DEF Requested
<1>7. WholeRequests' /\ AttemptsLeft' /\ SentWasTaken'
  BY <1>3, <1>6 DEF Inv, WholeRequests, AttemptsLeft, SentWasTaken, Told
<1>8. HeldIsRequested'
  BY <1>1, <1>2, <1>3, <1>6 DEF Inv, TypeOK, HeldIsRequested
<1>. QED
  BY <1>5, <1>7, <1>8 DEF Inv

LEMMA LoadKeepsInv ==
  ASSUME Inv, NEW w \in Workers, Load(w)
  PROVE  Inv'
<1>1. PICK d \in queue[w] : /\ queue' = [queue EXCEPT ![w] = @ \ {d}]
                            /\ job' = [job EXCEPT ![w] = d]
                            /\ memory' = [memory EXCEPT ![w] = status[d[1]]]
  BY DEF Load
<1>2. /\ stage' = [stage EXCEPT ![w] = "sending"]
      /\ tries' = [tries EXCEPT ![w] = 0]
      /\ UNCHANGED <<status, announced, faults, taken, repeats, shared>>
  BY DEF Load
<1>3. d \in Delivery /\ d[1] \in Requested /\ d[1] \in Notifications
  BY DeliveryType DEF Inv, TypeOK, HeldIsRequested
<1>4. status[d[1]] \in Loaded /\ \A c \in Channels : status[d[1]][c] # "none"
  BY <1>3 DEF Inv, TypeOK, WholeRequests
<1>5. Requested' = Requested
  BY <1>2 DEF Requested
<1>6. TypeOK'
  BY <1>1, <1>2, <1>3, <1>4, MaxAttemptsAssumption DEF Inv, TypeOK
<1>7. WholeRequests'
  BY <1>2, <1>5 DEF Inv, WholeRequests
<1>8. HeldIsRequested'
  BY <1>1, <1>2, <1>3, <1>4, <1>5 DEF Inv, TypeOK, HeldIsRequested
<1>9. AttemptsLeft'
  BY <1>2, MaxAttemptsAssumption DEF Inv, TypeOK, AttemptsLeft
<1>10. SentWasTaken'
  <2>1. \A v \in Workers : stage'[v] = "accepted" => stage[v] = "accepted" /\ job'[v] = job[v]
    BY <1>1, <1>2 DEF Inv, TypeOK
  <2>. QED
    BY <1>2, <1>5, <2>1 DEF Inv, SentWasTaken, Told
<1>. QED
  BY <1>6, <1>7, <1>8, <1>9, <1>10 DEF Inv

LEMMA SendingKeepsInv ==
  ASSUME Inv, NEW w \in Workers, Accepted(w) \/ Refused(w)
  PROVE  Inv'
<1>1. /\ UNCHANGED <<status, announced, queue, job, memory, faults, shared>>
      /\ stage[w] = "sending"
  BY DEF Accepted, Refused
<1>2. Requested' = Requested
  BY <1>1 DEF Requested
<1>3. job[w] \in Delivery /\ job[w][1] \in Requested
  BY <1>1 DEF Inv, HeldIsRequested
<1>4. WholeRequests'
  BY <1>1, <1>2 DEF Inv, WholeRequests
<1>5. \A v \in Workers : stage'[v] # "idle" => stage[v] # "idle"
  BY <1>1 DEF Accepted, Refused, Inv, TypeOK
<1>6. HeldIsRequested'
  BY <1>1, <1>2, <1>5 DEF Inv, HeldIsRequested
<1>7. CASE Accepted(w)
  <2>1. /\ stage' = [stage EXCEPT ![w] = "accepted"] /\ tries' = tries
        /\ taken' = taken \cup {job[w]}
        /\ repeats' \in Nat
    BY <1>7 DEF Accepted, Inv, TypeOK
  <2>2. TypeOK'
    BY <1>1, <1>3, <2>1 DEF Inv, TypeOK
  <2>3. AttemptsLeft' /\ SentWasTaken'
    BY <1>1, <1>2, <1>3, <2>1 DEF Inv, TypeOK, AttemptsLeft, SentWasTaken, Told
  <2>. QED
    BY <1>4, <1>6, <2>2, <2>3 DEF Inv
<1>8. CASE Refused(w)
  <2>1. /\ tries' = [tries EXCEPT ![w] = tries[w] + 1]
        /\ stage' = [stage EXCEPT ![w] = IF tries'[w] = MaxAttempts THEN "refused" ELSE "sending"]
        /\ UNCHANGED <<taken, repeats>>
    BY <1>1, <1>8 DEF Refused
  <2>2. tries[w] + 1 \in 0..MaxAttempts /\ tries'[w] = tries[w] + 1
    BY <1>1, <2>1, MaxAttemptsAssumption DEF Inv, TypeOK, AttemptsLeft
  <2>3. TypeOK'
    BY <1>1, <2>1, <2>2 DEF Inv, TypeOK
  <2>4. AttemptsLeft'
    BY <1>1, <2>1, <2>2, MaxAttemptsAssumption DEF Inv, TypeOK, AttemptsLeft
  <2>5. SentWasTaken'
    BY <1>1, <1>2, <2>1 DEF Inv, TypeOK, SentWasTaken, Told
  <2>. QED
    BY <1>4, <1>6, <2>3, <2>4, <2>5 DEF Inv
<1>. QED
  BY <1>7, <1>8

\* What a worker saves is the requested notification it holds, whole: the set of
\* requested notifications does not change.
LEMMA SaveKeepsRequests ==
  ASSUME Inv, NEW w \in Workers, NEW outcome \in {"sent", "failed"}, NEW type,
         stage[w] # "idle", Save(w, outcome, type)
  PROVE  /\ Requested' = Requested
         /\ status' \in [Notifications -> Loaded]
         /\ WholeRequests'
<1>. DEFINE new == [memory[w] EXCEPT ![job[w][2]] = outcome]
<1>1. job[w] \in Delivery /\ job[w][1] \in Requested /\ job[w][1] \in Notifications
  BY DeliveryType DEF Inv, HeldIsRequested
<1>2. new \in Loaded /\ \A c \in Channels : new[c] # "none"
  BY DEF Inv, TypeOK, HeldIsRequested, Loaded
<1>3. new # Unloaded
  BY <1>1, <1>2, DeliveryType, UnloadedType
<1>4. status' = [status EXCEPT ![job[w][1]] = new]
  BY DEF Save
<1>. HIDE DEF new
<1>5. Requested' = Requested
  BY <1>1, <1>3, <1>4 DEF Inv, TypeOK, Requested
<1>6. status' \in [Notifications -> Loaded]
  BY <1>2, <1>4 DEF Inv, TypeOK
<1>7. WholeRequests'
  BY <1>2, <1>4, <1>5 DEF Inv, TypeOK, WholeRequests
<1>. QED
  BY <1>5, <1>6, <1>7

\* A worker that has left its delivery holds only the rest of its batch.
LEMMA LeaveKeepsRest ==
  ASSUME Inv, NEW w \in Workers, Leave(w), Requested' = Requested,
         queue' \in [Workers -> SUBSET Delivery],
         \A v \in Workers : queue'[v] \subseteq queue[v]
  PROVE  /\ job' \in [Workers -> Delivery \cup {<< >>}]
         /\ memory' \in [Workers -> Loaded]
         /\ stage' \in [Workers -> {"idle", "sending", "accepted", "refused"}]
         /\ tries' \in [Workers -> 0..MaxAttempts]
         /\ HeldIsRequested' /\ AttemptsLeft'
         /\ \A v \in Workers : stage'[v] = "accepted" =>
              stage[v] = "accepted" /\ job'[v] = job[v]
<1>1. /\ job' = [job EXCEPT ![w] = << >>]
      /\ memory' = [memory EXCEPT ![w] = Unloaded]
      /\ stage' = [stage EXCEPT ![w] = "idle"]
      /\ tries' = [tries EXCEPT ![w] = 0]
  BY DEF Leave
<1>2. /\ job' \in [Workers -> Delivery \cup {<< >>}]
      /\ memory' \in [Workers -> Loaded]
      /\ stage' \in [Workers -> {"idle", "sending", "accepted", "refused"}]
      /\ tries' \in [Workers -> 0..MaxAttempts]
  BY <1>1, UnloadedType, MaxAttemptsAssumption DEF Inv, TypeOK
<1>3. \A v \in Workers : stage'[v] # "idle" =>
        /\ stage'[v] = stage[v] /\ job'[v] = job[v]
        /\ memory'[v] = memory[v] /\ tries'[v] = tries[v]
  BY <1>1 DEF Inv, TypeOK
<1>4. HeldIsRequested' /\ AttemptsLeft'
  BY <1>3 DEF Inv, HeldIsRequested, AttemptsLeft
<1>. QED
  BY <1>2, <1>3, <1>4

LEMMA SaveKeepsInv ==
  ASSUME Inv, NEW w \in Workers, SaveSent(w) \/ SaveFailed(w)
  PROVE  /\ Inv'
         /\ Requested' = Requested
<1>1. PICK outcome \in {"sent", "failed"},
           type \in {"NotificationSent", "NotificationFailed"} :
        /\ Save(w, outcome, type)
        /\ type = "NotificationSent" => stage[w] = "accepted"
        /\ stage[w] # "idle"
  BY DEF SaveSent, SaveFailed
<1>2. Requested' = Requested /\ status' \in [Notifications -> Loaded] /\ WholeRequests'
  BY <1>1, SaveKeepsRequests
<1>3. /\ announced' = announced \cup {[type |-> type, delivery |-> d] : d \in {job[w]}}
      /\ Leave(w)
      /\ UNCHANGED <<queue, faults, taken, repeats, shared>>
  BY <1>1 DEF Save, Announce
<1>4. job[w] \in Delivery
  BY <1>1 DEF Inv, HeldIsRequested
<1>5. announced' \subseteq Message
  BY <1>3, <1>4 DEF Inv, TypeOK, Message
<1>6. /\ job' \in [Workers -> Delivery \cup {<< >>}]
      /\ memory' \in [Workers -> Loaded]
      /\ stage' \in [Workers -> {"idle", "sending", "accepted", "refused"}]
      /\ tries' \in [Workers -> 0..MaxAttempts]
      /\ HeldIsRequested' /\ AttemptsLeft'
      /\ \A v \in Workers : stage'[v] = "accepted" =>
           stage[v] = "accepted" /\ job'[v] = job[v]
  BY <1>2, <1>3, LeaveKeepsRest DEF Inv, TypeOK
<1>7. TypeOK'
  BY <1>2, <1>3, <1>5, <1>6 DEF Inv, TypeOK
<1>8. \A d \in Delivery : Told("NotificationSent", d)' => d \in taken
  <2>. SUFFICES ASSUME NEW d \in Delivery, Told("NotificationSent", d)' PROVE d \in taken
    OBVIOUS
  <2>1. Told("NotificationSent", d) \/ (type = "NotificationSent" /\ d = job[w])
    BY <1>3 DEF Told
  <2>. QED
    BY <1>1, <2>1 DEF Inv, SentWasTaken
<1>9. SentWasTaken'
  BY <1>2, <1>3, <1>6, <1>8 DEF Inv, SentWasTaken
<1>. QED
  BY <1>2, <1>6, <1>7, <1>9 DEF Inv

LEMMA CrashKeepsInv ==
  ASSUME Inv, NEW w \in Workers, Crash(w)
  PROVE  /\ Inv'
         /\ Requested' = Requested
<1>1. /\ queue' = [queue EXCEPT ![w] = {}] /\ Leave(w)
      /\ faults < MaxFaults /\ faults' = faults + 1
      /\ UNCHANGED <<status, announced, taken, repeats, shared>>
  BY DEF Crash
<1>2. Requested' = Requested
  BY <1>1 DEF Requested
<1>3. queue' \in [Workers -> SUBSET Delivery] /\ \A v \in Workers : queue'[v] \subseteq queue[v]
  BY <1>1 DEF Inv, TypeOK
<1>4. /\ job' \in [Workers -> Delivery \cup {<< >>}]
      /\ memory' \in [Workers -> Loaded]
      /\ stage' \in [Workers -> {"idle", "sending", "accepted", "refused"}]
      /\ tries' \in [Workers -> 0..MaxAttempts]
      /\ HeldIsRequested' /\ AttemptsLeft'
      /\ \A v \in Workers : stage'[v] = "accepted" =>
           stage[v] = "accepted" /\ job'[v] = job[v]
  BY <1>1, <1>2, <1>3, LeaveKeepsRest
<1>5. faults' \in 0..MaxFaults
  BY <1>1, MaxFaultsAssumption DEF Inv, TypeOK
<1>6. TypeOK'
  BY <1>1, <1>3, <1>4, <1>5 DEF Inv, TypeOK
<1>7. WholeRequests' /\ SentWasTaken'
  BY <1>1, <1>2, <1>4 DEF Inv, WholeRequests, SentWasTaken, Told
<1>. QED
  BY <1>2, <1>4, <1>6, <1>7 DEF Inv

LEMMA InvStep == Inv /\ [Next]_vars => Inv'
<1>. SUFFICES ASSUME Inv, [Next]_vars PROVE Inv'
  OBVIOUS
<1>1. ASSUME NEW n \in Notifications, Request(n) PROVE Inv'
  BY <1>1, RequestKeepsInv
<1>2. ASSUME NEW w \in Workers, Work(w) PROVE Inv'
  BY <1>2, FetchKeepsInv, LoadKeepsInv, SendingKeepsInv, SaveKeepsInv DEF Work
<1>3. ASSUME NEW w \in Workers, Crash(w) PROVE Inv'
  BY <1>3, CrashKeepsInv
<1>4. CASE UNCHANGED vars
  BY <1>4 DEF vars, Inv, TypeOK, WholeRequests, HeldIsRequested, AttemptsLeft,
              SentWasTaken, Told, Requested
<1>. QED
  BY <1>1, <1>2, <1>3, <1>4 DEF Next

\* Every variable keeps its type, whatever workers, faults and refusals: in
\* particular execute() never calls a channel more than MaxAttempts times.
THEOREM TypeCorrect == Spec => []TypeOK
<1>1. Spec => []Inv
  BY InvInit, InvStep, PTL DEF Spec
<1>2. Inv => TypeOK
  BY DEF Inv
<1>. QED
  BY <1>1, <1>2, PTL

-----------------------------------------------------------------------------
(* The refinement. *)

LEMMA PromiseInit == Init => Promise!Init
  BY DEF Init, Promise!Init, Requested

AllTold(n) == \A c \in Channels : Told("NotificationSent", <<n, c>>)
Reached == [n \in Notifications |-> {c \in Channels : <<n, c>> \in taken}]
Closed == {n \in Requested : AllTold(n)}

LEMMA PromiseStep == Inv /\ [Next]_vars => [Promise!Next]_Promise!vars
<1>. SUFFICES ASSUME Inv, [Next]_vars
              PROVE  \/ UNCHANGED <<Requested, Reached, Closed>>
                     \/ \E n \in Notifications :
                          \/ Requested' = Requested \cup {n} /\ UNCHANGED <<Reached, Closed>>
                          \/ \E c \in Channels :
                               /\ n \in Requested
                               /\ Reached' = [Reached EXCEPT ![n] = @ \cup {c}]
                               /\ UNCHANGED <<Requested, Closed>>
                          \/ /\ n \in Requested /\ Reached[n] = Channels
                             /\ Closed' = Closed \cup {n}
                             /\ UNCHANGED <<Requested, Reached>>
  BY DEF Promise!Next, Promise!vars, Promise!Accept, Promise!Deliver, Promise!Close,
         Reached, Closed, AllTold
<1>1. ASSUME NEW n \in Notifications, Request(n)
      PROVE  UNCHANGED <<Requested, Reached, Closed>> \/
             (Requested' = Requested \cup {n} /\ UNCHANGED <<Reached, Closed>>)
  <2>1. taken' = taken /\ \A d : Told("NotificationSent", d)' <=> Told("NotificationSent", d)
    BY <1>1 DEF Request, Announce, Told
  <2>2. CASE Channels = {}
    <3>1. status' = status
      <4>1. status[n] = [c \in Channels |-> "pending"]
        BY <1>1, <2>2 DEF Request, Unloaded
      <4>. QED
        BY <1>1, <4>1 DEF Request, Inv, TypeOK
    <3>. QED
      BY <2>1, <3>1 DEF Requested, Reached, Closed, AllTold
  <2>3. CASE Channels # {}
    <3>1. PICK c \in Channels : TRUE
      BY <2>3
    <3>2. [x \in Channels |-> "pending"] # Unloaded
      BY <3>1 DEF Unloaded
    <3>3. Requested' = Requested \cup {n} /\ n \notin Requested
      BY <1>1, <3>2 DEF Request, Requested, Inv, TypeOK
    <3>4. ~AllTold(n)
      <4>1. <<n, c>> \in Delivery /\ <<n, c>>[1] = n
        BY DEF Delivery
      <4>. QED
        BY <3>3, <4>1 DEF Inv, SentWasTaken, AllTold
    <3>. QED
      BY <2>1, <3>3, <3>4 DEF Reached, Closed, AllTold
  <2>. QED
    BY <2>2, <2>3
<1>2. ASSUME NEW w \in Workers, Fetch(w) \/ Load(w) \/ Refused(w) \/ Crash(w)
      PROVE  UNCHANGED <<Requested, Reached, Closed>>
  <2>1. UNCHANGED <<status, announced, taken>>
    BY <1>2 DEF Fetch, Load, Refused, Crash
  <2>. QED
    BY <2>1 DEF Requested, Reached, Closed, AllTold, Told
<1>3. ASSUME NEW w \in Workers, Accepted(w)
      PROVE  \E n \in Notifications, c \in Channels :
               /\ n \in Requested
               /\ Reached' = [Reached EXCEPT ![n] = @ \cup {c}]
               /\ UNCHANGED <<Requested, Closed>>
  <2>1. /\ UNCHANGED <<status, announced>>
        /\ taken' = taken \cup {job[w]} /\ stage[w] = "sending"
    BY <1>3 DEF Accepted
  <2>2. PICK n \in Notifications, c \in Channels : job[w] = <<n, c>>
    BY <2>1 DEF Inv, HeldIsRequested, Delivery
  <2>3. n \in Requested
    BY <2>1, <2>2 DEF Inv, HeldIsRequested
  <2>4. UNCHANGED <<Requested, Closed>>
    BY <2>1 DEF Requested, Closed, AllTold, Told
  <2>5. Reached' = [Reached EXCEPT ![n] = @ \cup {c}]
    <3>1. \A m \in Notifications, x \in Channels :
            <<m, x>> \in taken' <=> <<m, x>> \in taken \/ (m = n /\ x = c)
      BY <2>1, <2>2
    <3>2. \A m \in Notifications :
            {x \in Channels : <<m, x>> \in taken'}
              = IF m = n THEN {x \in Channels : <<m, x>> \in taken} \cup {c}
                         ELSE {x \in Channels : <<m, x>> \in taken}
      BY <3>1
    <3>. QED
      BY <3>2 DEF Reached
  <2>. QED
    BY <2>3, <2>4, <2>5
<1>4. ASSUME NEW w \in Workers, SaveSent(w)
      PROVE  UNCHANGED <<Requested, Reached, Closed>> \/
             \E n \in Notifications : /\ n \in Requested /\ Reached[n] = Channels
                                      /\ Closed' = Closed \cup {n}
                                      /\ UNCHANGED <<Requested, Reached>>
  <2>1. Inv' /\ Requested' = Requested
    BY <1>4, SaveKeepsInv
  <2>2. /\ taken' = taken /\ stage[w] = "accepted"
        /\ announced' = announced \cup
             {[type |-> "NotificationSent", delivery |-> d] : d \in {job[w]}}
    BY <1>4 DEF SaveSent, Save, Announce
  <2>3. PICK n \in Notifications, c \in Channels : job[w] = <<n, c>>
    BY <2>2 DEF Inv, HeldIsRequested, Delivery
  <2>4. n \in Requested
    BY <2>2, <2>3 DEF Inv, HeldIsRequested
  <2>5. \A m \in Notifications \ {n} : AllTold(m)' <=> AllTold(m)
    BY <2>2, <2>3 DEF AllTold, Told
  <2>6. AllTold(n) => AllTold(n)'
    BY <2>2 DEF AllTold, Told
  <2>7. UNCHANGED <<Requested, Reached>>
    BY <2>1, <2>2 DEF Reached
  <2>8. CASE AllTold(n)'
    <3>1. \A x \in Channels : <<n, x>> \in taken'
      BY <2>1, <2>8 DEF Inv, SentWasTaken, AllTold, Delivery
    <3>2. Reached[n] = Channels
      BY <2>2, <3>1 DEF Reached
    <3>3. Closed' = Closed \cup {n}
      BY <2>1, <2>4, <2>5, <2>8 DEF Closed, Requested
    <3>. QED
      BY <2>4, <2>7, <3>2, <3>3
  <2>9. CASE ~AllTold(n)'
    BY <2>1, <2>5, <2>6, <2>7, <2>9 DEF Closed, Requested
  <2>. QED
    BY <2>8, <2>9
<1>5. ASSUME NEW w \in Workers, SaveFailed(w)
      PROVE  UNCHANGED <<Requested, Reached, Closed>>
  <2>1. Requested' = Requested
    BY <1>5, SaveKeepsInv
  <2>2. taken' = taken /\ \A d : Told("NotificationSent", d)' <=> Told("NotificationSent", d)
    BY <1>5 DEF SaveFailed, Save, Announce, Told
  <2>. QED
    BY <2>1, <2>2 DEF Reached, Closed, AllTold
<1>6. CASE UNCHANGED vars
  BY <1>6 DEF vars, Requested, Reached, Closed, AllTold, Told
<1>7. CASE \E n \in Notifications : Request(n)
  BY <1>1, <1>7
<1>8. CASE \E w \in Workers : Work(w) \/ Crash(w)
  BY <1>2, <1>3, <1>4, <1>5, <1>8 DEF Work
<1>. QED
  BY <1>6, <1>7, <1>8 DEF Next

\* The workers implement the abstract outbox's promise for notifications: one is
\* only called sent when each of its channels has taken it, for any number of
\* workers that overlap, crash and save over each other.
THEOREM SenderDeliversAtLeastOnce == Spec => SendsAtLeastOnce
<1>1. Spec => []Inv
  BY InvInit, InvStep, PTL DEF Spec
<1>. QED
  BY <1>1, PromiseInit, PromiseStep, PTL DEF Spec, SendsAtLeastOnce, Promise!Spec
-----------------------------------------------------------------------------
(* Workers that do not overlap. *)

Stored(d) == status[d[1]][d[2]]

\* One worker is at work; what it has fetched is pending, and what it has loaded is
\* what is stored.
WorksAlone ==
  /\ \A v, w \in Workers : Busy(v) /\ Busy(w) => v = w
  /\ \A w \in Workers :
       /\ \A d \in queue[w] : Stored(d) = "pending"
       /\ stage[w] # "idle" =>
            /\ job[w] \notin queue[w]
            /\ memory[w] = status[job[w][1]]
            /\ Stored(job[w]) = "pending"

ToldAsStored ==
  \A d \in Delivery :
    /\ Told("NotificationSent", d) <=> Stored(d) = "sent"
    /\ Told("NotificationFailed", d) <=> Stored(d) = "failed"

\* Deliveries that were taken, are still pending, and that no worker is about to save:
\* a fault came between.
Lost == {d \in taken : /\ Stored(d) = "pending"
                       /\ ~\E w \in Workers : stage[w] = "accepted" /\ job[w] = d}

LostAreFaults == IsFiniteSet(Lost) /\ repeats + Cardinality(Lost) <= faults

Alone == WorksAlone /\ ToldAsStored /\ LostAreFaults
AloneInv == Inv /\ (~shared => Alone)
LEMMA AloneInit == Init => Alone
<1>. SUFFICES ASSUME Init PROVE Alone
  OBVIOUS
<1>1. WorksAlone
  BY DEF Init, WorksAlone, Busy
<1>2. \A d \in Delivery : Stored(d) = "none"
  BY DeliveryType DEF Init, Stored, Unloaded
<1>3. ToldAsStored
  BY <1>2 DEF Init, ToldAsStored, Told
<1>4. Lost = {}
  BY DEF Init, Lost
<1>5. LostAreFaults
  BY <1>4, FS_EmptySet DEF Init, LostAreFaults
<1>. QED
  BY <1>1, <1>3, <1>5 DEF Alone

\* Alone, a save of the whole notification changes the one delivery that was made.
LEMMA SavesOne ==
  ASSUME Inv, WorksAlone, NEW w \in Workers, stage[w] # "idle",
         NEW outcome, NEW type, Save(w, outcome, type)
  PROVE  \A d \in Delivery : Stored(d)' = IF d = job[w] THEN outcome ELSE Stored(d)
<1>1. PICK n \in Notifications, c \in Channels : job[w] = <<n, c>>
  BY DEF Inv, HeldIsRequested, Delivery
<1>2. status' = [status EXCEPT ![n] = [status[n] EXCEPT ![c] = outcome]]
  <2>1. job[w][1] = n /\ job[w][2] = c /\ memory[w] = status[job[w][1]]
    BY <1>1 DEF WorksAlone
  <2>2. status' = [status EXCEPT ![job[w][1]] = [memory[w] EXCEPT ![job[w][2]] = outcome]]
    BY DEF Save
  <2>. QED
    BY <2>1, <2>2
<1>3. ASSUME NEW m \in Notifications, NEW x \in Channels
      PROVE  status'[m][x] = IF m = n /\ x = c THEN outcome ELSE status[m][x]
  BY <1>2 DEF Inv, TypeOK, Loaded
<1>. QED
  BY <1>1, <1>3 DEF Delivery, Stored

LEMMA RequestAlone ==
  ASSUME Inv, Alone, NEW n \in Notifications, Request(n)
  PROVE  Alone'
<1>1. /\ status' = [status EXCEPT ![n] = [c \in Channels |-> "pending"]]
      /\ UNCHANGED <<queue, job, memory, stage, tries, faults, taken, repeats, shared>>
  BY DEF Request
<1>2. n \notin Requested /\ \A c \in Channels : status[n][c] = "none"
  BY DEF Request, Requested, Unloaded
<1>3. \A d \in Delivery : \/ d[1] = n /\ Stored(d) = "none" /\ Stored(d)' = "pending"
                          \/ d[1] # n /\ Stored(d)' = Stored(d)
  <2>1. ASSUME NEW m \in Notifications, NEW x \in Channels
        PROVE  \/ m = n /\ status[m][x] = "none" /\ status'[m][x] = "pending"
               \/ m # n /\ status'[m][x] = status[m][x]
    <3>1. status'[m] = IF m = n THEN [c \in Channels |-> "pending"] ELSE status[m]
      BY <1>1 DEF Inv, TypeOK
    <3>. QED
      BY <1>2, <3>1
  <2>2. ASSUME NEW d \in Delivery
        PROVE  \/ d[1] = n /\ Stored(d) = "none" /\ Stored(d)' = "pending"
               \/ d[1] # n /\ Stored(d)' = Stored(d)
    <3>1. d[1] \in Notifications /\ d[2] \in Channels
      BY DeliveryType
    <3>. QED
      BY <2>1, <3>1 DEF Stored
  <2>. QED
    BY <2>2
<1>4. WorksAlone'
  <2>1. \A w \in Workers : \A d \in queue[w] : d \in Delivery /\ d[1] # n
    BY <1>2 DEF Inv, TypeOK, HeldIsRequested
  <2>2. \A w \in Workers : stage[w] # "idle" =>
          job[w] \in Delivery /\ job[w][1] # n /\ job[w][1] \in Notifications
    BY <1>2, DeliveryType DEF Inv, HeldIsRequested
  <2>3. \A m \in Notifications \ {n} : status'[m] = status[m]
    BY <1>1 DEF Inv, TypeOK
  <2>4. \A w \in Workers : Busy(w)' <=> Busy(w)
    BY <1>1 DEF Busy
  <2>5. ASSUME NEW w \in Workers, NEW d \in queue[w] PROVE Stored(d)' = "pending"
    BY <1>3, <2>1 DEF Alone, WorksAlone
  <2>6. ASSUME NEW w \in Workers, stage[w] # "idle"
        PROVE  memory[w] = status'[job[w][1]] /\ status'[job[w][1]][job[w][2]] = "pending"
    BY <2>2, <2>3, <2>6 DEF Alone, WorksAlone, Stored
  <2>. QED
    BY <1>1, <2>4, <2>5, <2>6 DEF Alone, WorksAlone, Stored
<1>5. ToldAsStored'
  <2>1. \A d : /\ Told("NotificationSent", d)' <=> Told("NotificationSent", d)
               /\ Told("NotificationFailed", d)' <=> Told("NotificationFailed", d)
    BY DEF Request, Announce, Told
  <2>. QED
    BY <1>3, <2>1 DEF Alone, ToldAsStored
<1>6. Lost' = Lost
  <2>1. \A d \in taken : d \in Delivery /\ d[1] # n
    BY <1>2 DEF Inv, TypeOK, SentWasTaken
  <2>2. \A d \in taken : Stored(d)' = Stored(d)
    BY <1>3, <2>1
  <2>. QED
    BY <1>1, <2>2 DEF Lost
<1>7. LostAreFaults'
  BY <1>1, <1>6 DEF Alone, LostAreFaults
<1>. QED
  BY <1>4, <1>5, <1>7 DEF Alone

LEMMA FetchAlone ==
  ASSUME Inv, Alone, NEW w \in Workers, Fetch(w), ~shared'
  PROVE  Alone'
<1>1. PICK T \in Oldest(Pending) : queue' = [queue EXCEPT ![w] = T]
  BY DEF Fetch
<1>2. /\ UNCHANGED <<status, announced, job, memory, stage, tries, faults, taken, repeats>>
      /\ ~Busy(w) /\ \A v \in Workers \ {w} : ~Busy(v)
  BY DEF Fetch
<1>3. \A d \in T : Stored(d) = "pending"
  BY DEF Oldest, Pending, Stored
<1>4. queue'[w] = T /\ \A v \in Workers \ {w} : queue'[v] = queue[v] /\ ~Busy(v)'
  BY <1>1, <1>2 DEF Inv, TypeOK, Busy
<1>5. WorksAlone'
  BY <1>2, <1>3, <1>4 DEF Alone, WorksAlone, Busy, Stored
<1>6. ToldAsStored' /\ Lost' = Lost
  BY <1>2 DEF Alone, ToldAsStored, Stored, Told, Lost
<1>. QED
  BY <1>2, <1>5, <1>6 DEF Alone, LostAreFaults

LEMMA LoadAlone ==
  ASSUME Inv, Alone, NEW w \in Workers, Load(w)
  PROVE  Alone'
<1>1. PICK d \in queue[w] : /\ queue' = [queue EXCEPT ![w] = queue[w] \ {d}]
                            /\ job' = [job EXCEPT ![w] = d]
                            /\ memory' = [memory EXCEPT ![w] = status[d[1]]]
  BY DEF Load
<1>2. /\ stage[w] = "idle" /\ stage' = [stage EXCEPT ![w] = "sending"]
      /\ UNCHANGED <<status, announced, faults, taken, repeats, shared>>
  BY DEF Load
<1>3. /\ queue'[w] = queue[w] \ {d} /\ job'[w] = d /\ memory'[w] = status[d[1]]
      /\ stage'[w] = "sending"
      /\ \A v \in Workers \ {w} : /\ queue'[v] = queue[v] /\ job'[v] = job[v]
                                  /\ memory'[v] = memory[v] /\ stage'[v] = stage[v]
  BY <1>1, <1>2 DEF Inv, TypeOK
<1>4. WorksAlone'
  <2>1. \A v \in Workers : Busy(v)' => Busy(v)
    BY <1>3 DEF Busy
  <2>2. ASSUME NEW v \in Workers
        PROVE  /\ \A e \in queue'[v] : Stored(e)' = "pending"
               /\ stage'[v] # "idle" =>
                    /\ job'[v] \notin queue'[v]
                    /\ memory'[v] = status'[job'[v][1]]
                    /\ status'[job'[v][1]][job'[v][2]] = "pending"
    BY <1>1, <1>2, <1>3 DEF Alone, WorksAlone, Stored
  <2>. QED
    BY <2>1, <2>2 DEF Alone, WorksAlone, Stored
<1>5. ToldAsStored'
  BY <1>2 DEF Alone, ToldAsStored, Stored, Told
<1>6. Lost' = Lost
  <2>1. \A v \in Workers : \A e : stage'[v] = "accepted" /\ job'[v] = e
                                 <=> stage[v] = "accepted" /\ job[v] = e
    BY <1>2, <1>3
  <2>. QED
    BY <1>2, <2>1 DEF Lost, Stored
<1>. QED
  BY <1>2, <1>4, <1>5, <1>6 DEF Alone, LostAreFaults

LEMMA SendingAlone ==
  ASSUME Inv, Alone, ~shared, NEW w \in Workers, Accepted(w) \/ Refused(w)
  PROVE  Alone'
<1>1. /\ UNCHANGED <<status, announced, queue, job, memory, faults, shared>>
      /\ stage[w] = "sending"
      /\ \A v \in Workers \ {w} : stage'[v] = stage[v]
  BY DEF Accepted, Refused, Inv, TypeOK
<1>2. job[w] \in Delivery /\ Stored(job[w]) = "pending"
  BY <1>1 DEF Inv, HeldIsRequested, Alone, WorksAlone
<1>3. \A v \in Workers \ {w} : stage[v] = "idle"
  BY <1>1 DEF Alone, WorksAlone, Busy
<1>4. \A v \in Workers : stage'[v] # "idle" => stage[v] # "idle"
  BY <1>1
<1>5. WorksAlone'
  <2>1. \A v \in Workers : Busy(v)' => Busy(v)
    BY <1>1, <1>4 DEF Busy
  <2>. QED
    BY <1>1, <1>4, <2>1 DEF Alone, WorksAlone, Stored
<1>6. ToldAsStored'
  BY <1>1 DEF Alone, ToldAsStored, Stored, Told
<1>7. IsFiniteSet(Lost) /\ Cardinality(Lost) \in Nat /\ repeats + Cardinality(Lost) <= faults
      /\ repeats \in Nat /\ faults \in Nat
  BY FS_CardinalityType, MaxFaultsAssumption DEF Alone, LostAreFaults, Inv, TypeOK
<1>8. CASE Accepted(w)
  <2>1. /\ stage'[w] = "accepted"
        /\ taken' = taken \cup {job[w]}
        /\ repeats' = IF job[w] \in taken THEN repeats + 1 ELSE repeats
    BY <1>8 DEF Accepted, Inv, TypeOK
  <2>2. Lost' = Lost \ {job[w]}
    <3>1. \A d \in taken' : Stored(d)' = Stored(d)
      BY <1>1 DEF Stored
    <3>2. \A d : (\E v \in Workers : stage'[v] = "accepted" /\ job'[v] = d) <=> d = job[w]
      BY <1>1, <1>3, <2>1
    <3>3. \A d : ~\E v \in Workers : stage[v] = "accepted" /\ job[v] = d
      BY <1>1, <1>3
    <3>4. Lost' = {d \in taken' : Stored(d) = "pending" /\ d # job[w]}
      BY <3>1, <3>2 DEF Lost
    <3>5. Lost = {d \in taken : Stored(d) = "pending"}
      BY <3>3 DEF Lost
    <3>. QED
      BY <2>1, <3>4, <3>5
  <2>3. job[w] \in taken => job[w] \in Lost
    BY <1>1, <1>2, <1>3 DEF Lost
  <2>4. IsFiniteSet(Lost') /\ Cardinality(Lost') =
          IF job[w] \in Lost THEN Cardinality(Lost) - 1 ELSE Cardinality(Lost)
    BY <1>7, <2>2, FS_RemoveElement
  <2>5. repeats' + Cardinality(Lost') <= faults'
    BY <1>1, <1>7, <2>1, <2>3, <2>4
  <2>6. LostAreFaults'
    BY <2>4, <2>5 DEF LostAreFaults
  <2>. QED
    BY <1>5, <1>6, <2>6 DEF Alone
<1>9. CASE Refused(w)
  <2>1. UNCHANGED <<taken, repeats>> /\ stage'[w] # "accepted"
    BY <1>1, <1>9 DEF Refused, Inv, TypeOK
  <2>2. \A v \in Workers : stage'[v] = "accepted" <=> stage[v] = "accepted"
    BY <1>1, <2>1
  <2>3. Lost' = Lost
    BY <1>1, <2>1, <2>2 DEF Lost, Stored
  <2>4. LostAreFaults'
    BY <1>1, <2>1, <2>3 DEF Alone, LostAreFaults
  <2>. QED
    BY <1>5, <1>6, <2>4 DEF Alone
<1>. QED
  BY <1>8, <1>9

\* What a worker leaves behind when it ends its delivery.
LEMMA LeaveAlone ==
  ASSUME Inv, WorksAlone, NEW w \in Workers, Leave(w)
  PROVE  /\ stage'[w] = "idle"
         /\ \A v \in Workers \ {w} : /\ stage'[v] = stage[v] /\ job'[v] = job[v]
                                     /\ memory'[v] = memory[v]
BY DEF Leave, Inv, TypeOK

LEMMA SaveAlone ==
  ASSUME Inv, Alone, NEW w \in Workers, SaveSent(w) \/ SaveFailed(w)
  PROVE  /\ Alone'
         /\ \A d \in Delivery : Stored(d) \in {"sent", "failed"} => Stored(d)' = Stored(d)
<1>1. PICK outcome \in {"sent", "failed"},
           type \in {"NotificationSent", "NotificationFailed"} :
        /\ Save(w, outcome, type)
        /\ type = "NotificationSent" <=> outcome = "sent"
        /\ stage[w] # "idle"
  BY DEF SaveSent, SaveFailed
<1> DEFINE d0 == job[w]
<1>2. WorksAlone /\ d0 \in Delivery /\ Stored(d0) = "pending" /\ d0 \notin queue[w]
  BY <1>1 DEF Alone, WorksAlone, Inv, HeldIsRequested
<1>3. \A v \in Workers \ {w} : stage[v] = "idle" /\ queue[v] = {}
  BY <1>1 DEF Alone, WorksAlone, Busy
<1>4. /\ Leave(w) /\ announced' = announced \cup {[type |-> type, delivery |-> d0]}
      /\ UNCHANGED <<queue, faults, taken, repeats, shared>>
  BY <1>1 DEF Save, Announce
<1>5. \A d \in Delivery : Stored(d)' = IF d = d0 THEN outcome ELSE Stored(d)
  BY <1>1, <1>2, SavesOne
<1>6. \A v \in Workers : stage'[v] = "idle"
  BY <1>2, <1>3, <1>4, LeaveAlone
<1> HIDE DEF d0
<1>7. WorksAlone'
  <2>1. \A v \in Workers : Busy(v)' => v = w
    BY <1>3, <1>4, <1>6 DEF Busy
  <2>2. ASSUME NEW v \in Workers, NEW d \in queue'[v] PROVE Stored(d)' = "pending"
    <3>1. v = w /\ d \in queue[w] /\ d \in Delivery /\ d # d0
      BY <1>2, <1>3, <1>4 DEF Inv, TypeOK
    <3>2. Stored(d) = "pending"
      BY <1>2, <3>1 DEF WorksAlone
    <3>. QED
      BY <1>5, <3>1, <3>2
  <2>. QED
    BY <1>6, <2>1, <2>2 DEF WorksAlone
<1>8. ToldAsStored'
  <2>. SUFFICES ASSUME NEW d \in Delivery
                PROVE  /\ Told("NotificationSent", d)' <=> Stored(d)' = "sent"
                       /\ Told("NotificationFailed", d)' <=> Stored(d)' = "failed"
    BY DEF ToldAsStored
  <2>1. /\ Told("NotificationSent", d) <=> Stored(d) = "sent"
        /\ Told("NotificationFailed", d) <=> Stored(d) = "failed"
    BY DEF Alone, ToldAsStored
  <2>2. \A t : Told(t, d)' <=> Told(t, d) \/ (t = type /\ d = d0)
    BY <1>4 DEF Told
  <2>3. CASE d = d0
    BY <1>1, <1>2, <1>5, <2>1, <2>2, <2>3
  <2>4. CASE d # d0
    BY <1>5, <2>1, <2>2, <2>4
  <2>. QED
    BY <2>3, <2>4
<1>9. LostAreFaults'
  <2>1. \A d \in taken : d \in Delivery
    BY DEF Inv, TypeOK
  <2>2. Lost' \subseteq Lost
    <3>. SUFFICES ASSUME NEW d \in taken, Stored(d)' = "pending" PROVE d \in Lost
      BY <1>4 DEF Lost
    <3>1. d # d0 /\ Stored(d) = "pending"
      BY <1>1, <1>5, <2>1
    <3>. QED
      BY <1>3, <3>1 DEF Lost, d0
  <2>3. IsFiniteSet(Lost) /\ repeats + Cardinality(Lost) <= faults
    BY DEF Alone, LostAreFaults
  <2>4. /\ IsFiniteSet(Lost') /\ Cardinality(Lost') <= Cardinality(Lost)
        /\ Cardinality(Lost') \in Nat /\ Cardinality(Lost) \in Nat
    BY <2>2, <2>3, FS_Subset, FS_CardinalityType
  <2>5. repeats \in Nat /\ faults \in Nat
    BY MaxFaultsAssumption DEF Inv, TypeOK
  <2>. QED
    BY <1>4, <2>3, <2>4, <2>5 DEF LostAreFaults
<1>. QED
  BY <1>2, <1>5, <1>7, <1>8, <1>9 DEF Alone

\* One element more makes a finite set larger by one at most.
LEMMA OneMore ==
  ASSUME NEW S, IsFiniteSet(S), NEW x
  PROVE  /\ IsFiniteSet(S \cup {x})
         /\ Cardinality(S \cup {x}) \in Nat
         /\ Cardinality(S \cup {x}) <= Cardinality(S) + 1
<1>1. /\ IsFiniteSet(S \cup {x})
      /\ Cardinality(S \cup {x}) = IF x \in S THEN Cardinality(S) ELSE Cardinality(S) + 1
  BY FS_AddElement
<1>2. Cardinality(S) \in Nat
  BY FS_CardinalityType
<1>. QED
  BY <1>1, <1>2

LEMMA CrashAlone ==
  ASSUME Inv, Alone, NEW w \in Workers, Crash(w)
  PROVE  Alone'
<1>1. /\ queue' = [queue EXCEPT ![w] = {}] /\ Leave(w)
      /\ faults' = faults + 1 /\ faults \in Nat /\ repeats \in Nat
      /\ UNCHANGED <<status, announced, taken, repeats, shared>>
  BY MaxFaultsAssumption DEF Crash, Inv, TypeOK
<1>2. queue'[w] = {} /\ \A v \in Workers \ {w} : queue'[v] = queue[v]
  BY <1>1 DEF Inv, TypeOK
<1>3. /\ stage'[w] = "idle"
      /\ \A v \in Workers \ {w} : /\ stage'[v] = stage[v] /\ job'[v] = job[v]
                                  /\ memory'[v] = memory[v]
  BY <1>1, LeaveAlone DEF Alone
<1>4. WorksAlone'
  <2>1. \A v \in Workers : Busy(v)' => Busy(v)
    BY <1>2, <1>3 DEF Busy
  <2>. QED
    BY <1>1, <1>2, <1>3, <2>1 DEF Alone, WorksAlone, Stored
<1>5. ToldAsStored'
  BY <1>1 DEF Alone, ToldAsStored, Stored, Told
<1>6. Lost' \subseteq Lost \cup {job[w]}
  BY <1>1, <1>3 DEF Lost, Stored
<1>7. IsFiniteSet(Lost) /\ repeats + Cardinality(Lost) <= faults /\ Cardinality(Lost) \in Nat
  BY FS_CardinalityType DEF Alone, LostAreFaults
<1>8. /\ IsFiniteSet(Lost \cup {job[w]})
      /\ Cardinality(Lost \cup {job[w]}) \in Nat
      /\ Cardinality(Lost \cup {job[w]}) <= Cardinality(Lost) + 1
  BY <1>7, OneMore
<1>9. /\ IsFiniteSet(Lost') /\ Cardinality(Lost') \in Nat
      /\ Cardinality(Lost') <= Cardinality(Lost \cup {job[w]})
  BY <1>6, <1>8, FS_Subset, FS_CardinalityType
<1>10. LostAreFaults'
  <2>1. repeats' + Cardinality(Lost') <= faults'
    BY <1>1, <1>7, <1>8, <1>9
  <2>. QED
    BY <1>9, <2>1 DEF LostAreFaults
<1>. QED
  BY <1>4, <1>5, <1>10 DEF Alone

LEMMA AloneStep ==
  ASSUME AloneInv, [Next]_vars, ~shared'
  PROVE  /\ Alone'
         /\ \A d \in Delivery : Stored(d) \in {"sent", "failed"} => Stored(d)' = Stored(d)
<1>1. ~shared
  BY DEF Next, Work, Request, Fetch, Load, Accepted, Refused, SaveSent, SaveFailed, Save,
         Crash, vars
<1>2. Inv /\ Alone
  BY <1>1 DEF AloneInv
<1>3. ASSUME status' = status
      PROVE  \A d \in Delivery : Stored(d)' = Stored(d)
  BY <1>3 DEF Stored
<1>4. ASSUME NEW n \in Notifications, Request(n)
      PROVE  /\ Alone'
             /\ \A d \in Delivery : Stored(d) \in {"sent", "failed"} => Stored(d)' = Stored(d)
  <2>1. \A d \in Delivery : Stored(d) \in {"sent", "failed"} => d[1] # n
    BY <1>4, DeliveryType, UnloadedType DEF Request, Stored
  <2>2. \A m \in Notifications \ {n} : status'[m] = status[m]
    BY <1>2, <1>4 DEF Request, Inv, TypeOK
  <2>3. \A d \in Delivery : d[1] # n => Stored(d)' = Stored(d)
    BY <2>2, DeliveryType DEF Stored
  <2>. QED
    BY <1>2, <1>4, <2>1, <2>3, RequestAlone
<1>5. ASSUME NEW w \in Workers, Fetch(w) \/ Load(w) \/ Accepted(w) \/ Refused(w) \/ Crash(w)
      PROVE  Alone' /\ status' = status
  <2>1. Alone'
    BY <1>1, <1>2, <1>5, FetchAlone, LoadAlone, SendingAlone, CrashAlone
  <2>2. status' = status
    BY <1>5 DEF Fetch, Load, Accepted, Refused, Crash
  <2>. QED
    BY <2>1, <2>2
<1>6. CASE UNCHANGED vars
  <2>1. Alone'
    BY <1>2, <1>6 DEF vars, Alone, WorksAlone, ToldAsStored, LostAreFaults, Lost, Busy, Stored, Told
  <2>. QED
    BY <1>3, <1>6, <2>1 DEF vars
<1>7. CASE \E n \in Notifications : Request(n)
  BY <1>4, <1>7
<1>8. ASSUME NEW w \in Workers, Work(w) \/ Crash(w)
      PROVE  /\ Alone'
             /\ \A d \in Delivery : Stored(d) \in {"sent", "failed"} => Stored(d)' = Stored(d)
  BY <1>2, <1>3, <1>5, <1>8, SaveAlone DEF Work
<1>. QED
  BY <1>6, <1>7, <1>8 DEF Next

LEMMA AloneInvariance == Spec => []AloneInv
<1>1. Init => AloneInv
  BY InvInit, AloneInit DEF AloneInv
<1>2. AloneInv /\ [Next]_vars => AloneInv'
  BY InvStep, AloneStep DEF AloneInv
<1>. QED
  BY <1>1, <1>2, PTL DEF Spec

\* While workers do not overlap, a message is repeated at most once for each fault, and
\* a delivery is announced as what it is stored as.
THEOREM RepeatsStandForFaults == Spec => []RepeatsAreFaults
<1>1. AloneInv => RepeatsAreFaults
  <2>. SUFFICES ASSUME Inv, Alone
                PROVE  /\ repeats <= faults
                       /\ \A n \in Notifications, c \in Channels :
                            /\ Told("NotificationSent", <<n, c>>) <=> status[n][c] = "sent"
                            /\ Told("NotificationFailed", <<n, c>>) <=> status[n][c] = "failed"
    BY DEF AloneInv, RepeatsAreFaults
  <2>1. repeats <= faults
    BY FS_CardinalityType, MaxFaultsAssumption DEF Alone, LostAreFaults, Inv, TypeOK
  <2>2. \A n \in Notifications, c \in Channels :
          <<n, c>> \in Delivery /\ Stored(<<n, c>>) = status[n][c]
    BY DEF Delivery, Stored
  <2>. QED
    BY <2>1, <2>2 DEF Alone, ToldAsStored
<1>. QED
  BY <1>1, AloneInvariance, PTL

\* While workers do not overlap, saving one delivery never undoes another.
THEOREM OutcomesAreFinal == Spec => OutcomesStay
<1>1. AloneInv /\ [Next]_vars =>
        [~shared' => \A n \in Notifications, c \in Channels :
           status[n][c] \in {"sent", "failed"} => status'[n][c] = status[n][c]]_vars
  <2>. SUFFICES ASSUME AloneInv, [Next]_vars, ~shared',
                       NEW n \in Notifications, NEW c \in Channels,
                       status[n][c] \in {"sent", "failed"}
                PROVE  status'[n][c] = status[n][c]
    OBVIOUS
  <2>1. <<n, c>> \in Delivery /\ Stored(<<n, c>>) = status[n][c]
    BY DEF Delivery, Stored
  <2>2. Stored(<<n, c>>)' = Stored(<<n, c>>)
    BY <2>1, AloneStep
  <2>. QED
    BY <2>1, <2>2 DEF Stored
<1>. QED
  BY <1>1, AloneInvariance, PTL DEF Spec, OutcomesStay
=============================================================================
