-------------------------- MODULE FulfilmentProofs --------------------------
(***************************************************************************)
(* Theorems about Fulfilment, for any sessions, carts, calls, items and    *)
(* stock, any batch size and any number of faults.                         *)
(*                                                                         *)
(* Every step is a step of Checkout, of Inventory and of the Outbox, or    *)
(* leaves them alone (EveryStep), so what InventoryProofs and OutboxProofs *)
(* have proved of the components holds of them here: only that the         *)
(* constants fit, and that a definition instantiated twice is the same,    *)
(* has to be said.                                                         *)
(*                                                                         *)
(* What none of them knows is what an attempt of the worker has done: the  *)
(* lines that its command has lost are those it announced (ReservedInv),   *)
(* and every announced reservation is the one some attempt made for a line *)
(* of an order that exists (GrantsInv).  The first handler returns when an *)
(* attempt has no line left, which ties the bus to the stock (DeliveryInv).*)
(***************************************************************************)
EXTENDS Fulfilment, FiniteSetTheorems, SequenceTheorems, TLAPS

StockFacts == INSTANCE InventoryProofs
  WITH Orders <- Calls, Requests <- Attempts, Commands <- StockCommands
BusFacts == INSTANCE OutboxProofs
  WITH Messages <- Calls, Workers <- {Worker},
       Handlers <- [c \in Calls |-> 2], FailsAt <- [c \in Calls |-> 3]

-----------------------------------------------------------------------------
(* The constants are what Inventory and Outbox assume of theirs. *)

LEMMA CommandsFit == StockCommands \subseteq StockFacts!Command
<1>1. ASSUME NEW c \in Calls, NEW s \in Sessions PROVE ReserveFor(c, s) \in StockFacts!Command
  BY CartAssumption DEF ReserveFor, StockFacts!Command, StockFacts!ReserveCommand,
                        StockFacts!Line
<1>2. ASSUME NEW c \in Calls PROVE ReleaseFor(c) \in StockFacts!Command
  BY DEF ReleaseFor, StockFacts!Command, StockFacts!ReleaseOrderCommand
<1>. QED
  BY <1>1, <1>2 DEF StockCommands

LEMMA NoRowFits == NoItem \notin StockFacts!Aggregate
  BY NoRowAssumption DEF Stock!Aggregate, StockFacts!Aggregate, Stock!Reservation,
                         StockFacts!Reservation, Stock!Adjustment, StockFacts!Adjustment,
                         Stock!Id, StockFacts!Id

LEMMA HandlersFit ==
  /\ Calls \subseteq Nat
  /\ [c \in Calls |-> 2] \in [Calls -> Nat]
  /\ [c \in Calls |-> 3] \in [Calls -> Nat]
  /\ \A m \in Calls : [c \in Calls |-> 3][m] <= [c \in Calls |-> 2][m] + 1
  BY CallsAssumption

-----------------------------------------------------------------------------
(* The definitions of Fulfilment and those of the proofs are the same. *)

LEMMA SameMethods ==
  /\ \A n : Stock!NewItem(n) = StockFacts!NewItem(n)
  /\ Stock!Unloaded = StockFacts!Unloaded
  /\ \A a : Stock!Available(a) = StockFacts!Available(a)
  /\ \A a, q : Stock!CanReserve(a, q) = StockFacts!CanReserve(a, q)
  /\ \A a, x, o, q : Stock!Reserve(a, x, o, q) = StockFacts!Reserve(a, x, o, q)
  /\ \A a, o : Stock!OfOrder(a, o) = StockFacts!OfOrder(a, o)
  /\ \A a, S, n : Stock!Release(a, S, n) = StockFacts!Release(a, S, n)
  /\ \A r, i, S : Stock!ReleaseMessages(r, i, S) = StockFacts!ReleaseMessages(r, i, S)
BY DEF Stock!NewItem, StockFacts!NewItem, Stock!Unloaded, StockFacts!Unloaded,
       Stock!Available, StockFacts!Available, Stock!CanReserve, StockFacts!CanReserve,
       Stock!Reserve, StockFacts!Reserve, Stock!OfOrder, StockFacts!OfOrder,
       Stock!Active, StockFacts!Active, Stock!Release, StockFacts!Release,
       Stock!ReleaseMessages, StockFacts!ReleaseMessages

LEMMA SameTotal == \A S : Stock!TotalQuantity(S) = StockFacts!TotalQuantity(S)
BY DEF Stock!TotalQuantity, StockFacts!TotalQuantity, Stock!MapThenSumSet,
       StockFacts!MapThenSumSet, Stock!MapThenFoldSet, StockFacts!MapThenFoldSet

LEMMA SameRemaining == \A a, S : Stock!Remaining(a, S) = StockFacts!Remaining(a, S)
BY SameTotal DEF Stock!Remaining, StockFacts!Remaining

LEMMA SameSave == \A r, i, a, m : Stock!Save(r, i, a, m) => StockFacts!Save(r, i, a, m)
BY SameMethods DEF Stock!Save, StockFacts!Save, Stock!Note, StockFacts!Note

LEMMA SameFinish == \A r : Stock!Finish(r) => StockFacts!Finish(r)
BY DEF Stock!Finish, StockFacts!Finish

LEMMA SameSelected == \A c : Stock!Selected(c) = StockFacts!Selected(c)
BY SameMethods DEF Stock!Selected, StockFacts!Selected, Stock!Stored, StockFacts!Stored

\* The steps of the commands that are used here.
LEMMA StockMoves == ASSUME NEW a \in Attempts, StockStep(a) PROVE StockFacts!Next
<1>1. Stock!SelectRows(a) => StockFacts!SelectRows(a)
  BY SameSelected, SameMethods DEF Stock!SelectRows, StockFacts!SelectRows
<1>2. Stock!SelectReservations(a) => StockFacts!SelectReservations(a)
  BY DEF Stock!SelectReservations, StockFacts!SelectReservations
<1>3. Stock!SelectAdjustments(a) => StockFacts!SelectAdjustments(a)
  BY DEF Stock!SelectAdjustments, StockFacts!SelectAdjustments
<1>4. Stock!SaveReserved(a) => StockFacts!SaveReserved(a)
  BY SameSave, SameFinish, SameMethods DEF Stock!SaveReserved, StockFacts!SaveReserved
<1>5. Stock!SaveReleasedForOrder(a) => StockFacts!SaveReleasedForOrder(a)
  BY SameSave, SameFinish, SameMethods, SameRemaining DEF Stock!SaveReleasedForOrder,
     StockFacts!SaveReleasedForOrder
<1>6. Stock!Fail(a) => StockFacts!Fail(a)
  BY SameMethods DEF Stock!Fail, StockFacts!Fail
<1>. QED
  BY <1>1, <1>2, <1>3, <1>4, <1>5, <1>6 DEF StockStep, StockFacts!Next

LEMMA BusPolls == Bus!Fetch(Worker) => BusFacts!Fetch(Worker)
  BY DEF Bus!Fetch, BusFacts!Fetch, Bus!Oldest, BusFacts!Oldest, Bus!Unprocessed,
         BusFacts!Unprocessed, Bus!Cardinality, BusFacts!Cardinality

LEMMA BusStops == Bus!Crash(Worker) => BusFacts!Crash(Worker)
  BY DEF Bus!Crash, BusFacts!Crash, Bus!Fault, BusFacts!Fault

LEMMA BusMoves ==
  ASSUME NEW c \in Calls
  PROVE  /\ Bus!Write(c) => BusFacts!Write(c)
         /\ Bus!Parse(Worker, c) => BusFacts!Parse(Worker, c)
         /\ Bus!Handle(Worker, c) => BusFacts!Handle(Worker, c)
         /\ Bus!MarkProcessed(Worker, c) => BusFacts!MarkProcessed(Worker, c)
         /\ Bus!FailOnce(Worker, c) => BusFacts!FailOnce(Worker, c)
<1>1. Bus!Write(c) => BusFacts!Write(c)
  BY DEF Bus!Write, BusFacts!Write
<1>2. Bus!Parse(Worker, c) => BusFacts!Parse(Worker, c)
  BY DEF Bus!Parse, BusFacts!Parse, Bus!At, BusFacts!At
<1>3. Bus!Handle(Worker, c) => BusFacts!Handle(Worker, c)
  BY DEF Bus!Handle, BusFacts!Handle, Bus!At, BusFacts!At
<1>4. Bus!MarkProcessed(Worker, c) => BusFacts!MarkProcessed(Worker, c)
  BY DEF Bus!MarkProcessed, BusFacts!MarkProcessed, Bus!At, BusFacts!At, Bus!Advance,
         BusFacts!Advance
<1>5. Bus!FailOnce(Worker, c) => BusFacts!FailOnce(Worker, c)
  BY DEF Bus!FailOnce, BusFacts!FailOnce, Bus!At, BusFacts!At, Bus!Fault, BusFacts!Fault,
         Bus!RecordFailure, BusFacts!RecordFailure, Bus!Advance, BusFacts!Advance
<1>. QED
  BY <1>1, <1>2, <1>3, <1>4, <1>5

-----------------------------------------------------------------------------
(* The components keep what has been proved of each alone. *)

StockInv == StockFacts!TypeInv /\ StockFacts!FitInv /\ StockFacts!AnnouncedInv
BusInv == BusFacts!Inv

LEMMA SameTypes ==
  /\ Stock!Aggregate = StockFacts!Aggregate /\ Stock!Message = StockFacts!Message
  /\ Stock!Command = StockFacts!Command /\ Stock!Phases = StockFacts!Phases
BY DEF Stock!Aggregate, StockFacts!Aggregate, Stock!Reservation, StockFacts!Reservation,
       Stock!Adjustment, StockFacts!Adjustment, Stock!Id, StockFacts!Id,
       Stock!Message, StockFacts!Message, Stock!Command, StockFacts!Command,
       Stock!CreateCommand, StockFacts!CreateCommand, Stock!AdjustCommand,
       StockFacts!AdjustCommand,
       Stock!ReserveCommand, StockFacts!ReserveCommand, Stock!ReleaseCommand,
       StockFacts!ReleaseCommand,
       Stock!ReleaseOrderCommand, StockFacts!ReleaseOrderCommand, Stock!Line, StockFacts!Line,
       Stock!Phases, StockFacts!Phases

LEMMA StockKeepsItsOwn ==
  StockInv => Stock!TypeOK /\ Stock!ReservedWithinOnHand /\ Stock!ReservationsAnnounced
<1>. SUFFICES ASSUME StockInv
              PROVE  Stock!TypeOK /\ Stock!ReservedWithinOnHand /\ Stock!ReservationsAnnounced
  OBVIOUS
<1>1. Stock!TypeOK
  BY SameTypes DEF StockInv, StockFacts!TypeInv, StockFacts!TypeOK, Stock!TypeOK
<1>2. Stock!ReservedWithinOnHand
  BY DEF StockInv, StockFacts!FitInv, StockFacts!Fits, StockFacts!NothingTaken,
         StockFacts!Stored,
         Stock!ReservedWithinOnHand, Stock!NothingTaken, Stock!Stored
<1>3. Stock!ReservationsAnnounced
  BY DEF StockInv, StockFacts!AnnouncedInv, StockFacts!ReservationsAnnounced,
         StockFacts!Announced,
         StockFacts!Stored, Stock!ReservationsAnnounced, Stock!Announced, Stock!Stored
<1>. QED
  BY <1>1, <1>2, <1>3

LEMMA BusKeepsItsOwn ==
  BusInv => Bus!TypeOK /\ Bus!ProcessedAfterAllHandlers /\ Bus!HandlersInOrder
BY DEF BusInv, BusFacts!Inv, BusFacts!TypeOK, Bus!TypeOK, BusFacts!ProcessedAfterAllHandlers,
       Bus!ProcessedAfterAllHandlers, BusFacts!HandlersInOrder, Bus!HandlersInOrder

LEMMA StockInit == Init => StockInv
<1>. SUFFICES ASSUME Init PROVE StockInv
  OBVIOUS
<1>1. StockFacts!Init
  BY SameMethods DEF Init, Stock!Init, StockFacts!Init, Stock!Stored, StockFacts!Stored
<1>2. StockFacts!TypeInv
  BY <1>1, StockFacts!TypeInit, CommandsFit, NoRowFits, LimitsAssumption
<1>3. StockFacts!FitInv
  BY <1>1, StockFacts!FitInit, CommandsFit, NoRowFits, LimitsAssumption
<1>4. StockFacts!AnnouncedInv
  BY <1>1, StockFacts!AnnouncedInit, CommandsFit, NoRowFits, LimitsAssumption
<1>. QED
  BY <1>2, <1>3, <1>4 DEF StockInv

LEMMA StockStays == ASSUME StockInv, [StockFacts!Next]_(StockFacts!vars) PROVE StockInv'
<1>2. StockFacts!TypeInv'
  BY StockFacts!TypeStep, CommandsFit, NoRowFits, LimitsAssumption DEF StockInv
<1>3. StockFacts!FitInv'
  BY StockFacts!FitStep, CommandsFit, NoRowFits, LimitsAssumption DEF StockInv
<1>4. StockFacts!AnnouncedInv'
  BY StockFacts!AnnouncedStep, CommandsFit, NoRowFits, LimitsAssumption DEF StockInv
<1>. QED
  BY <1>2, <1>3, <1>4 DEF StockInv

LEMMA BusInit == Init => BusInv
<1>1. Init => BusFacts!Init
  BY DEF Init, Bus!Init, BusFacts!Init
<1>. QED
  BY <1>1, BusFacts!InvInit, HandlersFit, LimitsAssumption DEF BusInv

LEMMA BusStays == ASSUME BusInv, [BusFacts!Next]_(BusFacts!vars) PROVE BusInv'
  BY BusFacts!InvStep, HandlersFit, LimitsAssumption DEF BusInv

\* The worker's attempts, the staff calls apart.
Tries == Calls \X (0..MaxFaults)

LEMMA AttemptNames ==
  ASSUME BusInv, NEW c \in Calls
  PROVE  /\ Attempt(c) \in Tries /\ Tries \subseteq Attempts /\ StaffCall(c) \in Attempts
         /\ StaffCall(c) \notin Tries
         /\ Attempt(c)[1] = c /\ Attempt(c)[2] = faults /\ StaffCall(c)[1] = c
<1>1. faults \in 0..MaxFaults /\ MaxFaults \in Nat
  BY LimitsAssumption DEF BusInv, BusFacts!Inv, BusFacts!TypeOK
<1>. QED
  BY <1>1 DEF Attempt, Tries, Attempts, StaffCall

\* No step does more to a component than the component can do.
LEMMA EveryStep ==
  ASSUME BusInv, [Next]_vars
  PROVE  [Store!Next]_checkoutVars /\ [StockFacts!Next]_(StockFacts!vars)
           /\ [BusFacts!Next]_(BusFacts!vars)
<1>. DEFINE T == [Store!Next]_checkoutVars /\ [StockFacts!Next]_(StockFacts!vars)
                   /\ [BusFacts!Next]_(BusFacts!vars)
<1>. USE DEF checkoutVars, stockVars, busVars, StockFacts!vars, BusFacts!vars
<1>1. CASE UNCHANGED vars
  BY <1>1 DEF vars
<1>2. ASSUME NEW s \in Sessions, StartCheckout(s) PROVE T
  BY <1>2 DEF StartCheckout, Store!Next
<1>3. ASSUME NEW c \in Calls, PlaceOrder(c) PROVE T
  BY <1>3, BusMoves DEF PlaceOrder, Store!Next, BusFacts!Next
<1>4. ASSUME NEW c \in Calls, OtherCheckoutStep(c) PROVE T
  BY <1>4 DEF OtherCheckoutStep, Store!Next
<1>5. ASSUME NEW c \in Calls, ReserveStock(c) PROVE T
  BY <1>5, AttemptNames, StockMoves DEF ReserveStock
<1>6. ASSUME NEW c \in Calls, ReserveReturns(c) \/ Notify(c) \/ MarkFails(c) PROVE T
  <2>1. Bus!Handle(Worker, c) \/ Bus!FailOnce(Worker, c)
    BY <1>6 DEF ReserveReturns, Notify, MarkFails
  <2>2. BusFacts!Next
    BY <2>1, BusMoves DEF BusFacts!Next, BusFacts!Work
  <2>. QED
    BY <1>6, <2>2 DEF ReserveReturns, Notify, MarkFails
<1>7. ASSUME NEW c \in Calls, StaffReleases(c) PROVE T
  BY <1>7, AttemptNames, StockMoves DEF StaffReleases
<1>8. CASE BusStep
  <2>1. BusFacts!Next
    BY <1>8, BusMoves, BusPolls DEF BusStep, BusFacts!Next, BusFacts!Work
  <2>. QED
    BY <1>8, <2>1 DEF BusStep
<1>9. CASE WorkerStops
  <2>1. BusFacts!Next
    BY <1>9, BusStops DEF WorkerStops, BusFacts!Next
  <2>2. [StockFacts!Next]_(StockFacts!vars)
    BY <1>9, AttemptNames, StockMoves DEF WorkerStops, StockStep
  <2>. QED
    BY <1>9, <2>1, <2>2 DEF WorkerStops
<1>. QED
  BY <1>1, <1>2, <1>3, <1>4, <1>5, <1>6, <1>7, <1>8, <1>9 DEF Next

-----------------------------------------------------------------------------
(* The checkout. *)

\* How far a call is tells what it has found and done.
StageTells(c) ==
  /\ stage[c] = "checked" => session[asked[c]] \in {"started", "completed"}
  /\ stage[c] \in {"ordered", "closed", "charged", "ok"} =>
       order[c] # "none" /\ session[asked[c]] \in {"started", "completed"}
  /\ stage[c] \in {"closed", "charged", "ok"} => session[asked[c]] = "completed"

CheckoutInv ==
  /\ Store!TypeOK
  /\ Store!CheckoutInOrder
  /\ \A c \in Calls : StageTells(c)
  /\ \A c \in cancelling : order[c] # "none"

\* Nothing takes an order or the end of a session back.
Grows ==
  /\ asked' = asked
  /\ \A c \in Calls : order[c] # "none" => order'[c] # "none"
  /\ \A s \in Sessions :
       /\ session[s] = "completed" => session'[s] = "completed"
       /\ session[s] = "started" => session'[s] \in {"started", "completed"}

LEMMA CheckoutInit == Init => CheckoutInv
BY DEF Init, Store!Init, CheckoutInv, Store!TypeOK, Store!CheckoutInOrder,
       Store!CompletedSessionHasOrder,
       Store!ChargedOrderIsClosed, StageTells, Store!Stages

LEMMA StoreGrows ==
  ASSUME CheckoutInv, [Store!Next]_checkoutVars
  PROVE  Grows
<1>. USE DEF CheckoutInv, Store!TypeOK, Grows
<1>1. CASE UNCHANGED checkoutVars
  BY <1>1 DEF checkoutVars
<1>2. ASSUME NEW s \in Sessions, Store!Validate(s) \/ Store!Start(s) PROVE Grows
  BY <1>2 DEF Store!Validate, Store!Start
<1>3. ASSUME NEW c \in Calls, \/ Store!CreateOrder(c) \/ Store!CompleteStep(c)
                              \/ Store!LoadForCancel(c) \/ Store!Cancel(c)
      PROVE  Grows
  BY <1>3 DEF Store!CreateOrder, Store!CompleteStep, Store!Check, Store!CloseSession,
              Store!ChargeProvider, Store!SavePayment, Store!GiveUp, Store!LoadForCancel,
              Store!Cancel
<1>. QED
  BY <1>1, <1>2, <1>3 DEF Store!Next

\* What was true of an order that the step did not touch stays true.
LEMMA OrdersStay ==
  ASSUME CheckoutInv, Grows
  PROVE  /\ \A s \in Sessions : Store!OrdersOf(s) # {} => Store!OrdersOf(s)' # {}
         /\ \A c \in Calls : stage'[c] = stage[c] /\ StageTells(c) => StageTells(c)'
         /\ \A c \in Calls : order[c] # "none" /\ session[asked[c]] = "completed" =>
                               order'[c] # "none" /\ session'[asked'[c]] = "completed"
<1>. USE DEF CheckoutInv, Store!TypeOK, Grows
<1>1. \A s \in Sessions : Store!OrdersOf(s) # {} => Store!OrdersOf(s)' # {}
  BY DEF Store!OrdersOf
<1>2. \A c \in Calls : asked[c] \in Sessions
  OBVIOUS
<1>3. \A c \in Calls : stage'[c] = stage[c] /\ StageTells(c) => StageTells(c)'
  BY <1>2 DEF StageTells
<1>. QED
  BY <1>1, <1>2, <1>3

LEMMA StoreTypes ==
  ASSUME CheckoutInv, Store!Next
  PROVE  Store!TypeOK'
<1>. USE DEF CheckoutInv, Store!TypeOK
<1>0. /\ \A s \in Sessions : [type |-> "CheckoutStarted", session |-> s] \in Store!Message
      /\ \A c \in Calls : /\ [type |-> "CheckoutCompleted", session |-> asked[c], order |-> c]
                               \in Store!Message
                          /\ [type |-> "OrderCreated", order |-> c] \in Store!Message
                          /\ [type |-> "OrderCancelled", order |-> c] \in Store!Message
                          /\ [type |-> "PaymentInitiated", order |-> c] \in Store!Message
  BY DEF Store!Message
<1>2. ASSUME NEW s \in Sessions, Store!Validate(s) \/ Store!Start(s) PROVE Store!TypeOK'
  BY <1>0, <1>2 DEF Store!Validate, Store!Start, Store!Announce
<1>3. ASSUME NEW c \in Calls, \/ Store!CreateOrder(c) \/ Store!LoadForCancel(c) \/ Store!Cancel(c)
      PROVE  Store!TypeOK'
  BY <1>0, <1>3 DEF Store!CreateOrder, Store!LoadForCancel, Store!Cancel, Store!Step,
                    Store!Stages, Store!Announce
<1>4. ASSUME NEW c \in Calls, Store!CompleteStep(c)
      PROVE  Store!TypeOK'
  BY <1>0, <1>4 DEF Store!CompleteStep, Store!Check, Store!CloseSession, Store!Step,
                    Store!Stages, Store!Announce,
              Store!ChargeProvider, Store!SavePayment, Store!GiveUp
<1>. QED
  BY <1>2, <1>3, <1>4 DEF Store!Next

\* A session or a message that a step closes has an order.
NewlyClosed ==
  /\ \A s \in Sessions : session'[s] = "completed" =>
       session[s] = "completed" \/ \E c \in Calls : asked[c] = s /\ order[c] # "none"
  /\ \A m \in announced' : m.type = "CheckoutCompleted" =>
       m \in announced \/ (m.order \in Calls /\ order[m.order] # "none")

\* So has an order that a step charges.
NewlyCharged ==
  \A c \in intents' \cup payment' :
    c \in intents \cup payment \/ (order[c] # "none" /\ session[asked[c]] = "completed")

LEMMA CheckoutStays ==
  ASSUME CheckoutInv, [Store!Next]_checkoutVars
  PROVE  CheckoutInv' /\ Grows
<1>1. Grows
  BY StoreGrows
<1>2. CASE UNCHANGED checkoutVars
  <2>1. CheckoutInv'
    BY <1>2 DEF checkoutVars, CheckoutInv, Store!TypeOK, StageTells, Store!CheckoutInOrder,
                Store!CompletedSessionHasOrder, Store!ChargedOrderIsClosed, Store!OrdersOf
  <2>. QED
    BY <1>1, <2>1
<1>. SUFFICES ASSUME Store!Next PROVE CheckoutInv'
  BY <1>1, <1>2
<1>3. Store!TypeOK'
  BY StoreTypes
<1>. USE DEF CheckoutInv, Store!TypeOK
<1>4. \A c \in Calls : StageTells(c)'
  <2>1. ASSUME NEW s \in Sessions, Store!Validate(s) \/ Store!Start(s)
        PROVE  \A c \in Calls : stage'[c] = stage[c]
    BY <2>1 DEF Store!Validate, Store!Start
  <2>2. ASSUME NEW d \in Calls, \/ Store!CreateOrder(d) \/ Store!CompleteStep(d)
                                \/ Store!LoadForCancel(d) \/ Store!Cancel(d)
        PROVE  /\ \A c \in Calls \ {d} : stage'[c] = stage[c]
               /\ stage'[d] = stage[d] \/ StageTells(d)'
    <3>0. asked[d] \in Sessions /\ asked' = asked /\ StageTells(d)
      BY <1>1 DEF Grows
    <3>1. CASE Store!CreateOrder(d)
      BY <3>0, <3>1 DEF Store!CreateOrder, Store!Step, StageTells
    <3>2. CASE Store!Check(d) \/ Store!GiveUp(d)
      BY <3>0, <3>2 DEF Store!Check, Store!GiveUp, Store!Step, StageTells
    <3>3. CASE Store!CloseSession(d)
      BY <3>0, <3>3 DEF Store!CloseSession, Store!Step, StageTells
    <3>4. CASE Store!ChargeProvider(d) \/ Store!SavePayment(d)
      BY <3>0, <3>4 DEF Store!ChargeProvider, Store!SavePayment, Store!Step, StageTells
    <3>5. CASE Store!LoadForCancel(d) \/ Store!Cancel(d)
      BY <3>5 DEF Store!LoadForCancel, Store!Cancel
    <3>. QED
      BY <2>2, <3>1, <3>2, <3>3, <3>4, <3>5 DEF Store!CompleteStep
  <2>. QED
    BY <1>1, <2>1, <2>2, OrdersStay DEF Store!Next
<1>5. NewlyClosed
  <2>1. ASSUME NEW s \in Sessions, Store!Validate(s) \/ Store!Start(s)
        PROVE  NewlyClosed
    BY <2>1 DEF NewlyClosed, Store!Validate, Store!Start, Store!Announce
  <2>2. ASSUME NEW c \in Calls, \/ Store!CreateOrder(c) \/ Store!LoadForCancel(c) \/ Store!Cancel(c)
                                \/ Store!Check(c) \/ Store!GiveUp(c)
                                \/ Store!ChargeProvider(c) \/ Store!SavePayment(c)
        PROVE  NewlyClosed
    BY <2>2 DEF NewlyClosed, Store!CreateOrder, Store!LoadForCancel, Store!Cancel,
                Store!Check, Store!GiveUp,
                Store!ChargeProvider, Store!SavePayment, Store!Announce
  <2>3. ASSUME NEW c \in Calls, Store!CloseSession(c)
        PROVE  NewlyClosed
    <3>1. order[c] # "none" /\ asked[c] \in Sessions
      BY <2>3 DEF NewlyClosed, Store!CloseSession, Store!Step, StageTells
    <3>. QED
      BY <2>3, <3>1 DEF NewlyClosed, Store!CloseSession, Store!Announce
  <2>. QED
    BY <2>1, <2>2, <2>3 DEF NewlyClosed, Store!Next, Store!CompleteStep
<1>6. NewlyCharged
  <2>1. ASSUME NEW s \in Sessions, Store!Validate(s) \/ Store!Start(s)
        PROVE  NewlyCharged
    BY <2>1 DEF NewlyCharged, Store!Validate, Store!Start
  <2>2. ASSUME NEW c \in Calls, \/ Store!CreateOrder(c) \/ Store!LoadForCancel(c) \/ Store!Cancel(c)
                                \/ Store!Check(c) \/ Store!GiveUp(c) \/ Store!CloseSession(c)
        PROVE  NewlyCharged
    BY <2>2 DEF NewlyCharged, Store!CreateOrder, Store!LoadForCancel, Store!Cancel,
                Store!Check, Store!GiveUp,
                Store!CloseSession
  <2>3. ASSUME NEW c \in Calls, Store!ChargeProvider(c) \/ Store!SavePayment(c)
        PROVE  NewlyCharged
    BY <2>3 DEF NewlyCharged, Store!ChargeProvider, Store!SavePayment, Store!Step, StageTells
  <2>. QED
    BY <2>1, <2>2, <2>3 DEF NewlyCharged, Store!Next, Store!CompleteStep
<1>7. \A c \in cancelling' : c \in cancelling \/ order[c] # "none"
  BY DEF Store!Next, Store!CompleteStep, Store!Validate, Store!Start, Store!CreateOrder,
         Store!LoadForCancel,
         Store!Cancel, Store!Check, Store!GiveUp, Store!ChargeProvider, Store!SavePayment,
         Store!CloseSession
<1>8. Store!CompletedSessionHasOrder'
  <2>1. \A s \in Sessions : session'[s] = "completed" => Store!OrdersOf(s)' # {}
    BY <1>1, <1>5, OrdersStay DEF NewlyClosed, Store!CheckoutInOrder,
                                  Store!CompletedSessionHasOrder, Store!OrdersOf
  <2>2. \A m \in announced' : m.type = "CheckoutCompleted" =>
          m.order \in Calls /\ order[m.order] # "none"
    BY <1>5 DEF NewlyClosed, Store!CheckoutInOrder, Store!CompletedSessionHasOrder,
                Store!Message
  <2>3. \A m \in announced' : m.type = "CheckoutCompleted" => order'[m.order] # "none"
    BY <1>1, <2>2 DEF Grows
  <2>. QED
    BY <2>1, <2>3 DEF Store!CompletedSessionHasOrder
<1>9. Store!ChargedOrderIsClosed'
  <2>1. intents' \cup payment' \subseteq Calls
    BY <1>3
  <2>2. \A c \in intents' \cup payment' : order[c] # "none" /\ session[asked[c]] = "completed"
    BY <1>6 DEF NewlyCharged, Store!CheckoutInOrder, Store!ChargedOrderIsClosed
  <2>. QED
    BY <1>1, <2>1, <2>2, OrdersStay DEF Store!ChargedOrderIsClosed
<1>. QED
  BY <1>1, <1>3, <1>4, <1>7, <1>8, <1>9 DEF Store!CheckoutInOrder, Grows

-----------------------------------------------------------------------------
(* The worker's attempts. *)

\* The lines of the order that attempt a is about, how many of them it still has
\* to reserve, and the message with which it reserves the j-th.
Ordered(a) == Cart[asked[a[1]]]
Left(a) == Len(cmd[a].lines)
Grant(a, j) ==
  [type |-> "StockReserved", item |-> Ordered(a)[j].item,
   id |-> <<a, Len(Ordered(a)) - j + 1>>, amount |-> Ordered(a)[j].quantity, by |-> a]

Remains(a) ==
  /\ cmd[a].op = "reserve"
  /\ Left(a) <= Len(Ordered(a))
  /\ \A j \in 1..Left(a) : cmd[a].lines[j] = Ordered(a)[Len(Ordered(a)) - Left(a) + j]

Reserved(a) == IF phase[a] = "ok" THEN 1..Len(Ordered(a)) ELSE 1..(Len(Ordered(a)) - Left(a))

ReservedInv ==
  /\ \A a \in Tries : Remains(a) /\ \A j \in Reserved(a) : Grant(a, j) \in outbox
  /\ \A c \in Calls : cmd[StaffCall(c)].op = "releaseOrder"

GrantsInv ==
  \A m \in outbox :
    /\ order[m.by[1]] # "none"
    /\ m.type = "StockReserved" =>
         m.by \in Tries /\ m.by[2] <= faults /\ \E j \in 1..Len(Ordered(m.by)) : m = Grant(m.by, j)

LEMMA LinesType ==
  ASSUME StockInv, CheckoutInv, NEW a \in Tries
  PROVE  /\ a \in Attempts /\ a[1] \in Calls /\ a[2] \in 0..MaxFaults
         /\ Ordered(a) \in Seq([item : Items, quantity : Nat]) /\ Len(Ordered(a)) \in Nat
         /\ Len(Ordered(a)) > 0
         /\ cmd[a].op = "reserve" =>
              cmd[a].lines \in Seq([item : Items, quantity : Nat]) /\ cmd[a].lines # << >>
<1>1. a \in Attempts /\ a[1] \in Calls /\ a[2] \in 0..MaxFaults
  BY LimitsAssumption DEF Tries, Attempts
<1>2. asked[a[1]] \in Sessions
  BY <1>1 DEF CheckoutInv, Store!TypeOK
<1>3. Ordered(a) \in Seq([item : Items, quantity : Nat]) /\ Ordered(a) # << >>
  BY <1>2, CartAssumption DEF Ordered
<1>4. cmd[a] \in StockFacts!Command
  BY <1>1 DEF StockInv, StockFacts!TypeInv, StockFacts!TypeOK
<1>5. cmd[a].op = "reserve" => cmd[a] \in StockFacts!ReserveCommand
  BY <1>4 DEF StockFacts!Command, StockFacts!CreateCommand, StockFacts!AdjustCommand,
              StockFacts!ReserveCommand, StockFacts!ReleaseCommand,
              StockFacts!ReleaseOrderCommand
<1>6. cmd[a].op = "reserve" =>
        cmd[a].lines \in Seq([item : Items, quantity : Nat]) /\ cmd[a].lines # << >>
  BY <1>5 DEF StockFacts!ReserveCommand, StockFacts!Line
<1>. QED
  BY <1>1, <1>3, <1>6

LEMMA ReservedInit == Init => ReservedInv /\ GrantsInv
<1>. SUFFICES ASSUME Init PROVE ReservedInv /\ GrantsInv
  OBVIOUS
<1>1. GrantsInv
  BY DEF Init, Stock!Init, GrantsInv
<1>2. ASSUME NEW c \in Calls PROVE cmd[StaffCall(c)].op = "releaseOrder"
  <2>1. StaffCall(c) \in Attempts /\ StaffCall(c)[1] = c
    BY LimitsAssumption DEF StaffCall, Attempts
  <2>. QED
    BY <2>1 DEF Init, ReleaseFor
<1>3. ASSUME NEW a \in Tries
      PROVE  Remains(a) /\ \A j \in Reserved(a) : Grant(a, j) \in outbox
  <2>1. a \in Attempts /\ a[1] \in Calls /\ a # StaffCall(a[1])
    BY LimitsAssumption DEF Tries, Attempts, StaffCall
  <2>2. cmd[a] = ReserveFor(a[1], asked[a[1]])
    BY <2>1 DEF Init
  <2>3. cmd[a].op = "reserve" /\ cmd[a].lines = Ordered(a)
    BY <2>2 DEF ReserveFor, Ordered
  <2>4. asked[a[1]] \in Sessions /\ phase[a] = "received"
    BY <2>1 DEF Init, Store!Init, Stock!Init
  <2>5. Ordered(a) \in Seq([item : Items, quantity : Nat])
    BY <2>4, CartAssumption DEF Ordered
  <2>. HIDE DEF Ordered
  <2>6. Remains(a)
    BY <2>3, <2>5 DEF Remains, Left
  <2>7. Reserved(a) = {}
    BY <2>3, <2>4, <2>5 DEF Reserved, Left
  <2>. QED
    BY <2>6, <2>7
<1>. QED
  BY <1>1, <1>2, <1>3 DEF ReservedInv

\* A step that leaves the commands alone, finishes no reserve and takes no message away.
LEMMA ReservedKept ==
  ASSUME ReservedInv, Grows, cmd' = cmd, outbox \subseteq outbox',
         \A a \in Tries : phase'[a] = "ok" <=> phase[a] = "ok"
  PROVE  ReservedInv'
<1>1. ASSUME NEW a \in Tries
      PROVE  Remains(a)' /\ \A j \in Reserved(a)' : Grant(a, j)' \in outbox'
  <2>1. Ordered(a)' = Ordered(a) /\ Left(a)' = Left(a)
    BY DEF Grows, Ordered, Left
  <2>2. Remains(a)' /\ Reserved(a)' = Reserved(a)
    BY <2>1 DEF ReservedInv, Remains, Reserved
  <2>3. \A j : Grant(a, j)' = Grant(a, j)
    BY <2>1 DEF Grant
  <2>. QED
    BY <2>2, <2>3 DEF ReservedInv
<1>. QED
  BY <1>1 DEF ReservedInv

\* New messages that reserve nothing.
LEMMA GrantsKept ==
  ASSUME StockInv, GrantsInv, Grows, faults \in Nat, faults' \in Nat, faults <= faults', StockInv',
         \A m \in outbox' \ outbox : m.type # "StockReserved" /\ order[m.by[1]] # "none"
  PROVE  GrantsInv'
<1>1. ASSUME NEW m \in outbox' PROVE order'[m.by[1]] # "none"
  <2>1. m.by \in Attempts
    BY <1>1 DEF StockInv, StockFacts!TypeInv, StockFacts!TypeOK, StockFacts!Message
  <2>2. m.by[1] \in Calls
    BY <2>1 DEF Attempts
  <2>. QED
    BY <1>1, <2>2 DEF GrantsInv, Grows
<1>2. ASSUME NEW m \in outbox', m.type = "StockReserved"
      PROVE  /\ m.by \in Tries /\ m.by[2] <= faults'
             /\ \E j \in 1..Len(Ordered(m.by)') : m = Grant(m.by, j)'
  <2>1. m \in outbox
    BY <1>2
  <2>2. m.by \in Tries /\ m.by[2] <= faults
    BY <1>2, <2>1 DEF GrantsInv
  <2>3. PICK j \in 1..Len(Ordered(m.by)) : m = Grant(m.by, j)
    BY <1>2, <2>1 DEF GrantsInv
  <2>4. Ordered(m.by)' = Ordered(m.by) /\ Grant(m.by, j)' = Grant(m.by, j)
    BY DEF Grows, Ordered, Grant
  <2>5. m.by[2] \in Nat
    BY <2>2, LimitsAssumption DEF Tries
  <2>. QED
    BY <2>2, <2>3, <2>4, <2>5
<1>. QED
  BY <1>1, <1>2 DEF GrantsInv

\* A step of a command that saves no line of an order.
LEMMA OtherStockStep ==
  ASSUME StockInv, NEW a \in Attempts, StockStep(a), ~Stock!SaveReserved(a)
  PROVE  /\ cmd' = cmd /\ outbox \subseteq outbox'
         /\ \A m \in outbox' \ outbox : m.type = "StockReservationReleased" /\ m.by = a
         /\ \A b \in Attempts \ {a} : phase'[b] = phase[b]
         /\ cmd[a].op = "reserve" => (phase'[a] = "ok" <=> phase[a] = "ok")
<1>. DEFINE T == /\ cmd' = cmd /\ outbox \subseteq outbox'
                 /\ \A m \in outbox' \ outbox : m.type = "StockReservationReleased" /\ m.by = a
                 /\ \A b \in Attempts \ {a} : phase'[b] = phase[b]
                 /\ cmd[a].op = "reserve" => (phase'[a] = "ok" <=> phase[a] = "ok")
<1>0. phase \in [Attempts -> StockFacts!Phases]
  BY DEF StockInv, StockFacts!TypeInv, StockFacts!TypeOK
<1>1. CASE Stock!SelectRows(a) \/ Stock!SelectReservations(a) \/ Stock!SelectAdjustments(a)
  BY <1>0, <1>1 DEF Stock!SelectRows, Stock!SelectReservations, Stock!SelectAdjustments
<1>2. CASE Stock!Fail(a)
  BY <1>0, <1>2 DEF Stock!Fail
<1>3. CASE Stock!SaveReleasedForOrder(a)
  <2>1. cmd' = cmd /\ cmd[a].op = "releaseOrder"
    BY <1>3 DEF Stock!SaveReleasedForOrder
  <2>2. PICK i \in target[a] :
          /\ \E left \in Stock!Remaining(work[a][i], Stock!OfOrder(work[a][i], cmd[a].order)) :
               Stock!Save(a, i, Stock!Release(work[a][i], Stock!OfOrder(work[a][i], cmd[a].order), left),
                          Stock!ReleaseMessages(a, i, Stock!OfOrder(work[a][i], cmd[a].order)))
          /\ Stock!Finish(a) \/ UNCHANGED phase
    BY <1>3 DEF Stock!SaveReleasedForOrder
  <2>3. outbox' = outbox \cup Stock!ReleaseMessages(a, i, Stock!OfOrder(work[a][i], cmd[a].order))
    BY <2>2 DEF Stock!Save, Stock!Note
  <2>4. \A m \in outbox' \ outbox : m.type = "StockReservationReleased" /\ m.by = a
    BY <2>3 DEF Stock!ReleaseMessages
  <2>5. \A b \in Attempts \ {a} : phase'[b] = phase[b]
    BY <1>0, <2>2 DEF Stock!Finish
  <2>. QED
    BY <2>1, <2>3, <2>4, <2>5
<1>. QED
  BY <1>1, <1>2, <1>3 DEF StockStep

\* The line that is saved next is the one after those already reserved.
LEMMA SavedLine ==
  ASSUME StockInv, CheckoutInv, ReservedInv, NEW a \in Tries, Stock!SaveReserved(a),
         NEW k, k = Len(Ordered(a)) - Left(a) + 1
  PROVE  /\ k \in 1..Len(Ordered(a)) /\ Left(a) \in 1..Len(Ordered(a))
         /\ outbox' = outbox \cup {Grant(a, k)}
         /\ phase[a] = "loaded"
         /\ \A b \in Attempts \ {a} : phase'[b] = phase[b] /\ cmd'[b] = cmd[b]
         /\ IF Left(a) = 1 THEN phase'[a] = "ok" /\ cmd'[a] = cmd[a]
            ELSE /\ phase'[a] = "received"
                 /\ cmd'[a].op = cmd[a].op /\ cmd'[a].lines = Tail(cmd[a].lines)
<1>. DEFINE lines == cmd[a].lines
<1>0. /\ a \in Attempts /\ phase \in [Attempts -> StockFacts!Phases]
      /\ cmd \in [Attempts -> StockFacts!Command]
  BY LinesType DEF StockInv, StockFacts!TypeInv, StockFacts!TypeOK
<1>1. cmd[a].op = "reserve" /\ Left(a) <= Len(Ordered(a))
      /\ \A j \in 1..Left(a) : lines[j] = Ordered(a)[Len(Ordered(a)) - Left(a) + j]
  BY DEF ReservedInv, Remains
<1>2. /\ Ordered(a) \in Seq([item : Items, quantity : Nat]) /\ Len(Ordered(a)) \in Nat
      /\ lines \in Seq([item : Items, quantity : Nat]) /\ lines # << >>
  BY <1>1, LinesType
<1>3. Left(a) = Len(lines)
  BY DEF Left
<1>. HIDE DEF lines
<1>4. Left(a) \in 1..Len(Ordered(a)) /\ k \in 1..Len(Ordered(a))
  BY <1>1, <1>2, <1>3
<1>5. Head(lines) = Ordered(a)[k]
  BY <1>1, <1>2, <1>3, <1>4
<1>6. Left(a) = Len(Ordered(a)) - k + 1
  BY <1>2, <1>4
<1>7. outbox' = outbox \cup
        {[type |-> "StockReserved", item |-> Head(lines).item, id |-> <<a, Left(a)>>,
          amount |-> Head(lines).quantity, by |-> a]}
  BY DEF Stock!SaveReserved, Stock!Save, Stock!Note, lines, Left
<1>8. outbox' = outbox \cup {Grant(a, k)}
  BY <1>5, <1>6, <1>7 DEF Grant
<1>9. phase[a] = "loaded"
  BY DEF Stock!SaveReserved, Stock!Save
<1>10. Tail(lines) = << >> <=> Left(a) = 1
  <2>1. Tail(lines) \in Seq([item : Items, quantity : Nat]) /\ Len(Tail(lines)) = Len(lines) - 1
    BY <1>2
  <2>2. Tail(lines) = << >> <=> Len(Tail(lines)) = 0
    BY <2>1, EmptySeq
  <2>. QED
    BY <1>2, <1>3, <2>1, <2>2
<1>11. IF Left(a) = 1 THEN Stock!Finish(a) /\ UNCHANGED cmd
       ELSE /\ phase' = [phase EXCEPT ![a] = "received"]
            /\ cmd' = [cmd EXCEPT ![a].lines = Tail(lines)]
  BY <1>10 DEF Stock!SaveReserved, lines
<1>12. \A b \in Attempts \ {a} : phase'[b] = phase[b] /\ cmd'[b] = cmd[b]
  BY <1>0, <1>11 DEF Stock!Finish
<1>13. Left(a) = 1 => phase'[a] = "ok" /\ cmd'[a] = cmd[a]
  BY <1>0, <1>11 DEF Stock!Finish
<1>14. ASSUME Left(a) # 1
       PROVE  phase'[a] = "received" /\ cmd'[a].op = cmd[a].op /\ cmd'[a].lines = Tail(lines)
  <2>1. /\ phase' = [phase EXCEPT ![a] = "received"]
        /\ cmd' = [cmd EXCEPT ![a].lines = Tail(lines)]
    BY <1>11, <1>14
  <2>2. cmd[a] \in StockFacts!ReserveCommand
    BY <1>0, <1>1 DEF StockFacts!Command, StockFacts!CreateCommand, StockFacts!AdjustCommand,
              StockFacts!ReserveCommand, StockFacts!ReleaseCommand,
              StockFacts!ReleaseOrderCommand
  <2>3. cmd'[a] = [cmd[a] EXCEPT !.lines = Tail(lines)]
    BY <1>0, <2>1
  <2>. QED
    BY <1>0, <2>1, <2>2, <2>3 DEF StockFacts!ReserveCommand
<1>. QED
  BY <1>4, <1>8, <1>9, <1>12, <1>13, <1>14 DEF lines

LEMMA SaveKeepsReserved ==
  ASSUME StockInv, CheckoutInv, ReservedInv, Grows, NEW a \in Tries, Stock!SaveReserved(a),
         NEW k, k = Len(Ordered(a)) - Left(a) + 1, outbox' = outbox \cup {Grant(a, k)}
  PROVE  ReservedInv'
<1>1. /\ \A b : Ordered(b)' = Ordered(b)
      /\ \A b, j : Grant(b, j)' = Grant(b, j)
  BY DEF Grows, Ordered, Grant
<1>2. ASSUME NEW b \in Attempts \ {a}
      PROVE  cmd'[b] = cmd[b] /\ phase'[b] = phase[b]
  BY <1>2, SavedLine
<1>3. ASSUME NEW b \in Tries, b # a
      PROVE  Remains(b)' /\ \A j \in Reserved(b)' : Grant(b, j)' \in outbox'
  <2>1. cmd'[b] = cmd[b] /\ phase'[b] = phase[b]
    BY <1>2, <1>3, LinesType
  <2>2. Left(b)' = Left(b)
    BY <2>1 DEF Left
  <2>3. Remains(b)' /\ Reserved(b)' = Reserved(b)
    BY <1>1, <2>1, <2>2 DEF ReservedInv, Remains, Reserved
  <2>. QED
    BY <1>1, <2>3 DEF ReservedInv
<1>4. Remains(a)' /\ \A j \in Reserved(a)' : Grant(a, j)' \in outbox'
  <2>. DEFINE full == Ordered(a)
              n == Left(a)
  <2>1. /\ Len(full) \in Nat /\ n \in 1..Len(full)
        /\ cmd[a].op = "reserve" /\ \A j \in 1..n : cmd[a].lines[j] = full[Len(full) - n + j]
        /\ phase[a] = "loaded" /\ \A j \in 1..(Len(full) - n) : Grant(a, j) \in outbox
    BY LinesType, SavedLine DEF ReservedInv, Remains, Reserved
  <2>2. /\ n = 1 => phase'[a] = "ok" /\ cmd'[a] = cmd[a]
        /\ n # 1 => /\ phase'[a] = "received"
                    /\ cmd'[a].op = "reserve" /\ cmd'[a].lines = Tail(cmd[a].lines)
    BY <2>1, SavedLine
  <2>3. cmd[a].lines \in Seq([item : Items, quantity : Nat]) /\ cmd[a].lines # << >>
    BY <2>1, LinesType
  <2>4. n = Len(cmd[a].lines)
    BY DEF Left
  <2>5. Ordered(a)' = full
    BY <1>1
  <2>. HIDE DEF full, n
  <2>6. k = Len(full) - n + 1
    BY DEF full, n
  <2>7. \A j \in 1..k : Grant(a, j) \in outbox'
    BY <2>1, <2>6
  <2>8. CASE n = 1
    <3>1. Left(a)' = n
      BY <2>2, <2>4, <2>8 DEF Left
    <3>2. Remains(a)'
      BY <2>1, <2>2, <2>5, <2>8, <3>1 DEF Remains
    <3>3. Reserved(a)' = 1..k
      BY <2>1, <2>2, <2>5, <2>6, <2>8 DEF Reserved
    <3>. QED
      BY <1>1, <2>7, <3>2, <3>3
  <2>9. CASE n # 1
    <3>. DEFINE lines == cmd[a].lines
    <3>0. /\ lines \in Seq([item : Items, quantity : Nat]) /\ lines # << >> /\ n = Len(lines)
          /\ cmd'[a].lines = Tail(lines)
      BY <2>2, <2>3, <2>4, <2>9
    <3>. HIDE DEF lines
    <3>a. Len(Tail(lines)) = n - 1 /\ \A j \in 1..(n - 1) : Tail(lines)[j] = lines[j + 1]
      BY <3>0
    <3>1. Left(a)' = n - 1 /\ \A j \in 1..(n - 1) : cmd'[a].lines[j] = cmd[a].lines[j + 1]
      BY <3>0, <3>a DEF Left, lines
    <3>2. \A j \in 1..(n - 1) : cmd'[a].lines[j] = full[Len(full) - (n - 1) + j]
      <4>1. ASSUME NEW j \in 1..(n - 1)
            PROVE  cmd'[a].lines[j] = full[Len(full) - (n - 1) + j]
        <5>. DEFINE all == Len(full)
        <5>a. all \in Nat /\ n \in 1..all
          BY <2>1
        <5>. HIDE DEF all
        <5>b. j + 1 \in 1..n /\ all - n + (j + 1) = all - (n - 1) + j
          BY <5>a
        <5>1. j + 1 \in 1..n /\ Len(full) - n + (j + 1) = Len(full) - (n - 1) + j
          BY <5>b DEF all
        <5>2. cmd[a].lines[j + 1] = full[Len(full) - n + (j + 1)]
          BY <2>1, <5>1
        <5>. QED
          BY <3>1, <5>1, <5>2
      <4>. QED
        BY <4>1
    <3>3. Remains(a)'
      BY <2>1, <2>2, <2>5, <2>9, <3>1, <3>2 DEF Remains
    <3>4. Reserved(a)' = 1..k
      BY <2>1, <2>2, <2>5, <2>6, <2>9, <3>1 DEF Reserved
    <3>. QED
      BY <1>1, <2>7, <3>3, <3>4
  <2>. QED
    BY <2>8, <2>9
<1>5. \A c \in Calls : cmd'[StaffCall(c)].op = "releaseOrder"
  <2>1. ASSUME NEW c \in Calls PROVE StaffCall(c) \in Attempts \ {a}
    BY LimitsAssumption DEF Tries, Attempts, StaffCall
  <2>. QED
    BY <1>2, <2>1 DEF ReservedInv
<1>. QED
  BY <1>3, <1>4, <1>5 DEF ReservedInv

LEMMA SaveKeepsGrants ==
  ASSUME StockInv, CheckoutInv, GrantsInv, Grows, faults' = faults, NEW a \in Tries,
         a[2] <= faults, order[a[1]] # "none",
         NEW k \in 1..Len(Ordered(a)), outbox' = outbox \cup {Grant(a, k)}
  PROVE  GrantsInv'
<1>1. /\ \A b : Ordered(b)' = Ordered(b)
      /\ \A b, j : Grant(b, j)' = Grant(b, j)
  BY DEF Grows, Ordered, Grant
<1>2. Grant(a, k).by = a
  BY DEF Grant
<1>3. ASSUME NEW m \in outbox'
      PROVE  /\ m.by[1] \in Calls /\ order[m.by[1]] # "none"
             /\ m.type = "StockReserved" =>
                  /\ m.by \in Tries /\ m.by[2] <= faults
                  /\ \E j \in 1..Len(Ordered(m.by)) : m = Grant(m.by, j)
  <2>1. CASE m \in outbox
    <3>1. m.by \in Attempts
      BY <2>1 DEF StockInv, StockFacts!TypeInv, StockFacts!TypeOK, StockFacts!Message
    <3>. QED
      BY <2>1, <3>1 DEF GrantsInv, Attempts
  <2>2. CASE m = Grant(a, k)
    BY <1>2, <2>2, LinesType
  <2>. QED
    BY <1>3, <2>1, <2>2
<1>4. ASSUME NEW m \in outbox' PROVE order'[m.by[1]] # "none"
  BY <1>3 DEF Grows
<1>5. ASSUME NEW m \in outbox', m.type = "StockReserved"
      PROVE  /\ m.by \in Tries /\ m.by[2] <= faults'
             /\ \E j \in 1..Len(Ordered(m.by)') : m = Grant(m.by, j)'
  BY <1>1, <1>3, <1>5
<1>. QED
  BY <1>4, <1>5 DEF GrantsInv

-----------------------------------------------------------------------------
(* Delivery. *)

\* 1 if the notification of the present round of c has been sent.
Sent(c) == IF c \in processed \/ Running(c, 3) THEN 1 ELSE 0

\* A message that is put away is not fetched again; where the first handler has
\* returned, an attempt has reserved every line; and beyond one notification for
\* an order there is a fault for each.
DeliveryInv ==
  /\ \A c \in written : order[c] # "none"
  /\ batch[Worker] \cap processed = {}
  /\ \A c \in Calls : 1 \in completed[c] => \E a \in Tries : a[1] = c /\ phase[a] = "ok"
  /\ notified \in [Calls -> Nat]
  /\ \A c \in Calls : notified[c] > 0 => 1 \in completed[c]
  /\ \A c \in Calls : notified[c] <= faults + Sent(c)

IInv == StockInv /\ BusInv /\ CheckoutInv /\ ReservedInv /\ GrantsInv /\ DeliveryInv

LEMMA InitIInv == Init => IInv
<1>. SUFFICES ASSUME Init PROVE DeliveryInv
  BY StockInit, BusInit, CheckoutInit, ReservedInit DEF IInv
<1>. QED
  BY DEF Init, Bus!Init, DeliveryInv, Sent, Running, Bus!At

LEMMA FaultsGrow ==
  ASSUME BusInv, [BusFacts!Next]_(BusFacts!vars)
  PROVE  faults \in Nat /\ faults' \in Nat /\ faults <= faults'
<1>1. faults \in Nat
  BY LimitsAssumption DEF BusInv, BusFacts!Inv, BusFacts!TypeOK
<1>2. faults' = faults \/ faults' = faults + 1
  BY DEF BusFacts!vars, BusFacts!Next, BusFacts!Work, BusFacts!Write, BusFacts!Fetch,
         BusFacts!Parse,
         BusFacts!Handle, BusFacts!MarkProcessed, BusFacts!Refuse, BusFacts!FailOnce,
         BusFacts!Crash,
         BusFacts!Fault
<1>. QED
  BY <1>1, <1>2

LEMMA AtWritten ==
  ASSUME BusInv, NEW c \in Calls, Bus!At(Worker, c)
  PROVE  c \in written
BY DEF BusInv, BusFacts!Inv, BusFacts!TypeOK, Bus!At

\* Every step keeps what the attempts have reserved and announced.
LEMMA AttemptsStay ==
  ASSUME IInv, [Next]_vars
  PROVE  /\ StockInv' /\ BusInv' /\ CheckoutInv' /\ Grows
         /\ ReservedInv' /\ GrantsInv'
         /\ faults \in Nat /\ faults' \in Nat /\ faults <= faults'
         /\ \A a \in Tries : phase[a] = "ok" => phase'[a] = "ok"
<1>. USE DEF IInv
<1>1. [Store!Next]_checkoutVars /\ [StockFacts!Next]_(StockFacts!vars)
        /\ [BusFacts!Next]_(BusFacts!vars)
  BY EveryStep
<1>2. /\ StockInv' /\ BusInv' /\ CheckoutInv' /\ Grows
      /\ faults \in Nat /\ faults' \in Nat /\ faults <= faults'
  BY <1>1, StockStays, BusStays, CheckoutStays, FaultsGrow
<1>. DEFINE T == /\ ReservedInv' /\ GrantsInv'
                 /\ \A a \in Tries : phase[a] = "ok" => phase'[a] = "ok"
<1>3. CASE UNCHANGED stockVars
  <2>1. /\ cmd' = cmd /\ outbox' = outbox
        /\ \A a \in Tries : phase'[a] = "ok" <=> phase[a] = "ok"
    BY <1>3 DEF stockVars
  <2>. QED
    BY <1>2, <2>1, ReservedKept, GrantsKept
<1>4. ASSUME NEW a \in Attempts, StockStep(a), ~Stock!SaveReserved(a), order[a[1]] # "none",
             a \in Tries \/ \E c \in Calls : a = StaffCall(c)
      PROVE  T
  <2>1. /\ cmd' = cmd /\ outbox \subseteq outbox'
        /\ \A m \in outbox' \ outbox : m.type = "StockReservationReleased" /\ m.by = a
        /\ \A b \in Attempts \ {a} : phase'[b] = phase[b]
        /\ cmd[a].op = "reserve" => (phase'[a] = "ok" <=> phase[a] = "ok")
    BY <1>4, OtherStockStep
  <2>2. \A b \in Tries : cmd[b].op = "reserve" /\ b \in Attempts
    BY LinesType DEF ReservedInv, Remains
  <2>3. \A b \in Tries : phase'[b] = "ok" <=> phase[b] = "ok"
    BY <2>1, <2>2
  <2>4. ReservedInv'
    BY <1>2, <2>1, <2>3, ReservedKept
  <2>5. \A m \in outbox' \ outbox : m.type # "StockReserved" /\ order[m.by[1]] # "none"
    BY <1>4, <2>1
  <2>6. GrantsInv'
    BY <1>2, <2>5, GrantsKept
  <2>. QED
    BY <2>3, <2>4, <2>6
<1>5. ASSUME NEW a \in Tries, Stock!SaveReserved(a), faults' = faults,
             a[2] <= faults, order[a[1]] # "none"
      PROVE  T
  <2>. DEFINE k == Len(Ordered(a)) - Left(a) + 1
  <2>1. PICK n : n = k
    OBVIOUS
  <2>2. /\ n \in 1..Len(Ordered(a)) /\ outbox' = outbox \cup {Grant(a, n)}
        /\ \A b \in Attempts \ {a} : phase'[b] = phase[b]
        /\ phase[a] = "loaded"
    BY <1>5, <2>1, SavedLine
  <2>3. ReservedInv'
    BY <1>2, <1>5, <2>1, <2>2, SaveKeepsReserved
  <2>4. GrantsInv'
    BY <1>2, <1>5, <2>2, SaveKeepsGrants
  <2>5. \A b \in Tries : phase[b] = "ok" => phase'[b] = "ok"
    BY <2>2, LinesType
  <2>. QED
    BY <2>3, <2>4, <2>5
<1>6. ASSUME NEW c \in Calls, ReserveStock(c)
      PROVE  T
  <2>1. /\ Attempt(c) \in Tries /\ Attempt(c) \in Attempts
        /\ Attempt(c)[1] = c /\ Attempt(c)[2] = faults
    BY AttemptNames
  <2>2. order[c] # "none"
    BY <1>6, AtWritten DEF ReserveStock, Running, DeliveryInv
  <2>3. PICK a : a = Attempt(c)
    OBVIOUS
  <2>4. /\ StockStep(a) /\ faults' = faults /\ a \in Tries /\ a \in Attempts
        /\ order[a[1]] # "none" /\ a[2] <= faults
    BY <1>2, <1>6, <2>1, <2>2, <2>3 DEF ReserveStock, busVars
  <2>. QED
    BY <1>4, <1>5, <2>4
<1>7. ASSUME NEW c \in Calls, StaffReleases(c)
      PROVE  T
  <2>1. PICK a : a = StaffCall(c)
    OBVIOUS
  <2>2. a \in Attempts /\ a[1] = c /\ cmd[a].op = "releaseOrder"
    BY <2>1, AttemptNames DEF ReservedInv
  <2>3. StockStep(a) /\ order[a[1]] # "none" /\ ~Stock!SaveReserved(a)
    BY <1>7, <2>1, <2>2 DEF StaffReleases, Stock!SaveReserved
  <2>. QED
    BY <1>4, <2>1, <2>2, <2>3
<1>8. ASSUME NEW c \in Calls, Running(c, 1), Stock!Fail(Attempt(c))
      PROVE  T
  <2>1. order[c] # "none"
    BY <1>8, AtWritten DEF Running, DeliveryInv
  <2>2. PICK a : a = Attempt(c)
    OBVIOUS
  <2>3. a \in Attempts /\ a \in Tries /\ order[a[1]] # "none" /\ StockStep(a)
    BY <1>8, <2>1, <2>2, AttemptNames DEF StockStep
  <2>4. phase \in [Attempts -> StockFacts!Phases] /\ phase' = [phase EXCEPT ![a] = "failed"]
    BY <1>8, <2>2 DEF Stock!Fail, StockInv, StockFacts!TypeInv, StockFacts!TypeOK
  <2>5. phase'[a] = "failed"
    BY <2>3, <2>4
  <2>6. ~Stock!SaveReserved(a)
    <3>1. PICK n : n = Len(Ordered(a)) - Left(a) + 1
      OBVIOUS
    <3>. QED
      BY <2>3, <2>5, <3>1, SavedLine
  <2>. QED
    BY <1>4, <2>3, <2>6
<1>9. T
  BY <1>3, <1>6, <1>7, <1>8 DEF vars, Next, StartCheckout, PlaceOrder, OtherCheckoutStep,
                                BusStep,
                                ReserveReturns, Notify, MarkFails, WorkerStops
<1>. QED
  BY <1>2, <1>9

\* The state of the bus, as the composition has it.
LEMMA BusState ==
  ASSUME BusInv
  PROVE  /\ processed \subseteq Calls /\ written \subseteq Calls
         /\ completed \in [Calls -> SUBSET Nat]
         /\ batch \in [{Worker} -> SUBSET written] /\ step \in [{Worker} -> Nat]
         /\ batch[Worker] = {} => step[Worker] = 0
         /\ \A c \in Calls : Bus!At(Worker, c) /\ step[Worker] > 1 => 1 \in completed[c]
         /\ \A c \in processed : 1 \in completed[c]
         /\ \A c, d \in Calls : Bus!At(Worker, c) /\ Bus!At(Worker, d) => c = d
<1>. USE DEF BusInv, BusFacts!Inv
<1>1. /\ processed \subseteq Calls /\ written \subseteq Calls /\ completed \in [Calls -> SUBSET Nat]
      /\ batch \in [{Worker} -> SUBSET written] /\ step \in [{Worker} -> Nat]
  BY DEF BusFacts!TypeOK
<1>2. batch[Worker] = {} => step[Worker] = 0
  BY DEF BusFacts!IdleAtZero
<1>3. \A c \in Calls : Bus!At(Worker, c) /\ step[Worker] > 1 => 1 \in completed[c]
  BY <1>1 DEF BusFacts!Progress, BusFacts!At, Bus!At
<1>4. \A c \in processed : 1 \in completed[c]
  BY <1>1 DEF BusFacts!ProcessedAfterAllHandlers
<1>5. \A c, d \in Calls : Bus!At(Worker, c) /\ Bus!At(Worker, d) => c = d
  BY CallsAssumption DEF Bus!At
<1>. QED
  BY <1>1, <1>2, <1>3, <1>4, <1>5

\* What does not touch the bus.
LEMMA QuietStep ==
  ASSUME IInv, UNCHANGED <<busVars, notified>>, Grows,
         \A a \in Tries : phase[a] = "ok" => phase'[a] = "ok"
  PROVE  DeliveryInv'
<1>1. \A c \in Calls : Sent(c)' = Sent(c)
  BY DEF busVars, Sent, Running, Bus!At
<1>2. written \subseteq Calls
  BY BusState DEF IInv
<1>. QED
  BY <1>1, <1>2 DEF IInv, DeliveryInv, busVars, Grows

LEMMA OrderPlaced ==
  ASSUME IInv, NEW c \in Calls, PlaceOrder(c)
  PROVE  DeliveryInv'
<1>1. /\ written' = written \cup {c} /\ notified' = notified /\ UNCHANGED stockVars
      /\ UNCHANGED <<processed, completed, batch, step, faults>>
  BY DEF PlaceOrder, Bus!Write
<1>2. /\ order' = [order EXCEPT ![c] = "pending"]
      /\ order \in [Calls -> {"none", "pending", "cancelled"}]
  BY DEF PlaceOrder, Store!CreateOrder, IInv, CheckoutInv, Store!TypeOK
<1>3. written \subseteq Calls
  BY BusState DEF IInv
<1>4. \A d \in written' : order'[d] # "none"
  BY <1>1, <1>2, <1>3 DEF IInv, DeliveryInv
<1>5. \A d \in Calls : Sent(d)' = Sent(d)
  BY <1>1 DEF Sent, Running, Bus!At
<1>. QED
  BY <1>1, <1>4, <1>5 DEF IInv, DeliveryInv, stockVars

LEMMA BusStepKeeps ==
  ASSUME IInv, BusStep, faults \in Nat
  PROVE  DeliveryInv'
<1>0. /\ processed \subseteq Calls
      /\ batch \in [{Worker} -> SUBSET written] /\ step \in [{Worker} -> Nat]
      /\ batch[Worker] = {} => step[Worker] = 0
  BY BusState DEF IInv
<1>1. /\ notified' = notified /\ order' = order /\ phase' = phase
      /\ UNCHANGED <<written, completed, faults>>
  BY DEF BusStep, checkoutVars, stockVars, Bus!Fetch, Bus!Parse, Bus!MarkProcessed
<1>. DEFINE T == /\ processed \subseteq processed' /\ batch'[Worker] \cap processed' = {}
                 /\ \A d \in Calls : Running(d, 3) => d \in processed'
<1>2. T
  <2>1. CASE Bus!Fetch(Worker)
    <3>1. /\ batch'[Worker] = Bus!Oldest(Bus!Unprocessed) /\ batch[Worker] = {}
          /\ processed' = processed
      BY <1>0, <2>1 DEF Bus!Fetch
    <3>2. Bus!Oldest(Bus!Unprocessed) \cap processed = {}
      BY DEF Bus!Oldest, Bus!Unprocessed
    <3>. QED
      BY <3>1, <3>2 DEF Running, Bus!At
  <2>2. ASSUME NEW c \in Calls, Bus!Parse(Worker, c)
        PROVE  T
    BY <2>2 DEF Bus!Parse, Running, IInv, DeliveryInv
  <2>3. ASSUME NEW c \in Calls, Bus!MarkProcessed(Worker, c)
        PROVE  T
    <3>1. /\ Bus!At(Worker, c) /\ processed' = processed \cup {c}
          /\ batch'[Worker] = batch[Worker] \ {c}
      BY <1>0, <2>3 DEF Bus!MarkProcessed, Bus!Advance
    <3>2. \A d \in Calls : Running(d, 3) => d = c
      BY <3>1, BusState DEF Running, IInv
    <3>. QED
      BY <3>1, <3>2 DEF IInv, DeliveryInv
  <2>. QED
    BY <2>1, <2>2, <2>3 DEF BusStep
<1>3. \A d \in Calls : Sent(d) = 0 \/ (Sent(d) = 1 /\ Sent(d)' = 1)
  BY <1>2 DEF Sent
<1>4. \A d \in Calls : Sent(d)' = 0 \/ Sent(d)' = 1
  BY DEF Sent
<1>5. ASSUME NEW d \in Calls PROVE notified'[d] <= faults' + Sent(d)'
  <2>1. notified[d] \in Nat /\ notified[d] <= faults + Sent(d)
    BY DEF IInv, DeliveryInv
  <2>2. notified'[d] = notified[d] /\ faults' = faults
    BY <1>1
  <2>3. PICK n : n = Sent(d)'
    OBVIOUS
  <2>4. notified[d] <= faults + n
    BY <1>3, <1>4, <2>1, <2>3
  <2>. QED
    BY <2>2, <2>3, <2>4
<1>. QED
  BY <1>1, <1>2, <1>5 DEF IInv, DeliveryInv

\* A fault pays for the notification that may have been sent before it.
LEMMA FaultKeeps ==
  ASSUME IInv, faults \in Nat, faults' = faults + 1, order' = order, notified' = notified,
         UNCHANGED <<written, processed, completed>>,
         \A a \in Tries : phase[a] = "ok" => phase'[a] = "ok",
         batch'[Worker] \subseteq batch[Worker]
  PROVE  DeliveryInv'
<1>1. \A c \in Calls : Sent(c) \in {0, 1} /\ Sent(c)' \in {0, 1}
  BY DEF Sent
<1>2. ASSUME NEW c \in Calls PROVE notified'[c] <= faults' + Sent(c)'
  <2>1. notified[c] \in Nat /\ notified[c] <= faults + Sent(c)
    BY DEF IInv, DeliveryInv
  <2>2. PICK m, n : m = Sent(c) /\ n = Sent(c)'
    OBVIOUS
  <2>3. notified[c] <= faults + 1 + n
    BY <1>1, <2>1, <2>2
  <2>. QED
    BY <2>2, <2>3
<1>. QED
  BY <1>2 DEF IInv, DeliveryInv

LEMMA WorkerFaultKeeps ==
  ASSUME IInv, NEW c \in Calls, Bus!FailOnce(Worker, c), faults \in Nat,
         UNCHANGED <<checkoutVars, notified>>,
         \A a \in Tries : phase[a] = "ok" => phase'[a] = "ok"
  PROVE  DeliveryInv'
<1>1. batch \in [{Worker} -> SUBSET written]
  BY BusState DEF IInv
<1>2. /\ faults' = faults + 1 /\ UNCHANGED <<written, processed, completed>>
      /\ batch' = [batch EXCEPT ![Worker] = batch[Worker] \ {c}]
  BY DEF Bus!FailOnce, Bus!Fault, Bus!RecordFailure, Bus!Advance
<1>3. batch'[Worker] \subseteq batch[Worker]
  BY <1>1, <1>2
<1>. QED
  BY <1>2, <1>3, FaultKeeps DEF checkoutVars

LEMMA StopKeeps ==
  ASSUME IInv, WorkerStops, faults \in Nat,
         \A a \in Tries : phase[a] = "ok" => phase'[a] = "ok"
  PROVE  DeliveryInv'
<1>1. batch \in [{Worker} -> SUBSET written]
  BY BusState DEF IInv
<1>2. /\ faults' = faults + 1 /\ UNCHANGED <<written, processed, completed>>
      /\ batch' = [batch EXCEPT ![Worker] = {}]
  BY DEF WorkerStops, Bus!Crash, Bus!Fault
<1>3. batch'[Worker] \subseteq batch[Worker]
  BY <1>1, <1>2
<1>. QED
  BY <1>2, <1>3, FaultKeeps DEF WorkerStops, checkoutVars

\* A handler returns: its message stays where the worker is.
LEMMA HandlerReturned ==
  ASSUME IInv, NEW c \in Calls, Bus!Handle(Worker, c)
  PROVE  /\ UNCHANGED <<written, processed, batch, faults>>
         /\ completed' = [completed EXCEPT ![c] = completed[c] \cup {step[Worker]}]
         /\ step'[Worker] = step[Worker] + 1
         /\ \A d \in Calls : Running(d, 3) => d = c
         /\ c \notin processed
         /\ \A d \in Calls : Bus!At(Worker, d)' = Bus!At(Worker, d)
<1>1. step \in [{Worker} -> Nat]
  BY BusState DEF IInv
<1>2. Bus!At(Worker, c)
  BY DEF Bus!Handle
<1>3. \A d \in Calls : Running(d, 3) => d = c
  BY <1>2, BusState DEF IInv, Running
<1>4. c \notin processed
  BY <1>2 DEF IInv, DeliveryInv, Bus!At
<1>. QED
  BY <1>1, <1>3, <1>4 DEF Bus!Handle, Bus!At

LEMMA ReserveReturned ==
  ASSUME IInv, NEW c \in Calls, ReserveReturns(c), faults \in Nat
  PROVE  DeliveryInv'
<1>1. CASE Bus!FailOnce(Worker, c)
  BY <1>1, WorkerFaultKeeps DEF ReserveReturns, stockVars
<1>2. CASE phase[Attempt(c)] = "ok" /\ Bus!Handle(Worker, c)
  <2>1. /\ order' = order /\ phase' = phase /\ notified' = notified /\ step[Worker] = 1
    BY <1>2 DEF ReserveReturns, Running, checkoutVars, stockVars
  <2>2. /\ UNCHANGED <<written, processed, batch, faults>>
        /\ completed' = [completed EXCEPT ![c] = completed[c] \cup {step[Worker]}]
        /\ step'[Worker] = step[Worker] + 1
    BY <1>2, HandlerReturned
  <2>3. \A d \in Calls : Sent(d)' = Sent(d)
    BY <2>1, <2>2 DEF Sent, Running
  <2>4. completed \in [Calls -> SUBSET Nat]
    BY BusState DEF IInv
  <2>5. \A d \in Calls : 1 \in completed'[d] => \E a \in Tries : a[1] = d /\ phase'[a] = "ok"
    <3>1. Attempt(c) \in Tries /\ Attempt(c)[1] = c
      BY AttemptNames DEF IInv
    <3>2. PICK a : a = Attempt(c)
      OBVIOUS
    <3>3. a \in Tries /\ a[1] = c /\ phase'[a] = "ok"
      BY <1>2, <2>1, <3>1, <3>2
    <3>. QED
      BY <2>1, <2>2, <2>4, <3>3 DEF IInv, DeliveryInv
  <2>6. \A d \in Calls : completed[d] \subseteq completed'[d]
    BY <2>2, <2>4
  <2>. QED
    BY <2>1, <2>2, <2>3, <2>5, <2>6 DEF IInv, DeliveryInv
<1>. QED
  BY <1>1, <1>2 DEF ReserveReturns

LEMMA Notified ==
  ASSUME IInv, NEW c \in Calls, Notify(c), faults \in Nat
  PROVE  DeliveryInv'
<1>1. CASE Bus!FailOnce(Worker, c) /\ UNCHANGED notified
  BY <1>1, WorkerFaultKeeps DEF Notify, stockVars
<1>2. CASE Bus!Handle(Worker, c) /\ notified' = [notified EXCEPT ![c] = @ + 1]
  <2>1. /\ order' = order /\ phase' = phase /\ step[Worker] = 2 /\ Bus!At(Worker, c)
    BY <1>2 DEF Notify, Running, checkoutVars, stockVars
  <2>2. /\ UNCHANGED <<written, processed, batch, faults>>
        /\ completed' = [completed EXCEPT ![c] = completed[c] \cup {step[Worker]}]
        /\ step'[Worker] = step[Worker] + 1
        /\ c \notin processed
        /\ Bus!At(Worker, c)' = Bus!At(Worker, c)
    BY <1>2, HandlerReturned
  <2>3. completed \in [Calls -> SUBSET Nat] /\ 1 \in completed[c]
    BY <2>1, BusState DEF IInv
  <2>4. \A d \in Calls : 1 \in completed'[d] <=> 1 \in completed[d]
    BY <2>1, <2>2, <2>3
  <2>5. notified \in [Calls -> Nat] /\ notified' \in [Calls -> Nat]
    BY <1>2 DEF IInv, DeliveryInv
  <2>6. \A d \in Calls : notified'[d] > 0 => 1 \in completed'[d]
    BY <1>2, <2>3, <2>4, <2>5 DEF IInv, DeliveryInv
  <2>7. Sent(c) = 0 /\ Sent(c)' = 1
    BY <2>1, <2>2 DEF Sent, Running
  <2>8. \A d \in Calls \ {c} : d \in processed => Sent(d)' = 1
    BY <2>2 DEF Sent
  <2>9. \A d \in Calls \ {c} : notified[d] <= faults + (IF d \in processed THEN 1 ELSE 0)
    BY <2>1 DEF IInv, DeliveryInv, Sent, Running
  <2>10. \A d \in Calls : Sent(d)' \in {0, 1}
    BY DEF Sent
  <2>11. ASSUME NEW d \in Calls PROVE notified'[d] <= faults' + Sent(d)'
    <3>1. PICK n : n = Sent(d)'
      OBVIOUS
    <3>2. n \in {0, 1}
      BY <2>10, <3>1
    <3>3. CASE d = c
      <4>1. notified[c] <= faults /\ notified'[c] = notified[c] + 1 /\ n = 1
        BY <1>2, <2>5, <2>7, <3>1, <3>3 DEF IInv, DeliveryInv
      <4>. QED
        BY <2>2, <2>5, <3>1, <3>3, <4>1
    <3>4. CASE d # c
      <4>1. notified'[d] = notified[d] /\ notified[d] <= faults + n
        BY <1>2, <2>5, <2>8, <2>9, <3>1, <3>2, <3>4
      <4>. QED
        BY <2>2, <3>1, <4>1
    <3>. QED
      BY <3>3, <3>4
  <2>. QED
    BY <2>1, <2>2, <2>4, <2>5, <2>6, <2>11 DEF IInv, DeliveryInv
<1>. QED
  BY <1>1, <1>2 DEF Notify

LEMMA StepIInv == IInv /\ [Next]_vars => IInv'
<1>. SUFFICES ASSUME IInv, [Next]_vars PROVE DeliveryInv'
  BY AttemptsStay DEF IInv
<1>1. /\ Grows /\ faults \in Nat
      /\ \A a \in Tries : phase[a] = "ok" => phase'[a] = "ok"
  BY AttemptsStay
<1>2. CASE UNCHANGED <<busVars, notified>>
  BY <1>1, <1>2, QuietStep
<1>3. ASSUME NEW c \in Calls, MarkFails(c) PROVE DeliveryInv'
  BY <1>1, <1>3, WorkerFaultKeeps DEF MarkFails
<1>. QED
  BY <1>1, <1>2, <1>3, OrderPlaced, BusStepKeeps, ReserveReturned, Notified, StopKeeps
     DEF Next, vars, StartCheckout, OtherCheckoutStep, ReserveStock, StaffReleases

LEMMA Invariance == Spec => []IInv
BY InitIInv, StepIInv, PTL DEF Spec

-----------------------------------------------------------------------------
(* The theorems. *)

\* Money is collected only for an order that exists and a session that is closed, for
\* any number of calls, cancellations and failures, while the worker does its part.
THEOREM CheckoutStaysInOrder == Spec => []CheckoutInOrder
<1>1. IInv => CheckoutInOrder
  BY DEF IInv, CheckoutInv, CheckoutInOrder
<1>. QED
  BY <1>1, Invariance, PTL

\* Inventory, the outbox and checkout keep their invariants when they run together, and
\* an order's notification is sent once more at most for every fault.
THEOREM ComponentsKeepTheirs == Spec => []ComponentInvariants
<1>1. ASSUME IInv PROVE notified \in [Calls -> 0..(MaxFaults + 1)]
  <2>1. \A c \in Calls : Sent(c) \in {0, 1}
    BY DEF Sent
  <2>2. faults \in 0..MaxFaults /\ MaxFaults \in Nat
    BY <1>1, LimitsAssumption DEF IInv, BusInv, BusFacts!Inv, BusFacts!TypeOK
  <2>3. \A c \in Calls : notified[c] \in Nat /\ notified[c] <= faults + Sent(c)
    BY <1>1 DEF IInv, DeliveryInv
  <2>4. \A c \in Calls : notified[c] \in 0..(MaxFaults + 1)
    BY <2>1, <2>2, <2>3
  <2>. QED
    BY <1>1, <2>4 DEF IInv, DeliveryInv
<1>2. IInv => ComponentInvariants
  BY <1>1, StockKeepsItsOwn, BusKeepsItsOwn DEF IInv, CheckoutInv, ComponentInvariants
<1>. QED
  BY <1>2, Invariance, PTL

\* However often the worker is stopped or a handler fails, it tells the customer of an
\* order, and puts its message away, only when every line of it was reserved.
THEOREM ReservedThenNotified == Spec => []ReservedBeforeNotified
<1>1. ASSUME IInv PROVE ReservedBeforeNotified
  <2>1. ASSUME NEW c \in Calls, notified[c] > 0 \/ c \in processed, NEW line \in Lines(c)
        PROVE  Grants(c, line) # {}
    <3>1. 1 \in completed[c]
      BY <1>1, <2>1, BusState DEF IInv, DeliveryInv
    <3>2. PICK a \in Tries : a[1] = c /\ phase[a] = "ok"
      BY <1>1, <3>1 DEF IInv, DeliveryInv
    <3>3. PICK n \in DOMAIN Cart[asked[c]] : line = Cart[asked[c]][n]
      BY <2>1 DEF Lines
    <3>4. Ordered(a) = Cart[asked[c]] /\ n \in 1..Len(Ordered(a)) /\ a \in Attempts
      BY <1>1, <3>2, <3>3, LinesType DEF Ordered, IInv
    <3>5. Grant(a, n) \in outbox
      BY <1>1, <3>2, <3>4 DEF IInv, ReservedInv, Reserved
    <3>6. Grant(a, n) \in Grants(c, line)
      BY <3>2, <3>3, <3>4, <3>5 DEF Grants, Grant
    <3>. QED
      BY <3>6
  <2>. QED
    BY <1>1, <2>1 DEF IInv, GrantsInv, ReservedBeforeNotified
<1>. QED
  BY <1>1, Invariance, PTL

\* As long as nothing fails, a line of an order is reserved once, and the customer is
\* told once: what ReservedOnce loses, it loses to redelivery.
THEOREM OnceIfNothingFails == Spec => []OnceWithoutFaults
<1>1. ASSUME IInv, faults = 0, NEW c \in Calls PROVE notified[c] <= 1
  <2>1. Sent(c) \in {0, 1} /\ notified[c] \in Nat /\ notified[c] <= faults + Sent(c)
    BY <1>1 DEF Sent, IInv, DeliveryInv
  <2>. QED
    BY <1>1, <2>1
<1>2. ASSUME IInv, faults = 0, NEW c \in Calls, NEW line \in Lines(c)
      PROVE  Cardinality(Grants(c, line)) <=
               Cardinality({n \in DOMAIN Cart[asked[c]] : Cart[asked[c]][n] = line})
  <2>. DEFINE a == <<c, 0>>
              full == Ordered(a)
              N == {n \in DOMAIN full : full[n] = line}
              f == [n \in N |-> Grant(a, n)]
              S == {f[n] : n \in N}
  <2>0. a \in Tries /\ a[1] = c
    BY LimitsAssumption DEF Tries
  <2>1. full = Cart[asked[c]]
    BY DEF Ordered
  <2>2. full \in Seq([item : Items, quantity : Nat]) /\ Len(full) \in Nat
    BY <1>2, <2>0, LinesType DEF IInv
  <2>3. IsFiniteSet(N)
    <3>1. IsFiniteSet(1..Len(full))
      BY <2>2, FS_Interval
    <3>2. N \in SUBSET (1..Len(full))
      BY <2>2
    <3>. QED
      BY <3>1, <3>2, FS_Subset
  <2>4. f \in Surjection(N, S)
    BY DEF Surjection
  <2>5. IsFiniteSet(S) /\ Cardinality(S) <= Cardinality(N)
    BY <2>3, <2>4, FS_Surjection
  <2>6. Grants(c, line) \subseteq S
    <3>1. ASSUME NEW m \in Grants(c, line) PROVE m \in S
      <4>1. /\ m \in outbox /\ m.type = "StockReserved"
            /\ m.item = line.item /\ m.amount = line.quantity
            /\ m.by \in Attempts /\ m.by[1] = c
        BY <3>1 DEF Grants
      <4>2. m.by \in Tries /\ m.by[2] <= 0
        BY <1>2, <4>1 DEF IInv, GrantsInv
      <4>3. m.by = a
        BY <4>1, <4>2, LimitsAssumption DEF Tries
      <4>4. PICK j \in 1..Len(full) : m = Grant(a, j)
        BY <1>2, <4>1, <4>3 DEF IInv, GrantsInv
      <4>5. full[j].item = line.item /\ full[j].quantity = line.quantity
        BY <4>1, <4>4 DEF Grant
      <4>6. full[j] \in [item : Items, quantity : Nat] /\ line \in [item : Items, quantity : Nat]
        <5>1. PICK n \in DOMAIN Cart[asked[c]] : line = Cart[asked[c]][n]
          BY <1>2 DEF Lines
        <5>2. n \in 1..Len(full) /\ line = full[n]
          BY <2>1, <2>2, <5>1
        <5>. HIDE DEF full
        <5>3. \A k \in 1..Len(full) : full[k] \in [item : Items, quantity : Nat]
          BY <2>2, ElementOfSeq
        <5>. QED
          BY <5>2, <5>3
      <4>7. full[j] = line
        BY <4>5, <4>6
      <4>. QED
        BY <2>2, <4>4, <4>7
    <3>. QED
      BY <3>1
  <2>. HIDE DEF S
  <2>7. Cardinality(Grants(c, line)) <= Cardinality(S)
    BY <2>5, <2>6, FS_Subset
  <2>8. /\ Cardinality(Grants(c, line)) \in Nat /\ Cardinality(S) \in Nat /\ Cardinality(N) \in Nat
    BY <2>3, <2>5, <2>6, FS_Subset, FS_CardinalityType
  <2>. HIDE DEF N
  <2>9. Cardinality(Grants(c, line)) <= Cardinality(N)
    BY <2>5, <2>7, <2>8
  <2>. QED
    BY <2>1, <2>9 DEF N
<1>3. IInv => OnceWithoutFaults
  BY <1>1, <1>2 DEF OnceWithoutFaults
<1>. QED
  BY <1>3, Invariance, PTL
=============================================================================
