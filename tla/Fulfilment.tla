----------------------------- MODULE Fulfilment -----------------------------
(***************************************************************************)
(* From a checkout to reserved stock: Checkout writes an OrderCreated      *)
(* message with each order; the Outbox worker runs its two handlers, first *)
(* the one that reserves stock in Inventory for every line, then the one   *)
(* that requests a notification, and marks it processed.  The composition  *)
(* of the three modules: each of its steps is a step of one or two of them *)
(* and leaves the others alone.                                            *)
(*                                                                         *)
(* Every attempt at the first handler is a new execution of Inventory's    *)
(* reserve command.  A disputed order may be cancelled by the customer, and *)
(* one staff call may release what it has reserved, both at any time.      *)
(***************************************************************************)
EXTENDS Integers, Sequences, FiniteSetsExt

CONSTANTS Sessions,   \* checkout sessions
          Cart,       \* [Sessions -> the lines of the cart it is started from]
          Calls,      \* calls that complete a checkout; each names the order it creates
          Disputed,   \* orders somebody may cancel, and staff may release
          Items, Openings, MaxInt4, NoItem,   \* of Inventory
          Worker,     \* the outbox worker
          BatchSize, MaxFaults                \* of Outbox

ASSUME CallsAssumption == Calls \subseteq Nat \ {0}
ASSUME LimitsAssumption == /\ MaxInt4 \in Nat /\ Openings \subseteq 0..MaxInt4
                           /\ BatchSize \in Nat \ {0} /\ MaxFaults \in Nat
ASSUME CartAssumption ==
         Cart \in [Sessions -> Seq([item: Items, quantity: Nat]) \ {<< >>}]

VARIABLES
  session, asked, stage, order, payment, intents, announced, cancelling,
  items, outbox, phase, cmd, target, work, opening, overwrote,
  written, processed, failedOnce, completed, batch, step, faults,
  notified    \* [Calls -> number of notifications requested for the order]

checkoutVars == <<session, asked, stage, order, payment, intents, announced, cancelling>>
stockVars == <<items, outbox, phase, cmd, target, work, opening, overwrote>>
busVars == <<written, processed, failedOnce, completed, batch, step, faults>>
vars == <<checkoutVars, stockVars, busVars, notified>>

\* An attempt of the worker is named by its order and the faults seen before it,
\* so that no two have the same name; the staff call comes after them all.
StaffCall(c) == <<c, MaxFaults + 1>>
Attempts == Calls \X (0..(MaxFaults + 1))

ReserveFor(c, s) == [op |-> "reserve", order |-> c, lines |-> Cart[s]]
ReleaseFor(c) == [op |-> "releaseOrder", order |-> c]
StockCommands == {ReserveFor(c, s) : c \in Calls, s \in Sessions}
                   \cup {ReleaseFor(c) : c \in Calls}

Store == INSTANCE Checkout
Stock == INSTANCE Inventory
  WITH Orders <- Calls, Requests <- Attempts, Commands <- StockCommands
Bus == INSTANCE Outbox
  WITH Messages <- Calls, Workers <- {Worker},
       Handlers <- [c \in Calls |-> 2], FailsAt <- [c \in Calls |-> 3]

ASSUME NoRowAssumption == NoItem \notin Stock!Aggregate

Init ==
  /\ Store!Init
  /\ cmd = [a \in Attempts |-> IF a = StaffCall(a[1]) THEN ReleaseFor(a[1])
                               ELSE ReserveFor(a[1], asked[a[1]])]
  /\ Stock!Init
  /\ Bus!Init
  /\ notified = [c \in Calls |-> 0]

-----------------------------------------------------------------------------
(* Checkout. *)

\* validateInventoryAvailability: one read per line, none of them held.
InStock(line) ==
  /\ Stock!Stored(line.item)
  /\ Stock!Available(items[line.item]) >= line.quantity
StartCheckout(s) ==
  /\ \/ Store!Validate(s) /\ \A n \in DOMAIN Cart[s] : InStock(Cart[s][n])
     \/ Store!Start(s)
  /\ UNCHANGED <<stockVars, busVars, notified>>

\* The order is committed together with its OrderCreated message.
PlaceOrder(c) ==
  /\ Store!CreateOrder(c)
  /\ Bus!Write(c)
  /\ UNCHANGED <<stockVars, notified>>

OtherCheckoutStep(c) ==
  /\ \/ Store!CompleteStep(c)
     \/ c \in Disputed /\ (Store!LoadForCancel(c) \/ Store!Cancel(c))
  /\ UNCHANGED <<stockVars, busVars, notified>>

-----------------------------------------------------------------------------
(* The worker. *)

BusStep ==
  /\ \/ Bus!Fetch(Worker)
     \/ \E c \in Calls : Bus!Parse(Worker, c) \/ Bus!MarkProcessed(Worker, c)
  /\ UNCHANGED <<checkoutVars, stockVars, notified>>

Running(c, k) == Bus!At(Worker, c) /\ step[Worker] = k
Attempt(c) == <<c, faults>>

\* The steps of one reserve or release command.
StockStep(a) ==
  \/ Stock!SelectRows(a) \/ Stock!SelectReservations(a) \/ Stock!SelectAdjustments(a)
  \/ Stock!SaveReserved(a) \/ Stock!SaveReleasedForOrder(a)
  \/ Stock!Fail(a)

\* OrderCreatedHandler: the lines one after the other, up to the first failure.
ReserveStock(c) ==
  /\ Running(c, 1)
  /\ StockStep(Attempt(c))
  /\ UNCHANGED <<checkoutVars, busVars, notified>>

\* The handler returned, or threw the error of the failed line.
BugReserveReturns(c) ==
  /\ Running(c, 1)
  /\ phase[Attempt(c)] \in {"ok", "failed"}
  /\ Bus!Handle(Worker, c)
  /\ UNCHANGED <<checkoutVars, stockVars, notified>>
ReserveReturns(c) ==
  /\ Running(c, 1)
  /\ \/ phase[Attempt(c)] = "ok" /\ Bus!Handle(Worker, c)
     \/ phase[Attempt(c)] = "failed" /\ Bus!FailOnce(Worker, c)
  /\ UNCHANGED <<checkoutVars, stockVars, notified>>

\* OrderCreatedNotificationHandler stores a new notification at each call.
Notify(c) ==
  /\ Running(c, 2)
  /\ \/ Bus!Handle(Worker, c) /\ notified' = [notified EXCEPT ![c] = @ + 1]
     \/ Bus!FailOnce(Worker, c) /\ UNCHANGED notified
  /\ UNCHANGED <<checkoutVars, stockVars>>

MarkFails(c) ==
  /\ Running(c, 3)
  /\ Bus!FailOnce(Worker, c)
  /\ UNCHANGED <<checkoutVars, stockVars, notified>>

\* The process stops; a reserve it was in the middle of ends where it is.
WorkerStops ==
  /\ Bus!Crash(Worker)
  /\ \/ \E c \in Calls : Running(c, 1) /\ Stock!Fail(Attempt(c))
     \/ /\ \A c \in Calls : Running(c, 1) => phase[Attempt(c)] \in {"ok", "failed"}
        /\ UNCHANGED stockVars
  /\ UNCHANGED <<checkoutVars, notified>>

StaffReleases(c) ==
  /\ c \in Disputed
  /\ order[c] # "none"
  /\ StockStep(StaffCall(c))
  /\ UNCHANGED <<checkoutVars, busVars, notified>>

Next ==
  \/ \E s \in Sessions : StartCheckout(s)
  \/ \E c \in Calls : \/ PlaceOrder(c) \/ OtherCheckoutStep(c)
                      \/ ReserveStock(c) \/ ReserveReturns(c) \/ Notify(c) \/ MarkFails(c)
                      \/ StaffReleases(c)
  \/ BusStep
  \/ WorkerStops

Spec == Init /\ [][Next]_vars

-----------------------------------------------------------------------------
(* Properties *)

\* The components keep their own invariants when they run together: nothing one
\* of them does to the shared parts breaks another.
ComponentInvariants ==
  /\ Store!TypeOK
  /\ Stock!TypeOK /\ Stock!ReservedWithinOnHand /\ Stock!ReservationsAnnounced
  /\ Bus!TypeOK /\ Bus!ProcessedAfterAllHandlers /\ Bus!HandlersInOrder
  /\ notified \in [Calls -> 0..(MaxFaults + 1)]

\* The order of session, order and charge holds with the worker at work.
CheckoutInOrder == Store!CheckoutInOrder

\* Reservations announced for an order and a line of it.
Grants(c, line) ==
  {m \in outbox : /\ m.type = "StockReserved" /\ m.item = line.item
                  /\ m.by \in {a \in Attempts : a[1] = c} /\ m.amount = line.quantity}
Lines(c) == {Cart[asked[c]][n] : n \in DOMAIN Cart[asked[c]]}

\* The customer is told about an order, and its message is put away, only after
\* stock was granted for every one of its lines, through all failures and
\* crashes in between; and stock is granted only for orders that exist.
ReservedBeforeNotified ==
  /\ \A c \in Calls : (notified[c] > 0 \/ c \in processed) =>
       \A line \in Lines(c) : Grants(c, line) # {}
  /\ \A m \in outbox : order[m.by[1]] # "none"

\* Without a fault the worker grants every line once, and tells the customer
\* once: delivery repeats only after something went wrong.
OnceWithoutFaults ==
  faults = 0 => \A c \in Calls :
    /\ notified[c] <= 1
    /\ \A line \in Lines(c) : Cardinality(Grants(c, line)) <=
         Cardinality({n \in DOMAIN Cart[asked[c]] : Cart[asked[c]][n] = line})

\* Each line of an order is reserved once, however often its message is
\* delivered.  A redelivery after a crash, or after a later line failed, breaks
\* it: ReserveStockHandler makes a new reservation at every call.
ReservedOnce ==
  \A c \in Calls : \A line \in Lines(c) : Cardinality(Grants(c, line)) <=
    Cardinality({n \in DOMAIN Cart[asked[c]] : Cart[asked[c]][n] = line})

\* One checkout makes one order.
OneOrderPerSession == Store!OneOrderPerSession
=============================================================================
