------------------------------ MODULE Inventory ------------------------------
(***************************************************************************)
(* The stock of modules/inventory: inventory items with their reservations *)
(* and adjustments, and the five commands the gateway and the outbox       *)
(* worker run against them.                                                *)
(*                                                                         *)
(* A command is not one transaction.  A handler reads the item (one SELECT *)
(* for the row, one for each relation Prisma includes, none of them locked *)
(* or versioned), lets the aggregate decide in memory, and then writes the *)
(* WHOLE aggregate back in one transaction together with its outbox        *)
(* messages.  The steps of concurrent commands interleave between those    *)
(* reads and the write.                                                    *)
(*                                                                         *)
(* Operators whose name starts with Bug are mistakes the code does not     *)
(* make.  Nothing uses them: they are put in place of the operator that    *)
(* follows them to see that a property notices.                            *)
(***************************************************************************)
EXTENDS Integers, Sequences, FiniteSetsExt

CONSTANTS Items,      \* (sku, warehouse) pairs; the database keeps them unique
          Orders,     \* order ids
          Requests,   \* command executions, each run once
          Commands,   \* the commands a request may carry
          Openings,   \* stocks with which an item may already be there
          MaxInt4,    \* largest value of an INTEGER column
          NoItem      \* no row for this item

Line == [item: Items, quantity: Nat]

\* A fresh id: the n-th of a request (randomUUID in the handlers).
Id == Requests \X Nat

CreateCommand       == [op: {"create"}, item: Items, onHand: Nat]
AdjustCommand       == [op: {"adjust"}, item: Items, delta: Int]
ReserveCommand      == [op: {"reserve"}, order: Orders, lines: Seq(Line) \ {<< >>}]
ReleaseCommand      == [op: {"release"}, item: Items, reservation: Id]
ReleaseOrderCommand == [op: {"releaseOrder"}, order: Orders]

Command == CreateCommand \cup AdjustCommand \cup ReserveCommand
             \cup ReleaseCommand \cup ReleaseOrderCommand

Reservation == [id: Id, order: Orders, quantity: Nat, active: BOOLEAN]
Adjustment  == [id: Id, delta: Int]
Aggregate   == [onHand: Nat, reserved: Nat,
                reservations: SUBSET Reservation, adjustments: SUBSET Adjustment]
Message     == [type: {"StockReserved", "StockReservationReleased",
                       "StockAdjusted", "StockDepleted"},
                item: Items, id: Id, amount: Int, by: Requests]

ASSUME CommandsAssumption == Commands \subseteq Command
ASSUME MaxInt4Assumption  == MaxInt4 \in Nat
ASSUME OpeningsAssumption == Openings \subseteq 0..MaxInt4
ASSUME NoItemAssumption   == NoItem \notin Aggregate

VARIABLES
  items,      \* the database: the stored aggregate of every item, or NoItem
  outbox,     \* outbox messages written so far, in the same transactions
  phase,      \* how far each request is
  cmd,        \* its command; the lines of a reserve are consumed as they are saved
  target,     \* the items it loaded and has not saved yet
  work,       \* its in-memory aggregates
  opening,    \* history: the stock each item was created with
  overwrote   \* history: some save replaced a state its request had not read

vars == <<items, outbox, phase, cmd, target, work, opening, overwrote>>

Phases == {"received", "row", "reservations", "loaded", "ok", "failed"}

Available(a) == a.onHand - a.reserved
TotalQuantity(S) == MapThenSumSet(LAMBDA v : v.quantity, S)
Active(a) == {v \in a.reservations : v.active}

-----------------------------------------------------------------------------
(* The aggregate's methods, on an in-memory item. *)

NewItem(stock) == [onHand |-> stock, reserved |-> 0,
                   reservations |-> {}, adjustments |-> {}]
Unloaded == [i \in Items |-> NewItem(0)]

BugCanReserve(a, quantity) == quantity > 0 /\ a.onHand >= quantity
CanReserve(a, quantity) == quantity > 0 /\ Available(a) >= quantity

BugReserve(a, id, order, quantity) ==
  [a EXCEPT !.reserved = @ + quantity,
            !.reservations = {v \in @ : v.order # order}
                                \cup {[id |-> id, order |-> order,
                                       quantity |-> quantity, active |-> TRUE]}]
Reserve(a, id, order, quantity) ==
  [a EXCEPT !.reserved = @ + quantity,
            !.reservations = @ \cup {[id |-> id, order |-> order,
                                      quantity |-> quantity, active |-> TRUE]}]

BugCanAdjust(a, delta) == delta # 0
CanAdjust(a, delta) == delta # 0 /\ a.onHand + delta >= 0

BugAdjust(a, id, delta) == [a EXCEPT !.onHand = @ + delta]
Adjust(a, id, delta) ==
  [a EXCEPT !.onHand = @ + delta,
            !.adjustments = @ \cup {[id |-> id, delta |-> delta]}]

OfReservation(a, id) == {v \in Active(a) : v.id = id}
OfOrder(a, order) == {v \in Active(a) : v.order = order}

\* Quantity.create throws on a negative number, so a release goes through only
\* if the reserved count covers every reservation it releases; this is what is
\* left of the count.
Remaining(a, S) == {left \in 0..a.reserved : left + TotalQuantity(S) = a.reserved}

BugRelease(a, S, left) == [a EXCEPT !.reserved = left]
Release(a, S, left) ==
  [a EXCEPT !.reserved = left,
            !.reservations = (@ \ S) \cup {[v EXCEPT !.active = FALSE] : v \in S}]

-----------------------------------------------------------------------------
(* Reading.  The three SELECTs of one findUnique / findMany with include. *)

Stored(i) == items[i] # NoItem

\* The rows the handler's query selects.
Selected(c) ==
  CASE c.op \in {"create", "adjust", "release"} -> {i \in {c.item} : Stored(i)}
    [] c.op = "reserve" -> {i \in {Head(c.lines).item} : Stored(i)}
    [] c.op = "releaseOrder" -> {i \in Items : Stored(i) /\ OfOrder(items[i], c.order) # {}}

SelectRows(r) ==
  /\ phase[r] = "received"
  /\ cmd[r].op # "create"
  /\ Selected(cmd[r]) # {}
  /\ target' = [target EXCEPT ![r] = Selected(cmd[r])]
  /\ work' = [work EXCEPT ![r] = [i \in Items |->
                IF i \in Selected(cmd[r])
                THEN [items[i] EXCEPT !.reservations = {}, !.adjustments = {}]
                ELSE NewItem(0)]]
  /\ phase' = [phase EXCEPT ![r] = "row"]
  /\ UNCHANGED <<items, outbox, cmd, opening, overwrote>>

\* Rows are never deleted, so a selected item is still stored.
SelectReservations(r) ==
  /\ phase[r] = "row"
  /\ work' = [work EXCEPT ![r] = [i \in Items |->
                IF i \in target[r]
                THEN [@[i] EXCEPT !.reservations = items[i].reservations] ELSE @[i]]]
  /\ phase' = [phase EXCEPT ![r] = "reservations"]
  /\ UNCHANGED <<items, outbox, cmd, target, opening, overwrote>>

SelectAdjustments(r) ==
  /\ phase[r] = "reservations"
  /\ work' = [work EXCEPT ![r] = [i \in Items |->
                IF i \in target[r]
                THEN [@[i] EXCEPT !.adjustments = items[i].adjustments] ELSE @[i]]]
  /\ phase' = [phase EXCEPT ![r] = "loaded"]
  /\ UNCHANGED <<items, outbox, cmd, target, opening, overwrote>>

\* The create handler found no item and built one.
SelectNothing(r) ==
  /\ phase[r] = "received"
  /\ cmd[r].op = "create"
  /\ ~Stored(cmd[r].item)
  /\ target' = [target EXCEPT ![r] = {cmd[r].item}]
  /\ work' = [work EXCEPT ![r][cmd[r].item] = NewItem(cmd[r].onHand)]
  /\ phase' = [phase EXCEPT ![r] = "loaded"]
  /\ UNCHANGED <<items, outbox, cmd, opening, overwrote>>

-----------------------------------------------------------------------------
(* Writing.  The aggregate method and the save that follows it: the method  *)
(* works on memory only, so it is part of the step that commits.            *)

BugNote(msgs) == UNCHANGED outbox
Note(msgs) == outbox' = outbox \cup msgs

\* save(): the row, every child (rows not in memory are deleted) and the
\* messages, in one transaction.
Save(r, i, a, msgs) ==
  /\ phase[r] = "loaded"
  /\ i \in target[r]
  /\ a.onHand <= MaxInt4
  /\ items' = [items EXCEPT ![i] = a]
  /\ Note(msgs)
  /\ overwrote' = (overwrote \/ items[i] # work[r][i])
  /\ target' = [target EXCEPT ![r] = @ \ {i}]
  /\ work' = [work EXCEPT ![r][i] = NewItem(0)]

Finish(r) == phase' = [phase EXCEPT ![r] = "ok"]

\* A second row for the same (sku, warehouse) violates the unique index.
SaveCreated(r) ==
  LET i == cmd[r].item IN
  /\ phase[r] = "loaded"
  /\ cmd[r].op = "create"
  /\ ~Stored(i)
  /\ work[r][i].onHand <= MaxInt4
  /\ items' = [items EXCEPT ![i] = work[r][i]]
  /\ opening' = [opening EXCEPT ![i] = work[r][i].onHand]
  /\ target' = [target EXCEPT ![r] = {}]
  /\ work' = [work EXCEPT ![r][i] = NewItem(0)]
  /\ Finish(r)
  /\ UNCHANGED <<outbox, cmd, overwrote>>

SaveAdjusted(r) ==
  LET i == cmd[r].item
      d == cmd[r].delta
      a == Adjust(work[r][i], <<r, 0>>, d)
      about(type, n) == [type |-> type, item |-> i, id |-> <<r, 0>>, amount |-> n, by |-> r]
  IN
  /\ cmd[r].op = "adjust"
  /\ CanAdjust(work[r][i], d)
  /\ Save(r, i, a, {about("StockAdjusted", d)} \cup
                   {about("StockDepleted", 0) : x \in {0} \cap {a.onHand}})
  /\ Finish(r)
  /\ UNCHANGED <<cmd, opening>>

\* One line of a reserve; order.created carries several, and each is loaded
\* and saved on its own.
SaveReserved(r) ==
  LET line == Head(cmd[r].lines)
      rest == Tail(cmd[r].lines)
      id   == <<r, Len(cmd[r].lines)>>
      i    == line.item
  IN
  /\ cmd[r].op = "reserve"
  /\ CanReserve(work[r][i], line.quantity)
  /\ Save(r, i, Reserve(work[r][i], id, cmd[r].order, line.quantity),
          {[type |-> "StockReserved", item |-> i, id |-> id,
            amount |-> line.quantity, by |-> r]})
  /\ IF rest = << >>
     THEN Finish(r) /\ UNCHANGED cmd
     ELSE /\ phase' = [phase EXCEPT ![r] = "received"]
          /\ cmd' = [cmd EXCEPT ![r].lines = rest]
  /\ UNCHANGED opening

ReleaseMessages(r, i, S) ==
  {[type |-> "StockReservationReleased", item |-> i, id |-> v.id,
    amount |-> 0, by |-> r] : v \in S}

SaveReleased(r) ==
  LET i == cmd[r].item
      S == OfReservation(work[r][i], cmd[r].reservation)
  IN
  /\ cmd[r].op = "release"
  /\ S # {}
  /\ \E left \in Remaining(work[r][i], S) :
       Save(r, i, Release(work[r][i], S, left), ReleaseMessages(r, i, S))
  /\ Finish(r)
  /\ UNCHANGED <<cmd, opening>>

\* One item of the list that was loaded up front.
SaveReleasedForOrder(r) ==
  /\ phase[r] = "loaded"
  /\ cmd[r].op = "releaseOrder"
  /\ \E i \in target[r] :
       LET S == OfOrder(work[r][i], cmd[r].order) IN
       /\ S # {}
       /\ \E left \in Remaining(work[r][i], S) :
            Save(r, i, Release(work[r][i], S, left), ReleaseMessages(r, i, S))
       /\ IF target[r] = {i} THEN Finish(r) ELSE UNCHANGED phase
  /\ UNCHANGED <<cmd, opening>>

\* The command fails: nothing found, the aggregate refuses, the database or
\* the process goes away.  What earlier lines or items saved stays.
Fail(r) ==
  /\ phase[r] \notin {"ok", "failed"}
  /\ phase' = [phase EXCEPT ![r] = "failed"]
  /\ target' = [target EXCEPT ![r] = {}]
  /\ work' = [work EXCEPT ![r] = Unloaded]
  /\ UNCHANGED <<items, outbox, cmd, opening, overwrote>>

-----------------------------------------------------------------------------
Init ==
  /\ items \in [Items -> {NoItem} \cup {NewItem(n) : n \in Openings}]
  /\ outbox = {}
  /\ phase = [r \in Requests |-> "received"]
  /\ cmd \in [Requests -> Commands]
  /\ target = [r \in Requests |-> {}]
  /\ work = [r \in Requests |-> Unloaded]
  /\ opening = [i \in Items |-> IF Stored(i) THEN items[i].onHand ELSE 0]
  /\ overwrote = FALSE

Next == \E r \in Requests :
  \/ SelectRows(r) \/ SelectReservations(r) \/ SelectAdjustments(r) \/ SelectNothing(r)
  \/ SaveCreated(r) \/ SaveAdjusted(r) \/ SaveReserved(r)
  \/ SaveReleased(r) \/ SaveReleasedForOrder(r)
  \/ Fail(r)

Spec == Init /\ [][Next]_vars

-----------------------------------------------------------------------------
(* Properties *)

\* Every variable has its type: in particular the stored and in-memory counts
\* never go below zero, whatever the interleaving (Quantity.create).
TypeOK ==
  /\ items \in [Items -> Aggregate \cup {NoItem}]
  /\ outbox \subseteq Message
  /\ phase \in [Requests -> Phases]
  /\ cmd \in [Requests -> Command]
  /\ target \in [Requests -> SUBSET Items]
  /\ work \in [Requests -> [Items -> Aggregate]]
  /\ opening \in [Items -> Nat]
  /\ overwrote \in BOOLEAN

NothingTaken == \A m \in outbox : m.type = "StockAdjusted" => m.amount > 0

\* As long as nobody took stock away by an adjustment, every stored row keeps
\* reserved <= on hand: whatever saves overwrite each other and whatever mixture
\* of row and children a load returns, reserve() decided on one row that was
\* committed, and writes that row's numbers back.
ReservedWithinOnHand ==
  NothingTaken => \A i \in Items : Stored(i) => items[i].reserved <= items[i].onHand

Announced(i, v) ==
  /\ \E m \in outbox : /\ m.type = "StockReserved" /\ m.item = i
                       /\ m.id = v.id /\ m.amount = v.quantity
  /\ v.active \/ \E m \in outbox : /\ m.type = "StockReservationReleased"
                                   /\ m.item = i /\ m.id = v.id

\* Every reservation in the database was announced by a StockReserved message
\* with its quantity, and every released one by a StockReservationReleased: the
\* outbox row is written in the transaction that stores the change.
ReservationsAnnounced ==
  \A i \in Items : Stored(i) => \A v \in items[i].reservations : Announced(i, v)

ReservedMatchesActive(i) == items[i].reserved = TotalQuantity(Active(items[i]))
AdjustmentsExplainOnHand(i) ==
  items[i].onHand = opening[i] + MapThenSumSet(LAMBDA d : d.delta, items[i].adjustments)

Granted(i) == {m \in outbox : m.type = "StockReserved" /\ m.item = i}
GivenBack(i) ==
  {m \in Granted(i) : \E n \in outbox : /\ n.type = "StockReservationReleased"
                                       /\ n.item = i /\ n.id = m.id}

GrantedAreActive(i) ==
  {m.id : m \in Granted(i) \ GivenBack(i)} = {v.id : v \in Active(items[i])}

\* Until a save has overwritten something its request had not read, nothing of an item is
\* lost: its reserved count is the sum of its active reservations, its stock on hand is
\* what it was created with plus its adjustments, and the reservations the service
\* announced and has not released are exactly the active ones in the database.
NothingLost ==
  ~overwrote => \A i \in Items : Stored(i) =>
    ReservedMatchesActive(i) /\ AdjustmentsExplainOnHand(i) /\ GrantedAreActive(i)

\* The quantity granted to orders and not given back fits the stock on hand.
\* Concurrent reserves break it: each one saves over the other.
NoOversell ==
  \A i \in Items : Stored(i) =>
    MapThenSumSet(LAMBDA m : m.amount, Granted(i) \ GivenBack(i)) <= items[i].onHand

\* Available stock is never negative.  A negative adjustment breaks it: adjust()
\* compares with the stock on hand and forgets the reserved part.
AvailableNotNegative == \A i \in Items : Stored(i) => Available(items[i]) >= 0
=============================================================================
