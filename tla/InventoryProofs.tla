--------------------------- MODULE InventoryProofs ---------------------------
(***************************************************************************)
(* Proofs about Inventory for every set of items, orders, requests and     *)
(* commands: the type invariant, ReservedWithinOnHand,                     *)
(* ReservationsAnnounced and NothingLost.                                  *)
(*                                                                         *)
(* What a stored item satisfies, a loaded one satisfies too, since it is   *)
(* put together from stored ones; what the loaded ones satisfy, a save     *)
(* hands back to the database.  So each invariant is proved of the         *)
(* database and of the requests' memories together.                        *)
(***************************************************************************)
EXTENDS Inventory, FiniteSetTheorems, WellFoundedInduction, TLAPS

\* An item that a request has selected is not deleted before the request has
\* read its children.
RowsStay ==
  \A r \in Requests : phase[r] \in {"row", "reservations"} =>
    \A i \in target[r] : Stored(i)

TypeInv == TypeOK /\ RowsStay

-----------------------------------------------------------------------------
(* The aggregate's methods return aggregates. *)

LEMMA NewItemType == \A n \in Nat : NewItem(n) \in Aggregate
  BY DEF NewItem, Aggregate

LEMMA StoredType ==
  ASSUME TypeOK, NEW i \in Items, Stored(i)
  PROVE  items[i] \in Aggregate
  BY DEF TypeOK, Stored

\* Loaded children replace the placeholders of a loaded row.
LEMMA ChildrenType ==
  ASSUME NEW a \in Aggregate, NEW b \in Aggregate
  PROVE  /\ [a EXCEPT !.reservations = b.reservations] \in Aggregate
         /\ [a EXCEPT !.adjustments = b.adjustments] \in Aggregate
         /\ [a EXCEPT !.reservations = {}, !.adjustments = {}] \in Aggregate
  BY DEF Aggregate

LEMMA FieldTypes ==
  ASSUME NEW a \in Aggregate
  PROVE  /\ a.onHand \in Nat /\ a.reserved \in Nat
         /\ a.reservations \in SUBSET Reservation /\ a.adjustments \in SUBSET Adjustment
  BY DEF Aggregate

LEMMA ReserveType ==
  ASSUME NEW a \in Aggregate, NEW id \in Id, NEW o \in Orders, NEW n \in Nat
  PROVE  Reserve(a, id, o, n) \in Aggregate
<1>. DEFINE v == [id |-> id, order |-> o, quantity |-> n, active |-> TRUE]
<1>1. v \in Reservation
  BY DEF Reservation
<1>. HIDE DEF v
<1>2. a.reservations \cup {v} \in SUBSET Reservation /\ a.reserved + n \in Nat
  BY <1>1, FieldTypes
<1>3. [a EXCEPT !.reserved = a.reserved + n, !.reservations = a.reservations \cup {v}] \in Aggregate
  BY <1>2 DEF Aggregate
<1>. QED
  BY <1>3 DEF Reserve, v

LEMMA AdjustType ==
  ASSUME NEW a \in Aggregate, NEW id \in Id, NEW d \in Int, CanAdjust(a, d)
  PROVE  Adjust(a, id, d) \in Aggregate
<1>. DEFINE x == [id |-> id, delta |-> d]
<1>1. x \in Adjustment
  BY DEF Adjustment
<1>. HIDE DEF x
<1>2. a.adjustments \cup {x} \in SUBSET Adjustment /\ a.onHand + d \in Nat
  BY <1>1, FieldTypes DEF CanAdjust
<1>3. [a EXCEPT !.onHand = a.onHand + d, !.adjustments = a.adjustments \cup {x}] \in Aggregate
  BY <1>2 DEF Aggregate
<1>. QED
  BY <1>3 DEF Adjust, x

LEMMA ReleaseType ==
  ASSUME NEW a \in Aggregate, NEW S \in SUBSET a.reservations, NEW left \in Remaining(a, S)
  PROVE  /\ Release(a, S, left) \in Aggregate
         /\ left \in Nat /\ left <= a.reserved
<1>. DEFINE T == {[v EXCEPT !.active = FALSE] : v \in S}
<1>1. left \in Nat /\ left <= a.reserved
  BY DEF Remaining, Aggregate
<1>2. T \subseteq Reservation
  <2>1. \A v \in Reservation : [v EXCEPT !.active = FALSE] \in Reservation
    BY DEF Reservation
  <2>. QED
    BY <2>1, FieldTypes
<1>3. (a.reservations \ S) \cup T \in SUBSET Reservation
  BY <1>2, FieldTypes
<1>. HIDE DEF T
<1>4. [a EXCEPT !.reserved = left, !.reservations = (a.reservations \ S) \cup T] \in Aggregate
  BY <1>1, <1>3 DEF Aggregate
<1>. QED
  BY <1>1, <1>4 DEF Release, T

-----------------------------------------------------------------------------
(* Type correctness. *)

LEMMA TypeInit == Init => TypeInv
<1>. SUFFICES ASSUME Init PROVE TypeInv
  OBVIOUS
<1>0. \A n \in Openings : n \in Nat
  BY OpeningsAssumption, MaxInt4Assumption
<1>1. items \in [Items -> Aggregate \cup {NoItem}]
  BY <1>0, NewItemType DEF Init
<1>2. cmd \in [Requests -> Command]
  BY CommandsAssumption DEF Init
<1>3. work \in [Requests -> [Items -> Aggregate]]
  BY NewItemType DEF Init, Unloaded
<1>4. opening \in [Items -> Nat]
  <2>1. \A i \in Items : Stored(i) => items[i].onHand \in Nat
    BY <1>1 DEF Stored, Aggregate
  <2>. QED
    BY <2>1 DEF Init
<1>. QED
  BY <1>1, <1>2, <1>3, <1>4 DEF Init, TypeInv, TypeOK, RowsStay, Phases

\* The fields of a command of each kind.
LEMMA CommandFields ==
  ASSUME NEW c \in Command
  PROVE  /\ c.op = "create" => c.item \in Items /\ c.onHand \in Nat
         /\ c.op = "adjust" => c.item \in Items /\ c.delta \in Int
         /\ c.op = "reserve" => c \in ReserveCommand
         /\ c.op = "release" => c.item \in Items
  BY DEF Command, CreateCommand, AdjustCommand, ReserveCommand, ReleaseCommand,
         ReleaseOrderCommand

LEMMA LineFields ==
  ASSUME NEW c \in ReserveCommand
  PROVE  /\ Head(c.lines).item \in Items /\ Head(c.lines).quantity \in Nat
         /\ c.order \in Orders /\ Len(c.lines) \in Nat
         /\ Tail(c.lines) # << >> => [c EXCEPT !.lines = Tail(c.lines)] \in ReserveCommand
<1>1. c.lines \in Seq(Line) /\ c.lines # << >> /\ c.order \in Orders
  BY DEF ReserveCommand
<1>2. Head(c.lines) \in Line /\ Tail(c.lines) \in Seq(Line) /\ Len(c.lines) \in Nat
  BY <1>1
<1>3. Tail(c.lines) # << >> => [c EXCEPT !.lines = Tail(c.lines)] \in ReserveCommand
  BY <1>2 DEF ReserveCommand
<1>. QED
  BY <1>1, <1>2, <1>3 DEF Line

LEMMA ReadKeepsType ==
  ASSUME TypeInv, NEW r \in Requests,
         SelectRows(r) \/ SelectReservations(r) \/ SelectAdjustments(r) \/ SelectNothing(r)
  PROVE  TypeInv'
<1>. USE DEF TypeInv, TypeOK
<1>0. \A i \in Items : Stored(i) => items[i] \in Aggregate
  BY StoredType
<1>1. CASE SelectRows(r)
  <2>1. Selected(cmd[r]) \in SUBSET Items /\ \A i \in Selected(cmd[r]) : Stored(i)
    <3>1. CASE cmd[r].op \in {"adjust", "release"}
      <4>1. Selected(cmd[r]) = {i \in {cmd[r].item} : Stored(i)}
        BY <3>1 DEF Selected
      <4>. QED
        BY <3>1, <4>1, CommandFields
    <3>2. CASE cmd[r].op = "reserve"
      <4>1. Selected(cmd[r]) = {i \in {Head(cmd[r].lines).item} : Stored(i)}
        BY <3>2 DEF Selected
      <4>2. Head(cmd[r].lines).item \in Items
        BY <3>2, CommandFields, LineFields
      <4>. QED
        BY <4>1, <4>2
    <3>3. CASE cmd[r].op = "releaseOrder"
      BY <3>3 DEF Selected
    <3>4. cmd[r].op \in {"adjust", "release", "reserve", "releaseOrder"}
      BY <1>1 DEF SelectRows, Command, CreateCommand, AdjustCommand, ReserveCommand,
                  ReleaseCommand, ReleaseOrderCommand
    <3>. QED
      BY <3>1, <3>2, <3>3, <3>4
  <2>2. work' \in [Requests -> [Items -> Aggregate]]
    <3>1. \A i \in Selected(cmd[r]) :
            [items[i] EXCEPT !.reservations = {}, !.adjustments = {}] \in Aggregate
      BY <2>1, <1>0, ChildrenType
    <3>. QED
      BY <1>1, <3>1, NewItemType DEF SelectRows
  <2>3. target' \in [Requests -> SUBSET Items]
    BY <1>1, <2>1 DEF SelectRows
  <2>4. phase' \in [Requests -> Phases]
    BY <1>1 DEF SelectRows, Phases
  <2>5. RowsStay'
    BY <1>1, <2>1 DEF SelectRows, RowsStay, Stored
  <2>. QED
    BY <1>1, <2>2, <2>3, <2>4, <2>5 DEF SelectRows
<1>2. CASE SelectReservations(r)
  <2>1. \A i \in target[r] : items[i] \in Aggregate
    BY <1>0, <1>2 DEF SelectReservations, RowsStay
  <2>2. \A i \in target[r] : [work[r][i] EXCEPT !.reservations = items[i].reservations] \in Aggregate
    BY <2>1, ChildrenType
  <2>3. work' \in [Requests -> [Items -> Aggregate]]
    BY <1>2, <2>2 DEF SelectReservations
  <2>4. phase' \in [Requests -> Phases]
    BY <1>2 DEF SelectReservations, Phases
  <2>5. RowsStay'
    BY <1>2 DEF SelectReservations, RowsStay, Stored
  <2>. QED
    BY <1>2, <2>3, <2>4, <2>5 DEF SelectReservations
<1>3. CASE SelectAdjustments(r)
  <2>1. \A i \in target[r] : items[i] \in Aggregate
    BY <1>0, <1>3 DEF SelectAdjustments, RowsStay
  <2>2. \A i \in target[r] : [work[r][i] EXCEPT !.adjustments = items[i].adjustments] \in Aggregate
    BY <2>1, ChildrenType
  <2>3. work' \in [Requests -> [Items -> Aggregate]]
    BY <1>3, <2>2 DEF SelectAdjustments
  <2>4. phase' \in [Requests -> Phases]
    BY <1>3 DEF SelectAdjustments, Phases
  <2>5. RowsStay'
    BY <1>3 DEF SelectAdjustments, RowsStay, Stored
  <2>. QED
    BY <1>3, <2>3, <2>4, <2>5 DEF SelectAdjustments
<1>4. CASE SelectNothing(r)
  <2>1. cmd[r].item \in Items /\ cmd[r].onHand \in Nat
    BY <1>4 DEF SelectNothing, Command, CreateCommand, AdjustCommand, ReserveCommand,
                ReleaseCommand, ReleaseOrderCommand
  <2>2. work' \in [Requests -> [Items -> Aggregate]] /\ target' \in [Requests -> SUBSET Items]
    BY <1>4, <2>1, NewItemType DEF SelectNothing
  <2>3. phase' \in [Requests -> Phases]
    BY <1>4 DEF SelectNothing, Phases
  <2>4. RowsStay'
    BY <1>4 DEF SelectNothing, RowsStay, Stored
  <2>. QED
    BY <1>4, <2>2, <2>3, <2>4 DEF SelectNothing
<1>. QED
  BY <1>1, <1>2, <1>3, <1>4

LEMMA FailKeepsType ==
  ASSUME TypeInv, NEW r \in Requests, Fail(r)
  PROVE  TypeInv'
<1>1. Unloaded \in [Items -> Aggregate]
  BY NewItemType DEF Unloaded
<1>. QED
  BY <1>1 DEF Fail, TypeInv, TypeOK, RowsStay, Stored, Phases

LEMMA SaveCreatedKeepsType ==
  ASSUME TypeInv, NEW r \in Requests, SaveCreated(r)
  PROVE  TypeInv'
<1>. USE DEF TypeInv, TypeOK
<1>. DEFINE i == cmd[r].item
<1>1. i \in Items /\ work[r][i] \in Aggregate
  BY CommandFields DEF SaveCreated
<1>2. items' \in [Items -> Aggregate \cup {NoItem}] /\ \A j \in Items : Stored(j) => Stored(j)'
  BY <1>1, NoItemAssumption DEF SaveCreated, Stored
<1>3. opening' \in [Items -> Nat]
  BY <1>1, FieldTypes DEF SaveCreated
<1>4. work' \in [Requests -> [Items -> Aggregate]] /\ target' \in [Requests -> SUBSET Items]
  BY <1>1, NewItemType DEF SaveCreated
<1>5. phase' \in [Requests -> Phases]
  BY DEF SaveCreated, Finish, Phases
<1>6. RowsStay'
  BY <1>2 DEF SaveCreated, Finish, RowsStay
<1>. QED
  BY <1>2, <1>3, <1>4, <1>5, <1>6 DEF SaveCreated

-----------------------------------------------------------------------------
(* What a save writes: the loaded item after one call of one method, with   *)
(* the message of that call.                                                *)

SavesReserve(r, i, a, msgs) ==
  \E id \in Id, o \in Orders, n \in Nat :
    /\ CanReserve(work[r][i], n)
    /\ a = Reserve(work[r][i], id, o, n)
    /\ [type |-> "StockReserved", item |-> i, id |-> id, amount |-> n, by |-> r] \in msgs

SavesAdjust(r, i, a, msgs) ==
  \E id \in Id, d \in Int :
    /\ CanAdjust(work[r][i], d)
    /\ a = Adjust(work[r][i], id, d)
    /\ [type |-> "StockAdjusted", item |-> i, id |-> id, amount |-> d, by |-> r] \in msgs

SavesRelease(r, i, a, msgs) ==
  \E S \in SUBSET work[r][i].reservations :
    /\ \E left \in Remaining(work[r][i], S) : a = Release(work[r][i], S, left)
    /\ msgs = ReleaseMessages(r, i, S)

Saves(r, i, a, msgs) ==
  /\ Save(r, i, a, msgs)
  /\ \/ SavesReserve(r, i, a, msgs)
     \/ SavesAdjust(r, i, a, msgs)
     \/ SavesRelease(r, i, a, msgs)

\* A request that has saved has finished, or starts on its next line or item.
Proceeds(r) ==
  /\ \E p \in Phases \ {"row", "reservations"} : phase' = [phase EXCEPT ![r] = p]
  /\ cmd' \in [Requests -> Command]
  /\ opening' = opening

SaveStep(r) == \/ SaveAdjusted(r) \/ SaveReserved(r)
               \/ SaveReleased(r) \/ SaveReleasedForOrder(r)

SavesSomething(r) ==
  /\ \E i \in Items, a \in Aggregate, msgs \in SUBSET Message : Saves(r, i, a, msgs)
  /\ Proceeds(r)

LEMMA SaveAdjustedSaves ==
  ASSUME TypeInv, NEW r \in Requests, SaveAdjusted(r)
  PROVE  SavesSomething(r)
<1>. DEFINE i == cmd[r].item
            d == cmd[r].delta
            about(type, n) == [type |-> type, item |-> i, id |-> <<r, 0>>,
                               amount |-> n, by |-> r]
            a == Adjust(work[r][i], <<r, 0>>, d)
            msgs == {about("StockAdjusted", d)} \cup
                    {about("StockDepleted", 0) : x \in {0} \cap {a.onHand}}
<1>1. i \in Items /\ d \in Int /\ work[r][i] \in Aggregate /\ <<r, 0>> \in Id
  BY CommandFields DEF SaveAdjusted, TypeInv, TypeOK, Id
<1>2. a \in Aggregate
  BY <1>1, AdjustType DEF SaveAdjusted
<1>3. msgs \in SUBSET Message
  BY <1>1 DEF Message
<1>4. Save(r, i, a, msgs) /\ SavesAdjust(r, i, a, msgs)
  BY <1>1 DEF SaveAdjusted, SavesAdjust
<1>5. Proceeds(r)
  BY DEF SaveAdjusted, Finish, Proceeds, Phases, TypeInv, TypeOK
<1>. HIDE DEF i, a, msgs
<1>. QED
  BY <1>1, <1>2, <1>3, <1>4, <1>5 DEF SavesSomething, Saves

LEMMA SaveReservedSaves ==
  ASSUME TypeInv, NEW r \in Requests, SaveReserved(r)
  PROVE  SavesSomething(r)
<1>. DEFINE line == Head(cmd[r].lines)
            rest == Tail(cmd[r].lines)
            id == <<r, Len(cmd[r].lines)>>
            i == line.item
            a == Reserve(work[r][i], id, cmd[r].order, line.quantity)
            msgs == {[type |-> "StockReserved", item |-> i, id |-> id,
                      amount |-> line.quantity, by |-> r]}
<1>1. cmd[r] \in ReserveCommand /\ work[r] \in [Items -> Aggregate]
  BY CommandFields DEF SaveReserved, TypeInv, TypeOK
<1>2. /\ i \in Items /\ line.quantity \in Nat /\ cmd[r].order \in Orders
      /\ Len(cmd[r].lines) \in Nat
      /\ rest # << >> => [cmd[r] EXCEPT !.lines = rest] \in ReserveCommand
  BY <1>1, LineFields
<1>3. a \in Aggregate
  BY <1>1, <1>2, ReserveType DEF Id
<1>4. msgs \in SUBSET Message
  BY <1>2 DEF Message, Id
<1>5. Save(r, i, a, msgs) /\ SavesReserve(r, i, a, msgs)
  BY <1>2 DEF SaveReserved, SavesReserve, Id
<1>6. cmd' \in [Requests -> Command]
  <2>1. cmd \in [Requests -> Command] /\ ReserveCommand \subseteq Command
    BY DEF TypeInv, TypeOK, Command
  <2>2. \/ cmd' = cmd
        \/ rest # << >> /\ cmd' = [cmd EXCEPT ![r] = [cmd[r] EXCEPT !.lines = rest]]
    BY DEF SaveReserved
  <2>. HIDE DEF rest
  <2>. QED
    BY <1>2, <2>1, <2>2
<1>7. Proceeds(r)
  BY <1>6 DEF SaveReserved, Finish, Proceeds, Phases
<1>. HIDE DEF i, a, msgs
<1>. QED
  BY <1>2, <1>3, <1>4, <1>5, <1>7 DEF SavesSomething, Saves

LEMMA ReleaseMessagesType ==
  ASSUME NEW r \in Requests, NEW i \in Items, NEW S \in SUBSET Reservation
  PROVE  ReleaseMessages(r, i, S) \in SUBSET Message
  BY DEF ReleaseMessages, Message, Reservation

\* Both releases come down to one save that releases some reservations of the item.
LEMMA ReleaseSaves ==
  ASSUME TypeInv, NEW r \in Requests, NEW i \in Items,
         NEW S \in SUBSET work[r][i].reservations, NEW left \in Remaining(work[r][i], S),
         Save(r, i, Release(work[r][i], S, left), ReleaseMessages(r, i, S)), Proceeds(r)
  PROVE  SavesSomething(r)
<1>1. work[r][i] \in Aggregate
  BY DEF TypeInv, TypeOK
<1>2. S \in SUBSET Reservation
  BY <1>1, FieldTypes
<1>3. /\ Release(work[r][i], S, left) \in Aggregate
      /\ ReleaseMessages(r, i, S) \in SUBSET Message
  BY <1>1, <1>2, ReleaseType, ReleaseMessagesType
<1>. QED
  BY <1>3 DEF SavesSomething, Saves, SavesRelease

LEMMA SaveReleasedSaves ==
  ASSUME TypeInv, NEW r \in Requests, SaveReleased(r)
  PROVE  SavesSomething(r)
<1>. DEFINE i == cmd[r].item
            S == OfReservation(work[r][i], cmd[r].reservation)
<1>1. i \in Items /\ S \in SUBSET work[r][i].reservations
  BY CommandFields DEF SaveReleased, TypeInv, TypeOK, OfReservation, Active
<1>2. PICK left \in Remaining(work[r][i], S) :
        Save(r, i, Release(work[r][i], S, left), ReleaseMessages(r, i, S))
  BY DEF SaveReleased
<1>3. Proceeds(r)
  BY DEF SaveReleased, Finish, Proceeds, Phases, TypeInv, TypeOK
<1>. HIDE DEF i, S
<1>. QED
  BY <1>1, <1>2, <1>3, ReleaseSaves

LEMMA SaveReleasedForOrderSaves ==
  ASSUME TypeInv, NEW r \in Requests, SaveReleasedForOrder(r)
  PROVE  SavesSomething(r)
<1>1. PICK i \in target[r] :
        LET S == OfOrder(work[r][i], cmd[r].order) IN
        /\ \E left \in Remaining(work[r][i], S) :
             Save(r, i, Release(work[r][i], S, left), ReleaseMessages(r, i, S))
        /\ IF target[r] = {i} THEN Finish(r) ELSE UNCHANGED phase
  BY DEF SaveReleasedForOrder
<1>. DEFINE S == OfOrder(work[r][i], cmd[r].order)
<1>2. i \in Items /\ S \in SUBSET work[r][i].reservations
  BY DEF TypeInv, TypeOK, OfOrder, Active
<1>3. PICK left \in Remaining(work[r][i], S) :
        Save(r, i, Release(work[r][i], S, left), ReleaseMessages(r, i, S))
  BY <1>1
<1>4. Proceeds(r)
  BY <1>1 DEF SaveReleasedForOrder, Finish, Proceeds, Phases, TypeInv, TypeOK
<1>. HIDE DEF S
<1>. QED
  BY <1>2, <1>3, <1>4, ReleaseSaves

LEMMA EverySaveSaves ==
  ASSUME TypeInv, NEW r \in Requests, SaveStep(r)
  PROVE  SavesSomething(r)
  BY SaveAdjustedSaves, SaveReservedSaves, SaveReleasedSaves, SaveReleasedForOrderSaves
     DEF SaveStep

\* A save of a well-typed aggregate keeps the types, whatever its request does next.
LEMMA SaveKeepsType ==
  ASSUME TypeInv, NEW r \in Requests, SavesSomething(r)
  PROVE  TypeInv'
<1>. USE DEF TypeInv, TypeOK
<1>0. PICK i \in Items, a \in Aggregate, msgs \in SUBSET Message : Save(r, i, a, msgs)
  BY DEF SavesSomething, Saves
<1>1. items' \in [Items -> Aggregate \cup {NoItem}] /\ \A j \in Items : Stored(j) => Stored(j)'
  BY <1>0, NoItemAssumption DEF Save, Stored
<1>2. outbox' \subseteq Message
  BY <1>0 DEF Save, Note
<1>3. work' \in [Requests -> [Items -> Aggregate]]
  BY <1>0, NewItemType DEF Save
<1>4. target' \in [Requests -> SUBSET Items] /\ \A q \in Requests : target'[q] \subseteq target[q]
  BY <1>0 DEF Save
<1>5. overwrote' \in BOOLEAN
  BY <1>0 DEF Save
<1>6. phase' \in [Requests -> Phases]
  BY DEF SavesSomething, Proceeds
<1>7. RowsStay'
  BY <1>1, <1>4 DEF RowsStay, SavesSomething, Proceeds
<1>. QED
  BY <1>1, <1>2, <1>3, <1>4, <1>5, <1>6, <1>7 DEF SavesSomething, Proceeds

LEMMA TypeStep == TypeInv /\ [Next]_vars => TypeInv'
<1>. SUFFICES ASSUME TypeInv, [Next]_vars PROVE TypeInv'
  OBVIOUS
<1>1. CASE UNCHANGED vars
  BY <1>1 DEF vars, TypeInv, TypeOK, RowsStay, Stored
<1>2. CASE Next
  BY <1>2, ReadKeepsType, FailKeepsType, SaveCreatedKeepsType, EverySaveSaves, SaveKeepsType
     DEF Next, SaveStep
<1>. QED
  BY <1>1, <1>2

\* Every reachable state of the inventory is well typed; in particular no stored
\* or loaded count is ever negative (Quantity.create and the guards of the
\* aggregate), for any number of concurrent commands.
THEOREM TypeCorrect == Spec => []TypeOK
<1>1. TypeInv => TypeOK
  BY DEF TypeInv
<1>. QED
  BY <1>1, TypeInit, TypeStep, PTL DEF Spec

-----------------------------------------------------------------------------
(* Reserved within on hand. *)

Fits(a) == a.reserved <= a.onHand

FitInv ==
  NothingTaken => /\ \A i \in Items : Stored(i) => Fits(items[i])
                  /\ \A r \in Requests, i \in Items : Fits(work[r][i])

LEMMA NewItemFits == \A n \in Nat : Fits(NewItem(n))
  BY DEF NewItem, Fits

LEMMA FitInit == Init => FitInv
<1>. SUFFICES ASSUME Init PROVE FitInv
  OBVIOUS
<1>1. \A i \in Items : Stored(i) => Fits(items[i])
  BY NewItemFits, OpeningsAssumption, MaxInt4Assumption DEF Init, Stored
<1>2. \A r \in Requests, i \in Items : Fits(work[r][i])
  BY NewItemFits DEF Init, Unloaded
<1>. QED
  BY <1>1, <1>2 DEF FitInv

\* The messages only grow, so what was taken stays taken.
LEMMA SaveKeepsFit ==
  ASSUME TypeInv, FitInv, NEW r \in Requests, NEW i \in Items, NEW a \in Aggregate,
         NEW msgs, Save(r, i, a, msgs), NothingTaken' => Fits(a)
  PROVE  FitInv'
<1>. SUFFICES ASSUME NothingTaken'
              PROVE  /\ \A j \in Items : Stored(j)' => Fits(items'[j])
                     /\ \A q \in Requests, j \in Items : Fits(work'[q][j])
  BY DEF FitInv, Fits
<1>1. NothingTaken
  BY DEF Save, Note, NothingTaken
<1>2. \A j \in Items : Stored(j)' => Fits(items'[j])
  BY <1>1 DEF Save, FitInv, Stored, TypeInv, TypeOK
<1>3. \A q \in Requests, j \in Items : Fits(work'[q][j])
  BY <1>1, NewItemFits DEF Save, FitInv, TypeInv, TypeOK
<1>. QED
  BY <1>2, <1>3

\* A loaded item carries the counts of the row it was read from.
LEMMA ReadKeepsFit ==
  ASSUME TypeInv, FitInv, NEW r \in Requests,
         \/ SelectRows(r) \/ SelectReservations(r) \/ SelectAdjustments(r)
         \/ SelectNothing(r) \/ Fail(r)
  PROVE  FitInv'
<1>. SUFFICES ASSUME NothingTaken
              PROVE  \A q \in Requests, j \in Items : Fits(work'[q][j])
  <2>1. UNCHANGED <<items, outbox>>
    BY DEF SelectRows, SelectReservations, SelectAdjustments, SelectNothing, Fail
  <2>. QED
    BY <2>1 DEF FitInv, NothingTaken, Stored, Fits
<1>1. /\ \A j \in Items : Stored(j) => Fits(items[j]) /\ items[j] \in Aggregate
      /\ \A q \in Requests, j \in Items : Fits(work[q][j]) /\ work[q][j] \in Aggregate
  BY StoredType DEF FitInv, TypeInv, TypeOK
<1>2. CASE SelectRows(r)
  <2>1. \A j \in Items : Stored(j) =>
          Fits([items[j] EXCEPT !.reservations = {}, !.adjustments = {}])
    BY <1>1 DEF Fits, Aggregate
  <2>2. \A j \in Selected(cmd[r]) : j \in Items => Stored(j)
    BY <1>2 DEF Selected, SelectRows, TypeInv, TypeOK, Command, CreateCommand, AdjustCommand,
                ReserveCommand, ReleaseCommand, ReleaseOrderCommand
  <2>. QED
    BY <1>1, <1>2, <2>1, <2>2, NewItemFits DEF SelectRows, TypeInv, TypeOK
<1>3. CASE SelectReservations(r)
  <2>1. \A j \in Items : Fits([work[r][j] EXCEPT !.reservations = items[j].reservations])
    BY <1>1 DEF Fits, Aggregate
  <2>. QED
    BY <1>1, <1>3, <2>1 DEF SelectReservations, TypeInv, TypeOK
<1>4. CASE SelectAdjustments(r)
  <2>1. \A j \in Items : Fits([work[r][j] EXCEPT !.adjustments = items[j].adjustments])
    BY <1>1 DEF Fits, Aggregate
  <2>. QED
    BY <1>1, <1>4, <2>1 DEF SelectAdjustments, TypeInv, TypeOK
<1>5. CASE SelectNothing(r)
  <2>1. cmd[r].onHand \in Nat
    BY <1>5, CommandFields DEF SelectNothing, TypeInv, TypeOK
  <2>. QED
    BY <1>1, <1>5, <2>1, NewItemFits DEF SelectNothing, TypeInv, TypeOK
<1>6. CASE Fail(r)
  BY <1>1, <1>6, NewItemFits DEF Fail, Unloaded, TypeInv, TypeOK
<1>. QED
  BY <1>2, <1>3, <1>4, <1>5, <1>6

LEMMA SavedFits ==
  ASSUME TypeInv, FitInv, NEW r \in Requests, NEW i \in Items, NEW a \in Aggregate,
         NEW msgs \in SUBSET Message, Saves(r, i, a, msgs), NothingTaken'
  PROVE  Fits(a)
<1>. DEFINE w == work[r][i]
<1>1. w \in Aggregate
  BY DEF TypeInv, TypeOK
<1>2. outbox' = outbox \cup msgs
  BY DEF Saves, Save, Note
<1>3. Fits(w)
  BY <1>2 DEF FitInv, NothingTaken
<1>. HIDE DEF w
<1>4. w.onHand \in Nat /\ w.reserved \in Nat
  BY <1>1, FieldTypes
<1>5. CASE SavesReserve(r, i, a, msgs)
  <2>1. PICK id \in Id, o \in Orders, n \in Nat : CanReserve(w, n) /\ a = Reserve(w, id, o, n)
    BY <1>5 DEF SavesReserve, w
  <2>2. a.onHand = w.onHand /\ a.reserved = w.reserved + n
    BY <1>1, <2>1 DEF Reserve, Aggregate
  <2>. QED
    BY <1>4, <2>1, <2>2 DEF CanReserve, Available, Fits
<1>6. CASE SavesAdjust(r, i, a, msgs)
  <2>1. PICK id \in Id, d \in Int :
          /\ a = Adjust(w, id, d)
          /\ [type |-> "StockAdjusted", item |-> i, id |-> id, amount |-> d, by |-> r] \in msgs
    BY <1>6 DEF SavesAdjust, w
  <2>2. d > 0
    BY <1>2, <2>1 DEF NothingTaken
  <2>3. a.onHand = w.onHand + d /\ a.reserved = w.reserved
    BY <1>1, <2>1 DEF Adjust, Aggregate
  <2>. QED
    BY <1>3, <1>4, <2>2, <2>3 DEF Fits
<1>7. CASE SavesRelease(r, i, a, msgs)
  <2>1. PICK S \in SUBSET w.reservations :
          \E left \in Remaining(w, S) : a = Release(w, S, left)
    BY <1>7 DEF SavesRelease, w
  <2>. PICK left \in Remaining(w, S) : a = Release(w, S, left)
    BY <2>1
  <2>2. left \in Nat /\ left <= w.reserved
    BY <1>1, ReleaseType
  <2>3. a.onHand = w.onHand /\ a.reserved = left
    BY <1>1, <2>1 DEF Release, Aggregate
  <2>. QED
    BY <1>3, <1>4, <2>2, <2>3 DEF Fits
<1>. QED
  BY <1>5, <1>6, <1>7 DEF Saves

LEMMA CreateKeepsFit ==
  ASSUME TypeInv, FitInv, NEW r \in Requests, SaveCreated(r)
  PROVE  FitInv'
<1>1. NothingTaken' => NothingTaken
  BY DEF SaveCreated, NothingTaken
<1>2. cmd[r].item \in Items
  BY CommandFields DEF SaveCreated, TypeInv, TypeOK
<1>. QED
  BY <1>1, <1>2, NewItemFits DEF SaveCreated, FitInv, Stored, Fits, TypeInv, TypeOK

LEMMA FitStep == TypeInv /\ FitInv /\ [Next]_vars => FitInv'
<1>. SUFFICES ASSUME TypeInv, FitInv, [Next]_vars PROVE FitInv'
  OBVIOUS
<1>1. CASE UNCHANGED vars
  BY <1>1 DEF vars, FitInv, NothingTaken, Stored, Fits
<1>2. ASSUME NEW r \in Requests, SaveStep(r)
      PROVE  FitInv'
  BY <1>2, EverySaveSaves, SavedFits, SaveKeepsFit DEF SavesSomething, Saves
<1>3. CASE Next
  BY <1>2, <1>3, ReadKeepsFit, CreateKeepsFit DEF Next, SaveStep
<1>. QED
  BY <1>1, <1>3

\* Unless an adjustment takes stock away, no stored row ever has more reserved than
\* on hand, however many requests load, decide and overwrite each other.
THEOREM ReservedStaysWithinOnHand == Spec => []ReservedWithinOnHand
<1>1. FitInv => ReservedWithinOnHand
  BY DEF FitInv, ReservedWithinOnHand, Fits
<1>. QED
  BY <1>1, TypeInit, TypeStep, FitInit, FitStep, PTL DEF Spec

-----------------------------------------------------------------------------
(* Every reservation is announced. *)

AnnouncedInv ==
  /\ ReservationsAnnounced
  /\ \A r \in Requests, i \in Items : \A v \in work[r][i].reservations : Announced(i, v)

\* Messages are never taken back.
LEMMA StaysAnnounced ==
  ASSUME outbox \subseteq outbox', NEW i, NEW v, Announced(i, v)
  PROVE  Announced(i, v)'
  BY DEF Announced

LEMMA AnnouncedInit == Init => AnnouncedInv
  BY DEF Init, AnnouncedInv, ReservationsAnnounced, Unloaded, NewItem, Stored

LEMMA ReadKeepsAnnounced ==
  ASSUME TypeInv, AnnouncedInv, NEW r \in Requests,
         \/ SelectRows(r) \/ SelectReservations(r) \/ SelectAdjustments(r)
         \/ SelectNothing(r) \/ Fail(r)
  PROVE  AnnouncedInv'
<1>1. UNCHANGED <<items, outbox>>
  BY DEF SelectRows, SelectReservations, SelectAdjustments, SelectNothing, Fail
<1>2. \A i \in Items : \A v : Announced(i, v) => Announced(i, v)'
  BY <1>1 DEF Announced
<1>3. ReservationsAnnounced'
  BY <1>1, <1>2 DEF AnnouncedInv, ReservationsAnnounced, Stored
<1>4. ASSUME NEW q \in Requests, NEW i \in Items
      PROVE  \/ work'[q][i].reservations \subseteq work[q][i].reservations
             \/ Stored(i) /\ work'[q][i].reservations = items[i].reservations
  <2>1. work[q][i] \in Aggregate /\ (Stored(i) => items[i] \in Aggregate)
    BY StoredType DEF TypeInv, TypeOK
  <2>2. NewItem(0).reservations = {} /\ \A n : NewItem(n).reservations = {}
    BY DEF NewItem
  <2>3. CASE SelectRows(r)
    <3>1. i \in Selected(cmd[r]) => Stored(i)
      BY <2>3 DEF Selected, SelectRows, TypeInv, TypeOK, Command, CreateCommand,
                  AdjustCommand, ReserveCommand, ReleaseCommand, ReleaseOrderCommand
    <3>2. Stored(i) =>
            [items[i] EXCEPT !.reservations = {}, !.adjustments = {}].reservations = {}
      BY <2>1 DEF Aggregate
    <3>. QED
      BY <2>2, <2>3, <3>1, <3>2 DEF SelectRows, TypeInv, TypeOK
  <2>4. CASE SelectReservations(r)
    <3>1. i \in target[r] => Stored(i)
      BY <2>4 DEF SelectReservations, TypeInv, RowsStay
    <3>2. [work[q][i] EXCEPT !.reservations = items[i].reservations].reservations
            = items[i].reservations
      BY <2>1 DEF Aggregate
    <3>. QED
      BY <2>4, <3>1, <3>2 DEF SelectReservations, TypeInv, TypeOK
  <2>5. CASE SelectAdjustments(r)
    <3>1. [work[q][i] EXCEPT !.adjustments = items[i].adjustments].reservations
            = work[q][i].reservations
      BY <2>1 DEF Aggregate
    <3>. QED
      BY <2>5, <3>1 DEF SelectAdjustments, TypeInv, TypeOK
  <2>6. CASE SelectNothing(r)
    BY <2>2, <2>6 DEF SelectNothing, TypeInv, TypeOK
  <2>7. CASE Fail(r)
    BY <2>2, <2>7 DEF Fail, Unloaded, TypeInv, TypeOK
  <2>. QED
    BY <2>3, <2>4, <2>5, <2>6, <2>7
<1>5. \A q \in Requests, i \in Items : \A v \in work'[q][i].reservations : Announced(i, v)'
  BY <1>2, <1>4 DEF AnnouncedInv, ReservationsAnnounced
<1>. QED
  BY <1>3, <1>5 DEF AnnouncedInv

LEMMA SavedIsAnnounced ==
  ASSUME TypeInv, AnnouncedInv, NEW r \in Requests, NEW i \in Items, NEW a \in Aggregate,
         NEW msgs \in SUBSET Message, Saves(r, i, a, msgs)
  PROVE  \A v \in a.reservations : Announced(i, v)'
<1>. DEFINE w == work[r][i]
<1>1. w \in Aggregate /\ \A v \in w.reservations : Announced(i, v) /\ v \in Reservation
  BY FieldTypes DEF TypeInv, TypeOK, AnnouncedInv
<1>2. outbox' = outbox \cup msgs
  BY DEF Saves, Save, Note
<1>3. \A v : Announced(i, v) => Announced(i, v)'
  BY <1>2, StaysAnnounced
<1>. HIDE DEF w
<1>4. CASE SavesReserve(r, i, a, msgs)
  <2>1. PICK id \in Id, o \in Orders, n \in Nat :
          /\ a = Reserve(w, id, o, n)
          /\ [type |-> "StockReserved", item |-> i, id |-> id, amount |-> n, by |-> r] \in msgs
    BY <1>4 DEF SavesReserve, w
  <2>. DEFINE v == [id |-> id, order |-> o, quantity |-> n, active |-> TRUE]
  <2>2. Announced(i, v)'
    BY <1>2, <2>1 DEF Announced
  <2>. HIDE DEF v
  <2>3. a.reservations = w.reservations \cup {v}
    BY <1>1, <2>1 DEF Reserve, Aggregate, v
  <2>. QED
    BY <1>1, <1>3, <2>2, <2>3
<1>5. CASE SavesAdjust(r, i, a, msgs)
  <2>1. a.reservations = w.reservations
    BY <1>1, <1>5 DEF SavesAdjust, Adjust, Aggregate, w
  <2>. QED
    BY <1>1, <1>3, <2>1
<1>6. CASE SavesRelease(r, i, a, msgs)
  <2>1. PICK S \in SUBSET w.reservations :
          /\ \E left \in Remaining(w, S) : a = Release(w, S, left)
          /\ msgs = ReleaseMessages(r, i, S)
    BY <1>6 DEF SavesRelease, w
  <2>2. a.reservations = (w.reservations \ S) \cup {[v EXCEPT !.active = FALSE] : v \in S}
    BY <1>1, <2>1 DEF Release, Aggregate
  <2>3. ASSUME NEW v \in S
        PROVE  Announced(i, [v EXCEPT !.active = FALSE])'
    <3>1. Announced(i, v) /\ v \in Reservation
      BY <1>1
    <3>. DEFINE x == [v EXCEPT !.active = FALSE]
    <3>2. x.id = v.id /\ x.quantity = v.quantity
      BY <3>1 DEF Reservation
    <3>. HIDE DEF x
    <3>3. \E m \in outbox' : /\ m.type = "StockReserved" /\ m.item = i
                             /\ m.id = x.id /\ m.amount = x.quantity
      BY <1>2, <3>1, <3>2 DEF Announced
    <3>4. [type |-> "StockReservationReleased", item |-> i, id |-> v.id,
           amount |-> 0, by |-> r] \in outbox'
      BY <1>2, <2>1 DEF ReleaseMessages
    <3>. QED
      BY <3>2, <3>3, <3>4 DEF Announced, x
  <2>. QED
    BY <1>1, <1>3, <2>2, <2>3
<1>. QED
  BY <1>4, <1>5, <1>6 DEF Saves

LEMMA SaveKeepsAnnounced ==
  ASSUME TypeInv, AnnouncedInv, NEW r \in Requests, SaveStep(r)
  PROVE  AnnouncedInv'
<1>1. PICK i \in Items, a \in Aggregate, msgs \in SUBSET Message : Saves(r, i, a, msgs)
  BY EverySaveSaves DEF SavesSomething
<1>2. \A v \in a.reservations : Announced(i, v)'
  BY <1>1, SavedIsAnnounced
<1>3. \A j \in Items : \A v : Announced(j, v) => Announced(j, v)'
  BY <1>1, StaysAnnounced DEF Saves, Save, Note
<1>4. \A j \in Items : Stored(j)' => \/ items'[j] = a /\ j = i
                                     \/ Stored(j) /\ items'[j] = items[j]
  BY <1>1 DEF Saves, Save, Stored, TypeInv, TypeOK
<1>5. \A q \in Requests, j \in Items : work'[q][j] = work[q][j] \/ work'[q][j] = NewItem(0)
  BY <1>1 DEF Saves, Save, TypeInv, TypeOK
<1>6. NewItem(0).reservations = {}
  BY DEF NewItem
<1>7. ReservationsAnnounced'
  BY <1>2, <1>3, <1>4 DEF ReservationsAnnounced, AnnouncedInv
<1>8. \A q \in Requests, j \in Items : \A v \in work'[q][j].reservations : Announced(j, v)'
  BY <1>3, <1>5, <1>6 DEF AnnouncedInv
<1>. QED
  BY <1>7, <1>8 DEF AnnouncedInv

LEMMA CreateKeepsAnnounced ==
  ASSUME TypeInv, AnnouncedInv, NEW r \in Requests, SaveCreated(r)
  PROVE  AnnouncedInv'
<1>1. cmd[r].item \in Items
  BY CommandFields DEF SaveCreated, TypeInv, TypeOK
<1>2. \A j \in Items : \A v : Announced(j, v) => Announced(j, v)'
  BY StaysAnnounced DEF SaveCreated
<1>3. \A j \in Items : Stored(j)' => \/ items'[j] = work[r][j]
                                     \/ Stored(j) /\ items'[j] = items[j]
  BY <1>1 DEF SaveCreated, Stored, TypeInv, TypeOK
<1>4. \A q \in Requests, j \in Items : work'[q][j] = work[q][j] \/ work'[q][j] = NewItem(0)
  BY <1>1 DEF SaveCreated, TypeInv, TypeOK
<1>5. NewItem(0).reservations = {}
  BY DEF NewItem
<1>6. ReservationsAnnounced'
  BY <1>2, <1>3 DEF ReservationsAnnounced, AnnouncedInv
<1>7. \A q \in Requests, j \in Items : \A v \in work'[q][j].reservations : Announced(j, v)'
  BY <1>2, <1>4, <1>5 DEF AnnouncedInv
<1>. QED
  BY <1>6, <1>7 DEF AnnouncedInv

LEMMA AnnouncedStep == TypeInv /\ AnnouncedInv /\ [Next]_vars => AnnouncedInv'
<1>. SUFFICES ASSUME TypeInv, AnnouncedInv, [Next]_vars PROVE AnnouncedInv'
  OBVIOUS
<1>1. CASE UNCHANGED vars
  BY <1>1 DEF vars, AnnouncedInv, ReservationsAnnounced, Announced, Stored
<1>2. CASE Next
  BY <1>2, ReadKeepsAnnounced, SaveKeepsAnnounced, CreateKeepsAnnounced DEF Next, SaveStep
<1>. QED
  BY <1>1, <1>2

\* No reservation reaches the database, and none is released there, without the
\* outbox message that says so, through all overwrites and torn loads.
THEOREM ReservationsStayAnnounced == Spec => []ReservationsAnnounced
<1>1. AnnouncedInv => ReservationsAnnounced
  BY DEF AnnouncedInv
<1>. QED
  BY <1>1, TypeInit, TypeStep, AnnouncedInit, AnnouncedStep, PTL DEF Spec

-----------------------------------------------------------------------------
(* Sums.  MapThenSumSet is recursive.  The induction is over the finite     *)
(* sets, ordered by inclusion: a set of sets has a smallest member, so a    *)
(* statement is proved by looking at the smallest set that refutes it.      *)

LEMMA SmallestSet ==
  ASSUME NEW S, IsFiniteSet(S), NEW T \in SUBSET SUBSET S, T # {}
  PROVE  \E x \in T : \A y \in T : y \subseteq x => y = x
<1>1. IsWellFoundedOn(StrictSubsetOrdering(S), FiniteSubsetsOf(S))
  BY FS_StrictSubsetOrderingWellFounded
<1>2. T \subseteq FiniteSubsetsOf(S)
  BY FS_FiniteSubsetsOfFinite
<1>3. PICK x \in T : \A y \in T : <<y, x>> \notin StrictSubsetOrdering(S)
  <2>. HIDE DEF StrictSubsetOrdering, FiniteSubsetsOf
  <2>. QED
    BY <1>1, <1>2, WFMin
<1>. QED
  BY <1>3 DEF StrictSubsetOrdering

First(s) == CHOOSE x \in s : TRUE

\* h is what MapThenSumSet computes for the weights w, on every subset of S.
IsSum(h, S, w) ==
  h = [s \in SUBSET S |-> IF s = {} THEN 0 ELSE w[First(s)] + h[s \ {First(s)}]]

LEMMA FirstIsIn == \A s : s # {} => First(s) \in s
  BY DEF First

LEMMA SumStep ==
  ASSUME NEW S, NEW w, NEW h, IsSum(h, S, w), NEW s \in SUBSET S
  PROVE  h[s] = IF s = {} THEN 0 ELSE w[First(s)] + h[s \ {First(s)}]
  BY DEF IsSum

\* Two sums agree on the sets that both are about.
LEMMA SumsAgree ==
  ASSUME NEW S, NEW T, NEW w, NEW z, NEW g, NEW h, IsFiniteSet(S),
         IsSum(g, S, w), IsSum(h, T, z), \A x \in S \cap T : w[x] = z[x],
         NEW s \in SUBSET (S \cap T)
  PROVE  g[s] = h[s]
<1>. DEFINE Bad == {t \in SUBSET (S \cap T) : g[t] # h[t]}
<1>. SUFFICES ASSUME Bad # {} PROVE FALSE
  OBVIOUS
<1>1. PICK t \in Bad : \A u \in Bad : u \subseteq t => u = t
  <2>1. IsFiniteSet(S \cap T)
    BY FS_Intersection
  <2>2. Bad \in SUBSET SUBSET (S \cap T)
    OBVIOUS
  <2>. HIDE DEF Bad
  <2>. QED
    BY <2>1, <2>2, SmallestSet
<1>2. t \in SUBSET S
  OBVIOUS
<1>3. t \in SUBSET T
  OBVIOUS
<1>4. /\ g[t] = IF t = {} THEN 0 ELSE w[First(t)] + g[t \ {First(t)}]
      /\ h[t] = IF t = {} THEN 0 ELSE z[First(t)] + h[t \ {First(t)}]
  <2>. HIDE DEF Bad
  <2>1. g[t] = IF t = {} THEN 0 ELSE w[First(t)] + g[t \ {First(t)}]
    BY <1>2, SumStep
  <2>2. h[t] = IF t = {} THEN 0 ELSE z[First(t)] + h[t \ {First(t)}]
    BY <1>3, SumStep
  <2>. QED
    BY <2>1, <2>2
<1>5. t # {}
  BY <1>4
<1>6. First(t) \in t
  BY <1>5, FirstIsIn
<1>7. t \ {First(t)} \notin Bad
  BY <1>1, <1>6
<1>. QED
  BY <1>2, <1>4, <1>5, <1>6, <1>7

LEMMA SumType ==
  ASSUME NEW S, NEW w, NEW h, IsFiniteSet(S), w \in [S -> Int], IsSum(h, S, w),
         NEW s \in SUBSET S
  PROVE  h[s] \in Int
<1>. DEFINE Bad == {t \in SUBSET S : h[t] \notin Int}
<1>. SUFFICES ASSUME Bad # {} PROVE FALSE
  OBVIOUS
<1>1. PICK t \in Bad : \A u \in Bad : u \subseteq t => u = t
  <2>1. Bad \in SUBSET SUBSET S
    OBVIOUS
  <2>. HIDE DEF Bad
  <2>. QED
    BY <2>1, SmallestSet
<1>2. h[t] = IF t = {} THEN 0 ELSE w[First(t)] + h[t \ {First(t)}]
  BY SumStep
<1>3. t # {}
  BY <1>2
<1>4. First(t) \in t
  BY <1>3, FirstIsIn
<1>5. t \ {First(t)} \notin Bad
  BY <1>1, <1>4
<1>. QED
  BY <1>2, <1>3, <1>4, <1>5

\* Every finite set has a sum.
LEMMA SumExists ==
  ASSUME NEW S, NEW w, IsFiniteSet(S)
  PROVE  \E h : IsSum(h, S, w)
<1>. DEFINE Bad == {t \in SUBSET S : ~\E h : IsSum(h, t, w)}
<1>. SUFFICES ASSUME Bad # {} PROVE FALSE
  OBVIOUS
<1>1. PICK t \in Bad : \A u \in Bad : u \subseteq t => u = t
  <2>1. Bad \in SUBSET SUBSET S
    OBVIOUS
  <2>. HIDE DEF Bad
  <2>. QED
    BY <2>1, SmallestSet
<1>2. t \in SUBSET S /\ ~\E h : IsSum(h, t, w)
  OBVIOUS
<1>. DEFINE Of(u) == CHOOSE h : IsSum(h, u, w)
            Rest(u) == u \ {First(u)}
            g == [u \in SUBSET t |-> IF u = {} THEN 0 ELSE w[First(u)] + Of(Rest(u))[Rest(u)]]
<1>3. ASSUME NEW u \in SUBSET t, u # {}
      PROVE  Rest(u) \in SUBSET t /\ Rest(u) # t /\ IsFiniteSet(Rest(u)) /\ IsSum(Of(Rest(u)), Rest(u), w)
  <2>1. Rest(u) \in SUBSET t /\ Rest(u) # t
    BY <1>3, FirstIsIn
  <2>2. \E h : IsSum(h, Rest(u), w)
    BY <1>1, <1>2, <2>1
  <2>3. IsFiniteSet(Rest(u))
    BY <1>2, <2>1, FS_Subset
  <2>. HIDE DEF Rest
  <2>. QED
    BY <2>1, <2>2, <2>3
<1>. HIDE DEF Bad
<1>4. ASSUME NEW u \in SUBSET t, u # {}
      PROVE  g[Rest(u)] = Of(Rest(u))[Rest(u)]
  <2>. DEFINE v == Rest(u)
  <2>1. v \in SUBSET t /\ IsFiniteSet(v) /\ IsSum(Of(v), v, w)
    BY <1>3, <1>4
  <2>2. Of(v)[v] = IF v = {} THEN 0 ELSE w[First(v)] + Of(v)[Rest(v)]
    <3>. HIDE DEF v, Of
    <3>. QED
      BY <2>1, SumStep
  <2>3. g[v] = IF v = {} THEN 0 ELSE w[First(v)] + Of(Rest(v))[Rest(v)]
    <3>. HIDE DEF v, Of
    <3>. QED
      BY <2>1
  <2>4. ASSUME v # {} PROVE Of(v)[Rest(v)] = Of(Rest(v))[Rest(v)]
    <3>. HIDE DEF v
    <3>1. IsSum(Of(Rest(v)), Rest(v), w)
      BY <1>3, <2>1, <2>4
    <3>2. Rest(v) \in SUBSET (v \cap Rest(v))
      OBVIOUS
    <3>. HIDE DEF Of, Rest
    <3>. QED
      BY <2>1, <3>1, <3>2, SumsAgree
  <2>. HIDE DEF v, Of, Rest, g
  <2>. QED
    BY <2>2, <2>3, <2>4 DEF v
<1>5. g = [u \in SUBSET t |-> IF u = {} THEN 0 ELSE w[First(u)] + g[Rest(u)]]
  <2>1. \A u \in SUBSET t : g[u] = IF u = {} THEN 0 ELSE w[First(u)] + g[Rest(u)]
    <3>1. \A u \in SUBSET t : g[u] = IF u = {} THEN 0 ELSE w[First(u)] + Of(Rest(u))[Rest(u)]
      <4>. HIDE DEF Of, Rest
      <4>. QED OBVIOUS
    <3>. HIDE DEF g, Of, Rest
    <3>. QED
      BY <1>4, <3>1
  <2>2. g = [u \in SUBSET t |-> g[u]]
    <3>. HIDE DEF Of, Rest
    <3>. QED OBVIOUS
  <2>. HIDE DEF g, Of, Rest
  <2>. QED
    BY <2>1, <2>2
<1>6. IsSum(g, t, w)
  <2>. HIDE DEF g
  <2>. QED
    BY <1>5 DEF IsSum
<1>. QED
  BY <1>2, <1>6

\* Any element may be taken out first.
LEMMA SumRemove ==
  ASSUME NEW S, NEW w, NEW h, IsFiniteSet(S), w \in [S -> Int], IsSum(h, S, w)
  PROVE  \A s \in SUBSET S : \A x \in s : h[s] = w[x] + h[s \ {x}]
<1>. DEFINE Bad == {t \in SUBSET S : \E x \in t : h[t] # w[x] + h[t \ {x}]}
<1>. SUFFICES ASSUME Bad # {} PROVE FALSE
  OBVIOUS
<1>1. PICK t \in Bad : \A u \in Bad : u \subseteq t => u = t
  <2>1. Bad \in SUBSET SUBSET S
    OBVIOUS
  <2>. HIDE DEF Bad
  <2>. QED
    BY <2>1, SmallestSet
<1>2. t \in SUBSET S
  OBVIOUS
<1>3. PICK x \in t : h[t] # w[x] + h[t \ {x}]
  OBVIOUS
<1>4. \A u \in SUBSET t : u # t => \A z \in u : h[u] = w[z] + h[u \ {z}]
  BY <1>1, <1>2
<1>. DEFINE y == First(t)
<1>. HIDE DEF Bad
<1>5. y \in t /\ h[t] = w[y] + h[t \ {y}]
  BY <1>2, SumStep, FirstIsIn
<1>. HIDE DEF y
<1>6. x # y
  BY <1>3, <1>5
<1>7. h[t \ {y}] = w[x] + h[(t \ {y}) \ {x}]
  BY <1>4, <1>5, <1>6
<1>8. h[t \ {x}] = w[y] + h[(t \ {x}) \ {y}]
  BY <1>4, <1>5, <1>6
<1>9. (t \ {x}) \ {y} = (t \ {y}) \ {x}
  OBVIOUS
<1>. DEFINE rest == h[(t \ {x}) \ {y}]
            a == w[x]
            b == w[y]
<1>10. a \in Int /\ b \in Int /\ rest \in Int
  BY <1>2, <1>5, SumType
<1>11. h[t] = b + (a + rest) /\ h[t \ {x}] = b + rest
  BY <1>5, <1>7, <1>8, <1>9
<1>12. h[t] # a + h[t \ {x}]
  BY <1>3
<1>. HIDE DEF rest, a, b
<1>. QED
  BY <1>10, <1>11, <1>12

\* The sum over a union of disjoint sets is the sum of the sums.
LEMMA SumUnion ==
  ASSUME NEW S, NEW w, NEW h, IsFiniteSet(S), w \in [S -> Int], IsSum(h, S, w),
         NEW s \in SUBSET S
  PROVE  \A t \in SUBSET (S \ s) : h[s \cup t] = h[s] + h[t]
<1>. DEFINE Bad == {t \in SUBSET (S \ s) : h[s \cup t] # h[s] + h[t]}
<1>. SUFFICES ASSUME Bad # {} PROVE FALSE
  OBVIOUS
<1>1. PICK t \in Bad : \A u \in Bad : u \subseteq t => u = t
  <2>1. Bad \in SUBSET SUBSET S
    OBVIOUS
  <2>. HIDE DEF Bad
  <2>. QED
    BY <2>1, SmallestSet
<1>2. t \in SUBSET (S \ s) /\ h[s \cup t] # h[s] + h[t]
  OBVIOUS
<1>3. \A u \in SUBSET t : u # t => h[s \cup u] = h[s] + h[u]
  BY <1>1, <1>2
<1>. HIDE DEF Bad
<1>4. /\ s \cup t \in SUBSET S /\ t \in SUBSET S /\ {} \in SUBSET S
      /\ h[s] \in Int /\ h[{}] = 0
  BY <1>2, SumStep, SumType
<1>5. CASE t = {}
  <2>1. s \cup t = s
    BY <1>5
  <2>. QED
    BY <1>2, <1>4, <1>5, <2>1
<1>6. CASE t # {}
  <2>1. PICK x \in t : TRUE
    BY <1>6
  <2>2. h[t] = w[x] + h[t \ {x}]
    BY <1>4, SumRemove
  <2>3. h[s \cup t] = w[x] + h[(s \cup t) \ {x}]
    BY <1>4, SumRemove
  <2>4. (s \cup t) \ {x} = s \cup (t \ {x})
    BY <1>2
  <2>5. h[s \cup (t \ {x})] = h[s] + h[t \ {x}]
    BY <1>3
  <2>. DEFINE a == w[x]
              b == h[t \ {x}]
              c == h[s]
  <2>6. a \in Int /\ b \in Int /\ c \in Int
    BY <1>2, SumType
  <2>7. h[t] = a + b /\ h[s \cup t] = a + (c + b)
    BY <2>2, <2>3, <2>4, <2>5
  <2>8. h[s \cup t] # c + h[t]
    BY <1>2
  <2>. HIDE DEF a, b, c
  <2>. QED
    BY <2>6, <2>7, <2>8
<1>. QED
  BY <1>5, <1>6


\* A sum over a part, made on its own.
LEMMA SumOfPart ==
  ASSUME NEW U, NEW S \in SUBSET U, NEW w, NEW y, NEW f, NEW h, IsFiniteSet(S),
         IsSum(h, U, w), IsSum(f, S, y), \A x \in S : y[x] = w[x]
  PROVE  f[S] = h[S]
<1>1. S \in SUBSET (S \cap U) /\ \A x \in S \cap U : y[x] = w[x]
  OBVIOUS
<1>. QED
  BY <1>1, SumsAgree

LEMMA SumOfOne ==
  ASSUME NEW x, NEW w \in [{x} -> Int], NEW h, IsSum(h, {x}, w)
  PROVE  h[{x}] = w[x]
<1>1. IsFiniteSet({x}) /\ w[x] \in Int
  BY FS_Singleton
<1>2. h[{x}] = w[x] + h[{x} \ {x}]
  BY <1>1, SumRemove
<1>3. {x} \ {x} = {} /\ {} \in SUBSET {x}
  OBVIOUS
<1>4. h[{x} \ {x}] = 0
  BY <1>3, SumStep
<1>. QED
  BY <1>1, <1>2, <1>4

\* What MapThenSumSet says of a set is such a sum.
LEMMA QuantityIsSum ==
  ASSUME NEW S, IsFiniteSet(S)
  PROVE  \E h : IsSum(h, S, [v \in S |-> v.quantity]) /\ TotalQuantity(S) = h[S]
<1>. DEFINE w == [v \in S |-> v.quantity]
            Iterates(h) == h = [s \in SUBSET S |->
                                  IF s = {} THEN 0
                                  ELSE LET x == CHOOSE x \in s : TRUE
                                       IN  x.quantity + h[s \ {x}]]
            g == CHOOSE h : Iterates(h)
<1>1. ASSUME NEW h PROVE IsSum(h, S, w) <=> Iterates(h)
  <2>1. \A s \in SUBSET S : s # {} => w[First(s)] = (CHOOSE x \in s : TRUE).quantity
    <3>1. \A s \in SUBSET S : s # {} => First(s) \in S /\ First(s) = CHOOSE x \in s : TRUE
      BY FirstIsIn DEF First
    <3>. QED
      BY <3>1
  <2>. HIDE DEF w
  <2>. QED
    BY <2>1 DEF IsSum, First
<1>. HIDE DEF w
<1>2. PICK h : IsSum(h, S, w)
  BY SumExists
<1>3. Iterates(g)
  <2>1. Iterates(h)
    BY <1>1, <1>2
  <2>. HIDE DEF Iterates
  <2>. QED
    BY <2>1
<1>4. TotalQuantity(S) = g[S]
  BY Zenon DEF TotalQuantity, MapThenSumSet, MapThenFoldSet
<1>. HIDE DEF Iterates, g
<1>. QED
  BY <1>1, <1>3, <1>4 DEF w

LEMMA QuantityType ==
  ASSUME NEW S, IsFiniteSet(S), \A v \in S : v.quantity \in Int
  PROVE  TotalQuantity(S) \in Int
<1>. DEFINE w == [v \in S |-> v.quantity]
<1>1. w \in [S -> Int]
  OBVIOUS
<1>2. PICK h : IsSum(h, S, w) /\ TotalQuantity(S) = h[S]
  BY QuantityIsSum
<1>3. S \in SUBSET S
  OBVIOUS
<1>. HIDE DEF w
<1>. QED
  BY <1>1, <1>2, <1>3, SumType

LEMMA QuantityOfUnion ==
  ASSUME NEW S, NEW T, IsFiniteSet(S), IsFiniteSet(T), S \cap T = {},
         \A v \in S \cup T : v.quantity \in Int
  PROVE  TotalQuantity(S \cup T) = TotalQuantity(S) + TotalQuantity(T)
<1>. DEFINE U == S \cup T
            W(A) == [v \in A |-> v.quantity]
<1>1. IsFiniteSet(U)
  BY FS_Union
<1>2. /\ W(U) \in [U -> Int]
      /\ \A x \in S : W(S)[x] = W(U)[x]
      /\ \A x \in T : W(T)[x] = W(U)[x]
  OBVIOUS
<1>3. PICK h : IsSum(h, U, W(U)) /\ TotalQuantity(U) = h[U]
  <2>. HIDE DEF U
  <2>. QED
    BY <1>1, QuantityIsSum
<1>4. PICK f : IsSum(f, S, W(S)) /\ TotalQuantity(S) = f[S]
  BY QuantityIsSum
<1>5. PICK g : IsSum(g, T, W(T)) /\ TotalQuantity(T) = g[T]
  BY QuantityIsSum
<1>6. U = S \cup T
  OBVIOUS
<1>. HIDE DEF U
<1>7. h[U] = f[S] + g[T]
  <2>. DEFINE w == W(U)
              y == W(S)
              z == W(T)
  <2>1. w \in [U -> Int]
    BY <1>2
  <2>2. \A x \in S : y[x] = w[x]
    BY <1>2
  <2>3. \A x \in T : z[x] = w[x]
    BY <1>2
  <2>4. IsSum(h, U, w)
    BY <1>3
  <2>5. IsSum(f, S, y)
    BY <1>4
  <2>6. IsSum(g, T, z)
    BY <1>5
  <2>7. S \in SUBSET U
    BY <1>6
  <2>8. T \in SUBSET U
    BY <1>6
  <2>9. T \in SUBSET (U \ S)
    BY <1>6
  <2>. HIDE DEF w, y, z, W
  <2>10. f[S] = h[S]
    BY <2>2, <2>4, <2>5, <2>7, SumOfPart
  <2>11. g[T] = h[T]
    BY <2>3, <2>4, <2>6, <2>8, SumOfPart
  <2>12. \A t \in SUBSET (U \ S) : h[S \cup t] = h[S] + h[t]
    BY <1>1, <2>1, <2>4, <2>7, SumUnion
  <2>. QED
    BY <1>6, <2>9, <2>10, <2>11, <2>12
<1>. HIDE DEF W
<1>. QED
  BY <1>3, <1>4, <1>5, <1>6, <1>7

LEMMA QuantityOfFew ==
  /\ TotalQuantity({}) = 0
  /\ \A v : v.quantity \in Int => TotalQuantity({v}) = v.quantity
<1>1. TotalQuantity({}) = 0
  <2>1. IsFiniteSet({})
    BY FS_EmptySet
  <2>2. PICK h : IsSum(h, {}, [v \in {} |-> v.quantity]) /\ TotalQuantity({}) = h[{}]
    BY <2>1, QuantityIsSum
  <2>3. {} \in SUBSET {}
    OBVIOUS
  <2>. QED
    BY <2>2, <2>3, SumStep
<1>2. ASSUME NEW v, v.quantity \in Int PROVE TotalQuantity({v}) = v.quantity
  <2>. DEFINE w == [x \in {v} |-> x.quantity]
  <2>1. IsFiniteSet({v})
    BY FS_Singleton
  <2>2. PICK h : IsSum(h, {v}, w) /\ TotalQuantity({v}) = h[{v}]
    BY <2>1, QuantityIsSum
  <2>3. w \in [{v} -> Int] /\ w[v] = v.quantity
    BY <1>2
  <2>. HIDE DEF w
  <2>. QED
    BY <2>2, <2>3, SumOfOne
<1>. QED
  BY <1>1, <1>2

TotalDelta(S) == MapThenSumSet(LAMBDA d : d.delta, S)

LEMMA DeltaIsSum ==
  ASSUME NEW S, IsFiniteSet(S)
  PROVE  \E h : IsSum(h, S, [v \in S |-> v.delta]) /\ TotalDelta(S) = h[S]
<1>. DEFINE w == [v \in S |-> v.delta]
            Iterates(h) == h = [s \in SUBSET S |->
                                  IF s = {} THEN 0
                                  ELSE LET x == CHOOSE x \in s : TRUE
                                       IN  x.delta + h[s \ {x}]]
            g == CHOOSE h : Iterates(h)
<1>1. ASSUME NEW h PROVE IsSum(h, S, w) <=> Iterates(h)
  <2>1. \A s \in SUBSET S : s # {} => w[First(s)] = (CHOOSE x \in s : TRUE).delta
    <3>1. \A s \in SUBSET S : s # {} => First(s) \in S /\ First(s) = CHOOSE x \in s : TRUE
      BY FirstIsIn DEF First
    <3>. QED
      BY <3>1
  <2>. HIDE DEF w
  <2>. QED
    BY <2>1 DEF IsSum, First
<1>. HIDE DEF w
<1>2. PICK h : IsSum(h, S, w)
  BY SumExists
<1>3. Iterates(g)
  <2>1. Iterates(h)
    BY <1>1, <1>2
  <2>. HIDE DEF Iterates
  <2>. QED
    BY <2>1
<1>4. TotalDelta(S) = g[S]
  BY Zenon DEF TotalDelta, MapThenSumSet, MapThenFoldSet
<1>. HIDE DEF Iterates, g
<1>. QED
  BY <1>1, <1>3, <1>4 DEF w

LEMMA DeltaType ==
  ASSUME NEW S, IsFiniteSet(S), \A v \in S : v.delta \in Int
  PROVE  TotalDelta(S) \in Int
<1>. DEFINE w == [v \in S |-> v.delta]
<1>1. w \in [S -> Int]
  OBVIOUS
<1>2. PICK h : IsSum(h, S, w) /\ TotalDelta(S) = h[S]
  BY DeltaIsSum
<1>3. S \in SUBSET S
  OBVIOUS
<1>. HIDE DEF w
<1>. QED
  BY <1>1, <1>2, <1>3, SumType

LEMMA DeltaOfUnion ==
  ASSUME NEW S, NEW T, IsFiniteSet(S), IsFiniteSet(T), S \cap T = {},
         \A v \in S \cup T : v.delta \in Int
  PROVE  TotalDelta(S \cup T) = TotalDelta(S) + TotalDelta(T)
<1>. DEFINE U == S \cup T
            W(A) == [v \in A |-> v.delta]
<1>1. IsFiniteSet(U)
  BY FS_Union
<1>2. /\ W(U) \in [U -> Int]
      /\ \A x \in S : W(S)[x] = W(U)[x]
      /\ \A x \in T : W(T)[x] = W(U)[x]
  OBVIOUS
<1>3. PICK h : IsSum(h, U, W(U)) /\ TotalDelta(U) = h[U]
  <2>. HIDE DEF U
  <2>. QED
    BY <1>1, DeltaIsSum
<1>4. PICK f : IsSum(f, S, W(S)) /\ TotalDelta(S) = f[S]
  BY DeltaIsSum
<1>5. PICK g : IsSum(g, T, W(T)) /\ TotalDelta(T) = g[T]
  BY DeltaIsSum
<1>6. U = S \cup T
  OBVIOUS
<1>. HIDE DEF U
<1>7. h[U] = f[S] + g[T]
  <2>. DEFINE w == W(U)
              y == W(S)
              z == W(T)
  <2>1. w \in [U -> Int]
    BY <1>2
  <2>2. \A x \in S : y[x] = w[x]
    BY <1>2
  <2>3. \A x \in T : z[x] = w[x]
    BY <1>2
  <2>4. IsSum(h, U, w)
    BY <1>3
  <2>5. IsSum(f, S, y)
    BY <1>4
  <2>6. IsSum(g, T, z)
    BY <1>5
  <2>7. S \in SUBSET U
    BY <1>6
  <2>8. T \in SUBSET U
    BY <1>6
  <2>9. T \in SUBSET (U \ S)
    BY <1>6
  <2>. HIDE DEF w, y, z, W
  <2>10. f[S] = h[S]
    BY <2>2, <2>4, <2>5, <2>7, SumOfPart
  <2>11. g[T] = h[T]
    BY <2>3, <2>4, <2>6, <2>8, SumOfPart
  <2>12. \A t \in SUBSET (U \ S) : h[S \cup t] = h[S] + h[t]
    BY <1>1, <2>1, <2>4, <2>7, SumUnion
  <2>. QED
    BY <1>6, <2>9, <2>10, <2>11, <2>12
<1>. HIDE DEF W
<1>. QED
  BY <1>3, <1>4, <1>5, <1>6, <1>7

LEMMA DeltaOfFew ==
  /\ TotalDelta({}) = 0
  /\ \A v : v.delta \in Int => TotalDelta({v}) = v.delta
<1>1. TotalDelta({}) = 0
  <2>1. IsFiniteSet({})
    BY FS_EmptySet
  <2>2. PICK h : IsSum(h, {}, [v \in {} |-> v.delta]) /\ TotalDelta({}) = h[{}]
    BY <2>1, DeltaIsSum
  <2>3. {} \in SUBSET {}
    OBVIOUS
  <2>. QED
    BY <2>2, <2>3, SumStep
<1>2. ASSUME NEW v, v.delta \in Int PROVE TotalDelta({v}) = v.delta
  <2>. DEFINE w == [x \in {v} |-> x.delta]
  <2>1. IsFiniteSet({v})
    BY FS_Singleton
  <2>2. PICK h : IsSum(h, {v}, w) /\ TotalDelta({v}) = h[{v}]
    BY <2>1, DeltaIsSum
  <2>3. w \in [{v} -> Int] /\ w[v] = v.delta
    BY <1>2
  <2>. HIDE DEF w
  <2>. QED
    BY <2>2, <2>3, SumOfOne
<1>. QED
  BY <1>1, <1>2

-----------------------------------------------------------------------------
(* Nothing is lost.  While no save has overwritten what its request had not *)
(* read, a method works on the item that is stored: only the database has   *)
(* to be described, and the ids of what is still to come.                   *)

\* The request has used this id up for a reservation, or for an adjustment.
Spent(id) == /\ cmd[id[1]].op = "reserve"
             /\ phase[id[1]] = "ok" \/ Len(cmd[id[1]].lines) < id[2]
Adjusted(id) == cmd[id[1]].op = "adjust" /\ phase[id[1]] = "ok"

GrantedIds(i) == {m.id : m \in Granted(i)}
ReleasedIds(i) ==
  {m.id : m \in {n \in outbox : n.type = "StockReservationReleased" /\ n.item = i}}
ActiveIds(a) == {v.id : v \in Active(a)}

Distinct(a) == \A v, w \in a.reservations : v.id = w.id => v = w
Finite(a) == IsFiniteSet(a.reservations) /\ IsFiniteSet(a.adjustments)

\* A stored item is accounted for.
Whole(i) ==
  /\ Finite(items[i]) /\ Distinct(items[i])
  /\ \A v \in items[i].reservations : Spent(v.id)
  /\ \A d \in items[i].adjustments : Adjusted(d.id)
  /\ items[i].reserved = TotalQuantity(Active(items[i]))
  /\ items[i].onHand = opening[i] + TotalDelta(items[i].adjustments)
  /\ ActiveIds(items[i]) = GrantedIds(i) \ ReleasedIds(i)

MessagesKnown ==
  \A m \in outbox : m.type \in {"StockReserved", "StockReservationReleased"} =>
    Stored(m.item) /\ Spent(m.id)

CreatesNew ==
  \A r \in Requests : cmd[r].op = "create" =>
    /\ phase[r] \notin {"row", "reservations"}
    /\ phase[r] = "loaded" => work[r][cmd[r].item] = NewItem(cmd[r].onHand)

LossInv ==
  /\ CreatesNew
  /\ ~overwrote => MessagesKnown /\ \A i \in Items : Stored(i) => Whole(i)

LEMMA LossSuffices == TypeInv /\ LossInv => NothingLost
<1>. SUFFICES ASSUME TypeInv, LossInv, ~overwrote, NEW i \in Items, Stored(i)
              PROVE  /\ ReservedMatchesActive(i) /\ AdjustmentsExplainOnHand(i)
                     /\ GrantedAreActive(i)
  BY DEF NothingLost
<1>1. Whole(i)
  BY DEF LossInv
<1>2. ReservedMatchesActive(i) /\ AdjustmentsExplainOnHand(i)
  BY <1>1 DEF Whole, ReservedMatchesActive, AdjustmentsExplainOnHand, TotalDelta
<1>3. {m.id : m \in Granted(i) \ GivenBack(i)} = GrantedIds(i) \ ReleasedIds(i)
  BY DEF Granted, GivenBack, GrantedIds, ReleasedIds
<1>. QED
  BY <1>1, <1>2, <1>3 DEF Whole, GrantedAreActive, ActiveIds

\* A new item is accounted for, before anything is announced about it.
LEMMA NewIsWhole ==
  ASSUME NEW n \in Nat
  PROVE  /\ Finite(NewItem(n)) /\ Distinct(NewItem(n))
         /\ NewItem(n).reservations = {} /\ NewItem(n).adjustments = {}
         /\ NewItem(n).reserved = TotalQuantity(Active(NewItem(n)))
         /\ NewItem(n).onHand = n + TotalDelta(NewItem(n).adjustments)
         /\ ActiveIds(NewItem(n)) = {}
<1>1. /\ NewItem(n).reservations = {} /\ NewItem(n).adjustments = {}
      /\ NewItem(n).reserved = 0 /\ NewItem(n).onHand = n
  BY DEF NewItem
<1>2. Active(NewItem(n)) = {}
  BY <1>1 DEF Active
<1>3. TotalQuantity({}) = 0 /\ TotalDelta({}) = 0 /\ IsFiniteSet({})
  BY QuantityOfFew, DeltaOfFew, FS_EmptySet
<1>. QED
  BY <1>1, <1>2, <1>3 DEF Finite, Distinct, ActiveIds

LEMMA LossInit == Init => LossInv
<1>. SUFFICES ASSUME Init PROVE LossInv
  OBVIOUS
<1>1. CreatesNew /\ MessagesKnown
  BY DEF Init, CreatesNew, MessagesKnown
<1>2. ASSUME NEW i \in Items, Stored(i) PROVE Whole(i)
  <2>1. PICK n \in Nat : items[i] = NewItem(n)
    BY <1>2, OpeningsAssumption, MaxInt4Assumption DEF Init, Stored
  <2>2. opening[i] = n
    BY <1>2, <2>1, NewIsWhole DEF Init, NewItem
  <2>3. GrantedIds(i) = {}
    BY DEF Init, GrantedIds, Granted
  <2>. QED
    BY <2>1, <2>2, <2>3, NewIsWhole DEF Whole
<1>. QED
  BY <1>1, <1>2 DEF LossInv

\* An id that is used up stays so: a command keeps its kind and loses lines, and
\* a request that is done stays done.
KeepsSpent ==
  \A q \in Requests : /\ cmd'[q].op = cmd[q].op
                      /\ phase[q] = "ok" => phase'[q] = "ok"
                      /\ cmd[q].op = "reserve" => /\ Len(cmd[q].lines) \in Nat
                                                  /\ Len(cmd'[q].lines) \in Nat
                                                  /\ Len(cmd'[q].lines) <= Len(cmd[q].lines)

LEMMA SpentStays ==
  ASSUME KeepsSpent, NEW id \in Id
  PROVE  (Spent(id) => Spent(id)') /\ (Adjusted(id) => Adjusted(id)')
<1>1. id[1] \in Requests /\ id[2] \in Nat
  BY DEF Id
<1>. QED
  BY <1>1 DEF KeepsSpent, Spent, Adjusted

LEMMA LinesLength ==
  ASSUME TypeInv, NEW q \in Requests, cmd[q].op = "reserve"
  PROVE  Len(cmd[q].lines) \in Nat
  BY CommandFields, LineFields DEF TypeInv, TypeOK

LEMMA SameCommandsKeepSpent ==
  ASSUME TypeInv, cmd' = cmd, \A q \in Requests : phase[q] = "ok" => phase'[q] = "ok"
  PROVE  KeepsSpent
<1>1. \A q \in Requests : cmd[q].op = "reserve" => Len(cmd[q].lines) \in Nat
  BY LinesLength
<1>. QED
  BY <1>1 DEF KeepsSpent

\* What a step leaves alone stays accounted for.
LEMMA WholeStays ==
  ASSUME TypeInv, KeepsSpent, NEW j \in Items, Stored(j), Whole(j),
         items'[j] = items[j], opening'[j] = opening[j],
         GrantedIds(j)' = GrantedIds(j), ReleasedIds(j)' = ReleasedIds(j)
  PROVE  Whole(j)'
<1>1. items[j] \in Aggregate
  BY StoredType DEF TypeInv
<1>2. \A v \in items[j].reservations : v.id \in Id
  BY <1>1, FieldTypes DEF Reservation
<1>3. \A d \in items[j].adjustments : d.id \in Id
  BY <1>1 DEF Aggregate, Adjustment
<1>4. /\ \A v \in items[j].reservations : Spent(v.id)'
      /\ \A d \in items[j].adjustments : Adjusted(d.id)'
  BY <1>2, <1>3, SpentStays DEF Whole
<1>. QED
  BY <1>4 DEF Whole

LEMMA MessagesStay ==
  ASSUME TypeInv, KeepsSpent, MessagesKnown, \A j \in Items : Stored(j) => Stored(j)',
         NEW msgs, outbox' = outbox \cup msgs,
         \A m \in msgs : m.type \in {"StockReserved", "StockReservationReleased"} =>
                           Stored(m.item)' /\ Spent(m.id)'
  PROVE  MessagesKnown'
<1>1. \A m \in outbox : m.item \in Items /\ m.id \in Id
  BY DEF TypeInv, TypeOK, Message
<1>2. ASSUME NEW m \in outbox, m.type \in {"StockReserved", "StockReservationReleased"}
      PROVE  Stored(m.item)' /\ Spent(m.id)'
  BY <1>1, <1>2, SpentStays DEF MessagesKnown
<1>. QED
  BY <1>2 DEF MessagesKnown

LEMMA ReadKeepsLoss ==
  ASSUME TypeInv, LossInv, NEW r \in Requests,
         \/ SelectRows(r) \/ SelectReservations(r) \/ SelectAdjustments(r)
         \/ SelectNothing(r) \/ Fail(r)
  PROVE  LossInv'
<1>1. UNCHANGED <<items, outbox, cmd, opening, overwrote>>
  BY DEF SelectRows, SelectReservations, SelectAdjustments, SelectNothing, Fail
<1>2. \A q \in Requests : phase[q] = "ok" => phase'[q] = "ok"
  BY DEF SelectRows, SelectReservations, SelectAdjustments, SelectNothing, Fail, TypeInv, TypeOK
<1>3. KeepsSpent
  BY <1>1, <1>2, SameCommandsKeepSpent
<1>4. ASSUME ~overwrote' PROVE MessagesKnown' /\ \A i \in Items : Stored(i)' => Whole(i)'
  <2>1. ~overwrote /\ \A j \in Items : Stored(j) <=> Stored(j)'
    BY <1>1, <1>4 DEF Stored
  <2>2. MessagesKnown'
    <3>1. MessagesKnown
      BY <2>1 DEF LossInv
    <3>. DEFINE none == {}
    <3>2. outbox' = outbox \cup none /\ none = {}
      BY <1>1
    <3>. HIDE DEF none
    <3>. QED
      BY <1>3, <2>1, <3>1, <3>2, MessagesStay
  <2>3. ASSUME NEW j \in Items, Stored(j) PROVE Whole(j)'
    <3>1. /\ items'[j] = items[j] /\ opening'[j] = opening[j]
          /\ GrantedIds(j)' = GrantedIds(j) /\ ReleasedIds(j)' = ReleasedIds(j)
      BY <1>1 DEF GrantedIds, Granted, ReleasedIds
    <3>. QED
      BY <1>3, <2>1, <2>3, <3>1, WholeStays DEF LossInv
  <2>. QED
    BY <2>1, <2>2, <2>3
<1>5. CreatesNew'
  <2>1. ASSUME NEW q \in Requests, cmd[q].op = "create"
        PROVE  /\ phase'[q] \notin {"row", "reservations"}
               /\ phase'[q] = "loaded" => work'[q][cmd[q].item] = NewItem(cmd[q].onHand)
    <3>1. /\ phase[q] \notin {"row", "reservations"}
          /\ phase[q] = "loaded" => work[q][cmd[q].item] = NewItem(cmd[q].onHand)
          /\ cmd[q].item \in Items
      BY <2>1, CommandFields DEF LossInv, CreatesNew, TypeInv, TypeOK
    <3>2. CASE q # r
      BY <3>1, <3>2 DEF SelectRows, SelectReservations, SelectAdjustments, SelectNothing, Fail,
                        TypeInv, TypeOK
    <3>3. CASE q = r /\ SelectNothing(r)
      BY <3>1, <3>3 DEF SelectNothing, TypeInv, TypeOK
    <3>4. CASE q = r /\ Fail(r)
      BY <3>4 DEF Fail, TypeInv, TypeOK
    <3>5. CASE q = r /\ (SelectRows(r) \/ SelectReservations(r) \/ SelectAdjustments(r))
      BY <2>1, <3>1, <3>5 DEF SelectRows, SelectReservations, SelectAdjustments
    <3>. QED
      BY <3>2, <3>3, <3>4, <3>5
  <2>. QED
    BY <1>1, <2>1 DEF CreatesNew
<1>. QED
  BY <1>4, <1>5 DEF LossInv

\* While nothing was overwritten, the item a save replaces is the one it loaded.
LEMMA SaveOfOwn ==
  ASSUME TypeInv, LossInv, NEW r \in Requests, NEW i \in Items, NEW a, NEW msgs,
         Save(r, i, a, msgs), ~overwrote'
  PROVE  /\ ~overwrote /\ Stored(i) /\ items[i] = work[r][i] /\ items[i] \in Aggregate
         /\ Whole(i) /\ MessagesKnown /\ items'[i] = a /\ outbox' = outbox \cup msgs
<1>1. ~overwrote /\ items[i] = work[r][i]
  BY DEF Save, TypeInv, TypeOK
<1>2. work[r][i] \in Aggregate
  BY DEF TypeInv, TypeOK
<1>3. Stored(i) /\ items[i] \in Aggregate
  BY <1>1, <1>2, NoItemAssumption DEF Stored
<1>. QED
  BY <1>1, <1>3 DEF LossInv, Save, Note, TypeInv, TypeOK

\* A save that keeps the books of its item keeps the books.
LEMMA SaveKeepsLoss ==
  ASSUME TypeInv, LossInv, NEW r \in Requests, NEW i \in Items, NEW a \in Aggregate,
         NEW msgs \in SUBSET Message, Save(r, i, a, msgs), KeepsSpent, opening' = opening,
         cmd[r].op # "create", \A m \in msgs : m.item = i,
         \A q \in Requests \ {r} : phase'[q] = phase[q] /\ cmd'[q] = cmd[q],
         ~overwrote' => /\ Whole(i)'
                        /\ \A m \in msgs : m.type \in {"StockReserved", "StockReservationReleased"}
                                             => Spent(m.id)'
  PROVE  LossInv'
<1>1. ASSUME ~overwrote' PROVE MessagesKnown' /\ \A j \in Items : Stored(j)' => Whole(j)'
  <2>1. /\ ~overwrote /\ Stored(i) /\ MessagesKnown /\ items'[i] = a
        /\ outbox' = outbox \cup msgs
    BY <1>1, SaveOfOwn
  <2>2. \A j \in Items : /\ Stored(j) => Stored(j)'
                         /\ Stored(j)' => Stored(j)
                         /\ j # i => items'[j] = items[j]
    BY <2>1, NoItemAssumption DEF Save, Stored, TypeInv, TypeOK
  <2>3. MessagesKnown'
    <3>1. \A m \in msgs : m.type \in {"StockReserved", "StockReservationReleased"} =>
                            Stored(m.item)' /\ Spent(m.id)'
      BY <1>1, <2>1, <2>2
    <3>. QED
      BY <2>1, <2>2, <3>1, MessagesStay
  <2>4. ASSUME NEW j \in Items, Stored(j), j # i PROVE Whole(j)'
    <3>1. GrantedIds(j)' = GrantedIds(j) /\ ReleasedIds(j)' = ReleasedIds(j)
      BY <2>1, <2>4 DEF GrantedIds, Granted, ReleasedIds
    <3>2. items'[j] = items[j] /\ opening'[j] = opening[j] /\ Whole(j)
      BY <2>1, <2>2, <2>4 DEF LossInv
    <3>. QED
      BY <2>4, <3>1, <3>2, WholeStays
  <2>. QED
    BY <1>1, <2>2, <2>3, <2>4
<1>2. CreatesNew'
  <2>1. ASSUME NEW q \in Requests, cmd'[q].op = "create"
        PROVE  /\ phase'[q] \notin {"row", "reservations"}
               /\ phase'[q] = "loaded" => work'[q][cmd'[q].item] = NewItem(cmd'[q].onHand)
    <3>1. q # r
      BY <2>1 DEF KeepsSpent
    <3>2. phase'[q] = phase[q] /\ cmd'[q] = cmd[q] /\ work'[q] = work[q]
      BY <3>1 DEF Save, TypeInv, TypeOK
    <3>. QED
      BY <2>1, <3>2 DEF LossInv, CreatesNew
  <2>. QED
    BY <2>1 DEF CreatesNew
<1>. QED
  BY <1>1, <1>2 DEF LossInv

LEMMA ActiveFinite ==
  ASSUME NEW i, Whole(i)
  PROVE  IsFiniteSet(Active(items[i]))
<1>1. IsFiniteSet(items[i].reservations) /\ Active(items[i]) \in SUBSET items[i].reservations
  BY DEF Whole, Finite, Active
<1>. QED
  BY <1>1, FS_Subset

LEMMA ReserveKeepsWhole ==
  ASSUME TypeInv, LossInv, KeepsSpent, ~overwrote', opening' = opening,
         NEW r \in Requests, NEW i \in Items, NEW id \in Id, NEW o \in Orders, NEW n \in Nat,
         Save(r, i, Reserve(work[r][i], id, o, n),
              {[type |-> "StockReserved", item |-> i, id |-> id, amount |-> n, by |-> r]}),
         ~Spent(id), Spent(id)'
  PROVE  Whole(i)'
<1>. DEFINE old == items[i]
            a == Reserve(old, id, o, n)
            v == [id |-> id, order |-> o, quantity |-> n, active |-> TRUE]
            m == [type |-> "StockReserved", item |-> i, id |-> id, amount |-> n, by |-> r]
<1>1. /\ Stored(i) /\ old \in Aggregate /\ Whole(i) /\ MessagesKnown
      /\ items'[i] = a /\ outbox' = outbox \cup {m}
  <2>1. items[i] = work[r][i]
    BY SaveOfOwn
  <2>. QED
    BY <2>1, SaveOfOwn
<1>2. v \in Reservation /\ v.id = id /\ v.quantity = n /\ v.active
  BY DEF Reservation
<1>3. m.type = "StockReserved" /\ m.item = i /\ m.id = id
  OBVIOUS
<1>4. /\ a.onHand = old.onHand /\ a.reserved = old.reserved + n
      /\ a.reservations = old.reservations \cup {v} /\ a.adjustments = old.adjustments
  BY <1>1 DEF Reserve, Aggregate
<1>. HIDE DEF a, v, m
<1>5. old.reserved \in Nat /\ old.reservations \in SUBSET Reservation
      /\ old.adjustments \in SUBSET Adjustment
  BY <1>1 DEF Aggregate
<1>6. \A x \in old.reservations : x.id # id /\ x.id \in Id /\ x.quantity \in Nat
  BY <1>1, <1>5 DEF Whole, Reservation
<1>7. Active(a) = Active(old) \cup {v} /\ v \notin Active(old)
  BY <1>2, <1>4, <1>6 DEF Active
<1>8. Finite(a) /\ Distinct(a)
  <2>1. Finite(a)
    <3>1. IsFiniteSet(old.reservations) /\ IsFiniteSet(old.adjustments)
      BY <1>1 DEF Whole, Finite
    <3>2. IsFiniteSet(old.reservations \cup {v})
      BY <3>1, FS_AddElement
    <3>. QED
      BY <1>4, <3>1, <3>2 DEF Finite
  <2>2. Distinct(a)
    BY <1>1, <1>2, <1>4, <1>6 DEF Whole, Distinct
  <2>. QED
    BY <2>1, <2>2
<1>9. (\A x \in a.reservations : Spent(x.id)') /\ \A d \in a.adjustments : Adjusted(d.id)'
  <2>1. \A x \in old.reservations : Spent(x.id)'
    BY <1>1, <1>6, SpentStays DEF Whole
  <2>2. \A d \in old.adjustments : d.id \in Id
    BY <1>5 DEF Adjustment
  <2>3. \A d \in old.adjustments : Adjusted(d.id)'
    BY <1>1, <2>2, SpentStays DEF Whole
  <2>. QED
    BY <1>2, <1>4, <2>1, <2>3
<1>10. a.reserved = TotalQuantity(Active(a))
  <2>1. IsFiniteSet(Active(old)) /\ IsFiniteSet({v})
    BY <1>1, ActiveFinite, FS_Singleton
  <2>2. TotalQuantity({v}) = n
    BY <1>2, QuantityOfFew
  <2>3. \A x \in Active(old) \cup {v} : x.quantity \in Int
    BY <1>2, <1>6 DEF Active
  <2>4. TotalQuantity(Active(old) \cup {v}) = TotalQuantity(Active(old)) + TotalQuantity({v})
    BY <1>7, <2>1, <2>3, QuantityOfUnion
  <2>. QED
    BY <1>1, <1>4, <1>7, <2>2, <2>4 DEF Whole
<1>11. a.onHand = opening'[i] + TotalDelta(a.adjustments)
  BY <1>1, <1>4 DEF Whole
<1>12. ActiveIds(a) = GrantedIds(i)' \ ReleasedIds(i)'
  <2>1. ActiveIds(a) = ActiveIds(old) \cup {id}
    BY <1>2, <1>7 DEF ActiveIds
  <2>2. GrantedIds(i)' = GrantedIds(i) \cup {id}
    BY <1>1, <1>3 DEF GrantedIds, Granted
  <2>3. ReleasedIds(i)' = ReleasedIds(i)
    BY <1>1, <1>3 DEF ReleasedIds
  <2>4. id \notin ReleasedIds(i)
    BY <1>1 DEF MessagesKnown, ReleasedIds
  <2>. QED
    BY <1>1, <2>1, <2>2, <2>3, <2>4 DEF Whole
<1>. QED
  BY <1>1, <1>8, <1>9, <1>10, <1>11, <1>12 DEF Whole

LEMMA AdjustKeepsWhole ==
  ASSUME TypeInv, LossInv, KeepsSpent, ~overwrote', opening' = opening,
         NEW r \in Requests, NEW i \in Items, NEW id \in Id, NEW d \in Int,
         NEW msgs, Save(r, i, Adjust(work[r][i], id, d), msgs),
         \A m \in msgs : m.type \notin {"StockReserved", "StockReservationReleased"},
         ~Adjusted(id), Adjusted(id)'
  PROVE  Whole(i)'
<1>. DEFINE old == items[i]
            a == Adjust(old, id, d)
            e == [id |-> id, delta |-> d]
<1>1. /\ Stored(i) /\ old \in Aggregate /\ Whole(i) /\ MessagesKnown
      /\ items'[i] = a /\ outbox' = outbox \cup msgs
  <2>1. items[i] = work[r][i]
    BY SaveOfOwn
  <2>. QED
    BY <2>1, SaveOfOwn
<1>2. e.id = id /\ e.delta = d
  OBVIOUS
<1>3. /\ a.onHand = old.onHand + d /\ a.reserved = old.reserved
      /\ a.reservations = old.reservations /\ a.adjustments = old.adjustments \cup {e}
  BY <1>1 DEF Adjust, Aggregate
<1>. HIDE DEF a, e
<1>4. /\ old.onHand \in Nat /\ old.reservations \in SUBSET Reservation
      /\ old.adjustments \in SUBSET Adjustment
  BY <1>1 DEF Aggregate
<1>5. \A x \in old.adjustments : x.id # id /\ x.id \in Id /\ x.delta \in Int
  BY <1>1, <1>4 DEF Whole, Adjustment
<1>6. Finite(a) /\ Distinct(a)
  <2>1. IsFiniteSet(old.reservations) /\ IsFiniteSet(old.adjustments)
    BY <1>1 DEF Whole, Finite
  <2>2. IsFiniteSet(old.adjustments \cup {e})
    BY <2>1, FS_AddElement
  <2>. QED
    BY <1>1, <1>3, <2>1, <2>2 DEF Whole, Distinct, Finite
<1>7. (\A x \in a.reservations : Spent(x.id)') /\ \A x \in a.adjustments : Adjusted(x.id)'
  <2>1. \A x \in old.reservations : x.id \in Id
    BY <1>4 DEF Reservation
  <2>2. \A x \in old.reservations : Spent(x.id)'
    BY <1>1, <2>1, SpentStays DEF Whole
  <2>3. \A x \in old.adjustments : Adjusted(x.id)'
    BY <1>1, <1>5, SpentStays DEF Whole
  <2>. QED
    BY <1>2, <1>3, <2>2, <2>3
<1>8. Active(a) = Active(old) /\ ActiveIds(a) = ActiveIds(old)
  BY <1>3 DEF Active, ActiveIds
<1>9. a.onHand = opening'[i] + TotalDelta(a.adjustments)
  <2>1. IsFiniteSet(old.adjustments) /\ IsFiniteSet({e}) /\ old.adjustments \cap {e} = {}
    BY <1>1, <1>2, <1>5, FS_Singleton DEF Whole, Finite
  <2>2. TotalDelta({e}) = d
    BY <1>2, DeltaOfFew
  <2>3. \A x \in old.adjustments \cup {e} : x.delta \in Int
    BY <1>2, <1>5
  <2>4. TotalDelta(old.adjustments \cup {e}) = TotalDelta(old.adjustments) + TotalDelta({e})
    BY <2>1, <2>3, DeltaOfUnion
  <2>5. opening[i] \in Nat /\ TotalDelta(old.adjustments) \in Int
    BY <1>5, <2>1, DeltaType DEF TypeInv, TypeOK
  <2>. QED
    BY <1>1, <1>3, <2>2, <2>4, <2>5 DEF Whole
<1>10. GrantedIds(i)' = GrantedIds(i) /\ ReleasedIds(i)' = ReleasedIds(i)
  BY <1>1 DEF GrantedIds, Granted, ReleasedIds
<1>. QED
  BY <1>1, <1>3, <1>6, <1>7, <1>8, <1>9, <1>10 DEF Whole

LEMMA ReleaseKeepsWhole ==
  ASSUME TypeInv, LossInv, KeepsSpent, ~overwrote', opening' = opening,
         NEW r \in Requests, NEW i \in Items, NEW S \in SUBSET Active(work[r][i]),
         NEW left \in Remaining(work[r][i], S),
         Save(r, i, Release(work[r][i], S, left), ReleaseMessages(r, i, S))
  PROVE  /\ Whole(i)'
         /\ \A m \in ReleaseMessages(r, i, S) : Spent(m.id)'
<1>. DEFINE old == items[i]
            a == Release(old, S, left)
            off(v) == [v EXCEPT !.active = FALSE]
            Off == {off(v) : v \in S}
            msgs == ReleaseMessages(r, i, S)
<1>1. /\ Stored(i) /\ old \in Aggregate /\ Whole(i) /\ MessagesKnown
      /\ items'[i] = a /\ outbox' = outbox \cup msgs
      /\ S \subseteq Active(old) /\ left \in Remaining(old, S)
  <2>1. items[i] = work[r][i]
    BY SaveOfOwn
  <2>. QED
    BY <2>1, SaveOfOwn
<1>2. /\ old.reserved \in Nat /\ old.reservations \in SUBSET Reservation
      /\ old.adjustments \in SUBSET Adjustment
  BY <1>1 DEF Aggregate
<1>3. /\ a.onHand = old.onHand /\ a.reserved = left
      /\ a.reservations = (old.reservations \ S) \cup Off /\ a.adjustments = old.adjustments
  BY <1>1 DEF Release, Aggregate
<1>4. left \in Nat /\ left + TotalQuantity(S) = old.reserved
  BY <1>1, <1>2 DEF Remaining
<1>5. \A v \in S : v \in old.reservations /\ v.active /\ off(v).id = v.id /\ ~off(v).active
  BY <1>1, <1>2 DEF Active, Reservation
<1>6. \A x \in Off : \E v \in S : x = off(v)
  OBVIOUS
<1>7. \A v \in S : off(v) \in Off
  OBVIOUS
<1>8. \A x \in Off : ~x.active /\ \E v \in S : x.id = v.id
  <2>. HIDE DEF Off, off
  <2>. QED
    BY <1>5, <1>6
<1>9. \A x \in old.reservations : x.id \in Id /\ x.quantity \in Nat
  BY <1>2 DEF Reservation
<1>10. /\ \A m \in msgs : /\ m.type = "StockReservationReleased" /\ m.item = i
                          /\ \E v \in S : m.id = v.id
       /\ \A v \in S : \E m \in msgs : m.id = v.id
  <2>. DEFINE about(v) == [type |-> "StockReservationReleased", item |-> i, id |-> v.id,
                           amount |-> 0, by |-> r]
  <2>1. msgs = {about(v) : v \in S}
    BY DEF ReleaseMessages
  <2>2. \A v \in S : /\ about(v).type = "StockReservationReleased" /\ about(v).item = i
                     /\ about(v).id = v.id
    OBVIOUS
  <2>. HIDE DEF msgs, about
  <2>. QED
    BY <2>1, <2>2
<1>11. \A v, x \in Off : v.id = x.id => v = x
  <2>1. ASSUME NEW v \in Off, NEW x \in Off, v.id = x.id PROVE v = x
    <3>1. PICK y \in S : v = off(y)
      BY <1>6
    <3>2. PICK z \in S : x = off(z)
      BY <1>6
    <3>. HIDE DEF Off, off
    <3>3. y.id = z.id
      BY <1>5, <2>1, <3>1, <3>2
    <3>4. y = z
      BY <1>1, <1>5, <3>3 DEF Whole, Distinct
    <3>. QED
      BY <3>1, <3>2, <3>4
  <2>. QED
    BY <2>1
<1>12. IsFiniteSet(Off)
  <2>. DEFINE f == [v \in S |-> off(v)]
  <2>1. f \in Surjection(S, Off)
    <3>1. \A x \in Off : \E v \in S : f[v] = x
      BY <1>6
    <3>2. f \in [S -> Off]
      BY <1>7
    <3>. QED
      BY <3>1, <3>2 DEF Surjection
  <2>2. IsFiniteSet(S)
    BY <1>1, ActiveFinite, FS_Subset
  <2>. HIDE DEF f, Off
  <2>. QED
    BY <2>1, <2>2, FS_Surjection
<1>. HIDE DEF a, off, Off, msgs
<1>13. Active(a) = Active(old) \ S
  BY <1>3, <1>8 DEF Active
<1>14. Finite(a) /\ Distinct(a)
  <2>1. Finite(a)
    <3>1. IsFiniteSet(old.reservations) /\ IsFiniteSet(old.adjustments)
      BY <1>1 DEF Whole, Finite
    <3>2. IsFiniteSet(old.reservations \ S)
      BY <3>1, FS_Difference
    <3>3. IsFiniteSet((old.reservations \ S) \cup Off)
      BY <1>12, <3>2, FS_Union
    <3>. QED
      BY <1>3, <3>1, <3>3 DEF Finite
  <2>2. \A v \in old.reservations \ S, x \in Off : v.id # x.id
    BY <1>1, <1>5, <1>8 DEF Whole, Distinct
  <2>3. \A v, x \in old.reservations : v.id = x.id => v = x
    BY <1>1 DEF Whole, Distinct
  <2>. QED
    BY <1>3, <1>11, <2>1, <2>2, <2>3 DEF Distinct
<1>15. \A x \in old.reservations : Spent(x.id)'
  BY <1>1, <1>9, SpentStays DEF Whole
<1>16. (\A x \in a.reservations : Spent(x.id)') /\ \A d \in a.adjustments : Adjusted(d.id)'
  <2>1. \A x \in Off : Spent(x.id)'
    BY <1>5, <1>8, <1>15
  <2>2. \A d \in old.adjustments : d.id \in Id
    BY <1>2 DEF Adjustment
  <2>3. \A d \in old.adjustments : Adjusted(d.id)'
    BY <1>1, <2>2, SpentStays DEF Whole
  <2>. QED
    BY <1>3, <1>15, <2>1, <2>3
<1>17. a.reserved = TotalQuantity(Active(a))
  <2>. DEFINE rest == Active(old) \ S
  <2>1. IsFiniteSet(Active(old))
    BY <1>1, ActiveFinite
  <2>2. IsFiniteSet(S) /\ IsFiniteSet(rest)
    BY <1>1, <2>1, FS_Subset, FS_Difference
  <2>3. \A x \in Active(old) : x.quantity \in Int
    BY <1>9 DEF Active
  <2>4. Active(old) = S \cup rest /\ S \cap rest = {}
    BY <1>1
  <2>. HIDE DEF rest
  <2>5. TotalQuantity(S \cup rest) = TotalQuantity(S) + TotalQuantity(rest)
    BY <2>2, <2>3, <2>4, QuantityOfUnion
  <2>6. TotalQuantity(S) \in Int /\ TotalQuantity(rest) \in Int
    BY <2>2, <2>3, <2>4, QuantityType
  <2>7. old.reserved = TotalQuantity(S) + TotalQuantity(rest)
    BY <1>1, <2>4, <2>5 DEF Whole
  <2>8. Active(a) = rest
    BY <1>13 DEF rest
  <2>. DEFINE p == TotalQuantity(S)
              q == TotalQuantity(rest)
  <2>9. p \in Int /\ q \in Int /\ old.reserved = p + q /\ left + p = old.reserved
    BY <1>4, <2>6, <2>7
  <2>. HIDE DEF p, q
  <2>. DEFINE all == old.reserved
  <2>10. all \in Int /\ left \in Int /\ all = p + q /\ left + p = all
    BY <1>2, <1>4, <2>9
  <2>. HIDE DEF all
  <2>11. left = q
    BY <2>9, <2>10
  <2>. QED
    BY <1>3, <2>8, <2>11 DEF q
<1>18. a.onHand = opening'[i] + TotalDelta(a.adjustments)
  BY <1>1, <1>3 DEF Whole
<1>19. ActiveIds(a) = GrantedIds(i)' \ ReleasedIds(i)'
  <2>. DEFINE ids == {v.id : v \in S}
  <2>1. \A v \in Active(old) \ S : v.id \notin ids
    BY <1>1, <1>5 DEF Whole, Distinct, Active
  <2>2. ActiveIds(a) = ActiveIds(old) \ ids
    BY <1>13, <2>1 DEF ActiveIds
  <2>3. GrantedIds(i)' = GrantedIds(i)
    BY <1>1, <1>10 DEF GrantedIds, Granted
  <2>4. ReleasedIds(i)' = ReleasedIds(i) \cup ids
    BY <1>1, <1>10 DEF ReleasedIds
  <2>. QED
    BY <1>1, <2>2, <2>3, <2>4 DEF Whole
<1>20. Whole(i)'
  BY <1>1, <1>14, <1>16, <1>17, <1>18, <1>19 DEF Whole
<1>21. \A m \in msgs : Spent(m.id)'
  BY <1>5, <1>10, <1>15
<1>. QED
  BY <1>20, <1>21 DEF msgs

LEMMA SaveReservedKeepsLoss ==
  ASSUME TypeInv, LossInv, NEW r \in Requests, SaveReserved(r)
  PROVE  LossInv'
<1>1. cmd[r] \in ReserveCommand /\ work[r] \in [Items -> Aggregate] /\ cmd[r].op = "reserve"
  BY CommandFields DEF SaveReserved, TypeInv, TypeOK
<1>2. PICK lines \in Seq(Line) \ {<< >>} : lines = cmd[r].lines
  BY <1>1 DEF ReserveCommand
<1>3. PICK k \in Nat, less \in Nat : k = Len(lines) /\ less = Len(Tail(lines)) /\ less < k
  OBVIOUS
<1>4. PICK id \in Id : id = <<r, k>>
  BY DEF Id
<1>5. id[1] = r /\ id[2] = k
  BY <1>4
<1>6. PICK i \in Items, n \in Nat, o \in Orders :
        i = Head(lines).item /\ n = Head(lines).quantity /\ o = cmd[r].order
  BY <1>1, <1>2, LineFields
<1>. DEFINE a == Reserve(work[r][i], id, o, n)
            m == [type |-> "StockReserved", item |-> i, id |-> id, amount |-> n, by |-> r]
<1>7. a \in Aggregate /\ m \in Message /\ m.item = i /\ m.id = id
  BY <1>1, ReserveType DEF Message
<1>8. Save(r, i, a, {m}) /\ opening' = opening
  BY <1>2, <1>3, <1>4, <1>6 DEF SaveReserved
<1>9. \/ /\ phase' = [phase EXCEPT ![r] = "ok"] /\ cmd' = cmd
      \/ /\ phase' = [phase EXCEPT ![r] = "received"]
         /\ cmd' = [cmd EXCEPT ![r].lines = Tail(lines)]
  BY <1>2 DEF SaveReserved, Finish
<1>10. phase[r] = "loaded"
  BY <1>8 DEF Save
<1>11. /\ \A q \in Requests \ {r} : phase'[q] = phase[q] /\ cmd'[q] = cmd[q]
       /\ cmd'[r].op = "reserve"
       /\ \/ phase'[r] = "ok" /\ cmd'[r].lines = lines
          \/ cmd'[r].lines = Tail(lines)
  <2>1. cmd \in [Requests -> Command] /\ phase \in [Requests -> Phases]
    BY DEF TypeInv, TypeOK
  <2>. QED
    BY <1>1, <1>2, <1>9, <2>1 DEF ReserveCommand
<1>12. /\ Len(cmd[r].lines) = k
       /\ \/ phase'[r] = "ok" /\ Len(cmd'[r].lines) = k
          \/ Len(cmd'[r].lines) = less
  <2>1. CASE phase'[r] = "ok" /\ cmd'[r].lines = lines
    BY <1>2, <1>3, <2>1
  <2>2. CASE cmd'[r].lines = Tail(lines)
    BY <1>2, <1>3, <2>2
  <2>. QED
    BY <1>11, <2>1, <2>2
<1>13. KeepsSpent
  <2>1. ASSUME NEW q \in Requests \ {r}
        PROVE  /\ cmd'[q].op = cmd[q].op
               /\ phase[q] = "ok" => phase'[q] = "ok"
               /\ cmd[q].op = "reserve" => /\ Len(cmd[q].lines) \in Nat
                                           /\ Len(cmd'[q].lines) \in Nat
                                           /\ Len(cmd'[q].lines) <= Len(cmd[q].lines)
    BY <1>11, LinesLength
  <2>2. /\ cmd'[r].op = cmd[r].op
        /\ phase[r] = "ok" => phase'[r] = "ok"
    BY <1>1, <1>10, <1>11
  <2>3. /\ Len(cmd[r].lines) \in Nat
        /\ Len(cmd'[r].lines) \in Nat /\ Len(cmd'[r].lines) <= Len(cmd[r].lines)
    <3>. DEFINE now == Len(cmd[r].lines)
                next == Len(cmd'[r].lines)
    <3>1. now = k /\ next \in {k, less}
      BY <1>12
    <3>. HIDE DEF now, next
    <3>2. now \in Nat /\ next \in Nat /\ next <= now
      BY <1>3, <3>1
    <3>. QED
      BY <3>2 DEF now, next
  <2>. QED
    BY <2>1, <2>2, <2>3 DEF KeepsSpent
<1>14. ~Spent(id)
  <2>1. Spent(id) => k < k
    BY <1>5, <1>10, <1>12 DEF Spent
  <2>. QED
    BY <2>1
<1>15. Spent(id)'
  <2>1. phase'[r] = "ok" \/ Len(cmd'[r].lines) < k
    BY <1>3, <1>12
  <2>. QED
    BY <1>5, <1>11, <2>1 DEF Spent
<1>16. ~overwrote' => Whole(i)'
  BY <1>8, <1>13, <1>14, <1>15, ReserveKeepsWhole
<1>. DEFINE msgs == {m}
<1>17. msgs \in SUBSET Message /\ \A x \in msgs : x.item = i /\ x.id = id
  BY <1>7
<1>18. Save(r, i, a, msgs)
  BY <1>8
<1>. HIDE DEF a, m, msgs
<1>. QED
  BY <1>1, <1>7, <1>8, <1>11, <1>13, <1>15, <1>16, <1>17, <1>18, SaveKeepsLoss

\* The saves of the other commands leave the commands alone.
LEMMA DoneKeepsSpent ==
  ASSUME TypeInv, NEW r \in Requests, cmd' = cmd, phase[r] = "loaded",
         Finish(r) \/ UNCHANGED phase
  PROVE  KeepsSpent /\ \A q \in Requests \ {r} : phase'[q] = phase[q] /\ cmd'[q] = cmd[q]
<1>1. \A q \in Requests : phase[q] = "ok" => phase'[q] = "ok"
  BY DEF Finish, TypeInv, TypeOK
<1>2. KeepsSpent
  BY <1>1, SameCommandsKeepSpent
<1>. QED
  BY <1>2 DEF Finish, TypeInv, TypeOK

LEMMA SaveAdjustedKeepsLoss ==
  ASSUME TypeInv, LossInv, NEW r \in Requests, SaveAdjusted(r)
  PROVE  LossInv'
<1>1. PICK i \in Items, d \in Int : i = cmd[r].item /\ d = cmd[r].delta
  BY CommandFields DEF SaveAdjusted, TypeInv, TypeOK
<1>2. PICK id \in Id : id = <<r, 0>>
  BY DEF Id
<1>3. id[1] = r
  BY <1>2
<1>. DEFINE about(type, n) == [type |-> type, item |-> i, id |-> id, amount |-> n, by |-> r]
            a == Adjust(work[r][i], id, d)
            msgs == {about("StockAdjusted", d)} \cup
                    {about("StockDepleted", 0) : x \in {0} \cap {a.onHand}}
<1>4. a \in Aggregate
  <2>1. work[r][i] \in Aggregate /\ CanAdjust(work[r][i], d)
    BY <1>1 DEF SaveAdjusted, TypeInv, TypeOK
  <2>. QED
    BY <2>1, AdjustType
<1>5. msgs \in SUBSET Message
  BY DEF Message
<1>6. Save(r, i, a, msgs) /\ opening' = opening /\ cmd' = cmd /\ Finish(r)
  BY <1>1, <1>2 DEF SaveAdjusted
<1>7. \A m \in msgs : /\ m.item = i
                      /\ m.type \notin {"StockReserved", "StockReservationReleased"}
  OBVIOUS
<1>8. phase[r] = "loaded" /\ cmd[r].op = "adjust"
  BY <1>6 DEF Save, SaveAdjusted
<1>9. KeepsSpent /\ \A q \in Requests \ {r} : phase'[q] = phase[q] /\ cmd'[q] = cmd[q]
  BY <1>6, <1>8, DoneKeepsSpent
<1>10. ~Adjusted(id) /\ Adjusted(id)'
  BY <1>3, <1>6, <1>8 DEF Adjusted, Finish, TypeInv, TypeOK
<1>. HIDE DEF msgs
<1>11. ~overwrote' => Whole(i)'
  BY <1>6, <1>7, <1>9, <1>10, AdjustKeepsWhole
<1>. HIDE DEF a
<1>. QED
  BY <1>4, <1>5, <1>6, <1>7, <1>8, <1>9, <1>11, SaveKeepsLoss

LEMMA ReleaseKeepsLoss ==
  ASSUME TypeInv, LossInv, NEW r \in Requests, NEW i \in Items,
         NEW S \in SUBSET Active(work[r][i]), NEW left \in Remaining(work[r][i], S),
         Save(r, i, Release(work[r][i], S, left), ReleaseMessages(r, i, S)),
         cmd[r].op # "create", UNCHANGED <<cmd, opening>>, Finish(r) \/ UNCHANGED phase
  PROVE  LossInv'
<1>. DEFINE a == Release(work[r][i], S, left)
            msgs == ReleaseMessages(r, i, S)
<1>1. work[r][i] \in Aggregate
  BY DEF TypeInv, TypeOK
<1>2. S \in SUBSET work[r][i].reservations /\ S \in SUBSET Reservation
  BY <1>1, FieldTypes DEF Active
<1>3. a \in Aggregate /\ msgs \in SUBSET Message
  BY <1>1, <1>2, ReleaseType, ReleaseMessagesType
<1>4. phase[r] = "loaded"
  BY DEF Save
<1>5. KeepsSpent /\ \A q \in Requests \ {r} : phase'[q] = phase[q] /\ cmd'[q] = cmd[q]
  BY <1>4, DoneKeepsSpent
<1>6. ~overwrote' => Whole(i)' /\ \A m \in msgs : Spent(m.id)'
  BY <1>5, ReleaseKeepsWhole
<1>7. \A m \in msgs : m.item = i
  BY DEF ReleaseMessages
<1>8. Save(r, i, a, msgs) /\ opening' = opening
  OBVIOUS
<1>. HIDE DEF a, msgs
<1>. QED
  BY <1>3, <1>5, <1>6, <1>7, <1>8, SaveKeepsLoss

LEMMA SaveReleasedKeepsLoss ==
  ASSUME TypeInv, LossInv, NEW r \in Requests, SaveReleased(r)
  PROVE  LossInv'
<1>. DEFINE i == cmd[r].item
            S == OfReservation(work[r][i], cmd[r].reservation)
<1>1. i \in Items /\ S \in SUBSET Active(work[r][i]) /\ cmd[r].op = "release"
  BY CommandFields DEF SaveReleased, TypeInv, TypeOK, OfReservation
<1>2. PICK left \in Remaining(work[r][i], S) :
        Save(r, i, Release(work[r][i], S, left), ReleaseMessages(r, i, S))
  BY DEF SaveReleased
<1>3. UNCHANGED <<cmd, opening>> /\ Finish(r)
  BY DEF SaveReleased
<1>. HIDE DEF i, S
<1>. QED
  BY <1>1, <1>2, <1>3, ReleaseKeepsLoss

LEMMA SaveReleasedForOrderKeepsLoss ==
  ASSUME TypeInv, LossInv, NEW r \in Requests, SaveReleasedForOrder(r)
  PROVE  LossInv'
<1>1. PICK i \in target[r] :
        LET S == OfOrder(work[r][i], cmd[r].order) IN
        /\ \E left \in Remaining(work[r][i], S) :
             Save(r, i, Release(work[r][i], S, left), ReleaseMessages(r, i, S))
        /\ IF target[r] = {i} THEN Finish(r) ELSE UNCHANGED phase
  BY DEF SaveReleasedForOrder
<1>. DEFINE S == OfOrder(work[r][i], cmd[r].order)
<1>2. i \in Items /\ S \in SUBSET Active(work[r][i]) /\ cmd[r].op = "releaseOrder"
  BY DEF SaveReleasedForOrder, TypeInv, TypeOK, OfOrder
<1>3. PICK left \in Remaining(work[r][i], S) :
        Save(r, i, Release(work[r][i], S, left), ReleaseMessages(r, i, S))
  BY <1>1
<1>4. UNCHANGED <<cmd, opening>> /\ (Finish(r) \/ UNCHANGED phase)
  BY <1>1 DEF SaveReleasedForOrder
<1>. HIDE DEF S
<1>. QED
  BY <1>2, <1>3, <1>4, ReleaseKeepsLoss

LEMMA SaveCreatedKeepsLoss ==
  ASSUME TypeInv, LossInv, NEW r \in Requests, SaveCreated(r)
  PROVE  LossInv'
<1>1. PICK i \in Items, n \in Nat : i = cmd[r].item /\ n = cmd[r].onHand
  BY CommandFields DEF SaveCreated, TypeInv, TypeOK
<1>2. phase[r] = "loaded" /\ cmd[r].op = "create" /\ ~Stored(i)
  BY <1>1 DEF SaveCreated
<1>3. work[r][i] = NewItem(n)
  BY <1>1, <1>2 DEF LossInv, CreatesNew
<1>4. NewItem(n).onHand = n /\ NewItem(n) \in Aggregate
  BY NewItemType DEF NewItem
<1>5. /\ items' = [items EXCEPT ![i] = NewItem(n)] /\ opening' = [opening EXCEPT ![i] = n]
      /\ Finish(r) /\ UNCHANGED <<outbox, cmd, overwrote>>
      /\ \A q \in Requests \ {r} : work'[q] = work[q]
  BY <1>1, <1>3, <1>4 DEF SaveCreated, TypeInv, TypeOK
<1>6. KeepsSpent /\ \A q \in Requests \ {r} : phase'[q] = phase[q] /\ cmd'[q] = cmd[q]
  BY <1>2, <1>5, DoneKeepsSpent
<1>7. \A j \in Items : /\ Stored(j) => Stored(j)'
                       /\ j # i => /\ Stored(j)' => Stored(j)
                                   /\ items'[j] = items[j] /\ opening'[j] = opening[j]
  BY <1>4, <1>5, NoItemAssumption DEF Stored, TypeInv, TypeOK
<1>8. items'[i] = NewItem(n) /\ opening'[i] = n
  BY <1>2, <1>5 DEF TypeInv, TypeOK
<1>9. ASSUME ~overwrote PROVE MessagesKnown' /\ \A j \in Items : Stored(j)' => Whole(j)'
  <2>1. MessagesKnown /\ \A j \in Items : Stored(j) => Whole(j)
    BY <1>9 DEF LossInv
  <2>2. MessagesKnown'
    <3>. DEFINE none == {}
    <3>1. outbox' = outbox \cup none /\ none = {}
      BY <1>5
    <3>. HIDE DEF none
    <3>. QED
      BY <1>6, <1>7, <2>1, <3>1, MessagesStay
  <2>3. ASSUME NEW j \in Items, j # i, Stored(j) PROVE Whole(j)'
    <3>1. GrantedIds(j)' = GrantedIds(j) /\ ReleasedIds(j)' = ReleasedIds(j)
      BY <1>5 DEF GrantedIds, Granted, ReleasedIds
    <3>. QED
      BY <1>6, <1>7, <2>1, <2>3, <3>1, WholeStays
  <2>4. Whole(i)'
    <3>1. GrantedIds(i)' = {}
      BY <1>2, <1>5, <2>1 DEF GrantedIds, Granted, MessagesKnown
    <3>. QED
      BY <1>2, <1>8, <3>1, NewIsWhole DEF Whole
  <2>. QED
    BY <1>7, <2>2, <2>3, <2>4
<1>10. CreatesNew'
  <2>1. phase'[r] = "ok"
    BY <1>5 DEF Finish, TypeInv, TypeOK
  <2>. QED
    BY <1>5, <1>6, <2>1 DEF LossInv, CreatesNew
<1>. QED
  BY <1>5, <1>9, <1>10 DEF LossInv

LEMMA LossStep == TypeInv /\ LossInv /\ [Next]_vars => LossInv'
<1>. SUFFICES ASSUME TypeInv, LossInv, [Next]_vars PROVE LossInv'
  OBVIOUS
<1>1. CASE UNCHANGED vars
  BY <1>1 DEF vars, LossInv, CreatesNew, MessagesKnown, Whole, Spent, Adjusted, Stored,
              GrantedIds, Granted, ReleasedIds
<1>2. CASE Next
  BY <1>2, ReadKeepsLoss, SaveCreatedKeepsLoss, SaveAdjustedKeepsLoss, SaveReservedKeepsLoss,
     SaveReleasedKeepsLoss, SaveReleasedForOrderKeepsLoss DEF Next
<1>. QED
  BY <1>1, <1>2

\* Until a save has overwritten something its request had not read, nothing of an item is
\* lost: the reserved count is the sum of the active reservations, the stock on hand is what
\* the item was created with plus its adjustments, and the reservations announced and not
\* released are the active ones.
THEOREM NothingIsLost == Spec => []NothingLost
<1>. QED
  BY TypeInit, TypeStep, LossInit, LossStep, LossSuffices, PTL DEF Spec
=============================================================================
