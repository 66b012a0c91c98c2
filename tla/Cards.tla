--------------------------------- MODULE Cards ---------------------------------
(***************************************************************************)
(* modules/payment: the saved payment methods of one customer.  A save     *)
(* writes the methods that a call changed and no others, so a method that  *)
(* was deleted meanwhile comes back.  Removing the default takes two       *)
(* transactions: the deletion, and the mark on another method.             *)
(*                                                                         *)
(* Operators whose name starts with Bug are mistakes the code does not     *)
(* make, put in place of the operator that follows them to see that a      *)
(* property notices.                                                       *)
(***************************************************************************)
EXTENDS Handler

Command == [do : {"add"}, default : BOOLEAN] \cup [do : {"remove", "setDefault"}, card : Ids]

\* A method is its flag isDefault.
Init ==
  /\ HandlerInit
  /\ \E ids \in SUBSET Earlier : \E i \in Earlier :
       /\ ids # {} => i \in ids
       /\ db = [j \in ids |-> j = i]

\* findByCustomerId, or for a removal findById.
Find(c) ==
  /\ Take(c, "begun", "loaded", db)
  /\ command[c].do = "remove" => command[c].card \in DOMAIN db

Defaults(cards) == {i \in DOMAIN cards : cards[i]}

Added(cards, c, default) ==
  LET makeDefault == default \/ DOMAIN cards = {} IN
  [i \in {c} \cup (IF makeDefault THEN Defaults(cards) ELSE {}) |-> i = c /\ makeDefault]

BugChosen(cards, card) == [i \in {card} |-> TRUE]
Chosen(cards, card) == [i \in Defaults(cards) \cup {card} |-> i = card]

\* What a call writes: the methods it changed.
Changed(cards, c, m) ==
  CASE m.do = "add" -> {Added(cards, c, m.default)}
    [] m.do = "setDefault" -> {w \in {Chosen(cards, m.card)} : m.card \in DOMAIN cards}
    [] OTHER -> {}

\* saveMany
Save(c) ==
  \E w \in Changed(copy[c], c, command[c]) : Commit(c, "loaded", "ok", Upserted(db, w))

Without(cards, card) == [i \in DOMAIN cards \ {card} |-> cards[i]]

\* delete() of a row that is gone fails.
Delete(c) ==
  LET card == command[c].card IN
  /\ command[c].do = "remove"
  /\ card \in DOMAIN db
  /\ Commit(c, "loaded", IF copy[c][card] THEN "written" ELSE "ok", Without(db, card))

\* The other methods, defaults first; their order by age is left out.
FindOthers(c) == Take(c, "written", "again", db)

Elect(c) ==
  IF DOMAIN copy[c] = {} THEN End(c, "again")
  ELSE \E i \in DOMAIN copy[c] :
         /\ Defaults(copy[c]) # {} => i \in Defaults(copy[c])
         /\ Commit(c, "again", "ok", Upserted(db, [j \in {i} |-> TRUE]))

Next ==
  \E c \in Calls :
    \/ \E m \in Command : Begin(c, m)
    \/ Find(c) \/ Save(c) \/ Delete(c) \/ FindOthers(c) \/ Elect(c) \/ Fail(c)

-----------------------------------------------------------------------------
(* Properties *)

IsCards(cards) == DOMAIN cards \subseteq Ids /\ cards \in [DOMAIN cards -> BOOLEAN]

\* Every variable has its type.
TypeOK ==
  /\ HandlerTypeOK(Command)
  /\ IsCards(db)
  /\ \A c \in Calls : IsCards(copy[c])

\* A customer with saved methods has exactly one default method, unless a save has undone
\* another, a removal stopped in the middle, or is in the middle.
OneDefaultCard ==
  /\ faults = {}
  /\ \A c \in Calls : phase[c] \notin {"written", "again"}
  /\ DOMAIN db # {}
  => \E i \in DOMAIN db : Defaults(db) = {i}
=============================================================================
