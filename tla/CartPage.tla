------------------------------- MODULE CartPage -------------------------------
(***************************************************************************)
(* apps/web: the page of a cart, for one visit.  A line that was just      *)
(* added has a name of the page's own, here its product, until the answer  *)
(* brings the real one.  Whether a line is selected is kept by the page    *)
(* alone and used by nothing behind it; it is left out, as are prices.     *)
(*                                                                         *)
(* Operators whose name starts with Bug are mistakes the code does not     *)
(* make, put in place of the operator that follows them to see that a      *)
(* property notices.                                                       *)
(***************************************************************************)
EXTENDS Page

CONSTANTS Products,    \* none has the name of a call or of what was created
          Quantities

LineNames == Ids \cup Products
Line == [product : Products, quantity : Nat]

Command == [do : {"change"}, line : LineNames, quantity : Quantities]
           \cup [do : {"remove"}, line : LineNames]
           \cup [do : {"add"}, product : Products]

Init ==
  /\ HandlerInit
  /\ \E ids \in SUBSET Earlier :
       \E lines \in [ids -> [product : Products, quantity : Quantities]] :
         /\ \A i, j \in ids : lines[i].product = lines[j].product => i = j
         /\ db = [stored |-> lines, shown |-> lines]

\* One more of a product, in a line called name if it has none.
OneMore(lines, name, product) ==
  LET same == {i \in DOMAIN lines : lines[i].product = product} IN
  Upserted(lines, IF same = {}
                  THEN [i \in {name} |-> [product |-> product, quantity |-> 1]]
                  ELSE [i \in same |-> [lines[i] EXCEPT !.quantity = @ + 1]])

\* What m makes of lines, on the page and at the gateway; nothing when its line is gone.
Made(lines, name, m) ==
  IF m.do # "add" /\ m.line \notin DOMAIN lines THEN {}
  ELSE CASE m.do = "add" -> {OneMore(lines, name, m.product)}
         [] m.do = "change" -> {[lines EXCEPT ![m.line].quantity = m.quantity]}
         [] m.do = "remove" -> {[i \in DOMAIN lines \ {m.line} |-> lines[i]]}

\* isGatewayId: a line with a name of the page's own is changed on the page alone.
Local(m) == m.do # "add" /\ m.line \in Products

\* handleQuantityChange, handleRemove, handleAddRecommendation
Touch(c) ==
  \E m \in Command :
    \E lines \in Made(db.shown, IF m.do = "add" THEN m.product ELSE c, m) :
      Press(c, IF Local(m) THEN "ok" ELSE "sent", m, [db EXCEPT !.shown = lines])

Answer(c) ==
  /\ phase[c] \in {"sent", "late"}
  /\ \E x \in Made(db.stored, c, command[c]) :
       Serve(c, "sent", x, x, At("served")) \/ ServeLate(c, x, At("served"))

\* syncFromCartDto
BugShow(c) == Turn(c, "served", "ok", db, Newest(c))
Show(c) == Turn(c, "served", "ok", [db EXCEPT !.shown = copy[c].answer], Newest(c))

BugRestore(c) ==
  \E from \in {"sent", "served"} :
    Turn(c, from, IF from = "sent" THEN "late" ELSE "failed", db, PutBack(c))
\* An error, whatever it means, puts back the lines as they were before the press.
Restore(c) ==
  \E from \in {"sent", "served"} :
    Turn(c, from, IF from = "sent" THEN "late" ELSE "failed",
         [db EXCEPT !.shown = copy[c].before], PutBack(c))

Next ==
  \E c \in Calls :
    \/ Touch(c) \/ Answer(c) \/ Show(c) \/ Restore(c) \/ Never(c)

-----------------------------------------------------------------------------
(* Properties *)

IsLines(lines, names) == DOMAIN lines \subseteq names /\ lines \in [DOMAIN lines -> Line]

\* Every variable has its type.
TypeOK ==
  /\ PageTypeOK(Command)
  /\ db = [stored |-> db.stored, shown |-> db.shown]
  /\ IsLines(db.stored, Ids) /\ IsLines(db.shown, LineNames)

\* When nothing is under way, the page shows the cart that is stored; unless an older
\* answer was shown last, the page was put back over a later change, or a change was made
\* that the page was never told of, and no newer answer has been shown since.
CartShown == Quiet /\ faults = {} => db.shown = db.stored
=============================================================================
