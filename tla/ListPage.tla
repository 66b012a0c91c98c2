------------------------------- MODULE ListPage -------------------------------
(***************************************************************************)
(* apps/web: the account page with its addresses or its saved payment      *)
(* methods, each with its flag isDefault and what it says, for one visit.  *)
(* Nothing is shown before the gateway has answered: a change is sent, and *)
(* then the whole list is asked for.  Opening a form and sending it is one *)
(* step.                                                                   *)
(*                                                                         *)
(* Operators whose name starts with Bug are mistakes the code does not     *)
(* make, put in place of the operator that follows them to see that a      *)
(* property notices.                                                       *)
(***************************************************************************)
EXTENDS Page

Row == [default : BOOLEAN, text : {"old", "new"}]

Command == [do : {"add"}, default : BOOLEAN]
           \cup [do : {"edit"}, row : Ids, default : BOOLEAN]
           \cup [do : {"choose", "remove"}, row : Ids]
           \cup [do : {"again"}]

Marked(rows, row) == [i \in DOMAIN rows |-> [rows[i] EXCEPT !.default = (i = row)]]

Init ==
  /\ HandlerInit
  /\ \E list \in {"addresses", "cards"}, ids \in SUBSET Earlier : \E row \in Earlier :
       /\ ids # {} => row \in ids
       /\ LET rows == [i \in ids |-> [default |-> i = row, text |-> "old"]] IN
          db = [list |-> list, stored |-> rows, shown |-> rows, status |-> "ready", busy |-> {}]

\* What the gateway makes of m; nothing when it refuses.
Made(rows, c, m) ==
  IF m.do # "add" /\ m.row \notin DOMAIN rows THEN {}
  ELSE CASE m.do = "add" ->
              LET all == Upserted(rows, [i \in {c} |-> [default |-> FALSE, text |-> "new"]]) IN
              {IF m.default \/ DOMAIN rows = {} THEN Marked(all, c) ELSE all}
         [] m.do = "edit" -> {[rows EXCEPT ![m.row].text = "new"]}
         [] m.do = "choose" ->
              IF db.list = "addresses" /\ rows[m.row].default THEN {} ELSE {Marked(rows, m.row)}
         [] m.do = "remove" ->
              LET rest == [i \in DOMAIN rows \ {m.row} |-> rows[i]] IN
              IF rows[m.row].default /\ DOMAIN rest # {}
              THEN {Marked(rest, i) : i \in DOMAIN rest}
              ELSE {rest}

-----------------------------------------------------------------------------
(* What the page is like after a step. *)

\* Every address has a busy of its own, the methods have one busyId.
Occupied(row) == [db EXCEPT !.busy = IF db.list = "cards" THEN {row} ELSE @ \cup {row}]
Freed(m) ==
  IF m.do \notin {"choose", "remove"} THEN db
  ELSE [db EXCEPT !.busy = IF db.list = "cards" THEN {} ELSE @ \ {m.row}]
\* setStatus, which only the methods have for one load.
Status(page, status) == [page EXCEPT !.status = IF db.list = "cards" THEN status ELSE @]

\* handleDelete, handleSetDefault, and the forms, which nothing holds back.
Touch(c) ==
  \E m \in Command \ [do : {"again"}] :
    /\ m.do = "edit" => db.list = "addresses"
    /\ m.do # "add" => db.status = "ready" /\ m.row \in DOMAIN db.shown \ db.busy
    /\ m.do = "choose" => ~db.shown[m.row].default
    /\ Press(c, "sent", m, IF m.do \in {"choose", "remove"} THEN Occupied(m.row) ELSE db)

\* Try again
Retry(c) == db.status = "error" /\ Press(c, "asked", [do |-> "again"], Status(db, "loading"))

\* A list that was read before is no longer true.
Answer(c) ==
  /\ phase[c] \in {"sent", "late"}
  /\ \E x \in Made(db.stored, c, command[c]) :
       Serve(c, "sent", x, x, At("listed")) \/ ServeLate(c, x, At("listed"))

Twice(m) == m.do = "edit" /\ m.default

\* updateAddress sends a second request for the default; the first one is served.
SendDefault(c) ==
  /\ Twice(command[c]) /\ Go(c, "served", "sent")
  /\ command' = [command EXCEPT ![c] = [do |-> "choose", row |-> @.row]]
  /\ UNCHANGED <<db, copy, current, faults>>

BugReload(c) == Turn(c, "served", "ok", Freed(command[c]), faults)
Reload(c) == Turn(c, "served", "asked", Status(db, "loading"), faults)

ShowList(c) ==
  Turn(c, "listed", "ok",
       Status([Freed(command[c]) EXCEPT !.shown = copy[c].answer], "ready"), Newest(c))

\* The addresses stay on the page without a word about the change that is stored.
NoList(c) ==
  \E from \in {"asked", "listed"} :
    Turn(c, from, "failed", Status(Freed(command[c]), "error"),
         IF db.list = "cards" THEN faults ELSE faults \cup {"halfDone"})

\* An error of a change, whatever it means: the page says so and stays as it is.
Refuse(c) ==
  \E from \in {"sent", "served"} :
    Turn(c, from, IF from = "sent" THEN "late" ELSE "failed", Freed(command[c]),
         IF from = "served" \/ copy[c].answer # NoCopy THEN faults \cup {"halfDone"} ELSE faults)

Next ==
  \E c \in Calls :
    \/ Touch(c) \/ Retry(c) \/ Answer(c) \/ SendDefault(c) \/ Refuse(c) \/ Never(c)
    \/ ~Twice(command[c]) /\ Reload(c)
    \/ List(c) \/ ShowList(c) \/ NoList(c)

-----------------------------------------------------------------------------
(* Properties *)

IsRows(rows) == DOMAIN rows \subseteq Ids /\ rows \in [DOMAIN rows -> Row]

\* Every variable has its type.
TypeOK ==
  /\ PageTypeOK(Command)
  /\ db.list \in {"addresses", "cards"}
  /\ IsRows(db.stored) /\ IsRows(db.shown)
  /\ db.status \in {"ready", "loading", "error"}
  /\ db.busy \subseteq Ids

\* When nothing is under way and the list is ready, it is the stored one; unless an older
\* list was shown last, or a change was made that the page was never told of, and no newer
\* list has been shown since.
ListShown == Quiet /\ db.status = "ready" /\ faults = {} => db.shown = db.stored
=============================================================================
