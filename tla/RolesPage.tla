------------------------------- MODULE RolesPage -------------------------------
(***************************************************************************)
(* apps/admin: the page of roles.  It shows every role, one of them with   *)
(* the cells of its permissions, and loads all roles again when the role,  *)
(* the search or the tab is changed and after every change but that of a   *)
(* cell.  A cell stands for its permissions, granted or taken together.    *)
(* Of a role only its granted cells are kept.                              *)
(*                                                                         *)
(* Operators whose name starts with Bug are mistakes the code does not     *)
(* make, put in place of the operator that follows them to see that a      *)
(* property notices.                                                       *)
(***************************************************************************)
EXTENDS Page

CONSTANTS Cells, None

Command == [do : {"toggle"}, role : Ids, cell : Cells, granted : BOOLEAN]
           \cup [do : {"edit", "delete", "duplicate"}, role : Ids]
           \cup [do : {"create"}]
           \cup [do : {"go"}, role : Ids]

\* role is the role of the address bar and seen the selected one that the page shows; busy
\* is assigningKey, load the load that is not cancelled, and asking are the calls that
\* disable their button.
Init ==
  /\ HandlerInit
  /\ \E r \in Earlier : \E ids \in SUBSET Earlier : \E roles \in [ids -> SUBSET Cells] :
       /\ r \in ids
       /\ db = [stored |-> roles, shown |-> roles, status |-> "ready", role |-> r,
                seen |-> r, busy |-> None, load |-> None, asking |-> {}]

With(keys, cell, granted) == IF granted THEN keys \cup {cell} ELSE keys \ {cell}

\* What m makes of the roles; nothing when the role is gone.
Made(roles, c, m) ==
  IF m.do # "create" /\ m.role \notin DOMAIN roles THEN {}
  ELSE CASE m.do = "create" -> {Upserted(roles, [i \in {c} |-> {}])}
         [] m.do = "toggle" -> {[roles EXCEPT ![m.role] = With(@, m.cell, m.granted)]}
         [] m.do = "duplicate" -> {Upserted(roles, [i \in {c} |-> roles[m.role]])}
         [] m.do = "delete" -> {[i \in DOMAIN roles \ {m.role} |-> roles[i]]}
         [] OTHER -> {roles}

\* buildRolesPageViewModel selects the role that was asked for, or the first one.
Selections(roles, role) ==
  IF DOMAIN roles = {} THEN {None} ELSE IF role \in DOMAIN roles THEN {role} ELSE DOMAIN roles

\* handleTogglePermission: the cell is shown changed at once.
Toggle(c) ==
  \E m \in Command :
    /\ m.do = "toggle" /\ db.status = "ready"
    /\ m.role = db.seen /\ m.role \in DOMAIN db.shown
    /\ m.cell # db.busy /\ m.granted = (m.cell \notin db.shown[m.role])
    /\ \E roles \in Made(db.shown, c, m) : \E seen \in Selections(roles, db.role) :
         Press(c, "sent", m, [db EXCEPT !.shown = roles, !.seen = seen, !.busy = m.cell])

\* handleDuplicate, handleDelete and the dialogs, one of each at a time: the page waits.
Ask(c) ==
  \E m \in Command :
    /\ m.do \in {"edit", "delete", "duplicate", "create"}
    /\ \A d \in db.asking : command[d].do # m.do
    /\ \/ db.status = "ready"
       \/ db.status = "error" /\ m.do = "create"
    /\ m.do # "create" => m.role = db.seen /\ m.role \in DOMAIN db.shown
    /\ Press(c, "sent", m, [db EXCEPT !.asking = @ \cup {c}])

\* A page that loads has no dialogs; those it has afterwards know nothing of the calls of
\* the former ones.
Loading(c, role) ==
  [db EXCEPT !.status = "loading", !.role = role, !.seen = None, !.load = c,
             !.asking = {d \in @ \ {c} : command[d].do \in {"delete", "duplicate"}}]

\* The effect runs again, for another role or for the same one, and the load that was
\* under way is cancelled.
Visit(c) == \E m \in Command : m.do = "go" /\ Press(c, "asked", m, Loading(c, m.role))

Loads(m) == m.do \in {"edit", "delete", "duplicate", "create"}

Selected(c, m) ==
  CASE m.do = "delete" -> None [] m.do = "duplicate" -> c [] OTHER -> db.role

Reload(c) ==
  /\ phase[c] = "served" /\ Loads(command[c])
  /\ Turn(c, "served", "asked", Loading(c, Selected(c, command[c])), faults)

\* The whole list; if the selected role is not in it, the page goes to the first one that
\* is, and the effect runs again.
ShowList(c) ==
  LET list == copy[c].answer IN
  /\ phase[c] = "listed" /\ db.load = c
  /\ \E seen \in Selections(list, db.role) :
       Turn(c, "listed", IF seen \in {db.role, None} THEN "ok" ELSE "moved",
            [db EXCEPT !.shown = list, !.status = "ready", !.seen = seen, !.load = None,
                       !.role = IF seen = None THEN @ ELSE seen],
            Newest(c))

Moved(c) == phase[c] = "moved" /\ Turn(c, "moved", "asked", Loading(c, db.role), faults)

\* A cancelled load, or one that failed.
NoList(c) ==
  \E from \in {"asked", "listed"} :
    IF db.load = c
    THEN Turn(c, from, "failed", [db EXCEPT !.status = "error", !.load = None], faults)
    ELSE Turn(c, from, "ok", db, faults)

Toggled(r) == {c \in Calls : command[c].do = "toggle" /\ command[c].role = r}

\* The answers that are no longer true once c is served.
Stale(c) ==
  At("listed") \cup
  (At("served") \cap IF command[c].do \in {"toggle", "delete"} THEN Toggled(command[c].role)
                     ELSE {})

Answer(c) ==
  /\ phase[c] \in {"sent", "late"}
  /\ \E x \in Made(db.stored, c, command[c]) :
       \/ LET m == command[c] IN
          Serve(c, "sent", x, IF m.do = "toggle" THEN [i \in {m.role} |-> x[i]] ELSE NoCopy,
                Stale(c))
       \/ ServeLate(c, x, Stale(c))

\* The roles as the page showed them after the press, and the answer about the one role.
Confirmed(c) ==
  LET m == command[c] IN
  [CHOOSE roles \in Made(copy[c].before, c, m) : TRUE EXCEPT ![m.role] = copy[c].answer[m.role]]

\* What goes wrong: an answer that is no longer true, or other roles as they no longer are.
Confusion(c) ==
  LET r == command[c].role IN
  faults \cup (IF c \in current \/ current \cap At("served") \cap Toggled(r) # {}
               THEN {} ELSE {"outOfOrder"})
         \cup (IF DOMAIN db.shown = DOMAIN Confirmed(c)
                  /\ \A i \in DOMAIN db.shown \ {r} : db.shown[i] = Confirmed(c)[i]
               THEN {} ELSE {"overwrote"})

\* The page with the roles that a toggle leaves there, seen as when it was pressed; nothing
\* is shown while the page loads.
Left(c, roles) ==
  IF db.status = "ready"
  THEN [db EXCEPT !.shown = roles, !.seen = command[c].role, !.busy = None]
  ELSE [db EXCEPT !.busy = None]

\* The answer to a toggle.
Confirm(c) ==
  /\ phase[c] = "served" /\ command[c].do = "toggle"
  /\ Turn(c, "served", "ok", Left(c, Confirmed(c)),
          IF db.status = "ready" THEN Confusion(c) ELSE faults)

BugRestored(c) == db.shown
Restored(c) == copy[c].before

\* An error, whatever it means: all roles as they were before a toggle.
Refuse(c) ==
  LET toggle == command[c].do = "toggle"
      page == IF toggle THEN Left(c, Restored(c)) ELSE [db EXCEPT !.asking = @ \ {c}] IN
  \E from \in {"sent", "served"} :
    Turn(c, from, IF from = "sent" THEN "late" ELSE "failed", page,
         IF from = "served" \/ (toggle /\ db.status = "ready") THEN PutBack(c) ELSE faults)

Next ==
  \E c \in Calls :
    \/ Toggle(c) \/ Ask(c) \/ Visit(c) \/ Answer(c) \/ Confirm(c) \/ Refuse(c) \/ Never(c)
    \/ Reload(c) \/ Moved(c) \/ List(c) \/ ShowList(c) \/ NoList(c)

-----------------------------------------------------------------------------
(* Properties *)

IsRoles(roles) == DOMAIN roles \subseteq Ids /\ roles \in [DOMAIN roles -> SUBSET Cells]

\* Every variable has its type.
TypeOK ==
  /\ PageTypeOK(Command)
  /\ IsRoles(db.stored) /\ IsRoles(db.shown)
  /\ db.status \in {"ready", "loading", "error"}
  /\ {db.role, db.seen} \subseteq Ids \cup {None} /\ db.busy \in Cells \cup {None}
  /\ db.load \in Calls \cup {None} /\ db.asking \subseteq Calls

\* When nothing is under way and the page is ready, it shows the roles as they are stored;
\* unless an older answer or an older state of other roles was shown, the page was put back
\* over a later change, or a change was made that the page was never told of, and no
\* newer list has been shown since.
RolesShown == Quiet /\ db.status = "ready" /\ faults = {} => db.shown = db.stored
=============================================================================
