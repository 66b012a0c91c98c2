--------------------------------- MODULE Page ---------------------------------
(***************************************************************************)
(* What the pages of apps/web and apps/admin that change something have in *)
(* common: `db` is what the gateway has stored and what the page shows.    *)
(*                                                                         *)
(* A handler of a page runs to its first await in one step, and goes on    *)
(* when the answer is there with the state it saw when it was pressed.     *)
(* The gateway serves a request in one step; what happens inside is in the *)
(* modules of the components.  An error does not tell the page whether the *)
(* request was served: the answer may be lost, and a request that took too *)
(* long may be served when nobody waits for it any more.                   *)
(*                                                                         *)
(* `current` holds the presses since which the page has not changed and,   *)
(* once a request is served, the answers that are still true.              *)
(***************************************************************************)
EXTENDS Handler

PagePhases == {"idle", "sent", "late", "served", "moved", "asked", "listed"} \cup Over

At(p) == {c \in Calls : phase[c] = p}
Quiet == \A c \in Calls : ~Running(c)

\* The page is as tables say from now on, and the request, if there is one, is sent.
Press(c, to, m, tables) ==
  /\ Go(c, "idle", to)
  /\ command' = [command EXCEPT ![c] = m]
  /\ db' = tables
  /\ copy' = [copy EXCEPT ![c] = [before |-> db.shown, answer |-> NoCopy]]
  /\ current' = (current \ At("sent")) \cup {c}
  /\ UNCHANGED faults

\* The gateway makes x of what is stored; the answers of stale are no longer true.
Serve(c, from, x, answer, stale) ==
  /\ Go(c, from, "served")
  /\ db' = [db EXCEPT !.stored = x]
  /\ copy' = [copy EXCEPT ![c].answer = answer]
  /\ current' = (current \ stale) \cup {c}
  /\ UNCHANGED <<command, faults>>

\* Who is done remembers nothing.
Forget(c) ==
  /\ command' = [command EXCEPT ![c] = NoCommand]
  /\ copy' = [copy EXCEPT ![c] = NoCopy]

\* The same after the page gave up on the request; or the request never arrives.
ServeLate(c, x, stale) ==
  /\ Go(c, "late", "failed") /\ Forget(c)
  /\ db' = [db EXCEPT !.stored = x]
  /\ current' = current \ stale
  /\ faults' = faults \cup {"halfDone"}
Never(c) == Go(c, "late", "failed") /\ Forget(c) /\ UNCHANGED <<db, current, faults>>

\* The gateway answers a GET with what is stored.
List(c) ==
  /\ Go(c, "asked", "listed")
  /\ copy' = [copy EXCEPT ![c].answer = db.stored]
  /\ current' = current \cup {c}
  /\ UNCHANGED <<db, command, faults>>

\* A handler goes on: what is shown is as tables say from now on.
Turn(c, from, to, tables, wrong) ==
  /\ Go(c, from, to)
  /\ db' = tables
  /\ current' = current \ (At("sent") \cup IF to \in Over THEN {c} ELSE {})
  /\ faults' = wrong
  /\ command' = IF to \in Over THEN [command EXCEPT ![c] = NoCommand] ELSE command
  /\ copy' = IF to \in Over \cup {"late"} THEN [copy EXCEPT ![c] = NoCopy] ELSE copy

\* What goes wrong when the newest answer is shown, or an older one.
Newest(c) == IF c \in current THEN {} ELSE faults \cup {"outOfOrder"}

\* What goes wrong when a page is put back as it was before a press.
PutBack(c) ==
  faults \cup (IF phase[c] = "served" THEN {"halfDone"}
               ELSE IF c \in current THEN {} ELSE {"overwrote"})

\* Every variable that the pages share has its type.
PageTypeOK(commands) ==
  /\ phase \in [Calls -> PagePhases]
  /\ command \in [Calls -> commands \cup {NoCommand}]
  /\ DOMAIN copy = Calls
  /\ current \subseteq Calls
  /\ faults \subseteq Faults
=============================================================================
