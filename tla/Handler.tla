-------------------------------- MODULE Handler --------------------------------
(***************************************************************************)
(* What the handlers of the smaller modules (user, payment's saved         *)
(* methods, promotion, catalog, shipping, review) have in common: a call   *)
(* loads an aggregate into memory, decides on that copy, and saves it      *)
(* whole in one transaction.  No version ties the save to the load.        *)
(* The module of each component extends this one, says what its tables     *)
(* hold (`db`) and combines the steps below.                               *)
(***************************************************************************)
EXTENDS Integers, Sequences, HandlerNames

Ids == Calls \cup Earlier

VARIABLES
  db,        \* the component's tables
  phase,     \* [Calls -> how far the call is]
  command,   \* [Calls -> what it asks for]
  copy,      \* [Calls -> the aggregate in its memory]
  current,   \* history: the calls whose copy nobody has committed past
  faults     \* history: what went wrong so far

handlerVars == <<db, phase, command, copy, current, faults>>

Phases == {"idle", "begun", "loaded", "written", "again", "ok", "failed"}
Faults == {"overwrote", "halfDone", "outOfOrder"}
Over == {"ok", "failed"}
Running(c) == phase[c] \notin {"idle"} \cup Over
NoCopy == <<>>
NoCommand == [do |-> "none"]

HandlerInit ==
  /\ phase = [c \in Calls |-> "idle"]
  /\ command = [c \in Calls |-> NoCommand]
  /\ copy = [c \in Calls |-> NoCopy]
  /\ current = {}
  /\ faults = {}

Go(c, from, to) == phase[c] = from /\ phase' = [phase EXCEPT ![c] = to]

Begin(c, m) ==
  /\ Go(c, "idle", "begun")
  /\ command' = [command EXCEPT ![c] = m]
  /\ UNCHANGED <<db, copy, current, faults>>

\* A SELECT: x is what the call remembers of the tables.
Take(c, from, to, x) ==
  /\ Go(c, from, to)
  /\ copy' = [copy EXCEPT ![c] = x]
  /\ current' = current \cup {c}
  /\ UNCHANGED <<db, command, faults>>

\* A transaction that makes x of the tables; the copy it decided on is remembered, and
\* those of the calls in stale are out of date from now on.
CommitPast(c, from, to, x, stale) ==
  /\ Go(c, from, to)
  /\ db' = x
  /\ faults' = faults \cup (IF c \in current THEN {} ELSE {"overwrote"})
  /\ current' = current \ stale
  /\ UNCHANGED <<command, copy>>
Commit(c, from, to, x) == CommitPast(c, from, to, x, Calls)

\* The call ends without a step of its own.
End(c, from) == Go(c, from, "ok") /\ UNCHANGED <<db, command, copy, current, faults>>

\* A refusal, an error of PostgreSQL, or a stop, between any two steps.
Fail(c) ==
  /\ Running(c)
  /\ phase' = [phase EXCEPT ![c] = "failed"]
  /\ copy' = [copy EXCEPT ![c] = NoCopy]
  /\ faults' = faults \cup (IF phase[c] \in {"written", "again"} THEN {"halfDone"} ELSE {})
  /\ UNCHANGED <<db, command, current>>

\* The rows of new in place of, and beside, those of old.
Upserted(old, new) ==
  [i \in DOMAIN old \cup DOMAIN new |-> IF i \in DOMAIN new THEN new[i] ELSE old[i]]

\* Every variable that the handlers share has its type.
HandlerTypeOK(commands) ==
  /\ phase \in [Calls -> Phases]
  /\ command \in [Calls -> commands \cup {NoCommand}]
  /\ DOMAIN copy = Calls
  /\ current \subseteq Calls
  /\ faults \subseteq Faults
=============================================================================
