------------------------------- MODULE Identity -------------------------------
(***************************************************************************)
(* modules/identity for one account: its status, password and roles, its   *)
(* refresh sessions, its reset tokens, and the calls that change them.     *)
(*                                                                         *)
(* Most calls load the whole account (the row first, then its children     *)
(* with SELECTs of their own), change it in memory and save all of it in   *)
(* one transaction; some also change rows with an UPDATE of their own      *)
(* before that.  Nothing ties a save to its load: whatever was committed   *)
(* in between, by a call about something else, is written back as the copy *)
(* remembers it.  Sessions are never deleted.                              *)
(*                                                                         *)
(* A session is named by the call that makes it.  `disabled` changes       *)
(* together with the status and is part of it.  Time is left out: a token  *)
(* that has expired is one of the reasons of Fail.                         *)
(*                                                                         *)
(* Operators whose name starts with Bug are mistakes the code does not     *)
(* make, put in place of the operator that follows them to see that a      *)
(* property notices.                                                       *)
(***************************************************************************)
EXTENDS Integers, Sequences, SessionNames

CONSTANTS Passwords, Roles

Ids == Calls \cup {First}
Statuses == {"ACTIVE", "LOCKED"}
Session == [revoked : BOOLEAN, closed : BOOLEAN, next : Ids \cup {None}]
NewSession == [revoked |-> FALSE, closed |-> FALSE, next |-> None]
NoAccount == [status |-> "ACTIVE", hash |-> None, roles |-> {}, sessions |-> [s \in {} |-> None]]

Command ==
  [do : {"oauth", "logout", "request", "lock", "unlock"}]
    \cup [do : {"login"}, password : Passwords]
    \cup [do : {"refresh", "leave"}, token : Ids]
    \cup [do : {"change"}, old : Passwords, new : Passwords]
    \cup [do : {"reset"}, token : Calls, new : Passwords]
    \cup [do : {"assign", "revoke"}, role : Roles]
NoCommand == [do |-> "none"]

\* What the handlers read and write, one after the other.
Steps(m) ==
  CASE m.do = "refresh" -> <<"token", "row", "children", "save">>
    [] m.do = "leave" -> <<"row", "children", "token", "save">>
    [] m.do = "logout" -> <<"row", "children", "revokeAll">>
    [] m.do = "change" -> <<"row", "children", "revokeAll", "save">>
    [] m.do = "request" -> <<"row", "children", "invalidate", "issue", "save">>
    [] m.do = "reset" -> <<"resetToken", "row", "children", "use", "revokeAll", "save">>
    [] OTHER -> <<"row", "children", "save">>
StepNames == {"row", "children", "token", "save", "revokeAll", "invalidate", "issue",
              "resetToken", "use"}

VARIABLES
  account,    \* the row of the account and its children
  resets,     \* [ids of the stored reset tokens -> whether they are used]
  command,    \* [Calls -> what the call asks for]
  todo,       \* [Calls -> its steps to come]
  copy,       \* [Calls -> the account in its memory while it runs]
  outcome,    \* [Calls -> how it ended]
  current,    \* history: the calls whose copy nobody has committed past
  overwrote   \* history: some save wrote a copy that was not current

vars == <<account, resets, command, todo, copy, outcome, current, overwrote>>

Outcomes == {"none", "ok", "failed"}
Running(c) == todo[c] # <<>>
Done(c) == outcome[c] # "none"

Init ==
  /\ \E p \in Passwords :
       account = [status |-> "ACTIVE", hash |-> p, roles |-> {},
                  sessions |-> [s \in {First} |-> NewSession]]
  /\ resets = [k \in {} |-> FALSE]
  /\ command = [c \in Calls |-> NoCommand]
  /\ todo = [c \in Calls |-> <<>>]
  /\ copy = [c \in Calls |-> NoAccount]
  /\ outcome = [c \in Calls |-> "none"]
  /\ current = {}
  /\ overwrote = FALSE

Start(c, m) ==
  /\ command[c] = NoCommand
  /\ command' = [command EXCEPT ![c] = m]
  /\ todo' = [todo EXCEPT ![c] = Steps(m)]
  /\ UNCHANGED <<account, resets, copy, outcome, current, overwrote>>

\* The call takes its next step; after its last one it answers.
Step(c, name) ==
  /\ Running(c)
  /\ Head(todo[c]) = name
  /\ todo' = [todo EXCEPT ![c] = Tail(@)]
  /\ outcome' = [outcome EXCEPT ![c] = IF Tail(todo[c]) = <<>> THEN "ok" ELSE @]
  /\ UNCHANGED command

\* findByTokenHash.  A refresh wants a valid session, a logout any.
FindSession(c) ==
  /\ Step(c, "token")
  /\ command[c].token \in DOMAIN account.sessions
  /\ command[c].do = "refresh" => ~account.sessions[command[c].token].revoked
  /\ UNCHANGED <<account, resets, copy, current, overwrote>>

FindResetToken(c) ==
  /\ Step(c, "resetToken")
  /\ command[c].token \in DOMAIN resets
  /\ ~resets[command[c].token]
  /\ UNCHANGED <<account, resets, copy, current, overwrote>>

FindRow(c) ==
  /\ Step(c, "row")
  /\ copy' = [copy EXCEPT ![c].status = account.status]
  /\ current' = current \cup {c}
  /\ UNCHANGED <<account, resets, overwrote>>

-----------------------------------------------------------------------------
(* The aggregate's methods, on a copy. *)

Revoked(s) == [s EXCEPT !.revoked = TRUE, !.closed = TRUE, !.next = None]
RevokeAll(k) ==
  [k EXCEPT !.sessions = [s \in DOMAIN @ |-> IF @[s].revoked THEN @[s] ELSE Revoked(@[s])]]

\* addRefreshSession
WithSession(k, c) ==
  [k EXCEPT !.sessions = [s \in DOMAIN @ \cup {c} |-> IF s = c THEN NewSession ELSE @[s]]]

\* rotateRefreshSession
BugRotated(k, old, c) == WithSession(k, c)
Rotated(k, old, c) ==
  WithSession([k EXCEPT !.sessions[old] = [@ EXCEPT !.revoked = TRUE, !.closed = TRUE, !.next = c]], c)

BugLocked(k) == [k EXCEPT !.status = "LOCKED"]
Locked(k) == [RevokeAll(k) EXCEPT !.status = "LOCKED"]

When(condition, k) == IF condition THEN {k} ELSE {}

\* What the handler of m makes of a copy; nothing when it refuses.
Changed(k, c, m) ==
  CASE m.do = "login" ->
         When(k.hash = m.password /\ k.status = "ACTIVE", WithSession(k, c))
    [] m.do = "oauth" -> When(k.status = "ACTIVE", WithSession(k, c))
    [] m.do = "refresh" ->
         {Rotated(k, s, c) : s \in {t \in DOMAIN k.sessions : t = m.token /\ ~k.sessions[t].revoked}}
    [] m.do = "leave" ->
         {[k EXCEPT !.sessions = [s \in DOMAIN @ |-> IF s = m.token THEN Revoked(@[s]) ELSE @[s]]]}
    [] m.do = "change" -> When(k.hash = m.old, [RevokeAll(k) EXCEPT !.hash = m.new])
    [] m.do = "reset" -> {[RevokeAll(k) EXCEPT !.hash = m.new]}
    [] m.do = "lock" -> When(k.status = "ACTIVE", Locked(k))
    [] m.do = "unlock" -> When(k.status = "LOCKED", [k EXCEPT !.status = "ACTIVE"])
    [] m.do = "assign" -> When(m.role \notin k.roles, [k EXCEPT !.roles = @ \cup {m.role}])
    [] m.do = "revoke" -> When(m.role \in k.roles, [k EXCEPT !.roles = @ \ {m.role}])
    [] OTHER -> {k}

\* The children are read and the handler decides.
FindChildren(c) ==
  /\ Step(c, "children")
  /\ \E k \in Changed([account EXCEPT !.status = copy[c].status], c, command[c]) :
       copy' = [copy EXCEPT ![c] = k]
  /\ UNCHANGED <<account, resets, current, overwrote>>

-----------------------------------------------------------------------------
(* Transactions. *)

\* A column that the copy leaves undefined stays as it is.
Stored(old, new) ==
  [revoked |-> new.revoked,
   closed  |-> old.closed \/ new.revoked,
   next    |-> IF new.next = None THEN old.next ELSE new.next]

BugUpserted(old, new) ==
  [s \in DOMAIN old \cup DOMAIN new |-> IF s \in DOMAIN old THEN old[s] ELSE new[s]]
\* The stored sessions after every session of a copy was upserted.
Upserted(old, new) ==
  [s \in DOMAIN old \cup DOMAIN new |->
     IF s \notin DOMAIN new THEN old[s]
     ELSE IF s \notin DOMAIN old THEN new[s] ELSE Stored(old[s], new[s])]

\* PrismaIdentityRepository.save: the row, the credential, the roles, the sessions.
Save(c) ==
  /\ Step(c, "save")
  /\ account' = [copy[c] EXCEPT !.sessions = Upserted(account.sessions, @)]
  /\ overwrote' = (overwrote \/ c \notin current)
  /\ current' = current \cap {c}
  /\ copy' = [copy EXCEPT ![c] = NoAccount]
  /\ UNCHANGED resets

\* revokeAllForIdentity
RevokeSessions(c) ==
  /\ Step(c, "revokeAll")
  /\ account' = [account EXCEPT !.sessions =
       [s \in DOMAIN @ |-> [@[s] EXCEPT !.revoked = TRUE, !.closed = TRUE]]]
  /\ current' = current \cap {c}
  /\ UNCHANGED <<resets, copy, overwrote>>

\* invalidateAllForIdentity
Invalidate(c) ==
  /\ Step(c, "invalidate")
  /\ resets' = [k \in DOMAIN resets |-> TRUE]
  /\ UNCHANGED <<account, copy, current, overwrote>>

\* A reset token is saved, new or marked as used.
SaveResetToken(c) ==
  /\ \/ /\ Step(c, "issue")
        /\ resets' = [k \in DOMAIN resets \cup {c} |-> k # c /\ resets[k]]
     \/ /\ Step(c, "use")
        /\ resets' = [resets EXCEPT ![command[c].token] = TRUE]
  /\ UNCHANGED <<account, copy, current, overwrote>>

\* A refusal, an error of PostgreSQL, or a stop, between any two steps.
Fail(c) ==
  /\ Running(c)
  /\ todo' = [todo EXCEPT ![c] = <<>>]
  /\ outcome' = [outcome EXCEPT ![c] = "failed"]
  /\ copy' = [copy EXCEPT ![c] = NoAccount]
  /\ UNCHANGED <<account, resets, command, current, overwrote>>

Work(c) ==
  \/ FindSession(c) \/ FindResetToken(c) \/ FindRow(c) \/ FindChildren(c)
  \/ Save(c) \/ RevokeSessions(c) \/ Invalidate(c) \/ SaveResetToken(c) \/ Fail(c)

Next == \E c \in Calls : Work(c) \/ \E m \in Command : Start(c, m)

Spec == Init /\ [][Next]_vars

-----------------------------------------------------------------------------
(* Properties *)

IsAccount(k) ==
  /\ k \in [status : Statuses, hash : Passwords \cup {None}, roles : SUBSET Roles,
            sessions : {k.sessions}]
  /\ k.sessions \in [DOMAIN k.sessions -> Session]
  /\ DOMAIN k.sessions \subseteq Ids

\* Every variable has its type.
TypeOK ==
  /\ IsAccount(account)
  /\ DOMAIN resets \subseteq Calls
  /\ resets \in [DOMAIN resets -> BOOLEAN]
  /\ command \in [Calls -> Command \cup {NoCommand}]
  /\ todo \in [Calls -> Seq(StepNames)]
  /\ copy \in [Calls -> {copy[c] : c \in Calls}] /\ \A c \in Calls : IsAccount(copy[c])
  /\ outcome \in [Calls -> Outcomes]
  /\ current \subseteq Calls
  /\ overwrote \in BOOLEAN

Live(s) == ~account.sessions[s].revoked

\* Whoever holds a session that a refresh made holds it in exchange for the one the
\* refresh presented: that one has been closed and says so for ever, however stale the
\* copies are that other calls save.
RotationClosesTheOld ==
  \A c \in Calls \cap DOMAIN account.sessions :
    command[c].do = "refresh" => account.sessions[command[c].token].closed

LinkedChains ==
  /\ \A s \in DOMAIN account.sessions : account.sessions[s].next # None => ~Live(s)
  /\ \A c \in Calls \cap DOMAIN account.sessions :
       command[c].do = "refresh" => account.sessions[command[c].token].next = c
LockedOut == account.status = "LOCKED" => \A s \in DOMAIN account.sessions : ~Live(s)

\* Unless a save has undone another call's commit, whichever sign-ins, refreshes and
\* administrators met: no session has two successors, one that has a successor is over,
\* every successor is linked to the one it replaced, and a locked account has no valid
\* session.
SessionsInOrder == ~overwrote => LinkedChains /\ LockedOut
=============================================================================
