----------------------------- MODULE SignInProofs -----------------------------
(***************************************************************************)
(* Theorems about SignIn, for any scenes, tabs, calls, passwords and roles.*)
(*                                                                         *)
(* First what holds of the account alone, whatever calls Identity gets.  A *)
(* refresh closes the session it presents in the same copy that gives out  *)
(* its own.  A copy may be old when it is saved, but `closed` (the column  *)
(* revoked_at) is never taken back and no row is ever deleted: so in every *)
(* copy that has the session of a refresh, the one it presented is there   *)
(* too, revoked in the copy or closed in the database (Covered).  While no *)
(* save undoes another call's commit, what a call in `current` holds would *)
(* leave the sessions in order if it were saved now (Fresh); and whatever  *)
(* is overwritten, a successor is the session of a refresh that presented  *)
(* the one it succeeds (Linked).                                           *)
(*                                                                         *)
(* Then the browser.  Whatever the tabs do, the server sees steps of       *)
(* Identity or nothing (ServerMoves): so all of this holds of it here.     *)
(* That a tab asks with a session of the server needs the type of the      *)
(* cookie.  What the cookie names takes both sides: what the jobs of the   *)
(* tabs ask and bring (Calm), and the links of the chain (ChainInv).       *)
(***************************************************************************)
EXTENDS SignIn, TLAPS

-----------------------------------------------------------------------------
(* The account. *)

\* Sessions as an account or a copy has them.
Sound(f) ==
  /\ f \in [DOMAIN f -> Server!Session]
  /\ DOMAIN f \subseteq Server!Ids
  /\ \A s \in DOMAIN f : f[s].revoked => f[s].closed

LEMMA AccountSessions ==
  ASSUME NEW k, Server!IsAccount(k)
  PROVE  /\ k = [status |-> k.status, hash |-> k.hash, roles |-> k.roles, sessions |-> k.sessions]
         /\ k.status \in Server!Statuses /\ k.hash \in Passwords \cup {None} /\ k.roles \in SUBSET Roles
BY DEF Server!IsAccount

\* A change of one column.
LEMMA NewAccount ==
  ASSUME NEW k, NEW f, Server!IsAccount(k), Sound(f)
  PROVE  Server!IsAccount([k EXCEPT !.sessions = f]) /\ [k EXCEPT !.sessions = f].sessions = f
BY AccountSessions DEF Server!IsAccount, Sound

LEMMA NewStatus ==
  ASSUME NEW k, Server!IsAccount(k), NEW s \in Server!Statuses
  PROVE  Server!IsAccount([k EXCEPT !.status = s]) /\ [k EXCEPT !.status = s].sessions = k.sessions
BY AccountSessions DEF Server!IsAccount

LEMMA NewHash ==
  ASSUME NEW k, Server!IsAccount(k), NEW h \in Passwords
  PROVE  Server!IsAccount([k EXCEPT !.hash = h]) /\ [k EXCEPT !.hash = h].sessions = k.sessions
BY AccountSessions DEF Server!IsAccount

LEMMA NewRoles ==
  ASSUME NEW k, Server!IsAccount(k), NEW r \in SUBSET Roles
  PROVE  Server!IsAccount([k EXCEPT !.roles = r]) /\ [k EXCEPT !.roles = r].sessions = k.sessions
BY AccountSessions DEF Server!IsAccount

\* g has the sessions of f, possibly with the one of c, and revokes what f does.
Follows(g, f, c) ==
  /\ Sound(g)
  /\ DOMAIN f \subseteq DOMAIN g /\ DOMAIN g \subseteq DOMAIN f \cup {c}
  /\ \A s \in DOMAIN f : s # c /\ f[s].revoked => g[s].revoked

LEMMA SessionTypes ==
  /\ Server!NewSession \in Server!Session /\ ~Server!NewSession.revoked
  /\ \A s \in Server!Session : Server!Revoked(s) \in Server!Session /\ Server!Revoked(s).revoked /\ Server!Revoked(s).closed
  /\ \A s \in Server!Session, c \in Server!Ids :
       LET t == [s EXCEPT !.revoked = TRUE, !.closed = TRUE, !.next = c] IN
       t \in Server!Session /\ t.revoked /\ t.closed
BY DEF Server!NewSession, Server!Session, Server!Revoked

LEMMA RevokeAllFollows ==
  ASSUME NEW k, Server!IsAccount(k), Sound(k.sessions), NEW c
  PROVE  Server!IsAccount(Server!RevokeAll(k)) /\ Follows(Server!RevokeAll(k).sessions, k.sessions, c)
<1> DEFINE g == [s \in DOMAIN k.sessions |->
                   IF k.sessions[s].revoked THEN k.sessions[s] ELSE Server!Revoked(k.sessions[s])]
<1>1. Sound(g) /\ Follows(g, k.sessions, c)
  BY SessionTypes DEF Sound, Follows
<1>2. Server!RevokeAll(k) = [k EXCEPT !.sessions = g]
  BY DEF Server!RevokeAll
<1> QED BY <1>1, <1>2, NewAccount

LEMMA WithSessionFollows ==
  ASSUME NEW k, Server!IsAccount(k), Sound(k.sessions), NEW c \in Calls
  PROVE  /\ Server!IsAccount(Server!WithSession(k, c)) /\ Follows(Server!WithSession(k, c).sessions, k.sessions, c)
         /\ c \in DOMAIN Server!WithSession(k, c).sessions
         /\ \A s \in DOMAIN k.sessions : s # c => Server!WithSession(k, c).sessions[s] = k.sessions[s]
<1> DEFINE g == [s \in DOMAIN k.sessions \cup {c} |-> IF s = c THEN Server!NewSession ELSE k.sessions[s]]
<1>1. Sound(g) /\ Follows(g, k.sessions, c)
  BY SessionTypes DEF Sound, Follows, Server!Ids
<1>2. Server!WithSession(k, c) = [k EXCEPT !.sessions = g]
  BY DEF Server!WithSession
<1>3. Server!WithSession(k, c).sessions = g /\ Server!IsAccount(Server!WithSession(k, c))
  BY <1>1, <1>2, NewAccount
<1> QED BY <1>1, <1>3

LEMMA RotatedFollows ==
  ASSUME NEW k, Server!IsAccount(k), Sound(k.sessions), NEW c \in Calls,
         NEW old \in DOMAIN k.sessions, old # c
  PROVE  /\ Server!IsAccount(Server!Rotated(k, old, c)) /\ Follows(Server!Rotated(k, old, c).sessions, k.sessions, c)
         /\ Server!Rotated(k, old, c).sessions[old].revoked
<1> DEFINE g == [k.sessions EXCEPT ![old] =
                   [k.sessions[old] EXCEPT !.revoked = TRUE, !.closed = TRUE, !.next = c]]
           l == [k EXCEPT !.sessions = g]
<1>1. DOMAIN g = DOMAIN k.sessions /\ Sound(g) /\ g[old].revoked
      /\ \A s \in DOMAIN k.sessions : k.sessions[s].revoked => g[s].revoked
  BY SessionTypes DEF Sound, Server!Ids
<1> HIDE DEF g
<1>2. Server!IsAccount(l) /\ l.sessions = g
  BY <1>1, NewAccount
<1>3. Server!Rotated(k, old, c) = Server!WithSession(l, c)
  BY DEF Server!Rotated, g
<1> HIDE DEF l
<1>4. /\ Server!IsAccount(Server!WithSession(l, c)) /\ Follows(Server!WithSession(l, c).sessions, g, c)
      /\ Server!WithSession(l, c).sessions[old] = g[old]
  BY <1>1, <1>2, WithSessionFollows
<1> QED BY <1>1, <1>3, <1>4 DEF Follows

LEMMA LeaveFollows ==
  ASSUME NEW k, Server!IsAccount(k), Sound(k.sessions), NEW c, NEW token,
         NEW l, l = [k EXCEPT !.sessions =
                       [s \in DOMAIN @ |-> IF s = token THEN Server!Revoked(@[s]) ELSE @[s]]]
  PROVE  Server!IsAccount(l) /\ Follows(l.sessions, k.sessions, c)
<1> DEFINE g == [s \in DOMAIN k.sessions |->
                   IF s = token THEN Server!Revoked(k.sessions[s]) ELSE k.sessions[s]]
<1>1. Sound(g) /\ Follows(g, k.sessions, c)
  BY SessionTypes DEF Sound, Follows
<1>2. l = [k EXCEPT !.sessions = g]
  OBVIOUS
<1> QED BY <1>1, <1>2, NewAccount

GivesSession == {"login", "oauth", "refresh"}

\* What a handler makes of a copy: only three kinds of call add a session, their own, and
\* a refresh has revoked the one it presents.
LEMMA ChangedFollows ==
  ASSUME NEW k, Server!IsAccount(k), Sound(k.sessions), NEW c \in Calls, c \notin DOMAIN k.sessions,
         NEW m \in Server!Command \cup {Server!NoCommand}, NEW l \in Server!Changed(k, c, m)
  PROVE  /\ Server!IsAccount(l) /\ Follows(l.sessions, k.sessions, c)
         /\ c \in DOMAIN l.sessions => m.do \in GivesSession
         /\ m.do = "refresh" =>
              m.token \in DOMAIN k.sessions /\ l.sessions[m.token].revoked
<1>1. /\ Follows(k.sessions, k.sessions, c)
      /\ \A g : Follows(g, k.sessions, c) => Sound(g)
  BY DEF Follows
<1>2. CASE m.do \in {"login", "oauth"}
  <2>1. l = Server!WithSession(k, c)
    BY <1>2 DEF Server!Changed, Server!When
  <2> QED BY <1>2, <2>1, WithSessionFollows DEF GivesSession
<1>3. CASE m.do = "refresh"
  <2>1. PICK old \in DOMAIN k.sessions : old = m.token /\ l = Server!Rotated(k, old, c)
    BY <1>3 DEF Server!Changed
  <2>2. old # c
    OBVIOUS
  <2> QED BY <1>3, <2>1, <2>2, RotatedFollows DEF GivesSession
<1>4. CASE m.do = "leave"
  <2>1. l = [k EXCEPT !.sessions =
               [s \in DOMAIN @ |-> IF s = m.token THEN Server!Revoked(@[s]) ELSE @[s]]]
    BY <1>4 DEF Server!Changed
  <2>2. Server!IsAccount(l) /\ Follows(l.sessions, k.sessions, c)
    BY <2>1, LeaveFollows
  <2>3. DOMAIN l.sessions = DOMAIN k.sessions
    BY <2>1, AccountSessions
  <2> QED BY <1>4, <2>2, <2>3
<1>5. CASE m.do \in {"change", "reset", "lock"}
  <2> DEFINE r == Server!RevokeAll(k)
  <2>1. Server!IsAccount(r) /\ Follows(r.sessions, k.sessions, c) /\ DOMAIN r.sessions = DOMAIN k.sessions
    BY RevokeAllFollows, AccountSessions DEF Server!RevokeAll
  <2>2. \/ l = [r EXCEPT !.hash = m.new] /\ m.new \in Passwords
        \/ l = [r EXCEPT !.status = "LOCKED"]
    BY <1>5 DEF Server!Changed, Server!When, Server!Locked, Server!Command, Server!NoCommand
  <2> HIDE DEF r
  <2>3. Server!IsAccount(l) /\ l.sessions = r.sessions
    <3>1. CASE l = [r EXCEPT !.hash = m.new] /\ m.new \in Passwords
      BY <2>1, <3>1, NewHash
    <3>2. CASE l = [r EXCEPT !.status = "LOCKED"]
      BY <2>1, <3>2, NewStatus DEF Server!Statuses
    <3> QED BY <2>2, <3>1, <3>2
  <2> QED BY <1>5, <2>1, <2>3
<1>6. CASE m.do \in {"unlock", "assign", "revoke"}
  <2>1. \/ l = [k EXCEPT !.status = "ACTIVE"]
        \/ \E r \in SUBSET Roles : l = [k EXCEPT !.roles = r]
    <3>1. CASE m.do = "unlock"
      BY <3>1 DEF Server!Changed, Server!When
    <3>2. CASE m.do \in {"assign", "revoke"}
      <4>1. m.role \in Roles /\ k.roles \subseteq Roles
        BY <3>2, AccountSessions DEF Server!Command, Server!NoCommand
      <4> QED BY <3>2, <4>1 DEF Server!Changed, Server!When
    <3> QED BY <1>6, <3>1, <3>2
  <2>2. Server!IsAccount(l) /\ l.sessions = k.sessions
    <3>1. CASE l = [k EXCEPT !.status = "ACTIVE"]
      BY <3>1, NewStatus DEF Server!Statuses
    <3>2. ASSUME NEW r \in SUBSET Roles, l = [k EXCEPT !.roles = r]
          PROVE Server!IsAccount(l) /\ l.sessions = k.sessions
      BY <3>2, NewRoles
    <3> QED BY <2>1, <3>1, <3>2
  <2> QED BY <1>1, <1>6, <2>2
<1>7. CASE m.do \notin {"login", "oauth", "refresh", "leave", "change", "reset", "lock",
                        "unlock", "assign", "revoke"}
  BY <1>1, <1>7 DEF Server!Changed
<1> QED BY <1>2, <1>3, <1>4, <1>5, <1>6, <1>7

-----------------------------------------------------------------------------
(* A refresh closes what it presents. *)

\* In f the session that a refresh presented is revoked, or it is closed in A.
Covered(f, A, m) ==
  \A c \in Calls \cap DOMAIN f : m[c].do = "refresh" =>
    /\ m[c].token \in DOMAIN f
    /\ f[m[c].token].revoked \/ (m[c].token \in DOMAIN A /\ A[m[c].token].closed)

\* The calls whose sessions are in f have at most their save to come.
Known(f, m, steps) ==
  \A c \in Calls \cap DOMAIN f : m[c] # Server!NoCommand /\ steps[c] \in {<<"save">>, <<>>}

Good(f, A, m, steps) == Sound(f) /\ Covered(f, A, m) /\ Known(f, m, steps)

Plans == {<<"token", "row", "children", "save">>, <<"row", "children", "save">>,
          <<"children", "save">>, <<"save">>, <<>>}

\* The steps to come, of a call that may add a session and of one that has not begun.
Planned(c) ==
  /\ command[c].do \in GivesSession => todo[c] \in Plans
  /\ command[c] = Server!NoCommand => todo[c] = <<>>

AccountInv ==
  /\ Server!TypeOK
  /\ \A c \in Calls : Planned(c) /\ Good(copy[c].sessions, account.sessions, command, todo)
  /\ Good(account.sessions, account.sessions, command, todo)

LEMMA Tails ==
  /\ Tail(<<"token", "row", "children", "save">>) = <<"row", "children", "save">>
  /\ Tail(<<"row", "children", "save">>) = <<"children", "save">>
  /\ Tail(<<"children", "save">>) = <<"save">>
  /\ Tail(<<"save">>) = <<>>
  /\ \A p \in Plans : p # <<>> /\ Head(p) = "children" => p = <<"children", "save">>
  /\ \A p \in {<<"save">>, <<>>} : p # <<>> => Head(p) = "save"
BY DEF Plans

LEMMA StepsType ==
  ASSUME NEW m \in Server!Command
  PROVE  /\ Server!Steps(m) \in Seq(Server!StepNames)
         /\ m.do \in GivesSession => Server!Steps(m) \in Plans
         /\ m # Server!NoCommand
<1>1. Server!Steps(m) \in Seq(Server!StepNames)
  <2>1. /\ <<"token", "row", "children", "save">> \in Seq(Server!StepNames)
        /\ <<"row", "children", "token", "save">> \in Seq(Server!StepNames)
    BY DEF Server!StepNames
  <2>2. <<"row", "children", "revokeAll">> \in Seq(Server!StepNames)
    BY DEF Server!StepNames
  <2>3. <<"row", "children", "revokeAll", "save">> \in Seq(Server!StepNames)
    BY DEF Server!StepNames
  <2>4. <<"row", "children", "invalidate", "issue", "save">> \in Seq(Server!StepNames)
    BY DEF Server!StepNames
  <2>5. <<"resetToken", "row", "children", "use", "revokeAll", "save">> \in Seq(Server!StepNames)
    BY DEF Server!StepNames
  <2>6. <<"row", "children", "save">> \in Seq(Server!StepNames)
    BY DEF Server!StepNames
  <2> QED BY <2>1, <2>2, <2>3, <2>4, <2>5, <2>6, Zenon DEF Server!Steps
<1>2. m.do \in GivesSession => Server!Steps(m) \in Plans
  BY DEF Server!Steps, GivesSession, Plans
<1>3. m # Server!NoCommand
  BY DEF Server!Command, Server!NoCommand
<1> QED BY <1>1, <1>2, <1>3

LEMMA EmptyGood ==
  /\ Server!IsAccount(Server!NoAccount)
  /\ \A A, m, steps : Good(Server!NoAccount.sessions, A, m, steps)
<1>1. DOMAIN Server!NoAccount.sessions = {}
  BY DEF Server!NoAccount
<1>2. Server!IsAccount(Server!NoAccount)
  BY <1>1 DEF Server!NoAccount, Server!IsAccount, Server!Statuses
<1> QED BY <1>1, <1>2 DEF Good, Sound, Covered, Known, Server!IsAccount

\* What an account that others hold copies of may do: grow, and close sessions.
Grown(A, B) ==
  /\ DOMAIN A \subseteq DOMAIN B
  /\ \A s \in DOMAIN A : A[s].closed => B[s].closed

LEMMA GoodKeeps ==
  ASSUME NEW f, NEW A, NEW B, NEW m, NEW steps, NEW later,
         Good(f, A, m, steps), Grown(A, B), Known(f, m, later)
  PROVE  Good(f, B, m, later)
BY DEF Good, Covered, Grown

\* A call that takes a step, and one that stops, keep to the plan.
LEMMA StepKeeps ==
  ASSUME AccountInv, NEW c \in Calls, NEW name, Server!Step(c, name)
  PROVE  /\ todo[c] # <<>> /\ Head(todo[c]) = name
         /\ todo' = [todo EXCEPT ![c] = Tail(todo[c])] /\ command' = command
         /\ todo' \in [Calls -> Seq(Server!StepNames)] /\ outcome' \in [Calls -> Server!Outcomes]
         /\ \A d \in Calls : Planned(d)'
         /\ \A f : Known(f, command, todo) => Known(f, command, todo')
<1>1. /\ todo[c] # <<>> /\ Head(todo[c]) = name
      /\ todo' = [todo EXCEPT ![c] = Tail(todo[c])] /\ command' = command
      /\ todo \in [Calls -> Seq(Server!StepNames)]
  BY DEF AccountInv, Server!TypeOK, Server!Step, Server!Running
<1>2. Tail(todo[c]) \in Seq(Server!StepNames)
  BY <1>1
<1>3. outcome' \in [Calls -> Server!Outcomes]
  BY DEF AccountInv, Server!TypeOK, Server!Step, Server!Outcomes
<1>4. \A d \in Calls : Planned(d)'
  <2>1. command[c].do \in GivesSession => Tail(todo[c]) \in Plans
    BY <1>1, Tails DEF AccountInv, Planned, Plans
  <2>2. command[c] # Server!NoCommand
    BY <1>1 DEF AccountInv, Planned
  <2> QED BY <1>1, <2>1, <2>2 DEF AccountInv, Planned
<1>5. ASSUME NEW f, Known(f, command, todo) PROVE Known(f, command, todo')
  <2>1. c \in DOMAIN f => Tail(todo[c]) = <<>>
    BY <1>1, <1>5, Tails DEF Known
  <2> QED BY <1>1, <1>5, <2>1 DEF Known
<1> QED BY <1>1, <1>2, <1>3, <1>4, <1>5

-----------------------------------------------------------------------------
(* The steps of the account keep its invariant. *)

LEMMA AccountInit == Server!Init => AccountInv
<1> SUFFICES ASSUME Server!Init PROVE AccountInv
  OBVIOUS
<1>1. PICK p \in Passwords :
        account = [status |-> "ACTIVE", hash |-> p, roles |-> {},
                   sessions |-> [s \in {First} |-> Server!NewSession]]
  BY DEF Server!Init
<1>2. Sound(account.sessions) /\ DOMAIN account.sessions = {First}
  BY <1>1, SessionTypes DEF Sound, Server!Ids
<1>3. Server!IsAccount(account)
  BY <1>1, <1>2 DEF Server!IsAccount, Sound, Server!Statuses
<1>4. Good(account.sessions, account.sessions, command, todo)
  BY <1>2, IdsAssumption DEF Good, Covered, Known
<1>5. \A c \in Calls : copy[c] = Server!NoAccount /\ command[c] = Server!NoCommand /\ todo[c] = <<>>
  BY DEF Server!Init
<1>6. Server!TypeOK
  <2>1. resets \in [DOMAIN resets -> BOOLEAN] /\ DOMAIN resets = {}
    BY DEF Server!Init
  <2>2. todo \in [Calls -> Seq(Server!StepNames)]
    BY DEF Server!Init
  <2>3. copy \in [Calls -> {copy[c] : c \in Calls}] /\ \A c \in Calls : Server!IsAccount(copy[c])
    BY <1>5, EmptyGood DEF Server!Init
  <2> QED BY <1>3, <2>1, <2>2, <2>3 DEF Server!Init, Server!TypeOK, Server!Outcomes
<1>7. \A c \in Calls : Planned(c)
  BY <1>5 DEF Planned, Plans, Server!NoCommand, GivesSession
<1> QED BY <1>4, <1>5, <1>6, <1>7, EmptyGood DEF AccountInv

\* The type of a copy, when one call's is replaced.
LEMMA CopyType ==
  ASSUME Server!TypeOK, NEW c \in Calls, NEW k, Server!IsAccount(k), copy' = [copy EXCEPT ![c] = k]
  PROVE  /\ copy' \in [Calls -> {copy'[d] : d \in Calls}]
         /\ \A d \in Calls : Server!IsAccount(copy'[d]) /\ copy'[d] = (IF d = c THEN k ELSE copy[d])
BY DEF Server!TypeOK

\* A step that leaves the account alone and gives one call a good copy.
LEMMA NewCopy ==
  ASSUME AccountInv, NEW c \in Calls, NEW k, Server!IsAccount(k), copy' = [copy EXCEPT ![c] = k],
         Good(k.sessions, account.sessions, command, todo'),
         UNCHANGED <<account, resets, command, overwrote>>, current' \subseteq Calls,
         todo' \in [Calls -> Seq(Server!StepNames)], outcome' \in [Calls -> Server!Outcomes],
         \A d \in Calls : Planned(d)',
         \A f : Known(f, command, todo) => Known(f, command, todo')
  PROVE  AccountInv'
<1>1. Server!TypeOK /\ Grown(account.sessions, account.sessions)
  BY DEF AccountInv, Grown
<1>2. /\ copy' \in [Calls -> {copy'[d] : d \in Calls}]
      /\ \A d \in Calls : Server!IsAccount(copy'[d]) /\ copy'[d] = (IF d = c THEN k ELSE copy[d])
  BY <1>1, CopyType
<1>3. Server!TypeOK'
  BY <1>1, <1>2 DEF Server!TypeOK, Server!IsAccount
<1>4. \A d \in Calls : Good(copy'[d].sessions, account.sessions, command, todo')
  <2> SUFFICES ASSUME NEW d \in Calls, d # c
               PROVE  Good(copy[d].sessions, account.sessions, command, todo')
    BY <1>2
  <2>1. Good(copy[d].sessions, account.sessions, command, todo)
    BY DEF AccountInv
  <2>2. Known(copy[d].sessions, command, todo')
    BY <2>1 DEF Good
  <2> QED BY <1>1, <2>1, <2>2, GoodKeeps
<1>5. Good(account.sessions, account.sessions, command, todo')
  BY <1>1, GoodKeeps DEF AccountInv, Good
<1> QED BY <1>3, <1>4, <1>5 DEF AccountInv

\* A step that changes the account, but takes nothing back, and may drop one call's copy.
LEMMA NewStored ==
  ASSUME AccountInv, NEW c \in Calls, Server!IsAccount(account)', Grown(account.sessions, account'.sessions),
         Good(account'.sessions, account'.sessions, command, todo'),
         UNCHANGED copy \/ copy' = [copy EXCEPT ![c] = Server!NoAccount],
         UNCHANGED <<resets, command>>, overwrote' \in BOOLEAN, current' \subseteq Calls,
         todo' \in [Calls -> Seq(Server!StepNames)], outcome' \in [Calls -> Server!Outcomes],
         \A d \in Calls : Planned(d)',
         \A f : Known(f, command, todo) => Known(f, command, todo')
  PROVE  AccountInv'
<1>1. /\ copy' \in [Calls -> {copy'[d] : d \in Calls}]
      /\ \A d \in Calls : Server!IsAccount(copy'[d]) /\ copy'[d] \in {copy[d], Server!NoAccount}
  <2>1. CASE UNCHANGED copy
    BY <2>1 DEF AccountInv, Server!TypeOK
  <2>2. CASE copy' = [copy EXCEPT ![c] = Server!NoAccount]
    BY <2>2, EmptyGood, CopyType DEF AccountInv
  <2> QED BY <2>1, <2>2
<1>2. Server!TypeOK'
  BY <1>1 DEF AccountInv, Server!TypeOK, Server!IsAccount
<1>3. ASSUME NEW d \in Calls PROVE Good(copy'[d].sessions, account'.sessions, command, todo')
  <2>1. Good(copy[d].sessions, account.sessions, command, todo)
    BY DEF AccountInv
  <2>2. Good(copy[d].sessions, account'.sessions, command, todo')
    BY <2>1, GoodKeeps DEF Good
  <2> QED BY <1>1, <2>2, EmptyGood
<1> QED BY <1>2, <1>3 DEF AccountInv

LEMMA StartKeeps ==
  ASSUME AccountInv, NEW c \in Calls, NEW m \in Server!Command, Server!Start(c, m)
  PROVE  AccountInv'
<1>1. /\ command[c] = Server!NoCommand
      /\ command' = [command EXCEPT ![c] = m] /\ todo' = [todo EXCEPT ![c] = Server!Steps(m)]
      /\ UNCHANGED <<account, resets, copy, outcome, current, overwrote>>
      /\ command \in [Calls -> Server!Command \cup {Server!NoCommand}] /\ todo \in [Calls -> Seq(Server!StepNames)]
  BY DEF Server!Start, AccountInv, Server!TypeOK
<1>2. Server!TypeOK'
  BY <1>1, StepsType DEF AccountInv, Server!TypeOK, Server!IsAccount
<1>3. \A d \in Calls : Planned(d)'
  BY <1>1, StepsType DEF AccountInv, Planned
<1>4. ASSUME NEW f, Good(f, account.sessions, command, todo)
      PROVE  Good(f, account.sessions, command', todo')
  <2>1. c \notin DOMAIN f
    BY <1>1, <1>4 DEF Good, Known
  <2> QED BY <1>1, <1>4, <2>1 DEF Good, Covered, Known
<1> QED BY <1>1, <1>2, <1>3, <1>4 DEF AccountInv

\* A new copy is as good as the account, and has a new session only with its predecessor
\* revoked.
LEMMA ChildrenKeep ==
  ASSUME AccountInv, NEW c \in Calls, Server!FindChildren(c)
  PROVE  AccountInv'
<1> DEFINE old == [account EXCEPT !.status = copy[c].status]
<1>1. PICK k \in Server!Changed(old, c, command[c]) : copy' = [copy EXCEPT ![c] = k]
  BY DEF Server!FindChildren
<1>2. /\ Server!IsAccount(account) /\ copy[c].status \in Server!Statuses
      /\ command[c] \in Server!Command \cup {Server!NoCommand}
      /\ Good(account.sessions, account.sessions, command, todo)
  BY AccountSessions DEF AccountInv, Server!TypeOK
<1>3. Server!IsAccount(old) /\ old.sessions = account.sessions
  BY <1>2, NewStatus
<1> HIDE DEF old
<1>4. Server!Step(c, "children") /\ UNCHANGED <<account, resets, current, overwrote>>
  BY DEF Server!FindChildren
<1>5. /\ todo[c] # <<>> /\ Head(todo[c]) = "children"
      /\ todo' = [todo EXCEPT ![c] = Tail(todo[c])] /\ UNCHANGED command
      /\ todo' \in [Calls -> Seq(Server!StepNames)] /\ outcome' \in [Calls -> Server!Outcomes]
      /\ \A d \in Calls : Planned(d)'
      /\ \A f : Known(f, command, todo) => Known(f, command, todo')
  BY <1>4, StepKeeps
<1>6. c \notin DOMAIN account.sessions
  BY <1>2, <1>5, Tails DEF Good, Known
<1>7. /\ Server!IsAccount(k) /\ Follows(k.sessions, account.sessions, c)
      /\ c \in DOMAIN k.sessions => command[c].do \in GivesSession
      /\ command[c].do = "refresh" =>
           command[c].token \in DOMAIN account.sessions /\ k.sessions[command[c].token].revoked
  BY <1>1, <1>2, <1>3, <1>6, ChangedFollows DEF Good
<1>8. Covered(k.sessions, account.sessions, command)
  <2> SUFFICES ASSUME NEW d \in Calls \cap DOMAIN k.sessions, command[d].do = "refresh"
               PROVE  LET t == command[d].token IN
                      /\ t \in DOMAIN k.sessions
                      /\ \/ k.sessions[t].revoked
                         \/ t \in DOMAIN account.sessions /\ account.sessions[t].closed
    BY DEF Covered
  <2>1. CASE d = c
    BY <1>7, <2>1 DEF Follows
  <2>2. CASE d # c
    <3>1. d \in DOMAIN account.sessions
      BY <1>7, <2>2 DEF Follows
    <3> QED BY <1>2, <1>7, <3>1 DEF Good, Covered, Follows, Sound
  <2> QED BY <2>1, <2>2
<1>9. Known(k.sessions, command, todo')
  <2>1. Known(account.sessions, command, todo')
    BY <1>2, <1>5 DEF Good
  <2>2. c \in DOMAIN k.sessions => command[c] # Server!NoCommand /\ Tail(todo[c]) = <<"save">>
    BY <1>5, <1>7, Tails DEF AccountInv, Planned, Server!NoCommand, GivesSession
  <2>3. todo'[c] = Tail(todo[c])
    BY <1>5 DEF AccountInv, Server!TypeOK
  <2> QED BY <1>7, <2>1, <2>2, <2>3 DEF Known, Follows
<1>10. Good(k.sessions, account.sessions, command, todo')
  BY <1>7, <1>8, <1>9 DEF Good, Follows
<1>11. current' \subseteq Calls
  BY <1>4 DEF AccountInv, Server!TypeOK
<1> QED BY <1>1, <1>4, <1>5, <1>7, <1>10, <1>11, NewCopy

\* A save takes nothing back: what the copy does not have stays, what is closed stays so.
LEMMA UpsertedSound ==
  ASSUME NEW f, Sound(f), NEW g, Sound(g)
  PROVE  LET h == Server!Upserted(f, g) IN
         /\ Sound(h) /\ DOMAIN h = DOMAIN f \cup DOMAIN g /\ Grown(f, h)
         /\ \A s \in DOMAIN g : g[s].revoked => h[s].closed
<1> DEFINE h == Server!Upserted(f, g)
<1>1. DOMAIN h = DOMAIN f \cup DOMAIN g
  BY DEF Server!Upserted
<1>2. ASSUME NEW s \in DOMAIN h
      PROVE  /\ h[s] \in Server!Session /\ (h[s].revoked => h[s].closed)
             /\ s \in DOMAIN f /\ f[s].closed => h[s].closed
             /\ s \in DOMAIN g /\ g[s].revoked => h[s].closed
  <2>1. CASE s \notin DOMAIN g
    <3>1. h[s] = f[s] /\ s \in DOMAIN f
      BY <1>1, <2>1 DEF Server!Upserted
    <3> QED BY <2>1, <3>1 DEF Sound
  <2>2. CASE s \in DOMAIN g /\ s \notin DOMAIN f
    <3>1. h[s] = g[s]
      BY <2>2 DEF Server!Upserted
    <3> QED BY <2>2, <3>1 DEF Sound
  <2>3. CASE s \in DOMAIN g /\ s \in DOMAIN f
    <3>1. h[s] = Server!Stored(f[s], g[s]) /\ f[s] \in Server!Session /\ g[s] \in Server!Session
      BY <2>3 DEF Server!Upserted, Sound
    <3> QED BY <2>3, <3>1 DEF Server!Stored, Server!Session
  <2> QED BY <1>1, <2>1, <2>2, <2>3
<1>3. h = [s \in DOMAIN h |-> h[s]]
  BY DEF Server!Upserted
<1> HIDE DEF h
<1>4. h \in [DOMAIN h -> Server!Session]
  BY <1>2, <1>3
<1>5. Sound(h) /\ Grown(f, h)
  BY <1>1, <1>2, <1>4 DEF Sound, Grown
<1> QED BY <1>1, <1>2, <1>5 DEF h

LEMMA SaveKeeps ==
  ASSUME AccountInv, NEW c \in Calls, Server!Save(c)
  PROVE  AccountInv'
<1> DEFINE f == account.sessions
           g == copy[c].sessions
           h == Server!Upserted(f, g)
<1>1. /\ Server!Step(c, "save") /\ account' = [copy[c] EXCEPT !.sessions = h]
      /\ copy' = [copy EXCEPT ![c] = Server!NoAccount] /\ UNCHANGED resets
      /\ overwrote' \in BOOLEAN /\ current' \subseteq Calls
  BY DEF Server!Save, AccountInv, Server!TypeOK
<1>2. /\ Server!IsAccount(copy[c]) /\ Good(f, f, command, todo) /\ Good(g, f, command, todo)
  BY DEF AccountInv, Server!TypeOK
<1>3. Sound(f) /\ Sound(g) /\ Covered(f, f, command) /\ Covered(g, f, command)
  BY <1>2 DEF Good
<1>4. /\ Sound(h) /\ DOMAIN h = DOMAIN f \cup DOMAIN g /\ Grown(f, h)
      /\ \A s \in DOMAIN g : g[s].revoked => h[s].closed
  BY <1>3, UpsertedSound
<1>5. Server!IsAccount(account)' /\ account'.sessions = h
  BY <1>1, <1>2, <1>4, NewAccount
<1>6. /\ todo' \in [Calls -> Seq(Server!StepNames)] /\ outcome' \in [Calls -> Server!Outcomes]
      /\ UNCHANGED command /\ \A d \in Calls : Planned(d)'
      /\ \A q : Known(q, command, todo) => Known(q, command, todo')
  BY <1>1, StepKeeps
<1>7. Covered(h, h, command)
  <2> SUFFICES ASSUME NEW d \in Calls \cap DOMAIN h, command[d].do = "refresh"
               PROVE  command[d].token \in DOMAIN h /\ h[command[d].token].closed
    BY DEF Covered
  <2>1. CASE d \in DOMAIN f
    BY <1>3, <1>4, <2>1 DEF Covered, Grown, Sound
  <2>2. CASE d \in DOMAIN g
    BY <1>3, <1>4, <2>2 DEF Covered, Grown
  <2> QED BY <1>4, <2>1, <2>2
<1>8. Known(h, command, todo')
  BY <1>2, <1>4, <1>6 DEF Good, Known
<1> HIDE DEF h
<1>9. Good(h, h, command, todo')
  BY <1>4, <1>7, <1>8 DEF Good
<1> QED BY <1>1, <1>4, <1>5, <1>6, <1>9, NewStored

LEMMA RevokeKeeps ==
  ASSUME AccountInv, NEW c \in Calls, Server!RevokeSessions(c)
  PROVE  AccountInv'
<1> DEFINE f == account.sessions
           h == [s \in DOMAIN f |-> [f[s] EXCEPT !.revoked = TRUE, !.closed = TRUE]]
<1>1. /\ Server!Step(c, "revokeAll") /\ account' = [account EXCEPT !.sessions = h]
      /\ UNCHANGED <<resets, copy, overwrote>> /\ current' \subseteq Calls
  BY DEF Server!RevokeSessions, AccountInv, Server!TypeOK
<1>2. Server!IsAccount(account) /\ Good(f, f, command, todo) /\ overwrote \in BOOLEAN
  BY DEF AccountInv, Server!TypeOK
<1>3. Sound(h) /\ DOMAIN h = DOMAIN f /\ Grown(f, h) /\ \A s \in DOMAIN h : h[s].revoked
  BY <1>2 DEF Good, Sound, Server!Session, Grown
<1>4. /\ todo' \in [Calls -> Seq(Server!StepNames)] /\ outcome' \in [Calls -> Server!Outcomes]
      /\ UNCHANGED command /\ \A d \in Calls : Planned(d)'
      /\ \A q : Known(q, command, todo) => Known(q, command, todo')
  BY <1>1, StepKeeps
<1> HIDE DEF h
<1>5. Good(h, h, command, todo')
  BY <1>2, <1>3, <1>4 DEF Good, Covered, Known
<1>6. Server!IsAccount(account)' /\ account'.sessions = h
  BY <1>1, <1>2, <1>3, NewAccount
<1> QED BY <1>1, <1>2, <1>3, <1>4, <1>5, <1>6, NewStored

\* A step that changes neither the account nor a copy.
LEMMA QuietKeeps ==
  ASSUME AccountInv, NEW c \in Calls, NEW name, Server!Step(c, name),
         UNCHANGED <<account, copy, current, overwrote>>,
         DOMAIN resets' \subseteq Calls, resets' \in [DOMAIN resets' -> BOOLEAN]
  PROVE  AccountInv'
<1>1. /\ todo' \in [Calls -> Seq(Server!StepNames)] /\ outcome' \in [Calls -> Server!Outcomes]
      /\ UNCHANGED command /\ \A d \in Calls : Planned(d)'
      /\ \A f : Known(f, command, todo) => Known(f, command, todo')
  BY StepKeeps
<1>2. Server!TypeOK'
  BY <1>1 DEF AccountInv, Server!TypeOK, Server!IsAccount
<1>3. \A f : Good(f, account.sessions, command, todo) => Good(f, account.sessions, command, todo')
  BY <1>1 DEF Good
<1> QED BY <1>1, <1>2, <1>3 DEF AccountInv

LEMMA RowKeeps ==
  ASSUME AccountInv, NEW c \in Calls, Server!FindRow(c)
  PROVE  AccountInv'
<1> DEFINE k == [copy[c] EXCEPT !.status = account.status]
<1>1. /\ Server!Step(c, "row") /\ copy' = [copy EXCEPT ![c] = k]
      /\ UNCHANGED <<account, resets, overwrote>> /\ current' \subseteq Calls
  BY DEF Server!FindRow, AccountInv, Server!TypeOK
<1>2. account.status \in Server!Statuses /\ Server!IsAccount(copy[c])
  BY AccountSessions DEF AccountInv, Server!TypeOK
<1>3. Server!IsAccount(k) /\ k.sessions = copy[c].sessions
  BY <1>2, NewStatus
<1> HIDE DEF k
<1>4. /\ todo' \in [Calls -> Seq(Server!StepNames)] /\ outcome' \in [Calls -> Server!Outcomes]
      /\ UNCHANGED command /\ \A d \in Calls : Planned(d)'
      /\ \A f : Known(f, command, todo) => Known(f, command, todo')
  BY <1>1, StepKeeps
<1>5. Good(k.sessions, account.sessions, command, todo')
  BY <1>3, <1>4 DEF AccountInv, Good
<1> QED BY <1>1, <1>3, <1>4, <1>5, NewCopy

LEMMA FailKeeps ==
  ASSUME AccountInv, NEW c \in Calls, Server!Fail(c)
  PROVE  AccountInv'
<1>1. /\ todo' = [todo EXCEPT ![c] = <<>>] /\ copy' = [copy EXCEPT ![c] = Server!NoAccount]
      /\ outcome' = [outcome EXCEPT ![c] = "failed"]
      /\ UNCHANGED <<account, resets, command, current, overwrote>>
      /\ todo \in [Calls -> Seq(Server!StepNames)] /\ outcome \in [Calls -> Server!Outcomes]
      /\ current' \subseteq Calls
  BY DEF Server!Fail, AccountInv, Server!TypeOK
<1>2. todo' \in [Calls -> Seq(Server!StepNames)] /\ outcome' \in [Calls -> Server!Outcomes]
  BY <1>1 DEF Server!Outcomes
<1>3. \A d \in Calls : Planned(d)'
  BY <1>1 DEF AccountInv, Planned, Plans
<1>4. \A f : Known(f, command, todo) => Known(f, command, todo')
  BY <1>1 DEF Known
<1> QED BY <1>1, <1>2, <1>3, <1>4, EmptyGood, NewCopy

LEMMA AccountStep == AccountInv /\ [Server!Next]_(Server!vars) => AccountInv'
<1> SUFFICES ASSUME AccountInv, [Server!Next]_(Server!vars) PROVE AccountInv'
  OBVIOUS
<1>1. CASE UNCHANGED Server!vars
  BY <1>1 DEF Server!vars, AccountInv, Server!TypeOK, Server!IsAccount, Planned
<1>2. ASSUME NEW c \in Calls, NEW m \in Server!Command, Server!Start(c, m) PROVE AccountInv'
  BY <1>2, StartKeeps
<1>3. ASSUME NEW c \in Calls, Server!Work(c) PROVE AccountInv'
  <2>1. CASE Server!FindSession(c)
    BY <2>1, QuietKeeps DEF Server!FindSession, AccountInv, Server!TypeOK
  <2>2. CASE Server!FindResetToken(c)
    BY <2>2, QuietKeeps DEF Server!FindResetToken, AccountInv, Server!TypeOK
  <2>3. CASE Server!Invalidate(c)
    <3>1. DOMAIN resets' \subseteq Calls /\ resets' \in [DOMAIN resets' -> BOOLEAN]
      BY <2>3 DEF Server!Invalidate, AccountInv, Server!TypeOK
    <3> QED BY <2>3, <3>1, QuietKeeps DEF Server!Invalidate
  <2>4. CASE Server!SaveResetToken(c)
    <3>1. DOMAIN resets' \subseteq Calls /\ resets' \in [DOMAIN resets' -> BOOLEAN]
      BY <2>4 DEF Server!SaveResetToken, AccountInv, Server!TypeOK
    <3>2. Server!Step(c, "issue") \/ Server!Step(c, "use")
      BY <2>4 DEF Server!SaveResetToken
    <3> QED BY <2>4, <3>1, <3>2, QuietKeeps DEF Server!SaveResetToken
  <2> QED BY <1>3, <2>1, <2>2, <2>3, <2>4, RowKeeps, ChildrenKeep, SaveKeeps, RevokeKeeps,
             FailKeeps DEF Server!Work
<1> QED BY <1>1, <1>2, <1>3 DEF Server!Next

LEMMA AccountInvariance == Server!Spec => []AccountInv
BY AccountInit, AccountStep, PTL DEF Server!Spec

\* Every account, stored or in the memory of a call, is well formed, and so is the rest.
THEOREM AccountTypes == Server!Spec => []Server!TypeOK
<1>1. AccountInv => Server!TypeOK
  BY DEF AccountInv
<1> QED BY <1>1, AccountInvariance, PTL

\* For any calls that overlap, save stale copies, fail or stop: a session that a refresh
\* gave out was paid for with the one it presented, which is closed for ever.
THEOREM AccountClosesTheOld == Server!Spec => []Server!RotationClosesTheOld
<1>1. AccountInv => Server!RotationClosesTheOld
  BY DEF AccountInv, Good, Covered, Sound, Server!RotationClosesTheOld
<1> QED BY <1>1, AccountInvariance, PTL

-----------------------------------------------------------------------------
(* Sessions in order, while no save has undone another call's commit.  A    *)
(* call in `current` has an account in memory that nobody has committed     *)
(* past: if it saved that now, the stored sessions would be in order.       *)

InOrder(f, status, m) ==
  /\ \A s \in DOMAIN f : f[s].next # None => f[s].revoked
  /\ \A c \in Calls \cap DOMAIN f : m[c].do = "refresh" => f[m[c].token].next = c
  /\ status = "LOCKED" => \A s \in DOMAIN f : f[s].revoked

Merged(c) == Server!Upserted(account.sessions, copy[c].sessions)

\* Between its row and the children a call knows the status; after that, a whole account.
Fresh(c) ==
  /\ Server!Running(c) /\ Head(todo[c]) = "children" => copy[c].status = account.status
  /\ Server!Running(c) /\ Head(todo[c]) # "children" => InOrder(Merged(c), copy[c].status, command)

\* The children are read right after the row.
AfterRow(p) == \A i \in 2..Len(p) : p[i] = "children" <=> p[i - 1] = "row"

Orderly ==
  /\ InOrder(account.sessions, account.status, command)
  /\ \A c \in current : Fresh(c)

OrderInv ==
  /\ AccountInv
  /\ \A c \in Calls : AfterRow(todo[c])
  /\ \A c \in current : command[c] # Server!NoCommand
  /\ ~overwrote => Orderly

LEMMA AfterRowOfSteps ==
  ASSUME NEW m
  PROVE  AfterRow(Server!Steps(m))
<1>1. AfterRow(<<"token", "row", "children", "save">>)
  BY DEF AfterRow
<1>2. AfterRow(<<"row", "children", "token", "save">>)
  BY DEF AfterRow
<1>3. AfterRow(<<"row", "children", "revokeAll">>)
  BY DEF AfterRow
<1>4. AfterRow(<<"row", "children", "revokeAll", "save">>)
  BY DEF AfterRow
<1>5. AfterRow(<<"row", "children", "invalidate", "issue", "save">>)
  BY DEF AfterRow
<1>6. AfterRow(<<"resetToken", "row", "children", "use", "revokeAll", "save">>)
  BY DEF AfterRow
<1>7. AfterRow(<<"row", "children", "save">>)
  BY DEF AfterRow
<1> QED BY <1>1, <1>2, <1>3, <1>4, <1>5, <1>6, <1>7, Zenon DEF Server!Steps

LEMMA AfterRowOfTail ==
  ASSUME NEW p \in Seq(Server!StepNames), p # <<>>, AfterRow(p)
  PROVE  /\ AfterRow(Tail(p))
         /\ Tail(p) # <<>> => (Head(Tail(p)) = "children" <=> Head(p) = "row")
<1>1. /\ Len(Tail(p)) = Len(p) - 1 /\ Len(p) \in Nat
      /\ \A i \in 1..Len(Tail(p)) : Tail(p)[i] = p[i + 1]
  OBVIOUS
<1>2. AfterRow(Tail(p))
  BY <1>1 DEF AfterRow
<1>3. ASSUME Tail(p) # <<>> PROVE Head(Tail(p)) = "children" <=> Head(p) = "row"
  <2>1. Len(p) >= 2
    BY <1>1, <1>3
  <2>2. Head(Tail(p)) = p[2] /\ Head(p) = p[1]
    BY <1>1, <2>1
  <2> QED BY <1>1, <2>1, <2>2 DEF AfterRow
<1> QED BY <1>2, <1>3

\* What a save makes of a session that the copy has.
LEMMA UpsertedDomain ==
  ASSUME NEW f, NEW g
  PROVE  DOMAIN Server!Upserted(f, g) = DOMAIN f \cup DOMAIN g
BY DEF Server!Upserted

LEMMA UpsertedSession ==
  ASSUME NEW f, NEW g, NEW h, h = Server!Upserted(f, g), NEW s \in DOMAIN g
  PROVE  /\ h[s].revoked = g[s].revoked
         /\ s \in DOMAIN f => h[s].next = IF g[s].next = None THEN f[s].next ELSE g[s].next
         /\ s \notin DOMAIN f => h[s] = g[s]
BY DEF Server!Upserted, Server!Stored

\* Sessions stay in order when some of them are revoked.
LEMMA RevokingKeepsOrder ==
  ASSUME NEW f, NEW g, NEW status, NEW later, NEW m, InOrder(f, status, m), DOMAIN g = DOMAIN f,
         \A s \in DOMAIN f : (f[s].revoked => g[s].revoked) /\ g[s].next = f[s].next,
         \A c \in Calls \cap DOMAIN f : m[c].do = "refresh" => m[c].token \in DOMAIN f,
         later = "LOCKED" => status = "LOCKED" \/ \A s \in DOMAIN f : g[s].revoked
  PROVE  InOrder(g, later, m)
BY DEF InOrder

\* A save of the sessions that are stored, some of them revoked.
LEMMA SavingKeepsOrder ==
  ASSUME NEW f, NEW g, NEW status, NEW later, NEW m, InOrder(f, status, m), DOMAIN g = DOMAIN f,
         \A s \in DOMAIN f : (f[s].revoked => g[s].revoked) /\ g[s].next \in {None, f[s].next},
         \A c \in Calls \cap DOMAIN f : m[c].do = "refresh" => m[c].token \in DOMAIN f,
         later = "LOCKED" => status = "LOCKED" \/ \A s \in DOMAIN f : g[s].revoked
  PROVE  InOrder(Server!Upserted(f, g), later, m)
<1> SUFFICES ASSUME NEW h, h = Server!Upserted(f, g) PROVE InOrder(h, later, m)
  OBVIOUS
<1>1. DOMAIN h = DOMAIN f
  <2>1. DOMAIN h = DOMAIN f \cup DOMAIN g
    BY UpsertedDomain
  <2> QED BY <2>1
<1>2. \A s \in DOMAIN f : (g[s].revoked => h[s].revoked) /\ h[s].next = f[s].next
  BY UpsertedSession
<1>3. later = "LOCKED" => status = "LOCKED" \/ \A s \in DOMAIN f : h[s].revoked
  BY <1>2
<1> QED BY <1>1, <1>2, <1>3, RevokingKeepsOrder

\* What is in the sessions that the aggregate's methods leave behind.
LEMMA WithSessionFields ==
  ASSUME NEW k, Server!IsAccount(k), Sound(k.sessions), NEW c \in Calls, c \notin DOMAIN k.sessions,
         NEW l, l = Server!WithSession(k, c)
  PROVE  /\ l.status = k.status /\ DOMAIN l.sessions = DOMAIN k.sessions \cup {c}
         /\ \A s \in DOMAIN k.sessions : l.sessions[s] = k.sessions[s]
         /\ l.sessions[c] = Server!NewSession
<1>1. l = [k EXCEPT !.sessions =
             [s \in DOMAIN k.sessions \cup {c} |-> IF s = c THEN Server!NewSession ELSE k.sessions[s]]]
  BY DEF Server!WithSession
<1> QED BY <1>1, AccountSessions

LEMMA RotatedFields ==
  ASSUME NEW k, Server!IsAccount(k), Sound(k.sessions), NEW c \in Calls, c \notin DOMAIN k.sessions,
         NEW old \in DOMAIN k.sessions, NEW l, l = Server!Rotated(k, old, c)
  PROVE  /\ l.status = k.status /\ DOMAIN l.sessions = DOMAIN k.sessions \cup {c}
         /\ \A s \in DOMAIN k.sessions \ {old} : l.sessions[s] = k.sessions[s]
         /\ l.sessions[old].revoked /\ l.sessions[old].next = c
         /\ l.sessions[c] = Server!NewSession
<1> DEFINE g == [k.sessions EXCEPT ![old] =
                   [k.sessions[old] EXCEPT !.revoked = TRUE, !.closed = TRUE, !.next = c]]
           j == [k EXCEPT !.sessions = g]
<1>1. k.sessions[old] \in Server!Session
  BY DEF Sound
<1>2. /\ DOMAIN g = DOMAIN k.sessions /\ Sound(g)
      /\ \A s \in DOMAIN k.sessions \ {old} : g[s] = k.sessions[s]
      /\ g[old].revoked /\ g[old].next = c
  BY <1>1 DEF Sound, Server!Ids, Server!Session
<1>3. l = Server!WithSession(j, c)
  BY DEF Server!Rotated
<1> HIDE DEF g
<1>4. Server!IsAccount(j) /\ j.sessions = g
  BY <1>2, NewAccount
<1>5. j.status = k.status
  BY AccountSessions
<1> HIDE DEF j
<1>6. Sound(j.sessions) /\ c \notin DOMAIN j.sessions
  BY <1>2, <1>4
<1>7. /\ l.status = j.status /\ DOMAIN l.sessions = DOMAIN j.sessions \cup {c}
      /\ \A s \in DOMAIN j.sessions : l.sessions[s] = j.sessions[s]
      /\ l.sessions[c] = Server!NewSession
  BY <1>3, <1>4, <1>6, WithSessionFields
<1> QED BY <1>2, <1>4, <1>5, <1>7

LEMMA RevokeAllFields ==
  ASSUME NEW k, Server!IsAccount(k), Sound(k.sessions), NEW l, l = Server!RevokeAll(k)
  PROVE  /\ l.status = k.status /\ DOMAIN l.sessions = DOMAIN k.sessions
         /\ \A s \in DOMAIN k.sessions :
              l.sessions[s].revoked /\ l.sessions[s].next \in {None, k.sessions[s].next}
<1> DEFINE g == [s \in DOMAIN k.sessions |->
                   IF k.sessions[s].revoked THEN k.sessions[s] ELSE Server!Revoked(k.sessions[s])]
<1>1. l = [k EXCEPT !.sessions = g]
  BY DEF Server!RevokeAll
<1>2. \A s \in DOMAIN k.sessions : g[s].revoked /\ g[s].next \in {None, k.sessions[s].next}
  BY DEF Server!Revoked, Sound, Server!Session
<1>3. l.sessions = g /\ l.status = k.status
  BY <1>1, AccountSessions
<1> QED BY <1>2, <1>3

\* A copy that a handler has changed leaves the sessions in order when it is saved.
LEMMA ChangedInOrder ==
  ASSUME NEW k, Server!IsAccount(k), Sound(k.sessions), NEW m, NEW c \in Calls,
         InOrder(k.sessions, k.status, m), Covered(k.sessions, k.sessions, m),
         c \notin DOMAIN k.sessions, m[c] \in Server!Command \cup {Server!NoCommand},
         NEW l \in Server!Changed(k, c, m[c])
  PROVE  InOrder(Server!Upserted(k.sessions, l.sessions), l.status, m)
<1> DEFINE f == k.sessions
<1>1. /\ \A d \in Calls \cap DOMAIN f : m[d].do = "refresh" => m[d].token \in DOMAIN f
      /\ \A s \in DOMAIN f : f[s] \in Server!Session
  BY DEF Covered, Sound
<1>2. ASSUME NEW g, l.sessions = g, DOMAIN g = DOMAIN f,
             \A s \in DOMAIN f : (f[s].revoked => g[s].revoked) /\ g[s].next \in {None, f[s].next},
             l.status = "LOCKED" => k.status = "LOCKED" \/ \A s \in DOMAIN f : g[s].revoked
      PROVE  InOrder(Server!Upserted(f, g), l.status, m)
  BY <1>1, <1>2, SavingKeepsOrder
<1>3. CASE m[c].do \in {"login", "oauth"}
  <2>1. l = Server!WithSession(k, c) /\ k.status = "ACTIVE"
    BY <1>3 DEF Server!Changed, Server!When
  <2>2. /\ l.status = "ACTIVE" /\ DOMAIN l.sessions = DOMAIN f \cup {c}
        /\ \A s \in DOMAIN f : l.sessions[s] = f[s]
        /\ l.sessions[c] = Server!NewSession
    BY <2>1, WithSessionFields
  <2>3. SUFFICES ASSUME NEW h, h = Server!Upserted(f, l.sessions) PROVE InOrder(h, l.status, m)
    OBVIOUS
  <2>4. /\ DOMAIN h = DOMAIN f \cup {c} /\ h[c] = Server!NewSession
        /\ \A s \in DOMAIN f : h[s].revoked = f[s].revoked /\ h[s].next = f[s].next
    <3>1. /\ DOMAIN h = DOMAIN f \cup DOMAIN l.sessions
          /\ h[c] = l.sessions[c]
      <4>1. c \in DOMAIN l.sessions /\ c \notin DOMAIN f
        BY <2>2
      <4>2. DOMAIN h = DOMAIN f \cup DOMAIN l.sessions
        BY <2>3, UpsertedDomain
      <4>3. h[c] = l.sessions[c]
        BY <2>3, <4>1, UpsertedSession
      <4> QED BY <4>2, <4>3
    <3>2. ASSUME NEW s \in DOMAIN f
          PROVE  h[s].revoked = f[s].revoked /\ h[s].next = f[s].next
      <4>1. l.sessions[s] = f[s] /\ s \in DOMAIN l.sessions
        BY <2>2
      <4> QED BY <2>3, <4>1, UpsertedSession
    <3> QED BY <2>2, <3>1, <3>2
  <2>5. \A d \in Calls \cap DOMAIN h : m[d].do = "refresh" => h[m[d].token].next = d
    BY <1>1, <1>3, <2>4 DEF InOrder
  <2> QED BY <2>2, <2>4, <2>5 DEF InOrder, Server!NewSession
<1>4. CASE m[c].do = "refresh"
  <2>1. PICK old \in DOMAIN f : old = m[c].token /\ ~f[old].revoked /\ l = Server!Rotated(k, old, c)
    BY <1>4 DEF Server!Changed
  <2>2. /\ l.status = k.status /\ DOMAIN l.sessions = DOMAIN f \cup {c}
        /\ \A s \in DOMAIN f \ {old} : l.sessions[s] = f[s]
        /\ l.sessions[old].revoked /\ l.sessions[old].next = c
        /\ l.sessions[c] = Server!NewSession
    BY <2>1, RotatedFields
  <2>3. SUFFICES ASSUME NEW h, h = Server!Upserted(f, l.sessions) PROVE InOrder(h, l.status, m)
    OBVIOUS
  <2>4. /\ DOMAIN h = DOMAIN f \cup {c} /\ h[c] = Server!NewSession
        /\ \A s \in DOMAIN f \ {old} : h[s].revoked = f[s].revoked /\ h[s].next = f[s].next
        /\ h[old].revoked /\ h[old].next = c
    <3>1. DOMAIN h = DOMAIN f \cup DOMAIN l.sessions /\ h[c] = l.sessions[c]
      <4>1. c \in DOMAIN l.sessions /\ c \notin DOMAIN f
        BY <2>2
      <4>2. DOMAIN h = DOMAIN f \cup DOMAIN l.sessions
        BY <2>3, UpsertedDomain
      <4>3. h[c] = l.sessions[c]
        BY <2>3, <4>1, UpsertedSession
      <4> QED BY <4>2, <4>3
    <3>2. ASSUME NEW s \in DOMAIN f \ {old}
          PROVE  h[s].revoked = f[s].revoked /\ h[s].next = f[s].next
      <4>1. l.sessions[s] = f[s] /\ s \in DOMAIN l.sessions
        BY <2>2
      <4> QED BY <2>3, <4>1, UpsertedSession
    <3>3. h[old].revoked /\ h[old].next = c
      <4>1. old \in DOMAIN f /\ old \in DOMAIN l.sessions /\ c # None
        BY <2>2, IdsAssumption
      <4> QED BY <2>2, <2>3, <4>1, UpsertedSession
    <3> QED BY <2>2, <3>1, <3>2, <3>3
  <2>5. ASSUME NEW d \in Calls \cap DOMAIN h, m[d].do = "refresh" PROVE h[m[d].token].next = d
    <3>1. CASE d = c
      BY <2>1, <2>4, <3>1
    <3>2. CASE d # c
      <4>1. d \in DOMAIN f /\ m[d].token \in DOMAIN f /\ f[m[d].token].next = d
        BY <1>1, <2>4, <2>5, <3>2 DEF InOrder
      <4>2. m[d].token # old
        BY <2>1, <4>1, IdsAssumption DEF InOrder
      <4> QED BY <2>4, <4>1, <4>2
    <3> QED BY <3>1, <3>2
  <2>6. l.status # "LOCKED"
    BY <2>1, <2>2 DEF InOrder
  <2>7. \A s \in DOMAIN h : h[s].next # None => h[s].revoked
    BY <2>4 DEF InOrder, Server!NewSession
  <2> QED BY <2>5, <2>6, <2>7 DEF InOrder
<1>5. CASE m[c].do = "leave"
  <2> DEFINE g == [s \in DOMAIN f |-> IF s = m[c].token THEN Server!Revoked(f[s]) ELSE f[s]]
  <2>1. l = [k EXCEPT !.sessions = g]
    BY <1>5 DEF Server!Changed
  <2>2. l.sessions = g /\ l.status = k.status
    BY <2>1, AccountSessions
  <2>3. \A s \in DOMAIN f : (f[s].revoked => g[s].revoked) /\ g[s].next \in {None, f[s].next}
    BY <1>1 DEF Server!Revoked, Server!Session
  <2>4. DOMAIN g = DOMAIN f
    OBVIOUS
  <2> HIDE DEF g
  <2> QED BY <1>2, <2>2, <2>3, <2>4
<1>6. CASE m[c].do \in {"change", "reset", "lock"}
  <2>1. SUFFICES ASSUME NEW r, r = Server!RevokeAll(k) PROVE InOrder(Server!Upserted(f, l.sessions), l.status, m)
    OBVIOUS
  <2>2. /\ Server!IsAccount(r) /\ r.status = k.status /\ DOMAIN r.sessions = DOMAIN f
        /\ \A s \in DOMAIN f : r.sessions[s].revoked /\ r.sessions[s].next \in {None, f[s].next}
    BY <2>1, RevokeAllFields, RevokeAllFollows
  <2>3. l.sessions = r.sessions
    <3>1. \/ l = [r EXCEPT !.hash = m[c].new] /\ m[c].new \in Passwords
          \/ l = [r EXCEPT !.status = "LOCKED"]
      BY <1>6, <2>1 DEF Server!Changed, Server!When, Server!Locked, Server!Command, Server!NoCommand
    <3>2. "LOCKED" \in Server!Statuses
      BY DEF Server!Statuses
    <3>3. CASE m[c].new \in Passwords /\ l = [r EXCEPT !.hash = m[c].new]
      BY <2>2, <3>3, NewHash
    <3>4. CASE l = [r EXCEPT !.status = "LOCKED"]
      BY <2>2, <3>2, <3>4, NewStatus
    <3> QED BY <3>1, <3>3, <3>4
  <2> QED BY <1>2, <2>2, <2>3
<1>7. CASE m[c].do \in {"unlock", "assign", "revoke"}
  <2>1. \/ l = [k EXCEPT !.status = "ACTIVE"]
        \/ \E r : l = [k EXCEPT !.roles = r]
    BY <1>7 DEF Server!Changed, Server!When
  <2>2. l.sessions = f /\ (l.status = "LOCKED" => k.status = "LOCKED")
    BY <2>1, AccountSessions
  <2> QED BY <1>2, <2>2
<1>8. CASE m[c].do \notin {"login", "oauth", "refresh", "leave", "change", "reset", "lock",
                           "unlock", "assign", "revoke"}
  <2>1. l = k
    BY <1>8 DEF Server!Changed
  <2> QED BY <1>2, <2>1
<1> QED BY <1>3, <1>4, <1>5, <1>6, <1>7, <1>8

LEMMA UpsertedOld ==
  ASSUME NEW f, NEW g, NEW h, h = Server!Upserted(f, g), NEW s \in DOMAIN f, s \notin DOMAIN g
  PROVE  h[s] = f[s]
BY DEF Server!Upserted

\* The steps to come of all calls, after one of c.
LEMMA StepRows ==
  ASSUME OrderInv, NEW c \in Calls, NEW name, Server!Step(c, name)
  PROVE  /\ \A d \in Calls : AfterRow(todo'[d])
         /\ \A d \in Calls \ {c} : todo'[d] = todo[d]
         /\ todo[c] # <<>> /\ Head(todo[c]) = name /\ command[c] # Server!NoCommand
         /\ todo'[c] # <<>> => (Head(todo'[c]) = "children" <=> name = "row")
         /\ command' = command
<1>1. /\ todo[c] # <<>> /\ Head(todo[c]) = name
      /\ todo' = [todo EXCEPT ![c] = Tail(todo[c])] /\ command' = command
      /\ todo \in [Calls -> Seq(Server!StepNames)] /\ \A d \in Calls : AfterRow(todo[d])
  BY StepKeeps DEF OrderInv, AccountInv, Server!TypeOK
<1>2. todo'[c] = Tail(todo[c]) /\ \A d \in Calls \ {c} : todo'[d] = todo[d]
  BY <1>1
<1>3. /\ AfterRow(todo'[c])
      /\ todo'[c] # <<>> => (Head(todo'[c]) = "children" <=> name = "row")
  BY <1>1, <1>2, AfterRowOfTail
<1>4. command[c] # Server!NoCommand
  BY <1>1 DEF OrderInv, AccountInv, Planned
<1> QED BY <1>1, <1>2, <1>3, <1>4

\* A call whose own part of the state stays as it is.
LEMMA FreshStays ==
  ASSUME NEW d \in Calls, Fresh(d), UNCHANGED <<account, command>>, todo'[d] = todo[d],
         copy'[d] = copy[d]
  PROVE  Fresh(d)'
BY DEF Fresh, Merged, Server!Running

\* A call that has no step to come.
LEMMA FreshAtEnd ==
  ASSUME NEW d \in Calls, todo'[d] = <<>>
  PROVE  Fresh(d)'
BY DEF Fresh, Server!Running

\* Naming a new call disturbs nothing.
LEMMA OrderStart ==
  ASSUME OrderInv, NEW c \in Calls, NEW m \in Server!Command, Server!Start(c, m)
  PROVE  OrderInv'
<1>1. /\ command[c] = Server!NoCommand /\ command' = [command EXCEPT ![c] = m]
      /\ todo' = [todo EXCEPT ![c] = Server!Steps(m)]
      /\ UNCHANGED <<account, resets, copy, outcome, current, overwrote>>
      /\ command \in [Calls -> Server!Command \cup {Server!NoCommand}] /\ todo \in [Calls -> Seq(Server!StepNames)]
      /\ current \subseteq Calls
  BY DEF Server!Start, OrderInv, AccountInv, Server!TypeOK
<1>2. AccountInv'
  BY StartKeeps DEF OrderInv
<1>3. \A d \in Calls : AfterRow(todo'[d])
  BY <1>1, AfterRowOfSteps DEF OrderInv
<1>4. \A d \in current : d # c /\ command'[d] # Server!NoCommand /\ todo'[d] = todo[d]
  BY <1>1 DEF OrderInv
<1>5. ASSUME NEW f, NEW status, c \notin DOMAIN f, InOrder(f, status, command)
      PROVE  InOrder(f, status, command')
  BY <1>1, <1>5 DEF InOrder
<1>6. \A f : Known(f, command, todo) => c \notin DOMAIN f
  BY <1>1 DEF Known
<1>7. ASSUME Orderly PROVE Orderly'
  <2>1. c \notin DOMAIN account.sessions
    BY <1>6 DEF OrderInv, AccountInv, Good
  <2>2. InOrder(account.sessions, account.status, command')
    BY <1>5, <1>7, <2>1 DEF Orderly
  <2>3. ASSUME NEW d \in current PROVE Fresh(d)'
    <3>1. d \in Calls /\ Fresh(d)
      BY <1>1, <1>7 DEF Orderly
    <3>2. c \notin DOMAIN Merged(d)
      <4>1. c \notin DOMAIN copy[d].sessions
        BY <1>6, <3>1 DEF OrderInv, AccountInv, Good
      <4> QED BY <2>1, <4>1, UpsertedDomain DEF Merged
    <3>3. InOrder(Merged(d), copy[d].status, command) => InOrder(Merged(d), copy[d].status, command')
      BY <1>5, <3>2
    <3>4. Merged(d)' = Merged(d)
      BY <1>1 DEF Merged
    <3> QED BY <1>1, <1>4, <3>1, <3>3, <3>4 DEF Fresh, Server!Running
  <2> QED BY <1>1, <2>2, <2>3 DEF Orderly
<1> QED BY <1>1, <1>2, <1>3, <1>4, <1>7 DEF OrderInv

\* Steps that change neither the account nor a copy nor who is current.
LEMMA OrderQuiet ==
  ASSUME OrderInv, AccountInv', NEW c \in Calls, NEW name, Server!Step(c, name), name \notin {"row", "children"},
         UNCHANGED <<account, copy, current, overwrote>>
  PROVE  OrderInv'
<1>1. current \subseteq Calls
  BY DEF OrderInv, AccountInv, Server!TypeOK
<1>2. ASSUME Orderly PROVE Orderly'
  <2>1. ASSUME NEW d \in current PROVE Fresh(d)'
    <3>1. d \in Calls /\ Fresh(d)
      BY <1>1, <1>2, <2>1 DEF Orderly
    <3>2. CASE d = c
      <4>1. InOrder(Merged(d), copy[d].status, command)
        BY <3>1, <3>2, StepRows DEF Fresh, Server!Running
      <4> QED BY <3>2, <4>1, StepRows DEF Fresh, Merged, Server!Running
    <3>3. CASE d # c
      BY <3>1, <3>3, FreshStays, StepRows
    <3> QED BY <3>2, <3>3
  <2> QED BY <1>2, <2>1, StepRows DEF Orderly
<1> QED BY <1>2, StepRows DEF OrderInv

LEMMA OrderRow ==
  ASSUME OrderInv, NEW c \in Calls, Server!FindRow(c)
  PROVE  OrderInv'
<1>1. /\ Server!Step(c, "row") /\ copy' = [copy EXCEPT ![c].status = account.status]
      /\ UNCHANGED <<account, resets, overwrote>> /\ current' = current \cup {c}
      /\ current \subseteq Calls /\ copy \in [Calls -> {copy[d] : d \in Calls}]
      /\ Server!IsAccount(copy[c])
  BY DEF Server!FindRow, OrderInv, AccountInv, Server!TypeOK
<1>2. /\ copy'[c].status = account.status
      /\ \A d \in Calls \ {c} : copy'[d] = copy[d]
  BY <1>1, AccountSessions
<1>3. AccountInv'
  BY RowKeeps DEF OrderInv
<1>4. Fresh(c)'
  BY <1>1, <1>2, StepRows DEF Fresh, Server!Running
<1>5. ASSUME Orderly PROVE Orderly'
  <2>1. ASSUME NEW d \in current, d # c PROVE Fresh(d)'
    <3>1. d \in Calls /\ Fresh(d)
      BY <1>1, <1>5, <2>1 DEF Orderly
    <3> QED BY <1>1, <1>2, <2>1, <3>1, FreshStays, StepRows
  <2> QED BY <1>1, <1>4, <1>5, <2>1, StepRows DEF Orderly
<1>6. \A d \in current' : command'[d] # Server!NoCommand
  BY <1>1, StepRows DEF OrderInv
<1> QED BY <1>1, <1>3, <1>5, <1>6, StepRows DEF OrderInv

LEMMA OrderChildren ==
  ASSUME OrderInv, NEW c \in Calls, Server!FindChildren(c)
  PROVE  OrderInv'
<1> DEFINE old == [account EXCEPT !.status = copy[c].status]
<1>1. PICK k \in Server!Changed(old, c, command[c]) : copy' = [copy EXCEPT ![c] = k]
  BY DEF Server!FindChildren
<1>2. /\ Server!Step(c, "children") /\ UNCHANGED <<account, resets, current, overwrote>>
      /\ current \subseteq Calls /\ copy \in [Calls -> {copy[d] : d \in Calls}]
      /\ Server!IsAccount(account) /\ Server!IsAccount(copy[c]) /\ command[c] \in Server!Command \cup {Server!NoCommand}
      /\ Good(account.sessions, account.sessions, command, todo)
  BY DEF Server!FindChildren, OrderInv, AccountInv, Server!TypeOK
<1>3. AccountInv'
  BY ChildrenKeep DEF OrderInv
<1>4. copy'[c] = k /\ \A d \in Calls \ {c} : copy'[d] = copy[d]
  BY <1>1, <1>2
<1>5. ASSUME Orderly, c \in current PROVE Fresh(c)'
  <2>1. old = account
    <3>1. copy[c].status = account.status
      BY <1>2, <1>5, StepRows DEF Orderly, Fresh, Server!Running
    <3> QED BY <1>2, <3>1, AccountSessions
  <2>2. c \notin DOMAIN account.sessions
    BY <1>2, StepRows, Tails DEF Good, Known
  <2>3. InOrder(Server!Upserted(account.sessions, k.sessions), k.status, command)
    BY <1>1, <1>2, <1>5, <2>1, <2>2, ChangedInOrder DEF Orderly, Good
  <2> QED BY <1>2, <1>4, <2>3, StepRows DEF Fresh, Merged, Server!Running
<1>6. ASSUME Orderly PROVE Orderly'
  <2>1. ASSUME NEW d \in current, d # c PROVE Fresh(d)'
    <3>1. d \in Calls /\ Fresh(d)
      BY <1>2, <1>6, <2>1 DEF Orderly
    <3> QED BY <1>2, <1>4, <2>1, <3>1, FreshStays, StepRows
  <2> QED BY <1>2, <1>5, <1>6, <2>1, StepRows DEF Orderly
<1> QED BY <1>2, <1>3, <1>6, StepRows DEF OrderInv

\* Only a call that is current saves without undoing a commit: and it saves what Fresh says.
LEMMA OrderSave ==
  ASSUME OrderInv, NEW c \in Calls, Server!Save(c)
  PROVE  OrderInv'
<1>1. /\ Server!Step(c, "save")
      /\ account' = [copy[c] EXCEPT !.sessions = Merged(c)]
      /\ overwrote' = (overwrote \/ c \notin current) /\ current' = current \cap {c}
      /\ copy' = [copy EXCEPT ![c] = Server!NoAccount]
      /\ copy \in [Calls -> {copy[d] : d \in Calls}] /\ Server!IsAccount(copy[c])
      /\ Server!IsAccount(account)'
  <2>1. AccountInv'
    BY SaveKeeps DEF OrderInv
  <2> QED BY <2>1 DEF Server!Save, Merged, OrderInv, AccountInv, Server!TypeOK
<1>2. AccountInv'
  BY SaveKeeps DEF OrderInv
<1>3. account'.sessions = Merged(c) /\ account'.status = copy[c].status
  BY <1>1, AccountSessions
<1>4. ASSUME ~overwrote' PROVE Orderly'
  <2>1. c \in current /\ Orderly
    BY <1>1, <1>4 DEF OrderInv
  <2>2. InOrder(account'.sessions, account'.status, command')
    BY <1>1, <1>3, <2>1, StepRows DEF Orderly, Fresh, Server!Running
  <2>3. Fresh(c)'
    <3>1. copy'[c] = Server!NoAccount
      BY <1>1
    <3>2. InOrder(Server!Upserted(account'.sessions, Server!NoAccount.sessions), Server!NoAccount.status, command')
      <4> SUFFICES ASSUME NEW h, h = Server!Upserted(account'.sessions, Server!NoAccount.sessions)
                   PROVE  InOrder(h, "ACTIVE", command')
        BY DEF Server!NoAccount
      <4>1. DOMAIN Server!NoAccount.sessions = {}
        BY DEF Server!NoAccount
      <4>2. DOMAIN h = DOMAIN account'.sessions
        BY <4>1 DEF Server!Upserted
      <4>3. \A s \in DOMAIN account'.sessions : h[s] = account'.sessions[s]
        BY <4>1 DEF Server!Upserted
      <4>4. \A d \in Calls \cap DOMAIN account'.sessions : command'[d].do = "refresh" =>
              command'[d].token \in DOMAIN account'.sessions
        BY <1>2 DEF AccountInv, Good, Covered
      <4> QED BY <2>2, <4>2, <4>3, <4>4 DEF InOrder
    <3> QED BY <1>1, <3>1, <3>2, StepRows DEF Fresh, Merged, Server!Running
  <2> QED BY <1>1, <2>2, <2>3 DEF Orderly
<1>5. \A d \in current' : command'[d] # Server!NoCommand
  BY <1>1, StepRows
<1> QED BY <1>1, <1>2, <1>4, <1>5, StepRows DEF OrderInv

LEMMA OrderRevoke ==
  ASSUME OrderInv, NEW c \in Calls, Server!RevokeSessions(c)
  PROVE  OrderInv'
<1> DEFINE f == account.sessions
           g == copy[c].sessions
           j == [s \in DOMAIN f |-> [f[s] EXCEPT !.revoked = TRUE, !.closed = TRUE]]
<1>1. /\ Server!Step(c, "revokeAll") /\ account' = [account EXCEPT !.sessions = j]
      /\ UNCHANGED <<resets, copy, overwrote>> /\ current' = current \cap {c}
      /\ Server!IsAccount(account) /\ Good(f, f, command, todo) /\ Good(g, f, command, todo)
  BY DEF Server!RevokeSessions, OrderInv, AccountInv, Server!TypeOK
<1>2. AccountInv'
  BY RevokeKeeps DEF OrderInv
<1>3. /\ DOMAIN j = DOMAIN f
      /\ \A s \in DOMAIN f : j[s].revoked /\ j[s].next = f[s].next
  BY <1>1 DEF Good, Sound, Server!Session
<1> HIDE DEF j
<1>4. account'.sessions = j /\ account'.status = account.status
  BY <1>1, AccountSessions
<1>5. ASSUME Orderly PROVE Orderly'
  <2>1. InOrder(j, account.status, command)
    BY <1>1, <1>3, <1>5, RevokingKeepsOrder DEF Orderly, Good, Covered
  <2>2. ASSUME c \in current PROVE Fresh(c)'
    <3>1. InOrder(Server!Upserted(f, g), copy[c].status, command)
      BY <1>1, <1>5, <2>2, StepRows DEF Orderly, Fresh, Merged, Server!Running
    <3>2. ASSUME NEW h, h = Server!Upserted(f, g), NEW i, i = Server!Upserted(j, g)
          PROVE  InOrder(i, copy[c].status, command)
      <4>1. DOMAIN i = DOMAIN f \cup DOMAIN g /\ DOMAIN h = DOMAIN f \cup DOMAIN g
        BY <1>3, <3>2, UpsertedDomain
      <4>2. ASSUME NEW s \in DOMAIN h
            PROVE  (h[s].revoked => i[s].revoked) /\ i[s].next = h[s].next
        <5>1. CASE s \in DOMAIN g
          BY <1>3, <3>2, <5>1, UpsertedSession
        <5>2. CASE s \in DOMAIN f /\ s \notin DOMAIN g
          BY <1>3, <3>2, <5>2, UpsertedOld
        <5> QED BY <4>1, <5>1, <5>2
      <4>3. \A d \in Calls \cap DOMAIN h : command[d].do = "refresh" => command[d].token \in DOMAIN h
        BY <1>1, <4>1 DEF Good, Covered
      <4>4. DOMAIN i = DOMAIN h
        BY <4>1
      <4> QED BY <3>1, <3>2, <4>2, <4>3, <4>4, RevokingKeepsOrder
    <3>3. InOrder(Server!Upserted(j, g), copy[c].status, command)
      BY <3>2
    <3> QED BY <1>1, <1>4, <3>3, StepRows DEF Fresh, Merged, Server!Running
  <2> QED BY <1>1, <1>4, <2>1, <2>2, StepRows DEF Orderly
<1> QED BY <1>1, <1>2, <1>5, StepRows DEF OrderInv

LEMMA OrderFail ==
  ASSUME OrderInv, NEW c \in Calls, Server!Fail(c)
  PROVE  OrderInv'
<1>1. /\ todo' = [todo EXCEPT ![c] = <<>>] /\ copy' = [copy EXCEPT ![c] = Server!NoAccount]
      /\ UNCHANGED <<account, resets, command, current, overwrote>>
      /\ todo \in [Calls -> Seq(Server!StepNames)] /\ current \subseteq Calls
      /\ copy \in [Calls -> {copy[d] : d \in Calls}]
  BY DEF Server!Fail, OrderInv, AccountInv, Server!TypeOK
<1>2. AccountInv'
  BY FailKeeps DEF OrderInv
<1>3. \A d \in Calls : AfterRow(todo'[d])
  <2>1. AfterRow(<<>>)
    BY DEF AfterRow
  <2> QED BY <1>1, <2>1 DEF OrderInv
<1>4. ASSUME Orderly PROVE Orderly'
  <2>1. ASSUME NEW d \in current PROVE Fresh(d)'
    <3>1. d \in Calls /\ Fresh(d)
      BY <1>1, <1>4, <2>1 DEF Orderly
    <3>2. CASE d = c
      BY <1>1, <3>1, <3>2, FreshAtEnd
    <3>3. CASE d # c
      BY <1>1, <3>1, <3>3, FreshStays
    <3> QED BY <3>2, <3>3
  <2> QED BY <1>1, <1>4, <2>1 DEF Orderly
<1> QED BY <1>1, <1>2, <1>3, <1>4 DEF OrderInv

LEMMA InitOrder == Server!Init => OrderInv
<1> SUFFICES ASSUME Server!Init PROVE OrderInv
  OBVIOUS
<1>1. PICK p \in Passwords :
        account = [status |-> "ACTIVE", hash |-> p, roles |-> {},
                   sessions |-> [s \in {First} |-> Server!NewSession]]
  BY DEF Server!Init
<1>2. /\ DOMAIN account.sessions = {First} /\ account.sessions[First].next = None
      /\ account.status = "ACTIVE"
  BY <1>1 DEF Server!NewSession
<1>3. InOrder(account.sessions, account.status, command)
  BY <1>2, IdsAssumption DEF InOrder
<1>4. \A d \in Calls : AfterRow(todo[d])
  BY DEF Server!Init, AfterRow
<1>5. current = {}
  BY DEF Server!Init
<1> QED BY <1>3, <1>4, <1>5, AccountInit DEF OrderInv, Orderly

LEMMA StepOrder == OrderInv /\ [Server!Next]_(Server!vars) => OrderInv'
<1> SUFFICES ASSUME OrderInv, [Server!Next]_(Server!vars) PROVE OrderInv'
  OBVIOUS
<1>1. AccountInv'
  BY AccountStep DEF OrderInv
<1>2. CASE UNCHANGED Server!vars
  <2>1. UNCHANGED <<account, command, todo, copy, current, overwrote>>
    BY <1>2 DEF Server!vars
  <2> QED BY <1>1, <2>1 DEF OrderInv, Orderly, Fresh, Merged, Server!Running
<1>3. ASSUME NEW c \in Calls, NEW m \in Server!Command, Server!Start(c, m) PROVE OrderInv'
  BY <1>3, OrderStart
<1>4. ASSUME NEW c \in Calls, Server!Work(c) PROVE OrderInv'
  <2>1. CASE Server!FindSession(c) \/ Server!FindResetToken(c) \/ Server!Invalidate(c) \/ Server!SaveResetToken(c)
    <3>1. UNCHANGED <<account, copy, current, overwrote>>
      BY <2>1 DEF Server!FindSession, Server!FindResetToken, Server!Invalidate,
         Server!SaveResetToken
    <3>2. \E name \in {"token", "resetToken", "invalidate", "issue", "use"} : Server!Step(c, name)
      BY <2>1 DEF Server!FindSession, Server!FindResetToken, Server!Invalidate,
         Server!SaveResetToken
    <3> QED BY <1>1, <3>1, <3>2, OrderQuiet
  <2> QED BY <1>4, <2>1, OrderRow, OrderChildren, OrderSave, OrderRevoke, OrderFail DEF Server!Work
<1> QED BY <1>2, <1>3, <1>4 DEF Server!Next

\* However sign-ins, refreshes, resets and administrators overlap: as long as no save has
\* undone another call's commit, no session has two successors, one with a successor is
\* over and linked from it, and a locked account has no valid session.
THEOREM AccountStaysInOrder == Server!Spec => []Server!SessionsInOrder
<1>1. Server!Spec => []OrderInv
  BY InitOrder, StepOrder, PTL DEF Server!Spec
<1>2. OrderInv => Server!SessionsInOrder
  BY DEF OrderInv, Orderly, InOrder, Server!SessionsInOrder, Server!LinkedChains,
     Server!LockedOut, Server!Live
<1> QED BY <1>1, <1>2, PTL

-----------------------------------------------------------------------------
(* Chains, whatever is overwritten: a successor is the session of a refresh *)
(* that presented the one it succeeds, and a call that has answered well    *)
(* has stored the session it hands out.                                     *)

Linked(f, m) ==
  \A s \in DOMAIN f : f[s].next # None =>
    f[s].next \in Calls /\ m[f[s].next].do = "refresh" /\ m[f[s].next].token = s

Gives(c) ==
  /\ command[c] = Server!NoCommand => outcome[c] = "none"
  /\ outcome[c] = "ok" => todo[c] = <<>>
  /\ command[c].do \in GivesSession =>
       /\ todo[c] = <<"save">> => c \in DOMAIN copy[c].sessions
       /\ outcome[c] = "ok" => c \in DOMAIN account.sessions

ChainInv ==
  /\ AccountInv
  /\ First \in DOMAIN account.sessions
  /\ Linked(account.sessions, command)
  /\ \A c \in Calls : Linked(copy[c].sessions, command) /\ Gives(c)

\* What others see of a step: sessions stay, and so do commands and good answers.
Progress ==
  /\ DOMAIN account.sessions \subseteq DOMAIN account'.sessions
  /\ \A c \in Calls : command[c] # Server!NoCommand => command'[c] = command[c]
  /\ \A c \in Calls : outcome[c] = "ok" => outcome'[c] = "ok"

LEMMA ChangedLinked ==
  ASSUME NEW k, Server!IsAccount(k), Sound(k.sessions), NEW m, NEW c \in Calls,
         Linked(k.sessions, m), c \notin DOMAIN k.sessions, m[c] \in Server!Command \cup {Server!NoCommand},
         NEW l \in Server!Changed(k, c, m[c])
  PROVE  Linked(l.sessions, m) /\ (m[c].do \in GivesSession => c \in DOMAIN l.sessions)
<1> DEFINE f == k.sessions
<1>1. ASSUME NEW g, DOMAIN g = DOMAIN f, \A s \in DOMAIN f : g[s].next \in {None, f[s].next}
      PROVE  Linked(g, m)
  BY <1>1 DEF Linked
<1>2. CASE m[c].do \in {"login", "oauth"}
  <2>1. l = Server!WithSession(k, c)
    BY <1>2 DEF Server!Changed, Server!When
  <2>2. /\ DOMAIN l.sessions = DOMAIN f \cup {c}
        /\ \A s \in DOMAIN f : l.sessions[s] = f[s]
        /\ l.sessions[c] = Server!NewSession
    BY <2>1, WithSessionFields
  <2> QED BY <2>2 DEF Linked, Server!NewSession
<1>3. CASE m[c].do = "refresh"
  <2>1. PICK old \in DOMAIN f : old = m[c].token /\ l = Server!Rotated(k, old, c)
    BY <1>3 DEF Server!Changed
  <2>2. /\ DOMAIN l.sessions = DOMAIN f \cup {c}
        /\ \A s \in DOMAIN f \ {old} : l.sessions[s] = f[s]
        /\ l.sessions[old].next = c
        /\ l.sessions[c] = Server!NewSession
    BY <2>1, RotatedFields
  <2> QED BY <1>3, <2>1, <2>2 DEF Linked, Server!NewSession
<1>4. CASE m[c].do = "leave"
  <2> DEFINE g == [s \in DOMAIN f |-> IF s = m[c].token THEN Server!Revoked(f[s]) ELSE f[s]]
  <2>1. l = [k EXCEPT !.sessions = g]
    BY <1>4 DEF Server!Changed
  <2>2. l.sessions = g
    BY <2>1, AccountSessions
  <2>3. \A s \in DOMAIN f : g[s].next \in {None, f[s].next}
    BY DEF Server!Revoked, Sound, Server!Session
  <2>4. DOMAIN g = DOMAIN f
    OBVIOUS
  <2> HIDE DEF g
  <2> QED BY <1>1, <1>4, <2>2, <2>3, <2>4 DEF GivesSession
<1>5. CASE m[c].do \in {"change", "reset", "lock"}
  <2>1. SUFFICES ASSUME NEW r, r = Server!RevokeAll(k) PROVE Linked(l.sessions, m)
    BY <1>5 DEF GivesSession
  <2>2. /\ Server!IsAccount(r) /\ DOMAIN r.sessions = DOMAIN f
        /\ \A s \in DOMAIN f : r.sessions[s].next \in {None, f[s].next}
    BY <2>1, RevokeAllFields, RevokeAllFollows
  <2>3. l.sessions = r.sessions
    <3>1. \/ l = [r EXCEPT !.hash = m[c].new] /\ m[c].new \in Passwords
          \/ l = [r EXCEPT !.status = "LOCKED"]
      BY <1>5, <2>1 DEF Server!Changed, Server!When, Server!Locked, Server!Command, Server!NoCommand
    <3> QED BY <2>2, <3>1, NewHash, NewStatus DEF Server!Statuses
  <2> QED BY <1>1, <2>2, <2>3
<1>6. CASE m[c].do \in {"unlock", "assign", "revoke"}
  <2>1. \/ l = [k EXCEPT !.status = "ACTIVE"]
        \/ \E r : l = [k EXCEPT !.roles = r]
    BY <1>6 DEF Server!Changed, Server!When
  <2>2. l.sessions = f
    BY <2>1, AccountSessions
  <2> QED BY <1>6, <2>2 DEF GivesSession
<1>7. CASE m[c].do \notin {"login", "oauth", "refresh", "leave", "change", "reset", "lock",
                           "unlock", "assign", "revoke"}
  <2>1. l = k
    BY <1>7 DEF Server!Changed
  <2> QED BY <1>7, <2>1 DEF GivesSession
<1> QED BY <1>2, <1>3, <1>4, <1>5, <1>6, <1>7

LEMMA UpsertedLinked ==
  ASSUME NEW f, NEW g, NEW m, Linked(f, m), Linked(g, m), NEW h, h = Server!Upserted(f, g)
  PROVE  Linked(h, m)
<1>1. DOMAIN h = DOMAIN f \cup DOMAIN g
  BY UpsertedDomain
<1> SUFFICES ASSUME NEW s \in DOMAIN h, h[s].next # None
             PROVE  h[s].next \in Calls /\ m[h[s].next].do = "refresh" /\ m[h[s].next].token = s
  BY DEF Linked
<1>2. CASE s \in DOMAIN g /\ s \in DOMAIN f
  <2>1. h[s].next = IF g[s].next = None THEN f[s].next ELSE g[s].next
    BY <1>2, UpsertedSession
  <2> QED BY <1>2, <2>1 DEF Linked
<1>3. CASE s \in DOMAIN g /\ s \notin DOMAIN f
  <2>1. h[s] = g[s]
    BY <1>3, UpsertedSession
  <2> QED BY <1>3, <2>1 DEF Linked
<1>4. CASE s \in DOMAIN f /\ s \notin DOMAIN g
  <2>1. h[s] = f[s]
    BY <1>4, UpsertedOld
  <2> QED BY <1>4, <2>1 DEF Linked
<1> QED BY <1>1, <1>2, <1>3, <1>4

\* What a call gives out, after a step of c, which answers only with the last one.
LEMMA StepGives ==
  ASSUME ChainInv, NEW c \in Calls, NEW name, Server!Step(c, name),
         DOMAIN account.sessions \subseteq DOMAIN account'.sessions,
         \A d \in Calls \ {c} : copy'[d] = copy[d],
         command[c].do \in GivesSession =>
           /\ name = "children" => c \in DOMAIN copy'[c].sessions
           /\ name = "save" => c \in DOMAIN account'.sessions
  PROVE  Progress /\ \A d \in Calls : Gives(d)'
<1>1. /\ todo[c] # <<>> /\ Head(todo[c]) = name
      /\ todo' = [todo EXCEPT ![c] = Tail(todo[c])] /\ command' = command
      /\ outcome' = [outcome EXCEPT ![c] = IF Tail(todo[c]) = <<>> THEN "ok" ELSE outcome[c]]
      /\ todo \in [Calls -> Seq(Server!StepNames)] /\ outcome \in [Calls -> Server!Outcomes]
  BY DEF Server!Step, Server!Running, ChainInv, AccountInv, Server!TypeOK
<1>2. \A d \in Calls \ {c} : todo'[d] = todo[d] /\ outcome'[d] = outcome[d]
  BY <1>1
<1>3. \A d \in Calls \ {c} : Gives(d)'
  BY <1>1, <1>2 DEF ChainInv, Gives
<1>4. /\ todo'[c] = Tail(todo[c]) /\ outcome[c] # "ok" /\ command[c] # Server!NoCommand
      /\ outcome'[c] = IF todo'[c] = <<>> THEN "ok" ELSE outcome[c]
  BY <1>1 DEF ChainInv, Gives, AccountInv, Planned
<1>5. ASSUME command[c].do \in GivesSession
      PROVE  /\ todo'[c] = <<"save">> => name = "children"
             /\ todo'[c] = <<>> => name = "save"
  <2>1. todo[c] \in Plans
    BY <1>5 DEF ChainInv, AccountInv, Planned
  <2>2. /\ <<"row", "children", "save">> # <<"save">> /\ <<"row", "children", "save">> # <<>>
        /\ <<"children", "save">> # <<"save">> /\ <<"children", "save">> # <<>>
        /\ <<"save">> # <<>>
        /\ Head(<<"children", "save">>) = "children" /\ Head(<<"save">>) = "save"
    OBVIOUS
  <2> QED BY <1>1, <1>4, <2>1, <2>2, Tails DEF Plans
<1>6. Gives(c)'
  BY <1>1, <1>4, <1>5 DEF Gives
<1>7. Progress
  BY <1>1, <1>2, <1>4 DEF Progress
<1> QED BY <1>3, <1>6, <1>7

LEMMA ChainStart ==
  ASSUME ChainInv, NEW c \in Calls, NEW m \in Server!Command, Server!Start(c, m)
  PROVE  ChainInv' /\ Progress
<1>1. /\ command[c] = Server!NoCommand /\ command' = [command EXCEPT ![c] = m]
      /\ todo' = [todo EXCEPT ![c] = Server!Steps(m)]
      /\ UNCHANGED <<account, resets, copy, outcome, current, overwrote>>
      /\ command \in [Calls -> Server!Command \cup {Server!NoCommand}] /\ todo \in [Calls -> Seq(Server!StepNames)]
  BY DEF Server!Start, ChainInv, AccountInv, Server!TypeOK
<1>2. AccountInv'
  BY StartKeeps DEF ChainInv
<1>3. command'[c] = m /\ \A d \in Calls \ {c} : command'[d] = command[d] /\ todo'[d] = todo[d]
  BY <1>1
<1>4. ASSUME NEW f, Linked(f, command) PROVE Linked(f, command')
  <2>1. Server!NoCommand.do # "refresh"
    BY DEF Server!NoCommand
  <2> QED BY <1>1, <1>3, <1>4, <2>1 DEF Linked
<1>5. \A d \in Calls : Gives(d)'
  <2>1. \A d \in Calls \ {c} : Gives(d)'
    BY <1>1, <1>3 DEF ChainInv, Gives
  <2>2. outcome[c] = "none" /\ m # Server!NoCommand /\ todo'[c] = Server!Steps(m)
    BY <1>1, StepsType DEF ChainInv, Gives
  <2>3. m.do \in GivesSession => Server!Steps(m) # <<"save">>
    BY DEF Server!Steps, GivesSession
  <2>4. Gives(c)'
    BY <1>1, <1>3, <2>2, <2>3 DEF Gives
  <2> QED BY <2>1, <2>4
<1>6. Progress
  BY <1>1, <1>3 DEF Progress
<1> QED BY <1>1, <1>2, <1>4, <1>5, <1>6 DEF ChainInv

\* A step that changes no sessions, in the account or in a copy.
LEMMA ChainQuiet ==
  ASSUME ChainInv, AccountInv', NEW c \in Calls, NEW name, Server!Step(c, name), name \notin {"children", "save"},
         UNCHANGED account, \A d \in Calls : copy'[d].sessions = copy[d].sessions,
         \A d \in Calls \ {c} : copy'[d] = copy[d]
  PROVE  ChainInv' /\ Progress
<1>1. command' = command
  BY DEF Server!Step
<1>2. Progress /\ \A d \in Calls : Gives(d)'
  BY StepGives
<1> QED BY <1>1, <1>2 DEF ChainInv

LEMMA ChainChildren ==
  ASSUME ChainInv, NEW c \in Calls, Server!FindChildren(c)
  PROVE  ChainInv' /\ Progress
<1> DEFINE old == [account EXCEPT !.status = copy[c].status]
<1>1. PICK k \in Server!Changed(old, c, command[c]) : copy' = [copy EXCEPT ![c] = k]
  BY DEF Server!FindChildren
<1>2. /\ Server!Step(c, "children") /\ UNCHANGED account /\ command' = command
      /\ copy \in [Calls -> {copy[d] : d \in Calls}] /\ Server!IsAccount(account)
      /\ copy[c].status \in Server!Statuses /\ command[c] \in Server!Command \cup {Server!NoCommand}
      /\ Good(account.sessions, account.sessions, command, todo)
  BY AccountSessions DEF Server!FindChildren, Server!Step, ChainInv, AccountInv, Server!TypeOK
<1>3. AccountInv'
  BY ChildrenKeep DEF ChainInv
<1>4. copy'[c] = k /\ \A d \in Calls \ {c} : copy'[d] = copy[d]
  BY <1>1, <1>2
<1>5. c \notin DOMAIN account.sessions
  <2>1. todo[c] # <<>> /\ Head(todo[c]) = "children"
    BY <1>2 DEF Server!Step, Server!Running
  <2> QED BY <1>2, <2>1, Tails DEF Good, Known
<1>6. Linked(k.sessions, command) /\ (command[c].do \in GivesSession => c \in DOMAIN k.sessions)
  <2>1. Server!IsAccount(old) /\ old.sessions = account.sessions
    BY <1>2, NewStatus
  <2> HIDE DEF old
  <2> QED BY <1>1, <1>2, <1>5, <2>1, ChangedLinked DEF ChainInv, Good
<1>7. Progress /\ \A d \in Calls : Gives(d)'
  BY <1>2, <1>4, <1>6, StepGives
<1>8. \A d \in Calls : Linked(copy'[d].sessions, command)
  BY <1>4, <1>6 DEF ChainInv
<1> QED BY <1>2, <1>3, <1>7, <1>8 DEF ChainInv

LEMMA NoLinks ==
  \A m : Linked(Server!NoAccount.sessions, m)
BY DEF Server!NoAccount, Linked

LEMMA ChainSave ==
  ASSUME ChainInv, NEW c \in Calls, Server!Save(c)
  PROVE  ChainInv' /\ Progress
<1>1. /\ Server!Step(c, "save") /\ command' = command
      /\ account' = [copy[c] EXCEPT !.sessions = Server!Upserted(account.sessions, copy[c].sessions)]
      /\ copy' = [copy EXCEPT ![c] = Server!NoAccount]
      /\ copy \in [Calls -> {copy[d] : d \in Calls}] /\ Server!IsAccount(copy[c])
  BY DEF Server!Save, Server!Step, ChainInv, AccountInv, Server!TypeOK
<1>2. AccountInv'
  BY SaveKeeps DEF ChainInv
<1>3. account'.sessions = Server!Upserted(account.sessions, copy[c].sessions)
  BY <1>1, AccountSessions
<1>4. Linked(account'.sessions, command)
  BY <1>3, UpsertedLinked DEF ChainInv
<1>5. DOMAIN account'.sessions = DOMAIN account.sessions \cup DOMAIN copy[c].sessions
  BY <1>3, UpsertedDomain
<1>6. copy'[c] = Server!NoAccount /\ \A d \in Calls \ {c} : copy'[d] = copy[d]
  BY <1>1
<1>7. command[c].do \in GivesSession => c \in DOMAIN copy[c].sessions
  <2>1. todo[c] # <<>> /\ Head(todo[c]) = "save"
    BY <1>1 DEF Server!Step, Server!Running
  <2>2. \A p \in Plans : p # <<>> /\ Head(p) = "save" => p = <<"save">>
    BY DEF Plans
  <2> QED BY <2>1, <2>2 DEF ChainInv, AccountInv, Planned, Gives
<1>8. Progress /\ \A d \in Calls : Gives(d)'
  BY <1>1, <1>5, <1>6, <1>7, StepGives
<1>9. \A d \in Calls : Linked(copy'[d].sessions, command)
  BY <1>6, NoLinks DEF ChainInv
<1> QED BY <1>1, <1>2, <1>4, <1>5, <1>8, <1>9 DEF ChainInv

LEMMA ChainRevoke ==
  ASSUME ChainInv, NEW c \in Calls, Server!RevokeSessions(c)
  PROVE  ChainInv' /\ Progress
<1> DEFINE f == account.sessions
           j == [s \in DOMAIN f |-> [f[s] EXCEPT !.revoked = TRUE, !.closed = TRUE]]
<1>1. /\ Server!Step(c, "revokeAll") /\ account' = [account EXCEPT !.sessions = j]
      /\ UNCHANGED <<copy, command>> /\ Server!IsAccount(account) /\ Good(f, f, command, todo)
  BY DEF Server!RevokeSessions, Server!Step, ChainInv, AccountInv, Server!TypeOK
<1>2. AccountInv'
  BY RevokeKeeps DEF ChainInv
<1>3. DOMAIN j = DOMAIN f /\ \A s \in DOMAIN f : j[s].next = f[s].next
  BY <1>1 DEF Good, Sound, Server!Session
<1> HIDE DEF j
<1>4. account'.sessions = j
  BY <1>1, AccountSessions
<1>5. Linked(j, command)
  BY <1>3 DEF ChainInv, Linked
<1>6. Progress /\ \A d \in Calls : Gives(d)'
  BY <1>1, <1>3, <1>4, StepGives
<1> QED BY <1>1, <1>2, <1>3, <1>4, <1>5, <1>6 DEF ChainInv

LEMMA ChainFail ==
  ASSUME ChainInv, NEW c \in Calls, Server!Fail(c)
  PROVE  ChainInv' /\ Progress
<1>1. /\ todo' = [todo EXCEPT ![c] = <<>>] /\ copy' = [copy EXCEPT ![c] = Server!NoAccount]
      /\ outcome' = [outcome EXCEPT ![c] = "failed"] /\ todo[c] # <<>>
      /\ UNCHANGED <<account, command>>
      /\ todo \in [Calls -> Seq(Server!StepNames)] /\ outcome \in [Calls -> Server!Outcomes]
      /\ copy \in [Calls -> {copy[d] : d \in Calls}]
  BY DEF Server!Fail, Server!Running, ChainInv, AccountInv, Server!TypeOK
<1>2. AccountInv'
  BY FailKeeps DEF ChainInv
<1>3. \A d \in Calls \ {c} :
        copy'[d] = copy[d] /\ todo'[d] = todo[d] /\ outcome'[d] = outcome[d]
  BY <1>1
<1>4. copy'[c] = Server!NoAccount /\ todo'[c] = <<>> /\ outcome'[c] = "failed"
  BY <1>1
<1>5. \A d \in Calls : Gives(d)'
  <2>1. \A d \in Calls \ {c} : Gives(d)'
    BY <1>1, <1>3 DEF ChainInv, Gives
  <2>2. command[c] # Server!NoCommand
    BY <1>1 DEF ChainInv, AccountInv, Planned
  <2>3. Gives(c)'
    BY <1>1, <1>4, <2>2 DEF Gives
  <2> QED BY <2>1, <2>3
<1>6. \A d \in Calls : Linked(copy'[d].sessions, command)
  BY <1>3, <1>4, NoLinks DEF ChainInv
<1>7. Progress
  BY <1>1, <1>3 DEF Progress, ChainInv, Gives
<1> QED BY <1>1, <1>2, <1>5, <1>6, <1>7 DEF ChainInv

LEMMA InitChain == Server!Init => ChainInv
<1> SUFFICES ASSUME Server!Init PROVE ChainInv
  OBVIOUS
<1>1. PICK p \in Passwords :
        account = [status |-> "ACTIVE", hash |-> p, roles |-> {},
                   sessions |-> [s \in {First} |-> Server!NewSession]]
  BY DEF Server!Init
<1>2. DOMAIN account.sessions = {First} /\ account.sessions[First].next = None
  BY <1>1 DEF Server!NewSession
<1>3. \A c \in Calls : copy[c] = Server!NoAccount /\ Gives(c)
  BY DEF Server!Init, Gives
<1> QED BY <1>2, <1>3, AccountInit, NoLinks DEF ChainInv, Linked

LEMMA StepChain == ChainInv /\ [Server!Next]_(Server!vars) => ChainInv' /\ Progress
<1> SUFFICES ASSUME ChainInv, [Server!Next]_(Server!vars) PROVE ChainInv' /\ Progress
  OBVIOUS
<1>1. AccountInv'
  BY AccountStep DEF ChainInv
<1>2. CASE UNCHANGED Server!vars
  <2>1. UNCHANGED <<account, command, todo, copy, outcome>>
    BY <1>2 DEF Server!vars
  <2> QED BY <1>1, <2>1 DEF ChainInv, Gives, Progress
<1>3. ASSUME NEW c \in Calls, NEW m \in Server!Command, Server!Start(c, m) PROVE ChainInv' /\ Progress
  BY <1>3, ChainStart
<1>4. ASSUME NEW c \in Calls, Server!Work(c) PROVE ChainInv' /\ Progress
  <2>1. CASE Server!FindSession(c) \/ Server!FindResetToken(c) \/ Server!Invalidate(c) \/ Server!SaveResetToken(c)
    <3>1. UNCHANGED <<account, copy>>
      BY <2>1 DEF Server!FindSession, Server!FindResetToken, Server!Invalidate,
         Server!SaveResetToken
    <3>2. \E name \in {"token", "resetToken", "invalidate", "issue", "use"} : Server!Step(c, name)
      BY <2>1 DEF Server!FindSession, Server!FindResetToken, Server!Invalidate,
         Server!SaveResetToken
    <3> QED BY <1>1, <3>1, <3>2, ChainQuiet
  <2>2. CASE Server!FindRow(c)
    <3>1. /\ Server!Step(c, "row") /\ copy' = [copy EXCEPT ![c].status = account.status]
          /\ UNCHANGED account /\ copy \in [Calls -> {copy[d] : d \in Calls}] /\ Server!IsAccount(copy[c])
      BY <2>2 DEF Server!FindRow, ChainInv, AccountInv, Server!TypeOK
    <3>2. copy'[c].sessions = copy[c].sessions /\ \A d \in Calls \ {c} : copy'[d] = copy[d]
      BY <3>1, AccountSessions
    <3> QED BY <1>1, <3>1, <3>2, ChainQuiet
  <2> QED BY <1>4, <2>1, <2>2, ChainChildren, ChainSave, ChainRevoke, ChainFail DEF Server!Work
<1> QED BY <1>2, <1>3, <1>4 DEF Server!Next

-----------------------------------------------------------------------------
(* The browser and the account together. *)

LEMMA AccountIsTyped == AccountInv => Server!TypeOK /\ Server!RotationClosesTheOld
BY DEF AccountInv, Good, Covered, Sound, Server!RotationClosesTheOld

IInv == AccountInv /\ TypeOK

LEMMA ServerMoves == IInv /\ [Next]_vars => [Server!Next]_(Server!vars)
<1> SUFFICES ASSUME IInv, [Next]_vars PROVE Server!Next \/ UNCHANGED serverVars
  BY DEF serverVars, Server!vars
<1>1. ASSUME NEW c \in Calls, NEW m \in Server!Command, Server!Start(c, m) PROVE Server!Next
  BY <1>1 DEF Server!Next
<1>2. ASSUME NEW c \in Calls, Work(c) PROVE Server!Next
  BY <1>2 DEF Work, Server!Next
<1>3. ASSUME NEW c \in Calls, Other(c) PROVE Server!Next
  <2>1. scene.others \subseteq Server!Command
    BY ScenesAssumption DEF IInv, TypeOK
  <2> QED BY <1>1, <1>3, <2>1 DEF Other
<1>4. ASSUME NEW c \in Calls, OtherReset(c) PROVE Server!Next
  <2>1. DOMAIN resets \subseteq Calls
    BY DEF IInv, TypeOK, Server!TypeOK
  <2>2. PICK k \in DOMAIN resets, p \in Passwords :
          Server!Start(c, [do |-> "reset", token |-> k, new |-> p])
    BY <1>4 DEF OtherReset
  <2>3. [do |-> "reset", token |-> k, new |-> p] \in Server!Command
    BY <2>1 DEF Server!Command
  <2> QED BY <1>1, <2>2, <2>3
<1>5. ASSUME NEW t \in Tabs, SignIn(t) PROVE Server!Next
  <2>1. PICK c \in Calls, p \in Passwords : Server!Start(c, [do |-> "login", password |-> p])
    BY <1>5 DEF SignIn
  <2>2. [do |-> "login", password |-> p] \in Server!Command
    BY DEF Server!Command
  <2> QED BY <1>1, <2>1, <2>2
<1>6. ASSUME NEW t \in Tabs, SignOut(t) PROVE Server!Next \/ UNCHANGED serverVars
  <2>1. [do |-> "logout"] \in Server!Command
    BY DEF Server!Command
  <2> QED BY <1>1, <1>6, <2>1 DEF SignOut
<1>7. ASSUME NEW t \in Tabs, NEW k, Ask(t, k) PROVE Server!Next \/ UNCHANGED serverVars
  <2>1. CASE UNCHANGED serverVars
    BY <2>1
  <2>2. ASSUME NEW c \in Calls, Browser!AskWithCookie(t, k, c),
               Server!Start(c, [do |-> "refresh", token |-> cookie])
        PROVE  Server!Next
    <3>1. cookie \in Server!Ids
      BY <2>2 DEF Browser!AskWithCookie, IInv, TypeOK, Browser!TypeOK, Server!Ids
    <3>2. [do |-> "refresh", token |-> cookie] \in Server!Command
      BY <3>1 DEF Server!Command
    <3> QED BY <1>1, <2>2, <3>2
  <2> QED BY <1>7, <2>1, <2>2 DEF Ask
<1>8. scene.tabs \subseteq Tabs
  BY ScenesAssumption DEF IInv, TypeOK
<1>9. CASE UNCHANGED vars
  BY <1>9 DEF vars
<1>10. CASE Next
  <2>1. ASSUME NEW t \in scene.tabs, RetryRefused(t) PROVE UNCHANGED serverVars
    BY <2>1 DEF RetryRefused
  <2>2. ASSUME NEW t \in scene.tabs, Reload(t) PROVE UNCHANGED serverVars
    BY <2>2 DEF Reload
  <2>3. ASSUME NEW t \in scene.tabs, NEW k, Settle(t, k) PROVE UNCHANGED serverVars
    BY <2>3 DEF Settle
  <2> QED BY <1>2, <1>3, <1>4, <1>5, <1>6, <1>7, <1>8, <1>10, <2>1, <2>2, <2>3 DEF Next
<1> QED BY <1>9, <1>10

-----------------------------------------------------------------------------
(* The steps of the browser keep its types. *)

LEMMA PageTypes ==
  ASSUME Browser!TypeOK, NEW t \in Tabs, NEW expired \in BOOLEAN, NEW handled \in BOOLEAN
  PROVE  /\ Browser!Settled(t, expired, handled) => tab' \in [Tabs -> Browser!Page]
         /\ Browser!SignedIn(t) => tab' \in [Tabs -> Browser!Page]
         /\ Browser!Expired(t) => tab' \in [Tabs -> Browser!Page]
         /\ \A k, ok : Browser!Take(t, k, ok) => tab' \in [Tabs -> Browser!Page]
<1>1. Browser!SignedIn(t) => tab' \in [Tabs -> Browser!Page]
  BY DEF Browser!SignedIn, Browser!TypeOK, Browser!Page, Browser!Fresh
<1>2. ASSUME NEW e \in BOOLEAN, NEW h \in BOOLEAN, Browser!Settled(t, e, h)
      PROVE  tab' \in [Tabs -> Browser!Page]
  BY <1>2 DEF Browser!Settled, Browser!TypeOK, Browser!Page, Browser!Fresh
<1>3. Browser!Expired(t) => tab' \in [Tabs -> Browser!Page]
  BY <1>2 DEF Browser!Expired, Browser!TypeOK
<1>4. tab[t].handled \in BOOLEAN
  BY DEF Browser!TypeOK, Browser!Page
<1> QED BY <1>1, <1>2, <1>3, <1>4 DEF Browser!Take

LEMMA JobTypes ==
  ASSUME Browser!TypeOK, NEW t \in Tabs, NEW k \in Browser!Kinds
  PROVE  /\ \A stage \in Browser!Stages, c \in Calls \cup {None} :
              Browser!Move(t, k, stage, c) => job' \in [Tabs -> [Browser!Kinds -> Browser!Job]]
         /\ Browser!Finish(t, k) => job' \in [Tabs -> [Browser!Kinds -> Browser!Job]]
         /\ \A c \in Calls \cup {None} : Browser!Begin(t, k, c) =>
              job' \in [Tabs -> [Browser!Kinds -> Browser!Job]] /\ disturbed' \in BOOLEAN
         /\ job[t][k] # Browser!Idle => job[t][k].call \in Calls \cup {None}
         /\ Browser!Busy \in BOOLEAN
<1>1. ASSUME NEW j \in Browser!Job, job' = [job EXCEPT ![t][k] = j]
      PROVE  job' \in [Tabs -> [Browser!Kinds -> Browser!Job]]
  BY <1>1 DEF Browser!TypeOK
<1>2. \A stage \in Browser!Stages, c \in Calls \cup {None} :
        Browser!Move(t, k, stage, c) => job' \in [Tabs -> [Browser!Kinds -> Browser!Job]]
  BY <1>1 DEF Browser!Move, Browser!Job
<1>3. Browser!Finish(t, k) => job' \in [Tabs -> [Browser!Kinds -> Browser!Job]]
  BY <1>1 DEF Browser!Finish, Browser!Job
<1>4. Browser!Busy \in BOOLEAN
  BY DEF Browser!Busy
<1>5. \A c \in Calls \cup {None} : Browser!Begin(t, k, c) =>
        job' \in [Tabs -> [Browser!Kinds -> Browser!Job]] /\ disturbed' \in BOOLEAN
  BY <1>2, <1>4 DEF Browser!Begin, Browser!Stages, Browser!TypeOK
<1>6. job[t][k] # Browser!Idle => job[t][k].call \in Calls \cup {None}
  BY DEF Browser!TypeOK, Browser!Job
<1> QED BY <1>2, <1>3, <1>4, <1>5, <1>6

\* A step that starts a job, one that ends it, and one in between.
LEMMA AskKeeps ==
  ASSUME Browser!TypeOK, NEW t \in Tabs, NEW k \in Browser!Kinds, Ask(t, k)
  PROVE  Browser!TypeOK'
<1>1. ASSUME NEW c \in Calls, Browser!AskWithCookie(t, k, c) PROVE Browser!TypeOK'
  <2>1. Browser!Begin(t, k, c) /\ UNCHANGED <<cookie, tab, left>>
    BY <1>1 DEF Browser!AskWithCookie
  <2> QED BY <2>1, JobTypes DEF Browser!TypeOK
<1>2. CASE Browser!AskWithout(t, k)
  <2>1. /\ Browser!Move(t, k, "asked", None) /\ disturbed' \in BOOLEAN
        /\ UNCHANGED <<cookie, tab, left>>
    BY <1>2, JobTypes DEF Browser!AskWithout, Browser!TypeOK
  <2>2. job' \in [Tabs -> [Browser!Kinds -> Browser!Job]]
    BY <2>1, JobTypes DEF Browser!Stages
  <2> QED BY <2>1, <2>2 DEF Browser!TypeOK
<1> QED BY <1>1, <1>2 DEF Ask

LEMMA SignInKeeps ==
  ASSUME Browser!TypeOK, NEW t \in Tabs, SignIn(t)
  PROVE  Browser!TypeOK'
<1>1. PICK c \in Calls : Browser!SignIn(t, c)
  BY DEF SignIn
<1>2. Browser!Begin(t, "signIn", c) /\ left' = {} /\ UNCHANGED <<cookie, tab>>
  BY <1>1 DEF Browser!SignIn
<1> QED BY <1>2, JobTypes DEF Browser!TypeOK, Browser!Kinds

LEMMA SignOutKeeps ==
  ASSUME Browser!TypeOK, NEW t \in Tabs, SignOut(t)
  PROVE  Browser!TypeOK'
<1>1. PICK c \in Calls \cup {None} : Browser!SignOut(t, c)
  BY DEF SignOut
<1>2. /\ Browser!Begin(t, "signOut", c) /\ tab' = [tab EXCEPT ![t].leaving = TRUE]
      /\ UNCHANGED <<cookie, left>>
  BY <1>1 DEF Browser!SignOut
<1>3. tab' \in [Tabs -> Browser!Page]
  BY <1>2 DEF Browser!TypeOK, Browser!Page
<1> QED BY <1>2, <1>3, JobTypes DEF Browser!TypeOK, Browser!Kinds

LEMMA ReloadKeeps ==
  ASSUME Browser!TypeOK, NEW t \in Tabs, Browser!Reload(t)
  PROVE  Browser!TypeOK'
<1>1. /\ tab' = [tab EXCEPT ![t] = Browser!Fresh]
      /\ job' = [job EXCEPT ![t] = [k \in Browser!Kinds |-> Browser!Idle]]
      /\ disturbed' \in BOOLEAN /\ UNCHANGED <<cookie, left>>
  BY DEF Browser!Reload, Browser!TypeOK
<1>2. tab' \in [Tabs -> Browser!Page]
  BY <1>1 DEF Browser!TypeOK, Browser!Page, Browser!Fresh
<1>3. job' \in [Tabs -> [Browser!Kinds -> Browser!Job]]
  BY <1>1 DEF Browser!TypeOK, Browser!Job
<1> QED BY <1>1, <1>2, <1>3 DEF Browser!TypeOK

LEMMA SettleKeeps ==
  ASSUME Browser!TypeOK, NEW t \in Tabs, NEW k \in Browser!Kinds, Settle(t, k)
  PROVE  Browser!TypeOK'
<1>1. ASSUME Browser!Finish(t, k) \/ (k \in {"signIn", "signOut"} /\ Browser!Finish(t, k)),
             tab' \in [Tabs -> Browser!Page], cookie' \in Calls \cup {First, None},
             left' \subseteq Tabs, disturbed' \in BOOLEAN
      PROVE  Browser!TypeOK'
  BY <1>1, JobTypes DEF Browser!TypeOK
<1>2. ASSUME NEW ok, Browser!Take(t, k, ok) PROVE tab' \in [Tabs -> Browser!Page]
  BY <1>2, PageTypes
<1>3. CASE Answered(t, k)
  <2>1. PICK c \in Calls : Browser!Answered(t, k, Token(c))
    BY <1>3 DEF Answered
  <2>2. Token(c) \in Calls \cup {None}
    BY DEF Token
  <2> QED BY <1>1, <1>2, <2>1, <2>2 DEF Browser!Answered, Browser!TypeOK
<1>4. CASE Browser!AnsweredWithout(t, k)
  BY <1>1, <1>2, <1>4 DEF Browser!AnsweredWithout, Browser!TypeOK
<1>5. CASE Browser!GaveUp(t, k)
  BY <1>1, <1>2, <1>5 DEF Browser!GaveUp, Browser!TypeOK
<1>6. CASE Browser!LostRoute(t, k)
  BY <1>1, <1>2, <1>6 DEF Browser!LostRoute, Browser!TypeOK
<1>7. CASE k = "signIn" /\ Browser!StoreToken(t)
  <2>1. /\ Browser!Move(t, "signIn", "storing", job[t]["signIn"].call)
        /\ job[t]["signIn"] # Browser!Idle /\ UNCHANGED <<cookie, tab, left, disturbed>>
    BY <1>7 DEF Browser!StoreToken, Browser!At, Browser!Idle
  <2>2. job' \in [Tabs -> [Browser!Kinds -> Browser!Job]]
    BY <1>7, <2>1, JobTypes DEF Browser!Stages
  <2> QED BY <2>1, <2>2 DEF Browser!TypeOK
<1>8. CASE k = "signIn" /\ Browser!SignInFailed(t)
  BY <1>1, <1>8 DEF Browser!SignInFailed, Browser!TypeOK
<1>9. CASE k = "signIn" /\ Browser!TokenStored(t)
  <2>1. job[t][k].call \in Calls \cup {None}
    BY <1>9, JobTypes DEF Browser!TokenStored, Browser!At, Browser!Idle
  <2>2. tab' \in [Tabs -> Browser!Page]
    BY <1>9, PageTypes DEF Browser!TokenStored
  <2> QED BY <1>1, <1>9, <2>1, <2>2 DEF Browser!TokenStored, Browser!TypeOK
<1>10. CASE k = "signOut" /\ Browser!LoggedOut(t)
  <2>1. /\ Browser!Settled(t, FALSE, tab[t].handled) /\ Browser!Move(t, "signOut", "clearing", None)
        /\ UNCHANGED <<cookie, left, disturbed>>
    BY <1>10 DEF Browser!LoggedOut
  <2>2. tab' \in [Tabs -> Browser!Page]
    BY <2>1, PageTypes DEF Browser!TypeOK, Browser!Page
  <2>3. job' \in [Tabs -> [Browser!Kinds -> Browser!Job]]
    BY <1>10, <2>1, JobTypes DEF Browser!Stages
  <2> QED BY <2>1, <2>2, <2>3 DEF Browser!TypeOK
<1>11. CASE k = "signOut" /\ Browser!CookieCleared(t)
  BY <1>1, <1>11 DEF Browser!CookieCleared, Browser!TypeOK
<1>12. k = "signIn" /\ StoreToken(t) => Browser!StoreToken(t)
  BY DEF StoreToken
<1> QED BY <1>3, <1>4, <1>5, <1>6, <1>7, <1>8, <1>9, <1>10, <1>11, <1>12 DEF Settle

LEMMA RefusedKeeps ==
  ASSUME Browser!TypeOK, NEW t \in Tabs, RetryRefused(t)
  PROVE  Browser!TypeOK'
<1>1. Browser!Expired(t) /\ UNCHANGED <<cookie, job, left, disturbed>>
  BY DEF RetryRefused, Browser!RetryRefused
<1> QED BY <1>1, PageTypes DEF Browser!TypeOK

-----------------------------------------------------------------------------
(* Every step of the two together keeps the types of the browser. *)

LEMMA BrowserKeeps == IInv /\ [Next]_vars => (Browser!TypeOK /\ reloads \in 0..scene.reloads)'
<1> SUFFICES ASSUME IInv, [Next]_vars
             PROVE  Browser!TypeOK' /\ (reloads \in 0..scene.reloads)'
  OBVIOUS
<1>1. Browser!TypeOK /\ reloads \in 0..scene.reloads /\ scene.tabs \subseteq Tabs
      /\ scene.reloads \in Nat
  BY ScenesAssumption DEF IInv, TypeOK
<1>2. CASE UNCHANGED webVars /\ UNCHANGED <<scene, reloads>>
  BY <1>1, <1>2 DEF webVars, Browser!TypeOK
<1>3. ASSUME NEW t \in scene.tabs, Reload(t)
      PROVE  Browser!TypeOK' /\ (reloads \in 0..scene.reloads)'
  BY <1>1, <1>3, ReloadKeeps DEF Reload
<1>4. ASSUME NEW t \in scene.tabs, SignIn(t) \/ SignOut(t) \/ RetryRefused(t) PROVE Browser!TypeOK'
  BY <1>1, <1>4, SignInKeeps, SignOutKeeps, RefusedKeeps
<1>5. ASSUME NEW t \in scene.tabs, NEW k \in Browser!Kinds, Ask(t, k) \/ Settle(t, k)
      PROVE  Browser!TypeOK'
  BY <1>1, <1>5, AskKeeps, SettleKeeps
<1>6. ASSUME NEW c \in Calls, Work(c) \/ Other(c) \/ OtherReset(c) PROVE UNCHANGED webVars
  BY <1>6 DEF Work, Other, OtherReset
<1>7. CASE UNCHANGED vars
  BY <1>2, <1>7 DEF vars, webVars
<1>8. CASE Next
  <2>1. UNCHANGED <<scene, reloads>> \/ \E t \in scene.tabs : Reload(t)
    BY <1>8 DEF Next
  <2> QED BY <1>1, <1>2, <1>3, <1>4, <1>5, <1>6, <1>8, <2>1 DEF Next
<1> QED BY <1>7, <1>8

LEMMA InitIInv == Init => IInv
<1> SUFFICES ASSUME Init PROVE IInv
  OBVIOUS
<1>1. AccountInv
  BY IdsAssumption, AccountInit DEF Init
<1>2. Browser!TypeOK
  BY DEF Init, Browser!Init, Browser!TypeOK, Browser!Page, Browser!Fresh, Browser!Job
<1>3. scene \in Scenes /\ reloads \in 0..scene.reloads
  BY ScenesAssumption DEF Init
<1> QED BY <1>1, <1>2, <1>3, AccountIsTyped DEF IInv, TypeOK

LEMMA NextType == AccountInv' => Server!TypeOK'
<1>1. AccountInv => Server!TypeOK
  BY AccountIsTyped
<1> QED BY <1>1, PTL

LEMMA StepIInv == IInv /\ [Next]_vars => IInv'
<1> SUFFICES ASSUME IInv, [Next]_vars PROVE IInv'
  OBVIOUS
<1>1. AccountInv'
  BY ServerMoves, IdsAssumption, AccountStep DEF IInv
<1>2. Server!TypeOK'
  BY <1>1, NextType
<1>3. scene' = scene
  BY DEF Next, Reload, vars
<1> QED BY <1>1, <1>2, <1>3, BrowserKeeps DEF IInv, TypeOK

LEMMA Invariance == Spec => []IInv
BY InitIInv, StepIInv, PTL DEF Spec

\* Accounts, tabs, jobs and the cookie keep their types.
THEOREM TypeCorrect == Spec => []TypeOK
<1>1. IInv => TypeOK
  BY DEF IInv
<1> QED BY <1>1, Invariance, PTL

\* However tabs, other devices and administrators meet: a session that a refresh gave out
\* was paid for with the one it presented, which is closed for ever.
THEOREM RefreshClosesTheOld == Spec => []RotationClosesTheOld
<1>1. IInv => RotationClosesTheOld
  BY AccountIsTyped DEF IInv, RotationClosesTheOld
<1> QED BY <1>1, Invariance, PTL

-----------------------------------------------------------------------------
(* Sessions in order, from the same proof about Identity. *)

LEMMA SameOrder == OrderInv => SessionsInOrder
BY DEF OrderInv, Orderly, InOrder, SessionsInOrder, Server!SessionsInOrder,
       Server!LinkedChains, Server!LockedOut, Server!Live

\* As long as no save has undone another call's commit, from whichever tab or device: no
\* session has two successors, one with a successor is over, every successor is linked to
\* the one it replaced, and a locked account has no valid session.
THEOREM SessionsStayInOrder == Spec => []SessionsInOrder
<1>1. Init => OrderInv
  BY IdsAssumption, InitOrder DEF Init
<1>2. IInv /\ OrderInv /\ [Next]_vars => OrderInv'
  BY ServerMoves, IdsAssumption, StepOrder
<1>3. Spec => []OrderInv
  BY <1>1, <1>2, Invariance, PTL DEF Spec
<1> QED BY <1>3, SameOrder, PTL

-----------------------------------------------------------------------------
(* The cookie.  While the jobs of the tabs do not overlap and no answer is  *)
(* lost (Calm), a session of the cookie is presented only by the job in     *)
(* flight, and what that job will bring has not been presented by anybody.  *)

Bringing == {"restore", "refresh", "signIn"}

\* What the call of a job is about.
JobKnown(t, k) ==
  LET c == job[t][k].call IN
  /\ k = "signIn" /\ job[t][k] # Browser!Idle => c # None
  /\ k = "signIn" /\ c # None => command[c].do = "login"
  /\ k \in {"restore", "refresh"} /\ c # None => command[c].do = "refresh"
  /\ k = "signIn" /\ job[t][k].at = "storing" => outcome[c] = "ok"

Presents(x, s) == command[x].do = "refresh" /\ command[x].token = s
Asks(x) == \E t \in Tabs, k \in {"restore", "refresh"} : job[t][k].call = x

\* One job at a time.
Single ==
  \A t \in Tabs, u \in Tabs, k \in Browser!Kinds, l \in Browser!Kinds :
    job[t][k] # Browser!Idle /\ job[u][l] # Browser!Idle => t = u /\ k = l

PresentedByJob == cookie # None => \A x \in Calls : Presents(x, cookie) => Asks(x)
BringsNew ==
  \A t \in Tabs, k \in Bringing : job[t][k].call # None =>
    \A x \in Calls : ~Presents(x, job[t][k].call)
LeftForGood ==
  /\ left # {} => cookie = None /\ \A t \in Tabs, k \in Bringing : job[t][k].call = None
  /\ \A t \in Tabs : t \in left \/ job[t]["signOut"].at = "clearing" => ~tab[t].tokens

Calm == Single /\ PresentedByJob /\ BringsNew /\ LeftForGood

CookieStored == cookie # None => cookie \in DOMAIN account.sessions
NobodyHome ==
  scene.tabs = {} =>
    cookie = None /\ left = {} /\ \A t \in Tabs, k \in Browser!Kinds : job[t][k] = Browser!Idle
PresentedStored ==
  scene.tabs # {} =>
    \A x \in Calls : command[x].do = "refresh" => command[x].token \in DOMAIN account.sessions
JobsKnown == \A t \in Tabs, k \in Browser!Kinds : JobKnown(t, k)

Held == CookieStored /\ NobodyHome /\ PresentedStored /\ JobsKnown /\ (~disturbed => Calm)

CookieInv == IInv /\ ChainInv /\ Held

LEMMA InitHeld == Init => Held
<1> SUFFICES ASSUME Init PROVE Held
  OBVIOUS
<1>1. /\ cookie \in {None, First} /\ left = {} /\ (scene.tabs = {} => cookie = None)
      /\ \A t \in Tabs : tab[t] = Browser!Fresh
      /\ \A t \in Tabs, k \in Browser!Kinds : job[t][k] = Browser!Idle
      /\ \A c \in Calls : command[c] = Server!NoCommand
      /\ DOMAIN account.sessions = {First}
  BY DEF Init, Browser!Init, Server!Init
<1>2. \A x \in Calls : command[x].do # "refresh"
  BY <1>1 DEF Server!NoCommand
<1>3. /\ \A t \in Tabs, k \in Browser!Kinds : job[t][k].call = None /\ job[t][k].at = "idle"
      /\ \A t \in Tabs : ~tab[t].tokens
      /\ "signOut" \in Browser!Kinds /\ Bringing \subseteq Browser!Kinds
  BY <1>1 DEF Browser!Idle, Browser!Fresh, Browser!Kinds, Bringing
<1>4. Calm
  BY <1>1, <1>2, <1>3 DEF Calm, Single, PresentedByJob, BringsNew, LeftForGood, Presents
<1> QED BY <1>1, <1>2, <1>3, <1>4
        DEF Held, CookieStored, NobodyHome, PresentedStored, JobsKnown, JobKnown

\* The server's part of a step: progress, and at most one new command.
ServerPart(c, m) ==
  /\ command[c] = Server!NoCommand
  /\ command'[c] = m
  /\ \A x \in Calls \ {c} : command'[x] = command[x]

LEMMA StartPart ==
  ASSUME IInv, NEW c \in Calls, NEW m, Server!Start(c, m)
  PROVE  ServerPart(c, m)
BY DEF Server!Start, ServerPart, IInv, TypeOK, Server!TypeOK

\* Calls that the tabs know of stay known.
LEMMA JobsStayKnown ==
  ASSUME CookieInv, Progress, NEW t \in Tabs, NEW k \in Browser!Kinds,
         job'[t][k] = job[t][k]
  PROVE  JobKnown(t, k)'
<1>1. JobKnown(t, k) /\ job[t][k] \in Browser!Job
  BY DEF CookieInv, Held, JobsKnown, IInv, TypeOK, Browser!TypeOK
<1>2. job[t][k].call \in Calls \cup {None}
  BY <1>1 DEF Browser!Job, Browser!Idle
<1>3. Server!NoCommand.do = "none"
  BY DEF Server!NoCommand
<1>4. \A c \in Calls : /\ command[c].do \in {"refresh", "login"} => command'[c] = command[c]
                       /\ outcome[c] = "ok" => outcome'[c] = "ok"
  BY <1>3 DEF Progress
<1>5. job[t][k].at = "storing" => job[t][k] # Browser!Idle
  BY DEF Browser!Idle
<1> QED BY <1>1, <1>2, <1>4, <1>5 DEF JobKnown

\* A step of the server alone, which presents nothing of the browser.
LEMMA ServerHeld ==
  ASSUME CookieInv, Progress, UNCHANGED webVars, scene' = scene,
         \/ UNCHANGED command
         \/ \E c \in Calls : \E m : ServerPart(c, m) /\ (scene.tabs # {} => m.do # "refresh")
  PROVE  Held'
<1>1. UNCHANGED <<cookie, tab, job, left, disturbed>>
  BY DEF webVars
<1>2. ASSUME scene.tabs # {}, NEW x \in Calls, command'[x].do = "refresh"
      PROVE  command'[x] = command[x]
  BY <1>2 DEF ServerPart
<1>3. CookieStored' /\ NobodyHome'
  BY <1>1 DEF CookieInv, Held, CookieStored, NobodyHome, Progress
<1>4. PresentedStored'
  BY <1>2 DEF CookieInv, Held, PresentedStored, Progress
<1>5. JobsKnown'
  BY <1>1, JobsStayKnown DEF JobsKnown
<1>6. ASSUME Calm PROVE Calm'
  <2>1. CASE scene.tabs # {}
    BY <1>1, <1>2, <1>6, <2>1
       DEF Calm, Single, PresentedByJob, BringsNew, LeftForGood, Presents, Asks
  <2>2. CASE scene.tabs = {}
    <3>1. cookie = None /\ \A t \in Tabs, k \in Browser!Kinds : job[t][k].call = None
      BY <2>2 DEF CookieInv, Held, NobodyHome, Browser!Idle
    <3>2. Bringing \subseteq Browser!Kinds
      BY DEF Bringing, Browser!Kinds
    <3> QED BY <1>1, <1>6, <3>1, <3>2
            DEF Calm, Single, PresentedByJob, BringsNew, LeftForGood
  <2> QED BY <2>1, <2>2
<1> QED BY <1>1, <1>3, <1>4, <1>5, <1>6 DEF CookieInv, Held

LEMMA KindsOfJobs ==
  /\ Bringing \subseteq Browser!Kinds /\ {"restore", "refresh"} \subseteq Bringing
  /\ \A k \in Browser!Kinds : k \in Bringing \/ k = "signOut"
  /\ "signOut" \in Browser!Kinds /\ "signOut" \notin Bringing
  /\ Browser!Idle.call = None /\ Browser!Idle.at = "idle"
BY DEF Bringing, Browser!Kinds, Browser!Idle

\* Of all jobs only that of t and k moves, and how.
Moves(t, k, stage, c) ==
  /\ job'[t][k].at = stage /\ job'[t][k].call = c
  /\ \A u \in Tabs, l \in Browser!Kinds : u # t \/ l # k => job'[u][l] = job[u][l]

LEMMA JobMoves ==
  ASSUME CookieInv, NEW t \in Tabs, NEW k \in Browser!Kinds
  PROVE  /\ \A stage, c : Browser!Move(t, k, stage, c) => Moves(t, k, stage, c)
         /\ \A c : Browser!Begin(t, k, c) => Moves(t, k, "asked", c)
         /\ Browser!Finish(t, k) => Moves(t, k, "idle", None) /\ job'[t][k] = Browser!Idle
<1>1. Browser!TypeOK
  BY DEF CookieInv, IInv, TypeOK
<1>2. ASSUME NEW stage, NEW c, Browser!Move(t, k, stage, c) PROVE Moves(t, k, stage, c)
  BY <1>1, <1>2 DEF Browser!Move, Moves, Browser!TypeOK
<1>3. ASSUME Browser!Finish(t, k) PROVE Moves(t, k, "idle", None) /\ job'[t][k] = Browser!Idle
  BY <1>1, <1>3, KindsOfJobs DEF Browser!Finish, Moves, Browser!TypeOK
<1> QED BY <1>2, <1>3 DEF Browser!Begin

\* A job begins where none is in flight, or the calm is over.
LEMMA Alone ==
  ASSUME NEW t \in Tabs, NEW k \in Browser!Kinds, NEW c, Moves(t, k, "asked", c),
         \A u \in Tabs, l \in Browser!Kinds : job[u][l] = Browser!Idle
  PROVE  /\ \A u \in Tabs, l \in Browser!Kinds : u # t \/ l # k => job'[u][l] = Browser!Idle
         /\ \A u \in Tabs, l \in Browser!Kinds : job'[u][l].call \in {c, None}
         /\ \A u \in Tabs : job'[u]["signOut"].at # "clearing"
         /\ Single'
BY KindsOfJobs DEF Moves, Single

\* A call with no command has no session and is nobody's job.
LEMMA NewCall ==
  ASSUME CookieInv, NEW c \in Calls, command[c] = Server!NoCommand
  PROVE  c \notin DOMAIN account.sessions
<1>1. Known(account.sessions, command, todo)
  BY DEF CookieInv, ChainInv, AccountInv, Good
<1> QED BY <1>1 DEF Known

LEMMA AskWithCookieHeld ==
  ASSUME CookieInv, Progress, NEW t \in scene.tabs, NEW k \in Browser!Kinds, NEW c \in Calls,
         scene.tabs \subseteq Tabs, scene' = scene, Browser!AskWithCookie(t, k, c),
         ServerPart(c, [do |-> "refresh", token |-> cookie])
  PROVE  Held'
<1> USE DEF CookieInv
<1>1. /\ job[t][k] = Browser!Idle /\ cookie # None /\ k \in {"restore", "refresh"}
      /\ Moves(t, k, "asked", c) /\ disturbed' = (disturbed \/ Browser!Busy)
      /\ UNCHANGED <<cookie, tab, left>> /\ t \in Tabs
  BY JobMoves DEF Browser!AskWithCookie, Browser!MayAsk, Browser!Begin
<1>2. cookie \in DOMAIN account.sessions /\ c \notin DOMAIN account.sessions /\ c # None
  BY <1>1, NewCall, IdsAssumption DEF Held, CookieStored, ServerPart
<1>3. \A x \in Calls : command'[x].do = "refresh" =>
        \/ x = c /\ command'[x].token = cookie
        \/ x # c /\ command'[x] = command[x]
  BY DEF ServerPart
<1>4. CookieStored' /\ NobodyHome'
  BY <1>1, <1>2 DEF Held, CookieStored, NobodyHome, Progress
<1>5. PresentedStored'
  BY <1>2, <1>3 DEF Held, PresentedStored, Progress
<1>6. JobsKnown'
  <2>1. JobKnown(t, k)'
    BY <1>1 DEF Moves, JobKnown, ServerPart
  <2>2. ASSUME NEW u \in Tabs, NEW l \in Browser!Kinds, u # t \/ l # k PROVE JobKnown(u, l)'
    <3>1. job'[u][l] = job[u][l]
      BY <1>1, <2>2 DEF Moves
    <3> QED BY <3>1, JobsStayKnown
  <2> QED BY <2>1, <2>2 DEF JobsKnown
<1>7. ASSUME ~disturbed' PROVE Calm'
  <2>1. ~disturbed /\ \A u \in Tabs, l \in Browser!Kinds : job[u][l] = Browser!Idle
    BY <1>1, <1>7 DEF Browser!Busy
  <2>2. Calm /\ \A x \in Calls : ~Presents(x, cookie)
    BY <1>1, <2>1, IdsAssumption, KindsOfJobs DEF Held, Calm, PresentedByJob, Asks
  <2>3. /\ job'[t][k].call = c /\ Single'
        /\ \A u \in Tabs, l \in Browser!Kinds : job'[u][l].call \in {c, None}
        /\ \A u \in Tabs : job'[u]["signOut"].at # "clearing"
    BY <1>1, <2>1, Alone DEF Moves
  <2>4. PresentedByJob'
    BY <1>1, <1>3, <2>2, <2>3 DEF PresentedByJob, Presents, Asks
  <2>5. \A x \in Calls : ~Presents(x, c)'
    BY <1>2, <1>3 DEF Held, PresentedStored, Presents
  <2>6. BringsNew'
    BY <2>3, <2>5, KindsOfJobs DEF BringsNew, Presents
  <2>7. LeftForGood'
    BY <1>1, <2>2, <2>3 DEF Calm, LeftForGood
  <2> QED BY <2>3, <2>4, <2>6, <2>7 DEF Calm
<1> QED BY <1>4, <1>5, <1>6, <1>7 DEF Held

LEMMA AskWithoutHeld ==
  ASSUME CookieInv, NEW t \in scene.tabs, NEW k \in Browser!Kinds,
         scene.tabs \subseteq Tabs, scene' = scene, UNCHANGED serverVars, Browser!AskWithout(t, k)
  PROVE  Held'
<1> USE DEF CookieInv
<1>1. /\ k \in {"restore", "refresh"}
      /\ Moves(t, k, "asked", None)
      /\ disturbed' = (disturbed \/ Browser!Busy \/ cookie # None)
      /\ UNCHANGED <<cookie, tab, left, account, command, outcome>> /\ t \in Tabs
  BY JobMoves DEF Browser!AskWithout, Browser!MayAsk, serverVars
<1>2. CookieStored' /\ NobodyHome' /\ PresentedStored'
  BY <1>1 DEF Held, CookieStored, NobodyHome, PresentedStored
<1>3. JobsKnown'
  <2>1. JobKnown(t, k)'
    BY <1>1 DEF Moves, JobKnown
  <2>2. ASSUME NEW u \in Tabs, NEW l \in Browser!Kinds, u # t \/ l # k PROVE JobKnown(u, l)'
    <3>1. job'[u][l] = job[u][l]
      BY <1>1, <2>2 DEF Moves
    <3> QED BY <1>1, <3>1 DEF Held, JobsKnown, JobKnown
  <2> QED BY <2>1, <2>2 DEF JobsKnown
<1>4. ASSUME ~disturbed' PROVE Calm'
  <2>1. /\ ~disturbed /\ cookie = None
        /\ \A u \in Tabs, l \in Browser!Kinds : job[u][l] = Browser!Idle
    BY <1>1, <1>4 DEF Browser!Busy
  <2>2. /\ Single'
        /\ \A u \in Tabs, l \in Browser!Kinds : job'[u][l].call = None
        /\ \A u \in Tabs : job'[u]["signOut"].at # "clearing"
    BY <1>1, <2>1, Alone
  <2> QED BY <1>1, <2>1, <2>2, KindsOfJobs
          DEF Held, Calm, PresentedByJob, BringsNew, LeftForGood
<1> QED BY <1>2, <1>3, <1>4 DEF Held

\* A sign-in or a sign-out begins; neither presents a session.
LEMMA SignInHeld ==
  ASSUME CookieInv, Progress, NEW t \in scene.tabs, NEW c \in Calls, NEW p,
         scene.tabs \subseteq Tabs, scene' = scene, Browser!SignIn(t, c),
         ServerPart(c, [do |-> "login", password |-> p])
  PROVE  Held'
<1> USE DEF CookieInv
<1> DEFINE k == "signIn"
<1>1. /\ Moves(t, k, "asked", c) /\ disturbed' = (disturbed \/ Browser!Busy)
      /\ left' = {} /\ UNCHANGED <<cookie, tab>> /\ t \in Tabs /\ k \in Browser!Kinds
  BY JobMoves DEF Browser!SignIn, Browser!Begin, Browser!Kinds
<1>2. c \notin DOMAIN account.sessions /\ c # None
  BY NewCall, IdsAssumption DEF ServerPart
<1>3. \A x \in Calls : command'[x].do = "refresh" => x # c /\ command'[x] = command[x]
  BY DEF ServerPart
<1>4. CookieStored' /\ NobodyHome' /\ PresentedStored'
  BY <1>1, <1>3 DEF Held, CookieStored, NobodyHome, PresentedStored, Progress
<1>5. JobsKnown'
  <2>1. JobKnown(t, k)'
    BY <1>1, <1>2 DEF Moves, JobKnown, ServerPart
  <2>2. ASSUME NEW u \in Tabs, NEW l \in Browser!Kinds, u # t \/ l # k PROVE JobKnown(u, l)'
    <3>1. job'[u][l] = job[u][l]
      BY <1>1, <2>2 DEF Moves
    <3> QED BY <3>1, JobsStayKnown
  <2> QED BY <2>1, <2>2 DEF JobsKnown
<1>6. ASSUME ~disturbed' PROVE Calm'
  <2>1. ~disturbed /\ \A u \in Tabs, l \in Browser!Kinds : job[u][l] = Browser!Idle
    BY <1>1, <1>6 DEF Browser!Busy
  <2>2. cookie # None => \A x \in Calls : ~Presents(x, cookie)
    BY <2>1, IdsAssumption, KindsOfJobs DEF Held, Calm, PresentedByJob, Asks
  <2>3. /\ Single'
        /\ \A u \in Tabs, l \in Browser!Kinds : job'[u][l].call \in {c, None}
        /\ \A u \in Tabs : job'[u]["signOut"].at # "clearing"
    BY <1>1, <2>1, Alone
  <2>4. PresentedByJob'
    BY <1>1, <1>3, <2>2 DEF PresentedByJob, Presents
  <2>5. \A x \in Calls : ~Presents(x, c)'
    BY <1>2, <1>3 DEF Held, PresentedStored, Presents
  <2>6. BringsNew'
    BY <2>3, <2>5, KindsOfJobs DEF BringsNew, Presents
  <2>7. LeftForGood'
    BY <1>1, <2>3 DEF LeftForGood
  <2> QED BY <2>3, <2>4, <2>6, <2>7 DEF Calm
<1> QED BY <1>4, <1>5, <1>6 DEF Held

LEMMA SignOutHeld ==
  ASSUME CookieInv, Progress, NEW t \in scene.tabs, NEW c \in Calls \cup {None},
         scene.tabs \subseteq Tabs, scene' = scene, Browser!SignOut(t, c),
         UNCHANGED command \/ (c \in Calls /\ ServerPart(c, [do |-> "logout"]))
  PROVE  Held'
<1> USE DEF CookieInv
<1> DEFINE k == "signOut"
<1>1. /\ Moves(t, k, "asked", c) /\ disturbed' = (disturbed \/ Browser!Busy)
      /\ tab' = [tab EXCEPT ![t].leaving = TRUE] /\ UNCHANGED <<cookie, left>>
      /\ t \in Tabs /\ k \in Browser!Kinds
  BY JobMoves DEF Browser!SignOut, Browser!Begin, Browser!Kinds
<1>2. \A u \in Tabs : tab'[u].tokens = tab[u].tokens
  BY <1>1 DEF IInv, TypeOK, Browser!TypeOK, Browser!Page
<1>3. \A x \in Calls : command'[x].do = "refresh" => command'[x] = command[x]
  BY DEF ServerPart
<1>4. CookieStored' /\ NobodyHome' /\ PresentedStored'
  BY <1>1, <1>3 DEF Held, CookieStored, NobodyHome, PresentedStored, Progress
<1>5. JobsKnown'
  <2>1. JobKnown(t, k)'
    BY DEF JobKnown
  <2>2. ASSUME NEW u \in Tabs, NEW l \in Browser!Kinds, u # t \/ l # k PROVE JobKnown(u, l)'
    <3>1. job'[u][l] = job[u][l]
      BY <1>1, <2>2 DEF Moves
    <3> QED BY <3>1, JobsStayKnown
  <2> QED BY <2>1, <2>2 DEF JobsKnown
<1>6. ASSUME ~disturbed' PROVE Calm'
  <2>1. ~disturbed /\ \A u \in Tabs, l \in Browser!Kinds : job[u][l] = Browser!Idle
    BY <1>1, <1>6 DEF Browser!Busy
  <2>2. Calm /\ (cookie # None => \A x \in Calls : ~Presents(x, cookie))
    BY <2>1, IdsAssumption, KindsOfJobs DEF Held, Calm, PresentedByJob, Asks
  <2>3. /\ Single'
        /\ \A u \in Tabs, l \in Browser!Kinds : u # t \/ l # k => job'[u][l] = Browser!Idle
        /\ \A u \in Tabs : job'[u]["signOut"].at # "clearing"
    BY <1>1, <2>1, Alone
  <2>4. PresentedByJob'
    BY <1>1, <1>3, <2>2 DEF PresentedByJob, Presents
  <2>5. \A u \in Tabs, l \in Bringing : job'[u][l].call = None
    BY <2>3, KindsOfJobs
  <2>6. BringsNew' /\ LeftForGood'
    BY <1>1, <1>2, <2>2, <2>3, <2>5 DEF BringsNew, Calm, LeftForGood
  <2> QED BY <2>3, <2>4, <2>6 DEF Calm
<1> QED BY <1>4, <1>5, <1>6 DEF Held

\* Only a good answer puts tokens into a tab.
NoNewTokens == \A u \in Tabs : tab'[u].tokens => tab[u].tokens

LEMMA TabsMove ==
  ASSUME Browser!TypeOK, NEW t \in Tabs
  PROVE  /\ \A e, h : Browser!Settled(t, e, h) => NoNewTokens /\ ~tab'[t].tokens
         /\ Browser!Expired(t) => NoNewTokens
         /\ \A k : Browser!Take(t, k, FALSE) => NoNewTokens
<1>1. ASSUME NEW e, NEW h, Browser!Settled(t, e, h) PROVE NoNewTokens /\ ~tab'[t].tokens
  BY <1>1 DEF Browser!Settled, Browser!TypeOK, Browser!Fresh, NoNewTokens
<1>2. Browser!Expired(t) => NoNewTokens
  BY <1>1 DEF Browser!Expired, NoNewTokens
<1> QED BY <1>1, <1>2 DEF Browser!Take

\* A job ends; when nothing was disturbed, no other is in flight.
LEMMA FinishHeld ==
  ASSUME CookieInv, NEW t \in Tabs, NEW k \in Browser!Kinds, scene.tabs # {},
         UNCHANGED <<account, command, outcome, scene>>,
         job[t][k] # Browser!Idle, job'[t][k] = Browser!Idle, Moves(t, k, "idle", None),
         disturbed => disturbed',
         cookie' # None => cookie' \in DOMAIN account.sessions,
         ~disturbed' =>
           /\ cookie' # None => \A x \in Calls : ~Presents(x, cookie')
           /\ left' # {} => cookie' = None
           /\ \A u \in left' : ~tab'[u].tokens
  PROVE  Held'
<1> USE DEF CookieInv
<1>1. CookieStored' /\ NobodyHome' /\ PresentedStored'
  BY DEF Held, CookieStored, NobodyHome, PresentedStored
<1>2. JobsKnown'
  <2>1. JobKnown(t, k)'
    BY KindsOfJobs DEF Moves, JobKnown
  <2>2. ASSUME NEW u \in Tabs, NEW l \in Browser!Kinds, u # t \/ l # k PROVE JobKnown(u, l)'
    <3>1. job'[u][l] = job[u][l]
      BY <2>2 DEF Moves
    <3> QED BY <3>1 DEF Held, JobsKnown, JobKnown
  <2> QED BY <2>1, <2>2 DEF JobsKnown
<1>3. ASSUME ~disturbed' PROVE Calm'
  <2>1. \A u \in Tabs, l \in Browser!Kinds : job'[u][l] = Browser!Idle
    BY <1>3 DEF Held, Calm, Single, Moves
  <2> QED BY <1>3, <2>1, KindsOfJobs
          DEF Calm, Single, PresentedByJob, BringsNew, LeftForGood, Presents
<1> QED BY <1>1, <1>2, <1>3 DEF Held

\* While only this job is in flight and asks for nothing, nobody has presented the cookie.
LEMMA NotPresented ==
  ASSUME Calm, NEW t \in Tabs, NEW k \in Browser!Kinds, job[t][k] # Browser!Idle,
         k \notin {"restore", "refresh"} \/ job[t][k].call = None
  PROVE  cookie # None => \A x \in Calls : ~Presents(x, cookie)
<1>1. \A x \in Calls : ~Asks(x)
  BY IdsAssumption, KindsOfJobs DEF Calm, Single, Asks
<1> QED BY <1>1 DEF Calm, PresentedByJob

LEMMA AnsweredHeld ==
  ASSUME CookieInv, NEW t \in scene.tabs, NEW k \in Browser!Kinds, scene.tabs \subseteq Tabs,
         UNCHANGED <<serverVars, scene>>, Answered(t, k)
  PROVE  Held'
<1> USE DEF CookieInv
<1>1. PICK c \in Calls : job[t][k].call = c /\ Browser!Answered(t, k, Token(c))
  BY DEF Answered
<1>2. /\ k \in {"restore", "refresh"} /\ k \in Bringing /\ cookie' = Token(c) /\ t \in Tabs
      /\ UNCHANGED <<left, disturbed>> /\ c # None
      /\ job[t][k] # Browser!Idle /\ job'[t][k] = Browser!Idle /\ Moves(t, k, "idle", None)
  BY <1>1, JobMoves, KindsOfJobs, IdsAssumption DEF Browser!Answered
<1>3. UNCHANGED <<account, command, outcome, scene>>
  BY DEF serverVars
<1>4. command[c].do = "refresh"
  BY <1>1, <1>2 DEF Held, JobsKnown, JobKnown
<1>5. cookie' # None => cookie' = c /\ outcome[c] = "ok"
  BY <1>2 DEF Token
<1>6. cookie' # None => cookie' \in DOMAIN account.sessions
  BY <1>4, <1>5 DEF ChainInv, Gives, GivesSession
<1>7. ASSUME ~disturbed'
      PROVE  left' = {} /\ (cookie' # None => \A x \in Calls : ~Presents(x, cookie'))
  BY <1>1, <1>2, <1>5, <1>7 DEF Held, Calm, BringsNew, LeftForGood
<1> QED BY <1>2, <1>3, <1>6, <1>7, FinishHeld

LEMMA UnansweredHeld ==
  ASSUME CookieInv, NEW t \in scene.tabs, NEW k \in Browser!Kinds, scene.tabs \subseteq Tabs,
         UNCHANGED <<serverVars, scene>>,
         Browser!AnsweredWithout(t, k) \/ Browser!GaveUp(t, k) \/ Browser!LostRoute(t, k)
  PROVE  Held'
<1> USE DEF CookieInv
<1>1. /\ k \in {"restore", "refresh"} /\ cookie' \in {None, cookie} /\ t \in Tabs
      /\ left' = left /\ job[t][k] # Browser!Idle /\ job'[t][k] = Browser!Idle
      /\ Moves(t, k, "idle", None) /\ Browser!Take(t, k, FALSE)
      /\ disturbed' \/ (UNCHANGED <<cookie, disturbed>> /\ job[t][k].call = None)
  BY JobMoves, KindsOfJobs
     DEF Browser!AnsweredWithout, Browser!GaveUp, Browser!LostRoute, Browser!At
<1>2. UNCHANGED <<account, command, outcome, scene>> /\ NoNewTokens
  BY <1>1, TabsMove DEF serverVars, IInv, TypeOK
<1>3. disturbed => disturbed'
  BY <1>1
<1>4. cookie' # None => cookie' \in DOMAIN account.sessions
  BY <1>1 DEF Held, CookieStored
<1>5. ASSUME ~disturbed'
      PROVE  /\ cookie' # None => \A x \in Calls : ~Presents(x, cookie')
             /\ left' # {} => cookie' = None
             /\ \A u \in left' : ~tab'[u].tokens
  <2>1. Calm /\ cookie' = cookie /\ job[t][k].call = None /\ left \subseteq Tabs
    BY <1>1, <1>5 DEF Held, IInv, TypeOK, Browser!TypeOK
  <2> QED BY <1>1, <1>2, <2>1, NotPresented DEF Calm, LeftForGood, NoNewTokens
<1> QED BY <1>1, <1>2, <1>3, <1>4, <1>5, FinishHeld

\* The end of a sign-in.
LEMMA SignedInHeld ==
  ASSUME CookieInv, NEW t \in scene.tabs, scene.tabs \subseteq Tabs,
         UNCHANGED <<serverVars, scene>>, Browser!SignInFailed(t) \/ Browser!TokenStored(t)
  PROVE  Held'
<1> USE DEF CookieInv
<1> DEFINE k == "signIn"
           c == job[t][k].call
<1>1. /\ t \in Tabs /\ k \in Browser!Kinds /\ k \in Bringing /\ left' = left
      /\ job[t][k] # Browser!Idle /\ job'[t][k] = Browser!Idle /\ Moves(t, k, "idle", None)
      /\ \/ UNCHANGED <<cookie, tab, disturbed>>
         \/ disturbed' /\ cookie' = cookie
         \/ cookie' = c /\ disturbed' = disturbed /\ job[t][k].at = "storing"
  BY JobMoves, KindsOfJobs
     DEF Browser!SignInFailed, Browser!TokenStored, Browser!At, Browser!Kinds, Bringing
<1>2. UNCHANGED <<account, command, outcome, scene>>
  BY DEF serverVars
<1>3. c # None /\ command[c].do = "login" /\ (job[t][k].at = "storing" => outcome[c] = "ok")
  BY <1>1 DEF Held, JobsKnown, JobKnown
<1>4. c \in Calls
  BY <1>1, <1>3, JobTypes DEF IInv, TypeOK
<1>5. cookie' # None => cookie' \in DOMAIN account.sessions
  BY <1>1, <1>3, <1>4
     DEF Held, CookieStored, ChainInv, Gives, GivesSession
<1>6. ASSUME ~disturbed'
      PROVE  left' = {} /\ (cookie' # None => \A x \in Calls : ~Presents(x, cookie'))
  <2>1. Calm
    BY <1>1, <1>6 DEF Held
  <2>2. left = {} /\ \A x \in Calls : ~Presents(x, c)
    BY <1>1, <1>3, <2>1 DEF Calm, BringsNew, LeftForGood
  <2>3. cookie # None => \A x \in Calls : ~Presents(x, cookie)
    BY <1>1, <2>1, NotPresented
  <2> QED BY <1>1, <2>2, <2>3
<1>7. disturbed => disturbed'
  BY <1>1
<1> QED BY <1>1, <1>2, <1>5, <1>6, <1>7, FinishHeld

LEMMA ClearedHeld ==
  ASSUME CookieInv, NEW t \in scene.tabs, scene.tabs \subseteq Tabs,
         UNCHANGED <<serverVars, scene>>, Browser!CookieCleared(t)
  PROVE  Held'
<1> USE DEF CookieInv
<1> DEFINE k == "signOut"
<1>1. /\ t \in Tabs /\ k \in Browser!Kinds /\ tab' = tab /\ job[t][k].at = "clearing"
      /\ job[t][k] # Browser!Idle /\ job'[t][k] = Browser!Idle /\ Moves(t, k, "idle", None)
      /\ \/ cookie' = None /\ left' = left \cup {t} /\ disturbed' = disturbed
         \/ disturbed' /\ cookie' = cookie
  BY JobMoves, KindsOfJobs DEF Browser!CookieCleared, Browser!At
<1>2. UNCHANGED <<account, command, outcome, scene>>
  BY DEF serverVars
<1>3. cookie' # None => cookie' \in DOMAIN account.sessions
  BY <1>1 DEF Held, CookieStored
<1>4. ASSUME ~disturbed' PROVE cookie' = None /\ \A u \in left' : ~tab'[u].tokens
  <2>1. Calm /\ left \subseteq Tabs
    BY <1>1, <1>4 DEF Held, IInv, TypeOK, Browser!TypeOK
  <2> QED BY <1>1, <1>4, <2>1 DEF Calm, LeftForGood
<1>5. disturbed => disturbed'
  BY <1>1
<1> QED BY <1>1, <1>2, <1>3, <1>4, <1>5, FinishHeld

\* A job in the middle: the token of a sign-in is to be stored, or a tab has signed out.
LEMMA StoreTokenHeld ==
  ASSUME CookieInv, NEW t \in scene.tabs, scene.tabs \subseteq Tabs,
         UNCHANGED <<serverVars, scene>>, StoreToken(t)
  PROVE  Held'
<1> USE DEF CookieInv
<1> DEFINE k == "signIn"
<1>1. PICK c \in Calls : job[t][k].call = c /\ Token(c) = c /\ Browser!StoreToken(t)
  BY DEF StoreToken
<1>2. /\ t \in Tabs /\ k \in Browser!Kinds /\ job[t][k] # Browser!Idle
      /\ Moves(t, k, "storing", job[t][k].call) /\ UNCHANGED <<cookie, tab, left, disturbed>>
  BY <1>1, JobMoves, KindsOfJobs DEF Browser!StoreToken, Browser!At, Browser!Kinds
<1>3. UNCHANGED <<account, command, outcome, scene>> /\ outcome[c] = "ok"
  BY <1>1, IdsAssumption DEF serverVars, Token
<1>4. CookieStored' /\ NobodyHome' /\ PresentedStored'
  BY <1>2, <1>3 DEF Held, CookieStored, NobodyHome, PresentedStored
<1>5. /\ \A u \in Tabs, l \in Browser!Kinds : job'[u][l].call = job[u][l].call
      /\ \A u \in Tabs : job'[u]["signOut"] = job[u]["signOut"]
      /\ \A u \in Tabs, l \in Browser!Kinds :
           job'[u][l] # Browser!Idle => job[u][l] # Browser!Idle
  BY <1>2, KindsOfJobs DEF Moves
<1>6. JobsKnown'
  <2>1. JobKnown(t, k)'
    BY <1>1, <1>2, <1>3, IdsAssumption DEF Moves, Held, JobsKnown, JobKnown
  <2>2. ASSUME NEW u \in Tabs, NEW l \in Browser!Kinds, u # t \/ l # k PROVE JobKnown(u, l)'
    <3>1. job'[u][l] = job[u][l]
      BY <1>2, <2>2 DEF Moves
    <3> QED BY <1>3, <3>1 DEF Held, JobsKnown, JobKnown
  <2> QED BY <2>1, <2>2 DEF JobsKnown
<1>7. ASSUME Calm PROVE Calm'
  <2>1. Single'
    BY <1>5, <1>7 DEF Calm, Single
  <2>2. PresentedByJob'
    BY <1>2, <1>3, <1>5, <1>7, KindsOfJobs DEF Calm, PresentedByJob, Asks, Presents
  <2>3. BringsNew'
    BY <1>3, <1>5, <1>7, KindsOfJobs DEF Calm, BringsNew, Presents
  <2>4. LeftForGood'
    BY <1>2, <1>5, <1>7, KindsOfJobs DEF Calm, LeftForGood
  <2> QED BY <2>1, <2>2, <2>3, <2>4 DEF Calm
<1> QED BY <1>2, <1>4, <1>6, <1>7 DEF Held

LEMMA LoggedOutHeld ==
  ASSUME CookieInv, NEW t \in scene.tabs, scene.tabs \subseteq Tabs,
         UNCHANGED <<serverVars, scene>>, Browser!LoggedOut(t)
  PROVE  Held'
<1> USE DEF CookieInv
<1> DEFINE k == "signOut"
<1>1. /\ t \in Tabs /\ k \in Browser!Kinds /\ job[t][k] # Browser!Idle
      /\ Moves(t, k, "clearing", None) /\ UNCHANGED <<cookie, left, disturbed>>
      /\ Browser!Settled(t, FALSE, tab[t].handled)
  BY JobMoves, KindsOfJobs DEF Browser!LoggedOut, Browser!At
<1>2. NoNewTokens /\ ~tab'[t].tokens /\ left \subseteq Tabs
  BY <1>1, TabsMove DEF IInv, TypeOK, Browser!TypeOK
<1>3. UNCHANGED <<account, command, outcome, scene>>
  BY DEF serverVars
<1>4. CookieStored' /\ NobodyHome' /\ PresentedStored'
  BY <1>1, <1>3 DEF Held, CookieStored, NobodyHome, PresentedStored
<1>5. /\ \A u \in Tabs, l \in Bringing : job'[u][l] = job[u][l]
      /\ \A u \in Tabs, l \in Browser!Kinds :
           job'[u][l] # Browser!Idle => job[u][l] # Browser!Idle
  BY <1>1, KindsOfJobs DEF Moves
<1>6. JobsKnown'
  <2>1. ASSUME NEW u \in Tabs, NEW l \in Bringing PROVE JobKnown(u, l)'
    BY <1>3, <1>5, <2>1, KindsOfJobs DEF Held, JobsKnown, JobKnown
  <2>2. \A u \in Tabs : JobKnown(u, k)'
    BY DEF JobKnown
  <2> QED BY <2>1, <2>2, KindsOfJobs DEF JobsKnown
<1>7. ASSUME Calm PROVE Calm'
  <2>1. Single'
    BY <1>5, <1>7 DEF Calm, Single
  <2>2. PresentedByJob'
    BY <1>1, <1>3, <1>5, <1>7, KindsOfJobs DEF Calm, PresentedByJob, Asks, Presents
  <2>3. BringsNew'
    BY <1>3, <1>5, <1>7 DEF Calm, BringsNew, Presents
  <2>4. LeftForGood'
    BY <1>1, <1>2, <1>5, <1>7 DEF Calm, LeftForGood, NoNewTokens, Moves
  <2> QED BY <2>1, <2>2, <2>3, <2>4 DEF Calm
<1> QED BY <1>1, <1>4, <1>6, <1>7 DEF Held

LEMMA RefusedHeld ==
  ASSUME CookieInv, NEW t \in scene.tabs, scene.tabs \subseteq Tabs, scene' = scene,
         RetryRefused(t)
  PROVE  Held'
<1> USE DEF CookieInv
<1>1. UNCHANGED <<account, command, outcome, cookie, job, left, disturbed>> /\ NoNewTokens
      /\ left \subseteq Tabs
  BY TabsMove DEF RetryRefused, Browser!RetryRefused, serverVars, IInv, TypeOK, Browser!TypeOK
<1>2. CookieStored' /\ NobodyHome' /\ PresentedStored' /\ JobsKnown'
  BY <1>1 DEF Held, CookieStored, NobodyHome, PresentedStored, JobsKnown, JobKnown
<1>3. Calm => Calm'
  BY <1>1 DEF Calm, Single, PresentedByJob, BringsNew, LeftForGood, Asks, Presents, NoNewTokens
<1> QED BY <1>1, <1>2, <1>3 DEF Held

\* A page that is loaded again forgets its jobs: the calm stays only if it had none.
LEMMA ReloadHeld ==
  ASSUME CookieInv, NEW t \in scene.tabs, scene.tabs \subseteq Tabs, Reload(t)
  PROVE  Held'
<1> USE DEF CookieInv
<1>1. /\ tab' = [tab EXCEPT ![t] = Browser!Fresh]
      /\ disturbed' = (disturbed \/ \E k \in Browser!Kinds : job[t][k] # Browser!Idle)
      /\ job' = [job EXCEPT ![t] = [k \in Browser!Kinds |-> Browser!Idle]]
      /\ UNCHANGED <<account, command, outcome, scene, cookie, left>>
      /\ Browser!TypeOK /\ t \in Tabs
  BY DEF Reload, Browser!Reload, serverVars, IInv, TypeOK
<1>2. /\ \A u \in Tabs \ {t} : job'[u] = job[u] /\ tab'[u] = tab[u]
      /\ \A k \in Browser!Kinds : job'[t][k] = Browser!Idle
      /\ ~tab'[t].tokens
  BY <1>1 DEF Browser!TypeOK, Browser!Fresh
<1>3. CookieStored' /\ NobodyHome' /\ PresentedStored'
  BY <1>1 DEF Held, CookieStored, NobodyHome, PresentedStored
<1>4. JobsKnown'
  BY <1>1, <1>2, KindsOfJobs DEF Held, JobsKnown, JobKnown
<1>5. ASSUME ~disturbed' PROVE Calm'
  <2>1. Calm /\ \A u \in Tabs, k \in Browser!Kinds : job'[u][k] = job[u][k]
    BY <1>1, <1>2, <1>5 DEF Held
  <2>2. NoNewTokens /\ left \subseteq Tabs
    BY <1>1, <1>2 DEF NoNewTokens, Browser!TypeOK
  <2>3. Single' /\ BringsNew' /\ PresentedByJob'
    BY <1>1, <2>1, KindsOfJobs DEF Calm, Single, BringsNew, PresentedByJob, Asks, Presents
  <2>4. LeftForGood'
    BY <1>1, <2>1, <2>2, KindsOfJobs DEF Calm, LeftForGood, NoNewTokens
  <2> QED BY <2>1, <2>3, <2>4 DEF Calm
<1> QED BY <1>3, <1>4, <1>5 DEF Held

-----------------------------------------------------------------------------
(* Every step keeps what is held of the cookie. *)

LEMMA StepHeld == CookieInv /\ [Next]_vars /\ Progress => Held'
<1> SUFFICES ASSUME CookieInv, [Next]_vars, Progress PROVE Held'
  OBVIOUS
<1>1. IInv /\ scene.tabs \subseteq Tabs
  BY ScenesAssumption DEF CookieInv, IInv, TypeOK
<1>2. CASE UNCHANGED vars
  BY <1>2, ServerHeld DEF vars, webVars, serverVars
<1>3. ASSUME NEW c \in Calls, Work(c), scene' = scene PROVE Held'
  <2>1. UNCHANGED <<command, webVars>>
    BY <1>3 DEF Work, Server!Work, Server!Step, Server!FindSession, Server!FindResetToken,
                Server!FindRow, Server!FindChildren, Server!Save, Server!RevokeSessions,
                Server!Invalidate, Server!SaveResetToken, Server!Fail
  <2> QED BY <1>3, <2>1, ServerHeld
<1>4. ASSUME NEW c \in Calls, Other(c) \/ OtherReset(c), scene' = scene PROVE Held'
  <2>1. PICK m : Server!Start(c, m) /\ (scene.tabs # {} => m.do # "refresh")
    <3>1. \A m \in scene.others : scene.tabs # {} => m.do # "refresh"
      BY <1>1, ScenesAssumption DEF IInv, TypeOK
    <3>2. CASE Other(c)
      BY <3>1, <3>2 DEF Other
    <3>3. CASE OtherReset(c)
      <4>1. PICK k \in DOMAIN resets, p \in Passwords :
              Server!Start(c, [do |-> "reset", token |-> k, new |-> p])
        BY <3>3 DEF OtherReset
      <4> QED BY <4>1
    <3> QED BY <1>4, <3>2, <3>3
  <2>2. UNCHANGED webVars
    BY <1>4 DEF Other, OtherReset
  <2> QED BY <1>1, <1>4, <2>1, <2>2, StartPart, ServerHeld
<1>5. ASSUME NEW t \in scene.tabs, SignIn(t), scene' = scene PROVE Held'
  BY <1>1, <1>5, StartPart, SignInHeld DEF SignIn
<1>6. ASSUME NEW t \in scene.tabs, SignOut(t), scene' = scene PROVE Held'
  BY <1>1, <1>6, StartPart, SignOutHeld DEF SignOut, serverVars
<1>7. ASSUME NEW t \in scene.tabs, NEW k \in Browser!Kinds, Ask(t, k), scene' = scene PROVE Held'
  BY <1>1, <1>7, StartPart, AskWithCookieHeld, AskWithoutHeld DEF Ask
<1>8. ASSUME NEW t \in scene.tabs, NEW k \in Browser!Kinds, Settle(t, k), scene' = scene
      PROVE  Held'
  BY <1>1, <1>8, AnsweredHeld, UnansweredHeld, SignedInHeld, ClearedHeld, StoreTokenHeld,
     LoggedOutHeld DEF Settle
<1>9. ASSUME NEW t \in scene.tabs, RetryRefused(t), scene' = scene PROVE Held'
  BY <1>1, <1>9, RefusedHeld
<1>10. ASSUME NEW t \in scene.tabs, Reload(t) PROVE Held'
  BY <1>1, <1>10, ReloadHeld
<1> QED BY <1>2, <1>3, <1>4, <1>5, <1>6, <1>7, <1>8, <1>9, <1>10 DEF Next

\* For any tabs, reloads, calls from elsewhere and answers of the server: while the jobs of
\* the tabs do not overlap and no answer is lost, the cookie names the last session of its
\* chain, and a tab that has signed out stays out and leaves no cookie.
THEOREM CookieStaysWithSession == Spec => []CookieFollowsSession
<1>1. Init => CookieInv
  BY InitIInv, InitHeld, IdsAssumption, InitChain DEF Init, CookieInv
<1>2. CookieInv /\ [Next]_vars => CookieInv'
  <2>1. CookieInv /\ [Next]_vars => IInv' /\ ChainInv' /\ Progress
    BY StepIInv, ServerMoves, IdsAssumption, StepChain DEF CookieInv
  <2> QED BY <2>1, StepHeld DEF CookieInv
<1>3. CookieInv => CookieFollowsSession
  <2> SUFFICES ASSUME CookieInv, ~disturbed PROVE CookieFollowsSession
    BY DEF CookieFollowsSession
  <2>1. Calm /\ CookieStored /\ left \subseteq Tabs
    BY DEF CookieInv, Held, IInv, TypeOK, Browser!TypeOK
  <2>2. ASSUME cookie # None, ~Browser!Busy
        PROVE  cookie \in DOMAIN account.sessions /\ account.sessions[cookie].next = None
    <3>1. \A x \in Calls : ~Presents(x, cookie)
      <4>1. \A t \in Tabs, k \in Browser!Kinds : job[t][k].call = None
        BY <2>2, KindsOfJobs DEF Browser!Busy
      <4>2. \A x \in Calls : ~Asks(x)
        BY <4>1, KindsOfJobs, IdsAssumption DEF Asks
      <4> QED BY <2>1, <2>2, <4>2 DEF Calm, PresentedByJob
    <3> QED BY <2>1, <2>2, <3>1
            DEF CookieStored, CookieInv, ChainInv, Linked, Presents
  <2> QED BY <2>1, <2>2 DEF Calm, LeftForGood, CookieFollowsSession, Browser!Authenticated
<1> QED BY <1>1, <1>2, <1>3, PTL DEF Spec
=============================================================================
