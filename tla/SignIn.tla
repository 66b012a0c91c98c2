-------------------------------- MODULE SignIn --------------------------------
(***************************************************************************)
(* The tabs of one browser (WebSession), the account they belong to        *)
(* (Identity), and other calls on that account: from another device, from  *)
(* a mail with a reset link, from an administrator.                        *)
(***************************************************************************)
EXTENDS Integers, Sequences, SessionNames

CONSTANTS Passwords, Roles, Tabs,
          Scenes   \* which tabs are open and how often a page is loaded again, which calls
                   \* there are, and what those from elsewhere ask for

VARIABLES account, resets, command, todo, copy, outcome, current, overwrote,
          cookie, tab, job, left, disturbed,
          scene,    \* one of Scenes
          reloads   \* pages loaded again so far

serverVars == <<account, resets, command, todo, copy, outcome, current, overwrote>>
webVars == <<cookie, tab, job, left, disturbed>>
vars == <<serverVars, webVars, scene, reloads>>

Server == INSTANCE Identity
Browser == INSTANCE WebSession

\* The refresh cookie is httpOnly and leaves the browser only for its own routes: where
\* there are tabs, nobody else refreshes their sessions.
ASSUME ScenesAssumption ==
  \A s \in Scenes :
    /\ s.tabs \subseteq Tabs /\ s.reloads \in Nat
    /\ s.calls \subseteq Calls /\ s.others \subseteq Server!Command
    /\ s.tabs # {} => \A m \in s.others : m.do # "refresh"

\* Without tabs the first session belongs to another device.
Init ==
  /\ Server!Init
  /\ Browser!Init
  /\ scene \in Scenes
  /\ scene.tabs = {} => cookie = None
  /\ reloads = 0

\* Names of calls are interchangeable; the next one is used.
Free(c) ==
  LET unused == {d \in scene.calls : command[d] = Server!NoCommand} IN
  unused # {} /\ c = CHOOSE d \in unused : TRUE

\* The token that a finished call hands out.
Token(c) == IF outcome[c] = "ok" THEN c ELSE None

-----------------------------------------------------------------------------
(* Steps of the browser that start a call of the server. *)

Ask(t, k) ==
  \/ \E c \in Calls :
       /\ Free(c)
       /\ Browser!AskWithCookie(t, k, c)
       /\ Server!Start(c, [do |-> "refresh", token |-> cookie])
  \/ Browser!AskWithout(t, k) /\ UNCHANGED serverVars

SignIn(t) ==
  \E c \in Calls, p \in Passwords :
    /\ Free(c)
    /\ Browser!SignIn(t, c)
    /\ Server!Start(c, [do |-> "login", password |-> p])

\* With an access token that has expired the gateway refuses the logout at its door.
SignOut(t) ==
  \/ \E c \in Calls :
       /\ Free(c)
       /\ Browser!SignOut(t, c)
       /\ Server!Start(c, [do |-> "logout"])
  \/ Browser!SignOut(t, None) /\ UNCHANGED serverVars

\* Steps of the browser that wait for the server.
Answered(t, k) ==
  \E c \in {job[t][k].call} \cap Calls :
    Server!Done(c) /\ Browser!Answered(t, k, Token(c))

StoreToken(t) ==
  \E c \in {job[t]["signIn"].call} \cap Calls : Token(c) = c /\ Browser!StoreToken(t)

\* What ends the job of a tab, one way or another.
Settle(t, k) ==
  /\ \/ Answered(t, k) \/ Browser!AnsweredWithout(t, k)
     \/ Browser!GaveUp(t, k) \/ Browser!LostRoute(t, k)
     \/ k = "signIn" /\ (StoreToken(t) \/ Browser!SignInFailed(t) \/ Browser!TokenStored(t))
     \/ k = "signOut" /\ (Browser!LoggedOut(t) \/ Browser!CookieCleared(t))
  /\ UNCHANGED serverVars

RetryRefused(t) == Browser!RetryRefused(t) /\ UNCHANGED serverVars

Reload(t) ==
  /\ reloads < scene.reloads
  /\ reloads' = reloads + 1
  /\ Browser!Reload(t)
  /\ UNCHANGED <<serverVars, scene>>

Work(c) == Server!Work(c) /\ UNCHANGED webVars

Other(c) ==
  /\ Free(c)
  /\ \E m \in scene.others : Server!Start(c, m)
  /\ UNCHANGED webVars

OtherReset(c) ==
  /\ Free(c)
  /\ \E k \in DOMAIN resets, p \in Passwords :
       Server!Start(c, [do |-> "reset", token |-> k, new |-> p])
  /\ UNCHANGED webVars

Next ==
  \/ /\ \/ \E c \in Calls : Work(c) \/ Other(c) \/ OtherReset(c)
        \/ \E t \in scene.tabs : SignIn(t) \/ SignOut(t) \/ RetryRefused(t)
        \/ \E t \in scene.tabs, k \in Browser!Kinds : Ask(t, k) \/ Settle(t, k)
     /\ UNCHANGED <<scene, reloads>>
  \/ \E t \in scene.tabs : Reload(t)

\* Every page asks for its session when it is shown (SessionBootstrap); requests end by
\* an answer, an error or a time-out.
Fairness ==
  \A t \in Tabs :
    /\ WF_vars(t \in scene.tabs /\ Ask(t, "restore") /\ UNCHANGED <<scene, reloads>>)
    /\ WF_vars((\E k \in Browser!Kinds : Settle(t, k)) /\ UNCHANGED <<scene, reloads>>)

Spec == Init /\ [][Next]_vars /\ Fairness

-----------------------------------------------------------------------------
(* Properties *)

\* Every variable has its type.
TypeOK ==
  /\ Server!TypeOK
  /\ Browser!TypeOK
  /\ reloads \in 0..scene.reloads
  /\ scene \in Scenes

RotationClosesTheOld == Server!RotationClosesTheOld
SessionsInOrder == Server!SessionsInOrder

\* When no jobs of the tabs overlapped and no answer was lost, the cookie names the last
\* session of its chain, and a tab that has signed out stays out and leaves no cookie,
\* whatever other tabs still hold in memory and ask for.
CookieFollowsSession ==
  ~disturbed =>
    /\ cookie # None /\ ~Browser!Busy =>
         cookie \in DOMAIN account.sessions /\ account.sessions[cookie].next = None
    /\ left # {} => cookie = None
    /\ \A t \in left : ~Browser!Authenticated(t)

Deciding(t) == t \in scene.tabs /\ (~tab[t].resolved \/ tab[t].leaving)

\* A page does not stay undecided about its session, and a sign-out ends, whatever the
\* gateway does and whichever answers are lost.
Settles == \A t \in Tabs : Deciding(t) ~> ~Deciding(t)
=============================================================================
