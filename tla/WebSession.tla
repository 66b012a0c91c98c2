------------------------------ MODULE WebSession ------------------------------
(***************************************************************************)
(* The session of the shop in the browser (apps/web): what each tab holds  *)
(* in memory, and the one refresh cookie that all tabs share and that only *)
(* the routes under /api/auth/session read and write.                      *)
(*                                                                         *)
(* A tab has at most one of each kind of job in flight: the restore at its *)
(* start, the refresh after a 401, a sign-in, a sign-out.  Different kinds *)
(* and different tabs overlap as they like.  A job asks the gateway        *)
(* (through the cookie's route or directly), and an answer writes the      *)
(* cookie and settles the tab when it arrives.                             *)
(*                                                                         *)
(* Operators whose name starts with Bug are mistakes the code does not     *)
(* make, put in place of the operator that follows them to see that a      *)
(* property notices.                                                       *)
(***************************************************************************)
EXTENDS SessionNames

CONSTANT Tabs

Kinds == {"restore", "refresh", "signIn", "signOut"}
Stages == {"asked", "storing", "clearing"}
Idle == [at |-> "idle", call |-> None]

\* The variables of createMemoryAuthSession and of the guards.
Fresh == [tokens |-> FALSE, resolved |-> FALSE, leaving |-> FALSE, expired |-> FALSE,
          handled |-> FALSE]

VARIABLES
  cookie,     \* the session named by the refresh cookie
  tab,        \* [Tabs -> what the page holds]
  job,        \* [Tabs -> [Kinds -> the job in flight]]
  left,       \* history: the tabs that signed out since the last sign-in
  disturbed   \* history: jobs overlapped, an answer was lost, or a page left in between

webVars == <<cookie, tab, job, left, disturbed>>

Init ==
  /\ cookie \in {None, First}
  /\ tab = [t \in Tabs |-> Fresh]
  /\ job = [t \in Tabs |-> [k \in Kinds |-> Idle]]
  /\ left = {}
  /\ disturbed = FALSE

Busy == \E t \in Tabs, k \in Kinds : job[t][k] # Idle
Authenticated(t) == tab[t].tokens

At(t, k, stage) == job[t][k].at = stage
Move(t, k, stage, c) == job' = [job EXCEPT ![t][k] = [at |-> stage, call |-> c]]
Finish(t, k) == job' = [job EXCEPT ![t][k] = Idle]

\* A job begins by asking the gateway in call c, or nobody.
Begin(t, k, c) ==
  /\ job[t][k] = Idle
  /\ Move(t, k, "asked", c)
  /\ disturbed' = (disturbed \/ Busy)

-----------------------------------------------------------------------------
(* What settles a tab. *)

BugSignedIn(t) == tab' = [tab EXCEPT ![t] = [tokens |-> TRUE, resolved |-> TRUE]]
SignedIn(t) == tab' = [tab EXCEPT ![t] = [Fresh EXCEPT !.tokens = TRUE, !.resolved = TRUE]]

\* settleUnauthenticated
Settled(t, expired, handled) ==
  tab' = [tab EXCEPT ![t] = [Fresh EXCEPT !.resolved = TRUE, !.expired = expired,
                                          !.handled = handled]]

\* expireAuthenticatedSession: once until the next sign-in.
Expired(t) ==
  IF tab[t].handled THEN UNCHANGED tab ELSE Settled(t, TRUE, TRUE)

BugTake(t, k, ok) ==
  IF ok THEN SignedIn(t) ELSE IF k = "restore" THEN UNCHANGED tab ELSE Expired(t)
\* The answer to GET /api/auth/session decides about the tab.
Take(t, k, ok) ==
  IF ok THEN SignedIn(t)
  ELSE IF k = "restore" THEN Settled(t, FALSE, tab[t].handled) ELSE Expired(t)

-----------------------------------------------------------------------------
(* Restore and refresh: GET /api/auth/session, which asks the gateway for a *)
(* new token when the request brings a cookie.                              *)

MayAsk(t, k) ==
  \/ k = "restore" /\ ~tab[t].resolved
  \/ k = "refresh" /\ (Authenticated(t) \/ tab[t].expired)

AskWithCookie(t, k, c) ==
  /\ MayAsk(t, k)
  /\ cookie # None
  /\ Begin(t, k, c)
  /\ UNCHANGED <<cookie, tab, left>>

\* Without a cookie, or without reaching the route, nobody asks the gateway.
AskWithout(t, k) ==
  /\ MayAsk(t, k)
  /\ job[t][k] = Idle
  /\ Move(t, k, "asked", None)
  /\ disturbed' = (disturbed \/ Busy \/ cookie # None)
  /\ UNCHANGED <<cookie, tab, left>>

BugAnswered(t, k, token) ==
  /\ k \in {"restore", "refresh"} /\ At(t, k, "asked") /\ job[t][k].call # None
  /\ Take(t, k, token # None)
  /\ Finish(t, k)
  /\ UNCHANGED <<cookie, left, disturbed>>
\* The route answers with the token it was given, or clears the cookie.
Answered(t, k, token) ==
  /\ k \in {"restore", "refresh"} /\ At(t, k, "asked") /\ job[t][k].call # None
  /\ cookie' = token
  /\ Take(t, k, token # None)
  /\ Finish(t, k)
  /\ UNCHANGED <<left, disturbed>>

\* The route had no cookie to work with.
AnsweredWithout(t, k) ==
  /\ k \in {"restore", "refresh"} /\ At(t, k, "asked") /\ job[t][k].call = None
  /\ Take(t, k, FALSE)
  /\ Finish(t, k)
  /\ UNCHANGED <<cookie, left, disturbed>>

\* The route gives up on the gateway and clears the cookie.
GaveUp(t, k) ==
  /\ k \in {"restore", "refresh"} /\ At(t, k, "asked") /\ job[t][k].call # None
  /\ cookie' = None
  /\ Take(t, k, FALSE)
  /\ Finish(t, k)
  /\ disturbed' = TRUE
  /\ UNCHANGED left

\* The page does not hear from the route.
LostRoute(t, k) ==
  /\ k \in {"restore", "refresh"} /\ At(t, k, "asked")
  /\ Take(t, k, FALSE)
  /\ Finish(t, k)
  /\ disturbed' = TRUE
  /\ UNCHANGED <<cookie, left>>

\* A request that was retried with the new token is refused again.
RetryRefused(t) ==
  /\ Authenticated(t) \/ tab[t].expired
  /\ Expired(t)
  /\ UNCHANGED <<cookie, job, left, disturbed>>

-----------------------------------------------------------------------------
(* Sign-in: the gateway's answer is stored in the cookie, then in the tab. *)

SignIn(t, c) ==
  /\ Begin(t, "signIn", c)
  /\ left' = {}
  /\ UNCHANGED <<cookie, tab>>

StoreToken(t) ==
  /\ At(t, "signIn", "asked")
  /\ Move(t, "signIn", "storing", job[t]["signIn"].call)
  /\ UNCHANGED <<cookie, tab, left, disturbed>>

\* Refused, or no answer: the form shows an error.
SignInFailed(t) ==
  /\ At(t, "signIn", "asked")
  /\ Finish(t, "signIn")
  /\ UNCHANGED <<cookie, tab, left, disturbed>>

TokenStored(t) ==
  /\ At(t, "signIn", "storing")
  /\ \/ cookie' = job[t]["signIn"].call /\ UNCHANGED disturbed
     \/ disturbed' = TRUE /\ UNCHANGED cookie        \* persistSession only warns
  /\ SignedIn(t)
  /\ Finish(t, "signIn")
  /\ UNCHANGED left

-----------------------------------------------------------------------------
(* Sign-out: the gateway, then the tab, then the cookie. *)

SignOut(t, c) ==
  /\ Authenticated(t) /\ ~tab[t].leaving
  /\ Begin(t, "signOut", c)
  /\ tab' = [tab EXCEPT ![t].leaving = TRUE]
  /\ UNCHANGED <<cookie, left>>

\* The logout is answered, refused or not answered at all.
BugLoggedOut(t) ==
  /\ At(t, "signOut", "asked")
  /\ Settled(t, FALSE, tab[t].handled)
  /\ Finish(t, "signOut")
  /\ left' = left \cup {t}
  /\ UNCHANGED <<cookie, disturbed>>
LoggedOut(t) ==
  /\ At(t, "signOut", "asked")
  /\ Settled(t, FALSE, tab[t].handled)
  /\ Move(t, "signOut", "clearing", None)
  /\ UNCHANGED <<cookie, left, disturbed>>

CookieCleared(t) ==
  /\ At(t, "signOut", "clearing")
  /\ \/ cookie' = None /\ left' = left \cup {t} /\ UNCHANGED disturbed
     \/ disturbed' = TRUE /\ UNCHANGED <<cookie, left>>
  /\ Finish(t, "signOut")
  /\ UNCHANGED tab

\* The page is loaded again and its jobs are forgotten.
Reload(t) ==
  /\ tab' = [tab EXCEPT ![t] = Fresh]
  /\ disturbed' = (disturbed \/ \E k \in Kinds : job[t][k] # Idle)
  /\ job' = [job EXCEPT ![t] = [k \in Kinds |-> Idle]]
  /\ UNCHANGED <<cookie, left>>

-----------------------------------------------------------------------------
(* Property *)

Page == [tokens : BOOLEAN, resolved : BOOLEAN, leaving : BOOLEAN, expired : BOOLEAN,
         handled : BOOLEAN]
Job == [at : Stages, call : Calls \cup {None}] \cup {Idle}

\* Every variable has its type.
TypeOK ==
  /\ cookie \in Calls \cup {First, None}
  /\ tab \in [Tabs -> Page]
  /\ job \in [Tabs -> [Kinds -> Job]]
  /\ left \subseteq Tabs
  /\ disturbed \in BOOLEAN
=============================================================================
