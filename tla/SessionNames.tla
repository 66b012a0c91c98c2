----------------------------- MODULE SessionNames -----------------------------
(* What calls on one account and the sessions they make are called.            *)

CONSTANTS Calls,   \* HTTP calls of any client; the session that one makes has its name
          First,   \* the session of an earlier visit
          None

ASSUME IdsAssumption == First \notin Calls /\ None \notin Calls \cup {First}
=============================================================================
