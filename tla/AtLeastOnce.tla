----------------------------- MODULE AtLeastOnce -----------------------------
(***************************************************************************)
(* What the transactional outbox promises to the code that uses it         *)
(* (docs/event-catalog.md, "Delivery semantics: at-least-once"): a message *)
(* that was accepted with its business transaction is delivered to every   *)
(* handler subscribed to it, possibly more than once, and only then        *)
(* closed; a closed message stays closed.                                  *)
(***************************************************************************)
CONSTANTS Messages,    \* outbox messages
          Consumers,   \* [Messages -> the handlers a message must reach]
          Deliverable  \* messages whose handlers accept them sooner or later

VARIABLES accepted,  \* messages committed with their aggregate
          reached,   \* [Messages -> handlers that have completed it]
          closed     \* messages nobody will deliver again

vars == <<accepted, reached, closed>>

Init == /\ accepted = {}
        /\ reached = [m \in Messages |-> {}]
        /\ closed = {}

Accept(m) == /\ accepted' = accepted \cup {m}
             /\ UNCHANGED <<reached, closed>>

Deliver(m, h) == /\ m \in accepted
                 /\ h \in Consumers[m]
                 /\ reached' = [reached EXCEPT ![m] = @ \cup {h}]
                 /\ UNCHANGED <<accepted, closed>>

Close(m) == /\ m \in accepted
            /\ reached[m] = Consumers[m]
            /\ closed' = closed \cup {m}
            /\ UNCHANGED <<accepted, reached>>

Next == \E m \in Messages :
          \/ Accept(m)
          \/ \E h \in Consumers[m] : Deliver(m, h)
          \/ Close(m)

Spec == Init /\ [][Next]_vars

\* Nothing deliverable is forgotten.
Delivery == \A m \in Deliverable : m \in accepted ~> m \in closed
=============================================================================
