------------------------------ MODULE MCOutbox ------------------------------
(* Small instances of Outbox for TLC.  The messages are, oldest first, two   *)
(* order.created (inventory, then notification), a payment.completed and an  *)
(* event nobody subscribes to.                                               *)
EXTENDS Outbox

MCMessages == 1..4
MCHandlers == <<2, 2, 1, 0>>

\* The first handler of the first message always refuses it (out of stock), and
\* the third message does not parse: two bad messages, one less than a batch of
\* three.
MCFailsAt == <<1, 3, 0, 1>>
=============================================================================
