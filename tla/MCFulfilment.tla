---------------------------- MODULE MCFulfilment ----------------------------
(* Small instances of Fulfilment for TLC: one session with two lines, two calls. *)
EXTENDS Fulfilment

CONSTANTS i1, i2
MCCalls == {1, 2}
MCCart == [s \in Sessions |-> <<[item |-> i1, quantity |-> 1], [item |-> i2, quantity |-> 1]>>]
=============================================================================
