-------------------------------- MODULE MCCart --------------------------------
(* A small instance of Cart for TLC.                                         *)
EXTENDS Cart

MCCommands ==
  {[do |-> "get"], [do |-> "read"], [do |-> "clear"],
   [do |-> "add", product |-> "plain", quantity |-> 1],
   [do |-> "add", product |-> "variant", quantity |-> 2],
   [do |-> "update", line |-> "c1", quantity |-> 1],
   [do |-> "remove", line |-> "c1"]}
=============================================================================
