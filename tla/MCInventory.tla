---------------------------- MODULE MCInventory ----------------------------
(* Small instances of Inventory for TLC. *)
EXTENDS Inventory, TLC

CONSTANTS i1, i2, o1, o2, r1, r2, r3

one(i, n) == [item |-> i, quantity |-> n]

\* The interesting commands of the gateway and of order.created.
MCCommands ==
  {[op |-> "create", item |-> i2, onHand |-> 2]} \cup
  {[op |-> "adjust", item |-> i1, delta |-> d] : d \in {1, -1, -2}} \cup
  {[op |-> "reserve", order |-> o1, lines |-> <<one(i1, 1)>>],
   [op |-> "reserve", order |-> o1, lines |-> <<one(i2, 1), one(i1, 2)>>],
   [op |-> "reserve", order |-> o2, lines |-> <<one(i1, 2)>>],
   [op |-> "release", item |-> i1, reservation |-> <<r1, 1>>],
   [op |-> "releaseOrder", order |-> o1]}

\* Two checkouts for the same item, and nothing else.
MCReserves ==
  {[op |-> "reserve", order |-> o, lines |-> <<one(i1, 2)>>] : o \in {o1, o2}}

\* Only r1 is named by a command.
Symmetry == Permutations({r2, r3})
=============================================================================
