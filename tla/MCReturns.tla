------------------------------ MODULE MCReturns ------------------------------
(* Small instances of Returns for TLC. *)
EXTENDS Returns, TLC

CONSTANTS q1, q2, q3, q4, d1, d2, o1

MCPayments == {1, 2}
MCPaidFor == [p \in MCPayments |-> o1]
Symmetry == Permutations({q1, q2, q3, q4}) \cup Permutations({d1, d2})
=============================================================================
