----------------------------- MODULE MCStorefront -----------------------------
(* A small instance of Storefront for TLC.                                     *)
EXTENDS Storefront, TLC

CONSTANTS c1, c2, c3, c4, c5, c6, e1, e2

MCCalls == {c1, c2, c3, c4, c5, c6}

MCDeskCalls ==
  [d \in Desks |-> CASE d \in {"coupon", "shipping", "review"} -> {c1, c2, c3, c4}
                     [] d \in {"roles", "tree", "rolesPage", "listPage"} -> {c5, c6}
                     [] OTHER -> {c1, c2, c3}]

\* Calls that the same desks get are interchangeable, and what earlier calls created.
Symmetry == Permutations({c1, c2, c3}) \cup Permutations({c5, c6}) \cup Permutations({e1, e2})
=============================================================================
