------------------------------ MODULE CouponLimit ------------------------------
(* How often the coupon of module Coupon may be used.                          *)
EXTENDS Naturals

CONSTANT MaxRedemptions

ASSUME MaxRedemptionsAssumption == MaxRedemptions \in Nat \ {0}
=============================================================================
