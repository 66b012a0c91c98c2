----------------------------- MODULE HandlerNames -----------------------------
(* What calls to the smaller modules, and what they create, are called.        *)

CONSTANTS Calls,     \* HTTP calls; one names whatever it creates
          Earlier    \* what was created by earlier calls

ASSUME EarlierAssumption == Earlier \cap Calls = {}
=============================================================================
