-------------------------------- MODULE Coupon --------------------------------
(***************************************************************************)
(* modules/promotion: one coupon and its redemptions.  The database knows  *)
(* neither the limit nor that an order uses a coupon once; the aggregate   *)
(* checks both on its copy.  Time is left out: a coupon that is not valid  *)
(* today is one of the reasons of Fail.                                    *)
(*                                                                         *)
(* Operators whose name starts with Bug are mistakes the code does not     *)
(* make, put in place of the operator that follows them to see that a      *)
(* property notices.                                                       *)
(***************************************************************************)
EXTENDS Handler, CouponLimit, FiniteSets

CONSTANT Orders

Command == [order : Orders]

\* A redemption is its order.
Init == HandlerInit /\ db = [r \in {} |-> 0]

\* findByCode
Find(c) == Take(c, "begun", "loaded", db)

\* ensureValid
BugValid(redemptions) == Cardinality(DOMAIN redemptions) <= MaxRedemptions
Valid(redemptions) == Cardinality(DOMAIN redemptions) < MaxRedemptions

UsedFor(redemptions, order) == \E r \in DOMAIN redemptions : redemptions[r] = order

With(redemptions, c, order) ==
  [r \in DOMAIN redemptions \cup {c} |-> IF r = c THEN order ELSE redemptions[r]]

\* Coupon.use and PrismaCouponRepository.save: the redemptions become those of the copy,
\* the others are deleted.
BugUse(c) ==
  /\ Valid(copy[c])
  /\ ~UsedFor(copy[c], command[c].order)
  /\ Commit(c, "loaded", "ok", With(NoCopy, c, command[c].order))
Use(c) ==
  /\ Valid(copy[c])
  /\ ~UsedFor(copy[c], command[c].order)
  /\ Commit(c, "loaded", "ok", With(copy[c], c, command[c].order))

Next ==
  \E c \in Calls :
    \/ \E m \in Command : Begin(c, m)
    \/ Find(c) \/ Use(c) \/ Fail(c)

Spec == Init /\ [][Next]_handlerVars

-----------------------------------------------------------------------------
(* Properties *)

IsRedemptions(r) == DOMAIN r \subseteq Calls /\ r \in [DOMAIN r -> Orders]

\* Every variable has its type.
TypeOK ==
  /\ HandlerTypeOK(Command)
  /\ IsRedemptions(db)
  /\ \A c \in Calls : IsRedemptions(copy[c])

WithinLimit(r) ==
  /\ Cardinality(DOMAIN r) <= MaxRedemptions
  /\ \A i, j \in DOMAIN r : r[i] = r[j] => i = j

\* A coupon never stores more redemptions than it allows, nor two for one order, however
\* uses cross.
RedemptionsWithinLimit == WithinLimit(db)

\* Unless a save has undone another, every use that was answered is stored.
UsesAreKept ==
  faults = {} => {c \in Calls : phase[c] = "ok"} \subseteq DOMAIN db
=============================================================================
