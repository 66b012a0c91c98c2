-------------------------------- MODULE Shipping --------------------------------
(***************************************************************************)
(* modules/shipping: the shipments of one order.  That an order has one    *)
(* shipment is checked before the insert and by nothing in the database.   *)
(* Later states of a shipment (in transit, delivered) have no handler.     *)
(*                                                                         *)
(* Operators whose name starts with Bug are mistakes the code does not     *)
(* make, put in place of the operator that follows them to see that a      *)
(* property notices.                                                       *)
(***************************************************************************)
EXTENDS Handler

CONSTANT None

Command == [do : {"create"}] \cup [do : {"dispatch"}, shipment : Calls]

\* A shipment is the call that gave it its tracking number; with none it is CREATED.
Init == HandlerInit /\ db = [s \in {} |-> None]

\* findByOrderId, which wants to find nothing, or findById.
BugFind(c) ==
  /\ Take(c, "begun", "loaded", db)
  /\ command[c].do = "dispatch" => command[c].shipment \in DOMAIN db
Find(c) ==
  /\ Take(c, "begun", "loaded", db)
  /\ command[c].do = "create" => DOMAIN db = {}
  /\ command[c].do = "dispatch" => command[c].shipment \in DOMAIN db

\* What a call writes: its own shipment, new or as the copy has it.
Written(k, c, m) ==
  IF m.do = "create" THEN {[s \in {c} |-> None]}
  ELSE {[s \in {t} |-> c] : t \in {u \in {m.shipment} : k[u] = None}}

\* PrismaShipmentRepository.save
Save(c) ==
  /\ phase[c] = "loaded"
  /\ \E w \in Written(copy[c], c, command[c]) : Commit(c, "loaded", "ok", Upserted(db, w))

Next ==
  \E c \in Calls :
    \/ \E m \in Command : Begin(c, m)
    \/ Find(c) \/ Save(c) \/ Fail(c)

-----------------------------------------------------------------------------
(* Properties *)

IsShipments(k) == DOMAIN k \subseteq Calls /\ k \in [DOMAIN k -> Calls \cup {None}]

\* Every variable has its type.
TypeOK ==
  /\ HandlerTypeOK(Command)
  /\ IsShipments(db)
  /\ \A c \in Calls : IsShipments(copy[c])

\* Unless a save has ignored another, an order has at most one shipment, and the tracking
\* number that a dispatch was answered with stays.
OneShipment ==
  faults = {} =>
    /\ \A s, t \in DOMAIN db : s = t
    /\ \A c \in Calls : phase[c] = "ok" /\ command[c].do = "dispatch" => db[command[c].shipment] = c
=============================================================================
