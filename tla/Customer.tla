------------------------------- MODULE Customer -------------------------------
(***************************************************************************)
(* modules/user for one identity: the customer's profile and addresses.    *)
(* What an address, the profile and the preferences say is left out; of a  *)
(* call that only changes that, its load and its save of everything stay.  *)
(*                                                                         *)
(* Operators whose name starts with Bug are mistakes the code does not     *)
(* make, put in place of the operator that follows them to see that a      *)
(* property notices.                                                       *)
(***************************************************************************)
EXTENDS Handler

Command == [do : {"create", "profile", "preferences"}]
           \cup [do : {"add"}, default : BOOLEAN]
           \cup [do : {"update", "remove", "setDefault"}, address : Ids]

OneDefault(a) == DOMAIN a # {} => \E i \in DOMAIN a : \A j \in DOMAIN a : a[j] = (j = i)

\* An address is its flag isDefault.
Init ==
  /\ HandlerInit
  /\ \E profile \in BOOLEAN, ids \in SUBSET Earlier :
       \E i \in Earlier :
         /\ ids # {} => profile /\ i \in ids
         /\ db = [profile |-> profile, addresses |-> [j \in ids |-> j = i]]

\* findByIdentityId; create-customer-profile wants to find nothing.
Find(c) ==
  /\ db.profile = (command[c].do # "create")
  /\ Take(c, "begun", "loaded", db.addresses)

-----------------------------------------------------------------------------
(* The methods of User, on the addresses of a copy. *)

Added(a, c, default) ==
  [i \in DOMAIN a \cup {c} |->
     IF i = c THEN default \/ DOMAIN a = {} ELSE a[i] /\ ~default]

\* The database returns the addresses in any order, and the first becomes the default.
BugRemoved(a, address) == {[i \in DOMAIN a \ {address} |-> a[i]]}
Removed(a, address) ==
  LET rest == [i \in DOMAIN a \ {address} |-> a[i]] IN
  IF a[address] /\ DOMAIN rest # {}
  THEN {[rest EXCEPT ![i] = TRUE] : i \in DOMAIN rest}
  ELSE {rest}

Chosen(a, address) == [i \in DOMAIN a |-> i = address]

\* What the handler of m makes of a copy; nothing when it refuses.
Changed(a, c, m) ==
  CASE m.do = "add" -> {Added(a, c, m.default)}
    [] m.do = "update" -> {b \in {a} : m.address \in DOMAIN a}
    [] m.do = "remove" -> IF m.address \in DOMAIN a THEN Removed(a, m.address) ELSE {}
    [] m.do = "setDefault" ->
         IF m.address \in DOMAIN a THEN {b \in {Chosen(a, m.address)} : ~a[m.address]} ELSE {}
    [] OTHER -> {a}

\* PrismaUserRepository.save: the addresses that the copy does not have are deleted.
\* Identities are unique.
Save(c) ==
  /\ command[c].do = "create" => ~db.profile
  /\ \E a \in Changed(copy[c], c, command[c]) :
       Commit(c, "loaded", "ok", [profile |-> TRUE, addresses |-> a])

Next ==
  \E c \in Calls :
    \/ \E m \in Command : Begin(c, m)
    \/ Find(c) \/ Save(c) \/ Fail(c)

Spec == Init /\ [][Next]_handlerVars

-----------------------------------------------------------------------------
(* Properties *)

IsAddresses(a) == DOMAIN a \subseteq Ids /\ a \in [DOMAIN a -> BOOLEAN]

\* Every variable has its type.
TypeOK ==
  /\ HandlerTypeOK(Command)
  /\ db = [profile |-> db.profile, addresses |-> db.addresses]
  /\ db.profile \in BOOLEAN
  /\ IsAddresses(db.addresses)
  /\ \A c \in Calls : IsAddresses(copy[c])

\* A customer with addresses has exactly one default address, whichever copies are saved
\* over which.
OneDefaultAddress == OneDefault(db.addresses)
=============================================================================
