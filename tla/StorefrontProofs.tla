--------------------------- MODULE StorefrontProofs ---------------------------
(***************************************************************************)
(* Theorems about Storefront, for any calls, names and limits: one part    *)
(* for each desk, and what they have in common at the end.                 *)
(*                                                                         *)
(* That there is one default address is kept by every method of User, of   *)
(* whatever addresses it is given; and what is stored is what a method     *)
(* made of a copy that was stored once.  So no interleaving can break it.  *)
(* In the same way a use keeps the limit of whatever redemptions it is     *)
(* given, and what is stored is a copy that was stored once and one use    *)
(* more.  That it is one more needs that a call that has not saved has     *)
(* nothing of its own anywhere (CustomerUnsaved, CouponUnsaved).           *)
(*                                                                         *)
(* What else a desk promises holds only as long as nothing went wrong.     *)
(* Its invariant says what a copy that nobody has saved over (current) is  *)
(* like: what is stored.  So a save made of it is made of what is stored,  *)
(* and what is a fault otherwise.  A page that waits is not like what is   *)
(* stored; its invariant names the calls that will make it so.             *)
(***************************************************************************)
EXTENDS Storefront, FiniteSetTheorems, TLAPS

\* The Cardinality that the instance of Coupon brings is that of FiniteSets.
LEMMA Counts == \A S : Coupons!Cardinality(S) = Cardinality(S)
BY DEF Coupons!Cardinality, Cardinality

-----------------------------------------------------------------------------
(* The desk of customers. *)

LEMMA NoAddresses ==
  Customers!IsAddresses(Customers!NoCopy) /\ Customers!OneDefault(Customers!NoCopy)
BY DEF Customers!IsAddresses, Customers!OneDefault, Customers!NoCopy

\* Each method of User returns addresses with one default.
LEMMA AddedKeeps ==
  ASSUME NEW a, Customers!IsAddresses(a), Customers!OneDefault(a),
         NEW c \in DeskCalls["customer"], NEW default \in BOOLEAN
  PROVE  /\ Customers!IsAddresses(Customers!Added(a, c, default))
         /\ c \notin DOMAIN a => Customers!OneDefault(Customers!Added(a, c, default))
<1> DEFINE b == Customers!Added(a, c, default)
<1>1. DOMAIN b = DOMAIN a \cup {c}
  BY DEF Customers!Added
<1>2. Customers!IsAddresses(b)
  BY <1>1 DEF Customers!Added, Customers!IsAddresses, Customers!Ids
<1>3. ASSUME c \notin DOMAIN a PROVE Customers!OneDefault(b)
  <2>1. CASE default \/ DOMAIN a = {}
    BY <1>1, <1>3, <2>1 DEF Customers!Added, Customers!OneDefault, Customers!IsAddresses
  <2>2. CASE ~(default \/ DOMAIN a = {})
    <3>1. PICK i \in DOMAIN a : \A j \in DOMAIN a : a[j] = (j = i)
      BY <2>2 DEF Customers!OneDefault
    <3>2. \A j \in DOMAIN b : b[j] = (j = i)
      BY <1>1, <1>3, <2>2, <3>1 DEF Customers!Added, Customers!IsAddresses
    <3> QED BY <1>1, <3>1, <3>2 DEF Customers!OneDefault
  <2> QED BY <2>1, <2>2
<1> QED BY <1>2, <1>3

LEMMA RemovedKeeps ==
  ASSUME NEW a, Customers!IsAddresses(a), Customers!OneDefault(a), NEW address \in DOMAIN a,
         NEW b \in Customers!Removed(a, address)
  PROVE  Customers!IsAddresses(b) /\ Customers!OneDefault(b)
<1> DEFINE rest == [i \in DOMAIN a \ {address} |-> a[i]]
<1>1. PICK d \in DOMAIN a : \A j \in DOMAIN a : a[j] = (j = d)
  BY DEF Customers!OneDefault
<1>2. DOMAIN rest = DOMAIN a \ {address} /\ \A j \in DOMAIN rest : rest[j] = a[j]
  OBVIOUS
<1>3. Customers!IsAddresses(rest)
  BY <1>2 DEF Customers!IsAddresses
<1> HIDE DEF rest
<1>4. CASE a[address] /\ DOMAIN rest # {}
  <2>1. PICK i \in DOMAIN rest : b = [rest EXCEPT ![i] = TRUE]
    BY <1>4 DEF Customers!Removed, rest
  <2>2. DOMAIN b = DOMAIN rest /\ Customers!IsAddresses(b)
    BY <1>3, <2>1 DEF Customers!IsAddresses
  <2>3. d = address
    BY <1>1, <1>4
  <2>4. \A j \in DOMAIN b : b[j] = (j = i)
    BY <1>1, <1>2, <1>3, <2>1, <2>2, <2>3 DEF Customers!IsAddresses
  <2> QED BY <2>1, <2>2, <2>4 DEF Customers!OneDefault
<1>5. CASE ~(a[address] /\ DOMAIN rest # {})
  <2>1. b = rest
    BY <1>5 DEF Customers!Removed, rest
  <2>2. CASE DOMAIN rest = {}
    BY <1>3, <2>1, <2>2 DEF Customers!OneDefault
  <2>3. CASE DOMAIN rest # {}
    <3>1. d # address
      BY <1>1, <1>5, <2>3
    <3>2. d \in DOMAIN rest /\ \A j \in DOMAIN rest : rest[j] = (j = d)
      BY <1>1, <1>2, <3>1
    <3> QED BY <1>3, <2>1, <3>2 DEF Customers!OneDefault
  <2> QED BY <2>2, <2>3
<1> QED BY <1>4, <1>5

LEMMA ChosenKeeps ==
  ASSUME NEW a, Customers!IsAddresses(a), NEW address \in DOMAIN a
  PROVE  /\ Customers!IsAddresses(Customers!Chosen(a, address))
         /\ Customers!OneDefault(Customers!Chosen(a, address))
BY DEF Customers!Chosen, Customers!IsAddresses, Customers!OneDefault

\* What a command makes of addresses has one default, as long as a new address is new.
LEMMA ChangedKeeps ==
  ASSUME NEW a, Customers!IsAddresses(a), Customers!OneDefault(a),
         NEW c \in DeskCalls["customer"],
         NEW m \in Customers!Command \cup {Customers!NoCommand},
         NEW b \in Customers!Changed(a, c, m)
  PROVE  /\ Customers!IsAddresses(b) /\ DOMAIN b \subseteq DOMAIN a \cup {c}
         /\ c \notin DOMAIN a => Customers!OneDefault(b)
<1>1. CASE m.do = "add"
  <2>1. m.default \in BOOLEAN /\ b = Customers!Added(a, c, m.default)
    BY <1>1 DEF Customers!Command, Customers!NoCommand, Customers!Changed
  <2>2. DOMAIN b \subseteq DOMAIN a \cup {c}
    BY <2>1 DEF Customers!Added
  <2> QED BY <2>1, <2>2, AddedKeeps
<1>2. CASE m.do = "remove"
  <2>1. m.address \in DOMAIN a /\ b \in Customers!Removed(a, m.address)
    BY <1>2 DEF Customers!Changed
  <2>2. DOMAIN b \subseteq DOMAIN a
    BY <2>1 DEF Customers!Removed
  <2> QED BY <2>1, <2>2, RemovedKeeps
<1>3. CASE m.do = "setDefault"
  <2>1. m.address \in DOMAIN a /\ b = Customers!Chosen(a, m.address)
    BY <1>3 DEF Customers!Changed
  <2>2. DOMAIN b = DOMAIN a
    BY <2>1 DEF Customers!Chosen
  <2> QED BY <2>1, <2>2, ChosenKeeps
<1>4. CASE m.do \notin {"add", "remove", "setDefault"}
  BY <1>4 DEF Customers!Changed
<1> QED BY <1>1, <1>2, <1>3, <1>4

-----------------------------------------------------------------------------
\* A call that has not saved has no address yet, neither stored nor in a copy.
CustomerUnsaved(c) ==
  phase[c] \in {"idle", "begun", "loaded"} =>
    c \notin DOMAIN db.addresses /\ \A d \in DeskCalls["customer"] : c \notin DOMAIN copy[d]

CustomerInv ==
  /\ Customers!TypeOK
  /\ Customers!OneDefault(db.addresses)
  /\ \A c \in DeskCalls["customer"] : Customers!OneDefault(copy[c]) /\ CustomerUnsaved(c)

LEMMA CustomerInit == Customers!Init => CustomerInv
<1> SUFFICES ASSUME Customers!Init PROVE CustomerInv
  OBVIOUS
<1>1. PICK profile \in BOOLEAN, ids \in SUBSET Earlier, i \in Earlier :
        /\ ids # {} => profile /\ i \in ids
        /\ db = [profile |-> profile, addresses |-> [j \in ids |-> j = i]]
  BY DEF Customers!Init
<1>2. Customers!IsAddresses(db.addresses) /\ Customers!OneDefault(db.addresses)
  BY <1>1 DEF Customers!IsAddresses, Customers!OneDefault, Customers!Ids
<1>3. \A c \in DeskCalls["customer"] : copy[c] = Customers!NoCopy
  BY DEF Customers!Init, Customers!HandlerInit
<1>4. Customers!TypeOK
  BY <1>1, <1>2, <1>3, NoAddresses
     DEF Customers!Init, Customers!HandlerInit, Customers!TypeOK, Customers!HandlerTypeOK,
         Customers!Phases
<1>5. \A c \in DeskCalls["customer"] :
        c \notin DOMAIN db.addresses /\ c \notin DOMAIN Customers!NoCopy
  <2>1. DeskCalls["customer"] \subseteq Calls
    <3>1. "customer" \in Desks
      BY DEF Desks
    <3> QED BY <3>1, DeskCallsAssumption
  <2> QED BY <1>1, <2>1, EarlierAssumption DEF Customers!NoCopy
<1> QED BY <1>2, <1>3, <1>4, <1>5, NoAddresses DEF CustomerInv, CustomerUnsaved

LEMMA CustomerStep == CustomerInv /\ [Customers!Next]_(Customers!handlerVars) => CustomerInv'
<1> SUFFICES ASSUME CustomerInv, [Customers!Next]_(Customers!handlerVars) PROVE CustomerInv'
  OBVIOUS
<1> USE DEF CustomerInv
<1>1. CASE UNCHANGED Customers!handlerVars
  BY <1>1 DEF Customers!handlerVars, Customers!TypeOK, Customers!HandlerTypeOK,
     Customers!IsAddresses, Customers!OneDefault, CustomerUnsaved
<1>2. ASSUME NEW c \in DeskCalls["customer"], NEW m \in Customers!Command, Customers!Begin(c, m)
     PROVE CustomerInv'
  <2>1. Customers!TypeOK'
    BY <1>2 DEF Customers!Begin, Customers!Go, Customers!TypeOK, Customers!HandlerTypeOK,
       Customers!Phases, Customers!IsAddresses
  <2>2. \A d \in DeskCalls["customer"] : CustomerUnsaved(d)'
    BY <1>2 DEF Customers!Begin, Customers!Go, CustomerUnsaved, Customers!TypeOK,
       Customers!HandlerTypeOK
  <2> QED BY <1>2, <2>1, <2>2 DEF Customers!Begin, Customers!OneDefault
<1>3. ASSUME NEW c \in DeskCalls["customer"], Customers!Find(c) PROVE CustomerInv'
  <2>1. copy' = [copy EXCEPT ![c] = db.addresses] /\ UNCHANGED <<db, command, faults>>
    BY <1>3 DEF Customers!Find, Customers!Take
  <2>2. Customers!TypeOK'
    BY <1>3, <2>1
         DEF Customers!Find, Customers!Take, Customers!Go, Customers!TypeOK,
             Customers!HandlerTypeOK, Customers!Phases, Customers!IsAddresses
  <2>3. \A d \in DeskCalls["customer"] : Customers!OneDefault(copy[d])'
    BY <2>1 DEF Customers!OneDefault, Customers!TypeOK, Customers!HandlerTypeOK
  <2>4. \A d \in DeskCalls["customer"] : CustomerUnsaved(d)'
    BY <1>3, <2>1
         DEF Customers!Find, Customers!Take, Customers!Go, CustomerUnsaved, Customers!TypeOK,
             Customers!HandlerTypeOK
  <2> QED BY <2>1, <2>2, <2>3, <2>4 DEF Customers!OneDefault
<1>4. ASSUME NEW c \in DeskCalls["customer"], Customers!Save(c) PROVE CustomerInv'
  <2>1. PICK a \in Customers!Changed(copy[c], c, command[c]) :
          Customers!Commit(c, "loaded", "ok", [profile |-> TRUE, addresses |-> a])
    BY <1>4 DEF Customers!Save
  <2>2. /\ command[c] \in Customers!Command \cup {Customers!NoCommand}
        /\ Customers!IsAddresses(copy[c]) /\ Customers!OneDefault(copy[c])
    BY DEF Customers!TypeOK, Customers!HandlerTypeOK
  <2>3. c \notin DOMAIN copy[c] /\ phase[c] = "loaded"
    BY <2>1 DEF Customers!Commit, Customers!CommitPast, Customers!Go, CustomerUnsaved
  <2>4. /\ Customers!IsAddresses(a) /\ Customers!OneDefault(a)
        /\ DOMAIN a \subseteq DOMAIN copy[c] \cup {c}
    BY <2>2, <2>3, ChangedKeeps
  <2>5. /\ db' = [profile |-> TRUE, addresses |-> a]
        /\ phase' = [phase EXCEPT ![c] = "ok"]
        /\ UNCHANGED <<command, copy>>
    BY <2>1 DEF Customers!Commit, Customers!CommitPast, Customers!Go
  <2>6. Customers!TypeOK'
    <3>1. current' \subseteq DeskCalls["customer"] /\ faults' \subseteq Customers!Faults
      BY <2>1 DEF Customers!Commit, Customers!CommitPast, Customers!TypeOK,
         Customers!HandlerTypeOK, Customers!Faults
    <3> QED BY <2>4, <2>5, <3>1
         DEF Customers!TypeOK, Customers!HandlerTypeOK, Customers!Phases, Customers!IsAddresses
  <2>7. \A d \in DeskCalls["customer"] : CustomerUnsaved(d)'
    BY <2>3, <2>4, <2>5 DEF CustomerUnsaved, Customers!TypeOK, Customers!HandlerTypeOK
  <2> QED BY <2>4, <2>5, <2>6, <2>7 DEF Customers!OneDefault
<1>5. ASSUME NEW c \in DeskCalls["customer"], Customers!Fail(c) PROVE CustomerInv'
  <2>1. /\ phase' = [phase EXCEPT ![c] = "failed"]
        /\ copy' = [copy EXCEPT ![c] = Customers!NoCopy]
        /\ faults' \subseteq Customers!Faults
        /\ UNCHANGED <<db, command, current>>
    BY <1>5 DEF Customers!Fail, Customers!TypeOK, Customers!HandlerTypeOK, Customers!Faults
  <2>2. Customers!TypeOK'
    BY <2>1, NoAddresses
         DEF Customers!TypeOK, Customers!HandlerTypeOK, Customers!Phases, Customers!IsAddresses
  <2>3. \A d \in DeskCalls["customer"] : Customers!OneDefault(copy[d])'
    BY <2>1, NoAddresses DEF Customers!OneDefault, Customers!TypeOK, Customers!HandlerTypeOK
  <2>4. \A d \in DeskCalls["customer"] : d \notin DOMAIN Customers!NoCopy
    BY DEF Customers!NoCopy
  <2>5. \A d \in DeskCalls["customer"] : CustomerUnsaved(d)'
    BY <2>1, <2>4 DEF CustomerUnsaved, Customers!TypeOK, Customers!HandlerTypeOK
  <2> QED BY <2>1, <2>2, <2>3, <2>5 DEF Customers!OneDefault
<1> QED BY <1>1, <1>2, <1>3, <1>4, <1>5 DEF Customers!Next

-----------------------------------------------------------------------------
(* The desk of coupons. *)

Limited(r) == IsFiniteSet(DOMAIN r) /\ Coupons!WithinLimit(r)

LEMMA NoCopyLimited == Coupons!IsRedemptions(Coupons!NoCopy) /\ Limited(Coupons!NoCopy)
<1>1. DOMAIN Coupons!NoCopy = {} /\ Coupons!IsRedemptions(Coupons!NoCopy)
  BY DEF Coupons!NoCopy, Coupons!IsRedemptions
<1> QED BY <1>1, FS_EmptySet, Counts, MaxRedemptionsAssumption DEF Limited, Coupons!WithinLimit

\* A use within the limit stays within it.
LEMMA WithKeeps ==
  ASSUME NEW r, Coupons!IsRedemptions(r), Limited(r), NEW c \in DeskCalls["coupon"],
         c \notin DOMAIN r,
         NEW order \in Orders, Coupons!Valid(r), ~Coupons!UsedFor(r, order)
  PROVE  Coupons!IsRedemptions(Coupons!With(r, c, order)) /\ Limited(Coupons!With(r, c, order))
<1> DEFINE q == Coupons!With(r, c, order)
<1>1. DOMAIN q = DOMAIN r \cup {c}
  BY DEF Coupons!With
<1>2. Coupons!IsRedemptions(q)
  BY <1>1 DEF Coupons!With, Coupons!IsRedemptions
<1>3. IsFiniteSet(DOMAIN q) /\ Cardinality(DOMAIN q) = Cardinality(DOMAIN r) + 1
  BY <1>1, FS_AddElement DEF Limited
<1>4. Cardinality(DOMAIN r) \in Nat
  BY FS_CardinalityType DEF Limited
<1>5. Cardinality(DOMAIN q) <= MaxRedemptions
  BY <1>3, <1>4, Counts, MaxRedemptionsAssumption DEF Coupons!Valid
<1>6. \A i, j \in DOMAIN q : q[i] = q[j] => i = j
  BY <1>1 DEF Coupons!With, Limited, Coupons!WithinLimit, Coupons!UsedFor
<1> QED BY <1>2, <1>3, <1>5, <1>6, Counts DEF Limited, Coupons!WithinLimit

-----------------------------------------------------------------------------
CouponUnsaved(c) ==
  phase[c] \in {"idle", "begun", "loaded"} =>
    c \notin DOMAIN db /\ \A d \in DeskCalls["coupon"] : c \notin DOMAIN copy[d]

CouponInv ==
  /\ Coupons!TypeOK
  /\ Limited(db)
  /\ \A c \in DeskCalls["coupon"] : Limited(copy[c]) /\ CouponUnsaved(c)
  /\ \A c \in DeskCalls["coupon"] : phase[c] # "idle" => command[c] \in Coupons!Command

LEMMA CouponInit == Coupons!Init => CouponInv
<1> SUFFICES ASSUME Coupons!Init PROVE CouponInv
  OBVIOUS
<1>1. DOMAIN db = {} /\ DOMAIN Coupons!NoCopy = {} /\ Coupons!IsRedemptions(db)
  BY DEF Coupons!Init, Coupons!NoCopy, Coupons!IsRedemptions
<1>2. Limited(db)
  BY <1>1, FS_EmptySet, Counts, MaxRedemptionsAssumption DEF Limited, Coupons!WithinLimit
<1>3. \A c \in DeskCalls["coupon"] : copy[c] = Coupons!NoCopy
  BY DEF Coupons!Init, Coupons!HandlerInit
<1>4. Coupons!TypeOK
  BY <1>1, <1>3, NoCopyLimited
       DEF Coupons!Init, Coupons!HandlerInit, Coupons!TypeOK, Coupons!HandlerTypeOK,
           Coupons!Phases
<1>5. \A c \in DeskCalls["coupon"] : phase[c] = "idle"
  BY DEF Coupons!Init, Coupons!HandlerInit
<1> QED BY <1>1, <1>2, <1>3, <1>4, <1>5, NoCopyLimited DEF CouponInv, CouponUnsaved

LEMMA CouponStep == CouponInv /\ [Coupons!Next]_(Coupons!handlerVars) => CouponInv'
<1> SUFFICES ASSUME CouponInv, [Coupons!Next]_(Coupons!handlerVars) PROVE CouponInv'
  OBVIOUS
<1> USE DEF CouponInv
<1>1. CASE UNCHANGED Coupons!handlerVars
  BY <1>1 DEF Coupons!handlerVars, Coupons!TypeOK, Coupons!HandlerTypeOK,
     Coupons!IsRedemptions, Limited, Coupons!WithinLimit, CouponUnsaved
<1>2. ASSUME NEW c \in DeskCalls["coupon"], NEW m \in Coupons!Command, Coupons!Begin(c, m)
     PROVE CouponInv'
  <2>1. Coupons!TypeOK'
    BY <1>2 DEF Coupons!Begin, Coupons!Go, Coupons!TypeOK, Coupons!HandlerTypeOK,
       Coupons!Phases, Coupons!IsRedemptions
  <2>2. \A d \in DeskCalls["coupon"] :
          CouponUnsaved(d)' /\ (phase[d] # "idle" => command[d] \in Coupons!Command)'
    BY <1>2 DEF Coupons!Begin, Coupons!Go, CouponUnsaved, Coupons!TypeOK, Coupons!HandlerTypeOK
  <2> QED BY <1>2, <2>1, <2>2 DEF Coupons!Begin, Limited, Coupons!WithinLimit
<1>3. ASSUME NEW c \in DeskCalls["coupon"], Coupons!Find(c) PROVE CouponInv'
  <2>1. copy' = [copy EXCEPT ![c] = db] /\ UNCHANGED <<db, command, faults>>
    BY <1>3 DEF Coupons!Find, Coupons!Take
  <2>2. Coupons!TypeOK'
    BY <1>3, <2>1
         DEF Coupons!Find, Coupons!Take, Coupons!Go, Coupons!TypeOK, Coupons!HandlerTypeOK,
             Coupons!Phases, Coupons!IsRedemptions
  <2>3. \A d \in DeskCalls["coupon"] : Limited(copy[d])'
    BY <2>1 DEF Limited, Coupons!WithinLimit, Coupons!TypeOK, Coupons!HandlerTypeOK
  <2>4. \A d \in DeskCalls["coupon"] :
          CouponUnsaved(d)' /\ (phase[d] # "idle" => command[d] \in Coupons!Command)'
    BY <1>3, <2>1
         DEF Coupons!Find, Coupons!Take, Coupons!Go, CouponUnsaved, Coupons!TypeOK,
             Coupons!HandlerTypeOK
  <2> QED BY <2>1, <2>2, <2>3, <2>4 DEF Limited, Coupons!WithinLimit
<1>4. ASSUME NEW c \in DeskCalls["coupon"], Coupons!Use(c) PROVE CouponInv'
  <2> DEFINE r == Coupons!With(copy[c], c, command[c].order)
  <2>1. /\ db' = r
        /\ phase[c] = "loaded" /\ phase' = [phase EXCEPT ![c] = "ok"]
        /\ UNCHANGED <<command, copy>>
        /\ Coupons!Valid(copy[c]) /\ ~Coupons!UsedFor(copy[c], command[c].order)
    BY <1>4 DEF Coupons!Use, Coupons!Commit, Coupons!CommitPast, Coupons!Go
  <2>2. c \notin DOMAIN copy[c] /\ Coupons!IsRedemptions(copy[c]) /\ command[c].order \in Orders
    BY <2>1 DEF CouponUnsaved, Coupons!TypeOK, Coupons!HandlerTypeOK, Coupons!Command
  <2>3. Coupons!IsRedemptions(r) /\ Limited(r) /\ DOMAIN r = DOMAIN copy[c] \cup {c}
    BY <2>1, <2>2, WithKeeps DEF Coupons!With
  <2> HIDE DEF r
  <2>4. current' \subseteq DeskCalls["coupon"] /\ faults' \subseteq Coupons!Faults
    BY <1>4 DEF Coupons!Use, Coupons!Commit, Coupons!CommitPast, Coupons!TypeOK,
       Coupons!HandlerTypeOK, Coupons!Faults
  <2>5. Coupons!TypeOK'
    BY <2>1, <2>3, <2>4
         DEF Coupons!TypeOK, Coupons!HandlerTypeOK, Coupons!Phases, Coupons!IsRedemptions
  <2>6. \A d \in DeskCalls["coupon"] :
          CouponUnsaved(d)' /\ (phase[d] # "idle" => command[d] \in Coupons!Command)'
    BY <2>1, <2>3 DEF CouponUnsaved, Coupons!TypeOK, Coupons!HandlerTypeOK
  <2> QED BY <2>1, <2>3, <2>5, <2>6 DEF Limited, Coupons!WithinLimit
<1>5. ASSUME NEW c \in DeskCalls["coupon"], Coupons!Fail(c) PROVE CouponInv'
  <2>1. /\ phase' = [phase EXCEPT ![c] = "failed"] /\ phase[c] # "idle"
        /\ copy' = [copy EXCEPT ![c] = Coupons!NoCopy]
        /\ faults' \subseteq Coupons!Faults
        /\ UNCHANGED <<db, command, current>>
    BY <1>5 DEF Coupons!Fail, Coupons!Running, Coupons!TypeOK, Coupons!HandlerTypeOK,
       Coupons!Faults
  <2>2. Coupons!TypeOK'
    BY <2>1, NoCopyLimited
         DEF Coupons!TypeOK, Coupons!HandlerTypeOK, Coupons!Phases, Coupons!IsRedemptions
  <2>3. \A d \in DeskCalls["coupon"] : Limited(copy[d])'
    BY <2>1, NoCopyLimited
         DEF Limited, Coupons!WithinLimit, Coupons!TypeOK, Coupons!HandlerTypeOK
  <2>4. \A d \in DeskCalls["coupon"] : d \notin DOMAIN Coupons!NoCopy
    BY DEF Coupons!NoCopy
  <2>5. \A d \in DeskCalls["coupon"] :
          CouponUnsaved(d)' /\ (phase[d] # "idle" => command[d] \in Coupons!Command)'
    BY <2>1, <2>4 DEF CouponUnsaved, Coupons!TypeOK, Coupons!HandlerTypeOK
  <2> QED BY <2>1, <2>2, <2>3, <2>5 DEF Limited, Coupons!WithinLimit
<1> QED BY <1>1, <1>2, <1>3, <1>4, <1>5 DEF Coupons!Next

\* A call whose copy nobody has committed past, has what is stored; and as long as only such
\* copies are saved, no use is lost.
UsesInv ==
  /\ \A c \in DeskCalls["coupon"] : c \in current /\ phase[c] = "loaded" => copy[c] = db
  /\ Coupons!UsesAreKept

LEMMA UsesInit == Coupons!Init => UsesInv
BY DEF Coupons!Init, Coupons!HandlerInit, UsesInv, Coupons!UsesAreKept

LEMMA UsesStep == Coupons!TypeOK /\ UsesInv /\ [Coupons!Next]_(Coupons!handlerVars) => UsesInv'
<1> SUFFICES ASSUME Coupons!TypeOK, UsesInv, [Coupons!Next]_(Coupons!handlerVars)
             PROVE  UsesInv'
  OBVIOUS
<1> USE DEF Coupons!TypeOK, Coupons!HandlerTypeOK, UsesInv, Coupons!UsesAreKept
<1>1. CASE UNCHANGED Coupons!handlerVars
  BY <1>1 DEF Coupons!handlerVars
<1>2. ASSUME NEW c \in DeskCalls["coupon"], NEW m \in Coupons!Command, Coupons!Begin(c, m)
      PROVE  UsesInv'
  BY <1>2 DEF Coupons!Begin, Coupons!Go
<1>3. ASSUME NEW c \in DeskCalls["coupon"], Coupons!Find(c) PROVE UsesInv'
  BY <1>3 DEF Coupons!Find, Coupons!Take, Coupons!Go
<1>4. ASSUME NEW c \in DeskCalls["coupon"], Coupons!Use(c) PROVE UsesInv'
  <2>1. /\ DOMAIN db' = DOMAIN copy[c] \cup {c} /\ UNCHANGED copy
        /\ phase[c] = "loaded" /\ phase' = [phase EXCEPT ![c] = "ok"] /\ current' = {}
        /\ faults' = faults \cup (IF c \in current THEN {} ELSE {"overwrote"})
    BY <1>4 DEF Coupons!Use, Coupons!Commit, Coupons!CommitPast, Coupons!Go, Coupons!With
  <2>2. faults' = {} => faults = {} /\ copy[c] = db
    BY <2>1
  <2> QED BY <2>1, <2>2
<1>5. ASSUME NEW c \in DeskCalls["coupon"], Coupons!Fail(c) PROVE UsesInv'
  BY <1>5 DEF Coupons!Fail
<1> QED BY <1>1, <1>2, <1>3, <1>4, <1>5 DEF Coupons!Next

-----------------------------------------------------------------------------
(* The desk of saved payment methods. *)

\* A call that will mark another method as the default.
Elector(c) ==
  \/ phase[c] = "written"
  \/ phase[c] = "again" /\ DOMAIN copy[c] # {}

AtMostOneDefault(cards) == \A i, j \in DOMAIN cards : cards[i] /\ cards[j] => i = j
NoDefault(cards) == DOMAIN cards # {} /\ \A i \in DOMAIN cards : ~cards[i]

\* A call whose copy nobody has committed past, has what is stored.
CardsUpToDate(c) == c \in current /\ phase[c] \in {"loaded", "again"} => copy[c] = db

CardUnsaved(c) ==
  phase[c] \in {"idle", "begun", "loaded"} =>
    c \notin DOMAIN db /\ \A d \in DeskCalls["cards"] : c \notin DOMAIN copy[d]

CardsInv ==
  /\ Methods!TypeOK
  /\ \A c \in DeskCalls["cards"] : CardsUpToDate(c) /\ CardUnsaved(c)
  /\ faults = {} =>
       /\ AtMostOneDefault(db)
       /\ NoDefault(db) => \E c \in DeskCalls["cards"] : Elector(c)

LEMMA NoCards == Methods!IsCards(Methods!NoCopy) /\ DOMAIN Methods!NoCopy = {}
BY DEF Methods!IsCards, Methods!NoCopy

LEMMA CardsInit == Methods!Init => CardsInv
<1> SUFFICES ASSUME Methods!Init PROVE CardsInv
  OBVIOUS
<1>1. PICK ids \in SUBSET Earlier, i \in Earlier :
        (ids # {} => i \in ids) /\ db = [j \in ids |-> j = i]
  BY DEF Methods!Init
<1>2. Methods!IsCards(db) /\ AtMostOneDefault(db) /\ ~NoDefault(db)
  BY <1>1 DEF Methods!IsCards, Methods!Ids, AtMostOneDefault, NoDefault
<1>3. \A c \in DeskCalls["cards"] : copy[c] = Methods!NoCopy
  BY DEF Methods!Init, Methods!HandlerInit
<1>4. Methods!TypeOK
  BY <1>2, <1>3, NoCards
     DEF Methods!Init, Methods!HandlerInit, Methods!TypeOK, Methods!HandlerTypeOK, Methods!Phases
<1>5. \A c \in DeskCalls["cards"] : c \notin DOMAIN db
  <2>1. "cards" \in Desks
    BY DEF Desks
  <2> QED BY <1>1, <2>1, DeskCallsAssumption, EarlierAssumption
<1> QED BY <1>2, <1>3, <1>4, <1>5, NoCards
    DEF Methods!Init, Methods!HandlerInit, CardsInv, CardsUpToDate, CardUnsaved

\* What a transaction leaves, if it was one that leaves at most one default, and somebody to
\* mark one if there is none.
LEMMA CardsCommitted ==
  ASSUME CardsInv, NEW c \in DeskCalls["cards"],
         NEW from \in {"loaded", "again"}, NEW to \in {"written", "ok"}, NEW x,
         Methods!Commit(c, from, to, x),
         Methods!IsCards(x), DOMAIN x \subseteq DOMAIN db \cup DOMAIN copy[c] \cup {c},
         faults = {} /\ copy[c] = db =>
           /\ AtMostOneDefault(x)
           /\ NoDefault(x) /\ to = "ok" => \E d \in DeskCalls["cards"] \ {c} : Elector(d)
  PROVE  CardsInv'
<1> USE DEF CardsInv, Methods!TypeOK, Methods!HandlerTypeOK
<1>1. /\ phase[c] = from /\ phase' = [phase EXCEPT ![c] = to] /\ db' = x
      /\ current' = {} /\ faults' = faults \cup (IF c \in current THEN {} ELSE {"overwrote"})
      /\ UNCHANGED <<command, copy>>
  BY DEF Methods!Commit, Methods!CommitPast, Methods!Go
<1>2. Methods!TypeOK'
  BY <1>1 DEF Methods!Phases, Methods!Faults
<1>3. \A d \in DeskCalls["cards"] : CardsUpToDate(d)' /\ CardUnsaved(d)'
  BY <1>1 DEF CardsUpToDate, CardUnsaved
<1>4. ASSUME faults' = {}
      PROVE  /\ AtMostOneDefault(db)'
             /\ NoDefault(db)' => \E d \in DeskCalls["cards"] : Elector(d)'
  <2>1. faults = {} /\ copy[c] = db
    BY <1>1, <1>4 DEF CardsUpToDate
  <2>2. \A d \in DeskCalls["cards"] \ {c} : Elector(d) => Elector(d)'
    <3>1. \A d \in DeskCalls["cards"] \ {c} : phase'[d] = phase[d] /\ copy'[d] = copy[d]
      BY <1>1
    <3> QED BY <3>1 DEF Elector
  <2>3. to = "written" => Elector(c)'
    BY <1>1 DEF Elector
  <2> QED BY <1>1, <2>1, <2>2, <2>3 DEF AtMostOneDefault, NoDefault
<1> QED BY <1>2, <1>3, <1>4

\* A read, or the end of a call that has nothing to mark.
LEMMA CardsRead ==
  ASSUME CardsInv, NEW c \in DeskCalls["cards"], UNCHANGED <<db, faults>>,
         \A d \in DeskCalls["cards"] \ {c} : phase'[d] = phase[d] /\ copy'[d] = copy[d],
         current' = current \/ (current' = current \cup {c} /\ copy'[c] = db),
         Methods!TypeOK', CardsUpToDate(c)',
         copy'[c] \in {copy[c], db},
         phase'[c] \in {"idle", "begun", "loaded"} => phase[c] \in {"idle", "begun", "loaded"},
         faults = {} /\ NoDefault(db) /\ Elector(c) =>
           \E d \in DeskCalls["cards"] : Elector(d)'
  PROVE  CardsInv'
<1> USE DEF CardsInv
<1>1. \A d \in DeskCalls["cards"] : CardsUpToDate(d)' /\ CardUnsaved(d)'
  BY DEF CardsUpToDate, CardUnsaved
<1>2. ASSUME faults' = {}, NoDefault(db)' PROVE \E d \in DeskCalls["cards"] : Elector(d)'
  <2>1. faults = {} /\ NoDefault(db)
    BY <1>2 DEF NoDefault
  <2>2. PICK d \in DeskCalls["cards"] : Elector(d)
    BY <2>1
  <2>3. CASE d = c
    BY <2>1, <2>2, <2>3
  <2>4. CASE d # c
    BY <2>2, <2>4 DEF Elector
  <2> QED BY <2>3, <2>4
<1> QED BY <1>1, <1>2 DEF AtMostOneDefault

LEMMA CardsStep == CardsInv /\ [Methods!Next]_(Methods!handlerVars) => CardsInv'
<1> SUFFICES ASSUME CardsInv, [Methods!Next]_(Methods!handlerVars) PROVE CardsInv'
  OBVIOUS
<1> DEFINE C == DeskCalls["cards"]
<1>1. CASE UNCHANGED Methods!handlerVars
  BY <1>1 DEF Methods!handlerVars, CardsInv, Methods!TypeOK, Methods!HandlerTypeOK,
     Methods!IsCards, CardsUpToDate, CardUnsaved, AtMostOneDefault, NoDefault, Elector
<1>2. ASSUME NEW c \in C, NEW m \in Methods!Command, Methods!Begin(c, m) PROVE CardsInv'
  <2>1. Methods!TypeOK'
    BY <1>2 DEF CardsInv, Methods!Begin, Methods!Go, Methods!TypeOK, Methods!HandlerTypeOK,
       Methods!Phases, Methods!IsCards
  <2>2. /\ phase[c] = "idle" /\ phase' = [phase EXCEPT ![c] = "begun"]
        /\ UNCHANGED <<db, copy, current, faults>>
    BY <1>2 DEF Methods!Begin, Methods!Go
  <2> QED BY <2>1, <2>2, CardsRead
          DEF CardsInv, Elector, CardsUpToDate, Methods!TypeOK, Methods!HandlerTypeOK
<1>3. ASSUME NEW c \in C, Methods!Find(c) \/ Methods!FindOthers(c) PROVE CardsInv'
  <2>1. PICK from, to :
          /\ <<from, to>> \in {<<"begun", "loaded">>, <<"written", "again">>}
          /\ phase[c] = from /\ phase' = [phase EXCEPT ![c] = to]
          /\ copy' = [copy EXCEPT ![c] = db] /\ current' = current \cup {c}
          /\ UNCHANGED <<db, command, faults>>
    BY <1>3 DEF Methods!Find, Methods!FindOthers, Methods!Take, Methods!Go
  <2>2. Methods!TypeOK'
    BY <2>1 DEF CardsInv, Methods!TypeOK, Methods!HandlerTypeOK, Methods!Phases, Methods!IsCards
  <2>3. NoDefault(db) /\ Elector(c) => Elector(c)'
    BY <2>1 DEF NoDefault, Elector, CardsInv, Methods!TypeOK, Methods!HandlerTypeOK
  <2> QED BY <2>1, <2>2, <2>3, CardsRead
          DEF CardsInv, CardsUpToDate, Methods!TypeOK, Methods!HandlerTypeOK
<1>4. ASSUME NEW c \in C, Methods!Save(c) PROVE CardsInv'
  <2> DEFINE k == copy[c]
  <2>1. PICK w \in Methods!Changed(k, c, command[c]) :
          Methods!Commit(c, "loaded", "ok", Methods!Upserted(db, w))
    BY <1>4 DEF Methods!Save
  <2>2. /\ phase[c] = "loaded" /\ c \notin DOMAIN db
        /\ Methods!IsCards(k) /\ Methods!IsCards(db) /\ command[c] \in Methods!Command \cup {Methods!NoCommand}
    BY <2>1 DEF Methods!Commit, Methods!CommitPast, Methods!Go, CardsInv, CardUnsaved,
       Methods!TypeOK, Methods!HandlerTypeOK
  <2> DEFINE x == Methods!Upserted(db, w)
  <2>3. CASE command[c].do = "add"
    <3>1. w = Methods!Added(k, c, command[c].default) /\ command[c].default \in BOOLEAN
      BY <2>1, <2>2, <2>3 DEF Methods!Changed, Methods!Command, Methods!NoCommand
    <3>2. Methods!IsCards(w) /\ DOMAIN w \subseteq DOMAIN k \cup {c}
      BY <2>2, <3>1 DEF Methods!Added, Methods!Defaults, Methods!IsCards, Methods!Ids
    <3>3. Methods!IsCards(x) /\ DOMAIN x \subseteq DOMAIN db \cup DOMAIN k \cup {c}
      BY <2>2, <3>2 DEF Methods!Upserted, Methods!IsCards
    <3>4. ASSUME faults = {}, k = db
          PROVE  /\ AtMostOneDefault(x)
                 /\ NoDefault(x) => \E d \in C \ {c} : Elector(d)
      <4>1. CASE command[c].default \/ DOMAIN k = {}
        <5>1. DOMAIN w = {c} \cup Methods!Defaults(k) /\ \A i \in DOMAIN w : w[i] = (i = c)
          BY <3>1, <4>1 DEF Methods!Added
        <5>2. c \in DOMAIN x /\ \A i \in DOMAIN x : x[i] = (i = c)
          BY <2>2, <3>4, <5>1 DEF Methods!Upserted, Methods!Defaults, Methods!IsCards
        <5> QED BY <5>2 DEF AtMostOneDefault, NoDefault
      <4>2. CASE ~(command[c].default \/ DOMAIN k = {})
        <5>1. DOMAIN w = {c} /\ w[c] = FALSE
          BY <3>1, <4>2 DEF Methods!Added
        <5>2. /\ DOMAIN x = DOMAIN db \cup {c} /\ x[c] = FALSE
              /\ \A i \in DOMAIN db : x[i] = db[i]
          BY <2>2, <5>1 DEF Methods!Upserted
        <5>3. AtMostOneDefault(x) /\ (NoDefault(x) => NoDefault(db))
          BY <3>4, <4>2, <5>2 DEF AtMostOneDefault, NoDefault, CardsInv
        <5>4. ~Elector(c)
          BY <2>2 DEF Elector
        <5> QED BY <3>4, <5>3, <5>4 DEF CardsInv
      <4> QED BY <4>1, <4>2
    <3> HIDE DEF x
    <3>5. Methods!Commit(c, "loaded", "ok", x)
      BY <2>1 DEF x
    <3> QED BY <3>3, <3>4, <3>5, CardsCommitted
  <2>4. CASE command[c].do = "setDefault"
    <3> DEFINE i == command[c].card
    <3>1. w = Methods!Chosen(k, i) /\ i \in DOMAIN k
      BY <2>1, <2>2, <2>4 DEF Methods!Changed
    <3>2. /\ DOMAIN w = Methods!Defaults(k) \cup {i} /\ \A j \in DOMAIN w : w[j] = (j = i)
          /\ Methods!IsCards(w) /\ DOMAIN w \subseteq DOMAIN k
      BY <2>2, <3>1 DEF Methods!Chosen, Methods!Defaults, Methods!IsCards
    <3> HIDE DEF i
    <3>3. Methods!IsCards(x) /\ DOMAIN x \subseteq DOMAIN db \cup DOMAIN k \cup {c}
      BY <2>2, <3>2 DEF Methods!Upserted, Methods!IsCards
    <3>4. ASSUME k = db PROVE AtMostOneDefault(x) /\ ~NoDefault(x)
      <4>1. i \in DOMAIN x /\ \A j \in DOMAIN x : x[j] = (j = i)
        BY <2>2, <3>1, <3>2, <3>4 DEF Methods!Upserted, Methods!Defaults, Methods!IsCards
      <4> QED BY <4>1 DEF AtMostOneDefault, NoDefault
    <3> HIDE DEF x
    <3>5. Methods!Commit(c, "loaded", "ok", x)
      BY <2>1 DEF x
    <3> QED BY <3>3, <3>4, <3>5, CardsCommitted
  <2>5. CASE command[c].do \notin {"add", "setDefault"}
    BY <2>1, <2>5 DEF Methods!Changed
  <2> QED BY <2>3, <2>4, <2>5
<1>5. ASSUME NEW c \in C, Methods!Delete(c) PROVE CardsInv'
  <2> DEFINE i == command[c].card
             x == Methods!Without(db, i)
             to == IF copy[c][i] THEN "written" ELSE "ok"
  <2>1. i \in DOMAIN db /\ Methods!Commit(c, "loaded", to, x)
    BY <1>5 DEF Methods!Delete
  <2>2. Methods!IsCards(db) /\ phase[c] = "loaded" /\ to \in {"written", "ok"}
    BY <2>1 DEF CardsInv, Methods!TypeOK, Methods!Commit, Methods!CommitPast, Methods!Go
  <2>3. DOMAIN x = DOMAIN db \ {i} /\ \A j \in DOMAIN x : x[j] = db[j]
    BY DEF Methods!Without
  <2>4. Methods!IsCards(x)
    BY <2>2, <2>3 DEF Methods!IsCards, Methods!Without
  <2>5. ASSUME faults = {}, copy[c] = db
        PROVE  /\ AtMostOneDefault(x)
               /\ NoDefault(x) /\ to = "ok" => \E d \in C \ {c} : Elector(d)
    <3>1. AtMostOneDefault(x)
      BY <2>3, <2>5 DEF AtMostOneDefault, CardsInv
    <3>2. NoDefault(x) /\ to = "ok" => NoDefault(db)
      BY <2>1, <2>3, <2>5 DEF NoDefault
    <3>3. ~Elector(c)
      BY <2>2 DEF Elector
    <3> QED BY <2>5, <3>1, <3>2, <3>3 DEF CardsInv
  <2> HIDE DEF x, to
  <2> QED BY <2>1, <2>2, <2>3, <2>4, <2>5, CardsCommitted
<1>6. ASSUME NEW c \in C, Methods!Elect(c) PROVE CardsInv'
  <2>1. CASE DOMAIN copy[c] = {}
    <3>1. /\ phase[c] = "again" /\ phase' = [phase EXCEPT ![c] = "ok"]
          /\ UNCHANGED <<db, command, copy, current, faults>> /\ ~Elector(c)
      BY <1>6, <2>1 DEF Methods!Elect, Methods!End, Methods!Go, Elector
    <3>2. Methods!TypeOK'
      BY <3>1 DEF CardsInv, Methods!TypeOK, Methods!HandlerTypeOK, Methods!Phases,
         Methods!IsCards
    <3> QED BY <3>1, <3>2, CardsRead
            DEF CardsInv, CardsUpToDate, Methods!TypeOK, Methods!HandlerTypeOK
  <2>2. CASE DOMAIN copy[c] # {}
    <3>1. PICK i \in DOMAIN copy[c] :
            /\ Methods!Defaults(copy[c]) # {} => i \in Methods!Defaults(copy[c])
            /\ Methods!Commit(c, "again", "ok", Methods!Upserted(db, [j \in {i} |-> TRUE]))
      BY <1>6, <2>2 DEF Methods!Elect
    <3> DEFINE x == Methods!Upserted(db, [j \in {i} |-> TRUE])
    <3>2. /\ DOMAIN x = DOMAIN db \cup {i} /\ x[i] = TRUE
          /\ \A j \in DOMAIN db \ {i} : x[j] = db[j]
      BY DEF Methods!Upserted
    <3>3. Methods!IsCards(db) /\ Methods!IsCards(copy[c])
      BY DEF CardsInv, Methods!TypeOK
    <3>4. Methods!IsCards(x)
      BY <3>2, <3>3 DEF Methods!IsCards, Methods!Upserted
    <3>5. ASSUME faults = {}, copy[c] = db PROVE AtMostOneDefault(x) /\ ~NoDefault(x)
      BY <3>1, <3>2, <3>5 DEF AtMostOneDefault, NoDefault, CardsInv, Methods!Defaults
    <3> HIDE DEF x
    <3>6. Methods!Commit(c, "again", "ok", x)
      BY <3>1 DEF x
    <3> QED BY <3>2, <3>4, <3>5, <3>6, CardsCommitted
  <2> QED BY <2>1, <2>2
<1>7. ASSUME NEW c \in C, Methods!Fail(c) PROVE CardsInv'
  <2>1. /\ phase[c] \notin {"idle", "ok", "failed"} /\ phase' = [phase EXCEPT ![c] = "failed"]
        /\ copy' = [copy EXCEPT ![c] = Methods!NoCopy]
        /\ faults' = faults \cup (IF phase[c] \in {"written", "again"} THEN {"halfDone"} ELSE {})
        /\ UNCHANGED <<db, command, current>>
    BY <1>7 DEF Methods!Fail, Methods!Running, Methods!Over
  <2>2. Methods!TypeOK'
    BY <2>1, NoCards
       DEF CardsInv, Methods!TypeOK, Methods!HandlerTypeOK, Methods!Phases, Methods!IsCards,
           Methods!Faults
  <2>3. \A d \in C : CardsUpToDate(d)' /\ CardUnsaved(d)'
    BY <2>1, NoCards
       DEF CardsInv, CardsUpToDate, CardUnsaved, Methods!TypeOK, Methods!HandlerTypeOK
  <2>4. ASSUME faults' = {}, NoDefault(db)' PROVE \E d \in C : Elector(d)'
    <3>1. faults = {} /\ ~Elector(c) /\ NoDefault(db)
      BY <2>1, <2>4 DEF Elector, NoDefault
    <3>2. \A d \in C \ {c} : Elector(d) => Elector(d)'
      BY <2>1 DEF Elector, CardsInv, Methods!TypeOK, Methods!HandlerTypeOK
    <3> QED BY <3>1, <3>2 DEF CardsInv
  <2>5. faults' = {} => AtMostOneDefault(db)'
    BY <2>1 DEF AtMostOneDefault, CardsInv
  <2> QED BY <2>2, <2>3, <2>4, <2>5 DEF CardsInv
<1> QED BY <1>1, <1>2, <1>3, <1>4, <1>5, <1>6, <1>7 DEF Methods!Next

LEMMA CardsHaveDefault == CardsInv => Methods!OneDefaultCard
<1> SUFFICES ASSUME CardsInv, faults = {},
                    \A c \in DeskCalls["cards"] : phase[c] \notin {"written", "again"},
                    DOMAIN db # {}
             PROVE  \E i \in DOMAIN db : Methods!Defaults(db) = {i}
  BY DEF Methods!OneDefaultCard
<1>1. AtMostOneDefault(db) /\ ~NoDefault(db) /\ Methods!IsCards(db)
  BY DEF CardsInv, Elector, Methods!TypeOK
<1>2. PICK i \in DOMAIN db : db[i]
  BY <1>1 DEF NoDefault
<1>3. Methods!Defaults(db) = {i}
  BY <1>1, <1>2 DEF AtMostOneDefault, Methods!Defaults
<1> QED BY <1>2, <1>3

-----------------------------------------------------------------------------
(* The desk of shipments. *)

ShipmentInv ==
  /\ Shipments!TypeOK
  /\ \A c \in DeskCalls["shipping"] :
       /\ phase[c] # "idle" => command[c] \in Shipments!Command
       /\ c \in current /\ phase[c] = "loaded" => copy[c] = db
       /\ phase[c] = "loaded" =>
            IF command[c].do = "create" THEN DOMAIN copy[c] = {}
            ELSE command[c].shipment \in DOMAIN copy[c]
  /\ faults = {} =>
       /\ \A s, t \in DOMAIN db : s = t
       /\ \A c \in DeskCalls["shipping"] : phase[c] = "ok" /\ command[c].do = "dispatch" =>
            command[c].shipment \in DOMAIN db /\ db[command[c].shipment] = c

LEMMA NoShipments == Shipments!IsShipments(Shipments!NoCopy) /\ DOMAIN Shipments!NoCopy = {}
BY DEF Shipments!IsShipments, Shipments!NoCopy

LEMMA ShipmentInit == Shipments!Init => ShipmentInv
<1> SUFFICES ASSUME Shipments!Init PROVE ShipmentInv
  OBVIOUS
<1>1. DOMAIN db = {} /\ Shipments!IsShipments(db)
  BY DEF Shipments!Init, Shipments!IsShipments
<1>2. Shipments!TypeOK
  BY <1>1, NoShipments
     DEF Shipments!Init, Shipments!HandlerInit, Shipments!TypeOK, Shipments!HandlerTypeOK,
         Shipments!Phases
<1> QED BY <1>1, <1>2 DEF Shipments!Init, Shipments!HandlerInit, ShipmentInv

LEMMA ShipmentStep == ShipmentInv /\ [Shipments!Next]_(Shipments!handlerVars) => ShipmentInv'
<1> SUFFICES ASSUME ShipmentInv, [Shipments!Next]_(Shipments!handlerVars) PROVE ShipmentInv'
  OBVIOUS
<1> DEFINE C == DeskCalls["shipping"]
<1> USE DEF ShipmentInv, Shipments!TypeOK, Shipments!HandlerTypeOK
<1>1. CASE UNCHANGED Shipments!handlerVars
  BY <1>1 DEF Shipments!handlerVars, Shipments!IsShipments
<1>2. ASSUME NEW c \in C, NEW m \in Shipments!Command, Shipments!Begin(c, m)
      PROVE  ShipmentInv'
  <2>1. /\ phase[c] = "idle" /\ phase' = [phase EXCEPT ![c] = "begun"]
        /\ command' = [command EXCEPT ![c] = m]
        /\ UNCHANGED <<db, copy, current, faults>>
    BY <1>2 DEF Shipments!Begin, Shipments!Go
  <2>2. Shipments!TypeOK'
    BY <2>1 DEF Shipments!Phases, Shipments!IsShipments
  <2> QED BY <2>1, <2>2
<1>3. ASSUME NEW c \in C, Shipments!Find(c) PROVE ShipmentInv'
  <2>1. /\ phase[c] = "begun" /\ phase' = [phase EXCEPT ![c] = "loaded"]
        /\ copy' = [copy EXCEPT ![c] = db] /\ current' = current \cup {c}
        /\ UNCHANGED <<db, command, faults>>
        /\ command[c].do = "create" => DOMAIN db = {}
        /\ command[c].do = "dispatch" => command[c].shipment \in DOMAIN db
    BY <1>3 DEF Shipments!Find, Shipments!Take, Shipments!Go
  <2>2. Shipments!TypeOK'
    BY <2>1 DEF Shipments!Phases, Shipments!IsShipments
  <2>3. command[c].do \in {"create", "dispatch"}
    BY <2>1 DEF Shipments!Command
  <2> QED BY <2>1, <2>2, <2>3
<1>4. ASSUME NEW c \in C, Shipments!Save(c) PROVE ShipmentInv'
  <2>1. PICK w \in Shipments!Written(copy[c], c, command[c]) :
          Shipments!Commit(c, "loaded", "ok", Shipments!Upserted(db, w))
    BY <1>4 DEF Shipments!Save
  <2> DEFINE x == Shipments!Upserted(db, w)
  <2>2. /\ phase[c] = "loaded" /\ phase' = [phase EXCEPT ![c] = "ok"] /\ db' = x
        /\ current' = {} /\ UNCHANGED <<command, copy>>
        /\ faults' = faults \cup (IF c \in current THEN {} ELSE {"overwrote"})
    BY <2>1 DEF Shipments!Commit, Shipments!CommitPast, Shipments!Go
  <2>3. command[c] \in Shipments!Command
    BY <2>2
  <2>4. PICK t \in C, by \in C \cup {None} :
          /\ DOMAIN w = {t} /\ w[t] = by
          /\ IF command[c].do = "create" THEN t = c /\ by = None /\ DOMAIN copy[c] = {}
             ELSE t = command[c].shipment /\ by = c /\ copy[c][t] = None /\ t \in DOMAIN copy[c]
    <3>1. CASE command[c].do = "create"
      <4>1. w = [s \in {c} |-> None]
        BY <2>1, <3>1 DEF Shipments!Written
      <4>2. DOMAIN w = {c} /\ w[c] = None /\ DOMAIN copy[c] = {}
        BY <2>2, <3>1, <4>1
      <4> QED BY <3>1, <4>2
    <3>2. CASE command[c].do # "create"
      <4> DEFINE t == command[c].shipment
      <4>1. t \in C /\ t \in DOMAIN copy[c]
        BY <2>2, <2>3, <3>2 DEF Shipments!Command
      <4>2. copy[c][t] = None /\ w = [s \in {t} |-> c]
        BY <2>1, <3>2 DEF Shipments!Written
      <4>3. DOMAIN w = {t} /\ w[t] = c
        BY <4>2
      <4> QED BY <3>2, <4>1, <4>2, <4>3
    <3> QED BY <3>1, <3>2
  <2>5. /\ DOMAIN x = DOMAIN db \cup {t} /\ x[t] = by
        /\ \A s \in DOMAIN db \ {t} : x[s] = db[s]
    BY <2>4 DEF Shipments!Upserted
  <2>6. Shipments!IsShipments(x)
    BY <2>4, <2>5 DEF Shipments!IsShipments, Shipments!Upserted
  <2> HIDE DEF x
  <2>7. Shipments!TypeOK'
    BY <2>2, <2>6 DEF Shipments!Phases, Shipments!Faults
  <2>8. faults' = {} => faults = {} /\ copy[c] = db
    BY <2>2
  <2>9. None \notin C
    <3>1. "shipping" \in Desks
      BY DEF Desks
    <3> QED BY <3>1, DeskCallsAssumption, NoneAssumption
  <2>10. ASSUME faults' = {}
         PROVE  /\ \A s, t1 \in DOMAIN x : s = t1
                /\ \A d \in C : phase'[d] = "ok" /\ command[d].do = "dispatch" =>
                     command[d].shipment \in DOMAIN x /\ x[command[d].shipment] = d
    <3>1. CASE command[c].do = "create"
      BY <2>2, <2>4, <2>5, <2>8, <2>10, <3>1
    <3>2. CASE command[c].do # "create"
      BY <2>2, <2>4, <2>5, <2>8, <2>9, <2>10, <3>2
    <3> QED BY <3>1, <3>2
  <2> QED BY <2>2, <2>7, <2>10
<1>5. ASSUME NEW c \in C, Shipments!Fail(c) PROVE ShipmentInv'
  <2>1. /\ phase[c] \notin {"idle", "ok", "failed"} /\ phase' = [phase EXCEPT ![c] = "failed"]
        /\ copy' = [copy EXCEPT ![c] = Shipments!NoCopy]
        /\ faults' = faults \cup (IF phase[c] \in {"written", "again"} THEN {"halfDone"} ELSE {})
        /\ UNCHANGED <<db, command, current>>
    BY <1>5 DEF Shipments!Fail, Shipments!Running, Shipments!Over
  <2>2. Shipments!TypeOK'
    BY <2>1, NoShipments DEF Shipments!Phases, Shipments!IsShipments, Shipments!Faults
  <2> QED BY <2>1, <2>2
<1> QED BY <1>1, <1>2, <1>3, <1>4, <1>5 DEF Shipments!Next

LEMMA ShipmentsAreOne == ShipmentInv => Shipments!OneShipment
BY DEF ShipmentInv, Shipments!OneShipment

-----------------------------------------------------------------------------
(* The desk of reviews. *)

ReviewCallInv(c) ==
  /\ phase[c] # "idle" => command[c] \in Reviews!Command
  /\ phase[c] \in {"loaded", "written", "ok"} => db.review # {}
  /\ phase[c] \in {"loaded", "written"} =>
       command[c].do # "create" /\ copy[c].media \subseteq db.objects
  /\ phase[c] = "written" => c \in db.objects
  /\ c \in current /\ phase[c] \in {"loaded", "written"} => db.review = {copy[c]}

ReviewInv ==
  /\ Reviews!TypeOK
  /\ db = [review |-> db.review, objects |-> db.objects]
  /\ \A r, s \in db.review : r = s
  /\ \A c \in DeskCalls["review"] : ReviewCallInv(c)
  /\ Reviews!AnswersAreKept

LEMMA ReviewInit == Reviews!Init => ReviewInv
<1> SUFFICES ASSUME Reviews!Init PROVE ReviewInv
  OBVIOUS
<1>1. Reviews!TypeOK
  BY DEF Reviews!Init, Reviews!HandlerInit, Reviews!TypeOK, Reviews!HandlerTypeOK,
     Reviews!Phases
<1> QED BY <1>1
    DEF Reviews!Init, Reviews!HandlerInit, ReviewInv, ReviewCallInv, Reviews!AnswersAreKept

\* A copy changes into a review with the same images and the call's at most; a published one
\* does not change.
LEMMA ChangedReviews ==
  ASSUME NEW r \in Reviews!Review, NEW c \in DeskCalls["review"],
         NEW m \in Reviews!Command, m.do # "create",
         NEW s \in Reviews!Changed(r, c, m)
  PROVE  /\ s \in Reviews!Review /\ ~r.published
         /\ s.media = IF m.do = "addImage" THEN r.media \cup {c} ELSE r.media
         /\ m.do = "publish" => s = [r EXCEPT !.published = TRUE]
<1>1. ~r.published /\ m.do \in {"update", "addImage", "publish"}
  BY DEF Reviews!Changed, Reviews!Command, Reviews!Review
<1>2. CASE m.do = "update"
  BY <1>1, <1>2 DEF Reviews!Changed, Reviews!Review
<1>3. CASE m.do = "addImage"
  BY <1>1, <1>3 DEF Reviews!Changed, Reviews!Review
<1>4. CASE m.do = "publish"
  BY <1>1, <1>4 DEF Reviews!Changed, Reviews!Review
<1> QED BY <1>1, <1>2, <1>3, <1>4

LEMMA ReviewStep == ReviewInv /\ [Reviews!Next]_(Reviews!handlerVars) => ReviewInv'
<1> SUFFICES ASSUME ReviewInv, [Reviews!Next]_(Reviews!handlerVars) PROVE ReviewInv'
  OBVIOUS
<1> DEFINE C == DeskCalls["review"]
<1> USE DEF ReviewInv, ReviewCallInv, Reviews!TypeOK, Reviews!HandlerTypeOK
<1>1. CASE UNCHANGED Reviews!handlerVars
  BY <1>1 DEF Reviews!handlerVars, Reviews!AnswersAreKept, Reviews!Answered
<1>2. ASSUME NEW c \in C, NEW m \in Reviews!Command, Reviews!Begin(c, m)
      PROVE  ReviewInv'
  <2>1. /\ phase[c] = "idle" /\ phase' = [phase EXCEPT ![c] = "begun"]
        /\ command' = [command EXCEPT ![c] = m]
        /\ UNCHANGED <<db, copy, current, faults>>
    BY <1>2 DEF Reviews!Begin, Reviews!Go
  <2>2. Reviews!TypeOK'
    BY <2>1 DEF Reviews!Phases
  <2>3. \A do : Reviews!Answered(do)' = Reviews!Answered(do)
    BY <2>1 DEF Reviews!Answered
  <2>4. Reviews!AnswersAreKept'
    BY <2>1, <2>3 DEF Reviews!AnswersAreKept
  <2> QED BY <2>1, <2>2, <2>4
<1>3. ASSUME NEW c \in C, Reviews!Create(c) PROVE ReviewInv'
  <2> DEFINE r == [published |-> FALSE, text |-> c, media |-> {}]
  <2>1. /\ command[c].do = "create" /\ db.review = {}
        /\ phase[c] = "begun" /\ phase' = [phase EXCEPT ![c] = "ok"]
        /\ db' = [review |-> {r}, objects |-> db.objects]
        /\ UNCHANGED <<command, copy, current, faults>>
    BY <1>3 DEF Reviews!Create, Reviews!Go
  <2>2. r \in Reviews!Review
    BY DEF Reviews!Review
  <2>3. Reviews!TypeOK'
    BY <2>1, <2>2 DEF Reviews!Phases
  <2>4. \A d \in C : phase'[d] # "ok" \/ d = c
    BY <2>1
  <2>5. Reviews!Answered("addImage")' = {} /\ Reviews!Answered("publish")' = {}
    BY <2>1, <2>4 DEF Reviews!Answered
  <2>6. Reviews!AnswersAreKept'
    <3>1. \A s \in db'.review : s.media = {}
      BY <2>1
    <3> QED BY <2>5, <3>1 DEF Reviews!AnswersAreKept
  <2>7. \A d \in C : ReviewCallInv(d)'
    BY <2>1
  <2> QED BY <2>1, <2>3, <2>6, <2>7
<1>4. ASSUME NEW c \in C, Reviews!Find(c) PROVE ReviewInv'
  <2>1. PICK r \in db.review :
          /\ command[c].do # "create"
          /\ phase[c] = "begun" /\ phase' = [phase EXCEPT ![c] = "loaded"]
          /\ copy' = [copy EXCEPT ![c] = r] /\ current' = current \cup {c}
          /\ UNCHANGED <<db, command, faults>>
    BY <1>4 DEF Reviews!Find, Reviews!Take, Reviews!Go
  <2>2. db.review = {r}
    BY <2>1
  <2>3. r.media \subseteq db.objects
    BY DEF Reviews!AnswersAreKept
  <2>4. Reviews!TypeOK'
    BY <2>1 DEF Reviews!Phases
  <2>5. /\ \A do : Reviews!Answered(do)' = Reviews!Answered(do)
        /\ \A d \in Reviews!Answered("publish") : copy'[d] = copy[d]
    BY <2>1 DEF Reviews!Answered
  <2>6. Reviews!AnswersAreKept'
    <3>1. \A d \in Reviews!Answered("publish")' :
            d \in Reviews!Answered("publish") /\ copy'[d] = copy[d]
      BY <2>5
    <3>2. UNCHANGED <<db, faults>>
      BY <2>1
    <3> QED BY <2>5, <3>1, <3>2 DEF Reviews!AnswersAreKept
  <2>7. \A d \in C : ReviewCallInv(d)'
    BY <2>1, <2>2, <2>3
  <2> QED BY <2>1, <2>4, <2>6, <2>7
<1>5. ASSUME NEW c \in C, Reviews!Upload(c) PROVE ReviewInv'
  <2>1. /\ phase[c] = "loaded" /\ phase' = [phase EXCEPT ![c] = "written"]
        /\ db' = [review |-> db.review, objects |-> db.objects \cup {c}]
        /\ UNCHANGED <<command, copy, current, faults>>
    BY <1>5 DEF Reviews!Upload, Reviews!Go
  <2>2. Reviews!TypeOK'
    BY <2>1 DEF Reviews!Phases
  <2>3. \A do : Reviews!Answered(do)' = Reviews!Answered(do)
    BY <2>1 DEF Reviews!Answered
  <2>4. Reviews!AnswersAreKept'
    BY <2>1, <2>3 DEF Reviews!AnswersAreKept
  <2>5. \A d \in C : ReviewCallInv(d)'
    BY <2>1
  <2> QED BY <2>1, <2>2, <2>4, <2>5
<1>6. ASSUME NEW c \in C, Reviews!Save(c) PROVE ReviewInv'
  <2>1. PICK s \in Reviews!Changed(copy[c], c, command[c]) :
          /\ phase[c] = IF command[c].do = "addImage" THEN "written" ELSE "loaded"
          /\ phase' = [phase EXCEPT ![c] = "ok"]
          /\ db' = [review |-> {s}, objects |-> db.objects]
          /\ current' = {} /\ UNCHANGED <<command, copy>>
          /\ faults' = faults \cup (IF c \in current THEN {} ELSE {"overwrote"})
    BY <1>6 DEF Reviews!Save, Reviews!Commit, Reviews!CommitPast, Reviews!Go
  <2>2. copy[c] \in Reviews!Review /\ command[c] \in Reviews!Command /\ command[c].do # "create"
    BY <2>1
  <2>3. /\ s \in Reviews!Review /\ ~copy[c].published
        /\ s.media = IF command[c].do = "addImage" THEN copy[c].media \cup {c} ELSE copy[c].media
        /\ command[c].do = "publish" => s = [copy[c] EXCEPT !.published = TRUE]
    BY <2>1, <2>2, ChangedReviews
  <2>4. Reviews!TypeOK'
    BY <2>1, <2>3 DEF Reviews!Phases, Reviews!Faults
  <2>5. s.media \subseteq db.objects
    BY <2>1, <2>2, <2>3
  <2>6. \A do : Reviews!Answered(do)' = IF command[c].do = do THEN Reviews!Answered(do) \cup {c}
                                        ELSE Reviews!Answered(do)
    BY <2>1 DEF Reviews!Answered
  <2>7. ASSUME "overwrote" \notin faults'
        PROVE  /\ s.media = Reviews!Answered("addImage")'
               /\ \A d \in Reviews!Answered("publish")' : s = [copy[d] EXCEPT !.published = TRUE]
    <3>1. "overwrote" \notin faults /\ db.review = {copy[c]}
      BY <2>1, <2>7
    <3>2. /\ copy[c].media = Reviews!Answered("addImage")
          /\ \A d \in Reviews!Answered("publish") : copy[c] = [copy[d] EXCEPT !.published = TRUE]
      BY <3>1 DEF Reviews!AnswersAreKept
    <3>3. Reviews!Answered("publish") = {}
      <4> SUFFICES ASSUME NEW d \in Reviews!Answered("publish") PROVE FALSE
        OBVIOUS
      <4>1. copy[c] = [copy[d] EXCEPT !.published = TRUE] /\ "published" \in DOMAIN copy[c]
        BY <2>2, <3>2 DEF Reviews!Review
      <4>2. copy[c].published = TRUE
        BY <4>1
      <4> QED BY <2>3, <4>2
    <3>4. s.media = Reviews!Answered("addImage")'
      BY <2>3, <2>6, <3>2
    <3>5. \A d \in Reviews!Answered("publish")' : d = c /\ command[c].do = "publish"
      BY <2>6, <3>3
    <3> QED BY <2>3, <3>4, <3>5
  <2>8. Reviews!AnswersAreKept'
    BY <2>1, <2>5, <2>7 DEF Reviews!AnswersAreKept
  <2>9. \A d \in C : ReviewCallInv(d)'
    BY <2>1
  <2> QED BY <2>1, <2>4, <2>8, <2>9
<1>7. ASSUME NEW c \in C, Reviews!Fail(c) PROVE ReviewInv'
  <2>1. /\ phase[c] \notin {"idle", "ok", "failed"} /\ phase' = [phase EXCEPT ![c] = "failed"]
        /\ copy' = [copy EXCEPT ![c] = Reviews!NoCopy]
        /\ faults' = faults \cup (IF phase[c] \in {"written", "again"} THEN {"halfDone"} ELSE {})
        /\ UNCHANGED <<db, command, current>>
    BY <1>7 DEF Reviews!Fail, Reviews!Running, Reviews!Over
  <2>2. Reviews!TypeOK'
    BY <2>1 DEF Reviews!Phases, Reviews!Faults
  <2>3. /\ \A do : Reviews!Answered(do)' = Reviews!Answered(do)
        /\ \A d \in Reviews!Answered("publish") : copy'[d] = copy[d]
    BY <2>1 DEF Reviews!Answered
  <2>4. "overwrote" \notin faults' => "overwrote" \notin faults
    BY <2>1
  <2>5. Reviews!AnswersAreKept'
    BY <2>1, <2>3, <2>4 DEF Reviews!AnswersAreKept
  <2>6. \A d \in C : ReviewCallInv(d)'
    BY <2>1
  <2> QED BY <2>1, <2>2, <2>5, <2>6
<1> QED BY <1>1, <1>2, <1>3, <1>4, <1>5, <1>6, <1>7 DEF Reviews!Next

LEMMA ReviewsAreKept == ReviewInv => Reviews!AnswersAreKept
BY DEF ReviewInv

-----------------------------------------------------------------------------
(* The desk of roles. *)

\* A role of the administrator that is stored, and is one in every copy: no copy can rename
\* or delete it.
Protected(r) ==
  /\ r \in DOMAIN db.roles /\ db.roles[r].name \in System
  /\ \A c \in DeskCalls["roles"] : phase[c] = "loaded" =>
       r \in DOMAIN copy[c].roles /\ copy[c].roles[r].name \in System

\* Nobody knows a role of a call that has not saved.
Unmade(c) ==
  phase[c] \in {"idle", "begun", "loaded"} =>
    /\ c \notin DOMAIN db.roles
    /\ \A d \in DeskCalls["roles"] :
         phase[d] \in {"loaded", "ok"} /\ command[d].do # "create" => command[d].role # c

RoleCallInv(c) ==
  /\ phase[c] # "idle" => command[c] \in RoleAdmin!Command
  /\ phase[c] = "loaded" /\ command[c].do # "create" =>
       /\ command[c].role \in DOMAIN copy[c].roles
       /\ c \in current =>
            /\ command[c].role \in DOMAIN db.roles
            /\ copy[c].roles[command[c].role] = db.roles[command[c].role]
  /\ Unmade(c)

Deleted(c) == phase[c] = "ok" /\ command[c].do = "delete"

\* The calls that were answered about a key of a role, and what the role keeps of them.
Permits(r, k) ==
  {c \in DeskCalls["roles"] : /\ phase[c] = "ok" /\ command[c].do = "permit"
                              /\ command[c].role = r /\ k \in DOMAIN command[c].changes}
Kept(r, k) ==
  \A granted \in BOOLEAN :
    Permits(r, k) # {} /\ (\A c \in Permits(r, k) : command[c].changes[k] = granted)
      => (k \in db.roles[r].keys) = granted

RoleAnswers ==
  /\ \A c \in DeskCalls["roles"] : Deleted(c) => command[c].role \notin DOMAIN db.roles
  /\ \A r \in DOMAIN db.roles, k \in Keys : Kept(r, k)

RolesInv ==
  /\ RoleAdmin!TypeOK
  /\ \E r \in Earlier : Protected(r)
  /\ \A c \in DeskCalls["roles"] : RoleCallInv(c)
  /\ faults = {} => RoleAnswers

LEMMA RoleCalls == DeskCalls["roles"] \cap Earlier = {}
<1>1. "roles" \in Desks
  BY DEF Desks
<1> QED BY <1>1, DeskCallsAssumption, EarlierAssumption

LEMMA RolesInit == RoleAdmin!Init => RolesInv
<1> SUFFICES ASSUME RoleAdmin!Init PROVE RolesInv
  OBVIOUS
<1>1. PICK ids, roles, mine :
        /\ ids \subseteq Earlier /\ roles \in [ids -> RoleAdmin!Role] /\ mine \subseteq ids
        /\ \E r \in ids : roles[r].name \in System
        /\ db = [roles |-> roles, mine |-> mine]
  BY DEF RoleAdmin!Init
<1>2. RoleAdmin!TypeOK
  BY <1>1 DEF RoleAdmin!Init, RoleAdmin!HandlerInit, RoleAdmin!TypeOK, RoleAdmin!HandlerTypeOK,
     RoleAdmin!Phases, RoleAdmin!IsTables, RoleAdmin!Ids
<1>3. \A c \in DeskCalls["roles"] : phase[c] = "idle"
  BY DEF RoleAdmin!Init, RoleAdmin!HandlerInit
<1>4. \E r \in Earlier : Protected(r)
  BY <1>1, <1>3 DEF Protected
<1>5. \A c \in DeskCalls["roles"] : RoleCallInv(c)
  BY <1>1, <1>3, RoleCalls DEF RoleCallInv, Unmade
<1>6. RoleAnswers
  BY <1>3 DEF RoleAnswers, Deleted, Kept, Permits
<1> QED BY <1>2, <1>4, <1>5, <1>6 DEF RolesInv

\* What a call makes of a role.
LEMMA MadeRoles ==
  ASSUME NEW k, RoleAdmin!IsTables(k), NEW m \in RoleAdmin!Command,
         m.do # "create" => m.role \in DOMAIN k.roles,
         NEW role \in RoleAdmin!Made(k, m)
  PROVE  /\ role \in RoleAdmin!Role
         /\ m.do \in {"create", "duplicate", "update", "permit"}
         /\ m.do \in {"update", "permit"} /\ k.roles[m.role].name \in System
              => role.name \in System
         /\ m.do = "update" => role.keys = k.roles[m.role].keys
         /\ m.do = "permit" => \A key \in Keys :
              key \in role.keys <=> IF key \in DOMAIN m.changes THEN m.changes[key]
                                    ELSE key \in k.roles[m.role].keys
<1> DEFINE old == k.roles[m.role]
<1>1. m.do # "create" => old \in RoleAdmin!Role
  BY DEF RoleAdmin!IsTables
<1>2. CASE m.do = "create"
  <2>1. m.name \in Names /\ role = [name |-> m.name, keys |-> {}]
    BY <1>2 DEF RoleAdmin!Made, RoleAdmin!Command
  <2> QED BY <1>2, <2>1 DEF RoleAdmin!Role
<1>3. CASE m.do = "duplicate"
  <2>1. m.name \in Names /\ role = [old EXCEPT !.name = m.name]
    BY <1>3 DEF RoleAdmin!Made, RoleAdmin!Command
  <2> QED BY <1>1, <1>3, <2>1 DEF RoleAdmin!Role
<1>4. CASE m.do = "update"
  <2>1. m.name \in Names /\ role = [old EXCEPT !.name = m.name]
        /\ (old.name \in System => m.name = old.name)
    BY <1>4 DEF RoleAdmin!Made, RoleAdmin!Command, RoleAdmin!Renamed
  <2> QED BY <1>1, <1>4, <2>1 DEF RoleAdmin!Role
<1>5. CASE m.do = "permit"
  <2>1. role = RoleAdmin!Permitted(old, m.changes) /\ m.changes \in RoleAdmin!Changes
    BY <1>5 DEF RoleAdmin!Made, RoleAdmin!Command
  <2>2. DOMAIN m.changes \subseteq Keys
    BY <2>1 DEF RoleAdmin!Changes
  <2>3. /\ role.name = old.name /\ role = [name |-> role.name, keys |-> role.keys]
        /\ role.keys = {key \in old.keys \cup DOMAIN m.changes :
                          key \in DOMAIN m.changes => m.changes[key]}
    BY <1>1, <1>5, <2>1 DEF RoleAdmin!Permitted, RoleAdmin!Role
  <2>4. old.name \in Names /\ old.keys \subseteq Keys
    BY <1>1, <1>5 DEF RoleAdmin!Role
  <2>5. role \in RoleAdmin!Role
    BY <2>2, <2>3, <2>4 DEF RoleAdmin!Role
  <2> QED BY <1>5, <2>3, <2>5
<1>6. m.do \in {"create", "duplicate", "update", "permit"}
  BY DEF RoleAdmin!Made
<1> QED BY <1>2, <1>3, <1>4, <1>5, <1>6

\* A step of one call that writes no role.
LEMMA RolesStand ==
  ASSUME RolesInv, NEW c \in DeskCalls["roles"], db'.roles = db.roles, RoleAdmin!TypeOK',
         \A d \in DeskCalls["roles"] \ {c} :
           phase'[d] = phase[d] /\ command'[d] = command[d] /\ copy'[d] = copy[d],
         current' \subseteq current \cup {c}, faults \subseteq faults',
         phase[c] # "ok",
         phase'[c] # "idle" => command'[c] \in RoleAdmin!Command,
         phase'[c] \in {"idle", "begun", "loaded"} => phase[c] \in {"idle", "begun", "loaded"},
         phase'[c] = "loaded" =>
           copy'[c] = db /\ (command'[c].do # "create" => command'[c].role \in DOMAIN db.roles),
         phase'[c] = "ok" =>
           /\ phase[c] = "loaded" /\ command'[c] = command[c]
           /\ command[c].do \notin {"delete", "permit"}
  PROVE  RolesInv'
<1> DEFINE C == DeskCalls["roles"]
<1>1. PICK r \in Earlier : Protected(r)
  BY DEF RolesInv
<1>2. Protected(r)'
  BY <1>1 DEF Protected
<1>3. ASSUME NEW d \in C PROVE RoleCallInv(d)'
  <2>1. RoleCallInv(d) /\ RoleCallInv(c)
    BY DEF RolesInv
  <2>2. Unmade(d)'
    BY <2>1 DEF RoleCallInv, Unmade
  <2> QED BY <2>1, <2>2 DEF RoleCallInv
<1>4. ASSUME faults' = {} PROVE RoleAnswers'
  <2>1. RoleAnswers
    BY <1>4 DEF RolesInv
  <2>2. \A d \in C : Deleted(d)' => Deleted(d) /\ command'[d] = command[d]
    BY DEF Deleted
  <2>3. ASSUME NEW q \in DOMAIN db.roles, NEW k \in Keys PROVE Kept(q, k)'
    <3>1. \A d \in C : d \in Permits(q, k)' <=> d \in Permits(q, k)
      BY DEF Permits
    <3>2. Permits(q, k)' = Permits(q, k)
      BY <3>1 DEF Permits
    <3>3. \A d \in Permits(q, k) : command'[d] = command[d]
      BY DEF Permits
    <3>4. Kept(q, k)
      BY <2>1 DEF RoleAnswers
    <3> QED BY <3>2, <3>3, <3>4 DEF Kept
  <2> QED BY <2>1, <2>2, <2>3 DEF RoleAnswers
<1> QED BY <1>2, <1>3, <1>4 DEF RolesInv

\* A role is written, by the call that made it or by one that had it when it was loaded.
LEMMA RoleSaved ==
  ASSUME RolesInv, NEW c \in DeskCalls["roles"], RoleAdmin!Save(c)
  PROVE  RolesInv'
<1> DEFINE C == DeskCalls["roles"]
           m == command[c]
           r == RoleAdmin!Of(c, m)
<1>1. PICK role \in RoleAdmin!Made(copy[c], m) :
        RoleAdmin!CommitPast(c, "loaded", "ok",
          [db EXCEPT !.roles = RoleAdmin!Upserted(db.roles, [i \in {r} |-> role])],
          RoleAdmin!About(r))
  BY DEF RoleAdmin!Save
<1>2. RoleCallInv(c) /\ RoleAdmin!TypeOK /\ RoleAdmin!IsTables(db)
  BY DEF RolesInv, RoleAdmin!TypeOK
<1>3. /\ phase[c] = "loaded" /\ phase' = [phase EXCEPT ![c] = "ok"]
      /\ current' = current \ RoleAdmin!About(r) /\ UNCHANGED <<command, copy>>
      /\ faults' = faults \cup (IF c \in current THEN {} ELSE {"overwrote"})
      /\ db' = [db EXCEPT !.roles = RoleAdmin!Upserted(db.roles, [i \in {r} |-> role])]
  BY <1>1 DEF RoleAdmin!CommitPast, RoleAdmin!Go
<1>4. m \in RoleAdmin!Command /\ RoleAdmin!IsTables(copy[c])
      /\ (m.do # "create" => m.role \in DOMAIN copy[c].roles)
  BY <1>2, <1>3 DEF RoleCallInv, RoleAdmin!TypeOK
<1>5. /\ role \in RoleAdmin!Role
      /\ m.do \in {"create", "duplicate", "update", "permit"}
      /\ m.do \in {"update", "permit"} /\ copy[c].roles[m.role].name \in System
           => role.name \in System
      /\ m.do = "update" => role.keys = copy[c].roles[m.role].keys
      /\ m.do = "permit" => \A key \in Keys :
           key \in role.keys <=> IF key \in DOMAIN m.changes THEN m.changes[key]
                                 ELSE key \in copy[c].roles[m.role].keys
  BY <1>1, <1>4, MadeRoles
<1>6. /\ m.do \in {"create", "duplicate"} => r = c
      /\ m.do \in {"update", "permit"} => r = m.role
  BY DEF RoleAdmin!Of
<1>7. r \in RoleAdmin!Ids
  BY <1>4, <1>5, <1>6 DEF RoleAdmin!Ids, RoleAdmin!Command
<1> HIDE DEF m, r
<1>8. /\ db' = [roles |-> db'.roles, mine |-> db.mine]
      /\ DOMAIN db'.roles = DOMAIN db.roles \cup {r} /\ db'.roles[r] = role
      /\ \A q \in DOMAIN db.roles \ {r} : db'.roles[q] = db.roles[q]
      /\ db'.roles \in [DOMAIN db'.roles -> RoleAdmin!Role]
  <2>1. db = [roles |-> db.roles, mine |-> db.mine] /\ db.roles \in [DOMAIN db.roles -> RoleAdmin!Role]
    BY <1>2 DEF RoleAdmin!IsTables
  <2>2. db'.roles = RoleAdmin!Upserted(db.roles, [i \in {r} |-> role])
        /\ db' = [roles |-> db'.roles, mine |-> db.mine]
    BY <1>3, <2>1
  <2> QED BY <1>5, <2>1, <2>2 DEF RoleAdmin!Upserted
<1>9. RoleAdmin!TypeOK'
  <2>1. RoleAdmin!IsTables(db)'
    BY <1>2, <1>7, <1>8 DEF RoleAdmin!IsTables
  <2>2. \A d \in C : phase'[d] = "loaded" => phase[d] = "loaded" /\ copy'[d] = copy[d]
    BY <1>2, <1>3 DEF RoleAdmin!TypeOK, RoleAdmin!HandlerTypeOK
  <2> QED BY <1>2, <1>3, <2>1, <2>2
      DEF RoleAdmin!TypeOK, RoleAdmin!HandlerTypeOK, RoleAdmin!Phases, RoleAdmin!Faults,
          RoleAdmin!IsTables
<1>10. phase'[c] = "ok" /\ \A d \in C \ {c} : phase'[d] = phase[d]
  BY <1>2, <1>3 DEF RoleAdmin!TypeOK, RoleAdmin!HandlerTypeOK
<1>11. \E q \in Earlier : Protected(q)'
  <2>1. PICK q \in Earlier : Protected(q)
    BY DEF RolesInv
  <2>2. db'.roles[q].name \in System /\ q \in DOMAIN db'.roles
    <3>1. CASE q # r
      BY <1>8, <2>1, <3>1 DEF Protected
    <3>2. CASE q = r
      <4>1. m.do \in {"update", "permit"} /\ q = m.role
        BY <1>5, <1>6, <2>1, <3>2, RoleCalls
      <4> QED BY <1>3, <1>5, <1>8, <2>1, <3>2, <4>1 DEF Protected
    <3> QED BY <3>1, <3>2
  <2> QED BY <1>3, <1>10, <2>1, <2>2 DEF Protected
<1>12. ASSUME NEW d \in C PROVE RoleCallInv(d)'
  <2>1. RoleCallInv(d) /\ Unmade(d) /\ Unmade(c)
    BY DEF RolesInv, RoleCallInv
  <2>2. phase'[d] \in {"idle", "begun", "loaded"} => d # r
    BY <1>3, <1>5, <1>6, <1>10, <2>1 DEF Unmade, m
  <2>3. Unmade(d)'
    BY <1>3, <1>8, <1>10, <2>1, <2>2 DEF Unmade
  <2>4. phase'[d] = "loaded" /\ d \in current' /\ command[d].do # "create" =>
          phase[d] = "loaded" /\ d \in current /\ command[d].role # r
    BY <1>3, <1>10, <2>1 DEF RoleAdmin!About, RoleCallInv, RoleAdmin!Command
  <2> QED BY <1>3, <1>8, <1>10, <2>1, <2>3, <2>4 DEF RoleCallInv
<1>13. ASSUME faults' = {} PROVE RoleAnswers'
  <2>1. c \in current /\ RoleAnswers
    BY <1>3, <1>13 DEF RolesInv
  <2>2. m.do \in {"update", "permit"} => r \in DOMAIN db.roles /\ copy[c].roles[r] = db.roles[r]
    BY <1>2, <1>3, <1>6, <2>1 DEF RoleCallInv, m
  <2>3. Unmade(c)
    BY <1>2 DEF RoleCallInv
  <2>4. ASSUME NEW d \in C, Deleted(d)' PROVE command'[d].role \notin DOMAIN db'.roles
    <3>1. Deleted(d) /\ command'[d] = command[d] /\ phase[d] = "ok" /\ command[d].do = "delete"
      BY <1>3, <1>5, <1>10, <2>4 DEF Deleted, m
    <3>2. command[d].role \notin DOMAIN db.roles
      BY <2>1, <3>1 DEF RoleAnswers
    <3>3. command[d].role # r
      <4>1. CASE m.do \in {"update", "permit"}
        BY <2>2, <3>2, <4>1
      <4>2. CASE m.do \in {"create", "duplicate"}
        BY <1>3, <1>6, <2>3, <3>1, <4>2 DEF Unmade
      <4> QED BY <1>5, <4>1, <4>2
    <3> QED BY <1>8, <3>1, <3>2, <3>3
  <2>5. ASSUME NEW q \in DOMAIN db'.roles, NEW k \in Keys PROVE Kept(q, k)'
    <3>1. CASE ~(m.do = "permit" /\ q = r /\ k \in DOMAIN m.changes)
      <4>1. \A d \in C : d \in Permits(q, k)' <=> d \in Permits(q, k)
        BY <1>3, <1>6, <1>10, <3>1 DEF Permits, m
      <4>2. Permits(q, k)' = Permits(q, k)
        BY <4>1 DEF Permits
      <4>3. CASE q = r /\ m.do \in {"create", "duplicate"}
        <5>1. Permits(q, k) = {}
          BY <1>3, <1>6, <2>3, <4>3 DEF Permits, Unmade
        <5> QED BY <4>2, <5>1 DEF Kept
      <4>4. CASE ~(q = r /\ m.do \in {"create", "duplicate"})
        <5>1. q \in DOMAIN db.roles
          BY <1>5, <1>8, <2>2, <4>4
        <5>2. k \in db'.roles[q].keys <=> k \in db.roles[q].keys
          BY <1>5, <1>6, <1>8, <2>2, <3>1, <4>4, <5>1
        <5>3. Kept(q, k)
          BY <2>1, <5>1 DEF RoleAnswers
        <5> QED BY <1>3, <4>2, <5>2, <5>3 DEF Kept
      <4> QED BY <4>3, <4>4
    <3>2. CASE m.do = "permit" /\ q = r /\ k \in DOMAIN m.changes
      <4>1. c \in Permits(q, k)'
        BY <1>3, <1>6, <1>10, <3>2 DEF Permits, m
      <4>2. m.changes[k] \in BOOLEAN
        <5>1. m.changes \in RoleAdmin!Changes
          BY <1>4, <3>2 DEF RoleAdmin!Command
        <5> QED BY <3>2, <5>1 DEF RoleAdmin!Changes
      <4>3. k \in db'.roles[q].keys <=> m.changes[k]
        BY <1>5, <1>8, <3>2
      <4> QED BY <1>3, <4>1, <4>2, <4>3 DEF Kept, m
    <3> QED BY <3>1, <3>2
  <2> QED BY <2>4, <2>5 DEF RoleAnswers
<1> QED BY <1>9, <1>11, <1>12, <1>13 DEF RolesInv

LEMMA RoleDeleted ==
  ASSUME RolesInv, NEW c \in DeskCalls["roles"], RoleAdmin!Delete(c)
  PROVE  RolesInv'
<1> DEFINE C == DeskCalls["roles"]
           r == command[c].role
<1>1. RoleCallInv(c) /\ RoleAdmin!TypeOK /\ RoleAdmin!IsTables(db)
  BY DEF RolesInv, RoleAdmin!TypeOK
<1>2. PICK stale :
        /\ command[c].do = "delete" /\ RoleAdmin!About(r) \subseteq stale
        /\ copy[c].roles[r].name \notin System /\ r \in DOMAIN db.roles
        /\ phase[c] = "loaded" /\ phase' = [phase EXCEPT ![c] = "ok"]
        /\ current' = current \ stale /\ UNCHANGED <<command, copy>>
        /\ faults' = faults \cup (IF c \in current THEN {} ELSE {"overwrote"})
        /\ db' = [roles |-> [i \in DOMAIN db.roles \ {r} |-> db.roles[i]], mine |-> db.mine \ {r}]
  BY DEF RoleAdmin!Delete, RoleAdmin!CommitPast, RoleAdmin!Go
<1> HIDE DEF r
<1>3. /\ DOMAIN db'.roles = DOMAIN db.roles \ {r} /\ db'.mine = db.mine \ {r}
      /\ \A q \in DOMAIN db'.roles : db'.roles[q] = db.roles[q]
  BY <1>2
<1>4. RoleAdmin!TypeOK'
  <2>1. RoleAdmin!IsTables(db)'
    BY <1>1, <1>2, <1>3 DEF RoleAdmin!IsTables
  <2>2. \A d \in C : phase'[d] = "loaded" => phase[d] = "loaded" /\ copy'[d] = copy[d]
    BY <1>1, <1>2 DEF RoleAdmin!TypeOK, RoleAdmin!HandlerTypeOK
  <2> QED BY <1>1, <1>2, <2>1, <2>2
      DEF RoleAdmin!TypeOK, RoleAdmin!HandlerTypeOK, RoleAdmin!Phases, RoleAdmin!Faults,
          RoleAdmin!IsTables
<1>5. phase'[c] = "ok" /\ \A d \in C \ {c} : phase'[d] = phase[d]
  BY <1>1, <1>2 DEF RoleAdmin!TypeOK, RoleAdmin!HandlerTypeOK
<1>6. \E q \in Earlier : Protected(q)'
  <2>1. PICK q \in Earlier : Protected(q)
    BY DEF RolesInv
  <2>2. q # r
    BY <1>2, <2>1 DEF Protected
  <2> QED BY <1>2, <1>3, <1>5, <2>1, <2>2 DEF Protected
<1>7. ASSUME NEW d \in C PROVE RoleCallInv(d)'
  <2>1. RoleCallInv(d) /\ Unmade(d)
    BY DEF RolesInv, RoleCallInv
  <2>2. Unmade(d)'
    BY <1>2, <1>3, <1>5, <2>1 DEF Unmade
  <2>3. phase'[d] = "loaded" /\ d \in current' /\ command[d].do # "create" =>
          phase[d] = "loaded" /\ d \in current /\ command[d].role # r
    BY <1>2, <1>5, <2>1 DEF RoleAdmin!About, RoleCallInv, RoleAdmin!Command
  <2> QED BY <1>2, <1>3, <1>5, <2>1, <2>2, <2>3 DEF RoleCallInv
<1>8. ASSUME faults' = {} PROVE RoleAnswers'
  <2>1. RoleAnswers
    BY <1>2, <1>8 DEF RolesInv
  <2>2. ASSUME NEW d \in C, Deleted(d)' PROVE command'[d].role \notin DOMAIN db'.roles
    BY <1>2, <1>3, <1>5, <2>1, <2>2 DEF RoleAnswers, Deleted, r
  <2>3. ASSUME NEW q \in DOMAIN db'.roles, NEW k \in Keys PROVE Kept(q, k)'
    <3>1. \A d \in C : d \in Permits(q, k)' <=> d \in Permits(q, k)
      BY <1>2, <1>5 DEF Permits
    <3>2. Permits(q, k)' = Permits(q, k)
      BY <3>1 DEF Permits
    <3> QED BY <1>2, <1>3, <2>1, <3>2 DEF Kept, RoleAnswers
  <2> QED BY <2>2, <2>3 DEF RoleAnswers
<1> QED BY <1>4, <1>6, <1>7, <1>8 DEF RolesInv

LEMMA RolesStep == RolesInv /\ [RoleAdmin!Next]_(RoleAdmin!handlerVars) => RolesInv'
<1> SUFFICES ASSUME RolesInv, [RoleAdmin!Next]_(RoleAdmin!handlerVars) PROVE RolesInv'
  OBVIOUS
<1> DEFINE C == DeskCalls["roles"]
<1>1. RoleAdmin!TypeOK /\ RoleAdmin!IsTables(db)
  BY DEF RolesInv, RoleAdmin!TypeOK
<1>2. CASE UNCHANGED RoleAdmin!handlerVars
  BY <1>2 DEF RoleAdmin!handlerVars, RolesInv, RoleAdmin!TypeOK, RoleAdmin!HandlerTypeOK,
     RoleAdmin!IsTables, RoleCallInv, Unmade, Protected, RoleAnswers, Deleted, Kept, Permits
<1>3. ASSUME NEW c \in C, NEW m \in RoleAdmin!Command, RoleAdmin!Begin(c, m) PROVE RolesInv'
  <2>1. /\ phase[c] = "idle" /\ phase' = [phase EXCEPT ![c] = "begun"]
        /\ command' = [command EXCEPT ![c] = m]
        /\ UNCHANGED <<db, copy, current, faults>>
    BY <1>3 DEF RoleAdmin!Begin, RoleAdmin!Go
  <2>2. RoleAdmin!TypeOK'
    BY <1>1, <2>1 DEF RoleAdmin!TypeOK, RoleAdmin!HandlerTypeOK, RoleAdmin!Phases,
       RoleAdmin!IsTables
  <2> QED BY <1>1, <2>1, <2>2, RolesStand DEF RoleAdmin!TypeOK, RoleAdmin!HandlerTypeOK
<1>4. ASSUME NEW c \in C, RoleAdmin!Find(c) PROVE RolesInv'
  <2>1. /\ phase[c] = "begun" /\ phase' = [phase EXCEPT ![c] = "loaded"]
        /\ copy' = [copy EXCEPT ![c] = db] /\ current' = current \cup {c}
        /\ command[c].do # "create" => command[c].role \in DOMAIN db.roles
        /\ UNCHANGED <<db, command, faults>>
    BY <1>4 DEF RoleAdmin!Find, RoleAdmin!Take, RoleAdmin!Go
  <2>2. RoleAdmin!TypeOK'
    BY <1>1, <2>1 DEF RoleAdmin!TypeOK, RoleAdmin!HandlerTypeOK, RoleAdmin!Phases,
       RoleAdmin!IsTables
  <2>3. command[c] \in RoleAdmin!Command
    BY <2>1 DEF RolesInv, RoleCallInv
  <2> QED BY <1>1, <2>1, <2>2, <2>3, RolesStand DEF RoleAdmin!TypeOK, RoleAdmin!HandlerTypeOK
<1>5. ASSUME NEW c \in C, RoleAdmin!SaveMine(c) PROVE RolesInv'
  <2>1. PICK mine, stale :
          /\ mine \ db.mine \subseteq DOMAIN db.roles
          /\ command[c].do \in {"assign", "revoke"}
          /\ phase[c] = "loaded" /\ phase' = [phase EXCEPT ![c] = "ok"]
          /\ db' = [db EXCEPT !.mine = mine]
          /\ current' = current \ stale /\ UNCHANGED <<command, copy>>
          /\ faults' = faults \cup (IF c \in current THEN {} ELSE {"overwrote"})
    BY <1>5 DEF RoleAdmin!SaveMine, RoleAdmin!CommitPast, RoleAdmin!Go
  <2>2. db' = [roles |-> db.roles, mine |-> mine]
    BY <1>1, <2>1 DEF RoleAdmin!IsTables
  <2>3. RoleAdmin!IsTables(db)'
    BY <1>1, <2>1, <2>2 DEF RoleAdmin!IsTables
  <2>4. \A d \in C : phase'[d] = "loaded" => phase[d] = "loaded" /\ copy'[d] = copy[d]
    BY <1>1, <2>1 DEF RoleAdmin!TypeOK, RoleAdmin!HandlerTypeOK
  <2>5. RoleAdmin!TypeOK'
    BY <1>1, <2>1, <2>3, <2>4
       DEF RoleAdmin!TypeOK, RoleAdmin!HandlerTypeOK, RoleAdmin!Phases, RoleAdmin!Faults,
           RoleAdmin!IsTables
  <2>6. command[c] \in RoleAdmin!Command
    BY <2>1 DEF RolesInv, RoleCallInv
  <2> QED BY <1>1, <2>1, <2>2, <2>5, <2>6, RolesStand
      DEF RoleAdmin!TypeOK, RoleAdmin!HandlerTypeOK
<1>6. ASSUME NEW c \in C, RoleAdmin!Fail(c) PROVE RolesInv'
  <2>1. /\ phase[c] \notin {"idle", "ok", "failed"} /\ phase' = [phase EXCEPT ![c] = "failed"]
        /\ copy' = [copy EXCEPT ![c] = RoleAdmin!NoCopy]
        /\ faults' = faults \cup (IF phase[c] \in {"written", "again"} THEN {"halfDone"} ELSE {})
        /\ UNCHANGED <<db, command, current>>
    BY <1>6 DEF RoleAdmin!Fail, RoleAdmin!Running, RoleAdmin!Over
  <2>2. RoleAdmin!TypeOK'
    BY <1>1, <2>1 DEF RoleAdmin!TypeOK, RoleAdmin!HandlerTypeOK, RoleAdmin!Phases,
       RoleAdmin!IsTables, RoleAdmin!Faults
  <2>3. command[c] \in RoleAdmin!Command
    BY <2>1 DEF RolesInv, RoleCallInv
  <2> QED BY <1>1, <2>1, <2>2, <2>3, RolesStand DEF RoleAdmin!TypeOK, RoleAdmin!HandlerTypeOK
<1> QED BY <1>2, <1>3, <1>4, <1>5, <1>6, RoleSaved, RoleDeleted DEF RoleAdmin!Next

LEMMA RolesKeepAnswers == RolesInv => RoleAdmin!RolesAsAnswered
<1> SUFFICES ASSUME RolesInv PROVE RoleAdmin!RolesAsAnswered
  OBVIOUS
<1>1. \E r \in Earlier \cap DOMAIN db.roles : db.roles[r].name \in System
  BY DEF RolesInv, Protected
<1>2. ASSUME faults = {}, NEW c \in RoleAdmin!Answered("delete")
      PROVE  command[c].role \notin DOMAIN db.roles
  BY <1>2 DEF RolesInv, RoleAnswers, Deleted, RoleAdmin!Answered
<1>3. ASSUME faults = {}, NEW r \in DOMAIN db.roles, NEW k \in Keys PROVE Kept(r, k)
  BY <1>3 DEF RolesInv, RoleAnswers
<1>4. ASSUME NEW r, NEW k
      PROVE  {c \in RoleAdmin!Others(r, "permit") : k \in DOMAIN command[c].changes}
             = Permits(r, k)
  BY DEF RoleAdmin!Others, RoleAdmin!Answered, Permits
<1> QED BY <1>1, <1>2, <1>3, <1>4 DEF RoleAdmin!RolesAsAnswered, Kept

-----------------------------------------------------------------------------
(* The desk of categories. *)

\* A copy has the categories of some earlier moment, none of them its own parent; their
\* parents are those of now, unless one was moved.
TreeCallInv(c) ==
  /\ phase[c] # "idle" => command[c] \in Tree!Command
  /\ phase[c] \in {"idle", "begun", "loaded"} => c \notin DOMAIN db
  /\ DOMAIN copy[c] \subseteq DOMAIN db
  /\ \A i \in DOMAIN copy[c] :
       copy[c][i] # i /\ (Tree!Moves = {} => copy[c][i] = db[i])
  /\ phase[c] \in {"loaded", "ok"} /\ command[c].do = "update" => command[c].category \in DOMAIN db
  /\ phase[c] = "loaded" /\ command[c].do = "update" =>
       /\ command[c].category \in DOMAIN copy[c]
       /\ c \in current => copy[c][command[c].category] = db[command[c].category]
  /\ c \in Tree!Moves => command[c].parent \in DOMAIN db

\* What a category keeps of the answers to its moves.
Placed(i, parent) ==
  LET moves == {c \in Tree!Moves : command[c].category = i} IN
  moves # {} /\ (\A c \in moves : command[c].parent = parent) => db[i] = parent

TreeInv ==
  /\ Tree!TypeOK
  /\ \A c \in DeskCalls["tree"] : TreeCallInv(c)
  /\ Tree!Moves = {} => Tree!IsForest(db)
  /\ \A i \in DOMAIN db : db[i] # i
  /\ faults = {} => \A i \in DOMAIN db, parent \in DOMAIN db : Placed(i, parent)

LEMMA TreeNames ==
  /\ None \notin Tree!Ids /\ "same" \notin Tree!Ids \cup {None}
  /\ DeskCalls["tree"] \cap Earlier = {}
<1>1. "tree" \in Desks
  BY DEF Desks
<1>2. DeskCalls["tree"] \subseteq Calls
  BY <1>1, DeskCallsAssumption
<1> QED BY <1>2, NoneAssumption, SameAssumption, EarlierAssumption DEF Tree!Ids

LEMMA NoCategories == Tree!IsCategories(Tree!NoCopy) /\ DOMAIN Tree!NoCopy = {}
BY DEF Tree!IsCategories, Tree!NoCopy

\* In a forest no category is its own parent.
LEMMA ForestSteps ==
  ASSUME NEW k, Tree!IsForest(k), NEW i \in DOMAIN k
  PROVE  k[i] # i
<1>1. {i} \in SUBSET DOMAIN k /\ {i} # {}
  OBVIOUS
<1> QED BY <1>1 DEF Tree!IsForest

LEMMA TreeInit == Tree!Init => TreeInv
<1> SUFFICES ASSUME Tree!Init PROVE TreeInv
  OBVIOUS
<1>1. PICK ids : /\ ids \subseteq Earlier
                 /\ db \in [ids -> ids \cup {None}] /\ Tree!IsForest(db)
  BY DEF Tree!Init
<1>2. Tree!IsCategories(db)
  BY <1>1 DEF Tree!IsCategories, Tree!Ids
<1>3. Tree!TypeOK
  BY <1>2, NoCategories DEF Tree!Init, Tree!HandlerInit, Tree!TypeOK, Tree!HandlerTypeOK,
     Tree!Phases
<1>4. Tree!Moves = {}
  BY DEF Tree!Init, Tree!HandlerInit, Tree!Moves
<1>5. \A c \in DeskCalls["tree"] : TreeCallInv(c)
  BY <1>1, <1>4, TreeNames, NoCategories DEF Tree!Init, Tree!HandlerInit, TreeCallInv
<1>6. \A i \in DOMAIN db : db[i] # i
  BY <1>1, ForestSteps
<1> QED BY <1>1, <1>3, <1>4, <1>5, <1>6 DEF TreeInv, Placed

\* A step of one call that writes no category.
LEMMA TreeStands ==
  ASSUME TreeInv, NEW c \in DeskCalls["tree"], UNCHANGED db, faults \subseteq faults', Tree!TypeOK',
         \A d \in DeskCalls["tree"] \ {c} :
           phase'[d] = phase[d] /\ command'[d] = command[d] /\ copy'[d] = copy[d],
         current' \subseteq current \cup {c},
         phase[c] # "ok", phase'[c] # "ok",
         phase'[c] # "idle" => command'[c] \in Tree!Command,
         phase'[c] \in {"idle", "begun", "loaded"} => phase[c] \in {"idle", "begun", "loaded"},
         copy'[c] \in {copy[c], db, Tree!NoCopy},
         phase'[c] = "loaded" =>
           copy'[c] = db /\ (command'[c].do = "update" => command'[c].category \in DOMAIN db)
  PROVE  TreeInv'
<1> DEFINE C == DeskCalls["tree"]
<1>1. \A d \in C : d \in Tree!Moves' <=> d \in Tree!Moves /\ command'[d] = command[d]
  BY DEF Tree!Moves
<1>2. Tree!Moves' = Tree!Moves /\ \A d \in Tree!Moves : command'[d] = command[d]
  BY <1>1 DEF Tree!Moves
<1>3. ASSUME NEW d \in C PROVE TreeCallInv(d)'
  <2>1. TreeCallInv(d)
    BY DEF TreeInv
  <2>2. CASE d # c
    BY <1>2, <2>1, <2>2 DEF TreeCallInv
  <2>3. CASE d = c
    <3>1. DOMAIN copy'[c] \subseteq DOMAIN db /\ \A i \in DOMAIN copy'[c] :
            copy'[c][i] # i /\ (Tree!Moves = {} => copy'[c][i] = db[i])
      BY <2>1, <2>3, NoCategories DEF TreeInv, TreeCallInv
    <3>2. c \notin Tree!Moves'
      BY DEF Tree!Moves
    <3> QED BY <1>2, <2>1, <2>3, <3>1, <3>2 DEF TreeCallInv
  <2> QED BY <2>2, <2>3
<1>4. ASSUME faults' = {}, NEW i \in DOMAIN db, NEW parent \in DOMAIN db
      PROVE  Placed(i, parent)'
  <2>1. Placed(i, parent)
    BY <1>4 DEF TreeInv
  <2> QED BY <1>2, <2>1 DEF Placed
<1> QED BY <1>2, <1>3, <1>4 DEF TreeInv

\* A category is created, below one that is there or none: the others are as before.
LEMMA TreeGrows ==
  ASSUME TreeInv, NEW c \in DeskCalls["tree"], Tree!Create(c)
  PROVE  TreeInv'
<1> DEFINE C == DeskCalls["tree"]
           parent == command[c].parent
<1>1. Tree!TypeOK /\ Tree!IsCategories(db) /\ TreeCallInv(c)
  BY DEF TreeInv, Tree!TypeOK
<1>2. /\ command[c].do = "create" /\ Tree!MayMove(db, command[c])
      /\ phase[c] = "loaded" /\ phase' = [phase EXCEPT ![c] = "ok"]
      /\ db' = Tree!Upserted(db, [j \in {c} |-> parent])
      /\ current' \subseteq current /\ UNCHANGED <<command, copy>>
      /\ faults' = faults \cup (IF c \in current THEN {} ELSE {"overwrote"})
  BY DEF Tree!Create, Tree!Write, Tree!CommitPast, Tree!Go
<1>3. command[c] \in Tree!Command /\ c \notin DOMAIN db
  BY <1>1, <1>2 DEF TreeCallInv
<1>4. parent \in DOMAIN db \cup {None}
  BY <1>2, <1>3, TreeNames DEF Tree!MayMove, Tree!Command
<1> HIDE DEF parent
<1>5. /\ DOMAIN db' = DOMAIN db \cup {c} /\ db'[c] = parent
      /\ \A i \in DOMAIN db : db'[i] = db[i]
  BY <1>2, <1>3 DEF Tree!Upserted
<1>6. Tree!IsCategories(db)'
  <2>1. db' \in [DOMAIN db' -> DOMAIN db' \cup {None}]
    BY <1>1, <1>2, <1>4, <1>5 DEF Tree!IsCategories, Tree!Upserted
  <2> QED BY <1>1, <1>5, <2>1 DEF Tree!IsCategories, Tree!Ids
<1>7. Tree!TypeOK'
  BY <1>1, <1>2, <1>6 DEF Tree!TypeOK, Tree!HandlerTypeOK, Tree!Phases, Tree!Faults,
     Tree!IsCategories
<1>8. phase'[c] = "ok" /\ \A d \in C \ {c} : phase'[d] = phase[d]
  BY <1>1, <1>2 DEF Tree!TypeOK, Tree!HandlerTypeOK
<1>9. \A d \in C : d \in Tree!Moves' <=> d \in Tree!Moves
  BY <1>2, <1>8 DEF Tree!Moves
<1>10. Tree!Moves' = Tree!Moves
  BY <1>9 DEF Tree!Moves
<1>11. \A d \in C : TreeCallInv(d)'
  BY <1>2, <1>5, <1>8, <1>10 DEF TreeInv, TreeCallInv
<1>12. ASSUME Tree!IsForest(db) PROVE Tree!IsForest(db)'
  <2> SUFFICES ASSUME NEW s \in SUBSET DOMAIN db', s # {} PROVE \E i \in s : db'[i] \notin s
    BY DEF Tree!IsForest
  <2>1. CASE s = {c}
    BY <1>3, <1>4, <1>5, <2>1, TreeNames DEF Tree!Ids
  <2>2. CASE s # {c}
    <3> DEFINE t == s \ {c}
    <3>1. t \in SUBSET DOMAIN db /\ t # {}
      BY <1>5, <2>2
    <3>2. PICK i \in t : db[i] \notin t
      BY <1>12, <3>1 DEF Tree!IsForest
    <3>3. db[i] # c
      BY <1>1, <1>3, <3>1, TreeNames DEF Tree!IsCategories, Tree!Ids
    <3> QED BY <1>5, <3>1, <3>2, <3>3
  <2> QED BY <2>1, <2>2
<1>13. \A i \in DOMAIN db' : db'[i] # i
  BY <1>3, <1>4, <1>5, TreeNames DEF TreeInv, Tree!Ids
<1>14. ASSUME faults' = {}, NEW i \in DOMAIN db', NEW p \in DOMAIN db' PROVE Placed(i, p)'
  <2>1. \A d \in Tree!Moves : command[d].category \in DOMAIN db /\ command[d].parent \in DOMAIN db
    BY DEF TreeInv, TreeCallInv, Tree!Moves
  <2>2. CASE i \in DOMAIN db /\ p \in DOMAIN db
    <3>1. Placed(i, p)
      BY <1>2, <1>14, <2>2 DEF TreeInv
    <3> QED BY <1>2, <1>5, <1>10, <2>2, <3>1 DEF Placed
  <2>3. CASE i = c \/ p = c
    BY <1>2, <1>3, <1>10, <2>1, <2>3 DEF Placed
  <2> QED BY <1>5, <2>2, <2>3
<1> QED BY <1>7, <1>10, <1>11, <1>12, <1>13, <1>14 DEF TreeInv

\* A category is written that the call had when it was loaded.
LEMMA TreeChanges ==
  ASSUME TreeInv, NEW c \in DeskCalls["tree"], Tree!Update(c)
  PROVE  TreeInv'
<1> DEFINE C == DeskCalls["tree"]
           m == command[c]
           i == command[c].category
           p == Tree!Stored(db[i], Tree!Moved(copy[c][i], m))
<1>1. Tree!TypeOK /\ Tree!IsCategories(db) /\ Tree!IsCategories(copy[c]) /\ TreeCallInv(c)
  BY DEF TreeInv, Tree!TypeOK
<1>2. /\ m.do = "update" /\ Tree!MayMove(db, m)
      /\ phase[c] = "loaded" /\ phase' = [phase EXCEPT ![c] = "ok"]
      /\ db' = Tree!Upserted(db, [j \in {i} |-> p])
      /\ current' = current \ Tree!About(i) /\ UNCHANGED <<command, copy>>
      /\ faults' = faults \cup (IF c \in current THEN {} ELSE {"overwrote"})
  BY DEF Tree!Update, Tree!Write, Tree!CommitPast, Tree!Go
<1>3. m \in Tree!Command /\ i \in DOMAIN db /\ i \in DOMAIN copy[c]
  BY <1>1, <1>2 DEF TreeCallInv
<1>4. m.parent \in DOMAIN db \cup {None, "same"} /\ m.parent # i
  BY <1>2 DEF Tree!MayMove
<1>5. copy[c][i] \in DOMAIN db \cup {None} /\ copy[c][i] # i /\ db[i] \in DOMAIN db \cup {None}
      /\ db[i] # i
  BY <1>1, <1>3 DEF Tree!IsCategories, TreeCallInv, TreeInv
<1>6. p = CASE m.parent = "same" -> Tree!Stored(db[i], copy[c][i])
            [] m.parent = None -> db[i]
            [] OTHER -> m.parent
  BY <1>4, TreeNames DEF Tree!Stored, Tree!Moved
<1>7. p \in DOMAIN db \cup {None} /\ p # i
  BY <1>4, <1>5, <1>6 DEF Tree!Stored
<1>8. m.parent \in {None, "same"} /\ copy[c][i] = db[i] => p = db[i]
  BY <1>6, TreeNames DEF Tree!Stored
<1>9. m.parent \notin {None, "same"} => p = m.parent
  BY <1>6
<1> HIDE DEF p, i, m
<1>10. DOMAIN db' = DOMAIN db /\ db'[i] = p /\ \A j \in DOMAIN db \ {i} : db'[j] = db[j]
  BY <1>2, <1>3 DEF Tree!Upserted
<1>11. Tree!IsCategories(db)'
  <2>1. db' \in [DOMAIN db' -> DOMAIN db' \cup {None}]
    BY <1>1, <1>2, <1>3, <1>7, <1>10 DEF Tree!IsCategories, Tree!Upserted
  <2> QED BY <1>1, <1>10, <2>1 DEF Tree!IsCategories
<1>12. Tree!TypeOK'
  BY <1>1, <1>2, <1>11 DEF Tree!TypeOK, Tree!HandlerTypeOK, Tree!Phases, Tree!Faults,
     Tree!IsCategories
<1>13. phase'[c] = "ok" /\ \A d \in C \ {c} : phase'[d] = phase[d]
  BY <1>1, <1>2 DEF Tree!TypeOK, Tree!HandlerTypeOK
<1>14. \A d \in C : d \in Tree!Moves' <=>
         d \in Tree!Moves \/ (d = c /\ m.parent \notin {None, "same"})
  BY <1>2, <1>13 DEF Tree!Moves, m
<1>15. Tree!Moves' = {} => Tree!Moves = {} /\ m.parent \in {None, "same"}
  BY <1>14 DEF Tree!Moves
<1>16. Tree!Moves' = {} => \A j \in DOMAIN db : db'[j] = db[j]
  BY <1>1, <1>3, <1>8, <1>10, <1>15 DEF TreeCallInv
<1>17. ASSUME NEW d \in C PROVE TreeCallInv(d)'
  <2>1. TreeCallInv(d)
    BY DEF TreeInv
  <2>2. d \in Tree!Moves' => command[d].parent \in DOMAIN db
    BY <1>4, <1>14, <2>1 DEF TreeCallInv, m
  <2>3. \A j \in DOMAIN copy[d] : copy[d][j] # j /\ (Tree!Moves' = {} => copy[d][j] = db'[j])
    BY <1>15, <1>16, <2>1 DEF TreeCallInv
  <2>4. phase'[d] = "loaded" /\ command[d].do = "update" /\ d \in current' =>
          phase[d] = "loaded" /\ d \in current /\ command[d].category # i
    BY <1>2, <1>13 DEF Tree!About
  <2>5. command[d].do = "update" /\ phase'[d] \in {"loaded", "ok"} => phase[d] \in {"loaded", "ok"}
    BY <1>2, <1>13
  <2> QED BY <1>2, <1>10, <1>13, <2>1, <2>2, <2>3, <2>4, <2>5 DEF TreeCallInv
<1>18. Tree!Moves' = {} => Tree!IsForest(db)'
  BY <1>10, <1>15, <1>16 DEF TreeInv, Tree!IsForest
<1>19. \A j \in DOMAIN db' : db'[j] # j
  BY <1>7, <1>10 DEF TreeInv
<1>20. ASSUME faults' = {}, NEW j \in DOMAIN db', NEW q \in DOMAIN db' PROVE Placed(j, q)'
  <2>1. faults = {} /\ copy[c][i] = db[i]
    BY <1>1, <1>2, <1>20 DEF TreeCallInv, i, m
  <2>2. Placed(j, q)
    BY <1>10, <1>20, <2>1 DEF TreeInv
  <2>3. CASE m.parent \in {None, "same"} \/ j # i
    <3>1. db'[j] = db[j]
      BY <1>8, <1>10, <2>1, <2>3
    <3>2. \A d \in C : d \in Tree!Moves' /\ command[d].category = j
                   <=> d \in Tree!Moves /\ command[d].category = j
      BY <1>14, <2>3 DEF i
    <3>3. {d \in Tree!Moves' : command[d].category = j} = {d \in Tree!Moves : command[d].category = j}
      BY <3>2 DEF Tree!Moves
    <3> QED BY <1>2, <2>2, <3>1, <3>3 DEF Placed
  <2>4. CASE m.parent \notin {None, "same"} /\ j = i
    <3>1. c \in Tree!Moves' /\ command'[c].category = j /\ command'[c].parent = p
      BY <1>2, <1>9, <1>14, <2>4 DEF m, i
    <3> QED BY <1>10, <2>4, <3>1 DEF Placed
  <2> QED BY <2>3, <2>4
<1> QED BY <1>12, <1>17, <1>18, <1>19, <1>20 DEF TreeInv

LEMMA TreeStep == TreeInv /\ [Tree!Next]_(Tree!handlerVars) => TreeInv'
<1> SUFFICES ASSUME TreeInv, [Tree!Next]_(Tree!handlerVars) PROVE TreeInv'
  OBVIOUS
<1> DEFINE C == DeskCalls["tree"]
<1>1. Tree!TypeOK
  BY DEF TreeInv
<1>2. CASE UNCHANGED Tree!handlerVars
  BY <1>2 DEF Tree!handlerVars, TreeInv, Tree!TypeOK, Tree!HandlerTypeOK, Tree!IsCategories,
     TreeCallInv, Tree!Moves, Tree!IsForest, Placed
<1>3. ASSUME NEW c \in C, NEW m \in Tree!Command, Tree!Begin(c, m) PROVE TreeInv'
  <2>1. /\ phase[c] = "idle" /\ phase' = [phase EXCEPT ![c] = "begun"]
        /\ command' = [command EXCEPT ![c] = m]
        /\ UNCHANGED <<db, copy, current, faults>>
    BY <1>3 DEF Tree!Begin, Tree!Go
  <2>2. Tree!TypeOK'
    BY <1>1, <2>1 DEF Tree!TypeOK, Tree!HandlerTypeOK, Tree!Phases, Tree!IsCategories
  <2> QED BY <1>1, <2>1, <2>2, TreeStands DEF Tree!TypeOK, Tree!HandlerTypeOK
<1>4. ASSUME NEW c \in C, Tree!Find(c) PROVE TreeInv'
  <2>1. /\ phase[c] = "begun" /\ phase' = [phase EXCEPT ![c] = "loaded"]
        /\ copy' = [copy EXCEPT ![c] = db] /\ current' = current \cup {c}
        /\ command[c].do = "update" => command[c].category \in DOMAIN db
        /\ UNCHANGED <<db, command, faults>>
    BY <1>4 DEF Tree!Find, Tree!Take, Tree!Go
  <2>2. Tree!TypeOK'
    BY <1>1, <2>1 DEF Tree!TypeOK, Tree!HandlerTypeOK, Tree!Phases, Tree!IsCategories
  <2>3. command[c] \in Tree!Command
    BY <2>1 DEF TreeInv, TreeCallInv
  <2> QED BY <1>1, <2>1, <2>2, <2>3, TreeStands DEF Tree!TypeOK, Tree!HandlerTypeOK
<1>5. ASSUME NEW c \in C, Tree!Fail(c) PROVE TreeInv'
  <2>1. /\ phase[c] \notin {"idle", "ok", "failed"} /\ phase' = [phase EXCEPT ![c] = "failed"]
        /\ copy' = [copy EXCEPT ![c] = Tree!NoCopy]
        /\ faults' = faults \cup (IF phase[c] \in {"written", "again"} THEN {"halfDone"} ELSE {})
        /\ UNCHANGED <<db, command, current>>
    BY <1>5 DEF Tree!Fail, Tree!Running, Tree!Over
  <2>2. Tree!TypeOK'
    BY <1>1, <2>1, NoCategories
       DEF Tree!TypeOK, Tree!HandlerTypeOK, Tree!Phases, Tree!IsCategories, Tree!Faults
  <2>3. command[c] \in Tree!Command
    BY <2>1 DEF TreeInv, TreeCallInv
  <2> QED BY <1>1, <2>1, <2>2, <2>3, TreeStands DEF Tree!TypeOK, Tree!HandlerTypeOK
<1> QED BY <1>2, <1>3, <1>4, <1>5, TreeGrows, TreeChanges DEF Tree!Next

LEMMA MovesKept == TreeInv => Tree!MovesAreKept
BY DEF TreeInv, Placed, Tree!MovesAreKept

-----------------------------------------------------------------------------
(* The desk of products. *)

Last == db.messages[Len(db.messages)].product

\* What the document will be once every message is handled.
Latest == IF db.messages = <<>> THEN db.document ELSE {Last}

Like(l, p) == l \in {p, [p EXCEPT !.category = None]}

CatalogCallInv(c) ==
  /\ phase[c] # "idle" => command[c] \in Catalogue!Command
  /\ phase[c] = "loaded" => command[c].do # "create" /\ db.product # {}
  /\ phase[c] = "loaded" /\ c \in current => db.product = {copy[c]}

\* The product that is written last is told last, and the document begins with a product
\* that was created.
Followed ==
  /\ db.product # {} => Latest # {}
  /\ db.product # {} /\ db.document = {} =>
       db.messages # <<>> /\ db.messages[1].type = "created"
  /\ \A p \in db.product, l \in Latest : Like(l, p)

CatalogInv ==
  /\ Catalogue!TypeOK
  /\ db = [product |-> db.product, messages |-> db.messages, document |-> db.document]
  /\ \A c \in DeskCalls["catalog"] : CatalogCallInv(c)
  /\ db.product = {} => db.messages = <<>> /\ db.document = {}
  /\ faults = {} => Followed

LEMMA CatalogInit == Catalogue!Init => CatalogInv
<1> SUFFICES ASSUME Catalogue!Init PROVE CatalogInv
  OBVIOUS
<1>1. Catalogue!TypeOK
  BY DEF Catalogue!Init, Catalogue!HandlerInit, Catalogue!TypeOK, Catalogue!HandlerTypeOK,
     Catalogue!Phases, Catalogue!AtMostOne
<1> QED BY <1>1 DEF Catalogue!Init, Catalogue!HandlerInit, CatalogInv, CatalogCallInv, Followed,
     Latest

\* A command changes a product to a product; unless that is told, it is as it was.
LEMMA ChangedProducts ==
  ASSUME NEW p \in Catalogue!Product, NEW c \in DeskCalls["catalog"],
         NEW m \in Catalogue!Command, m.do # "create"
  PROVE  /\ Catalogue!Changed(p, c, m) \in Catalogue!Product
         /\ ~Catalogue!Told(p, m) => Catalogue!Changed(p, c, m) = p
<1>1. CASE m.do = "update"
  <2>1. m.category \in Categories \cup {None, "same"} /\ m.rename \in BOOLEAN
    BY <1>1 DEF Catalogue!Command
  <2>2. Catalogue!Changed(p, c, m) = Catalogue!Updated(p, c, m)
    BY <1>1 DEF Catalogue!Changed
  <2>3. Catalogue!Told(p, m) = (m.rename \/ m.category \notin {"same", p.category} \/ m.category = None)
    BY <1>1 DEF Catalogue!Told
  <2> DEFINE k == IF m.category = "same" THEN p.category ELSE m.category
             d == IF m.rename THEN c ELSE p.details
  <2>4. Catalogue!Updated(p, c, m) = [p EXCEPT !.details = d, !.category = k]
    BY DEF Catalogue!Updated
  <2>5. k \in Categories \cup {None} /\ d \in DeskCalls["catalog"]
    BY <2>1 DEF Catalogue!Product
  <2>6. ~Catalogue!Told(p, m) => k = p.category /\ d = p.details
    BY <2>1, <2>3
  <2> HIDE DEF k, d
  <2>7. [p EXCEPT !.details = d, !.category = k] \in Catalogue!Product
    BY <2>5 DEF Catalogue!Product
  <2>8. k = p.category /\ d = p.details => [p EXCEPT !.details = d, !.category = k] = p
    BY DEF Catalogue!Product
  <2> QED BY <2>2, <2>4, <2>6, <2>7, <2>8
<1>2. CASE m.do = "changePrice"
  <2>1. m.price \in Prices
    BY <1>2 DEF Catalogue!Command
  <2> QED BY <1>2, <2>1 DEF Catalogue!Changed, Catalogue!Told, Catalogue!Product
<1>3. CASE m.do = "publish"
  BY <1>3 DEF Catalogue!Changed, Catalogue!Told, Catalogue!Product
<1>4. CASE m.do = "archive"
  BY <1>4 DEF Catalogue!Changed, Catalogue!Told, Catalogue!Product
<1>5. m.do \in {"update", "changePrice", "publish", "archive"}
  BY DEF Catalogue!Command
<1> QED BY <1>1, <1>2, <1>3, <1>4, <1>5

\* The row that a product is saved in: as the product, but for a category that is gone.
LEMMA Rows ==
  ASSUME NEW q \in Catalogue!Product, db.product = {q}, NEW p \in Catalogue!Product
  PROVE  \E r \in Catalogue!Product :
           /\ Catalogue!Row(p) = {r}
           /\ Like(p, r)
           /\ p = q => r = q
           /\ p.category = None => r.category = q.category
<1> DEFINE r == [p EXCEPT !.category = IF p.category = None THEN q.category ELSE p.category]
<1>1. Catalogue!Row(p) = {r}
  BY DEF Catalogue!Row
<1>2. r \in Catalogue!Product /\ Like(p, r) /\ (p = q => r = q)
  BY DEF Catalogue!Product, Like
<1>3. p.category = None => r.category = q.category
  BY DEF Catalogue!Product
<1> QED BY <1>1, <1>2, <1>3

\* A product that is saved is told, or it was not changed.
LEMMA ProductTold ==
  ASSUME CatalogInv, NEW p \in Catalogue!Product, NEW r \in Catalogue!Product,
         NEW type \in {"created", "updated"},
         db' = [product |-> {r}, messages |-> Append(db.messages, [type |-> type, product |-> p]),
                document |-> db.document],
         Like(p, r), faults \subseteq faults',
         db.product = {} => type = "created"
  PROVE  /\ db'.product = {r} /\ db'.messages \in Seq(Catalogue!Message)
         /\ db'.document = db.document
         /\ faults' = {} => Followed'
<1> DEFINE m == [type |-> type, product |-> p]
<1>1. db.messages \in Seq(Catalogue!Message) /\ m \in Catalogue!Message
  BY DEF CatalogInv, Catalogue!TypeOK, Catalogue!Message
<1> HIDE DEF m
<1>2. db'.messages = Append(db.messages, m) /\ db'.product = {r} /\ db'.document = db.document
  BY DEF m
<1>3. /\ db'.messages \in Seq(Catalogue!Message) /\ db'.messages # <<>>
      /\ Len(db'.messages) = Len(db.messages) + 1
      /\ db'.messages[Len(db.messages) + 1] = m
      /\ db.messages # <<>> => db'.messages[1] = db.messages[1]
      /\ db.messages = <<>> => db'.messages[1] = m
  BY <1>1, <1>2
<1>4. Latest' = {p}
  BY <1>2, <1>3 DEF Latest, Last, m
<1>5. faults' = {} => Followed'
  BY <1>2, <1>3, <1>4 DEF CatalogInv, Followed, m
<1> QED BY <1>2, <1>3, <1>5

LEMMA Longer == ASSUME NEW s, Len(s) > 1 PROVE s # <<>>
OBVIOUS

LEMMA Messages ==
  ASSUME NEW S, NEW s \in Seq(S), s # <<>>
  PROVE  /\ Len(s) \in Nat \ {0} /\ Head(s) \in S /\ Head(s) = s[1]
         /\ Tail(s) \in Seq(S) /\ Len(Tail(s)) = Len(s) - 1
         /\ Tail(s) = <<>> <=> Len(s) = 1
         /\ Len(s) # 1 => Tail(s)[Len(s) - 1] = s[Len(s)]
         /\ Append(Tail(s), Head(s)) \in Seq(S)
<1>1. Len(s) \in Nat \ {0} /\ Head(s) \in S /\ Head(s) = s[1]
  OBVIOUS
<1>2. Tail(s) \in Seq(S) /\ Len(Tail(s)) = Len(s) - 1
  OBVIOUS
<1>3. Tail(s) = <<>> <=> Len(s) = 1
  BY <1>1, <1>2
<1>4. \A i \in 1 .. Len(s) - 1 : Tail(s)[i] = s[i + 1]
  OBVIOUS
<1>5. \A n \in Nat \ {0} : n # 1 => n - 1 \in 1 .. n - 1 /\ (n - 1) + 1 = n
  OBVIOUS
<1>6. Len(s) # 1 => Tail(s)[Len(s) - 1] = s[Len(s)]
  BY <1>1, <1>4, <1>5
<1> QED BY <1>1, <1>2, <1>3, <1>6

LEMMA CatalogDelivers ==
  ASSUME CatalogInv, Catalogue!Deliver
  PROVE  CatalogInv'
<1>1. PICK p \in Catalogue!Indexed(Head(db.messages)) :
        \/ db' = [db EXCEPT !.messages = Tail(@), !.document = {p}]
        \/ db' = [db EXCEPT !.document = {p}]
  BY DEF Catalogue!Deliver
<1>2. db.messages # <<>> /\ UNCHANGED <<phase, command, copy, current, faults>>
  BY DEF Catalogue!Deliver
<1>3. db.messages \in Seq(Catalogue!Message)
  BY DEF CatalogInv, Catalogue!TypeOK
<1> DEFINE m == db.messages
           n == Len(m)
<1>0. Head(m) = m[1] /\ m[1] \in Catalogue!Message /\ p = m[1].product
  BY <1>1, <1>2, <1>3 DEF Catalogue!Indexed
<1>4. /\ n \in Nat \ {0} /\ Tail(m) \in Seq(Catalogue!Message) /\ Len(Tail(m)) = n - 1
      /\ Tail(m) = <<>> <=> n = 1
      /\ n # 1 => Tail(m)[n - 1] = m[n]
      /\ m[1] \in Catalogue!Message /\ p = m[1].product
  BY <1>0, <1>2, <1>3, Messages
<1>5. p \in Catalogue!Product
  BY <1>4 DEF Catalogue!Message
<1>6. /\ db'.product = db.product /\ db'.document = {p} /\ db'.messages \in {m, Tail(m)}
      /\ db' = [product |-> db'.product, messages |-> db'.messages, document |-> db'.document]
  BY <1>1 DEF CatalogInv
<1>7. Catalogue!TypeOK'
  BY <1>2, <1>3, <1>4, <1>5, <1>6 DEF CatalogInv, Catalogue!TypeOK, Catalogue!HandlerTypeOK,
     Catalogue!AtMostOne
<1>8. Latest = {m[n].product} /\ Latest' = Latest
  BY <1>2, <1>4, <1>6 DEF Latest, Last
<1> HIDE DEF m, n
<1>9. faults' = {} => Followed'
  BY <1>2, <1>6, <1>8 DEF CatalogInv, Followed
<1>10. \A c \in DeskCalls["catalog"] : CatalogCallInv(c)'
  BY <1>2, <1>6 DEF CatalogInv, CatalogCallInv
<1>11. db.product # {}
  BY <1>2 DEF CatalogInv
<1> QED BY <1>6, <1>7, <1>9, <1>10, <1>11 DEF CatalogInv

LEMMA CatalogCreates ==
  ASSUME CatalogInv, NEW c \in DeskCalls["catalog"], Catalogue!Create(c)
  PROVE  CatalogInv'
<1> DEFINE p == [status |-> "DRAFT", details |-> c, price |-> command[c].price,
                 category |-> command[c].category]
<1>1. /\ command[c].do = "create" /\ db.product = {}
      /\ phase[c] = "begun" /\ phase' = [phase EXCEPT ![c] = "ok"]
      /\ db' = Catalogue!Tell([db EXCEPT !.product = {p}], "created", p)
      /\ UNCHANGED <<command, copy, current, faults>>
  BY DEF Catalogue!Create, Catalogue!Go
<1>2. command[c] \in Catalogue!Command
  BY <1>1 DEF CatalogInv, CatalogCallInv
<1>3. p \in Catalogue!Product
  BY <1>1, <1>2 DEF Catalogue!Command, Catalogue!Product
<1> HIDE DEF p
<1>4. db' = [product |-> {p},
             messages |-> Append(db.messages, [type |-> "created", product |-> p]),
             document |-> db.document]
  BY <1>1 DEF CatalogInv, Catalogue!Tell
<1>5. Like(p, p) /\ faults \subseteq faults'
  BY <1>1 DEF Like
<1>6. /\ db'.product = {p} /\ db'.messages \in Seq(Catalogue!Message)
      /\ db'.document = db.document
      /\ faults' = {} => Followed'
  BY <1>3, <1>4, <1>5, ProductTold
<1>7. Catalogue!TypeOK'
  BY <1>1, <1>3, <1>6 DEF CatalogInv, Catalogue!TypeOK, Catalogue!HandlerTypeOK,
     Catalogue!AtMostOne, Catalogue!Phases
<1>8. \A d \in DeskCalls["catalog"] : phase[d] # "loaded"
  BY <1>1 DEF CatalogInv, CatalogCallInv
<1>9. \A d \in DeskCalls["catalog"] : CatalogCallInv(d)'
  BY <1>1, <1>8 DEF CatalogInv, CatalogCallInv, Catalogue!TypeOK, Catalogue!HandlerTypeOK
<1>10. db' = [product |-> db'.product, messages |-> db'.messages, document |-> db'.document]
  BY <1>4
<1> QED BY <1>6, <1>7, <1>9, <1>10 DEF CatalogInv

LEMMA CatalogSaves ==
  ASSUME CatalogInv, NEW c \in DeskCalls["catalog"], Catalogue!Save(c)
  PROVE  CatalogInv'
<1> DEFINE p == Catalogue!Changed(copy[c], c, command[c])
           tables == [db EXCEPT !.product = Catalogue!Row(p)]
           told == Catalogue!Told(copy[c], command[c])
<1>1. /\ phase[c] = "loaded"
      /\ Catalogue!Commit(c, "loaded", "ok",
                          IF told THEN Catalogue!Tell(tables, "updated", p) ELSE tables)
  BY DEF Catalogue!Save
<1>2. /\ copy[c] \in Catalogue!Product /\ command[c] \in Catalogue!Command
      /\ command[c].do # "create" /\ db.product # {}
      /\ c \in current => db.product = {copy[c]}
  BY <1>1 DEF CatalogInv, CatalogCallInv, Catalogue!TypeOK
<1>3. p \in Catalogue!Product /\ (~told => p = copy[c])
  BY <1>2, ChangedProducts
<1>4. PICK q \in Catalogue!Product : db.product = {q}
  BY <1>2 DEF CatalogInv, Catalogue!TypeOK, Catalogue!AtMostOne
<1> HIDE DEF p, told
<1>5. PICK r \in Catalogue!Product : Catalogue!Row(p) = {r} /\ Like(p, r) /\ (p = q => r = q)
  BY <1>3, <1>4, Rows
<1>6. tables = [product |-> {r}, messages |-> db.messages, document |-> db.document]
  <2>1. db = [product |-> db.product, messages |-> db.messages, document |-> db.document]
    BY DEF CatalogInv
  <2> QED BY <1>5, <2>1
<1>7. /\ phase' = [phase EXCEPT ![c] = "ok"] /\ current' = current \ DeskCalls["catalog"]
      /\ faults' = faults \cup (IF c \in current THEN {} ELSE {"overwrote"})
      /\ UNCHANGED <<command, copy>>
  BY <1>1 DEF Catalogue!Commit, Catalogue!CommitPast, Catalogue!Go
<1>8. /\ db'.product = {r} /\ db'.messages \in Seq(Catalogue!Message)
      /\ db'.document = db.document
      /\ db' = [product |-> db'.product, messages |-> db'.messages, document |-> db'.document]
      /\ faults' = {} => Followed'
  <2>1. CASE told
    <3>1. db' = [product |-> {r},
                 messages |-> Append(db.messages, [type |-> "updated", product |-> p]),
                 document |-> db.document]
      BY <1>1, <1>6, <2>1 DEF Catalogue!Commit, Catalogue!CommitPast, Catalogue!Tell
    <3>2. faults \subseteq faults'
      BY <1>7
    <3>3. db.product = {} => "updated" = "created"
      BY <1>4
    <3>4. /\ db'.product = {r} /\ db'.messages \in Seq(Catalogue!Message)
          /\ db'.document = db.document
          /\ faults' = {} => Followed'
      BY <1>3, <1>5, <3>1, <3>2, <3>3, ProductTold
    <3> QED BY <3>1, <3>4
  <2>2. CASE ~told
    <3>1. db' = [product |-> {r}, messages |-> db.messages, document |-> db.document]
      BY <1>1, <1>6, <2>2 DEF Catalogue!Commit, Catalogue!CommitPast
    <3>2. ASSUME faults' = {} PROVE db'.product = db.product /\ faults = {}
      BY <1>2, <1>3, <1>4, <1>5, <1>7, <2>2, <3>1, <3>2
    <3>3. ASSUME faults' = {} PROVE Followed'
      BY <3>1, <3>2, <3>3 DEF CatalogInv, Followed, Latest, Last
    <3>4. db.messages \in Seq(Catalogue!Message)
      BY DEF CatalogInv, Catalogue!TypeOK
    <3> QED BY <3>1, <3>3, <3>4
  <2> QED BY <2>1, <2>2
<1>9. Catalogue!TypeOK'
  BY <1>7, <1>8 DEF CatalogInv, Catalogue!TypeOK, Catalogue!HandlerTypeOK,
     Catalogue!AtMostOne, Catalogue!Phases, Catalogue!Faults
<1>10. ASSUME NEW d \in DeskCalls["catalog"] PROVE CatalogCallInv(d)'
  <2>1. CatalogCallInv(d) /\ d \notin current' /\ db'.product # {}
    BY <1>7, <1>8 DEF CatalogInv
  <2>2. phase'[d] = IF d = c THEN "ok" ELSE phase[d]
    BY <1>7 DEF CatalogInv, Catalogue!TypeOK, Catalogue!HandlerTypeOK
  <2> QED BY <1>1, <1>7, <2>1, <2>2 DEF CatalogCallInv
<1> QED BY <1>8, <1>9, <1>10 DEF CatalogInv

LEMMA CatalogStep == CatalogInv /\ [Catalogue!Next]_(Catalogue!handlerVars) => CatalogInv'
<1> SUFFICES ASSUME CatalogInv, [Catalogue!Next]_(Catalogue!handlerVars) PROVE CatalogInv'
  OBVIOUS
<1> USE DEF CatalogInv
<1>1. CASE UNCHANGED Catalogue!handlerVars
  BY <1>1 DEF Catalogue!handlerVars, Catalogue!TypeOK, Catalogue!HandlerTypeOK,
     Catalogue!AtMostOne, CatalogCallInv, Followed, Latest, Last
<1>2. ASSUME Catalogue!Delay PROVE CatalogInv'
  <2>1. /\ db.messages \in Seq(Catalogue!Message) /\ Len(db.messages) > 1
        /\ db' = [db EXCEPT !.messages = Append(Tail(db.messages), Head(db.messages))]
        /\ faults' = faults \cup {"outOfOrder"}
        /\ UNCHANGED <<phase, command, copy, current>>
    BY <1>2 DEF Catalogue!Delay, Catalogue!TypeOK
  <2>2. Append(Tail(db.messages), Head(db.messages)) \in Seq(Catalogue!Message)
    <3>1. db.messages # <<>>
      BY <2>1, Longer
    <3> QED BY <2>1, <3>1, Messages
  <2>3. /\ db'.product = db.product /\ db'.document = db.document
        /\ db'.messages \in Seq(Catalogue!Message) /\ db.messages # <<>>
        /\ db' = [product |-> db'.product, messages |-> db'.messages, document |-> db'.document]
    <3>1. db = [product |-> db.product, messages |-> db.messages, document |-> db.document]
      OBVIOUS
    <3>2. db.messages # <<>>
      BY <2>1, Longer
    <3> QED BY <2>1, <2>2, <3>1, <3>2
  <2>4. Catalogue!TypeOK'
    BY <2>1, <2>3 DEF Catalogue!TypeOK, Catalogue!HandlerTypeOK, Catalogue!AtMostOne,
       Catalogue!Faults
  <2>5. \A d \in DeskCalls["catalog"] : CatalogCallInv(d)'
    BY <2>1, <2>3 DEF CatalogCallInv
  <2> QED BY <2>1, <2>3, <2>4, <2>5
<1>3. ASSUME NEW c \in DeskCalls["catalog"], NEW m \in Catalogue!Command, Catalogue!Begin(c, m)
      PROVE  CatalogInv'
  <2>1. /\ phase[c] = "idle" /\ phase' = [phase EXCEPT ![c] = "begun"]
        /\ command' = [command EXCEPT ![c] = m] /\ UNCHANGED <<db, copy, current, faults>>
    BY <1>3 DEF Catalogue!Begin, Catalogue!Go
  <2>2. Catalogue!TypeOK'
    BY <2>1 DEF Catalogue!TypeOK, Catalogue!HandlerTypeOK, Catalogue!AtMostOne, Catalogue!Phases
  <2>3. \A d \in DeskCalls["catalog"] : CatalogCallInv(d)'
    BY <2>1 DEF CatalogCallInv, Catalogue!TypeOK, Catalogue!HandlerTypeOK
  <2> QED BY <2>1, <2>2, <2>3 DEF Followed, Latest, Last
<1>4. ASSUME NEW c \in DeskCalls["catalog"], Catalogue!Find(c) PROVE CatalogInv'
  <2>1. PICK p \in db.product : Catalogue!Take(c, "begun", "loaded", p)
    BY <1>4 DEF Catalogue!Find
  <2>2. /\ phase[c] = "begun" /\ phase' = [phase EXCEPT ![c] = "loaded"]
        /\ copy' = [copy EXCEPT ![c] = p] /\ current' = current \cup {c}
        /\ UNCHANGED <<db, command, faults>>
    BY <2>1 DEF Catalogue!Take, Catalogue!Go
  <2>3. p \in Catalogue!Product /\ db.product = {p} /\ command[c].do # "create"
    BY <1>4 DEF Catalogue!Find, Catalogue!TypeOK, Catalogue!AtMostOne
  <2>4. Catalogue!TypeOK'
    BY <2>2, <2>3 DEF Catalogue!TypeOK, Catalogue!HandlerTypeOK, Catalogue!AtMostOne,
       Catalogue!Phases
  <2>5. \A d \in DeskCalls["catalog"] : CatalogCallInv(d)'
    BY <2>2, <2>3 DEF CatalogCallInv, Catalogue!TypeOK, Catalogue!HandlerTypeOK
  <2> QED BY <2>2, <2>4, <2>5 DEF Followed, Latest, Last
<1>5. ASSUME NEW c \in DeskCalls["catalog"], Catalogue!Fail(c) PROVE CatalogInv'
  <2>1. /\ phase[c] # "idle" /\ phase' = [phase EXCEPT ![c] = "failed"]
        /\ copy' = [copy EXCEPT ![c] = Catalogue!NoCopy]
        /\ faults' = faults \cup (IF phase[c] \in {"written", "again"} THEN {"halfDone"} ELSE {})
        /\ UNCHANGED <<db, command, current>>
    BY <1>5 DEF Catalogue!Fail, Catalogue!Running
  <2>2. Catalogue!TypeOK'
    BY <2>1 DEF Catalogue!TypeOK, Catalogue!HandlerTypeOK, Catalogue!AtMostOne, Catalogue!Phases,
       Catalogue!Faults
  <2>3. \A d \in DeskCalls["catalog"] : CatalogCallInv(d)'
    BY <2>1 DEF CatalogCallInv, Catalogue!TypeOK, Catalogue!HandlerTypeOK
  <2> QED BY <2>1, <2>2, <2>3 DEF Followed, Latest, Last
<1> QED BY <1>1, <1>2, <1>3, <1>4, <1>5, CatalogDelivers, CatalogCreates, CatalogSaves
       DEF Catalogue!Next

LEMMA IndexFollows == CatalogInv => Catalogue!IndexFollowsCatalog
BY DEF CatalogInv, Followed, Latest, Like, Catalogue!IndexFollowsCatalog

-----------------------------------------------------------------------------
(* The page of a cart. *)

Pending == {c \in DeskCalls["cartPage"] : phase[c] \in {"sent", "served"}}

CartViewCallInv(c) ==
  /\ phase[c] \in {"sent", "late", "served"} => command[c] \in CartView!Command
  /\ phase[c] \in {"sent", "served"} =>
       /\ copy[c] = [before |-> copy[c].before, answer |-> copy[c].answer]
       /\ CartView!IsLines(copy[c].before, CartView!LineNames)
  /\ phase[c] = "served" => CartView!IsLines(copy[c].answer, CartView!Ids)
  /\ phase[c] = "served" /\ c \in current => copy[c].answer = db.stored

\* What is shown is what is stored, or what the only call under way saw was.
CartIsShown ==
  /\ Pending = {} => db.shown = db.stored
  /\ \A c \in current : Pending = {c} /\ phase[c] = "sent" => copy[c].before = db.stored

CartViewInv ==
  /\ CartView!TypeOK
  /\ \A c \in DeskCalls["cartPage"] : CartViewCallInv(c)
  /\ faults = {} => CartIsShown

LEMMA CartViewInit == CartView!Init => CartViewInv
<1> SUFFICES ASSUME CartView!Init PROVE CartViewInv
  OBVIOUS
<1>1. PICK lines, ids : /\ ids \in SUBSET Earlier
                        /\ lines \in [ids -> [product : Products, quantity : Quantities]]
                        /\ db = [stored |-> lines, shown |-> lines]
  BY DEF CartView!Init
<1>2. CartView!IsLines(lines, CartView!Ids) /\ CartView!IsLines(lines, CartView!LineNames)
  BY <1>1, QuantitiesAssumption
     DEF CartView!IsLines, CartView!Ids, CartView!LineNames, CartView!Line
<1>3. CartView!TypeOK
  BY <1>1, <1>2
     DEF CartView!Init, CartView!HandlerInit, CartView!TypeOK, CartView!PageTypeOK,
         CartView!PagePhases
<1>4. \A c \in DeskCalls["cartPage"] : phase[c] = "idle"
  BY DEF CartView!Init, CartView!HandlerInit
<1>5. Pending = {} /\ \A c \in DeskCalls["cartPage"] : CartViewCallInv(c)
  BY <1>4 DEF Pending, CartViewCallInv
<1> QED BY <1>1, <1>3, <1>5 DEF CartViewInv, CartIsShown

LEMMA UpsertedLines ==
  ASSUME NEW old, NEW new, NEW names, CartView!IsLines(old, names),
         DOMAIN new \subseteq names, \A i \in DOMAIN new : new[i] \in CartView!Line
  PROVE  CartView!IsLines(CartView!Upserted(old, new), names)
BY DEF CartView!IsLines, CartView!Upserted

\* What a command makes of lines are lines; a new one has the name it is given.
LEMMA MadeLines ==
  ASSUME NEW lines, NEW names, CartView!IsLines(lines, names), NEW name,
         NEW m \in CartView!Command, m.do = "add" => name \in names,
         NEW new \in CartView!Made(lines, name, m)
  PROVE  CartView!IsLines(new, names)
<1>1. CASE m.do = "add"
  <2> DEFINE same == {i \in DOMAIN lines : lines[i].product = m.product}
  <2>1. m.product \in Products /\ new = CartView!OneMore(lines, name, m.product)
    BY <1>1 DEF CartView!Command, CartView!Made
  <2>2. CASE same = {}
    <3> DEFINE row == [i \in {name} |-> [product |-> m.product, quantity |-> 1]]
    <3>1. new = CartView!Upserted(lines, row)
      BY <2>1, <2>2 DEF CartView!OneMore
    <3>2. DOMAIN row \subseteq names /\ \A i \in DOMAIN row : row[i] \in CartView!Line
      BY <1>1, <2>1 DEF CartView!Line
    <3> QED BY <3>1, <3>2, UpsertedLines
  <2>3. CASE same # {}
    <3> DEFINE row == [i \in same |-> [lines[i] EXCEPT !.quantity = @ + 1]]
    <3>1. new = CartView!Upserted(lines, row)
      BY <2>1, <2>3 DEF CartView!OneMore
    <3>2. DOMAIN row \subseteq names
      BY DEF CartView!IsLines
    <3>3. ASSUME NEW i \in DOMAIN row PROVE row[i] \in CartView!Line
      <4>1. lines[i] \in CartView!Line
        BY DEF CartView!IsLines
      <4> QED BY <4>1 DEF CartView!Line
    <3> QED BY <3>1, <3>2, <3>3, UpsertedLines
  <2> QED BY <2>2, <2>3
<1>2. CASE m.do = "change"
  <2>1. m.quantity \in Nat /\ m.line \in DOMAIN lines
    BY <1>2, QuantitiesAssumption DEF CartView!Command, CartView!Made
  <2>2. new = [lines EXCEPT ![m.line].quantity = m.quantity]
    BY <1>2, <2>1 DEF CartView!Made
  <2>3. [lines[m.line] EXCEPT !.quantity = m.quantity] \in CartView!Line
    BY <2>1 DEF CartView!IsLines, CartView!Line
  <2> QED BY <2>1, <2>2, <2>3 DEF CartView!IsLines
<1>3. CASE m.do = "remove"
  <2>1. new = [i \in DOMAIN lines \ {m.line} |-> lines[i]]
    BY <1>3 DEF CartView!Made
  <2> QED BY <2>1 DEF CartView!IsLines
<1>4. m.do \in {"add", "change", "remove"}
  BY DEF CartView!Command
<1> QED BY <1>1, <1>2, <1>3, <1>4

LEMMA CopyFields ==
  \A z, x, y : z = [before |-> x, answer |-> y] => z.before = x /\ z.answer = y
OBVIOUS

LEMMA CartViewTouches ==
  ASSUME CartViewInv, NEW c \in DeskCalls["cartPage"], CartView!Touch(c)
  PROVE  CartViewInv'
<1> DEFINE C == DeskCalls["cartPage"]
<1>1. PICK m, lines :
        /\ m \in CartView!Command
        /\ lines \in CartView!Made(db.shown, IF m.do = "add" THEN m.product ELSE c, m)
        /\ CartView!Press(c, IF CartView!Local(m) THEN "ok" ELSE "sent", m,
                          [db EXCEPT !.shown = lines])
  BY DEF CartView!Touch
<1> DEFINE to == IF CartView!Local(m) THEN "ok" ELSE "sent"
           x == [before |-> db.shown, answer |-> CartView!NoCopy]
<1>2. /\ phase[c] = "idle" /\ phase' = [phase EXCEPT ![c] = to]
      /\ command' = [command EXCEPT ![c] = m]
      /\ db' = [db EXCEPT !.shown = lines]
      /\ copy' = [copy EXCEPT ![c] = x]
      /\ current' = (current \ CartView!At("sent")) \cup {c} /\ UNCHANGED faults
  BY <1>1 DEF CartView!Press, CartView!Go
<1>3. /\ CartView!TypeOK /\ db = [stored |-> db.stored, shown |-> db.shown]
      /\ CartView!IsLines(db.shown, CartView!LineNames) /\ CartView!IsLines(db.stored, CartView!Ids)
  BY DEF CartViewInv, CartView!TypeOK
<1>4. m.do = "add" => m.product \in CartView!LineNames
  BY <1>1 DEF CartView!Command, CartView!LineNames
<1>5. CartView!IsLines(lines, CartView!LineNames)
  BY <1>1, <1>3, <1>4, MadeLines
<1>6. db'.stored = db.stored /\ db'.shown = lines /\ db' = [stored |-> db.stored, shown |-> lines]
  BY <1>2, <1>3
<1>0. to \in {"ok", "sent"} /\ (CartView!Local(m) => to = "ok") /\ (~CartView!Local(m) => to = "sent")
  OBVIOUS
<1> HIDE DEF x, to
<1>7. CartView!TypeOK'
  BY <1>0, <1>1, <1>2, <1>3, <1>5, <1>6 DEF CartView!TypeOK, CartView!PageTypeOK, CartView!PagePhases,
     CartView!Over
<1>8. /\ phase'[c] = to /\ command'[c] = m /\ copy'[c] = x
      /\ \A d \in C \ {c} : phase'[d] = phase[d] /\ command'[d] = command[d] /\ copy'[d] = copy[d]
  BY <1>2, <1>3 DEF CartView!TypeOK, CartView!PageTypeOK
<1>9. ASSUME NEW d \in C PROVE CartViewCallInv(d)'
  <2>1. CartViewCallInv(d)
    BY DEF CartViewInv
  <2>2. CASE d # c
    <3>1. d \in current' => d \in current
      BY <1>2, <2>2
    <3> QED BY <1>6, <1>8, <2>1, <2>2, <3>1 DEF CartViewCallInv
  <2>3. CASE d = c
    <3>1. copy'[c] = x
      BY <1>8
    <3>2. copy'[c] = [before |-> db.shown, answer |-> CartView!NoCopy]
      BY <3>1 DEF x
    <3>3. copy'[c].before = db.shown /\ copy'[c].answer = CartView!NoCopy
      BY <3>2, CopyFields
    <3> QED BY <1>0, <1>1, <1>3, <1>8, <2>3, <3>2, <3>3 DEF CartViewCallInv
  <2> QED BY <2>2, <2>3
<1>10. CASE CartView!Local(m)
  <2>1. Pending = {} => db.shown # db.stored
    <3>1. m.do # "add" /\ m.line \in Products /\ m.line \in DOMAIN db.shown
      BY <1>1, <1>10 DEF CartView!Local, CartView!Made
    <3>2. m.line \notin CartView!Ids
      <4>1. "cartPage" \in Desks
        BY DEF Desks
      <4> QED BY <3>1, <4>1, ProductsAssumption, DeskCallsAssumption DEF CartView!Ids
    <3> QED BY <1>3, <3>1, <3>2 DEF CartView!IsLines
  <2>2. \A d \in C : phase'[d] \in {"sent", "served"} <=> phase[d] \in {"sent", "served"}
    BY <1>0, <1>2, <1>8, <1>10
  <2>3. Pending' = Pending
    BY <2>2 DEF Pending
  <2>4. \A d \in current' : d \in C => phase'[d] # "sent"
    BY <1>0, <1>2, <1>8, <1>10 DEF CartView!At
  <2>5. faults' = {} => CartIsShown'
    BY <1>2, <2>1, <2>3, <2>4 DEF CartViewInv, CartIsShown, Pending
  <2> QED BY <1>7, <1>9, <2>5 DEF CartViewInv
<1>11. CASE ~CartView!Local(m)
  <2>1. c \in Pending' /\ (Pending' = {c} => Pending = {})
    BY <1>0, <1>2, <1>8, <1>11 DEF Pending
  <2>2. \A d \in current' : d \in C /\ d # c => phase'[d] # "sent"
    BY <1>2, <1>8 DEF CartView!At
  <2>3. copy'[c].before = db.shown
    <3>1. copy'[c] = x
      BY <1>8
    <3>2. copy'[c] = [before |-> db.shown, answer |-> CartView!NoCopy]
      BY <3>1 DEF x
    <3> QED BY <3>2, CopyFields
  <2>4. faults' = {} => CartIsShown'
    BY <1>2, <1>6, <2>1, <2>2, <2>3 DEF CartViewInv, CartIsShown, Pending
  <2> QED BY <1>7, <1>9, <2>4 DEF CartViewInv
<1> QED BY <1>10, <1>11

LEMMA CartViewAnswers ==
  ASSUME CartViewInv, NEW c \in DeskCalls["cartPage"], CartView!Answer(c)
  PROVE  CartViewInv'
<1> DEFINE C == DeskCalls["cartPage"]
<1>1. PICK x \in CartView!Made(db.stored, c, command[c]) :
        \/ CartView!Serve(c, "sent", x, x, CartView!At("served"))
        \/ CartView!ServeLate(c, x, CartView!At("served"))
  BY DEF CartView!Answer
<1>2. phase[c] \in {"sent", "late"} /\ command[c] \in CartView!Command
  BY DEF CartView!Answer, CartViewInv, CartViewCallInv
<1>3. /\ CartView!TypeOK /\ db = [stored |-> db.stored, shown |-> db.shown]
      /\ CartView!IsLines(db.stored, CartView!Ids)
  BY DEF CartViewInv, CartView!TypeOK
<1>4. CartView!IsLines(x, CartView!Ids)
  BY <1>2, <1>3, MadeLines DEF CartView!Ids
<1>5. ASSUME CartView!Serve(c, "sent", x, x, CartView!At("served")) PROVE CartViewInv'
  <2>1. /\ phase[c] = "sent" /\ phase' = [phase EXCEPT ![c] = "served"]
        /\ db' = [db EXCEPT !.stored = x] /\ copy' = [copy EXCEPT ![c].answer = x]
        /\ current' = (current \ CartView!At("served")) \cup {c} /\ UNCHANGED <<command, faults>>
    BY <1>5 DEF CartView!Serve, CartView!Go
  <2>2. db'.stored = x /\ db'.shown = db.shown /\ db' = [stored |-> x, shown |-> db.shown]
    BY <1>3, <2>1
  <2>3. CartView!TypeOK'
    BY <1>3, <1>4, <2>1, <2>2 DEF CartView!TypeOK, CartView!PageTypeOK, CartView!PagePhases
  <2>4. CartViewCallInv(c) /\ copy[c] = [before |-> copy[c].before, answer |-> copy[c].answer]
    BY <2>1 DEF CartViewInv, CartViewCallInv
  <2>5. /\ phase'[c] = "served" /\ copy'[c] = [before |-> copy[c].before, answer |-> x]
        /\ \A d \in C \ {c} : phase'[d] = phase[d] /\ copy'[d] = copy[d]
    BY <1>3, <2>1, <2>4 DEF CartView!TypeOK, CartView!PageTypeOK
  <2>6. ASSUME NEW d \in C PROVE CartViewCallInv(d)'
    <3>1. CartViewCallInv(d)
      BY DEF CartViewInv
    <3>2. CASE d # c
      <4>1. d \in current' => d \in current /\ phase[d] # "served"
        BY <2>1, <3>2 DEF CartView!At
      <4> QED BY <2>1, <2>5, <3>1, <3>2, <4>1 DEF CartViewCallInv
    <3>3. CASE d = c
      <4>1. copy'[c].before = copy[c].before /\ copy'[c].answer = x
      BY <2>5, CopyFields
    <4> QED BY <1>2, <1>4, <2>1, <2>2, <2>4, <2>5, <3>3, <4>1 DEF CartViewCallInv
    <3> QED BY <3>2, <3>3
  <2>7. \A d \in C : phase'[d] \in {"sent", "served"} <=> phase[d] \in {"sent", "served"}
    BY <2>1, <2>5
  <2>8. Pending' = Pending /\ c \in Pending
    BY <2>1, <2>7 DEF Pending
  <2>9. CartIsShown'
    BY <2>5, <2>8 DEF CartIsShown
  <2> QED BY <2>3, <2>6, <2>9 DEF CartViewInv
<1>6. ASSUME CartView!ServeLate(c, x, CartView!At("served")) PROVE CartViewInv'
  <2>1. /\ phase[c] = "late" /\ phase' = [phase EXCEPT ![c] = "failed"]
        /\ command' = [command EXCEPT ![c] = CartView!NoCommand]
        /\ copy' = [copy EXCEPT ![c] = CartView!NoCopy]
        /\ db' = [db EXCEPT !.stored = x]
        /\ current' = current \ CartView!At("served") /\ faults' = faults \cup {"halfDone"}
    BY <1>6 DEF CartView!ServeLate, CartView!Go, CartView!Forget
  <2>2. db'.stored = x /\ db'.shown = db.shown /\ db' = [stored |-> x, shown |-> db.shown]
    BY <1>3, <2>1
  <2>3. CartView!TypeOK'
    BY <1>3, <1>4, <2>1, <2>2 DEF CartView!TypeOK, CartView!PageTypeOK, CartView!PagePhases,
       CartView!Over, CartView!Faults
  <2>4. /\ phase'[c] = "failed"
        /\ \A d \in C \ {c} : phase'[d] = phase[d] /\ copy'[d] = copy[d] /\ command'[d] = command[d]
    BY <1>3, <2>1 DEF CartView!TypeOK, CartView!PageTypeOK
  <2>5. \A d \in current' : d \in current /\ (d \in C => phase[d] # "served")
    BY <2>1 DEF CartView!At
  <2>6. \A d \in C : CartViewCallInv(d)'
    BY <2>4, <2>5 DEF CartViewInv, CartViewCallInv
  <2> QED BY <2>1, <2>3, <2>6 DEF CartViewInv
<1> QED BY <1>1, <1>5, <1>6

\* A handler goes on: what it shows is what is stored, or something went wrong.
LEMMA CartViewTurns ==
  ASSUME CartViewInv, NEW c \in DeskCalls["cartPage"],
         NEW from \in {"sent", "served"}, NEW to \in {"ok", "late", "failed"},
         NEW lines, CartView!IsLines(lines, CartView!LineNames), NEW wrong \in SUBSET CartView!Faults,
         CartView!Turn(c, from, to, [db EXCEPT !.shown = lines], wrong),
         to = "late" => from = "sent",
         wrong = {} /\ Pending \subseteq {c} => lines = db.stored
  PROVE  CartViewInv'
<1> DEFINE C == DeskCalls["cartPage"]
<1>1. /\ phase[c] = from /\ phase' = [phase EXCEPT ![c] = to]
      /\ db' = [db EXCEPT !.shown = lines] /\ faults' = wrong
      /\ current' \subseteq current \ CartView!At("sent")
      /\ command' = IF to # "late" THEN [command EXCEPT ![c] = CartView!NoCommand] ELSE command
      /\ copy' = [copy EXCEPT ![c] = CartView!NoCopy]
  BY DEF CartView!Turn, CartView!Go, CartView!Over
<1>2. CartView!TypeOK /\ db = [stored |-> db.stored, shown |-> db.shown] /\ CartViewCallInv(c)
  BY DEF CartViewInv, CartView!TypeOK
<1>3. db'.stored = db.stored /\ db'.shown = lines /\ db' = [stored |-> db.stored, shown |-> lines]
  BY <1>1, <1>2
<1>4. CartView!TypeOK'
  BY <1>1, <1>2, <1>3 DEF CartView!TypeOK, CartView!PageTypeOK, CartView!PagePhases, CartView!Over
<1>5. /\ phase'[c] = to /\ command'[c] = IF to # "late" THEN CartView!NoCommand ELSE command[c]
      /\ \A d \in C \ {c} : phase'[d] = phase[d] /\ command'[d] = command[d] /\ copy'[d] = copy[d]
  BY <1>1, <1>2 DEF CartView!TypeOK, CartView!PageTypeOK
<1>6. \A d \in C : CartViewCallInv(d)'
  BY <1>1, <1>2, <1>3, <1>5 DEF CartViewInv, CartViewCallInv
<1>7. Pending' = {} => Pending \subseteq {c}
  BY <1>5 DEF Pending
<1>8. \A d \in current' : d \in C => phase'[d] # "sent"
  BY <1>1, <1>5 DEF CartView!At
<1>9. faults' = {} => CartIsShown'
  BY <1>1, <1>3, <1>7, <1>8 DEF CartIsShown, Pending
<1> QED BY <1>4, <1>6, <1>9 DEF CartViewInv

LEMMA CartViewStep == CartViewInv /\ [CartView!Next]_(CartView!handlerVars) => CartViewInv'
<1> SUFFICES ASSUME CartViewInv, [CartView!Next]_(CartView!handlerVars) PROVE CartViewInv'
  OBVIOUS
<1> DEFINE C == DeskCalls["cartPage"]
<1>1. CASE UNCHANGED CartView!handlerVars
  BY <1>1 DEF CartView!handlerVars, CartViewInv, CartView!TypeOK, CartView!PageTypeOK,
     CartView!IsLines, CartViewCallInv, CartIsShown, Pending
<1>2. CartView!TypeOK /\ faults \subseteq CartView!Faults
  BY DEF CartViewInv, CartView!TypeOK, CartView!PageTypeOK
<1>3. ASSUME NEW c \in C, CartView!Show(c) PROVE CartViewInv'
  <2>1. CartView!Turn(c, "served", "ok", [db EXCEPT !.shown = copy[c].answer], CartView!Newest(c))
    BY <1>3 DEF CartView!Show
  <2>2. phase[c] = "served"
    BY <2>1 DEF CartView!Turn, CartView!Go
  <2>3. /\ CartView!IsLines(copy[c].answer, CartView!LineNames)
        /\ c \in current => copy[c].answer = db.stored
    BY <2>2 DEF CartViewInv, CartViewCallInv, CartView!IsLines, CartView!LineNames
  <2>4. /\ CartView!Newest(c) \in SUBSET CartView!Faults
        /\ CartView!Newest(c) = {} => copy[c].answer = db.stored
    BY <1>2, <2>3 DEF CartView!Newest, CartView!Faults
  <2> QED BY <2>1, <2>3, <2>4, CartViewTurns
<1>4. ASSUME NEW c \in C, CartView!Restore(c) PROVE CartViewInv'
  <2>1. PICK from \in {"sent", "served"} :
          CartView!Turn(c, from, IF from = "sent" THEN "late" ELSE "failed",
                        [db EXCEPT !.shown = copy[c].before], CartView!PutBack(c))
    BY <1>4 DEF CartView!Restore
  <2>2. phase[c] = from
    BY <2>1 DEF CartView!Turn, CartView!Go
  <2>3. CartView!IsLines(copy[c].before, CartView!LineNames) /\ c \in Pending
    BY <2>2 DEF CartViewInv, CartViewCallInv, Pending
  <2>4. /\ CartView!PutBack(c) \in SUBSET CartView!Faults
        /\ CartView!PutBack(c) = {} => faults = {} /\ from = "sent" /\ c \in current
    BY <1>2, <2>2 DEF CartView!PutBack, CartView!Faults
  <2>5. CartView!PutBack(c) = {} /\ Pending \subseteq {c} => copy[c].before = db.stored
    BY <2>2, <2>3, <2>4 DEF CartViewInv, CartIsShown
  <2> QED BY <2>1, <2>3, <2>4, <2>5, CartViewTurns
<1>5. ASSUME NEW c \in C, CartView!Never(c) PROVE CartViewInv'
  <2>1. /\ phase[c] = "late" /\ phase' = [phase EXCEPT ![c] = "failed"]
        /\ command' = [command EXCEPT ![c] = CartView!NoCommand]
        /\ copy' = [copy EXCEPT ![c] = CartView!NoCopy] /\ UNCHANGED <<db, current, faults>>
    BY <1>5 DEF CartView!Never, CartView!Go, CartView!Forget
  <2>2. CartView!TypeOK'
    BY <1>2, <2>1 DEF CartView!TypeOK, CartView!PageTypeOK, CartView!PagePhases, CartView!Over,
       CartView!IsLines
  <2>3. /\ phase'[c] = "failed"
        /\ \A d \in C \ {c} : phase'[d] = phase[d] /\ copy'[d] = copy[d] /\ command'[d] = command[d]
    BY <1>2, <2>1 DEF CartView!TypeOK, CartView!PageTypeOK
  <2>4. \A d \in C : CartViewCallInv(d)'
    BY <2>1, <2>3 DEF CartViewInv, CartViewCallInv
  <2>5. \A d \in C : phase'[d] \in {"sent", "served"} <=> phase[d] \in {"sent", "served"}
    BY <2>1, <2>3
  <2>6. Pending' = Pending
    BY <2>5 DEF Pending
  <2>7. faults' = {} => CartIsShown'
    BY <2>1, <2>3, <2>6 DEF CartViewInv, CartIsShown, Pending
  <2> QED BY <2>2, <2>4, <2>7 DEF CartViewInv
<1> QED BY <1>1, <1>3, <1>4, <1>5, CartViewTouches, CartViewAnswers DEF CartView!Next

LEMMA CartIsShownQuiet == CartViewInv => CartView!CartShown
<1> SUFFICES ASSUME CartViewInv, CartView!Quiet, faults = {} PROVE db.shown = db.stored
  BY DEF CartView!CartShown
<1>1. Pending = {}
  BY DEF Pending, CartView!Quiet, CartView!Running, CartView!Over
<1> QED BY <1>1 DEF CartViewInv, CartIsShown

-----------------------------------------------------------------------------
(* The page of a list. *)

\* The page will hear of what is stored, or has just read it.
WillKnow(c) ==
  \/ phase[c] \in {"served", "asked"}
  \/ phase[c] = "sent" /\ copy[c].answer # ListView!NoCopy
  \/ phase[c] = "listed" /\ c \in current

ListViewCallInv(c) ==
  /\ phase[c] \in {"sent", "late", "served", "asked", "listed"} => command[c] \in ListView!Command
  /\ phase[c] \in {"sent", "late", "served"} => command[c].do # "again"
  /\ phase[c] \in {"sent", "served", "asked", "listed"} =>
       copy[c] = [before |-> copy[c].before, answer |-> copy[c].answer]
  /\ phase[c] = "listed" => ListView!IsRows(copy[c].answer)
  /\ phase[c] = "listed" /\ c \in current => copy[c].answer = db.stored
  /\ phase[c] = "served" /\ ListView!Twice(command[c]) => copy[c].answer # ListView!NoCopy

ListIsShown ==
  \/ db.shown = db.stored
  \/ db.status # "ready"
  \/ \E c \in DeskCalls["listPage"] : WillKnow(c)

\* The tables of a page with what is stored now; the addresses are always ready.
IsListPage(t) ==
  /\ t = [list |-> t.list, stored |-> t.stored, shown |-> t.shown, status |-> t.status,
          busy |-> t.busy]
  /\ t.list = db.list /\ t.stored = db.stored /\ ListView!IsRows(t.shown)
  /\ t.status \in {"ready", "loading", "error"} /\ t.busy \subseteq ListView!Ids
  /\ t.list = "addresses" => t.status = "ready"

ListViewInv ==
  /\ ListView!TypeOK
  /\ IsListPage(db)
  /\ \A c \in DeskCalls["listPage"] : ListViewCallInv(c)
  /\ faults = {} => ListIsShown

LEMMA NoRows == DOMAIN ListView!NoCopy = {}
BY DEF ListView!NoCopy

LEMMA ListViewInit == ListView!Init => ListViewInv
<1> SUFFICES ASSUME ListView!Init PROVE ListViewInv
  OBVIOUS
<1>1. PICK list \in {"addresses", "cards"}, ids \in SUBSET Earlier : \E row \in Earlier :
        /\ ids # {} => row \in ids
        /\ LET rows == [i \in ids |-> [default |-> i = row, text |-> "old"]] IN
           db = [list |-> list, stored |-> rows, shown |-> rows, status |-> "ready", busy |-> {}]
  BY Zenon DEF ListView!Init
<1>0. PICK row \in Earlier :
        LET rows == [i \in ids |-> [default |-> i = row, text |-> "old"]] IN
        db = [list |-> list, stored |-> rows, shown |-> rows, status |-> "ready", busy |-> {}]
  BY <1>1, Zenon
<1> DEFINE rows == [i \in ids |-> [default |-> i = row, text |-> "old"]]
<1>2. ListView!IsRows(rows)
  BY <1>1 DEF ListView!IsRows, ListView!Ids, ListView!Row
<1>3. db = [list |-> list, stored |-> rows, shown |-> rows, status |-> "ready", busy |-> {}]
  BY <1>0, Zenon
<1> HIDE DEF rows
<1>4. ListView!TypeOK
  BY <1>1, <1>2, <1>3
     DEF ListView!Init, ListView!HandlerInit, ListView!TypeOK, ListView!PageTypeOK,
         ListView!PagePhases
<1>5. IsListPage(db)
  BY <1>1, <1>2, <1>3 DEF IsListPage
<1>6. \A c \in DeskCalls["listPage"] : phase[c] = "idle"
  BY DEF ListView!Init, ListView!HandlerInit
<1>7. \A c \in DeskCalls["listPage"] : ListViewCallInv(c)
  BY <1>6 DEF ListViewCallInv
<1>8. db.shown = db.stored
  BY <1>3
<1> QED BY <1>4, <1>5, <1>7, <1>8 DEF ListViewInv, ListIsShown

LEMMA MarkedRows ==
  ASSUME NEW rows, ListView!IsRows(rows), NEW row
  PROVE  ListView!IsRows(ListView!Marked(rows, row))
<1> DEFINE x == ListView!Marked(rows, row)
<1>1. DOMAIN x = DOMAIN rows /\ x = [i \in DOMAIN rows |-> [rows[i] EXCEPT !.default = (i = row)]]
  BY DEF ListView!Marked
<1>2. ASSUME NEW i \in DOMAIN rows PROVE [rows[i] EXCEPT !.default = (i = row)] \in ListView!Row
  <2>1. rows[i] \in ListView!Row
    BY DEF ListView!IsRows
  <2>2. (i = row) \in BOOLEAN
    OBVIOUS
  <2> HIDE DEF x
  <2> QED BY <2>1, <2>2 DEF ListView!Row
<1> QED BY <1>1, <1>2 DEF ListView!IsRows

\* What the gateway makes of rows are rows; those of an edited row are not none.
LEMMA MadeRows ==
  ASSUME NEW rows, ListView!IsRows(rows), NEW c \in DeskCalls["listPage"],
         NEW m \in ListView!Command, m.do # "again", NEW x \in ListView!Made(rows, c, m)
  PROVE  ListView!IsRows(x) /\ (m.do = "edit" => x # ListView!NoCopy)
<1>1. CASE m.do = "add"
  <2> DEFINE new == [i \in {c} |-> [default |-> FALSE, text |-> "new"]]
             all == ListView!Upserted(rows, new)
  <2>1. x \in {all, ListView!Marked(all, c)}
    BY <1>1 DEF ListView!Made
  <2>2. ListView!IsRows(all)
    <3>1. DOMAIN new = {c} /\ new[c] \in ListView!Row
      BY DEF ListView!Row
    <3> HIDE DEF new
    <3> QED BY <3>1 DEF ListView!IsRows, ListView!Upserted, ListView!Ids
  <2> HIDE DEF all
  <2> QED BY <1>1, <2>1, <2>2, MarkedRows
<1>2. CASE m.do = "edit"
  <2>1. m.row \in DOMAIN rows /\ x = [rows EXCEPT ![m.row].text = "new"]
    BY <1>2 DEF ListView!Made
  <2>2. rows[m.row] \in ListView!Row
    BY <2>1 DEF ListView!IsRows
  <2>3. [rows[m.row] EXCEPT !.text = "new"] \in ListView!Row
    BY <2>2 DEF ListView!Row
  <2>4. ListView!IsRows(x) /\ DOMAIN x # {}
    BY <2>1, <2>3 DEF ListView!IsRows
  <2> QED BY <2>4, NoRows
<1>3. CASE m.do = "choose"
  <2>1. x = ListView!Marked(rows, m.row)
    BY <1>3 DEF ListView!Made
  <2> QED BY <1>3, <2>1, MarkedRows
<1>4. CASE m.do = "remove"
  <2> DEFINE rest == [i \in DOMAIN rows \ {m.row} |-> rows[i]]
  <2>1. x = rest \/ \E i \in DOMAIN rest : x = ListView!Marked(rest, i)
    BY <1>4 DEF ListView!Made
  <2>2. ListView!IsRows(rest)
    BY DEF ListView!IsRows
  <2> HIDE DEF rest
  <2> QED BY <1>4, <2>1, <2>2, MarkedRows
<1>5. m.do \in {"add", "edit", "choose", "remove"}
  BY DEF ListView!Command
<1> QED BY <1>1, <1>2, <1>3, <1>4, <1>5

\* What the page is like after a step of its own.
LEMMA ListPages ==
  ASSUME ListViewInv
  PROVE  /\ \A m \in ListView!Command :
              /\ m.do \in {"choose", "remove"} =>
                   /\ IsListPage(ListView!Occupied(m.row))
                   /\ ListView!Occupied(m.row).shown = db.shown
                   /\ ListView!Occupied(m.row).status = db.status
              /\ IsListPage(ListView!Freed(m))
              /\ ListView!Freed(m).shown = db.shown /\ ListView!Freed(m).status = db.status
         /\ \A t : \A status \in {"ready", "loading", "error"} : IsListPage(t) =>
              /\ IsListPage(ListView!Status(t, status))
              /\ ListView!Status(t, status).shown = t.shown
              /\ ListView!Status(t, status).status = IF db.list = "cards" THEN status ELSE "ready"
         /\ \A t, rows : IsListPage(t) /\ ListView!IsRows(rows) =>
              /\ IsListPage([t EXCEPT !.shown = rows])
              /\ [t EXCEPT !.shown = rows].shown = rows
<1>1. IsListPage(db) /\ db.list \in {"addresses", "cards"}
  BY DEF ListViewInv, ListView!TypeOK
<1>2. ASSUME NEW m \in ListView!Command, m.do \in {"choose", "remove"}
      PROVE  /\ IsListPage(ListView!Occupied(m.row))
             /\ ListView!Occupied(m.row).shown = db.shown
             /\ ListView!Occupied(m.row).status = db.status
  <2>1. m.row \in ListView!Ids
    BY <1>2 DEF ListView!Command
  <2> DEFINE busy == IF db.list = "cards" THEN {m.row} ELSE db.busy \cup {m.row}
  <2>2. busy \subseteq ListView!Ids
    BY <1>1, <2>1 DEF IsListPage
  <2>3. ListView!Occupied(m.row) = [db EXCEPT !.busy = busy]
    BY DEF ListView!Occupied
  <2> HIDE DEF busy
  <2> QED BY <1>1, <2>2, <2>3 DEF IsListPage
<1>3. ASSUME NEW m \in ListView!Command
      PROVE  /\ IsListPage(ListView!Freed(m))
             /\ ListView!Freed(m).shown = db.shown /\ ListView!Freed(m).status = db.status
  <2> DEFINE busy == IF db.list = "cards" THEN {} ELSE db.busy \ {m.row}
  <2>1. busy \subseteq ListView!Ids
    BY <1>1 DEF IsListPage
  <2>2. ListView!Freed(m) = IF m.do \notin {"choose", "remove"} THEN db ELSE [db EXCEPT !.busy = busy]
    BY DEF ListView!Freed
  <2> HIDE DEF busy
  <2>3. CASE m.do \notin {"choose", "remove"}
    BY <1>1, <2>2, <2>3
  <2>4. CASE m.do \in {"choose", "remove"}
    BY <1>1, <2>1, <2>2, <2>4 DEF IsListPage
  <2> QED BY <2>3, <2>4
<1>4. ASSUME NEW t, NEW status \in {"ready", "loading", "error"}, IsListPage(t)
      PROVE  /\ IsListPage(ListView!Status(t, status))
             /\ ListView!Status(t, status).shown = t.shown
             /\ ListView!Status(t, status).status = IF db.list = "cards" THEN status ELSE "ready"
  <2> DEFINE s == IF db.list = "cards" THEN status ELSE "ready"
  <2>1. ListView!Status(t, status) = [t EXCEPT !.status = s]
    BY <1>1, <1>4 DEF ListView!Status, IsListPage
  <2>2. s \in {"ready", "loading", "error"} /\ (db.list = "addresses" => s = "ready")
    OBVIOUS
  <2> HIDE DEF s
  <2>3. [t EXCEPT !.status = s] = [list |-> t.list, stored |-> t.stored, shown |-> t.shown,
                                   status |-> s, busy |-> t.busy]
    BY <1>4 DEF IsListPage
  <2>4. IsListPage([t EXCEPT !.status = s]) /\ [t EXCEPT !.status = s].shown = t.shown
        /\ [t EXCEPT !.status = s].status = s
    BY <1>4, <2>2, <2>3 DEF IsListPage
  <2> QED BY <2>1, <2>4 DEF s
<1>5. ASSUME NEW t, NEW rows, IsListPage(t), ListView!IsRows(rows)
      PROVE  /\ IsListPage([t EXCEPT !.shown = rows])
             /\ [t EXCEPT !.shown = rows].shown = rows
  BY <1>5 DEF IsListPage
<1> QED BY <1>2, <1>3, <1>4, <1>5

\* A step of one call that leaves the others what they know.
LEMMA ListViewGoes ==
  ASSUME ListViewInv, NEW c \in DeskCalls["listPage"], ListView!TypeOK', IsListPage(db)',
         db'.list = db.list,
         \A d \in DeskCalls["listPage"] \ {c} :
           /\ phase'[d] = phase[d] /\ command'[d] = command[d] /\ copy'[d] = copy[d]
           /\ phase[d] = "listed" /\ d \in current' => d \in current /\ db'.stored = db.stored,
         ListViewCallInv(c)',
         faults' = {} =>
           \/ db'.shown = db'.stored
           \/ db'.status # "ready"
           \/ WillKnow(c)'
           \/ /\ faults = {} /\ ~WillKnow(c)
              /\ db'.stored = db.stored /\ db'.shown = db.shown /\ db'.status = db.status
              /\ \A d \in DeskCalls["listPage"] \ {c} :
                   phase[d] = "listed" /\ d \in current => d \in current'
  PROVE  ListViewInv'
<1> DEFINE C == DeskCalls["listPage"]
<1>1. ASSUME NEW d \in C PROVE ListViewCallInv(d)'
  <2>1. ListViewCallInv(d)
    BY DEF ListViewInv
  <2>2. CASE d # c
    BY <2>1, <2>2 DEF ListViewCallInv
  <2> QED BY <2>2
<1>2. ASSUME faults' = {} PROVE ListIsShown'
  <2>1. CASE db'.shown = db'.stored \/ db'.status # "ready" \/ WillKnow(c)'
    BY <2>1 DEF ListIsShown
  <2>2. CASE /\ faults = {} /\ ~WillKnow(c)
             /\ db'.stored = db.stored /\ db'.shown = db.shown /\ db'.status = db.status
             /\ \A d \in C \ {c} : phase[d] = "listed" /\ d \in current => d \in current'
    <3>1. \A d \in C \ {c} : WillKnow(d) => WillKnow(d)'
      BY <2>2 DEF WillKnow
    <3>2. ListIsShown
      BY <2>2 DEF ListViewInv
    <3> QED BY <2>2, <3>1, <3>2 DEF ListIsShown
  <2> QED BY <1>2, <2>1, <2>2
<1> QED BY <1>1, <1>2 DEF ListViewInv

\* A handler of the page begins.
LEMMA ListViewPresses ==
  ASSUME ListViewInv, NEW c \in DeskCalls["listPage"], NEW to \in {"sent", "asked"},
         NEW m \in ListView!Command, to = "sent" => m.do # "again",
         NEW t, IsListPage(t), t.shown = db.shown, to = "sent" => t.status = db.status,
         ListView!Press(c, to, m, t)
  PROVE  ListViewInv'
<1> DEFINE C == DeskCalls["listPage"]
           x == [before |-> db.shown, answer |-> ListView!NoCopy]
<1>1. /\ phase[c] = "idle" /\ phase' = [phase EXCEPT ![c] = to]
      /\ command' = [command EXCEPT ![c] = m] /\ db' = t /\ copy' = [copy EXCEPT ![c] = x]
      /\ current' = (current \ ListView!At("sent")) \cup {c} /\ UNCHANGED faults
  BY DEF ListView!Press, ListView!Go
<1>2. ListView!TypeOK /\ IsListPage(db)
  BY DEF ListViewInv
<1>3. x = [before |-> x.before, answer |-> x.answer]
  OBVIOUS
<1> HIDE DEF x
<1>4. IsListPage(db)' /\ db'.list = db.list /\ db'.stored = db.stored /\ db'.shown = db.shown
  BY <1>1 DEF IsListPage
<1>5. ListView!TypeOK'
  BY <1>1, <1>2, <1>4 DEF ListView!TypeOK, ListView!PageTypeOK, ListView!PagePhases, ListView!Over,
     IsListPage, ListView!IsRows
<1>6. /\ phase'[c] = to /\ command'[c] = m /\ copy'[c] = x
      /\ \A d \in C \ {c} : phase'[d] = phase[d] /\ command'[d] = command[d] /\ copy'[d] = copy[d]
  BY <1>1, <1>2 DEF ListView!TypeOK, ListView!PageTypeOK
<1>7. \A d \in C \ {c} : phase[d] = "listed" => (d \in current' <=> d \in current)
  BY <1>1 DEF ListView!At
<1>8. ListViewCallInv(c)'
  BY <1>3, <1>6 DEF ListViewCallInv
<1>9. ~WillKnow(c) /\ (to = "asked" => WillKnow(c)')
  BY <1>1, <1>6 DEF WillKnow
<1> QED BY <1>1, <1>4, <1>5, <1>6, <1>7, <1>8, <1>9, ListViewGoes

\* A handler of the page goes on.
LEMMA ListViewTurns ==
  ASSUME ListViewInv, NEW c \in DeskCalls["listPage"],
         NEW from \in {"sent", "served", "asked", "listed"},
         NEW to \in {"ok", "late", "failed", "asked"},
         NEW t, IsListPage(t), NEW wrong \in SUBSET ListView!Faults,
         ListView!Turn(c, from, to, t, wrong),
         to = "late" => from = "sent", to = "asked" => from = "served",
         wrong = {} =>
           \/ t.shown = db.stored \/ t.status # "ready" \/ to = "asked"
           \/ faults = {} /\ ~WillKnow(c) /\ t.shown = db.shown /\ t.status = db.status
  PROVE  ListViewInv'
<1> DEFINE C == DeskCalls["listPage"]
<1>1. /\ phase[c] = from /\ phase' = [phase EXCEPT ![c] = to] /\ db' = t /\ faults' = wrong
      /\ current' \subseteq current /\ current \ current' \subseteq ListView!At("sent") \cup {c}
      /\ command' = IF to \in {"ok", "failed"} THEN [command EXCEPT ![c] = ListView!NoCommand]
                    ELSE command
      /\ copy' = IF to = "asked" THEN copy ELSE [copy EXCEPT ![c] = ListView!NoCopy]
  BY DEF ListView!Turn, ListView!Go, ListView!Over
<1>2. ListView!TypeOK /\ IsListPage(db) /\ ListViewCallInv(c)
  BY DEF ListViewInv
<1>3. /\ IsListPage(db)' /\ db'.list = db.list /\ db'.stored = db.stored /\ db'.shown = t.shown
      /\ db'.status = t.status
  BY <1>1 DEF IsListPage
<1>4. ListView!TypeOK'
  BY <1>1, <1>2, <1>3 DEF ListView!TypeOK, ListView!PageTypeOK, ListView!PagePhases, ListView!Over,
     IsListPage, ListView!IsRows
<1>5. /\ phase'[c] = to /\ command'[c] = IF to \in {"ok", "failed"} THEN ListView!NoCommand ELSE command[c]
      /\ to = "asked" => copy'[c] = copy[c]
      /\ \A d \in C \ {c} : phase'[d] = phase[d] /\ command'[d] = command[d] /\ copy'[d] = copy[d]
  BY <1>1, <1>2 DEF ListView!TypeOK, ListView!PageTypeOK
<1>6. \A d \in C \ {c} : phase[d] = "listed" => (d \in current' <=> d \in current)
  BY <1>1 DEF ListView!At
<1>7. ListViewCallInv(c)'
  BY <1>1, <1>2, <1>5 DEF ListViewCallInv
<1>8. to = "asked" => WillKnow(c)'
  BY <1>5 DEF WillKnow
<1> QED BY <1>1, <1>3, <1>4, <1>5, <1>6, <1>7, <1>8, ListViewGoes

LEMMA ListViewAnswers ==
  ASSUME ListViewInv, NEW c \in DeskCalls["listPage"], ListView!Answer(c)
  PROVE  ListViewInv'
<1> DEFINE C == DeskCalls["listPage"]
<1>1. PICK x \in ListView!Made(db.stored, c, command[c]) :
        \/ ListView!Serve(c, "sent", x, x, ListView!At("listed"))
        \/ ListView!ServeLate(c, x, ListView!At("listed"))
  BY DEF ListView!Answer
<1>2. /\ phase[c] \in {"sent", "late"} /\ command[c] \in ListView!Command
      /\ command[c].do # "again"
  BY DEF ListView!Answer, ListViewInv, ListViewCallInv
<1>3. ListView!TypeOK /\ IsListPage(db) /\ ListView!IsRows(db.stored) /\ ListViewCallInv(c)
  BY DEF ListViewInv, ListView!TypeOK
<1>4. ListView!IsRows(x) /\ (command[c].do = "edit" => x # ListView!NoCopy)
  BY <1>2, <1>3, MadeRows
<1>5. ASSUME db' = [db EXCEPT !.stored = x]
      PROVE  /\ IsListPage(db)' /\ db'.list = db.list /\ db'.stored = x /\ db'.shown = db.shown
             /\ db'.status = db.status /\ db'.busy = db.busy
  BY <1>3, <1>5 DEF IsListPage
<1>6. ASSUME ListView!Serve(c, "sent", x, x, ListView!At("listed")) PROVE ListViewInv'
  <2>1. /\ phase[c] = "sent" /\ phase' = [phase EXCEPT ![c] = "served"]
        /\ db' = [db EXCEPT !.stored = x] /\ copy' = [copy EXCEPT ![c].answer = x]
        /\ current' = (current \ ListView!At("listed")) \cup {c} /\ UNCHANGED <<command, faults>>
    BY <1>6 DEF ListView!Serve, ListView!Go
  <2>2. ListView!TypeOK'
    BY <1>3, <1>4, <1>5, <2>1 DEF ListView!TypeOK, ListView!PageTypeOK, ListView!PagePhases
  <2>3. copy[c] = [before |-> copy[c].before, answer |-> copy[c].answer]
    BY <1>3, <2>1 DEF ListViewCallInv
  <2>4. /\ phase'[c] = "served" /\ copy'[c] = [before |-> copy[c].before, answer |-> x]
        /\ \A d \in C \ {c} : phase'[d] = phase[d] /\ copy'[d] = copy[d]
    BY <1>3, <2>1, <2>3 DEF ListView!TypeOK, ListView!PageTypeOK
  <2>5. copy'[c].before = copy[c].before /\ copy'[c].answer = x
    BY <2>4, CopyFields
  <2>6. ListViewCallInv(c)'
    BY <1>2, <1>4, <2>1, <2>4, <2>5 DEF ListViewCallInv, ListView!Twice
  <2>7. \A d \in C \ {c} : phase[d] = "listed" => d \notin current'
    BY <2>1 DEF ListView!At
  <2>8. WillKnow(c)'
    BY <2>4 DEF WillKnow
  <2> QED BY <1>5, <2>1, <2>2, <2>4, <2>6, <2>7, <2>8, ListViewGoes
<1>7. ASSUME ListView!ServeLate(c, x, ListView!At("listed")) PROVE ListViewInv'
  <2>1. /\ phase[c] = "late" /\ phase' = [phase EXCEPT ![c] = "failed"]
        /\ command' = [command EXCEPT ![c] = ListView!NoCommand]
        /\ copy' = [copy EXCEPT ![c] = ListView!NoCopy]
        /\ db' = [db EXCEPT !.stored = x]
        /\ current' = current \ ListView!At("listed") /\ faults' = faults \cup {"halfDone"}
    BY <1>7 DEF ListView!ServeLate, ListView!Go, ListView!Forget
  <2>2. ListView!TypeOK'
    BY <1>3, <1>4, <1>5, <2>1 DEF ListView!TypeOK, ListView!PageTypeOK, ListView!PagePhases,
       ListView!Over, ListView!Faults
  <2>3. /\ phase'[c] = "failed"
        /\ \A d \in C \ {c} : phase'[d] = phase[d] /\ copy'[d] = copy[d] /\ command'[d] = command[d]
    BY <1>3, <2>1 DEF ListView!TypeOK, ListView!PageTypeOK
  <2>4. ListViewCallInv(c)'
    BY <2>3 DEF ListViewCallInv
  <2>5. \A d \in C \ {c} : phase[d] = "listed" => d \notin current'
    BY <2>1 DEF ListView!At
  <2>6. faults' # {}
    BY <2>1
  <2> QED BY <1>5, <2>1, <2>2, <2>3, <2>4, <2>5, <2>6, ListViewGoes
<1> QED BY <1>1, <1>6, <1>7

\* The steps of a call at the gateway, and of one that nobody waits for.
LEMMA ListViewElsewhere ==
  ASSUME ListViewInv, NEW c \in DeskCalls["listPage"],
         ListView!SendDefault(c) \/ ListView!List(c) \/ ListView!Never(c)
  PROVE  ListViewInv'
<1> DEFINE C == DeskCalls["listPage"]
<1>1. ListView!TypeOK /\ IsListPage(db) /\ ListView!IsRows(db.stored) /\ ListViewCallInv(c)
  BY DEF ListViewInv, ListView!TypeOK
<1>2. ASSUME ListView!SendDefault(c) PROVE ListViewInv'
  <2> DEFINE m == [do |-> "choose", row |-> command[c].row]
  <2>1. /\ ListView!Twice(command[c]) /\ phase[c] = "served"
        /\ phase' = [phase EXCEPT ![c] = "sent"] /\ command' = [command EXCEPT ![c] = m]
        /\ UNCHANGED <<db, copy, current, faults>>
    BY <1>2 DEF ListView!SendDefault, ListView!Go
  <2>2. m \in ListView!Command /\ m.do # "again"
    BY <1>1, <2>1 DEF ListViewCallInv, ListView!Twice, ListView!Command
  <2> HIDE DEF m
  <2>3. ListView!TypeOK'
    BY <1>1, <2>1, <2>2 DEF ListView!TypeOK, ListView!PageTypeOK, ListView!PagePhases,
       ListView!IsRows
  <2>4. /\ phase'[c] = "sent" /\ command'[c] = m
        /\ \A d \in C \ {c} : phase'[d] = phase[d] /\ copy'[d] = copy[d] /\ command'[d] = command[d]
    BY <1>1, <2>1 DEF ListView!TypeOK, ListView!PageTypeOK
  <2>5. ListViewCallInv(c)' /\ WillKnow(c)'
    BY <1>1, <2>1, <2>2, <2>4 DEF ListViewCallInv, WillKnow
  <2>6. IsListPage(db)'
    BY <1>1, <2>1 DEF IsListPage
  <2> QED BY <2>1, <2>3, <2>4, <2>5, <2>6, ListViewGoes
<1>3. ASSUME ListView!List(c) PROVE ListViewInv'
  <2>1. /\ phase[c] = "asked" /\ phase' = [phase EXCEPT ![c] = "listed"]
        /\ copy' = [copy EXCEPT ![c].answer = db.stored] /\ current' = current \cup {c}
        /\ UNCHANGED <<db, command, faults>>
    BY <1>3 DEF ListView!List, ListView!Go
  <2>2. ListView!TypeOK'
    BY <1>1, <2>1 DEF ListView!TypeOK, ListView!PageTypeOK, ListView!PagePhases, ListView!IsRows
  <2>3. copy[c] = [before |-> copy[c].before, answer |-> copy[c].answer]
    BY <1>1, <2>1 DEF ListViewCallInv
  <2>4. /\ phase'[c] = "listed" /\ copy'[c] = [before |-> copy[c].before, answer |-> db.stored]
        /\ \A d \in C \ {c} : phase'[d] = phase[d] /\ copy'[d] = copy[d]
    BY <1>1, <2>1, <2>3 DEF ListView!TypeOK, ListView!PageTypeOK
  <2>5. copy'[c].before = copy[c].before /\ copy'[c].answer = db.stored
    <3>1. PICK x : x = db.stored
      OBVIOUS
    <3>2. copy'[c] = [before |-> copy[c].before, answer |-> x]
      BY <2>4, <3>1
    <3> QED BY <3>1, <3>2, CopyFields
  <2>6. ListViewCallInv(c)' /\ WillKnow(c)'
    BY <1>1, <2>1, <2>4, <2>5 DEF ListViewCallInv, WillKnow, ListView!IsRows
  <2>7. IsListPage(db)'
    BY <1>1, <2>1 DEF IsListPage
  <2> QED BY <2>1, <2>2, <2>4, <2>6, <2>7, ListViewGoes
<1>4. ASSUME ListView!Never(c) PROVE ListViewInv'
  <2>1. /\ phase[c] = "late" /\ phase' = [phase EXCEPT ![c] = "failed"]
        /\ command' = [command EXCEPT ![c] = ListView!NoCommand]
        /\ copy' = [copy EXCEPT ![c] = ListView!NoCopy] /\ UNCHANGED <<db, current, faults>>
    BY <1>4 DEF ListView!Never, ListView!Go, ListView!Forget
  <2>2. ListView!TypeOK'
    BY <1>1, <2>1 DEF ListView!TypeOK, ListView!PageTypeOK, ListView!PagePhases, ListView!Over,
       ListView!IsRows
  <2>3. /\ phase'[c] = "failed"
        /\ \A d \in C \ {c} : phase'[d] = phase[d] /\ copy'[d] = copy[d] /\ command'[d] = command[d]
    BY <1>1, <2>1 DEF ListView!TypeOK, ListView!PageTypeOK
  <2>4. ListViewCallInv(c)' /\ ~WillKnow(c)
    BY <2>1, <2>3 DEF ListViewCallInv, WillKnow
  <2>5. faults' = {} => \/ db'.shown = db'.stored \/ db'.status # "ready" \/ faults = {}
    BY <2>1
  <2>6. IsListPage(db)'
    BY <1>1, <2>1 DEF IsListPage
  <2> QED BY <2>1, <2>2, <2>3, <2>4, <2>5, <2>6, ListViewGoes
<1> QED BY <1>2, <1>3, <1>4

LEMMA ListViewStep == ListViewInv /\ [ListView!Next]_(ListView!handlerVars) => ListViewInv'
<1> SUFFICES ASSUME ListViewInv, [ListView!Next]_(ListView!handlerVars) PROVE ListViewInv'
  OBVIOUS
<1> DEFINE C == DeskCalls["listPage"]
<1>1. CASE UNCHANGED ListView!handlerVars
  BY <1>1 DEF ListView!handlerVars, ListViewInv, ListView!TypeOK, ListView!PageTypeOK, IsListPage,
     ListView!IsRows, ListViewCallInv, ListIsShown, WillKnow
<1>2. /\ ListView!TypeOK /\ IsListPage(db) /\ faults \subseteq ListView!Faults
      /\ db.list \in {"addresses", "cards"}
  BY DEF ListViewInv, ListView!TypeOK, ListView!PageTypeOK
<1>3. ASSUME NEW c \in C, ListView!Touch(c) PROVE ListViewInv'
  <2>1. PICK m \in ListView!Command \ [do : {"again"}] :
          ListView!Press(c, "sent", m,
                         IF m.do \in {"choose", "remove"} THEN ListView!Occupied(m.row) ELSE db)
    BY <1>3 DEF ListView!Touch
  <2>2. m \in ListView!Command /\ m.do # "again"
    BY DEF ListView!Command
  <2> DEFINE t == IF m.do \in {"choose", "remove"} THEN ListView!Occupied(m.row) ELSE db
  <2>3. IsListPage(t) /\ t.shown = db.shown /\ t.status = db.status
    BY <1>2, <2>2, ListPages
  <2>4. ListView!Press(c, "sent", m, t)
    BY <2>1
  <2> HIDE DEF t
  <2> QED BY <2>2, <2>3, <2>4, ListViewPresses
<1>4. ASSUME NEW c \in C, ListView!Retry(c) PROVE ListViewInv'
  <2> DEFINE t == ListView!Status(db, "loading")
             m == [do |-> "again"]
  <2>1. IsListPage(t) /\ t.shown = db.shown
    BY <1>2, ListPages
  <2>2. m \in ListView!Command
    BY DEF ListView!Command
  <2>3. ListView!Press(c, "asked", m, t)
    BY <1>4 DEF ListView!Retry
  <2> HIDE DEF t, m
  <2> QED BY <2>1, <2>2, <2>3, ListViewPresses
<1>5. ASSUME NEW c \in C, ListView!Reload(c) PROVE ListViewInv'
  <2> DEFINE t == ListView!Status(db, "loading")
  <2>1. IsListPage(t)
    BY <1>2, ListPages
  <2>2. ListView!Turn(c, "served", "asked", t, faults)
    BY <1>5 DEF ListView!Reload
  <2> HIDE DEF t
  <2> QED BY <1>2, <2>1, <2>2, ListViewTurns
<1>6. ASSUME NEW c \in C, ListView!ShowList(c) PROVE ListViewInv'
  <2> DEFINE s == [ListView!Freed(command[c]) EXCEPT !.shown = copy[c].answer]
             t == ListView!Status(s, "ready")
  <2>1. ListView!Turn(c, "listed", "ok", t, ListView!Newest(c))
    BY <1>6 DEF ListView!ShowList
  <2>2. phase[c] = "listed"
    BY <2>1 DEF ListView!Turn, ListView!Go
  <2>3. /\ command[c] \in ListView!Command /\ ListView!IsRows(copy[c].answer)
        /\ c \in current => copy[c].answer = db.stored
    BY <2>2 DEF ListViewInv, ListViewCallInv
  <2>4. IsListPage(ListView!Freed(command[c]))
    BY <2>3, ListPages
  <2>5. IsListPage(s) /\ s.shown = copy[c].answer
    BY <2>3, <2>4, ListPages
  <2> HIDE DEF s
  <2>6. IsListPage(t) /\ t.shown = copy[c].answer
    BY <2>5, ListPages
  <2> HIDE DEF t
  <2>7. /\ ListView!Newest(c) \in SUBSET ListView!Faults
        /\ ListView!Newest(c) = {} => t.shown = db.stored
    BY <1>2, <2>3, <2>6 DEF ListView!Newest, ListView!Faults
  <2> QED BY <2>1, <2>6, <2>7, ListViewTurns
<1>7. ASSUME NEW c \in C, ListView!NoList(c) PROVE ListViewInv'
  <2> DEFINE s == ListView!Freed(command[c])
             t == ListView!Status(s, "error")
             wrong == IF db.list = "cards" THEN faults ELSE faults \cup {"halfDone"}
  <2>1. PICK from \in {"asked", "listed"} : ListView!Turn(c, from, "failed", t, wrong)
    BY <1>7 DEF ListView!NoList
  <2>2. phase[c] = from
    BY <2>1 DEF ListView!Turn, ListView!Go
  <2>3. command[c] \in ListView!Command
    BY <2>2 DEF ListViewInv, ListViewCallInv
  <2>4. IsListPage(s)
    BY <2>3, ListPages
  <2> HIDE DEF s
  <2>5. IsListPage(t) /\ (db.list = "cards" => t.status = "error")
    BY <2>4, ListPages
  <2> HIDE DEF t
  <2>6. wrong \in SUBSET ListView!Faults /\ (wrong = {} => t.status # "ready")
    BY <1>2, <2>5 DEF ListView!Faults
  <2> HIDE DEF wrong
  <2> QED BY <2>1, <2>5, <2>6, ListViewTurns
<1>8. ASSUME NEW c \in C, ListView!Refuse(c) PROVE ListViewInv'
  <2> DEFINE t == ListView!Freed(command[c])
  <2>1. PICK from \in {"sent", "served"} :
          ListView!Turn(c, from, IF from = "sent" THEN "late" ELSE "failed", t,
             IF from = "served" \/ copy[c].answer # ListView!NoCopy THEN faults \cup {"halfDone"}
             ELSE faults)
    BY <1>8 DEF ListView!Refuse
  <2> DEFINE to == IF from = "sent" THEN "late" ELSE "failed"
             wrong == IF from = "served" \/ copy[c].answer # ListView!NoCopy
                      THEN faults \cup {"halfDone"} ELSE faults
  <2>2. phase[c] = from /\ to \in {"late", "failed"} /\ (to = "late" => from = "sent")
    BY <2>1 DEF ListView!Turn, ListView!Go
  <2>3. command[c] \in ListView!Command
    BY <2>2 DEF ListViewInv, ListViewCallInv
  <2>4. IsListPage(t) /\ t.shown = db.shown /\ t.status = db.status
    BY <2>3, ListPages
  <2>5. wrong \in SUBSET ListView!Faults /\ (wrong = {} => faults = {} /\ ~WillKnow(c))
    BY <1>2, <2>2 DEF ListView!Faults, WillKnow
  <2>6. ListView!Turn(c, from, to, t, wrong)
    BY <2>1
  <2> HIDE DEF t, to, wrong
  <2> QED BY <2>2, <2>4, <2>5, <2>6, ListViewTurns
<1> QED BY <1>1, <1>3, <1>4, <1>5, <1>6, <1>7, <1>8, ListViewAnswers, ListViewElsewhere
       DEF ListView!Next

LEMMA ListIsShownQuiet == ListViewInv => ListView!ListShown
<1> SUFFICES ASSUME ListViewInv, ListView!Quiet, db.status = "ready", faults = {}
             PROVE  db.shown = db.stored
  BY DEF ListView!ListShown
<1>1. \A c \in DeskCalls["listPage"] : ~WillKnow(c)
  BY DEF WillKnow, ListView!Quiet, ListView!Running, ListView!Over
<1> QED BY <1>1 DEF ListViewInv, ListIsShown

-----------------------------------------------------------------------------
(* The page of roles. *)

Toggles(c) == command[c].do = "toggle"

\* A toggle of role r that was sent, or was served last and not confirmed.
PendingToggle(c, r) ==
  /\ Toggles(c) /\ command[c].role = r
  /\ phase[c] = "sent" \/ (phase[c] = "served" /\ c \in current)

SameRole(f, g, i) == (i \in DOMAIN f <=> i \in DOMAIN g) /\ (i \in DOMAIN f => f[i] = g[i])

RolesViewCallInv(c) ==
  /\ phase[c] \in {"idle", "sent", "late"} => c \notin DOMAIN db.stored
  /\ phase[c] \in {"sent", "late", "served", "asked", "listed", "moved"} =>
       command[c] \in RolesView!Command
  /\ phase[c] \in {"sent", "late", "served"} => command[c].do # "go"
  /\ phase[c] \in {"sent", "served", "asked", "listed", "moved"} =>
       copy[c] = [before |-> copy[c].before, answer |-> copy[c].answer]
  /\ phase[c] \in {"sent", "served"} /\ Toggles(c) =>
       RolesView!IsRoles(copy[c].before) /\ command[c].role \in DOMAIN copy[c].before
  /\ phase[c] = "served" /\ Toggles(c) => copy[c].answer[command[c].role] \in SUBSET Cells
  /\ phase[c] = "served" /\ Toggles(c) /\ c \in current =>
       /\ command[c].role \in DOMAIN db.stored
       /\ copy[c].answer[command[c].role] = db.stored[command[c].role]
  /\ phase[c] = "listed" => RolesView!IsRoles(copy[c].answer)
  /\ phase[c] = "listed" /\ c \in current => copy[c].answer = db.stored

\* A role that nobody toggles is shown as it is stored; and the only toggle of a role, if
\* the page has not changed since, saw it as it is stored.
TogglesAreShown ==
  /\ \A r \in RolesView!Ids :
       (\A c \in DeskCalls["rolesPage"] : ~PendingToggle(c, r)) => SameRole(db.shown, db.stored, r)
  /\ \A c \in DeskCalls["rolesPage"] : c \in current /\ phase[c] = "sent" /\ Toggles(c) =>
       /\ \A i \in RolesView!Ids \ {command[c].role} : SameRole(db.shown, copy[c].before, i)
       /\ (\A d \in DeskCalls["rolesPage"] \ {c} : ~PendingToggle(d, command[c].role)) =>
            SameRole(copy[c].before, db.stored, command[c].role)

\* A call that makes the page load all roles again.
WillLoad(c) == phase[c] = "served" /\ RolesView!Loads(command[c])

RolesAreShown == (\E c \in DeskCalls["rolesPage"] : WillLoad(c)) \/ TogglesAreShown

RoleTables == UNION {[ids -> SUBSET Cells] : ids \in SUBSET RolesView!Ids}

\* The tables of a page with what is stored now.
IsRolesPage(t) ==
  t \in [stored : {db.stored}, shown : RoleTables, status : {"ready", "loading", "error"},
         role : RolesView!Ids \cup {None}, seen : RolesView!Ids \cup {None},
         busy : Cells \cup {None}, load : DeskCalls["rolesPage"] \cup {None},
         asking : SUBSET DeskCalls["rolesPage"]]

RolesViewInv ==
  /\ RolesView!TypeOK
  /\ IsRolesPage(db)
  /\ \A c \in DeskCalls["rolesPage"] : RolesViewCallInv(c)
  /\ faults = {} /\ db.status = "ready" => RolesAreShown

LEMMA Tables == \A x : x \in RoleTables <=> RolesView!IsRoles(x)
BY DEF RoleTables, RolesView!IsRoles

LEMMA RolesViewInit == RolesView!Init => RolesViewInv
<1> SUFFICES ASSUME RolesView!Init PROVE RolesViewInv
  OBVIOUS
<1>1. PICK r, ids, roles :
        /\ r \in Earlier /\ ids \in SUBSET Earlier /\ roles \in [ids -> SUBSET Cells]
        /\ db = [stored |-> roles, shown |-> roles, status |-> "ready", role |-> r,
                 seen |-> r, busy |-> None, load |-> None, asking |-> {}]
  BY DEF RolesView!Init
<1>2. RolesView!IsRoles(roles) /\ DOMAIN roles \subseteq Earlier /\ r \in RolesView!Ids
  BY <1>1 DEF RolesView!IsRoles, RolesView!Ids
<1>3. IsRolesPage(db) /\ db.stored = roles /\ db.shown = roles
  <2>1. roles \in RoleTables
    BY <1>2, Tables
  <2> QED BY <1>1, <1>2, <2>1 DEF IsRolesPage
<1>4. RolesView!TypeOK
  BY <1>1, <1>2
     DEF RolesView!Init, RolesView!HandlerInit, RolesView!TypeOK, RolesView!PageTypeOK,
         RolesView!PagePhases
<1>5. \A c \in DeskCalls["rolesPage"] : phase[c] = "idle" /\ c \notin Earlier
  <2>1. "rolesPage" \in Desks
    BY DEF Desks
  <2> QED BY <2>1, DeskCallsAssumption, EarlierAssumption DEF RolesView!Init, RolesView!HandlerInit
<1>6. \A c \in DeskCalls["rolesPage"] : RolesViewCallInv(c)
  BY <1>2, <1>3, <1>5 DEF RolesViewCallInv
<1>7. TogglesAreShown
  BY <1>3, <1>5 DEF TogglesAreShown, SameRole
<1> QED BY <1>3, <1>4, <1>6, <1>7 DEF RolesViewInv, RolesAreShown

\* What a command makes of roles are roles, and only a new one has the call's name.  A
\* toggle changes one role; a role is gone only when it is deleted.
LEMMA MadeRolesOfPage ==
  ASSUME NEW roles, RolesView!IsRoles(roles), NEW c \in DeskCalls["rolesPage"],
         NEW m \in RolesView!Command, NEW x \in RolesView!Made(roles, c, m)
  PROVE  /\ RolesView!IsRoles(x) /\ DOMAIN x \subseteq DOMAIN roles \cup {c}
         /\ m.do = "toggle" =>
              /\ m.role \in DOMAIN roles /\ DOMAIN x = DOMAIN roles
              /\ \A i \in DOMAIN roles \ {m.role} : x[i] = roles[i]
              /\ RolesView!Made(roles, c, m) = {x}
         /\ m.do # "toggle" =>
              \A i \in DOMAIN roles \ {c} :
                ~(m.do = "delete" /\ m.role = i) => i \in DOMAIN x /\ x[i] = roles[i]
<1>1. CASE m.do = "toggle"
  <2>1. m.role \in DOMAIN roles /\ m.cell \in Cells
    BY <1>1 DEF RolesView!Command, RolesView!Made
  <2> DEFINE y == RolesView!With(roles[m.role], m.cell, m.granted)
  <2>2. RolesView!Made(roles, c, m) = {[roles EXCEPT ![m.role] = y]}
    BY <1>1, <2>1 DEF RolesView!Made
  <2>3. y \in SUBSET Cells
    BY <2>1 DEF RolesView!With, RolesView!IsRoles
  <2> HIDE DEF y
  <2>4. x = [roles EXCEPT ![m.role] = y]
    BY <2>2
  <2> QED BY <1>1, <2>1, <2>2, <2>3, <2>4 DEF RolesView!IsRoles
<1>2. CASE m.do = "create"
  <2> DEFINE new == [i \in {c} |-> {}]
  <2>1. x = RolesView!Upserted(roles, new)
    BY <1>2 DEF RolesView!Made
  <2>2. DOMAIN new = {c} /\ new[c] \in SUBSET Cells
    OBVIOUS
  <2> HIDE DEF new
  <2> QED BY <1>2, <2>1, <2>2 DEF RolesView!Upserted, RolesView!IsRoles, RolesView!Ids
<1>3. CASE m.do = "duplicate"
  <2> DEFINE new == [i \in {c} |-> roles[m.role]]
  <2>1. x = RolesView!Upserted(roles, new) /\ m.role \in DOMAIN roles
    BY <1>3 DEF RolesView!Made
  <2>2. DOMAIN new = {c} /\ new[c] \in SUBSET Cells
    BY <2>1 DEF RolesView!IsRoles
  <2> HIDE DEF new
  <2> QED BY <1>3, <2>1, <2>2 DEF RolesView!Upserted, RolesView!IsRoles, RolesView!Ids
<1>4. CASE m.do = "delete"
  <2>1. x = [i \in DOMAIN roles \ {m.role} |-> roles[i]]
    BY <1>4 DEF RolesView!Made
  <2> QED BY <1>4, <2>1 DEF RolesView!IsRoles
<1>5. CASE m.do \in {"edit", "go"}
  <2>1. x = roles
    BY <1>5 DEF RolesView!Made
  <2> QED BY <1>5, <2>1
<1>6. m.do \in {"toggle", "create", "duplicate", "delete", "edit", "go"}
  BY DEF RolesView!Command
<1> QED BY <1>1, <1>2, <1>3, <1>4, <1>5, <1>6

LEMMA RolesPageTyped ==
  ASSUME RolesView!TypeOK, db'.stored = db.stored, IsRolesPage(db)',
         RolesView!PageTypeOK(RolesView!Command)'
  PROVE  RolesView!TypeOK'
<1>1. /\ db'.shown \in RoleTables /\ db'.status \in {"ready", "loading", "error"}
      /\ {db'.role, db'.seen} \subseteq RolesView!Ids \cup {None}
      /\ db'.busy \in Cells \cup {None}
      /\ db'.load \in DeskCalls["rolesPage"] \cup {None}
      /\ db'.asking \subseteq DeskCalls["rolesPage"]
  BY DEF IsRolesPage
<1>2. RolesView!IsRoles(db'.shown) /\ RolesView!IsRoles(db'.stored)
  BY <1>1, Tables DEF RolesView!TypeOK
<1>3. RolesView!IsRoles(db.shown)' /\ RolesView!IsRoles(db.stored)'
  BY <1>2 DEF RolesView!IsRoles
<1> QED BY <1>1, <1>3 DEF RolesView!TypeOK

\* A step of one call that leaves the others' copies as true as the page takes them to be.
LEMMA RolesViewGoes ==
  ASSUME RolesViewInv, NEW c \in DeskCalls["rolesPage"], RolesView!TypeOK', IsRolesPage(db)',
         DOMAIN db'.stored \subseteq DOMAIN db.stored \cup {c},
         \A d \in DeskCalls["rolesPage"] \ {c} :
           /\ phase'[d] = phase[d] /\ command'[d] = command[d] /\ copy'[d] = copy[d]
           /\ phase[d] = "listed" /\ d \in current' => d \in current /\ db'.stored = db.stored
           /\ phase[d] = "served" /\ Toggles(d) /\ d \in current' =>
                /\ d \in current
                /\ command[d].role \in DOMAIN db.stored =>
                     /\ command[d].role \in DOMAIN db'.stored
                     /\ db'.stored[command[d].role] = db.stored[command[d].role],
         RolesViewCallInv(c)',
         faults' = {} /\ db'.status = "ready" => RolesAreShown'
  PROVE  RolesViewInv'
<1>1. ASSUME NEW d \in DeskCalls["rolesPage"] PROVE RolesViewCallInv(d)'
  <2>1. RolesViewCallInv(d)
    BY DEF RolesViewInv
  <2>2. CASE d # c
    BY <2>1, <2>2 DEF RolesViewCallInv, Toggles
  <2> QED BY <2>2
<1> QED BY <1>1 DEF RolesViewInv

\* A step that shows and stores nothing new, of a call that is no toggle under way.
LEMMA RolesStayShown ==
  ASSUME RolesAreShown, NEW c \in DeskCalls["rolesPage"],
         db'.stored = db.stored, db'.shown = db.shown,
         \A d \in DeskCalls["rolesPage"] \ {c} :
           /\ phase'[d] = phase[d] /\ command'[d] = command[d] /\ copy'[d] = copy[d]
           /\ phase[d] = "served" => (d \in current' <=> d \in current)
           /\ phase[d] = "sent" /\ d \in current' => d \in current,
         \A r : ~PendingToggle(c, r) /\ ~PendingToggle(c, r)',
         ~WillLoad(c),
         ~(phase'[c] = "sent" /\ Toggles(c)')
  PROVE  RolesAreShown'
<1> DEFINE C == DeskCalls["rolesPage"]
<1>1. CASE \E d \in C : WillLoad(d)
  <2>1. PICK d \in C : WillLoad(d)
    BY <1>1
  <2>2. WillLoad(d)'
    BY <2>1 DEF WillLoad
  <2> QED BY <2>2 DEF RolesAreShown
<1>2. CASE TogglesAreShown
  <2>1. \A d \in C : \A r : PendingToggle(d, r)' <=> PendingToggle(d, r)
    BY DEF PendingToggle, Toggles
  <2>2. ASSUME NEW r \in RolesView!Ids, \A d \in C : ~PendingToggle(d, r)'
        PROVE  SameRole(db.shown, db.stored, r)'
    BY <1>2, <2>1, <2>2 DEF TogglesAreShown, SameRole
  <2>3. ASSUME NEW d \in C, d \in current', phase'[d] = "sent", Toggles(d)'
        PROVE  /\ \A i \in RolesView!Ids \ {command'[d].role} :
                    SameRole(db.shown, copy[d].before, i)'
               /\ (\A e \in C \ {d} : ~PendingToggle(e, command[d].role)') =>
                    SameRole(copy[d].before, db.stored, command[d].role)'
    <3>1. d # c /\ d \in current /\ phase[d] = "sent" /\ Toggles(d) /\ command'[d] = command[d]
      BY <2>3 DEF Toggles
    <3>2. copy'[d] = copy[d]
      BY <3>1
    <3>3. /\ \A i \in RolesView!Ids \ {command[d].role} : SameRole(db.shown, copy[d].before, i)
          /\ (\A e \in C \ {d} : ~PendingToggle(e, command[d].role)) =>
               SameRole(copy[d].before, db.stored, command[d].role)
      BY <1>2, <3>1 DEF TogglesAreShown
    <3>4. (\A e \in C \ {d} : ~PendingToggle(e, command[d].role)') =>
            (\A e \in C \ {d} : ~PendingToggle(e, command[d].role))
      BY <2>1, <3>1
    <3> QED BY <3>1, <3>2, <3>3, <3>4 DEF SameRole
  <2> QED BY <2>2, <2>3 DEF TogglesAreShown, RolesAreShown
<1> QED BY <1>1, <1>2 DEF RolesAreShown

\* A handler of the page begins: what is left to show is what is shown.
LEMMA RolesViewPresses ==
  ASSUME RolesViewInv, NEW c \in DeskCalls["rolesPage"], NEW to \in {"sent", "asked"},
         NEW m \in RolesView!Command, to = "sent" => m.do # "go",
         m.do = "toggle" => m.role \in DOMAIN db.shown,
         NEW t, IsRolesPage(t), RolesView!Press(c, to, m, t)
  PROVE  LET C == DeskCalls["rolesPage"] IN
         /\ phase[c] = "idle" /\ phase'[c] = to /\ command'[c] = m /\ copy'[c].before = db.shown
         /\ db' = t /\ db'.stored = db.stored /\ faults' = faults
         /\ \A d \in C \ {c} :
              /\ phase'[d] = phase[d] /\ command'[d] = command[d] /\ copy'[d] = copy[d]
              /\ phase[d] # "sent" => (d \in current' <=> d \in current)
              /\ phase[d] = "sent" => d \notin current'
         /\ (faults' = {} /\ db'.status = "ready" => RolesAreShown') => RolesViewInv'
<1> DEFINE C == DeskCalls["rolesPage"]
           x == [before |-> db.shown, answer |-> RolesView!NoCopy]
<1>1. /\ phase[c] = "idle" /\ phase' = [phase EXCEPT ![c] = to]
      /\ command' = [command EXCEPT ![c] = m] /\ db' = t /\ copy' = [copy EXCEPT ![c] = x]
      /\ current' = (current \ RolesView!At("sent")) \cup {c} /\ UNCHANGED faults
  BY DEF RolesView!Press, RolesView!Go
<1>2. RolesView!TypeOK /\ IsRolesPage(db) /\ RolesViewCallInv(c)
  BY DEF RolesViewInv
<1>3. x = [before |-> x.before, answer |-> x.answer] /\ x.before = db.shown
  OBVIOUS
<1> HIDE DEF x
<1>4. IsRolesPage(db)' /\ db'.stored = db.stored
  BY <1>1 DEF IsRolesPage
<1>5. RolesView!TypeOK'
  <2>1. RolesView!PageTypeOK(RolesView!Command)'
    BY <1>1, <1>2 DEF RolesView!TypeOK, RolesView!PageTypeOK, RolesView!PagePhases, RolesView!Over
  <2> QED BY <1>2, <1>4, <2>1, RolesPageTyped
<1>6. /\ phase'[c] = to /\ command'[c] = m /\ copy'[c] = x
      /\ \A d \in C \ {c} : phase'[d] = phase[d] /\ command'[d] = command[d] /\ copy'[d] = copy[d]
  BY <1>1, <1>2 DEF RolesView!TypeOK, RolesView!PageTypeOK
<1>7. \A d \in C \ {c} : /\ phase[d] # "sent" => (d \in current' <=> d \in current)
                         /\ phase[d] = "sent" => d \notin current'
  BY <1>1 DEF RolesView!At
<1>8. RolesViewCallInv(c)'
  <2>1. RolesView!IsRoles(db.shown)
    BY <1>2 DEF RolesView!TypeOK
  <2> QED BY <1>1, <1>2, <1>3, <1>4, <1>6, <2>1 DEF RolesViewCallInv, Toggles
<1>9. \A d \in C \ {c} : d \in current' => (phase[d] \in {"listed", "served"} => d \in current)
  BY <1>7
<1>10. (faults' = {} /\ db'.status = "ready" => RolesAreShown') => RolesViewInv'
  BY <1>4, <1>5, <1>6, <1>8, <1>9, RolesViewGoes
<1> QED BY <1>1, <1>3, <1>4, <1>6, <1>7, <1>10

\* A handler of the page goes on: what is left to show is what is shown.
LEMMA RolesViewTurns ==
  ASSUME RolesViewInv, NEW c \in DeskCalls["rolesPage"],
         NEW from \in {"sent", "served", "asked", "listed", "moved"},
         NEW to \in {"ok", "late", "failed", "asked", "moved"},
         NEW t, IsRolesPage(t), NEW wrong \in SUBSET RolesView!Faults,
         RolesView!Turn(c, from, to, t, wrong),
         to = "late" => from = "sent"
  PROVE  LET C == DeskCalls["rolesPage"] IN
         /\ phase[c] = from /\ phase'[c] = to
         /\ db' = t /\ db'.stored = db.stored /\ faults' = wrong
         /\ \A d \in C : d \in current' => phase'[d] # "sent"
         /\ \A d \in C \ {c} :
              /\ phase'[d] = phase[d] /\ command'[d] = command[d] /\ copy'[d] = copy[d]
              /\ phase[d] # "sent" => (d \in current' <=> d \in current)
         /\ (faults' = {} /\ db'.status = "ready" => RolesAreShown') => RolesViewInv'
<1> DEFINE C == DeskCalls["rolesPage"]
<1>1. /\ phase[c] = from /\ phase' = [phase EXCEPT ![c] = to] /\ db' = t /\ faults' = wrong
      /\ current' \subseteq current \ RolesView!At("sent")
      /\ current \ current' \subseteq RolesView!At("sent") \cup {c}
      /\ command' = IF to \in {"ok", "failed"} THEN [command EXCEPT ![c] = RolesView!NoCommand]
                    ELSE command
      /\ copy' = IF to \in {"asked", "moved"} THEN copy
                 ELSE [copy EXCEPT ![c] = RolesView!NoCopy]
  BY DEF RolesView!Turn, RolesView!Go, RolesView!Over
<1>2. RolesView!TypeOK /\ IsRolesPage(db) /\ RolesViewCallInv(c)
  BY DEF RolesViewInv
<1>3. IsRolesPage(db)' /\ db'.stored = db.stored
  BY <1>1 DEF IsRolesPage
<1>4. RolesView!TypeOK'
  <2>1. RolesView!PageTypeOK(RolesView!Command)'
    BY <1>1, <1>2 DEF RolesView!TypeOK, RolesView!PageTypeOK, RolesView!PagePhases, RolesView!Over
  <2> QED BY <1>2, <1>3, <2>1, RolesPageTyped
<1>5. /\ phase'[c] = to /\ command'[c] = IF to \in {"ok", "failed"} THEN RolesView!NoCommand ELSE command[c]
      /\ to \in {"asked", "moved"} => copy'[c] = copy[c]
      /\ \A d \in C \ {c} : phase'[d] = phase[d] /\ command'[d] = command[d] /\ copy'[d] = copy[d]
  BY <1>1, <1>2 DEF RolesView!TypeOK, RolesView!PageTypeOK
<1>6. /\ \A d \in C \ {c} : phase[d] # "sent" => (d \in current' <=> d \in current)
      /\ \A d \in C : d \in current' => phase'[d] # "sent" /\ d \in current
  BY <1>1, <1>5 DEF RolesView!At
<1>7. RolesViewCallInv(c)'
  BY <1>1, <1>2, <1>3, <1>5 DEF RolesViewCallInv
<1>8. (faults' = {} /\ db'.status = "ready" => RolesAreShown') => RolesViewInv'
  BY <1>3, <1>4, <1>5, <1>6, <1>7, RolesViewGoes
<1> QED BY <1>1, <1>3, <1>5, <1>6, <1>8

\* What the page has now.
LEMMA RolesPageNow ==
  ASSUME RolesViewInv
  PROVE  /\ RolesView!TypeOK /\ IsRolesPage(db) /\ faults \in SUBSET RolesView!Faults
         /\ RolesView!IsRoles(db.stored) /\ RolesView!IsRoles(db.shown)
         /\ db.status \in {"ready", "loading", "error"}
         /\ db.role \in RolesView!Ids \cup {None} /\ db.seen \in RolesView!Ids \cup {None}
         /\ db.busy \in Cells \cup {None}
         /\ db.load \in DeskCalls["rolesPage"] \cup {None}
         /\ db.asking \in SUBSET DeskCalls["rolesPage"]
         /\ db.shown \in RoleTables
BY Tables DEF RolesViewInv, RolesView!TypeOK, RolesView!PageTypeOK

LEMMA RolesViewToggles ==
  ASSUME RolesViewInv, NEW c \in DeskCalls["rolesPage"], RolesView!Toggle(c)
  PROVE  RolesViewInv'
<1> DEFINE C == DeskCalls["rolesPage"]
<1>1. PICK m, roles, seen :
        /\ m \in RolesView!Command /\ m.do = "toggle" /\ m.role \in DOMAIN db.shown
        /\ db.status = "ready"
        /\ roles \in RolesView!Made(db.shown, c, m) /\ seen \in RolesView!Selections(roles, db.role)
        /\ RolesView!Press(c, "sent", m, [db EXCEPT !.shown = roles, !.seen = seen, !.busy = m.cell])
  BY DEF RolesView!Toggle
<1> DEFINE t == [db EXCEPT !.shown = roles, !.seen = seen, !.busy = m.cell]
<1>2. /\ RolesView!IsRoles(roles) /\ m.role \in DOMAIN db.shown /\ DOMAIN roles = DOMAIN db.shown
      /\ \A i \in DOMAIN db.shown \ {m.role} : roles[i] = db.shown[i]
  <2>1. RolesView!IsRoles(db.shown)
    BY RolesPageNow
  <2>2. /\ m \in RolesView!Command /\ m.do = "toggle"
        /\ roles \in RolesView!Made(db.shown, c, m)
    BY <1>1
  <2> QED BY <2>1, <2>2, MadeRolesOfPage
<1>3. seen \in RolesView!Ids \cup {None} /\ m.cell \in Cells
  BY <1>1, <1>2 DEF RolesView!Selections, RolesView!IsRoles, RolesView!Command
<1>5. RolesView!Press(c, "sent", m, t)
  BY <1>1
<1>6. IsRolesPage(t) /\ t.shown = roles
  <2>1. roles \in RoleTables
    BY <1>2, Tables
  <2>2. IsRolesPage(db)
    BY RolesPageNow
  <2> QED BY <1>3, <2>1, <2>2 DEF IsRolesPage
<1> HIDE DEF t
<1>7. /\ phase[c] = "idle" /\ phase'[c] = "sent" /\ command'[c] = m /\ copy'[c].before = db.shown
      /\ db' = t /\ db'.stored = db.stored /\ faults' = faults
      /\ \A d \in C \ {c} :
           /\ phase'[d] = phase[d] /\ command'[d] = command[d] /\ copy'[d] = copy[d]
           /\ phase[d] # "sent" => (d \in current' <=> d \in current)
           /\ phase[d] = "sent" => d \notin current'
      /\ (faults' = {} /\ db'.status = "ready" => RolesAreShown') => RolesViewInv'
  BY <1>1, <1>5, <1>6, RolesViewPresses
<1>8. ASSUME faults' = {} PROVE RolesAreShown'
  <2>1. RolesAreShown
    BY <1>1, <1>7, <1>8 DEF RolesViewInv
  <2>2. CASE \E d \in C : WillLoad(d)
    <3>1. PICK d \in C : WillLoad(d)
      BY <2>2
    <3>2. WillLoad(d)'
      BY <1>7, <3>1 DEF WillLoad
    <3> QED BY <3>2 DEF RolesAreShown
  <2>3. CASE TogglesAreShown
    <3>1. \A d \in C \ {c} : \A r : PendingToggle(d, r)' <=> PendingToggle(d, r)
      BY <1>7 DEF PendingToggle, Toggles
    <3>2. /\ \A r : ~PendingToggle(c, r)
          /\ \A r : PendingToggle(c, r)' <=> r = m.role
      BY <1>1, <1>7 DEF PendingToggle, Toggles
    <3>3. \A i \in RolesView!Ids \ {m.role} : SameRole(db'.shown, db.shown, i)
      BY <1>2, <1>6, <1>7 DEF SameRole
    <3>4. ASSUME NEW r \in RolesView!Ids, \A d \in C : ~PendingToggle(d, r)'
          PROVE  SameRole(db.shown, db.stored, r)'
      <4>1. r # m.role /\ \A d \in C : ~PendingToggle(d, r)
        BY <3>1, <3>2, <3>4
      <4>2. SameRole(db.shown, db.stored, r) /\ SameRole(db'.shown, db.shown, r)
        BY <2>3, <3>3, <4>1 DEF TogglesAreShown
      <4> QED BY <1>7, <4>2 DEF SameRole
    <3>5. ASSUME NEW d \in C, d \in current', phase'[d] = "sent", Toggles(d)'
          PROVE  /\ \A i \in RolesView!Ids \ {command'[d].role} :
                      SameRole(db.shown, copy[d].before, i)'
                 /\ (\A e \in C \ {d} : ~PendingToggle(e, command[d].role)') =>
                      SameRole(copy[d].before, db.stored, command[d].role)'
      <4>1. d = c /\ copy'[d].before = db.shown /\ command'[d] = m
        BY <1>7, <3>5
      <4>2. m.role \in RolesView!Ids
        BY <1>1, RolesPageNow DEF RolesView!IsRoles
      <4>3. (\A e \in C \ {c} : ~PendingToggle(e, m.role)) => SameRole(db.shown, db.stored, m.role)
        BY <2>3, <3>2, <4>2 DEF TogglesAreShown
      <4> QED BY <1>7, <3>1, <3>3, <4>1, <4>3 DEF SameRole
    <3> QED BY <3>4, <3>5 DEF TogglesAreShown, RolesAreShown
  <2> QED BY <2>1, <2>2, <2>3 DEF RolesAreShown
<1> QED BY <1>7, <1>8

LEMMA RolesViewAsks ==
  ASSUME RolesViewInv, NEW c \in DeskCalls["rolesPage"], RolesView!Ask(c)
  PROVE  RolesViewInv'
<1> DEFINE C == DeskCalls["rolesPage"]
           t == [db EXCEPT !.asking = db.asking \cup {c}]
<1>1. PICK m \in RolesView!Command :
        /\ m.do \in {"edit", "delete", "duplicate", "create"}
        /\ RolesView!Press(c, "sent", m, t)
  BY DEF RolesView!Ask
<1>3. db.asking \cup {c} \in SUBSET C
  BY RolesPageNow
<1>4. IsRolesPage(t) /\ t.shown = db.shown /\ t.status = db.status
  BY <1>3, RolesPageNow DEF IsRolesPage
<1> HIDE DEF t
<1>5. /\ phase[c] = "idle" /\ phase'[c] = "sent" /\ command'[c] = m
      /\ db' = t /\ db'.stored = db.stored /\ faults' = faults
      /\ \A d \in C \ {c} :
           /\ phase'[d] = phase[d] /\ command'[d] = command[d] /\ copy'[d] = copy[d]
           /\ phase[d] # "sent" => (d \in current' <=> d \in current)
           /\ phase[d] = "sent" => d \notin current'
      /\ (faults' = {} /\ db'.status = "ready" => RolesAreShown') => RolesViewInv'
  BY <1>1, <1>4, RolesViewPresses
<1>6. ASSUME faults' = {}, db'.status = "ready" PROVE RolesAreShown'
  <2>1. RolesAreShown
    BY <1>4, <1>5, <1>6 DEF RolesViewInv
  <2>2. /\ \A r : ~PendingToggle(c, r) /\ ~PendingToggle(c, r)'
        /\ ~WillLoad(c) /\ ~(phase'[c] = "sent" /\ Toggles(c)')
    BY <1>1, <1>5 DEF PendingToggle, Toggles, WillLoad
  <2> QED BY <1>4, <1>5, <2>1, <2>2, RolesStayShown
<1> QED BY <1>5, <1>6

\* The effect runs: the page loads.
LEMMA LoadingPage ==
  ASSUME RolesViewInv, NEW c \in DeskCalls["rolesPage"], NEW role \in RolesView!Ids \cup {None}
  PROVE  IsRolesPage(RolesView!Loading(c, role)) /\ RolesView!Loading(c, role).status = "loading"
<1> DEFINE asking == {d \in db.asking \ {c} : command[d].do \in {"delete", "duplicate"}}
           t == [db EXCEPT !.status = "loading", !.role = role, !.seen = None, !.load = c,
                           !.asking = asking]
<1>1. RolesView!Loading(c, role) = t
  BY DEF RolesView!Loading
<1>2. asking \in SUBSET DeskCalls["rolesPage"]
  BY RolesPageNow
<1> HIDE DEF asking
<1>3. IsRolesPage(t) /\ t.status = "loading"
  <2>1. IsRolesPage(db) /\ None \in RolesView!Ids \cup {None}
    BY RolesPageNow
  <2>2. c \in DeskCalls["rolesPage"] \cup {None}
    OBVIOUS
  <2> QED BY <1>2, <2>1, <2>2 DEF IsRolesPage
<1> QED BY <1>1, <1>3

LEMMA RolesViewLoads ==
  ASSUME RolesViewInv, NEW c \in DeskCalls["rolesPage"],
         RolesView!Visit(c) \/ RolesView!Reload(c) \/ RolesView!Moved(c)
  PROVE  RolesViewInv'
<1>1. ASSUME RolesView!Visit(c) PROVE RolesViewInv'
  <2>1. PICK m \in RolesView!Command :
          m.do = "go" /\ RolesView!Press(c, "asked", m, RolesView!Loading(c, m.role))
    BY <1>1 DEF RolesView!Visit
  <2>2. m.role \in RolesView!Ids
    BY <2>1 DEF RolesView!Command
  <2> DEFINE t == RolesView!Loading(c, m.role)
  <2>3. IsRolesPage(t) /\ t.status = "loading"
    BY <2>2, LoadingPage
  <2>4. RolesView!Press(c, "asked", m, t)
    BY <2>1
  <2> HIDE DEF t
  <2>5. db' = t /\ ((faults' = {} /\ db'.status = "ready" => RolesAreShown') => RolesViewInv')
    BY <2>1, <2>3, <2>4, RolesViewPresses
  <2> QED BY <2>3, <2>5
<1>2. ASSUME RolesView!Reload(c) PROVE RolesViewInv'
  <2> DEFINE role == RolesView!Selected(c, command[c])
             t == RolesView!Loading(c, role)
  <2>1. RolesView!Turn(c, "served", "asked", t, faults)
    BY <1>2 DEF RolesView!Reload
  <2>2. role \in RolesView!Ids \cup {None}
    BY RolesPageNow DEF RolesView!Selected, RolesView!Ids
  <2> HIDE DEF role
  <2>3. IsRolesPage(t) /\ t.status = "loading"
    BY <2>2, LoadingPage
  <2> HIDE DEF t
  <2>4. db' = t /\ ((faults' = {} /\ db'.status = "ready" => RolesAreShown') => RolesViewInv')
    BY <2>1, <2>3, RolesPageNow, RolesViewTurns
  <2> QED BY <2>3, <2>4
<1>3. ASSUME RolesView!Moved(c) PROVE RolesViewInv'
  <2> DEFINE t == RolesView!Loading(c, db.role)
  <2>1. RolesView!Turn(c, "moved", "asked", t, faults)
    BY <1>3 DEF RolesView!Moved
  <2>2. IsRolesPage(t) /\ t.status = "loading"
    BY RolesPageNow, LoadingPage
  <2> HIDE DEF t
  <2>3. db' = t /\ ((faults' = {} /\ db'.status = "ready" => RolesAreShown') => RolesViewInv')
    BY <2>1, <2>2, RolesPageNow, RolesViewTurns
  <2> QED BY <2>2, <2>3
<1> QED BY <1>1, <1>2, <1>3

LEMMA RolesViewShows ==
  ASSUME RolesViewInv, NEW c \in DeskCalls["rolesPage"], RolesView!ShowList(c)
  PROVE  RolesViewInv'
<1> DEFINE C == DeskCalls["rolesPage"]
           list == copy[c].answer
<1>1. PICK seen \in RolesView!Selections(list, db.role) :
        RolesView!Turn(c, "listed", IF seen \in {db.role, None} THEN "ok" ELSE "moved",
            [db EXCEPT !.shown = list, !.status = "ready", !.seen = seen, !.load = None,
                       !.role = IF seen = None THEN @ ELSE seen],
            RolesView!Newest(c))
  BY DEF RolesView!ShowList
<1>2. phase[c] = "listed"
  BY DEF RolesView!ShowList
<1>3. RolesView!IsRoles(list) /\ (c \in current => list = db.stored)
  BY <1>2 DEF RolesViewInv, RolesViewCallInv
<1>4. seen \in RolesView!Ids \cup {None}
  BY <1>3 DEF RolesView!Selections, RolesView!IsRoles
<1> DEFINE to == IF seen \in {db.role, None} THEN "ok" ELSE "moved"
           role == IF seen = None THEN db.role ELSE seen
           t == [db EXCEPT !.shown = list, !.status = "ready", !.seen = seen, !.load = None,
                           !.role = role]
<1>6. /\ role \in RolesView!Ids \cup {None} /\ to \in {"ok", "moved"}
      /\ RolesView!Turn(c, "listed", to, t, RolesView!Newest(c))
  BY <1>1, <1>4, RolesPageNow
<1> HIDE DEF role, to, list
<1>7. IsRolesPage(t) /\ t.shown = list
  <2>1. list \in RoleTables
    BY <1>3, Tables
  <2>2. IsRolesPage(db) /\ None \in C \cup {None} /\ role \in RolesView!Ids \cup {None}
    BY <1>6, RolesPageNow
  <2> QED BY <1>4, <2>1, <2>2 DEF IsRolesPage
<1> HIDE DEF t
<1>8. /\ RolesView!Newest(c) \in SUBSET RolesView!Faults
      /\ RolesView!Newest(c) = {} => c \in current
  BY RolesPageNow DEF RolesView!Newest, RolesView!Faults
<1>9. /\ db' = t /\ db'.stored = db.stored /\ faults' = RolesView!Newest(c)
      /\ \A d \in C : d \in current' => phase'[d] # "sent"
      /\ (faults' = {} /\ db'.status = "ready" => RolesAreShown') => RolesViewInv'
  <2>1. "listed" \in {"sent", "served", "asked", "listed", "moved"} /\ IsRolesPage(t)
        /\ to \in {"ok", "late", "failed", "asked", "moved"} /\ to # "late"
        /\ RolesView!Newest(c) \in SUBSET RolesView!Faults
        /\ RolesView!Turn(c, "listed", to, t, RolesView!Newest(c))
    BY <1>6, <1>7, <1>8
  <2> QED BY <2>1, RolesViewTurns
<1>10. faults' = {} => db'.shown = db'.stored
  BY <1>3, <1>7, <1>8, <1>9
<1>11. faults' = {} => RolesAreShown'
  BY <1>9, <1>10 DEF RolesAreShown, TogglesAreShown, SameRole
<1> QED BY <1>9, <1>11

\* The roles that are stored once a request is served.
LEMMA RolesViewAnswers ==
  ASSUME RolesViewInv, NEW c \in DeskCalls["rolesPage"], RolesView!Answer(c)
  PROVE  RolesViewInv'
<1> DEFINE C == DeskCalls["rolesPage"]
           m == command[c]
<1>1. PICK x \in RolesView!Made(db.stored, c, m) :
        \/ RolesView!Serve(c, "sent", x,
                           IF m.do = "toggle" THEN [i \in {m.role} |-> x[i]] ELSE RolesView!NoCopy,
                           RolesView!Stale(c))
        \/ RolesView!ServeLate(c, x, RolesView!Stale(c))
  BY DEF RolesView!Answer
<1>2. phase[c] \in {"sent", "late"} /\ RolesViewCallInv(c)
  BY DEF RolesView!Answer, RolesViewInv
<1>3. m \in RolesView!Command /\ m.do # "go" /\ c \notin DOMAIN db.stored
  BY <1>2 DEF RolesViewCallInv
<1>4. /\ RolesView!TypeOK /\ IsRolesPage(db) /\ RolesView!IsRoles(db.stored)
      /\ faults \subseteq RolesView!Faults
  BY RolesPageNow
<1>5. /\ RolesView!IsRoles(x) /\ DOMAIN x \subseteq DOMAIN db.stored \cup {c}
      /\ m.do = "toggle" =>
           /\ m.role \in DOMAIN db.stored /\ DOMAIN x = DOMAIN db.stored
           /\ \A i \in DOMAIN db.stored \ {m.role} : x[i] = db.stored[i]
      /\ m.do # "toggle" =>
           \A i \in DOMAIN db.stored \ {c} :
             ~(m.do = "delete" /\ m.role = i) => i \in DOMAIN x /\ x[i] = db.stored[i]
  BY <1>1, <1>3, <1>4, MadeRolesOfPage
<1>6. ASSUME db' = [db EXCEPT !.stored = x]
      PROVE  /\ IsRolesPage(db)' /\ db'.stored = x /\ db'.shown = db.shown
             /\ db'.status = db.status /\ db'.load = db.load
             /\ RolesView!IsRoles(db.shown)' /\ RolesView!IsRoles(db.stored)'
  <2>1. IsRolesPage(db)' /\ db'.stored = x /\ db'.shown = db.shown
        /\ db'.status = db.status /\ db'.load = db.load
    BY <1>4, <1>6 DEF IsRolesPage
  <2> QED BY <1>4, <1>5, <2>1 DEF RolesView!TypeOK, RolesView!IsRoles
<1>7. ASSUME NEW d \in C \ {c}, phase[d] = "served", Toggles(d), d \in current,
             d \notin RolesView!Stale(c)
      PROVE  command[d].role \in DOMAIN x /\ x[command[d].role] = db.stored[command[d].role]
  <2>1. command[d].role \in DOMAIN db.stored
    BY <1>7 DEF RolesViewInv, RolesViewCallInv
  <2>2. m.do \in {"toggle", "delete"} => command[d].role # m.role
    BY <1>7 DEF RolesView!Stale, RolesView!At, RolesView!Toggled, Toggles
  <2> QED BY <1>3, <1>5, <2>1, <2>2
<1>8. ASSUME NEW d \in C, phase[d] = "listed" PROVE d \in RolesView!Stale(c)
  BY <1>8 DEF RolesView!Stale, RolesView!At
<1>9. ASSUME RolesView!Serve(c, "sent", x,
               IF m.do = "toggle" THEN [i \in {m.role} |-> x[i]] ELSE RolesView!NoCopy,
               RolesView!Stale(c))
      PROVE  RolesViewInv'
  <2> DEFINE answer == IF m.do = "toggle" THEN [i \in {m.role} |-> x[i]] ELSE RolesView!NoCopy
  <2>1. /\ phase[c] = "sent" /\ phase' = [phase EXCEPT ![c] = "served"]
        /\ db' = [db EXCEPT !.stored = x] /\ copy' = [copy EXCEPT ![c].answer = answer]
        /\ current' = (current \ RolesView!Stale(c)) \cup {c} /\ UNCHANGED <<command, faults>>
    BY <1>9 DEF RolesView!Serve, RolesView!Go
  <2>2. m.do = "toggle" => answer[m.role] = x[m.role]
    OBVIOUS
  <2> HIDE DEF answer
  <2>3. RolesView!TypeOK'
    <3>1. RolesView!PageTypeOK(RolesView!Command)'
      BY <1>4, <2>1 DEF RolesView!TypeOK, RolesView!PageTypeOK, RolesView!PagePhases
    <3> QED BY <1>4, <1>6, <2>1, <3>1 DEF RolesView!TypeOK
  <2>4. copy[c] = [before |-> copy[c].before, answer |-> copy[c].answer]
    BY <1>2, <2>1 DEF RolesViewCallInv
  <2>5. /\ phase'[c] = "served" /\ copy'[c] = [before |-> copy[c].before, answer |-> answer]
        /\ \A d \in C \ {c} : phase'[d] = phase[d] /\ copy'[d] = copy[d]
    BY <1>4, <2>1, <2>4 DEF RolesView!TypeOK, RolesView!PageTypeOK
  <2>6. copy'[c].before = copy[c].before /\ copy'[c].answer = answer
    BY <2>5, CopyFields
  <2>7. RolesViewCallInv(c)'
    <3>1. m.do = "toggle" => m.role \in DOMAIN x /\ x[m.role] \in SUBSET Cells
      BY <1>5 DEF RolesView!IsRoles
    <3> QED BY <1>2, <1>3, <1>6, <2>1, <2>2, <2>5, <2>6, <3>1 DEF RolesViewCallInv, Toggles
  <2>8. \A d \in C \ {c} : d \in current' <=> d \in current /\ d \notin RolesView!Stale(c)
    BY <2>1
  <2>9. ASSUME faults' = {}, db'.status = "ready" PROVE RolesAreShown'
    <3>1. CASE m.do # "toggle"
      <4>1. WillLoad(c)'
        BY <1>3, <2>1, <2>5, <3>1 DEF WillLoad, RolesView!Loads, RolesView!Command
      <4> QED BY <4>1 DEF RolesAreShown
    <3>2. CASE m.do = "toggle"
      <4>1. RolesAreShown
        BY <1>6, <2>1, <2>9 DEF RolesViewInv
      <4>2. CASE \E d \in C : WillLoad(d)
        <5>1. PICK d \in C : WillLoad(d)
          BY <4>2
        <5>2. WillLoad(d)'
          BY <2>1, <2>5, <5>1 DEF WillLoad
        <5> QED BY <5>2 DEF RolesAreShown
      <4>3. CASE TogglesAreShown
        <5>1. \A r : r = m.role => PendingToggle(c, r)'
          BY <2>1, <2>5, <3>2 DEF PendingToggle, Toggles
        <5>2. ASSUME NEW d \in C, NEW r, r # m.role PROVE PendingToggle(d, r)' <=> PendingToggle(d, r)
          <6>1. CASE d = c
            BY <2>1, <5>2, <6>1 DEF PendingToggle, Toggles
          <6>2. CASE d # c
            <7>1. phase[d] = "served" /\ Toggles(d) /\ command[d].role = r => d \notin RolesView!Stale(c)
              BY <5>2 DEF RolesView!Stale, RolesView!At, RolesView!Toggled
            <7> QED BY <2>1, <2>5, <2>8, <6>2, <7>1 DEF PendingToggle, Toggles
          <6> QED BY <6>1, <6>2
        <5>3. \A r \in RolesView!Ids \ {m.role} :
                SameRole(db'.stored, db.stored, r) /\ db'.shown = db.shown
          BY <1>5, <1>6, <2>1, <3>2 DEF SameRole
        <5>4. ASSUME NEW r \in RolesView!Ids, \A d \in C : ~PendingToggle(d, r)'
              PROVE  SameRole(db.shown, db.stored, r)'
          <6>1. r # m.role /\ \A d \in C : ~PendingToggle(d, r)
            BY <5>1, <5>2, <5>4
          <6>2. SameRole(db.shown, db.stored, r)
            BY <4>3, <6>1 DEF TogglesAreShown
          <6> QED BY <5>3, <6>1, <6>2 DEF SameRole
        <5>5. ASSUME NEW d \in C, d \in current', phase'[d] = "sent", Toggles(d)'
              PROVE  /\ \A i \in RolesView!Ids \ {command'[d].role} :
                          SameRole(db.shown, copy[d].before, i)'
                     /\ (\A e \in C \ {d} : ~PendingToggle(e, command[d].role)') =>
                          SameRole(copy[d].before, db.stored, command[d].role)'
          <6>1. d # c /\ d \in current /\ phase[d] = "sent" /\ Toggles(d)
            BY <2>1, <2>5, <2>8, <5>5 DEF Toggles
          <6>2. copy'[d] = copy[d] /\ command' = command
            BY <2>1, <2>5, <6>1
          <6>3. /\ \A i \in RolesView!Ids \ {command[d].role} : SameRole(db.shown, copy[d].before, i)
                /\ (\A e \in C \ {d} : ~PendingToggle(e, command[d].role)) =>
                     SameRole(copy[d].before, db.stored, command[d].role)
            BY <4>3, <6>1 DEF TogglesAreShown
          <6>4. \A i \in RolesView!Ids \ {command'[d].role} : SameRole(db.shown, copy[d].before, i)'
            BY <1>6, <2>1, <6>2, <6>3 DEF SameRole
          <6>5. ASSUME \A e \in C \ {d} : ~PendingToggle(e, command[d].role)'
                PROVE  SameRole(copy[d].before, db.stored, command[d].role)'
            <7>1. command[d].role # m.role
              <8>1. PICK r : r = command[d].role
                OBVIOUS
              <8>2. ~PendingToggle(c, r)'
                BY <6>1, <6>2, <6>5, <8>1
              <8> QED BY <5>1, <8>1, <8>2
            <7>2. \A e \in C \ {d} : ~PendingToggle(e, command[d].role)
              BY <5>2, <6>2, <6>5, <7>1
            <7>3. command[d].role \in RolesView!Ids
              <8>1. command[d] \in RolesView!Command
                BY <6>1 DEF RolesViewInv, RolesViewCallInv
              <8> QED BY <6>1, <8>1 DEF RolesView!Command, Toggles
            <7>4. SameRole(copy[d].before, db.stored, command[d].role)
              BY <6>3, <7>2
            <7> QED BY <5>3, <6>2, <7>1, <7>3, <7>4 DEF SameRole
          <6> QED BY <6>4, <6>5
        <5> QED BY <5>4, <5>5 DEF TogglesAreShown, RolesAreShown
      <4> QED BY <4>1, <4>2, <4>3 DEF RolesAreShown
    <3> QED BY <3>1, <3>2
  <2>10. DOMAIN db'.stored \subseteq DOMAIN db.stored \cup {c} /\ IsRolesPage(db)'
    BY <1>5, <1>6, <2>1
  <2>11. \A d \in C \ {c} :
           /\ phase'[d] = phase[d] /\ command'[d] = command[d] /\ copy'[d] = copy[d]
           /\ phase[d] = "listed" /\ d \in current' => d \in current /\ db'.stored = db.stored
           /\ phase[d] = "served" /\ Toggles(d) /\ d \in current' =>
                /\ d \in current
                /\ command[d].role \in DOMAIN db.stored =>
                     /\ command[d].role \in DOMAIN db'.stored
                     /\ db'.stored[command[d].role] = db.stored[command[d].role]
    BY <1>6, <1>7, <1>8, <2>1, <2>5, <2>8
  <2> QED BY <2>3, <2>7, <2>9, <2>10, <2>11, RolesViewGoes
<1>10. ASSUME RolesView!ServeLate(c, x, RolesView!Stale(c)) PROVE RolesViewInv'
  <2>1. /\ phase[c] = "late" /\ phase' = [phase EXCEPT ![c] = "failed"]
        /\ command' = [command EXCEPT ![c] = RolesView!NoCommand]
        /\ copy' = [copy EXCEPT ![c] = RolesView!NoCopy]
        /\ db' = [db EXCEPT !.stored = x]
        /\ current' = current \ RolesView!Stale(c) /\ faults' = faults \cup {"halfDone"}
    BY <1>10 DEF RolesView!ServeLate, RolesView!Go, RolesView!Forget
  <2>2. RolesView!TypeOK'
    <3>1. RolesView!PageTypeOK(RolesView!Command)'
      BY <1>4, <2>1 DEF RolesView!TypeOK, RolesView!PageTypeOK, RolesView!PagePhases,
         RolesView!Over, RolesView!Faults
    <3> QED BY <1>4, <1>6, <2>1, <3>1 DEF RolesView!TypeOK
  <2>3. /\ phase'[c] = "failed"
        /\ \A d \in C \ {c} : phase'[d] = phase[d] /\ copy'[d] = copy[d] /\ command'[d] = command[d]
    BY <1>4, <2>1 DEF RolesView!TypeOK, RolesView!PageTypeOK
  <2>4. RolesViewCallInv(c)'
    BY <2>3 DEF RolesViewCallInv
  <2>5. DOMAIN db'.stored \subseteq DOMAIN db.stored \cup {c} /\ IsRolesPage(db)' /\ faults' # {}
    BY <1>5, <1>6, <2>1
  <2>6. \A d \in C \ {c} : d \in current' <=> d \in current /\ d \notin RolesView!Stale(c)
    BY <2>1
  <2>7. \A d \in C \ {c} :
           /\ phase'[d] = phase[d] /\ command'[d] = command[d] /\ copy'[d] = copy[d]
           /\ phase[d] = "listed" /\ d \in current' => d \in current /\ db'.stored = db.stored
           /\ phase[d] = "served" /\ Toggles(d) /\ d \in current' =>
                /\ d \in current
                /\ command[d].role \in DOMAIN db.stored =>
                     /\ command[d].role \in DOMAIN db'.stored
                     /\ db'.stored[command[d].role] = db.stored[command[d].role]
    BY <1>6, <1>7, <1>8, <2>1, <2>3, <2>6
  <2> QED BY <2>2, <2>4, <2>5, <2>7, RolesViewGoes
<1> QED BY <1>1, <1>9, <1>10

\* A toggle that is answered, or put back, leaves roles of their type on the page.
LEMMA LeftPage ==
  ASSUME RolesViewInv, NEW c \in DeskCalls["rolesPage"], Toggles(c), phase[c] \in {"sent", "served"},
         NEW roles, RolesView!IsRoles(roles)
  PROVE  /\ IsRolesPage(RolesView!Left(c, roles))
         /\ RolesView!Left(c, roles).status = db.status
         /\ db.status = "ready" => RolesView!Left(c, roles).shown = roles
<1>1. IsRolesPage(db) /\ roles \in RoleTables /\ None \in Cells \cup {None}
  BY RolesPageNow, Tables
<1>2. command[c].role \in RolesView!Ids
  <2>1. command[c] \in RolesView!Command
    BY DEF RolesViewInv, RolesViewCallInv
  <2> QED BY <2>1 DEF RolesView!Command, Toggles
<1> DEFINE role == command[c].role
<1>3. RolesView!Left(c, roles) = IF db.status = "ready"
                                 THEN [db EXCEPT !.shown = roles, !.seen = role, !.busy = None]
                                 ELSE [db EXCEPT !.busy = None]
  BY DEF RolesView!Left
<1>4. role \in RolesView!Ids
  BY <1>2
<1> HIDE DEF role
<1>5. CASE db.status = "ready"
  <2>1. RolesView!Left(c, roles) = [db EXCEPT !.shown = roles, !.seen = role, !.busy = None]
    BY <1>3, <1>5
  <2> DEFINE u == [db EXCEPT !.shown = roles, !.seen = role, !.busy = None]
  <2>2. IsRolesPage(u) /\ u.status = db.status /\ u.shown = roles
    BY <1>1, <1>4 DEF IsRolesPage
  <2> HIDE DEF u
  <2> QED BY <2>1, <2>2 DEF u
<1>6. CASE db.status # "ready"
  <2>1. RolesView!Left(c, roles) = [db EXCEPT !.busy = None]
    BY <1>3, <1>6
  <2> DEFINE u == [db EXCEPT !.busy = None]
  <2>2. IsRolesPage(u) /\ u.status = db.status
    BY <1>1 DEF IsRolesPage
  <2> HIDE DEF u
  <2> QED BY <1>6, <2>1, <2>2 DEF u
<1> QED BY <1>5, <1>6

\* The roles a toggle confirms are those it was pressed on, but for the one it is about.
LEMMA ConfirmedRoles ==
  ASSUME RolesViewInv, NEW c \in DeskCalls["rolesPage"], Toggles(c), phase[c] = "served"
  PROVE  LET r == command[c].role IN
         /\ RolesView!IsRoles(RolesView!Confirmed(c)) /\ r \in DOMAIN RolesView!Confirmed(c)
         /\ RolesView!Confirmed(c)[r] = copy[c].answer[r]
<1> DEFINE m == command[c]
           before == copy[c].before
<1>1. /\ m \in RolesView!Command /\ m.do = "toggle" /\ RolesView!IsRoles(before)
      /\ m.role \in DOMAIN before /\ copy[c].answer[m.role] \in SUBSET Cells
  BY DEF RolesViewInv, RolesViewCallInv, Toggles
<1>2. RolesView!Confirmed(c) =
        [CHOOSE roles \in RolesView!Made(before, c, m) : TRUE EXCEPT ![m.role] = copy[c].answer[m.role]]
  BY DEF RolesView!Confirmed
<1> DEFINE y == RolesView!With(before[m.role], m.cell, m.granted)
           z == [before EXCEPT ![m.role] = y]
<1>3. RolesView!Made(before, c, m) = {z}
  BY <1>1 DEF RolesView!Made
<1>4. y \in SUBSET Cells
  <2>1. m.cell \in Cells
    BY <1>1 DEF RolesView!Command
  <2> QED BY <1>1, <2>1 DEF RolesView!With, RolesView!IsRoles
<1>5. RolesView!IsRoles(z) /\ m.role \in DOMAIN z
  <2> HIDE DEF y
  <2> QED BY <1>1, <1>4 DEF RolesView!IsRoles
<1> HIDE DEF y, z, before
<1>6. (CHOOSE roles \in RolesView!Made(before, c, m) : TRUE) = z
  BY <1>3
<1>7. RolesView!Confirmed(c) = [z EXCEPT ![m.role] = copy[c].answer[m.role]]
  BY <1>2, <1>6
<1> QED BY <1>1, <1>5, <1>7 DEF RolesView!IsRoles

LEMMA RolesViewConfirms ==
  ASSUME RolesViewInv, NEW c \in DeskCalls["rolesPage"], RolesView!Confirm(c)
  PROVE  RolesViewInv'
<1> DEFINE C == DeskCalls["rolesPage"]
           r == command[c].role
           roles == RolesView!Confirmed(c)
           t == RolesView!Left(c, roles)
           wrong == IF db.status = "ready" THEN RolesView!Confusion(c) ELSE faults
<1>1. phase[c] = "served" /\ Toggles(c) /\ RolesView!Turn(c, "served", "ok", t, wrong)
  BY DEF RolesView!Confirm, Toggles
<1>2. RolesView!IsRoles(roles) /\ r \in DOMAIN roles /\ roles[r] = copy[c].answer[r]
  BY <1>1, ConfirmedRoles
<1>3. /\ IsRolesPage(t) /\ t.status = db.status /\ (db.status = "ready" => t.shown = roles)
  BY <1>1, <1>2, LeftPage
<1>4. wrong \in SUBSET RolesView!Faults
  BY RolesPageNow DEF RolesView!Confusion, RolesView!Faults
<1>5. wrong = {} /\ db.status = "ready" =>
        /\ faults = {} /\ DOMAIN db.shown = DOMAIN roles
        /\ \A i \in DOMAIN db.shown \ {r} : db.shown[i] = roles[i]
        /\ c \in current \/ current \cap RolesView!At("served") \cap RolesView!Toggled(r) # {}
  BY DEF RolesView!Confusion
<1>6. c \in current => r \in DOMAIN db.stored /\ copy[c].answer[r] = db.stored[r]
  BY <1>1 DEF RolesViewInv, RolesViewCallInv
<1> HIDE DEF t, wrong, roles
<1>7. /\ db' = t /\ db'.stored = db.stored /\ faults' = wrong
      /\ phase'[c] = "ok"
      /\ \A d \in C : d \in current' => phase'[d] # "sent"
      /\ \A d \in C \ {c} :
           /\ phase'[d] = phase[d] /\ command'[d] = command[d] /\ copy'[d] = copy[d]
           /\ phase[d] # "sent" => (d \in current' <=> d \in current)
      /\ (faults' = {} /\ db'.status = "ready" => RolesAreShown') => RolesViewInv'
  <2>1. "served" \in {"sent", "served", "asked", "listed", "moved"}
        /\ "ok" \in {"ok", "late", "failed", "asked", "moved"} /\ "ok" # "late"
    OBVIOUS
  <2> QED BY <1>1, <1>3, <1>4, <2>1, RolesViewTurns
<1>8. ASSUME faults' = {}, db'.status = "ready" PROVE RolesAreShown'
  <2>1. /\ faults = {} /\ db.status = "ready" /\ DOMAIN db.shown = DOMAIN roles
        /\ \A i \in DOMAIN db.shown \ {r} : db.shown[i] = roles[i]
        /\ c \in current \/ current \cap RolesView!At("served") \cap RolesView!Toggled(r) # {}
        /\ db'.shown = roles
    BY <1>3, <1>5, <1>7, <1>8
  <2>2. RolesAreShown
    BY <2>1 DEF RolesViewInv
  <2>3. CASE \E d \in C : WillLoad(d)
    <3>1. PICK d \in C : WillLoad(d)
      BY <2>3
    <3>2. d # c
      BY <1>1, <3>1 DEF WillLoad, RolesView!Loads, Toggles
    <3>3. WillLoad(d)'
      BY <1>7, <3>1, <3>2 DEF WillLoad
    <3> QED BY <3>3 DEF RolesAreShown
  <2>4. CASE TogglesAreShown
    <3>1. \A d \in C \ {c} : \A i : PendingToggle(d, i)' <=> PendingToggle(d, i)
      BY <1>7 DEF PendingToggle, Toggles
    <3>2. ASSUME NEW i \in RolesView!Ids, \A d \in C : ~PendingToggle(d, i)'
          PROVE  SameRole(db.shown, db.stored, i)'
      <4>1. \A d \in C \ {c} : ~PendingToggle(d, i)
        BY <3>1, <3>2
      <4>2. CASE i = r
        <5>1. c \in current
          <6>1. SUFFICES ASSUME c \notin current PROVE FALSE
            OBVIOUS
          <6>2. PICK d \in current \cap RolesView!At("served") \cap RolesView!Toggled(r) : TRUE
            BY <2>1, <6>1
          <6>3. d \in C /\ d # c /\ PendingToggle(d, r)
            BY <6>1, <6>2 DEF RolesView!At, RolesView!Toggled, PendingToggle, Toggles
          <6> QED BY <4>1, <4>2, <6>3
        <5> QED BY <1>2, <1>6, <1>7, <2>1, <4>2, <5>1 DEF SameRole
      <4>3. CASE i # r
        <5>1. ~PendingToggle(c, i)
          BY <4>3 DEF PendingToggle
        <5>2. SameRole(db.shown, db.stored, i)
          BY <2>4, <4>1, <5>1 DEF TogglesAreShown
        <5> QED BY <1>7, <2>1, <4>3, <5>2 DEF SameRole
      <4> QED BY <4>2, <4>3
    <3> QED BY <1>7, <3>2 DEF TogglesAreShown, RolesAreShown
  <2> QED BY <2>2, <2>3, <2>4 DEF RolesAreShown
<1> QED BY <1>7, <1>8

LEMMA RolesViewRefuses ==
  ASSUME RolesViewInv, NEW c \in DeskCalls["rolesPage"], RolesView!Refuse(c)
  PROVE  RolesViewInv'
<1> DEFINE C == DeskCalls["rolesPage"]
           r == command[c].role
           page == IF command[c].do = "toggle" THEN RolesView!Left(c, RolesView!Restored(c))
                   ELSE [db EXCEPT !.asking = @ \ {c}]
<1>1. PICK from \in {"sent", "served"} :
        RolesView!Turn(c, from, IF from = "sent" THEN "late" ELSE "failed", page,
          IF from = "served" \/ (command[c].do = "toggle" /\ db.status = "ready")
          THEN RolesView!PutBack(c) ELSE faults)
  BY DEF RolesView!Refuse
<1> DEFINE to == IF from = "sent" THEN "late" ELSE "failed"
           wrong == IF from = "served" \/ (command[c].do = "toggle" /\ db.status = "ready")
                    THEN RolesView!PutBack(c) ELSE faults
<1>2. /\ RolesView!Turn(c, from, to, page, wrong) /\ to \in {"late", "failed"}
      /\ (to = "late" => from = "sent") /\ phase[c] = from
  BY <1>1 DEF RolesView!Turn, RolesView!Go
<1>3. /\ wrong \in SUBSET RolesView!Faults
      /\ wrong = {} => /\ faults = {} /\ from = "sent"
                       /\ command[c].do = "toggle" /\ db.status = "ready" => c \in current
  BY <1>2, RolesPageNow DEF RolesView!PutBack, RolesView!Faults
<1> HIDE DEF to, wrong
<1>4. /\ IsRolesPage(page) /\ page.status = db.status
      /\ Toggles(c) /\ db.status = "ready" => page.shown = copy[c].before
      /\ ~Toggles(c) => page.shown = db.shown
  <2>1. CASE Toggles(c)
    <3>1. RolesView!IsRoles(copy[c].before)
      BY <1>2, <2>1 DEF RolesViewInv, RolesViewCallInv
    <3>2. page = RolesView!Left(c, copy[c].before)
      BY <2>1 DEF Toggles, RolesView!Restored
    <3>3. /\ IsRolesPage(RolesView!Left(c, copy[c].before))
          /\ RolesView!Left(c, copy[c].before).status = db.status
          /\ db.status = "ready" => RolesView!Left(c, copy[c].before).shown = copy[c].before
      BY <1>2, <2>1, <3>1, LeftPage
    <3> QED BY <2>1, <3>2, <3>3
  <2>2. CASE ~Toggles(c)
    <3> DEFINE u == [db EXCEPT !.asking = db.asking \ {c}]
    <3>1. page = u
      BY <2>2 DEF Toggles
    <3>2. IsRolesPage(db) /\ db.asking \ {c} \in SUBSET C
      BY RolesPageNow
    <3>3. IsRolesPage(u) /\ u.status = db.status /\ u.shown = db.shown
      BY <3>2 DEF IsRolesPage
    <3> HIDE DEF u, page
    <3> QED BY <2>2, <3>1, <3>3
  <2> QED BY <2>1, <2>2
<1> HIDE DEF page
<1>5. /\ db' = page /\ db'.stored = db.stored /\ faults' = wrong
      /\ phase[c] = from /\ phase'[c] = to
      /\ \A d \in C : d \in current' => phase'[d] # "sent"
      /\ \A d \in C \ {c} :
           /\ phase'[d] = phase[d] /\ command'[d] = command[d] /\ copy'[d] = copy[d]
           /\ phase[d] # "sent" => (d \in current' <=> d \in current)
      /\ (faults' = {} /\ db'.status = "ready" => RolesAreShown') => RolesViewInv'
  <2>1. from \in {"sent", "served", "asked", "listed", "moved"}
        /\ to \in {"ok", "late", "failed", "asked", "moved"}
    BY <1>2
  <2> QED BY <1>2, <1>3, <1>4, <2>1, RolesViewTurns
<1>6. ASSUME faults' = {}, db'.status = "ready" PROVE RolesAreShown'
  <2>1. /\ faults = {} /\ db.status = "ready" /\ phase[c] = "sent"
        /\ Toggles(c) => c \in current
    BY <1>3, <1>4, <1>5, <1>6 DEF Toggles
  <2>2. RolesAreShown
    BY <2>1 DEF RolesViewInv
  <2>3. CASE ~Toggles(c)
    <3>1. /\ \A i : ~PendingToggle(c, i) /\ ~PendingToggle(c, i)'
          /\ ~WillLoad(c) /\ phase'[c] # "sent"
      BY <1>2, <1>5, <2>1, <2>3 DEF PendingToggle, WillLoad
    <3>2. db'.shown = db.shown
      BY <1>4, <1>5, <2>3
    <3> QED BY <1>5, <2>2, <3>1, <3>2, RolesStayShown
  <2>4. CASE Toggles(c) /\ \E d \in C : WillLoad(d)
    <3>1. PICK d \in C : WillLoad(d)
      BY <2>4
    <3>2. d # c
      BY <2>1, <3>1 DEF WillLoad
    <3>3. WillLoad(d)'
      BY <1>5, <3>1, <3>2 DEF WillLoad
    <3> QED BY <3>3 DEF RolesAreShown
  <2>5. CASE Toggles(c) /\ TogglesAreShown
    <3>1. \A d \in C \ {c} : \A i : PendingToggle(d, i)' <=> PendingToggle(d, i)
      BY <1>5 DEF PendingToggle, Toggles
    <3>2. /\ \A i \in RolesView!Ids \ {r} : SameRole(db.shown, copy[c].before, i)
          /\ (\A d \in C \ {c} : ~PendingToggle(d, r)) => SameRole(copy[c].before, db.stored, r)
      BY <2>1, <2>5 DEF TogglesAreShown
    <3>3. db'.shown = copy[c].before
      BY <1>4, <1>5, <2>1, <2>5
    <3>4. ASSUME NEW i \in RolesView!Ids, \A d \in C : ~PendingToggle(d, i)'
          PROVE  SameRole(db.shown, db.stored, i)'
      <4>1. \A d \in C \ {c} : ~PendingToggle(d, i)
        BY <3>1, <3>4
      <4>2. CASE i = r
        BY <1>5, <3>2, <3>3, <4>1, <4>2
      <4>3. CASE i # r
        <5>1. ~PendingToggle(c, i)
          BY <4>3 DEF PendingToggle
        <5>2. SameRole(db.shown, db.stored, i) /\ SameRole(db.shown, copy[c].before, i)
          BY <2>5, <3>2, <4>1, <4>3, <5>1 DEF TogglesAreShown
        <5> QED BY <1>5, <3>3, <5>2 DEF SameRole
      <4> QED BY <4>2, <4>3
    <3> QED BY <1>5, <3>4 DEF TogglesAreShown, RolesAreShown
  <2> QED BY <2>2, <2>3, <2>4, <2>5 DEF RolesAreShown
<1> QED BY <1>5, <1>6

\* The steps of a call that says nothing new, or whose load failed.
LEMMA RolesViewElsewhere ==
  ASSUME RolesViewInv, NEW c \in DeskCalls["rolesPage"],
         RolesView!List(c) \/ RolesView!Never(c) \/ RolesView!NoList(c)
  PROVE  RolesViewInv'
<1> DEFINE C == DeskCalls["rolesPage"]
<1>1. RolesView!TypeOK /\ IsRolesPage(db) /\ RolesView!IsRoles(db.stored) /\ RolesViewCallInv(c)
  BY DEF RolesViewInv, RolesView!TypeOK
<1>2. ASSUME RolesView!List(c) PROVE RolesViewInv'
  <2>1. /\ phase[c] = "asked" /\ phase' = [phase EXCEPT ![c] = "listed"]
        /\ copy' = [copy EXCEPT ![c].answer = db.stored] /\ current' = current \cup {c}
        /\ UNCHANGED <<db, command, faults>>
    BY <1>2 DEF RolesView!List, RolesView!Go
  <2>2. RolesView!TypeOK'
    BY <1>1, <2>1 DEF RolesView!TypeOK, RolesView!PageTypeOK, RolesView!PagePhases, RolesView!IsRoles
  <2>3. copy[c] = [before |-> copy[c].before, answer |-> copy[c].answer]
    BY <1>1, <2>1 DEF RolesViewCallInv
  <2>4. /\ phase'[c] = "listed" /\ copy'[c] = [before |-> copy[c].before, answer |-> db.stored]
        /\ \A d \in C \ {c} : phase'[d] = phase[d] /\ copy'[d] = copy[d]
    BY <1>1, <2>1, <2>3 DEF RolesView!TypeOK, RolesView!PageTypeOK
  <2>5. copy'[c].before = copy[c].before /\ copy'[c].answer = db.stored
    <3>1. PICK x : x = db.stored
      OBVIOUS
    <3>2. copy'[c] = [before |-> copy[c].before, answer |-> x]
      BY <2>4, <3>1
    <3> QED BY <3>1, <3>2, CopyFields
  <2>6. RolesViewCallInv(c)'
    BY <1>1, <2>1, <2>4, <2>5 DEF RolesViewCallInv, RolesView!IsRoles
  <2>7. IsRolesPage(db)'
    BY <1>1, <2>1 DEF IsRolesPage
  <2>8. /\ \A d \in C \ {c} : d \in current' <=> d \in current
        /\ \A r : ~PendingToggle(c, r) /\ ~PendingToggle(c, r)'
        /\ ~WillLoad(c) /\ phase'[c] # "sent" /\ db'.stored = db.stored /\ db'.shown = db.shown
    BY <2>1, <2>4 DEF PendingToggle, WillLoad
  <2>9. faults' = {} /\ db'.status = "ready" => RolesAreShown'
    <3>1. SUFFICES ASSUME faults' = {}, db'.status = "ready" PROVE RolesAreShown'
      OBVIOUS
    <3>2. RolesAreShown
      BY <2>1, <3>1 DEF RolesViewInv
    <3> QED BY <2>1, <2>4, <2>8, <3>2, RolesStayShown
  <2> QED BY <2>1, <2>2, <2>4, <2>6, <2>7, <2>8, <2>9, RolesViewGoes
<1>3. ASSUME RolesView!Never(c) PROVE RolesViewInv'
  <2>1. /\ phase[c] = "late" /\ phase' = [phase EXCEPT ![c] = "failed"]
        /\ command' = [command EXCEPT ![c] = RolesView!NoCommand]
        /\ copy' = [copy EXCEPT ![c] = RolesView!NoCopy] /\ UNCHANGED <<db, current, faults>>
    BY <1>3 DEF RolesView!Never, RolesView!Go, RolesView!Forget
  <2>2. RolesView!TypeOK'
    BY <1>1, <2>1 DEF RolesView!TypeOK, RolesView!PageTypeOK, RolesView!PagePhases,
       RolesView!Over, RolesView!IsRoles
  <2>3. /\ phase'[c] = "failed"
        /\ \A d \in C \ {c} : phase'[d] = phase[d] /\ copy'[d] = copy[d] /\ command'[d] = command[d]
    BY <1>1, <2>1 DEF RolesView!TypeOK, RolesView!PageTypeOK
  <2>4. RolesViewCallInv(c)'
    BY <2>3 DEF RolesViewCallInv
  <2>5. IsRolesPage(db)'
    BY <1>1, <2>1 DEF IsRolesPage
  <2>6. /\ \A r : ~PendingToggle(c, r) /\ ~PendingToggle(c, r)'
        /\ ~WillLoad(c) /\ phase'[c] # "sent" /\ db'.stored = db.stored /\ db'.shown = db.shown
    BY <2>1, <2>3 DEF PendingToggle, WillLoad
  <2>7. faults' = {} /\ db'.status = "ready" => RolesAreShown'
    <3>1. SUFFICES ASSUME faults' = {}, db'.status = "ready" PROVE RolesAreShown'
      OBVIOUS
    <3>2. RolesAreShown
      BY <2>1, <3>1 DEF RolesViewInv
    <3> QED BY <2>1, <2>3, <2>6, <3>2, RolesStayShown
  <2> QED BY <2>1, <2>2, <2>3, <2>4, <2>5, <2>6, <2>7, RolesViewGoes
<1>4. ASSUME NEW from \in {"asked", "listed"},
             RolesView!Turn(c, from, "failed", [db EXCEPT !.status = "error", !.load = None], faults)
      PROVE  RolesViewInv'
  <2> DEFINE t == [db EXCEPT !.status = "error", !.load = None]
  <2>1. IsRolesPage(t) /\ t.status = "error"
    <3>1. None \in C \cup {None}
      OBVIOUS
    <3> QED BY <1>1, <3>1 DEF IsRolesPage
  <2>2. RolesView!Turn(c, from, "failed", t, faults) /\ faults \in SUBSET RolesView!Faults
    BY <1>4, RolesPageNow
  <2> HIDE DEF t
  <2>3. db' = t /\ ((faults' = {} /\ db'.status = "ready" => RolesAreShown') => RolesViewInv')
    <3>1. from \in {"sent", "served", "asked", "listed", "moved"}
          /\ "failed" \in {"ok", "late", "failed", "asked", "moved"} /\ "failed" # "late"
      OBVIOUS
    <3> QED BY <2>1, <2>2, <3>1, RolesViewTurns
  <2> QED BY <2>1, <2>3
<1>5. ASSUME NEW from \in {"asked", "listed"}, RolesView!Turn(c, from, "ok", db, faults)
      PROVE  RolesViewInv'
  <2>1. PICK t : t = db
    OBVIOUS
  <2>2. RolesView!Turn(c, from, "ok", t, faults) /\ IsRolesPage(t) /\ faults \in SUBSET RolesView!Faults
    BY <1>1, <1>5, <2>1, RolesPageNow
  <2>3. /\ phase[c] = from /\ phase'[c] = "ok"
        /\ db' = t /\ db'.stored = db.stored /\ faults' = faults
        /\ \A d \in C : d \in current' => phase'[d] # "sent"
        /\ \A d \in C \ {c} :
             /\ phase'[d] = phase[d] /\ command'[d] = command[d] /\ copy'[d] = copy[d]
             /\ phase[d] # "sent" => (d \in current' <=> d \in current)
        /\ (faults' = {} /\ db'.status = "ready" => RolesAreShown') => RolesViewInv'
    <3>1. from \in {"sent", "served", "asked", "listed", "moved"}
          /\ "ok" \in {"ok", "late", "failed", "asked", "moved"} /\ "ok" # "late"
      OBVIOUS
    <3> QED BY <2>2, <3>1, RolesViewTurns
  <2>4. ASSUME faults' = {}, db'.status = "ready" PROVE RolesAreShown'
    <3>1. RolesAreShown /\ db'.shown = db.shown
      BY <2>1, <2>3, <2>4 DEF RolesViewInv
    <3>2. /\ \A r : ~PendingToggle(c, r) /\ ~PendingToggle(c, r)'
          /\ ~WillLoad(c) /\ phase'[c] # "sent"
      BY <2>3 DEF PendingToggle, WillLoad
    <3> QED BY <2>3, <3>1, <3>2, RolesStayShown
  <2> QED BY <2>3, <2>4
<1>6. ASSUME RolesView!NoList(c) PROVE RolesViewInv'
  BY <1>4, <1>5, <1>6 DEF RolesView!NoList
<1> QED BY <1>2, <1>3, <1>6

LEMMA RolesViewStep == RolesViewInv /\ [RolesView!Next]_(RolesView!handlerVars) => RolesViewInv'
<1> SUFFICES ASSUME RolesViewInv, [RolesView!Next]_(RolesView!handlerVars) PROVE RolesViewInv'
  OBVIOUS
<1>1. CASE UNCHANGED RolesView!handlerVars
  <2>1. UNCHANGED <<db, phase, command, copy, current, faults>>
    BY <1>1 DEF RolesView!handlerVars
  <2>2. RolesView!TypeOK' /\ IsRolesPage(db)'
    BY <2>1 DEF RolesViewInv, RolesView!TypeOK, RolesView!PageTypeOK, RolesView!IsRoles, IsRolesPage
  <2>3. \A c \in DeskCalls["rolesPage"] : RolesViewCallInv(c)'
    BY <2>1 DEF RolesViewInv, RolesViewCallInv, RolesView!IsRoles, Toggles
  <2>4. RolesAreShown => RolesAreShown'
    BY <2>1 DEF RolesAreShown, TogglesAreShown, WillLoad, PendingToggle, SameRole, Toggles
  <2> QED BY <2>1, <2>2, <2>3, <2>4 DEF RolesViewInv
<1>2. CASE RolesView!Next
  <2>1. PICK c \in DeskCalls["rolesPage"] :
          \/ RolesView!Toggle(c) \/ RolesView!Ask(c) \/ RolesView!Visit(c) \/ RolesView!Answer(c)
          \/ RolesView!Confirm(c) \/ RolesView!Refuse(c) \/ RolesView!Never(c)
          \/ RolesView!Reload(c) \/ RolesView!Moved(c) \/ RolesView!List(c)
          \/ RolesView!ShowList(c) \/ RolesView!NoList(c)
    BY <1>2 DEF RolesView!Next
  <2> QED BY <2>1, RolesViewToggles, RolesViewAsks, RolesViewLoads, RolesViewShows,
             RolesViewAnswers, RolesViewConfirms, RolesViewRefuses, RolesViewElsewhere
<1> QED BY <1>1, <1>2

LEMMA RolesAreShownQuiet == RolesViewInv => RolesView!RolesShown
<1> SUFFICES ASSUME RolesViewInv, RolesView!Quiet, db.status = "ready", faults = {}
             PROVE  db.shown = db.stored
  BY DEF RolesView!RolesShown
<1>1. \A c \in DeskCalls["rolesPage"] : ~WillLoad(c) /\ \A r : ~PendingToggle(c, r)
  BY DEF WillLoad, PendingToggle, RolesView!Quiet, RolesView!Running, RolesView!Over
<1>2. \A r \in RolesView!Ids : SameRole(db.shown, db.stored, r)
  BY <1>1 DEF RolesViewInv, RolesAreShown, TogglesAreShown
<1>3. PICK f, g : f = db.shown /\ g = db.stored
  OBVIOUS
<1>4. /\ DOMAIN f \subseteq RolesView!Ids /\ DOMAIN g \subseteq RolesView!Ids
      /\ f \in [DOMAIN f -> SUBSET Cells] /\ g \in [DOMAIN g -> SUBSET Cells]
  BY <1>3, RolesPageNow DEF RolesView!IsRoles
<1>5. DOMAIN f = DOMAIN g /\ \A r \in DOMAIN f : f[r] = g[r]
  BY <1>2, <1>3, <1>4 DEF SameRole
<1> QED BY <1>3, <1>4, <1>5

-----------------------------------------------------------------------------
(* All desks. *)

IInv ==
  /\ desk \in Desks
  /\ desk = "customer" => CustomerInv
  /\ desk = "cards" => CardsInv
  /\ desk = "coupon" => CouponInv /\ UsesInv
  /\ desk = "catalog" => CatalogInv
  /\ desk = "shipping" => ShipmentInv
  /\ desk = "review" => ReviewInv
  /\ desk = "roles" => RolesInv
  /\ desk = "tree" => TreeInv
  /\ desk = "cartPage" => CartViewInv
  /\ desk = "listPage" => ListViewInv
  /\ desk = "rolesPage" => RolesViewInv

LEMMA InitIInv == Init => IInv
<1> SUFFICES ASSUME Init PROVE IInv
  OBVIOUS
<1>1. desk \in Desks
  BY DEF Init, Desks
<1>2. desk = "customer" => CustomerInv
  BY CustomerInit DEF Init
<1>3. desk = "cards" => CardsInv
  BY CardsInit DEF Init
<1>4. desk = "coupon" => CouponInv /\ UsesInv
  BY CouponInit, UsesInit DEF Init
<1>5. desk = "catalog" => CatalogInv
  BY CatalogInit DEF Init
<1>6. desk = "shipping" => ShipmentInv
  BY ShipmentInit DEF Init
<1>7. desk = "review" => ReviewInv
  BY ReviewInit DEF Init
<1>8. desk = "roles" => RolesInv
  BY RolesInit DEF Init
<1>9. desk = "tree" => TreeInv
  BY TreeInit DEF Init
<1>10. desk = "cartPage" => CartViewInv
  BY CartViewInit DEF Init
<1>11. desk = "listPage" => ListViewInv
  BY ListViewInit DEF Init
<1>12. desk = "rolesPage" => RolesViewInv
  BY RolesViewInit DEF Init
<1> QED BY <1>1, <1>2, <1>3, <1>4, <1>5, <1>6, <1>7, <1>8, <1>9, <1>10, <1>11, <1>12 DEF IInv

LEMMA StepIInv == IInv /\ [Next]_vars => IInv'
<1> SUFFICES ASSUME IInv, [Next]_vars PROVE IInv'
  OBVIOUS
<1>1. desk' = desk
  BY DEF Next, vars
<1>2. ASSUME desk = "customer" PROVE CustomerInv'
  <2>1. CustomerInv
    BY <1>2 DEF IInv
  <2>2. [Customers!Next]_(Customers!handlerVars)
    BY <1>2 DEF Next, vars, Customers!handlerVars
  <2> QED BY <2>1, <2>2, CustomerStep
<1>3. ASSUME desk = "cards" PROVE CardsInv'
  <2>1. CardsInv
    BY <1>3 DEF IInv
  <2>2. [Methods!Next]_(Methods!handlerVars)
    BY <1>3 DEF Next, vars, Methods!handlerVars
  <2> QED BY <2>1, <2>2, CardsStep
<1>4. ASSUME desk = "coupon" PROVE CouponInv' /\ UsesInv'
  <2>1. CouponInv /\ UsesInv
    BY <1>4 DEF IInv
  <2>2. [Coupons!Next]_(Coupons!handlerVars)
    BY <1>4 DEF Next, vars, Coupons!handlerVars
  <2>3. Coupons!TypeOK
    BY <2>1 DEF CouponInv
  <2> QED BY <2>1, <2>2, <2>3, CouponStep, UsesStep
<1>5. ASSUME desk = "catalog" PROVE CatalogInv'
  <2>1. CatalogInv
    BY <1>5 DEF IInv
  <2>2. [Catalogue!Next]_(Catalogue!handlerVars)
    BY <1>5 DEF Next, vars, Catalogue!handlerVars
  <2> QED BY <2>1, <2>2, CatalogStep
<1>6. ASSUME desk = "shipping" PROVE ShipmentInv'
  <2>1. ShipmentInv
    BY <1>6 DEF IInv
  <2>2. [Shipments!Next]_(Shipments!handlerVars)
    BY <1>6 DEF Next, vars, Shipments!handlerVars
  <2> QED BY <2>1, <2>2, ShipmentStep
<1>7. ASSUME desk = "review" PROVE ReviewInv'
  <2>1. ReviewInv
    BY <1>7 DEF IInv
  <2>2. [Reviews!Next]_(Reviews!handlerVars)
    BY <1>7 DEF Next, vars, Reviews!handlerVars
  <2> QED BY <2>1, <2>2, ReviewStep
<1>8. ASSUME desk = "roles" PROVE RolesInv'
  <2>1. RolesInv
    BY <1>8 DEF IInv
  <2>2. [RoleAdmin!Next]_(RoleAdmin!handlerVars)
    BY <1>8 DEF Next, vars, RoleAdmin!handlerVars
  <2> QED BY <2>1, <2>2, RolesStep
<1>9. ASSUME desk = "tree" PROVE TreeInv'
  <2>1. TreeInv
    BY <1>9 DEF IInv
  <2>2. [Tree!Next]_(Tree!handlerVars)
    BY <1>9 DEF Next, vars, Tree!handlerVars
  <2> QED BY <2>1, <2>2, TreeStep
<1>10. ASSUME desk = "cartPage" PROVE CartViewInv'
  <2>1. CartViewInv
    BY <1>10 DEF IInv
  <2>2. [CartView!Next]_(CartView!handlerVars)
    BY <1>10 DEF Next, vars, CartView!handlerVars
  <2> QED BY <2>1, <2>2, CartViewStep
<1>11. ASSUME desk = "listPage" PROVE ListViewInv'
  <2>1. ListViewInv
    BY <1>11 DEF IInv
  <2>2. [ListView!Next]_(ListView!handlerVars)
    BY <1>11 DEF Next, vars, ListView!handlerVars
  <2> QED BY <2>1, <2>2, ListViewStep
<1>12. ASSUME desk = "rolesPage" PROVE RolesViewInv'
  <2>1. RolesViewInv
    BY <1>12 DEF IInv
  <2>2. [RolesView!Next]_(RolesView!handlerVars)
    BY <1>12 DEF Next, vars, RolesView!handlerVars
  <2> QED BY <2>1, <2>2, RolesViewStep
<1> QED BY <1>1, <1>2, <1>3, <1>4, <1>5, <1>6, <1>7, <1>8, <1>9, <1>10, <1>11, <1>12 DEF IInv

LEMMA Invariance == Spec => []IInv
BY InitIInv, StepIInv, PTL DEF Spec

\* Every variable has its type, at every desk.
THEOREM TypeCorrect == Spec => []TypeOK
<1>1. IInv => TypeOK
  BY DEF IInv, TypeOK, CustomerInv, CardsInv, CouponInv, CatalogInv, ShipmentInv, ReviewInv,
     RolesInv, TreeInv, CartViewInv, ListViewInv, RolesViewInv
<1> QED BY <1>1, Invariance, PTL

\* A customer with addresses has exactly one default address, whichever copies are saved
\* over which.
THEOREM DefaultAddress == Spec => []OneDefaultAddress
<1>1. IInv => OneDefaultAddress
  BY DEF IInv, CustomerInv, OneDefaultAddress, Customers!OneDefaultAddress
<1> QED BY <1>1, Invariance, PTL

\* A coupon never stores more redemptions than it allows, nor two for one order, however
\* uses cross.
THEOREM Redemptions == Spec => []RedemptionsWithinLimit
<1>1. IInv => RedemptionsWithinLimit
  BY DEF IInv, CouponInv, Limited, RedemptionsWithinLimit, Coupons!RedemptionsWithinLimit
<1> QED BY <1>1, Invariance, PTL

\* As long as no save has undone another, what a call answered stays true: one default
\* payment method, coupon uses, one shipment of an order, reviews, roles and the tree of
\* categories.
THEOREM AnswersAreTrue == Spec => []AnswersStand
<1>1. IInv => AnswersStand
  <2>1. UsesInv => Coupons!UsesAreKept
    BY DEF UsesInv
  <2> QED BY <2>1, CardsHaveDefault, ShipmentsAreOne, ReviewsAreKept, RolesKeepAnswers, MovesKept
             DEF IInv, AnswersStand
<1> QED BY <1>1, Invariance, PTL

\* As long as nothing went wrong that a copy cannot know of, it is like what it copies when
\* nothing is under way: the document of the search index, and what each page shows.
THEOREM CopiesAreTrue == Spec => []CopiesFollow
<1>1. IInv => CopiesFollow
  BY IndexFollows, CartIsShownQuiet, ListIsShownQuiet, RolesAreShownQuiet DEF IInv, CopiesFollow
<1> QED BY <1>1, Invariance, PTL
=============================================================================
