--------------------------------- MODULE Cart ---------------------------------
(***************************************************************************)
(* modules/cart for one customer: the cart in the database, its copy in    *)
(* Redis under the customer's key, and the calls that read and change it.  *)
(*                                                                         *)
(* A call takes the cart from the cache or, when it is not there, from two *)
(* SELECTs, and then fills the cache.  A change is made in memory, stored  *)
(* whole in one transaction, and the cache entry is deleted after it.      *)
(* Nothing ties these steps together: a copy read before a save may fill   *)
(* the cache after the save's delete, and stay for the life of an entry.   *)
(*                                                                         *)
(* The entry under the cart's id is written and deleted beside the one     *)
(* under the customer's, but no handler reads it; it is left out, as are   *)
(* prices.                                                                 *)
(*                                                                         *)
(* Operators whose name starts with Bug are mistakes the code does not     *)
(* make, put in place of the operator that follows them to see that a      *)
(* property notices.                                                       *)
(***************************************************************************)
EXTENDS Integers, FiniteSets

CONSTANTS Calls,        \* HTTP calls; one names the cart or the line it creates
          Products,     \* product references (product and variant)
          WithVariant,  \* those that name a variant
          Commands,     \* what the calls ask for
          MaxQuantity   \* largest value of an INTEGER column

ASSUME WithVariantAssumption == WithVariant \subseteq Products
ASSUME MaxQuantityAssumption == MaxQuantity \in Nat \ {0}

Line == [id: Calls, product: Products, quantity: 1..MaxQuantity]
Cart == [id: Calls, lines: SUBSET Line]

\* "read" is the lookup of a starting checkout, which makes no cart.
Command == [do: {"get", "read", "clear"}]
           \cup [do: {"add"}, product: Products, quantity: 1..MaxQuantity]
           \cup [do: {"update"}, line: Calls, quantity: 1..MaxQuantity]
           \cup [do: {"remove"}, line: Calls]

ASSUME CommandsAssumption == Commands \subseteq Command

Message == [type: {"CartCreated", "CartCleared"}, cart: Calls]
           \cup [type: {"CartItemAdded"}, cart: Calls, product: Products]
           \cup [type: {"CartItemRemoved"}, cart: Calls, line: Calls]

NoCart == [id |-> "none", lines |-> {}]
NoCommand == [do |-> "none"]

ASSUME NoneAssumption == "none" \notin Calls

VARIABLES
  carts,      \* [ids of the stored carts -> their lines]
  announced,  \* outbox messages
  cache,      \* the entry under the customer's key, or NoCart
  phase,      \* [Calls -> how far the call is]
  command,    \* [Calls -> what it asks for]
  copy,       \* [Calls -> the cart in its memory]
  committed,  \* history: every cart that was ever stored
  late,       \* history: the entry was filled, or kept, when it was already old
  orderly     \* history: no two calls have overlapped, and none has failed to delete

vars == <<carts, announced, cache, phase, command, copy, committed, late, orderly>>

Phases == {"idle", "reading", "missed", "items", "filling", "absent",
           "created", "loaded", "saved", "done"}
Running(c) == phase[c] \notin {"idle", "done"}

Init ==
  /\ carts = [id \in {} |-> {}]
  /\ announced = {}
  /\ cache = NoCart
  /\ phase = [c \in Calls |-> "idle"]
  /\ command = [c \in Calls |-> NoCommand]
  /\ copy = [c \in Calls |-> NoCart]
  /\ committed = {}
  /\ late = FALSE
  /\ orderly = TRUE

Go(c, from, to) == phase[c] = from /\ phase' = [phase EXCEPT ![c] = to]

Start(c) ==
  /\ Go(c, "idle", "reading")
  /\ \E m \in Commands : command' = [command EXCEPT ![c] = m]
  /\ orderly' = (orderly /\ ~\E d \in Calls : Running(d))
  /\ UNCHANGED <<carts, announced, cache, copy, committed, late>>

\* CachedCartRepository.findByCustomerId
Hit(c) ==
  /\ Go(c, "reading", "loaded")
  /\ cache # NoCart
  /\ copy' = [copy EXCEPT ![c] = cache]
  /\ UNCHANGED <<carts, announced, cache, command, committed, late, orderly>>

Miss(c) ==
  /\ Go(c, "reading", "missed")
  /\ cache = NoCart
  /\ UNCHANGED <<carts, announced, cache, command, copy, committed, late, orderly>>

\* findFirst without an order: any cart of the customer.
FindCart(c) ==
  /\ Go(c, "missed", "items")
  /\ \E id \in DOMAIN carts : copy' = [copy EXCEPT ![c] = [id |-> id, lines |-> {}]]
  /\ UNCHANGED <<carts, announced, cache, command, committed, late, orderly>>

FindNone(c) ==
  /\ Go(c, "missed", IF command[c].do = "read" THEN "done" ELSE "absent")
  /\ DOMAIN carts = {}
  /\ UNCHANGED <<carts, announced, cache, command, copy, committed, late, orderly>>

BugSelectItems(c) ==
  /\ Go(c, "items", "filling")
  /\ copy' = [copy EXCEPT ![c].lines = UNION {carts[id] : id \in DOMAIN carts}]
  /\ UNCHANGED <<carts, announced, cache, command, committed, late, orderly>>
SelectItems(c) ==
  /\ Go(c, "items", "filling")
  /\ copy' = [copy EXCEPT ![c].lines = carts[copy[c].id]]
  /\ UNCHANGED <<carts, announced, cache, command, committed, late, orderly>>

Fill(c) ==
  /\ Go(c, "filling", "loaded")
  /\ cache' = copy[c]
  /\ late' = (copy[c].lines # carts[copy[c].id])
  /\ UNCHANGED <<carts, announced, command, copy, committed, orderly>>

\* PrismaCartRepository.save: one transaction, with its outbox rows.
Store(c, cart, messages) ==
  /\ copy' = [copy EXCEPT ![c] = cart]
  /\ carts' = [id \in DOMAIN carts \cup {cart.id} |->
                IF id = cart.id THEN cart.lines ELSE carts[id]]
  /\ committed' = committed \cup {cart}
  /\ announced' = announced \cup messages

Create(c) ==
  /\ Go(c, "absent", "created")
  /\ Store(c, [id |-> c, lines |-> {}], {[type |-> "CartCreated", cart |-> c]})
  /\ UNCHANGED <<cache, command, late, orderly>>

\* The aggregate's methods, on the lines of a copy.
BugAdded(lines, c, m) ==
  lines \cup {[id |-> c, product |-> m.product, quantity |-> m.quantity]}
Added(lines, c, m) ==
  LET same == {l \in lines : l.product = m.product} IN
  IF same = {}
  THEN lines \cup {[id |-> c, product |-> m.product, quantity |-> m.quantity]}
  ELSE (lines \ same) \cup {[l EXCEPT !.quantity = @ + m.quantity] : l \in same}

\* What a command makes of the lines; nothing when it is refused.
Changed(lines, c, m) ==
  CASE m.do = "add" -> {Added(lines, c, m)}
    [] m.do = "clear" -> {{}}
    [] m.do = "remove" -> {lines \ {l} : l \in {k \in lines : k.id = m.line}}
    [] m.do = "update" -> {(lines \ {l}) \cup {[l EXCEPT !.quantity = m.quantity]} :
                             l \in {k \in lines : k.id = m.line}}
    [] OTHER -> {}

BugNews(cart, m) == {}
News(cart, m) ==
  CASE m.do = "add" -> {[type |-> "CartItemAdded", cart |-> cart, product |-> m.product]}
    [] m.do = "remove" -> {[type |-> "CartItemRemoved", cart |-> cart, line |-> m.line]}
    [] m.do = "clear" -> {[type |-> "CartCleared", cart |-> cart]}
    [] OTHER -> {}

\* syncItems writes the lines of the copy before it deletes the others, so that a
\* new line meets the stored ones in the unique index.  NULL variants never clash.
Clash(cart) ==
  \E l \in cart.lines, k \in carts[cart.id] :
    l.id # k.id /\ l.product = k.product /\ l.product \in WithVariant

\* PostgreSQL refuses a quantity the column cannot hold.
BugFits(lines) == TRUE
Fits(lines) == \A l \in lines : l.quantity <= MaxQuantity

BugSave(c) ==
  /\ Go(c, "loaded", "done")
  /\ \E lines \in Changed(copy[c].lines, c, command[c]) :
       LET cart == [copy[c] EXCEPT !.lines = lines] IN
       /\ Fits(lines) /\ ~Clash(cart)
       /\ Store(c, cart, News(cart.id, command[c]))
  /\ UNCHANGED <<cache, command, late, orderly>>
Save(c) ==
  /\ Go(c, "loaded", "saved")
  /\ \E lines \in Changed(copy[c].lines, c, command[c]) :
       LET cart == [copy[c] EXCEPT !.lines = lines] IN
       /\ Fits(lines) /\ ~Clash(cart)
       /\ Store(c, cart, News(cart.id, command[c]))
  /\ UNCHANGED <<cache, command, late, orderly>>

\* invalidate(), after the commit of a new or of a changed cart.
BugInvalidate(c) ==
  /\ \/ Go(c, "created", "loaded") \/ Go(c, "saved", "done")
  /\ UNCHANGED <<carts, announced, cache, command, copy, committed, late, orderly>>
Invalidate(c) ==
  /\ \/ Go(c, "created", "loaded") \/ Go(c, "saved", "done")
  /\ cache' = NoCart
  /\ late' = FALSE
  /\ UNCHANGED <<carts, announced, command, copy, committed, orderly>>

Answer(c) ==
  /\ Go(c, "loaded", "done")
  /\ command[c].do \in {"get", "read"}
  /\ UNCHANGED <<carts, announced, cache, command, copy, committed, late, orderly>>

\* A refusal, an error of PostgreSQL or Redis, or a stop, between any two steps.
Fail(c) ==
  /\ Running(c)
  /\ phase' = [phase EXCEPT ![c] = "done"]
  /\ late' = (late \/ phase[c] = "saved")
  /\ orderly' = (orderly /\ phase[c] # "saved")
  /\ UNCHANGED <<carts, announced, cache, command, copy, committed>>

\* The entry's time to live is over.
Expire ==
  /\ cache # NoCart
  /\ cache' = NoCart
  /\ late' = FALSE
  /\ UNCHANGED <<carts, announced, phase, command, copy, committed, orderly>>

Next ==
  \/ Expire
  \/ \E c \in Calls :
       \/ Start(c) \/ Hit(c) \/ Miss(c) \/ FindCart(c) \/ FindNone(c) \/ SelectItems(c)
       \/ Fill(c) \/ Create(c) \/ Save(c) \/ Invalidate(c) \/ Answer(c) \/ Fail(c)

Spec == Init /\ [][Next]_vars

-----------------------------------------------------------------------------
(* Properties *)

\* Every variable has its type.
TypeOK ==
  /\ DOMAIN carts \subseteq Calls
  /\ carts \in [DOMAIN carts -> SUBSET Line]
  /\ announced \subseteq Message
  /\ cache \in Cart \cup {NoCart}
  /\ phase \in [Calls -> Phases]
  /\ command \in [Calls -> Commands \cup {NoCommand}]
  /\ copy \in [Calls -> Cart \cup {NoCart}]
  /\ committed \subseteq Cart
  /\ late \in BOOLEAN
  /\ orderly \in BOOLEAN

\* The carts that anybody holds.
Held == {[id |-> id, lines |-> carts[id]] : id \in DOMAIN carts}
        \cup {cache} \cup {copy[c] : c \in Calls}

Merged(lines) == \A l, k \in lines : l.product = k.product => l = k

\* A cart never has two lines of one product: not in the database, where the unique
\* index does not see products without a variant, nor in the cache or in any copy,
\* however saves cross.
OneLinePerProduct == \A cart \in Held : Merged(cart.lines)

\* What a call works on and what the cache serves is a cart as some transaction left
\* it, never a mixture and never a change that was not committed.
LoadedWasStored ==
  /\ cache # NoCart => cache \in committed
  /\ \A c \in Calls : phase[c] \in {"filling", "loaded"} => copy[c] \in committed

\* A line that is stored, cached or in a copy has been announced, also when an older
\* copy brings it back.
LinesAnnounced ==
  \A cart \in Held : \A l \in cart.lines :
    [type |-> "CartItemAdded", cart |-> cart.id, product |-> l.product] \in announced

\* The entry agrees with the database, or a call that has saved is about to delete it;
\* the only others are those filled from a copy older than a save, and those whose
\* deletion failed.
CacheIsCurrent ==
  cache # NoCart /\ ~late =>
    \/ cache.lines = carts[cache.id]
    \/ \E c \in Calls : phase[c] = "saved" /\ copy[c].id = cache.id

\* A customer whose calls come one after the other has one cart and every call works
\* on the cart as the one before it left it, unless a deletion in the cache failed.
ReadsOwnWrites ==
  orderly =>
    /\ Cardinality(DOMAIN carts) <= 1
    /\ \A c \in Calls : phase[c] = "loaded" => carts[copy[c].id] = copy[c].lines
=============================================================================
