------------------------------ MODULE CartProofs ------------------------------
(***************************************************************************)
(* Theorems about Cart, for any calls, commands and products.              *)
(*                                                                         *)
(* The properties of lines are proved of every cart anybody holds: a step  *)
(* makes a new one only by applying one command to one of them (EveryStep), *)
(* so that one lemma about Changed is enough for each.  The properties of  *)
(* the cache need to know which carts exist where (Where) and, for each    *)
(* step of a call, what its copy still agrees with.                        *)
(***************************************************************************)
EXTENDS Cart, FiniteSetTheorems, TLAPS

\* What a command makes of lines is lines again.
LEMMA ChangedType ==
  ASSUME NEW lines \in SUBSET Line, NEW c \in Calls, NEW m \in Commands \cup {NoCommand},
         NEW new \in Changed(lines, c, m), Fits(new)
  PROVE  new \in SUBSET Line
<1>1. CASE m.do = "add"
  <2>1. m.product \in Products /\ m.quantity \in 1..MaxQuantity
    BY <1>1, CommandsAssumption DEF Command, NoCommand
  <2>2. new = Added(lines, c, m)
    BY <1>1 DEF Changed
  <2>3. CASE {l \in lines : l.product = m.product} = {}
    BY <2>1, <2>2, <2>3 DEF Added, Line
  <2>4. CASE {l \in lines : l.product = m.product} # {}
    <3>1. SUFFICES ASSUME NEW k \in new, k \notin lines PROVE k \in Line
      OBVIOUS
    <3>2. PICK l \in lines : k = [l EXCEPT !.quantity = l.quantity + m.quantity]
      BY <2>2, <2>4, <3>1 DEF Added
    <3>3. l \in Line /\ k.quantity = l.quantity + m.quantity /\ k.quantity <= MaxQuantity
      BY <3>1, <3>2 DEF Line, Fits
    <3> QED BY <2>1, <3>2, <3>3, MaxQuantityAssumption DEF Line
  <2> QED BY <2>3, <2>4
<1>2. CASE m.do = "update"
  <2>1. m.quantity \in 1..MaxQuantity
    BY <1>2, CommandsAssumption DEF Command, NoCommand
  <2>2. PICK l \in lines : new = (lines \ {l}) \cup {[l EXCEPT !.quantity = m.quantity]}
    BY <1>2 DEF Changed
  <2> QED BY <2>1, <2>2 DEF Line
<1>3. CASE m.do \notin {"add", "update"}
  BY <1>3 DEF Changed
<1> QED BY <1>1, <1>2, <1>3

\* No command puts a product into two lines.
LEMMA ChangedMerged ==
  ASSUME NEW lines \in SUBSET Line, NEW c \in Calls, NEW m \in Commands \cup {NoCommand},
         NEW new \in Changed(lines, c, m), Merged(lines)
  PROVE  Merged(new)
<1>1. CASE m.do = "add"
  <2>1. new = Added(lines, c, m)
    BY <1>1 DEF Changed
  <2>2. CASE {l \in lines : l.product = m.product} = {}
    BY <2>1, <2>2 DEF Added, Merged, Line
  <2>3. CASE {l \in lines : l.product = m.product} # {}
    <3>1. PICK l \in lines : l.product = m.product
      BY <2>3
    <3>2. {k \in lines : k.product = m.product} = {l}
      BY <3>1 DEF Merged
    <3>3. new = (lines \ {l}) \cup {[l EXCEPT !.quantity = l.quantity + m.quantity]}
      BY <2>1, <3>2 DEF Added
    <3>4. [l EXCEPT !.quantity = l.quantity + m.quantity].product = l.product
      BY DEF Line
    <3> QED BY <3>3, <3>4 DEF Merged
  <2> QED BY <2>2, <2>3
<1>2. CASE m.do = "update"
  <2>1. PICK l \in lines : new = (lines \ {l}) \cup {[l EXCEPT !.quantity = m.quantity]}
    BY <1>2 DEF Changed
  <2>2. [l EXCEPT !.quantity = m.quantity].product = l.product
    BY DEF Line
  <2> QED BY <2>1, <2>2 DEF Merged
<1>3. CASE m.do \notin {"add", "update"}
  BY <1>3 DEF Changed, Merged
<1> QED BY <1>1, <1>2, <1>3

\* A command that brings a product in says so.
LEMMA ChangedNews ==
  ASSUME NEW lines \in SUBSET Line, NEW c \in Calls, NEW m \in Commands \cup {NoCommand},
         NEW new \in Changed(lines, c, m), NEW l \in new, NEW cart
  PROVE  \/ \E k \in lines : k.product = l.product
         \/ [type |-> "CartItemAdded", cart |-> cart, product |-> l.product] \in News(cart, m)
<1>1. CASE m.do = "add"
  <2>1. new = Added(lines, c, m)
    BY <1>1 DEF Changed
  <2>2. CASE l \in lines
    BY <2>2
  <2>3. CASE l = [id |-> c, product |-> m.product, quantity |-> m.quantity]
    BY <1>1, <2>3 DEF News
  <2>4. CASE \E k \in lines : l = [k EXCEPT !.quantity = k.quantity + m.quantity]
    BY <2>4 DEF Line
  <2> QED BY <2>1, <2>2, <2>3, <2>4 DEF Added
<1>2. CASE m.do = "update"
  BY <1>2 DEF Changed, Line
<1>3. CASE m.do \notin {"add", "update"}
  BY <1>3 DEF Changed
<1> QED BY <1>1, <1>2, <1>3

-----------------------------------------------------------------------------
(* Types *)

LEMMA NoCartHasNoLines == NoCart.id = "none" /\ NoCart.lines = {}
  BY DEF NoCart

LEMMA NewsType ==
  ASSUME NEW cart \in Calls, NEW m \in Commands \cup {NoCommand}
  PROVE  News(cart, m) \subseteq Message
<1>1. CASE m.do = "add"
  <2>1. m.product \in Products
    BY <1>1, CommandsAssumption DEF Command, NoCommand
  <2> QED BY <1>1, <2>1 DEF News, Message
<1>2. CASE m.do = "remove"
  <2>1. m.line \in Calls
    BY <1>2, CommandsAssumption DEF Command, NoCommand
  <2> QED BY <1>2, <2>1 DEF News, Message
<1>3. CASE m.do \notin {"add", "remove"}
  BY <1>3 DEF News, Message
<1> QED BY <1>1, <1>2, <1>3

\* Where carts are: a call has found or stored the cart it works on, and the cart that
\* a call would create does not exist before.
Where ==
  /\ cache # NoCart => cache.id \in DOMAIN carts
  /\ \A c \in Calls :
       /\ phase[c] \in {"items", "filling", "created", "loaded", "saved"} =>
            copy[c] \in Cart /\ copy[c].id \in DOMAIN carts
       /\ c \in DOMAIN carts => phase[c] \in {"created", "loaded", "saved", "done"}

TypeInv == TypeOK /\ Where

LEMMA TypeInit == Init => TypeInv
  BY DEF Init, TypeInv, TypeOK, Where, Phases

LEMMA StoreType ==
  ASSUME TypeOK, NEW c \in Calls, NEW cart \in Cart, NEW messages \in SUBSET Message,
         Store(c, cart, messages)
  PROVE  /\ DOMAIN carts' = DOMAIN carts \cup {cart.id}
         /\ DOMAIN carts' \subseteq Calls
         /\ carts' \in [DOMAIN carts' -> SUBSET Line]
         /\ announced' \subseteq Message
         /\ copy' \in [Calls -> Cart \cup {NoCart}]
         /\ copy'[c] = cart
         /\ \A d \in Calls \ {c} : copy'[d] = copy[d]
         /\ committed' \subseteq Cart
  BY DEF TypeOK, Store, Cart

\* A save, seen from outside: one command applied to the call's copy.
LEMMA SaveStores ==
  ASSUME TypeInv, NEW c \in Calls, Save(c)
  PROVE  \E lines \in Changed(copy[c].lines, c, command[c]) :
           /\ [id |-> copy[c].id, lines |-> lines] \in Cart
           /\ Store(c, [id |-> copy[c].id, lines |-> lines], News(copy[c].id, command[c]))
<1>1. copy[c] \in Cart /\ command[c] \in Commands \cup {NoCommand}
  BY DEF TypeInv, TypeOK, Where, Save, Go
<1>2. PICK lines \in Changed(copy[c].lines, c, command[c]) :
        /\ Fits(lines)
        /\ Store(c, [copy[c] EXCEPT !.lines = lines], News(copy[c].id, command[c]))
  BY <1>1 DEF Save, Cart
<1>3. lines \in SUBSET Line
  BY <1>1, <1>2, ChangedType DEF Cart
<1>4. [copy[c] EXCEPT !.lines = lines] = [id |-> copy[c].id, lines |-> lines]
  BY <1>1 DEF Cart
<1> QED BY <1>1, <1>2, <1>3, <1>4 DEF Cart

LEMMA TypeStep == TypeInv /\ [Next]_vars => TypeInv'
<1> SUFFICES ASSUME TypeInv, [Next]_vars PROVE TypeInv'
  OBVIOUS
<1> USE DEF TypeInv
<1>1. CASE Expire
  BY <1>1 DEF Expire, TypeOK, Where
<1>2. ASSUME NEW c \in Calls, Start(c) PROVE TypeInv'
  BY <1>2 DEF Start, Go, TypeOK, Where, Phases
<1>3. ASSUME NEW c \in Calls, Hit(c) PROVE TypeInv'
  BY <1>3 DEF Hit, Go, TypeOK, Where, Phases
<1>4. ASSUME NEW c \in Calls, Miss(c) PROVE TypeInv'
  BY <1>4 DEF Miss, Go, TypeOK, Where, Phases
<1>5. ASSUME NEW c \in Calls, FindCart(c) PROVE TypeInv'
  <2>1. PICK id \in DOMAIN carts : copy' = [copy EXCEPT ![c] = [id |-> id, lines |-> {}]]
    BY <1>5 DEF FindCart
  <2>2. [id |-> id, lines |-> {}] \in Cart
    BY DEF TypeOK, Cart
  <2> QED BY <1>5, <2>1, <2>2 DEF FindCart, Go, TypeOK, Where, Phases
<1>6. ASSUME NEW c \in Calls, FindNone(c) PROVE TypeInv'
  BY <1>6 DEF FindNone, Go, TypeOK, Where, Phases
<1>7. ASSUME NEW c \in Calls, SelectItems(c) PROVE TypeInv'
  <2>1. copy[c] \in Cart /\ carts[copy[c].id] \in SUBSET Line
    BY <1>7 DEF SelectItems, Go, TypeOK, Where
  <2>2. [copy[c] EXCEPT !.lines = carts[copy[c].id]] \in Cart
        /\ [copy[c] EXCEPT !.lines = carts[copy[c].id]].id = copy[c].id
    BY <2>1 DEF Cart
  <2> QED BY <1>7, <2>1, <2>2 DEF SelectItems, Go, TypeOK, Where, Phases
<1>8. ASSUME NEW c \in Calls, Fill(c) PROVE TypeInv'
  BY <1>8 DEF Fill, Go, TypeOK, Where, Phases
<1>9. ASSUME NEW c \in Calls, Create(c) PROVE TypeInv'
  <2>1. [id |-> c, lines |-> {}] \in Cart /\ {[type |-> "CartCreated", cart |-> c]} \subseteq Message
    BY DEF Cart, Message
  <2>2. Store(c, [id |-> c, lines |-> {}], {[type |-> "CartCreated", cart |-> c]})
    BY <1>9 DEF Create
  <2>3. /\ DOMAIN carts' = DOMAIN carts \cup {c}
        /\ TypeOK' /\ copy'[c] \in Cart /\ copy'[c].id = c
        /\ \A d \in Calls \ {c} : copy'[d] = copy[d]
    <3> DEFINE cart == [id |-> c, lines |-> {}]
               news == {[type |-> "CartCreated", cart |-> c]}
    <3>1. phase' \in [Calls -> Phases] /\ UNCHANGED <<cache, command, late, orderly>>
      BY <1>9 DEF Create, Go, TypeOK, Phases
    <3>2. cart \in Cart /\ cart.id = c /\ news \in SUBSET Message /\ Store(c, cart, news)
      BY <2>1, <2>2
    <3> HIDE DEF cart, news
    <3>3. /\ DOMAIN carts' = DOMAIN carts \cup {cart.id} /\ DOMAIN carts' \subseteq Calls
          /\ carts' \in [DOMAIN carts' -> SUBSET Line] /\ announced' \subseteq Message
          /\ copy' \in [Calls -> Cart \cup {NoCart}] /\ copy'[c] = cart
          /\ \A d \in Calls \ {c} : copy'[d] = copy[d]
          /\ committed' \subseteq Cart
      BY <3>2, StoreType
    <3>4. TypeOK'
      BY <3>1, <3>3 DEF TypeOK
    <3> QED BY <3>2, <3>3, <3>4
  <2>4. Where'
    BY <1>9, <2>3 DEF Create, Go, TypeOK, Where
  <2> QED BY <2>3, <2>4
<1>10. ASSUME NEW c \in Calls, Save(c) PROVE TypeInv'
  <2>1. PICK lines \in Changed(copy[c].lines, c, command[c]) :
          /\ [id |-> copy[c].id, lines |-> lines] \in Cart
          /\ Store(c, [id |-> copy[c].id, lines |-> lines], News(copy[c].id, command[c]))
    BY <1>10, SaveStores
  <2>2. copy[c].id \in Calls /\ command[c] \in Commands \cup {NoCommand}
    BY <2>1 DEF Cart, TypeOK
  <2>3. News(copy[c].id, command[c]) \in SUBSET Message
    BY <2>2, NewsType
  <2>4. copy[c].id \in DOMAIN carts
    BY <1>10 DEF Save, Go, Where
  <2>5. /\ DOMAIN carts' = DOMAIN carts
        /\ TypeOK' /\ copy'[c] \in Cart /\ copy'[c].id = copy[c].id
        /\ \A d \in Calls \ {c} : copy'[d] = copy[d]
    <3> DEFINE cart == [id |-> copy[c].id, lines |-> lines]
               news == News(copy[c].id, command[c])
    <3>1. phase' \in [Calls -> Phases] /\ UNCHANGED <<cache, command, late, orderly>>
      BY <1>10 DEF Save, Go, TypeOK, Phases
    <3>2. /\ cart \in Cart /\ cart.id = copy[c].id /\ news \in SUBSET Message
          /\ Store(c, cart, news)
      BY <2>1, <2>3
    <3> HIDE DEF cart, news
    <3>3. /\ DOMAIN carts' = DOMAIN carts \cup {cart.id} /\ DOMAIN carts' \subseteq Calls
          /\ carts' \in [DOMAIN carts' -> SUBSET Line] /\ announced' \subseteq Message
          /\ copy' \in [Calls -> Cart \cup {NoCart}] /\ copy'[c] = cart
          /\ \A d \in Calls \ {c} : copy'[d] = copy[d]
          /\ committed' \subseteq Cart
      BY <3>2, StoreType
    <3>4. TypeOK'
      BY <3>1, <3>3 DEF TypeOK
    <3> QED BY <2>4, <3>2, <3>3, <3>4
  <2>6. Where'
    BY <1>10, <2>4, <2>5 DEF Save, Go, TypeOK, Where
  <2> QED BY <2>5, <2>6
<1>11. ASSUME NEW c \in Calls, Invalidate(c) PROVE TypeInv'
  BY <1>11 DEF Invalidate, Go, TypeOK, Where, Phases
<1>12. ASSUME NEW c \in Calls, Answer(c) PROVE TypeInv'
  BY <1>12 DEF Answer, Go, TypeOK, Where, Phases
<1>13. ASSUME NEW c \in Calls, Fail(c) PROVE TypeInv'
  BY <1>13 DEF Fail, Running, TypeOK, Where, Phases
<1>14. CASE UNCHANGED vars
  BY <1>14 DEF vars, TypeOK, Where
<1> QED
  BY <1>1, <1>2, <1>3, <1>4, <1>5, <1>6, <1>7, <1>8, <1>9, <1>10, <1>11, <1>12, <1>13, <1>14
  DEF Next

-----------------------------------------------------------------------------
(* Lines *)

\* Where a cart may come from that nobody held before: it is empty, or a command was
\* applied to a cart somebody held and was announced.
Derived(cart) ==
  \/ cart.lines = {}
  \/ \E old \in Held, c \in Calls, m \in Commands \cup {NoCommand} :
       /\ old.lines \in SUBSET Line
       /\ cart.id = old.id
       /\ cart.lines \in Changed(old.lines, c, m)
       /\ News(cart.id, m) \subseteq announced'

LEMMA EveryStep ==
  ASSUME TypeInv, [Next]_vars
  PROVE  /\ announced \subseteq announced'
         /\ \A cart \in Held' : cart \in Held \/ Derived(cart)
<1> USE DEF TypeInv
<1>1. ASSUME NEW c \in Calls, NEW cart \in Cart, NEW messages \in SUBSET Message,
             Store(c, cart, messages), cache' = cache
      PROVE  announced \subseteq announced' /\ \A x \in Held' : x \in Held \/ x = cart
  <2>1. announced \subseteq announced' /\ copy' = [copy EXCEPT ![c] = cart]
    BY <1>1 DEF Store
  <2>2. ASSUME NEW id \in DOMAIN carts'
        PROVE  [id |-> id, lines |-> carts'[id]] \in Held \cup {cart}
    <3>1. carts' = [x \in DOMAIN carts \cup {cart.id} |->
                     IF x = cart.id THEN cart.lines ELSE carts[x]]
      BY <1>1 DEF Store
    <3>2. \/ id = cart.id /\ carts'[id] = cart.lines
          \/ id \in DOMAIN carts /\ carts'[id] = carts[id]
      BY <2>2, <3>1
    <3>3. [id |-> cart.id, lines |-> cart.lines] = cart
      BY DEF Cart
    <3> QED BY <3>2, <3>3 DEF Held
  <2>3. ASSUME NEW d \in Calls PROVE copy'[d] \in Held \cup {cart}
    BY <2>1 DEF Held, TypeOK
  <2> QED BY <1>1, <2>1, <2>2, <2>3 DEF Held
<1>2. ASSUME UNCHANGED <<carts, announced>>,
             cache' \in Held \cup {NoCart},
             \A c \in Calls : copy'[c] \in Held \/ copy'[c].lines = {}
      PROVE  announced \subseteq announced' /\ \A x \in Held' : x \in Held \/ Derived(x)
  BY <1>2, NoCartHasNoLines DEF Held, Derived
<1>3. \A c \in Calls : copy[c] \in Held
  BY DEF Held
<1>4. cache \in Held
  BY DEF Held
<1>5. CASE Expire
  BY <1>2, <1>3, <1>5 DEF Expire
<1>6. ASSUME NEW c \in Calls,
             Start(c) \/ Miss(c) \/ FindNone(c) \/ Invalidate(c) \/ Answer(c) \/ Fail(c)
      PROVE  announced \subseteq announced' /\ \A x \in Held' : x \in Held \/ Derived(x)
  BY <1>2, <1>3, <1>4, <1>6 DEF Start, Miss, FindNone, Invalidate, Answer, Fail
<1>7. ASSUME NEW c \in Calls, Hit(c) \/ Fill(c)
      PROVE  announced \subseteq announced' /\ \A x \in Held' : x \in Held \/ Derived(x)
  BY <1>2, <1>3, <1>4, <1>7 DEF Hit, Fill, TypeOK
<1>8. ASSUME NEW c \in Calls, FindCart(c)
      PROVE  announced \subseteq announced' /\ \A x \in Held' : x \in Held \/ Derived(x)
  BY <1>2, <1>3, <1>4, <1>8 DEF FindCart, TypeOK
<1>9. ASSUME NEW c \in Calls, SelectItems(c)
      PROVE  announced \subseteq announced' /\ \A x \in Held' : x \in Held \/ Derived(x)
  <2>1. copy[c] \in Cart /\ copy[c].id \in DOMAIN carts
    BY <1>9 DEF SelectItems, Go, Where
  <2>2. copy' = [copy EXCEPT ![c] = [id |-> copy[c].id, lines |-> carts[copy[c].id]]]
    <3>1. [copy[c] EXCEPT !.lines = carts[copy[c].id]]
            = [id |-> copy[c].id, lines |-> carts[copy[c].id]]
      BY <2>1 DEF Cart
    <3> QED BY <1>9, <3>1 DEF SelectItems, TypeOK
  <2>3. [id |-> copy[c].id, lines |-> carts[copy[c].id]] \in Held
    BY <2>1 DEF Held
  <2>4. \A d \in Calls : copy'[d] \in Held
    BY <1>3, <2>2, <2>3 DEF TypeOK
  <2> QED BY <1>2, <1>4, <1>9, <2>4 DEF SelectItems
<1>10. ASSUME NEW c \in Calls, Create(c)
       PROVE  announced \subseteq announced' /\ \A x \in Held' : x \in Held \/ Derived(x)
  <2>1. [id |-> c, lines |-> {}] \in Cart /\ {[type |-> "CartCreated", cart |-> c]} \in SUBSET Message
    BY DEF Cart, Message
  <2>2. Store(c, [id |-> c, lines |-> {}], {[type |-> "CartCreated", cart |-> c]}) /\ cache' = cache
    BY <1>10 DEF Create
  <2> QED BY <1>1, <2>1, <2>2 DEF Derived
<1>11. ASSUME NEW c \in Calls, Save(c)
       PROVE  announced \subseteq announced' /\ \A x \in Held' : x \in Held \/ Derived(x)
  <2>1. PICK lines \in Changed(copy[c].lines, c, command[c]) :
          /\ [id |-> copy[c].id, lines |-> lines] \in Cart
          /\ Store(c, [id |-> copy[c].id, lines |-> lines], News(copy[c].id, command[c]))
    BY <1>11, SaveStores
  <2>2. copy[c] \in Cart /\ command[c] \in Commands \cup {NoCommand} /\ cache' = cache
    BY <1>11 DEF Save, Go, Where, TypeOK
  <2>3. News(copy[c].id, command[c]) \in SUBSET Message
    BY <2>2, NewsType DEF Cart
  <2> DEFINE new == [id |-> copy[c].id, lines |-> lines]
  <2>4. News(copy[c].id, command[c]) \subseteq announced'
    BY <2>1 DEF Store
  <2>5. new.id = copy[c].id /\ new.lines = lines
    OBVIOUS
  <2>6. Derived(new)
    <3> HIDE DEF new
    <3> QED BY <1>3, <2>1, <2>2, <2>4, <2>5 DEF Derived, Cart
  <2> QED BY <1>1, <2>1, <2>2, <2>3, <2>6
<1>12. CASE UNCHANGED vars
  BY <1>2, <1>3, <1>4, <1>12 DEF vars
<1> QED
  BY <1>5, <1>6, <1>7, <1>8, <1>9, <1>10, <1>11, <1>12 DEF Next

LEMMA LinesInit == Init => OneLinePerProduct /\ LinesAnnounced
  BY DEF Init, OneLinePerProduct, LinesAnnounced, Held, Merged, NoCart

LEMMA MergedStep ==
  ASSUME TypeInv, OneLinePerProduct, [Next]_vars
  PROVE  OneLinePerProduct'
<1> SUFFICES ASSUME NEW cart \in Held' PROVE Merged(cart.lines)
  BY DEF OneLinePerProduct
<1>1. cart \in Held \/ Derived(cart)
  BY EveryStep
<1>2. CASE cart \in Held
  BY <1>2 DEF OneLinePerProduct
<1>3. CASE Derived(cart)
  BY <1>3, ChangedMerged DEF Derived, OneLinePerProduct, Merged
<1> QED BY <1>1, <1>2, <1>3

LEMMA AnnouncedStep ==
  ASSUME TypeInv, LinesAnnounced, [Next]_vars
  PROVE  LinesAnnounced'
<1> SUFFICES ASSUME NEW cart \in Held', NEW l \in cart.lines
             PROVE  [type |-> "CartItemAdded", cart |-> cart.id, product |-> l.product]
                      \in announced'
  BY DEF LinesAnnounced
<1>1. announced \subseteq announced' /\ (cart \in Held \/ Derived(cart))
  BY EveryStep
<1>2. CASE cart \in Held
  BY <1>1, <1>2 DEF LinesAnnounced
<1>3. CASE Derived(cart)
  <2>1. PICK old \in Held, c \in Calls, m \in Commands \cup {NoCommand} :
          /\ old.lines \in SUBSET Line
          /\ cart.id = old.id
          /\ cart.lines \in Changed(old.lines, c, m)
          /\ News(cart.id, m) \subseteq announced'
    BY <1>3 DEF Derived
  <2>2. \/ \E k \in old.lines : k.product = l.product
        \/ [type |-> "CartItemAdded", cart |-> cart.id, product |-> l.product] \in News(cart.id, m)
    BY <2>1, ChangedNews
  <2> QED BY <1>1, <2>1, <2>2 DEF LinesAnnounced
<1> QED BY <1>1, <1>2, <1>3

\* Types of the cart module, for any number of calls.
THEOREM TypeCorrect == Spec => []TypeOK
<1>1. Spec => []TypeInv
  BY TypeInit, TypeStep, PTL DEF Spec
<1> QED BY <1>1, PTL DEF TypeInv

\* Saves may cross, caches may be old: no cart anywhere has a product twice.
THEOREM LinesStayMerged == Spec => []OneLinePerProduct
<1>1. TypeInv /\ OneLinePerProduct /\ [Next]_vars => TypeInv' /\ OneLinePerProduct'
  BY TypeStep, MergedStep
<1> QED BY <1>1, TypeInit, LinesInit, PTL DEF Spec

\* Nor is there a line that was never announced.
THEOREM LinesStayAnnounced == Spec => []LinesAnnounced
<1>1. TypeInv /\ LinesAnnounced /\ [Next]_vars => TypeInv' /\ LinesAnnounced'
  BY TypeStep, AnnouncedStep
<1> QED BY <1>1, TypeInit, LinesInit, PTL DEF Spec
-----------------------------------------------------------------------------
(* The cache *)

\* Every stored cart was stored by some transaction, and so was what a call has taken
\* from the database or the cache.
StoredWasStored ==
  /\ \A id \in DOMAIN carts : [id |-> id, lines |-> carts[id]] \in committed
  /\ cache # NoCart => cache \in committed
  /\ \A c \in Calls : phase[c] \in {"filling", "created", "loaded"} => copy[c] \in committed

\* While calls come one after the other, the call that runs has read what is stored,
\* no cart is created beside another, and the entry is current unless that call has
\* just saved.
Orderly ==
  /\ \A c, d \in Calls : Running(c) /\ Running(d) => c = d
  /\ \A x, y \in DOMAIN carts : x = y
  /\ \A c \in Calls :
       /\ phase[c] = "absent" => DOMAIN carts = {}
       /\ phase[c] \in {"filling", "created", "loaded"} => carts[copy[c].id] = copy[c].lines
  /\ cache # NoCart /\ (\A c \in Calls : phase[c] # "saved") => cache.lines = carts[cache.id]

CacheInv == TypeInv /\ StoredWasStored /\ CacheIsCurrent /\ (orderly => Orderly)
LEMMA StoredCarts ==
  ASSUME TypeOK, NEW c \in Calls, NEW cart \in Cart, NEW messages, Store(c, cart, messages)
  PROVE  /\ DOMAIN carts' = DOMAIN carts \cup {cart.id}
         /\ carts'[cart.id] = cart.lines
         /\ \A id \in DOMAIN carts \ {cart.id} : carts'[id] = carts[id]
         /\ committed' = committed \cup {cart}
         /\ copy'[c] = cart /\ \A d \in Calls \ {c} : copy'[d] = copy[d]
         /\ cart = [id |-> cart.id, lines |-> cart.lines]
BY DEF Store, TypeOK, Cart

LEMMA CreateStores ==
  ASSUME TypeInv, NEW c \in Calls, Create(c)
  PROVE  \E cart \in Cart : \E messages :
           /\ Store(c, cart, messages)
           /\ cart.id = c /\ c \notin DOMAIN carts
<1>1. [id |-> c, lines |-> {}] \in Cart
  BY DEF Cart
<1>2. c \notin DOMAIN carts
  BY DEF Create, Go, TypeInv, Where
<1> QED BY <1>1, <1>2 DEF Create

\* A save stores a cart under the id of one that is stored.
LEMMA SaveReplaces ==
  ASSUME TypeInv, NEW c \in Calls, Save(c)
  PROVE  \E cart \in Cart : \E messages :
           /\ Store(c, cart, messages)
           /\ cart.id = copy[c].id /\ cart.id \in DOMAIN carts
<1>1. PICK lines \in Changed(copy[c].lines, c, command[c]) :
        /\ [id |-> copy[c].id, lines |-> lines] \in Cart
        /\ Store(c, [id |-> copy[c].id, lines |-> lines], News(copy[c].id, command[c]))
  BY SaveStores
<1>2. copy[c].id \in DOMAIN carts
  BY DEF Save, Go, TypeInv, Where
<1> QED BY <1>1, <1>2

LEMMA WasStoredStep ==
  ASSUME TypeInv, StoredWasStored, [Next]_vars
  PROVE  StoredWasStored'
<1> USE DEF StoredWasStored
<1>1. CASE Expire
  BY <1>1 DEF Expire
<1>2. CASE UNCHANGED vars
  BY <1>2 DEF vars
<1>3. ASSUME NEW c \in Calls, Start(c) \/ Miss(c) \/ FindNone(c) \/ Answer(c)
      PROVE  StoredWasStored'
  BY <1>3 DEF Start, Miss, FindNone, Answer, Go, TypeInv, TypeOK
<1>4. ASSUME NEW c \in Calls, Fail(c) PROVE StoredWasStored'
  BY <1>4 DEF Fail, TypeInv, TypeOK
<1>5. ASSUME NEW c \in Calls, Hit(c) PROVE StoredWasStored'
  BY <1>5 DEF Hit, Go, TypeInv, TypeOK
<1>6. ASSUME NEW c \in Calls, FindCart(c) PROVE StoredWasStored'
  BY <1>6 DEF FindCart, Go, TypeInv, TypeOK
<1>7. ASSUME NEW c \in Calls, SelectItems(c) PROVE StoredWasStored'
  <2>1. copy[c] \in Cart /\ copy[c].id \in DOMAIN carts
    BY <1>7 DEF SelectItems, Go, TypeInv, Where
  <2>2. [copy[c] EXCEPT !.lines = carts[copy[c].id]] = [id |-> copy[c].id, lines |-> carts[copy[c].id]]
    BY <2>1 DEF Cart
  <2>3. copy'[c] \in committed
    BY <1>7, <2>1, <2>2 DEF SelectItems, TypeInv, TypeOK
  <2> QED BY <1>7, <2>3 DEF SelectItems, Go, TypeInv, TypeOK
<1>8. ASSUME NEW c \in Calls, Fill(c) PROVE StoredWasStored'
  BY <1>8 DEF Fill, Go, TypeInv, TypeOK
<1>9. ASSUME NEW c \in Calls, Invalidate(c) PROVE StoredWasStored'
  BY <1>9 DEF Invalidate, Go, TypeInv, TypeOK
<1>10. ASSUME NEW c \in Calls, Create(c) \/ Save(c) PROVE StoredWasStored'
  <2>1. PICK cart, messages : cart \in Cart /\ Store(c, cart, messages)
    BY <1>10, CreateStores, SaveReplaces
  <2>2. TypeOK
    BY DEF TypeInv
  <2>3. UNCHANGED cache /\ \A d \in Calls \ {c} : phase'[d] = phase[d]
    BY <1>10, <2>2 DEF Create, Save, Go, TypeOK
  <2>4. /\ DOMAIN carts' = DOMAIN carts \cup {cart.id}
        /\ carts'[cart.id] = cart.lines
        /\ \A id \in DOMAIN carts \ {cart.id} : carts'[id] = carts[id]
        /\ committed' = committed \cup {cart}
        /\ copy'[c] = cart /\ \A d \in Calls \ {c} : copy'[d] = copy[d]
        /\ cart = [id |-> cart.id, lines |-> cart.lines]
    BY <2>1, <2>2, StoredCarts
  <2>5. \A id \in DOMAIN carts' : [id |-> id, lines |-> carts'[id]] \in committed'
    <3> SUFFICES ASSUME NEW id \in DOMAIN carts'
                 PROVE  [id |-> id, lines |-> carts'[id]] \in committed'
      OBVIOUS
    <3>1. CASE id = cart.id
      BY <2>4, <3>1
    <3>2. CASE id # cart.id
      BY <2>4, <3>2
    <3> QED BY <3>1, <3>2
  <2> QED BY <2>3, <2>4, <2>5
<1> QED
  BY <1>1, <1>2, <1>3, <1>4, <1>5, <1>6, <1>7, <1>8, <1>9, <1>10 DEF Next

LEMMA CurrentStep ==
  ASSUME TypeInv, CacheIsCurrent, [Next]_vars
  PROVE  CacheIsCurrent'
<1> USE DEF CacheIsCurrent
<1>1. CASE Expire
  BY <1>1 DEF Expire
<1>2. CASE UNCHANGED vars
  BY <1>2 DEF vars
<1>3. ASSUME NEW c \in Calls,
             \/ Start(c) \/ Hit(c) \/ Miss(c) \/ FindCart(c) \/ FindNone(c) \/ SelectItems(c)
             \/ Answer(c)
      PROVE  CacheIsCurrent'
  <2>1. UNCHANGED <<carts, cache, late>> /\ phase[c] # "saved"
    BY <1>3 DEF Start, Hit, Miss, FindCart, FindNone, SelectItems, Answer, Go
  <2>2. \A d \in Calls \ {c} : phase'[d] = phase[d] /\ copy'[d] = copy[d]
    BY <1>3 DEF Start, Hit, Miss, FindCart, FindNone, SelectItems, Answer, Go, TypeInv, TypeOK
  <2> QED BY <2>1, <2>2
<1>4. ASSUME NEW c \in Calls, Fail(c) PROVE CacheIsCurrent'
  BY <1>4 DEF Fail, TypeInv, TypeOK
<1>5. ASSUME NEW c \in Calls, Fill(c) PROVE CacheIsCurrent'
  BY <1>5 DEF Fill
<1>6. ASSUME NEW c \in Calls, Invalidate(c) PROVE CacheIsCurrent'
  BY <1>6 DEF Invalidate
<1>7. ASSUME NEW c \in Calls, Create(c) \/ Save(c), cache' # NoCart, ~late'
      PROVE  \/ cache'.lines = carts'[cache'.id]
             \/ \E d \in Calls : phase'[d] = "saved" /\ copy'[d].id = cache'.id
  <2>1. PICK cart, messages :
          /\ cart \in Cart /\ Store(c, cart, messages)
          /\ \/ Create(c) /\ cart.id \notin DOMAIN carts
             \/ Save(c) /\ cart.id \in DOMAIN carts
    BY <1>7, CreateStores, SaveReplaces
  <2>2. TypeOK /\ UNCHANGED <<cache, late>> /\ cache.id \in DOMAIN carts
    BY <1>7 DEF Create, Save, TypeInv, Where
  <2>3. /\ \A id \in DOMAIN carts \ {cart.id} : carts'[id] = carts[id]
        /\ copy'[c] = cart /\ \A d \in Calls \ {c} : copy'[d] = copy[d]
    BY <2>1, <2>2, StoredCarts
  <2>4. CASE cart.id = cache.id
    BY <2>1, <2>2, <2>3, <2>4 DEF Save, Go, TypeOK
  <2>5. CASE cart.id # cache.id
    <3>1. \A d \in Calls : phase[d] = "saved" => d # c /\ phase'[d] = "saved"
      BY <2>1, <2>2 DEF Create, Save, Go, TypeOK
    <3> QED BY <1>7, <2>2, <2>3, <2>5, <3>1
  <2> QED BY <2>4, <2>5
<1> QED
  BY <1>1, <1>2, <1>3, <1>4, <1>5, <1>6, <1>7 DEF Next
LEMMA OrderlyStep ==
  ASSUME TypeInv, orderly => Orderly, [Next]_vars, orderly'
  PROVE  Orderly'
<1>1. orderly
  BY DEF Next, Expire, Start, Hit, Miss, FindCart, FindNone, SelectItems, Fill, Create, Save,
         Invalidate, Answer, Fail, vars
<1>2. Orderly
  BY <1>1
<1> USE DEF Orderly, Running
<1>3. CASE Expire
  BY <1>2, <1>3 DEF Expire
<1>4. CASE UNCHANGED vars
  BY <1>2, <1>4 DEF vars
<1>5. ASSUME NEW c \in Calls, Start(c) PROVE Orderly'
  <2>1. \A d \in Calls : ~Running(d)
    BY <1>5 DEF Start
  <2> QED BY <1>2, <1>5, <2>1 DEF Start, Go, TypeInv, TypeOK
<1>6. ASSUME NEW c \in Calls, Hit(c) PROVE Orderly'
  <2>1. \A d \in Calls : phase[d] # "saved"
    BY <1>2, <1>6 DEF Hit, Go
  <2> QED BY <1>2, <1>6, <2>1 DEF Hit, Go, TypeInv, TypeOK
<1>7. ASSUME NEW c \in Calls, Miss(c) PROVE Orderly'
  BY <1>2, <1>7 DEF Miss, Go, TypeInv, TypeOK
<1>8. ASSUME NEW c \in Calls, FindCart(c) PROVE Orderly'
  BY <1>2, <1>8 DEF FindCart, Go, TypeInv, TypeOK
<1>9. ASSUME NEW c \in Calls, FindNone(c) PROVE Orderly'
  BY <1>2, <1>9 DEF FindNone, Go, TypeInv, TypeOK
<1>10. ASSUME NEW c \in Calls, SelectItems(c) PROVE Orderly'
  <2>1. copy[c] \in Cart /\ copy[c].id \in DOMAIN carts
    BY <1>10 DEF SelectItems, Go, TypeInv, Where
  <2>2. copy'[c].id = copy[c].id /\ copy'[c].lines = carts[copy[c].id]
    BY <1>10, <2>1 DEF SelectItems, Cart, TypeInv, TypeOK
  <2> QED BY <1>2, <1>10, <2>2 DEF SelectItems, Go, TypeInv, TypeOK
<1>11. ASSUME NEW c \in Calls, Fill(c) PROVE Orderly'
  BY <1>2, <1>11 DEF Fill, Go, TypeInv, TypeOK
<1>12. ASSUME NEW c \in Calls, Invalidate(c) PROVE Orderly'
  BY <1>2, <1>12 DEF Invalidate, Go, TypeInv, TypeOK
<1>13. ASSUME NEW c \in Calls, Answer(c) PROVE Orderly'
  BY <1>2, <1>13 DEF Answer, Go, TypeInv, TypeOK
<1>14. ASSUME NEW c \in Calls, Fail(c) PROVE Orderly'
  <2>1. phase[c] # "saved"
    BY <1>14 DEF Fail
  <2> QED BY <1>2, <1>14, <2>1 DEF Fail, TypeInv, TypeOK
<1>15. ASSUME NEW c \in Calls, Create(c) \/ Save(c) PROVE Orderly'
  <2>1. PICK cart, messages :
          /\ cart \in Cart /\ Store(c, cart, messages)
          /\ \/ Create(c) /\ cart.id \notin DOMAIN carts
             \/ Save(c) /\ cart.id \in DOMAIN carts
    BY <1>15, CreateStores, SaveReplaces
  <2>2. TypeOK
    BY DEF TypeInv
  <2>3. /\ DOMAIN carts' = DOMAIN carts \cup {cart.id}
        /\ carts'[cart.id] = cart.lines
        /\ copy'[c] = cart
    BY <2>1, <2>2, StoredCarts
  <2>4. \A d \in Calls \ {c} : phase'[d] = phase[d] /\ ~Running(d)
    BY <1>2, <2>1, <2>2 DEF Create, Save, Go, TypeOK
  <2>5. CASE Create(c)
    <3>1. DOMAIN carts = {} /\ phase'[c] = "created"
      BY <1>2, <2>2, <2>5 DEF Create, Go, TypeOK
    <3>2. cache = NoCart /\ cache' = NoCart
      BY <2>5, <3>1 DEF Create, TypeInv, Where
    <3> QED BY <2>3, <2>4, <3>1, <3>2
  <2>6. CASE Save(c)
    <3>1. phase'[c] = "saved" /\ cart.id \in DOMAIN carts
      BY <2>1, <2>2, <2>6 DEF Create, Save, Go, TypeOK
    <3> QED BY <1>2, <2>3, <2>4, <3>1
  <2> QED BY <1>15, <2>5, <2>6
<1> QED
  BY <1>3, <1>4, <1>5, <1>6, <1>7, <1>8, <1>9, <1>10, <1>11, <1>12, <1>13, <1>14, <1>15
  DEF Next

LEMMA CacheInvariance == Spec => []CacheInv
<1>1. Init => CacheInv
  BY TypeInit DEF Init, CacheInv, StoredWasStored, CacheIsCurrent, Orderly, Running
<1>2. CacheInv /\ [Next]_vars => CacheInv'
  BY TypeStep, WasStoredStep, CurrentStep, OrderlyStep DEF CacheInv
<1> QED BY <1>1, <1>2, PTL DEF Spec

\* A call works on a cart, and the cache serves one, as some transaction left it.
THEOREM LoadedWasCommitted == Spec => []LoadedWasStored
<1>1. CacheInv => LoadedWasStored
  BY DEF CacheInv, StoredWasStored, LoadedWasStored
<1> QED BY <1>1, CacheInvariance, PTL

\* The entry agrees with the database, unless it was filled or kept when it was old or a
\* call that has saved is about to delete it.
THEOREM CacheStaysCurrent == Spec => []CacheIsCurrent
<1>1. CacheInv => CacheIsCurrent
  BY DEF CacheInv
<1> QED BY <1>1, CacheInvariance, PTL

\* Calls that come one after the other read what they wrote, in one cart.
THEOREM OrderlyCallsReadTheirWrites == Spec => []ReadsOwnWrites
<1>1. CacheInv => ReadsOwnWrites
  <2> SUFFICES ASSUME Orderly PROVE Cardinality(DOMAIN carts) <= 1
    BY DEF CacheInv, Orderly, ReadsOwnWrites
  <2>1. CASE DOMAIN carts = {}
    BY <2>1, FS_EmptySet
  <2>2. CASE DOMAIN carts # {}
    <3>1. PICK x : DOMAIN carts = {x}
      BY <2>2 DEF Orderly
    <3>2. Cardinality(DOMAIN carts) = 1
      BY <3>1, FS_Singleton
    <3> QED BY <3>2
  <2> QED BY <2>1, <2>2
<1> QED BY <1>1, CacheInvariance, PTL
=============================================================================
