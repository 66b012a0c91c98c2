-------------------------------- MODULE Catalog --------------------------------
(***************************************************************************)
(* modules/catalog and modules/search: one product, the outbox messages    *)
(* that carry snapshots of it, and its document in the search index.       *)
(* Name and slug are one value, named by the call that wrote it; variants, *)
(* images and options have no call that changes them.                      *)
(*                                                                         *)
(* Operators whose name starts with Bug are mistakes the code does not     *)
(* make, put in place of the operator that follows them to see that a      *)
(* property notices.                                                       *)
(***************************************************************************)
EXTENDS Handler

CONSTANTS Prices, Categories, None

Product == [status : {"DRAFT", "PUBLISHED", "ARCHIVED"}, details : Calls, price : Prices,
            category : Categories \cup {None}]
Message == [type : {"created", "updated"}, product : Product]

Command == [do : {"create"}, price : Prices, category : Categories \cup {None}]
           \cup [do : {"update"}, rename : BOOLEAN, category : Categories \cup {None, "same"}]
           \cup [do : {"changePrice"}, price : Prices]
           \cup [do : {"publish", "archive"}]

\* The product and its document, as sets of at most one element, and the messages that are
\* not processed, oldest first.
Init ==
  /\ HandlerInit
  /\ db = [product |-> {}, messages |-> <<>>, document |-> {}]

Tell(tables, type, p) ==
  [tables EXCEPT !.messages = Append(@, [type |-> type, product |-> p])]

Create(c) ==
  /\ command[c].do = "create"
  /\ db.product = {}
  /\ LET p == [status |-> "DRAFT", details |-> c, price |-> command[c].price,
               category |-> command[c].category] IN
     /\ Go(c, "begun", "ok")
     /\ db' = Tell([db EXCEPT !.product = {p}], "created", p)
     /\ UNCHANGED <<command, copy, current, faults>>

\* findById
Find(c) ==
  /\ command[c].do # "create"
  /\ \E p \in db.product : Take(c, "begun", "loaded", p)

-----------------------------------------------------------------------------
(* The methods of Product, on a copy. *)

BugUpdated(p, c, m) ==
  [p EXCEPT !.details = IF m.rename THEN c ELSE @, !.category = m.category]
\* updateDetails; no category in the command leaves it, None takes it away.
Updated(p, c, m) ==
  [p EXCEPT !.details = IF m.rename THEN c ELSE @,
            !.category = IF m.category = "same" THEN @ ELSE m.category]

Allowed(p, m) ==
  CASE m.do = "publish" -> p.status = "DRAFT"
    [] OTHER -> p.status # "ARCHIVED"

Changed(p, c, m) ==
  CASE m.do = "update" -> Updated(p, c, m)
    [] m.do = "changePrice" -> [p EXCEPT !.price = m.price]
    [] m.do = "publish" -> [p EXCEPT !.status = "PUBLISHED"]
    [] m.do = "archive" -> [p EXCEPT !.status = "ARCHIVED"]

\* ProductUpdatedEvent is raised unless the call finds nothing to change.
BugTold(p, m) == m.do \in {"publish", "update"}
Told(p, m) ==
  CASE m.do = "update" ->
         m.rename \/ m.category \notin {"same", p.category} \/ m.category = None
    [] m.do = "changePrice" -> m.price # p.price
    [] OTHER -> TRUE

\* PrismaProductRepository.save.  A category that the copy does not have is undefined for
\* Prisma, which leaves the column as it is.
Row(p) ==
  {[p EXCEPT !.category = IF @ = None THEN q.category ELSE @] : q \in db.product}

\* A save, also when nothing changed.
Save(c) ==
  LET p == Changed(copy[c], c, command[c])
      tables == [db EXCEPT !.product = Row(p)] IN
  /\ phase[c] = "loaded" /\ Allowed(copy[c], command[c])
  /\ Commit(c, "loaded", "ok",
            IF Told(copy[c], command[c]) THEN Tell(tables, "updated", p) ELSE tables)

-----------------------------------------------------------------------------
(* The outbox worker and ProductIndexer. *)

\* Only a document that is there can be updated.
Indexed(message) ==
  IF message.type = "created" \/ db.document # {} THEN {message.product} ELSE {}

\* A message is handled; then it is marked as processed, or its worker stops before that.
Deliver ==
  /\ db.messages # <<>>
  /\ \E p \in Indexed(Head(db.messages)) :
       \/ db' = [db EXCEPT !.messages = Tail(@), !.document = {p}]
       \/ db' = [db EXCEPT !.document = {p}]
  /\ UNCHANGED <<phase, command, copy, current, faults>>

\* A message fails, or another worker still holds it: it is handled after later ones.
Delay ==
  /\ Len(db.messages) > 1
  /\ db' = [db EXCEPT !.messages = Append(Tail(@), Head(@))]
  /\ faults' = faults \cup {"outOfOrder"}
  /\ UNCHANGED <<phase, command, copy, current>>

Next ==
  \/ Deliver \/ Delay
  \/ \E c \in Calls :
       \/ \E m \in Command : Begin(c, m)
       \/ Create(c) \/ Find(c) \/ Save(c) \/ Fail(c)

-----------------------------------------------------------------------------
(* Properties *)

AtMostOne(s) == \A p, q \in s : p = q

\* Every variable has its type.
TypeOK ==
  /\ HandlerTypeOK(Command)
  /\ db.product \subseteq Product /\ AtMostOne(db.product)
  /\ db.document \subseteq Product /\ AtMostOne(db.document)
  /\ db.messages \in Seq(Message)
  /\ \A c \in Calls : phase[c] = "loaded" => copy[c] \in Product

\* When no save has undone another and no message was handled out of order, the document
\* is the product once every message is handled: in everything but a category that a call
\* took away, which the row keeps and the document loses.
IndexFollowsCatalog ==
  faults = {} /\ db.messages = <<>> =>
    /\ db.product = {} <=> db.document = {}
    /\ \A p \in db.product, d \in db.document :
         d \in {p, [p EXCEPT !.category = None]}
=============================================================================
