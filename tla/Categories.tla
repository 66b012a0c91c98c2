------------------------------ MODULE Categories ------------------------------
(***************************************************************************)
(* modules/catalog: the tree of categories.  A category is loaded, its new *)
(* parent is looked up, and its row is saved; nothing is looked up beyond  *)
(* the parent itself, so that a move can close a circle.  Names and slugs  *)
(* are left out: a slug that is taken is a reason for Fail.                *)
(*                                                                         *)
(* Operators whose name starts with Bug are mistakes the code does not     *)
(* make, put in place of the operator that follows them to see that a      *)
(* property notices.                                                       *)
(***************************************************************************)
EXTENDS Handler

CONSTANT None

Command == [do : {"create"}, parent : Ids \cup {None}]
           \cup [do : {"update"}, category : Ids, parent : Ids \cup {None, "same"}]

\* Going up from a category ends at a root: no categories have all their parents among
\* themselves.
IsForest(k) == \A s \in SUBSET DOMAIN k : s # {} => \E i \in s : k[i] \notin s

Init ==
  /\ HandlerInit
  /\ \E ids \in SUBSET Earlier :
       \E k \in [ids -> ids \cup {None}] : IsForest(k) /\ db = k

\* findById of the category that a call changes.
Find(c) ==
  /\ command[c].do = "update" => command[c].category \in DOMAIN db
  /\ Take(c, "begun", "loaded", db)

\* findById of a new parent, and changeParent.
BugMayMove(k, m) == m.parent \in DOMAIN k \cup {None, "same"}
MayMove(k, m) ==
  /\ m.parent \in DOMAIN k \cup {None, "same"}
  /\ m.do = "update" => m.parent # m.category

Moved(parent, m) == IF m.parent = "same" THEN parent ELSE m.parent

BugStored(old, new) == old
\* A parent that the copy does not have is undefined for Prisma, which leaves the column.
Stored(old, new) == IF new = None THEN old ELSE new

About(i) == {c \in Calls : command[c].do = "update" /\ command[c].category = i}

\* PrismaCategoryRepository.save.
Write(c, i, parent) ==
  /\ MayMove(db, command[c])
  /\ CommitPast(c, "loaded", "ok", Upserted(db, [j \in {i} |-> parent]), About(i))

Create(c) == command[c].do = "create" /\ Write(c, c, command[c].parent)

Update(c) ==
  LET i == command[c].category IN
  /\ command[c].do = "update"
  /\ phase[c] = "loaded"
  /\ Write(c, i, Stored(db[i], Moved(copy[c][i], command[c])))

Next ==
  \E c \in Calls :
    \/ \E m \in Command : Begin(c, m)
    \/ Find(c) \/ Create(c) \/ Update(c) \/ Fail(c)

-----------------------------------------------------------------------------
(* Properties *)

IsCategories(k) == DOMAIN k \subseteq Ids /\ k \in [DOMAIN k -> DOMAIN k \cup {None}]

\* Every variable has its type.
TypeOK ==
  /\ HandlerTypeOK(Command)
  /\ IsCategories(db)
  /\ \A c \in Calls : IsCategories(copy[c])

Moves == {c \in Calls : phase[c] = "ok" /\ command[c].do = "update"
                          /\ command[c].parent \notin {None, "same"}}

\* Categories are below a root unless one was moved, and none is below itself.  Unless a
\* save has undone another, a category is where the answers to its moves agree that it is.
MovesAreKept ==
  /\ Moves = {} => IsForest(db)
  /\ \A i \in DOMAIN db : db[i] # i
  /\ faults = {} =>
       \A i \in DOMAIN db, parent \in DOMAIN db :
         LET moves == {c \in Moves : command[c].category = i} IN
         moves # {} /\ (\A c \in moves : command[c].parent = parent) => db[i] = parent
=============================================================================
