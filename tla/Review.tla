--------------------------------- MODULE Review ---------------------------------
(***************************************************************************)
(* modules/review: one review of a product and the images of it in object  *)
(* storage.  An image is uploaded between the load and the save.           *)
(*                                                                         *)
(* Operators whose name starts with Bug are mistakes the code does not     *)
(* make, put in place of the operator that follows them to see that a      *)
(* property notices.                                                       *)
(***************************************************************************)
EXTENDS Handler

Command == [do : {"create", "update", "addImage", "publish"}]
Review == [published : BOOLEAN, text : Calls, media : SUBSET Calls]

\* The review, as a set of at most one element, and the stored objects.
Init == HandlerInit /\ db = [review |-> {}, objects |-> {}]

Create(c) ==
  /\ command[c].do = "create"
  /\ db.review = {}
  /\ Go(c, "begun", "ok")
  /\ db' = [db EXCEPT !.review = {[published |-> FALSE, text |-> c, media |-> {}]}]
  /\ UNCHANGED <<command, copy, current, faults>>

\* findById
Find(c) ==
  /\ command[c].do # "create"
  /\ \E r \in db.review : Take(c, "begun", "loaded", r)

Upload(c) ==
  /\ command[c].do = "addImage"
  /\ Go(c, "loaded", "written")
  /\ db' = [db EXCEPT !.objects = @ \cup {c}]
  /\ UNCHANGED <<command, copy, current, faults>>

\* The methods of Review, on a copy: nothing changes a published one.
BugChanged(r, c, m) ==
  CASE m.do = "update" -> {[r EXCEPT !.text = c]}
    [] m.do = "addImage" -> {[r EXCEPT !.media = @ \cup {c}]}
    [] m.do = "publish" -> {[r EXCEPT !.published = TRUE]}
Changed(r, c, m) ==
  IF r.published THEN {}
  ELSE CASE m.do = "update" -> {[r EXCEPT !.text = c]}
         [] m.do = "addImage" -> {[r EXCEPT !.media = @ \cup {c}]}
         [] m.do = "publish" -> {[r EXCEPT !.published = TRUE]}

\* PrismaReviewRepository.save: media that the copy does not have are deleted.
Save(c) ==
  LET from == IF command[c].do = "addImage" THEN "written" ELSE "loaded" IN
  /\ phase[c] = from
  /\ \E r \in Changed(copy[c], c, command[c]) :
       Commit(c, from, "ok", [db EXCEPT !.review = {r}])

Next ==
  \E c \in Calls :
    \/ \E m \in Command : Begin(c, m)
    \/ Create(c) \/ Find(c) \/ Upload(c) \/ Save(c) \/ Fail(c)

-----------------------------------------------------------------------------
(* Properties *)

\* Every variable has its type.
TypeOK ==
  /\ HandlerTypeOK(Command)
  /\ db.review \subseteq Review
  /\ db.objects \subseteq Calls
  /\ \A c \in Calls : phase[c] \in {"loaded", "written"} => copy[c] \in Review

Answered(do) == {c \in Calls : phase[c] = "ok" /\ command[c].do = do}

\* Every image that the review names is stored as an object.  Unless a save has undone
\* another, the review has every image that a call was answered with, and once published
\* it stays what the moderator saw.
AnswersAreKept ==
  \A r \in db.review :
    /\ r.media \subseteq db.objects
    /\ "overwrote" \notin faults =>
         /\ r.media = Answered("addImage")
         /\ \A c \in Answered("publish") : r = [copy[c] EXCEPT !.published = TRUE]
=============================================================================
