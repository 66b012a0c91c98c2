--------------------------------- MODULE Roles ---------------------------------
(***************************************************************************)
(* modules/identity: the administration of roles, and the roles of one     *)
(* identity (the rest of an identity is in module Identity).  Saving a     *)
(* role upserts its row, so a role that was deleted meanwhile comes back.  *)
(* A name that is taken is refused by a SELECT or, if it was taken after   *)
(* that, by the unique index: one guard of the save stands for both.       *)
(*                                                                         *)
(* Operators whose name starts with Bug are mistakes the code does not     *)
(* make, put in place of the operator that follows them to see that a      *)
(* property notices.                                                       *)
(***************************************************************************)
EXTENDS Handler

CONSTANTS Names,    \* of roles
          System,   \* PROTECTED_ROLE_NAMES
          Keys      \* of permissions

Role == [name : Names, keys : SUBSET Keys]

\* One or more changes of a role's permissions: whether each key is granted from now on.
Changes == UNION {[k -> BOOLEAN] : k \in SUBSET Keys \ {{}}}

Command == [do : {"create"}, name : Names]
           \cup [do : {"duplicate", "update"}, role : Ids, name : Names]
           \cup [do : {"permit"}, role : Ids, changes : Changes]
           \cup [do : {"delete", "assign", "revoke"}, role : Ids]

Distinct(roles) == \A q, r \in DOMAIN roles : roles[q].name = roles[r].name => q = r

\* The roles, one of them the administrator's, and those that the identity has.
Init ==
  /\ HandlerInit
  /\ \E ids \in SUBSET Earlier :
       \E roles \in [ids -> Role], mine \in SUBSET ids :
         /\ \E r \in ids : roles[r].name \in System
         /\ Distinct(roles)
         /\ db = [roles |-> roles, mine |-> mine]

\* findById of the role, after that of the identity when the call is about one.
Find(c) ==
  /\ Take(c, "begun", "loaded", db)
  /\ command[c].do # "create" => command[c].role \in DOMAIN db.roles

-----------------------------------------------------------------------------

BugRenamed(r, name) == {[r EXCEPT !.name = name]}
\* The name it has is no change; a system role keeps it.
Renamed(r, name) ==
  IF r.name \in System /\ name # r.name THEN {} ELSE {[r EXCEPT !.name = name]}

BugPermitted(r, changes) == [r EXCEPT !.keys = @ \cup {k \in DOMAIN changes : changes[k]}]
Permitted(r, changes) ==
  [r EXCEPT !.keys = {k \in @ \cup DOMAIN changes : k \in DOMAIN changes => changes[k]}]

\* What a call makes of a role that it saves.
Made(k, m) ==
  CASE m.do = "create" -> {[name |-> m.name, keys |-> {}]}
    [] m.do = "duplicate" -> {[k.roles[m.role] EXCEPT !.name = m.name]}
    [] m.do = "update" -> Renamed(k.roles[m.role], m.name)
    [] m.do = "permit" -> {Permitted(k.roles[m.role], m.changes)}
    [] OTHER -> {}

Of(c, m) == IF m.do \in {"create", "duplicate"} THEN c ELSE m.role

\* The calls whose copy of a role is out of date once that role is written.
About(r) == {c \in Calls : command[c].do \notin {"none", "create"} /\ command[c].role = r}
AboutMine == {c \in Calls : command[c].do \in {"assign", "revoke"}}

\* PrismaRoleRepository.save: the row, and all its permissions anew.
Save(c) ==
  LET r == Of(c, command[c]) IN
  /\ phase[c] = "loaded"
  /\ \E role \in Made(copy[c], command[c]) :
       LET roles == Upserted(db.roles, [i \in {r} |-> role]) IN
       /\ Distinct(roles)
       /\ CommitPast(c, "loaded", "ok", [db EXCEPT !.roles = roles], About(r))

\* delete() of a row that is gone fails; who had the role has it no more.
Delete(c) ==
  LET r == command[c].role IN
  /\ command[c].do = "delete"
  /\ phase[c] = "loaded" /\ copy[c].roles[r].name \notin System
  /\ r \in DOMAIN db.roles
  /\ CommitPast(c, "loaded", "ok",
                [roles |-> [i \in DOMAIN db.roles \ {r} |-> db.roles[i]], mine |-> db.mine \ {r}],
                About(r) \cup (IF r \in db.mine THEN AboutMine ELSE {}))

\* PrismaIdentityRepository.save: the roles of the identity become those of the copy.  One
\* that is added must exist.
SaveMine(c) ==
  LET r == command[c].role
      mine == IF command[c].do = "assign" THEN copy[c].mine \cup {r} ELSE copy[c].mine \ {r} IN
  /\ command[c].do \in {"assign", "revoke"}
  /\ phase[c] = "loaded" /\ (r \in copy[c].mine) = (command[c].do = "revoke")
  /\ mine \ db.mine \subseteq DOMAIN db.roles
  /\ CommitPast(c, "loaded", "ok", [db EXCEPT !.mine = mine], AboutMine)

Next ==
  \E c \in Calls :
    \/ \E m \in Command : Begin(c, m)
    \/ Find(c) \/ Save(c) \/ Delete(c) \/ SaveMine(c) \/ Fail(c)

-----------------------------------------------------------------------------
(* Properties *)

IsTables(k) ==
  /\ k = [roles |-> k.roles, mine |-> k.mine]
  /\ DOMAIN k.roles \subseteq Ids /\ k.roles \in [DOMAIN k.roles -> Role]
  /\ k.mine \subseteq DOMAIN k.roles

\* Every variable has its type.
TypeOK ==
  /\ HandlerTypeOK(Command)
  /\ IsTables(db)
  /\ \A c \in Calls : phase[c] = "loaded" => IsTables(copy[c])

Answered(do) == {c \in Calls : phase[c] = "ok" /\ command[c].do = do}
Others(r, do) == {c \in Answered(do) : command[c].role = r}

\* The administrator's role is never lost or renamed, whatever copies are saved.  Unless a
\* save has undone another: a deleted role stays deleted, and a role has the permissions
\* that all answers agree upon.
RolesAsAnswered ==
  /\ \E r \in Earlier \cap DOMAIN db.roles : db.roles[r].name \in System
  /\ faults = {} =>
       /\ \A c \in Answered("delete") : command[c].role \notin DOMAIN db.roles
       /\ \A r \in DOMAIN db.roles, k \in Keys, granted \in BOOLEAN :
            LET told == {c \in Others(r, "permit") : k \in DOMAIN command[c].changes} IN
            told # {} /\ (\A c \in told : command[c].changes[k] = granted)
              => (k \in db.roles[r].keys) = granted
=============================================================================
