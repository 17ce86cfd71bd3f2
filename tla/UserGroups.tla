------------------------------ MODULE UserGroups ------------------------------
(***************************************************************************)
(* Groups of users and their members (the group routes of                  *)
(* apps/api/src/routers/auth/index.ts over the user_group and              *)
(* user_group_member tables of packages/db/src/repos/auxiliary.ts).        *)
(*                                                                         *)
(* Routes look a group up and then write; the import decides on a list of  *)
(* the groups it read, writes two statements for every group of its file,  *)
(* and deletes last.  A member's row refers to its group: it cannot be     *)
(* written without one and goes with it.                                   *)
(*                                                                         *)
(* Abstractions.  The description of a group is the request that wrote it. *)
(* A file has a group once, and no member of it twice; entries that do not *)
(* parse are not in the file.  Of the import modes only the one that       *)
(* deletes is told apart, as in the code.  Listings and the export change  *)
(* nothing.  The transaction that replaces the members of a group is one   *)
(* step.  It is READ COMMITTED: two at once may leave the members of both, *)
(* or fail on a key.  Nothing is stated of a group that two imports write: *)
(* an import is judged only if nobody else has written meanwhile.          *)
(***************************************************************************)
EXTENDS RequestPool, Naturals, FiniteSets

CONSTANTS
  NoGroup,      \* "no group"
  Importer,     \* bound: the requests that may import
  Before        \* who described the groups that were there before

ASSUME NoGroupAssumption == NoGroup \notin Group \cup Request \cup {Before}
\* Tables and files have finitely many rows.
ASSUME GroupAssumption == IsFiniteSet(Group)
ASSUME ImporterAssumption == Importer \subseteq Request
ASSUME BeforeAssumption == Before \notin Request

VARIABLES
  group,        \* user_group: the description of a group
  members,      \* user_group_member: the members of a group
  gop,          \* per request: its operation
  about,        \* per request: the group it is at
  user,         \* per request: the members it was given
  file,         \* per request: the members of each group it imports
  todo,         \* per request: groups of the file it has still to write
  deleting,     \* per request: groups it has still to delete
  newSize,      \* per request: statistics.new_size
  base,         \* history variable, per request: the tables it listed, NoBase
                \* once someone else has written them
  writes,       \* history variable: how often a group's row was written
  writesSeen    \* history variable, per request: that number at its lookup

groupTables == <<group, members>>
requestVars == <<gop, about, user>>
importVars == <<file, todo, deleting, newSize>>
groupHistory == <<base, writes, writesSeen>>
groupVars == <<groupTables, requestVars, importVars, groupHistory>>

-----------------------------------------------------------------------------
NoFile == [g \in {} |-> {}]
NoBase == [known |-> FALSE]
GroupOps == {"none", "addMember", "removeMembers", "addGroup", "updateGroup",
             "removeGroup", "import"}

Present == {g \in Group : group[g] # NoGroup}
Listed(r) == {g \in Group : base[r].group[g] # NoGroup}

\* Any groups, with any members.
GroupInit ==
  /\ group \in [Group -> {NoGroup, Before}]
  /\ members \in [Group -> SUBSET User]
  /\ \A g \in Group : group[g] = NoGroup => members[g] = {}
  /\ gop = [r \in Request |-> "none"]
  /\ about = [r \in Request |-> NoGroup]
  /\ user = [r \in Request |-> {}]
  /\ file = [r \in Request |-> NoFile]
  /\ todo = [r \in Request |-> {}]
  /\ deleting = [r \in Request |-> {}]
  /\ newSize = [r \in Request |-> 0]
  /\ base = [r \in Request |-> NoBase]
  /\ writes = [g \in Group |-> 0]
  /\ writesSeen = [r \in Request |-> 0]

BeginGroup(r, op, g, us, label) ==
  /\ pc[r] = "idle"
  /\ gop' = [gop EXCEPT ![r] = op]
  /\ about' = [about EXCEPT ![r] = g]
  /\ user' = [user EXCEPT ![r] = us]
  /\ writesSeen' = [writesSeen EXCEPT ![r] = writes[g]]
  /\ Goto(r, label)

\* A write of r: nobody else's import works on the tables it listed.
DisturbOthers(r) ==
  base' = [q \in Request |-> IF q = r THEN base[q] ELSE NoBase]
CountWrite(g) == writes' = [writes EXCEPT ![g] = @ + 1]

-----------------------------------------------------------------------------
(* Groups and members.                                                     *)

\* groups.getGroup of add_member.
BeginAddMember(r) ==
  /\ \E g \in Present, u \in User : BeginGroup(r, "addMember", g, {u}, "addMember")
  /\ UNCHANGED <<groupTables, importVars, base, writes>>

\* groups.addMember: refused by the foreign key when the group has gone.
AddMember(r) ==
  LET g == about[r] IN
  /\ pc[r] = "addMember"
  /\ IF g \in Present
     THEN /\ members' = [members EXCEPT ![g] = @ \cup user[r]]
          /\ DisturbOthers(r)
          /\ Goto(r, "done")
     ELSE /\ Goto(r, "failed")
          /\ UNCHANGED <<members, base>>
  /\ UNCHANGED <<group, requestVars, importVars, writes, writesSeen>>

\* remove_member and remove_members, which look nothing up.
BeginRemoveMembers(r) ==
  /\ \E g \in Group, us \in SUBSET User :
       us # {} /\ BeginGroup(r, "removeMembers", g, us, "removeMembers")
  /\ UNCHANGED <<groupTables, importVars, base, writes>>

RemoveMember(r) ==
  /\ pc[r] = "removeMembers"
  /\ \E u \in user[r] :
       /\ members' = [members EXCEPT ![about[r]] = @ \ {u}]
       /\ user' = [user EXCEPT ![r] = @ \ {u}]
       /\ Goto(r, IF user[r] = {u} THEN "done" ELSE "removeMembers")
  /\ DisturbOthers(r)
  /\ UNCHANGED <<group, gop, about, importVars, writes, writesSeen>>

\* (seeded bug) add_group looks nothing up
MayPut_Unseen(op, g) == op = "addGroup" \/ g \in Present
\* groups.getGroup of add_group, which wants none, and of update_group.
MayPut(op, g) == (op = "updateGroup") <=> g \in Present

BeginPutGroup(r) ==
  /\ \E op \in {"addGroup", "updateGroup"}, g \in Group :
       MayPut(op, g) /\ BeginGroup(r, op, g, {}, "putGroup")
  /\ UNCHANGED <<groupTables, importVars, base, writes>>

\* groups.putGroup: an upsert, whatever has become of the group.
PutGroup(r) ==
  LET g == about[r] IN
  /\ pc[r] = "putGroup"
  /\ group' = [group EXCEPT ![g] = r]
  /\ CountWrite(g)
  /\ DisturbOthers(r)
  /\ Goto(r, "done")
  /\ UNCHANGED <<members, requestVars, importVars, writesSeen>>

\* (seeded bug) the members stay
GroupRemoved_Alone(g) ==
  /\ group' = [group EXCEPT ![g] = NoGroup]
  /\ UNCHANGED members
  /\ CountWrite(g)
\* groups.removeGroup: the members go with it.
GroupRemoved(g) ==
  /\ group' = [group EXCEPT ![g] = NoGroup]
  /\ members' = [members EXCEPT ![g] = {}]
  /\ CountWrite(g)

RemoveGroup(r) ==
  /\ \E g \in Present : BeginGroup(r, "removeGroup", g, {}, "done") /\ GroupRemoved(g)
  /\ DisturbOthers(r)
  /\ UNCHANGED importVars

-----------------------------------------------------------------------------
(* The import.                                                             *)

Files == UNION {[gs -> SUBSET User] : gs \in SUBSET Group}

\* What the registry has and the file has not.
Unmatched(incoming) == Present \ incoming

\* groups.listGroups, and what the import decides on its answer.
BeginImport(r) ==
  /\ pc[r] = "idle" /\ r \in Importer
  /\ \E f \in Files, sync, allowDeletion, trial \in BOOLEAN :
       LET incoming == DOMAIN f
           drop == IF sync THEN Unmatched(incoming) ELSE {}
           writing == ~trial /\ (drop = {} \/ allowDeletion)
       IN  \/ /\ ~writing
              /\ Goto(r, "done")
              /\ UNCHANGED <<importVars, base>>
           \/ /\ writing
              /\ file' = [file EXCEPT ![r] = f]
              /\ todo' = [todo EXCEPT ![r] = incoming]
              /\ deleting' = [deleting EXCEPT ![r] = drop]
              /\ newSize' = [newSize EXCEPT ![r] = Cardinality(Present)
                               + Cardinality(incoming \ Present) - Cardinality(drop)]
              /\ base' = [base EXCEPT ![r] =
                   [known |-> TRUE, group |-> group, members |-> members,
                    drop |-> drop]]
              /\ Goto(r, "importGroup")
  /\ gop' = [gop EXCEPT ![r] = "import"]
  /\ UNCHANGED <<groupTables, about, user, writes, writesSeen>>

\* groups.putGroup of the next group of the file.
ImportGroup(r) ==
  /\ pc[r] = "importGroup"
  /\ \E g \in todo[r] :
       /\ group' = [group EXCEPT ![g] = r]
       /\ about' = [about EXCEPT ![r] = g]
       /\ CountWrite(g)
  /\ DisturbOthers(r)
  /\ Goto(r, "importMembers")
  /\ UNCHANGED <<members, gop, user, importVars, writesSeen>>

\* (seeded bug) the members of the file join those the group has
Replaced_Added(r, g) == members[g] \cup file[r][g]
Replaced(r, g) == file[r][g]

\* groups.replaceMembers: a transaction, here one step, refused by the foreign
\* key when the group has gone and the file has members for it.
ImportMembers(r) ==
  LET g == about[r] IN
  /\ pc[r] = "importMembers"
  /\ IF g \in Present \/ file[r][g] = {}
     THEN /\ members' = [members EXCEPT ![g] = Replaced(r, g)]
          /\ todo' = [todo EXCEPT ![r] = @ \ {g}]
          /\ DisturbOthers(r)
          /\ Goto(r, "importGroup")
     ELSE /\ Goto(r, "failed")
          /\ UNCHANGED <<members, todo, base>>
  /\ UNCHANGED <<group, requestVars, file, deleting, newSize, writes, writesSeen>>

\* (seeded bug) the import deletes whenever it likes
MayDelete_Anytime(r) == TRUE
\* Deletions follow when every group of the file is written.
MayDelete(r) == todo[r] = {}

ImportDelete(r) ==
  /\ pc[r] = "importGroup" /\ MayDelete(r)
  /\ \E g \in deleting[r] :
       /\ GroupRemoved(g)
       /\ deleting' = [deleting EXCEPT ![r] = @ \ {g}]
  /\ DisturbOthers(r)
  /\ UNCHANGED <<pc, requestVars, file, todo, newSize, writesSeen>>

EndImport(r) ==
  /\ pc[r] = "importGroup" /\ todo[r] = {} /\ deleting[r] = {}
  /\ Goto(r, "done")
  /\ UNCHANGED groupVars

GroupNext ==
  \E r \in Request :
    \/ BeginAddMember(r) \/ AddMember(r)
    \/ BeginRemoveMembers(r) \/ RemoveMember(r)
    \/ BeginPutGroup(r) \/ PutGroup(r)
    \/ RemoveGroup(r)
    \/ BeginImport(r) \/ ImportGroup(r) \/ ImportMembers(r)
    \/ ImportDelete(r) \/ EndImport(r)

-----------------------------------------------------------------------------
(* Properties.                                                             *)

GroupTypeOK ==
  /\ group \in [Group -> Request \cup {NoGroup, Before}]
  /\ members \in [Group -> SUBSET User]
  /\ \A g \in Group : group[g] = NoGroup => members[g] = {}
  /\ gop \in [Request -> GroupOps]
  /\ about \in [Request -> Group \cup {NoGroup}]
  /\ user \in [Request -> SUBSET User]
  /\ \A r \in Request : file[r] \in Files /\ todo[r] \subseteq DOMAIN file[r]
  /\ deleting \in [Request -> SUBSET Group]

Undisturbed(r) == gop[r] = "import" /\ base[r] # NoBase

\* The tables as the import should leave group g.
Imported(r, g) ==
  /\ group[g] = r
  /\ members[g] = file[r][g]
\* ... and as it found it.
Untouched(r, g) ==
  /\ group[g] = base[r].group[g]
  /\ members[g] = base[r].members[g]

\* An import that ends without another request writing meanwhile leaves the
\* groups of its file with the members of its file, has deleted what it said it
\* would and left the rest alone, and reports the number of groups there are.
UndisturbedGroupImport ==
  \A r \in Request :
    Undisturbed(r) /\ pc[r] = "done" =>
      /\ \A g \in Group :
           IF g \in DOMAIN file[r] THEN Imported(r, g)
           ELSE IF g \in base[r].drop THEN g \notin Present
           ELSE Untouched(r, g)
      /\ newSize[r] = Cardinality(Present)

\* Wherever an import stops, a group is as it was before or as the file has it,
\* but for one, which has its new description and its old members; and nothing
\* was deleted before everything was written.
OnlyOneGroupIsHalfImported ==
  \A r \in Request :
    Undisturbed(r) =>
      /\ \A g \in DOMAIN file[r] :
           \/ Imported(r, g) \/ Untouched(r, g)
           \/ g = about[r] /\ group[g] = r /\ members[g] = base[r].members[g]
      /\ (\E g \in Listed(r) : g \notin Present)
           => \A g \in DOMAIN file[r] : Imported(r, g)

\* An import does what it says, or stops between before and after.
GroupImportIsFaithful ==
  /\ GroupTypeOK
  /\ UndisturbedGroupImport
  /\ OnlyOneGroupIsHalfImported

\* add_group replaces a group, and update_group brings one back, only if the
\* group was written after they looked it up.
StalePutGroupOverlapped ==
  [][\A r \in Request :
       pc[r] = "putGroup" /\ pc'[r] = "done"
       /\ (gop[r] = "addGroup" <=> about[r] \in Present)
       => writes[about[r]] > writesSeen[r]]_<<groupVars, pc>>
=============================================================================
