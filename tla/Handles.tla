------------------------------- MODULE Handles -------------------------------
(***************************************************************************)
(* The handle service (apps/api/src/routers/handle/index.ts over the       *)
(* handle table of packages/db/src/repos/auxiliary.ts): handles are        *)
(* minted, and their lists of indexed values changed.  Every change reads  *)
(* the list, computes another, and writes that back whole.                 *)
(*                                                                         *)
(* Abstractions.  A value is the request that wrote it; the type of a      *)
(* value never changes and is left out.  The reads that answer a request,  *)
(* and the routes that only read, change nothing.                          *)
(***************************************************************************)
EXTENDS RequestPool, Integers, Sequences, FiniteSetsExt, SequencesExt

CONSTANTS
  Index,        \* bound: the indexes clients name
  MaxHandle,    \* bound: the last value of handle_suffix_seq
  Nobody        \* who wrote the values that were there before

ASSUME IndexAssumption == Index \subseteq Int
ASSUME MaxHandleAssumption == MaxHandle \in Nat \ {0}
ASSUME NobodyAssumption == Nobody \notin Request

VARIABLES
  suffix,       \* the last value handle_suffix_seq gave
  properties,   \* per handle: its row, NoRow if it has none
  change,       \* per request: its operation, the handle and the index
  read,         \* per request: the list it got
  acknowledged, \* history variable: what the changes make of the handle when
                \* they are applied one after the other, as a map from indexes
  overlapped    \* history variable: handles written over a list not read

handleVars == <<suffix, properties, change, read, acknowledged, overlapped>>

-----------------------------------------------------------------------------
Handle == 1..MaxHandle
Value == Request \cup {Nobody}
HandleProperty == [index : Int, value : Value]
NoRow == <<[index |-> 0, value |-> "no row"]>>
NoMap == [i \in {} |-> Nobody]

HandleOps == {"none", "mint", "addValue", "addValueByIndex", "modifyByIndex",
              "removeByIndex"}
NoChange == [op |-> "none", id |-> 0, index |-> 0]

Minted(h) == h \in Handle /\ properties[h] # NoRow
Indexes(list) == {list[n].index : n \in DOMAIN list}
ValueAt(list, i) == list[CHOOSE n \in DOMAIN list : list[n].index = i].value
AsMap(list) == [i \in Indexes(list) |-> ValueAt(list, i)]

\* One handle was minted before, with the one value its item gave it.
HandleInit ==
  /\ suffix = 1
  /\ properties = [h \in Handle |->
                     IF h = 1 THEN <<[index |-> 1, value |-> Nobody]>> ELSE NoRow]
  /\ change = [r \in Request |-> NoChange]
  /\ read = [r \in Request |-> <<>>]
  /\ acknowledged = [h \in Handle |->
                       IF h = 1 THEN [i \in {1} |-> Nobody] ELSE NoMap]
  /\ overlapped = {}

-----------------------------------------------------------------------------
(* What becomes of a list.                                                 *)

NextIndex(list) == Max(Indexes(list) \cup {0}) + 1

\* (seeded bug) the rest of the list goes, too
Without_Rest(list, i) == SelectSeq(list, LAMBDA p : p.index < i)
\* The filter, element by element.
Without(list, i) ==
  LET upTo[n \in 0..Len(list)] ==
        IF n = 0 THEN <<>>
        ELSE IF list[n].index = i THEN upTo[n - 1]
        ELSE Append(upTo[n - 1], list[n])
  IN  upTo[Len(list)]

\* (seeded bug) the new value is appended wherever its index belongs
Inserted_AtEnd(list, p) == Append(list, p)
\* The list with one more value, sorted by index.
Inserted(list, p) ==
  LET all == Append(list, p)
      sorting == CHOOSE f \in Bijection(DOMAIN all, DOMAIN all) :
                   \A m, n \in DOMAIN all :
                     m < n => all[f[m]].index <= all[f[n]].index
  IN  [n \in DOMAIN all |-> all[sorting[n]]]

Modified(list, i, v) ==
  [n \in DOMAIN list |->
     IF list[n].index = i THEN [list[n] EXCEPT !.value = v] ELSE list[n]]

Updated(r) ==
  LET list == read[r]
      i == change[r].index
  IN  CASE change[r].op = "addValue" ->
             Append(list, [index |-> NextIndex(list), value |-> r])
        [] change[r].op = "addValueByIndex" ->
             Inserted(list, [index |-> i, value |-> r])
        [] change[r].op = "modifyByIndex" -> Modified(list, i, r)
        [] change[r].op = "removeByIndex" -> Without(list, i)

\* What the client was told when its change was computed from the list it is
\* applied to: the map of the handle with one index set, changed or removed.
Serial(map, r) ==
  LET i == IF change[r].op = "addValue" THEN Max(DOMAIN map \cup {0}) + 1
           ELSE change[r].index
  IN  IF change[r].op = "removeByIndex"
      THEN [j \in DOMAIN map \ {i} |-> map[j]]
      ELSE [j \in DOMAIN map \cup {i} |-> IF j = i THEN r ELSE map[j]]

-----------------------------------------------------------------------------
(* The handlers.                                                           *)

\* handles.mint takes a number no one else gets ...
BeginMint(r) ==
  /\ pc[r] = "idle"
  /\ suffix < MaxHandle
  /\ suffix' = suffix + 1
  /\ change' = [change EXCEPT ![r] = [op |-> "mint", id |-> suffix + 1, index |-> 1]]
  /\ Goto(r, "insertHandle")
  /\ UNCHANGED <<properties, read, acknowledged, overlapped>>

\* ... and inserts the row.
InsertHandle(r) ==
  LET h == change[r].id IN
  /\ pc[r] = "insertHandle"
  /\ properties' = [properties EXCEPT ![h] = <<[index |-> 1, value |-> r]>>]
  /\ acknowledged' = [acknowledged EXCEPT ![h] = [i \in {1} |-> r]]
  /\ Goto(r, "done")
  /\ UNCHANGED <<suffix, change, read, overlapped>>

\* The checks of a route on the list it got; other requests are refused.
Allowed(op, list, i) ==
  CASE op = "addValue" -> i = 0
    [] op = "addValueByIndex" -> i \notin Indexes(list)
    [] op \in {"modifyByIndex", "removeByIndex"} -> i \in Indexes(list)

\* handles.get and the checks.
BeginChange(r) ==
  /\ pc[r] = "idle"
  /\ \E op \in HandleOps \ {"none", "mint"}, h \in Handle, i \in Index \cup {0} :
       /\ Minted(h) /\ Allowed(op, properties[h], i)
       /\ change' = [change EXCEPT ![r] = [op |-> op, id |-> h, index |-> i]]
       /\ read' = [read EXCEPT ![r] = properties[h]]
  /\ Goto(r, "setProperties")
  /\ UNCHANGED <<suffix, properties, acknowledged, overlapped>>

\* handles.setProperties: the whole list, whatever is there by now.
SetProperties(r) ==
  LET h == change[r].id IN
  /\ pc[r] = "setProperties"
  /\ properties' = [properties EXCEPT ![h] = Updated(r)]
  /\ acknowledged' = [acknowledged EXCEPT ![h] = Serial(@, r)]
  /\ overlapped' = IF properties[h] = read[r] THEN overlapped
                   ELSE overlapped \cup {h}
  /\ Goto(r, "done")
  /\ UNCHANGED <<suffix, change, read>>

HandleNext ==
  \E r \in Request :
    \/ BeginMint(r)
    \/ InsertHandle(r)
    \/ BeginChange(r)
    \/ SetProperties(r)

-----------------------------------------------------------------------------
(* Properties.                                                             *)

HandleTypeOK ==
  /\ suffix \in Handle
  /\ \A h \in Handle : Minted(h) => properties[h] \in Seq(HandleProperty)
  /\ \A h \in Handle : Minted(h) => h <= suffix
  /\ change \in [Request -> [op : HandleOps, id : 0..MaxHandle, index : Int]]
  /\ \A r \in Request : read[r] \in Seq(HandleProperty)

\* The indexes of a handle's values are distinct, and its list is in their
\* order, however changes overlap: each writes a list it got from one read.
StrictlyIndexed ==
  \A h \in Handle :
    Minted(h) => \A m, n \in DOMAIN properties[h] :
                   m < n => properties[h][m].index < properties[h][n].index

\* A handle has the values that its acknowledged changes give it, one applied
\* after the other, unless one of them was written over a list it had not read.
UndisturbedHandleIsSerial ==
  \A h \in Handle :
    Minted(h) /\ h \notin overlapped => AsMap(properties[h]) = acknowledged[h]

\* The list of a handle is in order, and is what its changes made of it.
HandleListsAreSound ==
  /\ HandleTypeOK
  /\ StrictlyIndexed
  /\ UndisturbedHandleIsSerial
=============================================================================
