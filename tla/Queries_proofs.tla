---------------------------- MODULE Queries_proofs ----------------------------
(***************************************************************************)
(* For any number of items, any page size and any times: what a client     *)
(* that follows the pagination keys is shown, and how often.  For every    *)
(* graph and every depth: the rows of the recursive query are simple paths *)
(* from the start, some of them after a loop at it, and the answers made   *)
(* of them are exact.                                                      *)
(*                                                                         *)
(* The invariant of a listing says of every item whose place has not       *)
(* changed that it was shown exactly when it is behind the cursor; of one  *)
(* that an update moves, that it moves away from the cursor or was shown   *)
(* before.  That of a lineage says that after k rounds the query has a row *)
(* for every simple path of up to k steps, and that the last round has     *)
(* those of k steps.                                                       *)
(***************************************************************************)
EXTENDS Listing, Lineage, WellFoundedInduction, SequenceTheorems, FiniteSetTheorems,
        TLAPS

ListTypeOK ==
  /\ now \in Time
  /\ row \in [Item -> Row \cup {NoRow}]
  /\ order \in Order
  /\ lpc \in {"page", "count", "lastCount", "end"}
  /\ cursor \in Place \cup {NoCursor}
  /\ shown \in [Item -> Nat]

\* A time by which items are sorted has passed.
TimesHavePassed ==
  order.by # "DISPLAY_NAME" => \A i \in Item : row[i].sort <= now

\* The place of an item that nobody has written, or whose time of creation it
\* is, is still the one it had.
Steady(i) == i \notin written \/ (order.by = "CREATED_TIME" /\ i \notin refiltered)

\* Pages have gone past the item.
Behind(i) == Ended \/ ~CursorCondition(PlaceOf(i))

SteadyInv ==
  \A i \in Item : Steady(i) =>
    shown[i] = IF Matches(row[i]) /\ Behind(i) THEN 1 ELSE 0

MovesInv ==
  order.by = "UPDATED_TIME" =>
    \A i \in Item \ refiltered :
      /\ order.ascending /\ Matches(row[i]) /\ Behind(i) => shown[i] >= 1
      /\ ~order.ascending =>
           shown[i] <= 1 /\ (Matches(row[i]) /\ ~Behind(i) => shown[i] = 0)

IInv == ListTypeOK /\ TimesHavePassed /\ SteadyInv /\ MovesInv

-----------------------------------------------------------------------------
(* The order of places.                                                    *)

LEMMA SortValues == SortValue \subseteq Nat /\ Time \subseteq Nat
BY BoundAssumption DEF SortValue, Time

LEMMA RowSorts ==
  ASSUME ListTypeOK, NEW i \in Item
  PROVE  /\ row[i].sort \in Int
         /\ Exists(i) => row[i].sort \in Nat
         /\ PlaceOf(i).s = row[i].sort /\ PlaceOf(i).id = i
<1>1. row[i] \in Row \/ row[i] = NoRow
  BY DEF ListTypeOK
<1>2. CASE row[i] \in Row
  <2>1. row[i].sort \in SortValue
    BY <1>2 DEF Row
  <2>2. row[i].sort \in Nat
    BY <2>1, SortValues
  <2>. QED
    BY <2>2 DEF PlaceOf
<1>3. CASE row[i] = NoRow
  BY <1>3 DEF NoRow, Exists, PlaceOf
<1>. QED
  BY <1>1, <1>2, <1>3

LEMMA CursorFields ==
  ASSUME ListTypeOK PROVE cursor.s \in Int /\ cursor.id \in Int
<1>1. CASE cursor \in Place
  <2>1. cursor.s \in SortValue /\ cursor.id \in Item
    BY <1>1 DEF Place
  <2>2. cursor.s \in Nat
    BY <2>1, SortValues
  <2>3. cursor.id \in Nat
    BY <2>1, ItemAssumption
  <2>. QED
    BY <2>2, <2>3
<1>2. CASE cursor = NoCursor
  BY <1>2 DEF NoCursor
<1>. QED
  BY <1>1, <1>2 DEF ListTypeOK

LEMMA BeforeTransitive ==
  ASSUME NEW a, NEW b, NEW c, a.s \in Int, b.s \in Int, c.s \in Int,
         a.id \in Int, b.id \in Int, c.id \in Int, Before(a, b), Before(b, c)
  PROVE  Before(a, c)
BY DEF Before

LEMMA BeforeIrreflexive ==
  ASSUME NEW a, NEW b, a.s \in Int, b.s \in Int, a.id \in Int, b.id \in Int,
         Before(a, b)
  PROVE  ~Before(b, a) /\ a # b
BY DEF Before

-----------------------------------------------------------------------------
(* The steps.                                                              *)

THEOREM InitInv == Init => IInv
<1> SUFFICES ASSUME Init PROVE IInv
  OBVIOUS
<1>1. ListTypeOK
  BY BoundAssumption DEF Init, ListTypeOK, Time, Row, SortValue, NoRow
<1>2. TimesHavePassed
  BY DEF Init, TimesHavePassed, NoRow
<1>3. SteadyInv /\ MovesInv
  BY DEF Init, SteadyInv, MovesInv, Behind, Ended, CursorCondition
<1>. QED
  BY <1>1, <1>2, <1>3 DEF IInv

\* Someone writes an item.
LEMMA WriteInv ==
  ASSUME IInv, NEW i \in Item, Register(i) \/ Update(i) \/ Delete(i) PROVE IInv'
<1> USE DEF IInv
<1>1. PICK new \in Row \cup {NoRow} :
        /\ Write(i, new)
        /\ order.by # "DISPLAY_NAME" => new.sort <= now
        /\ order.by = "CREATED_TIME" /\ Exists(i) /\ new # NoRow => new.sort = row[i].sort
        /\ order.by = "UPDATED_TIME" /\ new # NoRow => new.sort = now
  <2>0. now \in Nat /\ now \in SortValue
    BY SortValues DEF ListTypeOK, SortValue
  <2>1. \A v \in Resorted(i) :
          /\ v \in SortValue
          /\ order.by # "DISPLAY_NAME" => v <= now
          /\ order.by = "CREATED_TIME" /\ Exists(i) => v = row[i].sort
          /\ order.by = "UPDATED_TIME" => v = now
    <3>1. Exists(i) => row[i].sort \in SortValue
      BY DEF Exists, ListTypeOK, Row
    <3>2. order.by \in Columns
      BY DEF ListTypeOK, Order
    <3>. QED
      BY <2>0, <3>1, <3>2 DEF Resorted, TimesHavePassed, SortValue, Columns
  <2>2. CASE Register(i)
    <3>1. PICK v \in Resorted(i), c \in BOOLEAN : Write(i, [sort |-> v, complete |-> c])
      BY <2>2 DEF Register
    <3>. QED
      BY <2>1, <3>1 DEF Row
  <2>3. CASE Update(i)
    <3>1. PICK v \in Resorted(i) : Write(i, [sort |-> v, complete |-> TRUE])
      BY <2>3 DEF Update
    <3> DEFINE new == [sort |-> v, complete |-> TRUE]
    <3>2. new \in Row /\ new.sort = v
      BY <2>1 DEF Row
    <3> HIDE DEF new
    <3>3. Write(i, new)
      BY <3>1 DEF new
    <3>. QED
      BY <2>1, <3>2, <3>3
  <2>4. CASE Delete(i)
    BY <2>4, <2>0 DEF Delete, NoRow
  <2>. QED
    BY <2>2, <2>3, <2>4
<1>2. /\ UNCHANGED <<now, order, lpc, cursor, shown, total>>
      /\ row' = [row EXCEPT ![i] = new] /\ written' = written \cup {i}
      /\ \A j \in Item : j \notin refiltered' =>
           j \notin refiltered /\ (j = i => Matches(row[i]) /\ Matches(new))
  BY <1>1 DEF Write, listVars
<1>3. \A j \in Item : row'[j] = IF j = i THEN new ELSE row[j]
  BY <1>2 DEF ListTypeOK
<1>4. ListTypeOK'
  BY <1>2 DEF ListTypeOK
<1>5. TimesHavePassed'
  BY <1>1, <1>2, <1>3 DEF TimesHavePassed
<1>6. SteadyInv'
  <2> SUFFICES ASSUME NEW j \in Item, Steady(j)'
               PROVE  shown[j] = IF Matches(row[j])' /\ Behind(j)' THEN 1 ELSE 0
    BY <1>2 DEF SteadyInv
  <2>1. Steady(j)
    BY <1>2 DEF Steady
  <2>2. CASE j # i
    <3>1. (Matches(row[j])' /\ Behind(j)') <=> (Matches(row[j]) /\ Behind(j))
      BY <1>2, <1>3, <2>2 DEF Matches, Behind, Ended, CursorCondition, PlaceOf, Before
    <3>2. shown[j] = IF Matches(row[j]) /\ Behind(j) THEN 1 ELSE 0
      BY <2>1 DEF SteadyInv
    <3>. QED
      BY <3>1, <3>2
  <2>3. CASE j = i
    <3>1. order.by = "CREATED_TIME" /\ i \notin refiltered'
      BY <2>3, <1>2 DEF Steady
    <3>2. Matches(row[i]) /\ Matches(new)
      BY <3>1, <1>2
    <3>3. new.sort = row[i].sort
      BY <3>1, <3>2, <1>1 DEF Matches, Exists
    <3>4. Behind(i)' <=> Behind(i)
      BY <1>2, <1>3, <3>3 DEF Behind, Ended, CursorCondition, PlaceOf, Before
    <3>5. Matches(row[i])'
      BY <1>2, <1>3, <3>2 DEF Matches
    <3>. QED
      BY <2>1, <2>3, <3>2, <3>4, <3>5 DEF SteadyInv
  <2>. QED
    BY <2>2, <2>3
<1>7. MovesInv'
  <2> SUFFICES ASSUME order.by = "UPDATED_TIME", NEW j \in Item, j \notin refiltered'
               PROVE  /\ order.ascending /\ Matches(row[j])' /\ Behind(j)' => shown[j] >= 1
                      /\ ~order.ascending =>
                           /\ shown[j] <= 1
                           /\ Matches(row[j])' /\ ~Behind(j)' => shown[j] = 0
    BY <1>2 DEF MovesInv
  <2>1. /\ order.ascending /\ Matches(row[j]) /\ Behind(j) => shown[j] >= 1
        /\ ~order.ascending =>
             shown[j] <= 1 /\ (Matches(row[j]) /\ ~Behind(j) => shown[j] = 0)
    BY <1>2 DEF MovesInv
  <2>2. CASE j # i
    <3>1. (Matches(row[j])' <=> Matches(row[j])) /\ (Behind(j)' <=> Behind(j))
      BY <1>2, <1>3, <2>2 DEF Matches, Behind, Ended, CursorCondition, PlaceOf, Before
    <3>. QED
      BY <2>1, <3>1
  <2>3. CASE j = i
    <3>1. Matches(row[i]) /\ Matches(new)
      BY <2>3, <1>2
    <3>2. new.sort = now /\ row[i].sort <= now
      BY <3>1, <1>1 DEF Matches, TimesHavePassed
    <3>3. row[i].sort \in Int /\ now \in Int /\ cursor.s \in Int /\ cursor.id \in Int
          /\ i \in Int
      BY RowSorts, CursorFields, SortValues, ItemAssumption DEF ListTypeOK
    <3>4. order.ascending /\ Behind(i)' => Behind(i)
      BY <1>2, <1>3, <3>2, <3>3 DEF Behind, Ended, CursorCondition, PlaceOf, Before
    <3>5. ~order.ascending /\ ~Behind(i)' => ~Behind(i)
      BY <1>2, <1>3, <3>2, <3>3 DEF Behind, Ended, CursorCondition, PlaceOf, Before
    <3>. QED
      BY <2>1, <2>3, <3>1, <3>4, <3>5
  <2>. QED
    BY <2>2, <2>3
<1>. QED
  BY <1>4, <1>5, <1>6, <1>7

\* A page is selected.
LEMMA PageInv == ASSUME IInv, SelectPage PROVE IInv'
<1> USE DEF IInv
<1>1. PICK page \in SUBSET Candidates :
        /\ IsPage(page)
        /\ shown' = [i \in Item |-> IF i \in page THEN shown[i] + 1 ELSE shown[i]]
        /\ IF page = Candidates
           THEN lpc' = "lastCount" /\ UNCHANGED cursor
           ELSE lpc' = "count" /\ cursor' \in NextCursor(page)
  BY DEF SelectPage
<1>2. lpc = "page" /\ UNCHANGED <<now, row, order, written, refiltered>>
  BY DEF SelectPage
<1>3. \A i \in Item : i \in Candidates <=> Matches(row[i]) /\ ~Behind(i)
  BY <1>2 DEF Candidates, Matching, Behind, Ended
<1>4. \A i \in Item : /\ shown[i] \in Nat
                    /\ shown'[i] = IF i \in page THEN shown[i] + 1 ELSE shown[i]
  BY <1>1 DEF ListTypeOK
\* Of the items that match, those on the page come behind, and no others.
<1>5. \A i \in Item : Matches(row[i]) =>
        (Behind(i)' <=> Behind(i) \/ i \in page)
  <2>1. CASE page = Candidates
    BY <2>1, <1>1, <1>3 DEF Behind, Ended
  <2>2. CASE page # Candidates
    <3>1. lpc' = "count"
      BY <1>1, <2>2
    <3>2. PICK l \in page : IsLast(l, page) /\ cursor' = PlaceOf(l)
      BY <1>1, <2>2 DEF NextCursor
    <3>3. l \in Item /\ Matches(row[l]) /\ ~Behind(l)
      BY <1>3, <3>2 DEF Candidates, Matching
    <3>4. cursor' # NoCursor
      BY <3>2, <3>3, RowSorts DEF NoCursor, Matches, Exists
    <3> SUFFICES ASSUME NEW i \in Item, Matches(row[i])
                 PROVE  ~Before(cursor', PlaceOf(i)) <=> Behind(i) \/ i \in page
      BY <3>1, <3>4, <1>2 DEF Behind, Ended, CursorCondition, PlaceOf, Before
    <3>5. /\ cursor'.s \in Int /\ cursor'.id \in Int
          /\ PlaceOf(i).s \in Int /\ PlaceOf(i).id \in Int /\ i \in Int /\ l \in Int
          /\ cursor'.id = l /\ PlaceOf(i).id = i
          /\ cursor.s \in Int /\ cursor.id \in Int
      BY <3>2, <3>3, RowSorts, CursorFields, ItemAssumption
    <3>6. CASE i \in page
      <4>1. i = l \/ Before(PlaceOf(i), cursor')
        BY <3>2, <3>6 DEF IsLast
      <4>2. CASE i = l
        BY <4>2, <3>2, <3>5 DEF Before
      <4>3. CASE Before(PlaceOf(i), cursor')
        <5>1. ~Before(cursor', PlaceOf(i))
          BY <4>3, <3>5 DEF Before
        <5>. QED
          BY <5>1, <3>6
      <4>. QED
        BY <3>6, <4>1, <4>2, <4>3
    <3>7. CASE i \in Candidates \ page
      <4>1. Before(cursor', PlaceOf(i))
        BY <1>1, <3>2, <3>7 DEF IsPage
      <4>. QED
        BY <4>1, <3>7, <1>3
    <3>8. CASE i \notin Candidates
      <4>1. Behind(i) /\ cursor # NoCursor /\ ~Before(cursor, PlaceOf(i))
        BY <3>8, <1>2, <1>3 DEF Behind, Ended, CursorCondition
      <4>2. Before(cursor, cursor')
        BY <3>2, <3>3, <4>1 DEF Behind, CursorCondition
      <4>3. ~Before(cursor', PlaceOf(i))
        BY <4>1, <4>2, <3>5, BeforeTransitive
      <4>. QED
        BY <4>1, <4>3
    <3>. QED
      BY <3>6, <3>7, <3>8
  <2>. QED
    BY <2>1, <2>2
<1>6. page \subseteq Item /\ \A i \in page : Matches(row[i]) /\ ~Behind(i)
  BY <1>3 DEF Candidates, Matching
<1>7. ListTypeOK'
  <2>1. shown' \in [Item -> Nat]
    BY <1>1, <1>4
  <2>2. lpc' \in {"count", "lastCount"}
    BY <1>1
  <2>3. cursor' \in Place \cup {NoCursor}
    <3>1. \A l \in page : PlaceOf(l) \in Place
      BY <1>6 DEF PlaceOf, Place, Matches, ListTypeOK, Row
    <3>. QED
      BY <1>1, <3>1 DEF NextCursor, ListTypeOK
  <2>. QED
    BY <1>2, <2>1, <2>2, <2>3 DEF ListTypeOK
<1>8. TimesHavePassed'
  BY <1>2 DEF TimesHavePassed
<1>9. \A i \in Item : Matches(row[i])' <=> Matches(row[i])
  BY <1>2 DEF Matches
<1>10. SteadyInv'
  BY <1>2, <1>4, <1>5, <1>6, <1>9 DEF SteadyInv, Steady
<1>11. MovesInv'
  BY <1>2, <1>4, <1>5, <1>6, <1>9 DEF MovesInv
<1>. QED
  BY <1>7, <1>8, <1>10, <1>11

\* Time goes on, or the rows are counted.
LEMMA OtherInv ==
  ASSUME IInv, Tick \/ Count \/ Finished \/ UNCHANGED vars PROVE IInv'
<1> USE DEF IInv
<1>1. UNCHANGED <<row, order, cursor, shown, written, refiltered>>
      /\ now' \in Time /\ now <= now'
      /\ lpc' \in {"page", "count", "lastCount", "end"}
      /\ (Ended' <=> Ended)
  <2>1. now \in Time /\ lpc \in {"page", "count", "lastCount", "end"}
    BY DEF ListTypeOK
  <2>2. CASE Tick
    BY <2>1, <2>2, BoundAssumption DEF Tick, Time, listVars, Ended
  <2>3. CASE Count
    BY <2>1, <2>3, BoundAssumption DEF Count, Time, Ended
  <2>4. CASE Finished \/ UNCHANGED vars
    BY <2>1, <2>4, BoundAssumption DEF Finished, vars, listVars, Time, Ended
  <2>. QED
    BY <2>2, <2>3, <2>4
<1>2. ListTypeOK'
  BY <1>1 DEF ListTypeOK
<1>3. TimesHavePassed'
  <2>1. \A i \in Item : row[i].sort \in Int
    BY RowSorts
  <2>2. now \in Int /\ now' \in Int
    BY <1>1, SortValues DEF ListTypeOK
  <2>. QED
    BY <1>1, <2>1, <2>2 DEF TimesHavePassed
<1>4. \A i \in Item : (Matches(row[i])' <=> Matches(row[i])) /\ (Behind(i)' <=> Behind(i))
  BY <1>1 DEF Matches, Behind, CursorCondition, PlaceOf, Before
<1>5. SteadyInv' /\ MovesInv'
  BY <1>1, <1>4 DEF SteadyInv, Steady, MovesInv
<1>. QED
  BY <1>2, <1>3, <1>5

THEOREM StepInv == IInv /\ [Next]_vars => IInv'
BY WriteInv, PageInv, OtherInv DEF Next

-----------------------------------------------------------------------------
(* What a client is shown.                                                 *)

\* An item that matches and is not written while a client follows the keys is
\* shown once, for any number of items and any size of a page.
THEOREM SteadyTheorem == Spec => []SteadyItemIsShownOnce
<1>1. IInv => SteadyItemIsShownOnce
  BY DEF IInv, SteadyInv, Steady, Behind, SteadyItemIsShownOnce, Matching
<1>. QED
  BY InitInv, StepInv, <1>1, PTL DEF Spec

\* Listed by the time of creation, updates do not matter either.
THEOREM CreationTheorem == Spec => []CreationOrderIsStable
<1>1. IInv => CreationOrderIsStable
  BY DEF IInv, SteadyInv, Steady, Behind, CreationOrderIsStable, Matching
<1>. QED
  BY InitInv, StepInv, <1>1, PTL DEF Spec

\* Listed by the time of the last update, oldest first, updates make nobody
\* miss an item; newest first, they show none twice.
THEOREM UpdatesTheorem == Spec => []UpdatesMoveItemsOneWay
<1>1. IInv => UpdatesMoveItemsOneWay
  BY DEF IInv, MovesInv, Behind, UpdatesMoveItemsOneWay, Matching
<1>. QED
  BY InitInv, StepInv, <1>1, PTL DEF Spec

-----------------------------------------------------------------------------
(* The count, and the properties of the run.                               *)

\* The last count is of what there was all the time.
QuietInv ==
  /\ written \in SUBSET Item /\ refiltered \in SUBSET Item
  /\ lpc = "end" /\ written = {} => total = Cardinality(Matching)

LEMMA QuietStep == QuietInv /\ [Next]_vars => QuietInv'
<1> SUFFICES ASSUME QuietInv, [Next]_vars PROVE QuietInv'
  OBVIOUS
<1>1. ASSUME NEW i \in Item, Register(i) \/ Update(i) \/ Delete(i) PROVE QuietInv'
  <2>1. i \in written' /\ written' \in SUBSET Item /\ refiltered' \in SUBSET Item
    BY <1>1 DEF Register, Update, Delete, Write, QuietInv
  <2>. QED
    BY <2>1 DEF QuietInv
<1>2. CASE Count
  BY <1>2 DEF Count, CountedRows, QuietInv, Matching, Matches
<1>3. CASE SelectPage
  BY <1>3 DEF SelectPage, QuietInv
<1>4. CASE Tick \/ Finished \/ UNCHANGED vars
  <2>1. UNCHANGED <<row, order, lpc, total, written, refiltered>>
    BY <1>4 DEF Tick, Finished, vars, listVars
  <2>2. Matching' = Matching
    BY <2>1 DEF Matching, Matches
  <2>. QED
    BY <2>1, <2>2 DEF QuietInv
<1>. QED
  BY <1>1, <1>2, <1>3, <1>4 DEF Next

\* The variables of a listing keep their types.
THEOREM TypeCorrectness == Spec => []TypeOK
<1>1. Init => QuietInv
  BY DEF Init, QuietInv
<1>2. IInv /\ QuietInv => TypeOK
  BY DEF IInv, ListTypeOK, QuietInv, TypeOK
<1>. QED
  BY InitInv, StepInv, QuietStep, <1>1, <1>2, PTL DEF Spec

\* Whoever follows the pagination keys to the end has seen every item nobody
\* wrote, once, and as many as were announced.
THEOREM PagesTheorem == Spec => []PagesAreComplete
<1>1. Init => QuietInv
  BY DEF Init, QuietInv
<1>2. IInv /\ QuietInv => QuietTotalIsWhatIsShown
  <2> SUFFICES ASSUME IInv, QuietInv, lpc = "end", written = {}
               PROVE  total = Cardinality({i \in Item : shown[i] = 1})
    BY DEF QuietTotalIsWhatIsShown
  <2>1. \A i \in Item : shown[i] = IF i \in Matching THEN 1 ELSE 0
    BY DEF IInv, SteadyInv, Steady, Behind, Ended, Matching
  <2>2. {i \in Item : shown[i] = 1} = Matching
    BY <2>1 DEF Matching
  <2>. QED
    BY <2>2 DEF QuietInv
<1>. QED
  BY InitInv, StepInv, QuietStep, SteadyTheorem, <1>1, <1>2, PTL
     DEF Spec, PagesAreComplete

\* What updates do to a listing is what its order says.
THEOREM MovesTheorem == Spec => []ItemsMoveAsOrdered
BY CreationTheorem, UpdatesTheorem, PTL DEF ItemsMoveAsOrdered

-----------------------------------------------------------------------------
(* The recursive query over the graph, as Lineage has it.                  *)

LEMMA Bounds == start \in Node /\ MAX_DEPTH \in Nat \ {0}
BY StartAssumption, MaxDepthAssumption

\* The types that paths need, and nothing of the answer.
WalkTypeOK ==
  /\ edges \subseteq Edge
  /\ depth \in 0..(MAX_DEPTH + 1)
  /\ direction \in Directions
  /\ walk \subseteq [arc : Arcs(edges), path : Path]
  /\ work \subseteq walk

\* A row as the query makes it.
IsRow(entry) ==
  /\ IsPath(entry.path) \/ IsPathAfterLoop(entry.path)
  /\ Len(entry.path) \in 2..(cappedDepth + 1)
  /\ entry.arc = <<entry.path[Len(entry.path) - 1], entry.path[Len(entry.path)]>>

PathInv == WalkTypeOK /\ RowsArePaths

LEMMA ArcsAreNodes ==
  ASSUME edges \subseteq Edge, NEW a \in Arcs(edges)
  PROVE  a[1] \in Node /\ a[2] \in Node /\ a = <<a[1], a[2]>>
BY DEF Arcs, Along, Edge

LEMMA DepthBound ==
  ASSUME depth \in 0..(MAX_DEPTH + 1)
  PROVE  cappedDepth \in 1..MAX_DEPTH
BY Bounds DEF cappedDepth

\* A simple path goes on along an arc to a node that it has not visited.
LEMMA PathGoesOn ==
  ASSUME NEW p \in Seq(Node), IsPath(p), NEW a \in Arcs(edges),
         edges \subseteq Edge, a[1] = p[Len(p)], a[2] \notin Range(p)
  PROVE  /\ Append(p, a[2]) \in Seq(Node)
         /\ IsPath(Append(p, a[2]))
         /\ Len(Append(p, a[2])) = Len(p) + 1
         /\ a = <<Append(p, a[2])[Len(p)], Append(p, a[2])[Len(p) + 1]>>
<1> DEFINE q == Append(p, a[2])
<1>1. a[1] \in Node /\ a[2] \in Node /\ a = <<a[1], a[2]>>
  BY ArcsAreNodes
<1>2. Len(p) \in Nat \ {0} /\ DOMAIN p = 1..Len(p)
  BY DEF IsPath
<1>3. q \in Seq(Node) /\ Len(q) = Len(p) + 1 /\ DOMAIN q = 1..(Len(p) + 1)
  BY <1>1
<1>4. \A n \in 1..Len(p) : q[n] = p[n]
  BY <1>1
<1>5. q[Len(p) + 1] = a[2]
  BY <1>1
<1>6. \A n \in 1..Len(p) : p[n] # a[2]
  BY <1>2 DEF Range
<1> HIDE DEF q
<1>7. \A m, n \in DOMAIN q : m # n => q[m] # q[n]
  <2> SUFFICES ASSUME NEW m \in DOMAIN q, NEW n \in DOMAIN q, m # n
               PROVE  q[m] # q[n]
    OBVIOUS
  <2>1. CASE m \in 1..Len(p) /\ n \in 1..Len(p)
    BY <2>1, <1>2, <1>4 DEF IsPath
  <2>2. CASE m = Len(p) + 1 /\ n \in 1..Len(p)
    BY <2>2, <1>4, <1>5, <1>6
  <2>3. CASE n = Len(p) + 1 /\ m \in 1..Len(p)
    BY <2>3, <1>4, <1>5, <1>6
  <2>. QED
    BY <2>1, <2>2, <2>3, <1>2, <1>3
<1>8. \A n \in 2..Len(q) : <<q[n - 1], q[n]>> \in Arcs(edges)
  <2> SUFFICES ASSUME NEW n \in 2..Len(q) PROVE <<q[n - 1], q[n]>> \in Arcs(edges)
    OBVIOUS
  <2>1. CASE n = Len(p) + 1
    BY <2>1, <1>1, <1>2, <1>4, <1>5
  <2>2. CASE n \in 2..Len(p)
    <3>1. n \in 1..Len(p) /\ n - 1 \in 1..Len(p)
      BY <2>2, <1>2
    <3>. QED
      BY <2>2, <3>1, <1>4 DEF IsPath
  <2>. QED
    BY <2>1, <2>2, <1>2, <1>3
<1>9. q[1] = start
  BY <1>2, <1>4 DEF IsPath
<1>10. q # <<>>
  BY <1>3, <1>2
<1>11. a = <<q[Len(p)], q[Len(p) + 1]>>
  BY <1>1, <1>2, <1>4, <1>5
<1>. QED
  BY <1>3, <1>7, <1>8, <1>9, <1>10, <1>11 DEF q, IsPath

\* What comes after the first element of a sequence.
LEMMA TailOf ==
  ASSUME NEW p \in Seq(Node), NEW n \in Nat \ {0}, n = Len(p)
  PROVE  /\ Tail(p) \in Seq(Node) /\ Len(Tail(p)) = n - 1
         /\ \A i \in 1..(n - 1) : Tail(p)[i] = p[i + 1]
<1>1. p # <<>>
  OBVIOUS
<1>. QED
  BY <1>1, HeadTailProperties

LEMMA TailOfAppend ==
  ASSUME NEW p \in Seq(Node), p # <<>>, NEW v \in Node
  PROVE  Tail(Append(p, v)) = Append(Tail(p), v)
<1>1. PICK n \in Nat \ {0} : n = Len(p)
  OBVIOUS
<1>2. PICK q, t : q = Append(p, v) /\ t = Tail(p)
  OBVIOUS
<1>3. PICK k \in Nat \ {0} : k = n + 1 /\ k - 1 = n
  BY <1>1
<1>4. /\ q \in Seq(Node) /\ Len(q) = k /\ q[k] = v
      /\ \A i \in 1..n : q[i] = p[i]
  BY <1>1, <1>2, <1>3, AppendProperties
<1>5. t \in Seq(Node) /\ Len(t) = n - 1 /\ \A i \in 1..(n - 1) : t[i] = p[i + 1]
  BY <1>1, <1>2, TailOf
<1>6. /\ Tail(q) \in Seq(Node) /\ Len(Tail(q)) = n
      /\ \A i \in 1..n : Tail(q)[i] = q[i + 1]
  BY <1>3, <1>4, TailOf
<1>7. PICK u : u = Append(t, v)
  OBVIOUS
<1>8. /\ u \in Seq(Node) /\ Len(u) = n /\ u[n] = v
      /\ \A i \in 1..(n - 1) : u[i] = t[i]
  <2>1. PICK m \in Nat : m = n - 1 /\ m + 1 = n
    BY <1>1
  <2>. QED
    BY <1>5, <1>7, <2>1, AppendProperties
<1>9. ASSUME NEW i \in 1..n PROVE Tail(q)[i] = u[i]
  <2>1. CASE i = n
    BY <1>3, <1>4, <1>6, <1>8, <2>1
  <2>2. CASE i # n
    <3>1. i \in 1..(n - 1) /\ i + 1 \in 1..n
      BY <2>2
    <3>. QED
      BY <1>4, <1>5, <1>6, <1>8, <3>1
  <2>. QED
    BY <2>1, <2>2
<1>10. Tail(q) = u
  BY <1>6, <1>8, <1>9, SeqEqual
<1>. QED
  BY <1>2, <1>7, <1>10

\* A path after a loop at the start goes on like one without.
LEMMA LoopGoesOn ==
  ASSUME NEW p \in Seq(Node), IsPathAfterLoop(p), NEW a \in Arcs(edges),
         edges \subseteq Edge, a[1] = p[Len(p)], a[2] \notin Range(p)
  PROVE  /\ Append(p, a[2]) \in Seq(Node)
         /\ IsPathAfterLoop(Append(p, a[2]))
         /\ Len(Append(p, a[2])) = Len(p) + 1
         /\ a = <<Append(p, a[2])[Len(p)], Append(p, a[2])[Len(p) + 1]>>
<1>1. PICK v, n : v = a[2] /\ n = Len(p)
  OBVIOUS
<1>2. /\ n \in Nat \ {0} /\ n > 1 /\ DOMAIN p = 1..n /\ p # <<>> /\ p[1] = start
      /\ v \in Node /\ a = <<p[n], v>>
  BY <1>1, ArcsAreNodes DEF IsPathAfterLoop
<1>3. PICK q, t : q = Append(p, v) /\ t = Tail(p)
  OBVIOUS
<1>4. /\ q \in Seq(Node) /\ Len(q) = n + 1 /\ q[n + 1] = v
      /\ \A i \in 1..n : q[i] = p[i]
  BY <1>1, <1>2, <1>3, AppendProperties
<1>5. t \in Seq(Node) /\ Len(t) = n - 1 /\ \A i \in 1..(n - 1) : t[i] = p[i + 1]
  BY <1>1, <1>2, <1>3, TailOf
<1>6. t[Len(t)] = a[1]
  <2>1. n - 1 \in 1..(n - 1) /\ (n - 1) + 1 = n
    BY <1>2
  <2>. QED
    BY <1>1, <1>5, <2>1
<1>7. a[2] \notin Range(t)
  <2>1. \A i \in 1..n : p[i] # v
    BY <1>1, <1>2 DEF Range
  <2>2. DOMAIN t = 1..(n - 1) /\ \A i \in 1..(n - 1) : i + 1 \in 1..n
    BY <1>2, <1>5
  <2>3. ASSUME NEW i \in DOMAIN t PROVE t[i] # v
    BY <1>5, <2>1, <2>2
  <2>. QED
    BY <1>1, <2>3 DEF Range
<1>8. IsPath(Append(t, v))
  <2>1. IsPath(t)
    BY <1>3 DEF IsPathAfterLoop
  <2>. QED
    BY <1>1, <1>5, <1>6, <1>7, <2>1, PathGoesOn
<1>9. Tail(q) = Append(t, v)
  BY <1>2, <1>3, TailOfAppend
<1>10. IsPathAfterLoop(q)
  <2>1. Len(q) > 1 /\ q[1] = start
    BY <1>2, <1>4
  <2>2. IsPath(Tail(q))
    BY <1>8, <1>9
  <2>. QED
    BY <2>1, <2>2 DEF IsPathAfterLoop
<1>. QED
  BY <1>1, <1>2, <1>3, <1>4, <1>10

\* The path of no steps.
LEMMA StartIsPath ==
  <<start>> \in Seq(Node) /\ IsPath(<<start>>) /\ Len(<<start>>) = 1
BY Bounds DEF IsPath

\* Only the query's own state matters to what a path is.
LEMMA QueryStays ==
  ASSUME UNCHANGED <<edges, depth, direction>>
  PROVE  /\ Arcs(edges)' = Arcs(edges)
         /\ cappedDepth' = cappedDepth
         /\ \A p : /\ IsPath(p)' <=> IsPath(p)
                   /\ IsPathAfterLoop(p)' <=> IsPathAfterLoop(p)
<1>1. Arcs(edges)' = Arcs(edges)
  BY DEF Arcs, Along
<1>2. cappedDepth' = cappedDepth
  BY DEF cappedDepth
<1>3. ASSUME NEW p PROVE IsPath(p)' <=> IsPath(p)
  BY <1>1 DEF IsPath
<1>4. ASSUME NEW p PROVE IsPathAfterLoop(p)' <=> IsPathAfterLoop(p)
  BY <1>1, <1>3 DEF IsPathAfterLoop
<1>. QED
  BY <1>1, <1>2, <1>3, <1>4

LEMMA PathInit == LineageInit => PathInv
BY DEF LineageInit, PathInv, WalkTypeOK, RowsArePaths

LEMMA FirstInv ==
  ASSUME PathInv, First PROVE PathInv'
<1> DEFINE arcs == {b \in Arcs(edges) : b[1] = start}
           rows == {RowOf(<<start>>, a) : a \in arcs}
<1>1. walk' = rows /\ work' = rows /\ UNCHANGED <<edges, depth, direction>>
  BY DEF First, query
<1>2. ASSUME NEW entry \in rows
      PROVE  entry \in [arc : Arcs(edges), path : Path] /\ IsRow(entry)
  <2>1. PICK a \in arcs : entry = RowOf(<<start>>, a)
    OBVIOUS
  <2> DEFINE p == <<start>>
  <2>2. p \in Seq(Node) /\ IsPath(p) /\ Len(p) = 1 /\ p[1] = start /\ DOMAIN p = {1}
    BY StartIsPath
  <2>3. a \in Arcs(edges) /\ a[1] = p[Len(p)] /\ edges \subseteq Edge
        /\ a[1] \in Node /\ a[2] \in Node /\ a = <<a[1], a[2]>>
    BY <2>2, ArcsAreNodes DEF PathInv, WalkTypeOK
  <2>4. entry = [arc |-> a, path |-> Append(p, a[2])]
    BY <2>1 DEF RowOf
  <2>5. cappedDepth \in 1..MAX_DEPTH
    BY DepthBound DEF PathInv, WalkTypeOK
  <2> HIDE DEF p
  <2>6. PICK q : q = Append(p, a[2])
    OBVIOUS
  <2>7. /\ q \in Seq(Node) /\ Len(q) = 2 /\ q[1] = start /\ q[2] = a[2] /\ a = <<q[1], q[2]>>
        /\ entry.path = q /\ entry.arc = a
        /\ entry \in [arc : Arcs(edges), path : Seq(Node)]
    BY <2>2, <2>3, <2>4, <2>6
  <2>8. IsPath(q) \/ IsPathAfterLoop(q)
    <3>1. CASE a[2] # start
      <4>1. a[2] \notin Range(p)
        BY <2>2, <3>1 DEF Range
      <4>. QED
        BY <2>2, <2>3, <2>6, <4>1, PathGoesOn
    <3>2. CASE a[2] = start
      <4>1. Tail(q) \in Seq(Node) /\ Len(Tail(q)) = 1 /\ Tail(q)[1] = q[2]
        <5>1. PICK n \in Nat \ {0} : n = 2 /\ n = Len(q) /\ n - 1 = 1
          BY <2>7
        <5>2. /\ Tail(q) \in Seq(Node) /\ Len(Tail(q)) = n - 1
              /\ \A i \in 1..(n - 1) : Tail(q)[i] = q[i + 1]
          BY <2>7, <5>1, TailOf
        <5>. QED
          BY <5>1, <5>2
      <4>2. PICK t : t = Tail(q)
        OBVIOUS
      <4>3. Len(t) = Len(p) /\ \A i \in 1..Len(t) : t[i] = p[i]
        BY <2>2, <2>7, <3>2, <4>1, <4>2
      <4>4. t = p
        BY <2>2, <4>1, <4>2, <4>3, SeqEqual
      <4>5. <<start, start>> \in Arcs(edges)
        BY <2>3, <2>7, <3>2
      <4>6. Len(q) > 1
        BY <2>7
      <4>7. IsPath(Tail(q))
        BY <2>2, <4>2, <4>4
      <4>. QED
        BY <2>7, <4>5, <4>6, <4>7 DEF IsPathAfterLoop
    <3>. QED
      BY <3>1, <3>2
  <2>9. Len(q) \in 2..(cappedDepth + 1) /\ Len(q) - 1 = 1
    BY Bounds, <2>5, <2>7 DEF PathInv, WalkTypeOK
  <2>. QED
    BY <2>7, <2>8, <2>9 DEF IsRow, Path
<1> HIDE DEF rows
<1>3. WalkTypeOK'
  BY Bounds, <1>1, <1>2, QueryStays DEF PathInv, WalkTypeOK
<1>4. RowsArePaths'
  BY <1>1, <1>2, QueryStays DEF RowsArePaths, IsRow
<1>. QED
  BY <1>3, <1>4 DEF PathInv

LEMMA RoundInv ==
  ASSUME PathInv, Round PROVE PathInv'
<1> DEFINE rows == {RowOf(c[1].path, c[2]) : c \in Continued}
<1>1. work' = rows /\ walk' = walk \cup rows /\ UNCHANGED <<edges, depth, direction>>
  BY DEF Round, query
<1>2. ASSUME NEW entry \in rows
      PROVE  entry \in [arc : Arcs(edges), path : Path] /\ IsRow(entry)
  <2>1. PICK c \in Continued : entry = RowOf(c[1].path, c[2])
    OBVIOUS
  <2> DEFINE w == c[1]
             a == c[2]
             p == w.path
  <2>2. w \in work /\ a \in Arcs(edges) /\ MayEnter(w, a)
    BY DEF Continued
  <2>3. w \in walk /\ p \in Seq(Node) /\ (IsPath(p) \/ IsPathAfterLoop(p))
        /\ Len(p) \in 2..(cappedDepth + 1)
        /\ w.arc = <<p[Len(p) - 1], p[Len(p)]>>
    BY <2>2 DEF PathInv, WalkTypeOK, RowsArePaths, Path
  <2>4. a[1] = p[Len(p)] /\ a[2] \notin Range(p) /\ Len(p) - 1 < cappedDepth
    BY <2>2, <2>3 DEF MayEnter
  <2>5. cappedDepth \in 1..MAX_DEPTH
    BY DepthBound DEF PathInv, WalkTypeOK
  <2>6. entry.path = Append(p, a[2]) /\ entry.arc = a
        /\ entry = [arc |-> a, path |-> Append(p, a[2])]
    BY <2>1 DEF RowOf
  <2> HIDE DEF w, a, p
  <2>7. /\ Append(p, a[2]) \in Seq(Node)
        /\ IsPath(Append(p, a[2])) \/ IsPathAfterLoop(Append(p, a[2]))
        /\ Len(Append(p, a[2])) = Len(p) + 1
        /\ a = <<Append(p, a[2])[Len(p)], Append(p, a[2])[Len(p) + 1]>>
    <3>1. edges \subseteq Edge
      BY DEF PathInv, WalkTypeOK
    <3>2. CASE IsPath(p)
      BY <2>2, <2>3, <2>4, <3>1, <3>2, PathGoesOn
    <3>3. CASE IsPathAfterLoop(p)
      BY <2>2, <2>3, <2>4, <3>1, <3>3, LoopGoesOn
    <3>. QED
      BY <2>3, <3>2, <3>3
  <2> DEFINE q == Append(p, a[2])
  <2>8. /\ q \in Seq(Node) /\ (IsPath(q) \/ IsPathAfterLoop(q)) /\ Len(q) = Len(p) + 1
        /\ a = <<q[Len(p)], q[Len(p) + 1]>> /\ entry.path = q /\ entry.arc = a
        /\ entry \in [arc : Arcs(edges), path : Seq(Node)]
    BY <2>2, <2>6, <2>7
  <2> HIDE DEF q
  <2>9. Len(q) \in 2..(cappedDepth + 1) /\ Len(q) - 1 = Len(p)
    BY Bounds, <2>3, <2>4, <2>5, <2>8 DEF PathInv, WalkTypeOK
  <2>. QED
    BY <2>8, <2>9 DEF IsRow, Path
<1> HIDE DEF rows
<1>3. WalkTypeOK'
  BY Bounds, <1>1, <1>2, QueryStays DEF PathInv, WalkTypeOK
<1>4. RowsArePaths'
  BY <1>1, <1>2, QueryStays DEF PathInv, RowsArePaths, IsRow
<1>. QED
  BY <1>3, <1>4 DEF PathInv

LEMMA PathStep == PathInv /\ [LineageNext]_(lineageVars) => PathInv'
<1> SUFFICES ASSUME PathInv, [LineageNext]_(lineageVars) PROVE PathInv'
  OBVIOUS
<1>1. CASE First
  BY <1>1, FirstInv
<1>2. CASE Round
  BY <1>2, RoundInv
<1>3. CASE \/ AnswerLineage \/ AnswerSpecial
           \/ Answered \/ UNCHANGED lineageVars
  <2>1. UNCHANGED <<edges, depth, direction, walk, work>>
    BY <1>3 DEF AnswerLineage, AnswerSpecial, Answered,
       lineageVars, query
  <2>. QED
    BY Bounds, <2>1, QueryStays DEF PathInv, WalkTypeOK, RowsArePaths
<1>. QED
  BY <1>1, <1>2, <1>3 DEF LineageNext

\* Every row of traverse's recursive query is the end of a path of the graph from
\* the start that is no longer than the depth asked for and the cap, and enters no
\* node twice, but for the start if an edge leads from it to itself: in any graph.
THEOREM PathsTheorem == LineageSpec => []RowsArePaths
<1>1. PathInv => RowsArePaths
  BY DEF PathInv
<1>. QED
  BY PathInit, PathStep, <1>1, PTL DEF LineageSpec

-----------------------------------------------------------------------------
(* What the answers contain.  Recursive definitions compute the sets of    *)
(* paths and of nodes within a distance; that the functions they define    *)
(* are those sets is shown by exhibiting them, and by an induction over    *)
(* the set of numbers for which the two agree.                             *)

\* Induction over the natural numbers, for a set of them.
LEMMA NatInSet ==
  ASSUME NEW S, 0 \in S, \A n \in Nat : n \in S => n + 1 \in S
  PROVE  Nat \subseteq S
<1>1. SUFFICES ASSUME Nat \ S # {} PROVE FALSE
  OBVIOUS
<1>2. PICK x \in Nat \ S : \A y \in Nat \ S : ~(<<y, x>> \in OpToRel(<, Nat))
  BY <1>1, NatLessThanWellFounded, WFMin
<1>3. \A y \in Nat \ S : ~(y < x)
  BY <1>2 DEF OpToRel
<1>4. x \in Nat \ S
  OBVIOUS
<1>5. x # 0 /\ x - 1 \in Nat
  BY <1>4
<1>6. x - 1 \in S
  BY <1>3, <1>4, <1>5
<1>. QED
  BY <1>4, <1>5, <1>6

\* A path of steps among arcs, from start, that visits no node twice.
SimplePath(p, arcs) ==
  /\ p # <<>> /\ p[1] = start
  /\ \A m, n \in DOMAIN p : m # n => p[m] # p[n]
  /\ \A n \in 2..Len(p) : <<p[n - 1], p[n]>> \in arcs
SimplePaths(arcs, n) == {p \in Seq(Node) : SimplePath(p, arcs) /\ Len(p) <= n}

LEMMA IsPathIsSimple == \A p : IsPath(p) <=> SimplePath(p, Arcs(edges))
BY DEF IsPath, SimplePath

LEMMA PathLength ==
  ASSUME NEW arcs, NEW p \in Seq(Node), SimplePath(p, arcs)
  PROVE  Len(p) \in Nat \ {0} /\ DOMAIN p = 1..Len(p) /\ \A n \in 1..Len(p) : p[n] \in Node
BY DEF SimplePath

\* What a path has gone through is a path.
LEMMA Prefix ==
  ASSUME NEW arcs, NEW p \in Seq(Node), SimplePath(p, arcs), NEW n \in 1..Len(p)
  PROVE  LET q == SubSeq(p, 1, n)
         IN  /\ q \in Seq(Node) /\ SimplePath(q, arcs) /\ Len(q) = n
             /\ \A i \in 1..n : q[i] = p[i]
<1> DEFINE q == SubSeq(p, 1, n)
<1>1. Len(p) \in Nat \ {0} /\ DOMAIN p = 1..Len(p) /\ \A i \in 1..Len(p) : p[i] \in Node
  BY PathLength
<1>2. \A i \in 1..n : p[i] \in Node
  BY <1>1
<1>3. q \in Seq(Node) /\ Len(q) = n /\ \A i \in 1..n : q[i] = p[i]
  BY <1>1, <1>2, SubSeqProperties
<1> HIDE DEF q
<1>4. DOMAIN q = 1..n
  BY <1>3
<1>5. SimplePath(q, arcs)
  <2>1. q # <<>> /\ q[1] = start
    BY <1>1, <1>3 DEF SimplePath
  <2>2. \A k, m \in DOMAIN q : k # m => q[k] # q[m]
    BY <1>1, <1>3, <1>4 DEF SimplePath
  <2>3. ASSUME NEW k \in 2..n PROVE <<q[k - 1], q[k]>> \in arcs
    <3>1. k \in 2..Len(p) /\ k - 1 \in 1..n /\ k \in 1..n
      BY <1>1
    <3>. QED
      BY <1>3, <3>1 DEF SimplePath
  <2>. QED
    BY <1>3, <2>1, <2>2, <2>3 DEF SimplePath
<1>. QED
  BY <1>3, <1>5 DEF q

\* A path is its last step after the others.
LEMMA LastStep ==
  ASSUME NEW arcs, NEW p \in Seq(Node), SimplePath(p, arcs), Len(p) > 1
  PROVE  \E q \in Seq(Node), b \in arcs :
           /\ SimplePath(q, arcs) /\ Len(q) = Len(p) - 1
           /\ b = <<p[Len(p) - 1], p[Len(p)]>> /\ b[1] = q[Len(q)]
           /\ b[2] \notin Range(q) /\ p = Append(q, b[2])
<1> DEFINE n == Len(p) - 1
           q == SubSeq(p, 1, n)
           b == <<p[n], p[n + 1]>>
<1>1. Len(p) \in Nat \ {0} /\ DOMAIN p = 1..Len(p) /\ \A i \in 1..Len(p) : p[i] \in Node
  BY PathLength
<1>2. n \in 1..Len(p) /\ n + 1 = Len(p) /\ n \in Nat \ {0}
  BY <1>1
<1>3. /\ q \in Seq(Node) /\ SimplePath(q, arcs) /\ Len(q) = n
      /\ \A i \in 1..n : q[i] = p[i]
  BY <1>2, Prefix
<1>4. b \in arcs
  BY <1>1, <1>2 DEF SimplePath
<1> HIDE DEF n, q
<1>5. b[1] = q[Len(q)] /\ b[2] = p[n + 1]
  BY <1>2, <1>3
<1>6. b[2] \notin Range(q)
  <2>1. DOMAIN q = 1..n
    BY <1>3
  <2>2. \A i \in 1..n : q[i] # p[n + 1]
    BY <1>1, <1>2, <1>3 DEF SimplePath
  <2>. QED
    BY <1>5, <2>1, <2>2 DEF Range
<1>7. p = Append(q, b[2])
  <2>1. PICK v : v = p[n + 1]
    OBVIOUS
  <2>2. v \in Node
    BY <1>1, <1>2, <2>1
  <2>3. /\ Append(q, v) \in Seq(Node) /\ Len(Append(q, v)) = n + 1
        /\ \A i \in 1..(n + 1) : Append(q, v)[i] = IF i = n + 1 THEN v ELSE q[i]
    BY <1>2, <1>3, <2>2
  <2>4. \A i \in 1..Len(p) : Append(q, v)[i] = p[i]
    BY <1>2, <1>3, <2>1, <2>3
  <2>5. p = Append(q, v)
    BY <1>2, <2>3, <2>4, SeqEqual
  <2>. QED
    BY <1>5, <2>1, <2>5
<1>. QED
  BY <1>2, <1>3, <1>4, <1>5, <1>6, <1>7 DEF n

\* A path goes on to a node that it has not visited.
LEMMA NextStep ==
  ASSUME NEW arcs, arcs \subseteq Node \X Node, NEW q \in Seq(Node), SimplePath(q, arcs),
         NEW b \in arcs, b[1] = q[Len(q)], b[2] \notin Range(q)
  PROVE  /\ Append(q, b[2]) \in Seq(Node) /\ SimplePath(Append(q, b[2]), arcs)
         /\ Len(Append(q, b[2])) = Len(q) + 1
         /\ Append(q, b[2])[Len(q) + 1] = b[2]
         /\ Append(q, b[2])[Len(q)] = b[1]
<1>1. PICK v, n : v = b[2] /\ n = Len(q)
  OBVIOUS
<1>2. /\ n \in Nat \ {0} /\ DOMAIN q = 1..n /\ v \in Node
      /\ \A i \in 1..n : q[i] \in Node
  BY <1>1, PathLength
<1>3. b = <<q[n], v>>
  BY <1>1
<1> DEFINE p == Append(q, v)
<1>4. /\ p \in Seq(Node) /\ Len(p) = n + 1 /\ DOMAIN p = 1..(n + 1)
      /\ \A i \in 1..n : p[i] = q[i]
      /\ p[n + 1] = v
  BY <1>1, <1>2
<1> HIDE DEF p
<1>5. \A i \in 1..n : q[i] # v
  BY <1>1, <1>2 DEF Range
<1>6. \A k, m \in DOMAIN p : k # m => p[k] # p[m]
  BY <1>2, <1>4, <1>5 DEF SimplePath
<1>7. ASSUME NEW k \in 2..(n + 1) PROVE <<p[k - 1], p[k]>> \in arcs
  <2>1. CASE k = n + 1
    <3>1. k - 1 = n /\ n \in 1..n
      BY <1>2, <2>1
    <3>2. p[n] = q[n] /\ p[n + 1] = v
      BY <1>4, <3>1
    <3>. QED
      BY <1>3, <2>1, <3>1, <3>2
  <2>2. CASE k # n + 1
    <3>1. k \in 2..n /\ k - 1 \in 1..n /\ k \in 1..n
      BY <1>2, <2>2
    <3>. QED
      BY <1>1, <1>4, <3>1 DEF SimplePath
  <2>. QED
    BY <2>1, <2>2
<1>8. p # <<>> /\ p[1] = start
  BY <1>2, <1>4 DEF SimplePath
<1>9. SimplePath(p, arcs)
  BY <1>4, <1>6, <1>7, <1>8 DEF SimplePath
<1>. QED
  BY <1>1, <1>2, <1>3, <1>4, <1>9 DEF p

LEMMA StartIsSimple ==
  ASSUME NEW arcs
  PROVE  /\ <<start>> \in Seq(Node) /\ SimplePath(<<start>>, arcs) /\ Len(<<start>>) = 1
         /\ SimplePaths(arcs, 1) = {<<start>>}
<1>1. PICK s : s = <<start>>
  OBVIOUS
<1>2. s \in Seq(Node) /\ SimplePath(s, arcs) /\ Len(s) = 1 /\ s[1] = start
  BY <1>1, Bounds DEF SimplePath
<1>3. ASSUME NEW p \in Seq(Node), SimplePath(p, arcs), Len(p) <= 1 PROVE p = s
  <2>1. PICK k : k = Len(p)
    OBVIOUS
  <2>2. k \in Nat \ {0}
    BY <1>3, <2>1, PathLength
  <2>3. k = 1
    BY <1>3, <2>1, <2>2
  <2>4. p[1] = start
    BY <1>3 DEF SimplePath
  <2>5. Len(p) = Len(s) /\ \A i \in 1..Len(p) : p[i] = s[i]
    BY <1>2, <2>1, <2>3, <2>4
  <2>. QED
    BY <1>2, <2>5, SeqEqual
<1>4. SimplePaths(arcs, 1) = {s}
  <2>0. Len(s) <= 1
    BY <1>2
  <2>1. s \in SimplePaths(arcs, 1)
    BY <1>2, <2>0 DEF SimplePaths
  <2>2. ASSUME NEW p \in SimplePaths(arcs, 1) PROVE p = s
    BY <1>3 DEF SimplePaths
  <2>. QED
    BY <2>1, <2>2
<1>. QED
  BY <1>1, <1>2, <1>4

LEMMA ArcsArePairs == edges \subseteq Edge => Arcs(edges) \subseteq Node \X Node
BY DEF Arcs, Along, Edge

-----------------------------------------------------------------------------
(* The walk over the rows finds the simple paths among their arcs.         *)

PathsUpTo(f, arcs, d) ==
  f = [n \in 0..d |->
        IF n = 0 THEN {<<start>>}
        ELSE f[n - 1] \cup UNION {Extended(arcs, p) : p \in f[n - 1]}]

LEMMA SimplePathsGrow ==
  ASSUME NEW arcs, arcs \subseteq Node \X Node, NEW n \in Nat \ {0}
  PROVE  SimplePaths(arcs, n + 1)
           = SimplePaths(arcs, n) \cup UNION {Extended(arcs, p) : p \in SimplePaths(arcs, n)}
<1>1. ASSUME NEW p \in SimplePaths(arcs, n + 1), p \notin SimplePaths(arcs, n)
      PROVE  p \in UNION {Extended(arcs, q) : q \in SimplePaths(arcs, n)}
  <2>1. p \in Seq(Node) /\ SimplePath(p, arcs) /\ Len(p) = n + 1
    BY <1>1, PathLength DEF SimplePaths
  <2>2. PICK q \in Seq(Node), b \in arcs :
          /\ SimplePath(q, arcs) /\ Len(q) = Len(p) - 1
          /\ b[1] = q[Len(q)] /\ b[2] \notin Range(q) /\ p = Append(q, b[2])
    BY <2>1, LastStep
  <2>3. q \in SimplePaths(arcs, n)
    BY <2>1, <2>2 DEF SimplePaths
  <2>4. p \in Extended(arcs, q)
    BY <2>2 DEF Extended, Last
  <2>. QED
    BY <2>3, <2>4
<1>2. ASSUME NEW q \in SimplePaths(arcs, n), NEW p \in Extended(arcs, q)
      PROVE  p \in SimplePaths(arcs, n + 1)
  <2>1. PICK b \in arcs : b[1] = q[Len(q)] /\ b[2] \notin Range(q) /\ p = Append(q, b[2])
    BY DEF Extended, Last
  <2>2. q \in Seq(Node) /\ SimplePath(q, arcs) /\ Len(q) <= n /\ Len(q) \in Nat
    BY PathLength DEF SimplePaths
  <2>3. p \in Seq(Node) /\ SimplePath(p, arcs) /\ Len(p) = Len(q) + 1
    BY <2>1, <2>2, NextStep
  <2>. QED
    BY <2>2, <2>3 DEF SimplePaths
<1>3. SimplePaths(arcs, n) \subseteq SimplePaths(arcs, n + 1)
  BY PathLength DEF SimplePaths
<1>. QED
  BY <1>1, <1>2, <1>3

LEMMA PathsAreFound ==
  ASSUME NEW arcs, arcs \subseteq Node \X Node, NEW d \in Nat, NEW f, PathsUpTo(f, arcs, d)
  PROVE  f[d] = SimplePaths(arcs, d + 1)
<1> DEFINE S == {n \in Nat : n <= d => f[n] = SimplePaths(arcs, n + 1)}
<1>1. SimplePaths(arcs, 1) = {<<start>>}
  BY StartIsSimple
<1>2. 0 \in S
  BY <1>1 DEF PathsUpTo
<1>3. ASSUME NEW n \in Nat, n \in S PROVE n + 1 \in S
  <2>1. SUFFICES ASSUME n + 1 <= d PROVE f[n + 1] = SimplePaths(arcs, n + 2)
    OBVIOUS
  <2>2. f[n + 1] = f[n] \cup UNION {Extended(arcs, p) : p \in f[n]}
    <3>1. PICK m : m = n + 1 /\ m \in 0..d /\ m # 0 /\ m - 1 = n
      BY <2>1
    <3>2. f[m] = f[m - 1] \cup UNION {Extended(arcs, p) : p \in f[m - 1]}
      BY <3>1 DEF PathsUpTo
    <3>. QED
      BY <3>1, <3>2
  <2>3. f[n] = SimplePaths(arcs, n + 1)
    BY <1>3, <2>1
  <2>4. SimplePaths(arcs, n + 2) = SimplePaths(arcs, n + 1)
          \cup UNION {Extended(arcs, p) : p \in SimplePaths(arcs, n + 1)}
    <3>1. n + 1 \in Nat \ {0} /\ (n + 1) + 1 = n + 2
      OBVIOUS
    <3>2. PICK m \in Nat \ {0} : m = n + 1 /\ m + 1 = n + 2
      BY <3>1
    <3>. QED
      BY <3>2, SimplePathsGrow
  <2>. QED
    BY <2>2, <2>3, <2>4
<1>4. Nat \subseteq S
  <2> HIDE DEF S
  <2>. QED
    BY <1>2, <1>3, NatInSet
<1>. QED
  BY <1>4

LEMMA CollectedFact ==
  ASSUME NEW arcs, arcs \subseteq Node \X Node, depth \in Nat
  PROVE  collectPaths(arcs) = SimplePaths(arcs, depth + 1) \ {<<start>>}
<1> DEFINE f == CHOOSE g : PathsUpTo(g, arcs, depth)
           h == [n \in 0..depth |-> SimplePaths(arcs, n + 1)]
<1>1. collectPaths(arcs) = f[depth] \ {<<start>>}
  BY DEF collectPaths, PathsUpTo
<1>2. PathsUpTo(h, arcs, depth)
  <2>1. ASSUME NEW n \in 0..depth
        PROVE  h[n] = IF n = 0 THEN {<<start>>}
                      ELSE h[n - 1] \cup UNION {Extended(arcs, p) : p \in h[n - 1]}
    <3>1. CASE n = 0
      <4>1. SimplePaths(arcs, 1) = {<<start>>}
        BY StartIsSimple
      <4>. QED
        BY <3>1, <4>1
    <3>2. CASE n # 0
      <4>1. PICK m \in Nat \ {0} : m = n /\ n - 1 \in 0..depth /\ (n - 1) + 1 = m
        BY <3>2
      <4>2. h[n - 1] = SimplePaths(arcs, m) /\ h[n] = SimplePaths(arcs, m + 1)
        BY <4>1
      <4> HIDE DEF h
      <4>. QED
        BY <3>2, <4>1, <4>2, SimplePathsGrow
    <3>. QED
      BY <3>1, <3>2
  <2>2. h = [n \in 0..depth |-> h[n]]
    OBVIOUS
  <2> HIDE DEF h
  <2>. QED
    BY <2>1, <2>2 DEF PathsUpTo
<1>3. PathsUpTo(f, arcs, depth)
  <2> HIDE DEF h
  <2>. QED
    BY <1>2
<1> HIDE DEF f
<1>. QED
  BY <1>1, <1>3, PathsAreFound

-----------------------------------------------------------------------------
(* The nodes within a distance are the ends of the simple paths.           *)

\* Where arcs that leave a set of nodes lead.
Beyond(arcs, nodes) == {a[2] : a \in {b \in arcs : b[1] \in nodes}}

BallFunction(f, arcs, d) ==
  f = [k \in 0..d |-> IF k = 0 THEN {start} ELSE f[k - 1] \cup Beyond(arcs, f[k - 1])]

Ends(paths) == {p[Len(p)] : p \in paths}

\* Where a node is that a path ends at or goes through, a simple path ends.
LEMMA OnThePath ==
  ASSUME NEW arcs, NEW n, NEW p \in SimplePaths(arcs, n), n \in Nat, NEW v \in Range(p)
  PROVE  v \in Ends(SimplePaths(arcs, n))
<1>1. p \in Seq(Node) /\ SimplePath(p, arcs) /\ Len(p) <= n
      /\ Len(p) \in Nat \ {0} /\ DOMAIN p = 1..Len(p)
  BY PathLength DEF SimplePaths
<1>2. PICK m \in 1..Len(p) : v = p[m]
  BY <1>1 DEF Range
<1>3. PICK q : q = SubSeq(p, 1, m)
  OBVIOUS
<1>4. q \in Seq(Node) /\ SimplePath(q, arcs) /\ Len(q) = m /\ q[m] = p[m]
  BY <1>1, <1>3, Prefix
<1>5. q \in SimplePaths(arcs, n) /\ v = q[Len(q)]
  BY <1>1, <1>2, <1>4 DEF SimplePaths
<1>. QED
  BY <1>5 DEF Ends

LEMMA EndsGrow ==
  ASSUME NEW arcs, arcs \subseteq Node \X Node, NEW n \in Nat \ {0}
  PROVE  Ends(SimplePaths(arcs, n + 1))
           = Ends(SimplePaths(arcs, n))
               \cup Beyond(arcs, Ends(SimplePaths(arcs, n)))
<1> DEFINE old == Ends(SimplePaths(arcs, n))
           far == {a[2] : a \in {b \in arcs : b[1] \in old}}
<1>0. far = Beyond(arcs, old)
  BY DEF Beyond
<1>1. ASSUME NEW p \in SimplePaths(arcs, n + 1), p \notin SimplePaths(arcs, n)
      PROVE  p[Len(p)] \in far
  <2>1. p \in Seq(Node) /\ SimplePath(p, arcs) /\ Len(p) = n + 1
    BY <1>1, PathLength DEF SimplePaths
  <2>2. PICK q \in Seq(Node), b \in arcs :
          /\ SimplePath(q, arcs) /\ Len(q) = Len(p) - 1
          /\ b = <<p[Len(p) - 1], p[Len(p)]>> /\ b[1] = q[Len(q)]
    BY <2>1, LastStep
  <2>3. q \in SimplePaths(arcs, n) /\ b[2] = p[Len(p)]
    BY <2>1, <2>2 DEF SimplePaths
  <2>4. b[1] \in old
    BY <2>2, <2>3 DEF Ends
  <2>. QED
    BY <2>3, <2>4
<1>2. ASSUME NEW b \in arcs, b[1] \in old PROVE b[2] \in Ends(SimplePaths(arcs, n + 1))
  <2>1. PICK q \in SimplePaths(arcs, n) : b[1] = q[Len(q)]
    BY <1>2 DEF Ends
  <2>2. q \in Seq(Node) /\ SimplePath(q, arcs) /\ Len(q) <= n /\ Len(q) \in Nat
    BY PathLength DEF SimplePaths
  <2>3. CASE b[2] \notin Range(q)
    <3>1. PICK p : p = Append(q, b[2])
      OBVIOUS
    <3>2. /\ p \in Seq(Node) /\ SimplePath(p, arcs) /\ Len(p) = Len(q) + 1
          /\ p[Len(q) + 1] = b[2]
      BY <2>1, <2>2, <2>3, <3>1, NextStep
    <3>3. p \in SimplePaths(arcs, n + 1) /\ p[Len(p)] = b[2]
      BY <2>2, <3>2 DEF SimplePaths
    <3>. QED
      BY <3>3 DEF Ends
  <2>4. CASE b[2] \in Range(q)
    <3>1. q \in SimplePaths(arcs, n + 1)
      BY <2>2 DEF SimplePaths
    <3>. QED
      BY <2>4, <3>1, OnThePath
  <2>. QED
    BY <2>3, <2>4
<1>3. old \subseteq Ends(SimplePaths(arcs, n + 1))
  <2>1. SimplePaths(arcs, n) \subseteq SimplePaths(arcs, n + 1)
    BY PathLength DEF SimplePaths
  <2>. QED
    BY <2>1 DEF Ends
<1>4. Ends(SimplePaths(arcs, n + 1)) \subseteq old \cup far
  <2>1. ASSUME NEW p \in SimplePaths(arcs, n + 1) PROVE p[Len(p)] \in old \cup far
    BY <1>1 DEF Ends
  <2> HIDE DEF old, far
  <2>. QED
    BY <2>1 DEF Ends
<1>5. far \subseteq Ends(SimplePaths(arcs, n + 1))
  BY <1>2
<1> HIDE DEF old, far
<1>6. Ends(SimplePaths(arcs, n + 1)) = old \cup far
  BY <1>3, <1>4, <1>5
<1>. QED
  BY <1>0, <1>6 DEF old

LEMMA FirstEnds == ASSUME NEW arcs PROVE Ends(SimplePaths(arcs, 1)) = {start}
<1>1. PICK s : s = <<start>>
  OBVIOUS
<1>2. SimplePaths(arcs, 1) = {s} /\ s[Len(s)] = start
  BY <1>1, StartIsSimple
<1>. QED
  BY <1>2 DEF Ends

LEMMA BallIsFound ==
  ASSUME NEW arcs, arcs \subseteq Node \X Node, NEW d \in Nat, NEW f,
         BallFunction(f, arcs, d)
  PROVE  f[d] = Ends(SimplePaths(arcs, d + 1))
<1> DEFINE S == {n \in Nat : n <= d => f[n] = Ends(SimplePaths(arcs, n + 1))}
<1>1. 0 \in S
  BY FirstEnds DEF BallFunction
<1>2. ASSUME NEW n \in Nat, n \in S PROVE n + 1 \in S
  <2>1. SUFFICES ASSUME n + 1 <= d PROVE f[n + 1] = Ends(SimplePaths(arcs, n + 2))
    OBVIOUS
  <2>2. PICK m : m = n + 1 /\ m \in 0..d /\ m # 0 /\ m - 1 = n /\ m \in Nat \ {0}
    BY <2>1
  <2>3. f[m] = f[m - 1] \cup Beyond(arcs, f[m - 1])
    BY <2>2 DEF BallFunction
  <2>4. f[n] = Ends(SimplePaths(arcs, m))
    BY <1>2, <2>1, <2>2
  <2> HIDE DEF S
  <2>5. f[m] = Ends(SimplePaths(arcs, m + 1))
    BY <2>2, <2>3, <2>4, EndsGrow
  <2>6. m + 1 = n + 2
    BY <2>2
  <2>. QED
    BY <2>2, <2>5, <2>6
<1>3. Nat \subseteq S
  <2> HIDE DEF S
  <2>. QED
    BY <1>1, <1>2, NatInSet
<1>. QED
  BY <1>3

LEMMA BallFact ==
  ASSUME edges \subseteq Edge, NEW d \in Nat
  PROVE  Ball(d) = Ends(SimplePaths(Arcs(edges), d + 1))
<1> DEFINE arcs == Arcs(edges)
           f == CHOOSE g : BallFunction(g, arcs, d)
           h == [k \in 0..d |-> Ends(SimplePaths(arcs, k + 1))]
<1>1. Ball(d) = f[d]
  BY DEF Ball, BallFunction, Beyond
<1>0. arcs \subseteq Node \X Node
  BY ArcsArePairs
<1> HIDE DEF arcs
<1>2. BallFunction(h, arcs, d)
  <2>1. ASSUME NEW k \in 0..d
        PROVE  h[k] = IF k = 0 THEN {start}
                      ELSE h[k - 1] \cup Beyond(arcs, h[k - 1])
    <3>1. CASE k = 0
      BY <3>1, FirstEnds
    <3>2. CASE k # 0
      <4>1. PICK m \in Nat \ {0} : m = k /\ k - 1 \in 0..d /\ (k - 1) + 1 = m
        BY <3>2
      <4>2. h[k - 1] = Ends(SimplePaths(arcs, m)) /\ h[k] = Ends(SimplePaths(arcs, m + 1))
        BY <4>1
      <4> HIDE DEF h
      <4>. QED
        BY <1>0, <3>2, <4>1, <4>2, EndsGrow
    <3>. QED
      BY <3>1, <3>2
  <2>2. h = [k \in 0..d |-> h[k]]
    OBVIOUS
  <2> HIDE DEF h
  <2>. QED
    BY <2>1, <2>2 DEF BallFunction
<1>3. BallFunction(f, arcs, d)
  <2> HIDE DEF h
  <2>. QED
    BY <1>2
<1> HIDE DEF f, h
<1>. QED
  BY <1>0, <1>1, <1>3, BallIsFound DEF arcs

-----------------------------------------------------------------------------
(* The rows of the query are all the paths there are, up to the depth.     *)

AsRow(p) == [arc |-> <<p[Len(p) - 1], p[Len(p)]>>, path |-> p]

\* Round by round: the last rows are the longest paths so far.
WalkInv ==
  /\ step \in {"first", "round", "end"}
  /\ step # "first" =>
       \E k \in Nat \ {0} : \A p \in Seq(Node) :
         IsPath(p) /\ Len(p) \in 2..(cappedDepth + 1) =>
           /\ Len(p) <= k + 1 => AsRow(p) \in walk
           /\ Len(p) = k + 1 => AsRow(p) \in work
  /\ step = "end" => work = {}

\* The simple paths over the rows, as far as a special query follows them.
Walked == SimplePaths(Rows, depth + 1) \ {<<start>>}

AnswerInv ==
  /\ special \in BOOLEAN
  /\ step # "end" => ~special /\ wanted = {} /\ answer = {}
  /\ step = "end" /\ ~special => wanted = {} /\ answer = NodesOf(Rows)
  /\ step = "end" /\ special =>
       /\ wanted \subseteq {Last(p) : p \in Walked}
       /\ answer = UNION {Range(p) : p \in {q \in Walked : Last(q) \in wanted}}

LineageInv == PathInv /\ WalkInv /\ AnswerInv

LEMMA RowOfStep ==
  ASSUME NEW q \in Seq(Node), NEW b, NEW p, p = Append(q, b[2]),
         b = <<p[Len(p) - 1], p[Len(p)]>>
  PROVE  RowOf(q, b) = AsRow(p)
BY DEF RowOf, AsRow

LEMMA WalkStays ==
  ASSUME UNCHANGED <<edges, depth, direction, walk, work>>
  PROVE  Rows' = Rows /\ Walked' = Walked
<1>1. Rows' = Rows
  BY DEF Rows
<1>. QED
  BY <1>1 DEF Walked, SimplePaths, SimplePath

LEMMA FirstWalk ==
  ASSUME LineageInv, First PROVE WalkInv'
<1>1. /\ work' = walk' /\ step' = "round"
      /\ walk' = {RowOf(<<start>>, b) : b \in {a \in Arcs(edges) : a[1] = start}}
      /\ UNCHANGED <<edges, depth, direction>>
  BY DEF First, query
<1>2. ASSUME NEW p \in Seq(Node), IsPath(p), Len(p) = 2 PROVE AsRow(p) \in walk'
  <2>1. SimplePath(p, Arcs(edges)) /\ Len(p) > 1
    BY <1>2, IsPathIsSimple
  <2>2. PICK q \in Seq(Node), b \in Arcs(edges) :
          /\ SimplePath(q, Arcs(edges)) /\ Len(q) = Len(p) - 1
          /\ b = <<p[Len(p) - 1], p[Len(p)]>> /\ b[1] = q[Len(q)] /\ p = Append(q, b[2])
    BY <2>1, LastStep
  <2>3. Len(q) = 1 /\ q \in SimplePaths(Arcs(edges), 1)
    BY <1>2, <2>2 DEF SimplePaths
  <2>4. q = <<start>>
    BY <2>3, StartIsSimple
  <2>5. b[1] = start
    BY <2>2, <2>3 DEF SimplePath
  <2>6. RowOf(q, b) = AsRow(p)
    BY <2>2, RowOfStep
  <2>. QED
    BY <1>1, <2>2, <2>4, <2>5, <2>6
<1>3. PICK k : k = 1
  OBVIOUS
<1>4. cappedDepth \in 1..MAX_DEPTH /\ MAX_DEPTH \in Nat
  BY Bounds, DepthBound DEF LineageInv, PathInv, WalkTypeOK
<1>5. \A p \in Seq(Node) :
         IsPath(p)' /\ Len(p) \in 2..(cappedDepth' + 1) =>
           /\ Len(p) <= k + 1 => AsRow(p) \in walk'
           /\ Len(p) = k + 1 => AsRow(p) \in work'
  <2>1. SUFFICES ASSUME NEW p \in Seq(Node), IsPath(p), Len(p) \in 2..(cappedDepth + 1)
                 PROVE  /\ Len(p) <= k + 1 => AsRow(p) \in walk'
                        /\ Len(p) = k + 1 => AsRow(p) \in work'
    BY <1>1, QueryStays
  <2>2. PICK n, c \in Int : n = Len(p) /\ c = cappedDepth + 1
    BY <1>4
  <2>3. n \in 2..c
    BY <2>1, <2>2
  <2>4. (n <= k + 1 \/ n = k + 1) => n = 2
    BY <1>3, <2>3
  <2>5. n = 2 => AsRow(p) \in walk' /\ AsRow(p) \in work'
    BY <1>1, <1>2, <2>1, <2>2
  <2>. QED
    BY <2>2, <2>4, <2>5
<1>6. k \in Nat \ {0}
  BY <1>3
<1>. QED
  BY <1>1, <1>5, <1>6 DEF WalkInv

LEMMA RoundWalk ==
  ASSUME LineageInv, Round PROVE WalkInv'
<1>1. /\ work' = {RowOf(c[1].path, c[2]) : c \in Continued}
      /\ walk' = walk \cup work' /\ step = "round" /\ step' = "round"
      /\ UNCHANGED <<edges, depth, direction>>
  BY DEF Round, query
<1>2. PICK k \in Nat \ {0} : \A p \in Seq(Node) :
         IsPath(p) /\ Len(p) \in 2..(cappedDepth + 1) =>
           /\ Len(p) <= k + 1 => AsRow(p) \in walk
           /\ Len(p) = k + 1 => AsRow(p) \in work
  BY <1>1 DEF LineageInv, WalkInv
<1>3. cappedDepth \in 1..MAX_DEPTH /\ MAX_DEPTH \in Nat
  BY Bounds, DepthBound DEF LineageInv, PathInv, WalkTypeOK
<1>4. ASSUME NEW p \in Seq(Node), IsPath(p), Len(p) = k + 2, Len(p) <= cappedDepth + 1
      PROVE  AsRow(p) \in work'
  <2>1. SimplePath(p, Arcs(edges)) /\ Len(p) > 1
    BY <1>4, IsPathIsSimple
  <2>2. PICK q \in Seq(Node), b \in Arcs(edges) :
          /\ SimplePath(q, Arcs(edges)) /\ Len(q) = Len(p) - 1
          /\ b = <<p[Len(p) - 1], p[Len(p)]>> /\ b[1] = q[Len(q)]
          /\ b[2] \notin Range(q) /\ p = Append(q, b[2])
    BY <2>1, LastStep
  <2>3. IsPath(q) /\ Len(q) = k + 1 /\ Len(q) \in 2..(cappedDepth + 1) /\ Len(q) \in Nat
    BY <1>3, <1>4, <2>2, IsPathIsSimple
  <2>4. PICK w : w = AsRow(q)
    OBVIOUS
  <2>5. w \in work /\ w.path = q /\ w.arc[2] = q[Len(q)]
    BY <1>2, <2>3, <2>4 DEF AsRow
  <2>6. Len(q) - 1 < cappedDepth
    BY <1>3, <1>4, <2>2, <2>3
  <2>7. MayEnter(w, b)
    BY <2>2, <2>5, <2>6 DEF MayEnter
  <2>8. PICK c : c = <<w, b>>
    OBVIOUS
  <2>9. c \in Continued /\ c[1] = w /\ c[2] = b
    BY <2>2, <2>5, <2>7, <2>8 DEF Continued
  <2>10. RowOf(q, b) = AsRow(p)
    BY <2>2, RowOfStep
  <2>. QED
    BY <1>1, <2>5, <2>9, <2>10
<1>5. PICK n : n = k + 1 /\ n \in Nat \ {0}
  OBVIOUS
<1>6. \A p \in Seq(Node) :
         IsPath(p)' /\ Len(p) \in 2..(cappedDepth' + 1) =>
           /\ Len(p) <= n + 1 => AsRow(p) \in walk'
           /\ Len(p) = n + 1 => AsRow(p) \in work'
  <2>1. SUFFICES ASSUME NEW p \in Seq(Node), IsPath(p), Len(p) \in 2..(cappedDepth + 1)
                 PROVE  /\ Len(p) <= n + 1 => AsRow(p) \in walk'
                        /\ Len(p) = n + 1 => AsRow(p) \in work'
    BY <1>1, QueryStays
  <2>2. CASE Len(p) <= k + 1
    <3>1. AsRow(p) \in walk' /\ Len(p) # n + 1
      BY <1>1, <1>2, <1>3, <1>5, <2>1, <2>2
    <3>. QED
      BY <3>1
  <2>3. CASE Len(p) = k + 2
    <3>1. AsRow(p) \in work'
      BY <1>3, <1>4, <2>1, <2>3
    <3>. QED
      BY <1>1, <3>1
  <2>. QED
    BY <1>3, <1>5, <2>1, <2>2, <2>3
<1>. QED
  BY <1>1, <1>5, <1>6 DEF WalkInv

LEMMA AnswerStep ==
  ASSUME LineageInv,
         AnswerLineage \/ AnswerSpecial \/ Answered \/ UNCHANGED lineageVars
  PROVE  WalkInv' /\ AnswerInv'
<1>1. UNCHANGED <<edges, depth, direction, walk, work>>
  BY DEF AnswerLineage, AnswerSpecial, Answered, lineageVars, query
<1>2. /\ Rows' = Rows /\ Walked' = Walked /\ cappedDepth' = cappedDepth
      /\ \A p : IsPath(p)' <=> IsPath(p)
  BY <1>1, WalkStays, QueryStays
<1>3. /\ step' \in {"first", "round", "end"} /\ (step' = "first" => step = "first")
      /\ (step = "first" => step' = "first")
      /\ (step' = "end" => work = {})
  BY DEF AnswerLineage, AnswerSpecial, Answered, lineageVars, LineageInv, WalkInv
<1>4. WalkInv'
  BY <1>1, <1>2, <1>3 DEF LineageInv, WalkInv
<1>5. AnswerInv'
  <2>1. CASE AnswerLineage
    BY <1>2, <2>1 DEF AnswerLineage, LineageInv, AnswerInv, NodesOf
  <2>2. CASE AnswerSpecial
    <3>1. Rows \subseteq Node \X Node
      BY ArcsArePairs DEF LineageInv, PathInv, WalkTypeOK, Rows
    <3>2. depth \in Nat
      BY Bounds DEF LineageInv, PathInv, WalkTypeOK
    <3>3. collectPaths(Rows) = Walked
      BY <3>1, <3>2, CollectedFact DEF Walked
    <3>4. /\ special' = TRUE /\ step' = "end"
          /\ wanted' \subseteq {Last(p) : p \in Walked}
          /\ answer' = UNION {Range(p) : p \in {q \in Walked : Last(q) \in wanted'}}
      BY <2>2, <3>3 DEF AnswerSpecial
    <3>. QED
      BY <1>2, <3>4 DEF AnswerInv
  <2>3. CASE Answered \/ UNCHANGED lineageVars
    <3>1. UNCHANGED <<special, wanted, answer, step>>
      BY <2>3 DEF Answered, lineageVars
    <3>. QED
      BY <1>2, <3>1 DEF LineageInv, AnswerInv, NodesOf
  <2>. QED
    BY <2>1, <2>2, <2>3
<1>. QED
  BY <1>4, <1>5

LEMMA LineageInvInit == LineageInit => LineageInv
BY PathInit DEF LineageInit, LineageInv, WalkInv, AnswerInv

LEMMA LineageInvStep == LineageInv /\ [LineageNext]_lineageVars => LineageInv'
<1> SUFFICES ASSUME LineageInv, [LineageNext]_lineageVars PROVE LineageInv'
  OBVIOUS
<1>1. PathInv'
  BY PathStep DEF LineageInv
<1>2. CASE First
  <2>1. WalkInv'
    BY <1>2, FirstWalk
  <2>2. AnswerInv'
    BY <1>2 DEF First, LineageInv, AnswerInv
  <2>. QED
    BY <1>1, <2>1, <2>2 DEF LineageInv
<1>3. CASE Round
  <2>1. WalkInv'
    BY <1>3, RoundWalk
  <2>2. AnswerInv'
    BY <1>3 DEF Round, LineageInv, AnswerInv
  <2>. QED
    BY <1>1, <2>1, <2>2 DEF LineageInv
<1>4. CASE AnswerLineage \/ AnswerSpecial \/ Answered \/ UNCHANGED lineageVars
  BY <1>1, <1>4, AnswerStep DEF LineageInv
<1>. QED
  BY <1>2, <1>3, <1>4 DEF LineageNext

-----------------------------------------------------------------------------
(* What an answer shows.                                                   *)

\* At the end every path within the depth has its row.
LEMMA WalkIsComplete ==
  ASSUME LineageInv, step = "end", NEW p \in Seq(Node), IsPath(p),
         Len(p) \in 2..(cappedDepth + 1)
  PROVE  AsRow(p) \in walk
<1>1. PICK k \in Nat \ {0} : \A q \in Seq(Node) :
         IsPath(q) /\ Len(q) \in 2..(cappedDepth + 1) =>
           /\ Len(q) <= k + 1 => AsRow(q) \in walk
           /\ Len(q) = k + 1 => AsRow(q) \in work
  BY DEF LineageInv, WalkInv
<1>2. cappedDepth \in 1..MAX_DEPTH /\ MAX_DEPTH \in Nat /\ work = {}
  BY Bounds, DepthBound DEF LineageInv, PathInv, WalkTypeOK, WalkInv
<1>3. CASE Len(p) <= k + 1
  BY <1>1, <1>3
<1>4. CASE Len(p) > k + 1
  <2>1. PICK n : n = k + 1 /\ n \in 2..(cappedDepth + 1) /\ n \in 1..Len(p)
    BY <1>2, <1>4
  <2>2. PICK q : q = SubSeq(p, 1, n)
    OBVIOUS
  <2>3. q \in Seq(Node) /\ IsPath(q) /\ Len(q) = n
    BY <2>1, <2>2, Prefix, IsPathIsSimple
  <2>. QED
    BY <1>1, <1>2, <2>1, <2>3
<1>. QED
  BY <1>2, <1>3, <1>4

\* The arcs of the rows are those of the simple paths within the depth, and the
\* loop at the start if there is one.
LEMMA RowArcs ==
  ASSUME LineageInv, step = "end"
  PROVE  /\ Rows \subseteq Arcs(edges)
         /\ \A a \in Rows :
              \/ a = <<start, start>>
              \/ \E p \in SimplePaths(Arcs(edges), cappedDepth + 1) :
                   Len(p) > 1 /\ a = <<p[Len(p) - 1], p[Len(p)]>>
         /\ \A p \in SimplePaths(Arcs(edges), cappedDepth + 1) :
              Len(p) > 1 => <<p[Len(p) - 1], p[Len(p)]>> \in Rows
<1>0. cappedDepth \in 1..MAX_DEPTH /\ MAX_DEPTH \in Nat
  BY Bounds, DepthBound DEF LineageInv, PathInv, WalkTypeOK
<1>1. ASSUME NEW w \in walk
      PROVE  /\ w.arc \in Arcs(edges) /\ w.path \in Seq(Node)
             /\ SimplePath(w.path, Arcs(edges)) \/ SimplePath(Tail(w.path), Arcs(edges))
             /\ Len(w.path) \in 2..(cappedDepth + 1) /\ w.path[1] = start
             /\ w.arc = <<w.path[Len(w.path) - 1], w.path[Len(w.path)]>>
  BY IsPathIsSimple DEF LineageInv, PathInv, WalkTypeOK, RowsArePaths, Path,
     IsPathAfterLoop, SimplePath
<1>2. ASSUME NEW a \in Rows
      PROVE  \/ a = <<start, start>>
             \/ \E p \in SimplePaths(Arcs(edges), cappedDepth + 1) :
                  Len(p) > 1 /\ a = <<p[Len(p) - 1], p[Len(p)]>>
  <2>1. PICK w \in walk : a = w.arc
    BY DEF Rows
  <2>2. PICK p : p = w.path
    OBVIOUS
  <2>3. PICK n, c \in Nat \ {0} : n = Len(p) /\ c = cappedDepth + 1
    BY <1>0, <1>1, <2>2
  <2>4. n \in 2..c /\ p \in Seq(Node) /\ p[1] = start /\ a = <<p[n - 1], p[n]>>
    BY <1>1, <2>1, <2>2, <2>3
  <2>5. CASE SimplePath(p, Arcs(edges))
    <3>1. p \in SimplePaths(Arcs(edges), cappedDepth + 1) /\ Len(p) > 1
      BY <2>3, <2>4, <2>5 DEF SimplePaths
    <3>. QED
      BY <2>3, <2>4, <3>1
  <2>6. CASE SimplePath(Tail(p), Arcs(edges))
    <3>1. PICK t : t = Tail(p)
      OBVIOUS
    <3>2. t \in Seq(Node) /\ Len(t) = n - 1 /\ \A i \in 1..(n - 1) : t[i] = p[i + 1]
      BY <2>3, <2>4, <3>1, TailOf
    <3>3. CASE n = 2
      <4>1. t[1] = p[2] /\ t[1] = start
        BY <2>6, <3>1, <3>2, <3>3 DEF SimplePath
      <4>. QED
        BY <2>4, <3>3, <4>1
    <3>4. CASE n > 2
      <4>1. PICK m \in Nat \ {0} : m = n - 1 /\ m + 1 = n /\ m > 1 /\ m <= c
        BY <2>4, <3>4
      <4>2. t \in SimplePaths(Arcs(edges), cappedDepth + 1) /\ Len(t) = m
        BY <2>3, <2>6, <3>1, <3>2, <4>1 DEF SimplePaths
      <4>3. t[m] = p[n] /\ t[m - 1] = p[n - 1]
        <5>1. m \in 1..(n - 1) /\ m - 1 \in 1..(n - 1) /\ (m - 1) + 1 = n - 1
          BY <4>1
        <5>. QED
          BY <3>2, <4>1, <5>1
      <4>. QED
        BY <2>4, <4>1, <4>2, <4>3
    <3>. QED
      BY <2>4, <3>3, <3>4
  <2>. QED
    BY <1>1, <2>2, <2>5, <2>6
<1>3. ASSUME NEW p \in SimplePaths(Arcs(edges), cappedDepth + 1), Len(p) > 1
      PROVE  <<p[Len(p) - 1], p[Len(p)]>> \in Rows
  <2>1. p \in Seq(Node) /\ IsPath(p) /\ Len(p) <= cappedDepth + 1 /\ Len(p) \in Nat
    BY PathLength, IsPathIsSimple DEF SimplePaths
  <2>2. Len(p) \in 2..(cappedDepth + 1)
    BY <1>0, <1>3, <2>1
  <2>3. PICK w : w = AsRow(p)
    OBVIOUS
  <2>4. w \in walk /\ w.arc = <<p[Len(p) - 1], p[Len(p)]>>
    BY <2>1, <2>2, <2>3, WalkIsComplete DEF AsRow
  <2>. QED
    BY <2>4 DEF Rows
<1>. QED
  BY <1>1, <1>2, <1>3 DEF Rows

LEMMA NodesFact ==
  ASSUME LineageInv PROVE NodesAreExact
<1>1. SUFFICES ASSUME step = "end", ~special PROVE answer \cup {start} = Ball(cappedDepth)
  BY DEF NodesAreExact
<1>2. cappedDepth \in 1..MAX_DEPTH /\ MAX_DEPTH \in Nat /\ edges \subseteq Edge
  BY Bounds, DepthBound DEF LineageInv, PathInv, WalkTypeOK
<1>3. PICK n, arcs : n = cappedDepth + 1 /\ arcs = Arcs(edges)
  OBVIOUS
<1>4. n \in Nat \ {0} /\ cappedDepth \in Nat
  BY <1>2, <1>3
<1>5. Ball(cappedDepth) = Ends(SimplePaths(arcs, n))
  BY <1>2, <1>3, <1>4, BallFact
<1>6. answer = {a[1] : a \in Rows} \cup {a[2] : a \in Rows}
  BY <1>1 DEF LineageInv, AnswerInv, NodesOf
<1>7. start \in Ends(SimplePaths(arcs, n))
  <2>1. PICK s : s = <<start>>
    OBVIOUS
  <2>2. s \in SimplePaths(arcs, n) /\ s[Len(s)] = start
    BY <1>4, <2>1, StartIsSimple DEF SimplePaths
  <2>. QED
    BY <2>2 DEF Ends
<1>8. ASSUME NEW a \in Rows
      PROVE  a[1] \in Ends(SimplePaths(arcs, n)) /\ a[2] \in Ends(SimplePaths(arcs, n))
  <2>1. CASE a = <<start, start>>
    BY <1>7, <2>1
  <2>2. CASE \E p \in SimplePaths(arcs, n) : Len(p) > 1 /\ a = <<p[Len(p) - 1], p[Len(p)]>>
    <3>1. PICK p \in SimplePaths(arcs, n) : Len(p) > 1 /\ a = <<p[Len(p) - 1], p[Len(p)]>>
      BY <2>2
    <3>2. Len(p) \in Nat /\ DOMAIN p = 1..Len(p)
      BY PathLength DEF SimplePaths
    <3>3. a[1] \in Range(p) /\ a[2] \in Range(p)
      BY <3>1, <3>2 DEF Range
    <3>. QED
      BY <1>4, <3>3, OnThePath
  <2>. QED
    BY <1>1, <1>3, <2>1, <2>2, RowArcs
<1>9. ASSUME NEW p \in SimplePaths(arcs, n)
      PROVE  p[Len(p)] \in answer \cup {start}
  <2>1. Len(p) \in Nat \ {0} /\ p[1] = start
    BY PathLength DEF SimplePaths, SimplePath
  <2>2. CASE Len(p) = 1
    BY <2>1, <2>2
  <2>3. CASE Len(p) > 1
    <3>1. PICK b : b = <<p[Len(p) - 1], p[Len(p)]>>
      OBVIOUS
    <3>2. b \in Rows /\ b[2] = p[Len(p)]
      BY <1>1, <1>3, <2>3, <3>1, RowArcs
    <3>. QED
      BY <1>6, <3>2
  <2>. QED
    BY <2>1, <2>2, <2>3
<1>. QED
  BY <1>5, <1>6, <1>8, <1>7, <1>9 DEF Ends

\* A simple path visits no more nodes than there are.
LEMMA PathsAreShort ==
  ASSUME NEW p \in Seq(Node), \A m, n \in DOMAIN p : m # n => p[m] # p[n]
  PROVE  Len(p) <= Cardinality(Node) /\ Cardinality(Node) \in Nat
<1>1. /\ Len(p) \in Nat /\ DOMAIN p = 1..Len(p) /\ p \in [1..Len(p) -> Node]
  BY LenProperties
<1>2. IsFiniteSet(Node) /\ Cardinality(Node) \in Nat
  BY NodeAssumption, FS_CardinalityType
<1>5. PICK n \in Nat : n = Len(p)
  BY <1>1
<1>6. IsFiniteSet(1..n) /\ Cardinality(1..n) = n
  <2>1. 1 \in Int /\ n \in Int
    BY <1>5
  <2>2. IsFiniteSet(1..n) /\ Cardinality(1..n) = IF 1 > n THEN 0 ELSE n - 1 + 1
    BY <2>1, FS_Interval, Zenon
  <2>. QED
    BY <1>5, <2>2
<1>3. p \in Injection(1..Len(p), Node)
  BY <1>1 DEF Injection, IsInjective
<1>4. Cardinality(1..n) <= Cardinality(Node)
  BY <1>2, <1>3, <1>5, <1>6, FS_Injection
<1>. QED
  BY <1>2, <1>4, <1>5, <1>6

\* A path among the bounded ones is a path with a bounded length.
LEMMA BoundedPaths ==
  ASSUME NEW n \in Nat
  PROVE  BoundedSeq(Node, n) = {p \in Seq(Node) : Len(p) <= n}
<1>1. ASSUME NEW m \in 0..n, NEW p \in [1..m -> Node]
      PROVE  p \in Seq(Node) /\ Len(p) <= n
  <2>1. m \in Nat /\ m <= n
    OBVIOUS
  <2>2. p \in Seq(Node) /\ Len(p) = m
    BY <2>1
  <2>. QED
    BY <2>1, <2>2
<1>2. ASSUME NEW p \in Seq(Node), Len(p) <= n
      PROVE  Len(p) \in 0..n /\ p \in [1..Len(p) -> Node]
  BY <1>2
<1>. QED
  BY <1>1, <1>2 DEF BoundedSeq, SeqOf

\* The end of a path, from a node on it.
LEMMA Suffix ==
  ASSUME NEW arcs, NEW p \in Seq(Node), SimplePath(p, arcs), NEW i \in 1..Len(p)
  PROVE  \E q \in BoundedSeq(Node, Cardinality(Node)) :
           /\ q # <<>> /\ q[1] = p[i] /\ Last(q) = p[Len(p)]
           /\ \A k \in 2..Len(q) : <<q[k - 1], q[k]>> \in arcs
<1>1. PICK n \in Nat \ {0} : n = Len(p)
  BY PathLength
<1>2. DOMAIN p = 1..n /\ \A k \in 1..n : p[k] \in Node
  BY <1>1, PathLength
<1>3. PICK q : q = SubSeq(p, i, n)
  OBVIOUS
<1>4. PICK m \in Nat \ {0} : m = n - i + 1
  BY <1>1
<1>5. /\ q \in Seq(Node) /\ Len(q) = m
      /\ \A k \in 1..m : q[k] = p[i + k - 1]
  BY <1>1, <1>2, <1>3, <1>4, SubSeqProperties
<1>6. m <= n /\ n <= Cardinality(Node) /\ Cardinality(Node) \in Nat
  BY <1>1, <1>4, PathsAreShort DEF SimplePath
<1>7. q \in BoundedSeq(Node, Cardinality(Node))
  <2>1. PICK c \in Nat : c = Cardinality(Node)
    BY <1>6
  <2>2. Len(q) <= c
    BY <1>4, <1>5, <1>6, <2>1
  <2>. QED
    BY <1>5, <2>1, <2>2, BoundedPaths
<1>8. q # <<>> /\ q[1] = p[i] /\ q[m] = p[n]
  BY <1>1, <1>4, <1>5
<1>9. ASSUME NEW k \in 2..m PROVE <<q[k - 1], q[k]>> \in arcs
  <2>1. PICK j : j = i + k - 1
    OBVIOUS
  <2>2. j \in 2..n /\ k \in 1..m /\ k - 1 \in 1..m /\ i + (k - 1) - 1 = j - 1
    BY <1>1, <1>4, <2>1
  <2>4. q[k] = p[j] /\ q[k - 1] = p[j - 1]
    BY <1>5, <2>1, <2>2
  <2>3. <<p[j - 1], p[j]>> \in arcs
    BY <1>1, <2>2 DEF SimplePath
  <2>. QED
    BY <2>3, <2>4
<1>. QED
  BY <1>1, <1>3, <1>5, <1>7, <1>8, <1>9 DEF Last

\* An edge that leaves a node less far away than the depth is a row, unless
\* every path to the node has gone through where the edge leads.
LEMMA CyclesFact ==
  ASSUME LineageInv PROVE OnlyCyclesAreCut
<1>1. SUFFICES ASSUME step = "end", NEW a \in Arcs(edges) \ Rows,
                      a[1] \in Ball(cappedDepth - 1)
               PROVE  \E p \in BoundedSeq(Node, Cardinality(Node)) :
                        /\ p # <<>> /\ p[1] = a[2] /\ Last(p) = a[1]
                        /\ \A n \in 2..Len(p) : <<p[n - 1], p[n]>> \in Arcs(edges)
  BY DEF OnlyCyclesAreCut
<1>2. cappedDepth \in 1..MAX_DEPTH /\ MAX_DEPTH \in Nat /\ edges \subseteq Edge
  BY Bounds, DepthBound DEF LineageInv, PathInv, WalkTypeOK
<1>3. PICK c \in Nat \ {0} : c = cappedDepth
  BY <1>2
<1>4. PICK d \in Nat : d = c - 1
  BY <1>3
<1>5. Ball(d) = Ends(SimplePaths(Arcs(edges), c))
  <2>1. Ball(d) = Ends(SimplePaths(Arcs(edges), d + 1))
    BY <1>2, BallFact
  <2>2. d + 1 = c
    BY <1>3, <1>4
  <2>. QED
    BY <2>1, <2>2
<1>6. PICK q \in SimplePaths(Arcs(edges), c) : q[Len(q)] = a[1]
  BY <1>1, <1>3, <1>4, <1>5 DEF Ends
<1>7. /\ q \in Seq(Node) /\ SimplePath(q, Arcs(edges)) /\ Len(q) <= c
      /\ Len(q) \in Nat \ {0} /\ DOMAIN q = 1..Len(q)
  BY <1>6, PathLength DEF SimplePaths
<1>8. a[2] \in Range(q)
  <2>1. SUFFICES ASSUME a[2] \notin Range(q) PROVE FALSE
    OBVIOUS
  <2>2. a[1] \in Node /\ a[2] \in Node /\ a = <<a[1], a[2]>>
    BY <1>2, ArcsAreNodes
  <2>3. PICK p : p = Append(q, a[2])
    OBVIOUS
  <2>4. p \in Seq(Node) /\ SimplePath(p, Arcs(edges))
    BY <1>2, <1>6, <1>7, <2>1, <2>3, NextStep, ArcsArePairs
  <2>5. PICK n \in Nat \ {0} : n = Len(q)
    BY <1>7
  <2>6. PICK v \in Node : v = a[2]
    BY <2>2
  <2>10. Len(p) = n + 1 /\ p[n + 1] = v /\ p[n] = q[n]
    <3>1. p = Append(q, v) /\ q \in Seq(Node) /\ Len(q) = n
      BY <1>7, <2>3, <2>5, <2>6
    <3>2. /\ Len(Append(q, v)) = n + 1 /\ Append(q, v)[n + 1] = v
          /\ \A m \in 1..n : Append(q, v)[m] = q[m]
      BY <3>1, AppendProperties
    <3>. QED
      BY <3>1, <3>2
  <2>7. Len(p) > 1 /\ p[Len(p) - 1] = a[1] /\ p[Len(p)] = a[2] /\ Len(p) <= c + 1
    BY <1>3, <1>6, <1>7, <2>5, <2>6, <2>10
  <2>8. p \in SimplePaths(Arcs(edges), cappedDepth + 1)
    BY <1>3, <2>4, <2>7 DEF SimplePaths
  <2>9. <<p[Len(p) - 1], p[Len(p)]>> \in Rows
    BY <1>1, <2>7, <2>8, RowArcs
  <2>. QED
    BY <1>1, <2>2, <2>7, <2>9
<1>9. PICK i \in 1..Len(q) : q[i] = a[2]
  BY <1>7, <1>8 DEF Range
<1>10. PICK p \in BoundedSeq(Node, Cardinality(Node)) :
         /\ p # <<>> /\ p[1] = q[i] /\ Last(p) = q[Len(q)]
         /\ \A k \in 2..Len(p) : <<p[k - 1], p[k]>> \in Arcs(edges)
  BY <1>7, Suffix
<1>. QED
  BY <1>6, <1>9, <1>10

LEMMA TypeFact ==
  ASSUME LineageInv PROVE LineageTypeOK
<1>1. /\ edges \subseteq Edge /\ depth \in 0..(MAX_DEPTH + 1) /\ direction \in Directions
      /\ walk \subseteq [arc : Arcs(edges), path : Path] /\ work \subseteq walk
      /\ special \in BOOLEAN /\ step \in {"first", "round", "end"}
  BY DEF LineageInv, PathInv, WalkTypeOK, WalkInv, AnswerInv
<1>2. CASE step # "end"
  BY <1>1, <1>2 DEF LineageInv, AnswerInv, LineageTypeOK
<1>3. CASE step = "end" /\ ~special
  <2>1. \A a \in Rows : a[1] \in Node /\ a[2] \in Node
    BY <1>1, ArcsAreNodes DEF Rows
  <2>2. wanted = {} /\ answer = NodesOf(Rows)
    BY <1>3 DEF LineageInv, AnswerInv
  <2>3. answer \subseteq Node
    BY <2>1, <2>2 DEF NodesOf
  <2>. QED
    BY <1>1, <2>2, <2>3 DEF LineageTypeOK
<1>4. CASE step = "end" /\ special
  <2>1. ASSUME NEW p \in Walked PROVE Last(p) \in Node /\ Range(p) \subseteq Node
    <3>1. p \in Seq(Node) /\ SimplePath(p, Rows)
      BY DEF Walked, SimplePaths
    <3>2. Len(p) \in Nat \ {0} /\ DOMAIN p = 1..Len(p) /\ \A n \in 1..Len(p) : p[n] \in Node
      BY <3>1, PathLength
    <3>. QED
      BY <3>2 DEF Last, Range
  <2>2. /\ wanted \subseteq {Last(p) : p \in Walked}
        /\ answer = UNION {Range(p) : p \in {q \in Walked : Last(q) \in wanted}}
    BY <1>4 DEF LineageInv, AnswerInv
  <2>3. wanted \subseteq Node /\ answer \subseteq Node
    BY <2>1, <2>2
  <2>. QED
    BY <1>1, <2>3 DEF LineageTypeOK
<1>. QED
  BY <1>1, <1>2, <1>3, <1>4

\* Within the depth, the simple paths over the rows are those of the graph.
LEMMA WalkedFact ==
  ASSUME LineageInv, step = "end", depth \in 1..MAX_DEPTH, NEW p \in Seq(Node),
         Len(p) <= depth + 1
  PROVE  SimplePath(p, Rows) <=> IsPath(p)
<1>1. PICK d \in Nat \ {0} : d = depth
  BY Bounds
<1>2. cappedDepth = d
  BY <1>1, Bounds DEF cappedDepth
<1>3. Rows \subseteq Arcs(edges)
  BY RowArcs
<1>4. SimplePath(p, Rows) => IsPath(p)
  BY <1>3 DEF SimplePath, IsPath
<1>5. ASSUME IsPath(p), NEW n \in 2..Len(p) PROVE <<p[n - 1], p[n]>> \in Rows
  <2>1. SimplePath(p, Arcs(edges)) /\ Len(p) \in Nat \ {0}
    BY <1>5, IsPathIsSimple, PathLength
  <2>2. PICK q : q = SubSeq(p, 1, n)
    OBVIOUS
  <2>3. n \in 1..Len(p) /\ n \in Nat
    BY <2>1
  <2>4. /\ q \in Seq(Node) /\ SimplePath(q, Arcs(edges)) /\ Len(q) = n
        /\ \A i \in 1..n : q[i] = p[i]
    BY <2>1, <2>2, <2>3, Prefix
  <2>5. Len(q) > 1 /\ q[Len(q) - 1] = p[n - 1] /\ q[Len(q)] = p[n] /\ Len(q) <= d + 1
    BY <1>1, <2>1, <2>3, <2>4
  <2>6. q \in SimplePaths(Arcs(edges), cappedDepth + 1)
    BY <1>2, <2>4, <2>5 DEF SimplePaths
  <2>7. <<q[Len(q) - 1], q[Len(q)]>> \in Rows
    BY <2>5, <2>6, RowArcs
  <2>. QED
    BY <2>5, <2>7
<1>. QED
  BY <1>4, <1>5 DEF SimplePath, IsPath

LEMMA SpecialFact ==
  ASSUME LineageInv PROVE SpecialQueryIsExact
<1>1. SUFFICES ASSUME step = "end", special, depth \in 1..MAX_DEPTH
               PROVE  LET all == {p \in BoundedSeq(Node, depth + 1) :
                                    Len(p) > 1 /\ IsPath(p)}
                      IN  answer = UNION {Range(p) : p \in {q \in all : Last(q) \in wanted}}
  BY DEF SpecialQueryIsExact
<1> DEFINE all == {p \in BoundedSeq(Node, depth + 1) : Len(p) > 1 /\ IsPath(p)}
<1>2. answer = UNION {Range(p) : p \in {q \in Walked : Last(q) \in wanted}}
  BY <1>1 DEF LineageInv, AnswerInv
<1>3. PICK d \in Nat : d = depth + 1
  BY <1>1, Bounds
<1>4. BoundedSeq(Node, d) = {p \in Seq(Node) : Len(p) <= d}
  BY <1>3, BoundedPaths
<1>5. ASSUME NEW p \in Seq(Node), IsPath(p)
      PROVE  (Len(p) > 1 => p # <<start>>) /\ (p # <<start>> => Len(p) > 1)
  <2>1. SimplePath(p, Arcs(edges)) /\ Len(p) \in Nat \ {0}
    BY <1>5, IsPathIsSimple, PathLength
  <2>2. ASSUME Len(p) <= 1 PROVE p = <<start>>
    <3>1. p \in SimplePaths(Arcs(edges), 1)
      BY <1>5, <2>1, <2>2 DEF SimplePaths
    <3>. QED
      BY <3>1, StartIsSimple
  <2>3. ASSUME p = <<start>> PROVE Len(p) <= 1
    BY <2>3
  <2>4. Len(p) > 1 <=> ~(Len(p) <= 1)
    BY <2>1
  <2>. QED
    BY <2>2, <2>3, <2>4, Zenon
<1>6. ASSUME NEW p \in Seq(Node), Len(p) <= d
      PROVE  SimplePath(p, Rows) <=> IsPath(p)
  BY <1>1, <1>3, <1>6, WalkedFact
<1>7. Walked = {p \in SimplePaths(Rows, d) : p # <<start>>}
  BY <1>3 DEF Walked
<1>8. Walked = all
  <2>1. ASSUME NEW p \in Walked PROVE p \in all
    BY <1>3, <1>4, <1>5, <1>6, <1>7 DEF SimplePaths
  <2>2. ASSUME NEW p \in all PROVE p \in Walked
    BY <1>3, <1>4, <1>5, <1>6, <1>7 DEF SimplePaths
  <2>. QED
    BY <2>1, <2>2
<1>. QED
  BY <1>2, <1>8

-----------------------------------------------------------------------------
\* provService.lineage: whatever the graph, a lineage shows the nodes that are
\* no farther from the start than allowed and no others, and of the edges that
\* leave nodes less far away than that it lacks only those that close a cycle.
THEOREM LineageTheorem == LineageSpec => []LineageIsExact
<1>1. LineageInv => LineageIsExact
  BY TypeFact, NodesFact, CyclesFact DEF LineageIsExact
<1>. QED
  BY <1>1, LineageInvInit, LineageInvStep, PTL DEF LineageSpec

\* provService.filteredLineage: the paths of a special query are all the simple
\* paths of the graph that are no longer than asked for, although the query
\* whose rows it walks over has dropped theirs.
THEOREM SpecialTheorem == LineageSpec => []SpecialQueryIsExact
<1>. QED
  BY SpecialFact, LineageInvInit, LineageInvStep, PTL DEF LineageSpec
=============================================================================
