------------------------------- MODULE Listing -------------------------------
(***************************************************************************)
(* Listing the registry page by page: listItems of                         *)
(* packages/db/src/repos/items.ts, and a client that follows its           *)
(* pagination keys to the end while items are registered, updated and      *)
(* deleted.  jobs.list pages in the same way over created_timestamp.       *)
(*                                                                         *)
(* A page is one statement, the total count another.  The key of the next  *)
(* page is the sort value and the id of the last row of this one, so that  *)
(* nothing of a listing is kept between two requests.                      *)
(*                                                                         *)
(* Abstractions.  A row has the sort value of the column listed by, and    *)
(* whether it is complete, which stands for every filter.  Rows the user   *)
(* may not read are counted by the service instead of shown; both are      *)
(* "shown" here.  A client passes keys on as it got them.                  *)
(***************************************************************************)
EXTENDS Integers, FiniteSets

CONSTANTS
  Item,         \* ids of items, in the order of the database
  PageSize,
  MaxTime,      \* bound: the last second of a behaviour
  MaxValue      \* bound: the sort values that are no times, such as names

ASSUME ItemAssumption == Item \subseteq Nat
ASSUME PageSizeAssumption == PageSize \in Nat \ {0}
ASSUME BoundAssumption == MaxTime \in Nat \ {0} /\ MaxValue \in Nat

VARIABLES
  now,          \* the time in seconds
  row,          \* the items, NoRow for those that are not there
  order,        \* what the client lists: column, direction and filter
  lpc,          \* the statement the listing performs next
  cursor,       \* the pagination key: the last row shown
  shown,        \* how often an item was on a page
  total,        \* the total count of the last page
  written,      \* history variable: items written since the listing began
  refiltered    \* history variable: those that were registered or deleted, or
                \* passed the filter only after an update

listVars == <<lpc, cursor, shown, total>>
vars == <<now, row, order, listVars, written, refiltered>>

-----------------------------------------------------------------------------
Time == 0..MaxTime
SortValue == Time \cup 0..MaxValue
Columns == {"CREATED_TIME", "UPDATED_TIME", "DISPLAY_NAME"}
Order == [by : Columns, ascending : BOOLEAN, completeOnly : BOOLEAN]

Row == [sort : SortValue, complete : BOOLEAN]
NoRow == [sort |-> -1, complete |-> FALSE]
Exists(i) == row[i] # NoRow
Matches(r) == r # NoRow /\ (order.completeOnly => r.complete)

Place == [s : SortValue, id : Item]
NoCursor == [s |-> -1, id |-> 0]
PlaceOf(i) == [s |-> row[i].sort, id |-> i]

\* A lexical order of sort values and ids, in the direction of the listing.
Before(a, b) ==
  IF order.ascending
  THEN a.s < b.s \/ (a.s = b.s /\ a.id < b.id)
  ELSE b.s < a.s \/ (a.s = b.s /\ b.id < a.id)

\* (seeded bug) rows are compared by their sort value alone
CursorCondition_ValueOnly(place) ==
  cursor = NoCursor
  \/ IF order.ascending THEN cursor.s < place.s ELSE place.s < cursor.s
\* (seeded bug) a page begins with the row its key names
CursorCondition_Inclusive(place) ==
  cursor = NoCursor \/ place = cursor \/ Before(cursor, place)
\* The rows a request with this pagination key asks for.
CursorCondition(place) == cursor = NoCursor \/ Before(cursor, place)

Matching == {i \in Item : Matches(row[i])}
Candidates == {i \in Matching : CursorCondition(PlaceOf(i))}

Init ==
  /\ now = 1
  /\ order \in Order
  /\ row \in [Item -> {NoRow} \cup [sort : {0, 1}, complete : BOOLEAN]]
  /\ lpc = "page"
  /\ cursor = NoCursor
  /\ shown = [i \in Item |-> 0]
  /\ total = 0
  /\ written = {}
  /\ refiltered = {}

Tick ==
  /\ now < MaxTime
  /\ now' = now + 1
  /\ UNCHANGED <<row, order, listVars, written, refiltered>>

-----------------------------------------------------------------------------
(* What others do to the items.                                            *)

\* (seeded bug) an update renews the time of creation
Resorted_Anew(i) ==
  IF order.by = "DISPLAY_NAME" THEN 0..MaxValue ELSE {now}
\* The sort value a write gives to an item.
Resorted(i) ==
  CASE order.by = "UPDATED_TIME" -> {now}
    [] order.by = "CREATED_TIME" -> {IF Exists(i) THEN row[i].sort ELSE now}
    [] order.by = "DISPLAY_NAME" -> 0..MaxValue

Write(i, new) ==
  /\ row' = [row EXCEPT ![i] = new]
  /\ written' = written \cup {i}
  /\ refiltered' = IF Matches(row[i]) /\ Matches(new) THEN refiltered
                   ELSE refiltered \cup {i}
  /\ UNCHANGED <<now, order, listVars>>

\* A new item, whose id was never in use.
Register(i) ==
  /\ ~Exists(i) /\ i \notin written
  /\ \E v \in Resorted(i), c \in BOOLEAN : Write(i, [sort |-> v, complete |-> c])
\* An update leaves the item complete.
Update(i) ==
  Exists(i) /\ \E v \in Resorted(i) : Write(i, [sort |-> v, complete |-> TRUE])
Delete(i) == Exists(i) /\ Write(i, NoRow)

-----------------------------------------------------------------------------
(* The listing.                                                            *)

\* page is what ORDER BY and LIMIT leave of the candidates.
IsPage(page) ==
  /\ page \subseteq Candidates
  /\ Cardinality(page) <= PageSize
  /\ page # Candidates => Cardinality(page) = PageSize
  /\ \A i \in page, j \in Candidates \ page : Before(PlaceOf(i), PlaceOf(j))

IsLast(i, page) ==
  /\ i \in page
  /\ \A j \in page \ {i} : Before(PlaceOf(j), PlaceOf(i))

\* (seeded bug) the sort value is not part of the key
NextCursor_IdOnly(page) ==
  {[s |-> -1, id |-> i] : i \in {j \in page : IsLast(j, page)}}
\* The pagination key of a page: its last row.
NextCursor(page) == {PlaceOf(i) : i \in {j \in page : IsLast(j, page)}}

\* The statement that selects a page, and one row more: when there is one, the
\* answer has a key for the next page.
SelectPage ==
  /\ lpc = "page"
  /\ \E page \in SUBSET Candidates :
       /\ IsPage(page)
       /\ shown' = [i \in Item |-> IF i \in page THEN shown[i] + 1 ELSE shown[i]]
       /\ IF page = Candidates
          THEN lpc' = "lastCount" /\ UNCHANGED cursor
          ELSE lpc' = "count" /\ cursor' \in NextCursor(page)
  /\ UNCHANGED <<now, row, order, total, written, refiltered>>

\* (seeded bug) the count goes by the conditions of the page, cursor included
CountedRows_Page == Candidates
\* The count is made without the cursor.
CountedRows == Matching

\* The statement that counts, after which the client asks for the next page.
Count ==
  /\ lpc \in {"count", "lastCount"}
  /\ total' = Cardinality(CountedRows)
  /\ lpc' = IF lpc = "count" THEN "page" ELSE "end"
  /\ UNCHANGED <<now, row, order, cursor, shown, written, refiltered>>

Finished == lpc = "end" /\ UNCHANGED vars

Next ==
  \/ Tick
  \/ \E i \in Item : Register(i) \/ Update(i) \/ Delete(i)
  \/ SelectPage \/ Count
  \/ Finished

\* A client need not ask for the next page.
Spec == Init /\ [][Next]_vars

-----------------------------------------------------------------------------
(* Properties.                                                             *)

TypeOK ==
  /\ now \in Time
  /\ row \in [Item -> Row \cup {NoRow}]
  /\ order \in Order
  /\ lpc \in {"page", "count", "lastCount", "end"}
  /\ cursor \in Place \cup {NoCursor}
  /\ shown \in [Item -> Nat]
  /\ written \in SUBSET Item /\ refiltered \in SUBSET Item

Ended == lpc \in {"lastCount", "end"}

\* Whoever follows the keys to the end was shown every matching item that was
\* not written meanwhile, and once: whatever happens to other items, those the
\* keys point to included, and however many have the same sort value.
SteadyItemIsShownOnce ==
  Ended => \A i \in Matching \ written : shown[i] = 1

\* Listed by the time of their creation no item is shown twice, whatever is
\* written; those that were there and matched are not missed either.
CreationOrderIsStable ==
  order.by = "CREATED_TIME" =>
    /\ \A i \in Item \ refiltered : shown[i] <= 1
    /\ Ended => \A i \in Matching \ refiltered : shown[i] = 1

\* Listed by the time of their last update, items move to the end that is
\* listed last or first: the oldest first, none is missed, though some may be
\* shown again; the newest first, none is shown twice, though some are missed.
UpdatesMoveItemsOneWay ==
  order.by = "UPDATED_TIME" =>
    IF order.ascending
    THEN Ended => \A i \in Matching \ refiltered : shown[i] >= 1
    ELSE \A i \in Item \ refiltered : shown[i] <= 1

\* When nothing is written during a listing, its pages show as many items as
\* each of them says there are.
QuietTotalIsWhatIsShown ==
  lpc = "end" /\ written = {} =>
    total = Cardinality({i \in Item : shown[i] = 1})

\* Pages neither leave out nor repeat what was there all the time, and they
\* announce as many items as they show.
PagesAreComplete ==
  /\ SteadyItemIsShownOnce
  /\ QuietTotalIsWhatIsShown

\* What an update does to a listing is what its order says.
ItemsMoveAsOrdered ==
  /\ CreationOrderIsStable
  /\ UpdatesMoveItemsOneWay
=============================================================================
