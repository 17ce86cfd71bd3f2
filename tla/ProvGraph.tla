------------------------------ MODULE ProvGraph ------------------------------
(***************************************************************************)
(* Model runs and the provenance graph: the handlers that register, lodge, *)
(* update and delete model runs (apps/api/src/services/provService.ts) and *)
(* the edge table they share (packages/db/src/repos/edges.ts), in which    *)
(* every edge carries the ids of the records that assert it.               *)
(*                                                                         *)
(* A request is a process with one step per statement: edges are merged    *)
(* and removed one by one, and a removal writes what an earlier SELECT     *)
(* returned.  Handlers run in the API and in any number of job workers.    *)
(*                                                                         *)
(* Abstractions.  A record is the set of datasets it names.  Validation    *)
(* and other refusals are failures before the first write.  The order in   *)
(* which one request gets to its edges is left open.  A row id counts the  *)
(* rows its edge has had; 0 says that it has none.  Repository updateItem  *)
(* is its fetch and its transaction, as in Registry, and its fetch is      *)
(* taken as one with the handler's own right before it.  Left out: the     *)
(* edges of Create and Version activities, which are only ever merged, and *)
(* access settings and search documents, which Registry has.               *)
(***************************************************************************)
EXTENDS Integers, FiniteSets

CONSTANTS
  Request,      \* requests and jobs in flight; each performs one operation
  Run,          \* ids of model runs
  Dataset,      \* datasets that records name
  Template,     \* the dataset template all of them follow
  NoRecord,     \* "no model run record"
  NoRun,        \* "no model run"
  Ops           \* the operations clients use

AllOps == {"register", "lodge", "update", "delete", "clear"}

ASSUME RunAssumption == NoRun \notin Run
ASSUME RecordAssumption == \A c \in SUBSET Dataset : NoRecord # c
ASSUME OpsAssumption == Ops \subseteq AllOps

VARIABLES
  record,       \* per run: the record of its item
  prov,         \* per run: the record its prov_serialisation was built from
  writes,       \* per run: how many history entries its item has
  graph,        \* per edge: its row in prov_edge
  born,         \* per edge: how many rows it has had
  pc,           \* per request: the statement it performs next
  op,           \* per request: its operation
  run,          \* per request: the model run it is about
  rec,          \* per request: the record it was given or has fetched
  todo,         \* per request: the edges it still has to merge or remove
  snap,         \* per request: the rows its SELECT returned
  stored,       \* per request: the record it fetched before its last write
  base          \* per request: the number of history entries it fetched

tables == <<record, prov, writes, graph, born>>
locals == <<pc, op, run, rec, todo, snap, stored, base>>
vars == <<tables, locals>>

-----------------------------------------------------------------------------
Record == SUBSET Dataset
RecordOrNone == Record \cup {NoRecord}

\* Source and target; the relation follows from their kinds.
Edge == (Run \X Dataset) \cup (Dataset \X {Template})

\* modelRunEdges: a run has edges of its own, and edges between the datasets and
\* their templates, which it shares with other runs.
modelRunEdges(x, r) == ({x} \X r) \cup (r \X {Template})

Row == [id : Nat, by : SUBSET Run]
NoRow == [id |-> 0, by |-> {}]

\* The records that assert edge e.
AssertedBy(e) == graph[e].by

Exists(x) == record[x] # NoRecord

InFlight == {"insert", "select", "remove", "upsert", "fetch", "commit", "erase"}
Ended == {"done", "failed"}

Goto(r, label) == pc' = [pc EXCEPT ![r] = label]

\* Any model runs that are lodged already.
Init ==
  /\ record \in [Run -> RecordOrNone]
  /\ prov = record
  /\ writes = [x \in Run |-> IF record[x] = NoRecord THEN 0 ELSE 1]
  /\ graph = [e \in Edge |->
                LET by == {x \in Run : record[x] # NoRecord
                                       /\ e \in modelRunEdges(x, record[x])}
                IN  [id |-> IF by = {} THEN 0 ELSE 1, by |-> by]]
  /\ born = [e \in Edge |-> IF graph[e] = NoRow THEN 0 ELSE 1]
  /\ pc = [r \in Request |-> "idle"]
  /\ op = [r \in Request |-> "none"]
  /\ run = [r \in Request |-> NoRun]
  /\ rec = [r \in Request |-> NoRecord]
  /\ todo = [r \in Request |-> {}]
  /\ snap = [r \in Request |-> [e \in Edge |-> NoRow]]
  /\ stored = [r \in Request |-> NoRecord]
  /\ base = [r \in Request |-> 0]

-----------------------------------------------------------------------------
(* The first steps.                                                        *)

Start(r, o, x, c, label) ==
  /\ pc[r] = "idle"
  /\ o \in Ops
  /\ op' = [op EXCEPT ![r] = o]
  /\ run' = [run EXCEPT ![r] = x]
  /\ rec' = [rec EXCEPT ![r] = c]
  /\ Goto(r, label)
  /\ UNCHANGED <<tables, snap, stored, base>>

\* registerModelRun mints a handle nobody has.
BeginRegister(r) ==
  \E x \in Run, c \in Record :
    /\ writes[x] = 0 /\ \A q \in Request : run[q] # x
    /\ Start(r, "register", x, c, "insert")
    /\ UNCHANGED todo

\* lodgeModelRunOnly with the record found by assertModelRunExists.
BeginLodge(r) ==
  \E x \in Run :
    /\ Exists(x)
    /\ Start(r, "lodge", x, record[x], "upsert")
    /\ todo' = [todo EXCEPT ![r] = modelRunEdges(x, record[x])]

\* updateModelRun and deleteModelRun up to removeRecordEdges.
BeginUpdate(r) ==
  \E x \in Run, c \in Record :
    Exists(x) /\ Start(r, "update", x, c, "select") /\ UNCHANGED todo

BeginDelete(r) ==
  \E x \in Run :
    Exists(x) /\ Start(r, "delete", x, NoRecord, "select") /\ UNCHANGED todo

\* createCompleteItem.
Insert(r) ==
  LET x == run[r] IN
  /\ pc[r] = "insert"
  /\ record' = [record EXCEPT ![x] = rec[r]]
  /\ prov' = [prov EXCEPT ![x] = rec[r]]
  /\ writes' = [writes EXCEPT ![x] = 1]
  /\ todo' = [todo EXCEPT ![r] = modelRunEdges(x, rec[r])]
  /\ Goto(r, "upsert")
  /\ UNCHANGED <<graph, born, op, run, rec, snap, stored, base>>

-----------------------------------------------------------------------------
(* Edges.                                                                  *)

\* ON CONFLICT: the record joins those that assert the edge.
Merged(row, x) == [row EXCEPT !.by = @ \cup {x}]

AfterUpsert(r) ==
  CASE op[r] = "register" -> "done"
    [] op[r] \in {"lodge", "update"} -> "fetch"

\* One round of upsertEdges.
Upsert(r) ==
  /\ pc[r] = "upsert"
  /\ \E e \in todo[r] :
       /\ graph' = [graph EXCEPT ![e] =
                      IF @ = NoRow THEN [id |-> born[e] + 1, by |-> {run[r]}]
                      ELSE Merged(@, run[r])]
       /\ born' = [born EXCEPT ![e] = IF graph[e] = NoRow THEN @ + 1 ELSE @]
       /\ todo' = [todo EXCEPT ![r] = @ \ {e}]
  /\ UNCHANGED <<record, prov, writes, pc, op, run, rec, snap, stored, base>>

EndUpsert(r) ==
  /\ pc[r] = "upsert" /\ todo[r] = {}
  /\ Goto(r, AfterUpsert(r))
  /\ UNCHANGED <<tables, op, run, rec, todo, snap, stored, base>>

\* removeRecordEdges selects the rows the record asserts.
Select(r) ==
  LET affected == {e \in Edge : run[r] \in AssertedBy(e)} IN
  /\ pc[r] = "select"
  /\ todo' = [todo EXCEPT ![r] = affected]
  /\ snap' = [snap EXCEPT ![r] =
                [e \in Edge |-> IF e \in affected THEN graph[e] ELSE NoRow]]
  /\ Goto(r, "remove")
  /\ UNCHANGED <<tables, op, run, rec, stored, base>>

\* The asserting records of row, as selected, without x.
remaining(row, x) == row.by \ {x}

\* (seeded bug) the row is deleted whoever else asserts it
Detached_Delete(row, x) == NoRow
\* (seeded bug) a row that nobody asserts any more stays
Detached_Keep(row, x) == [row EXCEPT !.by = remaining(row, x)]
\* What is left of a selected row.
Detached(row, x) ==
  IF remaining(row, x) = {} THEN NoRow ELSE [row EXCEPT !.by = remaining(row, x)]

\* One round of removeRecordEdges: a row is found again by its id, if at all.
Remove(r) ==
  /\ pc[r] = "remove"
  /\ \E e \in todo[r] :
       /\ graph' = IF graph[e] # NoRow /\ graph[e].id = snap[r][e].id
                   THEN [graph EXCEPT ![e] = Detached(snap[r][e], run[r])]
                   ELSE graph
       /\ todo' = [todo EXCEPT ![r] = @ \ {e}]
  /\ UNCHANGED <<record, prov, writes, born, pc, op, run, rec, snap, stored, base>>

EndRemove(r) ==
  /\ pc[r] = "remove" /\ todo[r] = {}
  /\ IF op[r] = "delete"
     THEN Goto(r, "erase") /\ UNCHANGED todo
     ELSE /\ todo' = [todo EXCEPT ![r] = modelRunEdges(run[r], rec[r])]
          /\ Goto(r, "upsert")
  /\ UNCHANGED <<tables, op, run, rec, snap, stored, base>>

\* DELETE /graph/admin/clear.
Clear(r) ==
  /\ pc[r] = "idle" /\ "clear" \in Ops
  /\ graph' = [e \in Edge |-> NoRow]
  /\ op' = [op EXCEPT ![r] = "clear"]
  /\ Goto(r, "done")
  /\ UNCHANGED <<record, prov, writes, born, run, rec, todo, snap, stored, base>>

-----------------------------------------------------------------------------
(* The item.                                                               *)

\* fetchItem before the last write: the handler's and, right after it, that of
\* updateItem.
Fetch(r) ==
  /\ pc[r] = "fetch"
  /\ stored' = [stored EXCEPT ![r] = record[run[r]]]
  /\ base' = [base EXCEPT ![r] = writes[run[r]]]
  /\ Goto(r, IF Exists(run[r]) THEN "commit"
             ELSE IF op[r] = "lodge" THEN "done" ELSE "failed")
  /\ UNCHANGED <<tables, op, run, rec, todo, snap>>

\* (seeded bug) the serialisation is left as it was
Serialised_Kept(r) == prov[run[r]]
Serialised(r) == rec[r]

\* The transaction of updateItem.  Lodging writes the fetched domain info back
\* with a new serialisation and no history entry; an update writes its record,
\* and its history entry may be taken.
Commit(r) ==
  LET x == run[r]
      conflict == op[r] = "update" /\ writes[x] # base[r] IN
  /\ pc[r] = "commit"
  /\ IF ~Exists(x) \/ conflict
     THEN Goto(r, "failed") /\ UNCHANGED <<record, prov, writes>>
     ELSE /\ record' = [record EXCEPT ![x] =
                          IF op[r] = "lodge" THEN stored[r] ELSE rec[r]]
          /\ prov' = [prov EXCEPT ![x] = Serialised(r)]
          /\ writes' = [writes EXCEPT ![x] = IF op[r] = "lodge" THEN @ ELSE @ + 1]
          /\ Goto(r, "done")
  /\ UNCHANGED <<graph, born, op, run, rec, todo, snap, stored, base>>

\* deleteItem.
Erase(r) ==
  /\ pc[r] = "erase"
  /\ record' = [record EXCEPT ![run[r]] = NoRecord]
  /\ prov' = [prov EXCEPT ![run[r]] = NoRecord]
  /\ Goto(r, "done")
  /\ UNCHANGED <<writes, graph, born, op, run, rec, todo, snap, stored, base>>

\* A refusal, a failing statement or the end of the process.
Fail(r) ==
  /\ pc[r] \in InFlight
  /\ Goto(r, "failed")
  /\ UNCHANGED <<tables, op, run, rec, todo, snap, stored, base>>

Finished ==
  /\ \A r \in Request : pc[r] \in Ended \cup {"idle"}
  /\ UNCHANGED vars

Step(r) ==
  \/ BeginRegister(r) \/ BeginLodge(r) \/ BeginUpdate(r) \/ BeginDelete(r)
  \/ Insert(r) \/ Upsert(r) \/ EndUpsert(r) \/ Select(r) \/ Remove(r)
  \/ EndRemove(r) \/ Clear(r) \/ Fetch(r) \/ Commit(r) \/ Erase(r) \/ Fail(r)

Next == (\E r \in Request : Step(r)) \/ Finished

Spec == Init /\ [][Next]_vars

-----------------------------------------------------------------------------
(* Properties.                                                             *)

\* Every variable holds values of its type.
TypeOK ==
  /\ record \in [Run -> RecordOrNone] /\ prov \in [Run -> RecordOrNone]
  /\ writes \in [Run -> Nat]
  /\ graph \in [Edge -> Row] /\ born \in [Edge -> Nat]
  /\ pc \in [Request -> {"idle"} \cup InFlight \cup Ended]
  /\ op \in [Request -> AllOps \cup {"none"}]
  /\ run \in [Request -> Run \cup {NoRun}]
  /\ rec \in [Request -> RecordOrNone]
  /\ todo \in [Request -> SUBSET Edge]
  /\ snap \in [Request -> [Edge -> Row]]
  /\ stored \in [Request -> RecordOrNone]
  /\ base \in [Request -> Nat]

\* An edge that is in the graph is asserted by some record: one that is not
\* could never be removed again, for removal finds edges by record.
EveryEdgeIsAsserted == \A e \in Edge : graph[e] # NoRow => graph[e].by # {}

\* A record stops asserting an edge only when its own assertions are removed,
\* when the graph is cleared, or because another record's removal writes back a
\* row it selected before this record came to assert it.
AssertionsLostToStaleRemovals ==
  [][\A e \in Edge : \A x \in AssertedBy(e) \ AssertedBy(e)' :
       \E r \in Request :
         \/ op[r] # "clear" /\ op'[r] = "clear"
         \/ /\ pc[r] = "remove" /\ e \in todo[r] \ todo'[r]
            /\ run[r] = x \/ x \notin snap[r][e].by]_vars

About(x) == {r \in Request : run[r] = x}
Removers == {r \in Request : op[r] \in {"update", "delete", "clear"}}
Assertions(x) == {e \in Edge : x \in AssertedBy(e)}

\* What one request alone did to a model run is right, as long as nobody else
\* removes edges: the graph has the assertions of its record and no others, and
\* none when it was deleted, and the serialisation is that of its record.
UndisturbedRunIsLodged ==
  \A x \in Run : \A r \in About(x) :
    /\ About(x) = {r} /\ pc[r] = "done" /\ Removers \subseteq {r}
    => /\ Assertions(x) = IF Exists(x) THEN modelRunEdges(x, record[x]) ELSE {}
       /\ prov[x] = record[x]

-----------------------------------------------------------------------------
(* What the repository says of these handlers, and concurrent requests     *)
(* break.                                                                  *)

AllDone == \A r \in Request : pc[r] = "done"

\* provService.ts:561, registering a model run asserts the graph edges.
RegisteredRunIsAsserted ==
  AllDone => \A r \in Request :
    op[r] = "register" /\ About(run[r]) = {r} =>
      modelRunEdges(run[r], rec[r]) \subseteq Assertions(run[r])

\* provService.ts:663, deleting a model run deletes its graph assertions.
DeletedRunAssertsNothing ==
  AllDone => \A x \in Run : ~Exists(x) => Assertions(x) = {}

\* provService.ts:640, an update replaces the graph assertions of the record.
UpdateReplacesAssertions ==
  AllDone => \A x \in Run :
    Exists(x) => Assertions(x) = modelRunEdges(x, record[x])

\* provService.ts:242, prov_serialisation is the document of the item's record.
SerialisationIsOfTheRecord ==
  AllDone => \A x \in Run : prov[x] = record[x]
=============================================================================
