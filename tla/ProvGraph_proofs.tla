-------------------------- MODULE ProvGraph_proofs --------------------------
(* Theorems about ProvGraph, for any requests, runs, datasets and          *)
(* operations.                                                             *)
EXTENDS ProvGraph, TLAPS

-----------------------------------------------------------------------------
(* The inductive invariant.                                                *)

\* What the label of r says of its locals.
Local(r) ==
  /\ pc[r] = "idle" => op[r] = "none"
  /\ pc[r] \in InFlight => run[r] \in Run
  /\ pc[r] = "upsert" => op[r] \in {"register", "lodge", "update"}
  /\ pc[r] \in {"insert", "upsert", "fetch", "commit"} => rec[r] \in Record
  /\ pc[r] = "insert" => op[r] = "register"
  /\ pc[r] \in {"select", "remove"} =>
       op[r] = "delete" \/ (op[r] = "update" /\ rec[r] \in Record)

Inv ==
  /\ TypeOK
  /\ EveryEdgeIsAsserted
  /\ \A r \in Request : Local(r)

-----------------------------------------------------------------------------
(* Edges and rows.                                                         *)

\* The edges of a run's record are edges.
LEMMA EdgesOfRun ==
  ASSUME NEW x \in Run, NEW c \in Record
  PROVE  modelRunEdges(x, c) \subseteq Edge
BY DEF modelRunEdges, Edge, Record

\* Merging a row leaves a row that somebody asserts, with nobody missing.
LEMMA MergedRow ==
  ASSUME NEW row \in Row, NEW x \in Run
  PROVE  /\ Merged(row, x) \in Row /\ x \in Merged(row, x).by
         /\ row.by \subseteq Merged(row, x).by
BY DEF Merged, Row

\* Detaching a run leaves no row, or one that others assert.
LEMMA DetachedRow ==
  ASSUME NEW row \in Row, NEW x \in Run
  PROVE  /\ Detached(row, x) \in Row
         /\ Detached(row, x) # NoRow => Detached(row, x).by # {}
         /\ Detached(row, x).by = row.by \ {x}
<1>1. CASE remaining(row, x) = {}
  BY <1>1 DEF Detached, remaining, NoRow, Row
<1>2. CASE remaining(row, x) # {}
  <2>1. Detached(row, x) = [row EXCEPT !.by = remaining(row, x)]
    BY <1>2 DEF Detached
  <2>. QED
    BY <1>2, <2>1 DEF remaining, Row
<1>. QED
  BY <1>1, <1>2

-----------------------------------------------------------------------------
(* Every step keeps the invariant.                                         *)

\* The runs that are lodged initially assert the edges of their records.
LEMMA InitInv == Init => Inv
<1> SUFFICES ASSUME Init PROVE Inv
  OBVIOUS
<1> DEFINE by(e) == {x \in Run : record[x] # NoRecord
                                 /\ e \in modelRunEdges(x, record[x])}
<1>1. \A e \in Edge : graph[e] = [id |-> IF by(e) = {} THEN 0 ELSE 1, by |-> by(e)]
  BY DEF Init
<1>2. graph \in [Edge -> Row]
  <2>1. \A e \in Edge : [id |-> IF by(e) = {} THEN 0 ELSE 1, by |-> by(e)] \in Row
    BY DEF Row
  <2>. QED
    BY <2>1 DEF Init
<1>3. born \in [Edge -> Nat] /\ writes \in [Run -> Nat]
  BY DEF Init
<1>4. NoRow \in Row
  BY DEF NoRow, Row
<1>5. TypeOK
  BY <1>2, <1>3, <1>4 DEF Init, TypeOK, RecordOrNone
<1>6. EveryEdgeIsAsserted
  <2>1. ASSUME NEW e \in Edge, graph[e] # NoRow, graph[e].by = {}
        PROVE  FALSE
    <3> HIDE DEF by
    <3>1. graph[e] = [id |-> IF by(e) = {} THEN 0 ELSE 1, by |-> by(e)]
      BY <1>1
    <3>2. by(e) = {}
      BY <2>1, <3>1
    <3>. QED
      BY <2>1, <3>1, <3>2 DEF NoRow
  <2>. QED
    BY <2>1 DEF EveryEdgeIsAsserted
<1>7. \A r \in Request : Local(r)
  BY DEF Init, Local, InFlight
<1>. QED
  BY <1>5, <1>6, <1>7 DEF Inv

\* The first step of a request.
LEMMA BeginStep ==
  ASSUME Inv, NEW r \in Request,
         BeginRegister(r) \/ BeginLodge(r) \/ BeginUpdate(r) \/ BeginDelete(r)
  PROVE  Inv'
<1> USE DEF Start, Goto, tables
<1>1. CASE BeginLodge(r)
  <2>1. PICK x \in Run :
          /\ Exists(x) /\ Start(r, "lodge", x, record[x], "upsert")
          /\ todo' = [todo EXCEPT ![r] = modelRunEdges(x, record[x])]
    BY <1>1 DEF BeginLodge
  <2>2. record[x] \in Record /\ modelRunEdges(x, record[x]) \subseteq Edge
    BY <2>1, EdgesOfRun DEF Inv, TypeOK, Exists, RecordOrNone
  <2>3. TypeOK'
    BY <2>1, <2>2 DEF Inv, TypeOK, InFlight, AllOps, RecordOrNone
  <2>4. EveryEdgeIsAsserted' /\ \A q \in Request : Local(q)'
    BY <2>1, <2>2 DEF Inv, TypeOK, EveryEdgeIsAsserted, Local, InFlight
  <2>. QED
    BY <2>3, <2>4 DEF Inv
<1>2. CASE BeginRegister(r) \/ BeginUpdate(r) \/ BeginDelete(r)
  <2>1. PICK o \in AllOps, x \in Run, c \in RecordOrNone,
             label \in {"insert", "select"} :
          /\ Start(r, o, x, c, label) /\ UNCHANGED todo
          /\ \/ label = "insert" /\ o = "register" /\ c \in Record
             \/ label = "select" /\ o = "update" /\ c \in Record
             \/ label = "select" /\ o = "delete"
    <3>1. CASE BeginRegister(r)
      BY <3>1 DEF BeginRegister, AllOps, RecordOrNone
    <3>2. CASE BeginUpdate(r)
      BY <3>2 DEF BeginUpdate, AllOps, RecordOrNone
    <3>3. CASE BeginDelete(r)
      BY <3>3 DEF BeginDelete, AllOps, RecordOrNone
    <3>. QED
      BY <1>2, <3>1, <3>2, <3>3
  <2>2. TypeOK'
    BY <2>1 DEF Inv, TypeOK, InFlight
  <2>3. EveryEdgeIsAsserted' /\ \A q \in Request : Local(q)'
    BY <2>1 DEF Inv, TypeOK, EveryEdgeIsAsserted, Local, InFlight
  <2>. QED
    BY <2>2, <2>3 DEF Inv
<1>. QED
  BY <1>1, <1>2

\* Steps that merge, select and remove edges.
LEMMA EdgeStep ==
  ASSUME Inv, NEW r \in Request, Upsert(r) \/ Select(r) \/ Remove(r) \/ Clear(r)
  PROVE  Inv'
<1> USE DEF Goto, tables
<1>0. NoRow \in Row
  BY DEF NoRow, Row
<1>1. CASE Upsert(r)
  <2>1. PICK e \in todo[r] :
          /\ graph' = [graph EXCEPT ![e] =
                         IF @ = NoRow THEN [id |-> born[e] + 1, by |-> {run[r]}]
                         ELSE Merged(@, run[r])]
          /\ born' = [born EXCEPT ![e] = IF graph[e] = NoRow THEN @ + 1 ELSE @]
          /\ todo' = [todo EXCEPT ![r] = @ \ {e}]
          /\ UNCHANGED <<record, prov, writes, pc, op, run, rec, snap, stored, base>>
    BY <1>1 DEF Upsert
  <2>2. e \in Edge /\ run[r] \in Run /\ graph[e] \in Row /\ born[e] \in Nat
    BY <1>1 DEF Upsert, Inv, TypeOK, Local, InFlight
  <2> DEFINE row == IF graph[e] = NoRow THEN [id |-> born[e] + 1, by |-> {run[r]}]
                    ELSE Merged(graph[e], run[r])
  <2>3. row \in Row /\ row.by # {}
    <3>1. CASE graph[e] = NoRow
      BY <2>2, <3>1 DEF Row
    <3>2. CASE graph[e] # NoRow
      BY <2>2, <3>2, MergedRow
    <3>. QED
      BY <3>1, <3>2
  <2>4. graph' = [graph EXCEPT ![e] = row]
    BY <2>1
  <2>5. TypeOK'
    BY <2>1, <2>2, <2>3, <2>4 DEF Inv, TypeOK
  <2>6. EveryEdgeIsAsserted' /\ \A q \in Request : Local(q)'
    BY <2>1, <2>2, <2>3, <2>4 DEF Inv, TypeOK, EveryEdgeIsAsserted, Local
  <2>. QED
    BY <2>5, <2>6 DEF Inv
<1>2. CASE Select(r)
  <2>1. TypeOK'
    BY <1>0, <1>2 DEF Select, Inv, TypeOK, InFlight
  <2>2. EveryEdgeIsAsserted' /\ \A q \in Request : Local(q)'
    BY <1>2 DEF Select, Inv, TypeOK, EveryEdgeIsAsserted, Local, InFlight
  <2>. QED
    BY <2>1, <2>2 DEF Inv
<1>3. CASE Remove(r)
  <2>1. PICK e \in todo[r] :
          /\ graph' = IF graph[e] # NoRow /\ graph[e].id = snap[r][e].id
                      THEN [graph EXCEPT ![e] = Detached(snap[r][e], run[r])]
                      ELSE graph
          /\ todo' = [todo EXCEPT ![r] = @ \ {e}]
          /\ UNCHANGED <<record, prov, writes, born, pc, op, run, rec, snap,
                         stored, base>>
    BY <1>3 DEF Remove
  <2>2. e \in Edge /\ run[r] \in Run /\ snap[r][e] \in Row
    BY <1>3 DEF Remove, Inv, TypeOK, Local, InFlight
  <2> DEFINE row == Detached(snap[r][e], run[r])
  <2>3. row \in Row /\ (row # NoRow => row.by # {})
    BY <2>2, DetachedRow
  <2>4. TypeOK'
    BY <2>1, <2>2, <2>3 DEF Inv, TypeOK
  <2>5. EveryEdgeIsAsserted' /\ \A q \in Request : Local(q)'
    BY <2>1, <2>2, <2>3 DEF Inv, TypeOK, EveryEdgeIsAsserted, Local
  <2>. QED
    BY <2>4, <2>5 DEF Inv
<1>4. CASE Clear(r)
  <2>1. TypeOK'
    BY <1>0, <1>4 DEF Clear, Inv, TypeOK, Ended, AllOps
  <2>2. EveryEdgeIsAsserted' /\ \A q \in Request : Local(q)'
    BY <1>4 DEF Clear, Inv, TypeOK, EveryEdgeIsAsserted, Local, InFlight
  <2>. QED
    BY <2>1, <2>2 DEF Inv
<1>. QED
  BY <1>1, <1>2, <1>3, <1>4

\* Steps that end a loop over edges, or fail.
LEMMA LoopStep ==
  ASSUME Inv, NEW r \in Request, EndUpsert(r) \/ EndRemove(r) \/ Fail(r)
  PROVE  Inv'
<1> USE DEF Goto, tables
<1>1. CASE EndUpsert(r)
  <2>1. AfterUpsert(r) \in {"done", "fetch"}
    BY <1>1 DEF EndUpsert, Inv, Local, AfterUpsert
  <2>2. TypeOK'
    BY <1>1, <2>1 DEF EndUpsert, Inv, TypeOK, InFlight, Ended
  <2>3. EveryEdgeIsAsserted' /\ \A q \in Request : Local(q)'
    BY <1>1, <2>1 DEF EndUpsert, Inv, TypeOK, EveryEdgeIsAsserted, Local, InFlight
  <2>. QED
    BY <2>2, <2>3 DEF Inv
<1>2. CASE EndRemove(r)
  <2>1. run[r] \in Run /\ (op[r] # "delete" => rec[r] \in Record)
    BY <1>2 DEF EndRemove, Inv, Local, InFlight
  <2>2. op[r] # "delete" => modelRunEdges(run[r], rec[r]) \subseteq Edge
    BY <2>1, EdgesOfRun
  <2>3. op[r] # "delete" => op[r] \in {"register", "lodge", "update"}
    BY <1>2 DEF EndRemove, Inv, Local
  <2>4. TypeOK'
    BY <1>2, <2>2 DEF EndRemove, Inv, TypeOK, InFlight
  <2>5. EveryEdgeIsAsserted' /\ \A q \in Request : Local(q)'
    BY <1>2, <2>1, <2>3 DEF EndRemove, Inv, TypeOK, EveryEdgeIsAsserted, Local,
                            InFlight
  <2>. QED
    BY <2>4, <2>5 DEF Inv
<1>3. CASE Fail(r)
  <2>1. TypeOK'
    BY <1>3 DEF Fail, Inv, TypeOK, Ended
  <2>2. EveryEdgeIsAsserted' /\ \A q \in Request : Local(q)'
    BY <1>3 DEF Fail, Inv, TypeOK, EveryEdgeIsAsserted, Local, InFlight
  <2>. QED
    BY <2>1, <2>2 DEF Inv
<1>. QED
  BY <1>1, <1>2, <1>3

\* Steps that write or fetch the item.
LEMMA ItemStep ==
  ASSUME Inv, NEW r \in Request, Insert(r) \/ Fetch(r) \/ Commit(r) \/ Erase(r)
  PROVE  Inv'
<1> USE DEF Goto, tables
<1>1. run[r] \in Run
  BY DEF Insert, Fetch, Commit, Erase, Inv, Local, InFlight
<1>2. pc[r] \in {"insert", "fetch", "commit"} => rec[r] \in Record
  BY DEF Inv, Local
<1>3. CASE Insert(r)
  <2>1. modelRunEdges(run[r], rec[r]) \subseteq Edge
    BY <1>1, <1>2, <1>3, EdgesOfRun DEF Insert
  <2>2. op[r] = "register"
    BY <1>3 DEF Insert, Inv, Local
  <2>3. TypeOK'
    BY <1>1, <1>2, <1>3, <2>1 DEF Insert, Inv, TypeOK, InFlight, RecordOrNone
  <2>4. EveryEdgeIsAsserted' /\ \A q \in Request : Local(q)'
    BY <1>1, <1>2, <1>3, <2>2
       DEF Insert, Inv, TypeOK, EveryEdgeIsAsserted, Local, InFlight
  <2>. QED
    BY <2>3, <2>4 DEF Inv
<1>4. CASE Fetch(r)
  <2>1. TypeOK'
    BY <1>1, <1>4 DEF Fetch, Inv, TypeOK, InFlight, Ended
  <2>2. EveryEdgeIsAsserted' /\ \A q \in Request : Local(q)'
    BY <1>1, <1>2, <1>4 DEF Fetch, Inv, TypeOK, EveryEdgeIsAsserted, Local, InFlight
  <2>. QED
    BY <2>1, <2>2 DEF Inv
<1>5. CASE Commit(r)
  <2>1. /\ rec[r] \in RecordOrNone /\ stored[r] \in RecordOrNone
        /\ writes[run[r]] \in Nat
    BY <1>1 DEF Inv, TypeOK
  <2>2. /\ record' \in [Run -> RecordOrNone] /\ prov' \in [Run -> RecordOrNone]
        /\ writes' \in [Run -> Nat] /\ pc' \in [Request -> {"idle"} \cup InFlight \cup Ended]
    <3>1. CASE UNCHANGED <<record, prov, writes>> /\ Goto(r, "failed")
      BY <3>1 DEF Inv, TypeOK, Ended
    <3>2. CASE /\ record' = [record EXCEPT ![run[r]] =
                                IF op[r] = "lodge" THEN stored[r] ELSE rec[r]]
               /\ prov' = [prov EXCEPT ![run[r]] = rec[r]]
               /\ writes' = [writes EXCEPT ![run[r]] =
                                IF op[r] = "lodge" THEN @ ELSE @ + 1]
               /\ Goto(r, "done")
      <4>1. writes' \in [Run -> Nat]
        BY <1>1, <3>2 DEF Inv, TypeOK
      <4>2. record' \in [Run -> RecordOrNone] /\ prov' \in [Run -> RecordOrNone]
        BY <2>1, <3>2 DEF Inv, TypeOK
      <4>3. pc' \in [Request -> {"idle"} \cup InFlight \cup Ended]
        BY <3>2 DEF Inv, TypeOK, Ended
      <4>. QED
        BY <4>1, <4>2, <4>3
    <3>. QED
      BY <1>5, <3>1, <3>2 DEF Commit, Serialised
  <2>4. TypeOK'
    BY <1>5, <2>2 DEF Commit, Inv, TypeOK
  <2>3. EveryEdgeIsAsserted' /\ \A q \in Request : Local(q)'
    BY <1>5 DEF Commit, Inv, TypeOK, EveryEdgeIsAsserted, Local, InFlight
  <2>. QED
    BY <2>3, <2>4 DEF Inv
<1>6. CASE Erase(r)
  <2>1. TypeOK'
    BY <1>1, <1>6 DEF Erase, Inv, TypeOK, Ended, RecordOrNone
  <2>2. EveryEdgeIsAsserted' /\ \A q \in Request : Local(q)'
    BY <1>6 DEF Erase, Inv, TypeOK, EveryEdgeIsAsserted, Local, InFlight
  <2>. QED
    BY <2>1, <2>2 DEF Inv
<1>. QED
  BY <1>3, <1>4, <1>5, <1>6

\* Nothing changes.
LEMMA StutterInv ==
  ASSUME Inv, UNCHANGED vars
  PROVE  Inv'
BY DEF Inv, vars, tables, locals, TypeOK, EveryEdgeIsAsserted, Local

-----------------------------------------------------------------------------
(* The theorems.                                                           *)

\* The invariant holds in every behaviour.
THEOREM Invariance == Spec => []Inv
<1>1. ASSUME Inv, [Next]_vars
      PROVE  Inv'
  <2>1. ASSUME NEW r \in Request, Step(r)
        PROVE  Inv'
    BY <1>1, <2>1, BeginStep, EdgeStep, LoopStep, ItemStep DEF Step
  <2>2. CASE ~\E r \in Request : Step(r)
    BY <1>1, <2>2, StutterInv DEF Next, Finished
  <2>. QED
    BY <2>1, <2>2
<1>. QED
  BY <1>1, InitInv, PTL DEF Spec

\* Every variable keeps its type (provService.ts, all handlers).
THEOREM TypeCorrectness == Spec => []TypeOK
<1>1. Inv => TypeOK
  BY DEF Inv
<1>. QED
  BY <1>1, Invariance, PTL

\* removeRecordEdges never leaves an edge that no record asserts, although it
\* writes rows back as it selected them.
THEOREM NoOrphanedEdges == Spec => []EveryEdgeIsAsserted
<1>1. Inv => EveryEdgeIsAsserted
  BY DEF Inv
<1>. QED
  BY <1>1, Invariance, PTL

\* A step takes an assertion away only as removeRecordEdges of the record, as
\* DELETE /graph/admin/clear, or as a removal with a stale row.
LEMMA LossStep ==
  ASSUME Inv, [Next]_vars, NEW e \in Edge, NEW x \in AssertedBy(e) \ AssertedBy(e)'
  PROVE  \E r \in Request :
           \/ op[r] # "clear" /\ op'[r] = "clear"
           \/ /\ pc[r] = "remove" /\ e \in todo[r] \ todo'[r]
              /\ run[r] = x \/ x \notin snap[r][e].by
<1>1. graph'[e] # graph[e]
  BY DEF AssertedBy
<1>2. PICK r \in Request : Step(r)
  BY <1>1 DEF Next, Finished, vars, tables
<1>3. CASE Upsert(r)
  <2>1. PICK d \in todo[r] :
          graph' = [graph EXCEPT ![d] =
                      IF @ = NoRow THEN [id |-> born[d] + 1, by |-> {run[r]}]
                      ELSE Merged(@, run[r])]
    BY <1>3 DEF Upsert
  <2>2. run[r] \in Run /\ graph[e] \in Row
    BY <1>3 DEF Upsert, Inv, TypeOK, Local, InFlight
  <2>3. d = e
    BY <1>1, <2>1 DEF Inv, TypeOK
  <2>4. CASE graph[e] = NoRow
    BY <2>4 DEF AssertedBy, NoRow
  <2>5. CASE graph[e] # NoRow
    <3>1. graph'[e] = Merged(graph[e], run[r])
      BY <2>1, <2>3, <2>5 DEF Inv, TypeOK
    <3>. QED
      BY <2>2, <3>1, MergedRow DEF AssertedBy
  <2>. QED
    BY <2>4, <2>5
<1>4. CASE Remove(r)
  <2>1. PICK d \in todo[r] :
          /\ graph' = IF graph[d] # NoRow /\ graph[d].id = snap[r][d].id
                      THEN [graph EXCEPT ![d] = Detached(snap[r][d], run[r])]
                      ELSE graph
          /\ todo' = [todo EXCEPT ![r] = @ \ {d}]
    BY <1>4 DEF Remove
  <2>2. d = e
    BY <1>1, <2>1 DEF Inv, TypeOK
  <2>3. /\ pc[r] = "remove" /\ run[r] \in Run /\ snap[r][e] \in Row
        /\ e \in todo[r] \ todo'[r]
    BY <1>4, <2>1, <2>2 DEF Remove, Inv, TypeOK, Local, InFlight
  <2>4. graph'[e] = Detached(snap[r][e], run[r])
    BY <1>1, <2>1, <2>2 DEF Inv, TypeOK
  <2>5. x \notin snap[r][e].by \ {run[r]}
    BY <2>3, <2>4, DetachedRow DEF AssertedBy
  <2>. QED
    BY <2>3, <2>5
<1>5. CASE Clear(r)
  BY <1>5 DEF Clear, Inv, TypeOK, Local
<1>6. CASE ~Upsert(r) /\ ~Remove(r) /\ ~Clear(r)
  <2>1. graph' = graph
    BY <1>2, <1>6 DEF Step, BeginRegister, BeginLodge, BeginUpdate, BeginDelete,
       Start, Insert, EndUpsert, Select, EndRemove, Fetch, Commit, Erase, Fail,
       tables
  <2>. QED
    BY <1>1, <2>1
<1>. QED
  BY <1>3, <1>4, <1>5, <1>6

\* Nothing else makes a record stop asserting an edge.
THEOREM LostOnlyToRemovals == Spec => AssertionsLostToStaleRemovals
<1>1. Inv /\ [Next]_vars =>
        [\A e \in Edge : \A x \in AssertedBy(e) \ AssertedBy(e)' :
           \E r \in Request :
             \/ op[r] # "clear" /\ op'[r] = "clear"
             \/ /\ pc[r] = "remove" /\ e \in todo[r] \ todo'[r]
                /\ run[r] = x \/ x \notin snap[r][e].by]_vars
  BY LossStep
<1>. QED
  BY <1>1, Invariance, PTL DEF Spec, AssertionsLostToStaleRemovals

-----------------------------------------------------------------------------
(* What one request alone does to a run.                                   *)

\* Run x is as lodged: its record's edges and no others, its record's document.
Lodged(x) ==
  /\ Assertions(x) = IF Exists(x) THEN modelRunEdges(x, record[x]) ELSE {}
  /\ prov[x] = record[x]

\* How far r, alone, has got with run x.
Stage(r, x) ==
  /\ pc[r] = "insert" => Assertions(x) = {}
  /\ pc[r] = "remove" =>
       /\ Assertions(x) \subseteq todo[r]
       /\ \A e \in todo[r] : graph[e] # NoRow /\ graph[e].id = snap[r][e].id
  /\ pc[r] = "upsert" =>
       /\ todo[r] \subseteq modelRunEdges(x, rec[r])
       /\ modelRunEdges(x, rec[r]) \ todo[r] \subseteq Assertions(x)
       /\ Assertions(x) \subseteq modelRunEdges(x, rec[r])
  /\ pc[r] \in {"fetch", "commit"} => Assertions(x) = modelRunEdges(x, rec[r])
  /\ pc[r] = "erase" => Assertions(x) = {}
  /\ \/ op[r] = "register" /\ pc[r] = "upsert"
     \/ op[r] = "lodge" /\ pc[r] \in {"upsert", "fetch", "commit"}
     => record[x] = rec[r] /\ prov[x] = rec[r]
  /\ op[r] = "lodge" /\ pc[r] = "commit" => stored[r] = rec[r]
  /\ pc[r] = "done" => Lodged(x)

\* A request that has not started is about no run, one that writes the item at
\* its end registered, lodged or updated it, and only deletions erase.
Course(r) ==
  /\ pc[r] = "idle" => run[r] = NoRun
  /\ pc[r] \in {"fetch", "commit"} => op[r] \in {"lodge", "update"}
  /\ pc[r] = "erase" => op[r] = "delete"

\* Runs nobody is about are as lodged until somebody removes edges; a run with
\* one request, and nobody else removing edges, is as far as that request is.
Undisturbed ==
  /\ \A r \in Request : Course(r)
  /\ \A x \in Run : Exists(x) => writes[x] # 0
  /\ \A x \in Run : About(x) = {} /\ Removers = {} => Lodged(x)
  /\ \A x \in Run : \A r \in About(x) :
       About(x) = {r} /\ Removers \subseteq {r} => Stage(r, x)

-----------------------------------------------------------------------------
\* What a step of q leaves alone.
LEMMA LocalsFrame ==
  ASSUME Inv, NEW q \in Request, Step(q)
  PROVE  /\ \A r \in Request \ {q} :
              /\ pc'[r] = pc[r] /\ op'[r] = op[r] /\ run'[r] = run[r]
              /\ rec'[r] = rec[r] /\ todo'[r] = todo[r] /\ snap'[r] = snap[r]
              /\ stored'[r] = stored[r]
         /\ pc[q] # "idle" => run' = run /\ op' = op /\ rec' = rec
         /\ pc'[q] # "idle"
<1> USE DEF Inv, TypeOK, Goto, InFlight
<1>1. CASE BeginRegister(q) \/ BeginLodge(q) \/ BeginUpdate(q) \/ BeginDelete(q)
  <2>1. CASE BeginRegister(q)
    BY <2>1 DEF BeginRegister, Start
  <2>2. CASE BeginLodge(q)
    BY <2>2 DEF BeginLodge, Start
  <2>3. CASE BeginUpdate(q)
    BY <2>3 DEF BeginUpdate, Start
  <2>4. CASE BeginDelete(q)
    BY <2>4 DEF BeginDelete, Start
  <2>. QED
    BY <1>1, <2>1, <2>2, <2>3, <2>4
<1>2. CASE Insert(q) \/ Upsert(q) \/ Select(q) \/ Remove(q)
  <2>1. CASE Insert(q)
    BY <2>1 DEF Insert
  <2>2. CASE Upsert(q)
    BY <2>2 DEF Upsert
  <2>3. CASE Select(q)
    BY <2>3 DEF Select
  <2>4. CASE Remove(q)
    BY <2>4 DEF Remove
  <2>. QED
    BY <1>2, <2>1, <2>2, <2>3, <2>4
<1>3. CASE EndUpsert(q) \/ EndRemove(q) \/ Clear(q)
  <2>1. CASE EndUpsert(q)
    <3>1. AfterUpsert(q) \in {"done", "fetch"}
      BY <2>1 DEF EndUpsert, Local, AfterUpsert
    <3>. QED
      BY <2>1, <3>1 DEF EndUpsert
  <2>2. CASE EndRemove(q)
    BY <2>2 DEF EndRemove
  <2>3. CASE Clear(q)
    BY <2>3 DEF Clear
  <2>. QED
    BY <1>3, <2>1, <2>2, <2>3
<1>4. CASE Fetch(q) \/ Commit(q) \/ Erase(q) \/ Fail(q)
  <2>1. CASE Fetch(q)
    BY <2>1 DEF Fetch
  <2>2. CASE Commit(q)
    BY <2>2 DEF Commit
  <2>3. CASE Erase(q) \/ Fail(q)
    BY <2>3 DEF Erase, Fail
  <2>. QED
    BY <1>4, <2>1, <2>2, <2>3
<1>. QED
  BY <1>1, <1>2, <1>3, <1>4 DEF Step

\* What merging an edge does to the assertions of a run, and to row ids.
LEMMA UpsertStep ==
  ASSUME Inv, NEW q \in Request, Upsert(q)
  PROVE  \E e \in todo[q] :
           /\ e \in Edge
           /\ todo' = [todo EXCEPT ![q] = @ \ {e}]
           /\ Assertions(run[q])' = Assertions(run[q]) \cup {e}
           /\ \A x \in Run \ {run[q]} : Assertions(x)' = Assertions(x)
           /\ \A d \in Edge : graph[d] # NoRow =>
                graph'[d] # NoRow /\ graph'[d].id = graph[d].id
<1>1. PICK e \in todo[q] :
          /\ graph' = [graph EXCEPT ![e] =
                         IF @ = NoRow THEN [id |-> born[e] + 1, by |-> {run[q]}]
                         ELSE Merged(@, run[q])]
          /\ todo' = [todo EXCEPT ![q] = @ \ {e}]
          /\ UNCHANGED run
  BY DEF Upsert
<1>2. e \in Edge /\ run[q] \in Run /\ graph[e] \in Row /\ born[e] \in Nat
  BY DEF Upsert, Inv, TypeOK, Local, InFlight
<1> DEFINE row == IF graph[e] = NoRow THEN [id |-> born[e] + 1, by |-> {run[q]}]
                  ELSE Merged(graph[e], run[q])
<1>3. row.by = graph[e].by \cup {run[q]} /\ row # NoRow
  <2>1. CASE graph[e] = NoRow
    <3>1. row = [id |-> born[e] + 1, by |-> {run[q]}]
      BY <2>1
    <3>. QED
      BY <2>1, <3>1 DEF NoRow
  <2>2. CASE graph[e] # NoRow
    <3>1. row = [graph[e] EXCEPT !.by = graph[e].by \cup {run[q]}]
      BY <1>2, <2>2 DEF Merged, Row
    <3>2. row.by = graph[e].by \cup {run[q]}
      BY <1>2, <3>1 DEF Row
    <3>. QED
      BY <3>2 DEF NoRow
  <2>. QED
    BY <2>1, <2>2
<1>4. graph[e] # NoRow => row.id = graph[e].id
  BY <1>2 DEF Merged, Row
<1>5. graph' = [graph EXCEPT ![e] = row]
  BY <1>1
<1> HIDE DEF row
<1>6. \A d \in Edge : graph'[d] = IF d = e THEN row ELSE graph[d]
  BY <1>2, <1>5 DEF Inv, TypeOK
<1>7. Assertions(run[q])' = Assertions(run[q]) \cup {e}
  BY <1>1, <1>2, <1>3, <1>6 DEF Assertions, AssertedBy
<1>8. \A x \in Run \ {run[q]} : Assertions(x)' = Assertions(x)
  BY <1>1, <1>2, <1>3, <1>6 DEF Assertions, AssertedBy
<1>9. \A d \in Edge : graph[d] # NoRow =>
                graph'[d] # NoRow /\ graph'[d].id = graph[d].id
  BY <1>3, <1>4, <1>6
<1>. QED
  BY <1>1, <1>2, <1>7, <1>8, <1>9

\* What a step that removes no edges does to a run it is not about: nothing.
LEMMA BystanderStep ==
  ASSUME Inv, \A r \in Request : Course(r), NEW q \in Request, Step(q),
         NEW x \in Run, run'[q] # x, op'[q] \notin {"update", "delete", "clear"}
  PROVE  /\ record'[x] = record[x] /\ prov'[x] = prov[x]
         /\ writes'[x] = writes[x]
         /\ Assertions(x)' = Assertions(x)
         /\ \A e \in Edge : graph[e] # NoRow =>
              graph'[e] # NoRow /\ graph'[e].id = graph[e].id
<1> USE DEF Inv, TypeOK
<1>1. CASE UNCHANGED tables
  BY <1>1 DEF tables, Assertions, AssertedBy
<1>2. CASE BeginRegister(q) \/ BeginLodge(q) \/ BeginUpdate(q) \/ BeginDelete(q)
  BY <1>1, <1>2 DEF BeginRegister, BeginLodge, BeginUpdate, BeginDelete, Start
<1>3. CASE Insert(q)
  <2>1. run[q] # x
    BY <1>3 DEF Insert
  <2>. QED
    BY <1>3, <2>1 DEF Insert, Assertions, AssertedBy
<1>4. CASE Upsert(q)
  <2>1. run[q] # x /\ UNCHANGED <<record, prov, writes>>
    BY <1>4 DEF Upsert
  <2>. QED
    BY <2>1, <1>4, UpsertStep
<1>5. CASE EndUpsert(q) \/ EndRemove(q) \/ Select(q) \/ Fetch(q) \/ Fail(q)
  BY <1>1, <1>5 DEF EndUpsert, EndRemove, Select, Fetch, Fail
<1>6. ~Remove(q)
  BY DEF Remove, Local
<1>7. ~Clear(q)
  BY DEF Clear
<1>8. ~Erase(q)
  BY DEF Erase, Course
<1>9. CASE Commit(q)
  <2>1. run[q] # x /\ UNCHANGED graph
    BY <1>9 DEF Commit
  <2>. QED
    BY <1>9, <2>1 DEF Commit, Assertions, AssertedBy
<1>. QED
  BY <1>2, <1>3, <1>4, <1>5, <1>6, <1>7, <1>8, <1>9 DEF Step

\* Every step keeps what a label says of its request's course.
LEMMA CourseStep ==
  ASSUME Inv, NEW q \in Request, Step(q), NEW r \in Request, Course(r)
  PROVE  Course(r)'
<1>1. CASE r # q
  BY <1>1, LocalsFrame DEF Course
<1>2. CASE r = q
  <2> USE DEF Inv, TypeOK, Goto
  <2>1. CASE EndUpsert(q)
    <3>1. AfterUpsert(q) = IF op[q] = "register" THEN "done" ELSE "fetch"
      BY <2>1 DEF EndUpsert, Local, AfterUpsert
    <3>2. pc'[q] = AfterUpsert(q) /\ op' = op
      BY <2>1 DEF EndUpsert
    <3>3. op[q] \in {"register", "lodge", "update"}
      BY <2>1 DEF EndUpsert, Local
    <3>. QED
      BY <1>2, <3>1, <3>2, <3>3 DEF Course
  <2>2. CASE EndRemove(q)
    BY <1>2, <2>2 DEF EndRemove, Course
  <2>3. CASE Fetch(q)
    BY <1>2, <2>3 DEF Fetch, Course
  <2>4. CASE ~EndUpsert(q) /\ ~EndRemove(q) /\ ~Fetch(q)
    <3>1. pc'[q] \notin {"idle", "fetch", "commit", "erase"}
      <4>1. CASE BeginRegister(q) \/ BeginLodge(q) \/ BeginUpdate(q) \/ BeginDelete(q)
        BY <4>1 DEF BeginRegister, BeginLodge, BeginUpdate, BeginDelete, Start
      <4>2. CASE Insert(q) \/ Upsert(q)
        BY <4>2 DEF Insert, Upsert
      <4>3. CASE Select(q) \/ Remove(q)
        BY <4>3 DEF Select, Remove
      <4>4. CASE Clear(q) \/ Erase(q) \/ Fail(q)
        BY <4>4 DEF Clear, Erase, Fail
      <4>5. CASE Commit(q)
        BY <4>5 DEF Commit
      <4>. QED
        BY <2>4, <4>1, <4>2, <4>3, <4>4, <4>5 DEF Step
    <3>. QED
      BY <1>2, <3>1 DEF Course
  <2>. QED
    BY <2>1, <2>2, <2>3, <2>4
<1>. QED
  BY <1>1, <1>2

\* Requests about a run and requests that remove edges remain so.
LEMMA AboutStep ==
  ASSUME Inv, \A r \in Request : Course(r), NEW q \in Request, Step(q), NEW x \in Run
  PROVE  About(x) \subseteq About(x)' /\ Removers \subseteq Removers'
<1>1. pc[q] = "idle" => run[q] # x /\ op[q] = "none"
  BY RunAssumption DEF Course, Inv, Local
<1>2. pc[q] # "idle" => run' = run /\ op' = op
  BY LocalsFrame
<1>3. \A r \in Request \ {q} : run'[r] = run[r] /\ op'[r] = op[r]
  BY LocalsFrame
<1>. QED
  BY <1>1, <1>2, <1>3 DEF About, Removers

\* An item that exists has been written.
LEMMA WritesStep ==
  ASSUME Inv, NEW q \in Request, Step(q), NEW x \in Run, Exists(x) => writes[x] # 0,
         record'[x] # NoRecord
  PROVE  writes'[x] # 0
<1> USE DEF Inv, TypeOK
<1>1. CASE Insert(q)
  BY <1>1 DEF Insert, Exists
<1>2. CASE Commit(q)
  <2>1. CASE UNCHANGED <<record, prov, writes>>
    BY <2>1 DEF Exists
  <2>2. CASE /\ Exists(run[q])
             /\ record' = [record EXCEPT ![run[q]] =
                              IF op[q] = "lodge" THEN stored[q] ELSE rec[q]]
             /\ writes' = [writes EXCEPT ![run[q]] =
                              IF op[q] = "lodge" THEN @ ELSE @ + 1]
    BY <2>2 DEF Exists
  <2>. QED
    BY <1>2, <2>1, <2>2 DEF Commit
<1>3. CASE Erase(q)
  <2>1. x # run[q] /\ writes' = writes
    BY <1>3 DEF Erase
  <2>. QED
    BY <1>3, <2>1 DEF Erase, Exists
<1>4. CASE ~Insert(q) /\ ~Commit(q) /\ ~Erase(q)
  <2>1. record' = record /\ writes' = writes
    <3>1. CASE BeginRegister(q) \/ BeginLodge(q) \/ BeginUpdate(q) \/ BeginDelete(q)
      BY <3>1 DEF BeginRegister, BeginLodge, BeginUpdate, BeginDelete, Start, tables
    <3>2. CASE Upsert(q) \/ EndUpsert(q) \/ Select(q) \/ Remove(q)
      BY <3>2 DEF Upsert, EndUpsert, Select, Remove, tables
    <3>3. CASE EndRemove(q) \/ Clear(q) \/ Fetch(q) \/ Fail(q)
      BY <3>3 DEF EndRemove, Clear, Fetch, Fail, tables
    <3>. QED
      BY <1>4, <3>1, <3>2, <3>3 DEF Step
  <2>. QED
    BY <2>1 DEF Exists
<1>. QED
  BY <1>1, <1>2, <1>3, <1>4

\* A run that nobody is about stays as lodged.
LEMMA UntouchedStep ==
  ASSUME Inv, Undisturbed, NEW q \in Request, Step(q), NEW x \in Run,
         About(x)' = {}, Removers' = {}
  PROVE  Lodged(x)'
<1>1. Lodged(x)
  BY AboutStep DEF Undisturbed
<1>2. run'[q] # x /\ op'[q] \notin {"update", "delete", "clear"}
  BY DEF About, Removers
<1>3. /\ record'[x] = record[x] /\ prov'[x] = prov[x]
      /\ Assertions(x)' = Assertions(x)
  BY <1>2, BystanderStep DEF Undisturbed
<1>. QED
  BY <1>1, <1>3 DEF Lodged, Exists

\* Steps of others, who are not about the run and remove no edges.
LEMMA OthersStep ==
  ASSUME Inv, Undisturbed, NEW q \in Request, Step(q), NEW x \in Run,
         NEW r \in Request \ {q}, About(x)' = {r}, Removers' \subseteq {r}
  PROVE  Stage(r, x)'
<1>1. /\ pc'[r] = pc[r] /\ op'[r] = op[r] /\ run'[r] = run[r]
      /\ rec'[r] = rec[r] /\ todo'[r] = todo[r] /\ snap'[r] = snap[r]
      /\ stored'[r] = stored[r]
  BY LocalsFrame
<1>2. r \in About(x)
  BY <1>1 DEF About
<1>3. Stage(r, x)
  <2>1. About(x) = {r} /\ Removers \subseteq {r}
    BY <1>2, AboutStep DEF Undisturbed
  <2>. QED
    BY <1>2, <2>1 DEF Undisturbed
<1>4. run'[q] # x /\ op'[q] \notin {"update", "delete", "clear"}
  BY DEF About, Removers
<1>5. /\ record'[x] = record[x] /\ prov'[x] = prov[x]
      /\ Assertions(x)' = Assertions(x)
      /\ \A e \in Edge : graph[e] # NoRow => graph'[e] # NoRow /\ graph'[e].id = graph[e].id
  BY <1>4, BystanderStep DEF Undisturbed
<1>6. \A e \in todo[r] : e \in Edge
  BY DEF Inv, TypeOK
<1>7. Lodged(x) => Lodged(x)'
  BY <1>5 DEF Lodged, Exists
<1>8. Assertions(x)' = Assertions(x)
  BY <1>5
<1>. QED
  BY <1>1, <1>3, <1>5, <1>6, <1>7 DEF Stage

\* The first step of the only request about a run.
LEMMA FirstStep ==
  ASSUME Inv, Undisturbed, NEW q \in Request, Step(q), NEW x \in Run,
         pc[q] = "idle", About(x)' = {q}, Removers' \subseteq {q}
  PROVE  Stage(q, x)'
<1> USE DEF Inv, TypeOK, Goto
<1>1. About(x) = {}
  <2>1. run[q] # x
    BY RunAssumption DEF Undisturbed, Course
  <2>. QED
    BY <2>1, AboutStep DEF Undisturbed, About
<1>2. op'[q] \in {"register", "lodge"} => Removers = {}
  BY AboutStep DEF Undisturbed, Removers
<1>3. CASE BeginRegister(q)
  <2>1. PICK c \in Record : writes[x] = 0 /\ Start(q, "register", x, c, "insert")
    <3>1. PICK y \in Run, c \in Record :
             writes[y] = 0 /\ Start(q, "register", y, c, "insert")
      BY <1>3 DEF BeginRegister
    <3>2. run'[q] = y /\ run'[q] = x
      BY <3>1 DEF Start, About
    <3>. QED
      BY <3>1, <3>2
  <2>2. Assertions(x) = {}
    BY <1>1, <1>2, <2>1 DEF Undisturbed, Lodged, Start
  <2>3. Assertions(x)' = Assertions(x) /\ pc'[q] = "insert"
    BY <2>1 DEF Start, tables, Assertions, AssertedBy
  <2>. QED
    BY <2>2, <2>3 DEF Stage
<1>4. CASE BeginLodge(q)
  <2>1. /\ Exists(x) /\ Start(q, "lodge", x, record[x], "upsert")
        /\ todo' = [todo EXCEPT ![q] = modelRunEdges(x, record[x])]
    <3>1. PICK y \in Run : 
            /\ Exists(y) /\ Start(q, "lodge", y, record[y], "upsert")
            /\ todo' = [todo EXCEPT ![q] = modelRunEdges(y, record[y])]
      BY <1>4 DEF BeginLodge
    <3>2. run'[q] = y /\ run'[q] = x
      BY <3>1 DEF Start, About
    <3>. QED
      BY <3>1, <3>2
  <2>2. Assertions(x) = modelRunEdges(x, record[x]) /\ prov[x] = record[x]
    BY <1>1, <1>2, <2>1 DEF Undisturbed, Lodged, Start
  <2>3. /\ Assertions(x)' = Assertions(x) /\ record' = record /\ prov' = prov
        /\ pc'[q] = "upsert" /\ op'[q] = "lodge" /\ rec'[q] = record[x]
        /\ todo'[q] = modelRunEdges(x, record[x])
    BY <2>1 DEF Start, tables, Assertions, AssertedBy
  <2>. QED
    BY <2>2, <2>3 DEF Stage
<1>5. CASE BeginUpdate(q) \/ BeginDelete(q)
  <2>1. pc'[q] = "select"
    BY <1>5 DEF BeginUpdate, BeginDelete, Start
  <2>. QED
    BY <2>1 DEF Stage
<1>6. CASE Clear(q)
  BY <1>1, <1>6 DEF Clear, About
<1>. QED
  BY <1>3, <1>4, <1>5, <1>6 DEF Step, Insert, Upsert, EndUpsert, Select, Remove,
     EndRemove, Fetch, Commit, Erase, Fail, InFlight

\* A step of q with its own run, which merges or removes edges.
LEMMA OwnEdgeStep ==
  ASSUME Inv, NEW q \in Request, NEW x \in Run, run[q] = x, Stage(q, x),
         Upsert(q) \/ Select(q) \/ Remove(q)
  PROVE  Stage(q, x)'
<1> USE DEF Goto
<1>1. CASE Upsert(q)
  <2>1. PICK e \in todo[q] :
          /\ todo' = [todo EXCEPT ![q] = @ \ {e}]
          /\ Assertions(run[q])' = Assertions(run[q]) \cup {e}
    BY <1>1, UpsertStep
  <2>2. /\ pc[q] = "upsert"
        /\ UNCHANGED <<record, prov, pc, op, run, rec, stored>>
    BY <1>1 DEF Upsert
  <2>3. todo'[q] = todo[q] \ {e} /\ Assertions(x)' = Assertions(x) \cup {e}
    BY <2>1, <2>2 DEF Inv, TypeOK, Assertions, AssertedBy
  <2>4. /\ todo[q] \subseteq modelRunEdges(x, rec[q])
        /\ modelRunEdges(x, rec[q]) \ todo[q] \subseteq Assertions(x)
        /\ Assertions(x) \subseteq modelRunEdges(x, rec[q])
    BY <2>2 DEF Stage
  <2>5. /\ todo'[q] \subseteq modelRunEdges(x, rec[q])
        /\ modelRunEdges(x, rec[q]) \ todo'[q] \subseteq Assertions(x)'
        /\ Assertions(x)' \subseteq modelRunEdges(x, rec[q])
    BY <2>3, <2>4
  <2>. QED
    BY <2>2, <2>5 DEF Stage
<1>2. CASE Select(q)
  <2>1. /\ pc'[q] = "remove" /\ graph' = graph
        /\ todo'[q] = {e \in Edge : x \in AssertedBy(e)}
        /\ \A e \in Edge : x \in AssertedBy(e) => snap'[q][e] = graph[e]
    BY <1>2 DEF Select, Inv, TypeOK, tables
  <2>2. Assertions(x)' \subseteq todo'[q]
    BY <2>1 DEF Assertions, AssertedBy
  <2>3. \A e \in todo'[q] : graph'[e] # NoRow /\ graph'[e].id = snap'[q][e].id
    BY <2>1 DEF AssertedBy, NoRow
  <2>. QED
    BY <2>1, <2>2, <2>3 DEF Stage
<1>3. CASE Remove(q)
  <2>1. PICK e \in todo[q] :
          /\ graph' = IF graph[e] # NoRow /\ graph[e].id = snap[q][e].id
                      THEN [graph EXCEPT ![e] = Detached(snap[q][e], run[q])]
                      ELSE graph
          /\ todo' = [todo EXCEPT ![q] = @ \ {e}]
    BY <1>3 DEF Remove
  <2>2. /\ pc[q] = "remove" /\ e \in Edge /\ snap[q][e] \in Row
        /\ UNCHANGED <<record, prov, pc, op, run, rec, snap, stored>>
    BY <1>3, <2>1 DEF Remove, Inv, TypeOK
  <2>3. graph[e] # NoRow /\ graph[e].id = snap[q][e].id
        /\ Assertions(x) \subseteq todo[q]
    BY <2>1, <2>2 DEF Stage
  <2>4. graph' = [graph EXCEPT ![e] = Detached(snap[q][e], x)]
    BY <2>1, <2>3
  <2>5. /\ graph'[e].by = snap[q][e].by \ {x}
        /\ \A d \in Edge \ {e} : graph'[d] = graph[d]
        /\ todo'[q] = todo[q] \ {e}
    BY <2>1, <2>2, <2>4, DetachedRow DEF Inv, TypeOK
  <2>6. Assertions(x)' \subseteq todo'[q]
    BY <2>3, <2>5 DEF Assertions, AssertedBy
  <2>7. \A d \in todo'[q] : graph'[d] # NoRow /\ graph'[d].id = snap'[q][d].id
    <3>1. \A d \in todo[q] : d \in Edge /\ graph[d] # NoRow
                             /\ graph[d].id = snap[q][d].id
      BY <2>2 DEF Stage, Inv, TypeOK
    <3>. QED
      BY <2>2, <2>5, <3>1
  <2>. QED
    BY <2>2, <2>6, <2>7 DEF Stage
<1>. QED
  BY <1>1, <1>2, <1>3

\* A step of q with its own run, which ends a loop over edges or fails.
LEMMA OwnLoopStep ==
  ASSUME Inv, NEW q \in Request, NEW x \in Run, run[q] = x, Stage(q, x),
         EndUpsert(q) \/ EndRemove(q) \/ Fail(q)
  PROVE  Stage(q, x)'
<1> USE DEF Goto
<1>0. UNCHANGED <<record, prov, op, rec, stored>> /\ Assertions(x)' = Assertions(x)
  BY DEF EndUpsert, EndRemove, Fail, tables, Assertions, AssertedBy
<1>1. CASE EndUpsert(q)
  <2>1. /\ pc[q] = "upsert" /\ todo[q] = {}
        /\ op[q] \in {"register", "lodge", "update"} /\ rec[q] \in Record
    BY <1>1 DEF EndUpsert, Inv, Local
  <2>2. pc'[q] = IF op[q] = "register" THEN "done" ELSE "fetch"
    BY <1>1, <2>1 DEF EndUpsert, AfterUpsert, Inv, TypeOK
  <2>3. Assertions(x) = modelRunEdges(x, rec[q])
    BY <2>1 DEF Stage
  <2>4. op[q] \in {"register", "lodge"} => record[x] = rec[q] /\ prov[x] = rec[q]
    BY <2>1 DEF Stage
  <2>5. op[q] = "register" => Lodged(x)'
    BY <1>0, <2>1, <2>3, <2>4, RecordAssumption DEF Lodged, Exists, Record
  <2>6. pc'[q] \in {"done", "fetch"} /\ (pc'[q] = "done" => op'[q] = "register")
    BY <1>0, <2>2
  <2>. QED
    BY <1>0, <2>3, <2>4, <2>5, <2>6 DEF Stage
<1>2. CASE EndRemove(q)
  <2>1. pc[q] = "remove" /\ todo[q] = {} /\ op[q] \in {"update", "delete"}
    BY <1>2 DEF EndRemove, Inv, Local
  <2>2. Assertions(x)' = {}
    BY <1>0, <2>1 DEF Stage
  <2>3. CASE op[q] = "delete"
    <3>1. pc'[q] = "erase"
      BY <1>2, <2>3 DEF EndRemove, Inv, TypeOK
    <3>. QED
      BY <2>2, <3>1 DEF Stage
  <2>4. CASE op[q] = "update"
    <3>1. pc'[q] = "upsert" /\ todo'[q] = modelRunEdges(x, rec[q])
      BY <1>2, <2>4 DEF EndRemove, Inv, TypeOK
    <3>2. op'[q] = "update" /\ rec'[q] = rec[q]
      BY <1>0, <2>4
    <3>. QED
      BY <2>2, <3>1, <3>2 DEF Stage
  <2>. QED
    BY <2>1, <2>3, <2>4
<1>3. CASE Fail(q)
  <2>1. pc'[q] = "failed"
    BY <1>3 DEF Fail, Inv, TypeOK
  <2>. QED
    BY <2>1 DEF Stage
<1>. QED
  BY <1>1, <1>2, <1>3

\* A step of q with its own run, which writes or fetches the item.
LEMMA OwnItemStep ==
  ASSUME Inv, NEW q \in Request, Course(q), NEW x \in Run, run[q] = x, Stage(q, x),
         Insert(q) \/ Fetch(q) \/ Commit(q) \/ Erase(q)
  PROVE  Stage(q, x)'
<1> USE DEF Goto
<1>0. Assertions(x)' = Assertions(x) /\ UNCHANGED <<op, run, rec>>
  BY DEF Insert, Fetch, Commit, Erase, tables, Assertions, AssertedBy
<1>1. CASE Insert(q)
  <2>1. /\ pc'[q] = "upsert" /\ todo'[q] = modelRunEdges(x, rec[q])
        /\ record'[x] = rec[q] /\ prov'[x] = rec[q]
    BY <1>1 DEF Insert, Inv, TypeOK
  <2>2. Assertions(x) = {}
    BY <1>1 DEF Insert, Stage
  <2>. QED
    BY <1>0, <2>1, <2>2 DEF Stage
<1>2. CASE Fetch(q)
  <2>1. /\ pc[q] = "fetch" /\ op[q] \in {"lodge", "update"} /\ rec[q] \in Record
        /\ UNCHANGED <<record, prov>> /\ stored'[q] = record[x]
        /\ pc'[q] = IF Exists(x) THEN "commit"
                    ELSE IF op[q] = "lodge" THEN "done" ELSE "failed"
    BY <1>2 DEF Fetch, Inv, Local, Course, TypeOK, tables
  <2>2. op[q] = "lodge" => record[x] = rec[q] /\ prov[x] = rec[q]
    BY <2>1 DEF Stage
  <2>3. pc'[q] \in {"commit", "failed"}
    BY <2>1, <2>2, RecordAssumption DEF Exists, Record
  <2>4. Assertions(x)' = modelRunEdges(x, rec[q])
    BY <1>0, <2>1 DEF Stage
  <2>. QED
    BY <1>0, <2>1, <2>2, <2>3, <2>4 DEF Stage
<1>3. CASE Commit(q)
  <2>1. pc[q] = "commit" /\ op[q] \in {"lodge", "update"} /\ rec[q] \in Record
    BY <1>3 DEF Commit, Inv, Local, Course
  <2>2. Assertions(x)' = modelRunEdges(x, rec[q])
    BY <1>0, <2>1 DEF Stage
  <2>3. op[q] = "lodge" => stored[q] = rec[q]
    BY <2>1 DEF Stage
  <2>4. \/ pc'[q] = "failed"
        \/ pc'[q] = "done" /\ record'[x] = rec[q] /\ prov'[x] = rec[q]
    <3>1. CASE Goto(q, "failed")
      BY <3>1 DEF Inv, TypeOK
    <3>2. CASE /\ record' = [record EXCEPT ![x] =
                                IF op[q] = "lodge" THEN stored[q] ELSE rec[q]]
               /\ prov' = [prov EXCEPT ![x] = rec[q]]
               /\ Goto(q, "done")
      BY <2>3, <3>2 DEF Inv, TypeOK
    <3>. QED
      BY <1>3, <3>1, <3>2 DEF Commit, Serialised
  <2>5. pc'[q] = "done" => Lodged(x)'
    BY <2>1, <2>2, <2>4, RecordAssumption DEF Lodged, Exists, Record
  <2>6. pc'[q] \in {"done", "failed"}
    BY <2>4
  <2>. QED
    BY <2>5, <2>6 DEF Stage
<1>4. CASE Erase(q)
  <2>1. pc[q] = "erase" /\ pc'[q] = "done"
        /\ record'[x] = NoRecord /\ prov'[x] = NoRecord
    BY <1>4 DEF Erase, Inv, TypeOK
  <2>2. Assertions(x)' = {}
    BY <1>0, <2>1 DEF Stage
  <2>3. Lodged(x)'
    BY <2>1, <2>2 DEF Lodged, Exists
  <2>. QED
    BY <2>1, <2>3 DEF Stage
<1>. QED
  BY <1>1, <1>2, <1>3, <1>4

-----------------------------------------------------------------------------
\* The runs that are lodged initially are as lodged.
LEMMA InitUndisturbed == Init => Undisturbed
<1> SUFFICES ASSUME Init PROVE Undisturbed
  OBVIOUS
<1>1. \A r \in Request : Course(r)
  BY DEF Init, Course
<1>2. \A x \in Run : Exists(x) => writes[x] # 0
  BY DEF Init, Exists
<1>3. ASSUME NEW x \in Run
      PROVE  Lodged(x)
  <2>1. \A e \in Edge :
          graph[e].by = {y \in Run : record[y] # NoRecord
                                     /\ e \in modelRunEdges(y, record[y])}
    BY DEF Init
  <2>2. Assertions(x) =
          {e \in Edge : record[x] # NoRecord /\ e \in modelRunEdges(x, record[x])}
    BY <2>1 DEF Assertions, AssertedBy
  <2>3. Exists(x) => modelRunEdges(x, record[x]) \subseteq Edge
    BY EdgesOfRun DEF Init, Exists, RecordOrNone
  <2>4. prov = record
    BY DEF Init
  <2>. QED
    BY <2>2, <2>3, <2>4 DEF Lodged, Exists
<1>4. \A x \in Run : About(x) = {}
  BY RunAssumption DEF Init, About
<1>. QED
  BY <1>1, <1>2, <1>3, <1>4 DEF Undisturbed

\* Every step of a request keeps it.
LEMMA StepUndisturbed ==
  ASSUME Inv, Undisturbed, NEW q \in Request, Step(q)
  PROVE  Undisturbed'
<1>1. \A r \in Request : Course(r)'
  BY CourseStep DEF Undisturbed
<1>2. \A x \in Run : record'[x] # NoRecord => writes'[x] # 0
  BY WritesStep DEF Undisturbed
<1>3. \A x \in Run : About(x)' = {} /\ Removers' = {} => Lodged(x)'
  BY UntouchedStep
<1>4. ASSUME NEW x \in Run, NEW r \in About(x)',
             About(x)' = {r}, Removers' \subseteq {r}
      PROVE  Stage(r, x)'
  <2>1. r \in Request
    BY <1>4 DEF About
  <2>2. CASE r # q
    BY <1>4, <2>1, <2>2, OthersStep
  <2>3. CASE r = q /\ pc[q] = "idle"
    BY <1>4, <2>3, FirstStep
  <2>4. CASE r = q /\ pc[q] # "idle"
    <3>1. run[q] = x
      BY <1>4, <2>4, LocalsFrame DEF About
    <3>2. About(x) = {q} /\ Removers \subseteq {q}
      BY <1>4, <2>4, <3>1, AboutStep DEF Undisturbed, About
    <3>3. Stage(q, x)
      BY <3>1, <3>2 DEF Undisturbed, About
    <3>4. Course(q)
      BY DEF Undisturbed
    <3>5. Insert(q) \/ Upsert(q) \/ EndUpsert(q) \/ Select(q) \/ Remove(q)
          \/ EndRemove(q) \/ Fetch(q) \/ Commit(q) \/ Erase(q) \/ Fail(q)
      BY <2>4 DEF Step, BeginRegister, BeginLodge, BeginUpdate, BeginDelete,
                  Start, Clear
    <3>. QED
      BY <2>4, <3>1, <3>3, <3>4, <3>5, OwnEdgeStep, OwnLoopStep, OwnItemStep
  <2>. QED
    BY <2>2, <2>3, <2>4
<1>. QED
  BY <1>1, <1>2, <1>3, <1>4 DEF Undisturbed, Exists

\* Nothing changes.
LEMMA StutterUndisturbed ==
  ASSUME Undisturbed, UNCHANGED vars
  PROVE  Undisturbed'
BY DEF Undisturbed, vars, tables, locals, Course, Exists, About, Removers, Lodged,
       Stage, Assertions, AssertedBy

\* Runs that at most one request touches are as far as that request is.
THEOREM UndisturbedInvariance == Spec => []Undisturbed
<1>1. ASSUME Inv, Undisturbed, [Next]_vars
      PROVE  Undisturbed'
  <2>1. ASSUME NEW q \in Request, Step(q)
        PROVE  Undisturbed'
    BY <1>1, <2>1, StepUndisturbed
  <2>2. CASE ~\E q \in Request : Step(q)
    BY <1>1, <2>2, StutterUndisturbed DEF Next, Finished
  <2>. QED
    BY <2>1, <2>2
<1>. QED
  BY <1>1, Invariance, InitUndisturbed, PTL DEF Spec

\* What registerModelRun, lodgeModelRunOnly, updateModelRun or deleteModelRun
\* alone did to a run is right when nobody else removed edges meanwhile.
THEOREM UndisturbedRunsAreLodged == Spec => []UndisturbedRunIsLodged
<1>1. Undisturbed => UndisturbedRunIsLodged
  BY DEF Undisturbed, UndisturbedRunIsLodged, Stage, Lodged
<1>. QED
  BY <1>1, UndisturbedInvariance, PTL
=============================================================================
