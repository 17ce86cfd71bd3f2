------------------------------- MODULE Lineage -------------------------------
(***************************************************************************)
(* Exploring the provenance graph: the recursive query traverse of         *)
(* packages/db/src/repos/edges.ts, and what lineage, contributingDatasets, *)
(* effectedDatasets and contributingAgents make of its rows                *)
(* (apps/api/src/services/provService.ts).                                 *)
(*                                                                         *)
(* The query goes along the edges round by round, up to a depth, each row  *)
(* with the path that led to it; a node on that path is not entered again, *)
(* but the first round looks at no path: a loop at the start is a row too, *)
(* and is gone on from.                                                    *)
(* The special queries walk once more over the rows, path by path, and     *)
(* keep the paths that end where the query is after.                       *)
(*                                                                         *)
(* Abstractions.  Two nodes have at most one edge; the relation is left    *)
(* out.  A node may have an edge to itself, which nothing in the database  *)
(* forbids.  The query sees one state of the graph; what changes later are *)
(* the items that the nodes are decorated with, so any of them may be what *)
(* a special query is after.  A deleted item counts as a dataset.          *)
(***************************************************************************)
EXTENDS Integers, Sequences, FiniteSets, SequencesExt

CONSTANTS
  Node,         \* ids of items
  start,        \* the one to start from, wherever it is in the graph
  MAX_DEPTH     \* how far the query goes at most

ASSUME NodeAssumption == IsFiniteSet(Node)
ASSUME StartAssumption == start \in Node
ASSUME MaxDepthAssumption == MAX_DEPTH \in Nat \ {0}

VARIABLES
  edges,        \* prov_edge, as the query sees it: pairs of source and target
  depth,        \* how far to go
  direction,    \* along the edges, or against them
  walk,         \* the rows of the recursive query so far
  work,         \* those of the last round
  step,         \* the step performed next
  special,      \* whether the answer is that of a special query
  wanted,       \* the nodes a special query finds to be what it is after
  answer        \* the nodes of the answer

query == <<edges, depth, direction>>
lineageVars == <<query, walk, work, step, special, wanted, answer>>

-----------------------------------------------------------------------------
Edge == Node \X Node
Directions == {"upstream", "downstream"}

\* An edge in the direction of the query.
Along(e) == IF direction = "upstream" THEN e ELSE <<e[2], e[1]>>
Arcs(es) == {Along(e) : e \in es}

cappedDepth ==
  LET atLeastOne == IF depth < 1 THEN 1 ELSE depth
  IN  IF atLeastOne > MAX_DEPTH THEN MAX_DEPTH ELSE atLeastOne

LineageInit ==
  /\ edges \in SUBSET Edge
  /\ depth \in 0..(MAX_DEPTH + 1)
  /\ direction \in Directions
  /\ walk = {}
  /\ work = {}
  /\ step = "first"
  /\ special = FALSE
  /\ wanted = {}
  /\ answer = {}

-----------------------------------------------------------------------------
(* The recursive query.                                                    *)

\* (seeded bug) the source is that of the row before
RowOf_Before(path, arc) ==
  [arc |-> <<IF Len(path) = 1 THEN path[1] ELSE path[Len(path) - 1], arc[2]>>,
   path |-> Append(path, arc[2])]
\* A row: the last arc of a path from the start, and the path.
RowOf(path, arc) == [arc |-> arc, path |-> Append(path, arc[2])]

First ==
  LET leaving == {arc \in Arcs(edges) : arc[1] = start}
      rows == {RowOf(<<start>>, arc) : arc \in leaving}
  IN  /\ step = "first"
      /\ walk' = rows
      /\ work' = rows
      /\ step' = "round"
      /\ UNCHANGED <<query, special, wanted, answer>>

\* (seeded bug) a node that any path has entered is not entered again
MayEnter_Once(row, arc) == \A w \in walk : arc[2] # w.arc[2]
\* (seeded bug) one round more than asked for
MayEnter_Later(row, arc) ==
  /\ arc[1] = row.arc[2]
  /\ Len(row.path) - 1 <= cappedDepth
  /\ arc[2] \notin Range(row.path)
\* (seeded bug) the path is not looked at
MayEnter_Again(row, arc) ==
  /\ arc[1] = row.arc[2]
  /\ Len(row.path) - 1 < cappedDepth
\* Where a row may be continued: not beyond the depth, nor to its own path.
MayEnter(row, arc) ==
  /\ arc[1] = row.arc[2]
  /\ Len(row.path) - 1 < cappedDepth
  /\ arc[2] \notin Range(row.path)

Continued == {c \in work \X Arcs(edges) : MayEnter(c[1], c[2])}

Round ==
  /\ step = "round" /\ work # {}
  /\ work' = {RowOf(c[1].path, c[2]) : c \in Continued}
  /\ walk' = walk \cup work'
  /\ UNCHANGED <<query, step, special, wanted, answer>>

-----------------------------------------------------------------------------
(* The answer.                                                             *)

\* SELECT DISTINCT, without the paths.
Rows == {row.arc : row \in walk}
NodesOf(arcs) == {a[1] : a \in arcs} \cup {a[2] : a \in arcs}

\* collectPaths: simple paths along the arcs that the query returned.
Extended(arcs, path) ==
  {Append(path, a[2]) : a \in {b \in arcs : b[1] = Last(path)
                                            /\ b[2] \notin Range(path)}}
\* (seeded bug) nodes that were visited by any path are not entered again
CollectedPaths_Tree(arcs) ==
  LET upTo[n \in 0..depth] ==
        IF n = 0 THEN {<<start>>}
        ELSE upTo[n - 1] \cup
             {p \in UNION {Extended(arcs, q) : q \in upTo[n - 1]} :
                \A q \in upTo[n - 1] : Last(p) \notin Range(q)}
  IN  upTo[depth] \ {<<start>>}
collectPaths(arcs) ==
  LET upTo[n \in 0..depth] ==
        IF n = 0 THEN {<<start>>}
        ELSE upTo[n - 1] \cup UNION {Extended(arcs, p) : p \in upTo[n - 1]}
  IN  upTo[depth] \ {<<start>>}

\* buildNodeLinkGraph over all rows.
AnswerLineage ==
  /\ step = "round" /\ work = {}
  /\ answer' = NodesOf(Rows)
  /\ step' = "end"
  /\ UNCHANGED <<query, walk, work, special, wanted>>

\* filteredLineage: the ends of the paths are looked up in the registry, and
\* the paths kept that end where the query is after.
AnswerSpecial ==
  /\ step = "round" /\ work = {}
  /\ LET paths == collectPaths(Rows)
     IN  \E found \in SUBSET {Last(p) : p \in paths} :
           /\ wanted' = found
           /\ answer' = UNION {Range(p) : p \in {q \in paths : Last(q) \in found}}
  /\ special' = TRUE
  /\ step' = "end"
  /\ UNCHANGED <<query, walk, work>>

Answered == step = "end" /\ UNCHANGED lineageVars

LineageNext == First \/ Round \/ AnswerLineage \/ AnswerSpecial \/ Answered

LineageSpec == LineageInit /\ [][LineageNext]_lineageVars

-----------------------------------------------------------------------------
(* Properties.                                                             *)

Path == Seq(Node)
LineageTypeOK ==
  /\ edges \subseteq Edge
  /\ depth \in 0..(MAX_DEPTH + 1)
  /\ direction \in Directions
  /\ special \in BOOLEAN
  /\ walk \subseteq [arc : Arcs(edges), path : Path]
  /\ work \subseteq walk
  /\ step \in {"first", "round", "end"}
  /\ wanted \subseteq Node
  /\ answer \subseteq Node

\* A simple path of the graph from the start.
IsPath(p) ==
  /\ p # <<>> /\ p[1] = start
  /\ \A m, n \in DOMAIN p : m # n => p[m] # p[n]
  /\ \A n \in 2..Len(p) : <<p[n - 1], p[n]>> \in Arcs(edges)

\* A simple path after a loop at the start.
IsPathAfterLoop(p) ==
  /\ <<start, start>> \in Arcs(edges)
  /\ Len(p) > 1 /\ p[1] = start
  /\ IsPath(Tail(p))

\* Whatever the graph, with diamonds, cycles and loops, every row of the query is
\* the end of a path from the start that is no longer than allowed and enters no
\* node twice, except the start itself if there is a loop at it: the first part
\* of the query does not look whether an edge leads back (edges.ts:141).
RowsArePaths ==
  \A row \in walk :
    /\ IsPath(row.path) \/ IsPathAfterLoop(row.path)
    /\ Len(row.path) \in 2..(cappedDepth + 1)
    /\ row.arc = <<row.path[Len(row.path) - 1], row.path[Len(row.path)]>>

\* The nodes that can be reached in up to n steps.
Ball(n) ==
  LET ball[k \in 0..n] ==
        IF k = 0 THEN {start}
        ELSE ball[k - 1] \cup
             {a[2] : a \in {b \in Arcs(edges) : b[1] \in ball[k - 1]}}
  IN  ball[n]

\* A lineage shows every node that is no farther from the start than allowed,
\* however many paths and cycles there are, and no other.
NodesAreExact ==
  step = "end" /\ ~special =>
    answer \cup {start} = Ball(cappedDepth)

\* Of the edges that leave nodes less far away than that, the answer lacks only
\* those that close a cycle: their target leads to their source.
OnlyCyclesAreCut ==
  LET arcs == Arcs(edges)
      near == Ball(cappedDepth - 1)
  IN  step = "end" =>
        \A a \in {b \in arcs \ Rows : b[1] \in near} :
          \E p \in BoundedSeq(Node, Cardinality(Node)) :
            /\ p # <<>> /\ p[1] = a[2] /\ Last(p) = a[1]
            /\ \A n \in 2..Len(p) : <<p[n - 1], p[n]>> \in arcs

\* A lineage is the part of the graph that is within the depth.
LineageIsExact ==
  /\ LineageTypeOK
  /\ NodesAreExact
  /\ OnlyCyclesAreCut

\* The paths of a special query are "all simple paths from startingId up to
\* depth steps" (provService.ts:391), although it walks over the rows of a query
\* that has dropped their paths; its nodes are those of the paths that end where
\* it is after.
SpecialQueryIsExact ==
  step = "end" /\ special /\ depth \in 1..MAX_DEPTH =>
    LET all == {p \in BoundedSeq(Node, depth + 1) : Len(p) > 1 /\ IsPath(p)}
    IN  answer = UNION {Range(p) : p \in {q \in all : Last(q) \in wanted}}
=============================================================================
