----------------------------- MODULE MCLineage ------------------------------
(* Small instances of Lineage for TLC.                                     *)
EXTENDS Lineage, TLC

\* The nodes are alike, but for the start.
Symmetry == Permutations(Node \ {start})
=============================================================================
