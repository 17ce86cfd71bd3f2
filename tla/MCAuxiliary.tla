----------------------------- MODULE MCAuxiliary -----------------------------
(* Auxiliary for TLC: persons and groups are interchangeable, and so are   *)
(* the requests that may import and those that may not.                    *)
EXTENDS Auxiliary, TLC

Symmetry == Permutations(Importer) \cup Permutations(Request \ Importer)
            \cup Permutations(Person) \cup Permutations(Group)
=============================================================================
