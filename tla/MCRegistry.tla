----------------------------- MODULE MCRegistry -----------------------------
(* Small instances of Registry for TLC.                                    *)
EXTENDS Registry, TLC

\* Requests are alike, and so are contents.
Symmetry == Permutations(Request) \cup Permutations(Content)
=============================================================================
