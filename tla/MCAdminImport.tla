---------------------------- MODULE MCAdminImport ----------------------------
(* AdminImport for TLC: requests and contents are interchangeable.         *)
EXTENDS AdminImport, TLC

Symmetry == Permutations(Request) \cup Permutations(Content)
=============================================================================
