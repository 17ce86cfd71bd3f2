---------------------------- MODULE MCProvGraph ----------------------------
(* ProvGraph for TLC: requests, runs and datasets are interchangeable.     *)
EXTENDS ProvGraph, TLC

Symmetry == Permutations(Request) \cup Permutations(Run) \cup Permutations(Dataset)
=============================================================================
