----------------------------- MODULE MCDatasets -----------------------------
(* Datasets for TLC: requests, collection formats and persons are          *)
(* interchangeable.                                                        *)
EXTENDS Datasets, TLC

Symmetry == Permutations(Request) \cup Permutations(Meta) \cup Permutations(Person)
=============================================================================
