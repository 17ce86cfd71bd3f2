----------------------------- MODULE MCJobQueue -----------------------------
(* JobQueue for TLC: clients and workers are interchangeable.              *)
EXTENDS JobQueue, TLC

Symmetry == Permutations(Client) \cup Permutations(Worker)
=============================================================================
