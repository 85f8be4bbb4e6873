----------------------------- MODULE MCDataTask -----------------------------
(* DataTask on small instances.                                            *)
EXTENDS DataTask, TLC

Symmetry == Permutations(Devices) \cup Permutations(Workers) \cup Permutations(Clients)
=============================================================================
