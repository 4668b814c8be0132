----------------------------- MODULE MCAutoSync -----------------------------
(* AutoSync for TLC: interchangeable processes.                            *)
EXTENDS AutoSync, TLC

Symmetry == Permutations(Procs)
=============================================================================
