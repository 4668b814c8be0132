----------------------------- MODULE MCFileLake -----------------------------
(* FileLake for TLC: sets of interchangeable fetches, jobs and writers.    *)
EXTENDS FileLake, MCSchema, TLC

Symmetry == Permutations(Fetches) \union Permutations(Jobs) \union Permutations(Writers)
=============================================================================
