----------------------------- MODULE MCStateDir -----------------------------
(* StateDir for TLC: processes are interchangeable, and accounts are. *)
EXTENDS StateDir, TLC

Symmetry == Permutations(Procs) \cup Permutations(Accounts)
=============================================================================
