-------------------------- MODULE MCTokenLifecycle --------------------------
(* TokenLifecycle for TLC: the processes are interchangeable. *)
EXTENDS TokenLifecycle, TLC

Symmetry == Permutations(Procs)
=============================================================================
