---------------------------- MODULE MCLifecycle ----------------------------
(* A small instance of Lifecycle for TLC. *)
EXTENDS Lifecycle, TLC

CONSTANTS p1, p2

ProcSymmetry == Permutations(Procs)
=============================================================================
