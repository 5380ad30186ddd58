---------------------------- MODULE MCDiscovery ----------------------------
(* A small instance of Discovery for TLC. *)
EXTENDS Discovery, TLC

CONSTANTS n1, n2, n3, ann

NodeSymmetry == Permutations(Nodes)
=============================================================================
