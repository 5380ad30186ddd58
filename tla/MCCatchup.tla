----------------------------- MODULE MCCatchup -----------------------------
(* A small instance of Catchup for TLC. *)
EXTENDS Catchup, TLC

CONSTANTS ann, bob

\* A file with a description and a list that are too long.
Overlong == {[info |-> 4, pins |-> 3]}

\* With and without a replay.
WithPins == {<<TRUE, TRUE>>, <<FALSE, TRUE>>}

UserSymmetry == Permutations(Users)
=============================================================================
