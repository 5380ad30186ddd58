------------------------------ MODULE MCRoster ------------------------------
(* Small instances of Roster for TLC. *)
EXTENDS Roster, TLC

CONSTANTS boss, ann, bob, carl

\* Fresh announces, and replays from either side of the prune windows, ...
Dated == [ago : {0, 2, 3}, ahead : {FALSE}]

\* ... and those of a member whose clock is ahead.
Announcements == Dated \cup [ago : {0, 3}, ahead : {TRUE}]

UserSymmetry == Permutations({ann, bob, carl})
=============================================================================
