------------------------------ MODULE MCRelay ------------------------------
(* Small instances of Relay for TLC. *)
EXTENDS Relay, TLC

CONSTANTS ann, bob, carl, b1, b2

Of(t, f) == [text |-> t, fields |-> f]

\* A text, a picture without text, a reaction, a reply, and a text with a file
\* that the policy refuses and a picture that may be too large.
Text     == Of(TRUE, {})
Picture  == Of(FALSE, {"image"})
Reaction == Of(FALSE, {"reaction"})
Reply    == Of(TRUE, {"reply", "quote"})
Annex    == Of(TRUE, {"file", "image"})

Annotations == {Text, Picture, Reaction, Reply}
Mixed       == {Reaction, Annex}

Policy == {"image", "reply", "quote", "reaction", "comment"}

UserSymmetry == Permutations(Users)
=============================================================================
