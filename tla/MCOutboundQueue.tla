-------------------------- MODULE MCOutboundQueue --------------------------
(* Small instances of OutboundQueue for TLC. *)
EXTENDS OutboundQueueRefinement, TLC

CONSTANTS r1, w1, w2

Plain(r)  == [rcpt |-> r, after |-> FALSE, bubble |-> FALSE]
Held(r)   == [rcpt |-> r, after |-> TRUE,  bubble |-> FALSE]
Bubble(r) == [rcpt |-> r, after |-> FALSE, bubble |-> TRUE]

\* A fan-out copy and a held message for one recipient.
FanInputs == {Bubble(r1), Held(r1)}
OneInput == {Plain(r1)}
OkOrUnknown == {"ok", "unknown"}
OkOrRefused == {"ok", "refused"}
OkOrFail == {"ok", "fail"}
AllModes == {"off", "fallback", "always"}
OnlyOff == {"off"}

WorkerSymmetry == Permutations(Workers)
=============================================================================
