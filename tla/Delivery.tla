------------------------------ MODULE Delivery ------------------------------
(***************************************************************************)
(* What the outbound queue promises its callers, without workers, retries, *)
(* routes or a file.  Messages are numbered in the order of the calls.     *)
(*                                                                         *)
(*  - A call is accepted below the cap and refused at it.                  *)
(*  - An accepted message ends once: delivered, failed, refused by the     *)
(*    recipient's stamp cost, or expired.                                  *)
(*  - A held message ends by a send only after everything accepted before  *)
(*    it for its recipient has ended.                                      *)
(*  - Only the end of the process disturbs this.  It may lose messages and *)
(*    may bring messages that had ended back, but only ones of which a     *)
(*    copy was left, as they were, and never one that was refused or lost. *)
(*    Between that end and the next start nothing happens to any message.  *)
(*                                                                         *)
(* OutboundQueueRefinement shows that OutboundQueue keeps the promise;     *)
(* Catchup builds on it.                                                   *)
(***************************************************************************)
EXTENDS Naturals, FiniteSets, Functions

CONSTANTS
    Orders,         \* what callers ask for: [rcpt, after] records
    MaxMessages,    \* bound: calls
    MaxPending      \* maxPendingMessages

VARIABLES
    up,             \* the process is running
    status,         \* what became of each call
    copies          \* the messages of which a copy is left, and their content

vars == <<up, status, copies>>

Ids    == 1 .. MaxMessages
Sent   == {"delivered", "failed", "refused"}
Over   == Sent \cup {"expired"}
Status == {"none", "queued", "dropped", "lost"} \cup Over

Queued == {i \in Ids : status[i] = "queued"}

\* The number of the next call.
Number == Cardinality({i \in Ids : status[i] # "none"}) + 1

\* Copies may disappear, except those of queued messages; none changes.
CopiesKept ==
    /\ \E S \in SUBSET DOMAIN copies : copies' = Restrict(copies, S)
    /\ Queued' \subseteq DOMAIN copies'

-----------------------------------------------------------------------------

Init ==
    /\ up = TRUE
    /\ status = [i \in Ids |-> "none"]
    /\ copies = << >>

Accept(o) ==
    /\ up
    /\ Number \in Ids
    /\ Cardinality(Queued) < MaxPending
    /\ status' = [status EXCEPT ![Number] = "queued"]
    /\ copies' = [i \in DOMAIN copies \cup {Number} |->
                     IF i = Number THEN o ELSE copies[i]]
    /\ UNCHANGED up

Refuse ==
    /\ up
    /\ Number \in Ids
    /\ Cardinality(Queued) >= MaxPending
    /\ status' = [status EXCEPT ![Number] = "dropped"]
    /\ UNCHANGED <<up, copies>>

InTurn(i) ==
    copies[i].after =>
        \A j \in Queued : j < i => copies[j].rcpt # copies[i].rcpt

Send(i, end) ==
    /\ up
    /\ i \in Queued
    /\ InTurn(i)
    /\ status' = [status EXCEPT ![i] = end]
    /\ CopiesKept
    /\ UNCHANGED up

Expire(S) ==
    /\ up
    /\ S # {}
    /\ status' = [i \in Ids |-> IF i \in S THEN "expired" ELSE status[i]]
    /\ CopiesKept
    /\ UNCHANGED up

\* The process ends; the messages of S are what the next one will find.
Kill(S) ==
    /\ up
    /\ up' = FALSE
    /\ status' = [i \in Ids |-> IF i \in S THEN "queued"
                                ELSE IF i \in Queued THEN "lost" ELSE status[i]]
    /\ CopiesKept

\* The next process starts, with the messages that were left.
Start ==
    /\ ~up
    /\ up' = TRUE
    /\ UNCHANGED <<status, copies>>

\* A copy of a message that is over disappears.
Forget == UNCHANGED <<up, status>> /\ CopiesKept

Next ==
    \/ Forget
    \/ \E o \in Orders : Accept(o)
    \/ Refuse
    \/ \E i \in Ids, end \in Sent : Send(i, end)
    \/ \E S \in SUBSET Queued : Expire(S)
    \/ \E S \in SUBSET {i \in DOMAIN copies : status[i] # "lost"} : Kill(S)
    \/ Start

Spec == Init /\ [][Next]_vars
=============================================================================
