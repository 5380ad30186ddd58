---------------------- MODULE OutboundQueueRefinement ----------------------
(***************************************************************************)
(* OutboundQueue implements Delivery.  While the process is down the queue *)
(* is what the file holds; a message whose last call or send left it       *)
(* queued, and that is in neither, is lost.                                *)
(***************************************************************************)
EXTENDS OutboundQueue

Queue == IF phase = "down" THEN disk ELSE pending

StatusBar ==
    [i \in Ids |-> IF i \in DOMAIN Queue THEN "queued"
                   ELSE IF fate[i] = "queued" THEN "lost" ELSE fate[i]]

\* A copy of a message is in memory, in the snapshot or in the file; where
\* they differ, callers see the one in memory.
CopyOf(i) ==
    LET m == IF i \in DOMAIN Queue THEN Queue[i]
             ELSE IF i \in DOMAIN snap THEN snap[i] ELSE disk[i]
    IN  [rcpt |-> m.rcpt, after |-> m.after]

CopiesBar ==
    [i \in DOMAIN Queue \cup DOMAIN snap \cup DOMAIN disk |-> CopyOf(i)]

Promise == INSTANCE Delivery
    WITH Orders <- {[rcpt |-> in.rcpt, after |-> in.after] : in \in Inputs},
         up <- phase # "down", status <- StatusBar, copies <- CopiesBar

\* Whatever workers, retries, the flush loop, kills and reloads do, callers
\* see a queue that keeps the promise of Delivery (outbound.go:53-139).
ImplementsDelivery == Promise!Spec
=============================================================================
