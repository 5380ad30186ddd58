---------------------- MODULE OutboundQueueDurability ----------------------
(***************************************************************************)
(* Theorems about OutboundQueue and its file: what a queue that is not     *)
(* dirty has on disk, when the file may forget a message, when a view is   *)
(* in the cache, and that the queue keeps the promise of Delivery.         *)
(***************************************************************************)
EXTENDS OutboundQueueLimits, OutboundQueueRefinement

-----------------------------------------------------------------------------
(* A copy that is in step with a queue. *)

\* InSync for any queue, set of messages in flight and mode.
Synced(q, p, F, md) ==
    /\ DOMAIN q = DOMAIN p
    /\ \A i \in DOMAIN p \ F : Loaded(q, md)[i] = Stored(p)[i]

\* A change of what is in flight leaves the copy in step.
LEMMA SyncedKept ==
  ASSUME NEW q, NEW p, NEW F, NEW md, Synced(q, p, F, md),
         NEW r, NEW G, DOMAIN r = DOMAIN p, DOMAIN p \ G \subseteq DOMAIN p \ F,
         \A i \in DOMAIN p \ G : r[i] = p[i]
  PROVE  Synced(q, r, G, md)
  BY DEF Synced, Stored

\* Time passes for the copy and for the queue alike.
LEMMA SyncedAged ==
  ASSUME NEW q, NEW p, NEW F, NEW md, IsQueue(q), IsQueue(p),
         Synced(q, p, F, md)
  PROVE  Synced(Aged(q), Aged(p), F, md)
<1>1. /\ DOMAIN Aged(q) = DOMAIN q /\ DOMAIN Aged(p) = DOMAIN p
      /\ DOMAIN q = DOMAIN p
      /\ IsQueue(Aged(q)) /\ IsQueue(Aged(p))
  BY AgedQueue DEF Synced
<1>2. ASSUME NEW i \in DOMAIN p \ F
      PROVE  Loaded(Aged(q), md)[i] = Stored(Aged(p))[i]
  <2>1. q[i] \in Message /\ p[i] \in Message
    BY <1>1 DEF IsQueue
  <2>2. Aged(q)[i] \in Message /\ Aged(p)[i] \in Message
    BY <1>1 DEF IsQueue
  <2>3. Loaded(q, md)[i] = Stored(p)[i]
    BY DEF Synced
  <2>4. [q[i] EXCEPT !.propagated = @ /\ md # "off"]
           = [p[i] EXCEPT !.bubble = FALSE]
    BY <1>1, <2>3 DEF Loaded, Stored
  <2>5. /\ q[i].rcpt = p[i].rcpt /\ q[i].after = p[i].after
        /\ q[i].bubble = FALSE /\ q[i].attempts = p[i].attempts
        /\ q[i].wait = p[i].wait /\ q[i].age = p[i].age
        /\ (q[i].propagated /\ md # "off") = p[i].propagated
    BY <2>1, <2>4 DEF Message
  <2>6. /\ Aged(q)[i].rcpt = Aged(p)[i].rcpt
        /\ Aged(q)[i].after = Aged(p)[i].after
        /\ Aged(q)[i].bubble = FALSE
        /\ Aged(q)[i].attempts = Aged(p)[i].attempts
        /\ Aged(q)[i].wait = Aged(p)[i].wait
        /\ Aged(q)[i].age = Aged(p)[i].age
        /\ (Aged(q)[i].propagated /\ md # "off") = Aged(p)[i].propagated
    BY <1>1, <2>1, <2>5 DEF Aged, Message
  <2>7. [Aged(q)[i] EXCEPT !.propagated = @ /\ md # "off"]
           = [Aged(p)[i] EXCEPT !.bubble = FALSE]
    BY <2>2, <2>6 DEF Message
  <2>8. QED
    BY <1>1, <2>7 DEF Loaded, Stored
<1>3. QED
  BY <1>1, <1>2 DEF Synced

\* A fresh snapshot is in step: what Load clears is not set.
LEMMA SyncedSnapshot ==
  ASSUME NEW p, NEW F, NEW md, IsQueue(p),
         md = "off" => \A i \in DOMAIN p : ~p[i].propagated
  PROVE  Synced(Stored(p), p, F, md)
<1>1. DOMAIN Stored(p) = DOMAIN p
  BY StoredQueue
<1>2. ASSUME NEW i \in DOMAIN p
      PROVE  Loaded(Stored(p), md)[i] = Stored(p)[i]
  <2>1. p[i] \in Message /\ p[i].propagated \in BOOLEAN
    BY DEF IsQueue, Message
  <2>2. Stored(p)[i] = [p[i] EXCEPT !.bubble = FALSE]
    BY DEF Stored
  <2>3. Stored(p)[i] \in Message
    BY <2>1, <2>2 DEF Message
  <2>4. Stored(p)[i].propagated = (Stored(p)[i].propagated /\ md # "off")
    BY <2>1, <2>2 DEF Message
  <2>5. [Stored(p)[i] EXCEPT !.propagated = @ /\ md # "off"] = Stored(p)[i]
    BY <2>3, <2>4 DEF Message
  <2>6. QED
    BY <1>1, <2>5 DEF Loaded
<1>3. QED
  BY <1>1, <1>2 DEF Synced

\* A queue that has just been loaded is in step with the file.
LEMMA SyncedReload ==
  ASSUME NEW q, NEW F, NEW md, IsQueue(q),
         \A i \in DOMAIN q : q[i].bubble = FALSE
  PROVE  Synced(q, Loaded(q, md), F, md)
<1>1. DOMAIN Loaded(q, md) = DOMAIN q /\ IsQueue(Loaded(q, md))
  BY LoadedQueue
<1>2. ASSUME NEW i \in DOMAIN q
      PROVE  Stored(Loaded(q, md))[i] = Loaded(q, md)[i]
  <2>1. q[i] \in Message /\ Loaded(q, md)[i] \in Message
    BY <1>1 DEF IsQueue
  <2>2. Loaded(q, md)[i].bubble = FALSE
    BY <2>1 DEF Loaded, Message
  <2>3. [Loaded(q, md)[i] EXCEPT !.bubble = FALSE] = Loaded(q, md)[i]
    BY <2>1, <2>2 DEF Message
  <2>4. QED
    BY <1>1, <2>3 DEF Stored
<1>3. QED
  BY <1>1, <1>2 DEF Synced

-----------------------------------------------------------------------------
(* What became of a message, and the copies that are left of it. *)

\* A message has no fate before its call, and one that was refused or never
\* made is in no copy.
FatesKnown ==
    /\ \A i \in Ids : (fate[i] = "none") <=> (i >= nextId)
    /\ \A i \in DOMAIN pending \cup DOMAIN snap \cup DOMAIN disk :
          fate[i] \in {"queued"} \cup Ended

\* A process that is down has only its file.
Gone ==
    phase = "down" =>
        /\ DOMAIN pending = {} /\ DOMAIN snap = {}
        /\ writer = "done"
        /\ inFlight = {}

\* A copy that is not in the queue is one of a message that has ended, and a
\* snapshot leaves only such messages out of the file.
Accounted ==
    /\ phase # "down" =>
          \A i \in (DOMAIN snap \cup DOMAIN disk) \ DOMAIN pending :
             fate[i] \in Ended
    /\ writer \in Saving =>
          \A i \in DOMAIN disk \ DOMAIN snap : fate[i] \in Ended

\* Copies have no bubble, a message that ended before has none either, and the
\* view of one that has been sent is in the cache.
Bubbles ==
    /\ \A i \in DOMAIN snap : snap[i].bubble = FALSE
    /\ \A i \in DOMAIN disk : disk[i].bubble = FALSE
    /\ \A i \in DOMAIN pending : pending[i].bubble => fate[i] = "queued"
    /\ \A w \in Workers :
          wpc[w] = "ok" /\ pending[wmsg[w]].bubble => wmsg[w] \in views

\* What one step does to the fate of a message.
Passes(i) == /\ fate'[i] = fate[i]
             /\ i \in DOMAIN pending => i \in DOMAIN pending'
             /\ i = nextId => nextId' = nextId
Called(i) == /\ i = nextId /\ nextId' = nextId + 1
             /\ fate'[i] = IF i \in DOMAIN pending' THEN "queued" ELSE "dropped"
Ends(i)   == /\ i \in DOMAIN pending /\ i \notin DOMAIN pending'
             /\ fate'[i] \in Ended
             /\ fate'[i] = "delivered" =>
                   (\E w \in Workers : wpc[w] = "ok" /\ wmsg[w] = i) /\ views' = views
Dies(i)   == /\ fate'[i] = fate[i]
             /\ phase' = "down"
             /\ nextId' = nextId

\* Every message makes one of these four steps.
LEMMA FateSteps ==
  ASSUME OrderInv, Gone, [Next]_vars, NEW i \in Ids
  PROVE  Passes(i) \/ Called(i) \/ Ends(i) \/ Dies(i)
<1>0. /\ Owned /\ IsQueue(pending) /\ nextId \in Nat
      /\ fate \in [Ids -> {"none", "queued", "dropped"} \cup Ended]
      /\ \A j \in DOMAIN pending : j < nextId
  BY Counters DEF OrderInv, Owned, TypeOK, Fresh
<1>1. CASE UNCHANGED <<fate, pending, nextId>>
  BY <1>1 DEF Passes
<1>2. ASSUME NEW in \in Inputs, Enqueue(in)
      PROVE  Passes(i) \/ Called(i)
  <2>1. /\ fate' = [fate EXCEPT ![nextId] = "queued"] /\ nextId' = nextId + 1
        /\ DOMAIN pending' = DOMAIN pending \cup {nextId}
    BY <1>2 DEF Enqueue
  <2>2. QED
    BY <1>0, <2>1 DEF Passes, Called
<1>3. CASE EnqueueRefused
  <2>1. /\ fate' = [fate EXCEPT ![nextId] = "dropped"] /\ nextId' = nextId + 1
        /\ pending' = pending
    BY <1>3 DEF EnqueueRefused
  <2>2. nextId \notin DOMAIN pending
    BY <1>0
  <2>3. QED
    BY <1>0, <2>1, <2>2 DEF Passes, Called
<1>4. ASSUME NEW w \in Workers, PickDue(w)
      PROVE  Passes(i) \/ Ends(i)
  <2>1. DOMAIN pending' = DOMAIN pending \ Expired
    BY <1>0, <1>4, LiveQueue DEF PickDue
  <2>2. fate'[i] = IF i \in Expired THEN "expired" ELSE fate[i]
    BY <1>4 DEF PickDue
  <2>3. Expired \subseteq DOMAIN pending /\ nextId' = nextId
    BY <1>4 DEF Expired, PickDue
  <2>4. QED
    BY <2>1, <2>2, <2>3 DEF Passes, Ends, Ended
<1>5. ASSUME NEW w \in Workers, AttemptStart(w) \/ SendReturns(w)
      PROVE  Passes(i)
  BY <1>5 DEF AttemptStart, SendReturns, history, Passes
<1>6. ASSUME NEW w \in Workers, Finish(w)
      PROVE  Passes(i) \/ Ends(i)
  <2>1. CASE Deferred(w) \/ Reroute(w) \/ Retry(w)
    <3>1. fate' = fate /\ DOMAIN pending' = DOMAIN pending /\ nextId' = nextId
      BY <2>1 DEF Deferred, Reroute, Retry, Keep, Release
    <3>2. QED
      BY <3>1 DEF Passes
  <2>2. ASSUME NEW end \in Ended, Leave(w, end), wpc[w] \in Busy,
               end = "delivered" => wpc[w] = "ok"
        PROVE  Passes(i) \/ Ends(i)
    <3>1. /\ pending' = Without(pending, {wmsg[w]})
          /\ fate' = [fate EXCEPT ![wmsg[w]] = end]
          /\ views' = views /\ nextId' = nextId
      BY <2>2 DEF Leave, Release
    <3>2. DOMAIN pending' = DOMAIN pending \ {wmsg[w]}
      BY <1>0, <3>1, WithoutQueue
    <3>3. wmsg[w] \in DOMAIN pending
      BY <1>0, <2>2 DEF Owned, SingleOwner
    <3>4. CASE i = wmsg[w]
      <4>1. fate'[i] = end
        BY <1>0, <3>1, <3>4
      <4>2. QED
        BY <2>2, <3>1, <3>2, <3>3, <3>4, <4>1 DEF Ends
    <3>5. CASE i # wmsg[w]
      <4>1. fate'[i] = fate[i]
        BY <1>0, <3>1, <3>5
      <4>2. QED
        BY <3>1, <3>2, <3>5, <4>1 DEF Passes
    <3>6. QED
      BY <3>4, <3>5
  <2>3. CASE Delivered(w)
    BY <2>2, <2>3 DEF Delivered, Ended, Busy, Outcomes
  <2>4. CASE StampRefused(w)
    BY <2>2, <2>4 DEF StampRefused, Ended, Busy, Outcomes
  <2>5. CASE GiveUp(w)
    BY <2>2, <2>5 DEF GiveUp, Ended, Busy, Outcomes
  <2>6. QED
    BY <1>6, <2>1, <2>3, <2>4, <2>5 DEF Finish
<1>7. CASE Persistence \/ Stop \/ NodeChange \/ UNCHANGED vars
  BY <1>1, <1>7 DEF Persistence, TakeKick, Flush, FinalFlush, TakeSnapshot, Save,
     SaveFailed, Stop, NodeChange, vars, history
<1>8. CASE Crash \/ Exit
  BY <1>8 DEF Crash, Exit, Vanish, Dies
<1>9. CASE Tick
  BY <1>0, <1>9, AgedQueue DEF Tick, history, Passes
<1>10. CASE Restart
  <2>1. fate' = fate /\ phase = "down" /\ nextId' = nextId
    BY <1>10 DEF Restart, history
  <2>2. i \notin DOMAIN pending
    BY <2>1 DEF Gone
  <2>3. QED
    BY <2>1, <2>2 DEF Passes
<1>11. QED
  BY <1>2, <1>3, <1>4, <1>5, <1>6, <1>7, <1>8, <1>9, <1>10 DEF Next, Work

\* A process that is gone changes nothing until it is started again.
LEMMA GoneStep ==
  ASSUME OrderInv, Gone, [Next]_vars
  PROVE  Gone'
<1>1. CASE Crash \/ Exit
  BY <1>1 DEF Crash, Exit, Vanish, Empty, Gone
<1>2. CASE phase' # "down"
  BY <1>2 DEF Gone
<1>3. CASE phase = "down" /\ (Tick \/ UNCHANGED vars)
  <2>1. IsQueue(pending) /\ IsQueue(snap)
    BY DEF OrderInv, Owned, TypeOK
  <2>2. /\ DOMAIN pending' = DOMAIN pending /\ DOMAIN snap' = DOMAIN snap
        /\ writer' = writer /\ inFlight' = inFlight
    BY <1>3, <2>1, AgedQueue DEF Tick, vars, workers, flusher
  <2>3. QED
    BY <1>3, <2>2 DEF Gone
<1>4. ASSUME NEW in \in Inputs, Enqueue(in)
      PROVE  phase' # "down"
  BY <1>4 DEF Enqueue, Up, env
<1>5. ASSUME NEW w \in Workers, Work(w)
      PROVE  phase' # "down"
  BY <1>5 DEF Work, PickDue, AttemptStart, SendReturns, Finish, Delivered,
     Deferred, StampRefused, Reroute, GiveUp, Retry, Leave, Keep, Release, env, Up
<1>6. CASE EnqueueRefused \/ Persistence \/ Stop \/ Restart \/ NodeChange
  <2>1. phase' # "down"
    BY <1>6 DEF EnqueueRefused, Persistence, TakeKick, Flush, FinalFlush,
       TakeSnapshot, Save, SaveFailed, Stop, Restart, NodeChange, env, Up
  <2>2. QED
    BY <1>2, <2>1
<1>7. CASE phase # "down" /\ (Tick \/ UNCHANGED vars)
  <2>1. phase' = phase
    BY <1>7 DEF Tick, vars, env
  <2>2. QED
    BY <1>2, <1>7, <2>1
<1>8. QED
  BY <1>1, <1>2, <1>3, <1>4, <1>5, <1>6, <1>7 DEF Next

\* Only Load brings a process back.
LEMMA Revived ==
  ASSUME [Next]_vars, phase = "down", phase' # "down"
  PROVE  Restart
<1>1. ASSUME NEW in \in Inputs, Enqueue(in)
      PROVE  FALSE
  BY <1>1 DEF Enqueue, Up
<1>2. ASSUME NEW w \in Workers, Work(w)
      PROVE  FALSE
  BY <1>2 DEF Work, PickDue, AttemptStart, SendReturns, Finish, Delivered,
     Deferred, StampRefused, Reroute, GiveUp, Retry, Up
<1>3. ~(\/ EnqueueRefused \/ Persistence \/ Crash \/ Stop \/ Exit
        \/ NodeChange \/ Tick \/ UNCHANGED vars)
  BY DEF EnqueueRefused, Persistence, TakeKick, Flush, FinalFlush, Save,
     SaveFailed, Crash, Stop, Exit, NodeChange, Tick, vars, env, Up
<1>4. QED
  BY <1>1, <1>2, <1>3 DEF Next

\* Every step keeps the fates known.
LEMMA FatesStep ==
  ASSUME OrderInv, OrderInv', Gone, FatesKnown, [Next]_vars
  PROVE  FatesKnown'
<1>0. /\ nextId \in Nat /\ nextId' \in {nextId, nextId + 1} /\ Ids \subseteq Nat
      /\ \A j \in DOMAIN pending \cup DOMAIN snap \cup DOMAIN disk :
            j \in Ids /\ j < nextId
      /\ Owned
  BY Counters, CopyOrigin DEF OrderInv, Fresh
<1>1. ASSUME NEW i \in Ids
      PROVE  (fate'[i] = "none") <=> (i >= nextId')
  <2>1. CASE Passes(i) \/ Dies(i)
    BY <1>0, <2>1 DEF Passes, Dies, FatesKnown
  <2>2. CASE Called(i)
    BY <1>0, <2>2 DEF Called
  <2>3. CASE Ends(i)
    BY <1>0, <2>3 DEF Ends, Ended
  <2>4. QED
    BY <2>1, <2>2, <2>3, FateSteps
<1>2. ASSUME NEW i \in DOMAIN pending' \cup DOMAIN snap' \cup DOMAIN disk'
      PROVE  fate'[i] \in {"queued"} \cup Ended
  <2>1. i \in Ids
    BY DEF OrderInv, Owned, TypeOK, IsQueue
  <2>2. \/ i \in DOMAIN pending \cup DOMAIN snap \cup DOMAIN disk
        \/ i \in DOMAIN pending' /\ i = nextId /\ nextId' = nextId + 1
    BY <1>0, Origin, CopyOrigin
  <2>3. CASE i \in DOMAIN pending \cup DOMAIN snap \cup DOMAIN disk
    <3>1. i # nextId /\ fate[i] \in {"queued"} \cup Ended
      BY <1>0, <2>3 DEF FatesKnown
    <3>2. QED
      BY <2>1, <3>1, FateSteps DEF Passes, Called, Ends, Dies
  <2>4. CASE i \in DOMAIN pending' /\ i = nextId /\ nextId' = nextId + 1
    <3>1. i \notin DOMAIN pending /\ nextId' # nextId
      BY <1>0, <2>4
    <3>2. Called(i)
      BY <2>1, <2>4, <3>1, FateSteps DEF Passes, Ends, Dies
    <3>3. QED
      BY <2>4, <3>2 DEF Called
  <2>5. QED
    BY <2>2, <2>3, <2>4
<1>3. QED
  BY <1>1, <1>2 DEF FatesKnown

\* A message that has ended stays so, even if it is sent again.
LEMMA EndedStays ==
  ASSUME OrderInv, Gone, [Next]_vars, NEW i \in Ids, i < nextId,
         fate[i] \in Ended
  PROVE  fate'[i] \in Ended
<1>1. i # nextId
  BY Counters
<1>2. QED
  BY <1>1, FateSteps DEF Passes, Called, Ends, Dies

\* Where the flush loop is when it has a snapshot to write.
LEMMA SavingStep ==
  ASSUME OrderInv, [Next]_vars, writer' \in Saving
  PROVE  \/ /\ writer \in Saving
            /\ DOMAIN snap' = DOMAIN snap /\ DOMAIN disk' = DOMAIN disk
         \/ /\ phase # "down"
            /\ DOMAIN snap' = DOMAIN pending /\ disk' = disk
<1>0. IsQueue(pending) /\ IsQueue(snap) /\ IsQueue(disk)
  BY DEF OrderInv, Owned, TypeOK
<1>1. ASSUME NEW in \in Inputs, Enqueue(in)
      PROVE  UNCHANGED <<writer, snap, disk>>
  BY <1>1 DEF Enqueue, flusher
<1>2. ASSUME NEW w \in Workers, Work(w)
      PROVE  UNCHANGED <<writer, snap, disk>>
  BY <1>2 DEF Work, PickDue, AttemptStart, SendReturns, Finish, Delivered,
     Deferred, StampRefused, Reroute, GiveUp, Retry, Leave, Keep, Release, flusher
<1>3. CASE Flush \/ FinalFlush
  <2>1. DOMAIN Stored(pending) = DOMAIN pending
    BY <1>0, StoredQueue
  <2>2. QED
    BY <1>0, <1>3, <2>1 DEF Flush, FinalFlush, TakeSnapshot, Saving, Up
<1>4. ~(TakeKick \/ Save \/ SaveFailed \/ Crash \/ Exit \/ Restart)
  BY DEF TakeKick, Save, SaveFailed, AfterSave, Crash, Exit, Vanish, Restart, Saving
<1>5. CASE Tick
  BY <1>0, <1>5, AgedQueue DEF Tick
<1>6. CASE EnqueueRefused \/ Stop \/ NodeChange \/ UNCHANGED vars
  BY <1>6 DEF EnqueueRefused, Stop, NodeChange, vars, flusher
<1>7. QED
  BY <1>1, <1>2, <1>3, <1>4, <1>5, <1>6 DEF Next, Persistence

\* The file changes its messages only when a snapshot takes its place.
LEMMA FileSource ==
  ASSUME OrderInv, [Next]_vars
  PROVE  \/ DOMAIN disk' = DOMAIN disk
         \/ writer \in Saving /\ DOMAIN disk' = DOMAIN snap
<1>1. CASE disk' = disk
  BY <1>1
<1>2. ASSUME NEW in \in Inputs, Enqueue(in)
      PROVE  disk' = disk
  BY <1>2 DEF Enqueue, flusher
<1>3. ASSUME NEW w \in Workers, Work(w)
      PROVE  disk' = disk
  BY <1>3 DEF Work, PickDue, AttemptStart, SendReturns, Finish, Delivered,
     Deferred, StampRefused, Reroute, GiveUp, Retry, Leave, Keep, Release, flusher
<1>4. CASE \/ EnqueueRefused \/ TakeKick \/ Flush \/ FinalFlush \/ SaveFailed
           \/ Crash \/ Exit \/ Stop \/ Restart \/ NodeChange \/ UNCHANGED vars
  BY <1>1, <1>4 DEF EnqueueRefused, TakeKick, Flush, FinalFlush, TakeSnapshot,
     SaveFailed, Crash, Exit, Vanish, Stop, Restart, NodeChange, vars, flusher
<1>5. CASE Save
  BY <1>5 DEF Save
<1>6. CASE Tick
  BY <1>6, AgedQueue DEF Tick, OrderInv, Owned, TypeOK
<1>7. QED
  BY <1>1, <1>2, <1>3, <1>4, <1>5, <1>6 DEF Next, Persistence

\* Every step keeps the copies accounted for.
LEMMA AccountedStep ==
  ASSUME OrderInv, Gone, Accounted, [Next]_vars
  PROVE  Accounted'
<1>0. /\ Owned
      /\ \A j \in DOMAIN pending \cup DOMAIN snap \cup DOMAIN disk :
            j \in Ids /\ j < nextId /\ j # nextId
  BY Counters DEF OrderInv, Fresh
<1>1. ASSUME NEW i \in DOMAIN pending, i \notin DOMAIN pending', phase' # "down"
      PROVE  fate'[i] \in Ended
  BY <1>0, <1>1, FateSteps DEF Passes, Called, Ends, Dies
<1>2. ASSUME phase' # "down",
             NEW i \in (DOMAIN snap' \cup DOMAIN disk') \ DOMAIN pending'
      PROVE  fate'[i] \in Ended
  <2>1. CASE phase = "down"
    <3>1. Restart
      BY <1>2, <2>1, Revived
    <3>2. DOMAIN pending' = DOMAIN disk /\ disk' = disk /\ snap' = snap
      BY <3>1, LoadedQueue DEF Restart, OrderInv, Owned, TypeOK
    <3>3. QED
      BY <1>2, <2>1, <3>2 DEF Gone
  <2>2. CASE phase # "down"
    <3>1. i \in DOMAIN snap \cup DOMAIN disk \cup DOMAIN pending
      BY <1>0, <1>2, CopyOrigin
    <3>2. CASE i \in DOMAIN pending
      BY <1>1, <1>2, <3>2
    <3>3. CASE i \notin DOMAIN pending
      <4>1. fate[i] \in Ended /\ i \in Ids /\ i < nextId
        BY <1>0, <2>2, <3>1, <3>3 DEF Accounted
      <4>2. QED
        BY <4>1, EndedStays
    <3>4. QED
      BY <3>2, <3>3
  <2>3. QED
    BY <2>1, <2>2
<1>3. ASSUME writer' \in Saving, NEW i \in DOMAIN disk' \ DOMAIN snap'
      PROVE  fate'[i] \in Ended
  <2>1. CASE /\ writer \in Saving
             /\ DOMAIN snap' = DOMAIN snap /\ DOMAIN disk' = DOMAIN disk
    <3>1. fate[i] \in Ended /\ i \in Ids /\ i < nextId
      BY <1>0, <1>3, <2>1 DEF Accounted
    <3>2. QED
      BY <3>1, EndedStays
  <2>2. CASE phase # "down" /\ DOMAIN snap' = DOMAIN pending /\ disk' = disk
    <3>1. fate[i] \in Ended /\ i \in Ids /\ i < nextId
      BY <1>0, <1>3, <2>2 DEF Accounted
    <3>2. QED
      BY <3>1, EndedStays
  <2>3. QED
    BY <1>3, <2>1, <2>2, SavingStep
<1>4. QED
  BY <1>2, <1>3 DEF Accounted

\* A worker has a success to record only if its send has just returned one, or
\* it had it before.
LEMMA OkSteps ==
  ASSUME OrderInv, [Next]_vars, NEW w \in Workers, wpc'[w] = "ok"
  PROVE  /\ wmsg'[w] = wmsg[w] /\ phase # "down"
         /\ \/ wpc[w] = "ok" /\ views \subseteq views'
            \/ /\ wpc[w] \in Sending /\ pending' = pending
               /\ views' = RegisterView(wmsg[w])
<1>0. /\ Owned /\ wpc \in [Workers -> {"idle", "exited"} \cup Busy]
      /\ wmsg \in [Workers -> Ids \cup {0}]
  BY DEF OrderInv, Owned, TypeOK
<1>1. CASE wpc[w] = "ok" /\ UNCHANGED <<wmsg, views>>
  <2>1. wmsg[w] \in inFlight
    BY <1>0, <1>1 DEF Owned, SingleOwner, Busy, Outcomes
  <2>2. QED
    BY <1>1, <2>1 DEF OrderInv, Halted
<1>2. ASSUME NEW in \in Inputs, Enqueue(in)
      PROVE  wpc[w] = "ok" /\ UNCHANGED <<wmsg, views>>
  BY <1>2 DEF Enqueue, workers
<1>3. ASSUME NEW v \in Workers, PickDue(v) \/ AttemptStart(v)
      PROVE  wpc[w] = "ok" /\ wmsg'[w] = wmsg[w] /\ views' = views
             /\ phase # "down"
  <2>1. views' = views /\ phase # "down"
    BY <1>3 DEF PickDue, AttemptStart, history, Up
  <2>2. CASE PickDue(v)
    BY <1>0, <2>1, <2>2 DEF PickDue, Unemployed
  <2>3. CASE AttemptStart(v)
    <3>1. /\ wmsg' = wmsg
          /\ \E s \in Sending \cup {"defer"} : wpc' = [wpc EXCEPT ![v] = s]
      BY <2>3 DEF AttemptStart, SendLXMF, SendLXMFPropagated, Sending
    <3>2. QED
      BY <1>0, <2>1, <3>1 DEF Sending
  <2>4. QED
    BY <1>3, <2>2, <2>3
<1>4. ASSUME NEW v \in Workers, SendReturns(v)
      PROVE  /\ wmsg'[w] = wmsg[w] /\ phase # "down"
             /\ \/ wpc[w] = "ok" /\ views \subseteq views'
                \/ /\ wpc[w] \in Sending /\ pending' = pending
                   /\ views' = RegisterView(wmsg[w])
  <2>1. /\ wmsg' = wmsg /\ phase # "down" /\ pending' = pending
        /\ wpc[v] \in Sending
    BY <1>4 DEF SendReturns, Up
  <2>2. PICK r \in Results :
           /\ wpc' = [wpc EXCEPT ![v] = r]
           /\ views' = IF r = "ok" THEN RegisterView(wmsg[v]) ELSE views
    BY <1>4 DEF SendReturns
  <2>3. CASE v = w
    BY <1>0, <2>1, <2>2, <2>3
  <2>4. CASE v # w
    BY <1>0, <2>1, <2>2, <2>4 DEF RegisterView
  <2>5. QED
    BY <2>3, <2>4
<1>5. ASSUME NEW v \in Workers, Finish(v)
      PROVE  /\ wpc[w] = "ok" /\ wmsg'[w] = wmsg[w] /\ views' = views
             /\ phase # "down"
  <2>1. Release(v) /\ phase # "down"
    BY <1>5 DEF Finish, Delivered, Deferred, StampRefused, Reroute, GiveUp,
       Retry, Leave, Keep, Up
  <2>2. QED
    BY <1>0, <2>1 DEF Release, Unemployed
<1>6. ~(Crash \/ Exit \/ Restart)
  BY DEF Crash, Exit, Vanish, Restart
<1>7. CASE Stop
  BY <1>1, <1>7 DEF Stop, history
<1>8. CASE EnqueueRefused \/ Persistence \/ NodeChange \/ Tick \/ UNCHANGED vars
  BY <1>1, <1>8 DEF EnqueueRefused, Persistence, TakeKick, Flush, FinalFlush,
     TakeSnapshot, Save, SaveFailed, NodeChange, Tick, vars, workers, history
<1>9. ASSUME NEW v \in Workers, Work(v)
      PROVE  /\ wmsg'[w] = wmsg[w] /\ phase # "down"
             /\ \/ wpc[w] = "ok" /\ views \subseteq views'
                \/ /\ wpc[w] \in Sending /\ pending' = pending
                   /\ views' = RegisterView(wmsg[w])
  BY <1>3, <1>4, <1>5, <1>9 DEF Work
<1>10. QED
  BY <1>1, <1>2, <1>6, <1>7, <1>8, <1>9 DEF Next

\* Every step keeps bubbles out of the copies and views in the cache.
LEMMA BubblesStep ==
  ASSUME OrderInv, OrderInv', Gone, FatesKnown, Bubbles, [Next]_vars
  PROVE  Bubbles'
<1>0. /\ Owned /\ Owned'
      /\ \A j \in DOMAIN pending : j \in Ids /\ j < nextId /\ j # nextId
      /\ \A j \in DOMAIN pending : pending[j] \in Message
      /\ DOMAIN pending' \subseteq Ids
  BY Counters DEF OrderInv, Fresh, Owned, TypeOK, IsQueue
<1>1. \A i \in DOMAIN snap' : snap'[i].bubble = FALSE
  BY <1>0, CopySteps DEF Bubbles, SameEntry, Message
<1>2. \A i \in DOMAIN disk' : disk'[i].bubble = FALSE
  BY CopySteps DEF Bubbles, SameEntry
<1>3. ASSUME NEW i \in DOMAIN pending', pending'[i].bubble
      PROVE  fate'[i] = "queued"
  <2>0. i \in Ids
    BY <1>0
  <2>1. CASE i \in DOMAIN pending /\ SameEntry(pending'[i], pending[i])
    <3>1. fate[i] = "queued" /\ i # nextId
      BY <1>0, <1>3, <2>1 DEF Bubbles, SameEntry
    <3>2. QED
      BY <1>3, <2>0, <3>1, FateSteps DEF Passes, Called, Ends, Dies
  <2>2. CASE i = nextId /\ nextId' = nextId + 1
    <3>1. nextId' # nextId /\ i \notin DOMAIN pending
      BY <1>0, <2>2, Counters
    <3>2. Called(i)
      BY <2>0, <2>2, <3>1, FateSteps DEF Passes, Ends, Dies
    <3>3. QED
      BY <3>2 DEF Called
  <2>3. CASE i \in DOMAIN disk /\ SameEntry(pending'[i], disk[i])
    BY <1>3, <2>3 DEF Bubbles, SameEntry
  <2>4. QED
    BY <1>0, <2>1, <2>2, <2>3, Origin
<1>4. ASSUME NEW w \in Workers, wpc'[w] = "ok", pending'[wmsg'[w]].bubble
      PROVE  wmsg'[w] \in views'
  <2>1. CASE /\ wpc[w] \in Sending /\ pending' = pending
             /\ views' = RegisterView(wmsg[w])
    BY <1>4, <2>1, OkSteps DEF RegisterView
  <2>2. CASE wpc[w] = "ok" /\ views \subseteq views'
    <3>1. wmsg[w] \in DOMAIN pending /\ wmsg'[w] \in DOMAIN pending'
      BY <1>0, <1>4, <2>2 DEF Owned, SingleOwner, Busy, Outcomes
    <3>2. wmsg'[w] = wmsg[w] /\ phase # "down" /\ wmsg[w] # nextId
      BY <1>0, <1>4, <3>1, OkSteps
    <3>3. SameEntry(pending'[wmsg[w]], pending[wmsg[w]])
      BY <1>0, <3>1, <3>2, Origin
    <3>4. QED
      BY <1>4, <2>2, <3>2, <3>3 DEF Bubbles, SameEntry
  <2>3. QED
    BY <1>4, <2>1, <2>2, OkSteps
<1>5. QED
  BY <1>1, <1>2, <1>3, <1>4 DEF Bubbles

-----------------------------------------------------------------------------
(* A queue that is not dirty. *)

\* The copy a clean queue agrees with.
Copy == IF writer \in Saving THEN snap ELSE disk

\* Every step that changes the queue leaves it dirty, or its copy in step.
LEMMA CleanStep ==
  ASSUME OrderInv, Gone, NoStrandedMail, Bubbles, CleanMeansSaved, [Next]_vars
  PROVE  CleanMeansSaved'
<1> SUFFICES ASSUME HasStore, Up', dirty' = FALSE
             PROVE  Synced(Copy', pending', inFlight', mode')
  <2>1. dirty' \in BOOLEAN
    BY OwnedStep DEF OrderInv, Owned, TypeOK
  <2>2. QED
    BY <2>1 DEF CleanMeansSaved, InSync, Synced, Copy
<1>0. /\ Owned /\ IsQueue(pending) /\ IsQueue(snap) /\ IsQueue(disk)
      /\ dirty \in BOOLEAN
  BY DEF OrderInv, Owned, TypeOK
<1>1. Up /\ dirty = FALSE => Synced(Copy, pending, inFlight, mode)
  BY DEF CleanMeansSaved, InSync, Synced, Copy
<1>2. CASE UNCHANGED <<pending, inFlight, mode, Copy, dirty>> /\ Up
  BY <1>1, <1>2
<1>3. ASSUME NEW in \in Inputs, Enqueue(in)
      PROVE  FALSE
  BY <1>3 DEF Enqueue, Persist
<1>4. ASSUME NEW w \in Workers, Finish(w)
      PROVE  FALSE
  BY <1>4 DEF Finish, Delivered, Deferred, StampRefused, Reroute, GiveUp, Retry,
     Leave, Keep, Persist
<1>5. ASSUME NEW w \in Workers, PickDue(w)
      PROVE  Synced(Copy', pending', inFlight', mode')
  <2>1. Expired = {} /\ dirty = FALSE /\ Up
    BY <1>5 DEF PickDue, Persist
  <2>2. /\ DOMAIN pending' = DOMAIN pending
        /\ \A i \in DOMAIN pending : pending'[i] = pending[i]
    BY <1>0, <1>5, <2>1, LiveQueue DEF PickDue
  <2>3. Copy' = Copy /\ mode' = mode /\ inFlight \subseteq inFlight'
    BY <1>5 DEF PickDue, Copy, env, flusher
  <2>4. QED
    BY <1>1, <2>1, <2>2, <2>3, SyncedKept
<1>6. ASSUME NEW w \in Workers, AttemptStart(w)
      PROVE  Synced(Copy', pending', inFlight', mode')
  <2>1. /\ dirty = FALSE /\ Up /\ Copy' = Copy /\ mode' = mode
        /\ inFlight' = inFlight
    BY <1>6 DEF AttemptStart, Copy, env, flusher
  <2>2. wmsg[w] \in inFlight
    BY <1>0, <1>6 DEF Owned, SingleOwner, AttemptStart, Busy
  <2>3. /\ DOMAIN pending' = DOMAIN pending
        /\ \A i \in DOMAIN pending \ inFlight : pending'[i] = pending[i]
    BY <1>0, <1>6, <2>2 DEF AttemptStart, IsQueue
  <2>4. QED
    BY <1>1, <2>1, <2>3, SyncedKept
<1>7. ASSUME NEW w \in Workers, SendReturns(w)
      PROVE  UNCHANGED <<pending, inFlight, mode, Copy, dirty>> /\ Up
  BY <1>7 DEF SendReturns, Copy, env, flusher
<1>8. CASE Flush \/ FinalFlush
  <2>1. UNCHANGED <<pending, inFlight, mode, disk>> /\ Up /\ writer \notin Saving
    BY <1>8 DEF Flush, FinalFlush, TakeSnapshot, env, workers, Up, Saving
  <2>2. CASE dirty
    <3>1. writer' \in Saving /\ snap' = Stored(pending)
      BY <1>8, <2>2 DEF Flush, FinalFlush, TakeSnapshot, Saving
    <3>2. Synced(Stored(pending), pending, inFlight, mode)
      BY <1>0, SyncedSnapshot DEF NoStrandedMail
    <3>3. QED
      BY <2>1, <3>1, <3>2 DEF Copy
  <2>3. CASE ~dirty
    <3>1. writer' \notin Saving
      BY <1>8, <2>3 DEF Flush, FinalFlush, TakeSnapshot, Saving
    <3>2. Copy' = Copy /\ dirty = FALSE
      BY <1>0, <2>1, <2>3, <3>1 DEF Copy
    <3>3. QED
      BY <1>1, <2>1, <3>2
  <2>4. QED
    BY <2>2, <2>3
<1>9. CASE Save
  <2>1. /\ UNCHANGED <<pending, inFlight, mode, dirty>> /\ Up
        /\ writer \in Saving /\ writer' \notin Saving /\ disk' = snap
    BY <1>9 DEF Save, AfterSave, Saving, env, workers
  <2>2. Copy' = Copy
    BY <2>1 DEF Copy
  <2>3. QED
    BY <1>1, <2>1, <2>2
<1>10. ~SaveFailed
  BY DEF SaveFailed, DirtyAgain
<1>11. ~(Crash \/ Exit)
  BY DEF Crash, Exit, Vanish, Up
<1>12. CASE Restart
  <2>1. /\ pending' = Loaded(disk, mode') /\ disk' = disk
        /\ writer' = "select" /\ inFlight' = inFlight
    BY <1>12 DEF Restart
  <2>2. Copy' = disk
    BY <2>1 DEF Copy, Saving
  <2>3. QED
    BY <1>0, <2>1, <2>2, SyncedReload DEF Bubbles
<1>13. CASE Tick
  <2>1. UNCHANGED <<mode, inFlight, dirty, writer, phase>>
    BY <1>13 DEF Tick, env, workers
  <2>2. Copy' = Aged(Copy) /\ pending' = Aged(pending) /\ IsQueue(Copy)
    BY <1>0, <1>13, <2>1 DEF Tick, Copy
  <2>3. Up /\ dirty = FALSE
    BY <2>1 DEF Up
  <2>4. QED
    BY <1>0, <1>1, <2>1, <2>2, <2>3, SyncedAged
<1>14. CASE EnqueueRefused \/ TakeKick \/ Stop \/ NodeChange \/ UNCHANGED vars
  <2>1. UNCHANGED <<pending, inFlight, mode, dirty>> /\ Up
    BY <1>14 DEF EnqueueRefused, TakeKick, Stop, NodeChange, vars, env, workers, Up
  <2>2. Copy' = Copy
    BY <1>14 DEF EnqueueRefused, TakeKick, Stop, NodeChange, vars, flusher, Copy,
       Saving
  <2>3. QED
    BY <1>2, <2>1, <2>2
<1>15. QED
  BY <1>2, <1>3, <1>4, <1>5, <1>6, <1>7, <1>8, <1>9, <1>10, <1>11, <1>12, <1>13,
     <1>14 DEF Next, Work, Persistence

-----------------------------------------------------------------------------
(* The theorems. *)

DurableInv ==
    Gone /\ FatesKnown /\ Accounted /\ Bubbles /\ CleanMeansSaved

\* The file and the copies on their way to it, with what makes the properties
\* below inductive: which fates are known, which copies are accounted for, and
\* where a bubble can be.
THEOREM DurableInvariant == Spec => [](LimitsInv /\ DurableInv)
<1>1. Init => DurableInv
  <2> SUFFICES ASSUME Init PROVE DurableInv
    OBVIOUS
  <2>1. /\ pending = Empty /\ snap = Empty /\ disk = Empty /\ DOMAIN Empty = {}
        /\ phase = "running" /\ writer = "select" /\ inFlight = {}
        /\ nextId = 1 /\ fate = [i \in Ids |-> "none"]
        /\ wpc = [w \in Workers |-> "idle"]
    BY DEF Init, Empty
  <2>2. Gone
    BY <2>1 DEF Gone
  <2>3. FatesKnown
    BY <2>1, LimitsAssumption DEF FatesKnown, Ids, LimitsAssumption
  <2>4. Accounted /\ Bubbles
    BY <2>1 DEF Accounted, Bubbles, Saving
  <2>5. CleanMeansSaved
    BY <2>1 DEF CleanMeansSaved, InSync, Saving
  <2>6. QED
    BY <2>2, <2>3, <2>4, <2>5 DEF DurableInv
<1>2. ASSUME LimitsInv, LimitsInv', DurableInv, [Next]_vars
      PROVE  DurableInv'
  <2>1. OrderInv /\ OrderInv' /\ NoStrandedMail
    BY <1>2 DEF LimitsInv
  <2>2. Gone'
    BY <1>2, <2>1, GoneStep DEF DurableInv
  <2>3. FatesKnown'
    BY <1>2, <2>1, FatesStep DEF DurableInv
  <2>4. Accounted'
    BY <1>2, <2>1, AccountedStep DEF DurableInv
  <2>5. Bubbles'
    BY <1>2, <2>1, BubblesStep DEF DurableInv
  <2>6. CleanMeansSaved'
    BY <1>2, <2>1, CleanStep DEF DurableInv
  <2>7. QED
    BY <2>2, <2>3, <2>4, <2>5, <2>6 DEF DurableInv
<1>3. QED
  BY <1>1, <1>2, LimitsInvariant, PTL DEF Spec

\* A queue that is not dirty is in the file, or in the snapshot being written
\* (outbound.go:708-772), failed writes and reloads included.
THEOREM CleanIsSaved == Spec => []CleanMeansSaved
<1>1. DurableInv => CleanMeansSaved
  BY DEF DurableInv
<1>2. QED
  BY <1>1, DurableInvariant, PTL

\* outbound.json forgets a message only when the message has ended
\* (outbound.go:742-772).
THEOREM FileForgetsOnlyEnded == Spec => DiskForgetsOnlyEnded
<1>1. ASSUME LimitsInv, DurableInv, [Next]_vars
      PROVE  [\A i \in DOMAIN disk \ DOMAIN disk' : fate[i] \in Ended]_vars
  <2>1. \/ DOMAIN disk' = DOMAIN disk
        \/ writer \in Saving /\ DOMAIN disk' = DOMAIN snap
    BY <1>1, FileSource DEF LimitsInv
  <2>2. QED
    BY <1>1, <2>1 DEF DurableInv, Accounted
<1>2. QED
  BY <1>1, DurableInvariant, PTL DEF Spec, DiskForgetsOnlyEnded

\* A bubble that leaves the queue as delivered has its view in the cache by
\* then (outbound.go:564-574).
THEOREM ViewIsRegistered == Spec => ViewBeforeLeaving
<1>1. ASSUME LimitsInv, DurableInv, [Next]_vars
      PROVE  [\A i \in DOMAIN pending \ DOMAIN pending' :
                 fate'[i] = "delivered" /\ pending[i].bubble => i \in views']_vars
  <2> SUFFICES ASSUME NEW i \in DOMAIN pending \ DOMAIN pending',
                      fate'[i] = "delivered", pending[i].bubble
               PROVE  i \in views'
    OBVIOUS
  <2>1. OrderInv /\ Gone /\ Bubbles
    BY <1>1 DEF LimitsInv, DurableInv
  <2>2. i \in Ids /\ i < nextId /\ i # nextId
    BY <2>1, Counters DEF OrderInv, Fresh
  <2>3. fate[i] = "queued"
    BY <2>1 DEF Bubbles
  <2>4. Ends(i)
    BY <1>1, <2>1, <2>2, <2>3, FateSteps DEF Passes, Called, Dies
  <2>5. PICK w \in Workers : wpc[w] = "ok" /\ wmsg[w] = i
    BY <2>4 DEF Ends
  <2>6. views' = views
    BY <2>4 DEF Ends
  <2>7. QED
    BY <2>1, <2>5, <2>6 DEF Bubbles
<1>2. QED
  BY <1>1, DurableInvariant, PTL DEF Spec, ViewBeforeLeaving

-----------------------------------------------------------------------------
(* The refinement.  Two more facts are needed: all copies of a message are    *)
(* the same order, and a message that is sent again after it had ended is in  *)
(* the file, and in the snapshot that is to become the file.                  *)

Order(m) == [rcpt |-> m.rcpt, after |-> m.after]

Agreed ==
    /\ \A i \in DOMAIN pending \cap DOMAIN snap :
          Order(pending[i]) = Order(snap[i])
    /\ \A i \in DOMAIN pending \cap DOMAIN disk :
          Order(pending[i]) = Order(disk[i])
    /\ \A i \in DOMAIN snap \cap DOMAIN disk : Order(snap[i]) = Order(disk[i])

Reloaded ==
    \A i \in DOMAIN pending : fate[i] \in Ended =>
        /\ i \in DOMAIN disk
        /\ writer \in Saving => i \in DOMAIN snap

QueueInv == LimitsInv /\ DurableInv /\ Agreed /\ Reloaded

\* The message of which copies are left, and what it asks for.
Known == DOMAIN pending \cup DOMAIN snap \cup DOMAIN disk

\* Whichever copy CopyOf takes, it is the order of message i.
LEMMA CopyIsOrder ==
  ASSUME Gone, Agreed, NEW i
  PROVE  /\ i \in DOMAIN pending => CopyOf(i) = Order(pending[i])
         /\ i \in DOMAIN snap => CopyOf(i) = Order(snap[i])
         /\ i \in DOMAIN disk => CopyOf(i) = Order(disk[i])
<1>1. CASE phase = "down"
  BY <1>1 DEF Gone, CopyOf, Queue, Order
<1>2. CASE phase # "down"
  <2>1. Queue = pending
    BY <1>2 DEF Queue
  <2>2. CopyOf(i) = Order(IF i \in DOMAIN pending THEN pending[i]
                          ELSE IF i \in DOMAIN snap THEN snap[i] ELSE disk[i])
    BY <2>1 DEF CopyOf, Order
  <2>3. QED
    BY <2>2 DEF Agreed
<1>3. QED
  BY <1>1, <1>2

\* The copies are the known messages.
LEMMA KnownCopies ==
  ASSUME Gone
  PROVE  DOMAIN CopiesBar = Known /\ DOMAIN Queue \subseteq Known
  BY DEF Gone, CopiesBar, Queue, Known

\* Every copy of a message after a step was made from one before it.
LEMMA OrderKept ==
  ASSUME QueueInv, OrderInv', [Next]_vars, NEW i \in Known'
  PROVE  \/ /\ i = nextId /\ nextId' = nextId + 1
            /\ i \in DOMAIN pending'
            /\ i \notin DOMAIN snap' /\ i \notin DOMAIN disk' /\ i \notin Known
         \/ /\ i \in Known
            /\ i \in DOMAIN pending' => Order(pending'[i]) = CopyOf(i)
            /\ i \in DOMAIN snap' => Order(snap'[i]) = CopyOf(i)
            /\ i \in DOMAIN disk' => Order(disk'[i]) = CopyOf(i)
<1>0. /\ OrderInv /\ Owned /\ Gone /\ Agreed
      /\ \A j \in Known : j # nextId
      /\ \A j \in DOMAIN pending : pending[j] \in Message
  BY Counters DEF QueueInv, LimitsInv, DurableInv, OrderInv, Fresh, Known, Owned,
     TypeOK, IsQueue
<1>1. ASSUME NEW m, NEW n, SameEntry(m, n)
      PROVE  Order(m) = Order(n)
  BY <1>1 DEF SameEntry, Order
<1>2. \/ i \notin DOMAIN pending'
      \/ i \in Known /\ Order(pending'[i]) = CopyOf(i)
      \/ i = nextId /\ nextId' = nextId + 1
  BY <1>0, <1>1, Origin, CopyIsOrder DEF Known
<1>3. \/ i \notin DOMAIN snap'
      \/ i \in Known /\ Order(snap'[i]) = CopyOf(i)
  <2>1. CASE i \in DOMAIN snap /\ SameEntry(snap'[i], snap[i])
    BY <1>0, <1>1, <2>1, CopyIsOrder DEF Known
  <2>2. CASE /\ i \in DOMAIN pending
             /\ SameEntry(snap'[i], [pending[i] EXCEPT !.bubble = FALSE])
    <3>1. Order([pending[i] EXCEPT !.bubble = FALSE]) = Order(pending[i])
      BY <1>0, <2>2 DEF Order, Message
    <3>2. QED
      BY <1>0, <1>1, <2>2, <3>1, CopyIsOrder DEF Known
  <2>3. QED
    BY <1>0, <2>1, <2>2, CopySteps
<1>4. \/ i \notin DOMAIN disk'
      \/ i \in Known /\ Order(disk'[i]) = CopyOf(i)
  <2>1. CASE i \in DOMAIN disk /\ SameEntry(disk'[i], disk[i])
    BY <1>0, <1>1, <2>1, CopyIsOrder DEF Known
  <2>2. CASE i \in DOMAIN snap /\ disk'[i] = snap[i]
    BY <1>0, <2>2, CopyIsOrder DEF Known
  <2>3. QED
    BY <1>0, <2>1, <2>2, CopySteps
<1>5. QED
  BY <1>0, <1>2, <1>3, <1>4 DEF Known

\* All copies of a message stay the same order.
LEMMA AgreedStep ==
  ASSUME QueueInv, OrderInv', [Next]_vars
  PROVE  Agreed'
<1>1. ASSUME NEW i \in DOMAIN pending' \cap DOMAIN snap'
      PROVE  Order(pending'[i]) = Order(snap'[i])
  BY OrderKept DEF Known
<1>2. ASSUME NEW i \in DOMAIN pending' \cap DOMAIN disk'
      PROVE  Order(pending'[i]) = Order(disk'[i])
  BY OrderKept DEF Known
<1>3. ASSUME NEW i \in DOMAIN snap' \cap DOMAIN disk'
      PROVE  Order(snap'[i]) = Order(disk'[i])
  BY OrderKept DEF Known
<1>4. QED
  BY <1>1, <1>2, <1>3 DEF Agreed, Order

\* A message that is sent again stays in the file until it ends again.
LEMMA ReloadedStep ==
  ASSUME QueueInv, [Next]_vars
  PROVE  Reloaded'
<1> SUFFICES ASSUME NEW i \in DOMAIN pending', fate'[i] \in Ended
             PROVE  /\ i \in DOMAIN disk'
                    /\ writer' \in Saving => i \in DOMAIN snap'
  BY DEF Reloaded
<1>0. /\ OrderInv /\ Owned /\ Gone /\ Reloaded
      /\ IsQueue(pending) /\ IsQueue(snap) /\ IsQueue(disk)
      /\ \A j \in DOMAIN pending : j # nextId
  BY Counters DEF QueueInv, LimitsInv, DurableInv, OrderInv, Fresh, Owned, TypeOK
<1>1. CASE Restart
  <2>1. disk' = disk /\ DOMAIN pending' = DOMAIN disk /\ writer' = "select"
    BY <1>0, <1>1, LoadedQueue DEF Restart
  <2>2. QED
    BY <2>1 DEF Saving
<1>2. CASE ~Restart
  <2>1. i \in Ids
    BY <1>0, Origin, LimitsAssumption, OwnedStep DEF OrderInv, Owned, TypeOK, IsQueue
  <2>2. i \in DOMAIN pending /\ fate[i] \in Ended
    <3>1. CASE i \in DOMAIN pending
      BY <1>0, <2>1, <3>1, FateSteps DEF Passes, Called, Ends, Dies
    <3>2. CASE i = nextId /\ nextId' = nextId + 1
      <4>1. nextId' # nextId /\ i \notin DOMAIN pending
        BY <1>0, <3>2, Counters
      <4>2. Called(i)
        BY <1>0, <2>1, <3>2, <4>1, FateSteps DEF Passes, Ends, Dies
      <4>3. QED
        BY <4>2 DEF Called, Ended
    <3>3. CASE phase = "down"
      <4>1. phase' = "down"
        BY <1>2, <3>3, Revived
      <4>2. Gone'
        BY <1>0, GoneStep
      <4>3. QED
        BY <4>1, <4>2 DEF Gone
    <3>4. QED
      BY <1>0, <3>1, <3>2, <3>3, Origin
  <2>3. i \in DOMAIN disk /\ (writer \in Saving => i \in DOMAIN snap)
    BY <1>0, <2>2 DEF Reloaded
  <2>4. CASE writer' \in Saving
    BY <1>0, <2>2, <2>3, <2>4, SavingStep
  <2>5. CASE writer' \notin Saving
    <3>1. DOMAIN disk' = DOMAIN disk \/ (writer \in Saving /\ DOMAIN disk' = DOMAIN snap)
      BY <1>0, FileSource
    <3>2. QED
      BY <2>3, <2>5, <3>1
  <2>6. QED
    BY <2>4, <2>5
<1>3. QED
  BY <1>1, <1>2

\* The messages Delivery has queued are those of the queue.
LEMMA BarQueued ==
  /\ Promise!Queued = Ids \cap DOMAIN Queue
  /\ Promise!Queued' = Ids \cap DOMAIN Queue'
  BY DEF Promise!Queued, Promise!Ids, Ids, StatusBar

\* Delivery counts as the queue does.
LEMMA BarCount ==
  ASSUME NEW S
  PROVE  Promise!Cardinality(S) = Cardinality(S)
  BY DEF Promise!Cardinality, Cardinality

\* Delivery and enqueue number the next call alike.
LEMMA BarNumber ==
  ASSUME QueueInv
  PROVE  Promise!Number = nextId
<1>1. /\ FatesKnown /\ nextId \in 1 .. MaxMessages + 1 /\ MaxMessages \in Nat
      /\ \A i \in DOMAIN Queue : i \in Ids /\ i < nextId
  BY LimitsAssumption DEF LimitsAssumption, QueueInv, LimitsInv, DurableInv,
     OrderInv, Owned, TypeOK, Fresh, IsQueue, Queue
<1>2. ASSUME NEW i \in Ids
      PROVE  (StatusBar[i] # "none") <=> (i < nextId)
  BY <1>1 DEF StatusBar, FatesKnown, Ids
<1>3. {i \in Ids : StatusBar[i] # "none"} = 1 .. nextId - 1
  BY <1>1, <1>2 DEF Ids
<1>4. Cardinality(1 .. nextId - 1) = nextId - 1
  BY <1>1, FS_Interval
<1>5. Promise!Number = Promise!Cardinality({i \in Ids : StatusBar[i] # "none"}) + 1
  BY DEF Promise!Number, Promise!Ids, Ids
<1>6. Promise!Cardinality(1 .. nextId - 1) = nextId - 1
  BY <1>4, BarCount
<1>7. nextId \in Int
  BY <1>1
<1>8. Promise!Number = (nextId - 1) + 1
  BY <1>3, <1>5, <1>6
<1>9. QED
  BY <1>7, <1>8

\* A step that makes no new message only drops copies.
LEMMA BarCopiesKept ==
  ASSUME QueueInv, QueueInv', [Next]_vars, DOMAIN pending' \subseteq Known
  PROVE  Promise!CopiesKept
<1>1. Gone /\ Gone' /\ Agreed /\ OrderInv' /\ OrderInv /\ Owned
  BY DEF QueueInv, DurableInv, LimitsInv, OrderInv
<1>2. Known' \subseteq Known
  BY <1>1, CopyOrigin DEF Known
<1>3. /\ DOMAIN CopiesBar = Known /\ DOMAIN CopiesBar' = Known'
      /\ DOMAIN Queue' \subseteq Known'
  BY <1>1 DEF CopiesBar, Queue, Known, Gone
<1>4. ASSUME NEW i \in Known'
      PROVE  CopiesBar'[i] = CopiesBar[i]
  <2>1. /\ i \in DOMAIN pending' => Order(pending'[i]) = CopyOf(i)
        /\ i \in DOMAIN snap' => Order(snap'[i]) = CopyOf(i)
        /\ i \in DOMAIN disk' => Order(disk'[i]) = CopyOf(i)
    BY <1>1, <1>2, OrderKept
  <2>2. CopyOf(i)' = Order(IF i \in DOMAIN Queue' THEN Queue'[i]
                           ELSE IF i \in DOMAIN snap' THEN snap'[i] ELSE disk'[i])
    BY DEF CopyOf, Order
  <2>3. CopyOf(i)' = CopyOf(i)
    BY <1>1, <2>1, <2>2 DEF Queue, Known, Gone
  <2>4. CopiesBar'[i] = CopyOf(i)' /\ CopiesBar[i] = CopyOf(i)
    BY <1>2, <1>3 DEF CopiesBar
  <2>5. QED
    BY <2>3, <2>4
<1>5. CopiesBar' = Promise!Restrict(CopiesBar, Known')
  BY <1>2, <1>3, <1>4 DEF Promise!Restrict, CopiesBar
<1>6. QED
  BY <1>2, <1>3, <1>5, BarQueued DEF Promise!CopiesKept

\* A step that ends nothing is a Forget of Delivery.
LEMMA BarForget ==
  ASSUME QueueInv, QueueInv', [Next]_vars, DOMAIN pending' \subseteq Known,
         fate' = fate, DOMAIN Queue' = DOMAIN Queue,
         (phase' # "down") = (phase # "down")
  PROVE  Promise!Next
<1>1. StatusBar' = StatusBar
  BY DEF StatusBar
<1>2. QED
  BY <1>1, BarCopiesKept DEF Promise!Next, Promise!Forget

\* A call that is accepted.
LEMMA BarAccept ==
  ASSUME QueueInv, QueueInv', NEW in \in Inputs, Enqueue(in)
  PROVE  Promise!Next
<1>1. /\ Gone /\ Gone' /\ Agreed /\ OrderInv /\ OrderInv' /\ Owned
      /\ phase # "down" /\ phase' # "down" /\ Queue = pending /\ Queue' = pending'
      /\ nextId \in Ids /\ Promise!Number = nextId
      /\ [Next]_vars /\ snap' = snap /\ disk' = disk
  <2>1. phase # "down" /\ phase' # "down" /\ snap' = snap /\ disk' = disk
    BY DEF Enqueue, Up, env, flusher
  <2>2. nextId \in Ids
    BY LimitsAssumption DEF LimitsAssumption, QueueInv, LimitsInv, OrderInv,
       Owned, TypeOK, Enqueue, Ids
  <2>3. QED
    BY <2>1, <2>2, BarNumber
    DEF QueueInv, DurableInv, LimitsInv, OrderInv, Queue, Next
<1>2. /\ pending' = [i \in DOMAIN pending \cup {nextId} |->
                        IF i = nextId THEN NewMessage(in) ELSE pending[i]]
      /\ fate' = [fate EXCEPT ![nextId] = "queued"]
      /\ fate \in [Ids -> {"none", "queued", "dropped"} \cup Ended]
  BY <1>1 DEF Enqueue, Owned, TypeOK
<1> DEFINE o == [rcpt |-> in.rcpt, after |-> in.after]
<1>3. Promise!Cardinality(Promise!Queued) < MaxPending
  <2>1. Promise!Queued = DOMAIN pending
    BY <1>1, BarQueued DEF Owned, TypeOK, IsQueue
  <2>2. IsFiniteSet(DOMAIN pending) /\ MaxPending \in Nat
    <3>1. MaxMessages \in Nat /\ MaxPending \in Nat
      BY LimitsAssumption DEF LimitsAssumption
    <3>2. IsFiniteSet(Ids)
      BY <3>1, FS_Interval DEF Ids
    <3>3. DOMAIN pending \subseteq Ids
      BY <1>1 DEF Owned, TypeOK, IsQueue
    <3>4. QED
      BY <3>1, <3>2, <3>3, FS_Subset
  <2>3. Cardinality(DOMAIN pending) \in Nat
    BY <2>2, FS_CardinalityType
  <2>4. QED
    BY <2>1, <2>2, <2>3, BarCount DEF Enqueue, QueueFull
<1>4. StatusBar' = [StatusBar EXCEPT ![nextId] = "queued"]
  BY <1>1, <1>2 DEF StatusBar
<1>5. /\ DOMAIN CopiesBar = Known
      /\ DOMAIN CopiesBar' = Known \cup {nextId}
      /\ nextId \notin Known
  <2>1. nextId \notin Known
    BY <1>1, Counters DEF OrderInv, Fresh, Known
  <2>2. QED
    BY <1>1, <1>2, <2>1 DEF CopiesBar, Known
<1>6. ASSUME NEW i \in Known
      PROVE  CopiesBar'[i] = CopiesBar[i]
  <2>1. i # nextId
    BY <1>5
  <2>2. CopyOf(i)' = CopyOf(i)
    BY <1>1, <1>2, <2>1 DEF CopyOf
  <2>3. QED
    BY <1>5, <2>2 DEF CopiesBar
<1>7. CopiesBar'[nextId] = o
  <2>1. ASSUME NEW i, i = nextId
        PROVE  CopiesBar'[i] = o
    <3>1. CopiesBar'[i] = CopyOf(i)'
      BY <1>5, <2>1 DEF CopiesBar
    <3>2. CopyOf(i)' = Order(pending'[i]) /\ pending'[i] = NewMessage(in)
      BY <1>1, <1>2, <2>1 DEF CopyOf, Order
    <3>3. QED
      BY <3>1, <3>2 DEF Order, NewMessage
  <2>2. QED
    BY <2>1
<1>8. CopiesBar' = [i \in DOMAIN CopiesBar \cup {nextId} |->
                       IF i = nextId THEN o ELSE CopiesBar[i]]
  BY <1>5, <1>6, <1>7 DEF CopiesBar
<1>9. QED
  BY <1>1, <1>3, <1>4, <1>8 DEF Promise!Next, Promise!Accept, Promise!Ids, Ids

\* A call that is refused.
LEMMA BarRefuse ==
  ASSUME QueueInv, QueueInv', EnqueueRefused
  PROVE  Promise!Next
<1>1. /\ phase # "down" /\ phase' # "down"
      /\ pending' = pending /\ snap' = snap /\ disk' = disk
      /\ fate' = [fate EXCEPT ![nextId] = "dropped"]
  BY DEF EnqueueRefused, Up, env, flusher
<1>2. /\ nextId \in Ids /\ Promise!Number = nextId /\ nextId \notin DOMAIN pending
      /\ fate \in [Ids -> {"none", "queued", "dropped"} \cup Ended]
      /\ OrderInv
  <2>1. OrderInv /\ nextId \in Ids
    BY LimitsAssumption DEF LimitsAssumption, QueueInv, LimitsInv, OrderInv,
       Owned, TypeOK, EnqueueRefused, Ids
  <2>2. QED
    BY <2>1, BarNumber, Counters DEF OrderInv, Owned, TypeOK, Fresh
<1>3. Queue = pending /\ Queue' = pending
  BY <1>1 DEF Queue
<1>4. Promise!Cardinality(Promise!Queued) >= MaxPending
  <2>1. Promise!Queued = DOMAIN pending
    BY <1>2, <1>3, BarQueued DEF OrderInv, Owned, TypeOK, IsQueue
  <2>2. QED
    BY <2>1, BarCount DEF EnqueueRefused, QueueFull
<1>5. StatusBar' = [StatusBar EXCEPT ![nextId] = "dropped"]
  BY <1>1, <1>2, <1>3 DEF StatusBar
<1>6. CopiesBar' = CopiesBar
  BY <1>1, <1>3 DEF CopiesBar, CopyOf
<1>7. QED
  BY <1>1, <1>2, <1>4, <1>5, <1>6 DEF Promise!Next, Promise!Refuse, Promise!Ids, Ids

\* The end of an attempt that ends its message is a Send of Delivery: the
\* message is in its turn, because HeldInOrder holds.
LEMMA BarSend ==
  ASSUME QueueInv, QueueInv', NEW w \in Workers, Up, [Next]_vars,
         wpc[w] \in Busy, NEW end \in {"delivered", "failed", "refused"},
         Leave(w, end)
  PROVE  Promise!Next
<1>1. /\ OrderInv /\ Owned /\ Gone /\ Agreed
      /\ phase # "down" /\ phase' # "down"
      /\ pending' = Without(pending, {wmsg[w]})
      /\ fate' = [fate EXCEPT ![wmsg[w]] = end]
  BY DEF QueueInv, LimitsInv, DurableInv, OrderInv, Up, Leave, Release, env
<1>2. /\ DOMAIN pending' = DOMAIN pending \ {wmsg[w]}
      /\ wmsg[w] \in inFlight /\ wmsg[w] \in DOMAIN pending
      /\ DOMAIN pending \subseteq Ids
  BY <1>1, WithoutQueue DEF Owned, TypeOK, SingleOwner, IsQueue
<1>3. fate \in [Ids -> {"none", "queued", "dropped"} \cup Ended]
  BY <1>1 DEF Owned, TypeOK
<1>4. Queue = pending /\ Queue' = pending'
  BY <1>1 DEF Queue
<1>5. PICK i \in Ids : i = wmsg[w]
  BY <1>2
<1>6. i \in Promise!Queued
  BY <1>2, <1>4, <1>5, BarQueued
<1>7. Promise!InTurn(i)
  <2>1. ASSUME NEW j \in DOMAIN pending
        PROVE  CopiesBar[j] = Order(pending[j])
    BY <1>1, CopyIsOrder, KnownCopies DEF CopiesBar, Known
  <2>2. ASSUME NEW j \in DOMAIN pending
        PROVE  /\ CopiesBar[j].after = pending[j].after
               /\ CopiesBar[j].rcpt = pending[j].rcpt
    <3>1. CopiesBar[j] = [rcpt |-> pending[j].rcpt, after |-> pending[j].after]
      BY <2>1 DEF Order
    <3>2. QED
      BY <3>1
  <2>3. Promise!Queued \subseteq DOMAIN pending
    BY <1>4, BarQueued
  <2>4. QED
    BY <1>1, <1>2, <1>5, <2>2, <2>3 DEF Promise!InTurn, OrderInv, HeldInOrder
<1>8. StatusBar' = [StatusBar EXCEPT ![i] = end]
  BY <1>1, <1>2, <1>3, <1>4, <1>5 DEF StatusBar
<1>9. Promise!CopiesKept
  BY <1>2, BarCopiesKept DEF Known
<1>10. QED
  BY <1>1, <1>5, <1>6, <1>7, <1>8, <1>9
  DEF Promise!Next, Promise!Send, Promise!Sent, Promise!Ids, Ids

\* The reaper is an Expire of Delivery.
LEMMA BarExpire ==
  ASSUME QueueInv, QueueInv', NEW w \in Workers, [Next]_vars, PickDue(w)
  PROVE  Promise!Next
<1>1. /\ Owned /\ phase # "down" /\ phase' # "down"
  BY DEF QueueInv, LimitsInv, OrderInv, Up, PickDue, env
<1>2. /\ DOMAIN pending' = DOMAIN pending \ Expired
      /\ Expired \subseteq DOMAIN pending /\ DOMAIN pending \subseteq Ids
      /\ fate' = [i \in Ids |-> IF i \in Expired THEN "expired" ELSE fate[i]]
  BY <1>1, LiveQueue DEF PickDue, Expired, Owned, TypeOK, IsQueue
<1>3. Queue = pending /\ Queue' = pending'
  BY <1>1 DEF Queue
<1>4. CASE Expired = {}
  <2>1. fate' = fate
    BY <1>1, <1>2, <1>4 DEF Owned, TypeOK
  <2>2. QED
    BY <1>1, <1>2, <1>3, <1>4, <2>1, BarForget DEF Known
<1>5. CASE Expired # {}
  <2>1. Expired \subseteq Promise!Queued
    BY <1>2, <1>3, BarQueued
  <2>2. StatusBar' =
          [i \in Ids |-> IF i \in Expired THEN "expired" ELSE StatusBar[i]]
    BY <1>2, <1>3 DEF StatusBar
  <2>3. Promise!CopiesKept
    BY <1>2, BarCopiesKept DEF Known
  <2>4. QED
    BY <1>1, <1>5, <2>1, <2>2, <2>3
    DEF Promise!Next, Promise!Expire, Promise!Ids, Ids
<1>6. QED
  BY <1>4, <1>5

\* The end of the process is a Kill of Delivery that leaves what the file has.
LEMMA BarKill ==
  ASSUME QueueInv, QueueInv', [Next]_vars, phase # "down", Vanish
  PROVE  Promise!Next
<1>1. /\ phase' = "down" /\ DOMAIN pending' = {} /\ disk' = disk /\ fate' = fate
      /\ Owned /\ Gone /\ Accounted /\ FatesKnown /\ Reloaded
  BY DEF QueueInv, LimitsInv, DurableInv, OrderInv, Vanish, Empty
<1>2. Queue = pending /\ Queue' = disk
  BY <1>1 DEF Queue
<1>3. DOMAIN disk \subseteq Ids /\ DOMAIN pending \subseteq Ids
  BY <1>1 DEF Owned, TypeOK, IsQueue
<1>4. DOMAIN disk \in SUBSET {i \in DOMAIN CopiesBar : StatusBar[i] # "lost"}
  <2>1. ASSUME NEW i \in DOMAIN disk
        PROVE  i \in DOMAIN CopiesBar /\ StatusBar[i] # "lost"
    <3>1. i \in DOMAIN CopiesBar
      BY <1>1, KnownCopies DEF Known
    <3>2. i \notin DOMAIN pending => fate[i] \in Ended
      BY <1>1 DEF Accounted
    <3>3. QED
      BY <1>2, <1>3, <3>1, <3>2 DEF StatusBar, Ended
  <2>2. QED
    BY <2>1
<1>5. StatusBar' =
        [i \in Ids |-> IF i \in DOMAIN disk THEN "queued"
                       ELSE IF i \in Promise!Queued THEN "lost" ELSE StatusBar[i]]
  <2>1. ASSUME NEW i \in Ids, i \notin DOMAIN disk, i \in DOMAIN pending
        PROVE  fate[i] = "queued"
    BY <1>1, <2>1 DEF FatesKnown, Reloaded
  <2>2. QED
    BY <1>1, <1>2, <1>3, <2>1, BarQueued DEF StatusBar
<1>6. Promise!CopiesKept
  BY <1>1, BarCopiesKept
<1>7. QED
  BY <1>1, <1>4, <1>5, <1>6 DEF Promise!Next, Promise!Kill, Promise!Ids, Ids

\* The reload is a Start of Delivery: every message is as the file has it.
LEMMA BarStart ==
  ASSUME QueueInv, Restart
  PROVE  Promise!Next
<1>1. /\ phase = "down" /\ phase' # "down" /\ fate' = fate
      /\ snap' = snap /\ disk' = disk
      /\ Queue = disk /\ Queue' = Loaded(disk, mode') /\ IsQueue(disk)
  BY DEF QueueInv, LimitsInv, OrderInv, Owned, TypeOK, Restart, history, Queue
<1>2. /\ DOMAIN Queue' = DOMAIN Queue
      /\ \A i \in DOMAIN disk : /\ Queue'[i].rcpt = disk[i].rcpt
                               /\ Queue'[i].after = disk[i].after
  BY <1>1 DEF Loaded, IsQueue, Message
<1>3. StatusBar' = StatusBar
  BY <1>1, <1>2 DEF StatusBar
<1>4. ASSUME NEW i
      PROVE  CopyOf(i)' = CopyOf(i)
  BY <1>1, <1>2 DEF CopyOf
<1>5. CopiesBar' = CopiesBar
  BY <1>1, <1>2, <1>4 DEF CopiesBar
<1>6. QED
  BY <1>1, <1>3, <1>5 DEF Promise!Next, Promise!Start

\* Every step of the queue is a step of Delivery.
LEMMA BarStep ==
  ASSUME QueueInv, QueueInv', [Next]_vars
  PROVE  Promise!Next \/ UNCHANGED Promise!vars
<1>0. /\ OrderInv /\ Owned /\ Gone /\ IsQueue(pending) /\ IsQueue(disk)
      /\ DOMAIN pending \subseteq Known
  BY DEF QueueInv, LimitsInv, DurableInv, OrderInv, Owned, TypeOK, Known
<1>1. ASSUME NEW in \in Inputs, Enqueue(in)
      PROVE  Promise!Next
  BY <1>1, BarAccept
<1>2. CASE EnqueueRefused
  BY <1>2, BarRefuse
<1>3. ASSUME NEW w \in Workers, Work(w)
      PROVE  Promise!Next
  <2>1. CASE PickDue(w)
    BY <2>1, BarExpire
  <2>2. CASE \/ AttemptStart(w) \/ SendReturns(w)
             \/ Deferred(w) \/ Reroute(w) \/ Retry(w)
    <3>1. /\ fate' = fate /\ phase # "down" /\ phase' # "down"
          /\ DOMAIN pending' = DOMAIN pending
      BY <2>2 DEF AttemptStart, SendReturns, Deferred, Reroute, Retry, Keep,
         Release, Up, env, history
    <3>2. DOMAIN Queue' = DOMAIN Queue
      BY <3>1 DEF Queue
    <3>3. QED
      BY <1>0, <3>1, <3>2, BarForget
  <2>3. CASE Delivered(w) \/ StampRefused(w) \/ GiveUp(w)
    <3>1. Up /\ wpc[w] \in Busy
      BY <2>3 DEF Delivered, StampRefused, GiveUp, Busy, Outcomes
    <3>2. \E end \in {"delivered", "failed", "refused"} : Leave(w, end)
      BY <2>3 DEF Delivered, StampRefused, GiveUp
    <3>3. QED
      BY <3>1, <3>2, BarSend
  <2>4. QED
    BY <1>3, <2>1, <2>2, <2>3 DEF Work, Finish
<1>4. CASE Persistence \/ Stop \/ NodeChange
  <2>1. fate' = fate /\ phase # "down" /\ phase' # "down" /\ pending' = pending
    BY <1>4 DEF Persistence, TakeKick, Flush, FinalFlush, TakeSnapshot, Save,
       SaveFailed, Stop, NodeChange, Up, env, history
  <2>2. DOMAIN Queue' = DOMAIN Queue
    BY <2>1 DEF Queue
  <2>3. QED
    BY <1>0, <2>1, <2>2, BarForget
<1>5. CASE Crash \/ Exit
  <2>1. phase # "down" /\ Vanish
    BY <1>5 DEF Crash, Exit
  <2>2. QED
    BY <2>1, BarKill
<1>6. CASE Restart
  BY <1>6, BarStart
<1>7. CASE Tick
  <2>1. /\ fate' = fate /\ phase' = phase
        /\ DOMAIN pending' = DOMAIN pending /\ DOMAIN disk' = DOMAIN disk
    BY <1>0, <1>7, AgedQueue DEF Tick, env, history
  <2>2. DOMAIN Queue' = DOMAIN Queue
    BY <2>1 DEF Queue
  <2>3. QED
    BY <1>0, <2>1, <2>2, BarForget
<1>8. CASE UNCHANGED vars
  BY <1>8 DEF vars, env, flusher, history, StatusBar, CopiesBar, CopyOf, Queue,
     Promise!vars
<1>9. QED
  BY <1>1, <1>2, <1>3, <1>4, <1>5, <1>6, <1>7, <1>8 DEF Next

\* The invariant of the refinement: LimitsInv and DurableInv, and what
\* the copies of a message in memory, snapshot and file have in common.
THEOREM QueueInvariant == Spec => []QueueInv
<1>1. Init => Agreed /\ Reloaded
  BY DEF Init, Empty, Agreed, Reloaded
<1>2. ASSUME LimitsInv /\ DurableInv, (LimitsInv /\ DurableInv)',
             Agreed /\ Reloaded, [Next]_vars
      PROVE  (Agreed /\ Reloaded)'
  <2>1. QueueInv /\ OrderInv'
    BY <1>2 DEF QueueInv, LimitsInv
  <2>2. QED
    BY <1>2, <2>1, AgreedStep, ReloadedStep
<1>3. QED
  BY <1>1, <1>2, DurableInvariant, PTL DEF Spec, QueueInv

\* The queue of outbound.go, with its workers, retries, routes, flush loop,
\* kills and reloads, keeps the promise of Delivery (outbound.go:53-139).
THEOREM QueueKeepsPromise == Spec => ImplementsDelivery
<1>1. Init => Promise!Init
  <2> SUFFICES ASSUME Init PROVE Promise!Init
    OBVIOUS
  <2>1. /\ DOMAIN Queue = {} /\ DOMAIN snap = {} /\ DOMAIN disk = {}
        /\ fate = [i \in Ids |-> "none"] /\ phase # "down"
    BY DEF Init, Empty, Queue
  <2>2. StatusBar = [i \in Ids |-> "none"]
    BY <2>1 DEF StatusBar
  <2>3. CopiesBar = << >>
    BY <2>1 DEF CopiesBar
  <2>4. QED
    BY <2>1, <2>2, <2>3 DEF Promise!Init, Promise!Ids, Ids
<1>2. ASSUME QueueInv, QueueInv', [Next]_vars
      PROVE  [Promise!Next]_(Promise!vars)
  BY <1>2, BarStep
<1>3. QED
  BY <1>1, <1>2, QueueInvariant, PTL
  DEF Spec, ImplementsDelivery, Promise!Spec
=============================================================================
