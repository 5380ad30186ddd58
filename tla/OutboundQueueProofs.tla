------------------------ MODULE OutboundQueueProofs ------------------------
(***************************************************************************)
(* Theorems about OutboundQueue, for every number of workers, messages,    *)
(* restarts and failing writes.                                            *)
(***************************************************************************)
EXTENDS OutboundQueue, FiniteSetTheorems, TLAPS

-----------------------------------------------------------------------------
(* Operators on queues keep them queues. *)

\* The queue of a process that is down is a queue.
LEMMA EmptyQueue == IsQueue(Empty)
  BY DEF IsQueue, Empty

\* removeLocked drops entries and leaves the others as they are.
LEMMA WithoutQueue ==
  ASSUME NEW q, IsQueue(q), NEW S
  PROVE  /\ IsQueue(Without(q, S))
         /\ DOMAIN Without(q, S) = DOMAIN q \ S
         /\ \A i \in DOMAIN q \ S : Without(q, S)[i] = q[i]
  BY DEF IsQueue, Without, Restrict

\* What save writes is a queue with the same messages.
LEMMA StoredQueue ==
  ASSUME NEW q, IsQueue(q)
  PROVE  IsQueue(Stored(q)) /\ DOMAIN Stored(q) = DOMAIN q
  BY DEF IsQueue, Stored, Message

\* What Load makes of the file is a queue with the same messages.
LEMMA LoadedQueue ==
  ASSUME NEW q, IsQueue(q), NEW md
  PROVE  IsQueue(Loaded(q, md)) /\ DOMAIN Loaded(q, md) = DOMAIN q
  BY DEF IsQueue, Loaded, Message

\* Time passes for the entries and changes no more of them.
LEMMA AgedQueue ==
  ASSUME NEW q, IsQueue(q)
  PROVE  IsQueue(Aged(q)) /\ DOMAIN Aged(q) = DOMAIN q
<1>1. ASSUME NEW m \in Message
      PROVE  [m EXCEPT !.wait = IF m.wait > 0 THEN m.wait - 1 ELSE 0,
                       !.age = IF m.age <= MaxQueueAge THEN m.age + 1
                               ELSE m.age] \in Message
  <2>1. MaxQueueAge \in Nat
    BY LimitsAssumption DEF LimitsAssumption
  <2>2. /\ (IF m.wait > 0 THEN m.wait - 1 ELSE 0) \in Int
        /\ (IF m.age <= MaxQueueAge THEN m.age + 1 ELSE m.age)
              \in 0 .. MaxQueueAge + 1
    BY <2>1 DEF Message
  <2>3. QED
    BY <2>2 DEF Message
<1>2. QED
  BY <1>1 DEF IsQueue, Aged

\* An entry is replaced in place.
LEMMA UpdatedQueue ==
  ASSUME NEW q, IsQueue(q), NEW i \in DOMAIN q, NEW m \in Message
  PROVE  /\ IsQueue([q EXCEPT ![i] = m])
         /\ DOMAIN [q EXCEPT ![i] = m] = DOMAIN q
  BY DEF IsQueue

-----------------------------------------------------------------------------
(* Types and ownership.  Neither is inductive alone: a deferral takes back an *)
(* attempt, which stays a natural number only because the owner's entry is    *)
(* still queued and has been counted.                                         *)

\* The entry of a worker that has started its send has been counted.
Counted ==
    \A w \in Workers :
        wpc[w] \in Sending \cup Outcomes => pending[wmsg[w]].attempts >= 1

Owned == TypeOK /\ SingleOwner /\ Counted

\* Numbers are given out in the order of the queue, and never again: every
\* entry of the queue, of the snapshot and of the file is an old one.
Fresh == \A i \in DOMAIN pending \cup DOMAIN snap \cup DOMAIN disk : i < nextId

\* A process that has been stopped or killed may still be restarted, and one
\* that is gone sends nothing.
Halted ==
    /\ phase # "running" => restarts < MaxRestarts
    /\ phase = "down" => inFlight = {}

\* Steps that leave the workers alone and only add entries or change what is
\* not counted keep ownership.
LEMMA OwnershipKept ==
  ASSUME Owned,
         UNCHANGED workers,
         DOMAIN pending \subseteq DOMAIN pending',
         \A i \in DOMAIN pending : pending'[i].attempts = pending[i].attempts
  PROVE  SingleOwner' /\ Counted'
<1>1. SingleOwner'
  BY DEF Owned, SingleOwner, workers
<1>2. ASSUME NEW w \in Workers, wpc[w] \in Busy
      PROVE  wmsg[w] \in DOMAIN pending
  BY <1>2 DEF Owned, SingleOwner
<1>3. Counted'
  BY <1>2 DEF Owned, Counted, workers, Busy
<1>4. QED
  BY <1>1, <1>3

\* A step that moves workers without giving or taking a message.
LEMMA SameOwners ==
  ASSUME Owned, UNCHANGED <<inFlight, wmsg>>,
         inFlight \subseteq DOMAIN pending',
         \A v \in Workers : (wpc'[v] \in Busy) <=> (wpc[v] \in Busy)
  PROVE  SingleOwner'
<1>1. {x \in Workers : wpc'[x] \in Busy} = {x \in Workers : wpc[x] \in Busy}
  OBVIOUS
<1>2. inFlight' = {wmsg'[w] : w \in {x \in Workers : wpc'[x] \in Busy}}
  BY <1>1 DEF Owned, SingleOwner
<1>3. QED
  BY <1>2 DEF Owned, SingleOwner

\* The end of an attempt: whatever else changes, the other owners keep theirs.
LEMMA ReleaseOwnership ==
  ASSUME Owned, NEW w \in Workers, wpc[w] \in Busy, Release(w),
         DOMAIN pending \ {wmsg[w]} \subseteq DOMAIN pending',
         \A i \in DOMAIN pending \ {wmsg[w]} : pending'[i] = pending[i]
  PROVE  /\ SingleOwner' /\ Counted'
         /\ inFlight' \in SUBSET Ids
         /\ wpc' \in [Workers -> {"idle", "exited"} \cup Busy]
         /\ wmsg' \in [Workers -> Ids \cup {0}]
<1>1. /\ wpc' = [wpc EXCEPT ![w] = Unemployed]
      /\ wmsg' = [wmsg EXCEPT ![w] = 0]
      /\ inFlight' = inFlight \ {wmsg[w]}
      /\ Unemployed \in {"idle", "exited"}
  BY DEF Release, Unemployed
<1>2. /\ inFlight \in SUBSET Ids
      /\ wpc \in [Workers -> {"idle", "exited"} \cup Busy]
      /\ wmsg \in [Workers -> Ids \cup {0}]
  BY DEF Owned, TypeOK
<1>3. ASSUME NEW v \in Workers
      PROVE  /\ wpc'[v] \in Busy <=> wpc[v] \in Busy /\ v # w
             /\ v # w => wpc'[v] = wpc[v] /\ wmsg'[v] = wmsg[v]
  BY <1>1, <1>2 DEF Busy, Sending, Outcomes
<1>4. ASSUME NEW v \in Workers, wpc[v] \in Busy, v # w
      PROVE  wmsg[v] # wmsg[w] /\ wmsg[v] \in DOMAIN pending
  BY <1>4 DEF Owned, SingleOwner
<1>5. SingleOwner'
  <2>1. inFlight' = {wmsg'[v] : v \in {x \in Workers : wpc'[x] \in Busy}}
    <3>1. inFlight = {wmsg[v] : v \in {x \in Workers : wpc[x] \in Busy}}
      BY DEF Owned, SingleOwner
    <3>2. ASSUME NEW i \in inFlight'
          PROVE  \E v \in Workers : wpc'[v] \in Busy /\ wmsg'[v] = i
      BY <1>1, <1>3, <3>1
    <3>3. ASSUME NEW v \in Workers, wpc'[v] \in Busy
          PROVE  wmsg'[v] \in inFlight'
      BY <1>1, <1>3, <1>4, <3>1, <3>3
    <3>4. QED
      BY <3>2, <3>3
  <2>2. inFlight' \subseteq DOMAIN pending'
    BY <1>1 DEF Owned, SingleOwner
  <2>3. QED
    BY <1>3, <2>1, <2>2 DEF Owned, SingleOwner
<1>6. Counted'
  <2>1. ASSUME NEW v \in Workers, wpc'[v] \in Sending \cup Outcomes
        PROVE  v # w /\ wpc[v] \in Sending \cup Outcomes /\ wpc[v] \in Busy
    BY <1>3, <2>1 DEF Busy
  <2>2. QED
    BY <1>3, <1>4, <2>1 DEF Owned, Counted
<1>7. QED
  BY <1>1, <1>2, <1>5, <1>6

\* attempt ends and removes its message: ownership holds.
LEMMA LeaveOwned ==
  ASSUME Owned, NEW w \in Workers, wpc[w] \in Busy, NEW end \in Ended,
         Leave(w, end)
  PROVE  Owned'
<1>1. /\ IsQueue(pending')
      /\ DOMAIN pending' = DOMAIN pending \ {wmsg[w]}
      /\ \A i \in DOMAIN pending \ {wmsg[w]} : pending'[i] = pending[i]
  <2>1. IsQueue(pending) /\ pending' = Without(pending, {wmsg[w]})
    BY DEF Owned, TypeOK, Leave
  <2>2. QED
    BY <2>1, WithoutQueue
<1>2. Release(w)
  BY DEF Leave
<1>3. TypeOK'
  BY <1>1, <1>2, ReleaseOwnership, InputsAssumption
  DEF Owned, TypeOK, Leave, Release, Persist, env, flusher, Ended, InputsAssumption
<1>4. QED
  BY <1>1, <1>2, <1>3, ReleaseOwnership DEF Owned

\* attempt ends and puts its message back: ownership holds.
LEMMA KeepOwned ==
  ASSUME Owned, NEW w \in Workers, wpc[w] \in Busy, NEW m \in Message,
         Keep(w, m)
  PROVE  Owned'
<1>1. wmsg[w] \in DOMAIN pending
  BY DEF Owned, SingleOwner
<1>2. /\ IsQueue(pending')
      /\ DOMAIN pending' = DOMAIN pending
      /\ \A i \in DOMAIN pending \ {wmsg[w]} : pending'[i] = pending[i]
  BY <1>1, UpdatedQueue DEF Owned, TypeOK, Keep
<1>3. Release(w)
  BY DEF Keep
<1>4. TypeOK'
  BY <1>2, <1>3, ReleaseOwnership, InputsAssumption
  DEF Owned, TypeOK, Keep, Release, Persist, env, flusher, InputsAssumption
<1>5. QED
  BY <1>2, <1>3, <1>4, ReleaseOwnership DEF Owned

\* The queue pickDue sees once the reaper is done.
LEMMA LiveQueue ==
  ASSUME Owned
  PROVE  LET live == Without(pending, Expired) IN
         /\ IsQueue(live)
         /\ DOMAIN live = DOMAIN pending \ Expired
         /\ \A i \in DOMAIN live : live[i] = pending[i]
         /\ inFlight \subseteq DOMAIN live
         /\ Due(live) \subseteq DOMAIN live \ inFlight
<1>1. IsQueue(pending) /\ inFlight \subseteq DOMAIN pending
  BY DEF Owned, TypeOK, SingleOwner
<1>2. Expired \cap inFlight = {}
  BY DEF Expired
<1>3. QED
  BY <1>1, <1>2, WithoutQueue DEF Due

\* pickDue gives a free message to a free worker.
LEMMA PickDueOwned ==
  ASSUME Owned, NEW w \in Workers, PickDue(w)
  PROVE  Owned'
<1> DEFINE live == Without(pending, Expired)
<1>1. /\ IsQueue(live)
      /\ DOMAIN live \subseteq Ids
      /\ \A i \in DOMAIN live : live[i] = pending[i]
      /\ inFlight \subseteq DOMAIN live
      /\ Due(live) \subseteq DOMAIN live \ inFlight
  BY LiveQueue DEF IsQueue
<1>2. /\ pending' = live
      /\ wpc[w] = "idle"
  BY DEF PickDue
<1>3. wpc \in [Workers -> {"idle", "exited"} \cup Busy]
      /\ wmsg \in [Workers -> Ids \cup {0}]
  BY DEF Owned, TypeOK
<1>4. \A v \in Workers : wpc[v] \in Busy => wmsg[v] \in inFlight /\ v # w
  BY <1>2 DEF Owned, SingleOwner, Busy, Sending, Outcomes
<1>5. CASE /\ wpc' = [wpc EXCEPT ![w] = Unemployed]
           /\ UNCHANGED <<inFlight, wmsg>>
  <2>1. ASSUME NEW v \in Workers
        PROVE  /\ (wpc'[v] \in Busy) <=> (wpc[v] \in Busy)
               /\ wpc'[v] \in Busy => wpc'[v] = wpc[v]
    <3>1. CASE v = w
      BY <1>2, <1>3, <1>5, <3>1 DEF Unemployed, Busy, Sending, Outcomes
    <3>2. CASE v # w
      BY <1>3, <1>5, <3>2
    <3>3. QED
      BY <3>1, <3>2
  <2>2. SingleOwner'
    BY <1>1, <1>2, <1>5, <2>1, SameOwners
  <2>3. Counted'
    <3>1. ASSUME NEW v \in Workers, wpc'[v] \in Sending \cup Outcomes
          PROVE  pending'[wmsg'[v]].attempts >= 1
      <4>1. wpc'[v] \in Busy
        BY <3>1 DEF Busy
      <4>2. wpc[v] \in Busy /\ wpc[v] \in Sending \cup Outcomes
        BY <2>1, <3>1, <4>1
      <4>3. wmsg[v] \in inFlight /\ wmsg'[v] = wmsg[v]
        BY <1>4, <1>5, <4>2
      <4>4. QED
        BY <1>1, <1>2, <4>2, <4>3 DEF Owned, Counted
    <3>2. QED
      BY <3>1 DEF Counted
  <2>4. wpc' \in [Workers -> {"idle", "exited"} \cup Busy]
    BY <1>3, <1>5 DEF Unemployed
  <2>5. TypeOK'
    BY <1>1, <1>2, <1>5, <2>4, InputsAssumption
    DEF Owned, TypeOK, PickDue, Persist, env, flusher, Ended, InputsAssumption
  <2>6. QED
    BY <2>2, <2>3, <2>5 DEF Owned
<1>6. ASSUME NEW i \in Due(live),
             inFlight' = inFlight \cup {i},
             wpc' = [wpc EXCEPT ![w] = "picked"],
             wmsg' = [wmsg EXCEPT ![w] = i]
      PROVE  Owned'
  <2>1. i \in Ids /\ i \in DOMAIN live /\ i \notin inFlight
    BY <1>1
  <2>2. \A v \in Workers \ {w} : wpc'[v] = wpc[v] /\ wmsg'[v] = wmsg[v]
    BY <1>3, <1>6
  <2>3. wpc'[w] = "picked" /\ wmsg'[w] = i /\ "picked" \in Busy
    BY <1>3, <1>6 DEF Busy
  <2>4. SingleOwner'
    <3>1. inFlight = {wmsg[v] : v \in {x \in Workers : wpc[x] \in Busy}}
      BY DEF Owned, SingleOwner
    <3>2. ASSUME NEW j \in inFlight'
          PROVE  \E v \in Workers : wpc'[v] \in Busy /\ wmsg'[v] = j
      BY <1>4, <1>6, <2>2, <2>3, <3>1
    <3>3. ASSUME NEW v \in Workers, wpc'[v] \in Busy
          PROVE  wmsg'[v] \in inFlight'
      BY <1>4, <1>6, <2>2, <2>3, <3>3
    <3>4. inFlight' = {wmsg'[v] : v \in {x \in Workers : wpc'[x] \in Busy}}
      BY <3>2, <3>3
    <3>5. inFlight' \subseteq DOMAIN pending'
      BY <1>1, <1>2, <1>6, <2>1
    <3>6. ASSUME NEW u \in Workers, NEW v \in Workers, wpc'[u] \in Busy,
                 wpc'[v] \in Busy, wmsg'[u] = wmsg'[v]
          PROVE  u = v
      BY <1>4, <2>1, <2>2, <2>3, <3>6 DEF Owned, SingleOwner
    <3>7. QED
      BY <3>4, <3>5, <3>6 DEF SingleOwner
  <2>5. Counted'
    <3>1. ASSUME NEW v \in Workers, wpc'[v] \in Sending \cup Outcomes
          PROVE  pending'[wmsg'[v]].attempts >= 1
      <4>1. v # w
        BY <2>3, <3>1 DEF Sending, Outcomes
      <4>2. wpc[v] \in Sending \cup Outcomes /\ wpc[v] \in Busy
        BY <2>2, <3>1, <4>1 DEF Busy
      <4>3. wmsg'[v] = wmsg[v] /\ wmsg[v] \in inFlight
        BY <1>4, <2>2, <4>1, <4>2
      <4>4. QED
        BY <1>1, <1>2, <4>2, <4>3 DEF Owned, Counted
    <3>2. QED
      BY <3>1 DEF Counted
  <2>6. /\ wpc' \in [Workers -> {"idle", "exited"} \cup Busy]
        /\ wmsg' \in [Workers -> Ids \cup {0}]
        /\ inFlight' \in SUBSET Ids
    BY <1>3, <1>6, <2>1, <2>3 DEF Owned, TypeOK
  <2>7. TypeOK'
    BY <1>1, <1>2, <2>6, InputsAssumption
    DEF Owned, TypeOK, PickDue, Persist, env, flusher, Ended, InputsAssumption
  <2>8. QED
    BY <2>4, <2>5, <2>7 DEF Owned
<1>7. QED
  BY <1>5, <1>6 DEF PickDue

\* attempt counts the try of the message its worker owns.
LEMMA AttemptStartOwned ==
  ASSUME Owned, NEW w \in Workers, AttemptStart(w)
  PROVE  Owned'
<1> DEFINE i == wmsg[w]
<1>1. /\ wpc[w] = "picked"
      /\ pending' = [pending EXCEPT ![i] = CountedEntry(pending[i])]
      /\ UNCHANGED <<inFlight, wmsg>>
  BY DEF AttemptStart
<1>2. PICK s \in Sending \cup Outcomes : wpc' = [wpc EXCEPT ![w] = s]
  BY DEF AttemptStart, SendLXMF, SendLXMFPropagated, Sending, Outcomes
<1>3. i \in DOMAIN pending /\ IsQueue(pending)
  BY <1>1 DEF Owned, SingleOwner, TypeOK, Busy
<1>4. pending[i] \in Message
  BY <1>3 DEF IsQueue
<1>5. /\ CountedEntry(pending[i]) \in Message
      /\ CountedEntry(pending[i]).attempts >= 1
  BY <1>4 DEF Message, CountedEntry
<1>7. /\ IsQueue(pending')
      /\ DOMAIN pending' = DOMAIN pending
      /\ pending'[i].attempts >= 1
      /\ \A j \in DOMAIN pending \ {i} : pending'[j] = pending[j]
  BY <1>1, <1>3, <1>5, UpdatedQueue DEF IsQueue
<1>8. wpc \in [Workers -> {"idle", "exited"} \cup Busy]
  BY DEF Owned, TypeOK
<1>9. ASSUME NEW v \in Workers
      PROVE  /\ (wpc'[v] \in Busy) <=> (wpc[v] \in Busy)
             /\ v # w => wpc'[v] = wpc[v]
  <2>1. CASE v = w
    BY <1>1, <1>2, <1>8, <2>1 DEF Busy
  <2>2. CASE v # w
    BY <1>2, <1>8, <2>2
  <2>3. QED
    BY <2>1, <2>2
<1>10. SingleOwner'
  BY <1>1, <1>7, <1>9, SameOwners DEF Owned, SingleOwner
<1>11. Counted'
  <2>1. ASSUME NEW v \in Workers, wpc'[v] \in Sending \cup Outcomes, v # w
        PROVE  pending'[wmsg[v]].attempts >= 1
    <3>1. wpc[v] \in Sending \cup Outcomes /\ wpc[v] \in Busy
      BY <1>9, <2>1 DEF Busy
    <3>2. wmsg[v] # i /\ wmsg[v] \in DOMAIN pending
      BY <1>1, <2>1, <3>1 DEF Owned, SingleOwner, Busy
    <3>3. QED
      BY <1>7, <3>1, <3>2 DEF Owned, Counted
  <2>2. QED
    BY <1>1, <1>7, <2>1 DEF Counted
<1>12. wpc' \in [Workers -> {"idle", "exited"} \cup Busy]
  BY <1>2, <1>8 DEF Busy
<1>13. TypeOK'
  BY <1>1, <1>7, <1>12
  DEF Owned, TypeOK, AttemptStart, env, flusher, history
<1>14. QED
  BY <1>10, <1>11, <1>13 DEF Owned

\* The return of a send records the view and moves only its worker.
LEMMA SendReturnsOwned ==
  ASSUME Owned, NEW w \in Workers, SendReturns(w)
  PROVE  Owned'
<1>1. /\ wpc[w] \in Sending
      /\ UNCHANGED <<pending, inFlight, wmsg>>
  BY DEF SendReturns
<1>2. PICK r \in Results :
         /\ wpc' = [wpc EXCEPT ![w] = r]
         /\ acks' = IF r = "ok" THEN [acks EXCEPT ![wmsg[w]] = @ + 1] ELSE acks
         /\ fails' = IF r \in {"fail", "unknown"}
                     THEN [fails EXCEPT ![wmsg[w]] = @ + 1] ELSE fails
         /\ views' = IF r = "ok" THEN RegisterView(wmsg[w]) ELSE views
  BY DEF SendReturns
<1>3. r \in Outcomes
  BY InputsAssumption DEF InputsAssumption, Outcomes
<1>4. wpc \in [Workers -> {"idle", "exited"} \cup Busy]
  BY DEF Owned, TypeOK
<1>5. wmsg[w] \in Ids
  BY <1>1 DEF Owned, TypeOK, SingleOwner, Busy
<1>6. ASSUME NEW v \in Workers
      PROVE  /\ (wpc'[v] \in Busy) <=> (wpc[v] \in Busy)
             /\ wpc'[v] \in Sending \cup Outcomes
                  => wpc[v] \in Sending \cup Outcomes
  <2>1. CASE v = w
    BY <1>1, <1>2, <1>3, <1>4, <2>1 DEF Busy
  <2>2. CASE v # w
    BY <1>2, <1>4, <2>2
  <2>3. QED
    BY <2>1, <2>2
<1>7. SingleOwner'
  BY <1>1, <1>6, SameOwners DEF Owned, SingleOwner
<1>8. Counted'
  BY <1>1, <1>6 DEF Owned, Counted
<1>9. /\ wpc' \in [Workers -> {"idle", "exited"} \cup Busy]
      /\ acks' \in [Ids -> Nat]
      /\ fails' \in [Ids -> Nat]
      /\ views' \in SUBSET Ids
  BY <1>2, <1>3, <1>4, <1>5 DEF Owned, TypeOK, Busy, RegisterView
<1>10. TypeOK'
  BY <1>1, <1>9 DEF Owned, TypeOK, SendReturns, env, flusher
<1>11. QED
  BY <1>7, <1>8, <1>10 DEF Owned

\* What Finish puts back is a message.
LEMMA WaitIsInt ==
  ASSUME NEW m \in Message, NEW r
  PROVE  WaitAfter(m, r) \in Int
<1>1. (IF m.attempts > 1 THEN m.attempts - 1 ELSE 0) \in Nat
  BY DEF Message
<1>2. 2^(IF m.attempts > 1 THEN m.attempts - 1 ELSE 0) \in Int
  BY <1>1
<1>3. /\ RetryWait \in Int /\ MaxBackoff \in Int /\ PathRequestWait \in Int
  BY LimitsAssumption DEF LimitsAssumption
<1>4. BackoffWait(m.attempts) \in Int
  BY <1>2, <1>3 DEF BackoffWait
<1>5. QED
  BY <1>3, <1>4 DEF WaitAfter

\* Every way attempt can end keeps ownership.
LEMMA FinishOwned ==
  ASSUME Owned, NEW w \in Workers, Finish(w)
  PROVE  Owned'
<1> DEFINE m == pending[wmsg[w]]
<1>1. wpc[w] \in Outcomes /\ wpc[w] \in Busy
  BY DEF Finish, Delivered, Deferred, StampRefused, Reroute, GiveUp, Retry,
         Outcomes, Busy
<1>2. m \in Message /\ m.attempts >= 1
  BY <1>1 DEF Owned, TypeOK, SingleOwner, Counted, IsQueue
<1>3. CASE Delivered(w)
  BY <1>1, <1>3, LeaveOwned DEF Delivered, Ended
<1>4. CASE Deferred(w)
  <2>1. RetryWait \in Int
    BY LimitsAssumption DEF LimitsAssumption
  <2>2. DeferredEntry(m) \in Message
    <3>1. m.attempts - 1 \in Nat
      BY <1>2 DEF Message
    <3>2. QED
      BY <1>2, <2>1, <3>1 DEF Message, DeferredEntry
  <2>3. QED
    BY <1>1, <1>4, <2>2, KeepOwned DEF Deferred
<1>5. CASE StampRefused(w)
  BY <1>1, <1>5, LeaveOwned DEF StampRefused, Ended
<1>6. CASE Reroute(w)
  <2>1. RetryWait \in Int
    BY LimitsAssumption DEF LimitsAssumption
  <2>2. ReroutedEntry(m) \in Message
    BY <1>2, <2>1 DEF Message, ReroutedEntry
  <2>3. QED
    BY <1>1, <1>6, <2>2, KeepOwned DEF Reroute
<1>7. CASE GiveUp(w)
  BY <1>1, <1>7, LeaveOwned DEF GiveUp, Ended
<1>8. CASE Retry(w)
  <2>1. [m EXCEPT !.wait = WaitAfter(m, wpc[w])] \in Message
    BY <1>2, WaitIsInt DEF Message
  <2>2. QED
    BY <1>1, <1>8, <2>1, KeepOwned DEF Retry
<1>9. QED
  BY <1>3, <1>4, <1>5, <1>6, <1>7, <1>8 DEF Finish

\* enqueue adds an entry nobody owns yet.
LEMMA EnqueueOwned ==
  ASSUME Owned, Fresh, NEW in \in Inputs, Enqueue(in)
  PROVE  Owned'
<1>1. NewMessage(in) \in Message
  BY InputsAssumption, LimitsAssumption
  DEF InputsAssumption, LimitsAssumption, NewMessage, Message
<1>2. nextId \in Ids /\ nextId' \in 1 .. MaxMessages + 1
  BY LimitsAssumption DEF LimitsAssumption, Owned, TypeOK, Enqueue, Ids
<1>3. /\ pending' = [i \in DOMAIN pending \cup {nextId} |->
                        IF i = nextId THEN NewMessage(in) ELSE pending[i]]
      /\ UNCHANGED workers
  BY DEF Enqueue
<1>4. IsQueue(pending')
  BY <1>1, <1>2, <1>3 DEF Owned, TypeOK, IsQueue
<1>5. TypeOK'
  BY <1>2, <1>3, <1>4, InputsAssumption
  DEF Owned, TypeOK, Enqueue, Persist, env, workers, flusher, InputsAssumption
<1>6. SingleOwner' /\ Counted'
  <2>1. nextId \notin DOMAIN pending
    BY <1>2 DEF Fresh, Ids
  <2>2. /\ DOMAIN pending \subseteq DOMAIN pending'
        /\ \A i \in DOMAIN pending : pending'[i].attempts = pending[i].attempts
    BY <1>3, <2>1
  <2>3. QED
    BY <1>3, <2>2, OwnershipKept
<1>7. QED
  BY <1>5, <1>6 DEF Owned

\* The flush loop only copies the queue.
LEMMA PersistenceOwned ==
  ASSUME Owned, Persistence
  PROVE  Owned'
<1>1. IsQueue(pending) /\ IsQueue(snap) /\ IsQueue(disk)
  BY DEF Owned, TypeOK
<1>2. UNCHANGED <<pending, workers>>
  BY DEF Persistence, TakeKick, Flush, FinalFlush, TakeSnapshot, Save, SaveFailed
<1>3. SingleOwner' /\ Counted'
  BY <1>2, OwnershipKept
<1>4. TypeOK'
  <2>1. CASE TakeKick
    BY <2>1 DEF Owned, TypeOK, TakeKick, env, workers, history, Saving
  <2>2. ASSUME NEW saving \in Saving, NEW clean \in {"select", "done"},
               TakeSnapshot(saving, clean)
        PROVE  TypeOK'
    <3>1. IsQueue(snap')
      BY <1>1, <2>2, StoredQueue DEF TakeSnapshot
    <3>2. QED
      BY <2>2, <3>1 DEF Owned, TypeOK, TakeSnapshot, env, workers, history, Saving
  <2>3. CASE Flush
    BY <2>2, <2>3 DEF Flush, Saving
  <2>4. CASE FinalFlush
    BY <2>2, <2>4 DEF FinalFlush, Saving
  <2>5. CASE Save
    BY <1>1, <2>5, EmptyQueue
    DEF Owned, TypeOK, Save, AfterSave, env, workers, history, Saving
  <2>6. CASE SaveFailed
    <3>1. saveFails' \in 0 .. MaxSaveFailures
      BY <2>6, LimitsAssumption DEF LimitsAssumption, Owned, TypeOK, SaveFailed
    <3>2. QED
      BY <1>1, <2>6, <3>1, EmptyQueue
      DEF Owned, TypeOK, SaveFailed, DirtyAgain, AfterSave, env, workers, history, Saving
  <2>7. QED
    BY <2>1, <2>3, <2>4, <2>5, <2>6 DEF Persistence
<1>5. QED
  BY <1>3, <1>4 DEF Owned

\* A process that is gone owns nothing.
LEMMA VanishOwned ==
  ASSUME Owned, Vanish
  PROVE  Owned'
<1>1. /\ pending' = Empty /\ snap' = Empty /\ inFlight' = {}
      /\ wpc' = [w \in Workers |-> "exited"]
      /\ wmsg' = [w \in Workers |-> 0]
  BY DEF Vanish
<1>2. \A w \in Workers : wpc'[w] \notin Busy
  BY <1>1 DEF Busy, Sending, Outcomes
<1>3. SingleOwner'
  BY <1>1, <1>2 DEF SingleOwner
<1>4. Counted'
  BY <1>2 DEF Counted, Busy
<1>5. TypeOK'
  BY <1>1, EmptyQueue DEF Owned, TypeOK, Vanish
<1>6. QED
  BY <1>3, <1>4, <1>5 DEF Owned

\* At a stop the workers give nothing away.
LEMMA StopOwned ==
  ASSUME Owned, Stop
  PROVE  Owned'
<1>1. PICK late \in SUBSET {w \in Workers : wpc[w] = "idle"} :
         wpc' = [w \in Workers |->
                    IF wpc[w] = "idle" /\ w \notin late THEN "exited" ELSE wpc[w]]
  BY DEF Stop
<1>2. UNCHANGED <<pending, inFlight, wmsg>>
  BY DEF Stop
<1>3. wpc \in [Workers -> {"idle", "exited"} \cup Busy]
  BY DEF Owned, TypeOK
<1>4. ASSUME NEW v \in Workers
      PROVE  /\ (wpc'[v] \in Busy) <=> (wpc[v] \in Busy)
             /\ wpc'[v] \in Busy => wpc'[v] = wpc[v]
  BY <1>1 DEF Busy, Sending, Outcomes
<1>5. SingleOwner'
  BY <1>2, <1>4, SameOwners DEF Owned, SingleOwner
<1>6. Counted'
  BY <1>2, <1>4 DEF Owned, Counted, Busy
<1>7. wpc' \in [Workers -> {"idle", "exited"} \cup Busy]
  BY <1>1, <1>3
<1>8. TypeOK'
  BY <1>2, <1>7 DEF Owned, TypeOK, Stop, flusher, history
<1>9. QED
  BY <1>5, <1>6, <1>8 DEF Owned

\* Load starts with nothing in flight.
LEMMA RestartOwned ==
  ASSUME Owned, Halted, Restart
  PROVE  Owned'
<1>1. /\ restarts' = restarts + 1
      /\ pending' = Loaded(disk, mode')
      /\ wpc' = [w \in Workers |-> "idle"]
      /\ UNCHANGED <<inFlight, wmsg>>
  BY DEF Restart
<1>2. inFlight = {} /\ restarts < MaxRestarts
  BY DEF Halted, Restart
<1>3. \A w \in Workers : wpc'[w] \notin Busy
  BY <1>1 DEF Busy, Sending, Outcomes
<1>4. SingleOwner'
  BY <1>1, <1>2, <1>3 DEF SingleOwner
<1>5. Counted'
  BY <1>3 DEF Counted, Busy
<1>6. IsQueue(disk)
  BY DEF Owned, TypeOK
<1>7. IsQueue(pending')
  BY <1>1, <1>6, LoadedQueue
<1>8. restarts' \in 0 .. MaxRestarts
  BY <1>1, <1>2, LimitsAssumption DEF LimitsAssumption, Owned, TypeOK
<1>9. TypeOK'
  BY <1>1, <1>7, <1>8 DEF Owned, TypeOK, Restart, history
<1>10. QED
  BY <1>4, <1>5, <1>9 DEF Owned

\* Time passes, and the clamped ages stay in range.
LEMMA TickOwned ==
  ASSUME Owned, Tick
  PROVE  Owned'
<1>1. IsQueue(pending) /\ IsQueue(snap) /\ IsQueue(disk)
  BY DEF Owned, TypeOK
<1>2. /\ IsQueue(pending') /\ IsQueue(snap') /\ IsQueue(disk')
      /\ DOMAIN pending' = DOMAIN pending
  BY <1>1, AgedQueue DEF Tick
<1>3. ASSUME NEW i \in DOMAIN pending
      PROVE  pending'[i].attempts = pending[i].attempts
  <2>1. pending[i] \in Message
    BY <1>1 DEF IsQueue
  <2>2. QED
    BY <2>1 DEF Tick, Aged, Message
<1>4. UNCHANGED workers
  BY DEF Tick
<1>5. SingleOwner' /\ Counted'
  BY <1>2, <1>3, <1>4, OwnershipKept
<1>6. TypeOK'
  BY <1>2 DEF Owned, TypeOK, Tick, env, workers, history
<1>7. QED
  BY <1>5, <1>6 DEF Owned

\* Every step keeps types and ownership.
LEMMA OwnedStep ==
  ASSUME Owned, Fresh, Halted, [Next]_vars
  PROVE  Owned'
<1>1. ASSUME NEW in \in Inputs, Enqueue(in)
      PROVE  Owned'
  BY <1>1, EnqueueOwned
<1>2. CASE EnqueueRefused
  <2>1. nextId \in Ids /\ nextId' \in 1 .. MaxMessages + 1
    BY <1>2, LimitsAssumption
    DEF LimitsAssumption, Owned, TypeOK, EnqueueRefused, Ids
  <2>2. TypeOK'
    BY <1>2, <2>1 DEF Owned, TypeOK, EnqueueRefused, env, workers, flusher
  <2>3. UNCHANGED <<pending, workers>>
    BY <1>2 DEF EnqueueRefused
  <2>4. QED
    BY <2>2, <2>3, OwnershipKept DEF Owned
<1>3. ASSUME NEW w \in Workers, Work(w)
      PROVE  Owned'
  BY <1>3, PickDueOwned, AttemptStartOwned, SendReturnsOwned, FinishOwned
  DEF Work
<1>4. CASE Persistence
  BY <1>4, PersistenceOwned
<1>5. CASE Crash \/ Exit
  BY <1>5, VanishOwned DEF Crash, Exit
<1>6. CASE Stop
  BY <1>6, StopOwned
<1>7. CASE Restart
  BY <1>7, RestartOwned
<1>8. CASE NodeChange
  <2>1. UNCHANGED <<pending, workers>>
    BY <1>8 DEF NodeChange
  <2>2. TypeOK'
    BY <1>8 DEF Owned, TypeOK, NodeChange, workers, flusher, history
  <2>3. QED
    BY <2>1, <2>2, OwnershipKept DEF Owned
<1>9. CASE Tick
  BY <1>9, TickOwned
<1>10. CASE UNCHANGED vars
  <2>1. UNCHANGED <<pending, workers>> /\ TypeOK'
    BY <1>10 DEF Owned, TypeOK, vars, env, workers, flusher, history
  <2>2. QED
    BY <2>1, OwnershipKept DEF Owned
<1>11. QED
  BY <1>1, <1>2, <1>3, <1>4, <1>5, <1>6, <1>7, <1>8, <1>9, <1>10 DEF Next

-----------------------------------------------------------------------------
(* The order of the queue. *)

\* An entry stays itself: it keeps its recipient, its hold and its bubble.
SameEntry(m, n) == m.rcpt = n.rcpt /\ m.after = n.after /\ m.bubble = n.bubble

\* Where the entries of the next queue come from.
LEMMA Origin ==
  ASSUME Owned, [Next]_vars
  PROVE  \A i \in DOMAIN pending' :
            \/ i \in DOMAIN pending /\ SameEntry(pending'[i], pending[i])
            \/ i = nextId /\ nextId' = nextId + 1
            \/ /\ i \in DOMAIN disk /\ phase = "down"
               /\ SameEntry(pending'[i], disk[i])
<1>0. /\ IsQueue(pending) /\ IsQueue(disk)
      /\ \A i \in DOMAIN pending : pending[i] \in Message
  BY DEF Owned, TypeOK, IsQueue
<1> DEFINE Kept == \A i \in DOMAIN pending' :
                      i \in DOMAIN pending /\ SameEntry(pending'[i], pending[i])
<1>1. ASSUME NEW S, pending' = Without(pending, S)
      PROVE  Kept
  <2>1. /\ DOMAIN pending' = DOMAIN pending \ S
        /\ \A i \in DOMAIN pending \ S : pending'[i] = pending[i]
    BY <1>0, <1>1, WithoutQueue
  <2>2. QED
    BY <2>1 DEF SameEntry
<1>2. ASSUME NEW i \in DOMAIN pending, NEW m, SameEntry(m, pending[i]),
             pending' = [pending EXCEPT ![i] = m]
      PROVE  Kept
  <2>1. /\ DOMAIN pending' = DOMAIN pending
        /\ pending'[i] = m
        /\ \A j \in DOMAIN pending \ {i} : pending'[j] = pending[j]
    BY <1>0, <1>2 DEF IsQueue
  <2>2. QED
    BY <1>2, <2>1 DEF SameEntry
<1>3. ASSUME NEW in \in Inputs, Enqueue(in)
      PROVE  \A i \in DOMAIN pending' :
                \/ i \in DOMAIN pending /\ SameEntry(pending'[i], pending[i])
                \/ i = nextId /\ nextId' = nextId + 1
  BY <1>3 DEF Enqueue, SameEntry
<1>4. ASSUME NEW w \in Workers, Work(w)
      PROVE  Kept
  <2>0. wpc[w] \in Busy => wmsg[w] \in DOMAIN pending
    BY DEF Owned, SingleOwner
  <2>1. CASE PickDue(w)
    BY <1>1, <2>1 DEF PickDue
  <2>2. CASE AttemptStart(w)
    <3>1. wmsg[w] \in DOMAIN pending
      BY <2>0, <2>2 DEF AttemptStart, Busy
    <3>2. /\ pending' =
               [pending EXCEPT ![wmsg[w]] = CountedEntry(pending[wmsg[w]])]
          /\ SameEntry(CountedEntry(pending[wmsg[w]]), pending[wmsg[w]])
      BY <1>0, <2>2, <3>1 DEF AttemptStart, CountedEntry, SameEntry, Message
    <3>3. QED
      BY <1>2, <3>1, <3>2
  <2>3. CASE SendReturns(w)
    BY <2>3 DEF SendReturns, SameEntry
  <2>4. CASE Delivered(w) \/ StampRefused(w) \/ GiveUp(w)
    BY <1>1, <2>4 DEF Delivered, StampRefused, GiveUp, Leave
  <2>5. CASE Deferred(w) \/ Reroute(w) \/ Retry(w)
    <3>1. wmsg[w] \in DOMAIN pending
      BY <2>0, <2>5 DEF Deferred, Reroute, Retry, Busy, Outcomes
    <3> DEFINE m == pending[wmsg[w]]
    <3>2. m \in Message
      BY <1>0, <3>1
    <3>3. CASE Deferred(w)
      <4>1. SameEntry(DeferredEntry(m), m)
        BY <3>2 DEF DeferredEntry, SameEntry, Message
      <4>2. QED
        BY <1>2, <3>1, <3>3, <4>1 DEF Deferred, Keep
    <3>4. CASE Reroute(w)
      <4>1. SameEntry(ReroutedEntry(m), m)
        BY <3>2 DEF ReroutedEntry, SameEntry, Message
      <4>2. QED
        BY <1>2, <3>1, <3>4, <4>1 DEF Reroute, Keep
    <3>5. CASE Retry(w)
      <4>1. SameEntry([m EXCEPT !.wait = WaitAfter(m, wpc[w])], m)
        BY <3>2 DEF SameEntry, Message
      <4>2. QED
        BY <1>2, <3>1, <3>5, <4>1 DEF Retry, Keep
    <3>6. QED
      BY <2>5, <3>3, <3>4, <3>5
  <2>6. QED
    BY <1>4, <2>1, <2>2, <2>3, <2>4, <2>5 DEF Work, Finish
<1>5. CASE Crash \/ Exit
  BY <1>5 DEF Crash, Exit, Vanish, Empty
<1>6. CASE Restart
  <2>1. pending' = Loaded(disk, mode') /\ phase = "down"
    BY <1>6 DEF Restart
  <2>2. \A i \in DOMAIN disk : disk[i] \in Message
    BY <1>0 DEF IsQueue
  <2>3. \A i \in DOMAIN pending' :
           i \in DOMAIN disk /\ SameEntry(pending'[i], disk[i])
    BY <2>1, <2>2 DEF Loaded, SameEntry, Message
  <2>4. QED
    BY <2>1, <2>3
<1>7. CASE Tick
  BY <1>0, <1>7 DEF Tick, Aged, SameEntry, Message
<1>8. CASE UNCHANGED pending
  BY <1>8 DEF SameEntry
<1>9. CASE EnqueueRefused \/ Persistence \/ Stop \/ NodeChange \/ UNCHANGED vars
  BY <1>8, <1>9
  DEF EnqueueRefused, Persistence, TakeKick, Flush, FinalFlush, TakeSnapshot,
      Save, SaveFailed, Stop, NodeChange, vars
<1>10. QED
  BY <1>3, <1>4, <1>5, <1>6, <1>7, <1>9 DEF Next

\* The snapshot copies the queue, the file copies the snapshot, and numbers
\* only go up.
LEMMA CopyOrigin ==
  ASSUME Owned, [Next]_vars
  PROVE  /\ DOMAIN snap' \subseteq DOMAIN snap \cup DOMAIN pending
         /\ DOMAIN disk' \subseteq DOMAIN disk \cup DOMAIN snap
         /\ nextId' \in {nextId, nextId + 1}
<1>0. IsQueue(pending) /\ IsQueue(snap) /\ IsQueue(disk)
  BY DEF Owned, TypeOK
<1>1. ASSUME NEW in \in Inputs, Enqueue(in)
      PROVE  UNCHANGED <<snap, disk>> /\ nextId' = nextId + 1
  BY <1>1 DEF Enqueue, flusher
<1>2. CASE EnqueueRefused
  BY <1>2 DEF EnqueueRefused, flusher
<1>3. ASSUME NEW w \in Workers, Work(w)
      PROVE  UNCHANGED <<snap, disk, nextId>>
  BY <1>3 DEF Work, PickDue, AttemptStart, SendReturns, Finish, Delivered,
     Deferred, StampRefused, Reroute, GiveUp, Retry, Leave, Keep, Release, flusher
<1>4. CASE Persistence
  <2>1. DOMAIN Stored(pending) = DOMAIN pending /\ DOMAIN Empty = {}
    BY <1>0, StoredQueue DEF Empty
  <2>2. CASE TakeKick
    BY <2>2 DEF TakeKick
  <2>3. CASE Flush \/ FinalFlush
    BY <2>1, <2>3 DEF Flush, FinalFlush, TakeSnapshot
  <2>4. CASE Save \/ SaveFailed
    BY <2>1, <2>4 DEF Save, SaveFailed
  <2>5. QED
    BY <1>4, <2>2, <2>3, <2>4 DEF Persistence
<1>5. CASE Crash \/ Exit
  BY <1>5 DEF Crash, Exit, Vanish, Empty
<1>6. CASE Stop \/ NodeChange \/ Restart
  BY <1>6 DEF Stop, NodeChange, Restart, flusher
<1>7. CASE Tick
  BY <1>0, <1>7, AgedQueue DEF Tick
<1>8. CASE UNCHANGED vars
  BY <1>8 DEF vars, flusher
<1>9. QED
  BY <1>1, <1>2, <1>3, <1>4, <1>5, <1>6, <1>7, <1>8 DEF Next

\* Every step keeps the message numbers fresh.
LEMMA FreshStep ==
  ASSUME Owned, Fresh, [Next]_vars
  PROVE  Fresh'
<1>1. nextId \in Nat /\ nextId <= nextId'
  BY CopyOrigin DEF Owned, TypeOK
<1>2. /\ DOMAIN pending \subseteq Nat
      /\ DOMAIN snap \subseteq Nat
      /\ DOMAIN disk \subseteq Nat
  BY DEF Owned, TypeOK, IsQueue, Ids
<1>3. \A i \in DOMAIN pending' : i < nextId'
  BY <1>1, <1>2, Origin, CopyOrigin DEF Fresh
<1>4. \A i \in DOMAIN snap' \cup DOMAIN disk' : i < nextId'
  BY <1>1, <1>2, CopyOrigin DEF Fresh
<1>5. QED
  BY <1>3, <1>4 DEF Fresh

\* Every step keeps a process that is down halted.
LEMMA HaltedStep ==
  ASSUME Owned, Halted, [Next]_vars
  PROVE  Halted'
<1>1. CASE Crash \/ Exit
  BY <1>1 DEF Halted, Crash, Exit, Vanish
<1>2. CASE Stop
  BY <1>2 DEF Halted, Stop
<1>3. CASE Restart
  BY <1>3 DEF Halted, Restart
<1>4. ASSUME NEW w \in Workers, Work(w)
      PROVE  Up /\ UNCHANGED env
  BY <1>4 DEF Work, PickDue, AttemptStart, SendReturns, Finish, Delivered,
     Deferred, StampRefused, Reroute, GiveUp, Retry, Leave, Keep, Release
<1>5. CASE UNCHANGED <<phase, restarts, inFlight>>
  BY <1>5 DEF Halted
<1>6. ASSUME NEW in \in Inputs, Enqueue(in)
      PROVE  UNCHANGED <<phase, restarts, inFlight>>
  BY <1>6 DEF Enqueue, env, workers
<1>7. CASE \/ EnqueueRefused \/ Persistence \/ NodeChange \/ Tick
           \/ UNCHANGED vars
  BY <1>5, <1>7
  DEF EnqueueRefused, Persistence, TakeKick, Flush, FinalFlush, TakeSnapshot,
      Save, SaveFailed, NodeChange, Tick, vars, env, workers
<1>8. QED
  BY <1>1, <1>2, <1>3, <1>4, <1>5, <1>6, <1>7 DEF Next, Halted, Up, env

\* What is in flight after a step was so before, or has just been picked.
LEMMA FlightOrigin ==
  ASSUME Owned, Halted, [Next]_vars
  PROVE  \/ inFlight' \subseteq inFlight /\ (phase = "down" => inFlight' = {})
         \/ \E i \in Due(Without(pending, Expired)) :
               /\ pending' = Without(pending, Expired)
               /\ inFlight' = inFlight \cup {i}
               /\ phase # "down"
<1>1. ASSUME NEW w \in Workers, Work(w), ~PickDue(w)
      PROVE  inFlight' \subseteq inFlight /\ phase # "down"
  BY <1>1 DEF Work, AttemptStart, SendReturns, Finish, Delivered, Deferred,
     StampRefused, Reroute, GiveUp, Retry, Leave, Keep, Release, Up
<1>2. ASSUME NEW w \in Workers, PickDue(w)
      PROVE  /\ phase # "down"
             /\ \/ inFlight' = inFlight
                \/ \E i \in Due(Without(pending, Expired)) :
                      /\ pending' = Without(pending, Expired)
                      /\ inFlight' = inFlight \cup {i}
  BY <1>2 DEF PickDue, Up
<1>3. CASE UNCHANGED inFlight
  BY <1>3 DEF Halted
<1>4. ASSUME NEW in \in Inputs, Enqueue(in)
      PROVE  UNCHANGED inFlight
  BY <1>4 DEF Enqueue, workers
<1>5. CASE \/ EnqueueRefused \/ Persistence \/ Stop \/ Restart \/ NodeChange
           \/ Tick \/ UNCHANGED vars
  BY <1>3, <1>5
  DEF EnqueueRefused, Persistence, TakeKick, Flush, FinalFlush, TakeSnapshot,
      Save, SaveFailed, Stop, Restart, NodeChange, Tick, vars, workers
<1>6. CASE Crash \/ Exit
  BY <1>6 DEF Crash, Exit, Vanish
<1>7. QED
  BY <1>1, <1>2, <1>3, <1>4, <1>5, <1>6 DEF Next

\* Every step keeps the hold of AfterEarlier.
LEMMA HeldStep ==
  ASSUME Owned, Owned', Fresh, Halted, HeldInOrder, [Next]_vars
  PROVE  HeldInOrder'
<1> SUFFICES ASSUME NEW i \in inFlight', pending'[i].after,
                    NEW j \in DOMAIN pending', j < i,
                    pending'[j].rcpt = pending'[i].rcpt
             PROVE  FALSE
  BY DEF HeldInOrder
<1>0. /\ i \in DOMAIN pending' /\ i \in Nat /\ j \in Nat /\ nextId \in Nat
      /\ inFlight \subseteq DOMAIN pending
  <2>1. i \in DOMAIN pending' /\ inFlight \subseteq DOMAIN pending
    BY DEF Owned, SingleOwner
  <2>2. DOMAIN pending' \subseteq Nat
    BY DEF Owned, TypeOK, IsQueue, Ids
  <2>3. nextId \in Nat
    BY DEF Owned, TypeOK
  <2>4. QED
    BY <2>1, <2>2, <2>3
<1>1. CASE inFlight' \subseteq inFlight /\ (phase = "down" => inFlight' = {})
  <2>1. i \in inFlight /\ i \in DOMAIN pending /\ phase # "down"
    BY <1>0, <1>1
  <2>2. i < nextId
    BY <2>1 DEF Fresh
  <2>3. i # nextId /\ j # nextId
    BY <1>0, <2>2
  <2>4. /\ SameEntry(pending'[i], pending[i])
        /\ j \in DOMAIN pending /\ SameEntry(pending'[j], pending[j])
    BY <1>0, <2>1, <2>3, Origin
  <2>5. QED
    BY <2>1, <2>4 DEF HeldInOrder, SameEntry
<1>2. CASE \E k \in Due(Without(pending, Expired)) :
              /\ pending' = Without(pending, Expired)
              /\ inFlight' = inFlight \cup {k}
              /\ phase # "down"
  <2>1. PICK k \in Due(Without(pending, Expired)) :
              /\ pending' = Without(pending, Expired)
              /\ inFlight' = inFlight \cup {k}
    BY <1>2
  <2>2. CASE i = k
    BY <2>1, <2>2 DEF Due, HasEarlierFor
  <2>3. CASE i \in inFlight
    <3>1. /\ i \in DOMAIN pending /\ j \in DOMAIN pending
          /\ pending'[i] = pending[i] /\ pending'[j] = pending[j]
      BY <1>0, <2>1, LiveQueue
    <3>2. QED
      BY <2>3, <3>1 DEF HeldInOrder
  <2>4. QED
    BY <2>1, <2>2, <2>3
<1>3. QED
  BY <1>1, <1>2, FlightOrigin

-----------------------------------------------------------------------------
(* The theorems. *)

OrderInv == Owned /\ Fresh /\ Halted /\ HeldInOrder

\* The invariant holds of a first start.
LEMMA OrderInit == Init => OrderInv
<1> SUFFICES ASSUME Init PROVE OrderInv
  OBVIOUS
<1>1. \A w \in Workers : wpc[w] \notin Busy
  BY DEF Init, Busy, Sending, Outcomes
<1>2. TypeOK
  <2>1. /\ IsQueue(pending) /\ IsQueue(snap) /\ IsQueue(disk)
    BY EmptyQueue DEF Init
  <2>2. /\ nextId \in 1 .. MaxMessages + 1
        /\ restarts \in 0 .. MaxRestarts
        /\ saveFails \in 0 .. MaxSaveFailures
    BY LimitsAssumption DEF Init, LimitsAssumption
  <2>3. /\ wpc \in [Workers -> {"idle", "exited"} \cup Busy]
        /\ wmsg \in [Workers -> Ids \cup {0}]
    BY DEF Init
  <2>4. /\ fate \in [Ids -> {"none", "queued", "dropped"} \cup Ended]
        /\ fails \in [Ids -> Nat] /\ acks \in [Ids -> Nat]
    BY DEF Init
  <2>5. QED
    BY <2>1, <2>2, <2>3, <2>4 DEF Init, TypeOK
<1>3. SingleOwner
  BY <1>1 DEF Init, SingleOwner
<1>4. Counted
  BY <1>1 DEF Counted, Busy
<1>5. Fresh /\ Halted /\ HeldInOrder
  BY DEF Init, Fresh, Halted, HeldInOrder, Empty
<1>6. QED
  BY <1>2, <1>3, <1>4, <1>5 DEF OrderInv, Owned

\* The inductive invariant behind the three theorems below: types and
\* ownership, fresh message numbers (nextID), a halted process, and the hold of
\* AfterEarlier are kept by every step of outbound.go.
THEOREM OrderInvariant == Spec => []OrderInv
<1>1. ASSUME OrderInv, [Next]_vars
      PROVE  OrderInv'
  BY <1>1, OwnedStep, FreshStep, HaltedStep, HeldStep DEF OrderInv
<1>2. QED
  BY <1>1, OrderInit, PTL DEF Spec

\* Every variable of the queue keeps its type, whatever the workers, the
\* flush loop and the restarts do.
THEOREM TypeCorrect == Spec => []TypeOK
<1>1. OrderInv => TypeOK
  BY DEF OrderInv, Owned
<1>2. QED
  BY <1>1, OrderInvariant, PTL

\* No message is ever on two workers (pickDue and attempt, outbound.go:472-651).
THEOREM NoSharedMessage == Spec => []SingleOwner
<1>1. OrderInv => SingleOwner
  BY DEF OrderInv, Owned
<1>2. QED
  BY <1>1, OrderInvariant, PTL

\* A held message is sent only when everything queued before it for its
\* recipient is gone (outbound.go:120-139), across restarts too.
THEOREM HoldIsKept == Spec => []HeldInOrder
<1>1. OrderInv => HeldInOrder
  BY DEF OrderInv
<1>2. QED
  BY <1>1, OrderInvariant, PTL
=============================================================================
