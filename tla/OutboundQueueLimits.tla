------------------------ MODULE OutboundQueueLimits ------------------------
(***************************************************************************)
(* Theorems about OutboundQueue that count: entries, attempts and          *)
(* successes.  They build on OrderInv, the invariant of                    *)
(* OutboundQueueProofs, which says who owns a message.                     *)
(***************************************************************************)
EXTENDS OutboundQueueProofs

-----------------------------------------------------------------------------
(* The stage of a message. *)

\* Where the owner of message i is; no owner, no stage.
Stage(i) ==
    {wpc[w] : w \in {x \in Workers : wmsg[x] = i /\ wpc[x] \in Busy}}

\* A step that moves worker w alone.
Alone(w) ==
    \A v \in Workers \ {w} : wpc'[v] = wpc[v] /\ wmsg'[v] = wmsg[v]

\* Only the message of the worker that moves can change its stage.
LEMMA OtherStages ==
  ASSUME NEW w \in Workers, Alone(w), NEW i,
         wpc[w] \in Busy => wmsg[w] # i,
         wpc'[w] \in Busy => wmsg'[w] # i
  PROVE  Stage(i)' = Stage(i)
<1>1. ASSUME NEW v \in Workers
      PROVE  /\ (wmsg'[v] = i /\ wpc'[v] \in Busy)
                   <=> (wmsg[v] = i /\ wpc[v] \in Busy)
             /\ wmsg[v] = i /\ wpc[v] \in Busy => wpc'[v] = wpc[v]
  BY DEF Alone
<1>2. {x \in Workers : wmsg'[x] = i /\ wpc'[x] \in Busy} =
      {x \in Workers : wmsg[x] = i /\ wpc[x] \in Busy}
  BY <1>1
<1>3. QED
  BY <1>1, <1>2 DEF Stage

\* The stage of an owned message is where its one owner is.
LEMMA OwnStage ==
  ASSUME Owned, NEW w \in Workers, wpc[w] \in Busy
  PROVE  Stage(wmsg[w]) = {wpc[w]}
<1>1. \A v \in Workers : wpc[v] \in Busy /\ wmsg[v] = wmsg[w] => v = w
  BY DEF Owned, SingleOwner
<1>2. QED
  BY <1>1 DEF Stage

\* The owner moves on with its message.
LEMMA StageMoves ==
  ASSUME Owned, NEW w \in Workers, Alone(w), wpc[w] \in Busy,
         wpc'[w] \in Busy, wmsg'[w] = wmsg[w], NEW i
  PROVE  /\ i = wmsg[w] => Stage(i) = {wpc[w]} /\ Stage(i)' = {wpc'[w]}
         /\ i # wmsg[w] => Stage(i)' = Stage(i)
<1>1. \A v \in Workers : wpc'[v] \in Busy /\ wmsg'[v] = wmsg[w] => v = w
  BY DEF Owned, SingleOwner, Alone
<1>2. i = wmsg[w] => Stage(i)' = {wpc'[w]}
  BY <1>1 DEF Stage
<1>3. QED
  BY <1>2, OwnStage, OtherStages

\* The owner lets its message go.
LEMMA StageEnds ==
  ASSUME Owned, NEW w \in Workers, wpc[w] \in Busy, Release(w), NEW i
  PROVE  /\ i = wmsg[w] => Stage(i) = {wpc[w]} /\ Stage(i)' = {}
         /\ i # wmsg[w] => Stage(i)' = Stage(i)
<1>1. /\ wpc \in [Workers -> {"idle", "exited"} \cup Busy]
      /\ wmsg \in [Workers -> Ids \cup {0}]
  BY DEF Owned, TypeOK
<1>2. Alone(w) /\ wpc'[w] = Unemployed
  BY <1>1 DEF Release, Alone
<1>3. wpc'[w] \notin Busy
  BY <1>2 DEF Unemployed, Busy, Sending, Outcomes
<1>4. \A v \in Workers : wpc'[v] \in Busy => wmsg'[v] # wmsg[w]
  BY <1>2, <1>3 DEF Owned, SingleOwner, Alone
<1>5. i = wmsg[w] => Stage(i)' = {}
  BY <1>4 DEF Stage
<1>6. QED
  BY <1>2, <1>3, <1>5, OwnStage, OtherStages

\* A free message gets an owner.
LEMMA StageBegins ==
  ASSUME Owned, NEW w \in Workers, Alone(w), wpc[w] \notin Busy,
         wpc'[w] = "picked", wmsg'[w] \notin inFlight, NEW i
  PROVE  /\ i = wmsg'[w] => Stage(i) = {} /\ Stage(i)' = {"picked"}
         /\ i # wmsg'[w] => Stage(i)' = Stage(i)
<1>1. \A v \in Workers : wpc[v] \in Busy => wmsg[v] # wmsg'[w]
  BY DEF Owned, SingleOwner
<1>2. i = wmsg'[w] => Stage(i) = {}
  BY <1>1 DEF Stage
<1>3. \A v \in Workers : wpc'[v] \in Busy /\ wmsg'[v] = wmsg'[w] => v = w
  BY <1>1 DEF Alone
<1>4. "picked" \in Busy
  BY DEF Busy
<1>5. i = wmsg'[w] => Stage(i)' = {"picked"}
  BY <1>3, <1>4 DEF Stage
<1>6. QED
  BY <1>2, <1>5, OtherStages

\* Nobody owns what is not queued.
LEMMA NoStage ==
  ASSUME Owned, NEW i, i \notin DOMAIN pending
  PROVE  Stage(i) = {}
  BY DEF Owned, SingleOwner, Stage

-----------------------------------------------------------------------------
(* What one step does to one entry: its counter, its stage, and how often it  *)
(* has been sent.                                                             *)

\* No send of message i returns in this step.
Quiet(i) == fails'[i] = fails[i] /\ acks'[i] = acks[i]

\* The entry is left alone, or picked.
Waits(i) ==
    /\ i \in DOMAIN pending
    /\ pending'[i].attempts = pending[i].attempts
    /\ \/ Stage(i)' = Stage(i)
       \/ Stage(i) = {} /\ Stage(i)' = {"picked"}
    /\ Quiet(i)
    /\ restarts' = restarts

\* The entry is new.
Arrives(i) ==
    /\ i = nextId
    /\ pending'[i].attempts = 0
    /\ Quiet(i)
    /\ restarts' = restarts

\* Its send starts, or is turned away.
Starts(i) ==
    /\ i \in DOMAIN pending
    /\ pending'[i].attempts = pending[i].attempts + 1
    /\ Stage(i) = {"picked"}
    /\ \E s \in Sending \cup {"defer"} : Stage(i)' = {s}
    /\ Quiet(i)
    /\ restarts' = restarts

\* Its send returns.
Returns(i) ==
    /\ i \in DOMAIN pending
    /\ pending'[i] = pending[i]
    /\ \E s \in Sending : Stage(i) = {s}
    /\ \E r \in Results :
          /\ Stage(i)' = {r}
          /\ fails'[i] = fails[i] + (IF r \in {"fail", "unknown"} THEN 1 ELSE 0)
          /\ acks'[i] = acks[i] + (IF r = "ok" THEN 1 ELSE 0)
    /\ restarts' = restarts

\* It goes back to wait for its next send.
PutBack(i) ==
    /\ i \in DOMAIN pending
    /\ \/ Stage(i) = {"defer"} /\ pending'[i].attempts = pending[i].attempts - 1
       \/ /\ Stage(i) \in {{"fail"}, {"unknown"}}
          /\ pending'[i].attempts = 0
       \/ /\ Stage(i) \in {{"fail"}, {"unknown"}}
          /\ pending'[i].attempts = pending[i].attempts
          /\ pending[i].attempts < MaxAttempts
    /\ Stage(i)' = {}
    /\ Quiet(i)
    /\ restarts' = restarts

\* It comes out of the file.
Reloads(i) ==
    /\ phase = "down"
    /\ i \in DOMAIN disk
    /\ pending'[i].attempts = disk[i].attempts
    /\ Quiet(i)
    /\ restarts' = restarts + 1

EntryStep(i) ==
    Waits(i) \/ Arrives(i) \/ Starts(i) \/ Returns(i) \/ PutBack(i) \/ Reloads(i)

\* An entry no worker moves waits.
LEMMA Unmoved ==
  ASSUME NEW i \in DOMAIN pending,
         pending'[i].attempts = pending[i].attempts,
         UNCHANGED <<wpc, wmsg, fails, acks, restarts>>
  PROVE  EntryStep(i)
<1>1. Stage(i)' = Stage(i)
  BY DEF Stage
<1>2. QED
  BY <1>1 DEF EntryStep, Waits, Quiet

\* pickDue
LEMMA PickEntry ==
  ASSUME OrderInv, NEW w \in Workers, PickDue(w), NEW i \in DOMAIN pending'
  PROVE  EntryStep(i)
<1> DEFINE live == Without(pending, Expired)
<1>1. Owned /\ wpc[w] = "idle" /\ wpc[w] \notin Busy
  BY DEF OrderInv, PickDue, Busy, Sending, Outcomes
<1>2. /\ wpc \in [Workers -> {"idle", "exited"} \cup Busy]
      /\ wmsg \in [Workers -> Ids \cup {0}]
  BY <1>1 DEF Owned, TypeOK
<1>3. i \in DOMAIN pending /\ pending'[i] = pending[i]
  BY <1>1, LiveQueue DEF PickDue
<1>4. Quiet(i) /\ restarts' = restarts
  BY DEF PickDue, Quiet, env
<1>5. CASE wpc' = [wpc EXCEPT ![w] = Unemployed] /\ UNCHANGED wmsg
  <2>1. Alone(w) /\ wpc'[w] \notin Busy
    BY <1>2, <1>5 DEF Alone, Unemployed, Busy, Sending, Outcomes
  <2>2. Stage(i)' = Stage(i)
    BY <1>1, <2>1, OtherStages
  <2>3. QED
    BY <1>3, <1>4, <2>2 DEF EntryStep, Waits
<1>6. ASSUME NEW k \in Due(live),
             wpc' = [wpc EXCEPT ![w] = "picked"],
             wmsg' = [wmsg EXCEPT ![w] = k]
      PROVE  EntryStep(i)
  <2>1. k \notin inFlight
    BY <1>1, LiveQueue
  <2>2. Alone(w) /\ wpc'[w] = "picked" /\ wmsg'[w] = k
    BY <1>2, <1>6 DEF Alone
  <2>3. \/ Stage(i)' = Stage(i)
        \/ Stage(i) = {} /\ Stage(i)' = {"picked"}
    BY <1>1, <2>1, <2>2, StageBegins
  <2>4. QED
    BY <1>3, <1>4, <2>3 DEF EntryStep, Waits
<1>7. QED
  BY <1>5, <1>6 DEF PickDue

\* attempt, up to the send.
LEMMA StartEntry ==
  ASSUME OrderInv, NEW w \in Workers, AttemptStart(w), NEW i \in DOMAIN pending'
  PROVE  EntryStep(i)
<1>1. /\ Owned /\ wpc[w] = "picked" /\ wpc[w] \in Busy
      /\ wmsg[w] \in DOMAIN pending
      /\ wpc \in [Workers -> {"idle", "exited"} \cup Busy]
      /\ UNCHANGED <<wmsg, fails, acks, restarts>>
  BY DEF OrderInv, Owned, SingleOwner, TypeOK, AttemptStart, Busy, env, history
<1>2. PICK s \in Sending \cup {"defer"} : wpc' = [wpc EXCEPT ![w] = s]
  BY DEF AttemptStart, SendLXMF, SendLXMFPropagated, Sending
<1>3. Alone(w) /\ wpc'[w] = s /\ s \in Busy
  BY <1>1, <1>2 DEF Alone, Busy, Outcomes
<1>4. /\ i = wmsg[w] => Stage(i) = {"picked"} /\ Stage(i)' = {s}
      /\ i # wmsg[w] => Stage(i)' = Stage(i)
  BY <1>1, <1>3, StageMoves
<1>5. pending[wmsg[w]] \in Message
  BY <1>1 DEF Owned, TypeOK, IsQueue
<1>6. /\ i \in DOMAIN pending
      /\ i = wmsg[w] => pending'[i].attempts = pending[i].attempts + 1
      /\ i # wmsg[w] => pending'[i] = pending[i]
  BY <1>1, <1>5 DEF Owned, TypeOK, IsQueue, AttemptStart, CountedEntry, Message
<1>7. Quiet(i) /\ restarts' = restarts
  BY <1>1 DEF Quiet
<1>8. CASE i = wmsg[w]
  BY <1>4, <1>6, <1>7, <1>8 DEF EntryStep, Starts
<1>9. CASE i # wmsg[w]
  BY <1>4, <1>6, <1>7, <1>9 DEF EntryStep, Waits
<1>10. QED
  BY <1>8, <1>9

\* The send returns.
LEMMA ReturnEntry ==
  ASSUME OrderInv, NEW w \in Workers, SendReturns(w), NEW i \in DOMAIN pending'
  PROVE  EntryStep(i)
<1>1. /\ Owned /\ wpc[w] \in Sending /\ wpc[w] \in Busy
      /\ wmsg[w] \in DOMAIN pending /\ wmsg[w] \in Ids
      /\ wpc \in [Workers -> {"idle", "exited"} \cup Busy]
      /\ fails \in [Ids -> Nat] /\ acks \in [Ids -> Nat]
      /\ DOMAIN pending \subseteq Ids
      /\ UNCHANGED <<pending, wmsg, restarts>>
  BY DEF OrderInv, Owned, SingleOwner, TypeOK, IsQueue, SendReturns, Busy, env
<1>2. PICK r \in Results :
         /\ wpc' = [wpc EXCEPT ![w] = r]
         /\ acks' = IF r = "ok" THEN [acks EXCEPT ![wmsg[w]] = @ + 1] ELSE acks
         /\ fails' = IF r \in {"fail", "unknown"}
                     THEN [fails EXCEPT ![wmsg[w]] = @ + 1] ELSE fails
  BY DEF SendReturns
<1>3. Alone(w) /\ wpc'[w] = r /\ r \in Busy
  BY <1>1, <1>2, InputsAssumption DEF Alone, Busy, Outcomes, InputsAssumption
<1>4. /\ i = wmsg[w] => Stage(i) = {wpc[w]} /\ Stage(i)' = {r}
      /\ i # wmsg[w] => Stage(i)' = Stage(i)
  BY <1>1, <1>3, StageMoves
<1>5. CASE i = wmsg[w]
  <2>1. /\ fails'[i] = fails[i] + (IF r \in {"fail", "unknown"} THEN 1 ELSE 0)
        /\ acks'[i] = acks[i] + (IF r = "ok" THEN 1 ELSE 0)
    BY <1>1, <1>2, <1>5
  <2>2. QED
    BY <1>1, <1>4, <1>5, <2>1 DEF EntryStep, Returns
<1>6. CASE i # wmsg[w]
  <2>1. Quiet(i)
    BY <1>1, <1>2, <1>6 DEF Quiet
  <2>2. QED
    BY <1>1, <1>4, <1>6, <2>1 DEF EntryStep, Waits
<1>7. QED
  BY <1>5, <1>6

\* attempt, after the send.
LEMMA FinishEntry ==
  ASSUME OrderInv, NEW w \in Workers, Finish(w), NEW i \in DOMAIN pending'
  PROVE  EntryStep(i)
<1>1. /\ Owned /\ wpc[w] \in Outcomes /\ wpc[w] \in Busy
      /\ Release(w)
  BY DEF OrderInv, Finish, Delivered, Deferred, StampRefused, Reroute, GiveUp,
         Retry, Leave, Keep, Outcomes, Busy
<1>2. wmsg[w] \in DOMAIN pending /\ IsQueue(pending)
  BY <1>1 DEF Owned, SingleOwner, TypeOK
<1> DEFINE left == Without(pending, {wmsg[w]})
<1>0. /\ DOMAIN left = DOMAIN pending \ {wmsg[w]}
      /\ \A j \in DOMAIN pending \ {wmsg[w]} : left[j] = pending[j]
  BY <1>2, WithoutQueue
<1>3. /\ i = wmsg[w] => Stage(i) = {wpc[w]} /\ Stage(i)' = {}
      /\ i # wmsg[w] => Stage(i)' = Stage(i)
  BY <1>1, StageEnds
<1>4. Quiet(i) /\ restarts' = restarts
  BY <1>1 DEF Release, Quiet, env
<1>5. /\ i \in DOMAIN pending
      /\ i # wmsg[w] => pending'[i] = pending[i]
  <2>1. CASE pending' = left
    BY <1>0, <2>1
  <2>2. CASE \E m : Keep(w, m)
    BY <1>2, <2>2 DEF Keep, IsQueue
  <2>3. QED
    BY <2>1, <2>2 DEF Finish, Delivered, Deferred, StampRefused, Reroute,
                      GiveUp, Retry, Leave
<1>6. CASE i # wmsg[w]
  BY <1>3, <1>4, <1>5, <1>6 DEF EntryStep, Waits
<1>7. CASE i = wmsg[w]
  <2> DEFINE m == pending[i]
  <2>1. m \in Message
    BY <1>2, <1>7 DEF IsQueue
  <2>2. ASSUME NEW n, Keep(w, n)
        PROVE  pending'[i] = n
    BY <1>2, <1>7, <2>2 DEF Keep, IsQueue
  <2>3. pending' # left
    BY <1>0, <1>7
  <2>4. CASE Deferred(w)
    <3>1. pending'[i].attempts = m.attempts - 1
      BY <1>7, <2>1, <2>2, <2>4 DEF Deferred, DeferredEntry, Message
    <3>2. QED
      BY <1>3, <1>4, <1>5, <1>7, <2>4, <3>1 DEF EntryStep, PutBack, Deferred
  <2>5. CASE Reroute(w)
    <3>1. pending'[i].attempts = 0
      BY <1>7, <2>1, <2>2, <2>5 DEF Reroute, ReroutedEntry, Message
    <3>2. QED
      BY <1>3, <1>4, <1>5, <1>7, <2>5, <3>1 DEF EntryStep, PutBack, Reroute
  <2>6. CASE Retry(w)
    <3>1. pending'[i].attempts = m.attempts
      BY <1>7, <2>1, <2>2, <2>6 DEF Retry, Message
    <3>2. m.attempts < MaxAttempts
      BY <1>7, <2>1, <2>6, LimitsAssumption
      DEF Retry, Exhausted, Message, LimitsAssumption
    <3>3. QED
      BY <1>3, <1>4, <1>5, <1>7, <2>6, <3>1, <3>2 DEF EntryStep, PutBack, Retry
  <2>7. QED
    BY <2>3, <2>4, <2>5, <2>6 DEF Finish, Delivered, StampRefused, GiveUp, Leave
<1>8. QED
  BY <1>6, <1>7

\* Every entry of the next queue has made one of these steps.
LEMMA EntrySteps ==
  ASSUME OrderInv, [Next]_vars, NEW i \in DOMAIN pending'
  PROVE  EntryStep(i)
<1>1. IsQueue(pending) /\ IsQueue(disk)
  BY DEF OrderInv, Owned, TypeOK
<1>2. ASSUME NEW in \in Inputs, Enqueue(in)
      PROVE  EntryStep(i)
  <2>1. UNCHANGED <<wpc, wmsg, fails, acks, restarts>>
    BY <1>2 DEF Enqueue, env, workers
  <2>2. CASE i = nextId
    <3>1. pending'[i].attempts = 0
      BY <1>2, <2>2 DEF Enqueue, NewMessage
    <3>2. QED
      BY <2>1, <2>2, <3>1 DEF EntryStep, Arrives, Quiet
  <2>3. CASE i # nextId
    <3>1. i \in DOMAIN pending /\ pending'[i] = pending[i]
      BY <1>2, <2>3 DEF Enqueue
    <3>2. QED
      BY <2>1, <3>1, Unmoved
  <2>4. QED
    BY <2>2, <2>3
<1>3. ASSUME NEW w \in Workers, Work(w)
      PROVE  EntryStep(i)
  BY <1>3, PickEntry, StartEntry, ReturnEntry, FinishEntry DEF Work
<1>4. CASE EnqueueRefused \/ Persistence \/ NodeChange \/ UNCHANGED vars
  <2>1. UNCHANGED <<pending, wpc, wmsg, fails, acks, restarts>>
    BY <1>4 DEF EnqueueRefused, Persistence, TakeKick, Flush, FinalFlush,
       TakeSnapshot, Save, SaveFailed, NodeChange, vars, env, workers, history
  <2>2. QED
    BY <2>1, Unmoved
<1>5. CASE Crash \/ Exit
  BY <1>5 DEF Crash, Exit, Vanish, Empty
<1>6. CASE Stop
  <2>1. UNCHANGED <<pending, wmsg, fails, acks, restarts>>
    BY <1>6 DEF Stop, history
  <2>2. ASSUME NEW v \in Workers
        PROVE  /\ (wpc'[v] \in Busy) <=> (wpc[v] \in Busy)
               /\ wpc'[v] \in Busy => wpc'[v] = wpc[v]
    BY <1>6 DEF Stop, Busy, Sending, Outcomes
  <2>3. Stage(i)' = Stage(i)
    <3>1. {x \in Workers : wmsg'[x] = i /\ wpc'[x] \in Busy} =
          {x \in Workers : wmsg[x] = i /\ wpc[x] \in Busy}
      BY <2>1, <2>2
    <3>2. QED
      BY <2>2, <3>1 DEF Stage
  <2>4. QED
    BY <2>1, <2>3 DEF EntryStep, Waits, Quiet
<1>7. CASE Restart
  <2>1. i \in DOMAIN disk /\ pending'[i].attempts = disk[i].attempts
    BY <1>1, <1>7, LoadedQueue DEF Restart, Loaded, IsQueue, Message
  <2>2. QED
    BY <1>7, <2>1 DEF EntryStep, Reloads, Restart, Quiet, history
<1>8. CASE Tick
  <2>1. i \in DOMAIN pending
    BY <1>1, <1>8, AgedQueue DEF Tick
  <2>2. pending[i] \in Message
    BY <1>1, <2>1 DEF IsQueue
  <2>3. pending'[i].attempts = pending[i].attempts
    BY <1>8, <2>1, <2>2 DEF Tick, Aged, Message
  <2>4. UNCHANGED <<wpc, wmsg, fails, acks, restarts>>
    BY <1>8 DEF Tick, env, workers, history
  <2>5. QED
    BY <2>1, <2>3, <2>4, Unmoved
<1>9. QED
  BY <1>2, <1>3, <1>4, <1>5, <1>6, <1>7, <1>8 DEF Next

\* Sends are only added to a message's history, and a success only while the
\* message is queued.
LEMMA HistorySteps ==
  ASSUME OrderInv, [Next]_vars, NEW i \in Ids
  PROVE  /\ fails'[i] >= fails[i]
         /\ i \notin DOMAIN pending' => acks'[i] = acks[i]
         /\ fate'[i] = "failed" =>
               \/ fate[i] = "failed"
               \/ /\ i \in DOMAIN pending
                  /\ Stage(i) \in {{"fail"}, {"unknown"}}
                  /\ pending[i].attempts >= MaxAttempts
                  /\ fails'[i] = fails[i] /\ restarts' = restarts
<1>0. /\ Owned
      /\ fails \in [Ids -> Nat] /\ acks \in [Ids -> Nat] /\ restarts \in Nat
      /\ fate \in [Ids -> {"none", "queued", "dropped"} \cup Ended]
      /\ wmsg \in [Workers -> Ids \cup {0}]
  BY LimitsAssumption DEF OrderInv, Owned, TypeOK, LimitsAssumption
<1>1. CASE UNCHANGED <<fate, fails, acks, restarts>>
  BY <1>0, <1>1
<1>2. ASSUME NEW in \in Inputs, Enqueue(in) \/ EnqueueRefused
      PROVE  /\ UNCHANGED <<fails, acks, restarts>>
             /\ fate'[i] = "failed" => fate[i] = "failed"
  BY <1>0, <1>2 DEF Enqueue, EnqueueRefused, env
<1>3. ASSUME NEW w \in Workers, PickDue(w)
      PROVE  /\ UNCHANGED <<fails, acks, restarts>>
             /\ fate'[i] = "failed" => fate[i] = "failed"
  BY <1>3 DEF PickDue, env
<1>4. ASSUME NEW w \in Workers, AttemptStart(w)
      PROVE  UNCHANGED <<fate, fails, acks, restarts>>
  BY <1>4 DEF AttemptStart, env, history
<1>5. ASSUME NEW w \in Workers, SendReturns(w)
      PROVE  /\ UNCHANGED <<fate, restarts>>
             /\ fails'[i] >= fails[i]
             /\ i \notin DOMAIN pending' => acks'[i] = acks[i]
  <2>1. wmsg[w] \in DOMAIN pending /\ UNCHANGED <<pending, fate, restarts>>
    BY <1>0, <1>5 DEF Owned, SingleOwner, SendReturns, Busy, env
  <2>2. PICK r \in Results :
           /\ acks' = IF r = "ok" THEN [acks EXCEPT ![wmsg[w]] = @ + 1] ELSE acks
           /\ fails' = IF r \in {"fail", "unknown"}
                       THEN [fails EXCEPT ![wmsg[w]] = @ + 1] ELSE fails
    BY <1>5 DEF SendReturns
  <2>3. fails[i] \in Nat /\ (fails'[i] = fails[i] \/ fails'[i] = fails[i] + 1)
    BY <1>0, <2>2
  <2>4. i # wmsg[w] => acks'[i] = acks[i]
    BY <1>0, <2>2
  <2>5. QED
    BY <2>1, <2>3, <2>4
<1>6. ASSUME NEW w \in Workers, Finish(w)
      PROVE  /\ UNCHANGED <<fails, acks, restarts>>
             /\ fate'[i] = "failed" =>
                   \/ fate[i] = "failed"
                   \/ /\ i \in DOMAIN pending
                      /\ Stage(i) \in {{"fail"}, {"unknown"}}
                      /\ pending[i].attempts >= MaxAttempts
  <2>1. Release(w) /\ UNCHANGED <<fails, acks, restarts>> /\ wpc[w] \in Busy
    BY <1>6 DEF Finish, Delivered, Deferred, StampRefused, Reroute, GiveUp,
       Retry, Leave, Keep, Release, env, Busy, Outcomes
  <2>2. CASE UNCHANGED fate
    BY <2>1, <2>2
  <2>3. ASSUME NEW end, end # "failed", fate' = [fate EXCEPT ![wmsg[w]] = end]
        PROVE  fate'[i] = "failed" => fate[i] = "failed"
    BY <1>0, <2>3
  <2>4. CASE Delivered(w) \/ StampRefused(w)
    BY <2>1, <2>3, <2>4 DEF Delivered, StampRefused, Leave
  <2>5. CASE Deferred(w) \/ Reroute(w) \/ Retry(w)
    BY <2>2, <2>5 DEF Deferred, Reroute, Retry, Keep
  <2>6. CASE GiveUp(w)
    <3>1. i # wmsg[w] => fate'[i] = fate[i]
      BY <1>0, <2>6 DEF GiveUp, Leave
    <3>2. wmsg[w] \in DOMAIN pending
      BY <1>0, <2>1 DEF Owned, SingleOwner
    <3>3. Stage(wmsg[w]) = {wpc[w]}
      BY <1>0, <2>1, OwnStage
    <3>4. Exhausted(pending[wmsg[w]]) /\ wpc[w] \in {"fail", "unknown"}
      BY <2>6 DEF GiveUp
    <3>5. QED
      BY <2>1, <3>1, <3>2, <3>3, <3>4 DEF Exhausted
  <2>7. QED
    BY <1>6, <2>4, <2>5, <2>6 DEF Finish
<1>7. CASE \/ Persistence \/ Crash \/ Exit \/ Stop \/ NodeChange \/ Tick
           \/ UNCHANGED vars
  <2>1. UNCHANGED <<fate, fails, acks, restarts>>
    BY <1>7 DEF Persistence, TakeKick, Flush, FinalFlush, TakeSnapshot, Save,
       SaveFailed, Crash, Exit, Vanish, Stop, NodeChange, Tick, vars, env, history
  <2>2. QED
    BY <1>1, <2>1
<1>8. CASE Restart
  BY <1>0, <1>8 DEF Restart, history
<1>9. QED
  <2>1. ASSUME NEW w \in Workers, Work(w)
        PROVE  /\ fails'[i] >= fails[i]
               /\ i \notin DOMAIN pending' => acks'[i] = acks[i]
               /\ restarts' = restarts
               /\ fate'[i] = "failed" =>
                     \/ fate[i] = "failed"
                     \/ /\ i \in DOMAIN pending
                        /\ Stage(i) \in {{"fail"}, {"unknown"}}
                        /\ pending[i].attempts >= MaxAttempts
                        /\ fails'[i] = fails[i] /\ restarts' = restarts
    BY <1>0, <1>1, <1>3, <1>4, <1>5, <1>6, <2>1 DEF Work
  <2>2. ASSUME NEW in \in Inputs, Enqueue(in) \/ EnqueueRefused
        PROVE  /\ fails'[i] >= fails[i] /\ acks' = acks /\ restarts' = restarts
               /\ fate'[i] = "failed" => fate[i] = "failed"
    BY <1>0, <1>2, <2>2
  <2>3. CASE EnqueueRefused
    BY <1>0, <2>3 DEF EnqueueRefused, env
  <2>4. QED
    BY <1>7, <1>8, <2>1, <2>2, <2>3 DEF Next

\* Restarts are counted one by one.
LEMMA RestartsGrow ==
  ASSUME [Next]_vars
  PROVE  restarts' \in {restarts, restarts + 1}
<1>1. ASSUME NEW in \in Inputs, Enqueue(in)
      PROVE  restarts' = restarts
  BY <1>1 DEF Enqueue, env
<1>2. ASSUME NEW w \in Workers, Work(w)
      PROVE  restarts' = restarts
  BY <1>2 DEF Work, PickDue, AttemptStart, SendReturns, Finish, Delivered,
     Deferred, StampRefused, Reroute, GiveUp, Retry, Leave, Keep, Release, env
<1>3. CASE \/ EnqueueRefused \/ Persistence \/ Crash \/ Exit \/ Stop
           \/ NodeChange \/ Tick \/ UNCHANGED vars
  BY <1>3 DEF EnqueueRefused, Persistence, TakeKick, Flush, FinalFlush,
     TakeSnapshot, Save, SaveFailed, Crash, Exit, Vanish, Stop, NodeChange, Tick,
     vars, env
<1>4. CASE Restart
  BY <1>4 DEF Restart
<1>5. QED
  BY <1>1, <1>2, <1>3, <1>4 DEF Next

\* The entries of the snapshot are those of the queue, without their bubbles,
\* and the file has those of a snapshot; none of them is counted again.
LEMMA CopySteps ==
  ASSUME OrderInv, [Next]_vars
  PROVE  /\ \A i \in DOMAIN snap' :
               \/ /\ i \in DOMAIN snap
                  /\ snap'[i].attempts = snap[i].attempts
                  /\ SameEntry(snap'[i], snap[i])
               \/ /\ i \in DOMAIN pending
                  /\ snap'[i].attempts = pending[i].attempts
                  /\ SameEntry(snap'[i], [pending[i] EXCEPT !.bubble = FALSE])
         /\ \A i \in DOMAIN disk' :
               \/ /\ i \in DOMAIN disk
                  /\ disk'[i].attempts = disk[i].attempts
                  /\ SameEntry(disk'[i], disk[i])
               \/ /\ i \in DOMAIN snap
                  /\ disk'[i] = snap[i]
<1>0. /\ IsQueue(pending) /\ IsQueue(snap) /\ IsQueue(disk)
      /\ \A i \in DOMAIN pending : pending[i] \in Message
      /\ \A i \in DOMAIN snap : snap[i] \in Message
      /\ \A i \in DOMAIN disk : disk[i] \in Message
  BY DEF OrderInv, Owned, TypeOK, IsQueue
<1>1. CASE UNCHANGED <<snap, disk>>
  BY <1>1 DEF SameEntry
<1>2. ASSUME NEW in \in Inputs, Enqueue(in)
      PROVE  UNCHANGED <<snap, disk>>
  BY <1>2 DEF Enqueue, flusher
<1>3. ASSUME NEW w \in Workers, Work(w)
      PROVE  UNCHANGED <<snap, disk>>
  BY <1>3 DEF Work, PickDue, AttemptStart, SendReturns, Finish, Delivered,
     Deferred, StampRefused, Reroute, GiveUp, Retry, Leave, Keep, Release, flusher
<1>4. CASE EnqueueRefused \/ TakeKick \/ Stop \/ Restart \/ NodeChange
           \/ UNCHANGED vars
  BY <1>1, <1>4 DEF EnqueueRefused, TakeKick, Stop, Restart, NodeChange, vars,
     flusher
<1>5. CASE Flush \/ FinalFlush
  <2>1. UNCHANGED disk /\ (snap' = snap \/ snap' = Stored(pending))
    BY <1>5 DEF Flush, FinalFlush, TakeSnapshot
  <2>2. CASE snap' = Stored(pending)
    BY <1>0, <2>1, <2>2 DEF Stored, Message, SameEntry
  <2>3. QED
    BY <1>1, <2>1, <2>2
<1>6. CASE Save \/ SaveFailed
  BY <1>6 DEF Save, SaveFailed, Empty, SameEntry
<1>7. CASE Crash \/ Exit
  BY <1>7 DEF Crash, Exit, Vanish, Empty, SameEntry
<1>8. CASE Tick
  <2>1. ASSUME NEW q, \A i \in DOMAIN q : q[i] \in Message
        PROVE  \A i \in DOMAIN Aged(q) :
                  /\ i \in DOMAIN q
                  /\ Aged(q)[i].attempts = q[i].attempts
                  /\ SameEntry(Aged(q)[i], q[i])
    BY <2>1 DEF Aged, Message, SameEntry
  <2>2. QED
    BY <1>0, <1>8, <2>1 DEF Tick
<1>9. QED
  BY <1>1, <1>2, <1>3, <1>4, <1>5, <1>6, <1>7, <1>8 DEF Next, Persistence

-----------------------------------------------------------------------------
(* Attempts.  A send may be counted in the file before it is over, so each    *)
(* restart can repeat one; what is loaded is below the bound again because    *)
(* the bound went up with the restart.                                        *)

\* An entry that is not being sent has an attempt left; the copies may hold
\* the count of one that is.
AttemptsLeft ==
    /\ \A i \in DOMAIN pending :
          Stage(i) \subseteq {"picked"}
             => pending[i].attempts < MaxAttempts + restarts
    /\ \A i \in DOMAIN snap : snap[i].attempts <= MaxAttempts + restarts
    /\ \A i \in DOMAIN disk : disk[i].attempts <= MaxAttempts + restarts

\* Every attempt but the one under way has really failed, or a restart has
\* repeated it.
AttemptsEarned ==
    /\ \A i \in DOMAIN pending :
          /\ pending[i].attempts <= fails[i] + restarts + 1
          /\ Stage(i) \subseteq {"picked", "fail", "unknown"}
                => pending[i].attempts <= fails[i] + restarts
    /\ \A i \in DOMAIN snap : snap[i].attempts <= fails[i] + restarts + 1
    /\ \A i \in DOMAIN disk : disk[i].attempts <= fails[i] + restarts + 1

\* Only a message whose success is being recorded has had one in this run.
AcksLeft ==
    /\ \A i \in DOMAIN pending : Stage(i) # {"ok"} => acks[i] <= restarts
    /\ \A i \in Ids : i >= nextId => acks[i] = 0

\* The counters are numbers.
LEMMA Counters ==
  ASSUME OrderInv
  PROVE  /\ MaxAttempts \in Nat \ {0} /\ restarts \in Nat /\ nextId \in Nat
         /\ \A i \in Ids : fails[i] \in Nat /\ acks[i] \in Nat
         /\ \A i \in DOMAIN pending : i \in Ids /\ pending[i].attempts \in Nat
         /\ \A i \in DOMAIN snap : i \in Ids /\ snap[i].attempts \in Nat
         /\ \A i \in DOMAIN disk : i \in Ids /\ disk[i].attempts \in Nat
         /\ Ids \subseteq Nat
<1>1. MaxAttempts \in Nat \ {0} /\ MaxRestarts \in Nat /\ MaxMessages \in Nat
  BY LimitsAssumption DEF LimitsAssumption
<1>2. restarts \in Nat /\ nextId \in Nat
  BY <1>1 DEF OrderInv, Owned, TypeOK
<1>3. \A i \in Ids : fails[i] \in Nat /\ acks[i] \in Nat
  BY DEF OrderInv, Owned, TypeOK
<1>4. ASSUME NEW q, IsQueue(q)
      PROVE  \A i \in DOMAIN q : i \in Ids /\ q[i].attempts \in Nat
  BY <1>4 DEF IsQueue, Message
<1>5. IsQueue(pending) /\ IsQueue(snap) /\ IsQueue(disk)
  BY DEF OrderInv, Owned, TypeOK
<1>6. QED
  BY <1>1, <1>2, <1>3, <1>4, <1>5 DEF Ids

\* The attempts of every entry and copy stay within the budget.
LEMMA AttemptsLeftStep ==
  ASSUME OrderInv, OrderInv', BudgetHeld, AttemptsLeft, [Next]_vars
  PROVE  BudgetHeld' /\ AttemptsLeft'
<1>1. ASSUME NEW i \in DOMAIN pending'
      PROVE  /\ pending'[i].attempts <= MaxAttempts + restarts'
             /\ Stage(i)' \subseteq {"picked"}
                   => pending'[i].attempts < MaxAttempts + restarts'
  <2>1. CASE Waits(i)
    BY <2>1, Counters DEF Waits, BudgetHeld, AttemptsLeft
  <2>2. CASE Arrives(i)
    BY <2>2, Counters DEF Arrives
  <2>3. CASE Starts(i)
    <3>1. Stage(i) \subseteq {"picked"} /\ ~(Stage(i)' \subseteq {"picked"})
      BY <2>3 DEF Starts, Sending
    <3>2. QED
      BY <2>3, <3>1, Counters DEF Starts, AttemptsLeft
  <2>4. CASE Returns(i)
    <3>1. ~(Stage(i)' \subseteq {"picked"})
      BY <2>4, InputsAssumption DEF Returns, InputsAssumption
    <3>2. QED
      BY <2>4, <3>1, Counters DEF Returns, BudgetHeld
  <2>5. CASE PutBack(i)
    BY <2>5, Counters DEF PutBack, BudgetHeld
  <2>6. CASE Reloads(i)
    BY <2>6, Counters DEF Reloads, AttemptsLeft
  <2>7. QED
    BY <2>1, <2>2, <2>3, <2>4, <2>5, <2>6, EntrySteps DEF EntryStep
<1>2. restarts \in Nat /\ restarts' \in {restarts, restarts + 1}
  BY RestartsGrow, Counters
<1>3. ASSUME NEW i \in DOMAIN snap'
      PROVE  snap'[i].attempts <= MaxAttempts + restarts'
  <2>1. CASE i \in DOMAIN snap /\ snap'[i].attempts = snap[i].attempts
    BY <1>2, <2>1, Counters DEF AttemptsLeft
  <2>2. CASE i \in DOMAIN pending /\ snap'[i].attempts = pending[i].attempts
    BY <1>2, <2>2, Counters DEF BudgetHeld
  <2>3. QED
    BY <2>1, <2>2, CopySteps
<1>4. ASSUME NEW i \in DOMAIN disk'
      PROVE  disk'[i].attempts <= MaxAttempts + restarts'
  <2>1. CASE i \in DOMAIN disk /\ disk'[i].attempts = disk[i].attempts
    BY <1>2, <2>1, Counters DEF AttemptsLeft
  <2>2. CASE i \in DOMAIN snap /\ disk'[i] = snap[i]
    BY <1>2, <2>2, Counters DEF AttemptsLeft
  <2>3. QED
    BY <2>1, <2>2, CopySteps
<1>5. QED
  BY <1>1, <1>3, <1>4 DEF BudgetHeld, AttemptsLeft

\* The attempts of every entry and copy stay earned.
LEMMA AttemptsEarnedStep ==
  ASSUME OrderInv, OrderInv', AttemptsEarned, GiveUpEarned, [Next]_vars
  PROVE  AttemptsEarned' /\ GiveUpEarned'
<1>1. ASSUME NEW i \in Ids
      PROVE  /\ fails[i] \in Nat /\ fails'[i] \in Nat /\ fails'[i] >= fails[i]
             /\ restarts \in Nat /\ restarts' \in Nat /\ restarts' >= restarts
  <2>1. fails[i] \in Nat /\ restarts \in Nat /\ fails'[i] >= fails[i]
    BY Counters, HistorySteps
  <2>2. fails'[i] \in Nat
    BY DEF OrderInv, Owned, TypeOK
  <2>3. QED
    BY <2>1, <2>2, RestartsGrow
<1>2. ASSUME NEW i \in DOMAIN pending'
      PROVE  /\ pending'[i].attempts <= fails'[i] + restarts' + 1
             /\ Stage(i)' \subseteq {"picked", "fail", "unknown"}
                   => pending'[i].attempts <= fails'[i] + restarts'
  <2>0. i \in Ids
    BY DEF OrderInv, Owned, TypeOK, IsQueue
  <2>1. CASE Waits(i)
    BY <1>1, <2>0, <2>1, Counters DEF Waits, Quiet, AttemptsEarned
  <2>2. CASE Arrives(i)
    BY <1>1, <2>0, <2>2, Counters DEF Arrives, Quiet
  <2>3. CASE Starts(i)
    <3>1. /\ Stage(i) \subseteq {"picked", "fail", "unknown"}
          /\ ~(Stage(i)' \subseteq {"picked", "fail", "unknown"})
      BY <2>3 DEF Starts, Sending
    <3>2. QED
      BY <1>1, <2>0, <2>3, <3>1, Counters DEF Starts, Quiet, AttemptsEarned
  <2>4. CASE Returns(i)
    <3>1. PICK r \in Results :
             /\ Stage(i)' = {r}
             /\ fails'[i] = fails[i] + (IF r \in {"fail", "unknown"} THEN 1 ELSE 0)
      BY <2>4 DEF Returns
    <3>2. pending'[i] = pending[i] /\ i \in DOMAIN pending /\ restarts' = restarts
      BY <2>4 DEF Returns
    <3>3. CASE r \in {"fail", "unknown"}
      BY <1>1, <2>0, <3>1, <3>2, <3>3, Counters DEF AttemptsEarned
    <3>4. CASE r \notin {"fail", "unknown"}
      <4>1. ~(Stage(i)' \subseteq {"picked", "fail", "unknown"})
        BY <3>1, <3>4, InputsAssumption DEF InputsAssumption
      <4>2. QED
        BY <1>1, <2>0, <3>1, <3>2, <3>4, <4>1, Counters DEF AttemptsEarned
    <3>5. QED
      BY <3>3, <3>4
  <2>5. CASE PutBack(i)
    BY <1>1, <2>0, <2>5, Counters DEF PutBack, Quiet, AttemptsEarned
  <2>6. CASE Reloads(i)
    BY <1>1, <2>0, <2>6, Counters DEF Reloads, Quiet, AttemptsEarned
  <2>7. QED
    BY <2>1, <2>2, <2>3, <2>4, <2>5, <2>6, EntrySteps DEF EntryStep
<1>3. ASSUME NEW i \in DOMAIN snap'
      PROVE  snap'[i].attempts <= fails'[i] + restarts' + 1
  <2>1. CASE i \in DOMAIN snap /\ snap'[i].attempts = snap[i].attempts
    BY <1>1, <2>1, Counters DEF AttemptsEarned
  <2>2. CASE i \in DOMAIN pending /\ snap'[i].attempts = pending[i].attempts
    BY <1>1, <2>2, Counters DEF AttemptsEarned
  <2>3. QED
    BY <2>1, <2>2, CopySteps
<1>4. ASSUME NEW i \in DOMAIN disk'
      PROVE  disk'[i].attempts <= fails'[i] + restarts' + 1
  <2>1. CASE i \in DOMAIN disk /\ disk'[i].attempts = disk[i].attempts
    BY <1>1, <2>1, Counters DEF AttemptsEarned
  <2>2. CASE i \in DOMAIN snap /\ disk'[i] = snap[i]
    BY <1>1, <2>2, Counters DEF AttemptsEarned
  <2>3. QED
    BY <2>1, <2>2, CopySteps
<1>5. ASSUME NEW i \in Ids, fate'[i] = "failed"
      PROVE  fails'[i] + restarts' >= MaxAttempts
  <2>1. CASE fate[i] = "failed"
    BY <1>1, <2>1, Counters DEF GiveUpEarned
  <2>2. CASE /\ i \in DOMAIN pending
             /\ Stage(i) \in {{"fail"}, {"unknown"}}
             /\ pending[i].attempts >= MaxAttempts
             /\ fails'[i] = fails[i] /\ restarts' = restarts
    BY <1>1, <2>2, Counters DEF AttemptsEarned
  <2>3. QED
    BY <1>5, <2>1, <2>2, HistorySteps
<1>6. QED
  BY <1>2, <1>3, <1>4, <1>5 DEF AttemptsEarned, GiveUpEarned

\* A message has one success per run of the process.
LEMMA AcksLeftStep ==
  ASSUME OrderInv, OrderInv', AcksLeft, AckedOncePerRun, [Next]_vars
  PROVE  AcksLeft' /\ AckedOncePerRun'
<1>1. restarts \in Nat /\ restarts' \in Nat /\ restarts' >= restarts
  BY RestartsGrow, Counters
<1>2. ASSUME NEW i \in DOMAIN pending'
      PROVE  /\ Stage(i)' # {"ok"} => acks'[i] <= restarts'
             /\ acks'[i] <= restarts' + 1
  <2>0. i \in Ids
    BY DEF OrderInv, Owned, TypeOK, IsQueue
  <2>1. CASE Waits(i)
    BY <1>1, <2>0, <2>1, Counters DEF Waits, Quiet, AcksLeft, AckedOncePerRun
  <2>2. CASE Arrives(i)
    BY <1>1, <2>0, <2>2, Counters DEF Arrives, Quiet, AcksLeft
  <2>3. CASE Starts(i)
    <3>1. Stage(i) # {"ok"}
      BY <2>3 DEF Starts
    <3>2. QED
      BY <1>1, <2>0, <2>3, <3>1, Counters DEF Starts, Quiet, AcksLeft
  <2>4. CASE Returns(i)
    <3>1. Stage(i) # {"ok"}
      BY <2>4 DEF Returns, Sending
    <3>2. PICK r \in Results :
             Stage(i)' = {r} /\ acks'[i] = acks[i] + (IF r = "ok" THEN 1 ELSE 0)
      BY <2>4 DEF Returns
    <3>3. i \in DOMAIN pending /\ restarts' = restarts
      BY <2>4 DEF Returns
    <3>4. acks[i] \in Nat /\ acks[i] <= restarts
      BY <2>0, <3>1, <3>3, Counters DEF AcksLeft
    <3>5. QED
      BY <1>1, <3>2, <3>3, <3>4
  <2>5. CASE PutBack(i)
    <3>1. Stage(i) # {"ok"}
      BY <2>5 DEF PutBack
    <3>2. QED
      BY <1>1, <2>0, <2>5, <3>1, Counters DEF PutBack, Quiet, AcksLeft
  <2>6. CASE Reloads(i)
    BY <1>1, <2>0, <2>6, Counters DEF Reloads, Quiet, AckedOncePerRun
  <2>7. QED
    BY <2>1, <2>2, <2>3, <2>4, <2>5, <2>6, EntrySteps DEF EntryStep
<1>3. ASSUME NEW i \in Ids, i \notin DOMAIN pending'
      PROVE  acks'[i] = acks[i] /\ acks'[i] <= restarts' + 1
  BY <1>1, <1>3, HistorySteps, Counters DEF AckedOncePerRun
<1>4. ASSUME NEW i \in Ids, i >= nextId'
      PROVE  acks'[i] = 0
  <2>1. i \notin DOMAIN pending'
    BY <1>4, Counters DEF OrderInv, Owned, TypeOK, Fresh
  <2>2. i >= nextId
    BY <1>4, CopyOrigin, Counters DEF OrderInv
  <2>3. QED
    BY <1>3, <2>1, <2>2 DEF AcksLeft
<1>5. QED
  BY <1>2, <1>3, <1>4 DEF AcksLeft, AckedOncePerRun

-----------------------------------------------------------------------------
(* The cap and the route. *)

\* A queue of at most maxPendingMessages entries.
Bounded(q) == Cardinality(DOMAIN q) <= MaxPending

\* Where the messages of the queue, of the snapshot and of the file come from.
LEMMA DomainSteps ==
  ASSUME Owned, [Next]_vars
  PROVE  /\ \/ DOMAIN pending' \subseteq DOMAIN pending
            \/ DOMAIN pending' = DOMAIN pending \cup {nextId} /\ ~QueueFull
            \/ DOMAIN pending' = DOMAIN disk
         /\ \/ DOMAIN snap' \subseteq DOMAIN snap
            \/ DOMAIN snap' = DOMAIN pending
         /\ DOMAIN disk' = DOMAIN disk \/ DOMAIN disk' = DOMAIN snap
<1>0. IsQueue(pending) /\ IsQueue(snap) /\ IsQueue(disk) /\ DOMAIN Empty = {}
  BY DEF Owned, TypeOK, Empty
<1>1. ASSUME NEW in \in Inputs, Enqueue(in)
      PROVE  /\ UNCHANGED <<snap, disk>> /\ ~QueueFull
             /\ DOMAIN pending' = DOMAIN pending \cup {nextId}
  BY <1>1 DEF Enqueue, flusher
<1>2. ASSUME NEW w \in Workers, Work(w)
      PROVE  UNCHANGED <<snap, disk>> /\ DOMAIN pending' \subseteq DOMAIN pending
  <2>1. UNCHANGED <<snap, disk>>
    BY <1>2 DEF Work, PickDue, AttemptStart, SendReturns, Finish, Delivered,
       Deferred, StampRefused, Reroute, GiveUp, Retry, Leave, Keep, Release,
       flusher
  <2>2. ASSUME NEW S
        PROVE  DOMAIN Without(pending, S) \subseteq DOMAIN pending
    <3>1. DOMAIN Without(pending, S) = DOMAIN pending \ S
      BY <1>0, WithoutQueue
    <3>2. QED
      BY <3>1
  <2>3. CASE PickDue(w)
    BY <2>1, <2>2, <2>3 DEF PickDue
  <2>4. CASE AttemptStart(w) \/ SendReturns(w)
    BY <2>1, <2>4 DEF AttemptStart, SendReturns
  <2>5. CASE Delivered(w) \/ StampRefused(w) \/ GiveUp(w)
    BY <2>1, <2>2, <2>5 DEF Delivered, StampRefused, GiveUp, Leave
  <2>6. CASE Deferred(w) \/ Reroute(w) \/ Retry(w)
    BY <2>1, <2>6 DEF Deferred, Reroute, Retry, Keep
  <2>7. QED
    BY <1>2, <2>3, <2>4, <2>5, <2>6 DEF Work, Finish
<1>3. CASE Flush \/ FinalFlush
  <2>1. DOMAIN Stored(pending) = DOMAIN pending
    BY <1>0, StoredQueue
  <2>2. QED
    BY <1>3, <2>1 DEF Flush, FinalFlush, TakeSnapshot
<1>4. CASE Save \/ SaveFailed
  BY <1>0, <1>4 DEF Save, SaveFailed
<1>5. CASE Crash \/ Exit
  BY <1>0, <1>5 DEF Crash, Exit, Vanish
<1>6. CASE Restart
  BY <1>0, <1>6, LoadedQueue DEF Restart
<1>7. CASE Tick
  BY <1>0, <1>7, AgedQueue DEF Tick
<1>8. CASE EnqueueRefused \/ TakeKick \/ Stop \/ NodeChange \/ UNCHANGED vars
  BY <1>8 DEF EnqueueRefused, TakeKick, Stop, NodeChange, vars, flusher
<1>9. QED
  BY <1>1, <1>2, <1>3, <1>4, <1>5, <1>6, <1>7, <1>8 DEF Next, Persistence

\* Neither retry, snapshot, write nor reload adds an entry, and enqueue adds one
\* only below the cap.
LEMMA BoundedStep ==
  ASSUME Owned, Bounded(pending), Bounded(snap), Bounded(disk), [Next]_vars
  PROVE  Bounded(pending)' /\ Bounded(snap)' /\ Bounded(disk)'
<1>1. MaxPending \in Nat /\ MaxMessages \in Nat
  BY LimitsAssumption DEF LimitsAssumption
<1>2. IsFiniteSet(Ids)
  BY <1>1, FS_Interval DEF Ids
<1>3. /\ IsFiniteSet(DOMAIN pending)
      /\ IsFiniteSet(DOMAIN snap)
      /\ IsFiniteSet(DOMAIN disk)
  BY <1>2, FS_Subset DEF Owned, TypeOK, IsQueue
<1>4. ASSUME NEW S, NEW T, IsFiniteSet(T), S \subseteq T,
             Cardinality(T) <= MaxPending
      PROVE  Cardinality(S) <= MaxPending
  <2>1. IsFiniteSet(S) /\ Cardinality(S) <= Cardinality(T)
    BY <1>4, FS_Subset
  <2>2. Cardinality(S) \in Nat /\ Cardinality(T) \in Nat
    BY <1>4, <2>1, FS_CardinalityType
  <2>3. QED
    BY <1>1, <1>4, <2>1, <2>2
<1>5. ASSUME DOMAIN pending' = DOMAIN pending \cup {nextId}, ~QueueFull
      PROVE  Bounded(pending)'
  <2>1. Cardinality(DOMAIN pending) \in Nat
    BY <1>3, FS_CardinalityType
  <2>2. \/ DOMAIN pending' = DOMAIN pending
        \/ Cardinality(DOMAIN pending') = Cardinality(DOMAIN pending) + 1
    BY <1>3, <1>5, FS_AddElement
  <2>3. QED
    BY <1>1, <1>5, <2>1, <2>2 DEF QueueFull, Bounded
<1>6. Bounded(pending)'
  BY <1>3, <1>4, <1>5, DomainSteps DEF Bounded
<1>7. Bounded(snap)' /\ Bounded(disk)'
  BY <1>3, <1>4, DomainSteps DEF Bounded
<1>8. QED
  BY <1>6, <1>7

\* With propagation off, nothing routes a message to a node, and Load clears
\* what an earlier run routed.
LEMMA NoStrandedStep ==
  ASSUME Owned, NoStrandedMail, [Next]_vars
  PROVE  NoStrandedMail'
<1> SUFFICES ASSUME mode' = "off", NEW i \in DOMAIN pending'
             PROVE  pending'[i].propagated = FALSE
  BY DEF NoStrandedMail
<1>0. /\ IsQueue(pending) /\ IsQueue(disk)
      /\ \A j \in DOMAIN pending : pending[j] \in Message
  BY DEF Owned, TypeOK, IsQueue
<1>1. CASE /\ mode' = mode /\ i \in DOMAIN pending
           /\ pending'[i].propagated = pending[i].propagated
  <2>1. pending[i].propagated \in BOOLEAN /\ ~pending[i].propagated
    BY <1>0, <1>1 DEF NoStrandedMail, Message
  <2>2. QED
    BY <1>1, <2>1
<1>2. ASSUME NEW in \in Inputs, Enqueue(in)
      PROVE  pending'[i].propagated = FALSE
  <2>1. mode' = mode
    BY <1>2 DEF Enqueue, env
  <2>2. CASE i = nextId
    BY <1>2, <2>1, <2>2 DEF Enqueue, NewMessage
  <2>3. CASE i # nextId
    BY <1>1, <1>2, <2>1, <2>3 DEF Enqueue
  <2>4. QED
    BY <2>2, <2>3
<1>3. ASSUME NEW w \in Workers, Work(w)
      PROVE  pending'[i].propagated = FALSE
  <2>1. mode' = mode /\ mode = "off"
    BY <1>3 DEF Work, PickDue, AttemptStart, SendReturns, Finish, Delivered,
       Deferred, StampRefused, Reroute, GiveUp, Retry, Leave, Keep, Release, env
  <2>2. wpc[w] \in Busy => wmsg[w] \in DOMAIN pending
    BY DEF Owned, SingleOwner
  <2>3. ASSUME NEW S, pending' = Without(pending, S)
        PROVE  pending'[i].propagated = FALSE
    <3>1. /\ DOMAIN pending' = DOMAIN pending \ S
          /\ \A j \in DOMAIN pending \ S : pending'[j] = pending[j]
      BY <1>0, <2>3, WithoutQueue
    <3>2. QED
      BY <1>1, <2>1, <3>1
  <2>4. ASSUME NEW j \in DOMAIN pending, NEW m,
               pending' = [pending EXCEPT ![j] = m],
               m.propagated = pending[j].propagated
        PROVE  pending'[i].propagated = FALSE
    <3>1. i \in DOMAIN pending /\ pending'[i].propagated = pending[i].propagated
      BY <1>0, <2>4 DEF IsQueue
    <3>2. QED
      BY <1>1, <2>1, <3>1
  <2>5. CASE PickDue(w)
    BY <2>3, <2>5 DEF PickDue
  <2>6. CASE AttemptStart(w)
    <3>1. wmsg[w] \in DOMAIN pending
      BY <2>2, <2>6 DEF AttemptStart, Busy
    <3>2. CountedEntry(pending[wmsg[w]]).propagated = pending[wmsg[w]].propagated
      BY <1>0, <3>1 DEF CountedEntry, Message
    <3>3. QED
      BY <2>4, <2>6, <3>1, <3>2 DEF AttemptStart
  <2>7. CASE SendReturns(w)
    BY <1>1, <2>1, <2>7 DEF SendReturns
  <2>8. CASE Delivered(w) \/ StampRefused(w) \/ GiveUp(w)
    BY <2>3, <2>8 DEF Delivered, StampRefused, GiveUp, Leave
  <2>9. CASE Deferred(w)
    <3>1. wmsg[w] \in DOMAIN pending
      BY <2>2, <2>9 DEF Deferred, Busy, Outcomes
    <3>2. DeferredEntry(pending[wmsg[w]]).propagated = pending[wmsg[w]].propagated
      BY <1>0, <3>1 DEF DeferredEntry, Message
    <3>3. QED
      BY <2>4, <2>9, <3>1, <3>2 DEF Deferred, Keep
  <2>10. CASE Reroute(w)
    BY <2>1, <2>10 DEF Reroute, FallsBack
  <2>11. CASE Retry(w)
    <3>1. wmsg[w] \in DOMAIN pending
      BY <2>2, <2>11 DEF Retry, Busy, Outcomes
    <3> DEFINE m == pending[wmsg[w]]
               n == [m EXCEPT !.wait = WaitAfter(m, wpc[w])]
    <3>2. n.propagated = m.propagated
      BY <1>0, <3>1 DEF Message
    <3>3. pending' = [pending EXCEPT ![wmsg[w]] = n]
      BY <2>11 DEF Retry, Keep
    <3>4. QED
      BY <2>4, <3>1, <3>2, <3>3
  <2>12. QED
    BY <1>3, <2>5, <2>6, <2>7, <2>8, <2>9, <2>10, <2>11 DEF Work, Finish
<1>4. CASE EnqueueRefused \/ Persistence \/ Stop \/ NodeChange \/ UNCHANGED vars
  <2>1. UNCHANGED <<pending, mode>>
    BY <1>4 DEF EnqueueRefused, Persistence, TakeKick, Flush, FinalFlush,
       TakeSnapshot, Save, SaveFailed, Stop, NodeChange, vars, env
  <2>2. QED
    BY <1>1, <2>1
<1>5. CASE Crash \/ Exit
  BY <1>5 DEF Crash, Exit, Vanish, Empty
<1>6. CASE Restart
  <2>1. i \in DOMAIN disk /\ pending' = Loaded(disk, "off")
    BY <1>0, <1>6, LoadedQueue DEF Restart
  <2>2. disk[i] \in Message
    BY <1>0, <2>1 DEF IsQueue
  <2>3. QED
    BY <2>1, <2>2 DEF Loaded, Message
<1>7. CASE Tick
  <2>1. i \in DOMAIN pending /\ mode' = mode
    BY <1>0, <1>7, AgedQueue DEF Tick, env
  <2>2. pending'[i].propagated = pending[i].propagated
    BY <1>0, <1>7, <2>1 DEF Tick, Aged, Message
  <2>3. QED
    BY <1>1, <2>1, <2>2
<1>8. QED
  BY <1>2, <1>3, <1>4, <1>5, <1>6, <1>7 DEF Next

-----------------------------------------------------------------------------
(* The theorems. *)

LimitsInv ==
    /\ OrderInv
    /\ Bounded(pending) /\ Bounded(snap) /\ Bounded(disk)
    /\ NoStrandedMail
    /\ BudgetHeld /\ AttemptsLeft
    /\ AttemptsEarned /\ GiveUpEarned
    /\ AckedOncePerRun /\ AcksLeft

\* The invariant holds of a first start.
LEMMA LimitsInit == Init => LimitsInv
<1> SUFFICES ASSUME Init PROVE LimitsInv
  OBVIOUS
<1>1. OrderInv
  BY OrderInit
<1>2. /\ pending = Empty /\ snap = Empty /\ disk = Empty /\ DOMAIN Empty = {}
      /\ restarts = 0
  BY DEF Init, Empty
<1>3. MaxPending \in Nat
  BY LimitsAssumption DEF LimitsAssumption
<1>4. Bounded(pending) /\ Bounded(snap) /\ Bounded(disk)
  BY <1>2, <1>3, FS_EmptySet DEF Bounded
<1>5. NoStrandedMail /\ BudgetHeld /\ AttemptsLeft /\ AttemptsEarned
  BY <1>2 DEF NoStrandedMail, BudgetHeld, AttemptsLeft, AttemptsEarned
<1>6. GiveUpEarned /\ AckedOncePerRun /\ AcksLeft
  BY <1>2 DEF Init, GiveUpEarned, AckedOncePerRun, AcksLeft
<1>7. QED
  BY <1>1, <1>4, <1>5, <1>6 DEF LimitsInv

\* The cap, the route and the counters of a message, with what makes
\* them inductive: the copies in the snapshot and in the file obey the same
\* bounds, and the stage of a message says whether its last attempt is settled.
THEOREM LimitsInvariant == Spec => []LimitsInv
<1>1. ASSUME LimitsInv, [Next]_vars
      PROVE  LimitsInv'
  <2>1. OrderInv /\ Owned
    BY <1>1 DEF LimitsInv, OrderInv
  <2>2. OrderInv'
    BY <1>1, <2>1, OwnedStep, FreshStep, HaltedStep, HeldStep DEF OrderInv
  <2>3. Bounded(pending)' /\ Bounded(snap)' /\ Bounded(disk)'
    BY <1>1, <2>1, BoundedStep DEF LimitsInv
  <2>4. NoStrandedMail'
    BY <1>1, <2>1, NoStrandedStep DEF LimitsInv
  <2>5. BudgetHeld' /\ AttemptsLeft'
    BY <1>1, <2>1, <2>2, AttemptsLeftStep DEF LimitsInv
  <2>6. AttemptsEarned' /\ GiveUpEarned'
    BY <1>1, <2>1, <2>2, AttemptsEarnedStep DEF LimitsInv
  <2>7. AckedOncePerRun' /\ AcksLeft'
    BY <1>1, <2>1, <2>2, AcksLeftStep DEF LimitsInv
  <2>8. QED
    BY <2>2, <2>3, <2>4, <2>5, <2>6, <2>7 DEF LimitsInv
<1>2. QED
  BY <1>1, LimitsInit, PTL DEF Spec

\* Neither the queue nor the file grows past maxPendingMessages
\* (outbound.go:53-60), however often the service restarts.
THEOREM QueueStaysBounded == Spec => []QueueBounded
<1>1. LimitsInv => QueueBounded
  BY DEF LimitsInv, Bounded, QueueBounded
<1>2. QED
  BY <1>1, LimitsInvariant, PTL

\* A service that runs without propagation has no message for a node
\* (outbound.go:298-305), whatever the runs before it did.
THEOREM NothingStranded == Spec => []NoStrandedMail
<1>1. LimitsInv => NoStrandedMail
  BY DEF LimitsInv
<1>2. QED
  BY <1>1, LimitsInvariant, PTL

\* A message is tried at most MaxAttempts times by a route, and once more per
\* restart (outbound.go:584-634).
THEOREM BudgetIsHeld == Spec => []BudgetHeld
<1>1. LimitsInv => BudgetHeld
  BY DEF LimitsInv
<1>2. QED
  BY <1>1, LimitsInvariant, PTL

\* A message given up has really failed MaxAttempts times, restarts apart
\* (outbound.go:584-634).
THEOREM FailureIsEarned == Spec => []GiveUpEarned
<1>1. LimitsInv => GiveUpEarned
  BY DEF LimitsInv
<1>2. QED
  BY <1>1, LimitsInvariant, PTL

\* A message is delivered once per run of the process: a second copy needs a
\* restart from a file that is behind (outbound.go:70-76).
THEOREM OneSuccessPerRun == Spec => []AckedOncePerRun
<1>1. LimitsInv => AckedOncePerRun
  BY DEF LimitsInv
<1>2. QED
  BY <1>1, LimitsInvariant, PTL
=============================================================================
