--------------------------- MODULE OutboundQueue ---------------------------
(***************************************************************************)
(* The outbound delivery queue of fwdsvc (internal/service/outbound.go):   *)
(* callers enqueue messages, a pool of workers picks due messages and      *)
(* sends them without holding the queue lock, one goroutine writes the     *)
(* queue to outbound.json behind the workers' backs, and the process may   *)
(* be killed or stopped at any point and reload what the file holds.       *)
(*                                                                         *)
(* Each action is one critical section of the queue's mutex, or one step   *)
(* the code takes between two of them.                                     *)
(*                                                                         *)
(* Data that is abstracted:                                                *)
(*  - q.pending is append-ordered and entries keep their slot, so a queue  *)
(*    is a function from message numbers to records; the order of the      *)
(*    numbers is the order of the slice.                                   *)
(*  - Time is relative.  A message's wait is NextAttempt - now and its age *)
(*    is now - EnqueuedAt, counted up to the first value that is past      *)
(*    maxQueueAge.  Tick moves every copy of a message, the one on disk    *)
(*    included, because both fields are wall-clock times.                  *)
(*  - The outcome of a send is one of the classes attempt() tells apart.   *)
(***************************************************************************)
EXTENDS Integers, FiniteSets, Functions

CONSTANTS
    Recipients,         \* lxmf.delivery destinations
    Stamped,            \* those that may ask for a stamp we can afford
    Workers,            \* the goroutines of the pool (outboundWorkers)
    Inputs,             \* what callers enqueue: [rcpt, after, bubble] records
    Modes,              \* propagation settings an operator may start with
    Results,            \* how a send may return (external: lxmf.Delivery)
    MaxAttempts,        \* maxDeliveryAttempts
    DirectAttempts,     \* propagation.direct_attempts, 0 when unset
    PathlessTries,      \* maxPathlessTries
    RetryWait,          \* deliveryRetryWait
    PathRequestWait,    \* pathRequestWait
    MaxBackoff,         \* maxRetryBackoff
    MaxQueueAge,        \* maxQueueAge
    MaxPending,         \* maxPendingMessages
    PropSlots,          \* maxConcurrentPropagationSends
    StampSlots,         \* maxConcurrentStampGrinds
    HasStore,           \* q.store # nil; without one nothing is persisted
    MaxMessages,        \* bound: messages callers try to enqueue
    MaxRestarts,        \* bound: stops and kills of the process
    MaxSaveFailures     \* bound: failing writes of outbound.json

ASSUME LimitsAssumption ==
    /\ MaxAttempts \in Nat \ {0}
    /\ DirectAttempts \in Nat
    /\ PathlessTries \in Nat
    /\ RetryWait \in Nat \ {0}
    /\ PathRequestWait \in Nat
    /\ MaxBackoff \in Nat
    /\ MaxQueueAge \in Nat
    /\ MaxPending \in Nat
    /\ PropSlots \in Nat
    /\ StampSlots \in Nat
    /\ MaxMessages \in Nat
    /\ MaxRestarts \in Nat
    /\ MaxSaveFailures \in Nat

ASSUME InputsAssumption ==
    /\ Inputs \subseteq [rcpt : Recipients, after : BOOLEAN, bubble : BOOLEAN]
    /\ Stamped \subseteq Recipients
    /\ Modes \subseteq {"off", "fallback", "always"}
    /\ Results \subseteq {"ok", "refused", "unknown", "fail"}
    /\ IsFiniteSet(Workers)
    /\ HasStore \in BOOLEAN

VARIABLES
    phase,      \* "running", "stopping" (ctx cancelled) or "down"
    mode,       \* propagation: "off", "fallback" or "always"
    nodeUp,     \* a propagation node is selectable right now
    pending,    \* q.pending
    inFlight,   \* q.inFlight
    wpc,        \* where each worker is
    wmsg,       \* the message each worker holds, 0 for none
    dirty,      \* q.dirty
    kick,       \* q.persistKick holds a token
    writer,     \* where runPersistLoop is
    snap,       \* the snapshot Flush is writing
    disk,       \* outbound.json
    views,      \* messages whose recipient view is in the idmap cache
    nextId,     \* number of the next enqueued message
    restarts,   \* restarts so far
    saveFails,  \* failed writes so far
    fate,       \* history: how a message last left the queue
    fails,      \* history: sends of a message that really failed
    acks        \* history: sends of a message that succeeded

env     == <<phase, mode, nodeUp, restarts>>
workers == <<inFlight, wpc, wmsg>>
flusher == <<writer, snap, disk, saveFails>>
history == <<fate, fails, acks, views>>
vars    == <<env, pending, workers, dirty, kick, flusher, nextId, history>>

-----------------------------------------------------------------------------
(* Messages and queues. *)

Ids     == 1 .. MaxMessages
Message == [rcpt : Recipients, after : BOOLEAN, bubble : BOOLEAN,
            attempts : Nat, wait : Int, age : 0 .. MaxQueueAge + 1,
            propagated : BOOLEAN]
IsQueue(q) == DOMAIN q \subseteq Ids /\ q \in [DOMAIN q -> Message]
Empty   == [i \in {} |-> 0]

Up       == phase \in {"running", "stopping"}
Sending  == {"direct", "grinding", "uploading"}
Outcomes == {"ok", "refused", "unknown", "fail", "defer"}
Busy     == {"picked"} \cup Sending \cup Outcomes
Saving   == {"saving", "finalSaving"}
Ended    == {"delivered", "failed", "refused", "expired"}

\* A definition whose name starts with Bad is a plausible mistake in the
\* definition below it; no action uses it.

\* What is in flight is left out of the file.
BadStored(q) ==
    [i \in DOMAIN q \ inFlight |-> [q[i] EXCEPT !.bubble = FALSE]]

\* What json.Marshal keeps of an entry: Fields and Bubble are json:"-".
Stored(q) == [i \in DOMAIN q |-> [q[i] EXCEPT !.bubble = FALSE]]

\* The flag is sticky.
BadLoaded(q, md) == q

\* Load's pass over the entries: with propagation off, Propagated is cleared.
Loaded(q, md) ==
    [i \in DOMAIN q |-> [q[i] EXCEPT !.propagated = @ /\ md # "off"]]

\* One unit of time passes for every entry of a queue.
Aged(q) ==
    [i \in DOMAIN q |->
        [q[i] EXCEPT !.wait = IF @ > 0 THEN @ - 1 ELSE 0,
                     !.age  = IF @ <= MaxQueueAge THEN @ + 1 ELSE @]]

\* The entry stays in the list.
BadWithout(q, S) == q

\* The recipient is compared instead of the entry.
BadWithoutAll(q, S) ==
    Restrict(q, {i \in DOMAIN q : \A j \in S : q[i].rcpt # q[j].rcpt})

\* removeLocked
Without(q, S) == Restrict(q, DOMAIN q \ S)

\* backoffWait: RetryWait doubled per attempt after the first, capped.
BackoffWait(attempts) ==
    LET doubled == RetryWait * 2^(IF attempts > 1 THEN attempts - 1 ELSE 0)
    IN  IF doubled < MaxBackoff THEN doubled ELSE MaxBackoff

\* directBudgetLocked
DirectBudget ==
    IF DirectAttempts > 0 /\ DirectAttempts < MaxAttempts
    THEN DirectAttempts ELSE MaxAttempts

\* The flush loop is woken, but finds nothing to do.
BadPersist == kick' = (kick \/ HasStore) /\ UNCHANGED dirty

\* persistLocked: mark the queue dirty and leave a token for the flush loop,
\* unless the queue has no store.
Persist == dirty' = (dirty \/ HasStore) /\ kick' = (kick \/ HasStore)

-----------------------------------------------------------------------------
(* The process starts with no file, or reloads the one it finds. *)

Init ==
    /\ phase = "running"
    /\ mode \in Modes
    /\ nodeUp = FALSE
    /\ pending = Empty
    /\ inFlight = {}
    /\ wpc = [w \in Workers |-> "idle"]
    /\ wmsg = [w \in Workers |-> 0]
    /\ dirty = FALSE
    /\ kick = FALSE
    /\ writer = "select"
    /\ snap = Empty
    /\ disk = Empty
    /\ views = {}
    /\ nextId = 1
    /\ restarts = 0
    /\ saveFails = 0
    /\ fate = [i \in Ids |-> "none"]
    /\ fails = [i \in Ids |-> 0]
    /\ acks = [i \in Ids |-> 0]

-----------------------------------------------------------------------------
(* Callers. *)

\* The entry enqueue() appends; propagationAlways routes it at once.
NewMessage(in) ==
    [rcpt |-> in.rcpt, after |-> in.after, bubble |-> in.bubble,
     attempts |-> 0, wait |-> 0, age |-> 0, propagated |-> mode = "always"]

\* Off by one.
BadQueueFull == Cardinality(DOMAIN pending) > MaxPending

QueueFull == Cardinality(DOMAIN pending) >= MaxPending

\* Enqueue, EnqueueBubble and EnqueueAfterEarlier, below the cap.
Enqueue(in) ==
    /\ Up
    /\ nextId <= MaxMessages
    /\ ~QueueFull
    /\ pending' = [i \in DOMAIN pending \cup {nextId} |->
                      IF i = nextId THEN NewMessage(in) ELSE pending[i]]
    /\ fate' = [fate EXCEPT ![nextId] = "queued"]
    /\ nextId' = nextId + 1
    /\ Persist
    /\ UNCHANGED <<env, workers, flusher, fails, acks, views>>

\* The same calls at the cap: the newest message is refused.
EnqueueRefused ==
    /\ Up
    /\ nextId <= MaxMessages
    /\ QueueFull
    /\ fate' = [fate EXCEPT ![nextId] = "dropped"]
    /\ nextId' = nextId + 1
    /\ UNCHANGED <<env, pending, workers, dirty, kick, flusher,
                   fails, acks, views>>

-----------------------------------------------------------------------------
(* Workers: pickDue. *)

\* EnqueuedAt is recorded but never read.
BadExpired == {}

\* Entries past maxQueueAge; one that is being sent is left alone.
Expired ==
    {i \in DOMAIN pending \ inFlight : pending[i].age > MaxQueueAge}

\* A message that is mid-send does not count.
BadHasEarlierFor(q, i) ==
    \E j \in DOMAIN q \ inFlight : j < i /\ q[j].rcpt = q[i].rcpt

\* hasEarlierFor: an earlier entry, in flight or not, for the same recipient.
HasEarlierFor(q, i) == \E j \in DOMAIN q : j < i /\ q[j].rcpt = q[i].rcpt

\* The in-flight marker is not looked at.
BadDue(q) ==
    {i \in DOMAIN q :
        /\ q[i].wait <= 0
        /\ q[i].after => ~HasEarlierFor(q, i)}

\* Entries of q that may be sent now.
Due(q) ==
    {i \in DOMAIN q \ inFlight :
        /\ q[i].wait <= 0
        /\ q[i].after => ~HasEarlierFor(q, i)}

\* The recipient heard most recently goes first (0: never heard), then FIFO.
IsBest(q, i, seen) ==
    \A j \in Due(q) \ {i} :
        \/ seen[q[i].rcpt] > seen[q[j].rcpt]
        \/ seen[q[i].rcpt] = seen[q[j].rcpt] /\ i < j

\* LastAnnounceFor: any order of the recipients' last announces.
Recency == [Recipients -> 0 .. Cardinality(Recipients)]

\* A worker leaves pickDue without a message: it idles, or it returns if the
\* context has been cancelled.
Unemployed == IF phase = "stopping" THEN "exited" ELSE "idle"

PickDue(w) ==
    LET live == Without(pending, Expired) IN
    /\ Up
    /\ wpc[w] = "idle"
    /\ pending' = live
    /\ fate' = [i \in Ids |-> IF i \in Expired THEN "expired" ELSE fate[i]]
    /\ IF Expired # {} THEN Persist ELSE UNCHANGED <<dirty, kick>>
    /\ \/ /\ Due(live) = {}
          /\ wpc' = [wpc EXCEPT ![w] = Unemployed]
          /\ UNCHANGED <<inFlight, wmsg>>
       \/ \E seen \in Recency : \E i \in Due(live) :
             /\ IsBest(live, i, seen)
             /\ inFlight' = inFlight \cup {i}
             /\ wpc' = [wpc EXCEPT ![w] = "picked"]
             /\ wmsg' = [wmsg EXCEPT ![w] = i]
    /\ UNCHANGED <<env, flusher, nextId, fails, acks, views>>

-----------------------------------------------------------------------------
(* Workers: attempt, up to the send and its return. *)

Holding(slot) == Cardinality({w \in Workers : wpc[w] = slot})

\* SendLXMF: a send that grinds a stamp needs a slot, any other does not.
\* willGrindStamp reads the recipient's last announce, which may change.
SendLXMF(r) ==
    {"direct"} \cup
    (CASE r \notin Stamped                -> {}
       [] Holding("grinding") < StampSlots -> {"grinding"}
       [] OTHER                            -> {"defer"})

\* SendLXMFPropagated: needs a node and a slot.
SendLXMFPropagated ==
    IF nodeUp /\ Holding("uploading") < PropSlots
    THEN {"uploading"} ELSE {"defer"}

\* The attempt is not counted.
BadCountedEntry(m) == m

CountedEntry(m) == [m EXCEPT !.attempts = @ + 1]

\* attempt(): the counter goes up under the lock, nothing is marked dirty, and
\* the send starts (or is turned away for want of a node or a slot).
AttemptStart(w) ==
    LET i == wmsg[w] IN
    /\ Up
    /\ wpc[w] = "picked"
    /\ pending' = [pending EXCEPT ![i] = CountedEntry(@)]
    /\ \E s \in IF pending[i].propagated THEN SendLXMFPropagated
              ELSE SendLXMF(pending[i].rcpt) :
          wpc' = [wpc EXCEPT ![w] = s]
    /\ UNCHANGED <<env, inFlight, wmsg, dirty, kick, flusher, nextId, history>>

\* The view is never registered.
BadRegisterView(i) == views

\* idmap.RegisterView, for an entry that carries a bubble.
RegisterView(i) == IF pending[i].bubble THEN views \cup {i} ELSE views

\* The send returns and its slot is free again; a success registers the
\* recipient's view of the bubble before the queue lock is taken.
SendReturns(w) ==
    LET i == wmsg[w] IN
    /\ Up
    /\ wpc[w] \in Sending
    /\ \E r \in Results :
          /\ wpc' = [wpc EXCEPT ![w] = r]
          /\ acks' = IF r = "ok" THEN [acks EXCEPT ![i] = @ + 1] ELSE acks
          /\ fails' = IF r \in {"fail", "unknown"}
                      THEN [fails EXCEPT ![i] = @ + 1] ELSE fails
          /\ views' = IF r = "ok" THEN RegisterView(i) ELSE views
    /\ UNCHANGED <<env, pending, inFlight, wmsg, dirty, kick, flusher, nextId,
                   fate>>

-----------------------------------------------------------------------------
(* Workers: attempt, the second critical section.  The branches are taken in *)
(* the order of the code; attempts is the value read when the send started,  *)
(* which is still the entry's, since only its owner changes it.              *)

\* The deferred delete of the in-flight marker and the end of the iteration.
Release(w) ==
    /\ inFlight' = inFlight \ {wmsg[w]}
    /\ wpc' = [wpc EXCEPT ![w] = Unemployed]
    /\ wmsg' = [wmsg EXCEPT ![w] = 0]
    /\ UNCHANGED <<env, flusher, nextId, fails, acks, views>>

\* removeLocked, persistLocked and the log line that says how it ended.
Leave(w, end) ==
    /\ pending' = Without(pending, {wmsg[w]})
    /\ fate' = [fate EXCEPT ![wmsg[w]] = end]
    /\ Persist
    /\ Release(w)

Keep(w, m) ==
    /\ pending' = [pending EXCEPT ![wmsg[w]] = m]
    /\ UNCHANGED fate
    /\ Persist
    /\ Release(w)

Delivered(w) ==
    /\ Up
    /\ wpc[w] = "ok"
    /\ Leave(w, "delivered")

\* Waiting spends the budget.
BadDeferredEntry(m) == [m EXCEPT !.wait = RetryWait]

\* No node or no slot: waiting costs no attempt.
DeferredEntry(m) == [m EXCEPT !.attempts = @ - 1, !.wait = RetryWait]

Deferred(w) ==
    /\ Up
    /\ wpc[w] = "defer"
    /\ Keep(w, DeferredEntry(pending[wmsg[w]]))

\* failStampCostLocked: dropped on the first refusal.
StampRefused(w) ==
    /\ Up
    /\ wpc[w] = "refused"
    /\ Leave(w, "refused")

\* The direct budget is spent and a node is selectable right now.
FallsBack(m) ==
    /\ mode = "fallback"
    /\ ~m.propagated
    /\ m.attempts >= DirectBudget
    /\ nodeUp

ReroutedEntry(m) ==
    [m EXCEPT !.propagated = TRUE, !.attempts = 0, !.wait = RetryWait]

Reroute(w) ==
    /\ Up
    /\ wpc[w] \in {"fail", "unknown"}
    /\ FallsBack(pending[wmsg[w]])
    /\ Keep(w, ReroutedEntry(pending[wmsg[w]]))

\* Off by one.
BadExhausted(m) == m.attempts > MaxAttempts

Exhausted(m) == m.attempts >= MaxAttempts

\* failLocked
GiveUp(w) ==
    /\ Up
    /\ wpc[w] \in {"fail", "unknown"}
    /\ ~FallsBack(pending[wmsg[w]])
    /\ Exhausted(pending[wmsg[w]])
    /\ Leave(w, "failed")

\* An unknown recipient waits for the path request, any other failure backs
\* off.  (RequestPath only puts a packet on the network.)
WaitAfter(m, result) ==
    IF result = "unknown" /\ m.attempts > PathlessTries
    THEN PathRequestWait ELSE BackoffWait(m.attempts)

Retry(w) ==
    LET m == pending[wmsg[w]] IN
    /\ Up
    /\ wpc[w] \in {"fail", "unknown"}
    /\ ~FallsBack(m)
    /\ ~Exhausted(m)
    /\ Keep(w, [m EXCEPT !.wait = WaitAfter(m, wpc[w])])

-----------------------------------------------------------------------------
(* The flush loop. *)

\* <-q.persistKick: the token is taken and the coalescing window starts.
TakeKick ==
    /\ Up
    /\ writer = "select"
    /\ kick
    /\ kick' = FALSE
    /\ writer' = "debounce"
    /\ UNCHANGED <<env, pending, workers, dirty, snap, disk, saveFails, nextId,
                   history>>

\* Flush, under the lock: nothing if clean, otherwise a copy of the queue.
TakeSnapshot(saving, clean) ==
    /\ \/ /\ dirty
          /\ dirty' = FALSE
          /\ snap' = Stored(pending)
          /\ writer' = saving
       \/ /\ ~dirty
          /\ writer' = clean
          /\ UNCHANGED <<dirty, snap>>
    /\ UNCHANGED <<env, pending, workers, kick, disk, saveFails, nextId,
                   history>>

\* The window closes.
Flush ==
    /\ Up
    /\ writer = "debounce"
    /\ TakeSnapshot("saving", "select")

\* ctx.Done() is seen in either select.
FinalFlush ==
    /\ HasStore
    /\ phase = "stopping"
    /\ writer \in {"select", "debounce"}
    /\ TakeSnapshot("finalSaving", "done")

AfterSave == IF writer = "saving" THEN "select" ELSE "done"

\* outboundStore.save: the rename makes the snapshot the file, atomically.
Save ==
    /\ Up
    /\ writer \in Saving
    /\ disk' = snap
    /\ snap' = Empty
    /\ writer' = AfterSave
    /\ UNCHANGED <<env, pending, workers, dirty, kick, saveFails, nextId,
                   history>>

\* The failure is only logged.
BadDirtyAgain == UNCHANGED dirty

DirtyAgain == dirty' = TRUE

\* The write fails: the queue is dirty again, but no token is left.
SaveFailed ==
    /\ Up
    /\ writer \in Saving
    /\ saveFails < MaxSaveFailures
    /\ saveFails' = saveFails + 1
    /\ DirtyAgain
    /\ snap' = Empty
    /\ writer' = AfterSave
    /\ UNCHANGED <<env, pending, workers, kick, disk, nextId, history>>

-----------------------------------------------------------------------------
(* The process and its surroundings. *)

\* The process is gone: everything but the file is lost.
Vanish ==
    /\ phase' = "down"
    /\ nodeUp' = FALSE
    /\ pending' = Empty
    /\ inFlight' = {}
    /\ wpc' = [w \in Workers |-> "exited"]
    /\ wmsg' = [w \in Workers |-> 0]
    /\ dirty' = FALSE
    /\ kick' = FALSE
    /\ writer' = "done"
    /\ snap' = Empty
    /\ views' = {}
    /\ UNCHANGED <<mode, restarts, disk, saveFails, nextId, fate, fails, acks>>

\* SIGKILL or power loss.
Crash ==
    /\ phase = "running"
    /\ restarts < MaxRestarts
    /\ Vanish

\* The context is cancelled.  An idle worker that has already passed its
\* ctx.Err() check may still call pickDue once; the others return.
Stop ==
    /\ phase = "running"
    /\ restarts < MaxRestarts
    /\ phase' = "stopping"
    /\ \E late \in SUBSET {w \in Workers : wpc[w] = "idle"} :
          wpc' = [w \in Workers |->
                     IF wpc[w] = "idle" /\ w \notin late THEN "exited"
                     ELSE wpc[w]]
    /\ UNCHANGED <<mode, nodeUp, restarts, pending, inFlight, wmsg, dirty, kick,
                   flusher, nextId, history>>

\* Service.Run returns on ctx.Done() without waiting for OutboundQueue.Run,
\* and main returns after it.
Exit ==
    /\ phase = "stopping"
    /\ Vanish

\* newOutboundQueue, SetPropagation and Load.
Restart ==
    /\ phase = "down"
    /\ phase' = "running"
    /\ mode' \in Modes
    /\ restarts' = restarts + 1
    /\ pending' = Loaded(disk, mode')
    /\ wpc' = [w \in Workers |-> "idle"]
    /\ writer' = "select"
    /\ UNCHANGED <<nodeUp, inFlight, wmsg, dirty, kick, snap, disk, saveFails,
                   nextId, history>>

\* A propagation node is heard, or the known ones go stale.
NodeChange ==
    /\ Up
    /\ mode # "off"
    /\ nodeUp' = ~nodeUp
    /\ UNCHANGED <<phase, mode, restarts, pending, workers, dirty, kick,
                   flusher, nextId, history>>

Tick ==
    /\ pending' = Aged(pending)
    /\ snap' = Aged(snap)
    /\ disk' = Aged(disk)
    /\ UNCHANGED <<env, workers, dirty, kick, writer, saveFails, nextId,
                   history>>

-----------------------------------------------------------------------------

Finish(w) ==
    \/ Delivered(w) \/ Deferred(w) \/ StampRefused(w)
    \/ Reroute(w)   \/ GiveUp(w)   \/ Retry(w)

Work(w) == PickDue(w) \/ AttemptStart(w) \/ SendReturns(w) \/ Finish(w)

Persistence == TakeKick \/ Flush \/ FinalFlush \/ Save \/ SaveFailed

Next ==
    \/ \E in \in Inputs : Enqueue(in)
    \/ EnqueueRefused
    \/ \E w \in Workers : Work(w)
    \/ Persistence
    \/ Crash \/ Stop \/ Exit \/ Restart
    \/ NodeChange
    \/ Tick

Spec == Init /\ [][Next]_vars

\* Goroutines are scheduled, a send returns within the library's link timeout,
\* a write of the file ends (well or badly), the clock advances and a
\* supervisor restarts the service.  Callers may stop calling, the process may
\* never be killed, nodes may never be heard; of the disk it is assumed that
\* it fails at most MaxSaveFailures times.
Fairness ==
    /\ \A w \in Workers : WF_vars(Work(w))
    /\ WF_vars(Persistence)
    /\ WF_vars(Exit)
    /\ WF_vars(Restart)
    /\ WF_vars(Tick)

FairSpec == Spec /\ Fairness

-----------------------------------------------------------------------------
(* Properties. *)

\* The type invariant of the queue, the workers, the flush loop and the file.
TypeOK ==
    /\ phase \in {"running", "stopping", "down"}
    /\ mode \in Modes
    /\ nodeUp \in BOOLEAN
    /\ IsQueue(pending) /\ IsQueue(snap) /\ IsQueue(disk)
    /\ inFlight \in SUBSET Ids
    /\ wpc \in [Workers -> {"idle", "exited"} \cup Busy]
    /\ wmsg \in [Workers -> Ids \cup {0}]
    /\ dirty \in BOOLEAN /\ kick \in BOOLEAN
    /\ writer \in {"select", "debounce", "done"} \cup Saving
    /\ views \in SUBSET Ids
    /\ nextId \in 1 .. MaxMessages + 1
    /\ restarts \in 0 .. MaxRestarts
    /\ saveFails \in 0 .. MaxSaveFailures
    /\ fate \in [Ids -> {"none", "queued", "dropped"} \cup Ended]
    /\ fails \in [Ids -> Nat]
    /\ acks \in [Ids -> Nat]

\* No message is ever on two workers, and a worker's message is still queued
\* and marked: pickDue skips what is in flight, the reaper leaves it alone, and
\* the marker goes only when its owner is done (outbound.go:481, 502, 578).
SingleOwner ==
    /\ inFlight = {wmsg[w] : w \in {x \in Workers : wpc[x] \in Busy}}
    /\ inFlight \subseteq DOMAIN pending
    /\ \A v, w \in Workers :
          wpc[v] \in Busy /\ wpc[w] \in Busy /\ wmsg[v] = wmsg[w] => v = w

\* An AfterEarlier message is on a worker only when nothing queued before it
\* for its recipient is left, also after a restart in mid-replay
\* (outbound.go:120-139).
HeldInOrder ==
    \A i \in inFlight : \A j \in DOMAIN pending :
        pending[i].after /\ j < i => pending[j].rcpt # pending[i].rcpt

\* The queue in memory, and the file a restart reloads, stay within the cap
\* (outbound.go:53-60): neither reload nor retry may add an entry.  The price
\* is that a call at the cap is refused (outbound.go:378), although README.md
\* says that nothing rejects new messages when the queue is long.
QueueBounded ==
    /\ Cardinality(DOMAIN pending) <= MaxPending
    /\ Cardinality(DOMAIN disk) <= MaxPending

\* With propagation off nothing is queued for a node, whatever mode earlier
\* runs of the service had (outbound.go:298-305).
NoStrandedMail ==
    mode = "off" => \A i \in DOMAIN pending : ~pending[i].propagated

\* q, once loaded, is the queue in memory: the same entries, and the same
\* content except for what a worker is changing right now.
InSync(q) ==
    /\ DOMAIN q = DOMAIN pending
    /\ \A i \in DOMAIN pending \ inFlight :
          Loaded(q, mode)[i] = Stored(pending)[i]

\* A queue that is not dirty has nothing to write: every change since the last
\* snapshot went through persistLocked, and a failed write made the queue dirty
\* again (outbound.go:708-772).
CleanMeansSaved ==
    HasStore /\ Up /\ ~dirty => InSync(IF writer \in Saving THEN snap ELSE disk)

\* A message is given up only after MaxAttempts sends that really failed;
\* deferrals do not count, and a restart costs at most the one attempt that
\* was under way (outbound.go:584-595, 631-634).
GiveUpEarned ==
    \A i \in Ids : fate[i] = "failed" => fails[i] + restarts >= MaxAttempts

\* A message costs at most MaxAttempts sends by each route, and one more for
\* each restart: the count goes up before the send and may be saved before the
\* send is over, so the last attempt can be repeated once per kill and the
\* count can pass the range that outbound.go:109 gives for it.
BudgetHeld ==
    \A i \in DOMAIN pending : pending[i].attempts <= MaxAttempts + restarts

\* A message is sent successfully at most once in a run of the process: only a
\* restart from a file that is behind can send it again (outbound.go:70-76).
AckedOncePerRun ==
    \A i \in Ids : acks[i] <= restarts + 1

\* A bubble whose message leaves the queue as delivered has its recipient's
\* view in the cache by then, so a reaction to it can be rewritten
\* (outbound.go:564-574).
ViewBeforeLeaving ==
    [][\A i \in DOMAIN pending \ DOMAIN pending' :
          fate'[i] = "delivered" /\ pending[i].bubble => i \in views']_vars

\* The file forgets a message only after the message has ended: a write that
\* overtakes workers never drops one that is still to be sent.
DiskForgetsOnlyEnded ==
    [][\A i \in DOMAIN disk \ DOMAIN disk' : fate[i] \in Ended]_vars

\* Every message leaves the queue for good, also one that defers for ever for
\* want of a node, across a kill and a reload (outbound.go:78-89, 135-137).
QueueDrains == <>[](DOMAIN pending = {})

\* What comments of outbound.go say and the code does not do.

\* "a graceful shutdown never loses state" (outbound.go:720).
GracefulStopSaves ==
    [][phase = "stopping" /\ phase' = "down" => InSync(disk)]_vars

\* "retry on the next tick" (outbound.go:769): every change is written in the
\* end, also when a write has failed.
ChangesReachDisk == dirty ~> ~dirty
=============================================================================
