# fwdsvc: TLA+ models, checks and proofs

`fwdsvc` is a group-chat relay on the Reticulum network: members send it LXMF
messages, it fans each one out to every other member, and it keeps a roster, a
banlist, a short history and a delivery queue on disk. This directory models
its stateful core in TLA+, model-checks small instances with TLC and proves
the central invariants for all instances with TLAPS.

## 1. The system

One process, many goroutines. Arrows are calls.

    transport dispatcher --> inbox --> dispatcher --> roster --> state.json
            |                  |           |            ^
            |                  |           +--> join catch-up (own goroutine)
            |                  +--> forward fan-out --+--> outbound queue
            +--> announce tap --> roster              |      8 workers, flush loop
            +--> propagation tracker  <---------------+      outbound.json
            +--> announce persist tap --> announces.json
    timers: prune, roster flush, periodic announce

| Component | State | Operations | What makes it correct |
|---|---|---|---|
| outbound queue (`service/outbound.go`) | pending list, in-flight marks, dirty flag and kick token, `outbound.json` | Enqueue (three forms), pickDue, attempt, expiry, flush loop, Load | one owner per message; held messages stay behind earlier ones; budget spent only by real failures; a clean queue is on disk; every message ends |
| roster and banlist (`roster/`) | members, their activity stamps, paused/role/invited flags, bans, dirty flag, `state.json` | add, invite, touch, mark, announce, prune, remove, ban, unban, setters, Flush | bans hold; the cap holds; a decided command survives a kill; prune takes exactly those who are gone |
| command dispatcher (`commands/`) | none of its own | one handler per command | guards by role and membership |
| inbox (`service/inbox.go`) | none of its own | onLXMFReceived | duplicates, bans, presence, pause, fan-out, history, in that order |
| forward fan-out (`service/forward.go`) | none | forwardToRoster | every active member but the sender gets one copy |
| duplicate suppression (`service/dedup.go`) | seen keys with times | seenBefore | one fan-out per message within the window |
| message-id cache (`idmap/`) | bubbles, views, LRU order | RegisterView, Lookup, eviction | a reaction is rewritten to the recipient's own id |
| join catch-up (`service/replay.go`) | last replay per joiner, one goroutine per join | allow, sendJoinCatchup | one replay per cooldown, pins last |
| history (`history/`) | bounded list, `history.json` | Append, SinceOldest | bounds hold on write and on load |
| group info (`groupinfo/`, `commands/info.go`) | description, pins, `groupinfo.json` | SetInfo, AddPin, RemovePin | limits hold on write and on load; `/info` fits one packet |
| propagation tracker (`service/propagation.go`) | known nodes | OnAnnounce, Current | the node known longest, among fresh and usable ones |
| announce cache (`service/announces.go`, pins in `service.go`) | kick token, `announces.json`, pinned destinations | OnAnnounce, run, pinRosterDestinations | every announce reaches the file; strangers do not evict members |
| lifecycle and lock (`service/service.go`, `lock_*.go`, `cmd/`) | goroutines, flock, identity file | New, Run, stop | one process per state directory; one address; no file goes back in time |
| configuration, version | none after start | | |

What is hard here: workers act on a message outside the lock that protects it;
three files are written behind the state they describe; the process may be
killed between any two steps; announces are replayed long after they were
emitted; timers remove members between two steps of a handler that has already
checked they exist; every join starts a goroutine that reads pins, limiter and
log at three different moments; a new process may start while the old one is
still writing. `PROJECT.json` lists these hazards at their lines, with
the property that would catch each one going wrong, or the reason none does
yet.

## 2. Modules

| Module | What it is |
|---|---|
| `OutboundQueue` | the queue, its workers, its flush loop and its file |
| `Delivery` | what the queue promises its callers: the abstract specification |
| `OutboundQueueRefinement` | the mapping under which `OutboundQueue` implements `Delivery` |
| `Roster` | roster and banlist, with the inbox steps, commands, announces and timers that change them |
| `IdMap` | the message-id cache: its state, operations and properties, without callers |
| `Relay` | duplicate suppression, policy, rewrite, fan-out and log of the inbox, with the workers and the sweep around them; instantiates `IdMap` |
| `GroupInfo` | description and pins: state, operations and properties, without callers |
| `Catchup` | joins, the goroutines of the catch-up, the limiter, the inbox's replies; instantiates `GroupInfo` and `Delivery` |
| `Discovery` | announces: the propagation tracker, the persisted announce cache, the pinning of members |
| `Lifecycle` | several processes on one state directory: New, the lock, the identity file, Run and its end |
| `MCOutboundQueue`, `MCRoster`, `MCRelay`, `MCCatchup`, `MCDiscovery`, `MCLifecycle` | inputs and constants for TLC |
| `OutboundQueueProofs`, `OutboundQueueLimits`, `OutboundQueueDurability` | theorems about the queue: order; what is counted; the file, and the refinement. Each extends the one before |
| `RosterProofs`, `RelayProofs`, `CatchupProofs`, `DiscoveryProofs`, `LifecycleProofs` | theorems about the other components; `RelayProofs` covers `IdMap`, `CatchupProofs` covers `GroupInfo` |

Definitions whose name starts with `Bad` are plausible mistakes in the
definition that follows them. No action uses them; each property has at least
one under which TLC finds it violated (`mutants` in `PROJECT.json`).

### OutboundQueue

A message is a number; numbers are handed out in enqueue order, and since
`q.pending` is append-ordered and entries keep their slot, the order of the
numbers is the order of the slice. `pending`, `snap` (the copy Flush is
writing) and `disk` are functions from numbers to records. A record keeps the
fields decisions depend on: recipient, `AfterEarlier`, whether it carries a
bubble, attempts, the time left to `NextAttempt`, the age since `EnqueuedAt`,
and `Propagated`. Body and fields are not modelled: nothing in the queue reads
them.

Every action is one critical section of `q.mu`, or one step between two.

| Action | Code |
|---|---|
| `Enqueue`, `EnqueueRefused` | `enqueue` below and at the cap |
| `PickDue` | `pickDue` as a whole: reap, choose by recency and order, mark in flight |
| `AttemptStart` | first critical section of `attempt`, and the choice of route, slot or refusal |
| `SendReturns` | the send's return and `RegisterView`, outside the lock |
| `Delivered`, `Deferred`, `StampRefused`, `Reroute`, `GiveUp`, `Retry` | the branches of the second critical section, each with the deferred delete of the in-flight mark |
| `TakeKick`, `Flush`, `FinalFlush`, `Save`, `SaveFailed` | `runPersistLoop` and `Flush`, the snapshot and the write apart |
| `Crash`, `Stop`, `Exit`, `Restart` | kill, cancelled context, the end of the process, and `Load` |
| `NodeChange`, `Tick` | the node tracker's answer, and the clock |

How a send ends is external: `Results` lists the classes `attempt` tells apart
(delivered, stamp refused, recipient unknown, any other failure); deferrals
come from the model's own slots and node. `LastAnnounceFor` returns any order
of the recipients. `Stop` lets an idle worker that has passed its `ctx.Err()`
check call `pickDue` once more. `Exit` may come at any moment after `Stop`:
`Service.Run` waits for nothing.

Time is relative and capped at the first age past `maxQueueAge`, so the state
space is finite without a bound on the clock, and `Tick` moves the copy in the
file too, because both fields are wall-clock times.

History variables: `fate` (how a message last left the queue), `fails` (sends
that really failed) and `acks` (sends that succeeded).

### Delivery and OutboundQueueRefinement

`Delivery` knows neither workers, retries, routes, flushes nor files. A call is
accepted or refused at the cap; an accepted message ends once; a held one ends
by a send only after all earlier ones to its recipient; and only the end of the
process may lose messages or bring ended ones back, and then only ones of which
a copy was left, never one that was refused or lost. `up` says whether the
process runs: `Kill` ends it, `Start` starts the next one with what was left,
and everything a caller can see happens in between, so that a running queue
that loses a message or revives one does not implement `Delivery`.
`OutboundQueueRefinement` maps the detailed state to it: `up` is a `phase`
other than down; while the process is down, the queue is what the file holds;
copies are in memory, in the snapshot or in the file. `Catchup` uses `Delivery`
in place of the queue.

### Roster

A member is a record of ages: since the join, the last announce, the last chat
message, the last other traffic, with the flags `invited` and `paused` and the
granted role. Ages stop at the first value past both prune windows. Nicknames
and the text-only flag are not modelled, but the writes that set them are
(`Relabel`).

The inbox runs handlers one at a time (the dispatcher is documented as shared
by "the inbox goroutine", `handlers.go:55-56`); announces, timers and kills
come between the steps of a handler. `Receive` is the handler up to the
presence stamp; then one command, `ReplyOnly`, or the chat path, which is split
between the membership check (`AdmitChat`) and `MarkMessage`. Commands are one
step each: only the inbox adds members or touches the banlist, and a sweep
between a command's checks and its change has the effect of a sweep before or
after it.

`Persist` is the synchronous write every membership change ends in: it clears
`dirty` and then replaces the file, or fails and leaves the change in memory.
`DeferPersist` is the deferred one. `Restart` reloads the file and enrols
configured admins and mods.

An announce has the time at which it was really emitted (`ago`) and may be
signed with a time ahead of the service's clock, or with one `EmittedAt` cannot
read (`ahead`). It can arrive any number of times, and replays repeat it: only
`ago` grows. `StampOf` is what `OnAnnounce` makes of it, and the history does
not use it. `contact` and `words` are history: the age of the last sign of life
that was emitted, and of the last chat message, since a member was added;
`misdated` is the age of the last arrival of an announce that was signed ahead.
The sweep is judged against them.

### IdMap

`views`, `index` and `lru` are `Bubble.views`, `Cache.byMsgID` and the recency
list, newest first; `age` stands for `expiresAt`. `RegisterView` and `Lookup`
are one critical section each, with the eviction they contain: the expired
tail of the list (`Unexpired`), then as much as the cap demands (`Fitting`). A
bubble that is evicted keeps its views and can come back, as in the code.
`Relay` supplies the callers, who can register two bubbles under one id: a
message that is relayed twice has one id at its author's.

### Relay

The handler of a chat message in five kinds of steps, with the workers of the
queue, the clock and the prune sweep in between:

| Action | Code |
|---|---|
| `Receive` | `onLXMFReceived` up to the policy: `seenBefore`, ban, membership and pause, `filterAttachments`, the private replies |
| `Resolve` | `buildRewrite`'s lookup, `newBubbleForForward` |
| `StartFanOut` | the registration of the sender's own id, `ActiveHashes` |
| `Withhold`, `OmitTextOnly`, `EnqueueCopy` | one turn of `forwardToRoster`'s loop |
| `FinishFanOut` | `history.Append` and the end of the handler |
| `Send`, `GiveUp`, `BeginRegister`, `EndRegister` | a worker's send, and its `RegisterView` from lock to unlock |
| `Compose`, `Command`, `Prune`, `Tick`, `Restart` | clients, the roster's changes, the clock, a kill and the start after it |

A message is a number with an author, whether it has text, a set of fields and
the id its fields point at. A message id is a triple of message, owner and
number of the fan-out: 0 for the id the author computes. A message can point
at any id its author has. `Moved` lists what commands can make of a member's
status; `Command` waits for the handler, since the inbox runs one at a time. A
duplicate changes nothing and is no step. The
fields of the three dicts (reaction, comment, continuation) behave alike but
for the stamp of reactions, so two stand for them. Retries, routes and the
file of the queue are in `OutboundQueue`: here a queued copy is sent or given
up, and a restart brings back any part of the queue, without bubbles, since
they are not persisted. The over-limit reply is in `Roster` (`ReplyOnly`).

`ViewFor` reads a map that `RegisterView` may be writing; reading the old or
the new value is covered by the order of the steps, and the end of the process
by `Restart`.

History variables: `held` (the ids each user has), `copies` (all that was
queued), `skipped` (annotations withheld), `fans` and `relayed` (fan-outs of each
message and in all), `recent` and `forgotten` (when a message last passed as new, and whether an overflow of the
table came since).

### GroupInfo and Catchup

`GroupInfo` has one action per method of the store together with the checks of
its command, and is parameterised by whether the write succeeds. Pins are
counted and a description is its length, which is all that the limits and the
size of the `/info` reply depend on. An operator may leave an edited file at
every start.

`Catchup` has the inbox (`Join`, `AddUser`, `Leave`, `Maintain`, `Chat`, each
followed by `Reply` before the next message) and the goroutine of
`sendJoinCatchup` in five steps: `ReadPins`, `Allow` (the limiter's critical
section), `ReadLog`, `Replay` (one enqueue each), `SendPins`. A goroutine
carries the time of its start, so that two of them may reach the limiter with
clocks out of order. Commands, deliveries, ticks, a kill and the start after it
come between any two steps. `served` is history: when the last catch-up of each joiner that was
allowed began.

### Discovery

Announces are numbered by the moment they are heard; ages are capped at the
first value past the limits, so the clock has no bound. The transport's cache
is external: a bounded map that evicts the oldest entry that is not pinned.
`Hear` and `OnAnnounce` are apart, because the transport updates its cache
before it calls the handlers. `TakeKick`, `Drain`, `Snapshot` and `SaveNow` are
the steps of `announcePersistTap.run`, on its timer and on `ctx.Done()`.
Whether the parameters in an announce make a node usable is a free choice.
`entered`, `settled` and `unsaved` are history.

### Lifecycle

A file is the set of changes it contains; a process rewrites it as a whole from
its memory. Two files stand for the two kinds: the roster is loaded before the
lock is taken (as are history and group info), the queue after (as is the
announce cache). `Load`, `Acquire`, `Enrol`, `Identify`, `Create` and `Run` are
the stages of `service.New` and of the beginning of `Run`; `Change`, `Flush`,
`Stop` and `Return` are what happens until it has returned, and `Exit` ends a
process at any stage. `MissFile` is `Identify` when `os.Stat` fails on a file
that is there: the code goes on to create an identity and saves it over the old
one. A process that has returned (`left`) may still flush: the
unlock comes before that. Where the file system has no locks, and on Windows,
everybody is let in. `met` (the processes that used a file while another one
did) and `blind` (those whose look at the identity file failed) are history.

## 3. Runs

Bounds are constants with names; every run's value for them is in its cfg.

| Run | Instance | Checks |
|---|---|---|
| `queue_workers` | 2 workers, 2 messages to one recipient who asks for stamps, each a fan-out copy or held, 1 stamp slot, propagation off, store, 1 restart, 1 failing write | `TypeOK`, `SingleOwner`, `CleanMeansSaved`, `HeldInOrder`, `AckedOncePerRun`, `ViewBeforeLeaving`, `DiskForgetsOnlyEnded`, `ImplementsDelivery` |
| `queue_routes` | 1 worker, one of the three modes chosen anew at each start, cap 1, 2 messages, none held, 1 restart, no failing write, fairness | `QueueBounded`, `CleanMeansSaved`, `NoStrandedMail`, `GiveUpEarned`, `BudgetHeld`, `QueueDrains` |
| `queue_stop` | 1 worker, 1 message, no failing write | `GracefulStopSaves`, violated |
| `queue_unsaved` | 1 worker, 1 message, no restart, 1 failing write, fairness | `ChangesReachDisk`, violated |
| `roster_commands` | 4 users, one configured admin, cap 2, all roles grantable, 1 restart | `BannedOut`, `CapRespected`, `CommandsDurable` |
| `roster_prune` | 1 configured mod, locked, windows of 1 and 2, announces emitted 0, 2 or 3 ago, or signed ahead and emitted 0 or 3 ago, 6 units of time, 1 restart, 1 failing write | `TypeOK`, `SweepExact` |
| `roster_invitee` | 2 users, one a configured mod, the same windows, announces emitted 0, 2 or 3 ago | `InviteeKept`, violated |
| `relay_bind` | 3 members, 2 messages of 4 shapes, no duplicate suppression, cache cap 3, TTL 1, 2 units of time | `BindsOwnView`, `AuthorNotSkipped`, `IndexOwned`, `CapHeld` |
| `relay_inbox` | 2 text-only users who join, leave, pause, resume and are banned and unbanned, reactions, refused and oversized attachments, window 1, table of 1, queue of 1, 1 restart, 1 failing write | `TypeOK`, `NoEcho`, `QuietSpared` |
| `catchup` | 2 joiners and an admin, 3 commands or chat messages, 3 enqueued messages, queue of 2, cooldown 1, 2 units of time, with and without a replay, an edited file, 1 restart, 1 failing write | `TypeOK`, `InfoFits`, `PinsLast`, `OncePerCooldown` |
| `discovery` | 3 nodes and 1 member, 3 announces, a table of 2, a cache of 2, 1 restart, 1 failing write | `TypeOK`, `NoLostAnnounce`, `NodeKept`, `MembersKept` |
| `lifecycle` | 2 processes, 4 starts, 3 changes, with and without the lock, with and without a configured identity, 1 failing `os.Stat` | `TypeOK`, `OneServing`, `OneIdentity`, `AddressKept`, `NothingForgotten` |

Why the bounds are enough to be interesting: two workers and two messages are
the least with a race between picks and between a held message and an earlier
one; a refused stamp makes a message end by a send while the other is held behind
it; in the other queue runs a budget of two with a direct budget of one makes
retry, re-route and giving up all happen; a cap equal to or one below the
number of messages makes the queue full; one slot makes a second taker be
turned away; an age limit of one lets messages expire while waiting,
while in flight and while on disk. Four users are a configured admin and
enough guests to overfill a cap of two, who can become moderators of each
other. For the sweep, members do not interact, so one is enough; six units of
time pass both windows, a rejoin and both windows again. For the relay, a
message and an annotation of it are the least that can race; three members are
an author, one who reacts and one who lags; a cache cap of three is met by one
fan-out and overrun by two; a table of one id overflows with the second message
inside the window and sheds the first one outside it. For the catch-up, three
commands are a join, a leave and a join, or a join, a chat message and a pin;
two units of time pass a cooldown of one, so that a goroutine of the first join
can reach the limiter after one of the second; three enqueued messages are a
replay, a reply and the pins. For the tracker, three nodes overfill a table of
two; with an age limit of zero every tick makes what was heard before it stale.
For the lifecycle, four starts are two overlapping pairs, and three changes let
two processes write one file in turn.

Workers, nodes, processes, and users without a configured role are
interchangeable in the models; symmetry is used for them in runs without
liveness properties (the action properties and the refinement are safety).
Deadlock is checked in the queue runs and in `discovery`. It is not in the
others, whose bounds let the system run out of things to do: a group whose
every user is banned, all messages relayed, all commands or starts used up.

Fairness (`queue_routes` and `queue_unsaved`): each worker and the flush loop
are goroutines that are scheduled; a send returns, since the library bounds it
(`lxmf.LinkSendTimeout`, cited at `outbound.go:546-547`); a write of the file
ends, well or badly; the clock advances; a stopping process exits and a
supervisor starts it again. Nothing is assumed of callers, of sends succeeding
or of nodes appearing. Of the disk it is assumed that it fails at most
`MaxSaveFailures` times: never in `queue_routes`, once in `queue_unsaved`.
`QueueDrains` is checked without held messages; of those only safety is checked,
in `queue_workers`.

### Where the code and its comments or docs disagree

The three runs marked violated state what a comment says; the other rows are of
runs that pass because the property says what the code does, with the
exception the text leaves out.

| Run | What the text says | What the run shows |
|---|---|---|
| `queue_stop` | `outbound.go:719-720`: a final flush "so a graceful shutdown never loses state" | `Service.Run` starts the queue with `go` and returns without waiting (`service.go:420`, `441-443`); the process can end before the last write |
| `roster_invitee` | `roster.go:42-50`: an invitee is exempt until heard from since being added | the first announce recorded clears the exemption, however old; a cached announce replayed by a transport node is enough |
| `queue_unsaved` | `outbound.go:769`: after a failed write, "retry on the next tick" | the flush loop has no tick and gets no token, so an idle queue stays unwritten until it changes again. With `MaxSaveFailures = 0` the property holds |
| `queue_routes` | `src/README.md:844-847`: "No upper bound on pending depth. Nothing rejects new messages when the queue is long" | `enqueue` refuses at `maxPendingMessages` (`outbound.go:378`): `QueueBounded` holds and `EnqueueRefused` happens |
| `roster_prune` | `service.go:717-722`, `roster.go:245-250`: a replayed announce cannot make "a long-dead identity look freshly active and dodge Prune" | one that is signed ahead of the clock, or whose time cannot be read, is stamped with its arrival (`service.go:725-729`), each replay again. `SweepExact` exempts a member for `prune_after` from the last such arrival; without that it is violated |
| `discovery` | `propagation.go:196-202`: an attacker "must out-persist every established node rather than out-shout it"; `src/README.md:552-554`: the choice "resists a newcomer flooding announces" | a full table evicts the node heard least recently, the one in use too (`propagation.go:168-180`): `maxTrackedNodes` new nodes that announce once each after its last announce take the role from a fresh and usable node. `NodeKept` names this case; without it it is violated |

Seen while modelling, and not stated as runs:

* Enrolment at start does not ask the banlist, so a banned configured admin or
  mod is a member again after a restart; `BannedOut` names the exception.
* The check against empty copies (`inbox.go:206-208`) precedes the rewrite
  (`rewrite.go:227-239`), which can strip the last field of a reply without
  text.
* `forwardToRoster` counts copies that a full queue refuses (`forward.go:74-75`,
  against the comment at 41-42), so a message nobody was sent can enter the log.
* A bubble evicted during its fan-out comes back indexed under the last view
  only (`idmap.go:127-131`, `203-211`, against 36-38).
* A reaction is withheld from a member whose copy of the target is still in the
  queue (`rewrite.go:154-158`): the copy arrives, the reaction never does.
* `ViewFor` reads without the lock the map `RegisterView` writes under it
  (`idmap.go:70-73`, `127`).
* The roster's `persistLocked` and the persist loop of the announces forget a
  failed write in the same way as the queue (`roster.go:598`,
  `announces.go:196-203`).
* `src/README.md:848-852` says that `outbound.json` is rewritten on every
  `Enqueue`; the writes are coalesced by the flush loop (`outbound.go:703-740`).
* The stamp slots do not bound all grinding: `SendPropagated` grinds the
  recipient's stamp as well (`outbound.go:601-602`) and holds an upload slot
  only, so more workers than `stampSlots` can grind (against the purpose stated
  at 838-850). The slots themselves are buffered channels and need no property.
* `service.go:647` takes every error of `os.Stat` for there being no identity
  file, and the new identity is saved over the old one; `OneIdentity` and
  `AddressKept` name the exception.
* Copies that are queued when a member is banned are sent all the same;
  `QuietSpared` is about the moment of queueing.
* A reaction that arrives between the send of its target and `RegisterView`
  (`outbound.go:556-571`) finds no view: `ViewBeforeLeaving` is about the queue
  entry, not about the wire.
* That handlers run one at a time is what `handlers.go:55-56` says. The library
  may deliver on several links at once (`inbox.go:51-54` speaks of validations
  shed under load, `docs/resource-security-audit.md` F2 of receivers per
  link); two `/join`s at once could pass the cap between `handleJoin`'s check
  and its change, which `CapRespected` does not see.
* In the last save of the announce loop a token may be left in the channel that
  no save will take; `NoLostAnnounce` counts an announce behind it as on its
  way, although the process ends.
* A failing write of the replay log is ignored (`inbox.go:280`): the entry is
  in memory only until the next message.
* The welcome of `/adduser` is described as arriving first because the queue is
  "sequential" (`service.go:533-534`). It has eight workers and orders plain
  messages by recency; only the pins are held. The reply to `/join` is enqueued
  by the inbox while the goroutine runs, so it can follow the pins.
* A joiner of a group whose log is empty is charged the cooldown although
  nothing is sent: the check looks at the setting, not at the log
  (`replay.go:87`).
* A message relayed between a join and the goroutine's read of the log reaches
  the joiner twice, as a live copy and in the replay.
* Roster, history and group info are loaded before the lock is asked for
  (`service.go:98-115` against `122-130`), and the lock is given up before the
  last flushes (`354-356`). `NothingForgotten` says what remains true: a file
  goes back only by a process that was not alone with it.

## 4. Proofs

All theorems are for every value of the constants that satisfies the named
assumptions (`LimitsAssumption`, `InputsAssumption`, `RosterAssumption`,
`RelayAssumption`, `ShapesAssumption`, `CatchupAssumption`,
`LengthsAssumption`, `DiscoveryAssumption`, `LifecycleAssumption`): any number
of workers, messages, recipients, users, bubbles, nodes, processes, restarts
and failing writes. The assumptions say what the code's constants and
configuration guarantee: limits are natural numbers, at least one attempt is
allowed, waits between retries are positive, pools and rosters are finite,
lengths are numbers of bytes, "no bubble" is not a bubble. TLC evaluates them
in every run.

Every safety property that a passing run checks is also a theorem. Each module
of proofs has one inductive invariant, or a tower of them, which TLC checked on
the runs' instances before it was proved.

| Module | Inductive invariant | Theorems |
|---|---|---|
| `OutboundQueueProofs` | `OrderInv` | `TypeCorrect`, `NoSharedMessage`, `HoldIsKept` |
| `OutboundQueueLimits` | `LimitsInv` (contains `OrderInv`) | `QueueStaysBounded`, `NothingStranded`, `BudgetIsHeld`, `FailureIsEarned`, `OneSuccessPerRun` |
| `OutboundQueueDurability` | `DurableInv`, then `QueueInv` (contains `LimitsInv`) | `CleanIsSaved`, `FileForgetsOnlyEnded`, `ViewIsRegistered`, `QueueKeepsPromise` |
| `RosterProofs` | `BannedOut`; `CapInv`; `RosterInv`; `SweepInv` | `BanHolds`, `CapHolds`, `TypeCorrect`, `CommandsSurvive`, `SweepIsExact` |
| `RelayProofs` | `Inv`, nine parts | `TypeCorrect`, `ReactionsBind`, `AuthorsNotSkipped`, `NoStrayKey`, `CapIsHeld`, `NoEchoes`, `QuietAreSpared` |
| `CatchupProofs` | `Inv`, six parts | `TypeCorrect`, `InfoAlwaysFits`, `CooldownHolds`, `PinsComeLast` |
| `DiscoveryProofs` | `Inv`, five parts | `TypeCorrect`, `AnnouncesReachFile`, `MembersStay`, `NodeStays` |
| `LifecycleProofs` | `Inv`; `CopyInv` | `TypeCorrect`, `AloneWithLock`, `SameAddress`, `AddressForGood`, `FilesRemember` |

### The queue: order

`OrderInv` is:

* `Owned`: the type invariant, `SingleOwner`, and `Counted` (a message on its
  way has a counted attempt). `SingleOwner` is needed for types, since a step
  of a worker updates `pending` at the message it holds, and `Counted` keeps a
  deferral from taking a count below zero.
* `Fresh`: every queued, snapshotted or saved message has a number below the
  next one, so an enqueue goes behind everything.
* `Halted`: a process that is down owns nothing, so that a reload, which may
  bring back messages that had left, finds no held message in flight.
* `HeldInOrder` itself. The step: a held message enters flight only through
  `PickDue`, which finds nothing earlier for its recipient; while it is in
  flight an earlier message could only appear by an enqueue (excluded by
  `Fresh`) or a reload (excluded by `Halted`).

`OwnedStep` has one lemma per group of actions. `Origin` and `CopyOrigin` say
where an entry of the next state comes from and that its recipient and hold
never change; the order argument uses only them.

### The queue: what is counted

Attempts, failures and successes of a message are related to its `Stage`, the
place its owner has reached: between the count and the result there is one
attempt more than failures, after a success one success more. `EntryStep` lists
the six things one step can do to one message (wait, arrive, start, return, be
put back, be reloaded), and the counting lemmas use only that list. The copies
in the snapshot and in the file obey the same bounds with a different number of
restarts to spare, which is what makes the bounds survive a reload.

### The queue: the file and the refinement

`DurableInv` says which fates are known, that a copy outside the queue is of a
message that has ended (`Accounted`), where bubbles are (`Bubbles`), and
`CleanMeansSaved`. `QueueInv` adds that all copies of a message agree on
recipient and hold (`Agreed`), and that a message that is sent again after it
had ended is in the file and in the snapshot that is to replace it
(`Reloaded`); without the latter a write could remove the only copy from which
a second end is legitimate. `QueueKeepsPromise` then maps the first states to
first states of `Delivery` and every step to one of its steps or a stutter: an
enqueue to an acceptance or a refusal, the branches of `attempt` and the reaping
in `PickDue` to ends, a write to the disappearance of copies, a kill to a loss
of what was only in memory, a reload to a return of what the file has.

### Roster

`BanHolds` and `CapHolds` rest on `MembershipStep`: every step leaves the
members and bans alone, makes one of five changes (`Changed`), or reloads the
file (`Reloaded`), and the file is either unchanged or a copy of memory.
`BannedOut` is inductive as it stands because it speaks of the file too. For
the cap, `CapInv` adds the same bound for the file, without which a restart
could break it, and that all members are users, so that cardinalities are of
finite sets. `RosterInv` compares memory and file through the types of both.
`SweepIsExact` compares the stamps the code keeps with the history of what was
really emitted and said: `Level` says that the last words are the same, that
the last sign of life by the stamps is the younger of the real one and the last
arrival of an announce signed ahead, and that an invitee has given none.

### Relay and the message-id cache

`RelayProofs` first proves, for any list and index, what `MovedToFront`,
`Removed`, the eviction of a tail and `Fitting` do (`FrontList`,
`RemovedList`, `ShortenedSound`, `FittingFits`): the list stays free of
repetitions, and every key still leads to a bubble in the list that has it among
its views (`Sound`). `CapHeld` needs that: an emptied list means an empty index,
so the loop of `enforceCapLocked` always gets below the cap.

The heart of the invariant is `Born(b, m, f)`: bubble b is the one of fan-out f
of message m. Its views are the author's id and the ids of that fan-out's
copies; every queued copy that carries b, and the handler while it has b in
hand, belongs to the same fan-out; and there is no view and no copy without the
author's view. `BornStep` shows that no step of the inbox or the workers
changes this, so a `RegisterView` never gives a recipient a second id, and a
bubble that is evicted and comes back is still the same message's. From it
follow `ReactionsBind` and `AuthorsNotSkipped`. `QuietAreSpared` needs that those
still to be served are active or swept away, which holds because commands wait
for the handler. `NoEchoes` needs `SeenInv`: the table is what has passed and
was not cleared, and it is cleared exactly when more messages than it holds
passed within one window; the case of a window of zero is included.

### Catch-up, group info

`InfoAlwaysFits` follows since `/setinfo` measures the description against the
longest list of pins. For `CooldownHolds`, `LimitInv` says that the limiter
remembers the start of the last catch-up of each joiner, or that the cooldown
has passed since; goroutines carry times that may be older than what the
limiter remembers, and the difference is then negative and refused. `PinsLast`
uses the queue through `Delivery` only: with `QueueKeepsPromise` this is an
argument about the real queue.

### Announces

`AnnouncesReachFile` needs `SnapFollowed`, a snapshot that is behind the cache
is followed by another. `NodeStays` needs `Ordered`: no two nodes were heard
first, or last, at the same time, so that the choice of the longest known node
and the eviction of the one silent longest are unique. What it proves is that
nothing short of a table's worth of nodes, all heard after it, makes a fresh and
usable node lose the role to a younger one.

### Lifecycle

`AloneWithLock`, `SameAddress` and `AddressForGood` follow from one inductive
invariant of three parts: `TypeOK`; `LockInv`, where the lock works it is held
by whoever is between `acquireInstanceLock` and the return of `Run`; and
`IdInv`, whoever is about to create an identity has found none or could not
look, and whoever is past that step and serves has the address of the group.
`IdInv` needs `LockInv`: only the lock keeps a second process from the same
place. As long as `os.Stat` has not failed it also covers processes that have
returned and not ended, which the lock no longer does, because their address
then exists. `FilesRemember` rests on `CopyInv`, which does not mention
the lock: two processes that use a file have met over it, and the copy of one
that has met nobody is not behind the file.

### Only model-checked

`QueueDrains` is liveness under fairness, which is out of this prover's reach.
`GracefulStopSaves`, `ChangesReachDisk` and `InviteeKept` are violated, as
section 3 says. Nothing here needs induction over data or a RECURSIVE operator.

## 5. Not modelled

* The Reticulum and LXMF library: not part of the repository; its results are
  inputs.
* Configuration (`config.go`): parsing and validation of a file that is read
  once. Its values are the constants of the modules, and what validation
  guarantees of them is in the modules' assumptions.
* Byte formats, reply texts, sizes of attachments, sanitizing, rendering,
  logging, the dialling of interfaces, version: no state that a property is
  about.

## 6. Plan

Done: all stateful components and their runs, and a proof of every safety
property that the passing runs check, the refinement of `Delivery` included.
Left:

1. Theorems that join components: what `Catchup` proves with `Delivery`, stated
   about the queue itself.
2. Properties for the three hazards that have none yet (`PROJECT.json`): a
   failed write of the roster, copies counted although the queue refused them,
   numbers of pins read before another moderator's `/unpin`.
