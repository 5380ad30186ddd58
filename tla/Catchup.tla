------------------------------ MODULE Catchup ------------------------------
(***************************************************************************)
(* What a new member gets on the way in (internal/service/replay.go): the  *)
(* recent history, message by message, and then the pinned messages, at    *)
(* most once per cooldown.  Every /join and /adduser starts a goroutine of *)
(* its own for it, which carries the time of its start with it; the inbox  *)
(* goes on with the reply to the command and with other commands, which    *)
(* may remove the member, bring them back, or change the pins.             *)
(*                                                                         *)
(* The outbound queue is the abstract one of Delivery, the description and *)
(* the pins are those of GroupInfo.  Roles, bans, the cap and the lock of  *)
(* the group are modelled in Roster, and the log's file in Relay.          *)
(***************************************************************************)
EXTENDS Integers, Sequences, FiniteSets, Functions

CONSTANTS
    Users,          \* who may join
    Admin,          \* who runs the commands of mods and admins
    Nil,            \* nobody
    Configs,        \* settings: is replay.count > 0, is replay.pins_on_join set
    Cooldown,       \* replayCooldown
    MaxAge,         \* replay.max_age, 0 for no limit
    LogCap,         \* replay.count
    Lengths, Names, Edited, MaxPins, MaxInfoBytes, Budget, StrangerTail,
    MemberTail,     \* as in GroupInfo
    MaxPending,     \* maxPendingMessages
    MaxMessages,    \* bound: messages enqueued
    MaxCommands,    \* bound: commands and chat messages handled
    MaxTicks,       \* bound: units of time that pass
    MaxRestarts,    \* bound: kills of the process
    MaxSaveFailures \* bound: failing writes of groupinfo.json

ASSUME CatchupAssumption ==
    /\ Admin \notin Users /\ Nil \notin Users \cup {Admin}
    /\ Cooldown \in Nat \ {0} /\ MaxAge \in Nat /\ LogCap \in Nat \ {0}
    /\ MaxPins \in Nat /\ MaxInfoBytes \in Nat
    /\ MaxPending \in Nat /\ MaxMessages \in Nat /\ MaxCommands \in Nat
    /\ MaxTicks \in Nat /\ MaxRestarts \in Nat /\ MaxSaveFailures \in Nat

\* Lengths in bytes and numbers of pins.
ASSUME LengthsAssumption ==
    /\ Lengths \subseteq Nat /\ Names \subseteq Nat
    /\ Edited \subseteq [info : Nat, pins : Nat]
    /\ Budget \in Nat /\ StrangerTail \in Nat /\ MemberTail \in Nat

VARIABLES
    now,            \* the clock
    replays,        \* replay.count > 0 in the configuration
    pinsOnJoin,     \* replay.pins_on_join
    members,        \* Roster.Has
    log,            \* history.Log.entries: when each message was relayed
    last,           \* replayLimiter.last
    jobs,           \* the goroutines of sendJoinCatchup
    replyTo,        \* whose command's reply the inbox has still to enqueue
    info, pins, file, displayName, sized, \* GroupInfo
    up, status, copies, \* Delivery
    calls,          \* history: what was enqueued, in order
    served,         \* history: when the last catch-up that was allowed began
    commands, restarts, saveFails

group == <<info, pins, file, displayName, sized>>
queue == <<up, status, copies>>
setup == <<replays, pinsOnJoin>>
limit == <<last, served>>
vars  == <<now, setup, members, log, last, jobs, replyTo, group, queue, calls,
           served, commands, restarts, saveFails>>

-----------------------------------------------------------------------------

Everyone == Users \cup {Admin}

Info  == INSTANCE GroupInfo
Queue == INSTANCE Delivery WITH Orders <- [rcpt : Everyone, after : BOOLEAN]

\* A definition whose name starts with Bad is a plausible mistake in the
\* definition below it; no action uses it.

Without(f, S) == Restrict(f, DOMAIN f \ S)
With(f, x, v) == [y \in DOMAIN f \cup {x} |-> IF y = x THEN v ELSE f[y]]

\* OutboundQueue.enqueue: accepted, or refused by a full queue.
Call(to, after, kind, job) ==
    /\ \/ Queue!Accept([rcpt |-> to, after |-> after])
       \/ Queue!Refuse
    /\ calls' = Append(calls, [to |-> to, kind |-> kind, job |-> job])

Init ==
    /\ now = 0
    /\ \E c \in Configs : replays = c[1] /\ pinsOnJoin = c[2]
    /\ members = {}
    /\ log = << >>
    /\ last = << >>
    /\ jobs = << >>
    /\ replyTo = Nil
    /\ Info!Init
    /\ Queue!Init
    /\ calls = << >>
    /\ served = << >>
    /\ commands = 0 /\ restarts = 0 /\ saveFails = 0

-----------------------------------------------------------------------------
(* The inbox: one message at a time, and the reply before the next one. *)

Handle ==
    /\ up
    /\ replyTo = Nil
    /\ commands < MaxCommands
    /\ commands' = commands + 1

\* A command of u is handled; what it returns is enqueued next.
Command(u) == Handle /\ replyTo' = u

\* go s.sendJoinCatchup(u, s.now())
Spawn(u) ==
    jobs' = Append(jobs, [to |-> u, at |-> now, pc |-> "start",
                          pinned |-> FALSE, todo |-> 0])

\* handleJoin and onJoin
Join(u) ==
    /\ Command(u)
    /\ u \notin members
    /\ members' = members \cup {u}
    /\ Spawn(u)
    /\ UNCHANGED <<now, setup, log, limit, group, queue, calls, restarts,
                   saveFails>>

\* handleAddUser and onAdminAdd: the welcome is enqueued by the handler.
AddUser(u) ==
    /\ Command(Admin)
    /\ u \notin members
    /\ members' = members \cup {u}
    /\ Call(u, FALSE, "welcome", 0)
    /\ Spawn(u)
    /\ UNCHANGED <<now, setup, log, limit, group, restarts, saveFails>>

\* handleLeave; a kick, a ban or the sweep has the same effect here.
Leave(u) ==
    /\ Command(u)
    /\ u \in members
    /\ members' = members \ {u}
    /\ UNCHANGED <<now, setup, log, limit, jobs, group, queue, calls, restarts,
                   saveFails>>

\* handleSetInfo, handlePin, handleUnpin, and handlePins, which only replies.
Maintain ==
    /\ Command(Admin)
    /\ \E written \in BOOLEAN :
          /\ written \/ saveFails < MaxSaveFailures
          /\ saveFails' = IF written THEN saveFails ELSE saveFails + 1
          /\ \/ \E i \in Lengths : Info!SetInfo(i, written)
             \/ Info!AddPin(written)
             \/ \E n \in 1 .. pins : Info!RemovePin(n, written)
             \/ written /\ UNCHANGED group
    /\ UNCHANGED <<now, setup, members, log, limit, jobs, queue, calls, restarts>>

\* onLXMFReceived enqueues what Dispatch returned.
Reply ==
    /\ replyTo # Nil
    /\ Call(replyTo, FALSE, "reply", 0)
    /\ replyTo' = Nil
    /\ UNCHANGED <<now, setup, members, log, limit, jobs, group, commands,
                   restarts, saveFails>>

\* A chat message is relayed and logged (Relay).
Chat ==
    /\ Handle
    /\ LET l == Append(log, now)
       IN  log' = IF Len(l) > LogCap THEN Tail(l) ELSE l
    /\ UNCHANGED <<now, setup, members, limit, jobs, replyTo, group, queue, calls,
                   restarts, saveFails>>

-----------------------------------------------------------------------------
(* The goroutines. *)

At(j, pc) == jobs[j].pc = pc

\* A goroutine that has returned leaves nothing but whom it was for.
Over(job) == [job EXCEPT !.pc = "done", !.at = 0, !.pinned = FALSE, !.todo = 0]

Ended(j) == [jobs EXCEPT ![j] = Over(@)]

\* The pins are read and rendered, and a goroutine that has nothing to send
\* ends before it asks the limiter.
ReadPins(j) ==
    LET some == pinsOnJoin /\ pins > 0
    IN  /\ At(j, "start")
        /\ jobs' = IF replays \/ some
                   THEN [jobs EXCEPT ![j].pinned = some, ![j].pc = "limit"]
                   ELSE Ended(j)
        /\ UNCHANGED <<now, setup, members, log, limit, replyTo, group, queue,
                       calls, commands, restarts, saveFails>>

\* allow: entries that are older than the cooldown at time t go ...
Swept(t) == Without(last, {u \in DOMAIN last : t - last[u] > Cooldown})

\* ... and u is refused by one that is younger, unless it is from the future.
BadRefused(u, t) == u \in DOMAIN Swept(t) /\ t - last[u] \in 0 .. Cooldown - 1

\* ... and u is refused by one that is younger.
Refused(u, t) == u \in DOMAIN Swept(t) /\ t - last[u] < Cooldown

Allow(j) ==
    LET u == jobs[j].to
        t == jobs[j].at
    IN  /\ At(j, "limit")
        /\ IF Refused(u, t)
           THEN /\ last' = Swept(t)
                /\ jobs' = Ended(j)
                /\ UNCHANGED served
           ELSE /\ last' = With(Swept(t), u, t)
                /\ served' = With(served, u, t)
                /\ jobs' = [jobs EXCEPT ![j].pc = IF replays THEN "read"
                                                             ELSE "send"]
        /\ UNCHANGED <<now, setup, members, log, replyTo, group, queue, calls,
                       commands, restarts, saveFails>>

\* SinceOldest
Recent(t) == {i \in DOMAIN log : MaxAge = 0 \/ log[i] >= t - MaxAge}

ReadLog(j) ==
    /\ At(j, "read")
    /\ jobs' = [jobs EXCEPT ![j].todo = Cardinality(Recent(jobs[j].at)),
                            ![j].pc = "send"]
    /\ UNCHANGED <<now, setup, members, log, limit, replyTo, group, queue, calls,
                   commands, restarts, saveFails>>

Replay(j) ==
    /\ At(j, "send")
    /\ jobs[j].todo > 0
    /\ Call(jobs[j].to, FALSE, "replay", 0)
    /\ jobs' = [jobs EXCEPT ![j].todo = @ - 1]
    /\ UNCHANGED <<now, setup, members, log, limit, replyTo, group, commands,
                   restarts, saveFails>>

\* Enqueue.
BadCallPins(j) == Call(jobs[j].to, FALSE, "pins", j)

\* EnqueueAfterEarlier.
CallPins(j) == Call(jobs[j].to, TRUE, "pins", j)

SendPins(j) ==
    /\ At(j, "send")
    /\ jobs[j].todo = 0
    /\ IF jobs[j].pinned THEN CallPins(j) ELSE UNCHANGED <<queue, calls>>
    /\ jobs' = Ended(j)
    /\ UNCHANGED <<now, setup, members, log, limit, replyTo, group, commands,
                   restarts, saveFails>>

-----------------------------------------------------------------------------
(* The surroundings. *)

\* The queue's workers.  A message that is over leaves no copy: that one may
\* come back after a kill is checked in OutboundQueueRefinement.
Deliver ==
    /\ \E i \in Queue!Queued :
          /\ copies' = Without(copies, {i})
          /\ Queue!Send(i, "delivered")
    /\ UNCHANGED <<now, setup, members, log, limit, jobs, replyTo, group, calls,
                   commands, restarts, saveFails>>

Tick ==
    /\ now < MaxTicks
    /\ now' = now + 1
    /\ UNCHANGED <<setup, members, log, limit, jobs, replyTo, group, queue, calls,
                   commands, restarts, saveFails>>

\* The process is killed.  Goroutines and limiter are gone, and with them all
\* that the settings of the catch-up had an effect on; some of the queue is left.
Kill ==
    /\ restarts < MaxRestarts
    /\ last' = << >> /\ served' = << >>
    /\ jobs' = [j \in DOMAIN jobs |-> Over(jobs[j])]
    /\ replyTo' = Nil
    /\ \E S \in SUBSET Queue!Queued :
          copies' = Restrict(copies, S) /\ Queue!Kill(S)
    /\ UNCHANGED <<now, setup, members, log, group, calls, commands, restarts,
                   saveFails>>

\* It is started again, perhaps with another display name and an edited file.
Restart ==
    /\ restarts' = restarts + 1
    /\ Info!Load
    /\ Queue!Start
    /\ UNCHANGED <<now, setup, members, log, limit, jobs, replyTo, calls,
                   commands, saveFails>>

Inbox ==
    \/ \E u \in Users : Join(u) \/ AddUser(u) \/ Leave(u)
    \/ Maintain
    \/ Reply
    \/ Chat

Goroutine(j) == ReadPins(j) \/ Allow(j) \/ ReadLog(j) \/ Replay(j) \/ SendPins(j)

Next ==
    \/ Inbox
    \/ \E j \in DOMAIN jobs : Goroutine(j)
    \/ Deliver \/ Tick \/ Kill \/ Restart

Spec == Init /\ [][Next]_vars

-----------------------------------------------------------------------------

\* The state has its type; in particular the description and the pins stay
\* within their limits, whatever the loaded file held.
TypeOK ==
    /\ Info!TypeOK
    /\ members \subseteq Users
    /\ Len(log) <= LogCap
    /\ DOMAIN last \subseteq Users /\ \A u \in DOMAIN last : last[u] \in 0 .. now
    /\ status \in [Queue!Ids -> Queue!Status]
    /\ DOMAIN calls = {i \in Queue!Ids : status[i] # "none"}

\* When the pins reach a joiner, all of their catch-up has been enqueued and
\* everything that was enqueued for them before the pins has left the queue,
\* however the goroutine interleaves with replies, with a second catch-up of
\* the same joiner, and with a restart (replay.go:57-72).
PinsLast ==
    [][\A i \in DOMAIN calls :
          calls[i].kind = "pins" /\ status[i] = "queued"
                                /\ status'[i] = "delivered" =>
             /\ jobs[calls[i].job].pc = "done"
             /\ \A k \in 1 .. i - 1 :
                   calls[k].to = calls[i].to => status[k] # "queued"]_vars

\* A second catch-up for the same joiner is allowed only when the cooldown has
\* passed since the first one began, or after a restart, in whatever order
\* goroutines with older and newer times reach the limiter and sweep it
\* (replay.go:36-53).
OncePerCooldown ==
    [][\A j \in DOMAIN jobs :
          At(j, "limit") /\ jobs'[j].pc \in {"read", "send"} =>
             \/ jobs[j].to \notin DOMAIN served
             \/ now - served[jobs[j].to] >= Cooldown]_vars

\* As in GroupInfo, for the commands and restarts of this module.
InfoFits == Info!InfoFits
=============================================================================
