------------------------------- MODULE Relay -------------------------------
(***************************************************************************)
(* From an inbound chat message to the copies its readers get: duplicate   *)
(* suppression (dedup.go), the attachment policy (attachments.go), the     *)
(* readdressing of reactions and replies (rewrite.go, IdMap), the fan-out  *)
(* over the active members (forward.go) and the replay log                 *)
(* (internal/history).                                                     *)
(*                                                                         *)
(* One goroutine handles inbound messages, in the steps between which      *)
(* others can act: the workers of the outbound queue, who send the copies  *)
(* and register the ids they get, and the prune sweep.  The network        *)
(* delivers a message as often as it likes, whenever it likes.             *)
(*                                                                         *)
(* Commands, which change the members' status, run in the same goroutine   *)
(* and are modelled in full in Roster; retries, routes and the file of the *)
(* queue are modelled in OutboundQueue.  Here a copy is sent or given up.  *)
(***************************************************************************)
EXTENDS Integers, Sequences, FiniteSets, Functions

CONSTANTS
    Users,          \* identities that may talk to the service
    TextOnly,       \* members who asked for text only
    Founders,       \* members at the start
    Moves,          \* the statuses that commands and the sweep give to users
    MaxMsgs,        \* bound: messages that are written
    Shapes,         \* what messages are made of: [text, fields]
    Allowed,        \* service.forwarded_fields, {} for forward_attachments off
    Oversized,      \* the fields whose values exceed max_attachment_bytes
    Window,         \* service.dedup_window, 0 for no duplicate suppression
    SeenMax,        \* dedupMaxEntries
    Bubbles,        \* bound: bubbles made in one run of the process
    TTL, MaxSize,   \* as in IdMap
    QueueCap,       \* maxPendingMessages
    LogCap,         \* replay.count, at least 1
    Nil,            \* nobody, nothing, no id
    MaxFans,        \* bound: fan-outs in all
    MaxTicks,       \* bound: units of time that pass
    MaxRestarts,    \* bound: kills of the process
    MaxSaveFailures \* bound: failing writes of the log

ASSUME RelayAssumption ==
    /\ IsFiniteSet(Users) /\ TextOnly \subseteq Users /\ Founders \subseteq Users
    /\ Nil \notin Bubbles
    /\ Moves \subseteq {"none", "active", "paused", "banned"}
    /\ TTL \in Nat /\ MaxSize \in Nat
    /\ Window \in Nat /\ SeenMax \in Nat /\ QueueCap \in Nat
    /\ LogCap \in Nat \ {0}
    /\ MaxMsgs \in Nat /\ MaxFans \in Nat /\ MaxTicks \in Nat
    /\ MaxRestarts \in Nat /\ MaxSaveFailures \in Nat

VARIABLES
    mail,       \* the messages written so far, which the network may deliver
    status,     \* roster and banlist: none, active, paused or banned
    seen,       \* dedupCache.seen, as ages up to Window
    handler,    \* the message in hand, or Nil
    pending,    \* the copies in the outbound queue
    sent,       \* those among them that were sent and are not registered yet
    writer,     \* the copy whose worker is inside RegisterView, or Nil
    age, views, index, lru, \* the message-id cache
    log,        \* history.Log.entries
    diskLog,    \* the log's file
    ticks, restarts, saveFails,
    held,       \* history: the ids each user has of messages
    copies,     \* history: every copy that was put in the queue
    skipped,    \* history: the annotations withheld from a member
    fans,       \* history: fan-outs of each message
    relayed,    \* fan-outs in all
    recent,     \* history: time since each message last passed as new
    forgotten   \* history: messages whose ids an overflow has cleared since

cache   == <<age, views, index, lru>>
queue   == <<pending, sent>>
logs    == <<log, diskLog, saveFails>>
clock   == <<ticks, restarts>>
passed  == <<recent, forgotten>>
fanned  == <<fans, relayed>>
results == <<copies, skipped, fanned>>
vars    == <<mail, status, seen, handler, queue, writer, cache, logs, clock,
             held, results, passed>>

-----------------------------------------------------------------------------

Msgs == 1 .. MaxMsgs

\* message_id: of a message as its author sent it, and of a copy.  A private
\* reply of the service about a message is numbered behind all copies.
OwnId(m)  == <<m, mail[m].from, 0>>
CopyId(c) == <<c.msg, c.to, c.fan>>
ReplyNr   == MaxFans + 1
MessageId == Msgs \X Users \X (0 .. ReplyNr)

Cache == INSTANCE IdMap WITH Ids <- MessageId

\* Fields.  The dicts of a reaction, comment or continuation and the reply-to
\* hash name another message; a quote is text taken from one.
Dicts    == {"reaction", "comment"}
Pointers == Dicts \cup {"reply"}
Markers  == Pointers \cup {"quote"}
Field    == Markers \cup {"file", "image", "custom", "other"}

ASSUME ShapesAssumption == Shapes \subseteq [text : BOOLEAN, fields : SUBSET Field]

\* A definition whose name starts with Bad is a plausible mistake in the
\* definition below it; no action uses it.

\* filterAttachments: what is forwarded, what a note in the body replaces, and
\* what the sender is told about.
Survivors(m) == (mail[m].fields \cap Allowed) \ Oversized
Noted(m)     == mail[m].fields \cap Allowed \cap Oversized
Refused(m)   == (mail[m].fields \ Allowed) \cap {"file", "image"}

HasBody(m) == mail[m].text \/ Noted(m) # {}

\* isPrimaryBubble
IsPrimary(m) == mail[m].text \/ Survivors(m) \ Markers # {}

\* stampReactorIdentity
Stamped(f) == f \cup (IF "reaction" \in f THEN {"custom"} ELSE {})

Members == {u \in Users : status[u] \in {"active", "paused"}}

\* Hashes() instead of ActiveHashes().
BadActiveHashes == Members

ActiveHashes == {u \in Users : status[u] = "active"}

-----------------------------------------------------------------------------
(* Duplicate suppression. *)

SeenBefore(m) == m \in DOMAIN seen /\ seen[m] < Window

\* The table only sheds what has expired.
BadEvicted(s) ==
    IF Cardinality(DOMAIN s) <= SeenMax THEN s
    ELSE Restrict(s, {x \in DOMAIN s : s[x] < Window})

\* Over the cap the whole table goes at once.
BadEvictedAll(s) == IF Cardinality(DOMAIN s) <= SeenMax THEN s ELSE << >>

\* evictLocked, over the cap: first what has expired, then, if that was not
\* enough, everything.
Evicted(s) ==
    LET fresh == Restrict(s, {x \in DOMAIN s : s[x] < Window})
    IN  IF Cardinality(DOMAIN s) <= SeenMax THEN s
        ELSE IF Cardinality(DOMAIN fresh) <= SeenMax THEN fresh ELSE << >>

\* seenBefore, for a message that was not.
Record(m) ==
    /\ seen' = IF Window = 0 THEN seen ELSE Evicted(Cache!With(seen, m, 0))
    /\ recent' = [recent EXCEPT ![m] = 0]
    /\ LET known == {x \in Msgs \ forgotten : recent[x] < Window} \cup {m}
       IN  forgotten' = IF Cardinality(known) > SeenMax THEN Msgs
                                                        ELSE forgotten \ {m}

-----------------------------------------------------------------------------
(* The surroundings: authors, the network's clock, commands, the sweep. *)

Init ==
    /\ mail = << >>
    /\ status = [u \in Users |-> IF u \in Founders THEN "active" ELSE "none"]
    /\ seen = << >>
    /\ handler = Nil
    /\ pending = {} /\ sent = {} /\ writer = Nil
    /\ Cache!Init
    /\ log = << >> /\ diskLog = << >>
    /\ ticks = 0 /\ restarts = 0 /\ saveFails = 0
    /\ held = [u \in Users |-> {}]
    /\ copies = {} /\ skipped = {}
    /\ fans = [m \in Msgs |-> 0] /\ relayed = 0
    /\ recent = [m \in Msgs |-> Window]
    /\ forgotten = {}

\* A client writes a message; it can point at any message it has the id of.
Compose(u, s, t) ==
    LET m == Len(mail) + 1
    IN  /\ m \in Msgs
        /\ IF s.fields \cap Pointers = {} THEN t = Nil ELSE t \in held[u]
        /\ mail' = Append(mail, [from |-> u, text |-> s.text,
                                 fields |-> s.fields, target |-> t])
        /\ held' = [held EXCEPT ![u] = @ \cup {<<m, u, 0>>}]
        /\ UNCHANGED <<status, seen, handler, queue, writer, cache, logs, clock,
                       results, passed>>

\* What commands make of a status: /join and /adduser, /pause and /resume,
\* /leave and /kick, /ban, /unban (Roster).
Moved(s) == CASE s = "none"   -> {"active"}
              [] s = "active" -> {"paused", "none", "banned"}
              [] s = "paused" -> {"active", "none", "banned"}
              [] s = "banned" -> {"none"}

Command(u, s) ==
    /\ handler = Nil
    /\ s \in Moves \cap Moved(status[u])
    /\ status' = [status EXCEPT ![u] = s]
    /\ UNCHANGED <<mail, seen, handler, queue, writer, cache, logs, clock, held,
                   results, passed>>

\* The sweep removes a member, also in the middle of a fan-out (Roster).
Prune(u) ==
    /\ handler # Nil
    /\ "none" \in Moves
    /\ u \in Members
    /\ status' = [status EXCEPT ![u] = "none"]
    /\ UNCHANGED <<mail, seen, handler, queue, writer, cache, logs, clock, held,
                   results, passed>>

Older(a) == IF a < Window THEN a + 1 ELSE a

Tick ==
    /\ ticks < MaxTicks
    /\ ticks' = ticks + 1
    /\ seen' = [m \in DOMAIN seen |-> Older(seen[m])]
    /\ recent' = [m \in Msgs |-> Older(recent[m])]
    /\ Cache!Ages
    /\ UNCHANGED <<mail, status, handler, queue, writer, views, index, lru, logs,
                   restarts, held, results, forgotten>>

-----------------------------------------------------------------------------
(* The inbox: onLXMFReceived for a message that is not a command. *)

\* OutboundQueue.enqueue: a full queue refuses.
Queued(c) == IF Cardinality(pending) < QueueCap THEN pending \cup {c} ELSE pending

\* replyInvite, replyPaused, replyUnsupportedFields
PrivateReply(m) ==
    [msg |-> m, to |-> mail[m].from, fan |-> ReplyNr, body |-> TRUE,
     fields |-> {}, target |-> Nil, bound |-> FALSE, bubble |-> Nil]

\* The message passes as new.  Banned senders, non-members and paused members
\* are turned away, and so is a message of which the policy leaves nothing.
Receive(m) ==
    /\ handler = Nil
    /\ m \in DOMAIN mail
    /\ ~SeenBefore(m)
    /\ relayed < MaxFans /\ Bubbles # DOMAIN age
    /\ Record(m)
    /\ IF status[mail[m].from] = "active" /\ (HasBody(m) \/ Survivors(m) # {})
       THEN /\ handler' = [msg |-> m, phase |-> "resolve", hit |-> Nil,
                           bubble |-> Nil, todo |-> {}, count |-> 0]
            /\ fans' = [fans EXCEPT ![m] = @ + 1] /\ relayed' = relayed + 1
       ELSE UNCHANGED <<handler, fanned>>
    /\ pending' = IF \/ status[mail[m].from] \in {"none", "paused"}
                     \/ status[mail[m].from] = "active" /\ Refused(m) # {}
                  THEN Queued(PrivateReply(m)) ELSE pending
    /\ UNCHANGED <<mail, status, sent, writer, cache, logs, clock, held, copies,
                   skipped>>

InPhase(p) == handler # Nil /\ handler.phase = p

\* buildRewrite looks the target up, newBubbleForForward makes a bubble.
Resolve ==
    LET m       == handler.msg
        points  == TTL > 0 /\ Survivors(m) \cap Pointers # {}
        primary == TTL > 0 /\ IsPrimary(m)
        target  == mail[m].target
        bubble  == CHOOSE b \in Bubbles : b \notin DOMAIN age
    IN  /\ InPhase("resolve")
        /\ writer = Nil
        /\ IF points THEN Cache!Lookup(target) ELSE UNCHANGED <<index, lru>>
        /\ IF primary THEN Cache!NewBubble(bubble) ELSE UNCHANGED <<age, views>>
        /\ handler' = [handler EXCEPT
               !.phase = "register",
               !.hit = IF points /\ Cache!Hit(target) THEN index[target] ELSE Nil,
               !.bubble = IF primary THEN bubble ELSE Nil]
        /\ UNCHANGED <<mail, status, seen, queue, writer, logs, clock, held,
                       results, passed>>

\* The sender, who is no recipient, gets no view.
BadRegisterSender == UNCHANGED cache

\* The sender's own id becomes the first view of the bubble.
RegisterSender ==
    IF handler.bubble = Nil THEN UNCHANGED cache
    ELSE /\ writer = Nil
         /\ Cache!RegisterView(handler.bubble, mail[handler.msg].from,
                               OwnId(handler.msg))
         /\ UNCHANGED age

\* forwardToRoster starts: the recipients are who is active now.
StartFanOut ==
    /\ InPhase("register")
    /\ RegisterSender
    /\ handler' = [handler EXCEPT !.phase = "fanout",
                       !.todo = ActiveHashes \ {mail[handler.msg].from}]
    /\ UNCHANGED <<mail, status, seen, queue, writer, logs, clock, held, results,
                   passed>>

\* The turn of recipient r.
Turn(r) == InPhase("fanout") /\ r \in handler.todo

TurnDone(r, n) == handler' = [handler EXCEPT !.todo = @ \ {r}, !.count = @ + n]

\* Bubble.ViewFor
HasView(r) == handler.hit # Nil /\ r \in DOMAIN views[handler.hit]
Blind(r)   == handler.hit # Nil /\ ~HasView(r)

Withheld(r) == Blind(r) /\ Survivors(handler.msg) \cap Dicts # {}

IsTextOnly(r) == r \in TextOnly \cap Members

FieldsFor(r) ==
    IF IsTextOnly(r) THEN {}
    ELSE Stamped(Survivors(handler.msg)) \ (IF Blind(r) THEN {"reply"} ELSE {})

\* Every recipient gets the target as the author named it.
BadTargetFor(r) == mail[handler.msg].target

\* substituteDictTarget and substituteReplyHash, or the field as it came in
\* when the cache does not know the target.
TargetFor(r) == IF HasView(r) THEN views[handler.hit][r]
                              ELSE mail[handler.msg].target

CopyFor(r) ==
    [msg |-> handler.msg, to |-> r, fan |-> fans[handler.msg],
     body |-> HasBody(handler.msg), fields |-> FieldsFor(r),
     target |-> IF FieldsFor(r) \cap Pointers = {} THEN Nil ELSE TargetFor(r),
     bound |-> handler.hit # Nil, bubble |-> handler.bubble]

\* The recipient has no view of the message that a dict field is about.
Withhold(r) ==
    /\ Turn(r)
    /\ Withheld(r)
    /\ TurnDone(r, 0)
    /\ skipped' = skipped \cup {<<handler.msg, r>>}
    /\ UNCHANGED <<mail, status, seen, queue, writer, cache, logs, clock, held,
                   copies, fanned, passed>>

\* No text for one who only wants text.
OmitTextOnly(r) ==
    /\ Turn(r)
    /\ ~Withheld(r)
    /\ IsTextOnly(r) /\ ~HasBody(handler.msg)
    /\ TurnDone(r, 0)
    /\ UNCHANGED <<mail, status, seen, queue, writer, cache, logs, clock, held,
                   results, passed>>

\* EnqueueBubble.  A full queue refuses the copy, which is counted all the same.
EnqueueCopy(r) ==
    /\ Turn(r)
    /\ ~Withheld(r)
    /\ ~(IsTextOnly(r) /\ ~HasBody(handler.msg))
    /\ TurnDone(r, 1)
    /\ pending' = Queued(CopyFor(r))
    /\ copies' = copies \cup (pending' \ pending)
    /\ UNCHANGED <<mail, status, seen, sent, writer, cache, logs, clock, held,
                   skipped, fanned, passed>>

\* Log.Append and Log.load keep the newest entries.
Trimmed(l) == IF Len(l) > LogCap THEN SubSeq(l, Len(l) - LogCap + 1, Len(l))
                                 ELSE l

\* Log.Append: the entry is in memory whether or not the file is replaced.
AppendEntry(m) ==
    /\ log' = Trimmed(Append(log, m))
    /\ \/ diskLog' = log' /\ UNCHANGED saveFails
       \/ /\ saveFails < MaxSaveFailures
          /\ saveFails' = saveFails + 1
          /\ UNCHANGED diskLog

\* The end of the handler, which ignores an error of Append.
FinishFanOut ==
    /\ InPhase("fanout")
    /\ handler.todo = {}
    /\ handler' = Nil
    /\ IF handler.count > 0 /\ mail[handler.msg].text
       THEN AppendEntry(handler.msg)
       ELSE UNCHANGED logs
    /\ UNCHANGED <<mail, status, seen, queue, writer, cache, clock, held, results,
                   passed>>

-----------------------------------------------------------------------------
(* The workers of the outbound queue. *)

\* A send succeeds: the recipient has the copy and computes its id.
Send(c) ==
    /\ c \in pending \ sent
    /\ held' = [held EXCEPT ![c.to] = @ \cup {CopyId(c)}]
    /\ IF c.bubble = Nil
       THEN pending' = pending \ {c} /\ UNCHANGED sent
       ELSE sent' = sent \cup {c} /\ UNCHANGED pending
    /\ UNCHANGED <<mail, status, seen, handler, writer, cache, logs, clock,
                   results, passed>>

GiveUp(c) ==
    /\ c \in pending \ sent
    /\ pending' = pending \ {c}
    /\ UNCHANGED <<mail, status, seen, handler, sent, writer, cache, logs, clock,
                   held, results, passed>>

\* RegisterView, from taking the cache's mutex to releasing it.
BeginRegister(c) ==
    /\ c \in sent
    /\ writer = Nil
    /\ writer' = c
    /\ UNCHANGED <<mail, status, seen, handler, queue, cache, logs, clock, held,
                   results, passed>>

EndRegister ==
    /\ writer # Nil
    /\ Cache!RegisterView(writer.bubble, writer.to, CopyId(writer))
    /\ pending' = pending \ {writer}
    /\ sent' = sent \ {writer}
    /\ writer' = Nil
    /\ UNCHANGED <<mail, status, seen, handler, age, logs, clock, held, results,
                   passed>>

-----------------------------------------------------------------------------

\* The process is killed, or ends itself when the runtime finds a map read and
\* written at once, and is started again.  Of the queue, what had reached the
\* file comes back, without bubbles; the log is what its file holds.
Restart ==
    /\ restarts < MaxRestarts
    /\ restarts' = restarts + 1
    /\ \E kept \in SUBSET pending :
          pending' = {[c EXCEPT !.bubble = Nil] : c \in kept}
    /\ seen' = << >> /\ handler' = Nil /\ sent' = {} /\ writer' = Nil
    /\ age' = << >> /\ views' = << >> /\ index' = << >> /\ lru' = << >>
    /\ log' = Trimmed(diskLog)
    /\ recent' = [m \in Msgs |-> Window] /\ forgotten' = {}
    /\ UNCHANGED <<mail, status, diskLog, saveFails, ticks, held, results>>

Surroundings ==
    \/ \E u \in Users, s \in Shapes, t \in {Nil} \cup UNION Range(held) :
          Compose(u, s, t)
    \/ \E u \in Users, s \in Moves : Command(u, s)
    \/ \E u \in Users : Prune(u)
    \/ Tick

Inbox ==
    \/ \E m \in Msgs : Receive(m)
    \/ Resolve
    \/ StartFanOut
    \/ \E r \in Users : Withhold(r) \/ OmitTextOnly(r) \/ EnqueueCopy(r)
    \/ FinishFanOut

Workers ==
    \/ \E c \in pending : Send(c) \/ GiveUp(c) \/ BeginRegister(c)
    \/ EndRegister

Next == Surroundings \/ Inbox \/ Workers \/ Restart

Spec == Init /\ [][Next]_vars

-----------------------------------------------------------------------------

Copy == [msg : Msgs, to : Users, fan : 1 .. ReplyNr, body : BOOLEAN,
         fields : SUBSET Field, target : MessageId \cup {Nil},
         bound : BOOLEAN, bubble : Bubbles \cup {Nil}]

\* The state has its type; in particular the log and its file stay within the
\* configured number of entries, the table of seen ids stays within its cap
\* however many messages come in one window (dedup.go:55-69), and what is being
\* registered is in the queue.
TypeOK ==
    /\ \A m \in DOMAIN mail :
          mail[m] \in [from : Users, text : BOOLEAN, fields : SUBSET Field,
                       target : MessageId \cup {Nil}]
    /\ status \in [Users -> {"none", "active", "paused", "banned"}]
    /\ DOMAIN seen \subseteq Msgs /\ \A m \in DOMAIN seen : seen[m] \in 0 .. Window
    /\ Cardinality(DOMAIN seen) <= SeenMax
    /\ handler = Nil \/ handler \in
          [msg : Msgs, phase : {"resolve", "register", "fanout"},
           hit : Bubbles \cup {Nil}, bubble : Bubbles \cup {Nil},
           todo : SUBSET Users, count : 0 .. Cardinality(Users)]
    /\ copies \subseteq Copy /\ pending \subseteq Copy
    /\ sent \subseteq pending /\ writer \in sent \cup {Nil}
    /\ Len(log) <= LogCap /\ Len(diskLog) <= LogCap
    /\ Cache!TypeOK

\* A message is fanned out again only when the window has passed since it was
\* last let through, when more distinct messages than the table holds came
\* within the window (the wholesale clear of evictLocked), or after a restart.
NoEcho ==
    [][\A m \in Msgs :
          fans'[m] > fans[m] => recent[m] >= Window \/ m \in forgotten]_vars

\* A readdressed reaction, comment or reply names the recipient's own id of
\* the very message its author pointed at, and the recipient has that id,
\* however the fan-out of the one interleaves with the sends, expiries,
\* evictions and late registrations of the other.
BindsOwnView ==
    \A c \in copies :
        c.bound /\ c.target # Nil =>
            /\ c.target[2] = c.to
            /\ c.target[1] = mail[c.msg].target[1]
            /\ c.target \in held[c.to]

\* Nobody is denied a reaction to a message of their own: a bubble that can be
\* found at all has its author's view, since that is registered first.
AuthorNotSkipped ==
    \A p \in skipped : p[2] # mail[mail[p[1]].target[1]].from

\* No copy is queued for one who is paused or banned at that moment, whoever
\* joins, pauses, resumes, is banned or comes back between two fan-outs: the
\* recipients are a snapshot (forward.go), and only a sweep can come between it
\* and the last copy.  Copies queued earlier are not withdrawn by a ban.
QuietSpared ==
    [][\A c \in copies' \ copies : status[c.to] \in {"active", "none"}]_vars

\* No stray key in the message-id cache, although a bubble evicted during its
\* fan-out comes back, and a message relayed twice gives two bubbles one id.
IndexOwned == Cache!IndexOwned

\* The cap on the keys of the message-id cache holds after every operation of
\* the inbox and the workers.
CapHeld == Cache!CapHeld

=============================================================================
