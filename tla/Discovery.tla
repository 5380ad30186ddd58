----------------------------- MODULE Discovery -----------------------------
(***************************************************************************)
(* What the service learns from announces: which propagation node to use   *)
(* (internal/service/propagation.go) and a cache of identities that        *)
(* survives a restart (announces.go).                                      *)
(*                                                                         *)
(* The cache itself is the transport's, outside this repository: a bounded *)
(* map that evicts its oldest entry, but none that is pinned while others  *)
(* are left.  The service pins its members on a timer and writes the map   *)
(* to a file behind the announces, like the outbound queue does, but       *)
(* without a dirty flag.                                                   *)
(*                                                                         *)
(* Announces are numbered; a number stands for the moment an announce is   *)
(* heard.  Ages count the units of time since, up to the first one that    *)
(* matters no more.                                                        *)
(***************************************************************************)
EXTENDS Integers, FiniteSets, Functions

CONSTANTS
    Nodes,          \* propagation nodes, honest or not
    Peers,          \* the other destinations that announce themselves
    Pinned,         \* propagation.node, or Nil to discover one
    Nil,            \* no destination
    MaxNodes,       \* maxTrackedNodes
    StaleAfter,     \* nodeStaleAfter
    CacheCap,       \* the size of the transport's cache
    FileMaxAge,     \* announceStoreMaxAge
    MaxAnnounces,   \* bound: announces heard
    MaxRestarts,    \* bound: stops and kills of the process
    MaxSaveFailures \* bound: failing writes of announces.json

ASSUME DiscoveryAssumption ==
    /\ Nil \notin Nodes \cup Peers /\ Pinned \in Nodes \cup {Nil}
    /\ MaxNodes \in Nat \ {0} /\ CacheCap \in Nat \ {0}
    /\ StaleAfter \in Nat /\ FileMaxAge \in Nat
    /\ MaxAnnounces \in Nat /\ MaxRestarts \in Nat /\ MaxSaveFailures \in Nat

VARIABLES
    phase,      \* "running", "stopping" (ctx cancelled) or "down"
    heard,      \* announces heard so far
    dispatch,   \* the announce whose handlers are still to run, or Nil
    nodes,      \* propagationTracker.nodes
    cache,      \* Transport.known: the last announce of each destination
    pins,       \* Transport's pinned destinations
    status,     \* Roster: "none", "active" or "paused", for each peer
    kick,       \* announcePersistTap.kick holds a token
    loop,       \* where announcePersistTap.run is
    snap,       \* the snapshot that is being written
    file,       \* announces.json
    restarts, saveFails,
    entered,    \* history: when each tracked node entered the table
    settled,    \* history: the members at the last pinning who still are
    unsaved     \* history: the last write failed

tracker == <<nodes, entered>>
roster  == <<status, settled>>
writer  == <<kick, loop, snap, file, saveFails, unsaved>>
vars    == <<phase, heard, dispatch, tracker, cache, pins, roster, writer,
             restarts>>

-----------------------------------------------------------------------------

Dests == Nodes \cup Peers
Up    == phase \in {"running", "stopping"}
Nothing == << >>    \* the empty map

\* A definition whose name starts with Bad is a plausible mistake in the
\* definition below it; no action uses it.

With(f, x, v) == [y \in DOMAIN f \cup {x} |-> IF y = x THEN v ELSE f[y]]

OldestOf(f, S) == CHOOSE x \in S : \A y \in S : f[x].last <= f[y].last

\* Time passes for every entry of a map, up to one unit past the limit.
Aged(f, limit) ==
    [x \in DOMAIN f |-> [f[x] EXCEPT !.age = IF @ <= limit THEN @ + 1 ELSE @]]

Init ==
    /\ phase = "running"
    /\ heard = 0 /\ dispatch = Nil
    /\ nodes = Nothing /\ entered = Nothing
    /\ cache = Nothing
    /\ status = [p \in Peers |-> "none"]
    /\ pins = {} /\ settled = {}
    /\ kick = FALSE /\ loop = "select"
    /\ snap = Nothing /\ file = Nothing
    /\ restarts = 0 /\ saveFails = 0 /\ unsaved = FALSE

-----------------------------------------------------------------------------
(* The propagation tracker. *)

Fresh(f) == {n \in DOMAIN f : f[n].age <= StaleAfter}

\* One too many stays.
BadEvicted(f) ==
    LET live == Restrict(f, Fresh(f))
    IN  IF Cardinality(DOMAIN live) > MaxNodes
        THEN Restrict(live, DOMAIN live \ {OldestOf(live, DOMAIN live)}) ELSE live

\* evictStaleLocked, before a new node enters: stale ones go, and if the table
\* is still full the one that was heard least recently.
Evicted(f) ==
    LET live == Restrict(f, Fresh(f))
    IN  IF Cardinality(DOMAIN live) >= MaxNodes
        THEN Restrict(live, DOMAIN live \ {OldestOf(live, DOMAIN live)}) ELSE live

\* Every announce counts as the first.
BadFirstHeard(n) == heard

FirstHeard(n) == IF n \in DOMAIN nodes THEN nodes[n].first ELSE heard

\* propagationTracker.OnAnnounce, for app data that can be parsed.
Track(n, usable) ==
    LET table == IF n \in DOMAIN nodes THEN nodes ELSE Evicted(nodes)
    IN  /\ nodes' = With(table, n, [first |-> FirstHeard(n), last |-> heard,
                                    age |-> 0, usable |-> usable])
        /\ entered' = IF n \in DOMAIN nodes THEN entered
                      ELSE With(Restrict(entered, DOMAIN table), n, heard)

\* Current: the pinned node, or the fresh and usable one that is known longest.
Candidates == {n \in Fresh(nodes) : nodes[n].usable}
Current ==
    IF Pinned # Nil THEN Pinned
    ELSE IF Candidates = {} THEN Nil
    ELSE CHOOSE n \in Candidates :
            \A m \in Candidates : nodes[n].first <= nodes[m].first

-----------------------------------------------------------------------------
(* The transport hears an announce, updates its cache and calls the handlers *)
(* one after the other.                                                      *)

\* A new destination in a full cache takes the place of the oldest one that
\* is not pinned, or of the oldest one if all are.
Room(d) ==
    LET free == DOMAIN cache \ pins
    IN  IF d \in DOMAIN cache \/ Cardinality(DOMAIN cache) < CacheCap THEN cache
        ELSE Restrict(cache, DOMAIN cache \
                 {OldestOf(cache, IF free = {} THEN DOMAIN cache ELSE free)})

Hear(d) ==
    /\ Up
    /\ dispatch = Nil
    /\ heard < MaxAnnounces
    /\ heard' = heard + 1
    /\ cache' = With(Room(d), d, [last |-> heard', age |-> 0])
    /\ dispatch' = d
    /\ UNCHANGED <<phase, tracker, pins, roster, writer, restarts>>

\* announcePersistTap.OnAnnounce for every announce, and the tracker's for
\* that of a node, unless its app data is malformed.
OnAnnounce ==
    /\ Up
    /\ dispatch # Nil
    /\ dispatch' = Nil
    /\ kick' = TRUE
    /\ \/ dispatch \in Nodes /\ \E usable \in BOOLEAN : Track(dispatch, usable)
       \/ UNCHANGED tracker
    /\ UNCHANGED <<phase, heard, cache, pins, roster, loop, snap, file,
                   saveFails, unsaved, restarts>>

-----------------------------------------------------------------------------
(* Members and their pins. *)

\* A command or a sweep changes a member's status (Roster).
ChangeStatus(p, s) ==
    /\ Up
    /\ s # status[p]
    /\ status' = [status EXCEPT ![p] = s]
    /\ settled' = settled \ (IF s = "none" THEN {p} ELSE {})
    /\ UNCHANGED <<phase, heard, dispatch, tracker, cache, pins, writer, restarts>>

Members == {p \in Peers : status[p] # "none"}

\* Those who are sent messages.
BadHashes == {p \in Peers : status[p] = "active"}

\* Roster.Hashes
Hashes == Members

\* pinRosterDestinations, at the start and at every tick of the flusher.
PinMembers ==
    /\ Up
    /\ pins # Hashes \/ settled # Members
    /\ pins' = Hashes
    /\ settled' = Members
    /\ UNCHANGED <<phase, heard, dispatch, tracker, cache, status, writer,
                   restarts>>

-----------------------------------------------------------------------------
(* The persist loop. *)

\* <-t.kick, and the coalescing window starts.
TakeKick ==
    /\ Up
    /\ loop = "select"
    /\ kick
    /\ kick' = FALSE
    /\ loop' = "debounce"
    /\ UNCHANGED <<phase, heard, dispatch, tracker, cache, pins, roster, snap,
                   file, saveFails, unsaved, restarts>>

\* The window closes; a token that came meanwhile is dropped.
Drain ==
    /\ Up
    /\ loop = "debounce"
    /\ kick' = FALSE
    /\ loop' = "snapshot"
    /\ UNCHANGED <<phase, heard, dispatch, tracker, cache, pins, roster, snap,
                   file, saveFails, unsaved, restarts>>

\* KnownSnapshot, also on ctx.Done() in either select.
Snapshot ==
    /\ \/ Up /\ loop = "snapshot" /\ loop' = "saving"
       \/ phase = "stopping" /\ loop \in {"select", "debounce"}
                             /\ loop' = "finalSaving"
    /\ snap' = cache
    /\ UNCHANGED <<phase, heard, dispatch, tracker, cache, pins, roster, kick,
                   file, saveFails, unsaved, restarts>>

AfterSave == IF loop = "saving" THEN "select" ELSE "done"

\* The token is dropped after the write.
BadKickLeft == FALSE

\* saveNow leaves the token alone.
KickLeft == kick

\* The write succeeds, or it fails and the failure is logged.
SaveNow(written) ==
    /\ Up
    /\ loop \in {"saving", "finalSaving"}
    /\ written \/ saveFails < MaxSaveFailures
    /\ file' = IF written THEN snap ELSE file
    /\ saveFails' = IF written THEN saveFails ELSE saveFails + 1
    /\ unsaved' = ~written
    /\ snap' = Nothing
    /\ loop' = AfterSave
    /\ kick' = KickLeft
    /\ UNCHANGED <<phase, heard, dispatch, tracker, cache, pins, roster, restarts>>

-----------------------------------------------------------------------------
(* The process and the clock. *)

Tick ==
    /\ nodes' = Aged(nodes, StaleAfter)
    /\ cache' = Aged(cache, FileMaxAge)
    /\ snap' = Aged(snap, FileMaxAge)
    /\ file' = Aged(file, FileMaxAge)
    /\ UNCHANGED <<phase, heard, dispatch, entered, pins, roster, kick, loop,
                   saveFails, unsaved, restarts>>

Stop ==
    /\ phase = "running"
    /\ restarts < MaxRestarts
    /\ phase' = "stopping"
    /\ UNCHANGED <<heard, dispatch, tracker, cache, pins, roster, writer, restarts>>

\* A kill, or the end of a stop that waits for nobody.
Vanish ==
    /\ Up
    /\ restarts < MaxRestarts
    /\ phase' = "down"
    /\ dispatch' = Nil
    /\ nodes' = Nothing /\ entered' = Nothing
    /\ cache' = Nothing /\ pins' = {} /\ settled' = {}
    /\ kick' = FALSE /\ loop' = "done" /\ snap' = Nothing /\ unsaved' = FALSE
    /\ UNCHANGED <<heard, status, file, saveFails, restarts>>

\* announceStore.load: what is not too old.
Loaded(f) == Restrict(f, {d \in DOMAIN f : f[d].age <= FileMaxAge})

\* The tracker starts empty.
Restart ==
    /\ phase = "down"
    /\ phase' = "running"
    /\ restarts' = restarts + 1
    /\ cache' = Loaded(file)
    /\ loop' = "select"
    /\ UNCHANGED <<heard, dispatch, tracker, pins, roster, kick, snap, file,
                   saveFails, unsaved>>

Next ==
    \/ \E d \in Dests : Hear(d)
    \/ OnAnnounce
    \/ \E p \in Peers, s \in {"none", "active", "paused"} : ChangeStatus(p, s)
    \/ PinMembers
    \/ TakeKick \/ Drain \/ Snapshot \/ \E written \in BOOLEAN : SaveNow(written)
    \/ Tick
    \/ Stop \/ Vanish \/ Restart

Spec == Init /\ [][Next]_vars

-----------------------------------------------------------------------------

\* The state has its type; in particular the table of nodes stays within its
\* cap, however many strangers announce themselves (propagation.go:160-181).
TypeOK ==
    /\ phase \in {"running", "stopping", "down"}
    /\ dispatch \in Dests \cup {Nil}
    /\ DOMAIN nodes \subseteq Nodes /\ Cardinality(DOMAIN nodes) <= MaxNodes
    /\ DOMAIN entered = DOMAIN nodes
    /\ DOMAIN cache \subseteq Dests /\ Cardinality(DOMAIN cache) <= CacheCap
    /\ pins \subseteq Peers /\ settled \subseteq Members
    /\ loop \in {"select", "debounce", "snapshot", "saving", "finalSaving", "done"}

\* The node in use is given up only when it has gone silent or has announced
\* that it is of no use, or when it is pushed out of the table by MaxNodes others
\* that were all heard since its last announce; otherwise it makes way only for
\* a node that has been in the table longer and was silent or useless for a
\* while (propagation.go:26-32, 160-202).  The case in the middle is a flood:
\* nodes nobody has heard of, each announcing once, take the role from one that
\* is neither silent nor useless, although propagation.go:196-202 says they must
\* out-persist it and README.md:552-554 that the choice resists them.
NodeKept ==
    [][\A n \in Nodes :
          n = Current /\ Current' # n /\ phase' # "down" =>
             \/ n \in DOMAIN nodes' /\ (nodes'[n].age > StaleAfter \/ ~nodes'[n].usable)
             \/ /\ n \notin DOMAIN nodes'
                /\ Cardinality(Fresh(nodes)) = MaxNodes
                /\ \A m \in DOMAIN nodes \ {n} : nodes[m].last > nodes[n].last
             \/ /\ Current' \in DOMAIN nodes \ Candidates
                /\ entered[Current'] < entered[n]]_vars

Ahead(f, g) == \E d \in DOMAIN f : d \notin DOMAIN g \/ f[d].last # g[d].last

\* An announce the file does not have is on its way there: a handler is about
\* to leave a token, or has, or the loop has yet to take its snapshot, or the
\* snapshot has it.  Only a failed write breaks the chain, until the next
\* announce (announces.go:170-203).
NoLostAnnounce ==
    Up /\ loop # "done" /\ ~unsaved /\ Ahead(cache, file) =>
        \/ dispatch # Nil
        \/ kick
        \/ loop \in {"debounce", "snapshot"}
        \/ loop \in {"saving", "finalSaving"} /\ ~Ahead(cache, snap)

\* Strangers never push a member out of the cache once a tick has passed since
\* they joined, muted or not, as long as anyone else is in it
\* (service.go:826-854).
MembersKept ==
    [][\A d \in DOMAIN cache \ DOMAIN cache' :
          d \in settled /\ phase' # "down" => DOMAIN cache \subseteq pins]_vars

=============================================================================
