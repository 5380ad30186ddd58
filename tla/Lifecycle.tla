----------------------------- MODULE Lifecycle -----------------------------
(***************************************************************************)
(* Starting and stopping fwdsvc on one state directory: service.New,       *)
(* Service.Run, the single-instance lock and the identity file             *)
(* (internal/service/service.go, lock_unix.go, cmd/fwdsvc/main.go).        *)
(*                                                                         *)
(* The files are of two kinds.  The roster, like the replay log and the    *)
(* group info, is read before the lock is taken; the outbound queue, like  *)
(* the announce cache, after.  Each is rewritten as a whole from memory,   *)
(* so that a process whose memory is out of date takes back what another   *)
(* one wrote.  A file is modelled by the set of changes it has.            *)
(*                                                                         *)
(* A stop gives up the lock when Run returns, while the goroutines that    *)
(* flush the files may still be at work.                                   *)
(***************************************************************************)
EXTENDS Integers, FiniteSets

CONSTANTS
    Procs,      \* slots for processes
    Nil,        \* no process, no identity
    MaxStarts,  \* bound: starts of a process
    MaxChanges, \* bound: changes made
    MaxStatFailures \* bound: failures to look at an identity file that is there

ASSUME LifecycleAssumption ==
    /\ Nil \notin Procs \cup Nat
    /\ MaxStarts \in Nat /\ MaxChanges \in Nat /\ MaxStatFailures \in Nat

VARIABLES
    flock,      \* the file system supports the lock (never on Windows)
    configured, \* service.identity_b64 is set
    phase,      \* how far each process is
    holder,     \* the process that holds the lock, or Nil
    mem,        \* the changes each process knows of, for each file
    dirty,      \* the files each process has deferred changes for
    file,       \* the changes each file has
    identity,   \* the identity file, or Nil if there is none
    id,         \* the identity of each process
    starts, changes, created,
    statFails,  \* os.Stat has failed this often on an identity file that is there
    blind,      \* history: the processes that take it for absent since
    met         \* history: for each file, the processes that were not alone

stat == <<statFails, blind>>
vars == <<flock, configured, phase, holder, mem, dirty, file, identity, id,
          starts, changes, created, stat, met>>

-----------------------------------------------------------------------------

Stores == {"roster", "queue"}

Starting == {"loaded", "locked", "enrolled", "creating", "identified"}
Alive    == Starting \cup {"running", "stopping", "left"}
Guarded  == Alive \ {"loaded", "left"}    \* New has the lock, Run has not let go
Writers  == {"running", "stopping", "left"}

At(p, from, to) == phase[p] = from /\ phase' = [phase EXCEPT ![p] = to]

Known(p, s, S) == mem' = [mem EXCEPT ![p][s] = S]

\* p begins to use file s while the processes of others do too.
Meet(p, s, others) ==
    met' = [met EXCEPT ![s] = IF others = {} THEN @ \ {p} ELSE @ \cup others \cup {p}]

Others(p, phases) == {q \in Procs \ {p} : phase[q] \in phases}

Init ==
    /\ flock \in BOOLEAN /\ configured \in BOOLEAN
    /\ phase = [p \in Procs |-> "off"]
    /\ holder = Nil
    /\ mem = [p \in Procs |-> [s \in Stores |-> {}]]
    /\ dirty = [p \in Procs |-> {}]
    /\ file = [s \in Stores |-> {}]
    /\ identity = Nil
    /\ id = [p \in Procs |-> Nil]
    /\ starts = 0 /\ changes = 0 /\ created = 0
    /\ statFails = 0 /\ blind = {}
    /\ met = [s \in Stores |-> {}]

-----------------------------------------------------------------------------
(* service.New.  A definition whose name starts with Bad is a plausible    *)
(* mistake in the definition below it; no action uses it.                  *)

\* roster.New, history.New and groupinfo.New.
Load(p) ==
    /\ starts < MaxStarts
    /\ At(p, "off", "loaded")
    /\ starts' = starts + 1
    /\ Known(p, "roster", file["roster"])
    /\ Meet(p, "roster", Others(p, Alive))
    /\ UNCHANGED <<flock, configured, holder, dirty, file, identity, id, changes,
                   created, stat>>

\* A held lock is taken for an unavailable one.
BadGranted == TRUE

\* acquireInstanceLock does not say errInstanceHeld.
Granted == holder = Nil

\* The lock, or no lock where there is none to be had.
Acquire(p) ==
    /\ Granted
    /\ At(p, "loaded", "locked")
    /\ holder' = IF flock THEN p ELSE Nil
    /\ UNCHANGED <<flock, configured, mem, dirty, file, identity, id, starts,
                   changes, created, met, stat>>

\* enrollConfigRoles: change 0 makes the configured admins and mods members.
Enrol(p) ==
    /\ At(p, "locked", "enrolled")
    /\ LET now == mem[p]["roster"] \cup {0}
       IN  IF 0 \in mem[p]["roster"] THEN UNCHANGED <<mem, file>>
           ELSE Known(p, "roster", now) /\ file' = [file EXCEPT !["roster"] = now]
    /\ UNCHANGED <<flock, configured, holder, dirty, identity, id, starts, changes,
                   created, met, stat>>

\* The identity file is not looked for.
BadStored == IF configured THEN 0 ELSE Nil

\* The identity from the configuration, identity 0, or from its file.
Stored == IF configured THEN 0 ELSE identity

\* loadOrCreateIdentity, as far as it reads.
Identify(p) ==
    /\ At(p, "enrolled", IF Stored = Nil THEN "creating" ELSE "identified")
    /\ id' = [id EXCEPT ![p] = Stored]
    /\ UNCHANGED <<flock, configured, holder, mem, dirty, file, identity, starts,
                   changes, created, met, stat>>

\* os.Stat fails on a file that is there, for whatever reason, and that is taken
\* for there being none.
MissFile(p) ==
    /\ ~configured /\ identity # Nil
    /\ statFails < MaxStatFailures
    /\ At(p, "enrolled", "creating")
    /\ statFails' = statFails + 1
    /\ blind' = blind \cup {p}
    /\ UNCHANGED <<flock, configured, holder, mem, dirty, file, identity, id, starts,
                   changes, created, met>>

\* ... and when it has to make one, which replaces a file it has missed.
Create(p) ==
    /\ At(p, "creating", "identified")
    /\ created' = created + 1
    /\ identity' = created'
    /\ id' = [id EXCEPT ![p] = identity']
    /\ UNCHANGED <<flock, configured, holder, mem, dirty, file, starts, changes, met, stat>>

\* The queue starts empty.
BadSaved == {}

\* What outboundQueue.Load and announceStore.load find.
Saved == file["queue"]

\* The rest of New, and Run up to its loop.
Run(p) ==
    /\ At(p, "identified", "running")
    /\ Known(p, "queue", Saved)
    /\ Meet(p, "queue", Others(p, Writers))
    /\ UNCHANGED <<flock, configured, holder, dirty, file, identity, id, starts,
                   changes, created, stat>>

-----------------------------------------------------------------------------
(* Service.Run and its goroutines. *)

\* A change that is written at once (a command, a line of the replay log) or
\* deferred (the queue, announces heard).
Change(p, s, deferred) ==
    /\ phase[p] \in Writers
    /\ changes < MaxChanges
    /\ s = "queue" => deferred
    /\ changes' = changes + 1
    /\ LET now == mem[p][s] \cup {changes'}
       IN  /\ Known(p, s, now)
           /\ file' = IF deferred THEN file ELSE [file EXCEPT ![s] = now]
    /\ dirty' = [dirty EXCEPT ![p] = IF deferred THEN @ \cup {s} ELSE @ \ {s}]
    /\ UNCHANGED <<flock, configured, phase, holder, identity, id, starts, created,
                   met, stat>>

\* The savers of the queue, the announces and the roster, on their timers and
\* once more when ctx is done.
Flush(p, s) ==
    /\ phase[p] \in Writers
    /\ s \in dirty[p]
    /\ file' = [file EXCEPT ![s] = mem[p][s]]
    /\ dirty' = [dirty EXCEPT ![p] = @ \ {s}]
    /\ UNCHANGED <<flock, configured, phase, holder, mem, identity, id, starts,
                   changes, created, met, stat>>

\* A signal cancels ctx.
Stop(p) ==
    /\ At(p, "running", "stopping")
    /\ UNCHANGED <<flock, configured, holder, mem, dirty, file, identity, id,
                   starts, changes, created, met, stat>>

\* The lock is kept.
BadReleased(p) == holder

Released(p) == IF holder = p THEN Nil ELSE holder

\* Run returns, and instanceUnlock with it.
Return(p) ==
    /\ At(p, "stopping", "left")
    /\ holder' = Released(p)
    /\ UNCHANGED <<flock, configured, mem, dirty, file, identity, id, starts,
                   changes, created, met, stat>>

\* The process ends: it was refused the lock, main returns after Run, New
\* fails, or it is killed.  The system closes its lock file.
Exit(p) ==
    /\ phase[p] # "off"
    /\ phase' = [phase EXCEPT ![p] = "off"]
    /\ holder' = IF holder = p THEN Nil ELSE holder
    /\ mem' = [mem EXCEPT ![p] = [s \in Stores |-> {}]]
    /\ dirty' = [dirty EXCEPT ![p] = {}]
    /\ id' = [id EXCEPT ![p] = Nil]
    /\ blind' = blind \ {p}
    /\ met' = [s \in Stores |-> met[s] \ {p}]
    /\ UNCHANGED <<flock, configured, file, identity, starts, changes, created,
                   statFails>>

Next ==
    \E p \in Procs :
        \/ Load(p) \/ Acquire(p) \/ Enrol(p) \/ Identify(p) \/ MissFile(p)
        \/ Create(p) \/ Run(p)
        \/ \E s \in Stores, deferred \in BOOLEAN : Change(p, s, deferred)
        \/ \E s \in Stores : Flush(p, s)
        \/ Stop(p) \/ Return(p) \/ Exit(p)

Spec == Init /\ [][Next]_vars

-----------------------------------------------------------------------------

\* The state has its type; in particular the lock is held only by a process
\* that is past acquireInstanceLock and whose Run has not returned
\* (service.go:134, 354-356).
TypeOK ==
    /\ flock \in BOOLEAN /\ configured \in BOOLEAN
    /\ phase \in [Procs -> Alive \cup {"off"}]
    /\ holder \in Procs \cup {Nil}
    /\ \A p \in Procs : holder = p => phase[p] \in Guarded
    /\ mem \in [Procs -> [Stores -> SUBSET (0..MaxChanges)]]
    /\ dirty \in [Procs -> SUBSET Stores]
    /\ file \in [Stores -> SUBSET (0..MaxChanges)]
    /\ identity \in Nat \cup {Nil} /\ id \in [Procs -> Nat \cup {Nil}]
    /\ starts \in 0..MaxStarts /\ changes \in 0..MaxChanges /\ created \in Nat
    /\ statFails \in 0..MaxStatFailures /\ blind \subseteq Procs
    /\ met \in [Stores -> SUBSET Procs]

\* Where the lock works, two processes never serve one state directory at the
\* same time, from the enrolment to the end of Run (service.go:122-130).
OneServing ==
    flock => \A p, q \in Procs :
                phase[p] \in Guarded /\ phase[q] \in Guarded => p = q

\* Where the lock works, every process that serves answers to the address the
\* next one will have; one that is just ending too, unless a failure of os.Stat
\* has had the file replaced (service.go:634-672).
OneIdentity ==
    flock => \A p \in Procs : phase[p] \in Writers =>
                \/ id[p] = IF configured THEN 0 ELSE identity
                \/ phase[p] = "left" /\ statFails > 0

\* Where the lock works, the identity file is replaced only by a process that
\* could not look at it: service.go:647 takes every error of os.Stat for there
\* being no file.  No crash, restart or overlap of two starts replaces it
\* (service.go:634-655).
AddressKept ==
    [][flock /\ identity # Nil /\ identity' # identity =>
          \E p \in blind : phase[p] = "creating" /\ phase'[p] = "identified"]_vars

\* No file forgets a change that reached it, unless a process writes it that
\* was not alone: for the roster, one whose life overlapped with another's,
\* for the queue, one that ran while another's last flushes were under way, or
\* where there is no lock (service.go:98-115, 134, 281, 354-356).
NothingForgotten ==
    [][\A s \in Stores :
          file[s] \subseteq file'[s] \/ \E p \in met[s] : file'[s] = mem'[p][s]]_vars

=============================================================================
