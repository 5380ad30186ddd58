------------------------------- MODULE Roster -------------------------------
(***************************************************************************)
(* The group's roster and banlist (internal/roster), with everything that  *)
(* changes them: the inbox, which stamps a sender's activity and runs the  *)
(* membership commands (internal/commands), the announce handler, the      *)
(* prune ticker, the flush timer, and the enrolment of configured admins   *)
(* and mods at every start (internal/service).                             *)
(*                                                                         *)
(* Membership changes write state.json before they return; activity stamps *)
(* only mark the roster dirty, and a timer writes them later.              *)
(*                                                                         *)
(* One goroutine handles inbound messages.  Announces, timers and kills    *)
(* run between the steps of its handler: each step is one critical section *)
(* of the roster's mutex, or several that nothing else can come between    *)
(* with effect (only the inbox adds members or touches the banlist).       *)
(*                                                                         *)
(* Time is relative: a stamp is its age, counted up to MaxAge, the first   *)
(* age past both prune windows.  Never stands for the zero time.           *)
(***************************************************************************)
EXTENDS Integers, FiniteSets, Functions

CONSTANTS
    Users,              \* identities that may talk to the service
    Admins, Mods,       \* the roles of the config file
    Grants,             \* the roles /usermode is used to set
    Nobody,             \* no identity: the inbox is idle
    Locked,             \* service.locked
    MaxMembers,         \* service.max_members, 0 for no cap
    IdleCutoff,         \* service.prune_after
    SilentCutoff,       \* service.prune_silent_after, 0 disables the rule
    Emissions,          \* the announces that arrive: how long ago each was really
                        \* emitted, and whether the time it is signed with is
                        \* ahead of the service's clock, or unreadable
    MaxTicks,           \* bound: units of time that pass
    MaxRestarts,        \* bound: stops and kills of the process
    MaxSaveFailures     \* bound: failing writes of state.json

ASSUME RosterAssumption ==
    /\ IsFiniteSet(Users)
    /\ Admins \subseteq Users
    /\ Mods \subseteq Users
    /\ Grants \subseteq {"user", "mod", "admin"}
    /\ Nobody \notin Users
    /\ Locked \in BOOLEAN
    /\ MaxMembers \in Nat
    /\ IdleCutoff \in Nat
    /\ SilentCutoff \in Nat
    /\ Emissions \subseteq [ago : Nat, ahead : BOOLEAN]
    /\ MaxTicks \in Nat
    /\ MaxRestarts \in Nat
    /\ MaxSaveFailures \in Nat

VARIABLES
    up,         \* the process is running
    inbox,      \* the sender whose message is being handled, or Nobody
    admitted,   \* the message in hand is a chat message that will be forwarded
    users,      \* r.users: a function from members to their records
    banlist,    \* r.banlist
    dirty,      \* r.dirty
    diskUsers,  \* state.json: users
    diskBans,   \* state.json: banlist
    restarts,   \* restarts so far
    saveFails,  \* failed writes so far
    ticks,      \* time passed so far
    contact,    \* history: age of a member's last true sign of life since added
    words,      \* history: age of a member's last chat message since added
    misdated    \* history: age of the last arrival of an announce signed ahead

disk    == <<diskUsers, diskBans>>
process == <<up, restarts, ticks>>
handler == <<inbox, admitted>>
history == <<contact, words, misdated>>
vars    == <<process, handler, users, banlist, dirty, disk, saveFails, history>>

-----------------------------------------------------------------------------

MaxAge == (IF IdleCutoff > SilentCutoff THEN IdleCutoff ELSE SilentCutoff) + 1
Never  == MaxAge + 1
Age    == 0 .. MaxAge
Stamp  == 0 .. Never

Role == {"user", "mod", "admin"}

User == [joined : Age, announced : Stamp, spoke : Stamp, command : Stamp,
         invited : BOOLEAN, paused : BOOLEAN, role : Role]

IsRoster(r) == DOMAIN r \subseteq Users /\ r \in [DOMAIN r -> User]

ConfigRoles == Admins \cup Mods

Members == DOMAIN users

Younger(a, b) == IF a < b THEN a ELSE b
Older(a)      == IF a < MaxAge THEN a + 1 ELSE a

\* User.LastSeen and User.LastSpoke, as ages.
LastSeen(u)  == Younger(Younger(u.joined, u.announced),
                        Younger(u.spoke, u.command))
LastSpoke(u) == Younger(u.joined, u.spoke)

\* The same members, one unit of time later.
Aged(r) ==
    [h \in DOMAIN r |->
        [r[h] EXCEPT !.joined = Older(@), !.announced = Older(@),
                     !.spoke = Older(@), !.command = Older(@)]]

With(r, h, u) == [g \in DOMAIN r \cup {h} |-> IF g = h THEN u ELSE r[g]]
Without(r, S) == Restrict(r, DOMAIN r \ S)

\* AddOrUpdate and AddInvited, for a hash that is not in the roster.
Joiner  == [joined |-> 0, announced |-> Never, spoke |-> 0, command |-> Never,
            invited |-> FALSE, paused |-> FALSE, role |-> "user"]
Invitee == [Joiner EXCEPT !.spoke = Never, !.invited = TRUE]

\* A definition whose name starts with Bad is a plausible mistake in the
\* definition below it; no action uses it.

\* The change stays in memory until the next flush.
BadPersist == dirty' = TRUE /\ UNCHANGED <<disk, saveFails>>

\* persistLocked, after users and banlist have changed: dirty is cleared first,
\* then the whole state replaces the file, or the write fails and the error
\* goes to the caller, who keeps the change.
Persist ==
    /\ dirty' = FALSE
    /\ \/ /\ diskUsers' = users'
          /\ diskBans' = banlist'
          /\ UNCHANGED saveFails
       \/ /\ saveFails < MaxSaveFailures
          /\ saveFails' = saveFails + 1
          /\ UNCHANGED disk

\* deferPersistLocked
DeferPersist == dirty' = TRUE /\ UNCHANGED <<disk, saveFails>>

NoPersist == UNCHANGED <<dirty, disk, saveFails>>

\* Touch, MarkMessage, and UpdateLastAnnounce on an announce stamped at,
\* which only ever moves the stamp forward.
Touched(u) == [u EXCEPT !.command = 0, !.invited = FALSE]

Marked(u) == [u EXCEPT !.spoke = 0, !.invited = FALSE]

\* Receive time instead of emission time.
BadAnnounced(u, at) == [u EXCEPT !.announced = 0, !.invited = FALSE]

Announced(u, at) ==
    IF at < u.announced THEN [u EXCEPT !.announced = at, !.invited = FALSE]
    ELSE u

\* History: the members in S have left, or have just been added by others.
Unheard(S) ==
    /\ contact' = [h \in Users |-> IF h \in S THEN Never ELSE contact[h]]
    /\ words' = [h \in Users |-> IF h \in S THEN Never ELSE words[h]]
    /\ misdated' = [h \in Users |-> IF h \in S THEN Never ELSE misdated[h]]

-----------------------------------------------------------------------------

\* New on an empty data directory, with enrollConfigRoles.
Init ==
    /\ up = TRUE
    /\ inbox = Nobody
    /\ admitted = FALSE
    /\ users = [h \in ConfigRoles |-> Invitee]
    /\ banlist = {}
    /\ dirty = FALSE
    /\ diskUsers = users
    /\ diskBans = {}
    /\ restarts = 0
    /\ saveFails = 0
    /\ ticks = 0
    /\ contact = [h \in Users |-> Never]
    /\ words = [h \in Users |-> Never]
    /\ misdated = [h \in Users |-> Never]

-----------------------------------------------------------------------------
(* The inbox.  Receive, then one of the commands or the chat path. *)

\* onLXMFReceived up to Touch: a banned sender is dropped, and any message
\* from a member is presence.
Receive(h) ==
    /\ up
    /\ inbox = Nobody
    /\ h \notin banlist
    /\ inbox' = h
    /\ IF h \in Members
       THEN /\ users' = [users EXCEPT ![h] = Touched(@)]
            /\ DeferPersist
            /\ contact' = [contact EXCEPT ![h] = 0]
       ELSE UNCHANGED <<users, dirty, disk, saveFails, contact>>
    /\ UNCHANGED <<process, admitted, banlist, words, misdated>>

Handling(h) == up /\ inbox = h /\ h \in Users /\ ~admitted

Done == inbox' = Nobody /\ admitted' = FALSE

\* The roster is left alone: a command that only reads, a refused command,
\* an over-limit message, an invitation, a paused notice.
ReplyOnly(h) ==
    /\ Handling(h)
    /\ Done
    /\ UNCHANGED <<process, users, banlist, dirty, disk, saveFails, history>>

\* A chat message: the sender is a member, and not paused.
AdmitChat(h) ==
    /\ Handling(h)
    /\ h \in Members
    /\ ~users[h].paused
    /\ admitted' = TRUE
    /\ UNCHANGED <<process, inbox, users, banlist, dirty, disk, saveFails,
                   history>>

\* MarkMessage, which a sweep may have come before, and the rest of the
\* handler, which does not touch the roster.
MarkMessage ==
    /\ up
    /\ admitted
    /\ IF inbox \in Members
       THEN /\ users' = [users EXCEPT ![inbox] = Marked(@)]
            /\ DeferPersist
            /\ words' = [words EXCEPT ![inbox] = 0]
       ELSE UNCHANGED <<users, dirty, disk, saveFails, words>>
    /\ Done
    /\ UNCHANGED <<process, banlist, contact, misdated>>

-----------------------------------------------------------------------------
(* Commands.  Each that changes the roster ends in a synchronous write. *)

\* atLeastMod on the role deriveCaller finds: the larger of the config's and,
\* for a member, the granted one.
AtLeastMod(h) ==
    h \in ConfigRoles \/ (h \in Members /\ users[h].role # "user")
IsAdmin(h) ==
    h \in Admins \/ (h \in Members /\ users[h].role = "admin")

\* One more member than the cap.
BadFull == MaxMembers > 0 /\ Cardinality(Members) > MaxMembers

Full == MaxMembers > 0 /\ Cardinality(Members) >= MaxMembers

\* handleJoin.  A banned sender's command never gets this far.  The default
\* nickname is a second write of the same members.
Join(h) ==
    /\ Handling(h)
    /\ h \notin Members
    /\ Locked => AtLeastMod(h)
    /\ h \notin banlist
    /\ ~Full
    /\ users' = With(users, h, Joiner)
    /\ UNCHANGED banlist
    /\ Persist
    /\ contact' = [contact EXCEPT ![h] = 0]
    /\ Done
    /\ UNCHANGED <<process, words, misdated>>

\* The banlist is not asked.
BadMayAdd(h) == h \notin Members /\ ~Full

MayAdd(h) == h \notin banlist /\ h \notin Members /\ ~Full

\* handleAddUser
AddUser(h, target) ==
    /\ Handling(h)
    /\ AtLeastMod(h)
    /\ MayAdd(target)
    /\ users' = With(users, target, Invitee)
    /\ UNCHANGED banlist
    /\ Persist
    /\ Done
    /\ UNCHANGED <<process, history>>

\* Roster.Remove, and the end of the command that called it.
RemoveUser(target) ==
    /\ target \in Members
    /\ users' = Without(users, {target})
    /\ UNCHANGED banlist
    /\ Persist
    /\ Unheard({target})
    /\ Done
    /\ UNCHANGED process

\* handleLeave
Leave(h) == Handling(h) /\ RemoveUser(h)

\* handleRemoveUser and handleKick.
Kick(h, target) == Handling(h) /\ AtLeastMod(h) /\ RemoveUser(target)

\* handleBan: the target is resolved among the members.
Ban(h, target) ==
    /\ Handling(h)
    /\ AtLeastMod(h)
    /\ target \in Members
    /\ banlist' = banlist \cup {target}
    /\ users' = Without(users, {target})
    /\ Persist
    /\ Unheard({target})
    /\ Done
    /\ UNCHANGED process

\* handleUnban
Unban(h, target) ==
    /\ Handling(h)
    /\ AtLeastMod(h)
    /\ target \in banlist
    /\ banlist' = banlist \ {target}
    /\ UNCHANGED users
    /\ Persist
    /\ Done
    /\ UNCHANGED <<process, history>>

\* handlePause and handleResume.
TogglePaused(h) ==
    /\ Handling(h)
    /\ h \in Members
    /\ users' = [users EXCEPT ![h].paused = ~@]
    /\ UNCHANGED banlist
    /\ Persist
    /\ Done
    /\ UNCHANGED <<process, history>>

\* SetNickname and SetTextOnly: a field no property reads, and a write.
Relabel(target) ==
    /\ target \in Members
    /\ UNCHANGED <<users, banlist>>
    /\ Persist
    /\ Done
    /\ UNCHANGED <<process, history>>

\* handleTextOnly and handleShowAll.
TextOnly(h) == Handling(h) /\ Relabel(h)

\* handleNick
Nick(h, target) ==
    Handling(h) /\ (target = h \/ AtLeastMod(h)) /\ Relabel(target)

\* handleUserMode: nobody strips their own admin role, unless the config
\* grants it too.
UserMode(h, target, role) ==
    /\ Handling(h)
    /\ IsAdmin(h)
    /\ target \in Members
    /\ ~(target = h /\ role # "admin" /\ h \notin Admins)
    /\ users' = [users EXCEPT ![target].role = role]
    /\ UNCHANGED banlist
    /\ Persist
    /\ Done
    /\ UNCHANGED <<process, history>>

-----------------------------------------------------------------------------
(* Announces and timers, on goroutines of their own. *)

\* Ages past both windows are one age.
Clamp(age) == IF age > MaxAge THEN MaxAge ELSE age

\* A time ahead of the clock is taken as it is.
BadStampOf(a) == IF a.ahead THEN 0 - 1 ELSE Clamp(a.ago)

\* The time OnAnnounce stamps: the signed one, or now when that is ahead of the
\* clock or EmittedAt fails.
StampOf(a) == IF a.ahead THEN 0 ELSE Clamp(a.ago)

\* announceTap.OnAnnounce, on an announce that is fresh or that a transport node
\* replays from its cache.  A member without a nickname may adopt the announced
\* one, which writes the file at once.  For the history the announce is a sign
\* of life from when it was really emitted, if that was since the member was
\* added; how it was dated and when it arrived do not matter.
OnAnnounce(h, a) ==
    LET emitted == Clamp(a.ago) IN
    /\ up
    /\ h \in Members
    /\ users' = [users EXCEPT ![h] = Announced(@, StampOf(a))]
    /\ UNCHANGED banlist
    /\ \/ users' # users /\ DeferPersist
       \/ users' = users /\ NoPersist
       \/ Persist
    /\ contact' = [contact EXCEPT ![h] =
                      IF emitted <= users[h].joined THEN Younger(@, emitted) ELSE @]
    /\ misdated' = [misdated EXCEPT ![h] = IF a.ahead THEN 0 ELSE @]
    /\ UNCHANGED <<process, handler, words>>

\* The rule of Prune for one member.
Inactive(u) ==
    /\ ~u.invited
    /\ \/ LastSeen(u) > IdleCutoff
       \/ SilentCutoff > 0 /\ LastSpoke(u) > SilentCutoff

Sweep == {h \in Members : Inactive(users[h])}

\* runPrune: nothing is written if nobody is swept.
Prune ==
    /\ up
    /\ Sweep # {}
    /\ users' = Without(users, Sweep)
    /\ UNCHANGED banlist
    /\ Persist
    /\ Unheard(Sweep)
    /\ UNCHANGED <<process, handler>>

\* Roster.Flush on the timer of runRosterFlusher.
Flush ==
    /\ up
    /\ dirty
    /\ UNCHANGED <<users, banlist>>
    /\ Persist
    /\ UNCHANGED <<process, handler, history>>

\* The unit of time is far longer than a handler.
Tick ==
    /\ inbox = Nobody
    /\ ticks < MaxTicks
    /\ ticks' = ticks + 1
    /\ users' = Aged(users)
    /\ diskUsers' = Aged(diskUsers)
    /\ contact' = [h \in Users |-> Older(contact[h])]
    /\ words' = [h \in Users |-> Older(words[h])]
    /\ misdated' = [h \in Users |-> Older(misdated[h])]
    /\ UNCHANGED <<up, restarts, handler, banlist, dirty, diskBans, saveFails>>

-----------------------------------------------------------------------------
(* The process. *)

\* A kill, or a stop: Service.Run does not wait for the flusher's last Flush.
Down ==
    /\ up
    /\ restarts < MaxRestarts
    /\ up' = FALSE
    /\ Done
    /\ users' = [h \in {} |-> Joiner]
    /\ banlist' = {}
    /\ dirty' = FALSE
    /\ UNCHANGED <<restarts, ticks, disk, saveFails, history>>

\* enrollConfigRoles: every configured admin and mod who is not a member is
\* added as an invitee; nothing else is asked.
Enrolled(r) ==
    [h \in DOMAIN r \cup ConfigRoles |->
        IF h \in DOMAIN r THEN r[h] ELSE Invitee]

\* roster.New and enrollConfigRoles.  The inbox is not open yet, and one write
\* stands for the run of AddInvited's, the last of which covers the others.
Restart ==
    /\ ~up
    /\ up' = TRUE
    /\ restarts' = restarts + 1
    /\ users' = Enrolled(diskUsers)
    /\ banlist' = diskBans
    /\ IF ConfigRoles \subseteq DOMAIN diskUsers THEN NoPersist ELSE Persist
    /\ Unheard(Users \ DOMAIN diskUsers)
    /\ UNCHANGED <<handler, ticks>>

-----------------------------------------------------------------------------

Commands(h) ==
    \/ Join(h) \/ Leave(h)
    \/ TogglePaused(h) \/ TextOnly(h)
    \/ \E target \in Users :
          \/ AddUser(h, target) \/ Kick(h, target)
          \/ Ban(h, target) \/ Unban(h, target) \/ Nick(h, target)
          \/ \E role \in Grants : UserMode(h, target, role)

Inbox(h) == Receive(h) \/ ReplyOnly(h) \/ AdmitChat(h) \/ Commands(h)

Next ==
    \/ \E h \in Users :
          Inbox(h) \/ \E a \in Emissions : OnAnnounce(h, a)
    \/ MarkMessage
    \/ Prune \/ Flush \/ Tick
    \/ Down \/ Restart

Spec == Init /\ [][Next]_vars

-----------------------------------------------------------------------------
(* Properties. *)

\* The type invariant of the roster's memory, its file and the history.
TypeOK ==
    /\ up \in BOOLEAN
    /\ inbox \in Users \cup {Nobody}
    /\ admitted \in BOOLEAN
    /\ IsRoster(users)
    /\ IsRoster(diskUsers)
    /\ banlist \subseteq Users
    /\ diskBans \subseteq Users
    /\ dirty \in BOOLEAN
    /\ restarts \in 0 .. MaxRestarts
    /\ saveFails \in 0 .. MaxSaveFailures
    /\ ticks \in 0 .. MaxTicks
    /\ contact \in [Users -> Stamp]
    /\ words \in [Users -> Stamp]
    /\ misdated \in [Users -> Stamp]

\* Ban, with the guards of /join and /adduser: nobody on the banlist is a
\* member, in memory or in the file a restart loads, except the configured
\* admins and mods that enrollConfigRoles puts back without asking.
BannedOut ==
    /\ banlist \cap Members \subseteq ConfigRoles
    /\ diskBans \cap DOMAIN diskUsers \subseteq ConfigRoles

\* The member cap of /join and /adduser (handlers.go): only enrolled admins and
\* mods can take the group past max_members, whatever is pruned, removed,
\* restored from the file or enrolled in between.
CapRespected ==
    MaxMembers > 0 => Cardinality(Members \ ConfigRoles) <= MaxMembers

\* What a membership command decided (persistLocked before the reply): unless a
\* write has failed, the file names the same members and bans, and gives every
\* member the same paused flag and role, so that no kill undoes a command; and
\* with nothing deferred the file is the whole state.
CommandsDurable ==
    up /\ saveFails = 0 =>
        /\ DOMAIN diskUsers = Members
        /\ diskBans = banlist
        /\ \A h \in Members :
              /\ diskUsers[h].paused = users[h].paused
              /\ diskUsers[h].role = users[h].role
        /\ ~dirty => diskUsers = users

\* What really became of a member, to judge the stamps by: no sign of life
\* emitted within prune_after, or no words within prune_silent_after.
Since(h, age) == Younger(users[h].joined, age)

Absent(h) == Since(h, contact[h]) > IdleCutoff

Silent(h) == SilentCutoff > 0 /\ Since(h, words[h]) > SilentCutoff

HeardFrom(h) == contact[h] # Never

\* The rule of Prune against what really happened (in the absence of a restart,
\* which may lose stamps).  The sweep takes only members that are absent or
\* silent.  It takes every silent member that has been heard from, and every
\* absent one, however many old announces are replayed (service.go:717-722,
\* roster.go:245-250), but for one case those comments leave out: an announce
\* signed ahead of the clock is stamped with its arrival, and so is each replay
\* of it; its owner stays until prune_after has passed since the last replay.
SweepExact ==
    restarts = 0 =>
        /\ \A h \in Sweep : Absent(h) \/ Silent(h)
        /\ \A h \in Members \ Sweep :
              HeardFrom(h) => /\ ~Silent(h)
                              /\ Absent(h) => misdated[h] <= IdleCutoff

\* Invitees (User.Invited): a member added by others is not swept before the
\* first sign of life after being added.
InviteeKept == [][Prune => \A h \in Members \ Members' : HeardFrom(h)]_vars
=============================================================================
