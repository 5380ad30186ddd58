---------------------------- MODULE RosterProofs ----------------------------
(***************************************************************************)
(* Theorems about Roster, for every set of users and roles, every cap and  *)
(* every number of restarts and failing writes.                            *)
(***************************************************************************)
EXTENDS Roster, FiniteSetTheorems, TLAPS

-----------------------------------------------------------------------------
(* Who is a member, and who is banned.                                        *)

\* What a step leaves in the file: what the step leaves in memory, or what was
\* there before.
Written ==
    \/ DOMAIN diskUsers' = DOMAIN users' /\ diskBans' = banlist'
    \/ DOMAIN diskUsers' = DOMAIN diskUsers /\ diskBans' = diskBans

\* persistLocked writes all of the state or nothing.
LEMMA PersistWrites == Persist => Written
  BY DEF Persist, Written, disk

\* What a command, a stamp, a timer or a kill does to the members and to the
\* banlist: at most one identity is added, by /join or /adduser, and then it is
\* not banned and the group is not full; at most one is banned, and then it
\* leaves.
Changed ==
    /\ Written
    /\ \/ /\ banlist' \subseteq banlist
          /\ \/ Members' \subseteq Members
             \/ \E h \in Users : /\ Members' = Members \cup {h}
                                 /\ h \notin banlist
                                 /\ ~Full
       \/ \E h \in Users : /\ Members' = Members \ {h}
                           /\ banlist' = banlist \cup {h}

\* A restart takes both from the file and enrols the configured roles.
Reloaded ==
    /\ Written
    /\ Members' = DOMAIN diskUsers \cup ConfigRoles
    /\ banlist' = diskBans

\* Every step is one or the other.
LEMMA MembershipStep ==
  ASSUME Next
  PROVE  Changed \/ Reloaded
<1>1. ASSUME NEW h \in Users, Receive(h)
      PROVE  Written /\ banlist' = banlist /\ Members' = Members
  BY <1>1 DEF Receive, DeferPersist, disk, Written, Members
<1>2. ASSUME NEW h \in Users, ReplyOnly(h) \/ AdmitChat(h)
      PROVE  Written /\ banlist' = banlist /\ Members' = Members
  BY <1>2 DEF ReplyOnly, AdmitChat, disk, Written, Members
<1>3. ASSUME NEW h \in Users, Join(h)
      PROVE  /\ Written /\ banlist' = banlist
             /\ Members' = Members \cup {h}
             /\ h \notin banlist /\ ~Full
  BY <1>3, PersistWrites DEF Join, With, Members
<1>4. ASSUME NEW h \in Users, NEW target \in Users, AddUser(h, target)
      PROVE  /\ Written /\ banlist' = banlist
             /\ Members' = Members \cup {target}
             /\ target \notin banlist /\ ~Full
  BY <1>4, PersistWrites DEF AddUser, MayAdd, With, Members
<1>5. ASSUME NEW target \in Users, RemoveUser(target)
      PROVE  Written /\ banlist' = banlist /\ Members' \subseteq Members
  BY <1>5, PersistWrites DEF RemoveUser, Without, Restrict, Members
<1>6. ASSUME NEW h \in Users, NEW target \in Users, Ban(h, target)
      PROVE  /\ Written
             /\ Members' = Members \ {target}
             /\ banlist' = banlist \cup {target}
  BY <1>6, PersistWrites DEF Ban, Without, Restrict, Members
<1>7. ASSUME NEW h \in Users, NEW target \in Users, Unban(h, target)
      PROVE  Written /\ banlist' \subseteq banlist /\ Members' = Members
  BY <1>7, PersistWrites DEF Unban, Members
<1>8. ASSUME NEW h \in Users, NEW target \in Users, NEW role \in Grants,
             TogglePaused(h) \/ Relabel(target) \/ UserMode(h, target, role)
      PROVE  Written /\ banlist' = banlist /\ Members' = Members
  BY <1>8, PersistWrites DEF TogglePaused, Relabel, UserMode, Members
<1>9. ASSUME NEW h \in Users, NEW a \in Emissions,
             OnAnnounce(h, a)
      PROVE  Written /\ banlist' = banlist /\ Members' = Members
  <2>1. Members' = Members /\ banlist' = banlist
    BY <1>9 DEF OnAnnounce, Members
  <2>2. Written
    BY <1>9, PersistWrites
    DEF OnAnnounce, DeferPersist, NoPersist, disk, Written
  <2>3. QED
    BY <2>1, <2>2
<1>10. ASSUME MarkMessage
       PROVE  Written /\ banlist' = banlist /\ Members' = Members
  BY <1>10 DEF MarkMessage, DeferPersist, disk, Written, Members
<1>11. ASSUME Prune \/ Flush
       PROVE  Written /\ banlist' = banlist /\ Members' \subseteq Members
  BY <1>11, PersistWrites DEF Prune, Flush, Without, Restrict, Members
<1>12. ASSUME Tick
       PROVE  Written /\ banlist' = banlist /\ Members' = Members
  BY <1>12 DEF Tick, Aged, Written, Members
<1>13. ASSUME Down
       PROVE  Written /\ banlist' \subseteq banlist /\ Members' \subseteq Members
  BY <1>13 DEF Down, disk, Written, Members
<1>14. ASSUME Restart
       PROVE  /\ Written
              /\ Members' = DOMAIN diskUsers \cup ConfigRoles
              /\ banlist' = diskBans
  <2>1. Written
    BY <1>14, PersistWrites DEF Restart, NoPersist, disk, Written
  <2>2. QED
    BY <1>14, <2>1 DEF Restart, Enrolled, Members
<1>15. ASSUME NEW h \in Users, Commands(h)
       PROVE  Changed
  <2>1. CASE Join(h)
    BY <1>3, <2>1 DEF Changed
  <2>2. CASE Leave(h)
    BY <1>5, <2>2 DEF Leave, Changed
  <2>3. CASE TogglePaused(h) \/ TextOnly(h)
    BY <2>3, PersistWrites DEF TogglePaused, TextOnly, Relabel, Members, Changed
  <2>4. ASSUME NEW target \in Users,
               \/ AddUser(h, target) \/ Kick(h, target)
               \/ Ban(h, target) \/ Unban(h, target) \/ Nick(h, target)
               \/ \E role \in Grants : UserMode(h, target, role)
        PROVE  Changed
    <3>1. CASE AddUser(h, target)
      BY <1>4, <3>1 DEF Changed
    <3>2. CASE Kick(h, target)
      BY <1>5, <3>2 DEF Kick, Changed
    <3>3. CASE Ban(h, target)
      BY <1>6, <3>3 DEF Changed
    <3>4. CASE Unban(h, target)
      BY <1>7, <3>4 DEF Changed
    <3>5. CASE Nick(h, target)
      BY <3>5, PersistWrites DEF Nick, Relabel, Members, Changed
    <3>6. CASE \E role \in Grants : UserMode(h, target, role)
      BY <1>8, <3>6 DEF Changed
    <3>7. QED
      BY <2>4, <3>1, <3>2, <3>3, <3>4, <3>5, <3>6
  <2>5. QED
    BY <1>15, <2>1, <2>2, <2>3, <2>4 DEF Commands
<1>16. QED
  BY <1>1, <1>2, <1>9, <1>10, <1>11, <1>12, <1>13, <1>14, <1>15
  DEF Next, Inbox, Changed, Reloaded

-----------------------------------------------------------------------------
(* The theorems. *)

\* The ban holds (Roster.Ban, the guards of handleJoin and handleAddUser, New):
\* no banned identity is a member, in memory or on disk, but the configured
\* admins and mods.
THEOREM BanHolds == Spec => []BannedOut
<1>1. Init => BannedOut
  BY DEF Init, BannedOut, Members
<1>2. BannedOut /\ [Next]_vars => BannedOut'
  <2> SUFFICES ASSUME BannedOut, [Next]_vars PROVE BannedOut'
    OBVIOUS
  <2>1. CASE UNCHANGED vars
    BY <2>1 DEF vars, disk, BannedOut, Members
  <2>2. CASE Next
    <3>1. banlist' \cap Members' \subseteq ConfigRoles
      BY <2>2, MembershipStep DEF BannedOut, Changed, Reloaded
    <3>2. diskBans' \cap DOMAIN diskUsers' \subseteq ConfigRoles
      BY <2>2, <3>1, MembershipStep
      DEF BannedOut, Changed, Reloaded, Written, Members
    <3>3. QED
      BY <3>1, <3>2 DEF BannedOut, ConfigRoles
  <2>3. QED
    BY <2>1, <2>2
<1>3. QED
  BY <1>1, <1>2, PTL DEF Spec

-----------------------------------------------------------------------------
(* The member cap.  CapRespected alone is not inductive: a restart brings     *)
(* back the members of the file, so the file has to keep to the cap too.      *)

Guests(r) == DOMAIN r \ ConfigRoles

CapInv ==
    /\ Members \subseteq Users
    /\ DOMAIN diskUsers \subseteq Users
    /\ MaxMembers > 0 => /\ Cardinality(Guests(users)) <= MaxMembers
                         /\ Cardinality(Guests(diskUsers)) <= MaxMembers

\* A group that is not full has room for one more.
LEMMA RoomForOne ==
  ASSUME NEW S \in SUBSET Users, NEW h \in Users,
         MaxMembers > 0, ~(Cardinality(S) >= MaxMembers)
  PROVE  Cardinality((S \cup {h}) \ ConfigRoles) <= MaxMembers
<1>1. IsFiniteSet(S) /\ MaxMembers \in Nat
  BY RosterAssumption, FS_Subset DEF RosterAssumption
<1>2. /\ IsFiniteSet(S \cup {h})
      /\ Cardinality(S \cup {h}) <= Cardinality(S) + 1
      /\ Cardinality(S \cup {h}) \in Nat
      /\ Cardinality(S) \in Nat
  <2>1. Cardinality(S) \in Nat
    BY <1>1, FS_CardinalityType
  <2>2. /\ IsFiniteSet(S \cup {h})
        /\ Cardinality(S \cup {h}) =
              IF h \in S THEN Cardinality(S) ELSE Cardinality(S) + 1
    BY <1>1, FS_AddElement
  <2>3. QED
    BY <2>1, <2>2
<1>3. /\ Cardinality((S \cup {h}) \ ConfigRoles) <= Cardinality(S \cup {h})
      /\ Cardinality((S \cup {h}) \ ConfigRoles) \in Nat
  <2>1. (S \cup {h}) \ ConfigRoles \in SUBSET (S \cup {h})
    OBVIOUS
  <2>2. QED
    BY <1>2, <2>1, FS_Subset, FS_CardinalityType
<1>4. QED
  BY <1>1, <1>2, <1>3

\* Members who leave make room.
LEMMA FewerGuests ==
  ASSUME NEW S \in SUBSET Users, NEW T \in SUBSET S,
         Cardinality(S \ ConfigRoles) <= MaxMembers
  PROVE  Cardinality(T \ ConfigRoles) <= MaxMembers
<1>1. IsFiniteSet(S \ ConfigRoles)
  BY RosterAssumption, FS_Subset DEF RosterAssumption
<1>2. T \ ConfigRoles \in SUBSET (S \ ConfigRoles)
  OBVIOUS
<1>3. /\ Cardinality(T \ ConfigRoles) <= Cardinality(S \ ConfigRoles)
      /\ Cardinality(T \ ConfigRoles) \in Nat
      /\ Cardinality(S \ ConfigRoles) \in Nat
  BY <1>1, <1>2, FS_Subset, FS_CardinalityType
<1>4. QED
  BY <1>3, RosterAssumption DEF RosterAssumption

\* Every step keeps memory and file within the cap.
LEMMA CapStep ==
  ASSUME CapInv, Next
  PROVE  CapInv'
<1>1. ConfigRoles \subseteq Users
  BY RosterAssumption DEF RosterAssumption, ConfigRoles
<1>2. Members' \subseteq Users
  BY <1>1, MembershipStep DEF CapInv, Changed, Reloaded
<1>3. MaxMembers > 0 => Cardinality(Guests(users')) <= MaxMembers
  <2> SUFFICES ASSUME MaxMembers > 0
               PROVE  Cardinality(Members' \ ConfigRoles) <= MaxMembers
    BY DEF Guests, Members
  <2>1. /\ Cardinality(Members \ ConfigRoles) <= MaxMembers
        /\ Cardinality(DOMAIN diskUsers \ ConfigRoles) <= MaxMembers
    BY DEF CapInv, Guests, Members
  <2>2. CASE Members' \subseteq Members
    BY <2>1, <2>2, FewerGuests DEF CapInv
  <2>3. CASE \E h \in Users : Members' = Members \cup {h} /\ ~Full
    BY <2>3, RoomForOne DEF CapInv, Full
  <2>4. CASE Reloaded
    <3>1. Members' \ ConfigRoles = DOMAIN diskUsers \ ConfigRoles
      BY <2>4 DEF Reloaded
    <3>2. QED
      BY <2>1, <3>1
  <2>5. QED
    BY <2>2, <2>3, <2>4, MembershipStep DEF Changed
<1>4. /\ DOMAIN diskUsers' \subseteq Users
      /\ MaxMembers > 0 => Cardinality(Guests(diskUsers')) <= MaxMembers
  <2>1. Written
    BY MembershipStep DEF Changed, Reloaded
  <2>2. CASE DOMAIN diskUsers' = DOMAIN users'
    BY <1>2, <1>3, <2>2 DEF Guests, Members
  <2>3. CASE DOMAIN diskUsers' = DOMAIN diskUsers
    BY <2>3 DEF CapInv, Guests
  <2>4. QED
    BY <2>1, <2>2, <2>3 DEF Written
<1>5. QED
  BY <1>2, <1>3, <1>4 DEF CapInv, ConfigRoles, Guests

\* The cap holds (handleJoin and handleAddUser, handlers.go:433-440 and
\* 715-720): whatever is pruned, restored or enrolled, only configured admins
\* and mods take the group past max_members.
THEOREM CapHolds == Spec => []CapRespected
<1>1. Init => CapInv
  <2> SUFFICES ASSUME Init PROVE CapInv
    OBVIOUS
  <2>1. Members = ConfigRoles /\ DOMAIN diskUsers = ConfigRoles
    BY DEF Init, Members
  <2>2. ConfigRoles \subseteq Users
    BY RosterAssumption DEF RosterAssumption, ConfigRoles
  <2>3. Guests(users) = {} /\ Guests(diskUsers) = {}
    BY <2>1 DEF Guests, Members
  <2>4. QED
    BY <2>1, <2>2, <2>3, FS_EmptySet, RosterAssumption
    DEF CapInv, RosterAssumption
<1>2. CapInv /\ [Next]_vars => CapInv'
  <2>1. CapInv /\ UNCHANGED vars => CapInv'
    BY DEF vars, disk, CapInv, Members, Guests
  <2>2. QED
    BY <2>1, CapStep
<1>3. CapInv => CapRespected
  BY DEF CapInv, CapRespected, Guests, Members
<1>4. QED
  BY <1>1, <1>2, <1>3, PTL DEF Spec

-----------------------------------------------------------------------------
(* Types.                                                                     *)

\* The ages and the stamps.
LEMMA Ages ==
  /\ MaxAge \in Nat /\ Never = MaxAge + 1 /\ 0 \in Age /\ 0 \in Stamp
  /\ IdleCutoff < MaxAge /\ SilentCutoff < MaxAge
  /\ Age \subseteq Stamp /\ Never \in Stamp /\ Never \notin Age
<1>1. IdleCutoff \in Nat /\ SilentCutoff \in Nat
  BY RosterAssumption DEF RosterAssumption
<1>2. /\ MaxAge \in Nat /\ IdleCutoff < MaxAge /\ SilentCutoff < MaxAge
  BY <1>1 DEF MaxAge
<1>3. QED
  BY <1>2 DEF Never, Age, Stamp

\* Time does not reverse the order of two stamps, and Never stays Never.
LEMMA OlderStamp ==
  /\ \A a \in Stamp : Older(a) \in Stamp /\ (Older(a) = Never <=> a = Never)
  /\ \A a \in Age : Older(a) \in Age
  /\ \A a, b \in Stamp : Younger(Older(a), Older(b)) = Older(Younger(a, b))
  BY Ages DEF Older, Younger, Stamp, Age

LEMMA YoungerStamp ==
  ASSUME NEW a \in Stamp, NEW b \in Stamp
  PROVE  Younger(a, b) \in {a, b} /\ Younger(a, b) \in Stamp
  BY DEF Younger

\* A record of the roster, field by field.
LEMMA UserFields ==
  ASSUME NEW u \in User
  PROVE  /\ u.joined \in Age /\ u.announced \in Stamp /\ u.spoke \in Stamp
         /\ u.command \in Stamp /\ u.invited \in BOOLEAN /\ u.paused \in BOOLEAN
         /\ u.role \in Role
  BY DEF User

LEMMA JoinerType ==
  /\ Joiner \in User /\ Joiner.joined = 0 /\ ~Joiner.invited
  /\ Invitee \in User /\ Invitee.joined = 0 /\ Invitee.announced = Never
<1>1. /\ Joiner \in User /\ Joiner.joined = 0 /\ Joiner.invited = FALSE
      /\ Joiner.announced = Never
  BY Ages DEF Joiner, User, Role
<1>2. Invitee = [Joiner EXCEPT !.spoke = Never, !.invited = TRUE]
  BY DEF Invitee
<1>3. /\ Invitee \in User /\ Invitee.joined = Joiner.joined
      /\ Invitee.announced = Joiner.announced
  BY <1>1, <1>2, Ages DEF User
<1>4. QED
  BY <1>1, <1>3

\* What each stamp writes, and what it leaves alone.
LEMMA StampedUser ==
  ASSUME NEW u \in User, NEW at \in Age
  PROVE  /\ Touched(u) \in User /\ Touched(u).paused = u.paused /\ Touched(u).role = u.role
         /\ Marked(u) \in User /\ Marked(u).paused = u.paused /\ Marked(u).role = u.role
         /\ Announced(u, at) \in User /\ Announced(u, at).paused = u.paused
         /\ Announced(u, at).role = u.role
<1>1. 0 \in Stamp /\ at \in Stamp
  BY Ages
<1>2. /\ Touched(u) \in User /\ Touched(u).paused = u.paused /\ Touched(u).role = u.role
  BY <1>1 DEF Touched, User
<1>3. /\ Marked(u) \in User /\ Marked(u).paused = u.paused /\ Marked(u).role = u.role
  BY <1>1 DEF Marked, User
<1>4. /\ Announced(u, at) \in User /\ Announced(u, at).paused = u.paused
      /\ Announced(u, at).role = u.role
  <2>1. CASE at < u.announced
    BY <1>1, <2>1 DEF Announced, User
  <2>2. CASE ~(at < u.announced)
    BY <2>2 DEF Announced
  <2>3. QED
    BY <2>1, <2>2
<1>5. QED
  BY <1>2, <1>3, <1>4

\* What is stamped is an age: that of the emission, or none when signed ahead.
LEMMA AnnounceAges ==
  ASSUME NEW a \in Emissions
  PROVE  /\ StampOf(a) \in Age /\ Clamp(a.ago) \in Age
         /\ StampOf(a) = IF a.ahead THEN 0 ELSE Clamp(a.ago)
<1>1. a \in [ago : Nat, ahead : BOOLEAN]
  BY RosterAssumption DEF RosterAssumption
<1>2. a.ago \in Nat /\ a.ahead \in BOOLEAN
  BY <1>1
<1>3. Clamp(a.ago) \in Age /\ 0 \in Age
  BY <1>2, Ages DEF Clamp, Age
<1>4. QED
  BY <1>2, <1>3 DEF StampOf

\* A roster with one record replaced, with one more, with fewer, grown older.
LEMMA RosterSet ==
  ASSUME NEW r, IsRoster(r), NEW h \in DOMAIN r, NEW u \in User
  PROVE  IsRoster([r EXCEPT ![h] = u])
  BY DEF IsRoster

LEMMA RosterWith ==
  ASSUME NEW r, IsRoster(r), NEW h \in Users, NEW u \in User
  PROVE  IsRoster(With(r, h, u))
  BY DEF IsRoster, With

LEMMA RosterWithout ==
  ASSUME NEW r, IsRoster(r), NEW S
  PROVE  /\ IsRoster(Without(r, S)) /\ DOMAIN Without(r, S) = DOMAIN r \ S
         /\ \A h \in DOMAIN r \ S : Without(r, S)[h] = r[h]
  BY DEF IsRoster, Without, Restrict

LEMMA RosterAged ==
  ASSUME NEW r, IsRoster(r)
  PROVE  /\ IsRoster(Aged(r)) /\ DOMAIN Aged(r) = DOMAIN r
         /\ \A h \in DOMAIN r :
               /\ Aged(r)[h].joined = Older(r[h].joined)
               /\ Aged(r)[h].announced = Older(r[h].announced)
               /\ Aged(r)[h].spoke = Older(r[h].spoke)
               /\ Aged(r)[h].command = Older(r[h].command)
               /\ Aged(r)[h].invited = r[h].invited
               /\ Aged(r)[h].paused = r[h].paused
               /\ Aged(r)[h].role = r[h].role
<1>1. DOMAIN Aged(r) = DOMAIN r
  BY DEF Aged
<1>2. ASSUME NEW h \in DOMAIN r
      PROVE  /\ Aged(r)[h] \in User
             /\ Aged(r)[h].joined = Older(r[h].joined)
             /\ Aged(r)[h].announced = Older(r[h].announced)
             /\ Aged(r)[h].spoke = Older(r[h].spoke)
             /\ Aged(r)[h].command = Older(r[h].command)
             /\ Aged(r)[h].invited = r[h].invited
             /\ Aged(r)[h].paused = r[h].paused
             /\ Aged(r)[h].role = r[h].role
  <2>1. r[h] \in User
    BY DEF IsRoster
  <2>2. Aged(r)[h] = [r[h] EXCEPT !.joined = Older(r[h].joined),
                        !.announced = Older(r[h].announced),
                        !.spoke = Older(r[h].spoke), !.command = Older(r[h].command)]
    BY DEF Aged
  <2>3. /\ Older(r[h].joined) \in Age /\ Older(r[h].announced) \in Stamp
        /\ Older(r[h].spoke) \in Stamp /\ Older(r[h].command) \in Stamp
    BY <2>1, UserFields, OlderStamp
  <2>4. QED
    BY <2>1, <2>2, <2>3 DEF User
<1>3. IsRoster(Aged(r))
  BY <1>1, <1>2 DEF IsRoster, Aged
<1>4. QED
  BY <1>1, <1>2, <1>3

LEMMA RosterEnrolled ==
  ASSUME NEW r, IsRoster(r)
  PROVE  IsRoster(Enrolled(r)) /\ (ConfigRoles \subseteq DOMAIN r => Enrolled(r) = r)
<1>1. ConfigRoles \subseteq Users
  BY RosterAssumption DEF RosterAssumption, ConfigRoles
<1>2. QED
  BY <1>1, JoinerType DEF IsRoster, Enrolled

-----------------------------------------------------------------------------
(* What a command decided survives a kill.  The file and the memory are       *)
(* compared through the types of both, and a process that is down has a       *)
(* restart left.                                                              *)

RosterInv == TypeOK /\ CommandsDurable /\ (~up => restarts < MaxRestarts)

\* What a step leaves in the file.
FileKept ==
    /\ dirty' \in BOOLEAN /\ IsRoster(diskUsers') /\ diskBans' \subseteq Users
    /\ saveFails' \in 0 .. MaxSaveFailures
    /\ CommandsDurable'

\* A synchronous write.
LEMMA Saved ==
  ASSUME TypeOK, IsRoster(users'), banlist' \subseteq Users, Persist
  PROVE  FileKept
<1>1. saveFails \in 0 .. MaxSaveFailures /\ MaxSaveFailures \in Nat
  BY RosterAssumption DEF TypeOK, RosterAssumption
<1>2. CASE diskUsers' = users' /\ diskBans' = banlist' /\ saveFails' = saveFails
  BY <1>1, <1>2 DEF Persist, FileKept, CommandsDurable, Members
<1>3. CASE saveFails < MaxSaveFailures /\ saveFails' = saveFails + 1 /\ UNCHANGED disk
  <2>1. saveFails' # 0 /\ saveFails' \in 0 .. MaxSaveFailures
    BY <1>1, <1>3
  <2>2. CommandsDurable'
    BY <2>1 DEF CommandsDurable
  <2>3. QED
    BY <1>3, <2>1, <2>2 DEF Persist, FileKept, TypeOK, disk
<1>4. QED
  BY <1>2, <1>3 DEF Persist

\* A stamp, which waits for the flusher.
LEMMA Stamped ==
  ASSUME TypeOK, CommandsDurable, up' = up, banlist' = banlist, DOMAIN users' = DOMAIN users,
         \A h \in DOMAIN users : /\ users'[h].paused = users[h].paused
                                 /\ users'[h].role = users[h].role,
         DeferPersist \/ (users' = users /\ NoPersist)
  PROVE  FileKept
<1>1. UNCHANGED <<diskUsers, diskBans, saveFails>> /\ dirty' \in BOOLEAN
  BY DEF DeferPersist, NoPersist, disk, TypeOK
<1>2. CommandsDurable'
  <2> SUFFICES ASSUME up, saveFails = 0
               PROVE  /\ DOMAIN diskUsers' = Members'
                      /\ diskBans' = banlist'
                      /\ \A h \in Members' :
                            /\ diskUsers'[h].paused = users'[h].paused
                            /\ diskUsers'[h].role = users'[h].role
                      /\ ~dirty' => diskUsers' = users'
    BY <1>1 DEF CommandsDurable
  <2>1. ~dirty' => diskUsers' = users'
    BY <1>1 DEF DeferPersist, NoPersist, CommandsDurable
  <2>2. QED
    BY <1>1, <2>1 DEF CommandsDurable, Members
<1>3. QED
  BY <1>1, <1>2 DEF FileKept, TypeOK

\* What is left to show of a step.
LEMMA RosterKept ==
  ASSUME RosterInv, IsRoster(users'), banlist' \subseteq Users, FileKept, UNCHANGED process,
         inbox' \in {inbox, Nobody} \cup Users, admitted' \in BOOLEAN,
         contact' \in [Users -> Stamp], words' \in [Users -> Stamp],
         misdated' \in [Users -> Stamp]
  PROVE  RosterInv'
  BY DEF RosterInv, TypeOK, FileKept, process

\* The history stays a history.
LEMMA UnheardType ==
  ASSUME TypeOK, NEW S, Unheard(S)
  PROVE  /\ contact' \in [Users -> Stamp] /\ words' \in [Users -> Stamp]
         /\ misdated' \in [Users -> Stamp]
  BY Ages DEF TypeOK, Unheard

LEMMA InboxKeeps ==
  ASSUME RosterInv, NEW h \in Users, Receive(h) \/ ReplyOnly(h) \/ AdmitChat(h)
  PROVE  RosterInv'
<1>1. TypeOK /\ CommandsDurable /\ IsRoster(users)
  BY DEF RosterInv, TypeOK
<1>2. CASE Receive(h) /\ h \in Members
  <2>1. /\ users' = [users EXCEPT ![h] = Touched(users[h])] /\ DeferPersist
        /\ contact' = [contact EXCEPT ![h] = 0] /\ banlist' = banlist /\ words' = words /\ misdated' = misdated
        /\ inbox' = h /\ admitted' = admitted /\ UNCHANGED process
    BY <1>2 DEF Receive
  <2>2. users[h] \in User /\ h \in DOMAIN users
    BY <1>1, <1>2 DEF IsRoster, Members
  <2>3. /\ Touched(users[h]) \in User /\ Touched(users[h]).paused = users[h].paused
        /\ Touched(users[h]).role = users[h].role
    BY <2>2, Ages, StampedUser
  <2>4. IsRoster(users')
    BY <1>1, <2>1, <2>2, <2>3, RosterSet
  <2>5. /\ DOMAIN users' = DOMAIN users
        /\ \A g \in DOMAIN users : /\ users'[g].paused = users[g].paused
                                   /\ users'[g].role = users[g].role
    BY <2>1, <2>2, <2>3
  <2>6. FileKept
    BY <1>1, <2>1, <2>5, Stamped DEF process
  <2>7. contact' \in [Users -> Stamp]
    BY <1>1, <2>1, Ages DEF TypeOK
  <2>8. QED
    BY <1>1, <2>1, <2>4, <2>6, <2>7, RosterKept DEF TypeOK
<1>3. CASE \/ Receive(h) /\ h \notin Members
           \/ ReplyOnly(h) \/ AdmitChat(h)
  <2>1. /\ UNCHANGED <<users, banlist, dirty, diskUsers, diskBans, saveFails>>
        /\ UNCHANGED <<contact, words, misdated>> /\ UNCHANGED process
        /\ inbox' \in {h, inbox, Nobody} /\ admitted' \in {admitted, TRUE, FALSE}
    BY <1>3 DEF Receive, ReplyOnly, AdmitChat, Done, disk, history
  <2>2. CommandsDurable'
    BY <1>1, <2>1 DEF CommandsDurable, Members, process
  <2>3. FileKept
    BY <1>1, <2>1, <2>2 DEF FileKept, TypeOK
  <2>4. QED
    BY <1>1, <2>1, <2>3, RosterKept DEF TypeOK
<1>4. QED
  BY <1>2, <1>3

\* The stamps of MarkMessage and of an announce.
LEMMA StampKeeps ==
  ASSUME RosterInv,
         \/ MarkMessage
         \/ \E h \in Users, a \in Emissions : OnAnnounce(h, a)
  PROVE  RosterInv'
<1>1. TypeOK /\ CommandsDurable /\ IsRoster(users)
  BY DEF RosterInv, TypeOK
<1>2. CASE MarkMessage /\ inbox \in Members
  <2>1. PICK h \in Members : h = inbox
    BY <1>2
  <2>2. /\ users' = [users EXCEPT ![h] = Marked(users[h])] /\ DeferPersist
        /\ words' = [words EXCEPT ![h] = 0] /\ banlist' = banlist /\ contact' = contact /\ misdated' = misdated
        /\ inbox' = Nobody /\ admitted' = FALSE /\ UNCHANGED process
    BY <1>2, <2>1 DEF MarkMessage, Done
  <2>3. users[h] \in User /\ h \in DOMAIN users
    BY <1>1 DEF IsRoster, Members
  <2>4. /\ Marked(users[h]) \in User /\ Marked(users[h]).paused = users[h].paused
        /\ Marked(users[h]).role = users[h].role
    BY <2>3, Ages, StampedUser
  <2>5. IsRoster(users')
    BY <1>1, <2>2, <2>3, <2>4, RosterSet
  <2>6. /\ DOMAIN users' = DOMAIN users
        /\ \A g \in DOMAIN users : /\ users'[g].paused = users[g].paused
                                   /\ users'[g].role = users[g].role
    BY <2>2, <2>3, <2>4
  <2>7. FileKept
    BY <1>1, <2>2, <2>6, Stamped DEF process
  <2>8. words' \in [Users -> Stamp]
    BY <1>1, <2>2, Ages DEF TypeOK
  <2>9. QED
    BY <1>1, <2>2, <2>5, <2>7, <2>8, RosterKept DEF TypeOK
<1>3. CASE MarkMessage /\ inbox \notin Members
  <2>1. /\ UNCHANGED <<users, banlist, dirty, diskUsers, diskBans, saveFails>>
        /\ UNCHANGED <<contact, words, misdated>> /\ UNCHANGED process
        /\ inbox' = Nobody /\ admitted' = FALSE
    BY <1>3 DEF MarkMessage, Done, disk
  <2>2. CommandsDurable'
    BY <1>1, <2>1 DEF CommandsDurable, Members, process
  <2>3. FileKept
    BY <1>1, <2>1, <2>2 DEF FileKept, TypeOK
  <2>4. QED
    BY <1>1, <2>1, <2>3, RosterKept DEF TypeOK
<1>4. ASSUME NEW h \in Users, NEW a \in Emissions, OnAnnounce(h, a)
      PROVE  RosterInv'
  <2>1. PICK at \in Age, e \in Age : at = StampOf(a) /\ e = Clamp(a.ago)
    BY AnnounceAges
  <2>2. /\ h \in Members
        /\ users' = [users EXCEPT ![h] = Announced(users[h], at)]
        /\ banlist' = banlist /\ words' = words
        /\ misdated' \in {misdated, [misdated EXCEPT ![h] = 0]}
        /\ \/ users' # users /\ DeferPersist
           \/ users' = users /\ NoPersist
           \/ Persist
        /\ contact' = [contact EXCEPT ![h] =
                         IF e <= users[h].joined THEN Younger(contact[h], e) ELSE contact[h]]
        /\ UNCHANGED process /\ inbox' = inbox /\ admitted' = admitted
    <3>1. misdated' = [misdated EXCEPT ![h] = IF a.ahead THEN 0 ELSE misdated[h]]
      BY <1>4 DEF OnAnnounce
    <3>2. misdated' \in {misdated, [misdated EXCEPT ![h] = 0]}
      BY <1>1, <3>1 DEF TypeOK
    <3>3. QED
      BY <1>4, <2>1, <3>2 DEF OnAnnounce, handler
  <2>3. users[h] \in User /\ h \in DOMAIN users
    BY <1>1, <2>2 DEF IsRoster, Members
  <2>4. /\ Announced(users[h], at) \in User
        /\ Announced(users[h], at).paused = users[h].paused
        /\ Announced(users[h], at).role = users[h].role
    BY <2>3, StampedUser
  <2>5. IsRoster(users')
    BY <1>1, <2>2, <2>3, <2>4, RosterSet
  <2>6. /\ DOMAIN users' = DOMAIN users
        /\ \A g \in DOMAIN users : /\ users'[g].paused = users[g].paused
                                   /\ users'[g].role = users[g].role
    BY <2>2, <2>3, <2>4
  <2>7. banlist' \subseteq Users
    BY <1>1, <2>2 DEF TypeOK
  <2>8. FileKept
    BY <1>1, <2>2, <2>5, <2>6, <2>7, Saved, Stamped DEF process
  <2>9. contact' \in [Users -> Stamp] /\ misdated' \in [Users -> Stamp]
    <3>1. contact[h] \in Stamp /\ e \in Stamp /\ 0 \in Stamp
      BY <1>1, Ages DEF TypeOK
    <3>2. Younger(contact[h], e) \in Stamp
      BY <3>1, YoungerStamp
    <3>3. QED
      BY <1>1, <2>2, <3>1, <3>2 DEF TypeOK
  <2>10. QED
    BY <1>1, <2>2, <2>5, <2>7, <2>8, <2>9, RosterKept DEF TypeOK
<1>5. QED
  BY <1>2, <1>3, <1>4

\* The commands, the sweep and the flush end in a synchronous write.
LEMMA WriteKeeps ==
  ASSUME RosterInv, IsRoster(users'), banlist' \subseteq Users, Persist, UNCHANGED process,
         Done \/ UNCHANGED handler,
         contact' \in [Users -> Stamp], words' \in [Users -> Stamp],
         misdated' \in [Users -> Stamp]
  PROVE  RosterInv'
<1>1. FileKept
  BY Saved DEF RosterInv
<1>2. inbox' \in {inbox, Nobody} \cup Users /\ admitted' \in BOOLEAN
  BY DEF Done, handler, RosterInv, TypeOK
<1>3. QED
  BY <1>1, <1>2, RosterKept

LEMMA CommandKeeps ==
  ASSUME RosterInv, NEW h \in Users, Commands(h)
  PROVE  RosterInv'
<1>1. /\ TypeOK /\ IsRoster(users) /\ banlist \subseteq Users
      /\ contact \in [Users -> Stamp] /\ words \in [Users -> Stamp] /\ misdated \in [Users -> Stamp]
  BY DEF RosterInv, TypeOK
<1>2. CASE Join(h)
  <2>1. /\ users' = With(users, h, Joiner) /\ banlist' = banlist /\ Persist /\ Done
        /\ contact' = [contact EXCEPT ![h] = 0] /\ words' = words /\ misdated' = misdated /\ UNCHANGED process
    BY <1>2 DEF Join
  <2>2. IsRoster(users') /\ contact' \in [Users -> Stamp]
    BY <1>1, <2>1, RosterWith, JoinerType, Ages
  <2>3. QED
    BY <1>1, <2>1, <2>2, WriteKeeps
<1>3. ASSUME NEW target \in Users, AddUser(h, target)
      PROVE  RosterInv'
  <2>1. /\ users' = With(users, target, Invitee) /\ banlist' = banlist /\ Persist /\ Done
        /\ UNCHANGED <<contact, words, misdated>> /\ UNCHANGED process
    BY <1>3 DEF AddUser, history
  <2>2. IsRoster(users')
    BY <1>1, <2>1, RosterWith, JoinerType
  <2>3. QED
    BY <1>1, <2>1, <2>2, WriteKeeps
<1>4. ASSUME NEW target \in Users, RemoveUser(target) \/ Ban(h, target)
      PROVE  RosterInv'
  <2>1. /\ users' = Without(users, {target}) /\ banlist' \subseteq banlist \cup {target}
        /\ Persist /\ Done /\ Unheard({target}) /\ UNCHANGED process
    BY <1>4 DEF RemoveUser, Ban
  <2>2. IsRoster(users')
    BY <1>1, <2>1, RosterWithout
  <2>3. contact' \in [Users -> Stamp] /\ words' \in [Users -> Stamp] /\ misdated' \in [Users -> Stamp]
    BY <1>1, <2>1, UnheardType
  <2>4. QED
    BY <1>1, <2>1, <2>2, <2>3, WriteKeeps
<1>5. ASSUME NEW target \in Users, Unban(h, target) \/ Relabel(target)
      PROVE  RosterInv'
  <2>1. /\ users' = users /\ banlist' \subseteq banlist
        /\ Persist /\ Done /\ UNCHANGED <<contact, words, misdated>> /\ UNCHANGED process
    BY <1>5 DEF Unban, Relabel, history
  <2>2. QED
    BY <1>1, <2>1, WriteKeeps
<1>6. CASE TogglePaused(h)
  <2>1. /\ users' = [users EXCEPT ![h].paused = ~users[h].paused] /\ banlist' = banlist
        /\ Persist /\ Done /\ UNCHANGED <<contact, words, misdated>> /\ UNCHANGED process
        /\ h \in DOMAIN users
    BY <1>6 DEF TogglePaused, history, Members
  <2>2. users[h] \in User
    BY <1>1, <2>1 DEF IsRoster
  <2>3. [users[h] EXCEPT !.paused = ~users[h].paused] \in User
    BY <2>2 DEF User
  <2>4. IsRoster(users')
    BY <1>1, <2>1, <2>3 DEF IsRoster
  <2>5. QED
    BY <1>1, <2>1, <2>4, WriteKeeps
<1>7. ASSUME NEW target \in Users, NEW role \in Grants, UserMode(h, target, role)
      PROVE  RosterInv'
  <2>1. /\ users' = [users EXCEPT ![target].role = role] /\ banlist' = banlist
        /\ Persist /\ Done /\ UNCHANGED <<contact, words, misdated>> /\ UNCHANGED process
        /\ target \in DOMAIN users
    BY <1>7 DEF UserMode, history, Members
  <2>2. users[target] \in User /\ role \in Role
    BY <1>1, <2>1, RosterAssumption DEF IsRoster, RosterAssumption, Role
  <2>3. [users[target] EXCEPT !.role = role] \in User
    BY <2>2 DEF User
  <2>4. IsRoster(users')
    BY <1>1, <2>1, <2>3 DEF IsRoster
  <2>5. QED
    BY <1>1, <2>1, <2>4, WriteKeeps
<1>8. QED
  BY <1>2, <1>3, <1>4, <1>5, <1>6, <1>7 DEF Commands, Leave, Kick, TextOnly, Nick

LEMMA TimerKeeps ==
  ASSUME RosterInv, Prune \/ Flush \/ Tick
  PROVE  RosterInv'
<1>1. /\ TypeOK /\ IsRoster(users) /\ IsRoster(diskUsers) /\ banlist \subseteq Users
      /\ contact \in [Users -> Stamp] /\ words \in [Users -> Stamp] /\ misdated \in [Users -> Stamp]
  BY DEF RosterInv, TypeOK
<1>2. CASE Prune
  <2>1. /\ users' = Without(users, Sweep) /\ banlist' = banlist /\ Persist
        /\ Unheard(Sweep) /\ UNCHANGED process /\ UNCHANGED handler
    BY <1>2 DEF Prune, process, handler
  <2>2. /\ IsRoster(users') /\ contact' \in [Users -> Stamp] /\ words' \in [Users -> Stamp]
        /\ misdated' \in [Users -> Stamp]
    BY <1>1, <2>1, RosterWithout, UnheardType
  <2>3. QED
    BY <1>1, <2>1, <2>2, WriteKeeps
<1>3. CASE Flush
  <2>1. /\ users' = users /\ banlist' = banlist /\ Persist
        /\ UNCHANGED <<contact, words, misdated>> /\ UNCHANGED process /\ UNCHANGED handler
    BY <1>3 DEF Flush, process, handler, history
  <2>2. QED
    BY <1>1, <2>1, WriteKeeps
<1>4. CASE Tick
  <2>1. /\ users' = Aged(users) /\ diskUsers' = Aged(diskUsers)
        /\ ticks < MaxTicks /\ ticks' = ticks + 1
        /\ contact' = [h \in Users |-> Older(contact[h])]
        /\ words' = [h \in Users |-> Older(words[h])]
        /\ misdated' = [h \in Users |-> Older(misdated[h])]
        /\ UNCHANGED <<up, restarts, inbox, admitted, banlist, dirty, diskBans, saveFails>>
    BY <1>4 DEF Tick, handler
  <2>2. /\ IsRoster(users') /\ DOMAIN users' = DOMAIN users
        /\ \A h \in DOMAIN users : /\ users'[h].paused = users[h].paused
                                   /\ users'[h].role = users[h].role
    BY <1>1, <2>1, RosterAged
  <2>3. /\ IsRoster(diskUsers') /\ DOMAIN diskUsers' = DOMAIN diskUsers
        /\ \A h \in DOMAIN diskUsers : /\ diskUsers'[h].paused = diskUsers[h].paused
                                       /\ diskUsers'[h].role = diskUsers[h].role
    BY <1>1, <2>1, RosterAged
  <2>4. contact' \in [Users -> Stamp] /\ words' \in [Users -> Stamp] /\ misdated' \in [Users -> Stamp]
    BY <1>1, <2>1, OlderStamp
  <2>5. ticks' \in 0 .. MaxTicks
    BY <1>1, <2>1, RosterAssumption DEF TypeOK, RosterAssumption
  <2>6. diskUsers = users => diskUsers' = users'
    BY <2>1
  <2>7. CommandsDurable'
    BY <2>1, <2>2, <2>3, <2>6 DEF RosterInv, CommandsDurable, Members
  <2>8. TypeOK'
    BY <1>1, <2>1, <2>2, <2>3, <2>4, <2>5 DEF TypeOK
  <2>9. QED
    BY <2>1, <2>7, <2>8 DEF RosterInv
<1>5. QED
  BY <1>2, <1>3, <1>4

LEMMA ProcessKeeps ==
  ASSUME RosterInv, Down \/ Restart
  PROVE  RosterInv'
<1>1. /\ TypeOK /\ IsRoster(diskUsers) /\ diskBans \subseteq Users
      /\ contact \in [Users -> Stamp] /\ words \in [Users -> Stamp] /\ misdated \in [Users -> Stamp]
      /\ restarts \in 0 .. MaxRestarts /\ MaxRestarts \in Nat
  BY RosterAssumption DEF RosterInv, TypeOK, RosterAssumption
<1>2. CASE Down
  <2>1. /\ users' = [h \in {} |-> Joiner] /\ banlist' = {} /\ dirty' = FALSE /\ up' = FALSE
        /\ inbox' = Nobody /\ admitted' = FALSE /\ restarts < MaxRestarts
        /\ UNCHANGED <<restarts, ticks, diskUsers, diskBans, saveFails, contact, words,
                       misdated>>
    BY <1>2 DEF Down, Done, disk, history
  <2>2. IsRoster(users')
    BY <2>1 DEF IsRoster
  <2>3. TypeOK'
    BY <1>1, <2>1, <2>2 DEF TypeOK
  <2>4. QED
    BY <2>1, <2>3 DEF RosterInv, CommandsDurable
<1>3. CASE Restart
  <2>1. /\ up' = TRUE /\ restarts' = restarts + 1 /\ restarts < MaxRestarts
        /\ users' = Enrolled(diskUsers) /\ banlist' = diskBans
        /\ UNCHANGED <<inbox, admitted, ticks>>
        /\ Unheard(Users \ DOMAIN diskUsers)
    BY <1>3 DEF Restart, handler, RosterInv
  <2>2. /\ IsRoster(users') /\ contact' \in [Users -> Stamp] /\ words' \in [Users -> Stamp]
        /\ misdated' \in [Users -> Stamp]
        /\ ConfigRoles \subseteq DOMAIN diskUsers => users' = diskUsers
    BY <1>1, <2>1, RosterEnrolled, UnheardType
  <2>3. FileKept
    <3>1. CASE ConfigRoles \subseteq DOMAIN diskUsers
      <4>1. UNCHANGED <<dirty, diskUsers, diskBans, saveFails>> /\ users' = diskUsers
        BY <1>3, <2>2, <3>1 DEF Restart, NoPersist, disk
      <4>2. CommandsDurable'
        BY <2>1, <4>1 DEF CommandsDurable, Members
      <4>3. QED
        BY <1>1, <4>1, <4>2 DEF FileKept, TypeOK
    <3>2. CASE ~(ConfigRoles \subseteq DOMAIN diskUsers)
      BY <1>1, <1>3, <2>1, <2>2, <3>2, Saved DEF Restart
    <3>3. QED
      BY <3>1, <3>2
  <2>4. restarts' \in 0 .. MaxRestarts
    BY <1>1, <2>1
  <2>5. QED
    BY <1>1, <2>1, <2>2, <2>3, <2>4 DEF RosterInv, TypeOK, FileKept
<1>4. QED
  BY <1>2, <1>3

\* The inductive invariant holds: the types of memory and file, and that the file
\* has every decided change unless a write failed (persistLocked).
THEOREM RosterInvariant == Spec => []RosterInv
<1>1. Init => RosterInv
  <2> SUFFICES ASSUME Init PROVE RosterInv
    OBVIOUS
  <2>1. IsRoster(users) /\ diskUsers = users
    <3>1. ConfigRoles \subseteq Users
      BY RosterAssumption DEF RosterAssumption, ConfigRoles
    <3>2. QED
      BY <3>1, JoinerType DEF Init, IsRoster
  <2>2. TypeOK
    <3>1. /\ up \in BOOLEAN /\ dirty \in BOOLEAN /\ admitted \in BOOLEAN
          /\ inbox \in Users \cup {Nobody} /\ banlist \subseteq Users
          /\ diskBans \subseteq Users
      BY DEF Init
    <3>2. /\ restarts \in 0 .. MaxRestarts /\ saveFails \in 0 .. MaxSaveFailures
          /\ ticks \in 0 .. MaxTicks
      BY RosterAssumption DEF Init, RosterAssumption
    <3>3. contact \in [Users -> Stamp] /\ words \in [Users -> Stamp] /\ misdated \in [Users -> Stamp]
      BY Ages DEF Init
    <3>4. QED
      BY <2>1, <3>1, <3>2, <3>3 DEF TypeOK
  <2>3. CommandsDurable
    BY <2>1 DEF Init, CommandsDurable, Members
  <2>4. QED
    BY <2>2, <2>3 DEF Init, RosterInv
<1>2. RosterInv /\ [Next]_vars => RosterInv'
  <2> SUFFICES ASSUME RosterInv, [Next]_vars PROVE RosterInv'
    OBVIOUS
  <2>1. CASE UNCHANGED vars
    BY <2>1 DEF vars, process, handler, disk, history, RosterInv, TypeOK,
       CommandsDurable, Members, IsRoster
  <2>2. CASE Next
    BY <2>2, InboxKeeps, StampKeeps, CommandKeeps, TimerKeeps, ProcessKeeps
    DEF Next, Inbox
  <2>3. QED
    BY <2>1, <2>2
<1>3. QED
  BY <1>1, <1>2, PTL DEF Spec

\* The roster's memory, its file and the history have their types, whatever
\* order commands, stamps, sweeps, failing writes and kills come in.
THEOREM TypeCorrect == Spec => []TypeOK
<1>1. RosterInv => TypeOK
  BY DEF RosterInv
<1>2. QED
  BY <1>1, RosterInvariant, PTL

\* Unless a write has failed, no kill undoes what a membership command decided
\* (persistLocked before the reply, roster.go).
THEOREM CommandsSurvive == Spec => []CommandsDurable
<1>1. RosterInv => CommandsDurable
  BY DEF RosterInv
<1>2. QED
  BY <1>1, RosterInvariant, PTL

-----------------------------------------------------------------------------
(* The sweep.  The stamps of a member tell, from when the member was added    *)
(* on, what the history tells: they agree on the last words, and on the last  *)
(* sign of life or, if that is later, the last announce that came signed      *)
(* ahead of the clock; and an invitee has given no sign.                      *)

Level(u, c, w, m) ==
    /\ LastSeen(u) = Younger(Younger(u.joined, c), m)
    /\ LastSpoke(u) = Younger(u.joined, w)
    /\ u.invited => c = Never /\ u.announced = Never

\* While the message of a member is in hand, the member is there.
SweepInv ==
    up /\ restarts = 0 =>
        /\ \A h \in Members : Level(users[h], contact[h], words[h], misdated[h])
        /\ \A h \in Users \ Members : contact[h] = Never
        /\ inbox \in Members => contact[inbox] = 0

\* The two ages of a record as the least of their parts.
LEMMA SeenAge ==
  ASSUME NEW u \in User
  PROVE  /\ LastSeen(u) \in Nat /\ LastSpoke(u) \in Nat
         /\ LastSeen(u) <= u.joined /\ LastSeen(u) <= u.announced
         /\ LastSeen(u) <= u.spoke /\ LastSeen(u) <= u.command
         /\ LastSeen(u) \in {u.joined, u.announced, u.spoke, u.command}
         /\ LastSpoke(u) <= u.joined /\ LastSpoke(u) <= u.spoke
         /\ LastSpoke(u) \in {u.joined, u.spoke}
<1>1. u.joined \in Nat /\ u.announced \in Nat /\ u.spoke \in Nat /\ u.command \in Nat
  BY UserFields, Ages DEF Age, Stamp
<1>2. QED
  BY <1>1 DEF LastSeen, LastSpoke, Younger

LEMMA LevelNew ==
  ASSUME NEW u \in User, u.joined = 0, NEW c \in Stamp, NEW w \in Stamp, NEW m \in Stamp,
         u.invited => c = Never /\ u.announced = Never
  PROVE  Level(u, c, w, m)
<1>1. c \in Nat /\ w \in Nat /\ m \in Nat
  BY Ages DEF Stamp
<1>2. Younger(0, c) = 0 /\ Younger(0, w) = 0 /\ Younger(0, m) = 0
  BY <1>1 DEF Younger
<1>3. LastSeen(u) = 0 /\ LastSpoke(u) = 0
  BY SeenAge
<1>4. QED
  BY <1>2, <1>3 DEF Level

\* The fields that the sweep does not read.
LEMMA LevelSame ==
  ASSUME NEW u, NEW v, NEW c, NEW w, NEW m, Level(u, c, w, m),
         v.joined = u.joined, v.announced = u.announced, v.spoke = u.spoke,
         v.command = u.command, v.invited = u.invited
  PROVE  Level(v, c, w, m)
  BY DEF Level, LastSeen, LastSpoke

LEMMA LevelTouched ==
  ASSUME NEW u \in User, NEW c \in Stamp, NEW w \in Stamp, NEW m \in Stamp,
         Level(u, c, w, m)
  PROVE  Level(Touched(u), 0, w, m)
<1>1. /\ Touched(u) \in User /\ Touched(u).joined = u.joined /\ Touched(u).command = 0
      /\ Touched(u).spoke = u.spoke /\ ~Touched(u).invited
  BY Ages DEF Touched, User
<1>2. LastSeen(Touched(u)) = 0 /\ LastSpoke(Touched(u)) = LastSpoke(u)
  BY <1>1, SeenAge DEF LastSpoke
<1>3. Younger(u.joined, 0) = 0 /\ Younger(0, m) = 0
  BY UserFields, Ages DEF Younger, Age, Stamp
<1>4. QED
  BY <1>1, <1>2, <1>3 DEF Level

LEMMA LevelMarked ==
  ASSUME NEW u \in User, NEW m \in Stamp
  PROVE  Level(Marked(u), 0, 0, m)
<1>1. /\ Marked(u) \in User /\ Marked(u).joined = u.joined /\ Marked(u).spoke = 0
      /\ ~Marked(u).invited
  BY Ages DEF Marked, User
<1>2. LastSeen(Marked(u)) = 0 /\ LastSpoke(Marked(u)) = 0
  BY <1>1, SeenAge
<1>3. Younger(u.joined, 0) = 0 /\ Younger(0, m) = 0
  BY UserFields, Ages DEF Younger, Age, Stamp
<1>4. QED
  BY <1>1, <1>2, <1>3 DEF Level

\* An announce counts from when it was emitted, and only if that was after the
\* member was added; or it is signed ahead, and stamped with its arrival.
LEMMA LevelAnnounced ==
  ASSUME NEW u \in User, NEW c \in Stamp, NEW w \in Stamp, NEW m \in Stamp,
         NEW e \in Age, NEW at \in Age, NEW n \in Stamp,
         \/ at = e /\ n = m
         \/ at = 0 /\ n = 0,
         Level(u, c, w, m)
  PROVE  Level(Announced(u, at), IF e <= u.joined THEN Younger(c, e) ELSE c, w, n)
<1>1. /\ u.joined \in Nat /\ u.announced \in Nat /\ u.spoke \in Nat /\ u.command \in Nat
      /\ c \in Nat /\ at \in Nat /\ at # Never /\ at < Never
      /\ u.announced <= Never /\ c <= Never
      /\ e \in Nat /\ m \in Nat /\ n \in Nat
  BY UserFields, Ages DEF Age, Stamp
<1> DEFINE v == Announced(u, at)
           d == IF e <= u.joined THEN Younger(c, e) ELSE c
<1>2. /\ v.joined = u.joined /\ v.spoke = u.spoke /\ v.command = u.command
      /\ v.announced = Younger(u.announced, at)
      /\ v.invited => u.invited /\ ~(at < u.announced)
  <2>1. CASE at < u.announced
    <3>1. v = [u EXCEPT !.announced = at, !.invited = FALSE]
      BY <2>1 DEF Announced
    <3>2. /\ v.joined = u.joined /\ v.spoke = u.spoke /\ v.command = u.command
          /\ v.announced = at /\ ~v.invited
      BY <3>1 DEF User
    <3>3. QED
      BY <1>1, <2>1, <3>2 DEF Younger
  <2>2. CASE ~(at < u.announced)
    <3>1. v = u
      BY <2>2 DEF Announced
    <3>2. QED
      BY <1>1, <2>2, <3>1 DEF Younger
  <2>3. QED
    BY <2>1, <2>2
<1>3. LastSpoke(v) = LastSpoke(u)
  BY <1>2 DEF LastSpoke
<1>4. LastSeen(v) = Younger(LastSeen(u), at)
  BY <1>1, <1>2 DEF LastSeen, Younger
<1>5. Younger(Younger(v.joined, d), n) = Younger(Younger(Younger(u.joined, c), m), at)
  <2> DEFINE j == u.joined
  <2>1. /\ j \in Nat /\ v.joined = j /\ d \in Nat
        /\ Younger(j, d) = Younger(Younger(j, c), e)
    BY <1>1, <1>2 DEF Younger
  <2> HIDE DEF j, d, v
  <2>2. CASE at = e /\ n = m
    BY <1>1, <2>1, <2>2 DEF Younger, j
  <2>3. CASE at = 0 /\ n = 0
    BY <1>1, <2>1, <2>3 DEF Younger, j
  <2>4. QED
    BY <2>2, <2>3
<1>6. v.invited => d = Never /\ v.announced = Never
  <2>1. ~v.invited
    BY <1>1, <1>2 DEF Level
  <2>2. QED
    BY <2>1
<1>7. QED
  BY <1>2, <1>3, <1>4, <1>5, <1>6 DEF Level

LEMMA LevelAged ==
  ASSUME NEW u \in User, NEW v \in User, NEW c \in Stamp, NEW w \in Stamp,
         NEW m \in Stamp, Level(u, c, w, m),
         v.joined = Older(u.joined), v.announced = Older(u.announced),
         v.spoke = Older(u.spoke), v.command = Older(u.command), v.invited = u.invited
  PROVE  Level(v, Older(c), Older(w), Older(m))
<1>1. /\ u.joined \in Stamp /\ u.announced \in Stamp /\ u.spoke \in Stamp
      /\ u.command \in Stamp
  BY UserFields, Ages
<1>2. \A a, b \in Stamp : /\ Younger(Older(a), Older(b)) = Older(Younger(a, b))
                          /\ Younger(a, b) \in Stamp
  BY OlderStamp, YoungerStamp
<1>3. LastSeen(v) = Older(LastSeen(u)) /\ LastSpoke(v) = Older(LastSpoke(u))
  BY <1>1, <1>2 DEF LastSeen, LastSpoke
<1>4. /\ Younger(v.joined, Older(c)) = Older(Younger(u.joined, c))
      /\ Younger(u.joined, c) \in Stamp
      /\ Younger(Older(Younger(u.joined, c)), Older(m)) = Older(Younger(Younger(u.joined, c), m))
      /\ Younger(v.joined, Older(w)) = Older(Younger(u.joined, w))
  BY <1>1, <1>2
<1>5. Older(Never) = Never
  BY OlderStamp, Ages
<1>6. QED
  BY <1>3, <1>4, <1>5 DEF Level

\* Every step keeps them level.
LEMMA SweepStep ==
  ASSUME RosterInv, SweepInv, [Next]_vars, up', restarts' = 0
  PROVE  /\ \A g \in Members' : Level(users'[g], contact'[g], words'[g], misdated'[g])
         /\ \A g \in Users \ Members' : contact'[g] = Never
         /\ inbox' \in Members' => contact'[inbox'] = 0
<1> DEFINE Goal == /\ \A g \in Members' : Level(users'[g], contact'[g], words'[g], misdated'[g])
                   /\ \A g \in Users \ Members' : contact'[g] = Never
                   /\ inbox' \in Members' => contact'[inbox'] = 0
<1>1. /\ TypeOK /\ IsRoster(users) /\ Members \subseteq Users /\ Nobody \notin Users
      /\ contact \in [Users -> Stamp] /\ words \in [Users -> Stamp] /\ misdated \in [Users -> Stamp]
      /\ \A g \in Members : users[g] \in User
  BY RosterAssumption DEF RosterInv, TypeOK, IsRoster, Members, RosterAssumption
<1>2. ~Restart /\ ~Down
  BY RosterAssumption DEF Restart, Down, RosterInv, TypeOK, RosterAssumption
<1>3. up /\ restarts = 0
  <2>1. CASE UNCHANGED vars
    BY <2>1 DEF vars, process
  <2>2. CASE Next
    BY <1>2, <2>2
    DEF Next, Inbox, Commands, process, Receive, ReplyOnly, AdmitChat, Join, Leave,
        Kick, RemoveUser, TogglePaused, TextOnly, Relabel, AddUser, Ban, Unban, Nick,
        UserMode, OnAnnounce, MarkMessage, Prune, Flush, Tick
  <2>3. QED
    BY <2>1, <2>2
<1>4. /\ \A g \in Members : Level(users[g], contact[g], words[g], misdated[g])
      /\ \A g \in Users \ Members : contact[g] = Never
      /\ inbox \in Members => contact[inbox] = 0
  BY <1>3 DEF SweepInv
<1>5. ASSUME UNCHANGED <<users, contact, words, misdated>>, inbox' \in {inbox, Nobody}
      PROVE  Goal
  BY <1>1, <1>4, <1>5 DEF Members
<1>6. ASSUME NEW h \in Users, Receive(h)
      PROVE  Goal
  <2>1. CASE h \in Members
    <3>1. /\ users' = [users EXCEPT ![h] = Touched(users[h])]
          /\ contact' = [contact EXCEPT ![h] = 0] /\ words' = words /\ misdated' = misdated /\ inbox' = h
      BY <1>6, <2>1 DEF Receive
    <3>2. Level(Touched(users[h]), 0, words[h], misdated[h])
      BY <1>1, <1>4, <2>1, LevelTouched
    <3>3. Members' = Members
      BY <3>1 DEF Members
    <3>4. ASSUME NEW g \in Members
          PROVE  Level(users'[g], contact'[g], words'[g], misdated'[g])
      <4>1. CASE g = h
        BY <1>1, <3>1, <3>2, <4>1 DEF Members
      <4>2. CASE g # h
        BY <1>1, <1>4, <3>1, <4>2 DEF Members
      <4>3. QED
        BY <4>1, <4>2
    <3>5. QED
      BY <1>1, <1>4, <2>1, <3>1, <3>3, <3>4
  <2>2. CASE h \notin Members
    <3>1. UNCHANGED <<users, contact, words, misdated>> /\ inbox' = h
      BY <1>6, <2>2 DEF Receive
    <3>2. QED
      BY <1>4, <2>2, <3>1 DEF Members
  <2>3. QED
    BY <2>1, <2>2
<1>7. ASSUME MarkMessage
      PROVE  Goal
  <2>1. CASE inbox \in Members
    <3>1. PICK h \in Members : h = inbox
      BY <2>1
    <3>2. /\ users' = [users EXCEPT ![h] = Marked(users[h])]
          /\ words' = [words EXCEPT ![h] = 0] /\ contact' = contact /\ misdated' = misdated /\ inbox' = Nobody
      BY <1>7, <3>1 DEF MarkMessage, Done
    <3>3. Level(Marked(users[h]), 0, 0, misdated[h]) /\ contact[h] = 0
      BY <1>1, <1>4, <3>1, LevelMarked
    <3>4. Members' = Members
      BY <3>2 DEF Members
    <3>5. ASSUME NEW g \in Members
          PROVE  Level(users'[g], contact'[g], words'[g], misdated'[g])
      <4>1. CASE g = h
        BY <1>1, <3>2, <3>3, <4>1 DEF Members
      <4>2. CASE g # h
        BY <1>1, <1>4, <3>2, <4>2 DEF Members
      <4>3. QED
        BY <4>1, <4>2
    <3>6. QED
      BY <1>1, <1>4, <3>2, <3>4, <3>5
  <2>2. CASE inbox \notin Members
    BY <1>5, <1>7, <2>2 DEF MarkMessage, Done
  <2>3. QED
    BY <2>1, <2>2
<1>8. ASSUME NEW h \in Users, NEW a \in Emissions, OnAnnounce(h, a)
      PROVE  Goal
  <2>1. PICK at \in Age, e \in Age : at = StampOf(a) /\ e = Clamp(a.ago)
    BY AnnounceAges
  <2> DEFINE c == IF e <= users[h].joined THEN Younger(contact[h], e) ELSE contact[h]
             n == IF a.ahead THEN 0 ELSE misdated[h]
  <2>2. /\ h \in Members /\ users' = [users EXCEPT ![h] = Announced(users[h], at)]
        /\ contact' = [contact EXCEPT ![h] = c] /\ misdated' = [misdated EXCEPT ![h] = n]
        /\ words' = words /\ inbox' = inbox
    BY <1>8, <2>1 DEF OnAnnounce, handler
  <2>3. Level(Announced(users[h], at), c, words[h], n)
    <3>1. \/ at = e /\ n = misdated[h]
          \/ at = 0 /\ n = 0
      BY <2>1, AnnounceAges
    <3>2. n \in Stamp /\ users[h] \in User /\ contact[h] \in Stamp
          /\ words[h] \in Stamp /\ misdated[h] \in Stamp
      BY <1>1, <2>2, Ages
    <3> HIDE DEF n
    <3>3. QED
      BY <1>4, <2>2, <3>1, <3>2, LevelAnnounced
  <2>4. Members' = Members
    BY <2>2 DEF Members
  <2>5. contact[h] = 0 => c = 0
    <3>1. 0 <= e /\ e \in Nat
      BY DEF Age
    <3>2. QED
      BY <3>1, Ages DEF Younger, Age
  <2> HIDE DEF c, n
  <2>6. ASSUME NEW g \in Members
        PROVE  Level(users'[g], contact'[g], words'[g], misdated'[g])
    <3>1. CASE g = h
      BY <1>1, <2>2, <2>3, <3>1 DEF Members
    <3>2. CASE g # h
      BY <1>1, <1>4, <2>2, <3>2 DEF Members
    <3>3. QED
      BY <3>1, <3>2
  <2>7. QED
    BY <1>1, <1>4, <2>2, <2>4, <2>5, <2>6
<1>9. ASSUME NEW h \in Users, Join(h)
      PROVE  Goal
  <2>1. /\ users' = With(users, h, Joiner) /\ contact' = [contact EXCEPT ![h] = 0]
        /\ words' = words /\ misdated' = misdated /\ inbox' = Nobody
    BY <1>9 DEF Join, Done
  <2>2. Level(Joiner, 0, words[h], misdated[h])
    BY <1>1, JoinerType, LevelNew, Ages
  <2>3. Members' = Members \cup {h}
    BY <2>1 DEF With, Members
  <2>4. ASSUME NEW g \in Members'
        PROVE  Level(users'[g], contact'[g], words'[g], misdated'[g])
    <3>1. CASE g = h
      BY <1>1, <2>1, <2>2, <3>1 DEF With
    <3>2. CASE g # h
      BY <1>1, <1>4, <2>1, <2>3, <3>2 DEF With, Members
    <3>3. QED
      BY <3>1, <3>2
  <2>5. QED
    BY <1>1, <1>4, <2>1, <2>3, <2>4
<1>10. ASSUME NEW h \in Users, NEW target \in Users, AddUser(h, target)
       PROVE  Goal
  <2>1. /\ users' = With(users, target, Invitee) /\ contact' = contact /\ misdated' = misdated
        /\ words' = words /\ misdated' = misdated /\ inbox' = Nobody /\ target \notin Members
    BY <1>10 DEF AddUser, MayAdd, Done, history
  <2>2. contact[target] = Never
    BY <1>4, <2>1
  <2>3. Level(Invitee, contact[target], words[target], misdated[target])
    BY <1>1, <2>2, JoinerType, LevelNew, Ages
  <2>4. Members' = Members \cup {target}
    BY <2>1 DEF With, Members
  <2>5. ASSUME NEW g \in Members'
        PROVE  Level(users'[g], contact'[g], words'[g], misdated'[g])
    <3>1. CASE g = target
      BY <1>1, <2>1, <2>3, <3>1 DEF With
    <3>2. CASE g # target
      BY <1>1, <1>4, <2>1, <2>4, <3>2 DEF With, Members
    <3>3. QED
      BY <3>1, <3>2
  <2>6. QED
    BY <1>1, <1>4, <2>1, <2>4, <2>5
<1>11. ASSUME NEW S, users' = Without(users, S), Unheard(S), inbox' \in {inbox, Nobody}
       PROVE  Goal
  <2>1. /\ Members' = Members \ S
        /\ \A g \in Members' : users'[g] = users[g]
    BY <1>11 DEF Without, Restrict, Members
  <2>2. /\ \A g \in Users : g \in S => contact'[g] = Never
        /\ \A g \in Users : g \notin S => contact'[g] = contact[g]
                                         /\ words'[g] = words[g]
                                         /\ misdated'[g] = misdated[g]
    BY <1>11 DEF Unheard
  <2>3. QED
    BY <1>1, <1>4, <1>11, <2>1, <2>2
<1>12. ASSUME NEW h \in Members, NEW v, users' = [users EXCEPT ![h] = v],
              v.joined = users[h].joined, v.announced = users[h].announced,
              v.spoke = users[h].spoke, v.command = users[h].command,
              v.invited = users[h].invited, UNCHANGED <<contact, words, misdated>>, inbox' = Nobody
       PROVE  Goal
  <2>1. Level(v, contact[h], words[h], misdated[h])
    BY <1>4, <1>12, LevelSame
  <2>2. Members' = Members
    BY <1>12 DEF Members
  <2>3. ASSUME NEW g \in Members
        PROVE  Level(users'[g], contact'[g], words'[g], misdated'[g])
    <3>1. CASE g = h
      BY <1>12, <2>1, <3>1 DEF Members
    <3>2. CASE g # h
      BY <1>4, <1>12, <3>2 DEF Members
    <3>3. QED
      BY <3>1, <3>2
  <2>4. QED
    BY <1>1, <1>4, <1>12, <2>2, <2>3
<1>13. ASSUME NEW h \in Users, TogglePaused(h)
       PROVE  Goal
  <2>1. /\ h \in Members /\ users' = [users EXCEPT ![h].paused = ~users[h].paused]
        /\ UNCHANGED <<contact, words, misdated>> /\ inbox' = Nobody
    BY <1>13 DEF TogglePaused, Done, history
  <2>2. PICK v : v = [users[h] EXCEPT !.paused = ~users[h].paused]
    OBVIOUS
  <2>3. /\ v.joined = users[h].joined /\ v.announced = users[h].announced
        /\ v.spoke = users[h].spoke /\ v.command = users[h].command
        /\ v.invited = users[h].invited
    BY <1>1, <2>1, <2>2 DEF User
  <2>4. users' = [users EXCEPT ![h] = v]
    BY <2>1, <2>2
  <2>5. QED
    BY <1>12, <2>1, <2>3, <2>4
<1>14. ASSUME NEW h \in Users, NEW target \in Users, NEW role, UserMode(h, target, role)
       PROVE  Goal
  <2>1. /\ target \in Members /\ users' = [users EXCEPT ![target].role = role]
        /\ UNCHANGED <<contact, words, misdated>> /\ inbox' = Nobody
    BY <1>14 DEF UserMode, Done, history
  <2>2. PICK v : v = [users[target] EXCEPT !.role = role]
    OBVIOUS
  <2>3. /\ v.joined = users[target].joined /\ v.announced = users[target].announced
        /\ v.spoke = users[target].spoke /\ v.command = users[target].command
        /\ v.invited = users[target].invited
    BY <1>1, <2>1, <2>2 DEF User
  <2>4. users' = [users EXCEPT ![target] = v]
    BY <2>1, <2>2
  <2>5. QED
    BY <1>12, <2>1, <2>3, <2>4
<1>15. ASSUME Tick
       PROVE  Goal
  <2>1. /\ users' = Aged(users) /\ inbox' = Nobody
        /\ contact' = [h \in Users |-> Older(contact[h])]
        /\ words' = [h \in Users |-> Older(words[h])]
        /\ misdated' = [h \in Users |-> Older(misdated[h])]
    BY <1>15 DEF Tick, handler
  <2>2. /\ Members' = Members /\ IsRoster(users')
        /\ \A h \in Members :
              /\ users'[h].joined = Older(users[h].joined)
              /\ users'[h].announced = Older(users[h].announced)
              /\ users'[h].spoke = Older(users[h].spoke)
              /\ users'[h].command = Older(users[h].command)
              /\ users'[h].invited = users[h].invited
    BY <1>1, <2>1, RosterAged DEF Members
  <2>3. ASSUME NEW g \in Members
        PROVE  Level(users'[g], contact'[g], words'[g], misdated'[g])
    <3>1. users'[g] \in User /\ users[g] \in User /\ contact[g] \in Stamp /\ words[g] \in Stamp
          /\ misdated[g] \in Stamp
      BY <1>1, <2>2 DEF IsRoster, Members
    <3>2. Level(users'[g], Older(contact[g]), Older(words[g]), Older(misdated[g]))
      BY <1>4, <2>2, <3>1, LevelAged
    <3>3. contact'[g] = Older(contact[g]) /\ words'[g] = Older(words[g])
          /\ misdated'[g] = Older(misdated[g])
      BY <1>1, <2>1
    <3>4. QED
      BY <3>2, <3>3
  <2>4. Older(Never) = Never
    BY OlderStamp, Ages
  <2>5. QED
    BY <1>1, <1>4, <2>1, <2>2, <2>3, <2>4
<1>16. ASSUME Prune
       PROVE  Goal
  <2>1. users' = Without(users, Sweep) /\ Unheard(Sweep) /\ inbox' = inbox
    BY <1>16 DEF Prune, handler
  <2>2. QED
    BY <1>11, <2>1
<1>17. ASSUME Flush
       PROVE  Goal
  BY <1>5, <1>17 DEF Flush, handler, history
<1>18. ASSUME NEW h \in Users, Commands(h)
       PROVE  Goal
  <2>1. ASSUME NEW target \in Users, RemoveUser(target) \/ Ban(h, target)
        PROVE  Goal
    <3>1. users' = Without(users, {target}) /\ Unheard({target}) /\ inbox' = Nobody
      BY <2>1 DEF RemoveUser, Ban, Done
    <3>2. QED
      BY <1>11, <3>1
  <2>2. ASSUME NEW target \in Users, Unban(h, target) \/ Relabel(target)
        PROVE  Goal
    BY <1>5, <2>2 DEF Unban, Relabel, Done, history
  <2> HIDE DEF Goal
  <2>3. QED
    BY <1>9, <1>10, <1>13, <1>14, <1>18, <2>1, <2>2
    DEF Commands, Leave, Kick, TextOnly, Nick
<1>19. ASSUME NEW h \in Users, ReplyOnly(h) \/ AdmitChat(h)
       PROVE  Goal
  BY <1>5, <1>19 DEF ReplyOnly, AdmitChat, Done, history
<1>20. ASSUME UNCHANGED vars
       PROVE  Goal
  BY <1>5, <1>20 DEF vars, handler, history
<1>21. Goal
  <2> HIDE DEF Goal
  <2>1. QED
    BY <1>2, <1>6, <1>7, <1>8, <1>15, <1>16, <1>17, <1>18, <1>19, <1>20
    DEF Next, Inbox
<1>22. QED
  BY <1>21

\* A process that is down has nobody in memory.
LEMMA DownStep ==
  ASSUME ~up => Members = {}, [Next]_vars, ~up'
  PROVE  Members' = {}
<1>1. CASE Down
  BY <1>1 DEF Down, Members
<1>2. CASE Tick
  BY <1>2 DEF Tick, Aged, Members
<1>3. CASE UNCHANGED vars
  BY <1>3 DEF vars, process, Members
<1>4. QED
  BY <1>1, <1>2, <1>3
  DEF Next, Inbox, Commands, process, Receive, ReplyOnly, AdmitChat, Join, Leave,
      Kick, Handling, RemoveUser, TogglePaused, TextOnly, Relabel, AddUser, Ban, Unban,
      Nick, UserMode, OnAnnounce, MarkMessage, Prune, Flush, Restart

\* The prune rule against what really happened (Prune, LastSeen and LastSpoke,
\* roster.go; OnAnnounce, service.go): before a restart it takes only members
\* that are absent or silent, and of those it has heard from it leaves none that
\* is silent, and none that is absent unless an announce of theirs, signed ahead
\* of the clock, has arrived within prune_after.
THEOREM SweepIsExact == Spec => []SweepExact
<1>1. Init => SweepInv /\ (~up => Members = {})
  <2> SUFFICES ASSUME Init PROVE SweepInv
    BY DEF Init
  <2>1. /\ Members = ConfigRoles /\ \A h \in Members : users[h] = Invitee
        /\ contact = [h \in Users |-> Never] /\ words = [h \in Users |-> Never]
        /\ misdated = [h \in Users |-> Never] /\ inbox = Nobody
    BY DEF Init, Members
  <2>2. ConfigRoles \subseteq Users /\ Nobody \notin Users
    BY RosterAssumption DEF RosterAssumption, ConfigRoles
  <2>3. Level(Invitee, Never, Never, Never)
    BY JoinerType, LevelNew, Ages
  <2>4. QED
    BY <2>1, <2>2, <2>3 DEF SweepInv
<1>2. RosterInv /\ SweepInv /\ [Next]_vars => SweepInv'
  BY SweepStep DEF SweepInv
<1>3. (~up => Members = {}) /\ [Next]_vars => (~up => Members = {})'
  BY DownStep
<1>4. RosterInv /\ SweepInv /\ (~up => Members = {}) => SweepExact
  <2> SUFFICES ASSUME RosterInv, SweepInv, ~up => Members = {}, restarts = 0,
                      NEW h \in Members
               PROVE  /\ h \in Sweep => Absent(h) \/ Silent(h)
                      /\ h \notin Sweep /\ HeardFrom(h) =>
                            /\ ~Silent(h)
                            /\ Absent(h) => misdated[h] <= IdleCutoff
    BY DEF SweepExact, Sweep
  <2>1. up
    OBVIOUS
  <2>2. Level(users[h], contact[h], words[h], misdated[h])
    BY <2>1 DEF SweepInv
  <2>3. /\ users[h] \in User /\ users[h].joined \in Nat
        /\ contact[h] \in Nat /\ misdated[h] \in Nat /\ IdleCutoff \in Nat
    BY UserFields, Ages, RosterAssumption
    DEF RosterInv, TypeOK, IsRoster, Members, Age, Stamp, RosterAssumption
  <2>4. LastSeen(users[h]) = Younger(Since(h, contact[h]), misdated[h])
        /\ Since(h, contact[h]) \in Nat
    BY <2>2, <2>3 DEF Level, Since, Younger
  <2>5. /\ LastSeen(users[h]) > IdleCutoff => Absent(h)
        /\ Absent(h) /\ ~(misdated[h] <= IdleCutoff) => LastSeen(users[h]) > IdleCutoff
    BY <2>3, <2>4 DEF Absent, Younger
  <2>6. LastSpoke(users[h]) = Since(h, words[h])
    BY <2>2 DEF Level, Since
  <2>7. users[h].invited => ~HeardFrom(h)
    BY <2>2 DEF Level, HeardFrom
  <2>8. QED
    BY <2>5, <2>6, <2>7 DEF Sweep, Inactive, Silent
<1>5. QED
  BY <1>1, <1>2, <1>3, <1>4, RosterInvariant, PTL DEF Spec
=============================================================================
