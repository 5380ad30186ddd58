----------------------------- MODULE GroupInfo -----------------------------
(***************************************************************************)
(* The group's description and pinned messages (internal/groupinfo) and    *)
(* the commands that change them (internal/commands/info.go).  Both are    *)
(* kept in one file that is written at every change, and that an operator  *)
(* may edit while the service is down.                                     *)
(*                                                                         *)
(* The pins are their number.  A description is its length in bytes, 0 for *)
(* none: what matters of it is whether the reply to /info fits one packet, *)
(* together with the display name and the line that is added for members   *)
(* or for strangers.                                                       *)
(*                                                                         *)
(* Every operation is one critical section of the store's mutex.  Catchup  *)
(* has the callers.                                                        *)
(***************************************************************************)
EXTENDS Integers

CONSTANTS
    Lengths,        \* the lengths of the descriptions admins try to set
    Names,          \* the lengths of the display names an operator may choose
    Edited,         \* the files an operator may leave behind: [info, pins]
    MaxPins,        \* MaxPins
    MaxInfoBytes,   \* MaxInfoBytes
    Budget,         \* singlePacketReplyBytes
    StrangerTail,   \* the length of the join hint, or of the invitation hint
    MemberTail      \* the length of the line about pins, without the number

VARIABLES
    info,           \* Store.info
    pins,           \* how many are in Store.pins
    file,           \* groupinfo.json
    displayName,    \* Cfg.Service.DisplayName
    sized           \* history: info was accepted under this display name

vars == <<info, pins, file, displayName, sized>>

-----------------------------------------------------------------------------

\* A definition whose name starts with Bad is a plausible mistake in the
\* definition below it; no action uses it.

\* renderInfo: the length of the reply to a member, or to a stranger, when a
\* description is set.
InfoReply(member, i, n) ==
    displayName + 1 + i +
    (CASE ~member           -> StrangerTail
       [] member /\ n = 0   -> 0
       [] member /\ n > 0   -> MemberTail + (IF n < 10 THEN 1 ELSE 2))

\* Only the member's reply is sized.
BadInfoOverflow(i) == InfoReply(TRUE, i, MaxPins) - Budget

\* InfoOverflow: by how much the longer reply misses the packet.
InfoOverflow(i) ==
    LET stranger == InfoReply(FALSE, i, MaxPins)
        member   == InfoReply(TRUE, i, MaxPins)
    IN  (IF member > stranger THEN member ELSE stranger) - Budget

\* TruncateText, for characters of one byte.
Truncated(i) == IF i > MaxInfoBytes THEN MaxInfoBytes ELSE i

\* The list is taken as it is.
BadFirst(n) == n

\* How many pins load keeps of a list of n.
First(n) == IF n > MaxPins THEN MaxPins ELSE n

-----------------------------------------------------------------------------

\* There is no file yet, or one that an operator has written.
Init ==
    /\ file \in Edited \cup {[info |-> 0, pins |-> 0]}
    /\ info = Truncated(file.info)
    /\ pins = First(file.pins)
    /\ displayName \in Names
    /\ sized = FALSE

\* persistLocked.  A write may fail, and then the change is in memory only.
Persist(written) ==
    file' = IF written THEN [info |-> info', pins |-> pins'] ELSE file

\* /setinfo, with nothing or with text that fits.
SetInfo(i, written) ==
    /\ i > 0 => i <= MaxInfoBytes /\ InfoOverflow(i) <= 0
    /\ i = 0 => info # 0
    /\ info' = Truncated(i)
    /\ sized' = TRUE
    /\ UNCHANGED <<pins, displayName>>
    /\ Persist(written)

\* /pin, which appends, unless the list is full.
AddPin(written) ==
    /\ pins < MaxPins
    /\ pins' = pins + 1
    /\ UNCHANGED <<info, displayName, sized>>
    /\ Persist(written)

\* /unpin, with a number in range.
RemovePin(n, written) ==
    /\ n \in 1 .. pins
    /\ pins' = pins - 1
    /\ UNCHANGED <<info, displayName, sized>>
    /\ Persist(written)

\* The service is started, with the file it left or with an edited one.
Load ==
    /\ file' \in Edited \cup {file}
    /\ info' = Truncated(file'.info)
    /\ pins' = First(file'.pins)
    /\ displayName' \in Names
    /\ sized' = FALSE

-----------------------------------------------------------------------------

\* The state has its type; in particular the limits on the list and on the
\* description hold after every command and for every file that is loaded
\* (groupinfo.go:95-123).
TypeOK ==
    /\ info \in 0 .. MaxInfoBytes
    /\ pins \in 0 .. MaxPins
    /\ file \in [info : Nat, pins : Nat]
    /\ displayName \in Names
    /\ sized \in BOOLEAN

\* The reply to /info fits one packet, whoever asks and however many pins
\* there are by then, when /setinfo accepted the description under the display
\* name in force (info.go:98-119).
InfoFits ==
    sized /\ info > 0 =>
        \A member \in BOOLEAN : InfoReply(member, info, pins) <= Budget

=============================================================================
