--------------------------- MODULE CatchupProofs ---------------------------
(***************************************************************************)
(* Theorems about Catchup, and with it about GroupInfo: for every set of   *)
(* users, every cooldown, every cap of the queue and of the log, and every *)
(* file an operator may leave behind.                                      *)
(***************************************************************************)
EXTENDS Catchup, FiniteSetTheorems, SequenceTheorems, TLAPS

-----------------------------------------------------------------------------
(* The inductive invariant, one part for each component.                     *)

\* A description that /setinfo accepted fits with the longest list of pins.
InfoInv ==
    /\ Info!TypeOK
    /\ sized /\ info > 0 => Info!InfoOverflow(info) <= 0

Job == [to : Users, at : Nat, pc : {"start", "limit", "read", "send", "done"},
        pinned : BOOLEAN, todo : Nat]

\* The inbox, the clock and the log.
InboxInv ==
    /\ now \in Nat /\ members \subseteq Users /\ replyTo \in Everyone \cup {Nil}
    /\ log \in Seq(Nat) /\ Len(log) <= LogCap

\* A goroutine carries a time that is not in the future.
JobInv == jobs \in Seq(Job) /\ \A j \in DOMAIN jobs : jobs[j].at <= now

\* The limiter remembers when the last catch-up began, and forgets it only
\* when the cooldown has passed.
LimitInv ==
    /\ DOMAIN served \subseteq Users /\ DOMAIN last \subseteq DOMAIN served
    /\ \A u \in DOMAIN served :
          /\ served[u] \in 0 .. now
          /\ u \in DOMAIN last => last[u] = served[u]
          /\ u \notin DOMAIN last => now - served[u] > Cooldown

CallRecord == [to : Everyone, kind : {"welcome", "reply", "replay", "pins"},
               job : Nat]

\* The queue has what the calls asked for.
QueueInv ==
    /\ status \in [Queue!Ids -> Queue!Status]
    /\ calls \in Seq(CallRecord)
    /\ DOMAIN calls = {i \in Queue!Ids : status[i] # "none"}
    /\ \A i \in Queue!Queued :
          /\ i \in DOMAIN copies
          /\ copies[i].rcpt = calls[i].to
          /\ calls[i].kind = "pins" => copies[i].after

\* Pins are the last thing a goroutine enqueues.
PinsInv ==
    \A i \in DOMAIN calls :
        calls[i].kind = "pins" =>
            calls[i].job \in DOMAIN jobs /\ jobs[calls[i].job].pc = "done"

Inv == InfoInv /\ InboxInv /\ JobInv /\ LimitInv /\ QueueInv /\ PinsInv

-----------------------------------------------------------------------------
(* The description and the pins.                                             *)

LEMMA FirstPins ==
  ASSUME NEW n \in Nat
  PROVE  Info!First(n) \in 0 .. MaxPins /\ Info!Truncated(n) \in 0 .. MaxInfoBytes
  BY CatchupAssumption DEF CatchupAssumption, Info!First, Info!Truncated

\* What the lines about the pins and about joining add to the reply.
LEMMA ReplyLength ==
  ASSUME NEW i \in Nat, NEW k \in Nat, displayName \in Nat
  PROVE  /\ Info!InfoReply(FALSE, i, k) = displayName + 1 + i + StrangerTail
         /\ k = 0 => Info!InfoReply(TRUE, i, k) = displayName + 1 + i
         /\ k > 0 /\ k < 10 =>
              Info!InfoReply(TRUE, i, k) = displayName + 1 + i + MemberTail + 1
         /\ k >= 10 =>
              Info!InfoReply(TRUE, i, k) = displayName + 1 + i + MemberTail + 2
<1>1. StrangerTail \in Nat /\ MemberTail \in Nat
  BY LengthsAssumption DEF LengthsAssumption
<1>2. Info!InfoReply(FALSE, i, k) = displayName + 1 + i + StrangerTail
  BY <1>1 DEF Info!InfoReply
<1>3. ASSUME k = 0
      PROVE  Info!InfoReply(TRUE, i, k) = displayName + 1 + i
  BY <1>1, <1>3 DEF Info!InfoReply
<1>4. ASSUME k > 0, k < 10
      PROVE  Info!InfoReply(TRUE, i, k) = displayName + 1 + i + MemberTail + 1
  BY <1>1, <1>4 DEF Info!InfoReply
<1>5. ASSUME k >= 10
      PROVE  Info!InfoReply(TRUE, i, k) = displayName + 1 + i + MemberTail + 2
  BY <1>1, <1>5 DEF Info!InfoReply
<1>6. QED
  BY <1>2, <1>3, <1>4, <1>5

\* The reply with the pins there are is no longer than the one /setinfo sized.
LEMMA ReplyFits ==
  ASSUME NEW i \in Nat, NEW n \in 0 .. MaxPins, displayName \in Nat,
         Info!InfoOverflow(i) <= 0, NEW member \in BOOLEAN
  PROVE  Info!InfoReply(member, i, n) <= Budget
<1>1. /\ MaxPins \in Nat /\ n \in Nat /\ n <= MaxPins
      /\ Budget \in Nat /\ StrangerTail \in Nat /\ MemberTail \in Nat
  BY CatchupAssumption, LengthsAssumption DEF CatchupAssumption, LengthsAssumption
<1> DEFINE base == displayName + 1 + i
           S1 == Info!InfoReply(FALSE, i, MaxPins)
           M1 == Info!InfoReply(TRUE, i, MaxPins)
           S0 == Info!InfoReply(FALSE, i, n)
           M0 == Info!InfoReply(TRUE, i, n)
<1>2. base \in Nat
  OBVIOUS
<1>3. /\ S1 = base + StrangerTail
      /\ MaxPins = 0 => M1 = base
      /\ MaxPins > 0 /\ MaxPins < 10 => M1 = base + MemberTail + 1
      /\ MaxPins >= 10 => M1 = base + MemberTail + 2
  BY <1>1, ReplyLength
<1>4. /\ S0 = base + StrangerTail
      /\ n = 0 => M0 = base
      /\ n > 0 /\ n < 10 => M0 = base + MemberTail + 1
      /\ n >= 10 => M0 = base + MemberTail + 2
  BY <1>1, ReplyLength
<1>5. (IF M1 > S1 THEN M1 ELSE S1) - Budget <= 0
  BY DEF Info!InfoOverflow
<1> HIDE DEF base, S1, M1, S0, M0
<1>6. /\ S0 = S1 /\ S1 \in Int /\ M0 \in Int /\ M1 \in Int
      /\ M0 <= M1
  BY <1>1, <1>2, <1>3, <1>4
<1>7. M0 <= Budget /\ S0 <= Budget
  BY <1>1, <1>5, <1>6
<1>8. CASE member = TRUE
  BY <1>7, <1>8 DEF M0
<1>9. CASE member = FALSE
  BY <1>7, <1>9 DEF S0
<1>10. QED
  BY <1>8, <1>9

\* Every operation of the store keeps its part.
LEMMA SetInfoKeeps ==
  ASSUME InfoInv, NEW i \in Lengths, NEW written \in BOOLEAN, Info!SetInfo(i, written)
  PROVE  InfoInv'
<1>1. /\ i \in Nat /\ MaxInfoBytes \in Nat
      /\ i > 0 => i <= MaxInfoBytes /\ Info!InfoOverflow(i) <= 0
      /\ info' = Info!Truncated(i) /\ sized' = TRUE
      /\ pins' = pins /\ displayName' = displayName
      /\ file' = IF written THEN [info |-> info', pins |-> pins'] ELSE file
  BY CatchupAssumption, LengthsAssumption
  DEF CatchupAssumption, LengthsAssumption, Info!SetInfo, Info!Persist
<1>2. info' \in 0 .. MaxInfoBytes /\ info' = i
  BY <1>1, FirstPins DEF Info!Truncated
<1>3. pins' \in 0 .. MaxPins
  BY <1>1 DEF InfoInv, Info!TypeOK
<1>4. file' \in [info : Nat, pins : Nat]
  BY <1>1, <1>2, <1>3 DEF InfoInv, Info!TypeOK
<1>5. Info!TypeOK'
  BY <1>1, <1>2, <1>3, <1>4 DEF InfoInv, Info!TypeOK
<1>6. info' > 0 => Info!InfoOverflow(info)' <= 0
  BY <1>1, <1>2 DEF Info!InfoOverflow, Info!InfoReply
<1>7. QED
  BY <1>5, <1>6 DEF InfoInv

LEMMA PinKeeps ==
  ASSUME InfoInv, NEW written \in BOOLEAN,
         \/ Info!AddPin(written)
         \/ \E n \in 1 .. pins : Info!RemovePin(n, written)
  PROVE  InfoInv'
<1>1. /\ pins' \in 0 .. MaxPins
      /\ UNCHANGED <<info, displayName, sized>>
      /\ file' = IF written THEN [info |-> info', pins |-> pins'] ELSE file
  BY CatchupAssumption
  DEF CatchupAssumption, InfoInv, Info!TypeOK, Info!AddPin, Info!RemovePin, Info!Persist
<1>2. file' \in [info : Nat, pins : Nat]
  BY <1>1 DEF InfoInv, Info!TypeOK
<1>3. Info!TypeOK'
  BY <1>1, <1>2 DEF InfoInv, Info!TypeOK
<1>4. Info!InfoOverflow(info)' = Info!InfoOverflow(info)
  BY <1>1 DEF Info!InfoOverflow, Info!InfoReply
<1>5. QED
  BY <1>1, <1>3, <1>4 DEF InfoInv

\* What is loaded was not sized under the display name in force.
LEMMA LoadKeeps ==
  ASSUME InfoInv, Info!Load
  PROVE  InfoInv'
<1>1. file' \in [info : Nat, pins : Nat]
  BY LengthsAssumption DEF LengthsAssumption, InfoInv, Info!TypeOK, Info!Load
<1>2. file'.info \in Nat /\ file'.pins \in Nat
  BY <1>1
<1>3. info' \in 0 .. MaxInfoBytes /\ pins' \in 0 .. MaxPins
  BY <1>2, FirstPins DEF Info!Load
<1>4. QED
  BY <1>1, <1>3 DEF InfoInv, Info!TypeOK, Info!Load

LEMMA GroupStays ==
  ASSUME InfoInv, UNCHANGED group
  PROVE  InfoInv'
<1>1. Info!InfoOverflow(info)' = Info!InfoOverflow(info)
  BY DEF group, Info!InfoOverflow, Info!InfoReply
<1>2. QED
  BY <1>1 DEF InfoInv, Info!TypeOK, group

LEMMA InfoInit ==
  ASSUME Info!Init
  PROVE  InfoInv
<1>1. file \in [info : Nat, pins : Nat]
  BY LengthsAssumption DEF LengthsAssumption, Info!Init
<1>2. file.info \in Nat /\ file.pins \in Nat
  BY <1>1
<1>3. info \in 0 .. MaxInfoBytes /\ pins \in 0 .. MaxPins
  BY <1>2, FirstPins DEF Info!Init
<1>4. QED
  BY <1>1, <1>3 DEF InfoInv, Info!TypeOK, Info!Init

\* What the invariant is for.
LEMMA FitsFollows ==
  ASSUME InfoInv
  PROVE  InfoFits
<1>1. SUFFICES ASSUME sized, info > 0, NEW member \in BOOLEAN
               PROVE  Info!InfoReply(member, info, pins) <= Budget
  BY DEF InfoFits, Info!InfoFits
<1>2. /\ info \in Nat /\ pins \in 0 .. MaxPins /\ displayName \in Nat
      /\ Info!InfoOverflow(info) <= 0
  BY <1>1, CatchupAssumption, LengthsAssumption
  DEF CatchupAssumption, LengthsAssumption, InfoInv, Info!TypeOK
<1>3. QED
  BY <1>2, ReplyFits

-----------------------------------------------------------------------------
(* The queue.                                                                *)

LEMMA QueueCount == \A S : Queue!Cardinality(S) = Cardinality(S)
  BY DEF Queue!Cardinality, Cardinality

\* A call gets the number of its place in the sequence of calls.
LEMMA CallNumber ==
  ASSUME QueueInv
  PROVE  Queue!Number = Len(calls) + 1 /\ Len(calls) \in Nat
<1>1. calls \in Seq(CallRecord)
  BY DEF QueueInv
<1>2. Len(calls) \in Nat /\ DOMAIN calls = 1 .. Len(calls)
  BY <1>1, LenProperties
<1>3. Cardinality(1 .. Len(calls)) = IF 1 > Len(calls) THEN 0 ELSE Len(calls) - 1 + 1
  BY <1>2, FS_Interval
<1>4. Cardinality(DOMAIN calls) = Len(calls)
  BY <1>2, <1>3
<1>5. QED
  BY <1>2, <1>4, QueueCount DEF QueueInv, Queue!Number

\* A call is appended to the calls there were.
LEMMA CallAppends ==
  ASSUME QueueInv, NEW to \in Everyone, NEW after \in BOOLEAN,
         NEW kind \in {"welcome", "reply", "replay", "pins"}, NEW job \in Nat,
         Call(to, after, kind, job)
  PROVE  /\ Len(calls) + 1 \in Nat /\ Len(calls) + 1 \in Queue!Ids
         /\ Queue!Number = Len(calls) + 1
         /\ calls' \in Seq(CallRecord)
         /\ DOMAIN calls' = DOMAIN calls \cup {Len(calls) + 1}
         /\ Len(calls) + 1 \notin DOMAIN calls
         /\ calls'[Len(calls) + 1] = [to |-> to, kind |-> kind, job |-> job]
         /\ \A k \in DOMAIN calls : calls'[k] = calls[k]
<1> DEFINE n == Len(calls) + 1
           c == [to |-> to, kind |-> kind, job |-> job]
<1>1. Queue!Number = n /\ Len(calls) \in Nat /\ n \in Nat
  BY CallNumber
<1>2. n \in Queue!Ids /\ calls' = Append(calls, c)
  BY <1>1 DEF Call, Queue!Accept, Queue!Refuse
<1>3. c \in CallRecord
  BY DEF CallRecord
<1>4. calls \in Seq(CallRecord)
  BY DEF QueueInv
<1>5. DOMAIN calls = 1 .. Len(calls)
  BY <1>4, LenProperties
<1>6. /\ calls' \in Seq(CallRecord) /\ Len(calls') = n /\ calls'[n] = c
      /\ \A k \in 1 .. Len(calls) : calls'[k] = calls[k]
  BY <1>2, <1>3, <1>4, AppendProperties
<1>7. DOMAIN calls' = 1 .. n
  BY <1>6, LenProperties
<1>8. QED
  BY <1>1, <1>2, <1>5, <1>6, <1>7

\* It is queued as it was asked for, or dropped.
LEMMA CallKeeps ==
  ASSUME QueueInv, NEW to \in Everyone, NEW after \in BOOLEAN,
         NEW kind \in {"welcome", "reply", "replay", "pins"}, NEW job \in Nat,
         kind = "pins" => after,
         Call(to, after, kind, job)
  PROVE  QueueInv'
<1> DEFINE n == Len(calls) + 1
           c == [to |-> to, kind |-> kind, job |-> job]
<1>1. Queue!Number = n /\ n \in Nat
  BY CallAppends
<1>2. n \in Queue!Ids
  BY CallAppends
<1>3. /\ calls' \in Seq(CallRecord) /\ DOMAIN calls' = DOMAIN calls \cup {n}
      /\ n \notin DOMAIN calls /\ calls'[n] = c
  <2>1. calls' \in Seq(CallRecord)
    BY CallAppends
  <2>2. DOMAIN calls' = DOMAIN calls \cup {n} /\ n \notin DOMAIN calls
    BY CallAppends
  <2>3. calls'[n] = c
    BY CallAppends
  <2>4. QED
    BY <2>1, <2>2, <2>3
<1>4. \A k \in DOMAIN calls : calls'[k] = calls[k]
  BY CallAppends
<1>5. /\ status' \in [Queue!Ids -> Queue!Status]
      /\ status'[n] \in {"queued", "dropped"}
      /\ \A k \in Queue!Ids : k # n => status'[k] = status[k]
  <2>1. \/ status' = [status EXCEPT ![n] = "queued"]
        \/ status' = [status EXCEPT ![n] = "dropped"]
    BY <1>1 DEF Call, Queue!Accept, Queue!Refuse
  <2>2. QED
    BY <1>2, <2>1 DEF QueueInv, Queue!Status
<1>6. DOMAIN calls' = {k \in Queue!Ids : status'[k] # "none"}
  BY <1>2, <1>3, <1>4, <1>5 DEF QueueInv
<1>7. \A k \in Queue!Queued' : k \in DOMAIN calls'
  BY <1>6 DEF Queue!Queued, Queue!Ids
<1>8. ASSUME NEW k \in Queue!Queued', k # n
      PROVE  /\ k \in Queue!Queued /\ k \in DOMAIN calls
             /\ k \in DOMAIN copies' /\ copies'[k] = copies[k]
  <2>1. k \in Queue!Queued /\ k \in DOMAIN calls
    BY <1>3, <1>4, <1>5, <1>7, <1>8 DEF Queue!Queued, Queue!Ids
  <2>2. k \in DOMAIN copies
    BY <2>1 DEF QueueInv
  <2>3. \/ copies' = [i \in DOMAIN copies \cup {n} |->
                        IF i = n THEN [rcpt |-> to, after |-> after] ELSE copies[i]]
        \/ copies' = copies
    BY <1>1 DEF Call, Queue!Accept, Queue!Refuse
  <2>4. QED
    BY <1>8, <2>1, <2>2, <2>3
<1>9. ASSUME n \in Queue!Queued'
      PROVE  n \in DOMAIN copies' /\ copies'[n] = [rcpt |-> to, after |-> after]
  <2>1. status'[n] = "queued"
    BY <1>9 DEF Queue!Queued
  <2>2. ~ Queue!Refuse
    BY <1>1, <1>2, <2>1 DEF Queue!Refuse, QueueInv
  <2>3. QED
    BY <1>1, <2>2 DEF Call, Queue!Accept
<1> HIDE DEF n
<1>10. ASSUME NEW k \in Queue!Queued'
       PROVE  /\ k \in DOMAIN copies'
              /\ copies'[k].rcpt = calls'[k].to
              /\ calls'[k].kind = "pins" => copies'[k].after
  <2>1. CASE k = n
    BY <1>3, <1>4, <1>9, <2>1
  <2>2. CASE k # n
    BY <1>3, <1>4, <1>8, <2>2 DEF QueueInv
  <2>3. QED
    BY <2>1, <2>2
<1>11. QED
  BY <1>3, <1>4, <1>5, <1>6, <1>10 DEF QueueInv, CallRecord

\* Messages leave the queue; what stays is as it was.
LEMMA LeavingKeeps ==
  ASSUME QueueInv, NEW S, UNCHANGED calls,
         status' \in [Queue!Ids -> Queue!Status],
         \A k \in Queue!Ids : status'[k] = "none" <=> status[k] = "none",
         Queue!Queued' \subseteq S, Queue!Queued' \subseteq Queue!Queued,
         copies' = Restrict(copies, S)
  PROVE  QueueInv'
<1>1. DOMAIN calls' = {k \in Queue!Ids : status'[k] # "none"}
  BY DEF QueueInv
<1>2. ASSUME NEW k \in Queue!Queued'
      PROVE  k \in DOMAIN copies' /\ copies'[k] = copies[k] /\ k \in Queue!Queued
  BY <1>2 DEF QueueInv, Restrict
<1>3. \A k \in Queue!Queued' :
          /\ k \in DOMAIN copies'
          /\ copies'[k].rcpt = calls'[k].to
          /\ calls'[k].kind = "pins" => copies'[k].after
  BY <1>2 DEF QueueInv
<1>4. QED
  BY <1>1, <1>3 DEF QueueInv

LEMMA DeliverKeeps ==
  ASSUME QueueInv, Deliver
  PROVE  QueueInv'
<1>1. PICK i \in Queue!Queued :
        /\ copies' = Without(copies, {i})
        /\ Queue!Send(i, "delivered")
  BY DEF Deliver
<1>2. calls' = calls /\ status' = [status EXCEPT ![i] = "delivered"]
  BY <1>1 DEF Deliver, Queue!Send
<1>3. i \in Queue!Ids /\ status[i] = "queued"
  BY DEF Queue!Queued
<1>4. status' \in [Queue!Ids -> Queue!Status]
  BY <1>2, <1>3 DEF QueueInv, Queue!Status, Queue!Over, Queue!Sent
<1>5. \A k \in Queue!Ids : status'[k] = "none" <=> status[k] = "none"
  BY <1>2, <1>3 DEF QueueInv
<1>6. Queue!Queued' = Queue!Queued \ {i}
  BY <1>2, <1>3 DEF QueueInv, Queue!Queued, Queue!Ids
<1>7. Queue!Queued' \subseteq DOMAIN copies \ {i}
  BY <1>6 DEF QueueInv
<1>8. copies' = Restrict(copies, DOMAIN copies \ {i})
  BY <1>1 DEF Without
<1>9. QED
  BY <1>2, <1>4, <1>5, <1>6, <1>7, <1>8, LeavingKeeps

LEMMA KillKeeps ==
  ASSUME QueueInv, NEW S \in SUBSET Queue!Queued, UNCHANGED calls,
         copies' = Restrict(copies, S), Queue!Kill(S)
  PROVE  QueueInv'
<1>1. status' = [i \in Queue!Ids |->
                   IF i \in S THEN "queued"
                   ELSE IF i \in Queue!Queued THEN "lost" ELSE status[i]]
  BY DEF Queue!Kill
<1>2. status' \in [Queue!Ids -> Queue!Status]
  BY <1>1 DEF QueueInv, Queue!Status
<1>3. \A k \in Queue!Ids : status'[k] = "none" <=> status[k] = "none"
  BY <1>1 DEF Queue!Queued
<1>4. Queue!Queued' = S
  BY <1>1 DEF Queue!Queued, Queue!Ids
<1>5. QED
  BY <1>2, <1>3, <1>4, LeavingKeeps

LEMMA QueueStays ==
  ASSUME QueueInv, UNCHANGED <<status, copies, calls>>
  PROVE  QueueInv'
  BY DEF QueueInv, Queue!Queued

LEMMA QueueInit ==
  ASSUME Queue!Init, calls = << >>
  PROVE  QueueInv
  BY DEF QueueInv, Queue!Init, Queue!Queued, Queue!Status

-----------------------------------------------------------------------------
(* The steps of the goroutines.                                              *)

LEMMA JobOf ==
  ASSUME JobInv, NEW j \in DOMAIN jobs
  PROVE  jobs[j] \in Job /\ j \in Nat
<1>1. jobs \in Seq(Job) /\ j \in 1 .. Len(jobs)
  BY LenProperties DEF JobInv
<1>2. QED
  BY <1>1, ElementOfSeq

\* A goroutine that is over stays over.
LEMMA OverIsJob ==
  ASSUME NEW r \in Job
  PROVE  Over(r) \in Job /\ Over(r).pc = "done" /\ Over(r).at = 0 /\ Over(r).to = r.to
  BY DEF Over, Job

OverStays ==
    DOMAIN jobs \subseteq DOMAIN jobs'
    /\ \A k \in DOMAIN jobs : jobs[k].pc = "done" => jobs'[k].pc = "done"

LEMMA JobChange ==
  ASSUME InboxInv, JobInv, NEW j \in DOMAIN jobs, NEW r \in Job, r.at <= now,
         jobs[j].pc = "done" => r.pc = "done",
         jobs' = [jobs EXCEPT ![j] = r], UNCHANGED now
  PROVE  JobInv' /\ OverStays
<1>1. jobs \in Seq(Job) /\ DOMAIN jobs' = DOMAIN jobs
  BY DEF JobInv
<1>2. jobs' \in Seq(Job)
  <2>1. j \in 1 .. Len(jobs)
    BY <1>1, LenProperties
  <2>2. QED
    BY <1>1, <2>1, ExceptSeq
<1>3. \A k \in DOMAIN jobs : jobs'[k] = IF k = j THEN r ELSE jobs[k]
  OBVIOUS
<1>4. QED
  BY <1>1, <1>2, <1>3 DEF JobInv, OverStays

\* What each step of a goroutine makes of it.
LEMMA GoroutineRecord ==
  ASSUME InboxInv, JobInv, NEW j \in DOMAIN jobs, Goroutine(j)
  PROVE  \E r \in Job : /\ r.at <= now /\ jobs[j].pc # "done"
                        /\ jobs' = [jobs EXCEPT ![j] = r]
<1> DEFINE J == jobs[j]
<1>1. J \in Job /\ J.at <= now /\ J.at \in Nat /\ 0 <= now
  <2>1. J \in Job
    BY JobOf
  <2>2. QED
    BY <2>1 DEF JobInv, InboxInv, Job
<1>2. ASSUME jobs' = Ended(j), J.pc # "done"
      PROVE  \E r \in Job : /\ r.at <= now /\ jobs[j].pc # "done"
                            /\ jobs' = [jobs EXCEPT ![j] = r]
  <2>1. Over(J) \in Job /\ Over(J).at <= now
    BY <1>1, OverIsJob
  <2>2. jobs' = [jobs EXCEPT ![j] = Over(J)]
    BY <1>2 DEF Ended
  <2>3. QED
    BY <1>2, <2>1, <2>2
<1>3. CASE ReadPins(j)
  <2> DEFINE some == pinsOnJoin /\ pins > 0
  <2>1. CASE jobs' = Ended(j)
    BY <1>2, <1>3, <2>1 DEF ReadPins, At
  <2>2. CASE jobs' = [jobs EXCEPT ![j].pinned = some, ![j].pc = "limit"]
    <3> DEFINE r == [J EXCEPT !.pinned = some, !.pc = "limit"]
    <3>1. some \in BOOLEAN
      OBVIOUS
    <3>2. r \in Job /\ r.at = J.at
      BY <1>1, <3>1 DEF Job
    <3>3. jobs' = [jobs EXCEPT ![j] = r]
      BY <2>2
    <3>4. QED
      BY <1>1, <1>3, <3>2, <3>3 DEF ReadPins, At
  <2>3. QED
    BY <1>3, <2>1, <2>2 DEF ReadPins
<1>4. CASE Allow(j)
  <2>1. CASE jobs' = Ended(j)
    BY <1>2, <1>4, <2>1 DEF Allow, At
  <2>2. CASE jobs' = [jobs EXCEPT ![j].pc = IF replays THEN "read" ELSE "send"]
    <3> DEFINE r == [J EXCEPT !.pc = IF replays THEN "read" ELSE "send"]
    <3>1. r \in Job /\ r.at = J.at
      BY <1>1 DEF Job
    <3>2. jobs' = [jobs EXCEPT ![j] = r]
      BY <2>2
    <3>3. QED
      BY <1>1, <1>4, <3>1, <3>2 DEF Allow, At
  <2>3. QED
    BY <1>4, <2>1, <2>2 DEF Allow
<1>5. CASE ReadLog(j)
  <2> DEFINE m == Cardinality(Recent(jobs[j].at))
             r == [J EXCEPT !.todo = m, !.pc = "send"]
  <2>1. m \in Nat
    <3>1. DOMAIN log = 1 .. Len(log) /\ Len(log) \in Nat
      BY LenProperties DEF InboxInv
    <3>2. IsFiniteSet(DOMAIN log)
      BY <3>1, FS_Interval
    <3>3. Recent(jobs[j].at) \subseteq DOMAIN log
      BY DEF Recent
    <3>4. QED
      BY <3>2, <3>3, FS_Subset, FS_CardinalityType
  <2>2. jobs' = [jobs EXCEPT ![j] = r] /\ J.pc = "read"
    BY <1>5 DEF ReadLog, At
  <2> HIDE DEF m
  <2>3. r \in Job /\ r.at = J.at
    BY <1>1, <2>1 DEF Job
  <2>4. QED
    BY <1>1, <2>2, <2>3
<1>6. CASE Replay(j)
  <2> DEFINE r == [J EXCEPT !.todo = @ - 1]
  <2>1. jobs' = [jobs EXCEPT ![j] = r] /\ J.pc = "send" /\ J.todo > 0
    BY <1>6 DEF Replay, At
  <2>2. J.todo \in Nat
    BY <1>1 DEF Job
  <2>3. r \in Job /\ r.at = J.at
    BY <1>1, <2>1, <2>2 DEF Job
  <2>4. QED
    BY <1>1, <2>1, <2>3
<1>7. CASE SendPins(j)
  BY <1>2, <1>7 DEF SendPins, At
<1>8. QED
  BY <1>3, <1>4, <1>5, <1>6, <1>7 DEF Goroutine

\* A new goroutine starts now.
LEMMA SpawnKeeps ==
  ASSUME InboxInv, JobInv, NEW u \in Users, Spawn(u), UNCHANGED now
  PROVE  JobInv' /\ OverStays
<1> DEFINE r == [to |-> u, at |-> now, pc |-> "start", pinned |-> FALSE, todo |-> 0]
<1>1. r \in Job /\ r.at <= now
  BY DEF Job, InboxInv
<1>2. jobs \in Seq(Job) /\ jobs' = Append(jobs, r)
  BY DEF JobInv, Spawn
<1> HIDE DEF r
<1>3. /\ jobs' \in Seq(Job) /\ Len(jobs') = Len(jobs) + 1
      /\ \A k \in 1 .. Len(jobs) : jobs'[k] = jobs[k]
      /\ jobs'[Len(jobs) + 1] = r
  BY <1>1, <1>2, AppendProperties
<1>4. /\ Len(jobs) \in Nat /\ DOMAIN jobs = 1 .. Len(jobs)
      /\ DOMAIN jobs' = 1 .. Len(jobs) + 1
  BY <1>2, <1>3, LenProperties
<1>5. \A k \in DOMAIN jobs' : k \in DOMAIN jobs \/ k = Len(jobs) + 1
  BY <1>4
<1>6. \A k \in DOMAIN jobs' : jobs'[k].at <= now'
  BY <1>1, <1>3, <1>4, <1>5 DEF JobInv
<1>7. QED
  BY <1>3, <1>4, <1>6 DEF JobInv, OverStays

LEMMA JobStep ==
  ASSUME InboxInv, JobInv, [Next]_vars
  PROVE  JobInv' /\ OverStays
<1>1. ASSUME UNCHANGED jobs, now' \in Nat, now <= now'
      PROVE  JobInv' /\ OverStays
  <2>1. \A j \in DOMAIN jobs : jobs[j].at \in Nat
    <3>1. TAKE j \in DOMAIN jobs
    <3>2. jobs[j] \in Job
      BY JobOf
    <3>3. QED
      BY <3>2 DEF Job
  <2>2. QED
    BY <1>1, <2>1 DEF InboxInv, JobInv, OverStays
<1>2. ASSUME NEW u \in Users, Join(u) \/ AddUser(u)
      PROVE  JobInv' /\ OverStays
  BY <1>2, SpawnKeeps DEF Join, AddUser
<1>3. ASSUME NEW u \in Users, Leave(u)
      PROVE  JobInv' /\ OverStays
  BY <1>1, <1>3 DEF Leave, InboxInv
<1>4. CASE Maintain \/ Reply \/ Chat \/ Deliver \/ Tick \/ Restart
  <2>1. UNCHANGED jobs /\ now' \in {now, now + 1}
    BY <1>4 DEF Maintain, Reply, Chat, Deliver, Tick, Restart
  <2>2. now' \in Nat /\ now <= now'
    BY <2>1 DEF InboxInv
  <2>3. QED
    BY <1>1, <2>1, <2>2
<1>5. ASSUME NEW j \in DOMAIN jobs, Goroutine(j)
      PROVE  JobInv' /\ OverStays
  <2>1. PICK r \in Job : /\ r.at <= now /\ jobs[j].pc # "done"
                         /\ jobs' = [jobs EXCEPT ![j] = r]
    BY <1>5, GoroutineRecord
  <2>2. UNCHANGED now
    BY <1>5 DEF Goroutine, ReadPins, Allow, ReadLog, Replay, SendPins
  <2>3. QED
    BY <2>1, <2>2, JobChange
<1>6. CASE Kill
  <2>1. jobs' = [j \in DOMAIN jobs |-> Over(jobs[j])] /\ now' = now
    BY <1>6 DEF Kill
  <2>2. jobs \in Seq(Job) /\ DOMAIN jobs = 1 .. Len(jobs) /\ Len(jobs) \in Nat
    BY LenProperties DEF JobInv
  <2>3. \A j \in DOMAIN jobs : Over(jobs[j]) \in Job /\ Over(jobs[j]).pc = "done"
                                                     /\ Over(jobs[j]).at = 0
    BY <2>2, ElementOfSeq, OverIsJob
  <2>4. jobs' \in Seq(Job)
    BY <2>1, <2>2, <2>3, IsASeq
  <2>5. QED
    BY <2>1, <2>3, <2>4 DEF JobInv, InboxInv, OverStays
<1>7. CASE UNCHANGED vars
  BY <1>1, <1>7 DEF vars, InboxInv
<1>8. QED
  BY <1>2, <1>3, <1>4, <1>5, <1>6, <1>7 DEF Next, Inbox

\* The log keeps to its cap.
LEMMA InboxStep ==
  ASSUME InboxInv, [Next]_vars
  PROVE  InboxInv'
<1>1. ASSUME NEW u \in Users, Join(u) \/ AddUser(u) \/ Leave(u)
      PROVE  InboxInv'
  BY <1>1 DEF Join, AddUser, Leave, Command, InboxInv, Everyone
<1>2. CASE Maintain \/ Reply
  BY <1>2 DEF Maintain, Reply, Command, InboxInv, Everyone
<1>3. CASE Chat
  <2> DEFINE l == Append(log, now)
  <2>1. /\ log \in Seq(Nat) /\ Len(log) <= LogCap /\ now \in Nat
        /\ Len(log) \in Nat /\ LogCap \in Nat
    BY CatchupAssumption DEF InboxInv, CatchupAssumption
  <2>2. l \in Seq(Nat) /\ Len(l) = Len(log) + 1 /\ l # << >>
    BY <2>1, AppendProperties
  <2>3. log' = IF Len(l) > LogCap THEN Tail(l) ELSE l
    BY <1>3 DEF Chat
  <2> HIDE DEF l
  <2>4. Tail(l) \in Seq(Nat) /\ Len(Tail(l)) = Len(l) - 1
    BY <2>2, HeadTailProperties
  <2>5. log' \in Seq(Nat) /\ Len(log') <= LogCap
    BY <2>1, <2>2, <2>3, <2>4
  <2>6. QED
    BY <1>3, <2>5 DEF Chat, InboxInv
<1>4. ASSUME NEW j \in DOMAIN jobs, Goroutine(j)
      PROVE  InboxInv'
  BY <1>4 DEF Goroutine, ReadPins, Allow, ReadLog, Replay, SendPins, InboxInv
<1>5. CASE Deliver \/ Tick \/ Kill \/ Restart
  BY <1>5 DEF Deliver, Tick, Kill, Restart, InboxInv
<1>6. CASE UNCHANGED vars
  BY <1>6 DEF vars, InboxInv
<1>7. QED
  BY <1>1, <1>2, <1>3, <1>4, <1>5, <1>6 DEF Next, Inbox

LEMMA InfoStep ==
  ASSUME InfoInv, [Next]_vars
  PROVE  InfoInv'
<1>1. CASE UNCHANGED group
  BY <1>1, GroupStays
<1>2. CASE Maintain
  <2>1. PICK written \in BOOLEAN :
          \/ \E i \in Lengths : Info!SetInfo(i, written)
          \/ Info!AddPin(written)
          \/ \E n \in 1 .. pins : Info!RemovePin(n, written)
          \/ UNCHANGED group
    BY <1>2 DEF Maintain
  <2>2. QED
    BY <1>1, <2>1, SetInfoKeeps, PinKeeps
<1>3. CASE Restart
  BY <1>3, LoadKeeps DEF Restart
<1>4. CASE \E u \in Users : Join(u) \/ AddUser(u) \/ Leave(u)
  BY <1>1, <1>4 DEF Join, AddUser, Leave
<1>5. CASE Reply \/ Chat \/ Deliver \/ Tick \/ Kill
  BY <1>1, <1>5 DEF Reply, Chat, Deliver, Tick, Kill
<1>6. CASE \E j \in DOMAIN jobs : Goroutine(j)
  BY <1>1, <1>6 DEF Goroutine, ReadPins, Allow, ReadLog, Replay, SendPins
<1>7. CASE UNCHANGED vars
  BY <1>1, <1>7 DEF vars
<1>8. QED
  BY <1>2, <1>3, <1>4, <1>5, <1>6, <1>7 DEF Next, Inbox

-----------------------------------------------------------------------------
(* The limiter.                                                              *)

\* The limiter forgets or replaces a catch-up only when the cooldown has
\* passed, whatever time the goroutine that sweeps it carries.
LEMMA AllowKeeps ==
  ASSUME InboxInv, JobInv, LimitInv, NEW j \in DOMAIN jobs, Allow(j)
  PROVE  /\ LimitInv'
         /\ jobs'[j].pc \in {"read", "send"} =>
               \/ jobs[j].to \notin DOMAIN served
               \/ now - served[jobs[j].to] >= Cooldown
<1> DEFINE u == jobs[j].to
           t == jobs[j].at
           Old == {v \in DOMAIN last : t - last[v] > Cooldown}
<1>1. /\ jobs[j] \in Job /\ u \in Users /\ t \in Nat /\ t <= now
      /\ now \in Nat /\ now' = now /\ Cooldown \in Nat \ {0}
  <2>2. jobs[j] \in Job
    BY JobOf
  <2>3. u \in Users /\ t \in Nat
    BY <2>2 DEF Job
  <2>4. QED
    BY <2>2, <2>3, CatchupAssumption DEF JobInv, InboxInv, Allow, CatchupAssumption
<1>2. DOMAIN Swept(t) = DOMAIN last \ Old /\ \A v \in DOMAIN last \ Old : Swept(t)[v] = last[v]
  BY DEF Swept, Without, Restrict
<1>3. /\ DOMAIN served \subseteq Users /\ DOMAIN last \subseteq DOMAIN served
      /\ \A v \in DOMAIN served :
           /\ served[v] \in 0 .. now
           /\ v \in DOMAIN last => last[v] = served[v]
           /\ v \notin DOMAIN last => now - served[v] > Cooldown
  BY DEF LimitInv
<1>4. \A v \in Old : now - served[v] > Cooldown
  BY <1>1, <1>3
<1>5. Refused(u, t) <=> u \in DOMAIN last \ Old /\ t - last[u] < Cooldown
  BY <1>2 DEF Refused
<1> HIDE DEF u, t, Old
<1>6. CASE Refused(u, t)
  <2>1. last' = Swept(t) /\ served' = served /\ jobs' = Ended(j)
    BY <1>6 DEF Allow, u, t
  <2>2. LimitInv'
    BY <1>1, <1>2, <1>3, <1>4, <2>1 DEF LimitInv
  <2>3. jobs'[j].pc = "done"
    <3>1. jobs[j] \in Job /\ jobs' = [jobs EXCEPT ![j] = Over(jobs[j])]
      BY <1>1, <2>1 DEF Ended
    <3>2. jobs'[j] = Over(jobs[j])
      BY <3>1
    <3>3. QED
      BY <3>1, <3>2, OverIsJob
  <2>4. QED
    BY <2>2, <2>3
<1>7. CASE ~ Refused(u, t)
  <2>1. /\ last' = With(Swept(t), u, t) /\ served' = With(served, u, t)
    BY <1>7 DEF Allow, u, t
  <2>2. /\ DOMAIN last' = (DOMAIN last \ Old) \cup {u}
        /\ \A v \in DOMAIN last' : last'[v] = IF v = u THEN t ELSE last[v]
        /\ DOMAIN served' = DOMAIN served \cup {u}
        /\ \A v \in DOMAIN served' : served'[v] = IF v = u THEN t ELSE served[v]
    BY <1>2, <2>1 DEF With
  <2>3. LimitInv'
    BY <1>1, <1>3, <1>4, <2>2 DEF LimitInv
  <2>4. u \notin DOMAIN served \/ now - served[u] >= Cooldown
    <3>1. CASE u \in Old
      BY <1>1, <1>3, <1>4, <3>1
    <3>2. CASE u \in DOMAIN last \ Old
      BY <1>1, <1>3, <1>5, <1>7, <3>2
    <3>3. CASE u \notin DOMAIN last
      BY <1>1, <1>3, <3>3
    <3>4. QED
      BY <3>1, <3>2, <3>3
  <2>5. QED
    BY <2>3, <2>4 DEF u
<1>8. QED
  BY <1>6, <1>7

LEMMA LimitStep ==
  ASSUME InboxInv, JobInv, LimitInv, [Next]_vars
  PROVE  LimitInv'
<1>1. ASSUME UNCHANGED limit, now' \in {now, now + 1}
      PROVE  LimitInv'
  BY <1>1, CatchupAssumption DEF LimitInv, InboxInv, limit, CatchupAssumption
<1>2. CASE \E u \in Users : Join(u) \/ AddUser(u) \/ Leave(u)
  BY <1>1, <1>2 DEF Join, AddUser, Leave
<1>3. CASE Maintain \/ Reply \/ Chat \/ Deliver \/ Tick \/ Restart
  BY <1>1, <1>3 DEF Maintain, Reply, Chat, Deliver, Tick, Restart
<1>4. ASSUME NEW j \in DOMAIN jobs, Allow(j)
      PROVE  LimitInv'
  BY <1>4, AllowKeeps
<1>5. CASE \E j \in DOMAIN jobs : ReadPins(j) \/ ReadLog(j) \/ Replay(j) \/ SendPins(j)
  BY <1>1, <1>5 DEF ReadPins, ReadLog, Replay, SendPins
<1>6. CASE Kill
  BY <1>6 DEF Kill, LimitInv
<1>7. CASE UNCHANGED vars
  BY <1>1, <1>7 DEF vars, limit
<1>8. QED
  BY <1>2, <1>3, <1>4, <1>5, <1>6, <1>7 DEF Next, Inbox, Goroutine

-----------------------------------------------------------------------------
(* The queue, and the pins in it.                                            *)

\* Every call of the step, if it makes one: pins are held, and their goroutine
\* is over.
LEMMA StepCalls ==
  ASSUME InboxInv, JobInv, [Next]_vars
  PROVE  \/ UNCHANGED <<status, copies, calls>>
         \/ Deliver
         \/ Kill
         \/ \E to \in Everyone, after \in BOOLEAN,
               kind \in {"welcome", "reply", "replay", "pins"}, job \in Nat :
               /\ Call(to, after, kind, job)
               /\ kind = "pins" =>
                     after /\ job \in DOMAIN jobs' /\ jobs'[job].pc = "done"
<1> DEFINE Calls == \E to \in Everyone, after \in BOOLEAN,
                       kind \in {"welcome", "reply", "replay", "pins"}, job \in Nat :
                       /\ Call(to, after, kind, job)
                       /\ kind = "pins" =>
                             after /\ job \in DOMAIN jobs' /\ jobs'[job].pc = "done"
<1>1. ASSUME NEW to \in Everyone, NEW kind \in {"welcome", "reply", "replay"},
             Call(to, FALSE, kind, 0)
      PROVE  Calls
  <2>1. /\ FALSE \in BOOLEAN /\ kind \in {"welcome", "reply", "replay", "pins"}
        /\ 0 \in Nat /\ kind # "pins"
    OBVIOUS
  <2>2. QED
    BY <1>1, <2>1
<1> HIDE DEF Calls
<1>2. ASSUME NEW u \in Users, Join(u) \/ AddUser(u) \/ Leave(u)
      PROVE  UNCHANGED <<status, copies, calls>> \/ Calls
  BY <1>1, <1>2 DEF Join, AddUser, Leave, Everyone, queue
<1>3. CASE Maintain \/ Chat \/ Tick \/ Restart
  BY <1>3 DEF Maintain, Chat, Tick, Restart, Queue!Start, queue
<1>4. CASE Reply
  <2>1. replyTo \in Everyone
    BY <1>4 DEF Reply, InboxInv
  <2>2. QED
    BY <1>1, <1>4, <2>1 DEF Reply
<1>5. ASSUME NEW j \in DOMAIN jobs, Goroutine(j)
      PROVE  UNCHANGED <<status, copies, calls>> \/ Calls
  <2>2. jobs[j] \in Job /\ j \in Nat
    BY JobOf
  <2>3. jobs[j].to \in Everyone
    BY <2>2 DEF Job, Everyone
  <2>4. CASE ReadPins(j) \/ Allow(j) \/ ReadLog(j)
    BY <2>4 DEF ReadPins, Allow, ReadLog, queue
  <2>5. CASE Replay(j)
    BY <1>1, <2>3, <2>5 DEF Replay
  <2>6. CASE SendPins(j)
    <3>1. j \in DOMAIN jobs' /\ jobs'[j].pc = "done"
      <4>1. jobs' = [jobs EXCEPT ![j] = Over(jobs[j])]
        BY <2>6 DEF SendPins, Ended
      <4>2. j \in DOMAIN jobs' /\ jobs'[j] = Over(jobs[j])
        BY <4>1
      <4>3. QED
        BY <2>2, <4>2, OverIsJob
    <3>2. CASE UNCHANGED <<status, copies, calls>>
      BY <3>2
    <3>3. CASE Call(jobs[j].to, TRUE, "pins", j)
      BY <2>2, <2>3, <3>1, <3>3 DEF Calls
    <3>4. QED
      BY <2>6, <3>2, <3>3 DEF SendPins, CallPins, queue
  <2>7. QED
    BY <1>5, <2>4, <2>5, <2>6 DEF Goroutine
<1>6. CASE UNCHANGED vars
  BY <1>6 DEF vars, queue
<1>7. QED
  BY <1>2, <1>3, <1>4, <1>5, <1>6 DEF Next, Inbox, Calls

LEMMA QueueStep ==
  ASSUME InboxInv, JobInv, QueueInv, [Next]_vars
  PROVE  QueueInv'
<1>1. CASE UNCHANGED <<status, copies, calls>>
  BY <1>1, QueueStays
<1>2. CASE Deliver
  BY <1>2, DeliverKeeps
<1>3. CASE Kill
  BY <1>3, KillKeeps DEF Kill
<1>4. ASSUME NEW to \in Everyone, NEW after \in BOOLEAN,
             NEW kind \in {"welcome", "reply", "replay", "pins"}, NEW job \in Nat,
             Call(to, after, kind, job), kind = "pins" => after
      PROVE  QueueInv'
  BY <1>4, CallKeeps
<1>5. QED
  BY <1>1, <1>2, <1>3, <1>4, StepCalls

LEMMA PinsStep ==
  ASSUME InboxInv, JobInv, QueueInv, PinsInv, [Next]_vars
  PROVE  PinsInv'
<1>1. OverStays
  BY JobStep
<1>2. ASSUME UNCHANGED calls
      PROVE  PinsInv'
  BY <1>1, <1>2 DEF PinsInv, OverStays
<1>3. CASE UNCHANGED <<status, copies, calls>> \/ Deliver \/ Kill
  BY <1>2, <1>3 DEF Deliver, Kill
<1>4. ASSUME NEW to \in Everyone, NEW after \in BOOLEAN,
             NEW kind \in {"welcome", "reply", "replay", "pins"}, NEW job \in Nat,
             Call(to, after, kind, job),
             kind = "pins" => job \in DOMAIN jobs' /\ jobs'[job].pc = "done"
      PROVE  PinsInv'
  <2> DEFINE n == Len(calls) + 1
  <2>1. DOMAIN calls' = DOMAIN calls \cup {n}
    BY <1>4, CallAppends
  <2>2. calls'[n] = [to |-> to, kind |-> kind, job |-> job]
    BY <1>4, CallAppends
  <2>3. \A k \in DOMAIN calls : calls'[k] = calls[k]
    BY <1>4, CallAppends
  <2> HIDE DEF n
  <2>4. QED
    BY <1>1, <1>4, <2>1, <2>2, <2>3 DEF PinsInv, OverStays
<1>5. QED
  BY <1>3, <1>4, StepCalls

-----------------------------------------------------------------------------
(* The theorems.                                                             *)

\* The inductive invariant holds: what the limiter remembers, what the queue was
\* asked for, and that pins are the last thing a goroutine of sendJoinCatchup
\* enqueues (replay.go).
THEOREM CatchupInvariant == Spec => []Inv
<1>1. Init => Inv
  <2> SUFFICES ASSUME Init PROVE Inv
    OBVIOUS
  <2>1. InfoInv
    BY InfoInit DEF Init
  <2>2. QueueInv
    BY QueueInit DEF Init
  <2>3. InboxInv /\ JobInv /\ LimitInv /\ PinsInv
    BY CatchupAssumption
    DEF Init, InboxInv, JobInv, LimitInv, PinsInv, CatchupAssumption
  <2>4. QED
    BY <2>1, <2>2, <2>3 DEF Inv
<1>2. Inv /\ [Next]_vars => Inv'
  BY InfoStep, InboxStep, JobStep, LimitStep, QueueStep, PinsStep DEF Inv
<1>3. QED
  BY <1>1, <1>2, PTL DEF Spec

\* The state has its type: the description and the list of pins within their
\* limits after every command and for every file that is loaded, the log within
\* its cap, the limiter without times from the future, and the calls numbered
\* as the queue numbers them.
THEOREM TypeCorrect == Spec => []TypeOK
<1>1. Inv => TypeOK
  BY DEF Inv, InfoInv, InboxInv, LimitInv, QueueInv, TypeOK
<1>2. QED
  BY <1>1, CatchupInvariant, PTL

\* The reply to /info fits one packet, whoever asks and however many pins there
\* are by then, when /setinfo accepted the description under the display name in
\* force.
THEOREM InfoAlwaysFits == Spec => []InfoFits
<1>1. Inv => InfoFits
  BY FitsFollows DEF Inv
<1>2. QED
  BY <1>1, CatchupInvariant, PTL

\* A joiner gets a second catch-up only when the cooldown has passed since the
\* first one began, or after a restart, in whatever order goroutines with older
\* and newer times reach the limiter.
THEOREM CooldownHolds == Spec => OncePerCooldown
<1> DEFINE Step == \A j \in DOMAIN jobs :
                      At(j, "limit") /\ jobs'[j].pc \in {"read", "send"} =>
                         \/ jobs[j].to \notin DOMAIN served
                         \/ now - served[jobs[j].to] >= Cooldown
<1>1. Inv /\ [Next]_vars => [Step]_vars
  <2> SUFFICES ASSUME Inv, Next, NEW j \in DOMAIN jobs, At(j, "limit"),
                      jobs'[j].pc \in {"read", "send"}
               PROVE  \/ jobs[j].to \notin DOMAIN served
                      \/ now - served[jobs[j].to] >= Cooldown
    OBVIOUS
  <2>1. CASE Allow(j)
    BY <2>1, AllowKeeps DEF Inv
  <2>2. jobs'[j].pc # jobs[j].pc
    BY DEF At
  <2>3. CASE ~ Allow(j)
    <3>1. ASSUME NEW k \in DOMAIN jobs, Goroutine(k)
          PROVE  FALSE
      <4>1. PICK r \in Job : jobs' = [jobs EXCEPT ![k] = r]
        BY <3>1, GoroutineRecord DEF Inv
      <4>2. k = j
        BY <2>2, <4>1
      <4>3. QED
        BY <2>2, <2>3, <3>1, <4>2 DEF Goroutine, At, ReadPins, ReadLog, Replay, SendPins
    <3>2. ~ UNCHANGED jobs
      BY <2>2
    <3>3. CASE \E u \in Users : Join(u) \/ AddUser(u)
      <4>1. PICK u \in Users : Spawn(u)
        BY <3>3 DEF Join, AddUser
      <4>2. jobs \in Seq(Job) /\ j \in 1 .. Len(jobs)
        BY LenProperties DEF Inv, JobInv
      <4>3. jobs'[j] = jobs[j]
        BY <4>1, <4>2, AppendProperties DEF Spawn
      <4>4. QED
        BY <2>2, <4>3
    <3>4. CASE Kill
      <4>1. jobs'[j] = Over(jobs[j])
        BY <3>4 DEF Kill
      <4>3. jobs[j] \in Job
        BY JobOf DEF Inv
      <4>4. QED
        BY <4>1, <4>3, OverIsJob
    <3>5. QED
      BY <3>1, <3>2, <3>3, <3>4
      DEF Next, Inbox, Leave, Maintain, Reply, Chat, Deliver, Tick, Restart
  <2>4. QED
    BY <2>1, <2>3
<1>2. QED
  BY <1>1, CatchupInvariant, PTL DEF Spec, OncePerCooldown

\* When the pins reach a joiner, all of their catch-up has been enqueued and
\* everything that was enqueued for them before the pins has left the queue.
THEOREM PinsComeLast == Spec => PinsLast
<1> DEFINE Step == \A i \in DOMAIN calls :
                      calls[i].kind = "pins" /\ status[i] = "queued"
                                            /\ status'[i] = "delivered" =>
                         /\ jobs[calls[i].job].pc = "done"
                         /\ \A k \in 1 .. i - 1 :
                               calls[k].to = calls[i].to => status[k] # "queued"
<1>1. Inv /\ [Next]_vars => [Step]_vars
  <2> SUFFICES ASSUME Inv, Next, NEW i \in DOMAIN calls, calls[i].kind = "pins",
                      status[i] = "queued", status'[i] = "delivered"
               PROVE  /\ jobs[calls[i].job].pc = "done"
                      /\ \A k \in 1 .. i - 1 :
                            calls[k].to = calls[i].to => status[k] # "queued"
    OBVIOUS
  <2>1. jobs[calls[i].job].pc = "done"
    BY DEF Inv, PinsInv
  <2>2. i \in Queue!Queued
    BY DEF Inv, QueueInv, Queue!Queued
  <2>3. Deliver
    <3>1. CASE UNCHANGED <<status, copies, calls>>
      BY <3>1
    <3>2. CASE Kill
      <4>1. PICK S \in SUBSET Queue!Queued : Queue!Kill(S)
        BY <3>2 DEF Kill
      <4>2. status'[i] \in {"queued", "lost"}
        BY <2>2, <4>1 DEF Queue!Kill, Queue!Queued
      <4>3. QED
        BY <4>2
    <3>3. ASSUME NEW to \in Everyone, NEW after \in BOOLEAN,
                 NEW kind \in {"welcome", "reply", "replay", "pins"}, NEW job \in Nat,
                 Call(to, after, kind, job)
          PROVE  FALSE
      BY <3>3 DEF Call, Queue!Accept, Queue!Refuse, Inv, QueueInv
    <3>4. QED
      BY <3>1, <3>2, <3>3, StepCalls DEF Inv
  <2>4. PICK m \in Queue!Queued : Queue!Send(m, "delivered")
    BY <2>3 DEF Deliver
  <2>5. m = i
    BY <2>2, <2>4 DEF Queue!Send, Inv, QueueInv
  <2>6. Queue!InTurn(i)
    BY <2>4, <2>5 DEF Queue!Send
  <2>7. copies[i].after /\ copies[i].rcpt = calls[i].to
    BY <2>2 DEF Inv, QueueInv
  <2>8. ASSUME NEW k \in 1 .. i - 1, status[k] = "queued"
        PROVE  calls[k].to # calls[i].to
    <3>1. i \in Nat /\ i <= MaxMessages /\ MaxMessages \in Nat
      BY <2>2, CatchupAssumption DEF Queue!Queued, Queue!Ids, CatchupAssumption
    <3>2. k \in Queue!Queued /\ k < i
      BY <2>8, <3>1 DEF Queue!Queued, Queue!Ids
    <3>3. copies[k].rcpt = calls[k].to
      BY <3>2 DEF Inv, QueueInv
    <3>4. QED
      BY <2>6, <2>7, <3>2, <3>3 DEF Queue!InTurn
  <2>9. QED
    BY <2>1, <2>8
<1>2. QED
  BY <1>1, CatchupInvariant, PTL DEF Spec, PinsLast
=============================================================================
