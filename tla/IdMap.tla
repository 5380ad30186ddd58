------------------------------- MODULE IdMap -------------------------------
(***************************************************************************)
(* The message-id cache (internal/idmap).  A bubble is one relayed message *)
(* with the ids under which its recipients know it; the index leads from   *)
(* any of these ids back to the bubble, so that a reaction to one          *)
(* recipient's copy can be readdressed to everybody else's.                *)
(*                                                                         *)
(* Bubbles leave the cache when they are too old or when the index has too *)
(* many keys, least recently used first.  A bubble that has left is still  *)
(* referenced by the queued copies of its message, and comes back when one *)
(* of these is sent.                                                       *)
(*                                                                         *)
(* Every operation is one critical section of the cache's mutex.  Relay    *)
(* has the callers: the inbox and the workers of the outbound queue.       *)
(***************************************************************************)
EXTENDS Integers, Sequences, FiniteSets, Functions, FiniteSetsExt

CONSTANTS
    Bubbles,    \* bubbles that may be made
    Users,      \* destinations a message is sent to or comes from
    Ids,        \* LXMF message ids
    TTL,        \* service.id_cache_ttl
    MaxSize     \* service.id_cache_max: keys in the index, 0 for no cap

VARIABLES
    age,        \* age of every bubble made so far, up to TTL + 1
    views,      \* Bubble.views: what each recipient calls the bubble
    index,      \* Cache.byMsgID
    lru         \* Cache.lru, most recently used first

-----------------------------------------------------------------------------

Nothing == << >>    \* the empty map

With(f, x, v) == [y \in DOMAIN f \cup {x} |-> IF y = x THEN v ELSE f[y]]

Expired(b) == age[b] > TTL

\* What removeBubbleLocked deletes from the index for each bubble of S.
KeysOf(vw, S) == UNION {Range(vw[b]) : b \in S}

\* A definition whose name starts with Bad is a plausible mistake in the
\* definition below it; no action uses it.

\* The bubble leaves the list and keeps its keys.
BadUnindexed(idx, vw, S) == idx

Unindexed(idx, vw, S) == Restrict(idx, DOMAIN idx \ KeysOf(vw, S))

Beyond(l, n) == {l[i] : i \in n + 1 .. Len(l)}

\* Bubble.lru: where the bubble is in the list, if it is there at all.
Place(l, b) == Min({i \in 1 .. Len(l) : l[i] = b} \cup {Len(l) + 1})

\* PushFront for a bubble that is not in the list, MoveToFront for one that is.
MovedToFront(l, b) ==
    LET place == Place(l, b)
    IN  [i \in 1 .. (IF place > Len(l) THEN place ELSE Len(l)) |->
            IF i = 1 THEN b ELSE IF i <= place THEN l[i - 1] ELSE l[i]]

\* Remove, for a bubble that is in the list.
Removed(l, b) ==
    LET place == Place(l, b)
    IN  IF place > Len(l) THEN l
        ELSE [i \in 1 .. Len(l) - 1 |-> IF i < place THEN l[i] ELSE l[i + 1]]

\* How much of the list evictExpiredLocked leaves: it stops, coming from the
\* oldest, at the first bubble that may live.
Unexpired(l) == Max({i \in 1 .. Len(l) : ~Expired(l[i])} \cup {0})

\* The cap counts bubbles.
BadFitting(idx, vw, l) ==
    IF MaxSize = 0 \/ Len(l) <= MaxSize THEN Len(l) ELSE MaxSize

\* How much of the list enforceCapLocked leaves: all that fits, from the
\* newest, or nothing.
Fitting(idx, vw, l) ==
    IF MaxSize = 0 THEN Len(l)
    ELSE Max({0} \cup
             {n \in 0 .. Len(l) :
                 Cardinality(DOMAIN Unindexed(idx, vw, Beyond(l, n))) <= MaxSize})

-----------------------------------------------------------------------------

Init == age = Nothing /\ views = Nothing /\ index = Nothing /\ lru = << >>

NewBubble(b) ==
    /\ b \in Bubbles \ DOMAIN age
    /\ age' = With(age, b, 0)
    /\ views' = With(views, b, Nothing)

\* removeBubbleLocked.  The bubble keeps its views.
Forget(b) ==
    /\ index' = Unindexed(index, views, {b})
    /\ lru' = Removed(lru, b)

RegisterView(b, r, id) ==
    LET live  == Unexpired(lru)
        young == Unindexed(index, views, Beyond(lru, live))
        list  == MovedToFront(SubSeq(lru, 1, live), b)
        known == [views EXCEPT ![b] = With(@, r, id)]
        keys  == With(young, id, b)
        room  == Fitting(keys, known, list)
    IN  /\ views' = known
        /\ index' = Unindexed(keys, known, Beyond(list, room))
        /\ lru' = SubSeq(list, 1, room)

Hit(id) == id \in DOMAIN index /\ ~Expired(index[id])

\* The effect of Lookup on the cache; what it returns is index[id] or nothing.
Lookup(id) ==
    \/ id \notin DOMAIN index /\ UNCHANGED <<index, lru>>
    \/ id \in DOMAIN index /\ Expired(index[id]) /\ Forget(index[id])
    \/ /\ Hit(id)
       /\ lru' = IF index[id] \in Range(lru) THEN MovedToFront(lru, index[id])
                                             ELSE lru
       /\ index' = index

Ages == age' = [b \in DOMAIN age |-> IF age[b] <= TTL THEN age[b] + 1 ELSE age[b]]

-----------------------------------------------------------------------------

\* The state has its type, and the list that New, PushFront, MoveToFront and
\* Remove maintain holds every bubble at most once.
TypeOK ==
    /\ DOMAIN age \subseteq Bubbles /\ age \in [DOMAIN age -> 0 .. TTL + 1]
    /\ DOMAIN views = DOMAIN age
    /\ \A b \in DOMAIN views :
          /\ DOMAIN views[b] \subseteq Users
          /\ views[b] \in [DOMAIN views[b] -> Ids]
    /\ DOMAIN index \subseteq Ids /\ index \in [DOMAIN index -> DOMAIN age]
    /\ lru \in Seq(DOMAIN age)
    /\ \A i, j \in 1 .. Len(lru) : lru[i] = lru[j] => i = j

\* No stray key: every key leads to a bubble that is in the recency list and
\* counts the key among its views.  A key of any other bubble could never be
\* deleted again and would take up room under the cap for ever.
IndexOwned ==
    \A id \in DOMAIN index :
        /\ index[id] \in Range(lru)
        /\ id \in Range(views[index[id]])

\* The cap on keys holds between operations, whatever is registered, also
\* when a bubble alone has more views than the cap allows.
CapHeld == MaxSize > 0 => Cardinality(DOMAIN index) <= MaxSize

=============================================================================
