-------------------------- MODULE DiscoveryProofs --------------------------
(***************************************************************************)
(* Theorems about Discovery, for every set of nodes and peers, every size  *)
(* of the table, of the cache and of the bounds.                           *)
(***************************************************************************)
EXTENDS Discovery, FiniteSetTheorems, WellFoundedInduction, TLAPS

-----------------------------------------------------------------------------
(* The operators of the model.                                               *)

\* Numbers have a least one.
LEMMA LeastExists ==
  ASSUME NEW T \in SUBSET Nat, T # {}
  PROVE  \E x \in T : \A y \in T : x <= y
<1>1. PICK x \in T : \A y \in T : ~(<<y, x>> \in OpToRel(<, Nat))
  BY NatLessThanWellFounded, WFMin
<1>2. ASSUME NEW y \in T
      PROVE  x <= y
  <2>1. ~(<<y, x>> \in OpToRel(<, Nat))
    BY <1>1
  <2>2. ~(y < x)
    BY <2>1 DEF OpToRel
  <2>3. QED
    BY <2>2
<1>3. QED
  BY <1>2

\* The eviction scans of the tracker and of the cache find an entry of the
\* map, and none was heard earlier.
LEMMA OldestFound ==
  ASSUME NEW f, NEW S, S # {}, \A x \in S : f[x].last \in Nat
  PROVE  /\ OldestOf(f, S) \in S
         /\ \A y \in S : f[OldestOf(f, S)].last <= f[y].last
<1>1. PICK least \in {f[x].last : x \in S} : \A t \in {f[x].last : x \in S} : least <= t
  BY LeastExists
<1>2. \E x \in S : \A y \in S : f[x].last <= f[y].last
  BY <1>1
<1>3. QED
  BY <1>2 DEF OldestOf

\* A map with an entry set.
LEMMA WithEntry ==
  ASSUME NEW f, NEW x, NEW v
  PROVE  /\ DOMAIN With(f, x, v) = DOMAIN f \cup {x}
         /\ With(f, x, v)[x] = v
         /\ \A y \in DOMAIN f \ {x} : With(f, x, v)[y] = f[y]
         /\ With(f, x, v) = [y \in DOMAIN With(f, x, v) |-> With(f, x, v)[y]]
  BY DEF With

LEMMA NothingIsEmpty == DOMAIN Nothing = {} /\ Nothing = [x \in {} |-> Nothing[x]]
  BY DEF Nothing

-----------------------------------------------------------------------------
(* The inductive invariant.                                                  *)

CacheEntry == [last : Nat, age : Nat]
NodeEntry  == [first : Nat, last : Nat, age : Nat, usable : BOOLEAN]

\* A map of the cache's type and size.
Stored(f) ==
    /\ f \in [DOMAIN f -> CacheEntry]
    /\ DOMAIN f \subseteq Dests
    /\ IsFiniteSet(DOMAIN f) /\ Cardinality(DOMAIN f) <= CacheCap

\* A table of the tracker's type and size.
Tracked(f) ==
    /\ f \in [DOMAIN f -> NodeEntry]
    /\ DOMAIN f \subseteq Nodes
    /\ IsFiniteSet(DOMAIN f) /\ Cardinality(DOMAIN f) <= MaxNodes

\* No two nodes were heard first, or last, at the same time; a node was heard
\* first when it entered the table, and not by the announce that is being
\* handled.
Ordered ==
    \A n \in DOMAIN nodes :
        /\ entered[n] = nodes[n].first
        /\ nodes[n].first <= nodes[n].last /\ nodes[n].last <= heard
        /\ dispatch # Nil => nodes[n].last < heard
        /\ \A m \in DOMAIN nodes \ {n} :
              nodes[m].first # nodes[n].first /\ nodes[m].last # nodes[n].last

\* A snapshot that is behind the cache is followed by another.
SnapFollowed ==
    loop \in {"saving", "finalSaving"} /\ Ahead(cache, snap) => dispatch # Nil \/ kick

\* Those who are settled are pinned; a process that is down has nobody settled.
SettledPinned == settled \subseteq pins /\ (phase = "down" => settled = {})

Sizes ==
    /\ TypeOK
    /\ heard \in Nat
    /\ status \in [Peers -> {"none", "active", "paused"}]
    /\ Tracked(nodes)
    /\ Stored(cache) /\ Stored(snap) /\ Stored(file)

Inv == Sizes /\ Ordered /\ SnapFollowed /\ NoLostAnnounce /\ SettledPinned

-----------------------------------------------------------------------------
(* What the operations do to the maps.                                       *)

\* A part of a map is one.
LEMMA StoredPart ==
  ASSUME NEW f, Stored(f), NEW S \in SUBSET DOMAIN f
  PROVE  Stored(Restrict(f, S)) /\ DOMAIN Restrict(f, S) = S
<1>1. /\ DOMAIN Restrict(f, S) = S
      /\ Restrict(f, S) \in [S -> CacheEntry]
  BY DEF Restrict, Stored
<1>2. IsFiniteSet(S) /\ Cardinality(S) <= Cardinality(DOMAIN f)
  BY FS_Subset DEF Stored
<1>3. /\ Cardinality(S) \in Nat /\ Cardinality(DOMAIN f) \in Nat /\ CacheCap \in Nat
  BY <1>2, FS_CardinalityType, DiscoveryAssumption DEF Stored, DiscoveryAssumption
<1>4. QED
  BY <1>1, <1>2, <1>3 DEF Stored

\* Time changes no more than the ages of the cache and of the file ...
LEMMA AgedStored ==
  ASSUME NEW f, NEW limit \in Nat, Stored(f)
  PROVE  /\ Stored(Aged(f, limit))
         /\ DOMAIN Aged(f, limit) = DOMAIN f
         /\ \A x \in DOMAIN f : Aged(f, limit)[x].last = f[x].last
<1>1. DOMAIN Aged(f, limit) = DOMAIN f
  BY DEF Aged
<1>2. ASSUME NEW x \in DOMAIN f
      PROVE  /\ Aged(f, limit)[x] \in CacheEntry
             /\ Aged(f, limit)[x].last = f[x].last
  <2>1. Aged(f, limit)[x] =
          [f[x] EXCEPT !.age = IF f[x].age <= limit THEN f[x].age + 1 ELSE f[x].age]
    BY DEF Aged
  <2>2. f[x] \in CacheEntry
    BY DEF Stored
  <2>3. QED
    BY <2>1, <2>2 DEF CacheEntry
<1>3. Aged(f, limit) \in [DOMAIN f -> CacheEntry]
  BY <1>1, <1>2 DEF Aged
<1>4. QED
  BY <1>1, <1>2, <1>3 DEF Stored

\* ... and of the nodes.
LEMMA AgedTracked ==
  ASSUME NEW f, NEW limit \in Nat, Tracked(f)
  PROVE  /\ Tracked(Aged(f, limit))
         /\ DOMAIN Aged(f, limit) = DOMAIN f
         /\ \A x \in DOMAIN f : /\ Aged(f, limit)[x].last = f[x].last
                                /\ Aged(f, limit)[x].first = f[x].first
                                /\ Aged(f, limit)[x].usable = f[x].usable
                                /\ f[x].age <= Aged(f, limit)[x].age
<1>1. DOMAIN Aged(f, limit) = DOMAIN f
  BY DEF Aged
<1>2. ASSUME NEW x \in DOMAIN f
      PROVE  /\ Aged(f, limit)[x] \in NodeEntry
             /\ Aged(f, limit)[x].last = f[x].last
             /\ Aged(f, limit)[x].first = f[x].first
             /\ Aged(f, limit)[x].usable = f[x].usable
             /\ f[x].age <= Aged(f, limit)[x].age
  <2>1. Aged(f, limit)[x] =
          [f[x] EXCEPT !.age = IF f[x].age <= limit THEN f[x].age + 1 ELSE f[x].age]
    BY DEF Aged
  <2>2. f[x] \in NodeEntry
    BY DEF Tracked
  <2>3. QED
    BY <2>1, <2>2 DEF NodeEntry
<1>3. Aged(f, limit) \in [DOMAIN f -> NodeEntry]
  BY <1>1, <1>2 DEF Aged
<1>4. QED
  BY <1>1, <1>2, <1>3 DEF Tracked

\* evictStaleLocked makes room for one node.  It drops stale nodes, and a fresh
\* one only from a table full of fresh nodes, of which it was heard least
\* recently.
LEMMA EvictedTable ==
  ASSUME NEW f, Tracked(f)
  PROVE  /\ DOMAIN Evicted(f) \subseteq DOMAIN f
         /\ \A x \in DOMAIN Evicted(f) : Evicted(f)[x] = f[x]
         /\ IsFiniteSet(DOMAIN Evicted(f)) /\ Cardinality(DOMAIN Evicted(f)) < MaxNodes
         /\ \A x \in Fresh(f) \ DOMAIN Evicted(f) :
               /\ Fresh(f) = DOMAIN f /\ Cardinality(Fresh(f)) = MaxNodes
               /\ \A y \in DOMAIN f : f[x].last <= f[y].last
<1> DEFINE live == Restrict(f, Fresh(f))
           oldest == OldestOf(live, Fresh(f))
<1>1. /\ DOMAIN live = Fresh(f) /\ Fresh(f) \subseteq DOMAIN f
      /\ \A x \in Fresh(f) : live[x] = f[x]
      /\ \A x \in DOMAIN f : f[x].last \in Nat
  BY DEF Restrict, Fresh, Tracked, NodeEntry
<1>2. /\ IsFiniteSet(Fresh(f)) /\ Cardinality(Fresh(f)) <= Cardinality(DOMAIN f)
      /\ Cardinality(DOMAIN f) = Cardinality(Fresh(f)) => DOMAIN f = Fresh(f)
  BY <1>1, FS_Subset DEF Tracked
<1>3. /\ Cardinality(Fresh(f)) \in Nat /\ Cardinality(DOMAIN f) \in Nat
      /\ Cardinality(DOMAIN f) <= MaxNodes
      /\ MaxNodes \in Nat \ {0}
  BY <1>2, FS_CardinalityType, DiscoveryAssumption DEF Tracked, DiscoveryAssumption
<1>4. CASE Cardinality(Fresh(f)) >= MaxNodes
  <2>1. Cardinality(Fresh(f)) = MaxNodes /\ DOMAIN f = Fresh(f)
    BY <1>2, <1>3, <1>4
  <2>2. Fresh(f) # {}
    BY <1>3, <2>1, FS_EmptySet
  <2>3. /\ oldest \in Fresh(f)
        /\ \A y \in Fresh(f) : live[oldest].last <= live[y].last
    BY <1>1, <2>2, OldestFound
  <2>4. /\ IsFiniteSet(Fresh(f) \ {oldest})
        /\ Cardinality(Fresh(f) \ {oldest}) = Cardinality(Fresh(f)) - 1
    BY <1>2, <2>3, FS_RemoveElement
  <2>5. Evicted(f) = Restrict(live, Fresh(f) \ {oldest})
    BY <1>1, <1>4 DEF Evicted
  <2>6. /\ DOMAIN Evicted(f) = Fresh(f) \ {oldest}
        /\ \A x \in Fresh(f) \ {oldest} : Evicted(f)[x] = f[x]
    BY <1>1, <2>5 DEF Restrict
  <2>7. \A y \in DOMAIN f : f[oldest].last <= f[y].last
    BY <1>1, <2>1, <2>3
  <2>8. Cardinality(DOMAIN Evicted(f)) < MaxNodes
    BY <1>3, <2>1, <2>4, <2>6
  <2>9. QED
    BY <1>1, <2>1, <2>3, <2>4, <2>6, <2>7, <2>8
<1>5. CASE ~(Cardinality(Fresh(f)) >= MaxNodes)
  <2>1. Evicted(f) = live
    BY <1>1, <1>5 DEF Evicted
  <2>2. Cardinality(Fresh(f)) < MaxNodes
    BY <1>3, <1>5
  <2>3. QED
    BY <1>1, <1>2, <2>1, <2>2
<1>6. QED
  BY <1>4, <1>5

\* The table after an announce.
LEMMA TrackedTable ==
  ASSUME Tracked(nodes), heard \in Nat, DOMAIN entered = DOMAIN nodes,
         NEW n \in Nodes, NEW usable \in BOOLEAN, Track(n, usable)
  PROVE  /\ Tracked(nodes') /\ DOMAIN entered' = DOMAIN nodes'
         /\ n \in DOMAIN nodes'
         /\ nodes'[n] = [first |-> FirstHeard(n), last |-> heard,
                         age |-> 0, usable |-> usable]
         /\ \A m \in DOMAIN nodes' \ {n} :
               m \in DOMAIN nodes /\ nodes'[m] = nodes[m] /\ entered'[m] = entered[m]
         /\ entered'[n] = IF n \in DOMAIN nodes THEN entered[n] ELSE heard
         /\ n \in DOMAIN nodes => DOMAIN nodes' = DOMAIN nodes
         /\ \A m \in Fresh(nodes) \ DOMAIN nodes' :
               /\ Fresh(nodes) = DOMAIN nodes /\ Cardinality(Fresh(nodes)) = MaxNodes
               /\ \A y \in DOMAIN nodes : nodes[m].last <= nodes[y].last
<1> DEFINE table == IF n \in DOMAIN nodes THEN nodes ELSE Evicted(nodes)
           e == [first |-> FirstHeard(n), last |-> heard, age |-> 0, usable |-> usable]
<1>1. nodes' = With(table, n, e)
  BY DEF Track
<1>2. e \in NodeEntry
  <2>1. FirstHeard(n) \in Nat
    BY DEF FirstHeard, Tracked, NodeEntry
  <2>2. QED
    BY <2>1 DEF NodeEntry
<1>3. /\ DOMAIN nodes' = DOMAIN table \cup {n} /\ nodes'[n] = e
      /\ \A m \in DOMAIN table \ {n} : nodes'[m] = table[m]
      /\ nodes' = [m \in DOMAIN nodes' |-> nodes'[m]]
  <2> HIDE DEF table, e
  <2>1. QED
    BY <1>1 DEF With
<1>4. CASE n \in DOMAIN nodes
  <2>1. table = nodes /\ entered' = entered /\ DOMAIN nodes' = DOMAIN nodes
    BY <1>3, <1>4 DEF Track
  <2>2. \A m \in DOMAIN nodes' : nodes'[m] \in NodeEntry
    BY <1>2, <1>3, <2>1 DEF Tracked
  <2>3. Tracked(nodes')
    BY <1>3, <2>1, <2>2 DEF Tracked
  <2>4. QED
    BY <1>3, <1>4, <2>1, <2>3 DEF Fresh
<1>5. CASE n \notin DOMAIN nodes
  <2>1. /\ table = Evicted(nodes)
        /\ entered' = With(Restrict(entered, DOMAIN table), n, heard)
    BY <1>5 DEF Track
  <2>2. /\ DOMAIN table \subseteq DOMAIN nodes
        /\ \A x \in DOMAIN table : table[x] = nodes[x]
        /\ IsFiniteSet(DOMAIN table) /\ Cardinality(DOMAIN table) < MaxNodes
        /\ \A x \in Fresh(nodes) \ DOMAIN table :
              /\ Fresh(nodes) = DOMAIN nodes /\ Cardinality(Fresh(nodes)) = MaxNodes
              /\ \A y \in DOMAIN nodes : nodes[x].last <= nodes[y].last
    BY <2>1, EvictedTable
  <2>3. n \notin DOMAIN table
    BY <1>5, <2>2
  <2>4. /\ IsFiniteSet(DOMAIN nodes')
        /\ Cardinality(DOMAIN nodes') = Cardinality(DOMAIN table) + 1
    BY <1>3, <2>2, <2>3, FS_AddElement
  <2>5. Cardinality(DOMAIN table) \in Nat /\ MaxNodes \in Nat
    BY <2>2, FS_CardinalityType, DiscoveryAssumption DEF DiscoveryAssumption
  <2>6. Cardinality(DOMAIN nodes') <= MaxNodes
    BY <2>2, <2>4, <2>5
  <2>7. \A m \in DOMAIN nodes' : nodes'[m] \in NodeEntry
    BY <1>2, <1>3, <2>2, <2>3 DEF Tracked
  <2>8. Tracked(nodes')
    BY <1>3, <2>2, <2>4, <2>6, <2>7 DEF Tracked
  <2>9. /\ DOMAIN entered' = DOMAIN table \cup {n} /\ entered'[n] = heard
        /\ \A m \in DOMAIN table \ {n} : entered'[m] = entered[m]
    <3> HIDE DEF table
    <3>1. QED
      BY <2>1 DEF Restrict, With
  <2>10. QED
    BY <1>3, <1>5, <2>2, <2>3, <2>8, <2>9
<1>6. QED
  BY <1>4, <1>5

\* The cache makes room for an announce: what goes was pinned only if all was.
LEMMA RoomMade ==
  ASSUME Stored(cache), NEW d \in Dests
  PROVE  /\ DOMAIN Room(d) \subseteq DOMAIN cache
         /\ \A x \in DOMAIN Room(d) : Room(d)[x] = cache[x]
         /\ IsFiniteSet(DOMAIN Room(d) \cup {d})
         /\ Cardinality(DOMAIN Room(d) \cup {d}) <= CacheCap
         /\ \A x \in DOMAIN cache \ DOMAIN Room(d) :
               x \in pins => DOMAIN cache \subseteq pins
<1>1. /\ IsFiniteSet(DOMAIN cache) /\ Cardinality(DOMAIN cache) <= CacheCap
      /\ Cardinality(DOMAIN cache) \in Nat /\ CacheCap \in Nat \ {0}
      /\ \A x \in DOMAIN cache : cache[x].last \in Nat
  BY FS_CardinalityType, DiscoveryAssumption
  DEF Stored, CacheEntry, DiscoveryAssumption
<1>2. CASE d \in DOMAIN cache
  <2>1. Room(d) = cache /\ DOMAIN cache \cup {d} = DOMAIN cache
    BY <1>2 DEF Room
  <2>2. QED
    BY <1>1, <2>1
<1>3. CASE d \notin DOMAIN cache /\ Cardinality(DOMAIN cache) < CacheCap
  <2>1. Room(d) = cache
    BY <1>3 DEF Room
  <2>2. /\ IsFiniteSet(DOMAIN cache \cup {d})
        /\ Cardinality(DOMAIN cache \cup {d}) = Cardinality(DOMAIN cache) + 1
    BY <1>1, <1>3, FS_AddElement
  <2>3. QED
    BY <1>1, <1>3, <2>1, <2>2
<1>4. CASE d \notin DOMAIN cache /\ ~(Cardinality(DOMAIN cache) < CacheCap)
  <2> DEFINE free == DOMAIN cache \ pins
             from == IF free = {} THEN DOMAIN cache ELSE free
             gone == OldestOf(cache, from)
  <2>1. DOMAIN cache # {}
    BY <1>1, <1>4, FS_EmptySet
  <2>2. from # {} /\ from \subseteq DOMAIN cache
    BY <2>1
  <2>3. gone \in from
    BY <1>1, <2>2, OldestFound
  <2>4. Room(d) = Restrict(cache, DOMAIN cache \ {gone})
    BY <1>4 DEF Room
  <2>5. /\ DOMAIN Room(d) = DOMAIN cache \ {gone}
        /\ \A x \in DOMAIN Room(d) : Room(d)[x] = cache[x]
    BY <2>4 DEF Restrict
  <2>6. /\ IsFiniteSet(DOMAIN Room(d))
        /\ Cardinality(DOMAIN Room(d)) = Cardinality(DOMAIN cache) - 1
    <3>1. gone \in DOMAIN cache
      BY <2>2, <2>3
    <3> HIDE DEF gone
    <3>2. QED
      BY <1>1, <2>5, <3>1, FS_RemoveElement
  <2>7. d \notin DOMAIN Room(d)
    BY <1>4, <2>5
  <2>8. /\ IsFiniteSet(DOMAIN Room(d) \cup {d})
        /\ Cardinality(DOMAIN Room(d) \cup {d}) = Cardinality(DOMAIN Room(d)) + 1
    BY <2>6, <2>7, FS_AddElement
  <2>9. Cardinality(DOMAIN Room(d) \cup {d}) <= CacheCap
    BY <1>1, <2>6, <2>8
  <2>10. gone \in pins => DOMAIN cache \subseteq pins
    BY <2>3
  <2>11. QED
    BY <2>5, <2>8, <2>9, <2>10
<1>5. QED
  BY <1>2, <1>3, <1>4

-----------------------------------------------------------------------------
(* Types and sizes.                                                          *)

LEMMA EmptyStored == Stored(Nothing) /\ Tracked(Nothing)
<1>1. /\ DOMAIN Nothing = {} /\ Nothing \in [{} -> CacheEntry]
      /\ Nothing \in [{} -> NodeEntry]
  BY DEF Nothing
<1>2. CacheCap \in Nat /\ MaxNodes \in Nat
  BY DiscoveryAssumption DEF DiscoveryAssumption
<1>3. QED
  BY <1>1, <1>2, FS_EmptySet DEF Stored, Tracked

\* Where the cache, the table and the file come from.
LEMMA SizesKept ==
  ASSUME Sizes, heard' \in Nat,
         status' \in [Peers -> {"none", "active", "paused"}],
         phase' \in {"running", "stopping", "down"}, dispatch' \in Dests \cup {Nil},
         Tracked(nodes'), DOMAIN entered' = DOMAIN nodes',
         Stored(cache'), Stored(snap'), Stored(file'),
         pins' \subseteq Peers, settled' \subseteq Members',
         loop' \in {"select", "debounce", "snapshot", "saving", "finalSaving", "done"}
  PROVE  Sizes'
  BY DEF Sizes, TypeOK, Tracked, Stored

LEMMA HeardSizes ==
  ASSUME Sizes, NEW d \in Dests, Hear(d)
  PROVE  /\ Sizes'
         /\ \A x \in DOMAIN cache \ DOMAIN cache' : x \in pins => DOMAIN cache \subseteq pins
<1> DEFINE e == [last |-> heard', age |-> 0]
<1>1. heard' = heard + 1 /\ heard \in Nat /\ Stored(cache)
  BY DEF Hear, Sizes
<1>2. e \in CacheEntry
  BY <1>1 DEF CacheEntry
<1>3. cache' = With(Room(d), d, e)
  BY DEF Hear
<1>4. /\ DOMAIN cache' = DOMAIN Room(d) \cup {d} /\ cache'[d] = e
      /\ \A x \in DOMAIN Room(d) \ {d} : cache'[x] = Room(d)[x]
      /\ cache' = [x \in DOMAIN cache' |-> cache'[x]]
  <2> HIDE DEF e
  <2>1. QED
    BY <1>3 DEF With
<1>5. /\ DOMAIN Room(d) \subseteq DOMAIN cache
      /\ \A x \in DOMAIN Room(d) : Room(d)[x] = cache[x]
      /\ IsFiniteSet(DOMAIN Room(d) \cup {d})
      /\ Cardinality(DOMAIN Room(d) \cup {d}) <= CacheCap
      /\ \A x \in DOMAIN cache \ DOMAIN Room(d) :
            x \in pins => DOMAIN cache \subseteq pins
  BY <1>1, RoomMade
<1>6. \A x \in DOMAIN cache' : cache'[x] \in CacheEntry
  BY <1>1, <1>2, <1>4, <1>5 DEF Stored
<1>7. Stored(cache')
  BY <1>1, <1>4, <1>5, <1>6 DEF Stored
<1>8. /\ UNCHANGED <<phase, nodes, entered, pins, status, settled, loop, snap, file>>
      /\ dispatch' = d
  BY DEF Hear, tracker, roster, writer
<1>9. Sizes'
  BY <1>1, <1>7, <1>8, SizesKept DEF Sizes, TypeOK, Members
<1>10. QED
  BY <1>4, <1>5, <1>9

LEMMA AnnounceSizes ==
  ASSUME Sizes, OnAnnounce
  PROVE  Sizes'
<1>1. /\ UNCHANGED <<phase, heard, cache, pins, status, settled, loop, snap, file>>
      /\ dispatch' = Nil
  BY DEF OnAnnounce, roster
<1>2. CASE UNCHANGED tracker
  BY <1>1, <1>2, SizesKept DEF Sizes, TypeOK, Members, tracker
<1>3. CASE dispatch \in Nodes /\ \E usable \in BOOLEAN : Track(dispatch, usable)
  <2>1. Tracked(nodes') /\ DOMAIN entered' = DOMAIN nodes'
    BY <1>3, TrackedTable DEF Sizes, TypeOK
  <2>2. QED
    BY <1>1, <2>1, SizesKept DEF Sizes, TypeOK, Members
<1>4. QED
  BY <1>2, <1>3 DEF OnAnnounce

LEMMA StatusSizes ==
  ASSUME Sizes,
         \/ \E p \in Peers, s \in {"none", "active", "paused"} : ChangeStatus(p, s)
         \/ PinMembers
  PROVE  Sizes'
<1>1. CASE PinMembers
  <2>1. /\ pins' = Members /\ settled' = Members /\ status' = status
        /\ UNCHANGED <<phase, heard, dispatch, nodes, entered, cache, loop, snap, file>>
    BY <1>1 DEF PinMembers, Hashes, tracker, writer
  <2>2. QED
    BY <2>1, SizesKept DEF Sizes, TypeOK, Members
<1>2. ASSUME NEW p \in Peers, NEW s \in {"none", "active", "paused"}, ChangeStatus(p, s)
      PROVE  Sizes'
  <2>1. /\ status' = [status EXCEPT ![p] = s]
        /\ settled' = settled \ (IF s = "none" THEN {p} ELSE {})
        /\ UNCHANGED <<phase, heard, dispatch, nodes, entered, cache, pins, loop, snap, file>>
    BY <1>2 DEF ChangeStatus, tracker, writer
  <2>2. settled' \subseteq Members'
    BY <2>1 DEF Sizes, TypeOK, Members
  <2>3. QED
    BY <2>1, <2>2, SizesKept DEF Sizes, TypeOK
<1>3. QED
  BY <1>1, <1>2

LEMMA WriterSizes ==
  ASSUME Sizes,
         TakeKick \/ Drain \/ Snapshot \/ \E written \in BOOLEAN : SaveNow(written)
  PROVE  Sizes'
<1>1. UNCHANGED <<phase, heard, dispatch, nodes, entered, cache, pins, status, settled>>
  BY DEF TakeKick, Drain, Snapshot, SaveNow, tracker, roster
<1>2. CASE TakeKick \/ Drain
  BY <1>1, <1>2, SizesKept DEF Sizes, TypeOK, Members, TakeKick, Drain
<1>3. CASE Snapshot
  BY <1>1, <1>3, SizesKept DEF Sizes, TypeOK, Members, Snapshot
<1>4. ASSUME NEW written \in BOOLEAN, SaveNow(written)
      PROVE  Sizes'
  <2>1. /\ file' = snap \/ file' = file
        /\ snap' = Nothing /\ loop' = AfterSave
    BY <1>4 DEF SaveNow
  <2>2. QED
    BY <1>1, <2>1, EmptyStored, SizesKept DEF Sizes, TypeOK, Members, AfterSave
<1>5. QED
  BY <1>2, <1>3, <1>4

LEMMA ClockSizes ==
  ASSUME Sizes, Tick
  PROVE  Sizes'
<1>1. /\ UNCHANGED <<phase, heard, dispatch, entered, pins, status, settled, loop>>
      /\ nodes' = Aged(nodes, StaleAfter) /\ cache' = Aged(cache, FileMaxAge)
      /\ snap' = Aged(snap, FileMaxAge) /\ file' = Aged(file, FileMaxAge)
  BY DEF Tick, roster
<1>2. StaleAfter \in Nat /\ FileMaxAge \in Nat
  BY DiscoveryAssumption DEF DiscoveryAssumption
<1>3. /\ Tracked(nodes') /\ DOMAIN nodes' = DOMAIN nodes
      /\ Stored(cache') /\ Stored(snap') /\ Stored(file')
  BY <1>1, <1>2, AgedStored, AgedTracked DEF Sizes
<1>4. QED
  BY <1>1, <1>3, SizesKept DEF Sizes, TypeOK, Members

LEMMA ProcessSizes ==
  ASSUME Sizes, Stop \/ Vanish \/ Restart
  PROVE  Sizes'
<1>1. CASE Stop
  BY <1>1, SizesKept DEF Sizes, TypeOK, Members, Stop, tracker, roster, writer
<1>2. CASE Vanish
  <2>1. /\ UNCHANGED <<heard, status, file>>
        /\ phase' = "down" /\ dispatch' = Nil /\ loop' = "done"
        /\ nodes' = Nothing /\ entered' = Nothing /\ cache' = Nothing /\ snap' = Nothing
        /\ pins' = {} /\ settled' = {}
    BY <1>2 DEF Vanish
  <2>2. QED
    BY <2>1, EmptyStored, SizesKept DEF Sizes, TypeOK
<1>3. CASE Restart
  <2>1. /\ UNCHANGED <<heard, dispatch, nodes, entered, pins, status, settled, snap, file>>
        /\ phase' = "running" /\ loop' = "select" /\ cache' = Loaded(file)
    BY <1>3 DEF Restart, tracker, roster
  <2>2. Stored(cache')
    BY <2>1, StoredPart DEF Loaded, Sizes
  <2>3. QED
    BY <2>1, <2>2, SizesKept DEF Sizes, TypeOK, Members
<1>4. QED
  BY <1>1, <1>2, <1>3

LEMMA SizesStep == Sizes /\ [Next]_vars => Sizes'
<1> SUFFICES ASSUME Sizes, [Next]_vars PROVE Sizes'
  OBVIOUS
<1>1. CASE UNCHANGED vars
  BY <1>1 DEF vars, tracker, roster, writer, Sizes, TypeOK, Members, Tracked, Stored
<1>2. CASE Next
  BY <1>2, HeardSizes, AnnounceSizes, StatusSizes, WriterSizes, ClockSizes,
     ProcessSizes DEF Next
<1>3. QED
  BY <1>1, <1>2

LEMMA SizesInit == Init => Sizes
  BY EmptyStored, FS_EmptySet DEF Init, Sizes, TypeOK, Members, Tracked, Stored

-----------------------------------------------------------------------------
(* The order of the nodes.                                                   *)

LEMMA AnnounceOrdered ==
  ASSUME Sizes, Ordered, OnAnnounce
  PROVE  Ordered'
<1>1. heard' = heard /\ dispatch # Nil /\ dispatch' = Nil
  BY DEF OnAnnounce
<1>2. CASE UNCHANGED tracker
  BY <1>1, <1>2 DEF Ordered, tracker
<1>3. ASSUME dispatch \in Nodes, NEW usable \in BOOLEAN, Track(dispatch, usable)
      PROVE  Ordered'
  <2>1. PICK n \in Nodes : n = dispatch
    BY <1>3
  <2>2. /\ n \in DOMAIN nodes'
        /\ nodes'[n] = [first |-> FirstHeard(n), last |-> heard,
                        age |-> 0, usable |-> usable]
        /\ \A m \in DOMAIN nodes' \ {n} :
              m \in DOMAIN nodes /\ nodes'[m] = nodes[m] /\ entered'[m] = entered[m]
        /\ entered'[n] = IF n \in DOMAIN nodes THEN entered[n] ELSE heard
    BY <1>3, <2>1, TrackedTable DEF Sizes, TypeOK
  <2>3. /\ nodes'[n].first = FirstHeard(n) /\ nodes'[n].last = heard
        /\ heard \in Nat
    BY <2>2 DEF Sizes
  <2>4. \A m \in DOMAIN nodes : /\ nodes[m].first \in Nat /\ nodes[m].last \in Nat
                                /\ nodes[m].first <= nodes[m].last
                                /\ nodes[m].last < heard
                                /\ entered[m] = nodes[m].first
    BY <1>1 DEF Ordered, Sizes, Tracked, NodeEntry
  <2>5. /\ entered'[n] = nodes'[n].first
        /\ nodes'[n].first <= nodes'[n].last
        /\ \A m \in DOMAIN nodes' \ {n} :
              nodes[m].first # nodes'[n].first /\ nodes[m].last # nodes'[n].last
    <3>1. CASE n \in DOMAIN nodes
      BY <2>2, <2>3, <2>4, <3>1 DEF FirstHeard, Ordered
    <3>2. CASE n \notin DOMAIN nodes
      BY <2>2, <2>3, <2>4, <3>2 DEF FirstHeard
    <3>3. QED
      BY <3>1, <3>2
  <2>6. ASSUME NEW m \in DOMAIN nodes'
        PROVE  /\ entered'[m] = nodes'[m].first
               /\ nodes'[m].first <= nodes'[m].last /\ nodes'[m].last <= heard'
               /\ \A k \in DOMAIN nodes' \ {m} :
                     nodes'[k].first # nodes'[m].first /\ nodes'[k].last # nodes'[m].last
    <3>1. CASE m = n
      BY <1>1, <2>2, <2>3, <2>5, <3>1
    <3>2. CASE m # n
      <4>1. m \in DOMAIN nodes /\ nodes'[m] = nodes[m] /\ entered'[m] = entered[m]
        BY <2>2, <3>2
      <4>2. ASSUME NEW k \in DOMAIN nodes' \ {m}
            PROVE  nodes'[k].first # nodes'[m].first /\ nodes'[k].last # nodes'[m].last
        <5>1. CASE k = n
          BY <2>5, <3>2, <4>1, <5>1
        <5>2. CASE k # n
          BY <2>2, <4>1, <5>2 DEF Ordered
        <5>3. QED
          BY <5>1, <5>2
      <4>3. QED
        BY <1>1, <2>3, <2>4, <4>1, <4>2
    <3>3. QED
      BY <3>1, <3>2
  <2>7. QED
    BY <1>1, <2>6 DEF Ordered
<1>4. QED
  BY <1>2, <1>3 DEF OnAnnounce

LEMMA OrderedStep == Sizes /\ Ordered /\ [Next]_vars => Ordered'
<1> SUFFICES ASSUME Sizes, Ordered, [Next]_vars PROVE Ordered'
  OBVIOUS
<1>1. CASE UNCHANGED <<nodes, entered, heard, dispatch>>
  BY <1>1 DEF Ordered
<1>2. ASSUME NEW d \in Dests, Hear(d)
      PROVE  Ordered'
  <2>1. UNCHANGED <<nodes, entered>> /\ heard' = heard + 1
    BY <1>2 DEF Hear, tracker
  <2>2. heard \in Nat /\ \A n \in DOMAIN nodes : nodes[n].last \in Nat
    BY DEF Sizes, Tracked, NodeEntry
  <2>3. QED
    BY <2>1, <2>2 DEF Ordered
<1>3. CASE OnAnnounce
  BY <1>3, AnnounceOrdered
<1>4. CASE Tick
  <2>1. StaleAfter \in Nat /\ Tracked(nodes)
    BY DiscoveryAssumption DEF DiscoveryAssumption, Sizes
  <2>2. /\ DOMAIN nodes' = DOMAIN nodes
        /\ \A n \in DOMAIN nodes : /\ nodes'[n].last = nodes[n].last
                                   /\ nodes'[n].first = nodes[n].first
    BY <1>4, <2>1, AgedTracked DEF Tick
  <2>3. UNCHANGED <<entered, heard, dispatch>>
    BY <1>4 DEF Tick
  <2>4. QED
    BY <2>2, <2>3 DEF Ordered
<1>5. CASE Vanish
  BY <1>5, NothingIsEmpty DEF Vanish, Ordered
<1>6. QED
  BY <1>1, <1>2, <1>3, <1>4, <1>5
  DEF Next, vars, tracker, ChangeStatus, PinMembers, TakeKick, Drain, Snapshot,
      SaveNow, Stop, Restart

-----------------------------------------------------------------------------
(* The way of an announce into the file.                                     *)

\* Whether a map is ahead of another depends on what it has of each announce.
LEMMA AheadSame ==
  ASSUME NEW f, NEW g, NEW f2, NEW g2,
         DOMAIN f2 = DOMAIN f, \A x \in DOMAIN f : f2[x].last = f[x].last,
         DOMAIN g2 = DOMAIN g, \A x \in DOMAIN g : g2[x].last = g[x].last
  PROVE  Ahead(f2, g2) <=> Ahead(f, g)
  BY DEF Ahead

LEMMA FollowedStep ==
  ASSUME Sizes, SnapFollowed, NoLostAnnounce, [Next]_vars
  PROVE  SnapFollowed' /\ NoLostAnnounce'
<1>1. CASE UNCHANGED <<phase, dispatch, cache, snap, file, kick, loop, unsaved>>
  BY <1>1 DEF SnapFollowed, NoLostAnnounce, Up, Ahead
<1>2. ASSUME NEW d \in Dests, Hear(d)
      PROVE  SnapFollowed' /\ NoLostAnnounce'
  <2>1. dispatch' = d /\ d # Nil
    BY <1>2, DiscoveryAssumption DEF Hear, DiscoveryAssumption, Dests
  <2>2. QED
    BY <2>1 DEF SnapFollowed, NoLostAnnounce
<1>3. CASE OnAnnounce
  BY <1>3 DEF OnAnnounce, SnapFollowed, NoLostAnnounce
<1>4. CASE TakeKick \/ Drain
  BY <1>4 DEF TakeKick, Drain, SnapFollowed, NoLostAnnounce
<1>5. CASE Snapshot
  <2>1. snap' = cache /\ cache' = cache
        /\ loop' \in {"saving", "finalSaving"}
    BY <1>5 DEF Snapshot
  <2>2. ~Ahead(cache', snap')
    BY <2>1 DEF Ahead
  <2>3. QED
    BY <2>1, <2>2 DEF SnapFollowed, NoLostAnnounce
<1>6. ASSUME NEW written \in BOOLEAN, SaveNow(written)
      PROVE  SnapFollowed' /\ NoLostAnnounce'
  <2>1. /\ loop \in {"saving", "finalSaving"} /\ loop' \in {"select", "done"}
        /\ kick' = kick /\ dispatch' = dispatch /\ cache' = cache
        /\ unsaved' = ~written /\ (written => file' = snap)
    BY <1>6 DEF SaveNow, AfterSave, KickLeft
  <2>2. SnapFollowed'
    BY <2>1 DEF SnapFollowed
  <2>3. CASE written
    <3>1. Ahead(cache', file') => Ahead(cache, snap)
      BY <2>1, <2>3 DEF Ahead
    <3>2. QED
      BY <2>1, <2>2, <3>1 DEF SnapFollowed, NoLostAnnounce
  <2>4. CASE ~written
    BY <2>1, <2>2, <2>4 DEF NoLostAnnounce
  <2>5. QED
    BY <2>3, <2>4
<1>7. CASE Tick
  <2>1. FileMaxAge \in Nat /\ Stored(cache) /\ Stored(snap) /\ Stored(file)
    BY DiscoveryAssumption DEF DiscoveryAssumption, Sizes
  <2>2. /\ DOMAIN cache' = DOMAIN cache /\ DOMAIN snap' = DOMAIN snap
        /\ DOMAIN file' = DOMAIN file
        /\ \A x \in DOMAIN cache : cache'[x].last = cache[x].last
        /\ \A x \in DOMAIN snap : snap'[x].last = snap[x].last
        /\ \A x \in DOMAIN file : file'[x].last = file[x].last
    BY <1>7, <2>1, AgedStored DEF Tick
  <2>3. /\ Ahead(cache', file') <=> Ahead(cache, file)
        /\ Ahead(cache', snap') <=> Ahead(cache, snap)
    BY <2>2, AheadSame
  <2>4. UNCHANGED <<phase, dispatch, kick, loop, unsaved>>
    BY <1>7 DEF Tick
  <2>5. /\ Ahead(cache, file)' <=> Ahead(cache', file')
        /\ Ahead(cache, snap)' <=> Ahead(cache', snap')
    BY DEF Ahead
  <2>6. QED
    BY <2>3, <2>4, <2>5 DEF SnapFollowed, NoLostAnnounce, Up
<1>8. CASE Stop
  BY <1>8 DEF Stop, writer, SnapFollowed, NoLostAnnounce, Up, Ahead
<1>9. CASE Vanish
  BY <1>9 DEF Vanish, SnapFollowed, NoLostAnnounce, Up
<1>10. CASE Restart
  <2>1. cache' = Loaded(file) /\ file' = file /\ loop' = "select"
    BY <1>10 DEF Restart
  <2>2. ~Ahead(cache', file')
    BY <2>1 DEF Ahead, Loaded, Restrict
  <2>3. QED
    BY <2>1, <2>2 DEF SnapFollowed, NoLostAnnounce
<1>11. QED
  BY <1>1, <1>2, <1>3, <1>4, <1>5, <1>6, <1>7, <1>8, <1>9, <1>10
  DEF Next, vars, writer, ChangeStatus, PinMembers

-----------------------------------------------------------------------------
(* The pins.                                                                 *)

LEMMA SettledStep == Sizes /\ SettledPinned /\ [Next]_vars => SettledPinned'
<1> SUFFICES ASSUME Sizes, SettledPinned, [Next]_vars PROVE SettledPinned'
  OBVIOUS
<1>1. CASE UNCHANGED <<phase, pins, settled>>
  BY <1>1 DEF SettledPinned
<1>2. CASE PinMembers
  BY <1>2 DEF PinMembers, Hashes, SettledPinned, Up
<1>3. ASSUME NEW p \in Peers, NEW s, ChangeStatus(p, s)
      PROVE  SettledPinned'
  BY <1>3 DEF ChangeStatus, SettledPinned, Up
<1>4. CASE Stop \/ Vanish \/ Restart
  BY <1>4 DEF Stop, Vanish, Restart, roster, SettledPinned
<1>5. QED
  BY <1>1, <1>2, <1>3, <1>4
  DEF Next, vars, roster, Hear, OnAnnounce, TakeKick, Drain, Snapshot, SaveNow, Tick

\* The inductive invariant holds: sizes, the order in which nodes were heard
\* (propagation.go:160-202), a snapshot behind the cache is followed by another
\* (announces.go:170-203), and members who are settled are pinned.
THEOREM DiscoveryInvariant == Spec => []Inv
<1>1. Init => Inv
  <2> SUFFICES ASSUME Init PROVE Inv
    OBVIOUS
  <2>1. Sizes
    BY SizesInit
  <2>2. Ordered
    BY NothingIsEmpty DEF Init, Ordered
  <2>3. SnapFollowed /\ NoLostAnnounce
    BY NothingIsEmpty DEF Init, SnapFollowed, NoLostAnnounce, Ahead
  <2>4. QED
    BY <2>1, <2>2, <2>3 DEF Init, Inv, SettledPinned
<1>2. Inv /\ [Next]_vars => Inv'
  BY SizesStep, OrderedStep, FollowedStep, SettledStep DEF Inv
<1>3. QED
  BY <1>1, <1>2, PTL DEF Spec

\* The state has its type, and the table of nodes and the cache stay within
\* their sizes, however many destinations announce themselves
\* (propagation.go:160-181).
THEOREM TypeCorrect == Spec => []TypeOK
<1>1. Inv => TypeOK
  BY DEF Inv, Sizes
<1>2. QED
  BY <1>1, DiscoveryInvariant, PTL

\* An announce the file does not have is on its way there, unless the last
\* write failed (announces.go:170-203).
THEOREM AnnouncesReachFile == Spec => []NoLostAnnounce
<1>1. Inv => NoLostAnnounce
  BY DEF Inv
<1>2. QED
  BY <1>1, DiscoveryInvariant, PTL

\* No stranger pushes a settled member out of the cache while anyone else is
\* in it (service.go:826-854).
THEOREM MembersStay == Spec => MembersKept
<1>1. Inv /\ [Next]_vars =>
        [\A d \in DOMAIN cache \ DOMAIN cache' :
          d \in settled /\ phase' # "down" => DOMAIN cache \subseteq pins]_vars
  <2> SUFFICES ASSUME Inv, Next, NEW x \in DOMAIN cache \ DOMAIN cache',
                      x \in settled, phase' # "down"
               PROVE  DOMAIN cache \subseteq pins
    BY DEF vars
  <2>1. Sizes /\ x \in pins /\ phase # "down"
    BY DEF Inv, SettledPinned
  <2>2. ASSUME NEW d \in Dests, Hear(d)
        PROVE  DOMAIN cache \subseteq pins
    BY <2>1, <2>2, HeardSizes
  <2>3. CASE Tick
    <3>1. DOMAIN cache' = DOMAIN cache
      BY <2>3 DEF Tick, Aged
    <3>2. QED
      BY <3>1
  <2>4. QED
    BY <2>1, <2>2, <2>3
    DEF Next, OnAnnounce, ChangeStatus, PinMembers, TakeKick, Drain, Snapshot,
        SaveNow, Stop, Vanish, Restart
<1>2. QED
  BY <1>1, DiscoveryInvariant, PTL DEF Spec, MembersKept

-----------------------------------------------------------------------------
(* The node in use.                                                          *)

\* The scan of Current finds a node, and none was heard first before it.
LEMMA FirstFound ==
  ASSUME NEW f, NEW S, S # {}, \A x \in S : f[x].first \in Nat
  PROVE  \E n \in S : \A m \in S : f[n].first <= f[m].first
<1>1. PICK least \in {f[x].first : x \in S} : \A t \in {f[x].first : x \in S} : least <= t
  BY LeastExists
<1>2. QED
  BY <1>1

LEMMA CurrentFound ==
  ASSUME Sizes, Pinned = Nil, Candidates # {}
  PROVE  /\ Current \in Candidates
         /\ \A m \in Candidates : nodes[Current].first <= nodes[m].first
<1>1. \A m \in Candidates : nodes[m].first \in Nat
  BY DEF Candidates, Fresh, Sizes, Tracked, NodeEntry
<1>2. \E n \in Candidates : \A m \in Candidates : nodes[n].first <= nodes[m].first
  BY <1>1, FirstFound
<1>3. QED
  BY <1>2 DEF Current

LEMMA CurrentFoundNext ==
  ASSUME Sizes', Pinned = Nil, Candidates' # {}
  PROVE  /\ Current' \in Candidates'
         /\ \A m \in Candidates' : nodes'[Current'].first <= nodes'[m].first
<1>1. \A m \in Candidates' : nodes'[m].first \in Nat
  BY DEF Candidates, Fresh, Sizes, Tracked, NodeEntry
<1>2. \E n \in Candidates' : \A m \in Candidates' : nodes'[n].first <= nodes'[m].first
  BY <1>1, FirstFound
<1>3. QED
  BY <1>2 DEF Current

\* A node in use is a candidate, unless it is pinned.
LEMMA CurrentIsCandidate ==
  ASSUME Sizes, Pinned = Nil, NEW n \in Nodes, n = Current
  PROVE  n \in Candidates
<1>1. n # Nil
  BY DiscoveryAssumption DEF DiscoveryAssumption
<1>2. Candidates # {}
  BY <1>1 DEF Current
<1>3. QED
  BY <1>2, CurrentFound

\* A node that is still a candidate stays in use, unless a node that was none
\* before precedes it.
LEMMA CurrentStays ==
  ASSUME Sizes, Sizes', Ordered', Pinned = Nil, NEW n \in Candidates, n = Current,
         n \in Candidates', nodes'[n].first = nodes[n].first,
         \A m \in Candidates' \cap Candidates : nodes'[m].first = nodes[m].first
  PROVE  \/ Current' = n
         \/ /\ Current' \in Candidates' \ Candidates
            /\ nodes'[Current'].first < nodes[n].first
<1>1. \A m \in Candidates : nodes[n].first <= nodes[m].first
  BY CurrentFound
<1>2. /\ Current' \in Candidates'
      /\ \A m \in Candidates' : nodes'[Current'].first <= nodes'[m].first
  BY CurrentFoundNext
<1>3. PICK c \in Candidates' : c = Current'
  BY <1>2
<1>4. /\ nodes'[c].first <= nodes'[n].first
      /\ nodes'[c].first \in Nat /\ nodes'[n].first \in Nat
      /\ c \in DOMAIN nodes' /\ n \in DOMAIN nodes'
  BY <1>2, <1>3 DEF Candidates, Fresh, Sizes, Tracked, NodeEntry
<1>5. c # n => nodes'[c].first # nodes'[n].first
  BY <1>4 DEF Ordered
<1>6. CASE c \in Candidates
  <2>1. nodes'[c].first = nodes[c].first /\ nodes[n].first <= nodes[c].first
    BY <1>1, <1>3, <1>6
  <2>2. nodes'[c].first = nodes'[n].first
    BY <1>4, <2>1
  <2>3. QED
    BY <1>3, <1>5, <2>2
<1>7. CASE c \notin Candidates
  BY <1>3, <1>4, <1>5, <1>7
<1>8. QED
  BY <1>6, <1>7

\* Why the node in use may be given up.
GivenUp(n) ==
    \/ n \in DOMAIN nodes' /\ (nodes'[n].age > StaleAfter \/ ~nodes'[n].usable)
    \/ /\ n \notin DOMAIN nodes'
       /\ Cardinality(Fresh(nodes)) = MaxNodes
       /\ \A m \in DOMAIN nodes \ {n} : nodes[m].last > nodes[n].last
    \/ /\ Current' \in DOMAIN nodes \ Candidates
       /\ entered[Current'] < entered[n]

\* The passing of time takes a node out of use only by making it stale.
LEMMA ClockKeeps ==
  ASSUME Sizes, Sizes', Ordered', Pinned = Nil, NEW n \in Candidates, n = Current,
         Current' # n, Tick
  PROVE  GivenUp(n)
<1>1. StaleAfter \in Nat /\ Tracked(nodes)
  BY DiscoveryAssumption DEF DiscoveryAssumption, Sizes
<1>2. /\ DOMAIN nodes' = DOMAIN nodes
      /\ \A m \in DOMAIN nodes :
            /\ nodes'[m].first = nodes[m].first
            /\ nodes'[m].usable = nodes[m].usable
            /\ nodes[m].age <= nodes'[m].age
  BY <1>1, AgedTracked DEF Tick
<1>3. \A m \in DOMAIN nodes : /\ nodes[m].age \in Nat
                              /\ nodes'[m].age \in Nat
  BY <1>2 DEF Sizes, Tracked, NodeEntry
<1>4. Candidates' \subseteq Candidates
  BY <1>1, <1>2, <1>3 DEF Candidates, Fresh
<1>5. n \in Candidates' => FALSE
  BY <1>2, <1>4, CurrentStays DEF Candidates, Fresh
<1>6. n \in DOMAIN nodes' /\ ~(nodes'[n].age <= StaleAfter /\ nodes'[n].usable)
  BY <1>2, <1>5 DEF Candidates, Fresh
<1>7. QED
  BY <1>1, <1>2, <1>3, <1>6 DEF GivenUp, Candidates, Fresh

\* An announce takes a node out of use only as NodeKept says.
LEMMA AnnounceKeeps ==
  ASSUME Sizes, Ordered, Sizes', Ordered', Pinned = Nil, NEW n \in Candidates, n = Current,
         Current' # n, dispatch # Nil, dispatch \in Nodes,
         NEW usable \in BOOLEAN, Track(dispatch, usable)
  PROVE  GivenUp(n)
<1>1. PICK d \in Nodes : d = dispatch
  OBVIOUS
<1>2. /\ d \in DOMAIN nodes'
      /\ nodes'[d] = [first |-> FirstHeard(d), last |-> heard,
                      age |-> 0, usable |-> usable]
      /\ \A m \in DOMAIN nodes' \ {d} : m \in DOMAIN nodes /\ nodes'[m] = nodes[m]
      /\ d \in DOMAIN nodes => DOMAIN nodes' = DOMAIN nodes
      /\ \A m \in Fresh(nodes) \ DOMAIN nodes' :
            /\ Fresh(nodes) = DOMAIN nodes /\ Cardinality(Fresh(nodes)) = MaxNodes
            /\ \A y \in DOMAIN nodes : nodes[m].last <= nodes[y].last
  BY <1>1, TrackedTable DEF Sizes, TypeOK
<1>3. /\ \A m \in DOMAIN nodes : /\ nodes[m].first \in Nat /\ nodes[m].last \in Nat
                                 /\ nodes[m].first <= nodes[m].last
                                 /\ nodes[m].last < heard
                                 /\ entered[m] = nodes[m].first
      /\ heard \in Nat /\ n \in Fresh(nodes) /\ n \in DOMAIN nodes
  BY DEF Ordered, Sizes, Tracked, NodeEntry, Candidates, Fresh
<1>4. CASE n \notin DOMAIN nodes'
  <2>1. /\ Cardinality(Fresh(nodes)) = MaxNodes
        /\ \A y \in DOMAIN nodes : nodes[n].last <= nodes[y].last
    BY <1>2, <1>3, <1>4
  <2>2. \A m \in DOMAIN nodes \ {n} : nodes[m].last > nodes[n].last
    BY <1>3, <2>1 DEF Ordered
  <2>3. QED
    BY <1>4, <2>1, <2>2 DEF GivenUp
<1>5. CASE n \in DOMAIN nodes' /\ n \notin Candidates'
  <2>1. n = d
    BY <1>2, <1>3, <1>5 DEF Candidates, Fresh
  <2>2. nodes'[n].age = 0 /\ nodes'[n].usable = usable
    BY <1>2, <2>1
  <2>3. StaleAfter \in Nat
    BY DiscoveryAssumption DEF DiscoveryAssumption
  <2>4. ~nodes'[n].usable
    BY <1>5, <2>2, <2>3 DEF Candidates, Fresh
  <2>5. QED
    BY <1>5, <2>4 DEF GivenUp
<1>6. CASE n \in Candidates'
  <2>1. ASSUME NEW m \in DOMAIN nodes', m \in DOMAIN nodes
        PROVE  nodes'[m].first = nodes[m].first
    <3>1. CASE m = d
      BY <1>2, <2>1, <3>1 DEF FirstHeard
    <3>2. CASE m # d
      BY <1>2, <3>2
    <3>3. QED
      BY <3>1, <3>2
  <2>2. /\ Current' \in Candidates' \ Candidates
        /\ nodes'[Current'].first < nodes[n].first
    <3>1. /\ nodes'[n].first = nodes[n].first
          /\ \A m \in Candidates' \cap Candidates : nodes'[m].first = nodes[m].first
      BY <1>3, <1>6, <2>1 DEF Candidates, Fresh
    <3>2. QED
      BY <1>6, <3>1, CurrentStays
  <2>3. PICK c \in DOMAIN nodes' : c = Current'
    BY <2>2 DEF Candidates, Fresh
  <2>4. c \in DOMAIN nodes
    <3>1. CASE c = d
      <4>1. nodes'[d].first = FirstHeard(d)
        BY <1>2
      <4>2. ASSUME d \notin DOMAIN nodes
            PROVE  FALSE
        <5>1. nodes'[Current'].first = heard
          BY <2>3, <3>1, <4>1, <4>2 DEF FirstHeard
        <5>2. heard < nodes[n].first
          BY <2>2, <5>1
        <5>3. QED
          BY <1>3, <5>2
      <4>3. QED
        BY <3>1, <4>2
    <3>2. CASE c # d
      BY <1>2, <3>2
    <3>3. QED
      BY <3>1, <3>2
  <2>5. entered[c] < entered[n]
    BY <1>3, <2>1, <2>2, <2>3, <2>4
  <2>6. QED
    BY <2>2, <2>3, <2>4, <2>5 DEF GivenUp
<1>7. QED
  BY <1>4, <1>5, <1>6

\* The node in use is given up only when it is silent or useless, for a node that
\* has been known longer, or to a flood of as many others as the table holds, all
\* heard since its last announce (propagation.go:26-32, 160-202).
THEOREM NodeStays == Spec => NodeKept
<1>1. Inv /\ Inv' /\ [Next]_vars =>
        [\A n \in Nodes :
          n = Current /\ Current' # n /\ phase' # "down" =>
             \/ n \in DOMAIN nodes' /\ (nodes'[n].age > StaleAfter \/ ~nodes'[n].usable)
             \/ /\ n \notin DOMAIN nodes'
                /\ Cardinality(Fresh(nodes)) = MaxNodes
                /\ \A m \in DOMAIN nodes \ {n} : nodes[m].last > nodes[n].last
             \/ /\ Current' \in DOMAIN nodes \ Candidates
                /\ entered[Current'] < entered[n]]_vars
  <2> SUFFICES ASSUME Inv, Inv', Next, NEW n \in Nodes, n = Current, Current' # n,
                      phase' # "down"
               PROVE  GivenUp(n)
    BY DEF vars, GivenUp
  <2>1. Sizes /\ Ordered /\ Sizes' /\ Ordered'
    BY DEF Inv
  <2>2. Pinned = Nil
    BY DEF Current
  <2>3. n \in Candidates
    BY <2>1, <2>2, CurrentIsCandidate
  <2>4. nodes' # nodes
    <3>1. ASSUME nodes' = nodes
          PROVE  FALSE
      <4>1. Candidates' = Candidates
        BY <3>1 DEF Candidates, Fresh
      <4>2. Current' = Current
        BY <3>1, <4>1 DEF Current
      <4>3. QED
        BY <4>2
    <3>2. QED
      BY <3>1
  <2>5. CASE Tick
    BY <2>1, <2>2, <2>3, <2>5, ClockKeeps
  <2>6. CASE OnAnnounce
    BY <2>1, <2>2, <2>3, <2>4, <2>6, AnnounceKeeps DEF OnAnnounce, tracker
  <2>7. QED
    BY <2>4, <2>5, <2>6
    DEF Next, Hear, ChangeStatus, PinMembers, TakeKick, Drain, Snapshot, SaveNow,
        Stop, Vanish, Restart, tracker
<1>2. QED
  BY <1>1, DiscoveryInvariant, PTL DEF Spec, NodeKept
=============================================================================
