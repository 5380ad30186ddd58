---------------------------- MODULE RelayProofs ----------------------------
(***************************************************************************)
(* Theorems about Relay, and with it about IdMap: for every set of users,  *)
(* every policy, window and cap, and any number of messages, bubbles and   *)
(* restarts.                                                               *)
(***************************************************************************)
EXTENDS Relay, FiniteSetTheorems, SequenceTheorems, WellFoundedInduction, TLAPS

-----------------------------------------------------------------------------
(* The least and the greatest of a set of numbers.                           *)

LEMMA LeastOf ==
  ASSUME NEW S \in SUBSET Nat, S # {}
  PROVE  Cache!Min(S) \in S /\ \A y \in S : Cache!Min(S) <= y
<1>1. PICK x \in S : \A y \in S : ~ (<<y, x>> \in OpToRel(<, Nat))
  BY NatLessThanWellFounded, WFMin
<1>2. ASSUME NEW y \in S
      PROVE  x <= y
  <2>1. ~ (<<y, x>> \in OpToRel(<, Nat))
    BY <1>1
  <2>2. ~ (y < x)
    BY <2>1 DEF OpToRel
  <2>3. QED
    BY <2>2
<1>3. QED
  BY <1>2 DEF Cache!Min

LEMMA GreatestOf ==
  ASSUME NEW n \in Nat, NEW S \in SUBSET (0 .. n), S # {}
  PROVE  Cache!Max(S) \in S /\ \A y \in S : Cache!Max(S) >= y
<1> DEFINE T == {k \in 0 .. n : n - k \in S}
<1>1. T \in SUBSET Nat /\ T # {}
  <2>1. PICK y \in S : y \in 0 .. n
    OBVIOUS
  <2>2. n - y \in 0 .. n /\ n - (n - y) = y
    BY <2>1
  <2>3. n - y \in T
    BY <2>1, <2>2
  <2>4. T \in SUBSET Nat
    OBVIOUS
  <2>5. QED
    BY <2>3, <2>4
<1>2. PICK k \in T : \A j \in T : k <= j
  BY <1>1, LeastOf
<1>3. n - k \in S
  OBVIOUS
<1>4. \A y \in S : n - k >= y
  <2>1. TAKE y \in S
  <2>2. y \in 0 .. n /\ n - y \in 0 .. n /\ n - (n - y) = y
    OBVIOUS
  <2>3. n - y \in T
    BY <2>2
  <2>4. QED
    BY <1>2, <2>2, <2>3
<1>5. QED
  BY <1>3, <1>4 DEF Cache!Max

-----------------------------------------------------------------------------
(* The recency list.                                                         *)

Distinct(l) == \A i, j \in 1 .. Len(l) : l[i] = l[j] => i = j

LEMMA InList ==
  ASSUME NEW T, NEW l \in Seq(T), NEW x
  PROVE  x \in Cache!Range(l) <=> \E i \in 1 .. Len(l) : x = l[i]
<1>1. DOMAIN l = 1 .. Len(l)
  BY LenProperties
<1>2. QED
  BY <1>1 DEF Cache!Range

LEMMA PlaceOf ==
  ASSUME NEW T, NEW l \in Seq(T), NEW b
  PROVE  /\ Len(l) \in Nat
         /\ Cache!Place(l, b) \in 1 .. Len(l) + 1
         /\ Cache!Place(l, b) <= Len(l) => l[Cache!Place(l, b)] = b
         /\ \A i \in 1 .. Len(l) : l[i] = b => Cache!Place(l, b) <= i
<1> DEFINE S == {i \in 1 .. Len(l) : l[i] = b} \cup {Len(l) + 1}
<1>1. Len(l) \in Nat
  BY LenProperties
<1>2. S \in SUBSET Nat /\ S # {}
  BY <1>1
<1>3. Cache!Min(S) \in S /\ \A y \in S : Cache!Min(S) <= y
  BY <1>2, LeastOf
<1>4. Cache!Place(l, b) = Cache!Min(S)
  BY DEF Cache!Place
<1> DEFINE p == Cache!Place(l, b)
<1>5. p \in S /\ \A y \in S : p <= y
  BY <1>3, <1>4
<1> HIDE DEF p
<1>6. /\ p \in 1 .. Len(l) + 1 /\ (p <= Len(l) => l[p] = b)
      /\ \A i \in 1 .. Len(l) : l[i] = b => p <= i
  BY <1>1, <1>5
<1>7. QED
  BY <1>1, <1>6 DEF p

\* The bubble is in front, the others follow in their order, nothing is lost
\* and nothing is there twice.
LEMMA FrontList ==
  ASSUME NEW T, NEW l \in Seq(T), NEW b \in T, Distinct(l)
  PROVE  LET L == Cache!MovedToFront(l, b)
         IN  /\ L \in Seq(T) /\ Distinct(L) /\ Len(L) >= 1 /\ L[1] = b
             /\ \A x : x \in Cache!Range(L) <=> x = b \/ x \in Cache!Range(l)
<1> DEFINE p == Cache!Place(l, b)
           k == IF p > Len(l) THEN p ELSE Len(l)
           L == Cache!MovedToFront(l, b)
<1>1. /\ Len(l) \in Nat /\ p \in 1 .. Len(l) + 1
      /\ p <= Len(l) => l[p] = b
      /\ \A i \in 1 .. Len(l) : l[i] = b => p <= i
  BY PlaceOf
<1>2. L = [i \in 1 .. k |-> IF i = 1 THEN b ELSE IF i <= p THEN l[i - 1] ELSE l[i]]
  BY DEF Cache!MovedToFront
<1> HIDE DEF p, L
<1>3. k \in Nat /\ k >= 1 /\ k >= Len(l) /\ p <= k /\ k <= Len(l) + 1
  BY <1>1
<1>4. \A i \in 1 .. Len(l) : l[i] \in T
  BY ElementOfSeq
<1>5. \A i \in 1 .. k : (IF i = 1 THEN b ELSE IF i <= p THEN l[i - 1] ELSE l[i]) \in T
  <2>1. TAKE i \in 1 .. k
  <2>2. CASE i = 1
    BY <2>2
  <2>3. CASE i # 1 /\ i <= p
    <3>1. i - 1 \in 1 .. Len(l)
      BY <1>1, <1>3, <2>3
    <3>2. QED
      BY <1>4, <2>3, <3>1
  <2>4. CASE i # 1 /\ ~ (i <= p)
    <3>1. i \in 1 .. Len(l)
      BY <1>1, <1>3, <2>4
    <3>2. QED
      BY <1>4, <2>4, <3>1
  <2>5. QED
    BY <2>2, <2>3, <2>4
<1>6. L \in Seq(T)
  BY <1>2, <1>3, <1>5, IsASeq
<1>7. DOMAIN L = 1 .. k /\ Len(L) = k
  <2>1. DOMAIN L = 1 .. k
    BY <1>2
  <2>2. Len(L) \in Nat /\ DOMAIN L = 1 .. Len(L)
    BY <1>6, LenProperties
  <2>3. QED
    BY <1>3, <2>1, <2>2
<1>8. /\ L[1] = b
      /\ \A i \in 2 .. p : L[i] = l[i - 1]
      /\ \A i \in p + 1 .. Len(l) : L[i] = l[i]
  BY <1>1, <1>2, <1>3
<1> HIDE DEF k
<1>9. \A i \in 2 .. k : /\ L[i] # b
                        /\ \E j \in 1 .. Len(l) : L[i] = l[j] /\ j = IF i <= p THEN i - 1 ELSE i
  <2>1. TAKE i \in 2 .. k
  <2>2. CASE i <= p
    <3>1. i - 1 \in 1 .. Len(l) /\ i \in 2 .. p /\ i - 1 < p
      BY <1>1, <1>3, <2>2
    <3>2. QED
      BY <1>1, <1>8, <2>2, <3>1
  <2>3. CASE ~ (i <= p)
    <3>1. i \in 1 .. Len(l) /\ i \in p + 1 .. Len(l) /\ p <= Len(l) /\ i # p /\ p \in 1 .. Len(l)
      BY <1>1, <1>3, <2>3 DEF k
    <3>2. l[i] # b
      BY <1>1, <3>1 DEF Distinct
    <3>3. QED
      BY <1>8, <2>3, <3>1, <3>2
  <2>4. QED
    BY <2>2, <2>3
<1>10. Distinct(L)
  <2>1. SUFFICES ASSUME NEW i \in 1 .. k, NEW j \in 1 .. k, L[i] = L[j]
                 PROVE  i = j
    BY <1>7 DEF Distinct
  <2>2. i = 1 <=> j = 1
    BY <1>3, <1>8, <1>9, <2>1
  <2>3. CASE i # 1
    <3>1. i \in 2 .. k /\ j \in 2 .. k
      BY <1>3, <2>2, <2>3
    <3>2. PICK i1 \in 1 .. Len(l) : L[i] = l[i1] /\ i1 = IF i <= p THEN i - 1 ELSE i
      BY <1>9, <3>1
    <3>3. PICK j1 \in 1 .. Len(l) : L[j] = l[j1] /\ j1 = IF j <= p THEN j - 1 ELSE j
      BY <1>9, <3>1
    <3>4. i1 = j1
      BY <2>1, <3>2, <3>3 DEF Distinct
    <3>5. \A q \in {i, j} : q > p => l[q] # b
      <4>1. ASSUME NEW q \in 2 .. k, q > p, l[q] = b
            PROVE  FALSE
        <5>1. L[q] = l[q]
          BY <1>1, <1>3, <1>9, <4>1
        <5>2. QED
          BY <1>9, <4>1, <5>1
      <4>2. QED
        BY <3>1, <4>1
    <3>6. i1 # p \/ j1 # p
      BY <1>1, <1>3, <3>1, <3>2, <3>3
    <3>7. QED
      BY <1>1, <3>1, <3>2, <3>3, <3>4, <3>6
  <2>4. QED
    BY <2>2, <2>3
<1>11. ASSUME NEW x
       PROVE  x \in Cache!Range(L) <=> x = b \/ x \in Cache!Range(l)
  <2>1. x \in Cache!Range(L) <=> \E i \in 1 .. k : x = L[i]
    BY <1>6, <1>7, InList
  <2>2. x \in Cache!Range(l) <=> \E i \in 1 .. Len(l) : x = l[i]
    BY InList
  <2>3. ASSUME NEW i \in 1 .. k, x = L[i]
        PROVE  x = b \/ \E j \in 1 .. Len(l) : x = l[j]
    <3>1. i = 1 \/ i \in 2 .. k
      BY <1>3
    <3>2. QED
      BY <1>8, <1>9, <2>3, <3>1
  <2>4. ASSUME NEW i \in 1 .. Len(l), x = l[i], x # b
        PROVE  \E j \in 1 .. k : x = L[j]
    <3>1. i # p
      BY <1>1, <2>4
    <3>2. CASE i < p
      <4>1. i + 1 \in 2 .. p /\ i + 1 \in 1 .. k /\ (i + 1) - 1 = i
        BY <1>1, <1>3, <3>2
      <4>2. L[i + 1] = l[i]
        BY <1>8, <4>1
      <4>3. QED
        BY <2>4, <4>1, <4>2
    <3>3. CASE i > p
      <4>1. i \in p + 1 .. Len(l) /\ i \in 1 .. k
        BY <1>1, <1>3, <3>3
      <4>2. QED
        BY <1>8, <2>4, <4>1
    <3>4. QED
      BY <1>1, <3>1, <3>2, <3>3
  <2>5. 1 \in 1 .. k
    BY <1>3
  <2>6. QED
    BY <1>8, <2>1, <2>2, <2>3, <2>4, <2>5
<1>12. QED
  BY <1>3, <1>6, <1>7, <1>8, <1>10, <1>11 DEF L

LEMMA RemovedList ==
  ASSUME NEW T, NEW l \in Seq(T), NEW b, Distinct(l)
  PROVE  LET L == Cache!Removed(l, b)
         IN  /\ L \in Seq(T) /\ Distinct(L)
             /\ \A x : x \in Cache!Range(l) /\ x # b => x \in Cache!Range(L)
<1> DEFINE p == Cache!Place(l, b)
           L == Cache!Removed(l, b)
<1>1. /\ Len(l) \in Nat /\ p \in 1 .. Len(l) + 1
      /\ p <= Len(l) => l[p] = b
  BY PlaceOf
<1>2. L = IF p > Len(l) THEN l
          ELSE [i \in 1 .. Len(l) - 1 |-> IF i < p THEN l[i] ELSE l[i + 1]]
  BY DEF Cache!Removed
<1> HIDE DEF p, L
<1>3. CASE p > Len(l)
  BY <1>2, <1>3 DEF L
<1>4. CASE p <= Len(l)
  <2> DEFINE k == Len(l) - 1
  <2>1. k \in Nat /\ Len(l) = k + 1
    BY <1>1, <1>4
  <2>2. L = [i \in 1 .. k |-> IF i < p THEN l[i] ELSE l[i + 1]]
    BY <1>1, <1>2, <1>4
  <2> HIDE DEF k
  <2>3. \A i \in 1 .. Len(l) : l[i] \in T
    BY ElementOfSeq
  <2>4. \A i \in 1 .. k : i \in 1 .. Len(l) /\ i + 1 \in 1 .. Len(l)
    BY <2>1
  <2>5. \A i \in 1 .. k : (IF i < p THEN l[i] ELSE l[i + 1]) \in T
    BY <2>3, <2>4
  <2>6. L \in Seq(T)
    BY <2>1, <2>2, <2>5, IsASeq
  <2>7. Len(L) = k
    <3>1. DOMAIN L = 1 .. k
      BY <2>2
    <3>2. Len(L) \in Nat /\ DOMAIN L = 1 .. Len(L)
      BY <2>6, LenProperties
    <3>3. QED
      BY <2>1, <3>1, <3>2
  <2>8. Distinct(L)
    <3>1. SUFFICES ASSUME NEW i \in 1 .. k, NEW j \in 1 .. k, L[i] = L[j]
                   PROVE  i = j
      BY <2>7 DEF Distinct
    <3>2. /\ L[i] = l[IF i < p THEN i ELSE i + 1]
          /\ L[j] = l[IF j < p THEN j ELSE j + 1]
      BY <2>2
    <3>3. (IF i < p THEN i ELSE i + 1) = (IF j < p THEN j ELSE j + 1)
      BY <2>4, <3>1, <3>2 DEF Distinct
    <3>4. QED
      BY <1>1, <2>1, <3>3
  <2>9. ASSUME NEW x, x \in Cache!Range(l), x # b
        PROVE  x \in Cache!Range(L)
    <3>1. PICK i \in 1 .. Len(l) : x = l[i]
      BY <2>9, InList
    <3>2. i # p
      BY <1>1, <1>4, <2>9, <3>1
    <3>3. CASE i < p
      <4>1. i \in 1 .. k
        BY <1>1, <1>4, <2>1, <3>3
      <4>2. L[i] = l[i]
        BY <2>2, <3>3, <4>1
      <4>3. QED
        BY <2>6, <2>7, <3>1, <4>1, <4>2, InList
    <3>4. CASE i > p
      <4>1. i - 1 \in 1 .. k /\ ~ (i - 1 < p) /\ (i - 1) + 1 = i
        BY <1>1, <1>4, <2>1, <3>4
      <4>2. L[i - 1] = l[i]
        BY <2>2, <4>1
      <4>3. QED
        BY <2>6, <2>7, <3>1, <4>1, <4>2, InList
    <3>5. QED
      BY <1>1, <3>2, <3>3, <3>4
  <2>10. QED
    BY <2>6, <2>8, <2>9 DEF L
<1>5. QED
  BY <1>1, <1>3, <1>4

-----------------------------------------------------------------------------
(* The message-id cache.                                                     *)

\* The index idx and the list l of the bubbles A with the views vw: every key
\* leads to a bubble that is in the list and has the key among its views.
Sound(idx, l, vw, A) ==
    /\ idx \in [DOMAIN idx -> A] /\ DOMAIN idx \subseteq MessageId
    /\ IsFiniteSet(DOMAIN idx)
    /\ l \in Seq(A) /\ Distinct(l)
    /\ \A id \in DOMAIN idx : /\ idx[id] \in Cache!Range(l)
                              /\ id \in Cache!Range(vw[idx[id]])

LEMMA CacheCount == \A S : Cache!Cardinality(S) = Cardinality(S)
  BY DEF Cache!Cardinality, Cardinality

LEMMA WithType ==
  ASSUME NEW f, NEW x, NEW v, NEW S, v \in S, \A y \in DOMAIN f \ {x} : f[y] \in S
  PROVE  Cache!With(f, x, v) \in [DOMAIN f \cup {x} -> S]
  BY DEF Cache!With

LEMMA InRange ==
  ASSUME NEW f, NEW y
  PROVE  y \in Cache!Range(f) <=> \E x \in DOMAIN f : f[x] = y
  BY DEF Cache!Range

\* The keys that are left lead to other bubbles, as before.
LEMMA UnindexedKeys ==
  ASSUME NEW A, NEW idx, NEW l, NEW vw, Sound(idx, l, vw, A), NEW S, NEW rest,
         rest = Cache!Unindexed(idx, vw, S)
  PROVE  /\ rest \in [DOMAIN rest -> A] /\ DOMAIN rest \subseteq MessageId
         /\ IsFiniteSet(DOMAIN rest)
         /\ \A id \in DOMAIN rest :
               id \in DOMAIN idx /\ rest[id] = idx[id] /\ idx[id] \notin S
<1> DEFINE D == DOMAIN idx \ Cache!KeysOf(vw, S)
<1>1. rest = [id \in D |-> idx[id]]
  BY DEF Cache!Unindexed, Cache!Restrict
<1>2. D = {id \in DOMAIN idx : \A b \in S : id \notin Cache!Range(vw[b])}
  BY DEF Cache!KeysOf
<1> HIDE DEF D
<1>3. /\ DOMAIN rest = D /\ D \subseteq DOMAIN idx
      /\ \A id \in D : rest[id] = idx[id] /\ idx[id] \in A
  BY <1>1, <1>2 DEF Sound
<1>4. rest \in [DOMAIN rest -> A] /\ DOMAIN rest \subseteq MessageId
  BY <1>1, <1>3 DEF Sound
<1>5. IsFiniteSet(DOMAIN rest)
  BY <1>3, FS_Subset DEF Sound
<1>6. \A id \in D : idx[id] \notin S
  BY <1>2, <1>3 DEF Sound
<1>7. QED
  BY <1>3, <1>4, <1>5, <1>6

\* Dropping the bubbles at the end of the list, with all their keys.
LEMMA ShortenedSound ==
  ASSUME NEW A, NEW idx, NEW l, NEW vw, Sound(idx, l, vw, A), NEW n \in 0 .. Len(l)
  PROVE  Sound(Cache!Unindexed(idx, vw, Cache!Beyond(l, n)), SubSeq(l, 1, n), vw, A)
<1> DEFINE S == Cache!Beyond(l, n)
           rest == Cache!Unindexed(idx, vw, S)
           L == SubSeq(l, 1, n)
<1>1. l \in Seq(A) /\ Distinct(l) /\ Len(l) \in Nat /\ n \in Nat /\ n <= Len(l)
  BY LenProperties DEF Sound
<1>2. \A i \in 1 .. n : l[i] \in A
  <2>1. \A i \in 1 .. n : i \in 1 .. Len(l)
    BY <1>1
  <2>2. QED
    BY <1>1, <2>1, ElementOfSeq
<1>3. L \in Seq(A) /\ Len(L) = n /\ \A i \in 1 .. n : L[i] = l[i]
  <2>1. /\ L \in Seq(A)
        /\ Len(L) = (IF 1 <= n THEN n - 1 + 1 ELSE 0)
        /\ \A i \in 1 .. n - 1 + 1 : L[i] = l[1 + i - 1]
    BY <1>1, <1>2, SubSeqProperties
  <2>2. Len(L) = n
    BY <1>1, <2>1
  <2>3. ASSUME NEW i \in 1 .. n
        PROVE  L[i] = l[i]
    <3>1. i \in 1 .. n - 1 + 1 /\ 1 + i - 1 = i
      BY <1>1
    <3>2. QED
      BY <2>1, <3>1
  <2>4. QED
    BY <2>1, <2>2, <2>3
<1> HIDE DEF L
<1>4. Distinct(L)
  <2>1. \A i \in 1 .. n : i \in 1 .. Len(l)
    BY <1>1
  <2>2. QED
    BY <1>1, <1>3, <2>1 DEF Distinct
<1>5. /\ rest \in [DOMAIN rest -> A] /\ DOMAIN rest \subseteq MessageId
      /\ IsFiniteSet(DOMAIN rest)
      /\ \A id \in DOMAIN rest :
            id \in DOMAIN idx /\ rest[id] = idx[id] /\ idx[id] \notin S
  BY UnindexedKeys
<1> HIDE DEF rest
<1>7. ASSUME NEW id \in DOMAIN rest
      PROVE  rest[id] \in Cache!Range(L) /\ id \in Cache!Range(vw[rest[id]])
  <2>1. /\ id \in DOMAIN idx /\ rest[id] = idx[id] /\ idx[id] \notin S
        /\ idx[id] \in Cache!Range(l) /\ id \in Cache!Range(vw[idx[id]])
    BY <1>5 DEF Sound
  <2>2. PICK i \in 1 .. Len(l) : idx[id] = l[i]
    BY <1>1, <2>1, InList
  <2>3. i \in 1 .. n
    BY <1>1, <2>1, <2>2 DEF Cache!Beyond
  <2>4. idx[id] \in Cache!Range(L)
    BY <1>3, <2>2, <2>3, InList
  <2>5. QED
    BY <2>1, <2>4
<1>8. QED
  BY <1>3, <1>4, <1>5, <1>7 DEF Sound, L, rest

\* A view that is new, or known already, under its key.
LEMMA RegisteredSound ==
  ASSUME NEW A, NEW idx, NEW l, NEW vw, Sound(idx, l, vw, A), A = DOMAIN vw,
         NEW b \in A, NEW r, NEW id \in MessageId,
         r \in DOMAIN vw[b] => vw[b][r] = id
  PROVE  Sound(Cache!With(idx, id, b), Cache!MovedToFront(l, b),
               [vw EXCEPT ![b] = Cache!With(@, r, id)], A)
<1> DEFINE I == Cache!With(idx, id, b)
           L == Cache!MovedToFront(l, b)
           V == [vw EXCEPT ![b] = Cache!With(@, r, id)]
<1>1. /\ idx \in [DOMAIN idx -> A] /\ DOMAIN idx \subseteq MessageId
      /\ IsFiniteSet(DOMAIN idx) /\ l \in Seq(A) /\ Distinct(l)
      /\ \A k \in DOMAIN idx : /\ idx[k] \in Cache!Range(l)
                               /\ k \in Cache!Range(vw[idx[k]])
  BY DEF Sound
<1>2. /\ L \in Seq(A) /\ Distinct(L)
      /\ \A x : x \in Cache!Range(L) <=> x = b \/ x \in Cache!Range(l)
  BY <1>1, FrontList
<1>3. /\ DOMAIN I = DOMAIN idx \cup {id} /\ I[id] = b
      /\ \A k \in DOMAIN idx \ {id} : I[k] = idx[k]
  BY DEF Cache!With
<1>4. I \in [DOMAIN I -> A]
  BY <1>1, <1>3, WithType
<1>5. IsFiniteSet(DOMAIN I)
  BY <1>1, <1>3, FS_AddElement
<1>6. \A k : k \in Cache!Range(V[b]) <=> k = id \/ k \in Cache!Range(vw[b])
  <2>1. V[b] = Cache!With(vw[b], r, id)
    OBVIOUS
  <2>2. /\ DOMAIN V[b] = DOMAIN vw[b] \cup {r} /\ V[b][r] = id
        /\ \A y \in DOMAIN vw[b] \ {r} : V[b][y] = vw[b][y]
    <3> DEFINE W == Cache!With(vw[b], r, id)
    <3>1. /\ DOMAIN W = DOMAIN vw[b] \cup {r} /\ W[r] = id
          /\ \A y \in DOMAIN vw[b] \ {r} : W[y] = vw[b][y]
      BY DEF Cache!With
    <3> HIDE DEF V
    <3>2. QED
      BY <2>1, <3>1
  <2>3. \A y \in DOMAIN vw[b] : V[b][y] = vw[b][y]
    BY <2>2
  <2> HIDE DEF V
  <2>4. QED
    BY <2>2, <2>3, InRange
<1>7. \A c \in A : c # b => V[c] = vw[c]
  OBVIOUS
<1> HIDE DEF I, L, V
<1>8. ASSUME NEW k \in DOMAIN I
      PROVE  I[k] \in Cache!Range(L) /\ k \in Cache!Range(V[I[k]])
  <2>1. CASE k = id
    BY <1>2, <1>3, <1>6, <2>1
  <2>2. CASE k # id
    <3>1. k \in DOMAIN idx /\ I[k] = idx[k] /\ idx[k] \in A
      BY <1>1, <1>3, <2>2
    <3>2. CASE idx[k] = b
      BY <1>1, <1>2, <1>6, <3>1, <3>2
    <3>3. CASE idx[k] # b
      BY <1>1, <1>2, <1>7, <3>1, <3>3
    <3>4. QED
      BY <3>2, <3>3
  <2>3. QED
    BY <2>1, <2>2
<1>9. QED
  BY <1>1, <1>2, <1>3, <1>4, <1>5, <1>8 DEF Sound, I, L, V

\* What enforceCapLocked leaves is part of the list, and within the cap: at the
\* latest the empty list is, which no key can lead to.
LEMMA FittingFits ==
  ASSUME NEW A, NEW idx, NEW l, NEW vw, Sound(idx, l, vw, A)
  PROVE  LET n == Cache!Fitting(idx, vw, l)
         IN  /\ n \in 0 .. Len(l)
             /\ MaxSize > 0 =>
                  Cache!Cardinality(DOMAIN Cache!Unindexed(idx, vw, Cache!Beyond(l, n)))
                     <= MaxSize
<1> DEFINE Rest(n) == Cache!Unindexed(idx, vw, Cache!Beyond(l, n))
           Fits(n) == Cache!Cardinality(DOMAIN Rest(n)) <= MaxSize
           S == {n \in 0 .. Len(l) : Fits(n)}
<1>1. l \in Seq(A) /\ Len(l) \in Nat /\ MaxSize \in Nat
  BY LenProperties, RelayAssumption DEF Sound, RelayAssumption
<1>2. CASE MaxSize = 0
  BY <1>1, <1>2 DEF Cache!Fitting
<1>3. CASE MaxSize > 0
  <2>1. Cache!Fitting(idx, vw, l) = Cache!Max({0} \cup S)
    BY <1>1, <1>3 DEF Cache!Fitting
  <2>2. Fits(0)
    <3>1. 0 \in 0 .. Len(l)
      BY <1>1
    <3>2. Sound(Rest(0), SubSeq(l, 1, 0), vw, A)
      BY <3>1, ShortenedSound
    <3> HIDE DEF Rest
    <3>3. SubSeq(l, 1, 0) = << >>
      BY SubSeqEmpty
    <3>4. Cache!Range(<< >>) = {}
      BY DEF Cache!Range
    <3>5. DOMAIN Rest(0) = {}
      BY <3>2, <3>3, <3>4 DEF Sound
    <3>6. Cardinality(DOMAIN Rest(0)) = 0
      BY <3>5, FS_EmptySet
    <3>7. QED
      BY <1>1, <3>6, CacheCount
  <2> HIDE DEF Fits
  <2>3. 0 \in S
    BY <1>1, <2>2
  <2>4. {0} \cup S = S /\ S \in SUBSET (0 .. Len(l)) /\ S # {}
    BY <2>3
  <2> HIDE DEF S
  <2>5. Cache!Max(S) \in S
    BY <1>1, <2>4, GreatestOf
  <2>6. QED
    BY <2>1, <2>4, <2>5 DEF S, Fits
<1>4. QED
  BY <1>1, <1>2, <1>3

\* Dropping one bubble, with all its keys.
LEMMA ForgottenSound ==
  ASSUME NEW A, NEW idx, NEW l, NEW vw, Sound(idx, l, vw, A), NEW b
  PROVE  Sound(Cache!Unindexed(idx, vw, {b}), Cache!Removed(l, b), vw, A)
<1> DEFINE rest == Cache!Unindexed(idx, vw, {b})
           L == Cache!Removed(l, b)
<1>1. l \in Seq(A) /\ Distinct(l)
  BY DEF Sound
<1>2. /\ L \in Seq(A) /\ Distinct(L)
      /\ \A x : x \in Cache!Range(l) /\ x # b => x \in Cache!Range(L)
  BY <1>1, RemovedList
<1>3. /\ rest \in [DOMAIN rest -> A] /\ DOMAIN rest \subseteq MessageId
      /\ IsFiniteSet(DOMAIN rest)
      /\ \A id \in DOMAIN rest :
            id \in DOMAIN idx /\ rest[id] = idx[id] /\ idx[id] \notin {b}
  BY UnindexedKeys
<1> HIDE DEF rest, L
<1>4. \A id \in DOMAIN rest :
         rest[id] \in Cache!Range(L) /\ id \in Cache!Range(vw[rest[id]])
  BY <1>2, <1>3 DEF Sound
<1>5. QED
  BY <1>2, <1>3, <1>4 DEF Sound, L, rest

\* The bubbles and their views.
Made(a, vw) ==
    /\ DOMAIN a \subseteq Bubbles /\ a \in [DOMAIN a -> 0 .. TTL + 1]
    /\ DOMAIN vw = DOMAIN a
    /\ \A b \in DOMAIN vw :
          /\ DOMAIN vw[b] \subseteq Users
          /\ vw[b] \in [DOMAIN vw[b] -> MessageId]

CacheInv == Made(age, views) /\ Sound(index, lru, views, DOMAIN age) /\ CapHeld

LEMMA CacheFollows ==
  ASSUME CacheInv
  PROVE  Cache!TypeOK /\ IndexOwned /\ CapHeld
<1>1. Cache!TypeOK
  BY DEF CacheInv, Made, Sound, Distinct, Cache!TypeOK
<1>2. IndexOwned
  BY DEF CacheInv, Sound, IndexOwned, Cache!IndexOwned
<1>3. QED
  BY <1>1, <1>2 DEF CacheInv

\* A view that is set leaves the others alone.
LEMMA ViewSet ==
  ASSUME NEW b \in DOMAIN views, NEW r, NEW id,
         views' = [views EXCEPT ![b] = Cache!With(@, r, id)]
  PROVE  /\ DOMAIN views' = DOMAIN views
         /\ \A c \in DOMAIN views : c # b => views'[c] = views[c]
         /\ DOMAIN views'[b] = DOMAIN views[b] \cup {r} /\ views'[b][r] = id
         /\ \A y \in DOMAIN views[b] : y # r => views'[b][y] = views[b][y]
<1>1. /\ DOMAIN views' = DOMAIN views
      /\ \A c \in DOMAIN views : c # b => views'[c] = views[c]
      /\ views'[b] = Cache!With(views[b], r, id)
  OBVIOUS
<1>2. /\ DOMAIN views'[b] = DOMAIN views[b] \cup {r} /\ views'[b][r] = id
      /\ \A y \in DOMAIN views[b] : y # r => views'[b][y] = views[b][y]
  BY <1>1 DEF Cache!With
<1>3. QED
  BY <1>1, <1>2

LEMMA RegisterKeeps ==
  ASSUME CacheInv, NEW b \in DOMAIN age, NEW r \in Users, NEW id \in MessageId,
         r \in DOMAIN views[b] => views[b][r] = id,
         Cache!RegisterView(b, r, id), UNCHANGED age
  PROVE  CacheInv' /\ views' = [views EXCEPT ![b] = Cache!With(@, r, id)]
<1> DEFINE live  == Cache!Unexpired(lru)
           young == Cache!Unindexed(index, views, Cache!Beyond(lru, live))
           front == SubSeq(lru, 1, live)
           list  == Cache!MovedToFront(front, b)
           known == [views EXCEPT ![b] = Cache!With(@, r, id)]
           keys  == Cache!With(young, id, b)
           room  == Cache!Fitting(keys, known, list)
<1>1. /\ views' = known
      /\ index' = Cache!Unindexed(keys, known, Cache!Beyond(list, room))
      /\ lru' = SubSeq(list, 1, room)
  BY DEF Cache!RegisterView
<1>2. Sound(index, lru, views, DOMAIN age) /\ DOMAIN age = DOMAIN views
  BY DEF CacheInv, Made
<1>3. live \in 0 .. Len(lru)
  <2> DEFINE S == {i \in 1 .. Len(lru) : ~ Cache!Expired(lru[i])} \cup {0}
  <2>1. Len(lru) \in Nat
    BY <1>2, LenProperties DEF Sound
  <2>2. S \in SUBSET (0 .. Len(lru)) /\ S # {}
    BY <2>1
  <2>3. live = Cache!Max(S)
    BY DEF Cache!Unexpired
  <2> HIDE DEF S, live
  <2>4. QED
    BY <2>1, <2>2, <2>3, GreatestOf
<1>4. Sound(young, front, views, DOMAIN age)
  <2> HIDE DEF live
  <2>1. QED
    BY <1>2, <1>3, ShortenedSound
<1>5. Sound(keys, list, known, DOMAIN age)
  <2> HIDE DEF young, front
  <2>1. QED
    BY <1>2, <1>4, RegisteredSound
<1> HIDE DEF list, known, keys, room
<1>6. /\ room \in 0 .. Len(list)
      /\ MaxSize > 0 =>
           Cache!Cardinality(DOMAIN Cache!Unindexed(keys, known, Cache!Beyond(list, room)))
              <= MaxSize
  BY <1>5, FittingFits DEF room
<1>7. Sound(index', lru', views', DOMAIN age')
  BY <1>1, <1>5, <1>6, ShortenedSound
<1>8. CapHeld'
  BY <1>1, <1>6 DEF CapHeld, Cache!CapHeld
<1>9. Made(age', views')
  <2>1. /\ DOMAIN views' = DOMAIN views
        /\ \A c \in DOMAIN views : c # b => views'[c] = views[c]
    BY <1>1, <1>2, ViewSet DEF known
  <2>2. views'[b] = Cache!With(views[b], r, id)
    BY <1>1, <1>2 DEF known
  <2>3. /\ DOMAIN views[b] \subseteq Users
        /\ views[b] \in [DOMAIN views[b] -> MessageId]
    BY <1>2 DEF CacheInv, Made
  <2>4. views'[b] \in [DOMAIN views[b] \cup {r} -> MessageId]
    BY <2>2, <2>3 DEF Cache!With
  <2>5. \A c \in DOMAIN views' :
           DOMAIN views'[c] \subseteq Users /\ views'[c] \in [DOMAIN views'[c] -> MessageId]
    <3>1. TAKE c \in DOMAIN views'
    <3>2. CASE c = b
      BY <2>3, <2>4, <3>2
    <3>3. CASE c # b
      BY <2>1, <3>3 DEF CacheInv, Made
    <3>4. QED
      BY <3>2, <3>3
  <2>6. QED
    BY <1>2, <2>1, <2>5 DEF CacheInv, Made
<1>10. QED
  BY <1>1, <1>7, <1>8, <1>9 DEF CacheInv, known

LEMMA LookupKeeps ==
  ASSUME CacheInv, NEW id, Cache!Lookup(id)
  PROVE  Sound(index', lru', views, DOMAIN age) /\ CapHeld'
<1>1. /\ index \in [DOMAIN index -> DOMAIN age] /\ IsFiniteSet(DOMAIN index)
      /\ lru \in Seq(DOMAIN age) /\ Distinct(lru)
      /\ Sound(index, lru, views, DOMAIN age) /\ CapHeld
  BY DEF CacheInv, Sound
<1>2. ASSUME index' = index
      PROVE  CapHeld'
  BY <1>1, <1>2 DEF CapHeld, Cache!CapHeld
<1>3. CASE UNCHANGED <<index, lru>>
  BY <1>1, <1>2, <1>3
<1>4. CASE id \in DOMAIN index /\ Cache!Forget(index[id])
  <2>1. Sound(index', lru', views, DOMAIN age)
    BY <1>1, <1>4, ForgottenSound DEF Cache!Forget
  <2>2. index' = Cache!Unindexed(index, views, {index[id]})
    BY <1>4 DEF Cache!Forget
  <2>3. \A k \in DOMAIN index' : k \in DOMAIN index
    BY <1>1, <2>2, UnindexedKeys
  <2>4. Cardinality(DOMAIN index') <= Cardinality(DOMAIN index)
    BY <1>1, <2>3, FS_Subset
  <2>5. /\ Cardinality(DOMAIN index') \in Nat /\ Cardinality(DOMAIN index) \in Nat
        /\ MaxSize \in Nat
    BY <1>1, <2>1, FS_CardinalityType, RelayAssumption DEF Sound, RelayAssumption
  <2>6. CapHeld'
    BY <1>1, <2>4, <2>5, CacheCount DEF CapHeld, Cache!CapHeld
  <2>7. QED
    BY <2>1, <2>6
<1>5. CASE Cache!Hit(id) /\ index' = index /\ lru' = Cache!MovedToFront(lru, index[id])
  <2>1. index[id] \in DOMAIN age
    BY <1>1, <1>5 DEF Cache!Hit
  <2>2. /\ lru' \in Seq(DOMAIN age) /\ Distinct(lru')
        /\ \A x : x \in Cache!Range(lru') <=> x = index[id] \/ x \in Cache!Range(lru)
    BY <1>1, <1>5, <2>1, FrontList
  <2>3. Sound(index', lru', views, DOMAIN age)
    BY <1>1, <1>5, <2>2 DEF Sound
  <2>4. QED
    BY <1>2, <1>5, <2>3
<1>6. QED
  BY <1>3, <1>4, <1>5 DEF Cache!Lookup

-----------------------------------------------------------------------------
(* The inductive invariant.                                                  *)

Mail == [from : Users, text : BOOLEAN, fields : SUBSET Field,
         target : MessageId \cup {Nil}]

\* Who wrote a message has its id; what points somewhere points at an id.
MailInv ==
    /\ mail \in Seq(Mail) /\ Len(mail) <= MaxMsgs
    /\ \A m \in DOMAIN mail :
          mail[m].fields \cap Pointers # {} => mail[m].target \in MessageId
    /\ held \in [Users -> SUBSET MessageId]
    /\ \A m \in DOMAIN mail : OwnId(m) \in held[mail[m].from]
    /\ status \in [Users -> {"none", "active", "paused", "banned"}]

\* The counts of fan-outs, which number the copies.
FanInv ==
    /\ fans \in [Msgs -> Nat] /\ relayed \in 0 .. MaxFans
    /\ \A m \in Msgs : fans[m] <= relayed

Handler == [msg : Msgs, phase : {"resolve", "register", "fanout"},
            hit : Bubbles \cup {Nil}, bubble : Bubbles \cup {Nil},
            todo : SUBSET Users, count : Nat]

\* The message in hand: nobody is to get it who is paused or banned, nor its
\* sender, and a target that was found is among the views of its bubble.
HandlerInv ==
    handler # Nil =>
        /\ handler \in Handler
        /\ handler.msg \in DOMAIN mail /\ fans[handler.msg] >= 1
        /\ handler.phase # "fanout" => handler.todo = {} /\ handler.count = 0
        /\ handler.phase = "resolve" => handler.bubble = Nil /\ handler.hit = Nil
        /\ handler.bubble \in DOMAIN age \cup {Nil}
        /\ handler.hit # Nil =>
              /\ handler.hit \in DOMAIN age
              /\ \E r \in DOMAIN views[handler.hit] :
                    views[handler.hit][r] = mail[handler.msg].target
        /\ mail[handler.msg].from \notin handler.todo
        /\ \A r \in handler.todo : status[r] \in {"active", "none"}
        /\ handler.count + Cardinality(handler.todo) <= Cardinality(Users)

\* The copies in the queue: who has been sent one has its id.
QueueInv ==
    /\ copies \subseteq Copy /\ pending \subseteq Copy
    /\ sent \subseteq pending /\ writer \in sent \cup {Nil}
    /\ \A c \in pending : c.bubble \in DOMAIN age \cup {Nil}
    /\ \A c \in sent : c.bubble # Nil /\ CopyId(c) \in held[c.to]

\* Bubble b is the one of fan-out f of message m: its views are the ids of that
\* fan-out's copies and of the message itself, first of all the author's.
Born(b, m, f) ==
    /\ \A r \in DOMAIN views[b] :
          /\ views[b][r] = <<m, r, IF r = mail[m].from THEN 0 ELSE f>>
          /\ mail[m].from \in DOMAIN views[b]
    /\ \A c \in pending :
          c.bubble = b => /\ c.msg = m /\ c.fan = f /\ c.to # mail[m].from
                          /\ mail[m].from \in DOMAIN views[b]
    /\ handler # Nil /\ handler.bubble = b =>
          /\ handler.msg = m /\ fans[m] = f
          /\ handler.phase = "fanout" => mail[m].from \in DOMAIN views[b]

BubbleInv ==
    /\ \A b \in DOMAIN age : \E m \in DOMAIN mail, f \in Nat : Born(b, m, f)
    /\ \A b \in DOMAIN age : \A r \in DOMAIN views[b] : views[b][r] \in held[r]

\* What was readdressed or withheld concerns messages that exist.
ResultInv ==
    /\ BindsOwnView /\ AuthorNotSkipped
    /\ \A c \in copies : c.msg \in DOMAIN mail
    /\ \A p \in skipped : p[1] \in DOMAIN mail /\ mail[p[1]].target[1] \in DOMAIN mail

\* The table of seen ids is what has passed as new and was not cleared.
SeenInv ==
    /\ DOMAIN seen \subseteq Msgs /\ seen = [m \in DOMAIN seen |-> seen[m]]
    /\ Cardinality(DOMAIN seen) <= SeenMax
    /\ recent \in [Msgs -> 0 .. Window] /\ forgotten \subseteq Msgs
    /\ \A m \in DOMAIN seen : seen[m] = recent[m] /\ m \notin forgotten
    /\ \A m \in Msgs \ forgotten : recent[m] < Window => m \in DOMAIN seen

LogInv ==
    /\ log \in Seq(Msgs) /\ Len(log) <= LogCap
    /\ diskLog \in Seq(Msgs) /\ Len(diskLog) <= LogCap

Inv == /\ CacheInv /\ MailInv /\ FanInv /\ HandlerInv /\ QueueInv /\ BubbleInv
       /\ ResultInv /\ SeenInv /\ LogInv

-----------------------------------------------------------------------------
(* What every step leaves in place.                                          *)

LEMMA MailOf ==
  ASSUME MailInv, NEW m \in DOMAIN mail
  PROVE  /\ mail[m] \in Mail /\ m \in Msgs /\ m \in 1 .. Len(mail)
         /\ mail[m].from \in Users /\ mail[m].fields \in SUBSET Field
         /\ mail[m].target \in MessageId \cup {Nil}
<1>1. mail \in Seq(Mail) /\ Len(mail) <= MaxMsgs /\ MaxMsgs \in Nat
  BY RelayAssumption DEF MailInv, RelayAssumption
<1>2. Len(mail) \in Nat /\ m \in 1 .. Len(mail)
  BY <1>1, LenProperties
<1>3. mail[m] \in Mail
  BY <1>1, <1>2, ElementOfSeq
<1>4. QED
  BY <1>1, <1>2, <1>3 DEF Mail, Msgs

MailKept ==
    /\ \A m \in DOMAIN mail : m \in DOMAIN mail' /\ mail'[m] = mail[m]
    /\ \A u \in Users : held[u] \subseteq held'[u]

LEMMA ComposeKeeps ==
  ASSUME MailInv, NEW u \in Users, NEW s \in Shapes, NEW t, Compose(u, s, t)
  PROVE  MailInv' /\ MailKept
<1> DEFINE m == Len(mail) + 1
           r == [from |-> u, text |-> s.text, fields |-> s.fields, target |-> t]
<1>1. /\ m \in Msgs /\ mail' = Append(mail, r)
      /\ IF s.fields \cap Pointers = {} THEN t = Nil ELSE t \in held[u]
      /\ held' = [held EXCEPT ![u] = @ \cup {<<m, u, 0>>}]
      /\ status' = status
  BY DEF Compose
<1>2. mail \in Seq(Mail) /\ held \in [Users -> SUBSET MessageId]
  BY DEF MailInv
<1>3. r \in Mail /\ (s.fields \cap Pointers # {} => t \in MessageId)
  BY <1>1, <1>2, ShapesAssumption DEF Mail, ShapesAssumption
<1>4. r.from = u /\ r.fields = s.fields /\ r.target = t
  OBVIOUS
<1> HIDE DEF r
<1>5. /\ mail' \in Seq(Mail) /\ Len(mail') = m /\ mail'[m] = r
      /\ \A k \in 1 .. Len(mail) : mail'[k] = mail[k]
  BY <1>1, <1>2, <1>3, AppendProperties
<1>6. /\ Len(mail) \in Nat /\ DOMAIN mail = 1 .. Len(mail) /\ DOMAIN mail' = 1 .. m
  BY <1>2, <1>5, LenProperties
<1>7. \A k \in DOMAIN mail' : k \in DOMAIN mail \/ k = m
  BY <1>6
<1>8. <<m, u, 0>> \in MessageId
  BY <1>1, RelayAssumption DEF MessageId, ReplyNr, RelayAssumption
<1>9. held' \in [Users -> SUBSET MessageId] /\ \A v \in Users : held[v] \subseteq held'[v]
  BY <1>1, <1>2, <1>8
<1>10. <<m, u, 0>> \in held'[u]
  BY <1>1, <1>2
<1>11. MailKept
  BY <1>5, <1>6, <1>9 DEF MailKept
<1>12. ASSUME NEW k \in DOMAIN mail'
       PROVE  /\ mail'[k].fields \cap Pointers # {} => mail'[k].target \in MessageId
              /\ <<k, mail'[k].from, 0>> \in held'[mail'[k].from]
  <2>1. CASE k = m
    BY <1>3, <1>4, <1>5, <1>10, <2>1
  <2>2. CASE k \in DOMAIN mail
    BY <1>11, <2>2, MailOf DEF MailKept, MailInv, OwnId
  <2>3. QED
    BY <1>7, <2>1, <2>2
<1>13. Len(mail') <= MaxMsgs
  BY <1>1, <1>5, RelayAssumption DEF Msgs, RelayAssumption
<1>14. QED
  BY <1>1, <1>5, <1>9, <1>11, <1>12, <1>13 DEF MailInv, OwnId

LEMMA CopyIdType ==
  ASSUME NEW c \in Copy
  PROVE  /\ CopyId(c) \in MessageId /\ c.to \in Users
         /\ c.bubble \in Bubbles \cup {Nil}
  BY RelayAssumption DEF Copy, CopyId, MessageId, ReplyNr, RelayAssumption

LEMMA MailStep ==
  ASSUME MailInv, QueueInv, [Next]_vars
  PROVE  MailInv' /\ MailKept
<1>1. ASSUME UNCHANGED <<mail, held>>, status' \in [Users -> {"none", "active", "paused", "banned"}]
      PROVE  MailInv' /\ MailKept
  BY <1>1 DEF MailInv, MailKept, OwnId
<1>2. ASSUME UNCHANGED <<mail, held, status>>
      PROVE  MailInv' /\ MailKept
  BY <1>1, <1>2 DEF MailInv
<1>3. ASSUME NEW u \in Users, NEW s \in Shapes, NEW t, Compose(u, s, t)
      PROVE  MailInv' /\ MailKept
  BY <1>3, ComposeKeeps
<1>4. ASSUME NEW u \in Users, NEW s \in Moves, Command(u, s)
      PROVE  MailInv' /\ MailKept
  <2>1. status' \in [Users -> {"none", "active", "paused", "banned"}]
    BY <1>4, RelayAssumption DEF Command, MailInv, RelayAssumption
  <2>2. QED
    BY <1>1, <1>4, <2>1 DEF Command
<1>5. ASSUME NEW u \in Users, Prune(u)
      PROVE  MailInv' /\ MailKept
  <2>1. status' \in [Users -> {"none", "active", "paused", "banned"}]
    BY <1>5 DEF Prune, MailInv
  <2>2. QED
    BY <1>1, <1>5, <2>1 DEF Prune
<1>6. CASE Tick \/ Inbox
  BY <1>2, <1>6 DEF Tick, Inbox, Receive, Resolve, StartFanOut, Withhold, OmitTextOnly,
                    EnqueueCopy, FinishFanOut
<1>7. ASSUME NEW c \in pending, Send(c)
      PROVE  MailInv' /\ MailKept
  <2>1. /\ held' = [held EXCEPT ![c.to] = @ \cup {CopyId(c)}]
        /\ mail' = mail /\ status' = status
    BY <1>7 DEF Send
  <2>2. CopyId(c) \in MessageId /\ c.to \in Users
    BY CopyIdType DEF QueueInv
  <2>3. /\ held' \in [Users -> SUBSET MessageId]
        /\ \A u \in Users : held[u] \subseteq held'[u]
    BY <2>1, <2>2 DEF MailInv
  <2>4. \A m \in DOMAIN mail : mail[m].from \in Users
    BY MailOf
  <2>5. QED
    BY <2>1, <2>3, <2>4 DEF MailInv, MailKept, OwnId
<1>8. CASE \E c \in pending : GiveUp(c) \/ BeginRegister(c)
  BY <1>2, <1>8 DEF GiveUp, BeginRegister
<1>9. CASE EndRegister \/ Restart \/ UNCHANGED vars
  BY <1>2, <1>9 DEF EndRegister, Restart, vars
<1>10. QED
  BY <1>3, <1>4, <1>5, <1>6, <1>7, <1>8, <1>9 DEF Next, Surroundings, Workers

-----------------------------------------------------------------------------
(* The cache in the hands of the inbox and the workers.                      *)

\* A bubble stays, with the views it has.
ViewsKept ==
    \A b \in DOMAIN age :
        /\ b \in DOMAIN age'
        /\ \A r \in DOMAIN views[b] : r \in DOMAIN views'[b] /\ views'[b][r] = views[b][r]

\* RegisterView never gives a recipient another id than before.
LEMMA RegisterViews ==
  ASSUME CacheInv, NEW b \in DOMAIN age, NEW r \in Users, NEW id \in MessageId,
         r \in DOMAIN views[b] => views[b][r] = id,
         Cache!RegisterView(b, r, id), UNCHANGED age
  PROVE  /\ CacheInv' /\ ViewsKept
         /\ \A c \in DOMAIN age : c # b => views'[c] = views[c]
         /\ DOMAIN views'[b] = DOMAIN views[b] \cup {r} /\ views'[b][r] = id
<1>1. CacheInv' /\ views' = [views EXCEPT ![b] = Cache!With(@, r, id)]
  BY RegisterKeeps
<1>2. DOMAIN views = DOMAIN age
  BY DEF CacheInv, Made
<1>3. \A c \in DOMAIN views : c # b => views'[c] = views[c]
  BY <1>1, <1>2, ViewSet
<1>4. DOMAIN views'[b] = DOMAIN views[b] \cup {r}
  BY <1>1, <1>2, ViewSet
<1>5. views'[b][r] = id
  BY <1>1, <1>2, ViewSet
<1>6. \A y \in DOMAIN views[b] : y # r => views'[b][y] = views[b][y]
  BY <1>1, <1>2, ViewSet
<1>7. ViewsKept
  BY <1>2, <1>3, <1>4, <1>5, <1>6 DEF ViewsKept
<1>8. QED
  BY <1>1, <1>2, <1>3, <1>4, <1>5, <1>7

\* The sender's id is the one their view has, if they have one.
LEMMA SenderKnown ==
  ASSUME Inv, InPhase("register"), handler.bubble # Nil
  PROVE  LET b == handler.bubble
             u == mail[handler.msg].from
         IN  /\ b \in DOMAIN age /\ u \in Users /\ OwnId(handler.msg) \in MessageId
             /\ OwnId(handler.msg) \in held[u]
             /\ u \in DOMAIN views[b] => views[b][u] = OwnId(handler.msg)
<1> DEFINE b == handler.bubble
           u == mail[handler.msg].from
<1>1. handler # Nil /\ b \in DOMAIN age /\ handler.msg \in DOMAIN mail
  BY DEF Inv, HandlerInv, InPhase
<1>2. u \in Users /\ handler.msg \in Msgs
  BY <1>1, MailOf DEF Inv
<1>3. OwnId(handler.msg) \in MessageId
  BY <1>2, RelayAssumption DEF OwnId, MessageId, ReplyNr, RelayAssumption
<1>4. OwnId(handler.msg) \in held[u]
  BY <1>1 DEF Inv, MailInv
<1>5. PICK m \in DOMAIN mail, f \in Nat : Born(b, m, f)
  BY <1>1 DEF Inv, BubbleInv
<1>6. handler.msg = m
  BY <1>1, <1>5 DEF Born
<1>7. u \in DOMAIN views[b] => views[b][u] = OwnId(handler.msg)
  BY <1>5, <1>6 DEF Born, OwnId
<1>8. QED
  BY <1>1, <1>2, <1>3, <1>4, <1>7

\* So is the id of the copy that a worker registers.
LEMMA WriterKnown ==
  ASSUME Inv, writer # Nil
  PROVE  LET b == writer.bubble
         IN  /\ b \in DOMAIN age /\ writer.to \in Users /\ CopyId(writer) \in MessageId
             /\ CopyId(writer) \in held[writer.to]
             /\ writer.to \in DOMAIN views[b] => views[b][writer.to] = CopyId(writer)
<1> DEFINE b == writer.bubble
<1>1. writer \in sent /\ writer \in pending /\ writer \in Copy
  BY DEF Inv, QueueInv
<1>2. b \in DOMAIN age /\ CopyId(writer) \in held[writer.to]
  BY <1>1 DEF Inv, QueueInv
<1>3. writer.to \in Users /\ CopyId(writer) \in MessageId
  BY <1>1, CopyIdType
<1>4. PICK m \in DOMAIN mail, f \in Nat : Born(b, m, f)
  BY <1>2 DEF Inv, BubbleInv
<1>5. writer.msg = m /\ writer.fan = f /\ writer.to # mail[m].from
  BY <1>1, <1>4 DEF Born
<1>6. writer.to \in DOMAIN views[b] => views[b][writer.to] = CopyId(writer)
  BY <1>4, <1>5 DEF Born, CopyId
<1>7. QED
  BY <1>2, <1>3, <1>6

\* StartFanOut and EndRegister, as seen from the cache.
LEMMA SenderRegistered ==
  ASSUME Inv, StartFanOut, handler.bubble # Nil
  PROVE  LET b == handler.bubble
             u == mail[handler.msg].from
         IN  /\ CacheInv' /\ ViewsKept /\ UNCHANGED age
             /\ \A c \in DOMAIN age : c # b => views'[c] = views[c]
             /\ DOMAIN views'[b] = DOMAIN views[b] \cup {u}
             /\ views'[b][u] = OwnId(handler.msg)
<1> DEFINE b == handler.bubble
           u == mail[handler.msg].from
           id == OwnId(handler.msg)
<1>1. CacheInv /\ b \in DOMAIN age /\ u \in Users /\ id \in MessageId
  BY SenderKnown DEF StartFanOut, Inv
<1>2. u \in DOMAIN views[b] => views[b][u] = id
  BY SenderKnown DEF StartFanOut
<1>3. Cache!RegisterView(b, u, id) /\ UNCHANGED age
  BY DEF StartFanOut, RegisterSender
<1> HIDE DEF b, u, id
<1>4. CacheInv' /\ ViewsKept
  BY <1>1, <1>2, <1>3, RegisterViews
<1>5. \A c \in DOMAIN age : c # b => views'[c] = views[c]
  BY <1>1, <1>2, <1>3, RegisterViews
<1>6. DOMAIN views'[b] = DOMAIN views[b] \cup {u} /\ views'[b][u] = id
  BY <1>1, <1>2, <1>3, RegisterViews
<1>7. QED
  BY <1>3, <1>4, <1>5, <1>6 DEF b, u, id

LEMMA WriterRegistered ==
  ASSUME Inv, EndRegister
  PROVE  LET b == writer.bubble
         IN  /\ CacheInv' /\ ViewsKept /\ UNCHANGED age
             /\ \A c \in DOMAIN age : c # b => views'[c] = views[c]
             /\ DOMAIN views'[b] = DOMAIN views[b] \cup {writer.to}
             /\ views'[b][writer.to] = CopyId(writer)
<1> DEFINE b == writer.bubble
           u == writer.to
           id == CopyId(writer)
<1>1. CacheInv /\ b \in DOMAIN age /\ u \in Users /\ id \in MessageId
  BY WriterKnown DEF EndRegister, Inv
<1>2. u \in DOMAIN views[b] => views[b][u] = id
  BY WriterKnown DEF EndRegister
<1>3. Cache!RegisterView(b, u, id) /\ UNCHANGED age
  BY DEF EndRegister
<1> HIDE DEF b, u, id
<1>4. CacheInv' /\ ViewsKept
  BY <1>1, <1>2, <1>3, RegisterViews
<1>5. \A c \in DOMAIN age : c # b => views'[c] = views[c]
  BY <1>1, <1>2, <1>3, RegisterViews
<1>6. DOMAIN views'[b] = DOMAIN views[b] \cup {u} /\ views'[b][u] = id
  BY <1>1, <1>2, <1>3, RegisterViews
<1>7. QED
  BY <1>3, <1>4, <1>5, <1>6 DEF b, u, id

\* Resolve: a lookup, and perhaps a new bubble without views.
LEMMA ResolveCache ==
  ASSUME Inv, Resolve
  PROVE  /\ CacheInv' /\ ViewsKept
         /\ \A b \in DOMAIN age : views'[b] = views[b]
         /\ \A b \in DOMAIN age' \ DOMAIN age :
               b = handler'.bubble /\ b # Nil /\ DOMAIN views'[b] = {}
         /\ handler'.bubble # Nil =>
               handler'.bubble \in DOMAIN age' \ DOMAIN age
<1>1. /\ Made(age, views) /\ Sound(index, lru, views, DOMAIN age) /\ CapHeld
      /\ handler # Nil /\ handler \in Handler
  BY DEF Inv, CacheInv, HandlerInv, Resolve, InPhase
<1>2. Sound(index', lru', views, DOMAIN age) /\ CapHeld'
  <2>1. CASE UNCHANGED <<index, lru>>
    BY <1>1, <2>1 DEF CapHeld, Cache!CapHeld
  <2>2. CASE \E id : Cache!Lookup(id)
    BY <2>2, LookupKeeps DEF Inv
  <2>3. QED
    BY <2>1, <2>2 DEF Resolve
<1>3. CASE UNCHANGED <<age, views>> /\ handler'.bubble = Nil
  BY <1>1, <1>2, <1>3 DEF CacheInv, ViewsKept
<1>4. ASSUME NEW b, Cache!NewBubble(b), handler'.bubble = b
      PROVE  /\ CacheInv' /\ ViewsKept
             /\ \A c \in DOMAIN age : views'[c] = views[c]
             /\ \A c \in DOMAIN age' \ DOMAIN age :
                   c = handler'.bubble /\ c # Nil /\ DOMAIN views'[c] = {}
             /\ handler'.bubble # Nil =>
                   handler'.bubble \in DOMAIN age' \ DOMAIN age
  <2>1. /\ b \in Bubbles \ DOMAIN age /\ age' = Cache!With(age, b, 0)
        /\ views' = Cache!With(views, b, Cache!Nothing)
    BY <1>4 DEF Cache!NewBubble
  <2>2. DOMAIN Cache!Nothing = {}
    BY DEF Cache!Nothing
  <2>3. /\ DOMAIN age' = DOMAIN age \cup {b} /\ age'[b] = 0
        /\ \A c \in DOMAIN age : age'[c] = age[c]
        /\ age' = [c \in DOMAIN age' |-> age'[c]]
    BY <2>1 DEF Cache!With
  <2>4. /\ DOMAIN views' = DOMAIN views \cup {b} /\ views'[b] = Cache!Nothing
        /\ \A c \in DOMAIN views : c # b => views'[c] = views[c]
    BY <2>1 DEF Cache!With
  <2>5. DOMAIN views = DOMAIN age /\ b \notin DOMAIN views
    BY <1>1, <2>1 DEF Made
  <2>6. \A c \in DOMAIN age' : age'[c] \in 0 .. TTL + 1
    BY <1>1, <2>3, RelayAssumption DEF Made, RelayAssumption
  <2>7. Cache!Nothing \in [{} -> MessageId]
    BY DEF Cache!Nothing
  <2>8. \A c \in DOMAIN views' :
           DOMAIN views'[c] \subseteq Users /\ views'[c] \in [DOMAIN views'[c] -> MessageId]
    BY <1>1, <2>2, <2>4, <2>5, <2>7 DEF Made
  <2>9. Made(age', views')
    BY <1>1, <2>1, <2>3, <2>4, <2>5, <2>6, <2>8 DEF Made
  <2>10. Sound(index', lru', views', DOMAIN age')
    <3>1. lru' \in Seq(DOMAIN age')
      BY <1>2, <2>3, SeqMonotonic DEF Sound
    <3>2. \A id \in DOMAIN index' : index'[id] \in DOMAIN age
      BY <1>2 DEF Sound
    <3>3. index' \in [DOMAIN index' -> DOMAIN age']
      BY <1>2, <2>3 DEF Sound
    <3>4. QED
      BY <1>2, <2>4, <2>5, <3>1, <3>2, <3>3 DEF Sound
  <2>11. b # Nil
    BY <2>1, RelayAssumption DEF RelayAssumption
  <2>12. QED
    BY <1>2, <1>4, <2>1, <2>2, <2>3, <2>4, <2>5, <2>9, <2>10, <2>11 DEF CacheInv, ViewsKept
<1>5. \/ UNCHANGED <<age, views>> /\ handler'.bubble = Nil
      \/ \E b : Cache!NewBubble(b) /\ handler'.bubble = b
  <2> DEFINE primary == TTL > 0 /\ IsPrimary(handler.msg)
             bubble == CHOOSE b \in Bubbles : b \notin DOMAIN age
  <2>1. /\ IF primary THEN Cache!NewBubble(bubble) ELSE UNCHANGED <<age, views>>
        /\ handler'.bubble = IF primary THEN bubble ELSE Nil
    BY <1>1 DEF Resolve, Handler
  <2> HIDE DEF primary, bubble
  <2>2. QED
    BY <2>1
<1>6. QED
  BY <1>3, <1>4, <1>5

\* Time passes.
LEMMA TickCache ==
  ASSUME CacheInv, Tick
  PROVE  CacheInv' /\ ViewsKept /\ DOMAIN age' = DOMAIN age /\ UNCHANGED views
<1>1. /\ age' = [b \in DOMAIN age |-> IF age[b] <= TTL THEN age[b] + 1 ELSE age[b]]
      /\ UNCHANGED <<views, index, lru>>
  BY DEF Tick, Cache!Ages
<1>2. DOMAIN age' = DOMAIN age
  BY <1>1
<1>3. \A b \in DOMAIN age : age'[b] \in 0 .. TTL + 1
  BY <1>1, RelayAssumption DEF CacheInv, Made, RelayAssumption
<1>4. Made(age', views')
  BY <1>1, <1>2, <1>3 DEF CacheInv, Made
<1>5. CapHeld' /\ Sound(index', lru', views', DOMAIN age')
  BY <1>1, <1>2 DEF CacheInv, CapHeld, Cache!CapHeld
<1>6. QED
  BY <1>1, <1>2, <1>4, <1>5 DEF CacheInv, ViewsKept

LEMMA EmptyCache ==
  /\ Made(<< >>, << >>) /\ Sound(<< >>, << >>, << >>, DOMAIN << >>)
  /\ MaxSize > 0 => Cache!Cardinality(DOMAIN << >>) <= MaxSize
<1>1. DOMAIN << >> = {} /\ << >> = [x \in {} |-> x] /\ Len(<< >>) = 0
  OBVIOUS
<1>2. Made(<< >>, << >>)
  BY <1>1 DEF Made
<1>3. Sound(<< >>, << >>, << >>, DOMAIN << >>)
  BY <1>1, EmptySeq, FS_EmptySet DEF Sound, Distinct
<1>4. Cache!Cardinality(DOMAIN << >>) = 0
  BY <1>1, FS_EmptySet, CacheCount
<1>5. QED
  BY <1>2, <1>3, <1>4, RelayAssumption DEF RelayAssumption

LEMMA CacheStays ==
  ASSUME CacheInv, UNCHANGED cache
  PROVE  CacheInv' /\ ViewsKept
<1>1. CapHeld'
  BY DEF CacheInv, CapHeld, Cache!CapHeld, cache
<1>2. QED
  BY <1>1 DEF CacheInv, cache, ViewsKept

LEMMA CacheStep ==
  ASSUME Inv, [Next]_vars
  PROVE  CacheInv' /\ (Restart \/ ViewsKept)
<1>1. CASE UNCHANGED cache
  BY <1>1, CacheStays DEF Inv
<1>2. CASE Surroundings
  <2>1. CASE Tick
    BY <2>1, TickCache DEF Inv
  <2>2. QED
    BY <1>1, <1>2, <2>1 DEF Surroundings, Compose, Command, Prune
<1>3. CASE Inbox
  <2>1. CASE Resolve
    BY <2>1, ResolveCache
  <2>2. CASE StartFanOut
    <3>1. CASE handler.bubble = Nil
      BY <1>1, <2>2, <3>1 DEF StartFanOut, RegisterSender
    <3>2. CASE handler.bubble # Nil
      BY <2>2, <3>2, SenderRegistered
    <3>3. QED
      BY <3>1, <3>2
  <2>3. QED
    BY <1>1, <1>3, <2>1, <2>2
    DEF Inbox, Receive, Withhold, OmitTextOnly, EnqueueCopy, FinishFanOut
<1>4. CASE Workers
  <2>1. CASE EndRegister
    BY <2>1, WriterRegistered
  <2>2. QED
    BY <1>1, <1>4, <2>1 DEF Workers, Send, GiveUp, BeginRegister
<1>5. CASE Restart
  <2>1. /\ age' = << >> /\ views' = << >> /\ index' = << >> /\ lru' = << >>
    BY <1>5 DEF Restart
  <2>2. CacheInv'
    BY <2>1, EmptyCache DEF CacheInv, CapHeld, Cache!CapHeld
  <2>3. QED
    BY <1>5, <2>2
<1>6. CASE UNCHANGED vars
  BY <1>1, <1>6 DEF vars
<1>7. QED
  BY <1>2, <1>3, <1>4, <1>5, <1>6 DEF Next

-----------------------------------------------------------------------------
(* The inbox.                                                                *)

\* What is changed of the handler's record, and what is not.
LEMMA HandlerOf ==
  ASSUME HandlerInv, handler # Nil
  PROVE  /\ handler \in Handler /\ handler.msg \in DOMAIN mail /\ handler.msg \in Msgs
         /\ handler.todo \in SUBSET Users /\ handler.count \in Nat
         /\ handler.hit \in Bubbles \cup {Nil} /\ handler.bubble \in Bubbles \cup {Nil}
         /\ IsFiniteSet(handler.todo) /\ Cardinality(handler.todo) \in Nat
         /\ Cardinality(Users) \in Nat /\ IsFiniteSet(Users)
<1>1. handler \in Handler /\ handler.msg \in DOMAIN mail
  BY DEF HandlerInv
<1>2. /\ handler.msg \in Msgs /\ handler.todo \in SUBSET Users /\ handler.count \in Nat
      /\ handler.hit \in Bubbles \cup {Nil} /\ handler.bubble \in Bubbles \cup {Nil}
  BY <1>1 DEF Handler
<1>3. IsFiniteSet(Users)
  BY RelayAssumption DEF RelayAssumption
<1>4. IsFiniteSet(handler.todo)
  BY <1>2, <1>3, FS_Subset
<1>5. QED
  BY <1>1, <1>2, <1>3, <1>4, FS_CardinalityType

LEMMA FanStep ==
  ASSUME FanInv, [Next]_vars
  PROVE  FanInv'
<1>1. CASE UNCHANGED fanned
  BY <1>1 DEF FanInv, fanned
<1>2. ASSUME NEW m \in Msgs, relayed < MaxFans,
             fans' = [fans EXCEPT ![m] = @ + 1], relayed' = relayed + 1
      PROVE  FanInv'
  BY <1>2, RelayAssumption DEF FanInv, RelayAssumption
<1>3. ASSUME NEW m \in Msgs, Receive(m)
      PROVE  FanInv'
  BY <1>1, <1>2, <1>3 DEF Receive
<1>4. CASE Surroundings \/ Workers \/ Restart \/ UNCHANGED vars
  BY <1>1, <1>4 DEF Surroundings, Workers, Restart, vars, results, Compose, Command,
                    Prune, Tick, Send, GiveUp, BeginRegister, EndRegister
<1>5. CASE Resolve \/ StartFanOut \/ FinishFanOut
  BY <1>1, <1>5 DEF Resolve, StartFanOut, FinishFanOut, results
<1>6. CASE \E r \in Users : Withhold(r) \/ OmitTextOnly(r) \/ EnqueueCopy(r)
  BY <1>1, <1>6 DEF Withhold, OmitTextOnly, EnqueueCopy, results
<1>7. QED
  BY <1>3, <1>4, <1>5, <1>6 DEF Next, Inbox

LEMMA HandlerStays ==
  ASSUME Inv, MailKept, ViewsKept, UNCHANGED <<handler, fans>>,
         handler # Nil => \A r \in handler.todo : status'[r] \in {"active", "none"}
  PROVE  HandlerInv'
<1>1. SUFFICES ASSUME handler # Nil
               PROVE  HandlerInv'
  BY DEF HandlerInv
<1>2. HandlerInv /\ handler.msg \in DOMAIN mail
  BY <1>1 DEF Inv, HandlerInv
<1>3. handler.msg \in DOMAIN mail' /\ mail'[handler.msg] = mail[handler.msg]
  BY <1>2 DEF MailKept
<1>4. handler.bubble \in DOMAIN age' \cup {Nil}
  BY <1>1, <1>2 DEF HandlerInv, ViewsKept
<1>5. handler.hit # Nil =>
         /\ handler.hit \in DOMAIN age'
         /\ \E r \in DOMAIN views'[handler.hit] :
               views'[handler.hit][r] = mail[handler.msg].target
  BY <1>1, <1>2 DEF HandlerInv, ViewsKept
<1>6. QED
  BY <1>1, <1>2, <1>3, <1>4, <1>5 DEF HandlerInv

LEMMA ReceiveHandler ==
  ASSUME Inv, NEW m \in Msgs, Receive(m)
  PROVE  HandlerInv'
<1>1. CASE UNCHANGED handler
  BY <1>1 DEF Receive, HandlerInv
<1>2. ASSUME handler' = [msg |-> m, phase |-> "resolve", hit |-> Nil,
                         bubble |-> Nil, todo |-> {}, count |-> 0],
             fans' = [fans EXCEPT ![m] = @ + 1]
      PROVE  HandlerInv'
  <2>1. handler' \in Handler
    BY <1>2 DEF Handler
  <2>2. /\ handler'.msg = m /\ handler'.phase = "resolve" /\ handler'.hit = Nil
        /\ handler'.bubble = Nil /\ handler'.todo = {} /\ handler'.count = 0
    BY <1>2
  <2>3. fans'[m] >= 1
    BY <1>2 DEF Inv, FanInv
  <2>4. m \in DOMAIN mail /\ mail' = mail
    BY DEF Receive
  <2>5. Cardinality({}) = 0 /\ Cardinality(Users) \in Nat
    BY FS_EmptySet, FS_CardinalityType, RelayAssumption DEF RelayAssumption
  <2>6. QED
    BY <2>1, <2>2, <2>3, <2>4, <2>5 DEF HandlerInv
<1>3. QED
  BY <1>1, <1>2 DEF Receive

\* The target is found where one of the views of its bubble is.
LEMMA ResolveHandler ==
  ASSUME Inv, Resolve
  PROVE  HandlerInv' /\ handler'.msg = handler.msg /\ handler'.phase = "register"
<1> DEFINE m == handler.msg
           points == TTL > 0 /\ Survivors(m) \cap Pointers # {}
           primary == TTL > 0 /\ IsPrimary(m)
           target == mail[m].target
           bubble == CHOOSE b \in Bubbles : b \notin DOMAIN age
           hit == IF points /\ Cache!Hit(target) THEN index[target] ELSE Nil
           nb == IF primary THEN bubble ELSE Nil
<1>1. handler # Nil /\ handler.phase = "resolve" /\ HandlerInv
  BY DEF Inv, Resolve, InPhase
<1>2. handler' = [handler EXCEPT !.phase = "register", !.hit = hit, !.bubble = nb]
  BY DEF Resolve
<1>3. /\ handler \in Handler /\ m \in DOMAIN mail /\ fans[m] >= 1
      /\ handler.todo = {} /\ handler.count = 0
      /\ handler.count + Cardinality(handler.todo) <= Cardinality(Users)
  BY <1>1 DEF HandlerInv
<1>4. /\ DOMAIN age \subseteq Bubbles
      /\ Cache!Hit(target) =>
           index[target] \in DOMAIN age /\ target \in Cache!Range(views[index[target]])
  BY DEF Inv, CacheInv, Made, Sound, Cache!Hit
<1>5. hit # Nil => /\ hit \in DOMAIN age
                   /\ \E r \in DOMAIN views[hit] : views[hit][r] = target
  BY <1>4, InRange
<1> HIDE DEF hit, nb
<1>6. hit \in Bubbles \cup {Nil}
  BY <1>4, <1>5
<1>7. /\ handler'.phase = "register" /\ handler'.hit = hit /\ handler'.bubble = nb
      /\ handler'.msg = m /\ handler'.todo = {} /\ handler'.count = 0
  BY <1>2, <1>3 DEF Handler
<1>8. /\ \A b \in DOMAIN age : views'[b] = views[b]
      /\ ViewsKept /\ CacheInv'
      /\ nb # Nil => nb \in DOMAIN age'
  BY <1>7, ResolveCache
<1>9. nb \in Bubbles \cup {Nil}
  BY <1>8 DEF CacheInv, Made
<1>10. handler' \in Handler
  BY <1>2, <1>3, <1>6, <1>9 DEF Handler
<1>11. mail' = mail /\ status' = status /\ fans' = fans
  BY DEF Resolve, results, fanned
<1>12. hit # Nil => /\ hit \in DOMAIN age'
                    /\ \E r \in DOMAIN views'[hit] : views'[hit][r] = target
  BY <1>5, <1>8 DEF ViewsKept
<1>13. QED
  BY <1>3, <1>7, <1>8, <1>10, <1>11, <1>12 DEF HandlerInv

LEMMA StartHandler ==
  ASSUME Inv, StartFanOut
  PROVE  /\ HandlerInv' /\ handler'.msg = handler.msg
         /\ handler'.bubble = handler.bubble /\ handler'.hit = handler.hit
<1> DEFINE m == handler.msg
           todo == ActiveHashes \ {mail[m].from}
<1>1. /\ handler # Nil /\ handler.phase = "register" /\ HandlerInv
      /\ handler' = [handler EXCEPT !.phase = "fanout", !.todo = todo]
      /\ mail' = mail /\ status' = status /\ fans' = fans
  BY DEF Inv, StartFanOut, InPhase, results, fanned
<1>2. /\ handler \in Handler /\ m \in DOMAIN mail /\ fans[m] >= 1
      /\ handler.todo = {} /\ handler.count = 0
  BY <1>1 DEF HandlerInv
<1>3. /\ todo \in SUBSET Users /\ mail[m].from \notin todo
      /\ \A r \in todo : status[r] \in {"active", "none"}
  BY DEF ActiveHashes
<1>4. Cardinality(todo) <= Cardinality(Users) /\ Cardinality(todo) \in Nat
  BY <1>3, FS_Subset, FS_CardinalityType, RelayAssumption DEF RelayAssumption
<1> HIDE DEF todo
<1>5. /\ handler'.phase = "fanout" /\ handler'.hit = handler.hit
      /\ handler'.bubble = handler.bubble
      /\ handler'.msg = m /\ handler'.todo = todo /\ handler'.count = 0
  BY <1>1, <1>2 DEF Handler
<1>6. handler' \in Handler
  BY <1>1, <1>2, <1>3 DEF Handler
<1>7. ViewsKept
  <2>1. CASE handler.bubble = Nil
    BY <2>1, CacheStays DEF Inv, StartFanOut, RegisterSender
  <2>2. CASE handler.bubble # Nil
    BY <2>2, SenderRegistered
  <2>3. QED
    BY <2>1, <2>2
<1>8. handler'.bubble \in DOMAIN age' \cup {Nil}
  BY <1>1, <1>5, <1>7 DEF HandlerInv, ViewsKept
<1>9. handler.hit # Nil =>
         /\ handler.hit \in DOMAIN age'
         /\ \E r \in DOMAIN views'[handler.hit] :
               views'[handler.hit][r] = mail[m].target
  BY <1>1, <1>7 DEF HandlerInv, ViewsKept
<1>10. handler'.count + Cardinality(handler'.todo) <= Cardinality(Users)
  BY <1>4, <1>5
<1>11. QED
  BY <1>1, <1>2, <1>3, <1>5, <1>6, <1>8, <1>9, <1>10 DEF HandlerInv

\* Each recipient's turn comes once, so that nobody is counted twice.
LEMMA TurnHandler ==
  ASSUME Inv, NEW r \in Users, NEW n \in {0, 1}, Turn(r), TurnDone(r, n),
         UNCHANGED <<mail, status, age, views, fans>>
  PROVE  /\ HandlerInv' /\ handler'.msg = handler.msg
         /\ handler'.bubble = handler.bubble /\ handler'.hit = handler.hit
<1>1. /\ handler # Nil /\ handler.phase = "fanout" /\ HandlerInv /\ r \in handler.todo
      /\ handler' = [handler EXCEPT !.todo = @ \ {r}, !.count = @ + n]
  BY DEF Inv, Turn, InPhase, TurnDone
<1>2. /\ handler \in Handler /\ handler.todo \in SUBSET Users /\ handler.count \in Nat
      /\ IsFiniteSet(handler.todo) /\ Cardinality(handler.todo) \in Nat
      /\ Cardinality(Users) \in Nat
  BY <1>1, HandlerOf
<1>3. Cardinality(handler.todo \ {r}) = Cardinality(handler.todo) - 1
  BY <1>1, <1>2, FS_RemoveElement
<1>4. /\ handler'.phase = "fanout" /\ handler'.hit = handler.hit
      /\ handler'.bubble = handler.bubble /\ handler'.msg = handler.msg
      /\ handler'.todo = handler.todo \ {r} /\ handler'.count = handler.count + n
  BY <1>1, <1>2 DEF Handler
<1>5. handler' \in Handler
  <2>1. handler.todo \ {r} \in SUBSET Users /\ handler.count + n \in Nat
    BY <1>2
  <2>2. QED
    BY <1>1, <1>2, <2>1 DEF Handler
<1>6. handler'.count + Cardinality(handler'.todo) <= Cardinality(Users)
  <2>1. handler.count + Cardinality(handler.todo) <= Cardinality(Users)
    BY <1>1 DEF HandlerInv
  <2>2. QED
    BY <1>2, <1>3, <1>4, <2>1
<1>7. QED
  BY <1>1, <1>4, <1>5, <1>6 DEF HandlerInv

LEMMA HandlerStep ==
  ASSUME Inv, [Next]_vars
  PROVE  HandlerInv'
<1>1. MailKept
  BY MailStep DEF Inv
<1>2. Restart \/ ViewsKept
  BY CacheStep
<1>3. ASSUME handler' = Nil
      PROVE  HandlerInv'
  BY <1>3 DEF HandlerInv
<1>4. CASE Restart
  BY <1>3, <1>4 DEF Restart
<1>5. ASSUME UNCHANGED <<handler, fans, status>>, ~ Restart
      PROVE  HandlerInv'
  <2>1. handler # Nil => \A r \in handler.todo : status'[r] \in {"active", "none"}
    BY <1>5 DEF Inv, HandlerInv
  <2>2. QED
    BY <1>1, <1>2, <1>5, <2>1, HandlerStays
<1>6. CASE ~ Restart /\ Surroundings
  <2>1. CASE (\E u \in Users, s \in Shapes, t \in {Nil} \cup UNION Range(held) :
                 Compose(u, s, t)) \/ Tick
    BY <1>5, <1>6, <2>1 DEF Compose, Tick, results, fanned
  <2>2. ASSUME NEW u \in Users, NEW s \in Moves, Command(u, s)
        PROVE  HandlerInv'
    BY <1>3, <2>2 DEF Command
  <2>3. ASSUME NEW u \in Users, Prune(u)
        PROVE  HandlerInv'
    <3>1. status' = [status EXCEPT ![u] = "none"] /\ UNCHANGED <<handler, fans>>
      BY <2>3 DEF Prune, results, fanned
    <3>2. handler # Nil => \A r \in handler.todo : r \in Users
      BY HandlerOf DEF Inv
    <3>3. handler # Nil => \A r \in handler.todo : status'[r] \in {"active", "none"}
      BY <3>1, <3>2 DEF Inv, HandlerInv, MailInv
    <3>4. QED
      BY <1>1, <1>2, <1>6, <3>1, <3>3, HandlerStays
  <2>4. QED
    BY <1>6, <2>1, <2>2, <2>3 DEF Surroundings
<1>7. CASE Inbox
  <2>1. ASSUME NEW m \in Msgs, Receive(m)
        PROVE  HandlerInv'
    BY <2>1, ReceiveHandler
  <2>2. CASE Resolve
    BY <2>2, ResolveHandler
  <2>3. CASE StartFanOut
    BY <2>3, StartHandler
  <2>4. CASE FinishFanOut
    BY <1>3, <2>4 DEF FinishFanOut
  <2>5. ASSUME NEW r \in Users, Withhold(r) \/ OmitTextOnly(r) \/ EnqueueCopy(r)
        PROVE  HandlerInv'
    <3>1. \E n \in {0, 1} : Turn(r) /\ TurnDone(r, n)
      BY <2>5 DEF Withhold, OmitTextOnly, EnqueueCopy
    <3>2. UNCHANGED <<mail, status, age, views, fans>>
      BY <2>5 DEF Withhold, OmitTextOnly, EnqueueCopy, cache, results, fanned
    <3>3. QED
      BY <3>1, <3>2, TurnHandler
  <2>6. QED
    BY <1>7, <2>1, <2>2, <2>3, <2>4, <2>5 DEF Inbox
<1>8. CASE ~ Restart /\ Workers
  BY <1>5, <1>8 DEF Workers, Send, GiveUp, BeginRegister, EndRegister, results, fanned
<1>9. CASE ~ Restart /\ UNCHANGED vars
  BY <1>5, <1>9 DEF vars, results, fanned
<1>10. QED
  BY <1>4, <1>6, <1>7, <1>8, <1>9 DEF Next

-----------------------------------------------------------------------------
(* The copies.                                                               *)

LEMMA PrivateType ==
  ASSUME MailInv, NEW m \in DOMAIN mail
  PROVE  PrivateReply(m) \in Copy /\ PrivateReply(m).bubble = Nil
<1>1. m \in Msgs /\ mail[m].from \in Users
  BY MailOf
<1>2. ReplyNr \in 1 .. ReplyNr
  BY RelayAssumption DEF ReplyNr, RelayAssumption
<1>3. QED
  BY <1>1, <1>2 DEF PrivateReply, Copy

LEMMA CopyParts ==
  ASSUME NEW r
  PROVE  /\ CopyFor(r).msg = handler.msg /\ CopyFor(r).to = r
         /\ CopyFor(r).fan = fans[handler.msg]
         /\ CopyFor(r).bubble = handler.bubble
         /\ CopyFor(r).bound <=> handler.hit # Nil
         /\ CopyFor(r).target =
               IF FieldsFor(r) \cap Pointers = {} THEN Nil ELSE TargetFor(r)
  BY DEF CopyFor

LEMMA CopyType ==
  ASSUME Inv, NEW r \in Users, Turn(r)
  PROVE  CopyFor(r) \in Copy /\ handler.bubble \in DOMAIN age \cup {Nil}
<1> DEFINE m == handler.msg
           target == IF FieldsFor(r) \cap Pointers = {} THEN Nil ELSE TargetFor(r)
           bound == handler.hit # Nil
<1>1. handler # Nil /\ HandlerInv /\ MailInv
  BY DEF Inv, Turn, InPhase
<1>2. m \in DOMAIN mail /\ m \in Msgs /\ handler.bubble \in Bubbles \cup {Nil}
  BY <1>1, HandlerOf
<1>3. mail[m].fields \in SUBSET Field /\ mail[m].target \in MessageId \cup {Nil}
  BY <1>1, <1>2, MailOf
<1>4. FieldsFor(r) \in SUBSET Field
  <2>1. Survivors(m) \in SUBSET Field
    BY <1>3 DEF Survivors
  <2>2. Stamped(Survivors(m)) \in SUBSET Field
    BY <2>1 DEF Stamped, Field
  <2>3. QED
    BY <2>2 DEF FieldsFor
<1>5. HasBody(m) \in BOOLEAN
  <2>1. mail[m] \in Mail
    BY <1>1, <1>2, MailOf
  <2>2. QED
    BY <2>1 DEF HasBody, Mail
<1>6. fans[m] \in 1 .. ReplyNr
  BY <1>1, <1>2, RelayAssumption DEF Inv, FanInv, HandlerInv, ReplyNr, RelayAssumption
<1>7. target \in MessageId \cup {Nil}
  <2>1. ASSUME HasView(r)
        PROVE  views[handler.hit][r] \in MessageId
    <3>1. handler.hit \in DOMAIN views /\ r \in DOMAIN views[handler.hit]
      BY <1>1, <2>1 DEF HasView, HandlerInv, Inv, CacheInv, Made
    <3>2. QED
      BY <3>1 DEF Inv, CacheInv, Made
  <2>2. QED
    BY <1>3, <2>1 DEF TargetFor
<1>8. bound \in BOOLEAN
  OBVIOUS
<1>9. CopyFor(r) = [msg |-> m, to |-> r, fan |-> fans[m], body |-> HasBody(m),
                    fields |-> FieldsFor(r), target |-> target, bound |-> bound,
                    bubble |-> handler.bubble]
  BY DEF CopyFor
<1> HIDE DEF m, target, bound
<1>10. CopyFor(r) \in Copy
  BY <1>2, <1>4, <1>5, <1>6, <1>7, <1>8, <1>9 DEF Copy
<1>11. QED
  BY <1>1, <1>10 DEF HandlerInv

LEMMA QueueChange ==
  ASSUME QueueInv, MailKept, ViewsKept,
         copies' \subseteq Copy, pending' \subseteq Copy,
         sent' \subseteq pending', writer' \in sent' \cup {Nil},
         \A c \in pending' : c \in pending \/ c.bubble \in DOMAIN age \cup {Nil},
         \A c \in sent' : c \in sent \/ (c.bubble # Nil /\ CopyId(c) \in held'[c.to])
  PROVE  QueueInv'
<1>1. \A c \in pending' : c.bubble \in DOMAIN age' \cup {Nil}
  BY DEF QueueInv, ViewsKept
<1>2. \A c \in sent' : c.to \in Users
  BY CopyIdType DEF QueueInv
<1>3. \A c \in sent' : c.bubble # Nil /\ CopyId(c) \in held'[c.to]
  BY <1>2 DEF QueueInv, MailKept
<1>4. QED
  BY <1>1, <1>3 DEF QueueInv, CopyId

LEMMA QueueStep ==
  ASSUME Inv, [Next]_vars
  PROVE  QueueInv'
<1>1. MailKept /\ QueueInv /\ MailInv
  BY MailStep DEF Inv
<1>2. Restart \/ ViewsKept
  BY CacheStep
<1>3. CASE Restart
  <2>1. PICK kept \in SUBSET pending :
           pending' = {[c EXCEPT !.bubble = Nil] : c \in kept}
    BY <1>3 DEF Restart
  <2>2. /\ sent' = {} /\ writer' = Nil /\ copies' = copies /\ held' = held
    BY <1>3 DEF Restart, results
  <2>3. \A c \in Copy : [c EXCEPT !.bubble = Nil] \in Copy /\ [c EXCEPT !.bubble = Nil].bubble = Nil
    BY DEF Copy
  <2>4. \A c \in pending' : c \in Copy /\ c.bubble = Nil
    BY <1>1, <2>1, <2>3 DEF QueueInv
  <2>5. QED
    BY <1>1, <2>2, <2>4 DEF QueueInv
<1>4. ASSUME ViewsKept, UNCHANGED <<queue, writer, copies>>
      PROVE  QueueInv'
  BY <1>1, <1>4, QueueChange DEF QueueInv, queue
<1>5. CASE ViewsKept /\ Surroundings
  BY <1>4, <1>5 DEF Surroundings, Compose, Command, Prune, Tick, results
<1>6. CASE ViewsKept /\ Inbox
  <2>1. ASSUME NEW m \in Msgs, Receive(m)
        PROVE  QueueInv'
    <3>1. m \in DOMAIN mail /\ UNCHANGED <<sent, writer, copies>>
      BY <2>1 DEF Receive
    <3>2. pending' = pending \/ pending' = pending \cup {PrivateReply(m)}
      BY <2>1 DEF Receive, Queued
    <3>3. PrivateReply(m) \in Copy /\ PrivateReply(m).bubble = Nil
      BY <1>1, <3>1, PrivateType
    <3>4. QED
      BY <1>1, <1>6, <3>1, <3>2, <3>3, QueueChange DEF QueueInv
  <2>2. ASSUME NEW r \in Users, EnqueueCopy(r)
        PROVE  QueueInv'
    <3>1. UNCHANGED <<sent, writer>> /\ copies' = copies \cup (pending' \ pending)
      BY <2>2 DEF EnqueueCopy
    <3>2. pending' = pending \/ pending' = pending \cup {CopyFor(r)}
      BY <2>2 DEF EnqueueCopy, Queued
    <3>3. /\ CopyFor(r) \in Copy /\ CopyFor(r).bubble = handler.bubble
          /\ handler.bubble \in DOMAIN age \cup {Nil}
      BY <2>2, CopyType, CopyParts DEF EnqueueCopy
    <3>4. QED
      BY <1>1, <1>6, <3>1, <3>2, <3>3, QueueChange DEF QueueInv
  <2>3. CASE Resolve \/ StartFanOut \/ FinishFanOut
    BY <1>4, <1>6, <2>3 DEF Resolve, StartFanOut, FinishFanOut, results
  <2>4. ASSUME NEW r \in Users, Withhold(r) \/ OmitTextOnly(r)
        PROVE  QueueInv'
    BY <1>4, <1>6, <2>4 DEF Withhold, OmitTextOnly, results
  <2>5. QED
    BY <1>6, <2>1, <2>2, <2>3, <2>4 DEF Inbox
<1>7. CASE ViewsKept /\ Workers
  <2>1. ASSUME NEW c \in pending, Send(c)
        PROVE  QueueInv'
    <3>1. /\ held' = [held EXCEPT ![c.to] = @ \cup {CopyId(c)}]
          /\ UNCHANGED <<writer, copies>> /\ c \notin sent
      BY <2>1 DEF Send, results
    <3>2. \/ c.bubble = Nil /\ pending' = pending \ {c} /\ sent' = sent
          \/ c.bubble # Nil /\ pending' = pending /\ sent' = sent \cup {c}
      BY <2>1 DEF Send
    <3>3. c.to \in Users
      BY <1>1, CopyIdType DEF QueueInv
    <3>4. CopyId(c) \in held'[c.to]
      BY <1>1, <3>1, <3>3 DEF MailInv
    <3>5. QED
      BY <1>1, <1>7, <3>1, <3>2, <3>4, QueueChange DEF QueueInv
  <2>2. ASSUME NEW c \in pending, GiveUp(c) \/ BeginRegister(c)
        PROVE  QueueInv'
    <3>1. CASE GiveUp(c)
      BY <1>1, <1>7, <3>1, QueueChange DEF GiveUp, QueueInv, results
    <3>2. CASE BeginRegister(c)
      BY <1>1, <1>7, <3>2, QueueChange DEF BeginRegister, QueueInv, queue, results
    <3>3. QED
      BY <2>2, <3>1, <3>2
  <2>3. CASE EndRegister
    BY <1>1, <1>7, <2>3, QueueChange DEF EndRegister, QueueInv, results
  <2>4. QED
    BY <1>7, <2>1, <2>2, <2>3 DEF Workers
<1>8. CASE ViewsKept /\ UNCHANGED vars
  BY <1>4, <1>8 DEF vars, results
<1>9. QED
  BY <1>2, <1>3, <1>5, <1>6, <1>7, <1>8 DEF Next

-----------------------------------------------------------------------------
(* The bubbles.                                                              *)

LEMMA BornKeeps ==
  ASSUME MailKept, NEW b, NEW m \in DOMAIN mail, NEW f, Born(b, m, f),
         \A r \in DOMAIN views[b] : r \in DOMAIN views'[b],
         \A r \in DOMAIN views'[b] :
            \/ r \in DOMAIN views[b] /\ views'[b][r] = views[b][r]
            \/ /\ views'[b][r] = <<m, r, IF r = mail[m].from THEN 0 ELSE f>>
               /\ mail[m].from \in DOMAIN views'[b],
         \A c \in pending' :
            \/ c \in pending
            \/ c.bubble # b
            \/ /\ c.msg = m /\ c.fan = f /\ c.to # mail[m].from
               /\ mail[m].from \in DOMAIN views[b],
         handler' # Nil /\ handler'.bubble = b =>
            /\ handler # Nil /\ handler.bubble = b
            /\ handler'.msg = handler.msg /\ fans'[m] = fans[m]
            /\ handler'.phase = "fanout" =>
                  handler.phase = "fanout" \/ mail[m].from \in DOMAIN views'[b]
  PROVE  Born(b, m, f)'
<1>1. mail'[m] = mail[m]
  BY DEF MailKept
<1>2. \A r \in DOMAIN views'[b] :
         /\ views'[b][r] = <<m, r, IF r = mail[m].from THEN 0 ELSE f>>
         /\ mail[m].from \in DOMAIN views'[b]
  BY DEF Born
<1>3. \A c \in pending' :
         c.bubble = b => /\ c.msg = m /\ c.fan = f /\ c.to # mail[m].from
                         /\ mail[m].from \in DOMAIN views'[b]
  BY DEF Born
<1>4. handler' # Nil /\ handler'.bubble = b =>
         /\ handler'.msg = m /\ fans'[m] = f
         /\ handler'.phase = "fanout" => mail[m].from \in DOMAIN views'[b]
  BY DEF Born
<1>5. QED
  BY <1>1, <1>2, <1>3, <1>4 DEF Born

\* Where the step makes no view: an old bubble is what it was.
LEMMA BornStays ==
  ASSUME Inv, MailKept, NEW b \in DOMAIN age, NEW m \in DOMAIN mail, NEW f \in Nat,
         Born(b, m, f), views'[b] = views[b],
         \A c \in pending' :
            \/ c \in pending
            \/ c.bubble # b
            \/ /\ c.msg = m /\ c.fan = f /\ c.to # mail[m].from
               /\ mail[m].from \in DOMAIN views[b],
         handler' # Nil /\ handler'.bubble = b =>
            /\ handler # Nil /\ handler.bubble = b
            /\ handler'.msg = handler.msg /\ fans'[m] = fans[m]
            /\ handler'.phase = "fanout" => handler.phase = "fanout"
  PROVE  Born(b, m, f)'
  BY BornKeeps

LEMMA BornStep ==
  ASSUME Inv, [Next]_vars, ~ Restart, NEW b \in DOMAIN age,
         NEW m \in DOMAIN mail, NEW f \in Nat, Born(b, m, f)
  PROVE  Born(b, m, f)'
<1>1. MailKept /\ HandlerInv
  BY MailStep DEF Inv
<1>2. b # Nil /\ b \in Bubbles
  BY RelayAssumption DEF Inv, CacheInv, Made, RelayAssumption
<1>3. ASSUME UNCHANGED <<views, fans>>, pending' \subseteq pending,
             handler' = Nil \/ handler' = handler
      PROVE  Born(b, m, f)'
  BY <1>1, <1>3, BornStays
<1>4. CASE Surroundings \/ UNCHANGED vars
  BY <1>3, <1>4 DEF Surroundings, Compose, Command, Prune, Tick, vars, cache, queue,
                    results, fanned
<1>5. CASE FinishFanOut
  BY <1>3, <1>5 DEF FinishFanOut, cache, queue, results, fanned
<1>6. ASSUME NEW c \in pending, Send(c) \/ GiveUp(c) \/ BeginRegister(c)
      PROVE  Born(b, m, f)'
  BY <1>3, <1>6 DEF Send, GiveUp, BeginRegister, cache, queue, results, fanned
<1>7. ASSUME NEW k \in Msgs, Receive(k)
      PROVE  Born(b, m, f)'
  <2>1. UNCHANGED views /\ k \in DOMAIN mail
    BY <1>7 DEF Receive, cache
  <2>2. pending' = pending \/ pending' = pending \cup {PrivateReply(k)}
    BY <1>7 DEF Receive, Queued
  <2>3. \A c \in pending' : c \in pending \/ c.bubble # b
    BY <1>2, <2>1, <2>2, PrivateType DEF Inv
  <2>4. handler' # Nil /\ handler'.bubble = b => handler' = handler /\ fans' = fans
    BY <1>2, <1>7 DEF Receive, fanned
  <2>5. QED
    BY <1>1, <2>1, <2>3, <2>4, BornStays
<1>8. CASE Resolve
  <2>1. views'[b] = views[b]
    BY <1>8, ResolveCache
  <2>2. handler'.bubble # b
    BY <1>2, <1>8, ResolveCache
  <2>3. pending' = pending
    BY <1>8 DEF Resolve, queue
  <2>4. QED
    BY <1>1, <2>1, <2>2, <2>3, BornStays
<1>9. ASSUME NEW r \in Users, Withhold(r) \/ OmitTextOnly(r) \/ EnqueueCopy(r)
      PROVE  Born(b, m, f)'
  <2>1. /\ Turn(r) /\ UNCHANGED <<mail, status, age, views, fans>>
        /\ \E n \in {0, 1} : TurnDone(r, n)
    BY <1>9 DEF Withhold, OmitTextOnly, EnqueueCopy, cache, results, fanned
  <2>2. /\ handler'.msg = handler.msg /\ handler'.bubble = handler.bubble
        /\ handler # Nil /\ handler.phase = "fanout" /\ r \in handler.todo
    BY <2>1, TurnHandler DEF Turn, InPhase
  <2>3. pending' \subseteq pending \cup {CopyFor(r)}
    BY <1>9 DEF Withhold, OmitTextOnly, EnqueueCopy, Queued, queue
  <2>4. /\ CopyFor(r).bubble = handler.bubble /\ CopyFor(r).msg = handler.msg
        /\ CopyFor(r).fan = fans[handler.msg] /\ CopyFor(r).to = r
    BY CopyParts
  <2>5. ASSUME handler.bubble = b
        PROVE  /\ handler.msg = m /\ fans[m] = f /\ r # mail[m].from
               /\ mail[m].from \in DOMAIN views[b]
    BY <1>1, <2>2, <2>5 DEF Born, HandlerInv
  <2>6. \A c \in pending' :
           \/ c \in pending
           \/ c.bubble # b
           \/ /\ c.msg = m /\ c.fan = f /\ c.to # mail[m].from
              /\ mail[m].from \in DOMAIN views[b]
    BY <2>3, <2>4, <2>5
  <2>7. QED
    BY <1>1, <2>1, <2>2, <2>6, BornStays
<1>10. CASE StartFanOut
  <2>1. /\ handler # Nil /\ pending' = pending /\ fans' = fans
        /\ handler'.msg = handler.msg /\ handler'.bubble = handler.bubble
    BY <1>10, StartHandler DEF StartFanOut, InPhase, queue, results, fanned
  <2>2. CASE handler.bubble # b
    <3>1. views'[b] = views[b]
      <4>1. CASE handler.bubble = Nil
        BY <1>10, <4>1 DEF StartFanOut, RegisterSender, cache
      <4>2. CASE handler.bubble # Nil
        BY <1>10, <2>2, <4>2, SenderRegistered
      <4>3. QED
        BY <4>1, <4>2
    <3>2. QED
      BY <1>1, <2>1, <2>2, <3>1, BornStays
  <2>3. CASE handler.bubble = b
    <3> DEFINE u == mail[handler.msg].from
    <3>1. handler.msg = m
      BY <2>1, <2>3 DEF Born
    <3>2. ViewsKept
      BY <1>2, <1>10, <2>3, SenderRegistered
    <3>3. DOMAIN views'[b] = DOMAIN views[b] \cup {u} /\ views'[b][u] = OwnId(handler.msg)
      BY <1>2, <1>10, <2>3, SenderRegistered
    <3>4. OwnId(handler.msg) = <<m, u, 0>>
      BY <3>1 DEF OwnId
    <3>5. \A r \in DOMAIN views[b] : r \in DOMAIN views'[b] /\ views'[b][r] = views[b][r]
      BY <3>2 DEF ViewsKept
    <3>6. \A r \in DOMAIN views'[b] :
            \/ r \in DOMAIN views[b] /\ views'[b][r] = views[b][r]
            \/ /\ views'[b][r] = <<m, r, IF r = mail[m].from THEN 0 ELSE f>>
               /\ mail[m].from \in DOMAIN views'[b]
      BY <3>1, <3>3, <3>4, <3>5
    <3>7. mail[m].from \in DOMAIN views'[b]
      BY <3>1, <3>3
    <3>8. QED
      BY <1>1, <2>1, <2>3, <3>5, <3>6, <3>7, BornKeeps
  <2>4. QED
    BY <2>2, <2>3
<1>11. CASE EndRegister
  <2>1. /\ writer # Nil /\ pending' \subseteq pending
        /\ UNCHANGED <<handler, fans>>
    BY <1>11 DEF EndRegister, results, fanned
  <2>2. writer \in pending
    BY <2>1 DEF Inv, QueueInv
  <2>3. CASE writer.bubble # b
    <3>1. views'[b] = views[b]
      BY <1>11, <2>3, WriterRegistered
    <3>2. QED
      BY <1>1, <2>1, <3>1, BornStays
  <2>4. CASE writer.bubble = b
    <3>1. /\ writer.msg = m /\ writer.fan = f /\ writer.to # mail[m].from
          /\ mail[m].from \in DOMAIN views[b]
      BY <2>2, <2>4 DEF Born
    <3>2. ViewsKept
      BY <1>11, WriterRegistered
    <3>3. /\ DOMAIN views'[b] = DOMAIN views[b] \cup {writer.to}
          /\ views'[b][writer.to] = CopyId(writer)
      BY <1>11, <2>4, WriterRegistered
    <3>4. CopyId(writer) = <<m, writer.to, f>>
      BY <3>1 DEF CopyId
    <3>5. \A r \in DOMAIN views[b] : r \in DOMAIN views'[b] /\ views'[b][r] = views[b][r]
      BY <3>2 DEF ViewsKept
    <3>6. \A r \in DOMAIN views'[b] :
            \/ r \in DOMAIN views[b] /\ views'[b][r] = views[b][r]
            \/ /\ views'[b][r] = <<m, r, IF r = mail[m].from THEN 0 ELSE f>>
               /\ mail[m].from \in DOMAIN views'[b]
      BY <3>1, <3>3, <3>4, <3>5
    <3>7. QED
      BY <1>1, <2>1, <3>5, <3>6, BornKeeps
  <2>5. QED
    BY <2>3, <2>4
<1>12. QED
  BY <1>4, <1>5, <1>6, <1>7, <1>8, <1>9, <1>10, <1>11 DEF Next, Inbox, Workers

LEMMA BubbleStep ==
  ASSUME Inv, [Next]_vars
  PROVE  BubbleInv'
<1>1. /\ MailKept /\ CacheInv /\ CacheInv' /\ HandlerInv
      /\ MailInv /\ QueueInv /\ BubbleInv /\ (Restart \/ ViewsKept)
  BY MailStep, CacheStep DEF Inv
<1>2. CASE Restart
  <2>1. DOMAIN age' = {}
    BY <1>2 DEF Restart
  <2>2. QED
    BY <2>1 DEF BubbleInv
<1>3. ASSUME ~ Restart, ~ Resolve
      PROVE  DOMAIN age' = DOMAIN age
  <2>1. CASE Tick
    BY <1>1, <2>1, TickCache
  <2>2. CASE StartFanOut
    BY <2>2 DEF StartFanOut, RegisterSender, cache
  <2>3. CASE Surroundings
    BY <2>1, <2>3 DEF Surroundings, Compose, Command, Prune, cache
  <2>4. CASE Workers
    BY <2>4 DEF Workers, Send, GiveUp, BeginRegister, EndRegister, cache
  <2>5. CASE Inbox
    BY <1>3, <2>2, <2>5 DEF Inbox, Receive, Withhold, OmitTextOnly, EnqueueCopy,
                            FinishFanOut, cache
  <2>6. CASE UNCHANGED vars
    BY <2>6 DEF vars, cache
  <2>7. QED
    BY <1>3, <2>3, <2>4, <2>5, <2>6 DEF Next
<1>4. ASSUME ~ Restart, NEW b \in DOMAIN age', b \notin DOMAIN age
      PROVE  /\ Resolve /\ b = handler'.bubble /\ b # Nil /\ DOMAIN views'[b] = {}
  BY <1>3, <1>4, ResolveCache
<1>5. ASSUME ~ Restart, NEW b \in DOMAIN age'
      PROVE  \E m \in DOMAIN mail', f \in Nat : Born(b, m, f)'
  <2>1. CASE b \in DOMAIN age
    <3>1. PICK m \in DOMAIN mail, f \in Nat : Born(b, m, f)
      BY <1>1, <2>1 DEF BubbleInv
    <3>2. m \in DOMAIN mail'
      BY <1>1 DEF MailKept
    <3>3. Born(b, m, f)'
      BY <1>5, <2>1, <3>1, BornStep
    <3>4. QED
      BY <3>2, <3>3
  <2>2. CASE b \notin DOMAIN age
    <3>1. /\ Resolve /\ b = handler'.bubble /\ b # Nil /\ DOMAIN views'[b] = {}
      BY <1>4, <1>5, <2>2
    <3>2. handler # Nil /\ pending' = pending /\ fans' = fans /\ mail' = mail
      BY <3>1 DEF Resolve, InPhase, queue, results, fanned
    <3>3. handler.msg \in DOMAIN mail /\ fans[handler.msg] \in Nat
      BY <3>2, HandlerOf DEF Inv, FanInv
    <3>4. PICK m \in DOMAIN mail, f \in Nat : m = handler.msg /\ f = fans[m]
      BY <3>3
    <3>5. handler'.msg = m /\ handler'.phase = "register"
      BY <3>1, <3>4, ResolveHandler
    <3>6. \A c \in pending' : c.bubble # b
      BY <1>1, <2>2, <3>1, <3>2 DEF QueueInv
    <3>7. Born(b, m, f)'
      <4>1. fans'[m] = f
        BY <3>2, <3>4
      <4>2. QED
        BY <3>1, <3>5, <3>6, <4>1 DEF Born
    <3>8. QED
      BY <3>2, <3>7
  <2>3. QED
    BY <2>1, <2>2
<1>6. ASSUME ~ Restart, NEW b \in DOMAIN age', NEW r \in DOMAIN views'[b]
      PROVE  views'[b][r] \in held'[r]
  <2>1. b \in DOMAIN age
    BY <1>4, <1>6
  <2>2. \A v \in Users : held[v] \subseteq held'[v]
    BY <1>1 DEF MailKept
  <2>3. r \in Users
    BY <1>1, <1>6 DEF CacheInv, Made
  <2>4. CASE r \in DOMAIN views[b]
    <3>1. views'[b][r] = views[b][r]
      BY <1>1, <1>6, <2>1, <2>4 DEF ViewsKept
    <3>2. QED
      BY <1>1, <2>1, <2>2, <2>3, <2>4, <3>1 DEF BubbleInv
  <2>5. CASE r \notin DOMAIN views[b]
    <3>1. CASE UNCHANGED views
      BY <1>6, <2>5, <3>1
    <3>2. CASE Resolve
      BY <1>6, <2>1, <2>5, <3>2, ResolveCache
    <3>3. CASE StartFanOut /\ handler.bubble # Nil
      <4>1. b = handler.bubble
        BY <1>6, <2>1, <2>5, <3>3, SenderRegistered
      <4>2. r = mail[handler.msg].from
        BY <1>6, <2>5, <3>3, <4>1, SenderRegistered
      <4>3. views'[b][r] = OwnId(handler.msg)
        BY <3>3, <4>1, <4>2, SenderRegistered
      <4>4. OwnId(handler.msg) \in held[r]
        BY <3>3, <4>2, SenderKnown DEF StartFanOut
      <4>5. QED
        BY <2>2, <2>3, <4>3, <4>4
    <3>4. CASE EndRegister
      <4>1. b = writer.bubble
        BY <1>6, <2>1, <2>5, <3>4, WriterRegistered
      <4>2. r = writer.to
        BY <1>6, <2>5, <3>4, <4>1, WriterRegistered
      <4>3. views'[b][r] = CopyId(writer)
        BY <3>4, <4>1, <4>2, WriterRegistered
      <4>4. CopyId(writer) \in held[r]
        BY <3>4, <4>2, WriterKnown DEF EndRegister
      <4>5. QED
        BY <2>2, <2>3, <4>3, <4>4
    <3>5. CASE Surroundings \/ UNCHANGED vars
      BY <3>1, <3>5 DEF Surroundings, Compose, Command, Prune, Tick, cache, vars
    <3>6. CASE Inbox
      BY <3>1, <3>2, <3>3, <3>6 DEF Inbox, Receive, StartFanOut, RegisterSender, Withhold,
                                    OmitTextOnly, EnqueueCopy, FinishFanOut, cache
    <3>7. CASE Workers
      BY <3>1, <3>4, <3>7 DEF Workers, Send, GiveUp, BeginRegister, cache
    <3>8. QED
      BY <1>6, <3>5, <3>6, <3>7 DEF Next
  <2>6. QED
    BY <2>4, <2>5
<1>7. QED
  BY <1>2, <1>5, <1>6 DEF BubbleInv

-----------------------------------------------------------------------------
(* What was readdressed, and what was withheld.                              *)

\* The bubble that the target was found in belongs to the target's message.
LEMMA HitBubble ==
  ASSUME Inv, handler # Nil, handler.hit # Nil
  PROVE  LET m == mail[handler.msg].target[1]
         IN  /\ handler.msg \in DOMAIN mail /\ m \in DOMAIN mail
             /\ handler.hit \in DOMAIN age
             /\ mail[m].from \in DOMAIN views[handler.hit]
             /\ \A r \in DOMAIN views[handler.hit] :
                   /\ views[handler.hit][r][1] = m /\ views[handler.hit][r][2] = r
                   /\ views[handler.hit][r] \in held[r]
<1> DEFINE h == handler.hit
<1>1. /\ handler.msg \in DOMAIN mail /\ h \in DOMAIN age
      /\ \E r \in DOMAIN views[h] : views[h][r] = mail[handler.msg].target
  BY DEF Inv, HandlerInv
<1>2. PICK q \in DOMAIN views[h] : views[h][q] = mail[handler.msg].target
  BY <1>1
<1>3. PICK m \in DOMAIN mail, f \in Nat : Born(h, m, f)
  BY <1>1 DEF Inv, BubbleInv
<1>4. /\ mail[m].from \in DOMAIN views[h]
      /\ \A r \in DOMAIN views[h] : views[h][r] = <<m, r, IF r = mail[m].from THEN 0 ELSE f>>
  BY <1>2, <1>3 DEF Born
<1>5. \A r \in DOMAIN views[h] : views[h][r][1] = m /\ views[h][r][2] = r
  BY <1>4
<1>6. mail[handler.msg].target[1] = m
  BY <1>2, <1>5
<1>7. \A r \in DOMAIN views[h] : views[h][r] \in held[r]
  BY <1>1 DEF Inv, BubbleInv
<1>8. QED
  BY <1>1, <1>4, <1>5, <1>6, <1>7

\* A copy that names a target has it from the recipient's own view.
LEMMA CopyBinds ==
  ASSUME Inv, NEW r \in Users, Turn(r), ~ Withheld(r),
         CopyFor(r).bound, CopyFor(r).target # Nil
  PROVE  /\ handler.msg \in DOMAIN mail
         /\ CopyFor(r).target[2] = r
         /\ CopyFor(r).target[1] = mail[handler.msg].target[1]
         /\ CopyFor(r).target \in held[r]
<1>1. handler # Nil /\ handler.hit # Nil
  BY CopyParts DEF Turn, InPhase
<1>2. FieldsFor(r) \cap Pointers # {} /\ CopyFor(r).target = TargetFor(r)
  BY CopyParts
<1>3. HasView(r)
  <2>1. SUFFICES ASSUME ~ HasView(r) PROVE FALSE
    OBVIOUS
  <2>2. Blind(r)
    BY <1>1, <2>1 DEF Blind
  <2>3. Survivors(handler.msg) \cap Dicts = {}
    BY <2>2 DEF Withheld
  <2>4. FieldsFor(r) \subseteq Stamped(Survivors(handler.msg)) \ {"reply"}
    BY <2>2 DEF FieldsFor
  <2>5. Stamped(Survivors(handler.msg)) = Survivors(handler.msg)
    BY <2>3 DEF Stamped, Dicts
  <2>6. FieldsFor(r) \cap Pointers = {}
    BY <2>3, <2>4, <2>5 DEF Pointers
  <2>7. QED
    BY <1>2, <2>6
<1>4. r \in DOMAIN views[handler.hit] /\ TargetFor(r) = views[handler.hit][r]
  BY <1>3 DEF HasView, TargetFor
<1>5. handler.msg \in DOMAIN mail
  BY <1>1, HitBubble
<1>6. /\ views[handler.hit][r][1] = mail[handler.msg].target[1]
      /\ views[handler.hit][r][2] = r /\ views[handler.hit][r] \in held[r]
  BY <1>1, <1>4, HitBubble
<1>7. QED
  BY <1>2, <1>4, <1>5, <1>6

\* Nobody without a view of a bubble that was found is its author.
LEMMA SkipSpares ==
  ASSUME Inv, NEW r \in Users, Turn(r), Withheld(r)
  PROVE  /\ handler.msg \in DOMAIN mail
         /\ mail[handler.msg].target[1] \in DOMAIN mail
         /\ r # mail[mail[handler.msg].target[1]].from
<1>1. handler # Nil /\ handler.hit # Nil /\ r \notin DOMAIN views[handler.hit]
  BY DEF Turn, InPhase, Withheld, Blind, HasView
<1>2. /\ handler.msg \in DOMAIN mail /\ mail[handler.msg].target[1] \in DOMAIN mail
      /\ mail[mail[handler.msg].target[1]].from \in DOMAIN views[handler.hit]
  BY <1>1, HitBubble
<1>3. QED
  BY <1>1, <1>2

LEMMA ResultStep ==
  ASSUME Inv, [Next]_vars
  PROVE  ResultInv'
<1>1. MailKept /\ ResultInv /\ QueueInv
  BY MailStep DEF Inv
<1>2. ASSUME NEW c \in copies' \ copies
      PROVE  \E r \in Users : /\ Turn(r) /\ ~ Withheld(r) /\ c = CopyFor(r)
                              /\ mail' = mail
  <2>1. ASSUME NEW r \in Users, EnqueueCopy(r)
        PROVE  Turn(r) /\ ~ Withheld(r) /\ c = CopyFor(r) /\ mail' = mail
    BY <1>2, <2>1 DEF EnqueueCopy, Queued
  <2>2. CASE UNCHANGED copies
    BY <1>2, <2>2
  <2>3. QED
    BY <2>1, <2>2 DEF Next, Surroundings, Inbox, Workers, Compose, Command, Prune, Tick,
        Receive, Resolve, StartFanOut, Withhold, OmitTextOnly, FinishFanOut, Send, GiveUp,
        BeginRegister, EndRegister, Restart, vars, results
<1>3. ASSUME NEW p \in skipped' \ skipped
      PROVE  \E r \in Users : /\ Turn(r) /\ Withheld(r) /\ p = <<handler.msg, r>>
                              /\ mail' = mail
  <2>1. ASSUME NEW r \in Users, Withhold(r)
        PROVE  Turn(r) /\ Withheld(r) /\ p = <<handler.msg, r>> /\ mail' = mail
    BY <1>3, <2>1 DEF Withhold
  <2>2. CASE UNCHANGED skipped
    BY <1>3, <2>2
  <2>3. QED
    BY <2>1, <2>2 DEF Next, Surroundings, Inbox, Workers, Compose, Command, Prune, Tick,
        Receive, Resolve, StartFanOut, EnqueueCopy, OmitTextOnly, FinishFanOut, Send, GiveUp,
        BeginRegister, EndRegister, Restart, vars, results
<1>4. \A c \in copies' : /\ c.msg \in DOMAIN mail'
                         /\ c.bound /\ c.target # Nil =>
                              /\ c.target[2] = c.to
                              /\ c.target[1] = mail'[c.msg].target[1]
                              /\ c.target \in held'[c.to]
  <2>1. TAKE c \in copies'
  <2>2. CASE c \in copies
    <3>1. c.to \in Users
      BY <1>1, <2>2, CopyIdType DEF QueueInv
    <3>2. QED
      BY <1>1, <2>2, <3>1 DEF ResultInv, BindsOwnView, MailKept
  <2>3. CASE c \notin copies
    <3>1. PICK r \in Users : Turn(r) /\ ~ Withheld(r) /\ c = CopyFor(r) /\ mail' = mail
      BY <1>2, <2>3
    <3>2. c.msg = handler.msg /\ c.to = r
      BY <3>1, CopyParts
    <3>3. handler.msg \in DOMAIN mail
      BY <3>1, HandlerOf DEF Inv, Turn, InPhase
    <3>4. ASSUME c.bound, c.target # Nil
          PROVE  /\ c.target[2] = r /\ c.target[1] = mail[handler.msg].target[1]
                 /\ c.target \in held[r]
      BY <3>1, <3>4, CopyBinds
    <3>5. QED
      BY <1>1, <3>1, <3>2, <3>3, <3>4 DEF MailKept
  <2>4. QED
    BY <2>2, <2>3
<1>5. \A p \in skipped' : /\ p[1] \in DOMAIN mail' /\ mail'[p[1]].target[1] \in DOMAIN mail'
                          /\ p[2] # mail'[mail'[p[1]].target[1]].from
  <2>1. TAKE p \in skipped'
  <2>2. CASE p \in skipped
    BY <1>1, <2>2 DEF ResultInv, AuthorNotSkipped, MailKept
  <2>3. CASE p \notin skipped
    <3>1. PICK r \in Users : Turn(r) /\ Withheld(r) /\ p = <<handler.msg, r>> /\ mail' = mail
      BY <1>3, <2>3
    <3>2. p[1] = handler.msg /\ p[2] = r
      BY <3>1
    <3>3. QED
      BY <3>1, <3>2, SkipSpares
  <2>4. QED
    BY <2>2, <2>3
<1>6. QED
  BY <1>4, <1>5 DEF ResultInv, BindsOwnView, AuthorNotSkipped

-----------------------------------------------------------------------------
(* Duplicate suppression.                                                    *)

LEMMA MsgSets ==
  ASSUME NEW S, S \subseteq Msgs
  PROVE  /\ IsFiniteSet(S) /\ Cardinality(S) \in Nat
         /\ \A T : T \subseteq S => Cardinality(T) <= Cardinality(S)
<1>1. IsFiniteSet(Msgs)
  BY FS_Interval, RelayAssumption DEF Msgs, RelayAssumption
<1>2. IsFiniteSet(S)
  BY <1>1, FS_Subset
<1>3. QED
  BY <1>2, FS_Subset, FS_CardinalityType

\* seenBefore and evictLocked: the table sheds everything exactly when more
\* messages than it holds passed within the window.
LEMMA RecordKeeps ==
  ASSUME SeenInv, NEW m \in Msgs, Record(m)
  PROVE  SeenInv'
<1> DEFINE w == Cache!With(seen, m, 0)
           known == {x \in Msgs \ forgotten : recent[x] < Window} \cup {m}
           fresh == {x \in DOMAIN w : w[x] < Window}
<1>1. /\ seen' = IF Window = 0 THEN seen ELSE Evicted(w)
      /\ recent' = [recent EXCEPT ![m] = 0]
      /\ forgotten' = IF Cardinality(known) > SeenMax THEN Msgs ELSE forgotten \ {m}
  BY DEF Record
<1>2. Window \in Nat /\ SeenMax \in Nat
  BY RelayAssumption DEF RelayAssumption
<1>3. /\ recent' \in [Msgs -> 0 .. Window] /\ recent'[m] = 0
      /\ \A x \in Msgs \ {m} : recent'[x] = recent[x]
  BY <1>1, <1>2 DEF SeenInv
<1>4. forgotten' \subseteq Msgs
  BY <1>1 DEF SeenInv
<1>5. w = [y \in DOMAIN seen \cup {m} |-> IF y = m THEN 0 ELSE seen[y]]
  BY DEF Cache!With
<1>6. DOMAIN w = DOMAIN seen \cup {m} /\ DOMAIN w \subseteq Msgs
  BY <1>5 DEF SeenInv
<1>7. \A x \in DOMAIN w : w[x] = recent'[x]
  BY <1>3, <1>5, <1>6 DEF SeenInv
<1>8. known \subseteq Msgs /\ known \subseteq DOMAIN w
  BY <1>6 DEF SeenInv
<1> HIDE DEF w
<1>9. CASE Window = 0
  <2>1. recent' = recent /\ seen' = seen
    BY <1>1, <1>3, <1>9 DEF SeenInv
  <2>2. CASE Cardinality(known) > SeenMax
    <3>1. known = {m}
      BY <1>9 DEF SeenInv
    <3>2. Cardinality(known) = 1
      BY <3>1, FS_Singleton
    <3>3. SeenMax = 0
      BY <1>2, <2>2, <3>2
    <3>4. IsFiniteSet(DOMAIN seen) /\ Cardinality(DOMAIN seen) \in Nat
      BY MsgSets DEF SeenInv
    <3>5. Cardinality(DOMAIN seen) = 0
      BY <3>3, <3>4 DEF SeenInv
    <3>6. DOMAIN seen = {}
      BY <3>4, <3>5, FS_EmptySet
    <3>7. QED
      BY <1>1, <1>4, <2>1, <2>2, <3>6 DEF SeenInv
  <2>3. CASE ~ (Cardinality(known) > SeenMax)
    <3>1. forgotten' = forgotten \ {m}
      BY <1>1, <2>3
    <3>2. \A x \in Msgs : ~ (recent[x] < Window)
      BY <1>9 DEF SeenInv
    <3>3. QED
      BY <1>4, <2>1, <3>1, <3>2 DEF SeenInv
  <2>4. QED
    BY <2>2, <2>3
<1>10. CASE Window # 0
  <2>1. fresh = known
    <3>1. ASSUME NEW x \in Msgs \ {m}
          PROVE  x \in fresh <=> x \in known
      BY <1>3, <1>6, <1>7 DEF SeenInv
    <3>2. m \in fresh
      BY <1>2, <1>3, <1>6, <1>7, <1>10
    <3>3. QED
      BY <1>6, <1>8, <3>1, <3>2
  <2>2. seen' = IF Cardinality(DOMAIN w) <= SeenMax THEN w
                ELSE IF Cardinality(known) <= SeenMax THEN [x \in known |-> w[x]] ELSE << >>
    <3>1. Evicted(w) = IF Cardinality(DOMAIN w) <= SeenMax THEN w
                       ELSE IF Cardinality(DOMAIN [x \in fresh |-> w[x]]) <= SeenMax
                            THEN [x \in fresh |-> w[x]] ELSE << >>
      BY DEF Evicted, Restrict
    <3>2. DOMAIN [x \in fresh |-> w[x]] = known
      BY <2>1
    <3>3. QED
      BY <1>1, <1>10, <2>1, <3>1, <3>2
  <2>3. /\ Cardinality(known) \in Nat /\ Cardinality(DOMAIN w) \in Nat
        /\ Cardinality(known) <= Cardinality(DOMAIN w)
    BY <1>6, <1>8, MsgSets
  <2> HIDE DEF known, fresh
  <2>4. ASSUME Cardinality(known) <= SeenMax,
               NEW D \in SUBSET DOMAIN w, known \subseteq D, seen' = [x \in D |-> w[x]],
               Cardinality(D) <= SeenMax
        PROVE  SeenInv'
    <3>1. forgotten' = forgotten \ {m}
      BY <1>1, <1>2, <2>3, <2>4
    <3>2. DOMAIN seen' = D /\ \A x \in D : seen'[x] = recent'[x]
      BY <1>7, <2>4
    <3>3. \A x \in D : x \notin forgotten'
      BY <1>6, <3>1 DEF SeenInv
    <3>4. \A x \in Msgs \ forgotten' : recent'[x] < Window => x \in D
      BY <1>3, <2>4, <3>1 DEF known
    <3>5. D \subseteq Msgs /\ seen' = [x \in DOMAIN seen' |-> seen'[x]]
      BY <1>6, <2>4
    <3>6. QED
      BY <1>3, <1>4, <2>4, <3>2, <3>3, <3>4, <3>5 DEF SeenInv
  <2>5. CASE Cardinality(DOMAIN w) <= SeenMax
    <3>1. w = [x \in DOMAIN w |-> w[x]]
      BY <1>5, <1>6
    <3>2. Cardinality(known) <= SeenMax /\ seen' = w
      BY <1>2, <2>2, <2>3, <2>5
    <3>3. QED
      BY <1>8, <2>4, <2>5, <3>1, <3>2 DEF known
  <2>6. CASE ~ (Cardinality(DOMAIN w) <= SeenMax) /\ Cardinality(known) <= SeenMax
    BY <1>8, <2>2, <2>4, <2>6 DEF known
  <2>7. CASE ~ (Cardinality(DOMAIN w) <= SeenMax) /\ ~ (Cardinality(known) <= SeenMax)
    <3>1. seen' = << >> /\ DOMAIN seen' = {}
      BY <2>2, <2>7
    <3>2. forgotten' = Msgs
      BY <1>1, <1>2, <2>3, <2>7
    <3>3. Cardinality({}) = 0
      BY FS_EmptySet
    <3>4. seen' = [x \in DOMAIN seen' |-> seen'[x]]
      BY <3>1
    <3>5. QED
      BY <1>2, <1>3, <3>1, <3>2, <3>3, <3>4 DEF SeenInv
  <2>8. QED
    BY <2>5, <2>6, <2>7
<1>11. QED
  BY <1>9, <1>10

LEMMA SeenStep ==
  ASSUME SeenInv, [Next]_vars
  PROVE  SeenInv'
<1>1. CASE UNCHANGED <<seen, passed>>
  BY <1>1 DEF SeenInv, passed
<1>2. ASSUME NEW m \in Msgs, Receive(m)
      PROVE  SeenInv'
  BY <1>2, RecordKeeps DEF Receive
<1>3. CASE Tick
  <2>1. /\ seen' = [m \in DOMAIN seen |-> Older(seen[m])]
        /\ recent' = [m \in Msgs |-> Older(recent[m])]
        /\ forgotten' = forgotten
    BY <1>3 DEF Tick
  <2>2. Window \in Nat
    BY RelayAssumption DEF RelayAssumption
  <2>3. \A a \in 0 .. Window : Older(a) \in 0 .. Window /\ (Older(a) < Window => a < Window)
    BY <2>2 DEF Older
  <2>4. recent' \in [Msgs -> 0 .. Window]
    BY <2>1, <2>3 DEF SeenInv
  <2>5. /\ DOMAIN seen' = DOMAIN seen /\ seen' = [m \in DOMAIN seen' |-> seen'[m]]
        /\ \A m \in DOMAIN seen : seen'[m] = recent'[m]
    BY <2>1 DEF SeenInv
  <2>6. \A m \in Msgs \ forgotten' : recent'[m] < Window => m \in DOMAIN seen'
    BY <2>1, <2>3, <2>5 DEF SeenInv
  <2>7. QED
    BY <2>1, <2>4, <2>5, <2>6 DEF SeenInv
<1>4. CASE Restart
  <2>1. /\ seen' = << >> /\ DOMAIN seen' = {} /\ recent' = [m \in Msgs |-> Window]
        /\ forgotten' = {}
    BY <1>4 DEF Restart
  <2>2. Cardinality({}) = 0 /\ Window \in Nat /\ SeenMax \in Nat
    BY FS_EmptySet, RelayAssumption DEF RelayAssumption
  <2>3. seen' = [m \in DOMAIN seen' |-> seen'[m]]
    BY <2>1
  <2>4. QED
    BY <2>1, <2>2, <2>3 DEF SeenInv
<1>5. QED
  BY <1>1, <1>2, <1>3, <1>4 DEF Next, Surroundings, Inbox, Workers, Compose, Command, Prune,
      Resolve, StartFanOut, Withhold, OmitTextOnly, EnqueueCopy, FinishFanOut, Send, GiveUp,
      BeginRegister, EndRegister, vars

-----------------------------------------------------------------------------
(* The replay log.                                                           *)

LEMMA TrimmedLog ==
  ASSUME NEW l \in Seq(Msgs)
  PROVE  Trimmed(l) \in Seq(Msgs) /\ Len(Trimmed(l)) <= LogCap
<1>1. Len(l) \in Nat /\ LogCap \in Nat \ {0}
  BY LenProperties, RelayAssumption DEF RelayAssumption
<1>2. CASE Len(l) > LogCap
  <2> DEFINE k == Len(l) - LogCap + 1
             n == Len(l)
  <2>1. k \in 1 .. n + 1 /\ n \in k - 1 .. n /\ n - k + 1 = LogCap /\ k <= n
    BY <1>1, <1>2
  <2>2. \A i \in k .. n : l[i] \in Msgs
    BY <2>1, ElementOfSeq
  <2>3. SubSeq(l, k, n) \in Seq(Msgs) /\ Len(SubSeq(l, k, n)) = LogCap
    BY <1>1, <2>1, SubSeqProperties
  <2>4. QED
    BY <1>1, <1>2, <2>3 DEF Trimmed
<1>3. CASE ~ (Len(l) > LogCap)
  BY <1>1, <1>3 DEF Trimmed
<1>4. QED
  BY <1>2, <1>3

LEMMA LogStep ==
  ASSUME LogInv, HandlerInv, [Next]_vars
  PROVE  LogInv'
<1>1. CASE UNCHANGED logs
  BY <1>1 DEF LogInv, logs
<1>2. CASE FinishFanOut
  <2>1. CASE AppendEntry(handler.msg)
    <3>1. handler.msg \in Msgs
      BY <1>2 DEF HandlerInv, FinishFanOut, InPhase, Handler
    <3>2. Append(log, handler.msg) \in Seq(Msgs)
      BY <3>1, AppendProperties DEF LogInv
    <3>3. log' \in Seq(Msgs) /\ Len(log') <= LogCap
      BY <2>1, <3>2, TrimmedLog DEF AppendEntry
    <3>4. QED
      BY <2>1, <3>3 DEF AppendEntry, LogInv
  <2>2. QED
    BY <1>1, <1>2, <2>1 DEF FinishFanOut
<1>3. CASE Restart
  BY <1>3, TrimmedLog DEF Restart, LogInv
<1>4. QED
  BY <1>1, <1>2, <1>3 DEF Next, Surroundings, Inbox, Workers, Compose, Command, Prune, Tick,
      Receive, Resolve, StartFanOut, Withhold, OmitTextOnly, EnqueueCopy, Send, GiveUp,
      BeginRegister, EndRegister, vars

-----------------------------------------------------------------------------
(* Together.                                                                 *)

LEMMA InitInv ==
  ASSUME Init
  PROVE  Inv
<1>1. MaxMsgs \in Nat /\ MaxFans \in Nat /\ Window \in Nat /\ SeenMax \in Nat /\ LogCap \in Nat
  BY RelayAssumption DEF RelayAssumption
<1>2. age = << >> /\ views = << >> /\ index = << >> /\ lru = << >> /\ DOMAIN age = {}
  BY DEF Init, Cache!Init, Cache!Nothing
<1>3. CacheInv
  BY <1>2, EmptyCache DEF CacheInv, CapHeld, Cache!CapHeld
<1>4. << >> \in Seq(Mail) /\ << >> \in Seq(Msgs) /\ Len(<< >>) = 0 /\ DOMAIN << >> = {}
  BY EmptySeq
<1>5. MailInv
  <2>1. status \in [Users -> {"none", "active", "paused", "banned"}]
    BY DEF Init
  <2>2. held \in [Users -> SUBSET MessageId]
    BY DEF Init
  <2>3. mail = << >>
    BY DEF Init
  <2>4. QED
    BY <1>1, <1>4, <2>1, <2>2, <2>3 DEF MailInv
<1>6. FanInv
  BY <1>1 DEF Init, FanInv
<1>7. HandlerInv /\ QueueInv
  BY DEF Init, HandlerInv, QueueInv
<1>8. BubbleInv /\ ResultInv
  BY <1>2 DEF Init, BubbleInv, ResultInv, BindsOwnView, AuthorNotSkipped
<1>9. SeenInv
  <2>1. /\ seen = << >> /\ recent = [m \in Msgs |-> Window] /\ forgotten = {}
    BY DEF Init
  <2>2. DOMAIN seen = {} /\ seen = [m \in DOMAIN seen |-> seen[m]]
    BY <2>1
  <2>3. Cardinality({}) = 0
    BY FS_EmptySet
  <2>4. QED
    BY <1>1, <2>1, <2>2, <2>3 DEF SeenInv
<1>10. LogInv
  BY <1>1, <1>4 DEF Init, LogInv
<1>11. QED
  BY <1>3, <1>5, <1>6, <1>7, <1>8, <1>9, <1>10 DEF Inv

LEMMA NextInv ==
  ASSUME Inv, [Next]_vars
  PROVE  Inv'
<1>1. MailInv /\ FanInv /\ HandlerInv /\ QueueInv /\ SeenInv /\ LogInv
  BY DEF Inv
<1>2. CacheInv' /\ MailInv' /\ FanInv'
  BY <1>1, CacheStep, MailStep, FanStep
<1>3. HandlerInv' /\ QueueInv' /\ BubbleInv'
  BY HandlerStep, QueueStep, BubbleStep
<1>4. ResultInv' /\ SeenInv' /\ LogInv'
  BY <1>1, ResultStep, SeenStep, LogStep
<1>5. QED
  BY <1>2, <1>3, <1>4 DEF Inv

\* The inductive invariant holds: every bubble of the message-id cache belongs
\* to one fan-out of one message, its views are ids its recipients really have,
\* the author's is the first of them, every key of the index is one of these
\* views, and the table of seen ids is what passed and was not cleared.
THEOREM RelayInvariant == Spec => []Inv
<1>1. Init => Inv
  BY InitInv
<1>2. Inv /\ [Next]_vars => Inv'
  BY NextInv
<1>3. QED
  BY <1>1, <1>2, PTL DEF Spec

\* The state has its type: the log and its file stay within replay.count, the
\* table of seen ids stays within its cap, the recency list never holds a
\* bubble twice, and what a worker registers is in the queue.
THEOREM TypeCorrect == Spec => []TypeOK
<1>1. Inv => TypeOK
  <2> SUFFICES ASSUME Inv PROVE TypeOK
    OBVIOUS
  <2>1. \A m \in DOMAIN mail : mail[m] \in Mail
    BY MailOf DEF Inv
  <2>2. status \in [Users -> {"none", "active", "paused", "banned"}]
    BY DEF Inv, MailInv
  <2>3. /\ DOMAIN seen \subseteq Msgs /\ Cardinality(DOMAIN seen) <= SeenMax
        /\ \A m \in DOMAIN seen : seen[m] \in 0 .. Window
    BY DEF Inv, SeenInv
  <2>4. ASSUME handler # Nil
        PROVE  handler \in [msg : Msgs, phase : {"resolve", "register", "fanout"},
                            hit : Bubbles \cup {Nil}, bubble : Bubbles \cup {Nil},
                            todo : SUBSET Users, count : 0 .. Cardinality(Users)]
    <3>1. /\ handler \in Handler /\ handler.count \in Nat /\ Cardinality(Users) \in Nat
          /\ Cardinality(handler.todo) \in Nat
      BY <2>4, HandlerOf DEF Inv
    <3>2. handler.count + Cardinality(handler.todo) <= Cardinality(Users)
      BY <2>4 DEF Inv, HandlerInv
    <3>3. handler.count \in 0 .. Cardinality(Users)
      BY <3>1, <3>2
    <3>4. QED
      BY <3>1, <3>3 DEF Handler
  <2>5. /\ copies \subseteq Copy /\ pending \subseteq Copy
        /\ sent \subseteq pending /\ writer \in sent \cup {Nil}
    BY DEF Inv, QueueInv
  <2>6. Len(log) <= LogCap /\ Len(diskLog) <= LogCap
    BY DEF Inv, LogInv
  <2>7. Cache!TypeOK
    BY CacheFollows DEF Inv
  <2>8. QED
    BY <2>1, <2>2, <2>3, <2>4, <2>5, <2>6, <2>7 DEF TypeOK, Mail
<1>2. QED
  BY <1>1, RelayInvariant, PTL

\* A readdressed reaction, comment or reply names the recipient's own id of the
\* very message its author pointed at, and the recipient has that id (rewrite.go
\* and idmap.go), whatever the workers and the cache do during the fan-out.
THEOREM ReactionsBind == Spec => []BindsOwnView
<1>1. Inv => BindsOwnView
  BY DEF Inv, ResultInv
<1>2. QED
  BY <1>1, RelayInvariant, PTL

\* Nobody is denied a reaction to a message of their own: the sender's view is
\* registered before the first copy leaves (registerSenderView).
THEOREM AuthorsNotSkipped == Spec => []AuthorNotSkipped
<1>1. Inv => AuthorNotSkipped
  BY DEF Inv, ResultInv
<1>2. QED
  BY <1>1, RelayInvariant, PTL

\* Every key of the message-id cache leads to a bubble that is in the recency
\* list and has the key among its views, so that eviction can delete it.
THEOREM NoStrayKey == Spec => []IndexOwned
<1>1. Inv => IndexOwned
  BY CacheFollows DEF Inv
<1>2. QED
  BY <1>1, RelayInvariant, PTL

\* The cap on the keys of the message-id cache holds after every operation, for
\* every cap, number of recipients and interleaving (enforceCapLocked).
THEOREM CapIsHeld == Spec => []CapHeld
<1>1. Inv => CapHeld
  BY DEF Inv, CacheInv
<1>2. QED
  BY <1>1, RelayInvariant, PTL

\* A message is fanned out again only when the window has passed, when the
\* table of seen ids overflowed since, or after a restart (dedup.go).
THEOREM NoEchoes == Spec => NoEcho
<1>1. ASSUME Inv, [Next]_vars, NEW m \in Msgs, fans'[m] > fans[m]
      PROVE  recent[m] >= Window \/ m \in forgotten
  <2>1. fans[m] \in Nat /\ Window \in Nat /\ recent[m] \in 0 .. Window
    BY <1>1, RelayAssumption DEF Inv, FanInv, SeenInv, RelayAssumption
  <2>2. CASE UNCHANGED fans
    BY <1>1, <2>1, <2>2
  <2>3. ASSUME NEW k \in Msgs, Receive(k)
        PROVE  recent[m] >= Window \/ m \in forgotten
    <3>1. CASE UNCHANGED fanned
      BY <2>2, <3>1 DEF fanned
    <3>2. CASE fans' = [fans EXCEPT ![k] = @ + 1]
      <4>1. k = m
        BY <1>1, <2>1, <3>2 DEF Inv, FanInv
      <4>2. ~ SeenBefore(m)
        BY <2>3, <4>1 DEF Receive
      <4>3. QED
        BY <1>1, <2>1, <4>2 DEF Inv, SeenInv, SeenBefore
    <3>3. QED
      BY <2>3, <3>1, <3>2 DEF Receive
  <2>4. QED
    BY <1>1, <2>2, <2>3 DEF Next, Surroundings, Inbox, Workers, Compose, Command, Prune,
        Tick, Resolve, StartFanOut, Withhold, OmitTextOnly, EnqueueCopy, FinishFanOut, Send,
        GiveUp, BeginRegister, EndRegister, Restart, vars, results, fanned
<1>2. Inv /\ [Next]_vars =>
        [\A m \in Msgs : fans'[m] > fans[m] => recent[m] >= Window \/ m \in forgotten]_vars
  BY <1>1
<1>3. QED
  BY <1>2, RelayInvariant, PTL DEF Spec, NoEcho

\* No copy is queued for one who is paused or banned, although the recipients
\* are a snapshot taken when the fan-out starts (forwardToRoster).
THEOREM QuietAreSpared == Spec => QuietSpared
<1>1. ASSUME Inv, [Next]_vars, NEW c \in copies' \ copies
      PROVE  status[c.to] \in {"active", "none"}
  <2>1. ASSUME NEW r \in Users, EnqueueCopy(r)
        PROVE  status[c.to] \in {"active", "none"}
    <3>1. Turn(r) /\ c = CopyFor(r)
      BY <1>1, <2>1 DEF EnqueueCopy, Queued
    <3>2. c.to = r
      BY <3>1, CopyParts
    <3>3. QED
      BY <1>1, <3>1, <3>2 DEF Inv, HandlerInv, Turn, InPhase
  <2>2. CASE UNCHANGED copies
    BY <1>1, <2>2
  <2>3. QED
    BY <1>1, <2>1, <2>2 DEF Next, Surroundings, Inbox, Workers, Compose, Command, Prune,
        Tick, Receive, Resolve, StartFanOut, Withhold, OmitTextOnly, FinishFanOut, Send,
        GiveUp, BeginRegister, EndRegister, Restart, vars, results
<1>2. Inv /\ [Next]_vars =>
        [\A c \in copies' \ copies : status[c.to] \in {"active", "none"}]_vars
  BY <1>1
<1>3. QED
  BY <1>2, RelayInvariant, PTL DEF Spec, QuietSpared

=============================================================================
