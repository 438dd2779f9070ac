-------------------------- MODULE SimtLookupProofs --------------------------
(***************************************************************************)
(* Theorems about SimtLookup, for every number of threads, tokens, slots    *)
(* and queries and every workload.                                          *)
(*                                                                          *)
(* The invariant follows a position p of the batch and a slot through the   *)
(* phases. Looked(p): its thread has left it in the lookup loop.            *)
(* Installed(p): the thread that has p in its chunk has left it in the      *)
(* alloc loop. Outside the kernel every thread is Done, so that everything  *)
(* is looked and installed, and what the kernel must restore needs no case  *)
(* of its own.                                                              *)
(***************************************************************************)
EXTENDS SimtLookupRefinement, FiniteSetTheorems, WellFoundedInduction, TLAPS

All(p) == \A t \in Tids : phase[t] >= p

Looked(p) ==
  \E t \in Tids : /\ p % Threads = t
                  /\ \/ phase[t] > Lookup
                     \/ phase[t] = Lookup /\ p < pos[t]

Installed(p) ==
  \E t \in Tids : /\ p \in Chunk(t, QueryCount)
                  /\ \/ phase[t] > Alloc
                     \/ phase[t] = Alloc /\ p < pos[t]

\* No thread has begun to rewrite lru.
Frozen == op = "lookup" /\ \A t \in Tids : phase[t] <= Rewrite

\* The threads keep together, and where they are in their loops.
ThreadInv ==
  /\ op # "lookup" => \A t \in Tids : phase[t] = Done
  /\ \A t, u \in Tids : phase[u] <= phase[t] + 1
  /\ \A t \in Tids : phase[t] = Lookup => pos[t] % Threads = t
  /\ \A t, u \in Tids : phase[t] = Clear /\ phase[u] = Lookup => pos[u] = u
  /\ \A t \in Tids : claiming[t] => phase[t] = Lookup /\ pos[t] < QueryCount
                                    /\ query[pos[t]] \in Tokens

\* The maps are inverse but for the claimed tokens.
MapInv ==
  /\ \A k \in Tokens :
       tokenToSlot[k] \in Slots => slotToToken[tokenToSlot[k]] = k
  /\ \A s \in Slots :
       slotToToken[s] # NotFound => tokenToSlot[slotToToken[s]] = s

\* A claimed token has one position, which loads it, until it gets a slot.
ClaimInv ==
  /\ \A k \in Tokens : tokenToSlot[k] = Claiming =>
       \E p \in MissAt : ~ Installed(p) /\ query[p] = k
  /\ \A p \in MissAt :
       /\ Looked(p) /\ query[p] \in Tokens
       /\ ~ Installed(p) => tokenToSlot[query[p]] = Claiming /\ slotIds[p] = NotFound
  /\ \A p, q \in MissAt : query[p] = query[q] => p = q

\* What slotIds holds for a position.
AnswerInv ==
  \A p \in Positions :
    /\ ~ Looked(p) => slotIds[p] = NotFound
    /\ query[p] \notin Tokens => slotIds[p] = NotFound
    /\ query[p] \in Tokens /\ slotIds[p] # NotFound => slotIds[p] = tokenToSlot[query[p]]

\* A looked token was hit, and its slot flagged, or a position loads it.
HitInv ==
  /\ \A p \in Positions : Looked(p) /\ query[p] \in Tokens =>
       \/ \E q \in MissAt : query[q] = query[p]
       \/ tokenToSlot[query[p]] \in Slots /\ hitFlags[tokenToSlot[query[p]]]
  /\ \A s \in Slots : hitFlags[s] /\ phase[s % Threads] > Clear =>
       \E p \in Positions \ MissAt :
         query[p] \in Tokens /\ tokenToSlot[query[p]] = s

\* The misses that have their slot took the ones their ranks name.
InstallInv ==
  \A p \in MissAt : Installed(p) =>
    /\ slotIds[p] = evictableSlots[RankIn(MissAt, p)]
    /\ tokenToSlot[query[p]] = slotIds[p]

\* The counts and compactions of the threads that have done theirs.
CountInv ==
  /\ \A t \in Tids : Frozen /\ phase[t] > Count =>
       /\ hitCounts[t] = Cardinality(HitAt \cap Chunk(t, SlotCount))
       /\ evictCounts[t] = Cardinality(EvictableAt \cap Chunk(t, SlotCount))
  /\ \A t \in Tids : phase[t] > Misses =>
       missCounts[t] = Cardinality(MissAt \cap Chunk(t, QueryCount))

CompactInv ==
  \A t \in Tids : Frozen /\ phase[t] > Compact =>
    /\ \A p \in HitAt \cap Chunk(t, SlotCount) :
         hitSlots[RankIn(HitAt, p)] = lru[p]
    /\ \A p \in EvictableAt \cap Chunk(t, SlotCount) :
         evictableSlots[RankIn(EvictableAt, p)] = lru[p]

\* The two lists that the last phases read part the slots between them, and
\* the misses fit into the evictable ones.
Lists ==
  /\ EvictableCount \in 0 .. SlotCount
  /\ Cardinality(MissAt) <= EvictableCount
  /\ \A i \in Slots : i < EvictableCount => ~ hitFlags[evictableSlots[i]]
  /\ \A i, j \in Slots :
       i < EvictableCount /\ j < EvictableCount
         /\ evictableSlots[i] = evictableSlots[j] => i = j
  /\ \A i \in Slots : i < SlotCount - EvictableCount => hitFlags[hitSlots[i]]
  /\ \A i, j \in Slots :
       i < SlotCount - EvictableCount /\ j < SlotCount - EvictableCount
         /\ hitSlots[i] = hitSlots[j] => i = j

\* lru lists every slot once, or what is rewritten of it is the new order.
LruInv ==
  /\ Frozen \/ op # "lookup" => \A p, q \in Slots : lru[p] = lru[q] => p = q
  /\ \A t \in Tids : op = "lookup" /\ phase[t] > Rewrite =>
       Lists /\ \A p \in Strided(t, SlotCount) : lru[p] = NewLru(p)
  /\ \A t \in Tids : phase[t] > Rewrite =>
       \A p \in Strided(t, QueryCount) : query[p] \in Tokens => slotIds[p] \in Slots

\* Between a miss and its load the slot has its old token's data.
PayloadInv ==
  \A s \in Slots : slotToToken[s] # NotFound =>
    \/ payload[s] = slotToToken[s]
    \/ op # "idle" /\ \E p \in MissAt : Installed(p) /\ slotIds[p] = s

IInv ==
  /\ TypeOK /\ ThreadInv /\ MapInv /\ ClaimInv /\ AnswerInv /\ HitInv
  /\ InstallInv /\ CountInv /\ CompactInv /\ LruInv /\ PayloadInv

-----------------------------------------------------------------------------
(***************************************************************************)
(* How the loops share the items out.                                       *)
(***************************************************************************)

\* Quotient and remainder.
LEMMA DivMod ==
  ASSUME NEW a \in Nat, NEW b \in Nat \ {0}
  PROVE  /\ a \div b \in Nat
         /\ a % b \in 0 .. b - 1
         /\ a = b * (a \div b) + (a % b)
OBVIOUS

LEMMA RemainderBelow ==
  ASSUME NEW a \in Nat, NEW b \in Nat \ {0}
  PROVE  a % b <= a
<1> DEFINE q == a \div b
           r == a % b
<1>1. q \in Nat /\ r \in Nat /\ a = b * q + r
  BY DivMod
<1> HIDE DEF q, r
<1>2. b * q \in Nat
  BY <1>1
<1> QED
  BY <1>1, <1>2 DEF r

\* Multiples of w lie at least w apart.
LEMMA Multiples ==
  ASSUME NEW w \in Nat, NEW i \in Nat, NEW j \in Nat, i < j
  PROVE  w * i + w <= w * j /\ w * i \in Nat
OBVIOUS

LEMMA UniqueQuotient ==
  ASSUME NEW w \in Nat \ {0}, NEW i \in Nat, NEW j \in Nat,
         NEW r \in 0 .. w - 1, NEW s \in 0 .. w - 1, w * i + r = w * j + s
  PROVE  i = j /\ r = s
<1>1. ~ i < j
  BY Multiples
<1>2. ~ j < i
  BY Multiples
<1> QED
  BY <1>1, <1>2

\* A strided loop: the items of one thread lie at least w apart.
LEMMA NextOfStride ==
  ASSUME NEW w \in Nat \ {0}, NEW a \in Nat, NEW b \in Nat,
         a % w = b % w, a <= b, b < a + w
  PROVE  a = b
<1> DEFINE i == a \div w
           j == b \div w
           r == a % w
<1>1. i \in Nat /\ j \in Nat /\ r \in 0 .. w - 1 /\ a = w * i + r /\ b = w * j + r
  BY DivMod
<1>2. i < j => w * i + w <= w * j
  BY <1>1, Multiples
<1>3. j < i => w * j + w <= w * i
  BY <1>1, Multiples
<1>4. w * i \in Nat /\ w * j \in Nat
  BY <1>1
<1> HIDE DEF i, j, r
<1> QED
  BY <1>1, <1>2, <1>3, <1>4

LEMMA StrideStep ==
  ASSUME NEW w \in Nat \ {0}, NEW a \in Nat
  PROVE  (a + w) % w = a % w
<1> DEFINE b == a + w
           i == a \div w
           j == b \div w
           r == a % w
           s == b % w
<1>1. i \in Nat /\ r \in 0 .. w - 1 /\ a = w * i + r
  BY DivMod
<1>2. b \in Nat
  OBVIOUS
<1> HIDE DEF b
<1>3. j \in Nat /\ s \in 0 .. w - 1 /\ b = w * j + s
  BY <1>2, DivMod
<1> HIDE DEF i, j, r, s
<1>4. w * (i + 1) = w * i + w
  BY <1>1
<1>5. w * (i + 1) + r = w * j + s
  BY <1>1, <1>2, <1>3, <1>4 DEF b
<1>6. r = s
  BY <1>1, <1>3, <1>5, UniqueQuotient
<1> QED
  BY <1>6 DEF r, s, b

\* Every item is in the strided share of one thread.
LEMMA StrideOf ==
  ASSUME NEW n \in Nat, NEW p \in 0 .. n - 1
  PROVE  p % Threads \in Tids /\ p \in Strided(p % Threads, n)
BY SimtAssumption, DivMod DEF Tids, Strided

\* The chunks are intervals that follow each other and together reach n.
LEMMA ChunkBounds ==
  ASSUME NEW n \in Nat
  PROVE  /\ ChunkWidth(n) \in Nat
         /\ n <= Threads * ChunkWidth(n)
<1> DEFINE a == n + Threads - 1
           w == a \div Threads
           r == a % Threads
<1>1. a \in Nat /\ Threads \in Nat \ {0}
  BY SimtAssumption
<1>2. w \in Nat /\ r \in 0 .. Threads - 1 /\ a = Threads * w + r
  <2> HIDE DEF a
  <2> QED
    BY <1>1, DivMod
<1>3. Threads * w \in Nat
  BY <1>1, <1>2
<1>4. n <= Threads * w
  <2> HIDE DEF w, r
  <2> QED
    BY <1>1, <1>2, <1>3 DEF a
<1> QED
  BY <1>2, <1>4 DEF ChunkWidth

LEMMA ChunkOf ==
  ASSUME NEW n \in Nat, NEW p \in 0 .. n - 1
  PROVE  \E t \in Tids : p \in Chunk(t, n)
<1> DEFINE w == ChunkWidth(n)
           t == p \div w
<1>1. w \in Nat /\ n <= Threads * w /\ Threads \in Nat \ {0}
  BY ChunkBounds, SimtAssumption
<1> HIDE DEF w
<1>2. w \in Nat \ {0} /\ p \in Nat /\ p < Threads * w
  BY <1>1
<1>3. t \in Nat /\ p % w \in 0 .. w - 1 /\ p = w * t + (p % w)
  BY <1>2, DivMod
<1> HIDE DEF t
<1>4. ~ Threads <= t
  <2> SUFFICES ASSUME Threads <= t PROVE FALSE
    OBVIOUS
  <2>1. w * Threads <= w * t
    BY <1>1, <1>3
  <2> QED
    BY <2>1, <1>1, <1>2, <1>3
<1>5. t * w <= p /\ p < (t + 1) * w
  BY <1>1, <1>3
<1>6. t \in Tids
  BY <1>1, <1>3, <1>4 DEF Tids
<1> QED
  BY <1>5, <1>6 DEF Chunk, w

LEMMA ChunksDisjoint ==
  ASSUME NEW n \in Nat, NEW t \in Tids, NEW u \in Tids,
         NEW p \in Chunk(t, n), p \in Chunk(u, n)
  PROVE  t = u
<1> DEFINE w == ChunkWidth(n)
<1>1. w \in Nat /\ t \in Nat /\ u \in Nat /\ p \in Nat
  BY ChunkBounds, SimtAssumption DEF Tids, Chunk
<1>2. /\ t * w <= p /\ p < (t + 1) * w
      /\ u * w <= p /\ p < (u + 1) * w
  BY DEF Chunk
<1> HIDE DEF w
<1>3. ~ t < u
  BY <1>1, <1>2, Multiples
<1>4. ~ u < t
  BY <1>1, <1>2, Multiples
<1> QED
  BY <1>1, <1>3, <1>4

-----------------------------------------------------------------------------
(***************************************************************************)
(* Ranks, and the sums of the counts before a thread.                       *)
(***************************************************************************)

LEMMA FiniteItems ==
  ASSUME NEW n \in Nat, NEW S \in SUBSET (0 .. n - 1)
  PROVE  IsFiniteSet(S) /\ Cardinality(S) \in 0 .. n
<1>1. IsFiniteSet(0 .. n - 1) /\ Cardinality(0 .. n - 1) = n
  BY FS_Interval
<1>2. IsFiniteSet(S) /\ Cardinality(S) <= n
  BY <1>1, FS_Subset
<1> QED
  BY <1>2, FS_CardinalityType

\* The ranks of the members of S are 0, 1 and so on, each once.
LEMMA RankRange ==
  ASSUME NEW n \in Nat, NEW S \in SUBSET (0 .. n - 1), NEW p \in S
  PROVE  RankIn(S, p) \in 0 .. Cardinality(S) - 1
<1> DEFINE B == {q \in S : q < p}
<1>1. IsFiniteSet(S) /\ Cardinality(S) \in Nat
  BY FiniteItems
<1>2. B \in SUBSET S /\ B # S
  OBVIOUS
<1>3. IsFiniteSet(B) /\ Cardinality(B) <= Cardinality(S) /\ Cardinality(B) # Cardinality(S)
  BY <1>1, <1>2, FS_Subset
<1>4. Cardinality(B) \in Nat
  BY <1>3, FS_CardinalityType
<1> QED
  BY <1>1, <1>3, <1>4 DEF RankIn

LEMMA RankInjective ==
  ASSUME NEW n \in Nat, NEW S \in SUBSET (0 .. n - 1), NEW p \in S, NEW q \in S,
         RankIn(S, p) = RankIn(S, q)
  PROVE  p = q
<1>1. ASSUME NEW a \in S, NEW b \in S, a < b
      PROVE  RankIn(S, a) # RankIn(S, b)
  <2> DEFINE A == {x \in S : x < a}
             B == {x \in S : x < b}
  <2>1. B \in SUBSET (0 .. n - 1)
    OBVIOUS
  <2>2. \A x \in S : x \in Int
    OBVIOUS
  <2>3. A \in SUBSET B
    <3> SUFFICES ASSUME NEW x \in A PROVE x \in B
      OBVIOUS
    <3>1. x \in S /\ x \in Int /\ a \in Int /\ b \in Int /\ x < a
      BY <2>2
    <3> QED
      BY <1>1, <3>1
  <2>4. a \in B /\ a \notin A
    BY <1>1, <2>2
  <2>5. Cardinality(A) # Cardinality(B)
    <3> HIDE DEF A, B
    <3> QED
      BY <2>1, <2>3, <2>4, FiniteItems, FS_Subset
  <2> QED
    BY <2>5 DEF RankIn
<1> QED
  BY <1>1

LEMMA RankOnto ==
  ASSUME NEW n \in Nat, NEW S \in SUBSET (0 .. n - 1),
         NEW i \in 0 .. Cardinality(S) - 1
  PROVE  \E p \in S : RankIn(S, p) = i
<1> DEFINE c == Cardinality(S)
           T == 0 .. c - 1
           f == [p \in S |-> RankIn(S, p)]
<1>1. c \in Nat
  BY FiniteItems
<1>2. IsFiniteSet(T) /\ Cardinality(T) = c
  <2> HIDE DEF c
  <2> QED
    BY <1>1, FS_Interval
<1>3. f \in Injection(S, T)
  <2>1. f \in [S -> T]
    BY RankRange
  <2>2. \A p, q \in S : f[p] = f[q] => p = q
    BY RankInjective
  <2> QED
    BY <2>1, <2>2 DEF Injection, IsInjective
<1>4. f \in Surjection(S, T)
  <2> HIDE DEF f, T
  <2> QED
    BY <1>2, <1>3, FS_Injection DEF c
<1> QED
  BY <1>4 DEF Surjection

LEMMA Least ==
  ASSUME NEW D \in SUBSET Nat, D # {}
  PROVE  \E m \in D : \A d \in D : m <= d
<1> DEFINE R == StrictSubsetOrdering(Nat)
           F == FiniteSubsetsOf(Nat)
           Below(d) == {i \in Nat : i < d}
           B == {Below(d) : d \in D}
<1>1. \A d \in D : Below(d) \in F
  <2> SUFFICES ASSUME NEW d \in D PROVE Below(d) \in F
    OBVIOUS
  <2>1. IsFiniteSet(Below(d))
    BY FS_BoundedSetOfNaturals
  <2> QED
    BY <2>1 DEF FiniteSubsetsOf
<1>2. B \subseteq F /\ B # {}
  BY <1>1
<1>3. IsWellFoundedOn(R, F)
  BY FS_StrictSubsetOrderingWellFounded
<1>4. PICK b \in B : \A y \in B : ~ (<<y, b>> \in R)
  <2> HIDE DEF R, F, B
  <2> QED
    BY <1>2, <1>3, WFMin, Zenon
<1>5. PICK m \in D : b = Below(m)
  OBVIOUS
<1>6. ASSUME NEW d \in D, d < m PROVE FALSE
  <2>1. Below(d) \subseteq Below(m) /\ Below(d) # Below(m)
    BY <1>6
  <2>2. <<Below(d), b>> \in R
    BY <2>1, <1>5 DEF StrictSubsetOrdering
  <2> QED
    BY <2>2, <1>4
<1> QED
  BY <1>6

\* Counting the items below b in two steps.
LEMMA CountBelow ==
  ASSUME NEW n \in Nat, NEW S \in SUBSET (0 .. n - 1),
         NEW a \in Int, NEW b \in Int, a <= b
  PROVE  Cardinality({p \in S : p < b}) =
           Cardinality({p \in S : p < a}) + Cardinality({p \in S : a <= p /\ p < b})
<1> DEFINE A == {p \in S : p < a}
           B == {p \in S : a <= p /\ p < b}
           C == {p \in S : p < b}
<1>1. \A p \in S : p \in Int
  OBVIOUS
<1>2. C = A \cup B
  <2>1. \A p \in S : p \in C <=> p \in A \/ p \in B
    BY <1>1
  <2>2. A \subseteq S /\ B \subseteq S /\ C \subseteq S
    OBVIOUS
  <2> HIDE DEF A, B, C
  <2> QED
    BY <2>1, <2>2
<1>3. A \cap B = {}
  <2> SUFFICES ASSUME NEW x \in A, x \in B PROVE FALSE
    OBVIOUS
  <2>1. x \in S /\ x \in Int /\ x < a /\ a <= x
    BY <1>1
  <2> QED
    BY <2>1
<1>4. IsFiniteSet(A) /\ Cardinality(A) \in 0 .. n /\ IsFiniteSet(B) /\ Cardinality(B) \in 0 .. n
  <2>1. A \in SUBSET (0 .. n - 1) /\ B \in SUBSET (0 .. n - 1)
    OBVIOUS
  <2> HIDE DEF A, B
  <2> QED
    BY <2>1, FiniteItems
<1>5. Cardinality({}) = 0
  BY FS_EmptySet
<1> HIDE DEF A, B, C
<1>6. Cardinality(A \cup B) = Cardinality(A) + Cardinality(B) - Cardinality(A \cap B)
  <2>1. IsFiniteSet(A) /\ IsFiniteSet(B)
    BY <1>4
  <2> QED
    BY <2>1, FS_Union
<1>7. Cardinality(C) = Cardinality(A) + Cardinality(B)
  <2>1. Cardinality(A \cap B) = 0
    BY <1>3, <1>5
  <2>2. Cardinality(C) = Cardinality(A \cup B)
    BY <1>2
  <2>3. Cardinality(A) \in Int /\ Cardinality(B) \in Int
    BY <1>4
  <2> QED
    BY <1>6, <2>1, <2>2, <2>3
<1> QED
  BY <1>7 DEF A, B, C

\* What of S lies below thread t's chunk; the counts before t sum up to it.
BelowChunk(S, n, t) == {p \in S : p < t * ChunkWidth(n)}

LEMMA PrefixCounts ==
  ASSUME NEW n \in Nat, NEW S \in SUBSET (0 .. n - 1),
         NEW counts \in [Tids -> Nat],
         \A u \in Tids : counts[u] = Cardinality(S \cap Chunk(u, n)),
         NEW t \in 0 .. Threads
  PROVE  Prefix(counts, t) = Cardinality(BelowChunk(S, n, t))
<1> DEFINE w == ChunkWidth(n)
           Below(i) == {p \in S : p < i * w}
           Sums(f) == f = [i \in 0 .. Threads |->
                             IF i = 0 THEN 0 ELSE f[i - 1] + counts[i - 1]]
           g == [i \in 0 .. Threads |-> Cardinality(Below(i))]
           sum == CHOOSE f : Sums(f)
<1>1. w \in Nat /\ Threads \in Nat \ {0}
  BY ChunkBounds, SimtAssumption
<1>2. Cardinality(Below(0)) = 0
  <2>1. Below(0) = {}
    <3>1. 0 * w = 0
      BY <1>1
    <3>2. \A p \in S : ~ p < 0
      OBVIOUS
    <3> QED
      BY <3>1, <3>2
  <2> QED
    BY <2>1, FS_EmptySet
<1>3. ASSUME NEW i \in 1 .. Threads
      PROVE  Cardinality(Below(i)) = Cardinality(Below(i - 1)) + counts[i - 1]
  <2> DEFINE a == (i - 1) * w
             b == i * w
  <2>1. i - 1 \in Tids /\ i \in Nat /\ (i - 1) + 1 = i
    BY <1>1 DEF Tids
  <2>2. S \cap Chunk(i - 1, n) = {p \in S : a <= p /\ p < b}
    BY <2>1 DEF Chunk
  <2>3. a \in Int /\ b \in Int /\ a <= b
    <3> HIDE DEF w
    <3> QED
      BY <1>1, <2>1
  <2> HIDE DEF a, b
  <2>4. Cardinality({p \in S : p < b}) =
          Cardinality({p \in S : p < a}) + Cardinality({p \in S : a <= p /\ p < b})
    BY <2>3, CountBelow
  <2> QED
    BY <2>1, <2>2, <2>4 DEF a, b
<1>4. Sums(g)
  <2> HIDE DEF Below
  <2>1. \A i \in 0 .. Threads :
          g[i] = IF i = 0 THEN 0 ELSE g[i - 1] + counts[i - 1]
    BY <1>1, <1>2, <1>3
  <2> QED
    BY <2>1
<1>5. Sums(sum)
  <2> HIDE DEF g, Sums
  <2> QED
    BY <1>4
<1>6. Prefix(counts, t) = sum[t]
  BY DEF Prefix
<1>7. \A i \in 0 .. Threads : sum[i] = g[i]
  <2> DEFINE D == {i \in 0 .. Threads : sum[i] # g[i]}
  <2> SUFFICES ASSUME D # {} PROVE FALSE
    OBVIOUS
  <2>0. D \in SUBSET Nat
    BY <1>1
  <2>1. PICK m \in D : \A d \in D : m <= d
    <3> HIDE DEF D
    <3> QED
      BY <2>0, Least
  <2> HIDE DEF g, sum
  <2>2. m # 0
    BY <1>4, <1>5
  <2>3. m \in 1 .. Threads /\ m - 1 \in 0 .. Threads
    BY <1>1, <2>2
  <2>4. sum[m - 1] = g[m - 1]
    BY <2>1, <2>3
  <2>5. sum[m] = sum[m - 1] + counts[m - 1]
    BY <1>5, <2>3
  <2>6. g[m] = g[m - 1] + counts[m - 1]
    BY <1>4, <2>3
  <2> QED
    BY <2>4, <2>5, <2>6
<1>8. BelowChunk(S, n, t) = Below(t)
  BY DEF BelowChunk
<1> QED
  BY <1>6, <1>7, <1>8

LEMMA TotalCount ==
  ASSUME NEW n \in Nat, NEW S \in SUBSET (0 .. n - 1),
         NEW counts \in [Tids -> Nat],
         \A u \in Tids : counts[u] = Cardinality(S \cap Chunk(u, n))
  PROVE  Prefix(counts, Threads) = Cardinality(S)
<1>1. Threads \in 0 .. Threads /\ Threads \in Nat
  BY SimtAssumption
<1>2. S = BelowChunk(S, n, Threads)
  <2>1. ChunkWidth(n) \in Nat /\ n <= Threads * ChunkWidth(n)
    BY ChunkBounds
  <2> DEFINE m == Threads * ChunkWidth(n)
  <2>2. m \in Int
    BY <1>1, <2>1
  <2>3. \A p \in S : p < m
    <3> HIDE DEF m
    <3> QED
      BY <2>1, <2>2 DEF m
  <2> HIDE DEF m
  <2>4. S = {p \in S : p < m}
    BY <2>3
  <2> QED
    BY <2>4 DEF m, BelowChunk
<1>3. Prefix(counts, Threads) = Cardinality(BelowChunk(S, n, Threads))
  BY <1>1, PrefixCounts
<1> QED
  BY <1>2, <1>3

\* Rank in the whole = what earlier threads have + rank in one's own chunk.
LEMMA RankSplit ==
  ASSUME NEW n \in Nat, NEW S \in SUBSET (0 .. n - 1),
         NEW counts \in [Tids -> Nat],
         \A u \in Tids : counts[u] = Cardinality(S \cap Chunk(u, n)),
         NEW t \in Tids, NEW p \in S \cap Chunk(t, n)
  PROVE  Prefix(counts, t) + RankIn(S \cap Chunk(t, n), p) = RankIn(S, p)
<1> DEFINE w == ChunkWidth(n)
           a == t * w
           b == (t + 1) * w
<1>1. w \in Nat /\ t \in Nat /\ t \in 0 .. Threads
  BY ChunkBounds, SimtAssumption DEF Tids
<1>2. Prefix(counts, t) = Cardinality({q \in S : q < a})
  <2>1. Prefix(counts, t) = Cardinality(BelowChunk(S, n, t))
    BY <1>1, PrefixCounts
  <2> QED
    BY <2>1 DEF BelowChunk
<1>3. a \in Int /\ b \in Int /\ p \in Int
  BY <1>1
<1>4. a <= p /\ p < b
  BY DEF Chunk
<1>5. \A q \in S : q \in Int /\ (q \in Chunk(t, n) <=> a <= q /\ q < b)
  BY DEF Chunk
<1> HIDE DEF a, b
<1>6. {q \in S \cap Chunk(t, n) : q < p} = {q \in S : a <= q /\ q < p}
  <2>1. ASSUME NEW q \in S
        PROVE  q \in Chunk(t, n) /\ q < p <=> a <= q /\ q < p
    <3>1. q \in Int /\ (q \in Chunk(t, n) <=> a <= q /\ q < b)
      BY <1>5
    <3> QED
      BY <1>3, <1>4, <3>1
  <2> QED
    BY <2>1
<1>7. Cardinality({q \in S : q < p}) =
        Cardinality({q \in S : q < a}) + Cardinality({q \in S : a <= q /\ q < p})
  BY <1>3, <1>4, CountBelow
<1> QED
  BY <1>2, <1>6, <1>7 DEF RankIn

-----------------------------------------------------------------------------
(***************************************************************************)
(* What the invariant says of a state.                                      *)
(***************************************************************************)

LEMMA Together ==
  ASSUME TypeOK, ThreadInv, NEW t \in Tids, NEW k, In(t, k)
  PROVE  \A u \in Tids : phase[u] = k \/ phase[u] = k + 1
<1> SUFFICES ASSUME NEW u \in Tids PROVE phase[u] = k \/ phase[u] = k + 1
  OBVIOUS
<1>1. phase[t] \in Int /\ phase[u] \in Int
  BY DEF TypeOK, Clear, Done
<1> QED
  BY <1>1 DEF ThreadInv, In

\* When all threads have counted, the counts add up; when all have
\* compacted, the lists hold the members of the sets in their order.
LEMMA MissesCounted ==
  ASSUME TypeOK, CountInv, \A t \in Tids : phase[t] > Misses
  PROVE  /\ MissCount = Cardinality(MissAt)
         /\ Cardinality(MissAt) \in 0 .. QueryCount
         /\ \A t \in Tids : \A p \in MissAt \cap Chunk(t, QueryCount) :
              MissRank(t, p) = RankIn(MissAt, p)
<1>1. QueryCount \in Nat /\ MissAt \in SUBSET (0 .. QueryCount - 1)
  BY SimtAssumption DEF MissAt, Positions
<1>2. missCounts \in [Tids -> Nat]
  BY <1>1 DEF TypeOK
<1>3. \A u \in Tids : missCounts[u] = Cardinality(MissAt \cap Chunk(u, QueryCount))
  BY DEF CountInv
<1>4. MissCount = Cardinality(MissAt)
  BY <1>1, <1>2, <1>3, TotalCount DEF MissCount
<1>5. \A t \in Tids : \A p \in MissAt \cap Chunk(t, QueryCount) :
        MissRank(t, p) = RankIn(MissAt, p)
  BY <1>1, <1>2, <1>3, RankSplit DEF MissRank
<1> QED
  BY <1>1, <1>4, <1>5, FiniteItems

LEMMA HitsFit ==
  ASSUME TypeOK, HitInv, LruInv, Frozen, \A t \in Tids : phase[t] > Clear
  PROVE  /\ Cardinality(HitAt) \in 0 .. SlotCount
         /\ Cardinality(EvictableAt) = SlotCount - Cardinality(HitAt)
         /\ Cardinality(MissAt) <= Cardinality(EvictableAt)
<1> DEFINE P == Positions \ MissAt
           Finds(p, q) == query[q] \in Tokens /\ tokenToSlot[query[q]] = lru[p]
           f == [p \in HitAt |-> CHOOSE q \in P : Finds(p, q)]
<1>1. SlotCount \in Nat /\ QueryCount \in Nat /\ QueryCount <= SlotCount
  BY SimtAssumption
<1>2. /\ HitAt \in SUBSET (0 .. SlotCount - 1)
      /\ MissAt \in SUBSET (0 .. QueryCount - 1)
  BY DEF HitAt, MissAt, Slots, Positions
<1>3. /\ IsFiniteSet(Slots) /\ Cardinality(Slots) = SlotCount
      /\ IsFiniteSet(Positions) /\ Cardinality(Positions) = QueryCount
  <2>1. ASSUME NEW n \in Nat
        PROVE  IsFiniteSet(0 .. n - 1) /\ Cardinality(0 .. n - 1) = n
    BY FS_Interval
  <2> QED
    BY <1>1, <2>1 DEF Slots, Positions
<1>4. /\ Cardinality(HitAt) \in 0 .. SlotCount
      /\ Cardinality(MissAt) \in 0 .. QueryCount
  BY <1>1, <1>2, FiniteItems
<1>5. Cardinality(EvictableAt) = SlotCount - Cardinality(HitAt)
  <2>1. Slots \cap HitAt = HitAt
    BY DEF HitAt
  <2> QED
    BY <1>3, <2>1, FS_Difference DEF EvictableAt
<1>6. IsFiniteSet(P) /\ Cardinality(P) = QueryCount - Cardinality(MissAt)
  <2>1. Positions \cap MissAt = MissAt
    BY DEF MissAt
  <2> QED
    BY <1>3, <2>1, FS_Difference
<1>7. \A p \in HitAt : f[p] \in P /\ Finds(p, f[p])
  <2> SUFFICES ASSUME NEW p \in HitAt PROVE \E q \in P : Finds(p, q)
    OBVIOUS
  <2>1. lru[p] \in Slots /\ hitFlags[lru[p]]
    BY DEF HitAt, TypeOK
  <2>2. lru[p] % Threads \in Tids
    BY <2>1, <1>1, StrideOf DEF Slots
  <2> QED
    BY <2>1, <2>2 DEF HitInv
<1>8. f \in Injection(HitAt, P)
  <2>1. f \in [HitAt -> P]
    BY <1>7
  <2>2. ASSUME NEW p \in HitAt, NEW q \in HitAt, f[p] = f[q]
        PROVE  p = q
    <3>1. lru[p] = lru[q]
      <4> HIDE DEF f
      <4> QED
        BY <1>7, <2>2
    <3> QED
      BY <3>1 DEF LruInv, HitAt
  <2> QED
    BY <2>1, <2>2 DEF Injection, IsInjective
<1>9. Cardinality(HitAt) <= Cardinality(P)
  <2> HIDE DEF f, P
  <2> QED
    BY <1>6, <1>8, FS_Injection
<1>10. Cardinality(MissAt) <= Cardinality(EvictableAt)
  <2> HIDE DEF P
  <2> QED
    BY <1>1, <1>4, <1>5, <1>6, <1>9
<1> QED
  BY <1>4, <1>5, <1>10

LEMMA ListsFrozen ==
  ASSUME IInv, Frozen, \A t \in Tids : phase[t] > Compact
  PROVE  Lists
<1> USE DEF IInv
<1> DEFINE H == HitAt
           E == EvictableAt
<1>1. SlotCount \in Nat /\ H \in SUBSET (0 .. SlotCount - 1) /\ E \in SUBSET (0 .. SlotCount - 1)
  BY SimtAssumption DEF HitAt, EvictableAt, Slots
<1>2. \A t \in Tids : phase[t] > Clear /\ phase[t] > Count
  BY DEF TypeOK, Clear, Count, Compact, Done
<1>3. /\ Cardinality(H) \in 0 .. SlotCount
      /\ Cardinality(E) = SlotCount - Cardinality(H)
      /\ Cardinality(MissAt) <= Cardinality(E)
  BY <1>2, HitsFit
<1>4. EvictableCount = Cardinality(E)
  <2>1. evictCounts \in [Tids -> Nat]
    BY <1>1 DEF TypeOK
  <2>2. \A u \in Tids : evictCounts[u] = Cardinality(E \cap Chunk(u, SlotCount))
    BY <1>2 DEF CountInv
  <2> QED
    BY <1>1, <2>1, <2>2, TotalCount DEF EvictableCount
<1>5. ASSUME NEW p \in H PROVE hitSlots[RankIn(H, p)] = lru[p]
  <2>1. PICK t \in Tids : p \in Chunk(t, SlotCount)
    BY <1>1, ChunkOf
  <2> QED
    BY <2>1, <1>5 DEF CompactInv
<1>6. ASSUME NEW p \in E PROVE evictableSlots[RankIn(E, p)] = lru[p]
  <2>1. PICK t \in Tids : p \in Chunk(t, SlotCount)
    BY <1>1, ChunkOf
  <2> QED
    BY <2>1, <1>6 DEF CompactInv
<1>7. \A i \in Slots : i < Cardinality(E) =>
        \E p \in E : RankIn(E, p) = i /\ evictableSlots[i] = lru[p]
  <2> SUFFICES ASSUME NEW i \in Slots, i < Cardinality(E)
               PROVE  \E p \in E : RankIn(E, p) = i
    BY <1>6
  <2>1. i \in 0 .. Cardinality(E) - 1
    BY <1>1, <1>3 DEF Slots
  <2> QED
    BY <1>1, <2>1, RankOnto
<1>8. \A i \in Slots : i < Cardinality(H) =>
        \E p \in H : RankIn(H, p) = i /\ hitSlots[i] = lru[p]
  <2> SUFFICES ASSUME NEW i \in Slots, i < Cardinality(H)
               PROVE  \E p \in H : RankIn(H, p) = i
    BY <1>5
  <2>1. i \in 0 .. Cardinality(H) - 1
    BY <1>1, <1>3 DEF Slots
  <2> QED
    BY <1>1, <2>1, RankOnto
<1>9. Cardinality(H) = SlotCount - EvictableCount
  BY <1>1, <1>3, <1>4
<1>10. \A p, q \in Slots : lru[p] = lru[q] => p = q
  BY DEF LruInv
<1>11. \A p \in H : p \in Slots /\ hitFlags[lru[p]]
  BY DEF HitAt
<1>12. \A p \in E : p \in Slots /\ ~ hitFlags[lru[p]]
  BY DEF HitAt, EvictableAt
<1> HIDE DEF H, E, IInv
<1>13. EvictableCount \in 0 .. SlotCount
  BY <1>1, <1>3, <1>4
<1> QED
  BY <1>3, <1>4, <1>7, <1>8, <1>9, <1>10, <1>11, <1>12, <1>13 DEF Lists

LEMMA ListsReady ==
  ASSUME IInv, op = "lookup", \A t \in Tids : phase[t] > Compact
  PROVE  Lists
<1>1. CASE Frozen
  BY <1>1, ListsFrozen
<1>2. CASE ~ Frozen
  <2>1. PICK t \in Tids : ~ phase[t] <= Rewrite
    BY <1>2 DEF Frozen
  <2>2. phase[t] > Rewrite
    BY <2>1 DEF IInv, TypeOK, Rewrite, Clear, Done
  <2> QED
    BY <2>2 DEF IInv, LruInv
<1> QED
  BY <1>1, <1>2

\* The new order lists every slot once.
LEMMA NewOrder ==
  ASSUME TypeOK, Lists, MissCount = Cardinality(MissAt), MissCount \in Nat
  PROVE  /\ \A p \in Slots : NewLru(p) \in Slots
         /\ \A p, q \in Slots : NewLru(p) = NewLru(q) => p = q
<1> DEFINE E == EvictableCount
           M == MissCount
           At(p) == IF p < E - M THEN M + p ELSE IF p < E THEN p - (E - M) ELSE p - E
<1>1. SlotCount \in Nat /\ E \in 0 .. SlotCount /\ M \in Nat /\ M <= E /\ StaleCount = E - M
  BY SimtAssumption DEF Lists, StaleCount
<1> HIDE DEF E, M
<1>2. \A p \in Slots : /\ At(p) \in Slots
                       /\ p < E => At(p) < E
                       /\ ~ p < E => At(p) < SlotCount - E
  BY <1>1 DEF Slots
<1>3. \A p, q \in Slots : (p < E <=> q < E) /\ At(p) = At(q) => p = q
  BY <1>1 DEF Slots
<1>4. \A p \in Slots :
        NewLru(p) = IF p < E THEN evictableSlots[At(p)] ELSE hitSlots[At(p)]
  <2> SUFFICES ASSUME NEW p \in Slots
               PROVE  NewLru(p) = IF p < E THEN evictableSlots[At(p)] ELSE hitSlots[At(p)]
    OBVIOUS
  <2>1. CASE p < E - M
    BY <1>1, <2>1 DEF NewLru, Slots, E, M
  <2>2. CASE ~ p < E - M /\ p < E
    BY <1>1, <2>2 DEF NewLru, Slots, E, M
  <2>3. CASE ~ p < E
    BY <1>1, <2>3 DEF NewLru, Slots, E, M
  <2> QED
    BY <2>1, <2>2, <2>3
<1> HIDE DEF At
<1>5. ASSUME NEW p \in Slots PROVE NewLru(p) \in Slots
  BY <1>2, <1>4 DEF TypeOK
<1>6. /\ \A i \in Slots : i < E => ~ hitFlags[evictableSlots[i]]
      /\ \A i, j \in Slots : i < E /\ j < E
           /\ evictableSlots[i] = evictableSlots[j] => i = j
      /\ \A i \in Slots : i < SlotCount - E => hitFlags[hitSlots[i]]
      /\ \A i, j \in Slots : i < SlotCount - E /\ j < SlotCount - E
           /\ hitSlots[i] = hitSlots[j] => i = j
  BY DEF Lists, E
<1>7. ASSUME NEW p \in Slots, NEW q \in Slots, NewLru(p) = NewLru(q)
      PROVE  p = q
  <2>1. CASE p < E /\ q < E
    BY <1>2, <1>3, <1>4, <1>6, <1>7, <2>1
  <2>2. CASE ~ p < E /\ ~ q < E
    BY <1>2, <1>3, <1>4, <1>6, <1>7, <2>2
  <2>3. CASE p < E /\ ~ q < E
    BY <1>2, <1>4, <1>6, <1>7, <2>3
  <2>4. CASE ~ p < E /\ q < E
    BY <1>2, <1>4, <1>6, <1>7, <2>4
  <2> QED
    BY <2>1, <2>2, <2>3, <2>4
<1> QED
  BY <1>5, <1>7

-----------------------------------------------------------------------------
(***************************************************************************)
(* The host's steps.                                                        *)
(***************************************************************************)

\* When every thread is past a loop, every position is past it.
LEMMA AllLooked ==
  ASSUME NEW p \in Positions, \A t \in Tids : phase[t] > Lookup
  PROVE  Looked(p)
<1>1. QueryCount \in Nat /\ p \in 0 .. QueryCount - 1
  BY SimtAssumption DEF Positions
<1>2. p % Threads \in Tids
  BY <1>1, StrideOf
<1> QED
  BY <1>2 DEF Looked

LEMMA AllInstalled ==
  ASSUME NEW p \in Positions, \A t \in Tids : phase[t] > Alloc
  PROVE  Installed(p)
BY SimtAssumption, ChunkOf DEF Installed, Positions

LEMMA Finished ==
  ASSUME IInv, \A t \in Tids : phase[t] > Alloc
  PROVE  \A k \in Tokens : tokenToSlot[k] # Claiming
BY AllInstalled DEF IInv, ClaimInv, MissAt

LEMMA InitEstablishes == Init => IInv
<1> SUFFICES ASSUME Init PROVE IInv
  OBVIOUS
<1> USE DEF Init
<1>1. /\ SlotCount \in Nat \ {0} /\ IndexSize \in Nat /\ SlotCount <= IndexSize
      /\ QueryCount \in Nat /\ Threads \in Nat \ {0}
  BY SimtAssumption
<1>2. MissAt = {}
  BY DEF MissAt
<1>3. TypeOK
  <2>1. Slots \subseteq Tokens /\ 0 \in Slots
    BY <1>1 DEF Slots, Tokens
  <2>2. tokenToSlot \in [Tokens -> Slots \cup {NotFound, Claiming}]
    BY <1>1 DEF Slots, Tokens
  <2>3. slotToToken \in [Slots -> Partial(Tokens)]
    BY <2>1 DEF Partial
  <2>4. /\ 0 \in 0 .. SlotCount /\ 0 \in 0 .. QueryCount /\ Done \in Clear .. Done
        /\ NotFound \in Int
    BY <1>1 DEF Done, Clear, NotFound
  <2> QED
    BY <2>1, <2>2, <2>3, <2>4 DEF TypeOK, Partial
<1>4. ThreadInv
  BY DEF ThreadInv, Done, Lookup, Clear
<1>5. MapInv
  BY <1>1 DEF MapInv, Slots, Tokens, NotFound
<1>6. ClaimInv
  BY <1>2 DEF ClaimInv, NotFound, Claiming
<1>7. AnswerInv
  BY DEF AnswerInv
<1>8. HitInv
  BY DEF HitInv, Tokens, NotFound
<1>9. InstallInv /\ CompactInv
  BY <1>2 DEF InstallInv, CompactInv, Frozen
<1>10. CountInv
  BY <1>2, FS_EmptySet DEF CountInv, Frozen
<1>11. LruInv
  BY DEF LruInv, Frozen, Tokens, NotFound, Strided, Positions
<1>12. PayloadInv
  BY DEF PayloadInv
<1> QED
  BY <1>3, <1>4, <1>5, <1>6, <1>7, <1>8, <1>9, <1>10, <1>11, <1>12 DEF IInv

LEMMA LaunchStep ==
  ASSUME IInv, NEW q \in Workload, Launch(q)
  PROVE  IInv'
<1> USE DEF Launch, tables
<1>1. \A t \in Tids : phase[t] = Done /\ ~ claiming[t]
  BY DEF IInv, ThreadInv, TypeOK, Done, Lookup
<1>2. \A k \in Tokens : tokenToSlot[k] # Claiming
  BY <1>1, Finished DEF Done, Alloc
<1>3. MissAt' = {}
  BY DEF MissAt
<1>4. \A p : ~ Looked(p)' /\ ~ Installed(p)'
  BY DEF Looked, Installed, Clear, Lookup, Alloc
<1>5. TypeOK'
  <2>1. 0 \in Slots /\ 0 \in 0 .. SlotCount /\ 0 \in 0 .. QueryCount
    BY SimtAssumption DEF Slots
  <2>2. q \in [Positions -> Int] /\ Clear \in Clear .. Done
    BY SimtAssumption DEF Positions, Clear, Done
  <2> QED
    BY <2>1, <2>2 DEF IInv, TypeOK, Partial
<1>6. ThreadInv'
  BY <1>1 DEF ThreadInv, Clear, Lookup
<1>7. MapInv'
  BY DEF IInv, MapInv
<1>8. ClaimInv'
  BY <1>2, <1>3 DEF ClaimInv
<1>9. AnswerInv'
  BY DEF AnswerInv
<1>10. HitInv'
  <2>1. \A s \in Slots : s % Threads \in Tids
    BY SimtAssumption, StrideOf DEF Slots
  <2>2. \A s \in Slots : ~ phase'[s % Threads] > Clear
    BY <2>1 DEF Clear
  <2> QED
    BY <1>4, <2>2 DEF HitInv
<1>11. InstallInv'
  BY <1>3 DEF InstallInv
<1>12. CountInv' /\ CompactInv'
  BY DEF CountInv, CompactInv, Clear, Count, Misses, Compact
<1>13. LruInv'
  BY DEF IInv, LruInv, Clear, Rewrite
<1>14. PayloadInv'
  BY DEF IInv, PayloadInv
<1> QED
  BY <1>5, <1>6, <1>7, <1>8, <1>9, <1>10, <1>11, <1>12, <1>13, <1>14 DEF IInv

LEMMA HostSyncStep ==
  ASSUME IInv, HostSync
  PROVE  IInv'
<1> USE DEF HostSync, tables, outputs, scans
<1>1. \A p : /\ Looked(p)' <=> Looked(p)
             /\ Installed(p)' <=> Installed(p)
  BY DEF Looked, Installed
<1>2. MissAt' = MissAt
  BY DEF MissAt
<1>3. ~ Frozen' /\ op' # "lookup"
  BY DEF Frozen
<1>4. TypeOK'
  BY DEF IInv, TypeOK
<1>5. ThreadInv'
  BY DEF IInv, ThreadInv
<1>6. MapInv' /\ InstallInv'
  BY <1>1, <1>2 DEF IInv, MapInv, InstallInv, RankIn
<1>7. ClaimInv'
  BY <1>1, <1>2 DEF IInv, ClaimInv
<1>8. AnswerInv'
  BY <1>1 DEF IInv, AnswerInv
<1>9. HitInv'
  BY <1>1, <1>2 DEF IInv, HitInv
<1>10. CountInv' /\ CompactInv'
  BY <1>2, <1>3 DEF IInv, CountInv, CompactInv
<1>11. LruInv'
  <2>1. \A t \in Tids : phase[t] > Rewrite /\ phase[t] > Misses
    BY DEF Done, Rewrite, Misses
  <2>2. Lists
    <3>1. Tids # {}
      BY SimtAssumption DEF Tids
    <3> QED
      BY <2>1, <3>1 DEF IInv, LruInv
  <2>3. \A p \in Slots : lru[p] = NewLru(p)
    BY <2>1, SimtAssumption, StrideOf DEF IInv, LruInv, Slots
  <2>4. MissCount = Cardinality(MissAt) /\ MissCount \in Nat
    BY <2>1, MissesCounted, SimtAssumption DEF IInv
  <2>5. \A p, q \in Slots : NewLru(p) = NewLru(q) => p = q
    BY <2>2, <2>4, NewOrder DEF IInv
  <2>6. \A p, q \in Slots : lru'[p] = lru'[q] => p = q
    BY <2>3, <2>5
  <2> QED
    BY <1>3, <2>6 DEF IInv, LruInv
<1>12. PayloadInv'
  BY <1>1, <1>2 DEF IInv, PayloadInv
<1> QED
  BY <1>4, <1>5, <1>6, <1>7, <1>8, <1>9, <1>10, <1>11, <1>12 DEF IInv

LEMMA LoadMissesStep ==
  ASSUME IInv, LoadMisses
  PROVE  IInv'
<1> USE DEF LoadMisses, tables, outputs, scans
<1>1. \A p : /\ Looked(p)' <=> Looked(p)
             /\ Installed(p)' <=> Installed(p)
  BY DEF Looked, Installed
<1>2. MissAt' = MissAt
  BY DEF MissAt
<1>3. ~ Frozen' /\ op' # "lookup" /\ op # "lookup"
  BY DEF Frozen
<1>4. \A p \in MissAt : query[p] \in Tokens
  BY DEF IInv, ClaimInv
<1>5. TypeOK'
  <2>1. payload' \in [Slots -> Partial(Tokens)]
    <3> SUFFICES ASSUME NEW s \in Slots PROVE payload'[s] \in Partial(Tokens)
      OBVIOUS
    <3>1. CASE \E p \in Positions : missMask[p] /\ slotIds[p] = s
      BY <1>4, <3>1 DEF MissAt, Partial
    <3>2. CASE ~ \E p \in Positions : missMask[p] /\ slotIds[p] = s
      BY <3>2 DEF IInv, TypeOK
    <3> QED
      BY <3>1, <3>2
  <2> QED
    BY <2>1 DEF IInv, TypeOK
<1>6. ThreadInv'
  BY <1>3 DEF IInv, ThreadInv
<1>7. MapInv' /\ InstallInv'
  BY <1>1, <1>2 DEF IInv, MapInv, InstallInv, RankIn
<1>8. ClaimInv'
  BY <1>1, <1>2 DEF IInv, ClaimInv
<1>9. AnswerInv'
  BY <1>1 DEF IInv, AnswerInv
<1>10. HitInv'
  BY <1>1, <1>2 DEF IInv, HitInv
<1>11. CountInv' /\ CompactInv'
  BY <1>2, <1>3 DEF IInv, CountInv, CompactInv
<1>12. LruInv'
  BY <1>3 DEF IInv, LruInv
<1>13. PayloadInv'
  <2>1. \A p \in MissAt : Installed(p)
    BY <1>3, AllInstalled DEF IInv, ThreadInv, MissAt, Done, Alloc
  <2>2. \A p \in MissAt : slotIds[p] \in Slots => slotToToken[slotIds[p]] = query[p]
    BY <1>4, <2>1 DEF IInv, InstallInv, MapInv
  <2> SUFFICES ASSUME NEW s \in Slots, slotToToken[s] # NotFound
               PROVE  payload'[s] = slotToToken[s]
    BY DEF PayloadInv
  <2>3. CASE \E p \in Positions : missMask[p] /\ slotIds[p] = s
    BY <2>2, <2>3 DEF MissAt
  <2>4. CASE ~ \E p \in Positions : missMask[p] /\ slotIds[p] = s
    BY <2>4 DEF IInv, PayloadInv, MissAt
  <2> QED
    BY <2>3, <2>4
<1> QED
  BY <1>5, <1>6, <1>7, <1>8, <1>9, <1>10, <1>11, <1>12, <1>13 DEF IInv

-----------------------------------------------------------------------------
(***************************************************************************)
(* The first phases: nothing is counted or installed yet.                   *)
(***************************************************************************)

LEMMA NoneInstalled ==
  ASSUME TypeOK, \A u \in Tids : phase[u] < Alloc
  PROVE  \A p : ~ Installed(p)
BY DEF Installed, TypeOK, Alloc, Clear, Done

LEMMA EarlyScan ==
  ASSUME IInv, op = "lookup", op' = op, lru' = lru,
         \A u \in Tids : phase[u] \in Clear .. Count /\ phase'[u] \in Clear .. Count
  PROVE  CountInv' /\ CompactInv' /\ LruInv'
<1>1. \A u \in Tids : ~ phase'[u] > Count /\ ~ phase'[u] > Misses
                      /\ ~ phase'[u] > Compact /\ ~ phase'[u] > Rewrite
  BY DEF Clear, Count, Misses, Compact, Rewrite
<1>2. Frozen
  BY DEF Frozen, Clear, Count, Rewrite
<1> QED
  BY <1>1, <1>2 DEF IInv, CountInv, CompactInv, LruInv

\* A thread passes from one phase to the next.
LEMMA PassThread ==
  ASSUME IInv, NEW t \in Tids, NEW k \in Clear .. Rewrite, In(t, k), Pass(t),
         UNCHANGED <<op, claiming, query>>, ~ claiming[t],
         \A u \in Tids \ {t} : pos'[u] = pos[u],
         k = Clear => pos'[t] = t
  PROVE  /\ ThreadInv'
         /\ phase' \in [Tids -> Clear .. Done]
         /\ phase[t] = k /\ phase'[t] = k + 1
         /\ \A u \in Tids \ {t} : phase'[u] = phase[u]
         /\ \A u \in Tids : phase[u] \in k .. k + 1 /\ phase'[u] \in k .. k + 1
<1> USE DEF Clear, Lookup, Rewrite, Done
<1>1. phase \in [Tids -> Clear .. Done] /\ phase[t] = k /\ op = "lookup"
  BY DEF IInv, TypeOK, In
<1>2. \A u \in Tids : phase[u] = k \/ phase[u] = k + 1
  BY Together DEF IInv
<1>3. \A u \in Tids : phase'[u] = IF u = t THEN k + 1 ELSE phase[u]
  BY <1>1 DEF Pass
<1>4. phase' \in [Tids -> Clear .. Done]
  BY <1>1 DEF Pass
<1>5. \A u, v \in Tids : phase'[v] <= phase'[u] + 1
  BY <1>2, <1>3
<1>6. ASSUME NEW u \in Tids, phase'[u] = Lookup PROVE pos'[u] % Threads = u
  <2>1. CASE u = t
    <3>1. k = Clear /\ pos'[t] = t
      BY <1>3, <1>6, <2>1
    <3>2. t % Threads = t
      BY SimtAssumption DEF Tids
    <3> QED
      BY <2>1, <3>1, <3>2
  <2>2. CASE u # t
    BY <1>3, <1>6, <2>2 DEF IInv, ThreadInv
  <2> QED
    BY <2>1, <2>2
<1>7. ASSUME NEW u \in Tids, NEW v \in Tids, phase'[u] = Clear, phase'[v] = Lookup
      PROVE  pos'[v] = v
  <2>1. k = Clear /\ u # t /\ phase[u] = Clear
    BY <1>2, <1>3, <1>7
  <2>2. CASE v = t
    BY <2>1, <2>2
  <2>3. CASE v # t
    BY <1>3, <1>7, <2>1, <2>3 DEF IInv, ThreadInv
  <2> QED
    BY <2>2, <2>3
<1>8. ASSUME NEW u \in Tids, claiming'[u]
      PROVE  phase'[u] = Lookup /\ pos'[u] < QueryCount /\ query'[pos'[u]] \in Tokens
  BY <1>3, <1>8 DEF IInv, ThreadInv
<1>9. op' = "lookup"
  BY <1>1
<1>10. ThreadInv'
  BY <1>5, <1>6, <1>7, <1>8, <1>9 DEF ThreadInv
<1> QED
  BY <1>1, <1>2, <1>3, <1>4, <1>10

\* A step that only moves a thread on leaves the batch as it is.
LEMMA BatchFrame ==
  ASSUME IInv, UNCHANGED <<tokenToSlot, slotToToken, query, missMask, slotIds,
                           payload, op>>,
         \A p \in Positions : Looked(p)' <=> Looked(p),
         \A p \in MissAt : Installed(p)' <=> Installed(p),
         \A p \in MissAt : Installed(p) => evictableSlots' = evictableSlots
  PROVE  MapInv' /\ ClaimInv' /\ AnswerInv' /\ InstallInv' /\ PayloadInv'
<1>1. MissAt' = MissAt /\ MissAt \subseteq Positions
  BY DEF MissAt
<1>2. MapInv'
  BY DEF IInv, MapInv
<1>3. ClaimInv'
  BY <1>1 DEF IInv, ClaimInv
<1>4. AnswerInv'
  BY DEF IInv, AnswerInv
<1>5. InstallInv'
  BY <1>1 DEF IInv, InstallInv, RankIn
<1>6. PayloadInv'
  BY <1>1 DEF IInv, PayloadInv
<1> QED
  BY <1>2, <1>3, <1>4, <1>5, <1>6

LEMMA ClearFlagsStep ==
  ASSUME IInv, NEW t \in Tids, ClearFlags(t)
  PROVE  IInv'
<1> USE DEF ClearFlags, tables, outputs, host, scans
<1>1. In(t, Clear) /\ op = "lookup" /\ phase[t] = Clear
  BY DEF In
<1>2. ~ claiming[t]
  BY <1>1 DEF IInv, ThreadInv, Clear, Lookup
<1>3. pos \in [Tids -> Nat] /\ t \in Nat
  <2>1. pos \in [Tids -> Nat]
    BY DEF IInv, TypeOK
  <2>2. t \in 0 .. Threads - 1 /\ Threads \in Nat
    BY SimtAssumption DEF Tids
  <2> QED
    BY ONLY <2>1, <2>2
<1>4. \A u \in Tids : pos'[u] = IF u = t THEN t ELSE pos[u]
  BY <1>3
<1>5. Clear \in Clear .. Rewrite
  BY DEF Clear, Rewrite
<1>6. /\ ThreadInv'
      /\ phase' \in [Tids -> Clear .. Done]
      /\ phase[t] = Clear /\ phase'[t] = Clear + 1
      /\ \A u \in Tids \ {t} : phase'[u] = phase[u]
      /\ \A u \in Tids : phase[u] \in Clear .. Clear + 1 /\ phase'[u] \in Clear .. Clear + 1
  BY <1>1, <1>2, <1>4, <1>5, PassThread
<1>7. \A u \in Tids : /\ phase[u] \in Clear .. Count /\ phase'[u] \in Clear .. Count
                      /\ phase[u] < Alloc /\ phase'[u] < Alloc
  BY <1>6 DEF Clear, Count, Alloc
<1>8. TypeOK'
  <2>1. hitFlags' \in [Slots -> BOOLEAN]
    BY DEF IInv, TypeOK
  <2>2. pos' \in [Tids -> Nat]
    BY <1>3
  <2> QED
    BY <1>6, <2>1, <2>2 DEF IInv, TypeOK
<1>9. \A p \in Positions : ~ Looked(p) /\ ~ Looked(p)'
  <2> SUFFICES ASSUME NEW p \in Positions, NEW u \in Tids, p % Threads = u
               PROVE  /\ ~ (phase[u] > Lookup) /\ ~ (phase[u] = Lookup /\ p < pos[u])
                      /\ ~ (phase'[u] > Lookup) /\ ~ (phase'[u] = Lookup /\ p < pos'[u])
    BY DEF Looked
  <2>1. p \in Nat /\ u \in Nat /\ u <= p
    <3>1. p \in Nat /\ Threads \in Nat \ {0}
      BY SimtAssumption DEF Positions
    <3> QED
      BY <3>1, RemainderBelow DEF Tids
  <2>2. phase[u] \in 1 .. 2 /\ phase'[u] \in 1 .. 2
    BY <1>6 DEF Clear
  <2>3. phase[u] = Lookup => pos[u] = u
    BY <1>1 DEF IInv, ThreadInv
  <2>4. phase'[u] = Lookup => pos'[u] = u
    BY <1>4, <1>6, <2>3
  <2>5. ~ p < u
    BY <2>1
  <2> QED
    BY <2>2, <2>3, <2>4, <2>5 DEF Lookup
<1>10. \A p : ~ Installed(p) /\ ~ Installed(p)'
  BY <1>7 DEF Installed, Alloc
<1>11. MapInv' /\ ClaimInv' /\ AnswerInv' /\ InstallInv' /\ PayloadInv'
  BY <1>9, <1>10, BatchFrame
<1>12. HitInv'
  <2>1. MissAt' = MissAt
    BY DEF MissAt
  <2>2. ASSUME NEW s \in Slots, hitFlags'[s], phase'[s % Threads] > Clear
        PROVE  \E p \in Positions \ MissAt : query[p] \in Tokens /\ tokenToSlot[query[p]] = s
    <3>1. s % Threads \in Tids /\ s \in Strided(s % Threads, SlotCount)
      BY SimtAssumption, StrideOf DEF Slots
    <3>2. s % Threads # t /\ hitFlags[s]
      BY <2>2, <3>1
    <3> QED
      BY <1>6, <2>2, <3>1, <3>2 DEF IInv, HitInv
  <2> QED
    BY <1>9, <2>1, <2>2 DEF HitInv
<1>13. CountInv' /\ CompactInv' /\ LruInv'
  BY <1>1, <1>7, EarlyScan
<1> QED
  BY <1>6, <1>8, <1>11, <1>12, <1>13 DEF IInv

-----------------------------------------------------------------------------
(***************************************************************************)
(* The lookup loop. The position a thread is at has no answer yet.          *)
(***************************************************************************)

LEMMA AtPosition ==
  ASSUME IInv, NEW t \in Tids, In(t, Lookup), pos[t] < QueryCount
  PROVE  /\ op = "lookup" /\ phase[t] = Lookup
         /\ pos[t] \in Positions /\ pos[t] % Threads = t
         /\ ~ Looked(pos[t]) /\ pos[t] \notin MissAt
         /\ missMask[pos[t]] = FALSE /\ slotIds[pos[t]] = NotFound
         /\ \A u \in Tids : phase[u] \in Lookup .. Count
         /\ \A p : ~ Installed(p)
<1>1. op = "lookup" /\ phase[t] = Lookup
  BY DEF In
<1>2. \A u \in Tids : phase[u] = Lookup \/ phase[u] = Lookup + 1
  BY Together DEF IInv
<1>3. \A u \in Tids : phase[u] \in Lookup .. Count
  BY <1>2 DEF Lookup, Count
<1>4. pos[t] \in Positions
  BY SimtAssumption DEF IInv, TypeOK, Positions
<1>5. pos[t] % Threads = t
  BY <1>1 DEF IInv, ThreadInv
<1>6. ~ Looked(pos[t])
  BY <1>1, <1>4, <1>5 DEF Looked, Lookup, Positions
<1>7. pos[t] \notin MissAt
  BY <1>6 DEF IInv, ClaimInv
<1>8. missMask[pos[t]] = FALSE
  BY <1>4, <1>7 DEF MissAt, IInv, TypeOK
<1>9. slotIds[pos[t]] = NotFound
  BY <1>4, <1>6 DEF IInv, AnswerInv
<1>10. \A p : ~ Installed(p)
  BY <1>3 DEF Installed, Lookup, Count, Alloc
<1> QED
  BY <1>1, <1>3, <1>4, <1>5, <1>6, <1>7, <1>8, <1>9, <1>10

\* A thread goes on to its next position.
LEMMA AdvanceThread ==
  ASSUME IInv, NEW t \in Tids, In(t, Lookup), pos[t] < QueryCount,
         Advance(t, Threads), UNCHANGED <<op, query, phase, lru>>,
         \A u \in Tids : claiming'[u] => u # t /\ claiming[u]
  PROVE  /\ pos' \in [Tids -> Nat]
         /\ ThreadInv' /\ CountInv' /\ CompactInv' /\ LruInv'
         /\ \A q \in Positions : Looked(q)' <=> Looked(q) \/ q = pos[t]
         /\ \A q : ~ Installed(q)'
<1>1. /\ op = "lookup" /\ phase[t] = Lookup
      /\ pos[t] \in Positions /\ pos[t] % Threads = t
      /\ \A u \in Tids : phase[u] \in Lookup .. Count
  BY AtPosition
<1>2. pos \in [Tids -> Nat] /\ Threads \in Nat \ {0}
  BY SimtAssumption DEF IInv, TypeOK
<1>3. pos' \in [Tids -> Nat]
  BY <1>2 DEF Advance
<1>4. \A u \in Tids : pos'[u] = IF u = t THEN pos[t] + Threads ELSE pos[u]
  BY <1>2 DEF Advance
<1>5. pos'[t] % Threads = t
  BY <1>1, <1>2, <1>4, StrideStep
<1>6. ThreadInv'
  <2>1. \A u \in Tids : phase[u] # Clear
    BY <1>1 DEF Clear, Lookup, Count
  <2>2. \A u \in Tids : phase'[u] = Lookup => pos'[u] % Threads = u
    BY <1>4, <1>5 DEF IInv, ThreadInv
  <2>3. \A u \in Tids : claiming'[u] => phase'[u] = Lookup /\ pos'[u] < QueryCount
                                        /\ query'[pos'[u]] \in Tokens
    BY <1>4 DEF IInv, ThreadInv
  <2> QED
    BY <1>1, <2>1, <2>2, <2>3 DEF IInv, ThreadInv
<1>7. CountInv' /\ CompactInv' /\ LruInv'
  <2>1. \A u \in Tids : phase[u] \in Clear .. Count /\ phase'[u] \in Clear .. Count
    BY <1>1 DEF Clear, Lookup, Count
  <2> QED
    BY <1>1, <2>1, EarlyScan
<1>8. ASSUME NEW q \in Positions PROVE Looked(q)' <=> Looked(q) \/ q = pos[t]
  <2>1. q \in Nat
    BY DEF Positions
  <2>2. CASE q % Threads = t
    <3>1. Looked(q) <=> q < pos[t]
      BY <1>1, <2>2 DEF Looked, Lookup
    <3>2. Looked(q)' <=> q < pos[t] + Threads
      BY <1>1, <1>4, <2>2 DEF Looked, Lookup
    <3>3. q < pos[t] + Threads /\ ~ q < pos[t] => q = pos[t]
      <4> SUFFICES ASSUME q < pos[t] + Threads, ~ q < pos[t] PROVE q = pos[t]
        OBVIOUS
      <4>1. pos[t] \in Nat /\ pos[t] <= q
        BY <1>2, <2>1
      <4> QED
        BY <1>1, <1>2, <2>1, <2>2, <4>1, NextOfStride
    <3> QED
      BY <1>2, <2>1, <3>1, <3>2, <3>3
  <2>3. CASE q % Threads # t
    <3>1. Looked(q)' <=> Looked(q)
      BY <1>4, <2>3 DEF Looked
    <3> QED
      BY <1>1, <2>3, <3>1
  <2> QED
    BY <2>2, <2>3
<1>9. \A q : ~ Installed(q)'
  BY <1>1 DEF Installed, Lookup, Count, Alloc
<1> QED
  BY <1>3, <1>6, <1>7, <1>8, <1>9

\* An answer that finds nothing leaves slotIds and missMask as they are.
LEMMA NoAnswer ==
  ASSUME IInv, NEW t \in Tids, In(t, Lookup), pos[t] < QueryCount,
         Answer(t, NotFound)
  PROVE  slotIds' = slotIds /\ missMask' = missMask
<1>1. /\ pos[t] \in Positions
      /\ missMask[pos[t]] = FALSE /\ slotIds[pos[t]] = NotFound
  BY AtPosition
<1> QED
  BY <1>1 DEF Answer, IInv, TypeOK

\* A position is looked at without an answer: padding, or another claims it.
LEMMA UnansweredStep ==
  ASSUME IInv, NEW t \in Tids, In(t, Lookup), pos[t] < QueryCount,
         Advance(t, Threads),
         UNCHANGED <<tables, outputs, host, phase, hitFlags, scans>>,
         claiming' \in [Tids -> BOOLEAN],
         \A u \in Tids : claiming'[u] => u # t /\ claiming[u],
         query[pos[t]] \in Tokens => tokenToSlot[query[pos[t]]] = Claiming
  PROVE  IInv'
<1> USE DEF tables, outputs, host, scans
<1>1. /\ pos[t] \in Positions /\ \A p : ~ Installed(p)
  BY AtPosition
<1>2. /\ pos' \in [Tids -> Nat]
      /\ ThreadInv' /\ CountInv' /\ CompactInv' /\ LruInv'
      /\ \A q \in Positions : Looked(q)' <=> Looked(q) \/ q = pos[t]
      /\ \A q : ~ Installed(q)'
  BY AdvanceThread
<1>3. MissAt' = MissAt /\ MissAt \subseteq Positions
  BY DEF MissAt
<1>4. TypeOK'
  BY <1>2 DEF IInv, TypeOK
<1>5. MapInv' /\ PayloadInv'
  BY <1>1, <1>2, <1>3 DEF IInv, MapInv, PayloadInv
<1>6. ClaimInv'
  BY <1>1, <1>2, <1>3 DEF IInv, ClaimInv
<1>7. AnswerInv'
  BY <1>2 DEF IInv, AnswerInv
<1>8. HitInv'
  BY <1>2, <1>3 DEF IInv, HitInv, ClaimInv
<1>9. InstallInv'
  BY <1>2 DEF InstallInv
<1> QED
  BY <1>2, <1>4, <1>5, <1>6, <1>7, <1>8, <1>9 DEF IInv

\* A position is looked at and its token found in a slot.
LEMMA FoundStep ==
  ASSUME IInv, NEW t \in Tids, In(t, Lookup), pos[t] < QueryCount,
         Advance(t, Threads),
         UNCHANGED <<tables, missMask, host, phase, scans>>,
         claiming' \in [Tids -> BOOLEAN],
         \A u \in Tids : claiming'[u] => u # t /\ claiming[u],
         query[pos[t]] \in Tokens,
         tokenToSlot[query[pos[t]]] \in Slots,
         slotIds' = [slotIds EXCEPT ![pos[t]] = tokenToSlot[query[pos[t]]]],
         hitFlags' = [hitFlags EXCEPT ![tokenToSlot[query[pos[t]]]] = TRUE]
  PROVE  IInv'
<1> USE DEF tables, host, scans
<1>1. /\ pos[t] \in Positions /\ pos[t] \notin MissAt /\ \A p : ~ Installed(p)
  BY AtPosition
<1>2. /\ pos' \in [Tids -> Nat]
      /\ ThreadInv' /\ CountInv' /\ CompactInv' /\ LruInv'
      /\ \A q \in Positions : Looked(q)' <=> Looked(q) \/ q = pos[t]
      /\ \A q : ~ Installed(q)'
  BY AdvanceThread
<1>3. MissAt' = MissAt /\ MissAt \subseteq Positions
  BY DEF MissAt
<1>4. /\ slotIds \in [Positions -> Partial(Slots)]
      /\ hitFlags \in [Slots -> BOOLEAN]
  BY DEF IInv, TypeOK
<1>5. \A q \in Positions :
        slotIds'[q] = IF q = pos[t] THEN tokenToSlot[query[pos[t]]] ELSE slotIds[q]
  BY <1>4
<1>6. \A s \in Slots :
        hitFlags'[s] <=> s = tokenToSlot[query[pos[t]]] \/ hitFlags[s]
  BY <1>4
<1>7. TypeOK'
  <2>1. slotIds' \in [Positions -> Partial(Slots)]
    BY <1>4 DEF Partial
  <2>2. hitFlags' \in [Slots -> BOOLEAN]
    BY <1>4
  <2> QED
    BY <1>2, <2>1, <2>2 DEF IInv, TypeOK
<1>8. MapInv' /\ PayloadInv'
  BY <1>1, <1>2, <1>3 DEF IInv, MapInv, PayloadInv
<1>9. ClaimInv'
  BY <1>1, <1>2, <1>3, <1>5 DEF IInv, ClaimInv
<1>10. AnswerInv'
  BY <1>2, <1>5 DEF IInv, AnswerInv
<1>11. HitInv'
  <2>1. ASSUME NEW p \in Positions, Looked(p)', query[p] \in Tokens
        PROVE  \/ \E q \in MissAt : query[q] = query[p]
               \/ tokenToSlot[query[p]] \in Slots /\ hitFlags'[tokenToSlot[query[p]]]
    BY <1>2, <1>6, <2>1 DEF IInv, HitInv
  <2>2. ASSUME NEW s \in Slots, hitFlags'[s], phase[s % Threads] > Clear
        PROVE  \E p \in Positions \ MissAt : query[p] \in Tokens /\ tokenToSlot[query[p]] = s
    BY <1>1, <1>6, <2>2 DEF IInv, HitInv
  <2> QED
    BY <1>3, <2>1, <2>2 DEF HitInv
<1>12. InstallInv'
  BY <1>2 DEF InstallInv
<1> QED
  BY <1>2, <1>7, <1>8, <1>9, <1>10, <1>11, <1>12 DEF IInv

LEMMA LookupPaddingStep ==
  ASSUME IInv, NEW t \in Tids, LookupPadding(t)
  PROVE  IInv'
<1> USE DEF LookupPadding, AtQuery, QueryToken
<1>1. UNCHANGED outputs
  BY NoAnswer DEF outputs
<1>2. \A u \in Tids : claiming'[u] => u # t /\ claiming[u]
  OBVIOUS
<1>3. claiming' \in [Tids -> BOOLEAN]
  BY DEF IInv, TypeOK
<1> QED
  BY <1>1, <1>2, <1>3, UnansweredStep

LEMMA LookupClaimedStep ==
  ASSUME IInv, NEW t \in Tids, LookupClaimed(t)
  PROVE  IInv'
<1> USE DEF LookupClaimed, AtQuery, QueryToken
<1>1. UNCHANGED outputs
  BY NoAnswer DEF outputs
<1>2. \A u \in Tids : claiming'[u] => u # t /\ claiming[u]
  OBVIOUS
<1>3. claiming' \in [Tids -> BOOLEAN]
  BY DEF IInv, TypeOK
<1> QED
  BY <1>1, <1>2, <1>3, UnansweredStep

LEMMA LookupHitStep ==
  ASSUME IInv, NEW t \in Tids, LookupHit(t)
  PROVE  IInv'
<1> USE DEF LookupHit, AtQuery, QueryToken
<1>1. missMask[pos[t]] = FALSE
  BY AtPosition
<1>2. missMask' = missMask
  BY <1>1 DEF Answer, IInv, TypeOK
<1>3. slotIds' = [slotIds EXCEPT ![pos[t]] = tokenToSlot[query[pos[t]]]]
  BY DEF Answer
<1>4. tokenToSlot[query[pos[t]]] \in Slots
  BY DEF IInv, TypeOK, NotFound, Claiming
<1>5. \A u \in Tids : claiming'[u] => u # t /\ claiming[u]
  OBVIOUS
<1>6. claiming' \in [Tids -> BOOLEAN]
  BY DEF IInv, TypeOK
<1> QED
  BY <1>2, <1>3, <1>4, <1>5, <1>6, FoundStep

\* Between the load and the compare and swap only claiming[t] has changed.
LEMMA LookupMissStep ==
  ASSUME IInv, NEW t \in Tids, LookupMiss(t)
  PROVE  IInv'
<1> USE DEF LookupMiss, AtQuery, QueryToken, tables, host, scans
<1>1. /\ op = "lookup" /\ phase[t] = Lookup
      /\ \A u \in Tids : phase[u] \in Lookup .. Count
      /\ \A p : ~ Installed(p)
  BY AtPosition
<1>2. slotIds' = slotIds /\ missMask' = missMask
  BY NoAnswer
<1>3. \A p : /\ Looked(p)' <=> Looked(p)
             /\ Installed(p)' <=> Installed(p)
  BY DEF Looked, Installed
<1>4. TypeOK'
  BY <1>2 DEF IInv, TypeOK
<1>5. ThreadInv'
  BY <1>1 DEF IInv, TypeOK, ThreadInv
<1>6. MapInv' /\ ClaimInv' /\ AnswerInv' /\ InstallInv' /\ PayloadInv'
  BY <1>1, <1>2, <1>3, BatchFrame
<1>7. HitInv'
  BY <1>2, <1>3 DEF IInv, HitInv, MissAt
<1>8. CountInv' /\ CompactInv' /\ LruInv'
  <2>1. \A u \in Tids : phase[u] \in Clear .. Count /\ phase'[u] \in Clear .. Count
    BY <1>1 DEF Clear, Lookup, Count
  <2> QED
    BY <1>1, <2>1, EarlyScan
<1> QED
  BY <1>4, <1>5, <1>6, <1>7, <1>8 DEF IInv

\* The claim wins: its position is the one that loads the token.
LEMMA ClaimWins ==
  ASSUME IInv, NEW t \in Tids, Claim(t), tokenToSlot[query[pos[t]]] = NotFound
  PROVE  IInv'
<1> USE DEF host, scans
<1> DEFINE a == pos[t]
           k == query[pos[t]]
<1>1. /\ In(t, Lookup) /\ claiming[t] /\ Advance(t, Threads)
      /\ tokenToSlot' = [tokenToSlot EXCEPT ![k] = Claiming]
      /\ missMask' = [missMask EXCEPT ![a] = TRUE]
      /\ claiming' = [claiming EXCEPT ![t] = FALSE]
      /\ hitFlags' = hitFlags
      /\ UNCHANGED <<slotToToken, lru, host, phase, scans>>
  <2>1. k = query[pos[t]] /\ a = pos[t] /\ tokenToSlot[k] = -1 /\ ~ tokenToSlot[k] >= 0
    BY DEF NotFound
  <2>2. missMask' = [missMask EXCEPT ![a] = TRUE]
    <3>1. (tokenToSlot[k] = NotFound) = TRUE
      BY <2>1 DEF NotFound
    <3>2. missMask' = [missMask EXCEPT ![a] = (tokenToSlot[k] = NotFound)]
      BY DEF Claim, QueryToken
    <3> QED
      BY <3>1, <3>2, Zenon
  <2>3. tokenToSlot' = [tokenToSlot EXCEPT ![k] = Claiming]
    BY DEF Claim, QueryToken
  <2>4. hitFlags' = hitFlags
    BY <2>1 DEF Claim, QueryToken
  <2> QED
    BY <2>2, <2>3, <2>4 DEF Claim
<1>2. pos[t] < QueryCount /\ k \in Tokens
  BY <1>1 DEF IInv, ThreadInv
<1>3. /\ a \in Positions /\ ~ Looked(a) /\ a \notin MissAt
      /\ slotIds[a] = NotFound /\ \A p : ~ Installed(p)
  BY <1>1, <1>2, AtPosition
<1>4. slotIds' = slotIds
  <2>1. slotIds' = [slotIds EXCEPT ![a] = slotIds[a]]
    BY DEF Claim, QueryToken, NotFound
  <2> QED
    BY <1>3, <2>1 DEF IInv, TypeOK
<1>5. \A u \in Tids : claiming'[u] => u # t /\ claiming[u]
  BY <1>1 DEF IInv, TypeOK
<1>6. /\ pos' \in [Tids -> Nat]
      /\ ThreadInv' /\ CountInv' /\ CompactInv' /\ LruInv'
      /\ \A q \in Positions : Looked(q)' <=> Looked(q) \/ q = a
      /\ \A q : ~ Installed(q)'
  BY <1>1, <1>2, <1>5, AdvanceThread
<1>7. MissAt' = MissAt \cup {a} /\ MissAt \subseteq Positions
  BY <1>1, <1>3 DEF MissAt, IInv, TypeOK
<1>8. /\ \A u \in Tokens :
           tokenToSlot'[u] = IF u = k THEN Claiming ELSE tokenToSlot[u]
      /\ tokenToSlot' \in [Tokens -> Slots \cup {NotFound, Claiming}]
  BY <1>1 DEF IInv, TypeOK
<1>9. Claiming \notin Slots /\ NotFound \notin Slots /\ NotFound # Claiming
  BY DEF Claiming, NotFound, Slots
<1> HIDE DEF a, k
<1>10. query[a] = k
  BY DEF a, k
<1>11. tokenToSlot[k] = NotFound
  BY DEF k
<1>12. TypeOK'
  <2>1. missMask' \in [Positions -> BOOLEAN] /\ claiming' \in [Tids -> BOOLEAN]
    BY <1>1 DEF IInv, TypeOK
  <2> QED
    BY <1>1, <1>4, <1>6, <1>8, <2>1 DEF IInv, TypeOK
<1>13. MapInv'
  BY <1>1, <1>8, <1>9, <1>11 DEF IInv, MapInv, TypeOK, Partial
<1>14. ClaimInv'
  <2>1. ASSUME NEW u \in Tokens, tokenToSlot'[u] = Claiming
        PROVE  \E p \in MissAt' : ~ Installed(p)' /\ query[p] = u
    BY <1>6, <1>7, <1>8, <1>10, <2>1 DEF IInv, ClaimInv
  <2>2. ASSUME NEW p \in MissAt'
        PROVE  /\ Looked(p)' /\ query[p] \in Tokens
               /\ tokenToSlot'[query[p]] = Claiming /\ slotIds[p] = NotFound
    BY <1>2, <1>3, <1>6, <1>7, <1>8, <1>10, <2>2 DEF IInv, ClaimInv, k
  <2>3. \A p \in MissAt : query[p] # k
    BY <1>3, <1>9, <1>11 DEF IInv, ClaimInv
  <2>4. ASSUME NEW p \in MissAt', NEW q \in MissAt', query[p] = query[q]
        PROVE  p = q
    BY <1>7, <1>10, <2>3, <2>4 DEF IInv, ClaimInv
  <2> QED
    BY <1>1, <1>4, <2>1, <2>2, <2>4 DEF ClaimInv
<1>15. AnswerInv'
  BY <1>1, <1>4, <1>6, <1>8, <1>9, <1>11 DEF IInv, AnswerInv
<1>16. HitInv'
  <2>1. ASSUME NEW p \in Positions, Looked(p)', query[p] \in Tokens
        PROVE  \/ \E q \in MissAt' : query[q] = query[p]
               \/ tokenToSlot'[query[p]] \in Slots /\ hitFlags[tokenToSlot'[query[p]]]
    <3>1. CASE query[p] = k
      BY <1>7, <1>10, <3>1
    <3>2. CASE query[p] # k
      BY <1>6, <1>7, <1>8, <1>10, <2>1, <3>2 DEF IInv, HitInv
    <3> QED
      BY <3>1, <3>2
  <2>2. ASSUME NEW s \in Slots, hitFlags[s], phase[s % Threads] > Clear
        PROVE  \E p \in Positions \ MissAt' :
                 query[p] \in Tokens /\ tokenToSlot'[query[p]] = s
    <3>1. PICK p \in Positions \ MissAt : query[p] \in Tokens /\ tokenToSlot[query[p]] = s
      BY <2>2 DEF IInv, HitInv
    <3>2. query[p] # k
      BY <1>9, <1>11, <3>1
    <3> QED
      BY <1>7, <1>8, <1>10, <3>1, <3>2
  <2> QED
    BY <1>1, <2>1, <2>2 DEF HitInv
<1>17. InstallInv'
  BY <1>6 DEF InstallInv
<1>18. PayloadInv'
  BY <1>1, <1>3 DEF IInv, PayloadInv
<1> QED
  BY <1>6, <1>12, <1>13, <1>14, <1>15, <1>16, <1>17, <1>18 DEF IInv

LEMMA ClaimStep ==
  ASSUME IInv, NEW t \in Tids, Claim(t)
  PROVE  IInv'
<1> DEFINE a == pos[t]
           k == query[pos[t]]
<1>1. /\ In(t, Lookup) /\ claiming[t] /\ Advance(t, Threads)
      /\ tokenToSlot' = [tokenToSlot EXCEPT
                           ![k] = IF tokenToSlot[k] = NotFound THEN Claiming ELSE tokenToSlot[k]]
      /\ missMask' = [missMask EXCEPT ![a] = (tokenToSlot[k] = NotFound)]
      /\ slotIds' = [slotIds EXCEPT ![a] = IF tokenToSlot[k] >= 0 THEN tokenToSlot[k] ELSE slotIds[a]]
      /\ hitFlags' = IF tokenToSlot[k] >= 0 THEN [hitFlags EXCEPT ![tokenToSlot[k]] = TRUE]
                                            ELSE hitFlags
      /\ claiming' = [claiming EXCEPT ![t] = FALSE]
      /\ UNCHANGED <<slotToToken, lru, host, phase, scans>>
  BY DEF Claim, QueryToken
<1>2. a < QueryCount /\ k \in Tokens
  BY <1>1 DEF IInv, ThreadInv
<1>3. a \in Positions /\ missMask[a] = FALSE
  BY <1>1, <1>2, AtPosition
<1>4. \A u \in Tids : claiming'[u] => u # t /\ claiming[u]
  BY <1>1 DEF IInv, TypeOK
<1>5. claiming' \in [Tids -> BOOLEAN]
  BY <1>1 DEF IInv, TypeOK
<1>6. tokenToSlot[k] # NotFound => tokenToSlot' = tokenToSlot /\ missMask' = missMask
  BY <1>1, <1>3 DEF IInv, TypeOK
<1>7. tokenToSlot[k] \in Slots \/ tokenToSlot[k] = NotFound \/ tokenToSlot[k] = Claiming
  BY <1>2 DEF IInv, TypeOK
<1>8. CASE tokenToSlot[k] = NotFound
  BY <1>8, ClaimWins
<1>9. CASE tokenToSlot[k] = Claiming
  <2>1. slotIds' = [slotIds EXCEPT ![a] = slotIds[a]] /\ hitFlags' = hitFlags
    BY <1>1, <1>9 DEF Claiming
  <2>2. slotIds' = slotIds
    BY <2>1, <1>3 DEF IInv, TypeOK
  <2>3. UNCHANGED <<tables, outputs, host, phase, hitFlags, scans>>
    BY <1>1, <1>6, <1>9, <2>1, <2>2 DEF tables, outputs, NotFound, Claiming
  <2> QED
    BY <1>1, <1>2, <1>4, <1>5, <1>9, <2>3, UnansweredStep
<1>10. CASE tokenToSlot[k] \in Slots
  <2>1. tokenToSlot[k] >= 0 /\ tokenToSlot[k] # NotFound
    BY <1>10 DEF Slots, NotFound
  <2>2. UNCHANGED <<tables, missMask, host, phase, scans>>
    BY <1>1, <1>6, <2>1 DEF tables
  <2>3. slotIds' = [slotIds EXCEPT ![a] = tokenToSlot[k]]
    BY <1>1, <2>1
  <2>4. hitFlags' = [hitFlags EXCEPT ![tokenToSlot[k]] = TRUE]
    BY <1>1, <2>1
  <2> QED
    BY <1>1, <1>2, <1>4, <1>5, <1>10, <2>2, <2>3, <2>4, FoundStep
<1> QED
  BY <1>7, <1>8, <1>9, <1>10

LEMMA LookupEndStep ==
  ASSUME IInv, NEW t \in Tids, LookupEnd(t)
  PROVE  IInv'
<1> USE DEF LookupEnd, tables, outputs, host, scans
<1>1. op = "lookup" /\ Lookup \in Clear .. Rewrite /\ Lookup # Clear
  BY DEF In, Lookup, Clear, Rewrite
<1>2. /\ ThreadInv'
      /\ phase' \in [Tids -> Clear .. Done]
      /\ phase[t] = Lookup /\ phase'[t] = Lookup + 1
      /\ \A u \in Tids \ {t} : phase'[u] = phase[u]
      /\ \A u \in Tids : phase[u] \in Lookup .. Lookup + 1 /\ phase'[u] \in Lookup .. Lookup + 1
  BY <1>1, PassThread
<1>3. \A u \in Tids : /\ phase[u] \in Clear .. Count /\ phase'[u] \in Clear .. Count
                      /\ phase[u] < Alloc /\ phase'[u] < Alloc
  BY <1>2 DEF Clear, Lookup, Count, Alloc
<1>4. TypeOK'
  BY <1>2 DEF IInv, TypeOK
<1>5. \A p \in Positions : Looked(p)' <=> Looked(p)
  <2> SUFFICES ASSUME NEW p \in Positions PROVE Looked(p)' <=> Looked(p)
    OBVIOUS
  <2>1. p < pos[t]
    BY SimtAssumption DEF Positions, IInv, TypeOK
  <2>2. phase'[t] > Lookup
    BY <1>2 DEF Lookup
  <2>3. CASE p % Threads = t
    BY <1>2, <2>1, <2>2, <2>3 DEF Looked
  <2>4. CASE p % Threads # t
    BY <1>2, <2>4 DEF Looked
  <2> QED
    BY <2>3, <2>4
<1>6. \A p : ~ Installed(p) /\ ~ Installed(p)'
  BY <1>3 DEF Installed, Alloc
<1>7. MapInv' /\ ClaimInv' /\ AnswerInv' /\ InstallInv' /\ PayloadInv'
  BY <1>5, <1>6, BatchFrame
<1>8. HitInv'
  <2>1. MissAt' = MissAt
    BY DEF MissAt
  <2>2. \A s \in Slots : s % Threads \in Tids
    BY SimtAssumption, StrideOf DEF Slots
  <2>3. \A u \in Tids : phase[u] > Clear
    BY <1>2 DEF Lookup, Clear
  <2> QED
    BY <1>5, <2>1, <2>2, <2>3 DEF IInv, HitInv
<1>9. CountInv' /\ CompactInv' /\ LruInv'
  BY <1>1, <1>3, EarlyScan
<1> QED
  BY <1>2, <1>4, <1>7, <1>8, <1>9 DEF IInv

-----------------------------------------------------------------------------
(***************************************************************************)
(* The counts and the compactions.                                          *)
(***************************************************************************)

\* From the end of the lookup loops until allocation nothing but the
\* workspace changes.
LEMMA ScanFrame ==
  ASSUME IInv, UNCHANGED <<tables, outputs, host, hitFlags>>,
         \A u \in Tids : phase[u] \in Count .. Alloc /\ phase'[u] \in Count .. Alloc,
         \A p : Installed(p)' <=> Installed(p),
         \A p : Installed(p) => evictableSlots' = evictableSlots
  PROVE  MapInv' /\ ClaimInv' /\ AnswerInv' /\ HitInv' /\ InstallInv' /\ PayloadInv'
<1> USE DEF tables, outputs, host
<1>1. \A u \in Tids : phase[u] > Lookup /\ phase'[u] > Lookup /\ phase[u] > Clear
  BY DEF Count, Alloc, Lookup, Clear
<1>2. \A p : Looked(p)' <=> Looked(p)
  BY <1>1 DEF Looked
<1>3. MapInv' /\ ClaimInv' /\ AnswerInv' /\ InstallInv' /\ PayloadInv'
  BY <1>2, BatchFrame
<1>4. HitInv'
  <2>1. MissAt' = MissAt
    BY DEF MissAt
  <2>2. \A s \in Slots : s % Threads \in Tids
    BY SimtAssumption, StrideOf DEF Slots
  <2> QED
    BY <1>1, <1>2, <2>1, <2>2 DEF IInv, HitInv
<1> QED
  BY <1>3, <1>4

LEMMA CountHitsStep ==
  ASSUME IInv, NEW t \in Tids, CountHits(t)
  PROVE  IInv'
<1> USE DEF CountHits
<1>1. op = "lookup" /\ phase[t] = Count /\ Count \in Clear .. Rewrite /\ Count # Clear
  BY DEF In, Count, Clear, Rewrite
<1>2. ~ claiming[t]
  BY <1>1 DEF IInv, ThreadInv, Count, Lookup
<1>3. UNCHANGED <<op, claiming, query, pos>>
  BY DEF host
<1>4. /\ ThreadInv'
      /\ phase' \in [Tids -> Clear .. Done]
      /\ phase[t] = Count /\ phase'[t] = Count + 1
      /\ \A u \in Tids \ {t} : phase'[u] = phase[u]
      /\ \A u \in Tids : phase[u] \in Count .. Count + 1 /\ phase'[u] \in Count .. Count + 1
  BY <1>1, <1>2, <1>3, PassThread
<1>5. \A u \in Tids : phase[u] \in Count .. Alloc /\ phase'[u] \in Count .. Alloc
  BY <1>4 DEF Count, Alloc
<1>6. \A p : ~ Installed(p) /\ ~ Installed(p)'
  BY <1>4 DEF Installed, Count, Alloc
<1>7. MapInv' /\ ClaimInv' /\ AnswerInv' /\ HitInv' /\ InstallInv' /\ PayloadInv'
  BY <1>5, <1>6, ScanFrame
<1>8. HitAt' = HitAt /\ EvictableAt' = EvictableAt /\ MissAt' = MissAt
  BY DEF HitAt, EvictableAt, MissAt, tables, outputs
<1>9. TypeOK'
  <2>1. /\ HitAt \cap Chunk(t, SlotCount) \in SUBSET (0 .. SlotCount - 1)
        /\ EvictableAt \cap Chunk(t, SlotCount) \in SUBSET (0 .. SlotCount - 1)
    BY DEF HitAt, EvictableAt, Slots
  <2>2. /\ Cardinality(HitAt \cap Chunk(t, SlotCount)) \in 0 .. SlotCount
        /\ Cardinality(EvictableAt \cap Chunk(t, SlotCount)) \in 0 .. SlotCount
    BY <2>1, SimtAssumption, FiniteItems
  <2>3. /\ hitCounts' \in [Tids -> 0 .. SlotCount]
        /\ evictCounts' \in [Tids -> 0 .. SlotCount]
    BY <2>2 DEF IInv, TypeOK
  <2> QED
    BY <1>4, <2>3 DEF IInv, TypeOK, tables, outputs, host
<1>10. Frozen /\ \A u \in Tids : ~ phase'[u] > Misses /\ ~ phase'[u] > Compact
                                 /\ ~ phase'[u] > Rewrite
  BY <1>1, <1>4 DEF Frozen, Count, Compact, Misses, Rewrite
<1>11. CountInv'
  <2>1. ASSUME NEW u \in Tids, phase'[u] > Count
        PROVE  /\ hitCounts'[u] = Cardinality(HitAt \cap Chunk(u, SlotCount))
               /\ evictCounts'[u] = Cardinality(EvictableAt \cap Chunk(u, SlotCount))
    <3>1. CASE u = t
      BY <3>1 DEF IInv, TypeOK
    <3>2. CASE u # t
      <4>1. phase[u] > Count
        BY <1>4, <2>1, <3>2
      <4> QED
        BY <1>10, <3>2, <4>1 DEF IInv, TypeOK, CountInv
    <3> QED
      BY <3>1, <3>2
  <2> QED
    BY <1>8, <1>10, <2>1 DEF CountInv
<1>12. CompactInv' /\ LruInv'
  BY <1>10 DEF IInv, CompactInv, LruInv, tables
<1> QED
  BY <1>4, <1>7, <1>9, <1>11, <1>12 DEF IInv

\* What one thread's compaction of S into array writes, and what it leaves.
Compacts(S, counts, t, array) ==
  /\ \A p \in S \cap Chunk(t, SlotCount) :
       Compacted(array, S \cap Chunk(t, SlotCount), Prefix(counts, t))[RankIn(S, p)]
         = lru[p]
  /\ \A p \in S \ Chunk(t, SlotCount) :
       Compacted(array, S \cap Chunk(t, SlotCount), Prefix(counts, t))[RankIn(S, p)]
         = array[RankIn(S, p)]

LEMMA CompactedAt ==
  ASSUME NEW S \in SUBSET Slots, NEW counts \in [Tids -> Nat],
         \A u \in Tids : counts[u] = Cardinality(S \cap Chunk(u, SlotCount)),
         NEW t \in Tids, NEW array
  PROVE  Compacts(S, counts, t, array)
<1> DEFINE C == S \cap Chunk(t, SlotCount)
           o == Prefix(counts, t)
           c == Compacted(array, C, o)
<1>1. SlotCount \in Nat /\ S \in SUBSET (0 .. SlotCount - 1)
  BY SimtAssumption DEF Slots
<1>2. \A p \in C : o + RankIn(C, p) = RankIn(S, p)
  BY <1>1, RankSplit
<1>3. \A p \in S : RankIn(S, p) \in Slots
  <2> SUFFICES ASSUME NEW p \in S PROVE RankIn(S, p) \in Slots
    OBVIOUS
  <2>1. Cardinality(S) \in 0 .. SlotCount
    BY <1>1, FiniteItems
  <2>2. RankIn(S, p) \in 0 .. Cardinality(S) - 1
    BY <1>1, RankRange
  <2> QED
    BY <1>1, <2>1, <2>2 DEF Slots
<1>4. \A p, q \in S : RankIn(S, p) = RankIn(S, q) => p = q
  BY <1>1, RankInjective
<1>5. C \subseteq S
  OBVIOUS
<1> HIDE DEF C, o
<1>6. ASSUME NEW p \in S
      PROVE  c[RankIn(S, p)] = IF \E q \in C : o + RankIn(C, q) = RankIn(S, p)
                               THEN lru[CHOOSE q \in C : o + RankIn(C, q) = RankIn(S, p)]
                               ELSE array[RankIn(S, p)]
  BY <1>3 DEF Compacted
<1>7. ASSUME NEW p \in C PROVE c[RankIn(S, p)] = lru[p]
  <2> DEFINE m == CHOOSE q \in C : o + RankIn(C, q) = RankIn(S, p)
  <2>1. m \in C /\ o + RankIn(C, m) = RankIn(S, p)
    BY <1>2
  <2> HIDE DEF m
  <2>2. m = p
    BY <1>2, <1>4, <1>5, <2>1
  <2>3. \E q \in C : o + RankIn(C, q) = RankIn(S, p)
    BY <2>1
  <2>4. c[RankIn(S, p)] = lru[m]
    BY <1>5, <1>6, <2>3 DEF m
  <2> QED
    BY <2>2, <2>4
<1>8. ASSUME NEW p \in S, p \notin C PROVE c[RankIn(S, p)] = array[RankIn(S, p)]
  <2>1. ~ \E q \in C : o + RankIn(C, q) = RankIn(S, p)
    BY <1>2, <1>4, <1>5, <1>8
  <2> QED
    BY <1>6, <2>1
<1> HIDE DEF c
<1>9. \A p \in S \ Chunk(t, SlotCount) : p \in S /\ p \notin C
  BY DEF C
<1> QED
  BY <1>7, <1>8, <1>9 DEF c, C, o, Compacts

LEMMA CompactedType ==
  ASSUME TypeOK, NEW S \in SUBSET Slots, NEW o, NEW array \in [Slots -> Slots]
  PROVE  Compacted(array, S, o) \in [Slots -> Slots]
<1> DEFINE Hits(i, p) == o + RankIn(S, p) = i
<1>1. ASSUME NEW i \in Slots, \E p \in S : Hits(i, p)
      PROVE  lru[CHOOSE p \in S : Hits(i, p)] \in Slots
  <2>1. (CHOOSE p \in S : Hits(i, p)) \in S
    BY <1>1
  <2> QED
    BY <2>1 DEF TypeOK
<1> QED
  BY <1>1 DEF Compacted

LEMMA CompactLruStep ==
  ASSUME IInv, NEW t \in Tids, CompactLru(t)
  PROVE  IInv'
<1> USE DEF CompactLru
<1>1. op = "lookup" /\ phase[t] = Compact /\ Compact \in Clear .. Rewrite /\ Compact # Clear
  BY DEF In, Compact, Clear, Rewrite
<1>2. ~ claiming[t]
  BY <1>1 DEF IInv, ThreadInv, Compact, Lookup
<1>3. UNCHANGED <<op, claiming, query, pos>>
  BY DEF host
<1>4. /\ ThreadInv'
      /\ phase' \in [Tids -> Clear .. Done]
      /\ phase[t] = Compact /\ phase'[t] = Compact + 1
      /\ \A u \in Tids \ {t} : phase'[u] = phase[u]
      /\ \A u \in Tids : phase[u] \in Compact .. Compact + 1 /\ phase'[u] \in Compact .. Compact + 1
  BY <1>1, <1>2, <1>3, PassThread
<1>5. \A u \in Tids : phase[u] \in Count .. Alloc /\ phase'[u] \in Count .. Alloc
  BY <1>4 DEF Count, Compact, Alloc
<1>6. \A p : ~ Installed(p) /\ ~ Installed(p)'
  BY <1>4 DEF Installed, Compact, Alloc
<1>7. MapInv' /\ ClaimInv' /\ AnswerInv' /\ HitInv' /\ InstallInv' /\ PayloadInv'
  BY <1>5, <1>6, ScanFrame
<1>8. /\ HitAt' = HitAt /\ EvictableAt' = EvictableAt /\ MissAt' = MissAt
      /\ HitAt \in SUBSET Slots /\ EvictableAt \in SUBSET Slots
  BY DEF HitAt, EvictableAt, MissAt, tables, outputs
<1>9. TypeOK'
  <2>1. hitSlots' \in [Slots -> Slots] /\ evictableSlots' \in [Slots -> Slots]
    BY <1>8, CompactedType DEF IInv, TypeOK
  <2> QED
    BY <1>4, <2>1 DEF IInv, TypeOK, tables, outputs, host
<1>10. Frozen /\ Frozen' /\ \A u \in Tids : /\ ~ phase'[u] > Misses /\ ~ phase'[u] > Rewrite
                                            /\ phase[u] > Count
  BY <1>1, <1>3, <1>4 DEF Frozen, Compact, Misses, Rewrite, Count
<1>11. \A u \in Tids : /\ hitCounts[u] = Cardinality(HitAt \cap Chunk(u, SlotCount))
                       /\ evictCounts[u] = Cardinality(EvictableAt \cap Chunk(u, SlotCount))
  BY <1>10 DEF IInv, CountInv
<1>12. CountInv'
  BY <1>8, <1>10, <1>11 DEF CountInv
<1>13. CompactInv'
  <2>1. hitCounts \in [Tids -> Nat] /\ evictCounts \in [Tids -> Nat]
    BY SimtAssumption DEF IInv, TypeOK
  <2>2. /\ \A p \in HitAt \cap Chunk(t, SlotCount) : hitSlots'[RankIn(HitAt, p)] = lru[p]
        /\ \A p \in HitAt \ Chunk(t, SlotCount) :
             hitSlots'[RankIn(HitAt, p)] = hitSlots[RankIn(HitAt, p)]
    <3> DEFINE S == HitAt
               counts == hitCounts
               array == hitSlots
    <3>1. \A u \in Tids : counts[u] = Cardinality(S \cap Chunk(u, SlotCount))
      BY <1>11
    <3>2. S \in SUBSET Slots /\ t \in Tids /\ counts \in [Tids -> Nat]
      BY <1>8, <2>1
    <3> HIDE DEF CompactLru, S, counts, array
    <3>3. Compacts(S, counts, t, array)
      BY ONLY <3>1, <3>2, CompactedAt
    <3>4. hitSlots' = Compacted(hitSlots, HitAt \cap Chunk(t, SlotCount), Prefix(hitCounts, t))
      BY DEF CompactLru
    <3> QED
      BY <3>3, <3>4 DEF S, counts, array, Compacts
  <2>3. /\ \A p \in EvictableAt \cap Chunk(t, SlotCount) :
             evictableSlots'[RankIn(EvictableAt, p)] = lru[p]
        /\ \A p \in EvictableAt \ Chunk(t, SlotCount) :
             evictableSlots'[RankIn(EvictableAt, p)] = evictableSlots[RankIn(EvictableAt, p)]
    <3> DEFINE S == EvictableAt
               counts == evictCounts
               array == evictableSlots
    <3>1. \A u \in Tids : counts[u] = Cardinality(S \cap Chunk(u, SlotCount))
      BY <1>11
    <3>2. S \in SUBSET Slots /\ t \in Tids /\ counts \in [Tids -> Nat]
      BY <1>8, <2>1
    <3> HIDE DEF CompactLru, S, counts, array
    <3>3. Compacts(S, counts, t, array)
      BY ONLY <3>1, <3>2, CompactedAt
    <3>4. evictableSlots' = Compacted(evictableSlots, EvictableAt \cap Chunk(t, SlotCount), Prefix(evictCounts, t))
      BY DEF CompactLru
    <3> QED
      BY <3>3, <3>4 DEF S, counts, array, Compacts
  <2>4. ASSUME NEW u \in Tids, phase'[u] > Compact
        PROVE  /\ \A p \in HitAt \cap Chunk(u, SlotCount) :
                    hitSlots'[RankIn(HitAt, p)] = lru[p]
               /\ \A p \in EvictableAt \cap Chunk(u, SlotCount) :
                    evictableSlots'[RankIn(EvictableAt, p)] = lru[p]
    <3>1. CASE u = t
      BY <2>2, <2>3, <3>1
    <3>2. CASE u # t
      <4>1. phase[u] > Compact
        BY <1>4, <2>4, <3>2
      <4>2. \A p \in Chunk(u, SlotCount) : p \notin Chunk(t, SlotCount)
        BY <3>2, SimtAssumption, ChunksDisjoint
      <4> QED
        BY <1>10, <2>2, <2>3, <4>1, <4>2 DEF IInv, CompactInv
    <3> QED
      BY <3>1, <3>2
  <2> QED
    BY <1>8, <2>4 DEF CompactInv, tables, RankIn
<1>14. LruInv'
  BY <1>10 DEF IInv, LruInv, tables
<1> QED
  BY <1>4, <1>7, <1>9, <1>12, <1>13, <1>14 DEF IInv

LEMMA CountMissesStep ==
  ASSUME IInv, NEW t \in Tids, CountMisses(t)
  PROVE  IInv'
<1> USE DEF CountMisses
<1>1. op = "lookup" /\ phase[t] = Misses /\ Misses \in Clear .. Rewrite /\ Misses # Clear
  BY DEF In, Misses, Clear, Rewrite
<1>2. ~ claiming[t]
  BY <1>1 DEF IInv, ThreadInv, Misses, Lookup
<1>3. UNCHANGED <<op, claiming, query>>
  BY DEF host
<1>4. pos \in [Tids -> Nat] /\ \A u \in Tids : pos'[u] = IF u = t THEN 0 ELSE pos[u]
  BY DEF IInv, TypeOK
<1>5. /\ ThreadInv'
      /\ phase' \in [Tids -> Clear .. Done]
      /\ phase[t] = Misses /\ phase'[t] = Misses + 1
      /\ \A u \in Tids \ {t} : phase'[u] = phase[u]
      /\ \A u \in Tids : phase[u] \in Misses .. Misses + 1 /\ phase'[u] \in Misses .. Misses + 1
  BY <1>1, <1>2, <1>3, <1>4, PassThread
<1>6. \A u \in Tids : phase[u] \in Count .. Alloc /\ phase'[u] \in Count .. Alloc
  BY <1>5 DEF Count, Misses, Alloc
<1>7. \A p : Installed(p)' <=> Installed(p)
  <2> SUFFICES ASSUME NEW p, NEW u \in Tids, p \in Chunk(u, QueryCount)
               PROVE  (phase'[u] > Alloc \/ (phase'[u] = Alloc /\ p < pos'[u]))
                        <=> (phase[u] > Alloc \/ (phase[u] = Alloc /\ p < pos[u]))
    BY DEF Installed
  <2>1. CASE u = t
    <3>1. ~ p < 0
      BY DEF Chunk
    <3> QED
      BY <1>1, <1>4, <1>5, <2>1, <3>1 DEF Misses, Alloc
  <2>2. CASE u # t
    BY <1>4, <1>5, <2>2
  <2> QED
    BY <2>1, <2>2
<1>8. MapInv' /\ ClaimInv' /\ AnswerInv' /\ HitInv' /\ InstallInv' /\ PayloadInv'
  BY <1>6, <1>7, ScanFrame
<1>9. HitAt' = HitAt /\ EvictableAt' = EvictableAt /\ MissAt' = MissAt
  BY DEF HitAt, EvictableAt, MissAt, tables, outputs
<1>10. TypeOK'
  <2>1. MissAt \cap Chunk(t, QueryCount) \in SUBSET (0 .. QueryCount - 1)
    BY DEF MissAt, Positions
  <2>2. Cardinality(MissAt \cap Chunk(t, QueryCount)) \in 0 .. QueryCount
    BY <2>1, SimtAssumption, FiniteItems
  <2>3. missCounts' \in [Tids -> 0 .. QueryCount] /\ pos' \in [Tids -> Nat]
    BY <1>4, <2>2 DEF IInv, TypeOK
  <2> QED
    BY <1>5, <2>3 DEF IInv, TypeOK, tables, outputs, host
<1>11. Frozen /\ \A u \in Tids : /\ ~ phase'[u] > Rewrite
                                 /\ phase[u] > Count /\ phase[u] > Compact
  BY <1>1, <1>5 DEF Frozen, Count, Compact, Misses, Rewrite
<1>12. CountInv'
  <2>1. \A u \in Tids : /\ hitCounts[u] = Cardinality(HitAt \cap Chunk(u, SlotCount))
                        /\ evictCounts[u] = Cardinality(EvictableAt \cap Chunk(u, SlotCount))
    BY <1>11 DEF IInv, CountInv
  <2>2. ASSUME NEW u \in Tids, phase'[u] > Misses
        PROVE  missCounts'[u] = Cardinality(MissAt \cap Chunk(u, QueryCount))
    <3>1. CASE u = t
      BY <3>1 DEF IInv, TypeOK
    <3>2. CASE u # t
      <4>1. phase[u] > Misses
        BY <1>5, <2>2, <3>2
      <4> QED
        BY <3>2, <4>1 DEF IInv, TypeOK, CountInv
    <3> QED
      BY <3>1, <3>2
  <2> QED
    BY <1>9, <2>1, <2>2 DEF CountInv
<1>13. CompactInv'
  BY <1>9, <1>11 DEF IInv, CompactInv, RankIn, tables
<1>14. LruInv'
  BY <1>11 DEF IInv, LruInv, tables
<1> QED
  BY <1>5, <1>8, <1>10, <1>12, <1>13, <1>14 DEF IInv

-----------------------------------------------------------------------------
(***************************************************************************)
(* Allocation.                                                              *)
(***************************************************************************)

\* While misses are installed all positions are looked and the lists ready.
LEMMA Allocating ==
  ASSUME IInv, NEW t \in Tids, In(t, Alloc)
  PROVE  /\ op = "lookup" /\ phase[t] = Alloc /\ Frozen
         /\ \A u \in Tids : phase[u] \in Alloc .. Rewrite
         /\ \A p \in Positions : Looked(p)
         /\ Lists
         /\ \A u \in Tids : \A p \in MissAt \cap Chunk(u, QueryCount) :
              MissRank(u, p) = RankIn(MissAt, p)
         /\ \A p \in MissAt : /\ RankIn(MissAt, p) \in Slots
                              /\ RankIn(MissAt, p) < EvictableCount
<1>1. op = "lookup" /\ phase[t] = Alloc
  BY DEF In
<1>2. \A u \in Tids : phase[u] = Alloc \/ phase[u] = Alloc + 1
  BY Together DEF IInv
<1>3. \A u \in Tids : /\ phase[u] \in Alloc .. Rewrite /\ phase[u] > Lookup
                      /\ phase[u] > Misses /\ phase[u] > Compact /\ phase[u] <= Rewrite
  BY <1>2 DEF Alloc, Rewrite, Lookup, Misses, Compact
<1>4. Frozen
  BY <1>1, <1>3 DEF Frozen
<1>5. \A p \in Positions : Looked(p)
  BY <1>3, AllLooked
<1>6. Lists
  BY <1>1, <1>3, ListsReady
<1>7. /\ Cardinality(MissAt) \in 0 .. QueryCount
      /\ \A u \in Tids : \A p \in MissAt \cap Chunk(u, QueryCount) :
           MissRank(u, p) = RankIn(MissAt, p)
  BY <1>3, MissesCounted DEF IInv
<1>8. ASSUME NEW p \in MissAt
      PROVE  RankIn(MissAt, p) \in Slots /\ RankIn(MissAt, p) < EvictableCount
  <2>1. QueryCount \in Nat /\ SlotCount \in Nat /\ MissAt \in SUBSET (0 .. QueryCount - 1)
    BY SimtAssumption DEF MissAt, Positions
  <2>2. RankIn(MissAt, p) \in 0 .. Cardinality(MissAt) - 1
    BY <2>1, RankRange
  <2>3. Cardinality(MissAt) <= EvictableCount /\ EvictableCount \in 0 .. SlotCount
    BY <1>6 DEF Lists
  <2> QED
    BY <1>7, <2>1, <2>2, <2>3 DEF Slots
<1> QED
  BY <1>1, <1>3, <1>4, <1>5, <1>6, <1>7, <1>8

\* What an install replaces: the slot is an evictable one, no other miss has
\* it, and the token it is taken from is none of the batch.
LEMMA Victim ==
  ASSUME IInv, NEW t \in Tids, In(t, Alloc), NEW p \in MissesLeft(t),
         NEW victim, victim = evictableSlots[MissRank(t, p)]
  PROVE  /\ p \in MissAt /\ p \in Positions /\ ~ Installed(p)
         /\ query[p] \in Tokens /\ tokenToSlot[query[p]] = Claiming
         /\ victim = evictableSlots[RankIn(MissAt, p)]
         /\ victim \in Slots /\ ~ hitFlags[victim]
         /\ \A m \in MissAt : Installed(m) => slotIds[m] # victim
         /\ slotToToken[victim] # NotFound =>
              /\ tokenToSlot[slotToToken[victim]] = victim
              /\ \A q \in Positions : query[q] # slotToToken[victim]
<1>1. /\ phase[t] = Alloc
      /\ \A q \in Positions : Looked(q)
      /\ Lists
      /\ \A u \in Tids : \A q \in MissAt \cap Chunk(u, QueryCount) :
           MissRank(u, q) = RankIn(MissAt, q)
      /\ \A q \in MissAt : RankIn(MissAt, q) \in Slots /\ RankIn(MissAt, q) < EvictableCount
  BY Allocating
<1>2. /\ p \in MissAt /\ p \in Positions /\ p \in Chunk(t, QueryCount) /\ p >= pos[t]
  BY DEF MissesLeft, MissAt
<1>3. ~ Installed(p)
  <2> SUFFICES ASSUME Installed(p) PROVE FALSE
    OBVIOUS
  <2>1. PICK u \in Tids : /\ p \in Chunk(u, QueryCount)
                          /\ \/ phase[u] > Alloc
                             \/ phase[u] = Alloc /\ p < pos[u]
    BY DEF Installed
  <2>2. u = t
    BY <1>2, <2>1, SimtAssumption, ChunksDisjoint
  <2>3. pos[t] \in Int /\ p \in Int
    BY <1>2 DEF IInv, TypeOK, Positions
  <2> QED
    BY <1>1, <1>2, <2>1, <2>2, <2>3 DEF Alloc
<1>4. query[p] \in Tokens /\ tokenToSlot[query[p]] = Claiming
  BY <1>2, <1>3 DEF IInv, ClaimInv
<1>5. victim = evictableSlots[RankIn(MissAt, p)]
  BY <1>1, <1>2
<1>6. victim \in Slots /\ ~ hitFlags[victim]
  BY <1>1, <1>2, <1>5 DEF IInv, TypeOK, Lists
<1>7. ASSUME NEW m \in MissAt, Installed(m) PROVE slotIds[m] # victim
  <2> SUFFICES ASSUME slotIds[m] = victim PROVE FALSE
    OBVIOUS
  <2>1. evictableSlots[RankIn(MissAt, m)] = evictableSlots[RankIn(MissAt, p)]
    BY <1>5, <1>7 DEF IInv, InstallInv
  <2>2. RankIn(MissAt, m) = RankIn(MissAt, p)
    BY <1>1, <1>2, <2>1 DEF Lists
  <2>3. QueryCount \in Nat /\ MissAt \in SUBSET (0 .. QueryCount - 1)
    BY SimtAssumption DEF MissAt, Positions
  <2>4. m = p
    BY <1>2, <2>2, <2>3, RankInjective
  <2> QED
    BY <1>3, <1>7, <2>4
<1>8. ASSUME slotToToken[victim] # NotFound
      PROVE  /\ tokenToSlot[slotToToken[victim]] = victim
             /\ \A q \in Positions : query[q] # slotToToken[victim]
  <2> DEFINE k == slotToToken[victim]
  <2>1. k \in Tokens /\ tokenToSlot[k] = victim
    BY <1>6, <1>8 DEF IInv, TypeOK, Partial, MapInv
  <2> HIDE DEF k
  <2>2. victim # Claiming
    BY <1>6 DEF Slots, Claiming
  <2>3. ASSUME NEW q \in Positions, query[q] = k PROVE FALSE
    <3>1. PICK m \in MissAt : query[m] = k
      BY <1>1, <1>6, <2>1, <2>3 DEF IInv, HitInv
    <3>2. Installed(m)
      BY <2>1, <2>2, <3>1 DEF IInv, ClaimInv
    <3>3. slotIds[m] = victim
      BY <2>1, <3>1, <3>2 DEF IInv, InstallInv
    <3> QED
      BY <1>7, <3>2, <3>3
  <2> QED
    BY <2>1, <2>3 DEF k
<1> QED
  BY <1>2, <1>3, <1>4, <1>5, <1>6, <1>7, <1>8

\* The lists and counts while misses are installed.
LEMMA AllocFrame ==
  ASSUME IInv, op = "lookup", UNCHANGED <<lru, op, query, missMask, hitFlags, scans>>,
         \A u \in Tids : phase[u] \in Alloc .. Rewrite /\ phase'[u] \in Alloc .. Rewrite
  PROVE  CountInv' /\ CompactInv' /\ LruInv'
<1> USE DEF scans
<1>1. \A u \in Tids : /\ phase[u] > Count /\ phase[u] > Compact /\ phase[u] > Misses
                      /\ phase[u] <= Rewrite /\ ~ phase'[u] > Rewrite
  BY DEF Alloc, Rewrite, Count, Compact, Misses
<1>2. Frozen
  BY <1>1 DEF Frozen
<1>3. HitAt' = HitAt /\ EvictableAt' = EvictableAt /\ MissAt' = MissAt
  BY DEF HitAt, EvictableAt, MissAt
<1>4. CountInv'
  BY <1>1, <1>2, <1>3 DEF IInv, CountInv
<1>5. CompactInv'
  BY <1>1, <1>2, <1>3 DEF IInv, CompactInv, RankIn
<1>6. LruInv'
  BY <1>1, <1>2 DEF IInv, LruInv
<1> QED
  BY <1>4, <1>5, <1>6

\* The miss p takes the slot victim for its token k from token x.
Installs(p, victim, k, x) ==
  /\ query[p] = k /\ slotToToken[victim] = x
  /\ p \in MissAt /\ p \in Positions /\ ~ Installed(p)
  /\ k \in Tokens /\ tokenToSlot[k] = Claiming
  /\ victim = evictableSlots[RankIn(MissAt, p)]
  /\ victim \in Slots /\ ~ hitFlags[victim]
  /\ \A m \in MissAt : Installed(m) => slotIds[m] # victim
  /\ x # NotFound => tokenToSlot[x] = victim /\ \A q \in Positions : query[q] # x
  /\ \A u \in Tokens : tokenToSlot'[u] =
       IF u = k THEN victim ELSE IF u = x THEN NotFound ELSE tokenToSlot[u]
  /\ \A s \in Slots : slotToToken'[s] = IF s = victim THEN k ELSE slotToToken[s]
  /\ \A q \in Positions : slotIds'[q] = IF q = p THEN victim ELSE slotIds[q]
  /\ \A q \in MissAt : Installed(q)' <=> Installed(q) \/ q = p
  /\ tokenToSlot' \in [Tokens -> Slots \cup {NotFound, Claiming}]
  /\ slotToToken' \in [Slots -> Partial(Tokens)]
  /\ slotIds' \in [Positions -> Partial(Slots)]
  /\ pos' \in [Tids -> Nat]

LEMMA InstallEffect ==
  ASSUME IInv, NEW t \in Tids, Install(t)
  PROVE  \E p, victim, k, x : Installs(p, victim, k, x)
<1>1. PICK p \in MissesLeft(t) :
        LET victim == evictableSlots[MissRank(t, p)] IN
          /\ \A q \in MissesLeft(t) : p <= q
          /\ tokenToSlot' = Rebound(query[p], victim)
          /\ slotToToken' = [slotToToken EXCEPT ![victim] = query[p]]
          /\ slotIds' = [slotIds EXCEPT ![p] = victim]
          /\ pos' = [pos EXCEPT ![t] = p + 1]
  BY DEF Install
<1> DEFINE victim == evictableSlots[MissRank(t, p)]
           k == query[p]
           x == slotToToken[victim]
<1>2. /\ \A q \in MissesLeft(t) : p <= q
      /\ tokenToSlot' = Rebound(k, victim)
      /\ slotToToken' = [slotToToken EXCEPT ![victim] = k]
      /\ slotIds' = [slotIds EXCEPT ![p] = victim]
      /\ pos' = [pos EXCEPT ![t] = p + 1]
      /\ UNCHANGED <<lru, missMask, host, phase, claiming, hitFlags, scans>>
  BY <1>1 DEF Install
<1>3. In(t, Alloc)
  BY DEF Install
<1>4. /\ op = "lookup" /\ phase[t] = Alloc /\ Frozen
      /\ \A u \in Tids : phase[u] \in Alloc .. Rewrite
      /\ \A q \in Positions : Looked(q)
  BY <1>3, Allocating
<1>5. /\ p \in MissAt /\ p \in Positions /\ ~ Installed(p)
      /\ k \in Tokens /\ tokenToSlot[k] = Claiming
      /\ victim = evictableSlots[RankIn(MissAt, p)]
      /\ victim \in Slots /\ ~ hitFlags[victim]
      /\ \A m \in MissAt : Installed(m) => slotIds[m] # victim
      /\ x # NotFound => tokenToSlot[x] = victim /\ \A q \in Positions : query[q] # x
  BY <1>3, Victim
<1> HIDE DEF victim, k, x
<1>6. query[p] = k /\ slotToToken[victim] = x
  BY DEF k, x
<1>7. Claiming \notin Slots /\ NotFound \notin Slots /\ NotFound # Claiming /\ NotFound \notin Tokens
  BY DEF Claiming, NotFound, Slots, Tokens
<1>8. \A u \in Tokens : tokenToSlot'[u] =
        IF u = k THEN victim ELSE IF u = x THEN NotFound ELSE tokenToSlot[u]
  BY <1>2, <1>6 DEF Rebound
<1>9. \A s \in Slots : slotToToken'[s] = IF s = victim THEN k ELSE slotToToken[s]
  BY <1>2 DEF IInv, TypeOK
<1>10. \A q \in Positions : slotIds'[q] = IF q = p THEN victim ELSE slotIds[q]
  BY <1>2 DEF IInv, TypeOK
<1>11. \A u \in Tids : pos'[u] = IF u = t THEN p + 1 ELSE pos[u]
  BY <1>2 DEF IInv, TypeOK
<1>12. UNCHANGED <<lru, missMask, query, payload, op, phase, claiming, hitFlags,
                   hitSlots, evictableSlots, hitCounts, evictCounts, missCounts>>
  BY <1>2 DEF host, scans
<1>13. MissAt' = MissAt /\ MissAt \subseteq Positions
  BY <1>12 DEF MissAt
<1>14. p \in Nat /\ p \in Chunk(t, QueryCount) /\ p >= pos[t] /\ pos \in [Tids -> Nat]
  BY <1>5 DEF Positions, MissesLeft, IInv, TypeOK
<1>15. ASSUME NEW q \in MissAt PROVE Installed(q)' <=> Installed(q) \/ q = p
  <2> DEFINE Past(u) == phase[u] > Alloc \/ (phase[u] = Alloc /\ q < pos[u])
             PastNow(u) == phase[u] > Alloc \/ (phase[u] = Alloc /\ q < pos'[u])
  <2>1. q \in Nat /\ q \in Positions
    BY <1>13 DEF Positions
  <2>2. PICK u \in Tids : q \in Chunk(u, QueryCount)
    BY <2>1, SimtAssumption, ChunkOf DEF Positions
  <2>3. \A v \in Tids : q \in Chunk(v, QueryCount) => v = u
    BY <2>2, SimtAssumption, ChunksDisjoint
  <2>4. (Installed(q) <=> Past(u)) /\ (Installed(q)' <=> PastNow(u))
    BY <1>12, <2>2, <2>3 DEF Installed
  <2>5. CASE u # t
    <3>1. Past(u) <=> PastNow(u)
      BY <1>11, <2>5
    <3>2. q # p
      BY <1>14, <2>3, <2>5
    <3> QED
      BY <2>4, <3>1, <3>2
  <2>6. CASE u = t
    <3>1. PastNow(u) <=> q < p + 1
      BY <1>4, <1>11, <2>6 DEF Alloc
    <3>2. Past(u) <=> q < pos[t]
      BY <1>4, <2>6 DEF Alloc
    <3>3. q >= pos[t] => p <= q
      BY <1>2, <2>2, <2>6 DEF MissesLeft
    <3> QED
      BY <1>14, <2>1, <2>4, <3>1, <3>2, <3>3
  <2> QED
    BY <2>5, <2>6
<1>16. tokenToSlot' \in [Tokens -> Slots \cup {NotFound, Claiming}]
  <2>1. tokenToSlot' = [u \in Tokens |-> tokenToSlot'[u]]
    BY <1>2 DEF Rebound
  <2> QED
    BY <1>5, <1>8, <2>1 DEF IInv, TypeOK
<1>17. /\ slotToToken' \in [Slots -> Partial(Tokens)]
       /\ slotIds' \in [Positions -> Partial(Slots)]
       /\ pos' \in [Tids -> Nat]
  BY <1>2, <1>5, <1>14 DEF IInv, TypeOK, Partial
<1> QED
  BY <1>5, <1>6, <1>8, <1>9, <1>10, <1>15, <1>16, <1>17 DEF Installs

LEMMA InstallStep ==
  ASSUME IInv, NEW t \in Tids, Install(t)
  PROVE  IInv'
<1>0. PICK p, victim, k, x : Installs(p, victim, k, x)
  BY InstallEffect
<1>1. /\ query[p] = k /\ slotToToken[victim] = x
      /\ p \in MissAt /\ p \in Positions /\ ~ Installed(p)
      /\ k \in Tokens /\ tokenToSlot[k] = Claiming
      /\ victim = evictableSlots[RankIn(MissAt, p)]
      /\ victim \in Slots /\ ~ hitFlags[victim]
      /\ \A m \in MissAt : Installed(m) => slotIds[m] # victim
      /\ x # NotFound => tokenToSlot[x] = victim /\ \A q \in Positions : query[q] # x
      /\ \A u \in Tokens : tokenToSlot'[u] =
           IF u = k THEN victim ELSE IF u = x THEN NotFound ELSE tokenToSlot[u]
      /\ \A s \in Slots : slotToToken'[s] = IF s = victim THEN k ELSE slotToToken[s]
      /\ \A q \in Positions : slotIds'[q] = IF q = p THEN victim ELSE slotIds[q]
      /\ \A q \in MissAt : Installed(q)' <=> Installed(q) \/ q = p
      /\ tokenToSlot' \in [Tokens -> Slots \cup {NotFound, Claiming}]
      /\ slotToToken' \in [Slots -> Partial(Tokens)]
      /\ slotIds' \in [Positions -> Partial(Slots)]
      /\ pos' \in [Tids -> Nat]
  BY <1>0 DEF Installs
<1>2. UNCHANGED <<lru, missMask, host, phase, claiming, hitFlags, scans>> /\ In(t, Alloc)
  BY DEF Install
<1>3. /\ op = "lookup" /\ phase[t] = Alloc /\ Frozen
      /\ \A u \in Tids : phase[u] \in Alloc .. Rewrite
      /\ \A q \in Positions : Looked(q)
  BY <1>2, Allocating
<1>4. /\ p \in MissAt /\ p \in Positions /\ ~ Installed(p)
      /\ k \in Tokens /\ tokenToSlot[k] = Claiming
      /\ victim = evictableSlots[RankIn(MissAt, p)]
      /\ victim \in Slots /\ ~ hitFlags[victim]
      /\ \A m \in MissAt : Installed(m) => slotIds[m] # victim
      /\ x # NotFound => tokenToSlot[x] = victim /\ \A q \in Positions : query[q] # x
  BY <1>1
<1>5. query[p] = k /\ slotToToken[victim] = x
  BY <1>1
<1>6. Claiming \notin Slots /\ NotFound \notin Slots /\ NotFound # Claiming /\ NotFound \notin Tokens
  BY DEF Claiming, NotFound, Slots, Tokens
<1>7. \A u \in Tokens : tokenToSlot'[u] =
        IF u = k THEN victim ELSE IF u = x THEN NotFound ELSE tokenToSlot[u]
  BY <1>1
<1>8. \A s \in Slots : slotToToken'[s] = IF s = victim THEN k ELSE slotToToken[s]
  BY <1>1
<1>9. \A q \in Positions : slotIds'[q] = IF q = p THEN victim ELSE slotIds[q]
  BY <1>1
<1>10. UNCHANGED <<lru, missMask, query, payload, op, phase, claiming, hitFlags,
                   hitSlots, evictableSlots, hitCounts, evictCounts, missCounts>>
  BY <1>2 DEF host, scans
<1>11. MissAt' = MissAt /\ MissAt \subseteq Positions
  BY <1>10 DEF MissAt
<1>12. \A q \in MissAt : Installed(q)' <=> Installed(q) \/ q = p
  BY <1>1
<1>13. \A q \in Positions : Looked(q)'
  BY <1>3, <1>10 DEF Looked, Alloc, Rewrite, Lookup
<1>14. \A q \in MissAt : q # p => query[q] # k
  BY <1>4, <1>5 DEF IInv, ClaimInv
<1>15. TypeOK'
  BY <1>1, <1>10 DEF IInv, TypeOK
<1>16. ThreadInv'
  <2>1. \A u \in Tids : phase[u] # Lookup /\ phase[u] # Clear
    BY <1>3 DEF Alloc, Rewrite, Lookup, Clear
  <2> QED
    BY <1>3, <1>10, <2>1 DEF IInv, ThreadInv
<1>17. MapInv'
  <2>1. ASSUME NEW u \in Tokens, tokenToSlot'[u] \in Slots
        PROVE  slotToToken'[tokenToSlot'[u]] = u
    <3>1. CASE u = k
      BY <1>4, <1>7, <1>8, <3>1
    <3>2. CASE u # k
      <4>1. u # x /\ tokenToSlot'[u] = tokenToSlot[u]
        BY <1>6, <1>7, <2>1, <3>2
      <4>2. slotToToken[tokenToSlot[u]] = u
        BY <2>1, <4>1 DEF IInv, MapInv
      <4>3. tokenToSlot[u] # victim
        BY <1>5, <4>1, <4>2
      <4> QED
        BY <1>8, <2>1, <4>1, <4>2, <4>3
    <3> QED
      BY <3>1, <3>2
  <2>2. ASSUME NEW s \in Slots, slotToToken'[s] # NotFound
        PROVE  tokenToSlot'[slotToToken'[s]] = s
    <3>1. CASE s = victim
      BY <1>4, <1>7, <1>8, <3>1
    <3>2. CASE s # victim
      <4>1. slotToToken'[s] = slotToToken[s] /\ tokenToSlot[slotToToken[s]] = s
        BY <1>8, <2>2, <3>2 DEF IInv, MapInv
      <4>2. slotToToken[s] \in Tokens
        BY <2>2, <4>1 DEF IInv, TypeOK, Partial
      <4>3. slotToToken[s] # k
        BY <1>4, <1>6, <4>1
      <4>4. slotToToken[s] # x
        BY <1>4, <1>6, <3>2, <4>1, <4>2
      <4> QED
        BY <1>7, <4>1, <4>2, <4>3, <4>4
    <3> QED
      BY <3>1, <3>2
  <2> QED
    BY <2>1, <2>2 DEF MapInv
<1>18. ClaimInv'
  <2>1. ASSUME NEW u \in Tokens, tokenToSlot'[u] = Claiming
        PROVE  \E q \in MissAt : ~ Installed(q)' /\ query[q] = u
    <3>1. u # k /\ tokenToSlot[u] = Claiming
      BY <1>4, <1>6, <1>7, <2>1
    <3>2. PICK q \in MissAt : ~ Installed(q) /\ query[q] = u
      BY <3>1 DEF IInv, ClaimInv
    <3> QED
      BY <1>5, <1>12, <3>1, <3>2
  <2>2. ASSUME NEW q \in MissAt, ~ Installed(q)'
        PROVE  tokenToSlot'[query[q]] = Claiming /\ slotIds'[q] = NotFound
    <3>1. q # p /\ ~ Installed(q)
      BY <1>12, <2>2
    <3>2. tokenToSlot[query[q]] = Claiming /\ slotIds[q] = NotFound /\ query[q] \in Tokens
      BY <3>1 DEF IInv, ClaimInv
    <3>3. query[q] # k
      BY <1>14, <3>1
    <3>4. query[q] # x
      BY <1>4, <1>6, <3>2
    <3> QED
      BY <1>7, <1>9, <1>11, <3>1, <3>2, <3>3, <3>4
  <2> QED
    BY <1>10, <1>11, <1>13, <2>1, <2>2 DEF IInv, ClaimInv
<1>19. \A q \in Positions : query[q] \in Tokens /\ query[q] # k =>
         tokenToSlot'[query[q]] = tokenToSlot[query[q]]
  BY <1>4, <1>6, <1>7
<1>20. AnswerInv'
  <2> SUFFICES ASSUME NEW q \in Positions
               PROVE  /\ query[q] \notin Tokens => slotIds'[q] = NotFound
                      /\ query[q] \in Tokens /\ slotIds'[q] # NotFound =>
                           slotIds'[q] = tokenToSlot'[query[q]]
    BY <1>10, <1>13 DEF AnswerInv
  <2>1. CASE q = p
    BY <1>4, <1>5, <1>7, <1>9, <2>1
  <2>2. CASE q # p
    <3>1. query[q] = k => slotIds[q] = NotFound
      <4> SUFFICES ASSUME query[q] = k, slotIds[q] # NotFound PROVE FALSE
        OBVIOUS
      <4>1. slotIds[q] = Claiming
        BY <1>4 DEF IInv, AnswerInv
      <4> QED
        BY <1>6, <4>1 DEF IInv, TypeOK, Partial
    <3> QED
      BY <1>9, <1>19, <2>2, <3>1 DEF IInv, AnswerInv
  <2> QED
    BY <2>1, <2>2
<1>21. HitInv'
  <2>1. ASSUME NEW q \in Positions, query[q] \in Tokens
        PROVE  \/ \E m \in MissAt : query[m] = query[q]
               \/ tokenToSlot'[query[q]] \in Slots /\ hitFlags[tokenToSlot'[query[q]]]
    <3>1. CASE query[q] = k
      BY <1>4, <1>5, <3>1
    <3>2. CASE query[q] # k
      BY <1>3, <1>19, <2>1, <3>2 DEF IInv, HitInv
    <3> QED
      BY <3>1, <3>2
  <2>2. ASSUME NEW s \in Slots, hitFlags[s], phase[s % Threads] > Clear
        PROVE  \E q \in Positions \ MissAt : query[q] \in Tokens /\ tokenToSlot'[query[q]] = s
    <3>1. PICK q \in Positions \ MissAt : query[q] \in Tokens /\ tokenToSlot[query[q]] = s
      BY <2>2 DEF IInv, HitInv
    <3>2. query[q] # k
      BY <1>4, <1>6, <3>1
    <3> QED
      BY <1>19, <3>1, <3>2
  <2> QED
    BY <1>10, <1>11, <2>1, <2>2 DEF HitInv
<1>22. InstallInv'
  <2> SUFFICES ASSUME NEW q \in MissAt, Installed(q)'
               PROVE  /\ slotIds'[q] = evictableSlots[RankIn(MissAt, q)]
                      /\ tokenToSlot'[query[q]] = slotIds'[q]
    BY <1>10, <1>11 DEF InstallInv, RankIn
  <2>1. CASE q = p
    BY <1>4, <1>5, <1>7, <1>9, <2>1
  <2>2. CASE q # p
    <3>1. Installed(q) /\ query[q] # k /\ query[q] \in Tokens
      BY <1>12, <1>14, <2>2 DEF IInv, ClaimInv
    <3> QED
      BY <1>9, <1>11, <1>19, <2>2, <3>1 DEF IInv, InstallInv
  <2> QED
    BY <2>1, <2>2
<1>23. CountInv' /\ CompactInv' /\ LruInv'
  <2>1. \A u \in Tids : phase[u] \in Alloc .. Rewrite /\ phase'[u] \in Alloc .. Rewrite
    BY <1>3, <1>10
  <2>2. UNCHANGED <<lru, op, query, missMask, hitFlags, scans>>
    BY <1>10 DEF scans
  <2> QED
    BY <1>3, <2>1, <2>2, AllocFrame
<1>24. PayloadInv'
  <2> SUFFICES ASSUME NEW s \in Slots, slotToToken'[s] # NotFound
               PROVE  \/ payload[s] = slotToToken'[s]
                      \/ op # "idle" /\ \E q \in MissAt : Installed(q)' /\ slotIds'[q] = s
    BY <1>10, <1>11 DEF PayloadInv
  <2>1. CASE s = victim
    BY <1>3, <1>4, <1>9, <1>12, <2>1
  <2>2. CASE s # victim
    <3>1. slotToToken'[s] = slotToToken[s]
      BY <1>8, <2>2
    <3>2. \A q \in MissAt : Installed(q) => q # p /\ slotIds'[q] = slotIds[q]
      BY <1>4, <1>9, <1>11
    <3> QED
      BY <1>12, <2>2, <3>1, <3>2 DEF IInv, PayloadInv
  <2> QED
    BY <2>1, <2>2
<1> QED
  BY <1>15, <1>16, <1>17, <1>18, <1>20, <1>21, <1>22, <1>23, <1>24 DEF IInv

LEMMA AllocEndStep ==
  ASSUME IInv, NEW t \in Tids, AllocEnd(t)
  PROVE  IInv'
<1> USE DEF AllocEnd, tables, outputs, host
<1>1. op = "lookup" /\ Alloc \in Clear .. Rewrite /\ Alloc # Clear
  BY DEF In, Alloc, Clear, Rewrite
<1>2. phase[t] = Alloc /\ ~ claiming[t]
  BY DEF In, IInv, ThreadInv, Alloc, Lookup
<1>3. /\ ThreadInv'
      /\ phase' \in [Tids -> Clear .. Done]
      /\ phase[t] = Alloc /\ phase'[t] = Alloc + 1
      /\ \A u \in Tids \ {t} : phase'[u] = phase[u]
      /\ \A u \in Tids : phase[u] \in Alloc .. Alloc + 1 /\ phase'[u] \in Alloc .. Alloc + 1
  BY <1>1, <1>2, PassThread
<1>4. \A u \in Tids : /\ phase[u] \in Alloc .. Rewrite /\ phase'[u] \in Alloc .. Rewrite
                      /\ phase[u] > Lookup /\ phase'[u] > Lookup /\ phase[u] > Clear
  BY <1>3 DEF Alloc, Rewrite, Lookup, Clear
<1>5. TypeOK'
  BY <1>3 DEF IInv, TypeOK, scans
<1>6. \A p : Looked(p)' <=> Looked(p)
  BY <1>4 DEF Looked
<1>7. ASSUME NEW p \in MissAt PROVE Installed(p)' <=> Installed(p)
  <2>1. ASSUME p \in Chunk(t, QueryCount) PROVE p < pos[t]
    <3>1. pos[t] \in Nat
      BY DEF IInv, TypeOK
    <3>2. QueryCount \in Nat /\ p \in 0 .. QueryCount - 1
      BY <1>7, SimtAssumption DEF MissAt, Positions
    <3>3. ~ (p >= pos[t])
      BY <1>7, <2>1 DEF MissesLeft
    <3> QED
      BY <3>1, <3>2, <3>3
  <2>2. phase'[t] > Alloc /\ pos' = pos
    BY <1>3 DEF Alloc
  <2> QED
    BY <1>3, <2>1, <2>2 DEF Installed
<1>8. MapInv' /\ ClaimInv' /\ AnswerInv' /\ InstallInv' /\ PayloadInv'
  BY <1>6, <1>7, BatchFrame DEF scans
<1>9. HitInv'
  <2>1. MissAt' = MissAt
    BY DEF MissAt
  <2>2. \A s \in Slots : s % Threads \in Tids
    BY SimtAssumption, StrideOf DEF Slots
  <2> QED
    BY <1>4, <1>6, <2>1, <2>2 DEF IInv, HitInv
<1>10. CountInv' /\ CompactInv' /\ LruInv'
  BY <1>1, <1>4, AllocFrame
<1> QED
  BY <1>3, <1>5, <1>8, <1>9, <1>10 DEF IInv

-----------------------------------------------------------------------------
(***************************************************************************)
(* The rewriting of lru and the last answers.                               *)
(***************************************************************************)

\* When every miss is installed every token of the batch has a slot.
LEMMA Resolved ==
  ASSUME IInv, \A u \in Tids : phase[u] > Alloc, op = "lookup"
  PROVE  /\ \A p \in MissAt : Installed(p) /\ slotIds[p] \in Slots
         /\ \A p \in Positions : query[p] \in Tokens => tokenToSlot[query[p]] \in Slots
<1>1. \A u \in Tids : phase[u] > Lookup /\ phase[u] > Misses /\ phase[u] > Compact
  BY DEF IInv, TypeOK, Alloc, Lookup, Misses, Compact, Clear, Done
<1>2. Lists
  BY <1>1, ListsReady
<1>3. Cardinality(MissAt) \in 0 .. QueryCount
  BY <1>1, MissesCounted DEF IInv
<1>4. ASSUME NEW p \in MissAt
      PROVE  Installed(p) /\ slotIds[p] \in Slots /\ tokenToSlot[query[p]] \in Slots
  <2>1. QueryCount \in Nat /\ SlotCount \in Nat /\ MissAt \in SUBSET (0 .. QueryCount - 1)
    BY SimtAssumption DEF MissAt, Positions
  <2>2. RankIn(MissAt, p) \in 0 .. Cardinality(MissAt) - 1
    BY <2>1, RankRange
  <2>3. RankIn(MissAt, p) \in Slots
    BY <1>2, <1>3, <2>1, <2>2 DEF Lists, Slots
  <2>4. Installed(p)
    BY AllInstalled DEF MissAt
  <2> QED
    BY <2>3, <2>4 DEF IInv, InstallInv, TypeOK
<1>5. ASSUME NEW p \in Positions, query[p] \in Tokens
      PROVE  tokenToSlot[query[p]] \in Slots
  <2>1. Looked(p)
    BY <1>1, AllLooked
  <2> QED
    BY <1>4, <1>5, <2>1 DEF IInv, HitInv
<1> QED
  BY <1>4, <1>5

LEMMA RewriteLruStep ==
  ASSUME IInv, NEW t \in Tids, RewriteLru(t)
  PROVE  IInv'
<1> USE DEF RewriteLru
<1>1. op = "lookup" /\ phase[t] = Rewrite /\ Rewrite \in Clear .. Rewrite /\ Rewrite # Clear
  BY DEF In, Clear, Rewrite
<1>2. ~ claiming[t]
  BY <1>1 DEF IInv, ThreadInv, Rewrite, Lookup
<1>3. UNCHANGED <<op, claiming, query, pos, payload>>
  BY DEF host
<1>4. /\ ThreadInv'
      /\ phase' \in [Tids -> Clear .. Done]
      /\ phase[t] = Rewrite /\ phase'[t] = Rewrite + 1
      /\ \A u \in Tids \ {t} : phase'[u] = phase[u]
      /\ \A u \in Tids : phase[u] \in Rewrite .. Rewrite + 1 /\ phase'[u] \in Rewrite .. Rewrite + 1
  BY <1>1, <1>2, <1>3, PassThread
<1>5. \A u \in Tids : /\ phase[u] > Clear /\ phase[u] > Lookup /\ phase[u] > Compact
                      /\ phase[u] > Misses /\ phase[u] > Alloc
                      /\ phase'[u] > Lookup /\ phase'[u] > Alloc
  BY <1>4 DEF Clear, Lookup, Compact, Misses, Alloc, Rewrite
<1>6. /\ \A p \in MissAt : Installed(p) /\ slotIds[p] \in Slots
      /\ \A p \in Positions : query[p] \in Tokens => tokenToSlot[query[p]] \in Slots
  BY <1>1, <1>5, Resolved
<1>7. \A p : /\ Looked(p)' <=> Looked(p)
             /\ Installed(p)' <=> Installed(p)
  BY <1>5 DEF Looked, Installed
<1>8. MissAt' = MissAt /\ MissAt \subseteq Positions
  BY DEF MissAt
<1>9. NotFound \notin Slots /\ NotFound \notin Tokens
  BY DEF NotFound, Slots, Tokens
<1>10. \A p \in Positions : slotIds'[p] =
         IF p \in Strided(t, QueryCount) /\ slotIds[p] = NotFound /\ query[p] \in Tokens
         THEN tokenToSlot[query[p]] ELSE slotIds[p]
  OBVIOUS
<1>11. \A p \in MissAt : slotIds'[p] = slotIds[p]
  BY <1>6, <1>8, <1>9, <1>10
<1>12. \A p \in Positions : Looked(p)
  BY <1>5, AllLooked
<1>13. Lists
  BY <1>1, <1>5, ListsReady
<1>14. MissCount = Cardinality(MissAt) /\ MissCount \in Nat
  BY <1>5, MissesCounted, SimtAssumption DEF IInv
<1>15. \A p \in Slots : NewLru(p) \in Slots
  BY <1>13, <1>14, NewOrder DEF IInv
<1>16. TypeOK'
  <2>1. lru' \in [Slots -> Slots]
    BY <1>15 DEF IInv, TypeOK
  <2>2. slotIds' \in [Positions -> Partial(Slots)]
    <3>1. slotIds' = [p \in Positions |-> slotIds'[p]]
      OBVIOUS
    <3> QED
      BY <1>6, <1>10, <3>1 DEF IInv, TypeOK, Partial
  <2> QED
    BY <1>3, <1>4, <2>1, <2>2 DEF IInv, TypeOK, scans
<1>17. MapInv' /\ InstallInv'
  BY <1>7, <1>8, <1>11 DEF IInv, MapInv, InstallInv, RankIn, scans, host
<1>18. ClaimInv'
  BY <1>3, <1>6, <1>7, <1>8 DEF IInv, ClaimInv
<1>19. AnswerInv'
  BY <1>3, <1>7, <1>10, <1>12 DEF IInv, AnswerInv
<1>20. HitInv'
  <2>1. \A s \in Slots : s % Threads \in Tids
    BY SimtAssumption, StrideOf DEF Slots
  <2> QED
    BY <1>3, <1>5, <1>7, <1>8, <2>1 DEF IInv, HitInv
<1>21. ~ Frozen' /\ op' = "lookup"
  BY <1>1, <1>3, <1>4 DEF Frozen, Rewrite
<1>22. CountInv' /\ CompactInv'
  BY <1>5, <1>8, <1>21 DEF IInv, CountInv, CompactInv, scans
<1>23. LruInv'
  <2>1. Lists'
    <3>1. EvictableCount' = EvictableCount
      BY DEF EvictableCount, Prefix, scans
    <3> QED
      BY <1>8, <1>13, <3>1 DEF Lists, scans
  <2>2. \A p : NewLru(p)' = NewLru(p)
    <3>1. /\ EvictableCount' = EvictableCount /\ MissCount' = MissCount
          /\ hitSlots' = hitSlots /\ evictableSlots' = evictableSlots
      BY DEF EvictableCount, MissCount, Prefix, scans
    <3> QED
      BY <3>1 DEF NewLru, StaleCount
  <2>3. ASSUME NEW u \in Tids, phase'[u] > Rewrite
        PROVE  \A p \in Strided(u, SlotCount) : lru'[p] = NewLru(p)
    <3>1. \A p \in Strided(u, SlotCount) : p \in Slots /\ (p \in Strided(t, SlotCount) <=> u = t)
      BY DEF Strided, Slots
    <3>2. CASE u = t
      BY <3>1, <3>2
    <3>3. CASE u # t
      <4>1. phase[u] > Rewrite
        BY <1>4, <2>3, <3>3
      <4> QED
        BY <1>1, <3>1, <3>3, <4>1 DEF IInv, LruInv
    <3> QED
      BY <3>2, <3>3
  <2>4. ASSUME NEW u \in Tids, phase'[u] > Rewrite,
               NEW p \in Strided(u, QueryCount), query[p] \in Tokens
        PROVE  slotIds'[p] \in Slots
    <3>1. p \in Positions
      BY DEF Strided, Positions
    <3>2. CASE u = t
      BY <1>6, <1>10, <2>4, <3>1, <3>2 DEF IInv, TypeOK, Partial
    <3>3. CASE u # t
      <4>1. phase[u] > Rewrite
        BY <1>4, <2>4, <3>3
      <4>2. slotIds[p] \in Slots
        BY <2>4, <4>1 DEF IInv, LruInv
      <4> QED
        BY <1>9, <1>10, <3>1, <4>2
    <3> QED
      BY <3>2, <3>3
  <2> QED
    BY <1>3, <1>21, <2>1, <2>2, <2>3, <2>4 DEF LruInv
<1>24. PayloadInv'
  <2> SUFFICES ASSUME NEW s \in Slots, slotToToken[s] # NotFound
               PROVE  \/ payload[s] = slotToToken[s]
                      \/ op # "idle" /\ \E p \in MissAt : Installed(p)' /\ slotIds'[p] = s
    BY <1>3, <1>8 DEF PayloadInv
  <2>1. CASE payload[s] = slotToToken[s]
    BY <2>1
  <2>2. CASE payload[s] # slotToToken[s]
    <3>1. PICK p \in MissAt : Installed(p) /\ slotIds[p] = s
      BY <2>2 DEF IInv, PayloadInv
    <3> QED
      BY <1>1, <1>7, <1>11, <3>1
  <2> QED
    BY <2>1, <2>2
<1> QED
  BY <1>4, <1>16, <1>17, <1>18, <1>19, <1>20, <1>22, <1>23, <1>24 DEF IInv

-----------------------------------------------------------------------------
(***************************************************************************)
(* The theorems.                                                            *)
(***************************************************************************)

LEMMA StepKeeps == IInv /\ [Next]_vars => IInv'
<1> SUFFICES ASSUME IInv, [Next]_vars PROVE IInv'
  OBVIOUS
<1>1. CASE UNCHANGED vars
  <2> USE <1>1 DEF vars, tables, outputs, host, scans
  <2>1. TypeOK' /\ ThreadInv' /\ MapInv'
    BY DEF IInv, TypeOK, ThreadInv, MapInv
  <2>2. /\ MissAt' = MissAt /\ HitAt' = HitAt /\ EvictableAt' = EvictableAt
        /\ Frozen' = Frozen
    BY DEF MissAt, HitAt, EvictableAt, Frozen
  <2>3. \A p : /\ Looked(p)' <=> Looked(p)
               /\ Installed(p)' <=> Installed(p)
    BY DEF Looked, Installed
  <2>4. ClaimInv' /\ AnswerInv' /\ HitInv' /\ PayloadInv'
    BY <2>2, <2>3 DEF IInv, ClaimInv, AnswerInv, HitInv, PayloadInv
  <2>5. InstallInv' /\ CountInv' /\ CompactInv'
    BY <2>2, <2>3 DEF IInv, InstallInv, CountInv, CompactInv, RankIn
  <2>6. EvictableCount' = EvictableCount /\ MissCount' = MissCount
    BY DEF EvictableCount, MissCount, Prefix
  <2>7. Lists' = Lists /\ \A p : NewLru(p)' = NewLru(p)
    BY <2>2, <2>6 DEF Lists, NewLru, StaleCount
  <2>8. LruInv'
    BY <2>2, <2>7 DEF IInv, LruInv
  <2> QED
    BY <2>1, <2>4, <2>5, <2>8 DEF IInv
<1>2. ASSUME NEW q \in Workload, Launch(q) PROVE IInv'
  BY <1>2, LaunchStep
<1>3. CASE HostSync
  BY <1>3, HostSyncStep
<1>4. CASE LoadMisses
  BY <1>4, LoadMissesStep
<1>5. ASSUME NEW t \in Tids, ThreadStep(t) PROVE IInv'
  BY <1>5, ClearFlagsStep, LookupPaddingStep, LookupHitStep, LookupClaimedStep,
     LookupMissStep, ClaimStep, LookupEndStep, CountHitsStep, CompactLruStep,
     CountMissesStep, InstallStep, AllocEndStep, RewriteLruStep DEF ThreadStep
<1> QED
  BY <1>1, <1>2, <1>3, <1>4, <1>5 DEF Next

\* The invariant holds of every reachable state.
THEOREM Invariant == Spec => []IInv
BY InitEstablishes, StepKeeps, PTL DEF Spec

\* The tables, the outputs, the workspace and the threads keep their types: a
\* slot or a token read from any of them indexes the arrays within bounds.
THEOREM TypeCorrect == Spec => []TypeOK
<1>1. IInv => TypeOK
  BY DEF IInv
<1> QED
  BY <1>1, Invariant, PTL

\* Every launch leaves the state that the next one must find.
THEOREM EntryState == Spec => []EntryStateRestored
<1>1. IInv => EntryStateRestored
  <2> SUFFICES ASSUME IInv, op # "lookup"
               PROVE  /\ \A k \in Tokens : tokenToSlot[k] # NotFound =>
                           tokenToSlot[k] \in Slots /\ slotToToken[tokenToSlot[k]] = k
                      /\ \A s \in Slots : slotToToken[s] # NotFound =>
                           tokenToSlot[slotToToken[s]] = s
                      /\ \A p, q \in Slots : lru[p] = lru[q] => p = q
    BY DEF EntryStateRestored
  <2>1. \A t \in Tids : phase[t] > Alloc
    BY DEF IInv, ThreadInv, Done, Alloc
  <2>2. \A k \in Tokens : tokenToSlot[k] # Claiming
    BY <2>1, Finished
  <2>3. \A k \in Tokens : tokenToSlot[k] # NotFound => tokenToSlot[k] \in Slots
    BY <2>2 DEF IInv, TypeOK
  <2> QED
    BY <2>3 DEF IInv, MapInv, LruInv
<1> QED
  BY <1>1, Invariant, PTL

\* What miss_mask makes the caller load is complete and not repeated.
THEOREM MissIo == Spec => []MissIoExact
<1>1. IInv => MissIoExact
  <2> SUFFICES ASSUME IInv PROVE MissIoExact
    OBVIOUS
  <2>1. op = "idle" => \A s \in Slots : slotToToken[s] # NotFound =>
                                          payload[s] = slotToToken[s]
    BY DEF IInv, PayloadInv
  <2>2. ASSUME op # "lookup", NEW p \in Positions, query[p] \in Tokens
        PROVE  slotIds[p] # NotFound /\ slotToToken[slotIds[p]] = query[p]
    <3>1. \A t \in Tids : phase[t] > Rewrite
      BY <2>2 DEF IInv, ThreadInv, Done, Rewrite
    <3>2. p % Threads \in Tids /\ p \in Strided(p % Threads, QueryCount)
      <4>1. QueryCount \in Nat /\ p \in 0 .. QueryCount - 1
        BY SimtAssumption DEF Positions
      <4> QED
        BY <4>1, StrideOf
    <3>3. slotIds[p] \in Slots
      BY <2>2, <3>1, <3>2 DEF IInv, LruInv
    <3>4. slotIds[p] # NotFound
      BY <3>3 DEF Slots, NotFound
    <3>5. slotIds[p] = tokenToSlot[query[p]]
      BY <2>2, <3>4 DEF IInv, AnswerInv
    <3> QED
      BY <2>2, <3>3, <3>4, <3>5 DEF IInv, MapInv
  <2>3. ASSUME NEW p \in Positions, query[p] \notin Tokens
        PROVE  slotIds[p] = NotFound /\ ~ missMask[p]
    BY <2>3 DEF IInv, AnswerInv, ClaimInv, MissAt
  <2>4. \A p, q \in Positions : missMask[p] /\ missMask[q] /\ query[p] = query[q] => p = q
    BY DEF IInv, ClaimInv, MissAt
  <2> QED
    BY <2>1, <2>2, <2>3, <2>4 DEF MissIoExact
<1> QED
  BY <1>1, Invariant, PTL

\* miss_rank, which the code does not check, names one of the evictable slots.
THEOREM RanksInRange == Spec => []VictimInRange
<1>1. IInv => VictimInRange
  <2> SUFFICES ASSUME IInv, NEW t \in Tids, In(t, Alloc), NEW p \in MissesLeft(t)
               PROVE  MissRank(t, p) < EvictableCount
    BY DEF VictimInRange
  <2>1. p \in MissAt \cap Chunk(t, QueryCount)
    BY DEF MissesLeft
  <2> QED
    BY <2>1, Allocating
<1> QED
  BY <1>1, Invariant, PTL

\* No miss takes the slot of a hit, or of a miss that was installed before.
THEOREM BatchKept == Spec => BatchNeverEvicted
<1> DEFINE Kept == op = "lookup" => \A p \in Positions :
                     query[p] \in Tokens /\ tokenToSlot[query[p]] >= 0 =>
                       tokenToSlot'[query[p]] = tokenToSlot[query[p]]
<1>1. IInv /\ [Next]_vars => [Kept]_vars
  <2> SUFFICES ASSUME IInv, Next, op = "lookup",
                      NEW p \in Positions, query[p] \in Tokens, tokenToSlot[query[p]] >= 0
               PROVE  tokenToSlot'[query[p]] = tokenToSlot[query[p]]
    OBVIOUS
  <2>1. CASE UNCHANGED tokenToSlot
    BY <2>1
  <2>2. ASSUME NEW t \in Tids, Claim(t)
        PROVE  tokenToSlot'[query[p]] = tokenToSlot[query[p]]
    BY <2>2 DEF Claim, QueryToken, IInv, TypeOK, NotFound
  <2>3. ASSUME NEW t \in Tids, Install(t)
        PROVE  tokenToSlot'[query[p]] = tokenToSlot[query[p]]
    <3>1. PICK m \in MissesLeft(t) :
            tokenToSlot' = Rebound(query[m], evictableSlots[MissRank(t, m)])
      BY <2>3 DEF Install
    <3> DEFINE victim == evictableSlots[MissRank(t, m)]
    <3>2. /\ tokenToSlot[query[m]] = Claiming
          /\ slotToToken[victim] # NotFound =>
               \A q \in Positions : query[q] # slotToToken[victim]
      BY <2>3, Victim DEF Install
    <3>3. query[p] # query[m]
      BY <3>2 DEF Claiming
    <3>4. query[p] # slotToToken[victim]
      BY <3>2 DEF NotFound, Tokens
    <3> HIDE DEF victim
    <3>5. tokenToSlot' = Rebound(query[m], victim)
      BY <3>1 DEF victim
    <3> QED
      BY <3>3, <3>4, <3>5 DEF Rebound
  <2> QED
    BY <2>1, <2>2, <2>3
    DEF Next, Launch, HostSync, LoadMisses, ThreadStep, ClearFlags, LookupPadding,
        LookupHit, LookupClaimed, LookupMiss, LookupEnd, CountHits, CompactLru,
        CountMisses, AllocEnd, RewriteLru, tables
<1> QED
  BY <1>1, Invariant, PTL DEF Spec, BatchNeverEvicted

-----------------------------------------------------------------------------
(***************************************************************************)
(* The kernel implements BatchLru.                                          *)
(*                                                                          *)
(* While it runs, HistoryInv relates the state to the one at its launch:    *)
(* which tokens the batch has in common with it, which slots have changed   *)
(* hands, and where the launch's LRU order is in the two lists.             *)
(***************************************************************************)

OldPlace == prior[1][1]
OldKey == prior[1][2]
OldLru == prior[1][3]

\* The launch's LRU positions whose slot has been hit, and the others.
OldHitAt == {p \in Slots : hitFlags[OldLru[p]]}
OldEvictableAt == Slots \ OldHitAt

\* The missing tokens had no slot; the other tokens of the batch keep theirs.
AskedInv ==
  /\ \A m \in MissAt : OldPlace[query[m]] = NotFound
  /\ \A p \in Positions : query[p] \in Tokens =>
       \/ \E m \in MissAt : query[m] = query[p]
       \/ tokenToSlot[query[p]] = OldPlace[query[p]]

\* A slot no miss was given holds its old token.
KeyInv ==
  \A s \in Slots : \/ \E m \in MissAt : Installed(m) /\ slotIds[m] = s
                   \/ slotToToken[s] = OldKey[s]

\* The old order, in lru and then in the lists.
OrderInv ==
  /\ Frozen => lru = OldLru
  /\ ~ Frozen =>
       /\ EvictableCount = Cardinality(OldEvictableAt)
       /\ \A p \in OldHitAt : hitSlots[RankIn(OldHitAt, p)] = OldLru[p]
       /\ \A p \in OldEvictableAt : evictableSlots[RankIn(OldEvictableAt, p)] = OldLru[p]

HistoryInv ==
  op = "lookup" =>
    /\ OldPlace \in [Tokens -> Partial(Slots)]
    /\ OldKey \in [Slots -> Partial(Tokens)]
    /\ OldLru \in [Slots -> Slots]
    /\ AskedInv /\ KeyInv /\ OrderInv
-----------------------------------------------------------------------------
(***************************************************************************)
(* The launch.                                                              *)
(***************************************************************************)

LEMMA LaunchHistory ==
  ASSUME IInv, NEW q \in Workload, Launch(q), prior' = <<tables, outputs>>
  PROVE  HistoryInv'
<1> USE DEF tables, outputs
<1>1. /\ OldPlace' = tokenToSlot' /\ OldKey' = slotToToken' /\ OldLru' = lru'
      /\ UNCHANGED <<tokenToSlot, slotToToken, lru>>
  BY DEF Launch, OldPlace, OldKey, OldLru
<1>2. OldPlace' \in [Tokens -> Partial(Slots)]
  <2>1. \A t \in Tids : phase[t] > Alloc
    BY DEF IInv, ThreadInv, Launch, Done, Alloc
  <2>2. \A k \in Tokens : tokenToSlot[k] # Claiming
    BY <2>1, Finished
  <2> QED
    BY <1>1, <2>2 DEF IInv, TypeOK, Partial
<1>3. OldKey' \in [Slots -> Partial(Tokens)] /\ OldLru' \in [Slots -> Slots]
  BY <1>1 DEF IInv, TypeOK
<1>4. Frozen'
  BY DEF Launch, Frozen, Clear, Rewrite
<1>5. MissAt' = {}
  BY DEF Launch, MissAt
<1>6. AskedInv'
  BY <1>1, <1>5 DEF AskedInv
<1>7. KeyInv' /\ OrderInv'
  BY <1>1, <1>4 DEF KeyInv, OrderInv
<1> QED
  BY <1>2, <1>3, <1>6, <1>7 DEF HistoryInv

-----------------------------------------------------------------------------
(***************************************************************************)
(* The threads' steps.                                                      *)
(***************************************************************************)

\* Before the rewriting nobody touches lru.
LEMMA StillFrozen ==
  ASSUME IInv, NEW t \in Tids, NEW k \in Clear .. Alloc, In(t, k),
         UNCHANGED <<op, lru, prior>>, phase' = phase \/ Pass(t), OrderInv
  PROVE  OrderInv' /\ Frozen
<1>1. \A u \in Tids : phase[u] = k \/ phase[u] = k + 1
  BY Together DEF IInv
<1>2. k \in Int /\ phase[t] = k /\ op = "lookup" /\ k <= Alloc
  BY DEF In, Clear, Alloc
<1>3. \A u \in Tids : phase[u] <= Rewrite
  BY <1>1, <1>2 DEF Alloc, Rewrite
<1>4. \A u \in Tids : phase'[u] <= Rewrite
  BY <1>2, <1>3 DEF Pass, IInv, TypeOK, Alloc, Rewrite
<1>5. Frozen /\ Frozen'
  BY <1>2, <1>3, <1>4 DEF Frozen
<1>6. OldLru' = OldLru
  BY DEF OldLru
<1> QED
  BY <1>5, <1>6 DEF OrderInv

\* A miss that has its slot keeps it, and so do the slots nobody was given.
LEMMA KeysKept ==
  ASSUME IInv, NEW t \in Tids, UNCHANGED <<slotToToken, prior, query>>, KeyInv,
         MissAt \subseteq MissAt',
         \A m \in MissAt : Installed(m) => Installed(m)' /\ slotIds'[m] = slotIds[m]
  PROVE  KeyInv'
<1>1. OldKey' = OldKey
  BY DEF OldKey
<1> QED
  BY <1>1, Zenon DEF KeyInv

LEMMA AskedKept ==
  ASSUME UNCHANGED <<tokenToSlot, prior, query>>, AskedInv, MissAt' = MissAt
  PROVE  AskedInv'
BY DEF AskedInv, OldPlace

\* The steps of the lookup loop that claim nothing.
LEMMA LookupHistory ==
  ASSUME IInv, HistoryInv, prior' = prior, NEW t \in Tids, In(t, Lookup),
         UNCHANGED <<tables, host, phase>>, missMask' = missMask
  PROVE  HistoryInv'
<1> USE DEF tables, host
<1>1. op = "lookup" /\ Lookup \in Clear .. Alloc
  BY DEF In, Lookup, Clear, Alloc
<1>2. OrderInv'
  BY <1>1, StillFrozen DEF HistoryInv
<1>3. \A u \in Tids : phase[u] = Lookup \/ phase[u] = Lookup + 1
  BY Together DEF IInv
<1>4. \A p : ~ Installed(p)
  BY <1>3, NoneInstalled DEF IInv, Lookup, Alloc
<1>5. MissAt' = MissAt
  BY DEF MissAt
<1>6. KeyInv'
  BY <1>1, <1>4, <1>5, KeysKept DEF HistoryInv
<1>7. AskedInv'
  BY <1>1, <1>5, AskedKept DEF HistoryInv
<1> QED
  BY <1>1, <1>2, <1>6, <1>7 DEF HistoryInv, OldPlace, OldKey, OldLru

\* The claim of a token that nobody has claimed adds a miss.
LEMMA ClaimHistory ==
  ASSUME IInv, HistoryInv, prior' = prior, NEW t \in Tids, Claim(t)
  PROVE  HistoryInv'
<1> USE DEF host
<1> DEFINE a == pos[t]
           k == query[a]
<1>1. /\ In(t, Lookup) /\ claiming[t] /\ op = "lookup" /\ Lookup \in Clear .. Alloc
      /\ UNCHANGED <<slotToToken, lru, query, op, phase>>
  BY DEF Claim, In, Lookup, Clear, Alloc
<1>2. a < QueryCount /\ k \in Tokens
  BY <1>1 DEF IInv, ThreadInv
<1>3. a \in Positions /\ a \notin MissAt /\ missMask[a] = FALSE /\ \A p : ~ Installed(p)
  BY <1>1, <1>2, AtPosition
<1>4. /\ tokenToSlot' = [tokenToSlot EXCEPT
                           ![k] = IF tokenToSlot[k] = NotFound THEN Claiming
                                  ELSE tokenToSlot[k]]
      /\ missMask' = [missMask EXCEPT ![a] = (tokenToSlot[k] = NotFound)]
  BY DEF Claim, QueryToken
<1> HIDE DEF a, k
<1>5. OrderInv'
  BY <1>1, StillFrozen DEF HistoryInv
<1>6. MissAt \subseteq MissAt'
  BY <1>3, <1>4 DEF MissAt, IInv, TypeOK
<1>7. KeyInv'
  BY <1>1, <1>3, <1>6, KeysKept DEF HistoryInv
<1>8. AskedInv'
  <2>1. OldPlace' = OldPlace /\ AskedInv
    BY <1>1 DEF HistoryInv, OldPlace
  <2>2. CASE tokenToSlot[k] = NotFound
    <3>1. MissAt' = MissAt \cup {a}
      BY <1>3, <1>4, <2>2 DEF MissAt, IInv, TypeOK
    <3>2. OldPlace[k] = NotFound
      BY <1>2, <1>3, <2>1, <2>2 DEF AskedInv, k
    <3>3. \A x \in Tokens : x # k => tokenToSlot'[x] = tokenToSlot[x]
      BY <1>4 DEF IInv, TypeOK
    <3> QED
      BY <1>1, <2>1, <3>1, <3>2, <3>3 DEF AskedInv, k
  <2>3. CASE tokenToSlot[k] # NotFound
    <3>1. MissAt' = MissAt
      BY <1>3, <1>4, <2>3 DEF MissAt, IInv, TypeOK
    <3>2. tokenToSlot' = tokenToSlot
      BY <1>2, <1>4, <2>3 DEF IInv, TypeOK
    <3> QED
      BY <1>1, <2>1, <3>1, <3>2, AskedKept
  <2> QED
    BY <2>2, <2>3
<1> QED
  BY <1>1, <1>5, <1>7, <1>8 DEF HistoryInv, OldPlace, OldKey, OldLru

\* The steps that only count, compact or pass on.
LEMMA PassHistory ==
  ASSUME IInv, HistoryInv, prior' = prior, NEW t \in Tids, NEW k \in Clear .. Alloc,
         In(t, k), Pass(t), UNCHANGED <<tables, outputs, host>>,
         \A u \in Tids \ {t} : pos'[u] = pos[u]
  PROVE  HistoryInv'
<1> USE DEF tables, outputs, host
<1>1. op = "lookup" /\ phase[t] = k /\ k \in Int /\ k <= Alloc
  BY DEF In, Clear, Alloc
<1>2. OrderInv'
  BY <1>1, StillFrozen DEF HistoryInv
<1>3. MissAt' = MissAt
  BY DEF MissAt
<1>4. ASSUME NEW m \in MissAt, Installed(m) PROVE Installed(m)'
  <2>1. PICK u \in Tids : /\ m \in Chunk(u, QueryCount)
                          /\ \/ phase[u] > Alloc
                             \/ phase[u] = Alloc /\ m < pos[u]
    BY <1>4 DEF Installed
  <2>2. CASE u = t
    <3>1. phase'[t] = k + 1 /\ k = Alloc
      BY <1>1, <2>1, <2>2 DEF Pass, IInv, TypeOK, Alloc
    <3> QED
      BY <2>1, <2>2, <3>1 DEF Installed, Alloc
  <2>3. CASE u # t
    <3>1. phase'[u] = phase[u] /\ pos'[u] = pos[u]
      BY <2>3 DEF Pass, IInv, TypeOK
    <3> QED
      BY <2>1, <3>1 DEF Installed
  <2> QED
    BY <2>2, <2>3
<1>5. KeyInv'
  BY <1>1, <1>3, <1>4, KeysKept DEF HistoryInv
<1>6. AskedInv'
  BY <1>1, <1>3, AskedKept DEF HistoryInv
<1> QED
  BY <1>1, <1>2, <1>5, <1>6 DEF HistoryInv, OldPlace, OldKey, OldLru

\* A slot that changes hands is counted to the miss that has it, and its old
\* token is none of the batch.
LEMMA InstallHistory ==
  ASSUME IInv, HistoryInv, prior' = prior, NEW t \in Tids, Install(t)
  PROVE  HistoryInv'
<1>0. PICK p, victim, k, x : Installs(p, victim, k, x)
  BY InstallEffect
<1>1. /\ query[p] = k
      /\ p \in MissAt /\ ~ Installed(p)
      /\ k \in Tokens
      /\ x # NotFound => \A q \in Positions : query[q] # x
      /\ \A u \in Tokens : tokenToSlot'[u] =
           IF u = k THEN victim ELSE IF u = x THEN NotFound ELSE tokenToSlot[u]
      /\ \A s \in Slots : slotToToken'[s] = IF s = victim THEN k ELSE slotToToken[s]
      /\ \A q \in Positions : slotIds'[q] = IF q = p THEN victim ELSE slotIds[q]
      /\ \A q \in MissAt : Installed(q)' <=> Installed(q) \/ q = p
  BY <1>0 DEF Installs
<1>2. /\ In(t, Alloc) /\ op = "lookup" /\ Alloc \in Clear .. Alloc
      /\ UNCHANGED <<lru, missMask, query, op, phase>>
  BY DEF Install, In, host, Alloc, Clear
<1>3. MissAt' = MissAt /\ MissAt \subseteq Positions /\ NotFound \notin Tokens
  BY <1>2 DEF MissAt, NotFound, Tokens
<1>4. OldPlace' = OldPlace /\ OldKey' = OldKey /\ OldLru' = OldLru
  BY DEF OldPlace, OldKey, OldLru
<1>5. AskedInv'
  <2>1. AskedInv
    BY <1>2 DEF HistoryInv
  <2>2. ASSUME NEW q \in Positions, query[q] \in Tokens
        PROVE  \/ \E m \in MissAt : query[m] = query[q]
               \/ tokenToSlot'[query[q]] = OldPlace[query[q]]
    BY <1>1, <1>3, <2>1, <2>2 DEF AskedInv
  <2> QED
    BY <1>2, <1>3, <1>4, <2>1, <2>2 DEF AskedInv
<1>6. KeyInv'
  <2> SUFFICES ASSUME NEW s \in Slots
               PROVE  \/ \E m \in MissAt : Installed(m)' /\ slotIds'[m] = s
                      \/ slotToToken'[s] = OldKey[s]
    BY <1>3, <1>4 DEF KeyInv
  <2>1. KeyInv
    BY <1>2 DEF HistoryInv
  <2>2. CASE s = victim
    BY <1>1, <1>3, <2>2
  <2>3. CASE s # victim
    <3>1. CASE slotToToken[s] = OldKey[s]
      BY <1>1, <2>3, <3>1
    <3>2. CASE \E m \in MissAt : Installed(m) /\ slotIds[m] = s
      <4>1. PICK m \in MissAt : Installed(m) /\ slotIds[m] = s
        BY <3>2
      <4>2. m # p /\ m \in Positions
        BY <1>1, <1>3, <4>1
      <4> QED
        BY <1>1, <4>1, <4>2
    <3> QED
      BY <2>1, <3>1, <3>2 DEF KeyInv
  <2> QED
    BY <2>2, <2>3
<1>7. OrderInv'
  BY <1>2, StillFrozen DEF HistoryInv
<1> QED
  BY <1>2, <1>4, <1>5, <1>6, <1>7 DEF HistoryInv

\* When lru is about to be rewritten the lists hold its order.
LEMMA ListsOrdered ==
  ASSUME IInv, HistoryInv, op = "lookup", \A t \in Tids : phase[t] > Compact
  PROVE  /\ EvictableCount = Cardinality(OldEvictableAt)
         /\ \A p \in OldHitAt : hitSlots[RankIn(OldHitAt, p)] = OldLru[p]
         /\ \A p \in OldEvictableAt :
              evictableSlots[RankIn(OldEvictableAt, p)] = OldLru[p]
<1>1. CASE ~ Frozen
  BY <1>1 DEF HistoryInv, OrderInv
<1>2. CASE Frozen
  <2>1. lru = OldLru
    BY <1>2 DEF HistoryInv, OrderInv
  <2>2. OldHitAt = HitAt /\ OldEvictableAt = EvictableAt
    BY <2>1 DEF OldHitAt, OldEvictableAt, HitAt, EvictableAt
  <2>3. SlotCount \in Nat /\ EvictableAt \in SUBSET (0 .. SlotCount - 1)
        /\ HitAt \in SUBSET (0 .. SlotCount - 1)
    BY SimtAssumption DEF EvictableAt, HitAt, Slots
  <2>4. \A t \in Tids : phase[t] > Count
    BY DEF IInv, TypeOK, Count, Compact, Clear, Done
  <2>5. \A t \in Tids : evictCounts[t] = Cardinality(EvictableAt \cap Chunk(t, SlotCount))
    BY <1>2, <2>4 DEF IInv, CountInv
  <2>6. evictCounts \in [Tids -> Nat]
    <3>1. \A t \in Tids : evictCounts[t] \in Nat
      BY <2>3 DEF IInv, TypeOK
    <3> QED
      BY <3>1 DEF IInv, TypeOK
  <2>7. EvictableCount = Cardinality(EvictableAt)
    BY <2>3, <2>5, <2>6, TotalCount DEF EvictableCount
  <2>8. ASSUME NEW p \in Slots
        PROVE  /\ p \in HitAt => hitSlots[RankIn(HitAt, p)] = lru[p]
               /\ p \in EvictableAt => evictableSlots[RankIn(EvictableAt, p)] = lru[p]
    <3>1. PICK t \in Tids : p \in Chunk(t, SlotCount)
      BY <2>3, ChunkOf DEF Slots
    <3> QED
      BY <1>2, <3>1 DEF IInv, CompactInv
  <2> QED
    BY <2>1, <2>2, <2>7, <2>8 DEF HitAt, EvictableAt
<1> QED
  BY <1>1, <1>2

LEMMA RewriteHistory ==
  ASSUME IInv, HistoryInv, prior' = prior, NEW t \in Tids, RewriteLru(t)
  PROVE  HistoryInv'
<1> USE DEF host, scans
<1>1. /\ In(t, Rewrite) /\ Pass(t) /\ op = "lookup"
      /\ UNCHANGED <<tokenToSlot, slotToToken, missMask, query, op, pos, hitFlags,
                     hitSlots, evictableSlots, evictCounts>>
  BY DEF RewriteLru, In
<1>2. /\ \A u \in Tids : phase[u] >= Rewrite /\ phase[u] \in Clear .. Done
      /\ \A u \in Tids : phase'[u] = IF u = t THEN Rewrite + 1 ELSE phase[u]
  BY <1>1 DEF In, Pass, IInv, TypeOK
<1>3. \A u \in Tids : phase[u] > Alloc /\ phase'[u] > Alloc /\ phase[u] > Compact
  BY <1>2 DEF Rewrite, Alloc, Compact, Clear, Done
<1>4. OldPlace' = OldPlace /\ OldKey' = OldKey /\ OldLru' = OldLru
  BY DEF OldPlace, OldKey, OldLru
<1>5. MissAt' = MissAt /\ MissAt \subseteq Positions
  BY <1>1 DEF MissAt
<1>6. AskedInv'
  BY <1>1, <1>5, AskedKept DEF HistoryInv
<1>7. KeyInv'
  <2>1. ASSUME NEW m \in MissAt, Installed(m) PROVE Installed(m)' /\ slotIds'[m] = slotIds[m]
    <3>1. Installed(m)'
      BY <1>1, <1>2, <1>3, <2>1 DEF Installed
    <3>2. slotIds[m] \in Slots
      BY <1>1, <1>3, Resolved
    <3>3. slotIds[m] # NotFound
      BY <3>2 DEF Slots, NotFound
    <3> QED
      BY <1>5, <3>1, <3>3 DEF RewriteLru
  <2> QED
    BY <1>1, <1>5, <2>1, KeysKept DEF HistoryInv
<1>8. OrderInv'
  <2>1. ~ Frozen'
    BY <1>2 DEF Frozen, Rewrite
  <2>2. OldHitAt' = OldHitAt /\ OldEvictableAt' = OldEvictableAt
        /\ EvictableCount' = EvictableCount
    BY <1>1, <1>4 DEF OldHitAt, OldEvictableAt, EvictableCount, Prefix
  <2>3. /\ EvictableCount = Cardinality(OldEvictableAt)
        /\ \A p \in OldHitAt : hitSlots[RankIn(OldHitAt, p)] = OldLru[p]
        /\ \A p \in OldEvictableAt :
             evictableSlots[RankIn(OldEvictableAt, p)] = OldLru[p]
    BY <1>1, <1>3, ListsOrdered
  <2> QED
    BY <1>1, <1>4, <2>1, <2>2, <2>3 DEF OrderInv, RankIn
<1> QED
  BY <1>1, <1>4, <1>6, <1>7, <1>8 DEF HistoryInv

LEMMA ThreadHistory ==
  ASSUME IInv, HistoryInv, prior' = prior, NEW t \in Tids, ThreadStep(t)
  PROVE  HistoryInv'
<1> USE DEF host, scans, tables, outputs, AtQuery
<1>1. CASE ClearFlags(t)
  <2>1. Clear \in Clear .. Alloc /\ pos' = [pos EXCEPT ![t] = t]
    BY <1>1 DEF ClearFlags, Clear, Alloc
  <2>2. \A u \in Tids \ {t} : pos'[u] = pos[u]
    BY <2>1 DEF IInv, TypeOK
  <2> QED
    BY <1>1, <2>1, <2>2, PassHistory DEF ClearFlags
<1>2. CASE LookupPadding(t)
  <2>1. missMask' = missMask
    BY <1>2, NoAnswer DEF LookupPadding
  <2> QED
    BY <1>2, <2>1, LookupHistory DEF LookupPadding
<1>3. CASE LookupHit(t)
  <2>1. missMask' = missMask
    <3>1. pos[t] \in Positions /\ missMask[pos[t]] = FALSE
      BY <1>3, AtPosition DEF LookupHit
    <3> QED
      BY <1>3, <3>1 DEF LookupHit, Answer, IInv, TypeOK
  <2> QED
    BY <1>3, <2>1, LookupHistory DEF LookupHit
<1>4. CASE LookupClaimed(t)
  <2>1. missMask' = missMask
    BY <1>4, NoAnswer DEF LookupClaimed
  <2> QED
    BY <1>4, <2>1, LookupHistory DEF LookupClaimed
<1>5. CASE LookupMiss(t)
  <2>1. missMask' = missMask
    BY <1>5, NoAnswer DEF LookupMiss
  <2> QED
    BY <1>5, <2>1, LookupHistory DEF LookupMiss
<1>6. CASE Claim(t)
  BY <1>6, ClaimHistory
<1>7. CASE LookupEnd(t)
  <2>1. Lookup \in Clear .. Alloc
    BY DEF Clear, Lookup, Alloc
  <2> QED
    BY <1>7, <2>1, PassHistory DEF LookupEnd
<1>8. CASE CountHits(t)
  <2>1. Count \in Clear .. Alloc
    BY DEF Clear, Count, Alloc
  <2> QED
    BY <1>8, <2>1, PassHistory DEF CountHits
<1>9. CASE CompactLru(t)
  <2>1. Compact \in Clear .. Alloc
    BY DEF Clear, Compact, Alloc
  <2> QED
    BY <1>9, <2>1, PassHistory DEF CompactLru
<1>10. CASE CountMisses(t)
  <2>1. Misses \in Clear .. Alloc /\ pos' = [pos EXCEPT ![t] = 0]
    BY <1>10 DEF CountMisses, Clear, Misses, Alloc
  <2>2. \A u \in Tids \ {t} : pos'[u] = pos[u]
    BY <2>1 DEF IInv, TypeOK
  <2> QED
    BY <1>10, <2>1, <2>2, PassHistory DEF CountMisses
<1>11. CASE Install(t)
  BY <1>11, InstallHistory
<1>12. CASE AllocEnd(t)
  <2>1. Alloc \in Clear .. Alloc
    BY DEF Clear, Alloc
  <2> QED
    BY <1>12, <2>1, PassHistory DEF AllocEnd
<1>13. CASE RewriteLru(t)
  BY <1>13, RewriteHistory
<1> QED
  BY <1>1, <1>2, <1>3, <1>4, <1>5, <1>6, <1>7, <1>8, <1>9, <1>10, <1>11, <1>12, <1>13
     DEF ThreadStep

LEMMA HistoryStep ==
  ASSUME IInv, HistoryInv, [NextH]_historyVars
  PROVE  HistoryInv'
<1>1. CASE NextH
  <2>1. ASSUME NEW q \in Workload, Launch(q) PROVE HistoryInv'
    BY <1>1, <2>1, LaunchHistory DEF NextH, Launch
  <2>2. CASE HostSync \/ LoadMisses
    BY <2>2 DEF HostSync, LoadMisses, HistoryInv
  <2>3. ASSUME NEW t \in Tids, ThreadStep(t) PROVE HistoryInv'
    <3>1. op = "lookup"
      BY <2>3 DEF ThreadStep, ClearFlags, LookupPadding, LookupHit, LookupClaimed,
                  LookupMiss, Claim, LookupEnd, CountHits, CompactLru, CountMisses,
                  Install, AllocEnd, RewriteLru, AtQuery, In
    <3>2. prior' = prior
      BY <1>1, <3>1 DEF NextH
    <3> QED
      BY <2>3, <3>2, ThreadHistory
  <2> QED
    BY <1>1, <2>1, <2>2, <2>3 DEF NextH, Next
<1>2. CASE UNCHANGED historyVars
  <2>1. UNCHANGED <<prior, op, phase, pos, tokenToSlot, slotToToken, lru, query, slotIds,
                    missMask, hitFlags, hitSlots, evictableSlots, evictCounts>>
    BY <1>2 DEF historyVars, vars, tables, outputs, host, scans
  <2> QED
    BY <2>1 DEF HistoryInv, AskedInv, KeyInv, OrderInv, OldPlace, OldKey, OldLru, MissAt,
                Installed, Frozen, OldHitAt, OldEvictableAt, EvictableCount, Prefix, RankIn
<1> QED
  BY <1>1, <1>2

\* While the kernel runs the promised state is the one at its launch.
LEMMA AtLaunch ==
  ASSUME op = "lookup"
  PROVE  /\ Promise!Missing =
              {p \in Positions : query[p] \in Tokens /\ OldPlace[query[p]] = NotFound}
         /\ Promise!Hit = {OldPlace[query[p]] :
              p \in {q \in Positions : query[q] \in Tokens} \ Promise!Missing}
         /\ OldLru \in [Slots -> Slots] =>
              /\ Promise!Ranks = Slots
              /\ Promise!HitRanks = {p \in Slots : OldLru[p] \in Promise!Hit}
              /\ Promise!FreeRanks = Slots \ Promise!HitRanks
         /\ \A S, i : Promise!Offset(S, i) = RankIn(S, i)
<1>1. Running
  BY DEF Running
<1>2. /\ Promise!Missing =
           {p \in Positions : query[p] \in Tokens /\ OldPlace[query[p]] = NotFound}
      /\ Promise!Hit = {OldPlace[query[p]] :
           p \in {q \in Positions : query[q] \in Tokens} \ Promise!Missing}
  BY <1>1 DEF Promise!Missing, Promise!Hit, Promise!Valid, OldPlace
<1>3. ASSUME OldLru \in [Slots -> Slots]
      PROVE  /\ Promise!Ranks = Slots
             /\ Promise!HitRanks = {p \in Slots : OldLru[p] \in Promise!Hit}
             /\ Promise!FreeRanks = Slots \ Promise!HitRanks
  <2>1. Promise!Ranks = Slots
    BY <1>1, <1>3 DEF Promise!Ranks, OldLru
  <2> QED
    BY <1>1, <2>1 DEF Promise!HitRanks, Promise!FreeRanks, OldLru
<1>4. ASSUME NEW S, NEW i PROVE Promise!Offset(S, i) = RankIn(S, i)
  BY DEF Promise!Offset, RankIn, Promise!Cardinality, Cardinality
<1> QED
  BY <1>2, <1>3, <1>4

Ended == op = "lookup" /\ \A t \in Tids : phase[t] = Done

LEMMA AllPast ==
  ASSUME Ended
  PROVE  /\ ~ Frozen /\ op = "lookup"
         /\ \A t \in Tids : /\ phase[t] > Clear /\ phase[t] > Lookup /\ phase[t] > Compact
                            /\ phase[t] > Misses /\ phase[t] > Alloc /\ phase[t] > Rewrite
<1>1. 0 \in Tids
  BY SimtAssumption DEF Tids
<1> QED
  BY <1>1 DEF Ended, Frozen, Done, Clear, Lookup, Compact, Misses, Alloc, Rewrite

\* A token of the batch either had no slot and is loaded by one position,
\* or has the slot it had, and that is flagged.
LEMMA TokensResolved ==
  ASSUME IInv, HistoryInv, Ended, NEW p \in Positions, query[p] \in Tokens
  PROVE  \/ /\ OldPlace[query[p]] = NotFound
            /\ \E m \in MissAt : query[m] = query[p]
         \/ /\ OldPlace[query[p]] = tokenToSlot[query[p]]
            /\ OldPlace[query[p]] \in Slots /\ hitFlags[OldPlace[query[p]]]
<1>1. op = "lookup" /\ Looked(p) /\ AskedInv
  BY AllPast, AllLooked DEF HistoryInv
<1>2. CASE \E m \in MissAt : query[m] = query[p]
  <2>1. PICK m \in MissAt : query[m] = query[p]
    BY <1>2
  <2>2. OldPlace[query[p]] = NotFound
    BY <1>1, <2>1 DEF AskedInv
  <2> QED
    BY <1>2, <2>2
<1>3. CASE ~ \E m \in MissAt : query[m] = query[p]
  BY <1>1, <1>3 DEF AskedInv, IInv, HitInv
<1> QED
  BY <1>2, <1>3

\* The slots flagged are the ones the batch hits.
LEMMA HitsFlagged ==
  ASSUME IInv, HistoryInv, Ended
  PROVE  Promise!Hit = {s \in Slots : hitFlags[s]}
<1>1. op = "lookup" /\ \A t \in Tids : phase[t] > Clear /\ phase[t] > Alloc /\ phase[t] > Compact
  BY AllPast
<1> DEFINE M == Promise!Missing
<1>2. /\ M = {p \in Positions : query[p] \in Tokens /\ OldPlace[query[p]] = NotFound}
      /\ Promise!Hit = {OldPlace[query[p]] :
           p \in {q \in Positions : query[q] \in Tokens} \ M}
  BY <1>1, AtLaunch
<1> HIDE DEF M
<1>3. ASSUME NEW p \in Positions, query[p] \in Tokens, p \notin M
      PROVE  OldPlace[query[p]] \in Slots /\ hitFlags[OldPlace[query[p]]]
  BY <1>2, <1>3, TokensResolved
<1>4. ASSUME NEW s \in Slots, hitFlags[s]
      PROVE  \E p \in Positions : query[p] \in Tokens /\ p \notin M /\ OldPlace[query[p]] = s
  <2>1. s % Threads \in Tids
    BY SimtAssumption, StrideOf DEF Slots
  <2>2. PICK p \in Positions \ MissAt : query[p] \in Tokens /\ tokenToSlot[query[p]] = s
    BY <1>1, <1>4, <2>1 DEF IInv, HitInv
  <2>3. ~ \E m \in MissAt : query[m] = query[p]
    <3> SUFFICES ASSUME NEW m \in MissAt, query[m] = query[p] PROVE FALSE
      OBVIOUS
    <3>1. Lists
      BY <1>1, ListsReady
    <3>2. Installed(m)
      BY <1>1, AllInstalled DEF MissAt
    <3>3. s = evictableSlots[RankIn(MissAt, m)]
      BY <2>2, <3>2 DEF IInv, InstallInv
    <3>4. QueryCount \in Nat /\ SlotCount \in Nat /\ MissAt \in SUBSET (0 .. QueryCount - 1)
      BY SimtAssumption DEF MissAt, Positions
    <3>5. RankIn(MissAt, m) \in 0 .. Cardinality(MissAt) - 1
      BY <3>4, RankRange
    <3>6. Cardinality(MissAt) \in 0 .. QueryCount
      BY <3>4, FiniteItems
    <3>7. RankIn(MissAt, m) \in Slots /\ RankIn(MissAt, m) < EvictableCount
      BY <3>1, <3>4, <3>5, <3>6 DEF Lists, Slots
    <3> QED
      BY <1>4, <3>1, <3>3, <3>7 DEF Lists
  <2>4. OldPlace[query[p]] = s
    BY <1>1, <2>2, <2>3 DEF HistoryInv, AskedInv
  <2>5. p \notin M
    BY <1>2, <2>4 DEF Slots, NotFound
  <2> QED
    BY <2>2, <2>4, <2>5
<1> QED
  BY <1>2, <1>3, <1>4

LEMMA LeadersMarked ==
  ASSUME IInv, HistoryInv, Ended
  PROVE  Promise!Leaders(MissAt)
<1>1. op = "lookup" /\ \A t \in Tids : phase[t] > Lookup
  BY AllPast
<1>2. Promise!Missing =
        {p \in Positions : query[p] \in Tokens /\ OldPlace[query[p]] = NotFound}
  BY <1>1, AtLaunch
<1>3. MissAt \subseteq Promise!Missing
  BY <1>1, <1>2 DEF IInv, ClaimInv, HistoryInv, AskedInv, MissAt
<1>4. ASSUME NEW i \in Promise!Missing PROVE \E l \in MissAt : query[l] = query[i]
  BY <1>2, TokensResolved DEF Slots, NotFound
<1>5. \A l, m \in MissAt : query[l] = query[m] => l = m
  BY DEF IInv, ClaimInv
<1> QED
  BY <1>3, <1>4, <1>5 DEF Promise!Leaders

\* Ranks of the launch's order, and what the lists say of it.
LEMMA RanksParted ==
  ASSUME IInv, HistoryInv, Ended
  PROVE  /\ Promise!Ranks = Slots
         /\ Promise!HitRanks = OldHitAt /\ Promise!FreeRanks = OldEvictableAt
         /\ OldHitAt \in SUBSET (0 .. SlotCount - 1)
         /\ OldEvictableAt \in SUBSET (0 .. SlotCount - 1)
         /\ EvictableCount = Cardinality(OldEvictableAt)
         /\ Cardinality(OldHitAt) = SlotCount - EvictableCount
         /\ Cardinality(MissAt) \in 0 .. EvictableCount
         /\ EvictableCount \in 0 .. SlotCount
         /\ MissCount = Cardinality(MissAt)
         /\ \A p \in OldHitAt : hitSlots[RankIn(OldHitAt, p)] = OldLru[p]
         /\ \A p \in OldEvictableAt : evictableSlots[RankIn(OldEvictableAt, p)] = OldLru[p]
<1>1. op = "lookup" /\ ~ Frozen
      /\ \A t \in Tids : phase[t] > Compact /\ phase[t] > Misses
  BY AllPast
<1>2. OldLru \in [Slots -> Slots] /\ OrderInv
  BY <1>1 DEF HistoryInv
<1>3. /\ Promise!Ranks = Slots
      /\ Promise!HitRanks = {p \in Slots : OldLru[p] \in Promise!Hit}
      /\ Promise!FreeRanks = Slots \ Promise!HitRanks
  BY <1>1, <1>2, AtLaunch
<1>4. Promise!HitRanks = OldHitAt
  BY <1>2, <1>3, HitsFlagged DEF OldHitAt
<1>5. Promise!FreeRanks = OldEvictableAt
  BY <1>3, <1>4 DEF OldEvictableAt
<1>6. /\ OldHitAt \in SUBSET (0 .. SlotCount - 1) /\ OldEvictableAt \in SUBSET (0 .. SlotCount - 1)
      /\ SlotCount \in Nat /\ QueryCount \in Nat /\ MissAt \in SUBSET (0 .. QueryCount - 1)
  BY SimtAssumption DEF OldHitAt, OldEvictableAt, Slots, MissAt, Positions
<1>7. Lists /\ MissCount = Cardinality(MissAt)
  BY <1>1, ListsReady, MissesCounted DEF IInv
<1>8. Cardinality(MissAt) \in Nat
  BY <1>6, FiniteItems
<1>9. Cardinality(OldHitAt) = SlotCount - EvictableCount
  <2>1. EvictableCount = Cardinality(OldEvictableAt)
    BY <1>1, <1>2 DEF OrderInv
  <2>2. IsFiniteSet(Slots) /\ Cardinality(Slots) = SlotCount
    BY <1>6, FS_Interval DEF Slots
  <2>3. OldHitAt = Slots \ OldEvictableAt /\ Slots \cap OldEvictableAt = OldEvictableAt
    BY DEF OldHitAt, OldEvictableAt
  <2>4. Cardinality(Slots \ OldEvictableAt) =
          Cardinality(Slots) - Cardinality(Slots \cap OldEvictableAt)
    BY <2>2, FS_Difference
  <2> QED
    BY <2>1, <2>2, <2>3, <2>4
<1> QED
  BY <1>1, <1>2, <1>3, <1>4, <1>5, <1>6, <1>7, <1>8, <1>9 DEF OrderInv, Lists

\* The n-th miss has the slot that the promise gives to the n-th leader.
LEMMA SlotsTaken ==
  ASSUME IInv, HistoryInv, Ended, NEW m \in MissAt
  PROVE  Promise!TakenBy(MissAt, m) = slotIds[m] /\ slotToToken[slotIds[m]] = query[m]
<1>1. op = "lookup" /\ \A t \in Tids : phase[t] > Alloc
  BY AllPast
<1>2. Installed(m) /\ slotIds[m] \in Slots
  BY <1>1, Resolved
<1>3. slotIds[m] = evictableSlots[RankIn(MissAt, m)] /\ tokenToSlot[query[m]] = slotIds[m]
      /\ query[m] \in Tokens
  BY <1>2 DEF IInv, InstallInv, ClaimInv
<1> DEFINE E == OldEvictableAt
<1>4. /\ Promise!FreeRanks = E /\ E \in SUBSET (0 .. SlotCount - 1)
      /\ EvictableCount = Cardinality(E) /\ EvictableCount \in Nat
      /\ Cardinality(MissAt) \in Nat /\ Cardinality(MissAt) <= EvictableCount
      /\ \A p \in E : evictableSlots[RankIn(E, p)] = OldLru[p]
  BY RanksParted, SimtAssumption
<1> HIDE DEF E
<1>5. QueryCount \in Nat /\ SlotCount \in Nat /\ MissAt \in SUBSET (0 .. QueryCount - 1)
  BY SimtAssumption DEF MissAt, Positions
<1>6. RankIn(MissAt, m) \in 0 .. Cardinality(E) - 1
  <2>1. RankIn(MissAt, m) \in 0 .. Cardinality(MissAt) - 1
    BY <1>5, RankRange
  <2> QED
    BY <1>4, <2>1
<1>7. \E i \in E : RankIn(E, i) = RankIn(MissAt, m)
  BY <1>4, <1>5, <1>6, RankOnto
<1> DEFINE Chosen == CHOOSE i \in E : Promise!Takes(MissAt, m, i)
<1>8. \A i : Promise!Takes(MissAt, m, i) <=> i \in E /\ RankIn(E, i) = RankIn(MissAt, m)
  BY <1>1, <1>4, AtLaunch DEF Promise!Takes
<1>9. Chosen \in E /\ RankIn(E, Chosen) = RankIn(MissAt, m)
  BY <1>7, <1>8
<1>10. Promise!TakenBy(MissAt, m) = OldLru[Chosen]
  BY <1>1, <1>4 DEF Promise!TakenBy, Running, OldLru
<1> HIDE DEF Chosen
<1>11. OldLru[Chosen] = slotIds[m]
  BY <1>3, <1>4, <1>9
<1> QED
  BY <1>2, <1>3, <1>10, <1>11 DEF IInv, MapInv

LEMMA KeysAsPromised ==
  ASSUME IInv, HistoryInv, Ended, NEW L, L = MissAt
  PROVE  slotToToken = [s \in Slots |->
           IF \E l \in L : Promise!TakenBy(L, l) = s
           THEN query[CHOOSE l \in L : Promise!TakenBy(L, l) = s] ELSE OldKey[s]]
<1>1. op = "lookup" /\ KeyInv
  BY AllPast DEF HistoryInv
<1>2. \A l \in L : Promise!TakenBy(L, l) = slotIds[l] /\ slotToToken[slotIds[l]] = query[l]
  BY SlotsTaken
<1>3. ASSUME NEW s \in Slots
      PROVE  slotToToken[s] = IF \E l \in L : Promise!TakenBy(L, l) = s
               THEN query[CHOOSE l \in L : Promise!TakenBy(L, l) = s] ELSE OldKey[s]
  <2>1. CASE \E l \in L : Promise!TakenBy(L, l) = s
    <3> DEFINE c == CHOOSE l \in L : Promise!TakenBy(L, l) = s
    <3>1. c \in L /\ Promise!TakenBy(L, c) = s
      BY <2>1
    <3> HIDE DEF c
    <3>2. slotToToken[s] = query[c]
      BY <1>2, <3>1
    <3> QED
      BY <2>1, <3>2 DEF c
  <2>2. CASE ~ \E l \in L : Promise!TakenBy(L, l) = s
    <3>1. slotToToken[s] = OldKey[s]
      BY <1>1, <1>2, <2>2 DEF KeyInv
    <3> QED
      BY <2>2, <3>1
  <2> QED
    BY <2>1, <2>2
<1> QED
  BY <1>3 DEF IInv, TypeOK

\* The maps are inverse.
LEMMA PlacesAsPromised ==
  ASSUME IInv, Ended
  PROVE  tokenToSlot = [k \in Tokens |->
           IF \E s \in Slots : slotToToken[s] = k
           THEN CHOOSE s \in Slots : slotToToken[s] = k ELSE NotFound]
<1>1. \A k \in Tokens : tokenToSlot[k] # Claiming
  BY AllPast, Finished
<1>2. NotFound \notin Tokens
  BY DEF NotFound, Tokens
<1>3. ASSUME NEW k \in Tokens
      PROVE  tokenToSlot[k] = IF \E s \in Slots : slotToToken[s] = k
               THEN CHOOSE s \in Slots : slotToToken[s] = k ELSE NotFound
  <2>1. \A s \in Slots : slotToToken[s] = k <=> tokenToSlot[k] = s
    BY <1>2 DEF IInv, MapInv
  <2> QED
    BY <1>1, <2>1 DEF IInv, TypeOK
<1> QED
  BY <1>3 DEF IInv, TypeOK

LEMMA SameCardinality ==
  ASSUME NEW S
  PROVE  Promise!Cardinality(S) = Cardinality(S)
BY DEF Promise!Cardinality, Cardinality

\* Every rank r of the new order is the new rank of one of the launch's, and
\* lru has there the slot that had that one.
LEMMA OrderAsPromised ==
  ASSUME IInv, HistoryInv, Ended
  PROVE  lru = [r \in Slots |->
           OldLru[CHOOSE i \in Slots :
                    Promise!NewRank(Promise!Cardinality(MissAt), i) = r]]
<1> DEFINE H == OldHitAt
           E == OldEvictableAt
           e == EvictableCount
           n == MissCount
           Rank(i) == IF i \in H THEN e + RankIn(H, i)
                      ELSE IF RankIn(E, i) < n THEN e - n + RankIn(E, i)
                      ELSE RankIn(E, i) - n
<1>1. op = "lookup" /\ \A t \in Tids : phase[t] > Rewrite
  BY AllPast
<1>2. /\ H \in SUBSET (0 .. SlotCount - 1) /\ E \in SUBSET (0 .. SlotCount - 1)
      /\ e = Cardinality(E) /\ Cardinality(H) = SlotCount - e
      /\ n = Cardinality(MissAt) /\ n \in 0 .. e /\ e \in 0 .. SlotCount
      /\ SlotCount \in Nat
      /\ \A p \in H : hitSlots[RankIn(H, p)] = OldLru[p]
      /\ \A p \in E : evictableSlots[RankIn(E, p)] = OldLru[p]
  BY RanksParted, SimtAssumption
<1>3. /\ Promise!HitRanks = H /\ Promise!FreeRanks = E
      /\ \A S, i : Promise!Offset(S, i) = RankIn(S, i)
  BY <1>1, RanksParted, AtLaunch
<1>4. H \cup E = Slots /\ H \cap E = {}
  BY DEF OldHitAt, OldEvictableAt
<1>5. StaleCount = e - n
  BY DEF StaleCount
<1>6. \A p \in Slots : lru[p] = NewLru(p)
  <2> SUFFICES ASSUME NEW p \in Slots PROVE lru[p] = NewLru(p)
    OBVIOUS
  <2>1. p % Threads \in Tids /\ p \in Strided(p % Threads, SlotCount)
    BY SimtAssumption, StrideOf DEF Slots
  <2> QED
    BY <1>1, <2>1 DEF IInv, LruInv
<1> HIDE DEF H, E, e, n
<1>7. ASSUME NEW i \in Slots
      PROVE  Promise!NewRank(Promise!Cardinality(MissAt), i) = Rank(i)
  <2>1. Promise!Cardinality(MissAt) = n /\ Promise!Cardinality(E) = e
    BY <1>2, SameCardinality
  <2> QED
    BY <1>3, <2>1 DEF Promise!NewRank
<1>8. ASSUME NEW i \in Slots
      PROVE  Rank(i) \in Slots /\ lru[Rank(i)] = OldLru[i]
  <2>1. CASE i \in H
    <3>1. RankIn(H, i) \in 0 .. Cardinality(H) - 1
      BY <1>2, <2>1, RankRange
    <3>2. Rank(i) = e + RankIn(H, i) /\ Rank(i) \in Slots
      BY <1>2, <2>1, <3>1 DEF Slots
    <3>3. NewLru(Rank(i)) = hitSlots[RankIn(H, i)]
      <4>1. ~ (Rank(i) < e) /\ ~ (Rank(i) < e - n) /\ Rank(i) - e = RankIn(H, i)
        BY <1>2, <3>1, <3>2
      <4> QED
        BY <1>5, <4>1 DEF NewLru, e
    <3> QED
      BY <1>2, <1>6, <2>1, <3>2, <3>3
  <2>2. CASE i \notin H
    <3>1. i \in E
      BY <1>4, <2>2
    <3>2. RankIn(E, i) \in 0 .. e - 1
      BY <1>2, <3>1, RankRange
    <3>3. CASE RankIn(E, i) < n
      <4>1. Rank(i) = e - n + RankIn(E, i) /\ Rank(i) \in Slots
        BY <1>2, <2>2, <3>2, <3>3 DEF Slots
      <4>2. /\ ~ (Rank(i) < e - n) /\ e - n <= Rank(i) /\ Rank(i) < e
            /\ Rank(i) - (e - n) = RankIn(E, i)
        BY <1>2, <3>2, <3>3, <4>1
      <4>3. NewLru(Rank(i)) = evictableSlots[RankIn(E, i)]
        BY <1>5, <4>2 DEF NewLru, e
      <4> QED
        BY <1>2, <1>6, <3>1, <4>1, <4>3
    <3>4. CASE ~ RankIn(E, i) < n
      <4>1. Rank(i) = RankIn(E, i) - n /\ Rank(i) \in Slots
        BY <1>2, <2>2, <3>2, <3>4 DEF Slots
      <4>2. Rank(i) < e - n /\ ~ (e - n <= Rank(i)) /\ n + Rank(i) = RankIn(E, i)
        BY <1>2, <3>2, <3>4, <4>1
      <4>3. NewLru(Rank(i)) = evictableSlots[RankIn(E, i)]
        BY <1>5, <4>2 DEF NewLru, n
      <4> QED
        BY <1>2, <1>6, <3>1, <4>1, <4>3
    <3> QED
      BY <3>3, <3>4
  <2> QED
    BY <2>1, <2>2
<1>9. ASSUME NEW r \in Slots PROVE \E i \in Slots : Rank(i) = r
  <2>1. r \in 0 .. SlotCount - 1
    BY DEF Slots
  <2>2. CASE r < e
    <3> DEFINE j == IF r < e - n THEN r + n ELSE r - (e - n)
    <3>1. j \in 0 .. e - 1
      BY <1>2, <2>1, <2>2
    <3>2. PICK i \in E : RankIn(E, i) = j
      BY <1>2, <3>1, RankOnto
    <3>3. i \in Slots /\ i \notin H
      BY <1>4, <3>2
    <3>4. Rank(i) = r
      BY <1>2, <2>1, <2>2, <3>2, <3>3
    <3> QED
      BY <3>3, <3>4
  <2>3. CASE ~ r < e
    <3>1. r - e \in 0 .. Cardinality(H) - 1
      BY <1>2, <2>1, <2>3
    <3>2. PICK i \in H : RankIn(H, i) = r - e
      BY <1>2, <3>1, RankOnto
    <3>3. i \in Slots
      BY <1>4, <3>2
    <3>4. Rank(i) = r
      BY <1>2, <2>1, <3>2
    <3> QED
      BY <3>3, <3>4
  <2> QED
    BY <2>2, <2>3
<1> HIDE DEF Rank
<1>10. ASSUME NEW r \in Slots
       PROVE  lru[r] = OldLru[CHOOSE i \in Slots :
                         Promise!NewRank(Promise!Cardinality(MissAt), i) = r]
  <2> DEFINE c == CHOOSE i \in Slots :
                    Promise!NewRank(Promise!Cardinality(MissAt), i) = r
  <2>1. \E i \in Slots : Promise!NewRank(Promise!Cardinality(MissAt), i) = r
    BY <1>7, <1>9
  <2>2. c \in Slots /\ Promise!NewRank(Promise!Cardinality(MissAt), c) = r
    BY <2>1
  <2> HIDE DEF c
  <2>3. Rank(c) = r /\ lru[Rank(c)] = OldLru[c]
    BY <1>7, <1>8, <2>2
  <2>4. lru[r] = OldLru[c]
    BY <2>3
  <2> QED
    BY <2>4 DEF c
<1> QED
  BY <1>10 DEF IInv, TypeOK

LEMMA AnswersAsPromised ==
  ASSUME IInv, Ended
  PROVE  slotIds = [p \in Positions |->
           IF query[p] \in Tokens THEN tokenToSlot[query[p]] ELSE NotFound]
<1>1. \A t \in Tids : phase[t] > Rewrite
  BY AllPast
<1>2. ASSUME NEW p \in Positions
      PROVE  slotIds[p] = IF query[p] \in Tokens THEN tokenToSlot[query[p]] ELSE NotFound
  <2>1. p % Threads \in Tids /\ p \in Strided(p % Threads, QueryCount)
    <3>1. QueryCount \in Nat /\ p \in 0 .. QueryCount - 1
      BY SimtAssumption DEF Positions
    <3> QED
      BY <3>1, StrideOf
  <2>2. query[p] \in Tokens => slotIds[p] \in Slots
    BY <1>1, <2>1 DEF IInv, LruInv
  <2>3. NotFound \notin Slots
    BY DEF NotFound, Slots
  <2> QED
    BY <2>2, <2>3 DEF IInv, AnswerInv
<1> QED
  BY <1>2 DEF IInv, TypeOK

-----------------------------------------------------------------------------

LEMMA InitImplements == InitH => Promise!Init
<1> SUFFICES ASSUME InitH PROVE Promise!Init
  OBVIOUS
<1>1. IInv /\ ~ Running
  BY InitEstablishes DEF InitH, Init, Running
<1>2. \A t \in Tids : phase[t] > Alloc
  BY DEF InitH, Init, Done, Alloc
<1>3. \A k \in Tokens : tokenToSlot[k] # Claiming
  BY <1>1, <1>2, Finished
<1>4. \A k \in Tokens : tokenToSlot[k] # NotFound => slotToToken[tokenToSlot[k]] = k
  BY <1>1, <1>3 DEF IInv, TypeOK, MapInv
<1>5. \A s \in Slots : slotToToken[s] # NotFound => tokenToSlot[slotToToken[s]] = s
  BY <1>1 DEF IInv, MapInv
<1>6. Promise!Ranks = Slots
  BY <1>1 DEF Promise!Ranks, IInv, TypeOK
<1>7. \A i, j \in Slots : lru[i] = lru[j] => i = j
  BY DEF InitH, Init
<1> QED
  BY <1>1, <1>4, <1>5, <1>6, <1>7 DEF Promise!Init

LEMMA LaunchImplements ==
  ASSUME IInv, NEW q \in Workload, Launch(q), prior' = <<tables, outputs>>
  PROVE  Promise!Ask
<1> USE DEF tables, outputs
<1>1. ~ Running /\ Running'
  BY DEF Launch, Running
<1>2. query' \in [Positions -> Int]
  BY SimtAssumption DEF Launch, Positions
<1>3. UNCHANGED <<tokenToSlot, slotToToken, lru>>
  BY DEF Launch
<1>4. prior'[1][1] = tokenToSlot /\ prior'[1][2] = slotToToken /\ prior'[1][3] = lru
      /\ prior'[2][1] = slotIds /\ prior'[2][2] = missMask
  OBVIOUS
<1> QED
  BY <1>1, <1>2, <1>3, <1>4, Zenon
     DEF Promise!Ask, Promise!tables, Promise!answer, Mask

LEMMA HostSyncImplements ==
  ASSUME IInv, HistoryInv, HostSync, prior' = prior
  PROVE  Promise!Next
<1> USE DEF tables, outputs
<1> PICK L : L = MissAt
  OBVIOUS
<1>1. Running /\ ~ Running' /\ Ended
  BY DEF HostSync, Running, Ended
<1>2. UNCHANGED <<tokenToSlot, slotToToken, lru, slotIds, missMask, query>>
  BY DEF HostSync
<1>3. Promise!Leaders(L)
  BY <1>1, LeadersMarked
<1>4. Promise!Ranks = Slots
  BY <1>1, RanksParted
<1>5. slotToToken' = [s \in Slots |->
        IF \E l \in L : Promise!TakenBy(L, l) = s
        THEN query[CHOOSE l \in L : Promise!TakenBy(L, l) = s] ELSE OldKey[s]]
  BY <1>1, <1>2, KeysAsPromised
<1>6. tokenToSlot' = [k \in Tokens |->
        IF \E s \in Slots : slotToToken'[s] = k
        THEN CHOOSE s \in Slots : slotToToken'[s] = k ELSE NotFound]
  BY <1>1, <1>2, PlacesAsPromised
<1>7. lru' = [r \in Slots |->
        OldLru[CHOOSE i \in Slots :
                 Promise!NewRank(Promise!Cardinality(L), i) = r]]
  BY <1>1, <1>2, OrderAsPromised
<1>8. slotIds' = [p \in Positions |->
        IF query[p] \in Tokens THEN tokenToSlot'[query[p]] ELSE NotFound]
  BY <1>1, <1>2, AnswersAsPromised
<1>9. {p \in Positions : Mask'[p]} = L
  BY <1>1, <1>2 DEF Mask, MissAt
<1>10. Promise!Look(L)
  BY <1>1, <1>2, <1>3, <1>4, <1>5, <1>6, <1>7, <1>8, <1>9
     DEF Promise!Look, Promise!Valid, OldKey, OldLru
<1>11. L \in SUBSET Promise!Missing
  BY <1>3 DEF Promise!Leaders
<1> QED
  BY <1>10, <1>11 DEF Promise!Next

\* What a thread does is not seen before the host sees the kernel's end.
LEMMA ThreadUnseen ==
  ASSUME NEW t \in Tids, ThreadStep(t), prior' = prior
  PROVE  UNCHANGED Promise!vars
<1>1. op = "lookup" /\ op' = op /\ query' = query
  BY DEF ThreadStep, ClearFlags, LookupPadding, LookupHit, LookupClaimed,
         LookupMiss, Claim, LookupEnd, CountHits, CompactLru, CountMisses,
         Install, AllocEnd, RewriteLru, AtQuery, In, host
<1>2. Running /\ Running'
  BY <1>1 DEF Running
<1> QED
  BY <1>1, <1>2 DEF Promise!vars, Promise!tables, Promise!answer, Mask

LEMMA StutterUnseen ==
  ASSUME UNCHANGED <<tables, outputs, query, op, prior>>
  PROVE  UNCHANGED Promise!vars
BY DEF Promise!vars, Promise!tables, Promise!answer, Mask, Running, tables, outputs

LEMMA StepImplements ==
  ASSUME IInv, HistoryInv, [NextH]_historyVars
  PROVE  [Promise!Next]_(Promise!vars)
<1>1. CASE NextH
  <2>1. ASSUME NEW q \in Workload, Launch(q) PROVE Promise!Ask
    BY <1>1, <2>1, LaunchImplements DEF NextH, Launch
  <2>2. CASE HostSync
    BY <1>1, <2>2, HostSyncImplements DEF NextH, HostSync
  <2>3. CASE LoadMisses
    <3>1. UNCHANGED <<tokenToSlot, slotToToken, lru, slotIds, missMask, query>>
          /\ ~ Running /\ ~ Running'
      BY <2>3 DEF LoadMisses, Running, tables, outputs
    <3>2. Mask' = Mask /\ Running' = Running
      BY <2>3, <3>1 DEF Mask, Running, LoadMisses
    <3> QED
      BY <3>1, <3>2 DEF Promise!vars, Promise!tables, Promise!answer
  <2>4. ASSUME NEW t \in Tids, ThreadStep(t) PROVE UNCHANGED Promise!vars
    <3>1. op = "lookup"
      BY <2>4 DEF ThreadStep, ClearFlags, LookupPadding, LookupHit, LookupClaimed,
                  LookupMiss, Claim, LookupEnd, CountHits, CompactLru, CountMisses,
                  Install, AllocEnd, RewriteLru, AtQuery, In
    <3> QED
      BY <1>1, <2>4, <3>1, ThreadUnseen DEF NextH
  <2> QED
    BY <1>1, <2>1, <2>2, <2>3, <2>4 DEF NextH, Next, Promise!Next
<1>2. CASE UNCHANGED historyVars
  BY <1>2, StutterUnseen DEF historyVars, vars, host
<1> QED
  BY <1>1, <1>2

\* Every behaviour of the kernel's threads, in whatever order they step, is
\* one of atomic batches: the maps, the order, the answer and the positions to
\* load of each launch are those of one lookup of the whole batch.
THEOREM ImplementsBatch == SpecH => ImplementsBatchLru
<1>1. InitH => IInv /\ HistoryInv
  BY InitEstablishes DEF InitH, Init, HistoryInv
<1>2. IInv /\ HistoryInv /\ [NextH]_historyVars => (IInv /\ HistoryInv)'
  <2>1. IInv /\ [NextH]_historyVars => IInv'
    BY StepKeeps DEF NextH, historyVars
  <2> QED
    BY <2>1, HistoryStep
<1>3. IInv /\ HistoryInv /\ [NextH]_historyVars => [Promise!Next]_(Promise!vars)
  BY StepImplements
<1> QED
  BY <1>1, <1>2, <1>3, InitImplements, PTL
     DEF SpecH, ImplementsBatchLru, Promise!Spec
=============================================================================
