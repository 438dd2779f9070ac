---------------------------- MODULE SlotSimProofs ----------------------------
(***************************************************************************)
(* The slot pool of the eviction simulator, for every configuration that    *)
(* validate_config accepts and whatever tokens the workload draws.          *)
(***************************************************************************)
EXTENDS SlotSimHistory, SequenceTheorems, FiniteSetTheorems, TLAPS

Entries == Tokens \X Slots
Counters == [hits : Nat, misses : Nat, installs : Nat, shortages : Nat, evictions : Nat]

Shapes ==
  /\ freeSlots \in Seq(Slots)
  /\ residents \in Seq(Entries)
  /\ phase \in {"prepare", "resolve"}
  /\ step \in 0..Steps
  /\ req \in 0..(ReqNum - 1)
  /\ query \in Seq(Tokens)
  /\ stats \in Counters
  /\ total \in Counters

\* Every slot is somewhere; there are as many places as slots.
Placed ==
  /\ Len(freeSlots) + Len(residents) = TotalSlots
  /\ \A s \in Slots : \/ \E i \in 1..Len(freeSlots) : freeSlots[i] = s
                      \/ \E i \in 1..Len(residents) : residents[i][2] = s

\* A token is resident once.
Distinct == \A i, j \in 1..Len(residents) : residents[i][1] = residents[j][1] => i = j

\* The counters of a step start from nothing; evictions alone move before its
\* first query, and its step is one of the run.
StepShape ==
  /\ phase = "prepare" => /\ query = << >>
                          /\ stats.hits = 0 /\ stats.misses = 0
                          /\ stats.installs = 0 /\ stats.shortages = 0
  /\ phase = "resolve" => step < Steps

\* Queries begun so far, over all steps.
Begun == ReqNum * step + (IF phase = "resolve" THEN req + 1 ELSE 0)

\* The tokens they asked for.
Asked == TopK * Begun

\* What was installed and not evicted is resident; a miss is installed or a
\* shortage; a token asked for is a hit, a miss or still to be resolved.
Installed ==
  total.installs + stats.installs = total.evictions + stats.evictions + Len(residents)
Missed ==
  total.misses + stats.misses =
    total.installs + stats.installs + total.shortages + stats.shortages
Resolved == total.hits + stats.hits + total.misses + stats.misses = Asked - Len(query)

Counted == Installed /\ Missed /\ Resolved

IInv == Shapes /\ Placed /\ Distinct /\ StepShape /\ Counted /\ ReserveServes

-----------------------------------------------------------------------------
(* The configuration, and the sequences the actions build.                  *)

LEMMA Config ==
  /\ TotalSlots \in Nat \ {0}
  /\ FreeSlotTarget \in Nat /\ FreeSlotTarget <= TotalSlots
  /\ ReqNum \in Nat \ {0} /\ Steps \in Nat \ {0} /\ TopK \in Nat \ {0}
<1>1. /\ ReqNum \in Nat \ {0} /\ SlotsPerReq \in Nat \ {0} /\ TargetPerReq \in Nat
      /\ Steps \in Nat \ {0} /\ TopK \in Nat \ {0}
  BY ConfigAssumption
<1>2. TotalSlots \in Nat \ {0} /\ ReqNum * TargetPerReq \in Nat
  BY <1>1 DEF TotalSlots
<1> QED
  BY <1>1, <1>2 DEF FreeSlotTarget

LEMMA FrontOf ==
  ASSUME NEW S, NEW s \in Seq(S), s # << >>
  PROVE  /\ Front(s) \in Seq(S)
         /\ Len(Front(s)) = Len(s) - 1
         /\ \A i \in 1..(Len(s) - 1) : Front(s)[i] = s[i]
         /\ Len(s) \in Nat \ {0}
         /\ Last(s) = s[Len(s)] /\ Last(s) \in S
<1>1. Len(s) \in Nat \ {0} /\ \A i \in 1..(Len(s) - 1) : s[i] \in S
  BY LenProperties, EmptySeq
<1>2. /\ SubSeq(s, 1, Len(s) - 1) \in Seq(S)
      /\ Len(SubSeq(s, 1, Len(s) - 1)) = IF 1 <= Len(s) - 1 THEN Len(s) - 1 - 1 + 1 ELSE 0
      /\ \A i \in 1..(Len(s) - 1 - 1 + 1) : SubSeq(s, 1, Len(s) - 1)[i] = s[1 + i - 1]
  BY <1>1, SubSeqProperties
<1>3. Last(s) = s[Len(s)] /\ Last(s) \in S
  BY <1>1, LenProperties DEF Last
<1>4. /\ Front(s) \in Seq(S) /\ Len(Front(s)) = Len(s) - 1
      /\ \A i \in 1..(Len(s) - 1) : Front(s)[i] = s[1 + i - 1]
  <2> DEFINE n == Len(s)
             f == SubSeq(s, 1, n - 1)
  <2>1. n \in Nat \ {0} /\ f = Front(s)
    BY <1>1 DEF Front
  <2>2. /\ f \in Seq(S)
        /\ Len(f) = IF 1 <= n - 1 THEN n - 1 - 1 + 1 ELSE 0
        /\ \A i \in 1..(n - 1 - 1 + 1) : f[i] = s[1 + i - 1]
    BY <1>2
  <2> HIDE DEF n, f
  <2>3. Len(f) = n - 1 /\ n - 1 - 1 + 1 = n - 1
    BY <2>1, <2>2
  <2>4. f \in Seq(S) /\ Len(f) = n - 1 /\ \A i \in 1..(n - 1) : f[i] = s[1 + i - 1]
    BY <2>2, <2>3
  <2> QED
    BY <2>1, <2>4 DEF n
<1>5. \A i \in 1..(Len(s) - 1) : 1 + i - 1 = i
  BY <1>1
<1> QED
  BY <1>1, <1>3, <1>4, <1>5

\* move_to_end permutes: entry i goes last, those behind it move up.
LEMMA MovedToEnd ==
  ASSUME NEW S, NEW s \in Seq(S), NEW i \in 1..Len(s), NEW t,
         t = Append(RemoveAt(s, i), s[i])
  PROVE  /\ t \in Seq(S)
         /\ Len(t) = Len(s)
         /\ \A j \in 1..Len(s) :
              t[j] = IF j < i THEN s[j] ELSE IF j < Len(s) THEN s[j + 1] ELSE s[i]
<1> DEFINE l == SubSeq(s, 1, i - 1)
           r == SubSeq(s, i + 1, Len(s))
<1>1. Len(s) \in Nat /\ i \in Nat /\ \A j \in 1..Len(s) : s[j] \in S
  BY LenProperties
<1>2. /\ l \in Seq(S) /\ Len(l) = i - 1
      /\ \A j \in 1..(i - 1) : l[j] = s[j]
  <2>1. \A j \in 1..(i - 1) : s[j] \in S
    BY <1>1
  <2>2. /\ SubSeq(s, 1, i - 1) \in Seq(S)
        /\ Len(SubSeq(s, 1, i - 1)) = IF 1 <= i - 1 THEN i - 1 - 1 + 1 ELSE 0
        /\ \A j \in 1..(i - 1 - 1 + 1) : SubSeq(s, 1, i - 1)[j] = s[1 + j - 1]
    BY <1>1, <2>1, SubSeqProperties
  <2> QED
    BY <1>1, <2>2
<1>3. /\ r \in Seq(S) /\ Len(r) = Len(s) - i
      /\ \A j \in 1..(Len(s) - i) : r[j] = s[i + j]
  <2>1. \A j \in (i + 1)..Len(s) : s[j] \in S
    BY <1>1
  <2>2. /\ SubSeq(s, i + 1, Len(s)) \in Seq(S)
        /\ Len(SubSeq(s, i + 1, Len(s))) =
             IF i + 1 <= Len(s) THEN Len(s) - (i + 1) + 1 ELSE 0
        /\ \A j \in 1..(Len(s) - (i + 1) + 1) :
             SubSeq(s, i + 1, Len(s))[j] = s[(i + 1) + j - 1]
    BY <1>1, <2>1, SubSeqProperties
  <2> QED
    BY <1>1, <2>2
<1> HIDE DEF l, r
<1>4. /\ l \o r \in Seq(S) /\ Len(l \o r) = Len(s) - 1
      /\ \A j \in 1..(Len(s) - 1) : (l \o r)[j] = IF j < i THEN s[j] ELSE s[j + 1]
  <2>1. /\ l \o r \in Seq(S) /\ Len(l \o r) = Len(l) + Len(r)
        /\ \A j \in 1..(Len(l) + Len(r)) :
             (l \o r)[j] = IF j <= Len(l) THEN l[j] ELSE r[j - Len(l)]
    BY <1>2, <1>3, ConcatProperties
  <2>2. Len(l) + Len(r) = Len(s) - 1
    BY <1>1, <1>2, <1>3
  <2>3. ASSUME NEW j \in 1..(Len(s) - 1)
        PROVE  (l \o r)[j] = IF j < i THEN s[j] ELSE s[j + 1]
    <3>1. CASE j < i
      <4>1. j \in 1..(Len(l) + Len(r)) /\ j <= Len(l) /\ j \in 1..(i - 1)
        BY <1>1, <1>2, <2>2, <3>1
      <4>2. (l \o r)[j] = l[j] /\ l[j] = s[j]
        BY <1>2, <2>1, <4>1
      <4> QED
        BY <3>1, <4>2
    <3>2. CASE ~ (j < i)
      <4>1. /\ j \in 1..(Len(l) + Len(r)) /\ ~ (j <= Len(l))
            /\ j - Len(l) \in 1..(Len(s) - i) /\ i + (j - Len(l)) = j + 1
        BY <1>1, <1>2, <2>2, <3>2
      <4>2. (l \o r)[j] = r[j - Len(l)]
        BY <2>1, <4>1
      <4>3. r[j - Len(l)] = s[i + (j - Len(l))]
        BY <1>3, <4>1
      <4> QED
        BY <3>2, <4>1, <4>2, <4>3
    <3> QED
      BY <3>1, <3>2
  <2> QED
    BY <2>1, <2>2, <2>3
<1>5. t = Append(l \o r, s[i])
  BY DEF RemoveAt, l, r
<1>6. /\ t \in Seq(S) /\ Len(t) = Len(s)
      /\ \A j \in 1..(Len(s) - 1) : t[j] = (l \o r)[j]
      /\ t[Len(s)] = s[i]
  BY <1>1, <1>4, <1>5, AppendProperties
<1>7. ASSUME NEW j \in 1..Len(s)
      PROVE  t[j] = IF j < i THEN s[j] ELSE IF j < Len(s) THEN s[j + 1] ELSE s[i]
  <2>1. CASE j < Len(s)
    <3>1. j \in 1..(Len(s) - 1)
      BY <1>1, <2>1
    <3> QED
      BY <1>4, <1>6, <2>1, <3>1
  <2>2. CASE ~ (j < Len(s))
    <3>1. j = Len(s) /\ ~ (j < i)
      BY <1>1, <2>2
    <3> QED
      BY <1>6, <2>2, <3>1
  <2> QED
    BY <2>1, <2>2
<1> QED
  BY <1>6, <1>7

LEMMA QueryShape ==
  ASSUME NEW r \in 0..(ReqNum - 1), NEW q \in Queries(r)
  PROVE  q \in Seq(Tokens) /\ Len(q) = TopK
<1>1. PICK ids \in [1..TopK -> TokenIds] : q = [i \in 1..TopK |-> <<r, ids[i]>>]
  BY DEF Queries
<1>2. \A i \in 1..TopK : <<r, ids[i]>> \in Tokens
  BY <1>1 DEF Tokens
<1> QED
  BY <1>1, <1>2, Config

-----------------------------------------------------------------------------
(* The two actions that rearrange the pool, as they act on its entries.     *)

LEMMA EvictEffect ==
  ASSUME IInv, Evict
  PROVE  /\ residents' \in Seq(Entries) /\ Len(residents') = Len(residents) - 1
         /\ \A i \in 1..Len(residents') : residents'[i] = residents[i + 1]
         /\ freeSlots' \in Seq(Slots) /\ Len(freeSlots') = Len(freeSlots) + 1
         /\ \A i \in 1..Len(freeSlots) : freeSlots'[i] = freeSlots[i]
         /\ freeSlots'[Len(freeSlots) + 1] = residents[1][2]
         /\ Len(residents) \in Nat \ {0} /\ Len(freeSlots) \in Nat
<1>1. residents \in Seq(Entries) /\ residents # << >> /\ freeSlots \in Seq(Slots)
  BY DEF IInv, Shapes, Evict, ReserveShort
<1>2. /\ Len(residents) \in Nat \ {0} /\ Len(freeSlots) \in Nat
      /\ Head(residents) = residents[1] /\ residents[1] \in Entries
  BY <1>1, LenProperties, EmptySeq
<1>3. residents[1][2] \in Slots
  BY <1>2 DEF Entries
<1>4. residents' = Tail(residents) /\ freeSlots' = Append(freeSlots, residents[1][2])
  BY <1>2 DEF Evict
<1> QED
  BY <1>1, <1>2, <1>3, <1>4, HeadTailProperties, AppendProperties

LEMMA InstallEffect ==
  ASSUME IInv, ResolveInstall
  PROVE  /\ residents' \in Seq(Entries) /\ Len(residents') = Len(residents) + 1
         /\ \A i \in 1..Len(residents) : residents'[i] = residents[i]
         /\ residents'[Len(residents) + 1] = <<Head(query), freeSlots[Len(freeSlots)]>>
         /\ freeSlots' \in Seq(Slots) /\ Len(freeSlots') = Len(freeSlots) - 1
         /\ \A i \in 1..(Len(freeSlots) - 1) : freeSlots'[i] = freeSlots[i]
         /\ Len(residents) \in Nat /\ Len(freeSlots) \in Nat \ {0}
<1>1. /\ residents \in Seq(Entries) /\ freeSlots \in Seq(Slots) /\ freeSlots # << >>
      /\ query \in Seq(Tokens) /\ query # << >>
  BY DEF IInv, Shapes, ResolveInstall, Resolving
<1>2. Head(query) \in Tokens /\ Len(residents) \in Nat
  BY <1>1, HeadTailProperties, LenProperties
<1>3. /\ freeSlots' \in Seq(Slots) /\ Len(freeSlots') = Len(freeSlots) - 1
      /\ \A i \in 1..(Len(freeSlots) - 1) : freeSlots'[i] = freeSlots[i]
      /\ Len(freeSlots) \in Nat \ {0}
      /\ Last(freeSlots) = freeSlots[Len(freeSlots)] /\ Last(freeSlots) \in Slots
  BY <1>1, FrontOf DEF ResolveInstall, StackAfterPop
<1>4. <<Head(query), Last(freeSlots)>> \in Entries
  BY <1>2, <1>3 DEF Entries
<1>5. residents' = Append(residents, <<Head(query), Last(freeSlots)>>)
  BY DEF ResolveInstall
<1> QED
  BY <1>1, <1>2, <1>3, <1>4, <1>5, AppendProperties

\* A hit finds the token once and puts its entry last.
LEMMA HitEffect ==
  ASSUME IInv, ResolveHit
  PROVE  \E i \in 1..Len(residents) :
           /\ residents' \in Seq(Entries) /\ Len(residents') = Len(residents)
           /\ Len(residents) \in Nat
           /\ residents[i][1] = Head(query)
           /\ \A j \in 1..Len(residents) :
                residents'[j] = IF j < i THEN residents[j]
                                ELSE IF j < Len(residents) THEN residents[j + 1]
                                ELSE residents[i]
<1>1. residents \in Seq(Entries)
  BY DEF IInv, Shapes
<1>2. Len(residents) \in Nat /\ DOMAIN residents = 1..Len(residents)
  BY <1>1, LenProperties
<1> DEFINE i == CHOOSE i \in DOMAIN residents : residents[i][1] = Head(query)
<1>3. i \in 1..Len(residents) /\ residents[i][1] = Head(query)
  <2>1. \E j \in DOMAIN residents : residents[j][1] = Head(query)
    BY DEF ResolveHit, ResidentTokens
  <2> QED
    BY <1>2, <2>1
<1>4. residents' = Append(RemoveAt(residents, i), residents[i])
  BY DEF ResolveHit, Touched
<1> HIDE DEF i
<1>5. /\ residents' \in Seq(Entries) /\ Len(residents') = Len(residents)
      /\ \A j \in 1..Len(residents) :
           residents'[j] = IF j < i THEN residents[j]
                           ELSE IF j < Len(residents) THEN residents[j + 1]
                           ELSE residents[i]
  <2>1. PICK t : t = Append(RemoveAt(residents, i), residents[i])
    OBVIOUS
  <2>2. /\ t \in Seq(Entries) /\ Len(t) = Len(residents)
        /\ \A j \in 1..Len(residents) :
             t[j] = IF j < i THEN residents[j]
                    ELSE IF j < Len(residents) THEN residents[j + 1]
                    ELSE residents[i]
    <3>1. t \in Seq(Entries) /\ Len(t) = Len(residents)
      BY <1>1, <1>3, <2>1, MovedToEnd
    <3>2. \A j \in 1..Len(residents) :
             t[j] = IF j < i THEN residents[j]
                    ELSE IF j < Len(residents) THEN residents[j + 1]
                    ELSE residents[i]
      BY <1>1, <1>3, <2>1, MovedToEnd
    <3> QED
      BY <3>1, <3>2
  <2>3. residents' = t
    BY <1>4, <2>1
  <2> QED
    BY <2>2, <2>3
<1> QED
  BY <1>2, <1>3, <1>5

-----------------------------------------------------------------------------
(* Every action keeps each slot in its place, and each token in one.        *)

\* The slots and tokens of the pool after a step.
Pool == Placed /\ Distinct

LEMMA EvictPool ==
  ASSUME IInv, Evict
  PROVE  Pool'
<1> DEFINE n == Len(residents)
           m == Len(freeSlots)
<1>1. /\ Len(residents') = n - 1 /\ Len(freeSlots') = m + 1
      /\ \A i \in 1..(n - 1) : residents'[i] = residents[i + 1]
      /\ \A i \in 1..m : freeSlots'[i] = freeSlots[i]
      /\ freeSlots'[m + 1] = residents[1][2]
      /\ n \in Nat \ {0} /\ m \in Nat
  BY EvictEffect
<1>2. /\ m + n = TotalSlots
      /\ \A s \in Slots : \/ \E i \in 1..m : freeSlots[i] = s
                          \/ \E i \in 1..n : residents[i][2] = s
      /\ \A i, j \in 1..n : residents[i][1] = residents[j][1] => i = j
  BY DEF IInv, Placed, Distinct
<1> HIDE DEF n, m
<1>3. ASSUME NEW s \in Slots
      PROVE  \/ \E i \in 1..(m + 1) : freeSlots'[i] = s
             \/ \E i \in 1..(n - 1) : residents'[i][2] = s
  <2>1. CASE \E i \in 1..m : freeSlots[i] = s
    <3>1. PICK i \in 1..m : freeSlots[i] = s
      BY <2>1
    <3>2. i \in 1..(m + 1) /\ freeSlots'[i] = s
      BY <1>1, <3>1
    <3> QED
      BY <3>2
  <2>2. CASE \E i \in 1..n : residents[i][2] = s
    <3>1. PICK i \in 1..n : residents[i][2] = s
      BY <2>2
    <3>2. CASE i = 1
      BY <1>1, <3>1, <3>2
    <3>3. CASE i # 1
      <4>1. i - 1 \in 1..(n - 1) /\ (i - 1) + 1 = i
        BY <1>1, <3>3
      <4>2. residents'[i - 1][2] = s
        BY <1>1, <3>1, <4>1
      <4> QED
        BY <4>1, <4>2
    <3> QED
      BY <3>2, <3>3
  <2> QED
    BY <1>2, <2>1, <2>2
<1>4. ASSUME NEW i \in 1..(n - 1), NEW j \in 1..(n - 1), residents'[i][1] = residents'[j][1]
      PROVE  i = j
  <2>1. i + 1 \in 1..n /\ j + 1 \in 1..n /\ residents[i + 1][1] = residents[j + 1][1]
    BY <1>1, <1>4
  <2>2. i + 1 = j + 1
    BY <1>2, <2>1
  <2> QED
    BY <2>2
<1>5. (m + 1) + (n - 1) = TotalSlots
  BY <1>1, <1>2
<1> QED
  BY <1>1, <1>3, <1>4, <1>5 DEF Pool, Placed, Distinct, TotalSlots, Slots

LEMMA InstallPool ==
  ASSUME IInv, ResolveInstall
  PROVE  Pool'
<1> DEFINE n == Len(residents)
           m == Len(freeSlots)
<1>1. /\ Len(residents') = n + 1 /\ Len(freeSlots') = m - 1
      /\ \A i \in 1..n : residents'[i] = residents[i]
      /\ residents'[n + 1] = <<Head(query), freeSlots[m]>>
      /\ \A i \in 1..(m - 1) : freeSlots'[i] = freeSlots[i]
      /\ n \in Nat /\ m \in Nat \ {0}
  BY InstallEffect
<1>2. /\ m + n = TotalSlots
      /\ \A s \in Slots : \/ \E i \in 1..m : freeSlots[i] = s
                          \/ \E i \in 1..n : residents[i][2] = s
      /\ \A i, j \in 1..n : residents[i][1] = residents[j][1] => i = j
      /\ \A i \in 1..n : residents[i][1] # Head(query)
  <2>1. DOMAIN residents = 1..n
    BY LenProperties DEF IInv, Shapes
  <2> QED
    BY <2>1 DEF IInv, Placed, Distinct, ResolveInstall, ResidentTokens
<1> HIDE DEF n, m
<1>3. ASSUME NEW s \in Slots
      PROVE  \/ \E i \in 1..(m - 1) : freeSlots'[i] = s
             \/ \E i \in 1..(n + 1) : residents'[i][2] = s
  <2>1. CASE \E i \in 1..m : freeSlots[i] = s
    <3>1. PICK i \in 1..m : freeSlots[i] = s
      BY <2>1
    <3>2. CASE i = m
      <4>1. n + 1 \in 1..(n + 1) /\ residents'[n + 1][2] = s
        BY <1>1, <3>1, <3>2
      <4> QED
        BY <4>1
    <3>3. CASE i # m
      <4>1. i \in 1..(m - 1)
        BY <1>1, <3>3
      <4>2. freeSlots'[i] = s
        BY <1>1, <3>1, <4>1
      <4> QED
        BY <4>1, <4>2
    <3> QED
      BY <3>2, <3>3
  <2>2. CASE \E i \in 1..n : residents[i][2] = s
    <3>1. PICK i \in 1..n : residents[i][2] = s
      BY <2>2
    <3>2. i \in 1..(n + 1) /\ residents'[i][2] = s
      BY <1>1, <3>1
    <3> QED
      BY <3>2
  <2> QED
    BY <1>2, <2>1, <2>2
<1>4. ASSUME NEW i \in 1..(n + 1), NEW j \in 1..(n + 1), residents'[i][1] = residents'[j][1]
      PROVE  i = j
  <2>1. \A k \in 1..(n + 1) : k \in 1..n \/ k = n + 1
    BY <1>1
  <2>2. \A k \in 1..n : residents'[k][1] = residents[k][1] /\ residents'[k][1] # Head(query)
    BY <1>1, <1>2
  <2>3. residents'[n + 1][1] = Head(query)
    BY <1>1
  <2> QED
    BY <1>2, <1>4, <2>1, <2>2, <2>3
<1>5. (m - 1) + (n + 1) = TotalSlots
  BY <1>1, <1>2
<1> QED
  BY <1>1, <1>3, <1>4, <1>5 DEF Pool, Placed, Distinct, TotalSlots, Slots

LEMMA HitPool ==
  ASSUME IInv, ResolveHit
  PROVE  Pool'
<1> DEFINE n == Len(residents)
<1>1. PICK h \in 1..n :
        /\ Len(residents') = n /\ n \in Nat
        /\ \A j \in 1..n :
             residents'[j] = IF j < h THEN residents[j]
                             ELSE IF j < n THEN residents[j + 1] ELSE residents[h]
  BY HitEffect
<1>2. /\ Len(freeSlots) + n = TotalSlots
      /\ \A s \in Slots : \/ \E i \in 1..Len(freeSlots) : freeSlots[i] = s
                          \/ \E i \in 1..n : residents[i][2] = s
      /\ \A i, j \in 1..n : residents[i][1] = residents[j][1] => i = j
  BY DEF IInv, Placed, Distinct
<1> HIDE DEF n
\* Where entry i goes, and where the entry at j comes from.
<1> DEFINE To(i) == IF i < h THEN i ELSE IF i = h THEN n ELSE i - 1
           From(j) == IF j < h THEN j ELSE IF j < n THEN j + 1 ELSE h
<1>3. \A j \in 1..n : From(j) \in 1..n /\ To(From(j)) = j
  BY <1>1
<1>4. \A i \in 1..n : To(i) \in 1..n /\ From(To(i)) = i
  BY <1>1
<1>5. \A j \in 1..n : residents'[j] = residents[From(j)]
  BY <1>1
<1> HIDE DEF To, From
<1>6. ASSUME NEW s \in Slots
      PROVE  \/ \E i \in 1..Len(freeSlots) : freeSlots[i] = s
             \/ \E i \in 1..n : residents'[i][2] = s
  <2>1. CASE \E i \in 1..n : residents[i][2] = s
    <3>1. PICK i \in 1..n : residents[i][2] = s
      BY <2>1
    <3>2. To(i) \in 1..n /\ residents'[To(i)][2] = s
      BY <1>4, <1>5, <3>1
    <3> QED
      BY <3>2
  <2> QED
    BY <1>2, <2>1
<1>7. ASSUME NEW i \in 1..n, NEW j \in 1..n, residents'[i][1] = residents'[j][1]
      PROVE  i = j
  <2>1. From(i) = From(j)
    BY <1>2, <1>3, <1>5, <1>7
  <2> QED
    BY <1>3, <2>1
<1>8. freeSlots' = freeSlots
  BY DEF ResolveHit
<1> QED
  BY <1>1, <1>2, <1>6, <1>7, <1>8 DEF Pool, Placed, Distinct, TotalSlots, Slots

-----------------------------------------------------------------------------
(* The types, the counters and the reserve.                                 *)

LEMMA OneMore ==
  ASSUME NEW a \in Nat, NEW b \in Nat
  PROVE  a * (b + 1) = a * b + a /\ a * b \in Nat
  OBVIOUS

LEMMA BegunType == IInv => Begun \in Nat
<1> SUFFICES ASSUME IInv PROVE Begun \in Nat
  OBVIOUS
<1>1. ReqNum \in Nat /\ step \in Nat /\ req \in Nat
  BY Config DEF IInv, Shapes
<1>2. ReqNum * step \in Nat
  BY <1>1, OneMore
<1> QED
  BY <1>1, <1>2 DEF Begun

\* The types of the numbers, apart from what is said of them.
InstalledTypes ==
  /\ stats.installs \in Nat /\ stats.evictions \in Nat
  /\ total.installs \in Nat /\ total.evictions \in Nat /\ Len(residents) \in Nat
MissedTypes ==
  /\ stats.misses \in Nat /\ stats.installs \in Nat /\ stats.shortages \in Nat
  /\ total.misses \in Nat /\ total.installs \in Nat /\ total.shortages \in Nat
ResolvedTypes ==
  /\ stats.hits \in Nat /\ stats.misses \in Nat /\ total.hits \in Nat /\ total.misses \in Nat
  /\ Asked \in Nat /\ Len(query) \in Nat
NumberTypes ==
  /\ InstalledTypes /\ MissedTypes /\ ResolvedTypes
  /\ Len(freeSlots) \in Nat /\ FreeSlotTarget \in Nat
  /\ step \in Nat /\ req \in Nat

LEMMA NumbersTyped == IInv => NumberTypes
<1> SUFFICES ASSUME IInv PROVE NumberTypes
  OBVIOUS
<1>1. Len(freeSlots) \in Nat /\ Len(residents) \in Nat /\ Len(query) \in Nat
  BY LenProperties DEF IInv, Shapes
<1>2. step \in Nat /\ req \in Nat
  BY Config DEF IInv, Shapes
<1>3. Asked \in Nat
  <2>1. Begun \in Nat /\ TopK \in Nat
    BY BegunType, Config
  <2> QED
    BY <2>1, OneMore DEF Asked
<1>4. stats \in Counters /\ total \in Counters
  BY DEF IInv, Shapes
<1>5. /\ stats.hits \in Nat /\ stats.misses \in Nat /\ stats.installs \in Nat
      /\ stats.shortages \in Nat /\ stats.evictions \in Nat
      /\ total.hits \in Nat /\ total.misses \in Nat /\ total.installs \in Nat
      /\ total.shortages \in Nat /\ total.evictions \in Nat
  BY <1>4 DEF Counters
<1> QED
  BY <1>1, <1>2, <1>3, <1>5, Config
     DEF NumberTypes, InstalledTypes, MissedTypes, ResolvedTypes

LEMMA EvictKeeps ==
  ASSUME IInv, Evict
  PROVE  IInv'
<1>1. Pool'
  BY EvictPool
<1>2. NumberTypes /\ Counted /\ StepShape /\ ReserveServes
  BY NumbersTyped DEF IInv
<1>3. Len(residents') = Len(residents) - 1 /\ Len(freeSlots') = Len(freeSlots) + 1
  BY EvictEffect
<1>4. stats' = [stats EXCEPT !.evictions = @ + 1] /\ stats \in Counters
  BY DEF IInv, Shapes, Evict
<1>5. /\ stats'.hits = stats.hits /\ stats'.misses = stats.misses
      /\ stats'.installs = stats.installs /\ stats'.shortages = stats.shortages
      /\ stats'.evictions = stats.evictions + 1
  BY <1>4 DEF Counters
<1>6. /\ phase = "prepare" /\ Len(freeSlots) < FreeSlotTarget
      /\ phase' = phase /\ step' = step /\ req' = req /\ query' = query /\ total' = total
  BY DEF Evict, ReserveShort
<1>7. Asked' = Asked
  BY <1>6 DEF Asked, Begun
<1>8. Shapes'
  <2>1. residents' \in Seq(Entries) /\ freeSlots' \in Seq(Slots)
    BY EvictEffect
  <2>2. stats' \in Counters
    BY <1>4 DEF Counters
  <2> QED
    BY <1>6, <2>1, <2>2 DEF IInv, Shapes, Slots, Tokens, Entries, TotalSlots
<1>9. StepShape'
  BY <1>2, <1>5, <1>6 DEF StepShape
<1>10. Counted'
  <2>1. NumberTypes /\ Counted /\ total' = total /\ query' = query
    BY <1>2, <1>6
  <2>2. Installed'
    <3>1. PICK a \in Nat, b \in Nat, c \in Nat, d \in Nat, l \in Nat :
            /\ total.installs = a /\ stats.installs = b /\ total.evictions = c
            /\ stats.evictions = d /\ Len(residents) = l
      BY <2>1 DEF NumberTypes, InstalledTypes
    <3>2. a + b = c + d + l
      BY <2>1, <3>1 DEF Counted, Installed
    <3>3. a + b = c + (d + 1) + (l - 1)
      BY <3>2
    <3> QED
      BY <1>3, <1>5, <2>1, <3>1, <3>3 DEF Installed
  <2>3. Missed'
    BY <2>1, <1>5 DEF NumberTypes, MissedTypes, Counted, Missed
  <2>4. Resolved'
    BY <2>1, <1>5, <1>7 DEF NumberTypes, ResolvedTypes, Counted, Resolved
  <2> QED
    BY <2>2, <2>3, <2>4 DEF Counted
<1>11. ReserveServes'
  <2>1. NumberTypes /\ stats.installs = 0 /\ stats.shortages = 0
    BY <1>2, <1>6 DEF StepShape
  <2>2. FreeSlotTarget' = FreeSlotTarget
    BY DEF FreeSlotTarget, TotalSlots
  <2> QED
    BY <2>1, <2>2, <1>3, <1>5, <1>6 DEF NumberTypes, InstalledTypes, MissedTypes, ReserveServes
<1> QED
  BY <1>1, <1>8, <1>9, <1>10, <1>11 DEF IInv, Pool

LEMMA HitKeeps ==
  ASSUME IInv, ResolveHit
  PROVE  IInv'
<1>1. Pool'
  BY HitPool
<1>2. NumberTypes /\ Counted /\ StepShape /\ ReserveServes
  BY NumbersTyped DEF IInv
<1>3. Len(residents') = Len(residents) /\ freeSlots' = freeSlots
  BY HitEffect DEF ResolveHit
<1>4. stats' = [stats EXCEPT !.hits = @ + 1] /\ stats \in Counters
  BY DEF IInv, Shapes, ResolveHit
<1>5. /\ stats'.hits = stats.hits + 1 /\ stats'.misses = stats.misses
      /\ stats'.installs = stats.installs /\ stats'.shortages = stats.shortages
      /\ stats'.evictions = stats.evictions
  BY <1>4 DEF Counters
<1>6. /\ phase = "resolve" /\ query \in Seq(Tokens) /\ query # << >> /\ query' = Tail(query)
      /\ phase' = phase /\ step' = step /\ req' = req /\ total' = total
  BY DEF IInv, Shapes, ResolveHit, Resolving
<1>7. Asked' = Asked /\ Len(query') = Len(query) - 1 /\ query' \in Seq(Tokens)
  BY <1>6, HeadTailProperties DEF Asked, Begun
<1>8. Shapes'
  <2>1. residents' \in Seq(Entries) /\ freeSlots' \in Seq(Slots)
    BY HitEffect DEF IInv, Shapes, ResolveHit
  <2>2. stats' \in Counters
    BY <1>4 DEF Counters
  <2> QED
    BY <1>6, <1>7, <2>1, <2>2 DEF IInv, Shapes, Slots, Tokens, Entries, TotalSlots
<1>9. StepShape'
  BY <1>2, <1>6 DEF StepShape
<1>10. Counted'
  <2>1. NumberTypes /\ Counted /\ total' = total
    BY <1>2, <1>6
  <2>2. Asked' = Asked /\ Len(query') = Len(query) - 1
    BY <1>7
  <2>3. Installed'
    BY <2>1, <1>3, <1>5 DEF NumberTypes, InstalledTypes, Counted, Installed
  <2>4. Missed'
    BY <2>1, <1>5 DEF NumberTypes, MissedTypes, Counted, Missed
  <2>5. Resolved'
    <3>1. PICK a \in Nat, b \in Nat, c \in Nat, d \in Nat, e \in Nat, q \in Nat :
            /\ total.hits = a /\ stats.hits = b /\ total.misses = c
            /\ stats.misses = d /\ Asked = e /\ Len(query) = q
      BY <2>1 DEF NumberTypes, ResolvedTypes
    <3>2. a + b + c + d = e - q
      BY <2>1, <3>1 DEF Counted, Resolved
    <3>3. a + (b + 1) + c + d = e - (q - 1)
      BY <3>2
    <3> QED
      BY <1>5, <2>1, <2>2, <3>1, <3>3 DEF Resolved
  <2> QED
    BY <2>3, <2>4, <2>5 DEF Counted
<1>11. ReserveServes'
  <2>1. NumberTypes /\ ReserveServes /\ phase = "resolve" /\ phase' = "resolve"
    BY <1>2, <1>6
  <2>2. FreeSlotTarget' = FreeSlotTarget
    BY DEF FreeSlotTarget, TotalSlots
  <2> QED
    BY <2>1, <2>2, <1>3, <1>5 DEF NumberTypes, InstalledTypes, MissedTypes, ReserveServes
<1> QED
  BY <1>1, <1>8, <1>9, <1>10, <1>11 DEF IInv, Pool

LEMMA InstallKeeps ==
  ASSUME IInv, ResolveInstall
  PROVE  IInv'
<1>1. Pool'
  BY InstallPool
<1>2. NumberTypes /\ Counted /\ StepShape /\ ReserveServes
  BY NumbersTyped DEF IInv
<1>3. /\ Len(residents') = Len(residents) + 1 /\ Len(freeSlots') = Len(freeSlots) - 1
      /\ freeSlots # << >>
  BY InstallEffect DEF ResolveInstall
<1>4. stats' = [stats EXCEPT !.misses = @ + 1, !.installs = @ + 1] /\ stats \in Counters
  BY DEF IInv, Shapes, ResolveInstall
<1>5. /\ stats'.hits = stats.hits /\ stats'.misses = stats.misses + 1
      /\ stats'.installs = stats.installs + 1 /\ stats'.shortages = stats.shortages
      /\ stats'.evictions = stats.evictions
  BY <1>4 DEF Counters
<1>6. /\ phase = "resolve" /\ query \in Seq(Tokens) /\ query # << >> /\ query' = Tail(query)
      /\ phase' = phase /\ step' = step /\ req' = req /\ total' = total
  BY DEF IInv, Shapes, ResolveInstall, Resolving
<1>7. Asked' = Asked /\ Len(query') = Len(query) - 1 /\ query' \in Seq(Tokens)
  BY <1>6, HeadTailProperties DEF Asked, Begun
<1>8. Shapes'
  <2>1. residents' \in Seq(Entries) /\ freeSlots' \in Seq(Slots)
    BY InstallEffect
  <2>2. stats' \in Counters
    <3>1. stats.misses + 1 \in Nat /\ stats.installs + 1 \in Nat
      BY <1>4 DEF Counters
    <3> QED
      BY <1>4, <3>1 DEF Counters
  <2> QED
    BY <1>6, <1>7, <2>1, <2>2 DEF IInv, Shapes, Slots, Tokens, Entries, TotalSlots
<1>9. StepShape'
  BY <1>2, <1>6 DEF StepShape
<1>10. Counted'
  <2>1. NumberTypes /\ Counted /\ total' = total
    BY <1>2, <1>6
  <2>2. Asked' = Asked /\ Len(query') = Len(query) - 1
    BY <1>7
  <2>3. Installed'
    <3>1. PICK a \in Nat, b \in Nat, c \in Nat, d \in Nat, l \in Nat :
            /\ total.installs = a /\ stats.installs = b /\ total.evictions = c
            /\ stats.evictions = d /\ Len(residents) = l
      BY <2>1 DEF NumberTypes, InstalledTypes
    <3>2. a + b = c + d + l
      BY <2>1, <3>1 DEF Counted, Installed
    <3>3. a + (b + 1) = c + d + (l + 1)
      BY <3>2
    <3> QED
      BY <1>3, <1>5, <2>1, <3>1, <3>3 DEF Installed
  <2>4. Missed'
    <3>1. PICK a \in Nat, b \in Nat, c \in Nat, d \in Nat, e \in Nat, f \in Nat :
            /\ total.misses = a /\ stats.misses = b /\ total.installs = c
            /\ stats.installs = d /\ total.shortages = e /\ stats.shortages = f
      BY <2>1 DEF NumberTypes, MissedTypes
    <3>2. a + b = c + d + e + f
      BY <2>1, <3>1 DEF Counted, Missed
    <3>3. a + (b + 1) = c + (d + 1) + e + f
      BY <3>2
    <3> QED
      BY <1>5, <2>1, <3>1, <3>3 DEF Missed
  <2>5. Resolved'
    <3>1. PICK a \in Nat, b \in Nat, c \in Nat, d \in Nat, e \in Nat, q \in Nat :
            /\ total.hits = a /\ stats.hits = b /\ total.misses = c
            /\ stats.misses = d /\ Asked = e /\ Len(query) = q
      BY <2>1 DEF NumberTypes, ResolvedTypes
    <3>2. a + b + c + d = e - q
      BY <2>1, <3>1 DEF Counted, Resolved
    <3>3. a + b + c + (d + 1) = e - (q - 1)
      BY <3>2
    <3> QED
      BY <1>5, <2>1, <2>2, <3>1, <3>3 DEF Resolved
  <2> QED
    BY <2>3, <2>4, <2>5 DEF Counted
<1>11. ReserveServes'
  <2>1. NumberTypes /\ ReserveServes /\ phase = "resolve" /\ phase' = "resolve"
    BY <1>2, <1>6
  <2>2. FreeSlotTarget' = FreeSlotTarget
    BY DEF FreeSlotTarget, TotalSlots
  <2> QED
    BY <2>1, <2>2, <1>3, <1>5 DEF NumberTypes, InstalledTypes, MissedTypes, ReserveServes
<1> QED
  BY <1>1, <1>8, <1>9, <1>10, <1>11 DEF IInv, Pool

LEMMA ShortageKeeps ==
  ASSUME IInv, ResolveShortage
  PROVE  IInv'
<1>1. Pool'
  <2>1. UNCHANGED <<freeSlots, residents>>
    BY DEF ResolveShortage, cache
  <2> QED
    BY <2>1 DEF IInv, Pool, Placed, Distinct, TotalSlots, Slots
<1>2. NumberTypes /\ Counted /\ StepShape /\ ReserveServes
  BY NumbersTyped DEF IInv
<1>3. residents' = residents /\ freeSlots' = freeSlots /\ freeSlots = << >> /\ Len(freeSlots) = 0
  BY DEF ResolveShortage, cache
<1>4. stats' = [stats EXCEPT !.misses = @ + 1, !.shortages = @ + 1] /\ stats \in Counters
  BY DEF IInv, Shapes, ResolveShortage
<1>5. /\ stats'.hits = stats.hits /\ stats'.misses = stats.misses + 1
      /\ stats'.installs = stats.installs /\ stats'.shortages = stats.shortages + 1
      /\ stats'.evictions = stats.evictions
  BY <1>4 DEF Counters
<1>6. /\ phase = "resolve" /\ query \in Seq(Tokens) /\ query # << >> /\ query' = Tail(query)
      /\ phase' = phase /\ step' = step /\ req' = req /\ total' = total
  BY DEF IInv, Shapes, ResolveShortage, Resolving
<1>7. Asked' = Asked /\ Len(query') = Len(query) - 1 /\ query' \in Seq(Tokens)
  BY <1>6, HeadTailProperties DEF Asked, Begun
<1>8. Shapes'
  <2>1. residents' \in Seq(Entries) /\ freeSlots' \in Seq(Slots)
    BY <1>3 DEF IInv, Shapes
  <2>2. stats' \in Counters
    <3>1. stats.misses + 1 \in Nat /\ stats.shortages + 1 \in Nat
      BY <1>4 DEF Counters
    <3> QED
      BY <1>4, <3>1 DEF Counters
  <2> QED
    BY <1>6, <1>7, <2>1, <2>2 DEF IInv, Shapes, Slots, Tokens, Entries, TotalSlots
<1>9. StepShape'
  BY <1>2, <1>6 DEF StepShape
<1>10. Counted'
  <2>1. NumberTypes /\ Counted /\ total' = total
    BY <1>2, <1>6
  <2>2. Asked' = Asked /\ Len(query') = Len(query) - 1
    BY <1>7
  <2>3. Installed'
    BY <2>1, <1>3, <1>5 DEF NumberTypes, InstalledTypes, Counted, Installed
  <2>4. Missed'
    <3>1. PICK a \in Nat, b \in Nat, c \in Nat, d \in Nat, e \in Nat, f \in Nat :
            /\ total.misses = a /\ stats.misses = b /\ total.installs = c
            /\ stats.installs = d /\ total.shortages = e /\ stats.shortages = f
      BY <2>1 DEF NumberTypes, MissedTypes
    <3>2. a + b = c + d + e + f
      BY <2>1, <3>1 DEF Counted, Missed
    <3>3. a + (b + 1) = c + d + e + (f + 1)
      BY <3>2
    <3> QED
      BY <1>5, <2>1, <3>1, <3>3 DEF Missed
  <2>5. Resolved'
    <3>1. PICK a \in Nat, b \in Nat, c \in Nat, d \in Nat, e \in Nat, q \in Nat :
            /\ total.hits = a /\ stats.hits = b /\ total.misses = c
            /\ stats.misses = d /\ Asked = e /\ Len(query) = q
      BY <2>1 DEF NumberTypes, ResolvedTypes
    <3>2. a + b + c + d = e - q
      BY <2>1, <3>1 DEF Counted, Resolved
    <3>3. a + b + c + (d + 1) = e - (q - 1)
      BY <3>2
    <3> QED
      BY <1>5, <2>1, <2>2, <3>1, <3>3 DEF Resolved
  <2> QED
    BY <2>3, <2>4, <2>5 DEF Counted
<1>11. ReserveServes'
  <2>1. NumberTypes /\ ReserveServes /\ phase = "resolve" /\ phase' = "resolve"
    BY <1>2, <1>6
  <2>2. FreeSlotTarget' = FreeSlotTarget
    BY DEF FreeSlotTarget, TotalSlots
  <2> QED
    BY <2>1, <2>2, <1>3, <1>5 DEF NumberTypes, InstalledTypes, MissedTypes, ReserveServes
<1> QED
  BY <1>1, <1>8, <1>9, <1>10, <1>11 DEF IInv, Pool

\* A request is begun: a query more, and as many tokens more to resolve.
LEMMA BeginKeeps ==
  ASSUME IInv, BeginResolve \/ NextRequest
  PROVE  IInv'
<1>1. NumberTypes /\ Counted /\ StepShape /\ ReserveServes
  BY NumbersTyped DEF IInv
<1>2. /\ freeSlots' = freeSlots /\ residents' = residents /\ step' = step
      /\ stats' = stats /\ total' = total /\ phase' = "resolve" /\ step < Steps
  BY <1>1 DEF BeginResolve, NextRequest, cache, StepShape
<1>3. query = << >> /\ Len(query) = 0
  BY <1>1 DEF BeginResolve, NextRequest, StepShape
<1>4. Begun' = Begun + 1
  <2>1. ReqNum * step \in Nat /\ req \in Nat
    BY <1>1, OneMore, Config DEF NumberTypes
  <2>2. CASE BeginResolve
    BY <1>2, <2>1, <2>2 DEF BeginResolve, Begun
  <2>3. CASE NextRequest
    BY <1>2, <2>1, <2>3 DEF NextRequest, Begun
  <2> QED
    BY <2>2, <2>3
<1>5. Asked' = Asked + TopK
  BY <1>4, BegunType, OneMore, Config DEF Asked
<1>6. req' \in 0..(ReqNum - 1) /\ query' \in Queries(req')
  BY <1>1, Config DEF BeginResolve, NextRequest, NumberTypes
<1>7. query' \in Seq(Tokens) /\ Len(query') = TopK
  BY <1>6, QueryShape
<1>8. Shapes'
  BY <1>2, <1>6, <1>7 DEF IInv, Shapes, Slots, Tokens, Entries, TotalSlots
<1>9. Pool'
  BY <1>2 DEF IInv, Pool, Placed, Distinct, TotalSlots, Slots
<1>10. Counted'
  <2>1. NumberTypes /\ Counted /\ total' = total /\ stats' = stats /\ residents' = residents
    BY <1>1, <1>2
  <2>2. Asked' - Len(query') = Asked - Len(query)
    <3>1. PICK e \in Nat, k \in Nat : Asked = e /\ TopK = k
      BY <1>1, Config DEF NumberTypes, ResolvedTypes
    <3>2. (e + k) - k = e - 0
      OBVIOUS
    <3> QED
      BY <1>3, <1>5, <1>7, <3>1, <3>2
  <2>3. Installed' /\ Missed'
    BY <2>1 DEF Counted, Installed, Missed
  <2>4. Resolved'
    BY <2>1, <2>2 DEF Counted, Resolved
  <2> QED
    BY <2>3, <2>4 DEF Counted
<1>11. StepShape'
  BY <1>2 DEF StepShape
<1>12. ReserveServes'
  <2>1. Len(freeSlots) + stats.installs >= FreeSlotTarget
    <3>1. CASE BeginResolve
      <4>1. stats.installs = 0 /\ (Len(freeSlots) >= FreeSlotTarget \/ Len(residents) = 0)
        BY <1>1, <3>1 DEF BeginResolve, ReserveShort, NumberTypes, StepShape
      <4>2. Len(freeSlots) + Len(residents) = TotalSlots /\ FreeSlotTarget <= TotalSlots
        BY Config DEF IInv, Placed
      <4> QED
        BY <1>1, <4>1, <4>2 DEF NumberTypes
    <3>2. CASE NextRequest
      BY <1>1, <3>2 DEF NextRequest, ReserveServes
    <3> QED
      BY <3>1, <3>2
  <2>2. FreeSlotTarget' = FreeSlotTarget
    BY DEF FreeSlotTarget, TotalSlots
  <2> QED
    BY <1>1, <1>2, <2>1, <2>2 DEF ReserveServes
<1> QED
  BY <1>8, <1>9, <1>10, <1>11, <1>12 DEF IInv, Pool

\* The step's counters go to the totals; the queries begun are as many.
LEMMA EndStepKeeps ==
  ASSUME IInv, EndStep
  PROVE  IInv'
<1>1. NumberTypes /\ Counted /\ StepShape
  BY NumbersTyped DEF IInv
<1>2. /\ freeSlots' = freeSlots /\ residents' = residents /\ req' = req /\ query' = query
      /\ query = << >> /\ phase = "resolve" /\ phase' = "prepare" /\ req + 1 = ReqNum
      /\ step' = step + 1 /\ step < Steps
  BY <1>1 DEF EndStep, cache, StepShape
<1>3. /\ stats' \in Counters
      /\ stats'.hits = 0 /\ stats'.misses = 0 /\ stats'.installs = 0
      /\ stats'.shortages = 0 /\ stats'.evictions = 0
  BY DEF EndStep, NoStats, Counters
<1>4. total' = [hits |-> total.hits + stats.hits, misses |-> total.misses + stats.misses,
                installs |-> total.installs + stats.installs,
                shortages |-> total.shortages + stats.shortages,
                evictions |-> total.evictions + stats.evictions]
  <2>1. /\ total' = [k \in DOMAIN total |-> total[k] + stats[k]]
        /\ total \in Counters /\ stats \in Counters
    BY DEF EndStep, Added, IInv, Shapes
  <2> QED
    BY <2>1 DEF Counters
<1>5. Asked' = Asked
  <2>1. ReqNum * (step + 1) = ReqNum * step + ReqNum /\ ReqNum * step \in Nat
    BY <1>1, OneMore, Config DEF NumberTypes
  <2>2. Begun' = Begun
    BY <1>1, <1>2, <2>1, Config DEF Begun, NumberTypes
  <2> QED
    BY <2>2 DEF Asked
<1>6. total' \in Counters
  <2>1. /\ total.hits + stats.hits \in Nat /\ total.misses + stats.misses \in Nat
        /\ total.installs + stats.installs \in Nat
        /\ total.shortages + stats.shortages \in Nat
        /\ total.evictions + stats.evictions \in Nat
    <3>1. total \in Counters /\ stats \in Counters
      BY DEF IInv, Shapes
    <3>2. \A m, n \in Nat : m + n \in Nat
      OBVIOUS
    <3> QED
      BY <3>1, <3>2 DEF Counters
  <2> QED
    BY <1>4, <2>1 DEF Counters
<1>7. Shapes'
  <2>1. step' \in 0..Steps
    BY <1>1, <1>2, Config DEF NumberTypes
  <2> QED
    BY <1>2, <1>3, <1>6, <2>1 DEF IInv, Shapes, Slots, Tokens, Entries, TotalSlots
<1>8. Pool'
  BY <1>2 DEF IInv, Pool, Placed, Distinct, TotalSlots, Slots
<1>9. Counted'
  <2>1. NumberTypes /\ Counted /\ residents' = residents /\ query' = query
    BY <1>1, <1>2
  <2>2. Installed'
    BY <2>1, <1>3, <1>4 DEF NumberTypes, InstalledTypes, Counted, Installed
  <2>3. Missed'
    BY <2>1, <1>3, <1>4 DEF NumberTypes, MissedTypes, Counted, Missed
  <2>4. Resolved'
    BY <2>1, <1>3, <1>4, <1>5 DEF NumberTypes, ResolvedTypes, Counted, Resolved
  <2> QED
    BY <2>2, <2>3, <2>4 DEF Counted
<1>10. StepShape' /\ ReserveServes'
  BY <1>2, <1>3 DEF StepShape, ReserveServes
<1> QED
  BY <1>7, <1>8, <1>9, <1>10 DEF IInv, Pool

-----------------------------------------------------------------------------
(* The invariant of the specification.                                      *)

LEMMA InitIInv == Init => IInv
<1> SUFFICES ASSUME Init PROVE IInv
  OBVIOUS
<1>1. /\ freeSlots = [i \in 1..TotalSlots |-> TotalSlots - i] /\ residents = << >>
      /\ phase = "prepare" /\ step = 0 /\ req = 0 /\ query = << >>
      /\ stats = NoStats /\ total = NoStats
  BY DEF Init
<1>2. TotalSlots \in Nat \ {0} /\ FreeSlotTarget \in Nat
  BY Config
<1>3. freeSlots \in Seq(Slots) /\ Len(freeSlots) = TotalSlots
  <2>1. \A i \in 1..TotalSlots : TotalSlots - i \in Slots
    BY <1>2 DEF Slots
  <2> QED
    BY <1>1, <1>2, <2>1
<1>4. NoStats \in Counters
  BY DEF NoStats, Counters
<1>5. Shapes
  BY <1>1, <1>3, <1>4, Config, ConfigAssumption DEF Shapes
<1>6. Placed
  <2>1. ASSUME NEW s \in Slots
        PROVE  \E i \in 1..Len(freeSlots) : freeSlots[i] = s
    <3>1. TotalSlots - s \in 1..TotalSlots /\ TotalSlots - (TotalSlots - s) = s
      BY <1>2, <2>1 DEF Slots
    <3> QED
      BY <1>1, <1>3, <3>1
  <2> QED
    BY <1>1, <1>2, <1>3, <2>1 DEF Placed
<1>7. Distinct /\ StepShape
  BY <1>1 DEF Distinct, StepShape, NoStats
<1>8. Counted
  <2>1. Asked = 0
    BY <1>1, Config DEF Asked, Begun
  <2>2. /\ NoStats.hits = 0 /\ NoStats.misses = 0 /\ NoStats.installs = 0
        /\ NoStats.shortages = 0 /\ NoStats.evictions = 0
    BY DEF NoStats
  <2>3. Len(residents) = 0 /\ Len(query) = 0
    BY <1>1
  <2>4. Installed
    BY <1>1, <2>2, <2>3 DEF Installed
  <2>5. Missed
    BY <1>1, <2>2 DEF Missed
  <2>6. Resolved
    <3>1. 0 + 0 + 0 + 0 = 0 - 0
      OBVIOUS
    <3> QED
      BY <1>1, <2>1, <2>2, <2>3, <3>1, Zenon DEF Resolved
  <2> QED
    BY <2>4, <2>5, <2>6 DEF Counted
<1>9. ReserveServes
  BY <1>1 DEF ReserveServes, NoStats
<1> QED
  BY <1>5, <1>6, <1>7, <1>8, <1>9 DEF IInv

LEMMA NextIInv == IInv /\ [Next]_vars => IInv'
<1> SUFFICES ASSUME IInv, [Next]_vars PROVE IInv'
  OBVIOUS
<1>1. CASE Next
  BY <1>1, EvictKeeps, BeginKeeps, HitKeeps, InstallKeeps, ShortageKeeps, EndStepKeeps DEF Next
<1>2. CASE UNCHANGED vars
  BY <1>2 DEF vars, cache, IInv, Shapes, Placed, Distinct, StepShape, Counted, Installed,
     Missed, Resolved, Asked, Begun, ReserveServes, FreeSlotTarget, TotalSlots, Slots,
     Tokens, TokenIds, Entries
<1> QED
  BY <1>1, <1>2

\* The pool, the reserve and the counters are sound in every reachable state,
\* for every configuration.
THEOREM Invariance == Spec => []IInv
  BY InitIInv, NextIInv, PTL DEF Spec

\* Every slot is on the free stack or under one resident token, and in one
\* place only: no run loses a slot or gives it to two tokens.
THEOREM TypeCorrect == Spec => []TypeOK
<1>1. IInv => TypeOK
  <2> SUFFICES ASSUME IInv PROVE TypeOK
    OBVIOUS
  <2>1. Shapes /\ Placed /\ Distinct
    BY DEF IInv
  <2>2. /\ Len(residents) \in Nat /\ DOMAIN residents = 1..Len(residents)
        /\ \A i \in 1..Len(residents) : residents[i] \in Entries
        /\ DOMAIN freeSlots = 1..Len(freeSlots)
        /\ \A i \in 1..Len(freeSlots) : freeSlots[i] \in Slots
        /\ \A i \in DOMAIN query : query[i] \in Tokens
    BY <2>1, LenProperties DEF Shapes
  <2>3. ToSet(freeSlots) \cup {e[2] : e \in ToSet(residents)} = Slots
    <3>1. ASSUME NEW s \in Slots
          PROVE  s \in ToSet(freeSlots) \cup {e[2] : e \in ToSet(residents)}
      BY <2>1, <2>2 DEF Placed, ToSet
    <3>2. ASSUME NEW s \in ToSet(freeSlots) \cup {e[2] : e \in ToSet(residents)}
          PROVE  s \in Slots
      BY <2>2 DEF ToSet, Entries
    <3> QED
      BY <3>1, <3>2
  <2>4. Cardinality(ResidentTokens) = Len(residents)
    <3> DEFINE f == [i \in 1..Len(residents) |-> residents[i][1]]
    <3>1. f \in Surjection(1..Len(residents), ResidentTokens)
      BY <2>2 DEF Surjection, ResidentTokens
    <3>2. f \in Injection(1..Len(residents), ResidentTokens)
      BY <2>1, <2>2 DEF Injection, IsInjective, ResidentTokens, Distinct
    <3>3. IsFiniteSet(1..Len(residents)) /\ Cardinality(1..Len(residents)) = Len(residents)
      <4>1. PICK n \in Nat : n = Len(residents)
        BY <2>2
      <4>2. IsFiniteSet(1..n) /\ Cardinality(1..n) = IF 1 > n THEN 0 ELSE n - 1 + 1
        BY FS_Interval
      <4>3. (IF 1 > n THEN 0 ELSE n - 1 + 1) = n
        OBVIOUS
      <4> QED
        BY <4>1, <4>2, <4>3
    <3> HIDE DEF f
    <3> QED
      BY <3>1, <3>2, <3>3, FS_Surjection
  <2>5. ResidentTokens \subseteq Tokens
    BY <2>2 DEF ResidentTokens, Entries
  <2>6. \A t \in ToSet(query) : t \in Tokens
    BY <2>2 DEF ToSet
  <2> QED
    BY <2>1, <2>3, <2>4, <2>5, <2>6 DEF TypeOK, Shapes, Placed
<1> QED
  BY <1>1, Invariance, PTL

\* A step starts with its target of free slots, evicts no more than it takes
\* to reach it, and meets a shortage only when all of it is used.
THEOREM ReserveKept == Spec => []ReserveServes
<1>1. IInv => ReserveServes
  BY DEF IInv
<1> QED
  BY <1>1, Invariance, PTL

\* The counters the program prints always agree with the pool and with the
\* number of tokens it was asked for.
THEOREM CountersRight == Spec => []Accounting
<1>1. IInv => Accounting
  <2> SUFFICES ASSUME IInv PROVE Accounting
    OBVIOUS
  <2>1. NumberTypes /\ Installed /\ Missed /\ Resolved
    BY NumbersTyped DEF IInv, Counted
  <2> DEFINE sum == [k \in DOMAIN NoStats |-> total[k] + stats[k]]
  <2>2. /\ sum.hits = total.hits + stats.hits /\ sum.misses = total.misses + stats.misses
        /\ sum.installs = total.installs + stats.installs
        /\ sum.shortages = total.shortages + stats.shortages
        /\ sum.evictions = total.evictions + stats.evictions
    BY DEF NoStats
  <2> HIDE DEF sum
  <2>3. sum.installs - sum.evictions = Len(residents)
    <3>1. PICK a \in Nat, b \in Nat, c \in Nat, d \in Nat, l \in Nat :
            /\ total.installs = a /\ stats.installs = b /\ total.evictions = c
            /\ stats.evictions = d /\ Len(residents) = l
      BY <2>1 DEF NumberTypes, InstalledTypes
    <3>2. a + b = c + d + l
      BY <2>1, <3>1 DEF Installed
    <3>3. (a + b) - (c + d) = l
      BY <3>2
    <3> QED
      BY <2>2, <3>1, <3>3
  <2>4. sum.misses = sum.installs + sum.shortages
    <3>1. PICK a \in Nat, b \in Nat, c \in Nat, d \in Nat, e \in Nat, f \in Nat :
            /\ total.misses = a /\ stats.misses = b /\ total.installs = c
            /\ stats.installs = d /\ total.shortages = e /\ stats.shortages = f
      BY <2>1 DEF NumberTypes, MissedTypes
    <3>2. a + b = c + d + e + f
      BY <2>1, <3>1 DEF Missed
    <3>3. a + b = (c + d) + (e + f)
      BY <3>2
    <3> QED
      BY <2>2, <3>1, <3>3
  <2>5. sum.hits + sum.misses =
          TopK * (ReqNum * step + (IF phase = "resolve" THEN req + 1 ELSE 0)) - Len(query)
    <3>1. PICK a \in Nat, b \in Nat, c \in Nat, d \in Nat, e \in Nat, q \in Nat :
            /\ total.hits = a /\ stats.hits = b /\ total.misses = c
            /\ stats.misses = d /\ Asked = e /\ Len(query) = q
      BY <2>1 DEF NumberTypes, ResolvedTypes
    <3>2. a + b + c + d = e - q
      BY <2>1, <3>1 DEF Resolved
    <3>3. (a + b) + (c + d) = e - q
      BY <3>2
    <3>4. sum.hits + sum.misses = Asked - Len(query)
      BY <2>2, <3>1, <3>3
    <3> QED
      BY <3>4 DEF Asked, Begun
  <2> QED
    BY <2>3, <2>4, <2>5 DEF Accounting, sum
<1> QED
  BY <1>1, Invariance, PTL

-----------------------------------------------------------------------------
(***************************************************************************)
(* The order of eviction: the list of residents is sorted by last use, and  *)
(* nobody was used later than now.                                          *)
(***************************************************************************)

Sorted ==
  \A i, j \in 1..Len(residents) :
    i < j => lastUse[residents[i][1]] < lastUse[residents[j][1]]

OrderInv ==
  /\ lastUse \in [Tokens -> Nat]
  /\ \A t \in Tokens : lastUse[t] <= UsesSoFar
  /\ Sorted

LEMMA UsesCount ==
  ASSUME IInv
  PROVE  /\ UsesSoFar \in Nat
         /\ \A i \in 1..Len(residents) : residents[i][1] \in Tokens
         /\ Len(residents) \in Nat
<1>1. UsesSoFar \in Nat
  <2>1. /\ stats.hits \in Nat /\ stats.misses \in Nat
        /\ total.hits \in Nat /\ total.misses \in Nat
    BY NumbersTyped DEF NumberTypes, ResolvedTypes
  <2> QED
    BY <2>1 DEF UsesSoFar
<1>2. Len(residents) \in Nat /\ \A i \in 1..Len(residents) : residents[i] \in Entries
  BY LenProperties DEF IInv, Shapes
<1> QED
  BY <1>1, <1>2 DEF Entries

\* Resolving a token makes it the last used; the others keep their times.
LEMMA UseNow ==
  ASSUME IInv, OrderInv, ResolveHit \/ ResolveInstall \/ ResolveShortage,
         lastUse' = [lastUse EXCEPT ![Head(query)] = UsesSoFar + 1]
  PROVE  /\ lastUse' \in [Tokens -> Nat]
         /\ UsesSoFar' = UsesSoFar + 1
         /\ \A t \in Tokens : lastUse'[t] <= UsesSoFar'
         /\ Head(query) \in Tokens
         /\ lastUse'[Head(query)] = UsesSoFar + 1
         /\ \A t \in Tokens \ {Head(query)} :
              lastUse'[t] = lastUse[t] /\ lastUse'[t] < UsesSoFar + 1
<1>1. Head(query) \in Tokens
  BY HeadTailProperties
     DEF IInv, Shapes, ResolveHit, ResolveInstall, ResolveShortage, Resolving
<1>2. UsesSoFar \in Nat
  BY UsesCount
<1>3. UsesSoFar' = UsesSoFar + 1
  <2>1. stats \in Counters /\ total \in Counters /\ total' = total
    BY DEF IInv, Shapes, ResolveHit, ResolveInstall, ResolveShortage
  <2>2. \/ stats' = [stats EXCEPT !.hits = @ + 1]
        \/ stats' = [stats EXCEPT !.misses = @ + 1, !.installs = @ + 1]
        \/ stats' = [stats EXCEPT !.misses = @ + 1, !.shortages = @ + 1]
    BY DEF ResolveHit, ResolveInstall, ResolveShortage
  <2>3. stats'.hits + stats'.misses = stats.hits + stats.misses + 1
        /\ stats'.hits \in Nat /\ stats'.misses \in Nat
    <3>1. /\ stats.hits \in Nat /\ stats.misses \in Nat
          /\ \/ stats'.hits = stats.hits + 1 /\ stats'.misses = stats.misses
             \/ stats'.hits = stats.hits /\ stats'.misses = stats.misses + 1
      BY <2>1, <2>2 DEF Counters
    <3> QED
      BY <3>1
  <2>4. total.hits \in Nat /\ total.misses \in Nat /\ stats.hits \in Nat /\ stats.misses \in Nat
    BY <2>1 DEF Counters
  <2> QED
    BY <2>1, <2>3, <2>4 DEF UsesSoFar
<1>4. \A t \in Tokens :
        lastUse'[t] = IF t = Head(query) THEN UsesSoFar + 1 ELSE lastUse[t]
  BY DEF OrderInv
<1>5. lastUse' \in [Tokens -> Nat]
  <2>1. UsesSoFar + 1 \in Nat
    BY <1>2
  <2> QED
    BY <1>1, <2>1 DEF OrderInv
<1>6. ASSUME NEW t \in Tokens
      PROVE  /\ lastUse'[t] <= UsesSoFar'
             /\ t # Head(query) => lastUse'[t] = lastUse[t] /\ lastUse'[t] < UsesSoFar + 1
  <2>1. lastUse[t] \in Nat /\ lastUse[t] <= UsesSoFar
    BY DEF OrderInv
  <2> QED
    BY <1>2, <1>3, <1>4, <2>1
<1> QED
  BY <1>1, <1>3, <1>4, <1>5, <1>6

LEMMA EvictOrder ==
  ASSUME IInv, OrderInv, Evict, lastUse' = lastUse
  PROVE  OrderInv'
<1>1. UsesSoFar' = UsesSoFar
  <2>1. stats' = [stats EXCEPT !.evictions = @ + 1] /\ stats \in Counters /\ total' = total
    BY DEF Evict, IInv, Shapes
  <2> QED
    BY <2>1 DEF UsesSoFar, Counters
<1>2. Sorted'
  <2> SUFFICES ASSUME NEW i \in 1..Len(residents'), NEW j \in 1..Len(residents'), i < j
               PROVE  lastUse[residents'[i][1]] < lastUse[residents'[j][1]]
    BY DEF Sorted
  <2>1. /\ residents'[i] = residents[i + 1] /\ residents'[j] = residents[j + 1]
        /\ i + 1 \in 1..Len(residents) /\ j + 1 \in 1..Len(residents) /\ i + 1 < j + 1
    BY EvictEffect
  <2> QED
    BY <2>1 DEF OrderInv, Sorted
<1> QED
  BY <1>1, <1>2 DEF OrderInv, Tokens, TokenIds

LEMMA HitOrder ==
  ASSUME IInv, OrderInv, ResolveHit,
         lastUse' = [lastUse EXCEPT ![Head(query)] = UsesSoFar + 1]
  PROVE  Sorted'
<1> DEFINE n == Len(residents)
<1>1. PICK h \in 1..n :
        /\ Len(residents') = n /\ n \in Nat
        /\ residents[h][1] = Head(query)
        /\ \A j \in 1..n :
             residents'[j] = IF j < h THEN residents[j]
                             ELSE IF j < n THEN residents[j + 1] ELSE residents[h]
  BY HitEffect
<1>2. /\ \A i, j \in 1..n : residents[i][1] = residents[j][1] => i = j
      /\ \A i, j \in 1..n : i < j => lastUse[residents[i][1]] < lastUse[residents[j][1]]
      /\ \A i \in 1..n : residents[i][1] \in Tokens
  BY UsesCount DEF IInv, Distinct, OrderInv, Sorted
<1>3. /\ lastUse'[Head(query)] = UsesSoFar + 1
      /\ \A t \in Tokens \ {Head(query)} :
           lastUse'[t] = lastUse[t] /\ lastUse'[t] < UsesSoFar + 1
  BY UseNow
<1> HIDE DEF n
<1> DEFINE From(j) == IF j < h THEN j ELSE IF j < n THEN j + 1 ELSE h
<1>4. \A j \in 1..n : From(j) \in 1..n /\ (From(j) = h <=> j = n)
  BY <1>1
<1>5. \A i, j \in 1..n : i < j /\ j # n => From(i) < From(j)
  BY <1>1
<1>6. \A j \in 1..n : residents'[j] = residents[From(j)]
  BY <1>1
<1> HIDE DEF From
<1>7. ASSUME NEW i \in 1..n, NEW j \in 1..n, i < j
      PROVE  lastUse'[residents'[i][1]] < lastUse'[residents'[j][1]]
  <2>1. i # n
    BY <1>1, <1>7
  <2>2. /\ From(i) \in 1..n /\ From(i) # h
        /\ residents[From(i)][1] \in Tokens \ {Head(query)}
    BY <1>1, <1>2, <1>4, <2>1
  <2>3. CASE j = n
    BY <1>1, <1>3, <1>4, <1>6, <2>2, <2>3
  <2>4. CASE j # n
    <3>1. /\ From(j) \in 1..n /\ From(j) # h
          /\ residents[From(j)][1] \in Tokens \ {Head(query)}
      BY <1>1, <1>2, <1>4, <2>4
    <3>2. lastUse[residents[From(i)][1]] < lastUse[residents[From(j)][1]]
      BY <1>2, <1>5, <1>7, <2>2, <2>4, <3>1
    <3> QED
      BY <1>3, <1>6, <2>2, <3>1, <3>2
  <2> QED
    BY <2>3, <2>4
<1> QED
  BY <1>1, <1>7 DEF Sorted

LEMMA InstallOrder ==
  ASSUME IInv, OrderInv, ResolveInstall,
         lastUse' = [lastUse EXCEPT ![Head(query)] = UsesSoFar + 1]
  PROVE  Sorted'
<1> DEFINE n == Len(residents)
<1>1. /\ Len(residents') = n + 1 /\ n \in Nat
      /\ \A i \in 1..n : residents'[i] = residents[i]
      /\ residents'[n + 1][1] = Head(query)
  BY InstallEffect
<1>2. /\ \A i, j \in 1..n : i < j => lastUse[residents[i][1]] < lastUse[residents[j][1]]
      /\ \A i \in 1..n : residents[i][1] \in Tokens \ {Head(query)}
  <2>1. DOMAIN residents = 1..n
    BY LenProperties DEF IInv, Shapes
  <2> QED
    BY <2>1, UsesCount DEF OrderInv, Sorted, ResolveInstall, ResidentTokens
<1>3. /\ lastUse'[Head(query)] = UsesSoFar + 1
      /\ \A t \in Tokens \ {Head(query)} :
           lastUse'[t] = lastUse[t] /\ lastUse'[t] < UsesSoFar + 1
  BY UseNow
<1> HIDE DEF n
<1>4. ASSUME NEW i \in 1..(n + 1), NEW j \in 1..(n + 1), i < j
      PROVE  lastUse'[residents'[i][1]] < lastUse'[residents'[j][1]]
  <2>1. i \in 1..n /\ (j \in 1..n \/ j = n + 1)
    BY <1>1, <1>4
  <2>2. CASE j = n + 1
    BY <1>1, <1>2, <1>3, <2>1, <2>2
  <2>3. CASE j \in 1..n
    BY <1>1, <1>2, <1>3, <1>4, <2>1, <2>3
  <2> QED
    BY <2>1, <2>2, <2>3
<1> QED
  BY <1>1, <1>4 DEF Sorted

LEMMA OrderKept == IInv /\ OrderInv /\ [NextH]_historyVars => OrderInv'
<1> SUFFICES ASSUME IInv, OrderInv, [NextH]_historyVars PROVE OrderInv'
  OBVIOUS
<1>1. ASSUME ResolveHit \/ ResolveInstall \/ ResolveShortage, NextH
      PROVE  OrderInv'
  <2>1. lastUse' = [lastUse EXCEPT ![Head(query)] = UsesSoFar + 1]
    BY <1>1 DEF NextH, ResolveHit, ResolveInstall, ResolveShortage
  <2>2. lastUse' \in [Tokens -> Nat] /\ \A t \in Tokens : lastUse'[t] <= UsesSoFar'
    BY <1>1, <2>1, UseNow
  <2>3. Sorted'
    <3>1. CASE ResolveHit
      BY <2>1, <3>1, HitOrder
    <3>2. CASE ResolveInstall
      BY <2>1, <3>2, InstallOrder
    <3>3. CASE ResolveShortage
      <4>1. /\ residents' = residents
            /\ \A i \in 1..Len(residents) : residents[i][1] \in Tokens \ {Head(query)}
        <5>1. DOMAIN residents = 1..Len(residents)
          BY LenProperties DEF IInv, Shapes
        <5> QED
          BY <3>3, <5>1, UsesCount DEF ResolveShortage, cache, ResidentTokens
      <4>2. \A t \in Tokens \ {Head(query)} : lastUse'[t] = lastUse[t]
        BY <2>1, <3>3, UseNow
      <4> QED
        BY <4>1, <4>2 DEF OrderInv, Sorted
    <3> QED
      BY <1>1, <3>1, <3>2, <3>3
  <2> QED
    BY <2>2, <2>3 DEF OrderInv, Tokens, TokenIds
<1>2. ASSUME ~ (ResolveHit \/ ResolveInstall \/ ResolveShortage), Next
      PROVE  Evict \/ BeginResolve \/ NextRequest \/ EndStep
  BY <1>2 DEF Next
<1>3. ASSUME NextH, Evict PROVE OrderInv'
  BY <1>3, EvictOrder DEF NextH, Evict, Resolving
<1>4. ASSUME NextH, BeginResolve \/ NextRequest \/ EndStep PROVE OrderInv'
  <2>1. lastUse' = lastUse /\ residents' = residents
    BY <1>4 DEF NextH, BeginResolve, NextRequest, EndStep, Resolving, cache
  <2>2. UsesSoFar' = UsesSoFar
    <3>1. CASE BeginResolve \/ NextRequest
      BY <3>1 DEF BeginResolve, NextRequest, UsesSoFar
    <3>2. CASE EndStep
      <4>1. /\ total' = [k \in DOMAIN total |-> total[k] + stats[k]]
            /\ total \in Counters /\ stats \in Counters
            /\ stats'.hits = 0 /\ stats'.misses = 0
        BY <3>2 DEF EndStep, Added, IInv, Shapes, NoStats
      <4>2. total'.hits = total.hits + stats.hits /\ total'.misses = total.misses + stats.misses
        BY <4>1 DEF Counters
      <4>3. /\ total.hits \in Nat /\ total.misses \in Nat
            /\ stats.hits \in Nat /\ stats.misses \in Nat
        BY <4>1 DEF Counters
      <4> QED
        BY <4>1, <4>2, <4>3 DEF UsesSoFar
    <3> QED
      BY <1>4, <3>1, <3>2
  <2> QED
    BY <2>1, <2>2 DEF OrderInv, Sorted, Tokens, TokenIds
<1>5. CASE UNCHANGED historyVars
  BY <1>5 DEF historyVars, vars, cache, OrderInv, Sorted, UsesSoFar, Tokens, TokenIds
<1> QED
  BY <1>1, <1>2, <1>3, <1>4, <1>5 DEF NextH

LEMMA HistoryInv == SpecH => [](IInv /\ OrderInv)
<1>1. InitH => IInv /\ OrderInv
  <2> SUFFICES ASSUME InitH PROVE IInv /\ OrderInv
    OBVIOUS
  <2>1. IInv
    BY InitIInv DEF InitH
  <2>2. lastUse \in [Tokens -> Nat] /\ \A t \in Tokens : lastUse[t] <= UsesSoFar
    BY <2>1, UsesCount DEF InitH
  <2>3. Sorted
    BY DEF InitH, Init, Sorted
  <2> QED
    BY <2>1, <2>2, <2>3 DEF OrderInv
<1>2. IInv /\ [NextH]_historyVars => IInv'
  BY NextIInv DEF NextH, historyVars
<1> QED
  BY <1>1, <1>2, OrderKept, PTL DEF SpecH

\* Only prepare_free_slots takes a token's slot, and it takes the one whose
\* last use, in any step and by any request, lies furthest back.
THEOREM OldestEvicted == SpecH => EvictsOldest
<1> DEFINE Oldest == \A t \in ResidentTokens \ ResidentTokens' :
                       /\ phase = "prepare"
                       /\ \A u \in ResidentTokens' : lastUse[t] < lastUse[u]
<1>1. IInv /\ OrderInv /\ [NextH]_historyVars => [Oldest]_historyVars
  <2> SUFFICES ASSUME IInv, OrderInv, NextH,
                      NEW t \in ResidentTokens, t \notin ResidentTokens'
               PROVE  phase = "prepare" /\ \A u \in ResidentTokens' : lastUse[t] < lastUse[u]
    OBVIOUS
  <2>1. residents \in Seq(Entries) /\ DOMAIN residents = 1..Len(residents) /\ Len(residents) \in Nat
    BY LenProperties DEF IInv, Shapes
  <2>2. PICK i \in 1..Len(residents) : t = residents[i][1]
    BY <2>1 DEF ResidentTokens
  <2>3. CASE Evict
    <3>1. /\ Len(residents') = Len(residents) - 1 /\ DOMAIN residents' = 1..Len(residents')
          /\ \A j \in 1..Len(residents') : residents'[j] = residents[j + 1]
      BY <2>3, EvictEffect, LenProperties
    <3>2. i = 1
      <4> SUFFICES ASSUME i # 1 PROVE FALSE
        OBVIOUS
      <4>1. i - 1 \in 1..Len(residents') /\ (i - 1) + 1 = i
        BY <2>1, <3>1
      <4>2. residents'[i - 1][1] = t
        BY <2>2, <3>1, <4>1
      <4> QED
        BY <3>1, <4>1, <4>2 DEF ResidentTokens
    <3>3. ASSUME NEW u \in ResidentTokens' PROVE lastUse[t] < lastUse[u]
      <4>1. PICK j \in 1..Len(residents') : u = residents'[j][1]
        BY <3>1, <3>3 DEF ResidentTokens
      <4>2. j + 1 \in 1..Len(residents) /\ 1 \in 1..Len(residents) /\ 1 < j + 1
            /\ u = residents[j + 1][1]
        BY <2>1, <3>1, <4>1
      <4> QED
        BY <2>2, <3>2, <4>2 DEF OrderInv, Sorted
    <3> QED
      BY <2>3, <3>3 DEF Evict
  <2>4. CASE ResolveHit
    <3>1. PICK h \in 1..Len(residents) :
            /\ residents' \in Seq(Entries) /\ Len(residents') = Len(residents)
            /\ \A j \in 1..Len(residents) :
                 residents'[j] = IF j < h THEN residents[j]
                                 ELSE IF j < Len(residents) THEN residents[j + 1]
                                 ELSE residents[h]
      BY <2>4, HitEffect
    <3>2. DOMAIN residents' = 1..Len(residents)
      BY <3>1, LenProperties
    <3> DEFINE j == IF i < h THEN i ELSE IF i = h THEN Len(residents) ELSE i - 1
    <3>3. j \in 1..Len(residents) /\ residents'[j] = residents[i]
      BY <2>1, <3>1
    <3> QED
      BY <2>2, <3>2, <3>3 DEF ResidentTokens
  <2>5. CASE ResolveInstall
    <3>1. /\ residents' \in Seq(Entries) /\ Len(residents') = Len(residents) + 1
          /\ residents'[i] = residents[i]
      BY <2>5, InstallEffect
    <3>2. i \in DOMAIN residents'
      BY <2>1, <3>1, LenProperties
    <3> QED
      BY <2>2, <3>1, <3>2 DEF ResidentTokens
  <2>6. CASE residents' = residents
    BY <2>6 DEF ResidentTokens
  <2> QED
    BY <2>3, <2>4, <2>5, <2>6
       DEF NextH, Next, BeginResolve, NextRequest, EndStep, ResolveShortage, cache
<1> QED
  BY <1>1, HistoryInv, PTL DEF SpecH, EvictsOldest
=============================================================================
