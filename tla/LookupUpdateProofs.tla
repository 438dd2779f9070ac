------------------------- MODULE LookupUpdateProofs -------------------------
(***************************************************************************)
(* Proofs about the lookup and update operators, the test that compares     *)
(* them with its reference and the scripts that measure them, for every     *)
(* number of requests, cores and queries and every size of tables and tiles.*)
(*                                                                          *)
(* First the kernels: LookupRuns and UpdateRuns say how far a kernel has    *)
(* come by the places of its cores, and hold from launch to end. Then the   *)
(* scripts: a test's script never launches a kernel on updated tables and   *)
(* never compares what the device has not done (Ordered). The invariant     *)
(* ties both to where the device is in the script. Last the measuring       *)
(* scripts: what is timed (Times) is what lies between the start and stop   *)
(* events the device has passed, iteration by iteration.                    *)
(***************************************************************************)
EXTENDS LookupUpdateScripts, NpuStreamProofs

USE SizeAssumption

-----------------------------------------------------------------------------
(* Numbers.                                                                 *)

LEMMA MinMaxPair ==
  ASSUME NEW a \in Int, NEW b \in Int
  PROVE  /\ Min({a, b}) = (IF a <= b THEN a ELSE b)
         /\ Max({a, b}) = (IF a <= b THEN b ELSE a)
<1>1. CASE a <= b
  BY <1>1 DEF Min, Max
<1>2. CASE ~ a <= b
  BY <1>2 DEF Min, Max
<1> QED
  BY <1>1, <1>2

\* One quotient and one remainder.
LEMMA DivMod ==
  ASSUME NEW b \in Nat \ {0}, NEW q \in Nat, NEW r \in 0 .. b - 1
  PROVE  (q * b + r) \div b = q /\ (q * b + r) % b = r
<1>1. q * b + r \in Nat
  OBVIOUS
<1> QED
  BY <1>1

LEMMA Quotient ==
  ASSUME NEW b \in Nat \ {0}, NEW a \in Nat
  PROVE  /\ a \div b \in Nat /\ a % b \in 0 .. b - 1
         /\ a = (a \div b) * b + (a % b)
OBVIOUS

\* A number behind another of the same residue is a whole step behind it.
LEMMA NextOfResidue ==
  ASSUME NEW b \in Nat \ {0}, NEW x \in Nat, NEW y \in Nat, x % b = y % b, x < y
  PROVE  x + b <= y
<1> DEFINE p == x \div b
           q == y \div b
           r == x % b
<1>1. p \in Nat /\ q \in Nat /\ r \in 0 .. b - 1 /\ x = p * b + r /\ y = q * b + r
  <2>1. x = (x \div b) * b + (x % b) /\ x \div b \in Nat /\ x % b \in 0 .. b - 1
    BY Quotient
  <2>2. y = (y \div b) * b + (y % b) /\ y \div b \in Nat
    BY Quotient
  <2> QED
    BY <2>1, <2>2
<1> HIDE DEF p, q, r
<1>2. p < q
  <2>1. CASE p >= q
    <3>1. p * b >= q * b
      BY <2>1, <1>1
    <3>2. p * b \in Int /\ q * b \in Int
      BY <1>1
    <3> QED
      BY <3>1, <3>2, <1>1
  <2> QED
    BY <2>1, <1>1
<1>3. (p + 1) * b <= q * b
  BY <1>1, <1>2
<1>5. (p + 1) * b = p * b + b /\ p * b \in Int /\ q * b \in Int
  BY <1>1
<1> QED
  BY <1>1, <1>3, <1>5

LEMMA ResidueKept ==
  ASSUME NEW b \in Nat \ {0}, NEW x \in Nat
  PROVE  (x + b) % b = x % b
<1> DEFINE p == x \div b
           r == x % b
<1>1. p \in Nat /\ r \in 0 .. b - 1 /\ x = p * b + r
  BY Quotient
<1>4. x % b = r
  OBVIOUS
<1> HIDE DEF p, r
<1>2. x + b = (p + 1) * b + r
  BY <1>1
<1>3. (x + b) % b = r
  BY <1>1, <1>2, DivMod
<1> QED
  BY <1>3, <1>4

-----------------------------------------------------------------------------
(* Tiles.                                                                   *)

TilesOf(n) == CeilDiv(n, QueryTile)

\* The tile of entry i of request r.
TileOf(n, r, i) == r * TilesOf(n) + (i \div QueryTile)

LEMMA TileCount ==
  ASSUME NEW n \in Nat \ {0}
  PROVE  /\ TilesOf(n) \in Nat \ {0} /\ n <= TilesOf(n) * QueryTile
         /\ Padded(n) = TilesOf(n) * QueryTile
<1> DEFINE T == TilesOf(n)
           r == (n + QueryTile - 1) % QueryTile
<1>1. T \in Nat /\ r \in 0 .. QueryTile - 1 /\ n + QueryTile - 1 = T * QueryTile + r
  <2>1. n + QueryTile - 1 \in Nat
    OBVIOUS
  <2> QED
    BY <2>1, Quotient DEF TilesOf, CeilDiv
<1>2. Padded(n) = T * QueryTile
  <2>1. Max({n, 1}) = n
    <3>1. n \in Int /\ 1 \in Int /\ (n <= 1 => n = 1)
      OBVIOUS
    <3> QED
      BY ONLY <3>1, MinMaxPair
  <2> QED
    BY ONLY <2>1 DEF Padded, TilesOf
<1> HIDE DEF T, r
<1>3. T * QueryTile \in Nat
  BY <1>1
<1>4. n <= T * QueryTile
  BY <1>1, <1>3
<1>5. T # 0
  BY <1>4
<1> QED
  BY <1>1, <1>2, <1>4, <1>5 DEF T

LEMMA TileInRange ==
  ASSUME NEW n \in Nat \ {0}, NEW r \in Reqs, NEW i \in 0 .. n - 1
  PROVE  /\ TileOf(n, r, i) \in 0 .. ReqNum * TilesOf(n) - 1
         /\ TileOf(n, r, i) \div TilesOf(n) = r
         /\ TileOf(n, r, i) % TilesOf(n) = i \div QueryTile
         /\ i - (i \div QueryTile) * QueryTile \in 0 .. QueryTile - 1
<1> DEFINE T == TilesOf(n)
           k == i \div QueryTile
           m == i % QueryTile
<1>1. T \in Nat \ {0} /\ n <= T * QueryTile
  BY TileCount
<1>2. k \in Nat /\ m \in 0 .. QueryTile - 1 /\ i = k * QueryTile + m
  BY Quotient
<1>3. TileOf(n, r, i) = r * T + k
  BY DEF TileOf
<1>4. r \in Nat /\ r + 1 <= ReqNum
  BY DEF Reqs
<1> HIDE DEF T, k, m
<1>5. k < T
  <2>1. CASE k >= T
    <3>1. k * QueryTile >= T * QueryTile
      BY <2>1, <1>1, <1>2
    <3>2. k * QueryTile \in Nat /\ T * QueryTile \in Nat
      BY <1>1, <1>2
    <3> QED
      BY <1>1, <1>2, <3>1, <3>2
  <2> QED
    BY <2>1, <1>1, <1>2
<1>6. (r * T + k) \div T = r /\ (r * T + k) % T = k
  BY <1>1, <1>2, <1>4, <1>5, DivMod
<1>7. r * T + k \in 0 .. ReqNum * T - 1
  <2>1. (r + 1) * T <= ReqNum * T
    BY <1>1, <1>4
  <2>2. (r + 1) * T = r * T + T /\ r * T \in Nat /\ ReqNum * T \in Nat
    BY <1>1, <1>4
  <2> QED
    BY <2>1, <2>2, <1>1, <1>2, <1>5
<1>8. i - k * QueryTile = m
  <2>1. k * QueryTile \in Nat
    BY <1>2
  <2> QED
    BY <2>1, <1>2
<1> QED
  BY <1>2, <1>3, <1>6, <1>7, <1>8 DEF T, k

LEMMA EntriesOfTile ==
  ASSUME NEW n \in Nat \ {0}, NEW t \in 0 .. ReqNum * TilesOf(n) - 1,
         NEW i \in 0 .. n - 1,
         i - (t % TilesOf(n)) * QueryTile \in 0 .. QueryTile - 1
  PROVE  t \div TilesOf(n) \in Reqs /\ TileOf(n, t \div TilesOf(n), i) = t
<1> DEFINE T == TilesOf(n)
           r == t \div T
           k == t % T
           m == i - k * QueryTile
<1>1. T \in Nat \ {0}
  BY TileCount
<1>2. r \in Nat /\ k \in 0 .. T - 1 /\ t = r * T + k
  <2>1. t \in Nat
    <3>1. ReqNum * T - 1 \in Int
      BY <1>1
    <3> QED
      BY <3>1
  <2> QED
    BY <1>1, <2>1, Quotient
<1>3. m \in 0 .. QueryTile - 1
  OBVIOUS
<1>4. t < ReqNum * T
  <2>1. ReqNum * T \in Nat
    BY <1>1
  <2> QED
    BY <2>1
<1> HIDE DEF T, r, k
<1>5. i = k * QueryTile + m /\ k * QueryTile \in Nat
  BY <1>2
<1> HIDE DEF m
<1>6. i \div QueryTile = k
  <2>0. k \in Nat /\ QueryTile \in Nat \ {0}
    BY <1>1, <1>2
  <2>1. (k * QueryTile + m) \div QueryTile = k
    BY ONLY <2>0, <1>3, DivMod
  <2> QED
    BY ONLY <2>1, <1>5
<1>7. r < ReqNum
  <2>1. CASE r >= ReqNum
    <3>1. r * T >= ReqNum * T
      BY <1>1, <1>2, <2>1
    <3>2. r * T \in Nat /\ ReqNum * T \in Nat
      BY <1>1, <1>2
    <3> QED
      BY <3>1, <3>2, <1>1, <1>2, <1>4
  <2> QED
    BY <2>1, <1>2
<1> QED
  BY <1>2, <1>6, <1>7 DEF TileOf, Reqs, T, r

LEMMA TileRequest ==
  ASSUME NEW n \in Nat \ {0}, NEW t \in 0 .. ReqNum * TilesOf(n) - 1
  PROVE  /\ t \div TilesOf(n) \in Reqs /\ (t % TilesOf(n)) * QueryTile \in Nat
         /\ (t % TilesOf(n)) * QueryTile < n
<1> DEFINE T == TilesOf(n)
           r == t \div T
           k == t % T
           m == (n + QueryTile - 1) % QueryTile
<1>1. T \in Nat \ {0}
  BY TileCount
<1>2. r \in Nat /\ k \in 0 .. T - 1 /\ t = r * T + k
  <2>1. t \in Nat
    <3>1. ReqNum * T - 1 \in Int
      BY <1>1
    <3> QED
      BY <3>1
  <2> QED
    BY <1>1, <2>1, Quotient
<1>3. m \in 0 .. QueryTile - 1 /\ n + QueryTile - 1 = T * QueryTile + m
  <2>1. n + QueryTile - 1 \in Nat
    OBVIOUS
  <2> QED
    BY <2>1, Quotient DEF TilesOf, CeilDiv
<1>4. t < ReqNum * T
  <2>1. ReqNum * T \in Nat
    BY <1>1
  <2> QED
    BY <2>1
<1> HIDE DEF T, r, k, m
<1>5. r < ReqNum
  <2>1. CASE r >= ReqNum
    <3>1. r * T >= ReqNum * T
      BY <1>1, <1>2, <2>1
    <3>2. r * T \in Nat /\ ReqNum * T \in Nat
      BY <1>1, <1>2
    <3> QED
      BY <3>1, <3>2, <1>1, <1>2, <1>4
  <2> QED
    BY <2>1, <1>2
<1>6. k * QueryTile < n
  <2>1. (k + 1) * QueryTile <= T * QueryTile
    BY <1>1, <1>2
  <2>2. (k + 1) * QueryTile = k * QueryTile + QueryTile
        /\ k * QueryTile \in Nat /\ T * QueryTile \in Nat
    BY <1>1, <1>2
  <2> QED
    BY <2>1, <2>2, <1>3
<1> QED
  BY <1>2, <1>5, <1>6 DEF Reqs, T, r, k

-----------------------------------------------------------------------------
(* The walk and the reference.                                              *)

\* A stride is found: n - 1 has no divisor with n in common.
LEMMA StrideIs ==
  ASSUME NEW hash \in Nat, NEW n \in Nat
  PROVE  /\ PickCoprimeA(hash, n) \in Nat
         /\ n > 1 => PickCoprimeA(hash, n) \in 1 .. n - 1 /\ Coprime(PickCoprimeA(hash, n), n)
<1>1. CASE n <= 1
  BY <1>1 DEF PickCoprimeA
<1>2. CASE n > 1
  <2> DEFINE S == {a \in Max({hash % n, 1}) .. n - 1 : Coprime(a, n)}
  <2>1. Max({hash % n, 1}) \in 1 .. n - 1
    <3> DEFINE h == hash % n
    <3>1. h \in 0 .. n - 1
      BY <1>2, Quotient
    <3> HIDE DEF h
    <3>2. Max({h, 1}) = IF h <= 1 THEN 1 ELSE h
      BY <3>1, MinMaxPair
    <3> QED
      BY <3>1, <3>2, <1>2 DEF h
  <2>2. Coprime(n - 1, n)
    <3> SUFFICES ASSUME NEW d \in 2 .. n - 1, (n - 1) % d = 0, n % d = 0
                 PROVE  FALSE
      BY DEF Coprime, Divides
    <3> DEFINE p == (n - 1) \div d
    <3>1. d \in Nat \ {0} /\ n - 1 \in Nat
      BY <1>2
    <3>2. p \in Nat /\ n - 1 = p * d + ((n - 1) % d)
      BY <3>1, Quotient
    <3> HIDE DEF p
    <3>3. p * d \in Nat
      BY <3>1, <3>2
    <3>4. (p * d + 1) % d = 1
      <4>1. 1 \in 0 .. d - 1
        OBVIOUS
      <4> QED
        BY ONLY <3>1, <3>2, <4>1, DivMod
    <3>5. n = p * d + 1
      BY <3>2, <3>3
    <3> QED
      BY <3>4, <3>5
  <2>3. S \in SUBSET Nat /\ n - 1 \in S
    BY <1>2, <2>1, <2>2
  <2>4. PICK m \in S : \A d \in S : m <= d
    <3> HIDE DEF S
    <3> QED
      BY <2>3, Least
  <2>5. Min(S) \in S
    <3> HIDE DEF S
    <3> QED
      BY <2>4 DEF Min
  <2>6. PickCoprimeA(hash, n) = Min(S)
    BY <1>2 DEF PickCoprimeA
  <2>7. \A a \in S : a \in Nat /\ a \in 1 .. n - 1 /\ Coprime(a, n)
    BY <2>1, <2>3
  <2> HIDE DEF S
  <2> QED
    BY <2>5, <2>6, <2>7
<1> QED
  BY <1>1, <1>2

WalksIn == walks \in [Reqs -> [a : Nat, b : Nat]]

LEMMA PositionIs ==
  ASSUME WalksIn, NEW r \in Reqs, NEW t \in Nat, NEW n \in Nat \ {0}
  PROVE  Position(r, t, n) \in 0 .. n - 1
<1>1. walks[r].a \in Nat /\ walks[r].b \in Nat
  BY DEF WalksIn
<1>2. PickCoprimeA(walks[r].a, n) \in Nat
  BY <1>1, StrideIs
<1>3. PickCoprimeA(walks[r].a, n) * t + walks[r].b \in Nat
  BY <1>1, <1>2
<1> QED
  BY <1>3, Quotient DEF Position

Queries(n) == [Reqs -> [0 .. n - 1 -> 0 .. IndexSize - 1]]

States == [0 .. IndexSize - 1 -> Nat]

LEMMA OldTableIs == OldTable \in [Reqs -> States]
<1>1. ASSUME NEW r \in Reqs, NEW k \in 0 .. IndexSize - 1 PROVE OldState(r, k) \in Nat
  BY DEF OldState, Reqs
<1> QED
  BY <1>1 DEF OldTable, States

\* A request's states after one more entry.
OneMore(q, r, n, t, states) ==
  [states EXCEPT ![q[r][Position(r, t, n)]] = NewState(r, Position(r, t, n))]

\* The recursion of the reference has a solution, which StatesAfter is.
LEMMA StatesUnfold ==
  ASSUME NEW n \in Nat, NEW q \in Queries(n), NEW r \in Reqs, NEW num \in Nat,
         WalksIn, num > 0 => n > 0
  PROVE  /\ StatesAfter(q, r, n, num) \in [0 .. num -> States]
         /\ StatesAfter(q, r, n, num)[0] = OldTable[r]
         /\ \A t \in 0 .. num - 1 :
              StatesAfter(q, r, n, num)[t + 1] =
                OneMore(q, r, n, t, StatesAfter(q, r, n, num)[t])
<1> DEFINE Pos(t) == Position(r, t - 1, n)
           Step(g, t) == [g EXCEPT ![q[r][Pos(t)]] = NewState(r, Pos(t))]
           Joins(f) == f = [t \in 0 .. num |-> IF t = 0 THEN OldTable[r] ELSE Step(f[t - 1], t)]
           Upto(m, g) == g[0] = OldTable[r] /\ \A t \in 1 .. m : g[t] = Step(g[t - 1], t)
           Has(m) == \E g \in [0 .. m -> States] : Upto(m, g)
           Bad == {m \in 0 .. num : ~ Has(m)}
<1>1. OldTable[r] \in States
  BY OldTableIs
<1>2. ASSUME NEW t \in 1 .. num, NEW g \in States PROVE Step(g, t) \in States
  <2>1. Pos(t) \in 0 .. n - 1
    BY PositionIs
  <2>2. NewState(r, Pos(t)) \in Nat
    BY <2>1 DEF NewState, Reqs
  <2> QED
    BY <2>2 DEF States
<1>3. ASSUME Bad # {} PROVE FALSE
  <2>0. Bad \in SUBSET Nat
    OBVIOUS
  <2>1. PICK m \in Bad : \A d \in Bad : m <= d
    <3> HIDE DEF Bad
    <3> QED
      BY <1>3, <2>0, Least
  <2>2. m \in Nat /\ m <= num /\ ~ Has(m)
    <3> HIDE DEF Has
    <3> QED
      BY <2>1
  <2>3. CASE m = 0
    <3> DEFINE g == [t \in 0 .. 0 |-> OldTable[r]]
    <3>1. g \in [0 .. 0 -> States] /\ Upto(0, g)
      BY <1>1
    <3> QED
      BY <3>1, <2>2, <2>3
  <2>4. CASE m > 0
    <3>1. m - 1 \in 0 .. num /\ m - 1 \notin Bad
      <4> HIDE DEF Bad
      <4> QED
        BY <2>1, <2>2, <2>4
    <3>0. Has(m - 1)
      <4> HIDE DEF Has
      <4> QED
        BY <3>1
    <3>2. PICK g \in [0 .. m - 1 -> States] : Upto(m - 1, g)
      BY <3>0
    <3> DEFINE last == Step(g[m - 1], m)
    <3>3. last \in States
      <4>1. m \in 1 .. num /\ g[m - 1] \in States
        BY <2>2, <2>4
      <4> QED
        BY <4>1, <1>2
    <3> HIDE DEF last
    <3> DEFINE h == [t \in 0 .. m |-> IF t = m THEN last ELSE g[t]]
    <3>4. h \in [0 .. m -> States]
      BY <3>3, <2>2, <2>4
    <3>5. h[0] = OldTable[r]
      BY <3>2, <2>2, <2>4
    <3>6. ASSUME NEW t \in 1 .. m PROVE h[t] = Step(h[t - 1], t)
      <4>1. h[t - 1] = g[t - 1]
        BY <2>2, <2>4
      <4>2. CASE t = m
        BY <4>1, <4>2, <2>2, <2>4 DEF last
      <4>3. CASE t # m
        <5>1. t \in 1 .. m - 1 /\ h[t] = g[t]
          BY <4>3, <2>2, <2>4
        <5>2. g[t] = Step(g[t - 1], t)
          BY <5>1, <3>2
        <5> HIDE DEF h, Step
        <5> QED
          BY <4>1, <5>1, <5>2
      <4> QED
        BY <4>2, <4>3
    <3>7. Upto(m, h)
      <4> HIDE DEF h, Step
      <4> QED
        BY <3>5, <3>6
    <3> QED
      <4> HIDE DEF h, Upto
      <4> QED
        BY <3>4, <3>7, <2>2
  <2> QED
    BY <2>2, <2>3, <2>4
<1>0. Has(num)
  <2> HIDE DEF Has
  <2> QED
    BY <1>3
<1>4. PICK g \in [0 .. num -> States] : Upto(num, g)
  BY <1>0
<1>5. Joins(g)
  <2> HIDE DEF Step
  <2> QED
    BY <1>4
<1> DEFINE f == StatesAfter(q, r, n, num)
<1>6. f = CHOOSE h : Joins(h)
  BY DEF StatesAfter
<1>7. Joins(f)
  <2> HIDE DEF Joins, f
  <2> QED
    BY <1>5, <1>6
<1> HIDE DEF f
<1>8. /\ DOMAIN f = 0 .. num
      /\ \A t \in 0 .. num : f[t] = IF t = 0 THEN OldTable[r] ELSE Step(f[t - 1], t)
  <2> HIDE DEF Step
  <2> QED
    BY <1>7
<1> DEFINE Odd == {t \in 0 .. num : f[t] \notin States}
<1>9. ASSUME Odd # {} PROVE FALSE
  <2>1. PICK m \in Odd : \A d \in Odd : m <= d
    <3>1. Odd \in SUBSET Nat
      OBVIOUS
    <3> HIDE DEF Odd
    <3> QED
      BY <3>1, <1>9, Least
  <2>2. m # 0
    BY <1>1, <1>8, <2>1
  <2>3. m - 1 \in 0 .. num /\ m - 1 \notin Odd /\ m \in 1 .. num
    BY <2>1, <2>2
  <2>4. f[m - 1] \in States
    BY <2>3
  <2>5. Step(f[m - 1], m) \in States
    BY <1>2, <2>3, <2>4
  <2>6. f[m] = Step(f[m - 1], m)
    <3> HIDE DEF Step
    <3> QED
      BY <1>8, <2>3
  <2> QED
    BY <2>1, <2>5, <2>6
<1>10. f \in [0 .. num -> States]
  <2>1. f = [t \in 0 .. num |-> f[t]]
    <3> HIDE DEF Step
    <3> QED
      BY <1>7
  <2> QED
    BY <1>9, <2>1
<1>11. ASSUME NEW t \in 0 .. num - 1
       PROVE  f[t + 1] = OneMore(q, r, n, t, f[t])
  <2>1. t + 1 \in 0 .. num /\ t + 1 # 0 /\ (t + 1) - 1 = t
    OBVIOUS
  <2>2. f[t + 1] = Step(f[(t + 1) - 1], t + 1)
    <3> HIDE DEF Step
    <3> QED
      BY <2>1, <1>8
  <2> QED
    BY <2>1, <2>2 DEF OneMore
<1>12. f[0] = OldTable[r]
  BY <1>8
<1> QED
  BY <1>10, <1>11, <1>12 DEF f

-----------------------------------------------------------------------------
(* A lookup.                                                                *)

Idle == \A c \in Cores : copying[c] = None

\* Core c is at every blocks-th item from c on.
Striding(blocks) ==
  /\ at \in [Cores -> Nat]
  /\ \A c \in 0 .. blocks - 1 : at[c] % blocks = c

\* The states that request r's entry i has before any update.
Old(q, r, i) == OldTable[r][q[r][i]]

LookupJob(n, blocks) ==
  [do |-> "lookup", n |-> n, percent |-> 0, blocks |-> blocks,
   items |-> ReqNum * TilesOf(n)]

Copies ==
  [req : Reqs, base : Nat, tile : [0 .. QueryTile - 1 -> Nat]]

\* The copy of tile t, from before any update.
CopiesTile(n, q, k, t) ==
  /\ k \in Copies
  /\ k.req = t \div TilesOf(n)
  /\ k.base = (t % TilesOf(n)) * QueryTile
  /\ \A j \in 0 .. QueryTile - 1 :
       k.base + j < n => k.tile[j] = Old(q, k.req, k.base + j)

Outs(n) == [Reqs -> [0 .. Padded(n) - 1 -> Nat \cup {None}]]

(* While a lookup runs, an entry whose tile a core has left behind has been  *)
(* written, or that core's copy is still under way and will write it.       *)
LookupRuns(n, blocks) ==
  /\ n \in Nat \ {0} /\ blocks \in 1 .. MaxBlocks
  /\ job = LookupJob(n, blocks)
  /\ table = OldTable
  /\ query \in Queries(n)
  /\ Striding(blocks)
  /\ out \in Outs(n)
  /\ copying = [c \in Cores |-> copying[c]]
  /\ \A c \in Cores : copying[c] # None =>
       /\ c < blocks /\ at[c] >= blocks /\ at[c] - blocks < ReqNum * TilesOf(n)
       /\ CopiesTile(n, query, copying[c], at[c] - blocks)
  /\ \A r \in Reqs : \A i \in 0 .. n - 1 : \A c \in 0 .. blocks - 1 :
       LET t == TileOf(n, r, i)
       IN t % blocks = c /\ t < at[c] =>
            \/ out[r][i] = Old(query, r, i)
            \/ copying[c] # None /\ t = at[c] - blocks

\* No core comes to a partial tile from another tile.
Untailed(n, blocks) ==
  \A t \in blocks .. ReqNum * TilesOf(n) - 1 :
    ((t % TilesOf(n)) + 1) * QueryTile <= n

LookedUp(n) == \A r \in Reqs : \A i \in 0 .. n - 1 : out[r][i] = Old(query, r, i)

LEMMA BlocksIn ==
  ASSUME NEW dim \in Int
  PROVE  ClampBlockDim(dim) \in 1 .. MaxBlocks
<1>1. Max({dim, 1}) \in Nat \ {0}
  <2>1. Max({dim, 1}) = IF dim <= 1 THEN 1 ELSE dim
    BY MinMaxPair
  <2> QED
    BY <2>1
<1>2. MaxBlocks \in Nat \ {0}
  BY SizeAssumption
<1> DEFINE m == Max({dim, 1})
<1> HIDE DEF m
<1>3. m \in Nat \ {0}
  BY <1>1 DEF m
<1>4. Min({m, MaxBlocks}) \in 1 .. MaxBlocks
  BY <1>2, <1>3, MinMaxPair
<1> QED
  BY <1>4 DEF ClampBlockDim, m

\* The core of a tile or of a request.
LEMMA CoreOf ==
  ASSUME NEW blocks \in 1 .. MaxBlocks, NEW t \in Nat
  PROVE  t % blocks \in 0 .. blocks - 1 /\ t % blocks \in Cores /\ t % blocks <= t
<1>1. blocks \in Nat \ {0} /\ blocks <= MaxBlocks /\ MaxBlocks \in Nat
  OBVIOUS
<1> DEFINE c == t % blocks
           q == t \div blocks
<1>2. c \in 0 .. blocks - 1 /\ q \in Nat /\ t = q * blocks + c
  BY ONLY <1>1, Quotient, t \in Nat
<1> HIDE DEF c, q
<1>3. q * blocks \in Nat
  BY <1>1, <1>2
<1>4. c <= t /\ c \in Cores
  BY <1>1, <1>2, <1>3 DEF Cores
<1> QED
  BY <1>2, <1>4 DEF c

LEMMA AtStart ==
  ASSUME NEW blocks \in 1 .. MaxBlocks, at' = [c \in Cores |-> c]
  PROVE  Striding(blocks)' /\ \A c \in Cores : at'[c] = c
<1>1. \A c \in 0 .. blocks - 1 : c \in Cores /\ c % blocks = c
  BY DEF Cores
<1> QED
  BY <1>1 DEF Striding, Cores

LEMMA LookupStarts ==
  ASSUME NEW n \in Nat \ {0}, NEW dim \in Int, Idle, copying = [c \in Cores |-> copying[c]],
         table = OldTable, query \in Queries(n), LaunchLookup(n, dim)
  PROVE  LookupRuns(n, ClampBlockDim(dim))'
<1> DEFINE blocks == ClampBlockDim(dim)
<1>1. blocks \in 1 .. MaxBlocks
  BY BlocksIn
<1> HIDE DEF blocks
<1>2. /\ job' = LookupJob(n, blocks) /\ at' = [c \in Cores |-> c]
      /\ out' = [r \in Reqs |-> [i \in 0 .. Padded(n) - 1 |-> None]]
      /\ table' = OldTable /\ query' = query /\ copying' = copying
  BY DEF LaunchLookup, Launched, LookupJob, TilesOf, blocks
<1>3. Striding(blocks)' /\ \A c \in Cores : at'[c] = c
  BY <1>1, <1>2, AtStart
<1>4. out' \in Outs(n)
  BY <1>2 DEF Outs
<1>5. \A c \in Cores : copying'[c] = None
  BY <1>2 DEF Idle
<1>6. ASSUME NEW r \in Reqs, NEW i \in 0 .. n - 1, NEW c \in 0 .. blocks - 1,
             TileOf(n, r, i) % blocks = c, TileOf(n, r, i) < at'[c]
      PROVE  FALSE
  <2> DEFINE t == TileOf(n, r, i)
  <2>1. at'[c] = c
    BY <1>1, <1>3 DEF Cores
  <2>2. t \in Nat
    <3>1. ReqNum * TilesOf(n) - 1 \in Int
      BY TileCount
    <3> QED
      BY <3>1, TileInRange
  <2> HIDE DEF t
  <2>3. t % blocks = t
    BY <1>1, <1>6, <2>1, <2>2 DEF t
  <2> QED
    BY <1>1, <1>6, <2>1, <2>2, <2>3 DEF t
<1>7. LookupRuns(n, blocks)'
  BY <1>1, <1>2, <1>3, <1>4, <1>5, <1>6 DEF LookupRuns, Queries, LookupJob
<1> QED
  BY <1>7 DEF blocks

\* What a copy writes.
LEMMA WrittenIs ==
  ASSUME NEW n \in Nat, out \in Outs(n), NEW k \in Copies,
         NEW tile \in [0 .. QueryTile - 1 -> Nat]
  PROVE  /\ Written(k, tile) \in Outs(n)
         /\ \A r \in Reqs : \A i \in 0 .. Padded(n) - 1 :
              Written(k, tile)[r][i] =
                IF r = k.req /\ i - k.base \in 0 .. QueryTile - 1
                THEN tile[i - k.base] ELSE out[r][i]
<1> DEFINE P == Padded(n)
           V == Nat \cup {None}
           row == [i \in 0 .. P - 1 |-> IF i - k.base \in 0 .. QueryTile - 1
                                        THEN tile[i - k.base] ELSE out[k.req][i]]
<1>1. k.req \in Reqs /\ k.base \in Nat
  BY DEF Copies
<1>2. out \in [Reqs -> [0 .. P - 1 -> V]]
  BY DEF Outs
<1>3. DOMAIN out[k.req] = 0 .. P - 1
  BY <1>1, <1>2
<1>4. Written(k, tile) = [out EXCEPT ![k.req] = row]
  BY <1>1, <1>2, <1>3 DEF Written
<1>5. row \in [0 .. P - 1 -> V]
  BY <1>1, <1>2
<1>6. \A i \in 0 .. P - 1 : row[i] = IF i - k.base \in 0 .. QueryTile - 1
                                     THEN tile[i - k.base] ELSE out[k.req][i]
  OBVIOUS
<1> HIDE DEF row, P, V
<1>7. /\ [out EXCEPT ![k.req] = row] \in [Reqs -> [0 .. P - 1 -> V]]
      /\ \A r \in Reqs : [out EXCEPT ![k.req] = row][r] = IF r = k.req THEN row ELSE out[r]
  BY <1>1, <1>2, <1>5
<1> QED
  BY <1>4, <1>6, <1>7 DEF Outs, P, V

LEMMA LookupCopies ==
  ASSUME NEW n, NEW blocks, LookupRuns(n, blocks), NEW c \in Cores, CopyOut(c)
  PROVE  LookupRuns(n, blocks)'
<1> DEFINE k == copying[c]
           b == at[c] - blocks
<1>1. /\ n \in Nat \ {0} /\ blocks \in 1 .. MaxBlocks /\ out \in Outs(n) /\ at[c] \in Nat
      /\ c < blocks /\ b \in 0 .. ReqNum * TilesOf(n) - 1 /\ CopiesTile(n, query, k, b)
  <2>1. /\ n \in Nat \ {0} /\ blocks \in 1 .. MaxBlocks /\ out \in Outs(n)
        /\ at[c] \in Nat /\ c < blocks /\ at[c] >= blocks
        /\ at[c] - blocks < ReqNum * TilesOf(n) /\ CopiesTile(n, query, copying[c], at[c] - blocks)
    BY DEF LookupRuns, CopyOut, Striding
  <2>2. TilesOf(n) \in Nat
    BY <2>1, TileCount
  <2> QED
    BY <2>1, <2>2
<1>2. /\ out' = Written(k, k.tile) /\ copying' = [copying EXCEPT ![c] = None]
      /\ UNCHANGED <<table, query, job, at>>
  BY DEF CopyOut
<1>3. k \in Copies /\ k.tile \in [0 .. QueryTile - 1 -> Nat]
  BY <1>1 DEF CopiesTile, Copies
<1> HIDE DEF k, b
<1>4. /\ out' \in Outs(n)
      /\ \A r \in Reqs : \A i \in 0 .. Padded(n) - 1 :
           out'[r][i] = IF r = k.req /\ i - k.base \in 0 .. QueryTile - 1
                        THEN k.tile[i - k.base] ELSE out[r][i]
  <2> DEFINE tile == k.tile
  <2>1. /\ tile \in [0 .. QueryTile - 1 -> Nat] /\ out' = Written(k, tile) /\ n \in Nat
        /\ out \in Outs(n) /\ k \in Copies
    BY <1>1, <1>2, <1>3
  <2> HIDE DEF tile
  <2>2. /\ Written(k, tile) \in Outs(n)
        /\ \A r \in Reqs : \A i \in 0 .. Padded(n) - 1 :
             Written(k, tile)[r][i] =
               IF r = k.req /\ i - k.base \in 0 .. QueryTile - 1
               THEN tile[i - k.base] ELSE out[r][i]
    BY ONLY <2>1, WrittenIs
  <2> QED
    BY <2>1, <2>2 DEF tile
<1>5. \A i \in 0 .. n - 1 : i \in 0 .. Padded(n) - 1
  BY <1>1, TileCount
<1>6. /\ copying' = [d \in Cores |-> copying'[d]]
      /\ copying'[c] = None /\ \A d \in Cores \ {c} : copying'[d] = copying[d]
  BY <1>2 DEF LookupRuns
<1>7. \A d \in Cores : copying'[d] # None => copying'[d] = copying[d]
  BY <1>6
<1>8. ASSUME NEW r \in Reqs, NEW i \in 0 .. n - 1, NEW d \in 0 .. blocks - 1,
             TileOf(n, r, i) % blocks = d, TileOf(n, r, i) < at[d]
      PROVE  \/ out'[r][i] = Old(query, r, i)
             \/ copying'[d] # None /\ TileOf(n, r, i) = at[d] - blocks
  <2>1. CASE r = k.req /\ i - k.base \in 0 .. QueryTile - 1
    <3>1. out'[r][i] = k.tile[i - k.base]
      BY <1>4, <1>5, <2>1
    <3>2. k.base \in Nat /\ k.base + (i - k.base) = i
      BY <1>3 DEF Copies
    <3>3. k.tile[i - k.base] = Old(query, k.req, k.base + (i - k.base))
      BY <1>1, <2>1, <3>2 DEF CopiesTile
    <3> QED
      BY <2>1, <3>1, <3>2, <3>3
  <2>2. CASE ~ (r = k.req /\ i - k.base \in 0 .. QueryTile - 1)
    <3>1. out'[r][i] = out[r][i]
      BY <1>4, <1>5, <2>2
    <3>2. \/ out[r][i] = Old(query, r, i)
          \/ copying[d] # None /\ TileOf(n, r, i) = at[d] - blocks
      BY <1>1, <1>8 DEF LookupRuns
    <3>3. CASE d = c /\ TileOf(n, r, i) = b
      <4>1. /\ b \div TilesOf(n) = r /\ b % TilesOf(n) = i \div QueryTile
            /\ i - (i \div QueryTile) * QueryTile \in 0 .. QueryTile - 1
        BY <1>1, <3>3, TileInRange
      <4>2. k.req = r /\ k.base = (i \div QueryTile) * QueryTile
        BY <1>1, <4>1 DEF CopiesTile
      <4> QED
        BY <2>2, <4>1, <4>2
    <3>4. CASE d # c
      <4>1. copying'[d] = copying[d]
        BY <1>1, <1>6, <3>4 DEF Cores
      <4> QED
        BY <3>1, <3>2, <4>1
    <3> QED
      BY <3>1, <3>2, <3>3, <3>4 DEF b
  <2> QED
    BY <2>1, <2>2
<1>9. ASSUME NEW d \in Cores, copying'[d] # None
      PROVE  /\ d < blocks /\ at'[d] >= blocks /\ at'[d] - blocks < ReqNum * TilesOf(n)
             /\ CopiesTile(n, query', copying'[d], at'[d] - blocks)
  <2>1. copying'[d] = copying[d] /\ copying[d] # None /\ at'[d] = at[d]
    BY <1>2, <1>7, <1>9
  <2>2. /\ d < blocks /\ at[d] >= blocks /\ at[d] - blocks < ReqNum * TilesOf(n)
        /\ CopiesTile(n, query, copying[d], at[d] - blocks)
    BY <2>1 DEF LookupRuns
  <2> QED
    BY <1>2, <2>1, <2>2
<1>10. /\ n \in Nat \ {0} /\ blocks \in 1 .. MaxBlocks /\ job' = LookupJob(n, blocks)
       /\ table' = OldTable /\ query' \in Queries(n) /\ Striding(blocks)'
  BY <1>2 DEF LookupRuns, Striding
<1>12. \A r \in Reqs : \A i \in 0 .. n - 1 : \A d \in 0 .. blocks - 1 :
         LET t == TileOf(n, r, i)
         IN t % blocks = d /\ t < at'[d] =>
              \/ out'[r][i] = Old(query', r, i)
              \/ copying'[d] # None /\ t = at'[d] - blocks
  BY <1>2, <1>8
<1> QED
  BY <1>4, <1>6, <1>9, <1>10, <1>12 DEF LookupRuns

\* What a core gathers is what its tile's copy has to write.
LEMMA GatheredIs ==
  ASSUME NEW n, NEW blocks, LookupRuns(n, blocks), NEW c \in Cores, c < blocks,
         at[c] < ReqNum * TilesOf(n)
  PROVE  /\ CopiesTile(n, query, CopyOf(c), at[c])
         /\ Valid(c) = Min({QueryTile, n - (at[c] % TilesOf(n)) * QueryTile})
<1> DEFINE t == at[c]
           T == TilesOf(n)
           r == t \div T
           b == (t % T) * QueryTile
           v == Min({QueryTile, n - b})
<1>1. n \in Nat \ {0} /\ query \in Queries(n) /\ table = OldTable /\ job = LookupJob(n, blocks)
  BY DEF LookupRuns
<1>2. t \in 0 .. ReqNum * T - 1
  <2>1. t \in Nat /\ ReqNum * T \in Nat
    BY <1>1, TileCount DEF LookupRuns, Striding
  <2> QED
    BY <2>1
<1>3. r \in Reqs /\ b \in Nat /\ b < n
  BY <1>1, <1>2, TileRequest
<1>4. job.n = n /\ ReqOf(c) = r /\ BaseOf(c) = b
  BY <1>1 DEF LookupJob, ReqOf, BaseOf, TilesOf
<1>5. Valid(c) = v
  BY <1>4 DEF Valid
<1> HIDE DEF t, T, r, b, v
<1>6. \A j \in 0 .. QueryTile - 1 : j < v <=> b + j < n
  <2>1. v = IF QueryTile <= n - b THEN QueryTile ELSE n - b
    BY <1>1, <1>3, MinMaxPair DEF v
  <2> QED
    BY <1>1, <1>3, <2>1
<1>7. ASSUME NEW j \in 0 .. QueryTile - 1, b + j < n
      PROVE  OldTable[r][query[r][b + j]] \in Nat
  <2>1. b + j \in 0 .. n - 1
    BY <1>1, <1>3, <1>7
  <2> QED
    BY <2>1, <1>1, <1>3, OldTableIs DEF Queries, States
<1>8. Gathered(c) = [j \in 0 .. QueryTile - 1 |->
                       IF j < v THEN OldTable[r][query[r][b + j]] ELSE 0]
  BY <1>1, <1>4, <1>5 DEF Gathered
<1>9. Gathered(c) \in [0 .. QueryTile - 1 -> Nat]
  <2>1. \A j \in 0 .. QueryTile - 1 :
          (IF j < v THEN OldTable[r][query[r][b + j]] ELSE 0) \in Nat
    BY <1>6, <1>7
  <2> QED
    BY <1>8, <2>1
<1>10. \A j \in 0 .. QueryTile - 1 : b + j < n => Gathered(c)[j] = Old(query, r, b + j)
  BY <1>6, <1>8 DEF Old
<1>11. CopyOf(c).req = r /\ CopyOf(c).base = b /\ CopyOf(c).tile = Gathered(c)
       /\ CopyOf(c) \in Copies
  BY <1>3, <1>4, <1>9 DEF CopyOf, Copies
<1> QED
  BY <1>5, <1>10, <1>11 DEF CopiesTile, t, T, r, b, v

LEMMA LookupGathers ==
  ASSUME NEW n, NEW blocks, LookupRuns(n, blocks), Untailed(n, blocks), NEW c \in Cores,
         FullTile(c) \/ TailTile(c)
  PROVE  LookupRuns(n, blocks)' /\ Running(c, "lookup")
<1>1. Running(c, "lookup") /\ StartCopy(c)
  BY DEF FullTile, TailTile
<1>2. /\ n \in Nat \ {0} /\ blocks \in 1 .. MaxBlocks /\ job = LookupJob(n, blocks)
      /\ at \in [Cores -> Nat] /\ at[c] \in Nat
  BY DEF LookupRuns, Striding
<1>3. c < blocks /\ at[c] < ReqNum * TilesOf(n) /\ job.blocks = blocks
  BY <1>1, <1>2 DEF Running, LookupJob
<1>4. c \in 0 .. blocks - 1 /\ c \in Nat
  BY <1>2, <1>3 DEF Cores
<1>5. TilesOf(n) \in Nat \ {0}
  BY <1>2, TileCount
<1> DEFINE t == at[c]
           T == TilesOf(n)
           b == (t % T) * QueryTile
<1>6. t \in 0 .. ReqNum * T - 1
  BY <1>2, <1>3, <1>5
<1>7. Valid(c) < QueryTile => b + QueryTile > n
  <2>1. b \in Nat
    BY <1>2, <1>6, TileRequest
  <2>2. Valid(c) = Min({QueryTile, n - b})
    BY <1>3, GatheredIs
  <2> HIDE DEF b
  <2>3. Min({QueryTile, n - b}) = IF QueryTile <= n - b THEN QueryTile ELSE n - b
    BY <1>2, <2>1, MinMaxPair
  <2> QED
    BY <1>2, <2>1, <2>2, <2>3
<1>8. copying[c] = None
  <2>1. CASE FullTile(c)
    BY <2>1 DEF FullTile
  <2>2. CASE TailTile(c) /\ copying[c] # None
    <3>1. at[c] >= blocks /\ Valid(c) < QueryTile
      BY <2>2 DEF LookupRuns, TailTile
    <3>2. t \in blocks .. ReqNum * T - 1
      BY <1>2, <1>6, <3>1
    <3>3. ((t % T) + 1) * QueryTile <= n
      BY <3>2 DEF Untailed
    <3>4. ((t % T) + 1) * QueryTile = b + QueryTile
      <4>0. t \in Nat /\ T \in Nat \ {0}
        BY <1>2, <1>5
      <4> HIDE DEF t, T
      <4>1. t % T \in Nat
        BY ONLY <4>0, Quotient
      <4> QED
        BY <4>1
    <3>5. b \in Nat
      BY <1>2, <1>6, TileRequest
    <3> QED
      BY <1>2, <1>7, <3>1, <3>3, <3>4, <3>5
  <2> QED
    BY <2>1, <2>2
<1>9. /\ copying' = [copying EXCEPT ![c] = CopyOf(c)] /\ UNCHANGED <<table, query, job, out>>
      /\ at' = [at EXCEPT ![c] = at[c] + blocks]
  <2>1. UNCHANGED out
    BY <1>8 DEF FullTile, TailTile
  <2> QED
    BY <1>1, <1>3, <2>1 DEF StartCopy
<1>10. CopiesTile(n, query, CopyOf(c), t) /\ CopyOf(c) # None
  <2>1. CopiesTile(n, query, CopyOf(c), t)
    BY <1>3, GatheredIs
  <2>2. CopyOf(c) \in [req : Nat, base : Nat, tile : [0 .. QueryTile - 1 -> Nat]]
    BY <2>1 DEF CopiesTile, Copies, Reqs
  <2> QED
    BY <2>1, <2>2, NoneAssumption
<1>11. /\ at' \in [Cores -> Nat] /\ at'[c] = t + blocks
       /\ \A d \in Cores \ {c} : at'[d] = at[d]
  BY <1>2, <1>9
<1>12. /\ copying' = [d \in Cores |-> copying'[d]] /\ copying'[c] = CopyOf(c)
       /\ \A d \in Cores \ {c} : copying'[d] = copying[d]
  BY <1>9 DEF LookupRuns
<1>13. Striding(blocks)'
  <2>1. ASSUME NEW d \in 0 .. blocks - 1 PROVE at'[d] % blocks = d
    <3>1. at[d] % blocks = d /\ d \in Cores
      BY <1>2 DEF LookupRuns, Striding, Cores
    <3>2. (t + blocks) % blocks = t % blocks
      <4>1. t \in Nat /\ blocks \in Nat \ {0}
        BY <1>2
      <4> HIDE DEF t
      <4> QED
        BY ONLY <4>1, ResidueKept
    <3> QED
      BY <1>11, <3>1, <3>2
  <2> QED
    BY <1>11, <2>1 DEF Striding
<1>14. ASSUME NEW d \in Cores, copying'[d] # None
       PROVE  /\ d < blocks /\ at'[d] >= blocks /\ at'[d] - blocks < ReqNum * T
              /\ CopiesTile(n, query, copying'[d], at'[d] - blocks)
  <2>1. CASE d = c
    <3>1. at'[d] - blocks = t /\ at'[d] >= blocks
      BY <1>2, <1>6, <1>11, <2>1
    <3> QED
      BY <1>3, <1>10, <1>12, <2>1, <3>1
  <2>2. CASE d # c
    <3>1. copying'[d] = copying[d] /\ at'[d] = at[d]
      BY <1>11, <1>12, <2>2
    <3> QED
      BY <1>14, <3>1 DEF LookupRuns
  <2> QED
    BY <2>1, <2>2
<1>15. ASSUME NEW r \in Reqs, NEW i \in 0 .. n - 1, NEW d \in 0 .. blocks - 1,
              TileOf(n, r, i) % blocks = d, TileOf(n, r, i) < at'[d]
       PROVE  \/ out[r][i] = Old(query, r, i)
              \/ copying'[d] # None /\ TileOf(n, r, i) = at'[d] - blocks
  <2> DEFINE e == TileOf(n, r, i)
  <2>0. d \in Cores
    BY <1>2 DEF Cores
  <2>1. e < at[d] => \/ out[r][i] = Old(query, r, i)
                     \/ copying[d] # None /\ e = at[d] - blocks
    BY <1>15 DEF LookupRuns
  <2>2. CASE d # c
    BY <1>11, <1>12, <1>15, <2>0, <2>1, <2>2
  <2>3. CASE d = c /\ e < at[d]
    BY <1>8, <2>1, <2>3
  <2>4. CASE d = c /\ ~ e < at[d]
    <3>1. e \in Nat
      BY <1>2, <1>5, TileInRange
    <3>2. t % blocks = e % blocks
      BY <1>4, <1>15, <2>4 DEF LookupRuns, Striding
    <3>3. e < t + blocks
      BY <1>11, <1>15, <2>4
    <3>4. ~ t < e
      <4> HIDE DEF e, t
      <4>1. t \in Nat /\ blocks \in Nat \ {0}
        BY <1>2 DEF t
      <4>2. t < e => t + blocks <= e
        BY ONLY <4>1, <3>1, <3>2, NextOfResidue
      <4> QED
        BY <1>2, <3>1, <3>3, <4>1, <4>2
    <3>5. e = t
      BY <1>6, <2>4, <3>1, <3>4
    <3>6. at'[d] - blocks = t
      BY <1>2, <1>6, <1>11, <2>4
    <3> QED
      BY <1>10, <1>12, <2>4, <3>5, <3>6
  <2> QED
    BY <2>2, <2>3, <2>4
<1>16. /\ job' = LookupJob(n, blocks) /\ table' = OldTable /\ query' = query
       /\ query' \in Queries(n) /\ out' = out /\ out' \in Outs(n)
  BY <1>9 DEF LookupRuns
<1>17. LookupRuns(n, blocks)'
  BY <1>2, <1>12, <1>13, <1>14, <1>15, <1>16 DEF LookupRuns
<1> QED
  BY <1>1, <1>17

LEMMA LookupEnds ==
  ASSUME NEW n, NEW blocks, LookupRuns(n, blocks), KernelDone
  PROVE  LookedUp(n) /\ Idle
<1>1. /\ n \in Nat \ {0} /\ blocks \in 1 .. MaxBlocks /\ job = LookupJob(n, blocks)
      /\ at \in [Cores -> Nat]
  BY DEF LookupRuns, Striding
<1>2. Idle
  BY DEF KernelDone, Idle
<1>3. ASSUME NEW r \in Reqs, NEW i \in 0 .. n - 1 PROVE out[r][i] = Old(query, r, i)
  <2> DEFINE t == TileOf(n, r, i)
             c == t % blocks
  <2>1. ReqNum * TilesOf(n) \in Nat
    BY <1>1, TileCount
  <2>2. t \in Nat /\ t < ReqNum * TilesOf(n)
    <3>1. t \in 0 .. ReqNum * TilesOf(n) - 1
      BY <1>1, TileInRange
    <3> QED
      BY <2>1, <3>1
  <2>3. c \in 0 .. blocks - 1 /\ c \in Cores
    <3> HIDE DEF t
    <3>1. blocks \in Nat \ {0}
      BY <1>1
    <3>2. c \in 0 .. blocks - 1
      BY ONLY <2>2, <3>1, Quotient
    <3> QED
      BY <1>1, <3>2 DEF Cores
  <2> HIDE DEF c, t
  <2>4. ~ Running(c, "lookup")
    BY <1>1, <2>3 DEF KernelDone, LookupJob
  <2>5. job # None
    BY DEF KernelDone
  <2>6. ~ at[c] < ReqNum * TilesOf(n)
    BY <1>1, <2>3, <2>4, <2>5 DEF Running, LookupJob
  <2>7. t < at[c]
    BY <1>1, <2>1, <2>2, <2>3, <2>6
  <2>8. \/ out[r][i] = Old(query, r, i) \/ copying[c] # None
    BY <2>3, <2>7 DEF LookupRuns, t, c
  <2> QED
    BY <1>2, <2>3, <2>8 DEF Idle
<1> QED
  BY <1>2, <1>3 DEF LookedUp

-----------------------------------------------------------------------------
(* An update.                                                               *)

\* n * percent fits the kernel's 32 bits.
FitsWord(n, percent) == n * percent < Word

Num(n, percent) == (n * percent) \div 100

UpdateJob(n, percent, blocks) ==
  [do |-> "update", n |-> n, percent |-> percent, blocks |-> blocks, items |-> ReqNum]

\* How many entries of request r have been updated.
Turns(r, num, blocks) ==
  LET c == r % blocks
  IN IF r < at[c] THEN num ELSE IF r = at[c] THEN turn[c] ELSE 0

UpdateGoes(n, percent, blocks) ==
  /\ n \in Nat \ {0} /\ percent \in 0 .. 100 /\ blocks \in 1 .. MaxBlocks
  /\ FitsWord(n, percent)
  /\ job = UpdateJob(n, percent, blocks)
  /\ WalksIn
  /\ Striding(blocks)
  /\ turn \in [Cores -> 0 .. Num(n, percent)]

(* While an update runs, each request's states are the reference's after as  *)
(* many entries as its core has gone through.                               *)
UpdateRuns(n, percent, blocks) ==
  /\ UpdateGoes(n, percent, blocks)
  /\ query \in Queries(n) /\ fresh = FreshStates(n)
  /\ Idle
  /\ table \in [Reqs -> States]
  /\ \A r \in Reqs :
       table[r] = StatesAfter(query, r, n, Num(n, percent))
                    [Turns(r, Num(n, percent), blocks)]

LEMMA NumIs ==
  ASSUME NEW n \in Nat, NEW percent \in 0 .. 100
  PROVE  /\ Num(n, percent) \in Nat
         /\ FitsWord(n, percent) => UpdateNum(n, percent) = Num(n, percent)
         /\ n = 0 \/ percent = 0 => Num(n, percent) = 0
<1> DEFINE p == n * percent
           q == p \div 100
<1>1. p \in Nat /\ p <= n * 100
  BY DEF p
<1>2. q \in Nat /\ q <= n
  <2> HIDE DEF p
  <2> QED
    BY <1>1
<1>3. ASSUME p < Word PROVE UpdateNum(n, percent) = q
  <2>1. p % Word = p
    <3> HIDE DEF p
    <3> QED
      BY <1>1, <1>3
  <2>2. UpdateNum(n, percent) = Min({q, n})
    BY <2>1 DEF UpdateNum
  <2> HIDE DEF p, q
  <2>3. Min({q, n}) = IF q <= n THEN q ELSE n
    BY <1>2, MinMaxPair
  <2> QED
    BY <1>2, <2>2, <2>3
<1>4. n = 0 \/ percent = 0 => q = 0
  OBVIOUS
<1> QED
  BY <1>2, <1>3, <1>4 DEF Num, FitsWord

LEMMA LaunchGoes ==
  ASSUME NEW n \in Nat \ {0}, NEW dim \in Int, NEW percent \in 0 .. 100,
         FitsWord(n, percent), WalksIn', LaunchUpdate(n, dim, percent)
  PROVE  \E blocks \in 1 .. MaxBlocks :
           /\ UpdateGoes(n, percent, blocks)'
           /\ \A r \in Reqs : Turns(r, Num(n, percent), blocks)' = 0
<1> DEFINE blocks == ClampBlockDim(Min({dim, ReqNum}))
           num == Num(n, percent)
<1>1. blocks \in 1 .. MaxBlocks
  <2>1. Min({dim, ReqNum}) \in Int
    <3>1. Min({dim, ReqNum}) = IF dim <= ReqNum THEN dim ELSE ReqNum
      BY MinMaxPair
    <3> QED
      BY <3>1
  <2> QED
    BY <2>1, BlocksIn
<1> HIDE DEF blocks
<1>2. /\ job' = UpdateJob(n, percent, blocks) /\ at' = [c \in Cores |-> c]
      /\ turn' = [c \in Cores |-> 0]
  BY DEF LaunchUpdate, Launched, UpdateJob, blocks
<1>3. Striding(blocks)' /\ \A c \in Cores : at'[c] = c
  BY <1>1, <1>2, AtStart
<1>4. num \in Nat /\ num' = num
  BY NumIs
<1> HIDE DEF num
<1>5. turn' \in [Cores -> 0 .. num]
  BY <1>2, <1>4
<1>6. ASSUME NEW r \in Reqs PROVE Turns(r, num, blocks)' = 0
  <2> DEFINE c == r % blocks
  <2>1. r \in Nat
    BY DEF Reqs
  <2>2. c \in Cores /\ c <= r
    BY <1>1, <2>1, CoreOf
  <2> HIDE DEF c
  <2>3. at'[c] = c /\ turn'[c] = 0 /\ ~ r < at'[c]
    BY <1>2, <1>3, <2>1, <2>2 DEF Cores
  <2> QED
    BY <1>4, <2>3 DEF Turns, c
<1>7. UpdateGoes(n, percent, blocks)'
  BY <1>1, <1>2, <1>3, <1>4, <1>5 DEF UpdateGoes, num
<1> QED
  BY <1>1, <1>4, <1>6, <1>7 DEF num

\* What a core that is within its job knows of itself.
LEMMA UpdateAt ==
  ASSUME NEW n, NEW percent, NEW blocks, UpdateGoes(n, percent, blocks), NEW c \in Cores,
         Running(c, "update")
  PROVE  /\ c \in 0 .. blocks - 1 /\ at[c] \in Reqs /\ at[c] % blocks = c
         /\ blocks \in Nat \ {0} /\ n \in Nat \ {0}
         /\ Num(n, percent) \in Nat /\ turn[c] \in 0 .. Num(n, percent)
         /\ UpdateDue(c) <=> turn[c] < Num(n, percent)
         /\ PositionOf(c) = Position(at[c], turn[c], n)
         /\ job.blocks = blocks /\ job.n = n
<1>1. /\ n \in Nat \ {0} /\ percent \in 0 .. 100 /\ blocks \in 1 .. MaxBlocks
      /\ FitsWord(n, percent) /\ job = UpdateJob(n, percent, blocks)
  BY DEF UpdateGoes
<1>2. job.n = n /\ job.percent = percent /\ job.blocks = blocks /\ job.items = ReqNum
  BY <1>1 DEF UpdateJob
<1>3. c < blocks /\ at[c] < ReqNum
  BY <1>2 DEF Running
<1>4. at[c] \in Nat /\ c \in 0 .. blocks - 1
  BY <1>1, <1>3 DEF UpdateGoes, Striding, Cores
<1>5. at[c] \in Reqs /\ at[c] % blocks = c
  BY <1>3, <1>4 DEF UpdateGoes, Striding, Reqs
<1>6. Num(n, percent) \in Nat /\ UpdateNum(n, percent) = Num(n, percent)
  BY <1>1, NumIs
<1>7. UpdateDue(c) <=> turn[c] < Num(n, percent)
  BY <1>2, <1>6 DEF UpdateDue
<1> QED
  BY <1>1, <1>2, <1>4, <1>5, <1>6, <1>7 DEF UpdateGoes, PositionOf

LEMMA EntryGoes ==
  ASSUME NEW n, NEW percent, NEW blocks, UpdateGoes(n, percent, blocks), NEW c \in Cores,
         UpdateEntry(c)
  PROVE  /\ UpdateGoes(n, percent, blocks)'
         /\ \A r \in Reqs \ {at[c]} :
              Turns(r, Num(n, percent), blocks)' = Turns(r, Num(n, percent), blocks)
         /\ \A r \in Reqs : r = at[c] =>
              /\ Turns(r, Num(n, percent), blocks) = turn[c]
              /\ Turns(r, Num(n, percent), blocks)' = turn[c] + 1
<1> DEFINE num == Num(n, percent)
           r == at[c]
           t == turn[c]
<1>1. /\ c \in 0 .. blocks - 1 /\ r \in Reqs /\ r % blocks = c
      /\ num \in Nat /\ t \in 0 .. num /\ t < num
  BY UpdateAt DEF UpdateEntry
<1>2. turn' = [turn EXCEPT ![c] = t + 1] /\ UNCHANGED <<walks, job, at>>
  BY DEF UpdateEntry
<1>3. turn \in [Cores -> 0 .. num] /\ at \in [Cores -> Nat] /\ blocks \in 1 .. MaxBlocks
  BY DEF UpdateGoes, Striding
<1>4. num' = num
  OBVIOUS
<1> HIDE DEF num
<1>5. /\ turn' \in [Cores -> 0 .. num] /\ turn'[c] = t + 1
      /\ \A d \in Cores \ {c} : turn'[d] = turn[d]
  BY <1>1, <1>2, <1>3
<1>6. UpdateGoes(n, percent, blocks)'
  <2>1. Striding(blocks)' /\ WalksIn'
    BY <1>2 DEF UpdateGoes, Striding, WalksIn
  <2> QED
    BY <1>2, <1>4, <1>5, <2>1 DEF UpdateGoes, num
<1>7. ASSUME NEW s \in Reqs \ {r} PROVE Turns(s, num, blocks)' = Turns(s, num, blocks)
  <2> DEFINE d == s % blocks
  <2>1. d \in Cores
    <3>1. s \in Nat
      BY DEF Reqs
    <3> QED
      BY <1>3, <3>1, CoreOf
  <2>2. CASE d = c
    <3>1. at'[d] = at[d] /\ at[d] # s
      BY <1>2, <2>2
    <3> QED
      BY <1>4, <3>1 DEF Turns
  <2>3. CASE d # c
    <3>1. at'[d] = at[d] /\ turn'[d] = turn[d]
      BY <1>2, <1>5, <2>1, <2>3
    <3> QED
      BY <1>4, <3>1 DEF Turns
  <2> QED
    BY <2>2, <2>3
<1>8. ASSUME NEW s \in Reqs, s = r
      PROVE  Turns(s, num, blocks) = t /\ Turns(s, num, blocks)' = t + 1
  <2>1. r \in Nat /\ at'[c] = r
    BY <1>1, <1>2, <1>3
  <2> QED
    BY <1>1, <1>2, <1>4, <1>5, <1>8, <2>1 DEF Turns
<1> QED
  BY <1>6, <1>7, <1>8 DEF num

LEMMA RequestGoes ==
  ASSUME NEW n, NEW percent, NEW blocks, UpdateGoes(n, percent, blocks), NEW c \in Cores,
         NextRequest(c)
  PROVE  /\ UpdateGoes(n, percent, blocks)'
         /\ \A r \in Reqs :
              Turns(r, Num(n, percent), blocks)' = Turns(r, Num(n, percent), blocks)
<1> DEFINE num == Num(n, percent)
           r == at[c]
<1>1. /\ c \in 0 .. blocks - 1 /\ r \in Reqs /\ r % blocks = c /\ blocks \in Nat \ {0}
      /\ num \in Nat /\ turn[c] = num /\ job.blocks = blocks
  BY UpdateAt DEF NextRequest
<1>2. /\ at' = [at EXCEPT ![c] = r + blocks] /\ turn' = [turn EXCEPT ![c] = 0]
      /\ UNCHANGED <<walks, job>>
  BY <1>1 DEF NextRequest
<1>3. /\ at \in [Cores -> Nat] /\ turn \in [Cores -> 0 .. num] /\ r \in Nat
  BY <1>1 DEF UpdateGoes, Striding, Reqs
<1> HIDE DEF num, r
<1>4. /\ at' \in [Cores -> Nat] /\ at'[c] = r + blocks
      /\ turn' \in [Cores -> 0 .. num] /\ turn'[c] = 0
      /\ \A d \in Cores \ {c} : at'[d] = at[d] /\ turn'[d] = turn[d]
  BY <1>1, <1>2, <1>3
<1>5. Striding(blocks)'
  <2>1. ASSUME NEW d \in 0 .. blocks - 1 PROVE at'[d] % blocks = d
    <3>1. at[d] % blocks = d /\ d \in Cores
      BY DEF UpdateGoes, Striding, Cores
    <3>2. (r + blocks) % blocks = r % blocks
      BY ONLY <1>1, <1>3, ResidueKept
    <3> QED
      BY <1>1, <1>4, <3>1, <3>2
  <2> QED
    BY <1>4, <2>1 DEF Striding
<1>6. ASSUME NEW s \in Reqs PROVE Turns(s, num, blocks)' = Turns(s, num, blocks)
  <2> DEFINE d == s % blocks
  <2>0. d \in Cores /\ s \in Nat
    <3>1. s \in Nat /\ blocks \in 1 .. MaxBlocks
      BY <1>1 DEF Reqs, UpdateGoes
    <3> QED
      BY <3>1, CoreOf
  <2>1. CASE d # c
    <3>1. at'[d] = at[d] /\ turn'[d] = turn[d]
      BY <1>4, <2>0, <2>1
    <3> QED
      BY <3>1 DEF Turns
  <2>2. CASE d = c
    <3>1. r < s => r + blocks <= s
      <4>1. r % blocks = s % blocks
        BY <1>1, <2>2
      <4> QED
        BY ONLY <1>1, <1>3, <2>0, <4>1, NextOfResidue
    <3>2. Turns(s, num, blocks) = IF s < r THEN num ELSE IF s = r THEN num ELSE 0
      BY <1>1, <2>2 DEF Turns, r
    <3>3. Turns(s, num, blocks)' =
            IF s < r + blocks THEN num ELSE IF s = r + blocks THEN 0 ELSE 0
      <4>1. num' = num
        BY DEF num
      <4> QED
        BY <1>4, <2>2, <4>1 DEF Turns
    <3> QED
      BY <1>1, <1>3, <2>0, <3>1, <3>2, <3>3
  <2> QED
    BY <2>1, <2>2
<1>7. num' = num /\ WalksIn'
  BY <1>2 DEF UpdateGoes, WalksIn, num
<1>8. UpdateGoes(n, percent, blocks)'
  BY <1>2, <1>4, <1>5, <1>7 DEF UpdateGoes, num
<1> QED
  BY <1>6, <1>8 DEF num

LEMMA UpdateStarts ==
  ASSUME NEW n \in Nat \ {0}, NEW dim \in Int, NEW percent \in 0 .. 100, Idle,
         FitsWord(n, percent), table = OldTable, query \in Queries(n),
         fresh = FreshStates(n), WalksIn, LaunchUpdate(n, dim, percent), UNCHANGED walks
  PROVE  \E blocks \in 1 .. MaxBlocks : UpdateRuns(n, percent, blocks)'
<1> DEFINE num == Num(n, percent)
<1>1. table' = OldTable /\ query' = query /\ copying' = copying /\ fresh' = fresh
      /\ walks' = walks
  BY DEF LaunchUpdate, tensors
<1>2. WalksIn' /\ Idle'
  BY <1>1 DEF WalksIn, Idle
<1>3. PICK blocks \in 1 .. MaxBlocks :
        /\ UpdateGoes(n, percent, blocks)'
        /\ \A r \in Reqs : Turns(r, num, blocks)' = 0
  BY <1>2, LaunchGoes
<1>4. num \in Nat /\ num' = num
  BY NumIs
<1>5. OldTable \in [Reqs -> States]
  BY OldTableIs
<1>6. ASSUME NEW r \in Reqs
      PROVE  table'[r] = StatesAfter(query, r, n, num)'[Turns(r, num, blocks)']
  <2>1. StatesAfter(query, r, n, num)[0] = OldTable[r]
    BY <1>4, StatesUnfold
  <2>2. StatesAfter(query, r, n, num)' = StatesAfter(query, r, n, num)
    BY <1>1 DEF StatesAfter, Position
  <2> QED
    BY <1>1, <1>3, <2>1, <2>2
<1> HIDE DEF num
<1>7. UpdateRuns(n, percent, blocks)'
  BY <1>1, <1>2, <1>3, <1>4, <1>5, <1>6 DEF UpdateRuns, num
<1> QED
  BY <1>3, <1>7

LEMMA UpdateUpdates ==
  ASSUME NEW n, NEW percent, NEW blocks, UpdateRuns(n, percent, blocks), NEW c \in Cores,
         UpdateEntry(c)
  PROVE  UpdateRuns(n, percent, blocks)'
<1> DEFINE num == Num(n, percent)
           r == at[c]
           t == turn[c]
           pos == Position(r, t, n)
           F(s) == StatesAfter(query, s, n, num)
<1>1. /\ r \in Reqs /\ n \in Nat \ {0} /\ num \in Nat /\ t \in 0 .. num /\ t < num
      /\ PositionOf(c) = pos
  BY UpdateAt DEF UpdateEntry, UpdateRuns
<1>2. /\ table' = [table EXCEPT ![r][query[r][pos]] = fresh[r][pos]]
      /\ UNCHANGED <<query, fresh, walks, copying>>
  BY <1>1 DEF UpdateEntry
<1>3. /\ query \in Queries(n) /\ fresh = FreshStates(n) /\ WalksIn
      /\ table \in [Reqs -> States]
  BY DEF UpdateRuns, UpdateGoes
<1>4. pos \in 0 .. n - 1
  BY <1>1, <1>3, PositionIs
<1>5. query[r][pos] \in 0 .. IndexSize - 1 /\ fresh[r][pos] = NewState(r, pos)
  BY <1>1, <1>3, <1>4 DEF Queries, FreshStates
<1>6. NewState(r, pos) \in Nat
  BY <1>1, <1>4 DEF NewState, Reqs
<1>7. /\ UpdateGoes(n, percent, blocks)'
      /\ \A s \in Reqs \ {r} : Turns(s, num, blocks)' = Turns(s, num, blocks)
      /\ \A s \in Reqs : s = r => /\ Turns(s, num, blocks) = t
                                 /\ Turns(s, num, blocks)' = t + 1
  BY EntryGoes DEF UpdateRuns
<1>8. num' = num
  OBVIOUS
<1> HIDE DEF pos, num, F
<1>9. /\ table' \in [Reqs -> States]
      /\ table'[r] = [table[r] EXCEPT ![query[r][pos]] = NewState(r, pos)]
      /\ \A s \in Reqs \ {r} : table'[s] = table[s]
  BY <1>1, <1>2, <1>3, <1>5, <1>6 DEF States
<1>10. \A s \in Reqs : table[s] = F(s)[Turns(s, num, blocks)]
  BY DEF UpdateRuns, num, F
<1>11. F(r)[t + 1] = [F(r)[t] EXCEPT ![query[r][pos]] = NewState(r, pos)]
  <2>1. t \in 0 .. num - 1
    BY <1>1
  <2>2. n \in Nat /\ (num > 0 => n > 0)
    BY <1>1
  <2>3. \A u \in 0 .. num - 1 :
          StatesAfter(query, r, n, num)[u + 1] =
            OneMore(query, r, n, u, StatesAfter(query, r, n, num)[u])
    <3>1. r \in Reqs /\ num \in Nat /\ query \in Queries(n) /\ WalksIn
      BY <1>1, <1>3
    <3> HIDE DEF r
    <3> QED
      BY ONLY <3>1, <2>2, StatesUnfold
  <2> QED
    BY <2>1, <2>3 DEF F, pos, OneMore
<1>12. ASSUME NEW s \in Reqs PROVE table'[s] = F(s)[Turns(s, num, blocks)']
  <2>1. CASE s = r
    <3>1. table[r] = F(r)[t]
      BY <1>7, <1>10, <2>1
    <3>2. table'[r] = F(r)[t + 1]
      BY ONLY <1>9, <1>11, <3>1
    <3> QED
      BY <1>7, <2>1, <3>2
  <2>2. CASE s # r
    BY <1>7, <1>9, <1>10, <2>2
  <2> QED
    BY <2>1, <2>2
<1>13. \A s \in Reqs : StatesAfter(query, s, n, num)' = F(s)
  BY <1>2, <1>8 DEF StatesAfter, Position, F
<1>14. Idle' /\ query' = query /\ fresh' = fresh
  BY <1>2 DEF UpdateRuns, Idle
<1> QED
  BY <1>3, <1>7, <1>8, <1>9, <1>12, <1>13, <1>14 DEF UpdateRuns, num

LEMMA UpdateMoves ==
  ASSUME NEW n, NEW percent, NEW blocks, UpdateRuns(n, percent, blocks), NEW c \in Cores,
         NextRequest(c)
  PROVE  UpdateRuns(n, percent, blocks)'
<1> DEFINE num == Num(n, percent)
<1>1. /\ UpdateGoes(n, percent, blocks)'
      /\ \A r \in Reqs : Turns(r, num, blocks)' = Turns(r, num, blocks)
  BY RequestGoes DEF UpdateRuns
<1>2. UNCHANGED <<table, query, fresh, walks, copying>>
  BY DEF NextRequest, tensors
<1>3. \A s \in Reqs : StatesAfter(query, s, n, num)' = StatesAfter(query, s, n, num)
  BY <1>2 DEF StatesAfter, Position
<1>4. Idle' /\ num' = num
  BY <1>2 DEF UpdateRuns, Idle
<1> HIDE DEF num
<1> QED
  BY <1>1, <1>2, <1>3, <1>4 DEF UpdateRuns, num

LEMMA UpdateEnds ==
  ASSUME NEW n, NEW percent, NEW blocks, UpdateRuns(n, percent, blocks), KernelDone
  PROVE  table = ExpectedStates(query, n, percent) /\ Idle
<1> DEFINE num == Num(n, percent)
<1>1. /\ blocks \in 1 .. MaxBlocks /\ job = UpdateJob(n, percent, blocks)
      /\ at \in [Cores -> Nat] /\ table \in [Reqs -> States] /\ Idle
  BY DEF UpdateRuns, UpdateGoes, Striding
<1>2. ASSUME NEW r \in Reqs PROVE table[r] = StatesAfter(query, r, n, num)[num]
  <2> DEFINE c == r % blocks
  <2>1. r \in Nat /\ r < ReqNum /\ blocks \in Nat \ {0}
    BY <1>1 DEF Reqs
  <2>2. c \in 0 .. blocks - 1
    BY ONLY <2>1, Quotient
  <2>3. c \in Cores
    BY <1>1, <2>2 DEF Cores
  <2>4. ~ Running(c, "update") /\ job # None
    BY <1>1, <2>3 DEF KernelDone, UpdateJob
  <2>5. ~ at[c] < ReqNum
    BY <1>1, <2>2, <2>4 DEF Running, UpdateJob
  <2>6. Turns(r, num, blocks) = num
    BY <1>1, <2>1, <2>3, <2>5 DEF Turns
  <2> QED
    BY <2>6 DEF UpdateRuns, UpdateGoes
<1>3. ExpectedStates(query, n, percent) = [r \in Reqs |-> StatesAfter(query, r, n, num)[num]]
  BY DEF ExpectedStates, Num
<1> HIDE DEF num
<1>4. table = [r \in Reqs |-> table[r]]
  BY <1>1
<1> QED
  BY <1>1, <1>2, <1>3, <1>4

-----------------------------------------------------------------------------
(* The scripts.                                                             *)

\* What is enqueued.
Kinds == {"tables", "query", "lookup", "update", "start", "stop"}

\* Any instruction but a comparison, and any instruction.
Calls ==
  [do : {"tables", "lookup", "update", "start", "stop", "sync", "clock", "elapsed"}, on : {0}]
    \cup [do : {"query"}, on : [pattern : STRING \cup {"stride"}, size : Nat]]
    \cup [do : {"patterns"}, on : SUBSET STRING]

Items == Calls \cup [do : {"check"}, on : {"out", "states"}]

LEMMA ItemsAssociate ==
  \A f, g, h \in Seq(Items) : (f \o g) \o h = f \o (g \o h)
<1> SUFFICES ASSUME NEW f \in Seq(Items), NEW g \in Seq(Items), NEW h \in Seq(Items)
             PROVE  (f \o g) \o h = f \o (g \o h)
  OBVIOUS
<1>1. PICK S : S = Items
  OBVIOUS
<1>2. f \in Seq(S) /\ g \in Seq(S) /\ h \in Seq(S)
  BY <1>1
<1> QED
  BY ONLY <1>2, ConcatAssociative

LEMMA ItemsAppend ==
  \A q \in Seq(Items), i \in Items :
    /\ Append(q, i) # << >>
    /\ q # << >> => Head(Append(q, i)) = Head(q)
BY AppendProperties, HeadTailAppend

LEMMA ItemFields ==
  /\ Tables \in Calls /\ LookupKernel \in Calls /\ UpdateKernel \in Calls
  /\ StartEvent \in Calls /\ StopEvent \in Calls /\ Synchronize \in Calls
  /\ ReadClock \in Calls /\ AddClock \in Calls
  /\ CheckOut \in Items /\ CheckStates \in Items
  /\ \A p \in STRING : \A s \in Nat : QueryOf(p, s) \in Calls
  /\ QueryOf("stride", 0) \in Calls
  /\ Tables.do = "tables" /\ LookupKernel.do = "lookup" /\ UpdateKernel.do = "update"
  /\ Synchronize.do = "sync" /\ CheckOut.do = "check" /\ CheckStates.do = "check"
  /\ QueryOf("stride", 0).do = "query"
  /\ CheckOut.on = "out" /\ CheckStates.on = "states"
BY DEF Tables, LookupKernel, UpdateKernel, StartEvent, StopEvent, Synchronize,
       ReadClock, AddClock, CheckOut, CheckStates, QueryOf, Instr, Items, Calls

LEMMA ItemIs ==
  ASSUME NEW i \in Items
  PROVE  /\ i.do = "lookup" => i = LookupKernel
         /\ i.do = "update" => i = UpdateKernel
         /\ i.do = "tables" => i = Tables
         /\ i.do = "check" => i = CheckOut \/ i = CheckStates
         /\ i \in Calls => i.do # "check"
<1>1. CASE i \in [do : {"tables", "lookup", "update", "start", "stop", "sync", "clock",
                        "elapsed"}, on : {0}]
  BY <1>1 DEF LookupKernel, UpdateKernel, Tables, Instr
<1>2. CASE i \in [do : {"query"}, on : [pattern : STRING \cup {"stride"}, size : Nat]]
  BY <1>2
<1>3. CASE i \in [do : {"patterns"}, on : SUBSET STRING]
  BY <1>3
<1>4. CASE i \in [do : {"check"}, on : {"out", "states"}]
  BY <1>4 DEF CheckOut, CheckStates, Instr, Calls
<1> QED
  BY <1>1, <1>2, <1>3, <1>4 DEF Items, Calls

LEMMA LaunchesIn ==
  ASSUME NEW o
  PROVE  /\ LookupOnly(o) \in Seq(Calls) /\ UpdateOnly(o) \in Seq(Calls)
         /\ LookupRandomUpdate(o) \in Seq(Calls)
         /\ \A mode \in {"lookup", "update", "both"} : Call(o, mode) \in Seq(Calls)
<1>1. << >> \in Seq(Calls) /\ <<LookupKernel>> \in Seq(Calls) /\ <<UpdateKernel>> \in Seq(Calls)
  BY ItemFields
<1>2. LookupOnly(o) \in Seq(Calls) /\ UpdateOnly(o) \in Seq(Calls)
  BY <1>1 DEF LookupOnly, UpdateOnly
<1>3. LookupRandomUpdate(o) \in Seq(Calls)
  BY <1>2, ConcatProperties DEF LookupRandomUpdate
<1> QED
  BY <1>2, <1>3 DEF Call

LEMMA WarmIn ==
  ASSUME NEW calls \in Seq(Calls)
  PROVE  Warm(calls) \in Seq(Calls) /\ TimeLoop(calls) \in Seq(Calls)
<1>1. /\ <<Synchronize>> \in Seq(Calls)
      /\ <<Synchronize, StartEvent, ReadClock>> \in Seq(Calls)
      /\ <<StopEvent, Synchronize, AddClock>> \in Seq(Calls)
  BY ItemFields
<1>2. /\ Repeat(Warmup, LAMBDA i : calls) \in Seq(Calls)
      /\ Repeat(Iters, LAMBDA i : calls) \in Seq(Calls)
  BY ScriptAssumption, RepeatIn
<1> QED
  BY <1>1, <1>2, ConcatProperties DEF Warm, TimeLoop

LEMMA InputsIn == Inputs \in Seq(Calls)
BY ItemFields DEF Inputs

LEMMA BenchIn ==
  ASSUME NEW o, o.mode \in {"lookup", "update", "both"}
  PROVE  BenchScript(o) \in Seq(Calls)
<1>1. Call(o, o.mode) \in Seq(Calls)
  BY LaunchesIn
<1>2. Warm(Call(o, o.mode)) \in Seq(Calls)
  BY <1>1, WarmIn
<1>3. Repeat(Iters, LAMBDA i : Call(o, o.mode)) \in Seq(Calls)
  BY <1>1, ScriptAssumption, RepeatIn
<1>4. <<StartEvent>> \in Seq(Calls) /\ <<StopEvent, Synchronize>> \in Seq(Calls)
  BY ItemFields
<1> QED
  BY <1>2, <1>3, <1>4, InputsIn, ConcatProperties DEF BenchScript

LEMMA ProfileIn ==
  ASSUME NEW o, o.modes \in Seq({"lookup", "update"})
  PROVE  ProfileScript(o) \in Seq(Calls)
<1>1. ASSUME NEW i \in DOMAIN o.modes PROVE ProfileMode(o, o.modes[i]) \in Seq(Calls)
  <2>1. Call(o, o.modes[i]) \in Seq(Calls)
    BY LaunchesIn
  <2> QED
    BY <2>1, WarmIn, InputsIn, ConcatProperties DEF ProfileMode
<1>2. [i \in DOMAIN o.modes |-> ProfileMode(o, o.modes[i])] \in Seq(Seq(Calls))
  <2>1. DOMAIN o.modes = 1 .. Len(o.modes) /\ Len(o.modes) \in Nat
    OBVIOUS
  <2> QED
    BY <1>1, <2>1
<1> QED
  BY <1>2, FlattenIn DEF ProfileScript

LEMMA MemoryIn ==
  ASSUME NEW o, o.patterns \in Seq(STRING)
  PROVE  MemoryScript(o) \in Seq(Calls)
<1> DEFINE Of(p, s) == BenchPattern(o, o.patterns[p], Sizes(o.patterns[p])[s])
           All(p) == [s \in DOMAIN Sizes(o.patterns[p]) |-> Of(p, s)]
<1>1. ASSUME NEW p \in DOMAIN o.patterns PROVE FlattenSeq(All(p)) \in Seq(Calls)
  <2> DEFINE sizes == Sizes(o.patterns[p])
  <2>1. sizes \in Seq(Nat)
    BY ScriptAssumption DEF Sizes
  <2>2. ASSUME NEW s \in DOMAIN sizes PROVE Of(p, s) \in Seq(Calls)
    <3>1. sizes[s] \in Nat /\ o.patterns[p] \in STRING
      BY <2>1
    <3>2. QueryOf(o.patterns[p], sizes[s]) \in Calls
      BY <3>1, ItemFields
    <3> DEFINE item == QueryOf(o.patterns[p], sizes[s])
    <3>3. <<item>> \in Seq(Calls)
      <4> HIDE DEF item
      <4> QED
        BY <3>2 DEF item
    <3> QED
      BY <3>3, LaunchesIn, WarmIn, ConcatProperties DEF BenchPattern
  <2>3. All(p) \in Seq(Seq(Calls))
    <3>1. DOMAIN sizes = 1 .. Len(sizes) /\ Len(sizes) \in Nat
      BY <2>1
    <3> QED
      BY <2>2, <3>1
  <2> QED
    BY <2>3, FlattenIn
<1>2. [p \in DOMAIN o.patterns |-> FlattenSeq(All(p))] \in Seq(Seq(Calls))
  <2>1. DOMAIN o.patterns = 1 .. Len(o.patterns) /\ Len(o.patterns) \in Nat
    OBVIOUS
  <2> HIDE DEF All
  <2> QED
    BY <1>1, <2>1
<1>3. FlattenSeq([p \in DOMAIN o.patterns |-> FlattenSeq(All(p))]) \in Seq(Calls)
  BY <1>2, FlattenIn
<1>4. <<Tables, Instr("patterns", ToSet(o.patterns))>> \in Seq(Calls)
  <2>1. ToSet(o.patterns) \in SUBSET STRING
    BY DEF ToSet
  <2>2. Instr("patterns", ToSet(o.patterns)) \in Calls
    BY <2>1 DEF Instr, Calls
  <2> QED
    BY <2>2, ItemFields
<1> QED
  BY <1>3, <1>4, ConcatProperties DEF MemoryScript

(* The test launches a kernel only on tables as they were uploaded, and      *)
(* compares what the device has finished: an output behind a lookup, tables *)
(* behind an update. o.n = 0 and o.percent = 0 leave launches out.          *)
Ordered(o, sc) ==
  /\ sc \in Seq(Items)
  /\ \A j \in 1 .. Len(sc) :
       /\ sc[j] \in {LookupKernel, UpdateKernel} =>
            o.n # 0 /\ ~ Between(sc, j, UpdateKernel, Tables)
       /\ sc[j].do = "query" => sc[j] = QueryOf("stride", 0)
       /\ sc[j] = CheckOut => o.n = 0 \/ \E i \in 1 .. j - 1 : sc[i] = LookupKernel
       /\ sc[j] = CheckStates =>
            o.n = 0 \/ o.percent = 0 \/ Between(sc, j, UpdateKernel, Tables)
       /\ sc[j].do = "check" =>
            \E i \in 1 .. j - 1 : /\ sc[i].do = "sync"
                                  /\ \A m \in i + 1 .. j - 1 : sc[m].do \notin Kinds

(* The test's script with l lookups and u updates, each none or one, in a    *)
(* launch of both.                                                          *)
Layout(sc, l, u) ==
  /\ Len(sc) = 11 + (2 * l) + (2 * u)
  /\ sc[1] = Tables /\ sc[2] = QueryOf("stride", 0)
  /\ l = 1 => sc[3] = LookupKernel /\ sc[8 + u] = LookupKernel
  /\ u = 1 => sc[3 + l] = UpdateKernel /\ sc[10 + (2 * l) + u] = UpdateKernel
  /\ sc[3 + l + u] = Synchronize /\ sc[4 + l + u] = CheckOut /\ sc[5 + l + u] = CheckStates
  /\ sc[6 + l + u] = Tables
  /\ sc[7 + (2 * l) + u] = Synchronize /\ sc[8 + (2 * l) + u] = CheckOut
  /\ sc[9 + (2 * l) + u] = Tables
  /\ sc[10 + (2 * l) + (2 * u)] = Synchronize
  /\ sc[11 + (2 * l) + (2 * u)] = CheckStates

LEMMA TestIn ==
  ASSUME NEW o
  PROVE  TestScript(o) \in Seq(Items)
<1>1. Inputs \in Seq(Items) /\ <<Synchronize, CheckOut, CheckStates>> \in Seq(Items)
      /\ <<Tables>> \in Seq(Items) /\ <<Synchronize, CheckOut>> \in Seq(Items)
      /\ <<Synchronize, CheckStates>> \in Seq(Items)
  BY ItemFields DEF Inputs, Items
<1>2. LookupRandomUpdate(o) \in Seq(Items) /\ LookupOnly(o) \in Seq(Items)
      /\ UpdateOnly(o) \in Seq(Items)
  BY LaunchesIn DEF Items
<1> QED
  BY <1>1, <1>2, ConcatProperties DEF TestScript

LEMMA TestLayout ==
  ASSUME NEW o
  PROVE  Layout(TestScript(o), IF o.n = 0 THEN 0 ELSE 1,
                IF o.n = 0 \/ o.percent = 0 THEN 0 ELSE 1)
<1> DEFINE L == LookupKernel
           U == UpdateKernel
           Q == QueryOf("stride", 0)
<1>1. CASE o.n = 0
  <2>1. LookupOnly(o) = << >> /\ UpdateOnly(o) = << >>
    BY <1>1 DEF LookupOnly, UpdateOnly
  <2>2. ASSUME NEW a, NEW b, NEW e, NEW f, NEW g
        PROVE  LET s == <<a, b>> \o (<< >> \o << >>) \o <<e, f, g>>
                        \o <<a>> \o << >> \o <<e, f>> \o <<a>> \o << >> \o <<e, g>>
               IN /\ Len(s) = 11
                  /\ s[1] = a /\ s[2] = b /\ s[3] = e /\ s[4] = f /\ s[5] = g /\ s[6] = a
                  /\ s[7] = e /\ s[8] = f /\ s[9] = a /\ s[10] = e /\ s[11] = g
    OBVIOUS
  <2> QED
    BY <1>1, <2>1, <2>2 DEF TestScript, Inputs, LookupRandomUpdate, Layout
<1>2. CASE o.n # 0 /\ o.percent = 0
  <2>1. LookupOnly(o) = <<L>> /\ UpdateOnly(o) = << >>
    BY <1>2 DEF LookupOnly, UpdateOnly
  <2>2. ASSUME NEW a, NEW b, NEW c, NEW e, NEW f, NEW g
        PROVE  LET s == <<a, b>> \o (<<c>> \o << >>) \o <<e, f, g>>
                        \o <<a>> \o <<c>> \o <<e, f>> \o <<a>> \o << >> \o <<e, g>>
               IN /\ Len(s) = 13
                  /\ s[1] = a /\ s[2] = b /\ s[3] = c /\ s[4] = e /\ s[5] = f /\ s[6] = g
                  /\ s[7] = a /\ s[8] = c /\ s[9] = e /\ s[10] = f /\ s[11] = a
                  /\ s[12] = e /\ s[13] = g
    OBVIOUS
  <2> QED
    BY <1>2, <2>1, <2>2 DEF TestScript, Inputs, LookupRandomUpdate, Layout
<1>3. CASE o.n # 0 /\ o.percent # 0
  <2>1. LookupOnly(o) = <<L>> /\ UpdateOnly(o) = <<U>>
    BY <1>3 DEF LookupOnly, UpdateOnly
  <2>2. ASSUME NEW a, NEW b, NEW c, NEW d, NEW e, NEW f, NEW g
        PROVE  LET s == <<a, b>> \o (<<c>> \o <<d>>) \o <<e, f, g>>
                        \o <<a>> \o <<c>> \o <<e, f>> \o <<a>> \o <<d>> \o <<e, g>>
               IN /\ Len(s) = 15
                  /\ s[1] = a /\ s[2] = b /\ s[3] = c /\ s[4] = d /\ s[5] = e /\ s[6] = f
                  /\ s[7] = g /\ s[8] = a /\ s[9] = c /\ s[10] = e /\ s[11] = f
                  /\ s[12] = a /\ s[13] = d /\ s[14] = e /\ s[15] = g
    OBVIOUS
  <2> QED
    BY <1>3, <2>1, <2>2 DEF TestScript, Inputs, LookupRandomUpdate, Layout
<1> QED
  BY <1>1, <1>2, <1>3

LEMMA LayoutOrdered ==
  ASSUME NEW sc \in Seq(Items), NEW l \in {0, 1}, NEW u \in {0, 1}, Layout(sc, l, u),
         u = 1 => l = 1, NEW o, l = 0 => o.n = 0, l = 1 => o.n # 0,
         u = 0 => o.n = 0 \/ o.percent = 0
  PROVE  Ordered(o, sc)
<1>1. ASSUME NEW j \in 1 .. Len(sc)
      PROVE  /\ sc[j].do = "lookup" => l = 1 /\ j \in {3, 8 + u}
             /\ sc[j].do = "update" => u = 1 /\ j \in {3 + l, 10 + (2 * l) + u}
             /\ sc[j].do = "tables" => j \in {1, 6 + l + u, 9 + (2 * l) + u}
             /\ sc[j].do = "query" => j = 2
             /\ sc[j] = CheckOut => j \in {4 + l + u, 8 + (2 * l) + u}
             /\ sc[j] = CheckStates => j \in {5 + l + u, 11 + (2 * l) + (2 * u)}
  <2>1. \/ j \in {1, 6 + l + u, 9 + (2 * l) + u} /\ sc[j] = Tables
        \/ j = 2 /\ sc[j] = QueryOf("stride", 0)
        \/ l = 1 /\ j \in {3, 8 + u} /\ sc[j] = LookupKernel
        \/ u = 1 /\ j \in {3 + l, 10 + (2 * l) + u} /\ sc[j] = UpdateKernel
        \/ sc[j] = Synchronize
        \/ j \in {4 + l + u, 8 + (2 * l) + u} /\ sc[j] = CheckOut
        \/ j \in {5 + l + u, 11 + (2 * l) + (2 * u)} /\ sc[j] = CheckStates
    <3>1. CASE l = 0
      BY <3>1 DEF Layout
    <3>2. CASE l = 1 /\ u = 0
      BY <3>2 DEF Layout
    <3>3. CASE l = 1 /\ u = 1
      BY <3>3 DEF Layout
    <3> QED
      BY <3>1, <3>2, <3>3
  <2> QED
    BY <2>1, ItemFields
<1>2. /\ sc[2] = QueryOf("stride", 0)
      /\ l = 1 => sc[3] = LookupKernel
      /\ sc[6 + l + u] = Tables /\ sc[9 + (2 * l) + u] = Tables
      /\ u = 1 => sc[3 + l] = UpdateKernel /\ sc[10 + (2 * l) + u] = UpdateKernel
      /\ sc[3 + l + u].do = "sync" /\ sc[7 + (2 * l) + u].do = "sync"
      /\ sc[10 + (2 * l) + (2 * u)].do = "sync"
      /\ sc[4 + l + u].do \notin Kinds
      /\ Len(sc) = 11 + (2 * l) + (2 * u)
  BY ItemFields DEF Layout, Kinds
<1>3. ASSUME NEW j \in 1 .. Len(sc), sc[j] \in {LookupKernel, UpdateKernel}
      PROVE  o.n # 0 /\ ~ Between(sc, j, UpdateKernel, Tables)
  <2>1. l = 1 /\ j \in {3, 8 + u, 3 + l, 10 + (2 * l) + u}
    BY <1>1, <1>3, ItemFields
  <2>2. ASSUME NEW i \in 1 .. j - 1, sc[i] = UpdateKernel
        PROVE  \E m \in i + 1 .. j - 1 : sc[m] = Tables
    <3>1. i \in 1 .. Len(sc) /\ sc[i].do = "update"
      BY <2>2, ItemFields
    <3>2. u = 1 /\ i \in {3 + l, 10 + (2 * l) + u}
      BY <1>1, <3>1
    <3>3. i = 4 /\ j \in {9, 13} /\ sc[8] = Tables
      BY <1>2, <2>1, <2>2, <3>2
    <3> QED
      BY <3>3
  <2> QED
    BY <2>1, <2>2 DEF Between
<1>4. ASSUME NEW j \in 1 .. Len(sc), sc[j] = CheckStates, u = 1
      PROVE  Between(sc, j, UpdateKernel, Tables)
  <2>1. l = 1 /\ j \in {7, 15} /\ sc[4] = UpdateKernel /\ sc[13] = UpdateKernel
    BY <1>1, <1>2, <1>4
  <2>2. \A m \in 5 .. 6 \cup 14 .. 14 : sc[m] # Tables
    <3>1. \A m \in 5 .. 6 \cup 14 .. 14 : m \in 1 .. Len(sc) /\ m \notin {1, 8, 12}
      BY <1>2, <1>4, <2>1
    <3> QED
      BY <1>1, <1>4, <2>1, <3>1, ItemFields
  <2>3. CASE j = 7
    BY <2>1, <2>2, <2>3 DEF Between
  <2>4. CASE j = 15
    BY <2>1, <2>2, <2>4 DEF Between
  <2> QED
    BY <2>1, <2>3, <2>4
<1>5. ASSUME NEW j \in 1 .. Len(sc), sc[j].do = "check"
      PROVE  \E i \in 1 .. j - 1 : /\ sc[i].do = "sync"
                                   /\ \A m \in i + 1 .. j - 1 : sc[m].do \notin Kinds
  <2>1. sc[j] = CheckOut \/ sc[j] = CheckStates
    <3>1. sc[j] \in Items
      OBVIOUS
    <3> QED
      BY <1>5, <3>1, ItemIs
  <2>2. j \in {4 + l + u, 5 + l + u, 8 + (2 * l) + u, 11 + (2 * l) + (2 * u)}
    BY <1>1, <2>1
  <2>3. CASE j = 5 + l + u
    <3>1. 3 + l + u \in 1 .. j - 1 /\ \A m \in (3 + l + u) + 1 .. j - 1 : m = 4 + l + u
      BY <2>3
    <3> QED
      BY <1>2, <3>1
  <2>4. CASE j # 5 + l + u
    <3>1. j - 1 \in 1 .. j - 1 /\ (j - 1) + 1 .. j - 1 = {}
      BY <2>2
    <3>2. j - 1 \in {3 + l + u, 7 + (2 * l) + u, 10 + (2 * l) + (2 * u)}
      BY <2>2, <2>4
    <3>3. sc[j - 1].do = "sync"
      BY <1>2, <3>2
    <3> QED
      BY <3>1, <3>3
  <2> QED
    BY <2>3, <2>4
<1>6. ASSUME NEW j \in 1 .. Len(sc), sc[j] = CheckOut, o.n # 0
      PROVE  \E i \in 1 .. j - 1 : sc[i] = LookupKernel
  BY <1>1, <1>2, <1>6
<1>7. ASSUME NEW j \in 1 .. Len(sc), sc[j].do = "query" PROVE sc[j] = QueryOf("stride", 0)
  BY <1>1, <1>2, <1>7
<1> QED
  BY <1>3, <1>4, <1>5, <1>6, <1>7 DEF Ordered

LEMMA TestOrdered ==
  ASSUME NEW o
  PROVE  Ordered(o, TestScript(o))
<1> DEFINE l == IF o.n = 0 THEN 0 ELSE 1
           u == IF o.n = 0 \/ o.percent = 0 THEN 0 ELSE 1
<1>1. Layout(TestScript(o), l, u)
  BY TestLayout
<1>2. /\ l \in {0, 1} /\ u \in {0, 1} /\ (u = 1 => l = 1) /\ (l = 0 => o.n = 0)
      /\ (l = 1 => o.n # 0) /\ (u = 0 => o.n = 0 \/ o.percent = 0)
  OBVIOUS
<1> HIDE DEF l, u
<1> QED
  BY <1>1, <1>2, TestIn, LayoutOrdered

LEMMA ScriptIn ==
  ASSUME opt \in Commands
  PROVE  /\ Script \in Seq(Items)
         /\ opt.tool # "test" => Script \in Seq(Calls)
         /\ opt.tool = "test" => Ordered(opt, Script)
<1>1. CASE opt.tool = "test"
  <2>1. Script = TestScript(opt)
    BY <1>1 DEF Script
  <2> QED
    BY <1>1, <2>1, TestIn, TestOrdered
<1>2. CASE opt.tool # "test"
  <2>1. Script \in Seq(Calls)
    <3>1. CASE opt.tool = "bench" /\ opt.mode \in {"lookup", "update", "both"}
      <4>1. Script = BenchScript(opt)
        BY <3>1 DEF Script
      <4> QED
        BY <3>1, <4>1, BenchIn
    <3>2. CASE opt.tool = "profile" /\ opt.modes \in Seq({"lookup", "update"})
      <4>1. Script = ProfileScript(opt)
        BY <3>2 DEF Script
      <4> QED
        BY <3>2, <4>1, ProfileIn
    <3>3. CASE opt.tool = "memory" /\ opt.patterns \in Seq(STRING)
      <4>1. Script = MemoryScript(opt)
        BY <3>3 DEF Script
      <4> QED
        BY <3>3, <4>1, MemoryIn
    <3> QED
      BY <1>2, <3>1, <3>2, <3>3, CommandAssumption
  <2>2. Script \in Seq(Items)
    BY <2>1 DEF Items
  <2> QED
    BY <1>2, <2>1, <2>2
<1> QED
  BY <1>1, <1>2

-----------------------------------------------------------------------------
(* The invariant.                                                           *)

(* What the theorem supposes of the test's command lines: no core comes to a *)
(* partial tile from another one, and 32 bits hold n * percent.             *)
TestsFit ==
  \A o \in Commands : o.tool = "test" =>
    Untailed(o.n, ClampBlockDim(o.dim)) /\ FitsWord(o.n, o.percent)

StrideQuery(n) == Query(n, "stride", 0, [i \in 0 .. n - 1 |-> [r \in Reqs |-> 0]])

\* The device has done the script's first d instructions.
TablesUpdated(d) == Between(Script, d + 1, UpdateKernel, Tables)

TableAfter(d) == IF TablesUpdated(d) THEN ExpectedStates(query, opt.n, opt.percent)
                 ELSE OldTable

Looked(d) == \E i \in 1 .. d : Script[i] = LookupKernel

(* Between kernels, the tables are old or the reference's, and the output is *)
(* right behind a lookup; a kernel runs from old tables.                    *)
DeviceInv(d) ==
  /\ query = StrideQuery(opt.n)
  /\ fresh = FreshStates(opt.n)
  /\ copying = [c \in Cores |-> copying[c]]
  /\ \/ job = None /\ Idle /\ table = TableAfter(d) /\ (Looked(d) => LookedUp(opt.n))
     \/ LookupRuns(opt.n, ClampBlockDim(opt.dim))
     \/ /\ \E blocks \in 1 .. MaxBlocks : UpdateRuns(opt.n, opt.percent, blocks)
        /\ Looked(d) => LookedUp(opt.n)

TypeInv ==
  /\ opt \in Commands
  /\ session \in Sessions(Items)
  /\ status \in {"running", "passed", "raised"}
  /\ walks \in [Reqs -> Hashes]
  /\ job # None => /\ session.stream # << >>
                   /\ Head(session.stream).do = job.do
                   /\ job.do \in {"lookup", "update"}

Follows(d, x) ==
  /\ Tracks(Kinds, session, Script, d, x)
  /\ opt.tool = "test" => DeviceInv(d)

Inv == TestsFit /\ TypeInv /\ \E d, x : Follows(d, x)

LEMMA WalksAre == walks \in [Reqs -> Hashes] => WalksIn
BY ScriptAssumption DEF WalksIn

LEMMA StrideQueries ==
  ASSUME NEW n \in Nat, NEW size, NEW draw
  PROVE  Query(n, "stride", size, draw) = StrideQuery(n) /\ StrideQuery(n) \in Queries(n)
<1>1. ASSUME NEW r \in Reqs, NEW i \in 0 .. n - 1, NEW d
      PROVE  /\ Key("stride", size, d, r, i) = (i * Stride + r * Offset) % IndexSize
             /\ Key("stride", 0, d, r, i) = (i * Stride + r * Offset) % IndexSize
             /\ (i * Stride + r * Offset) % IndexSize \in 0 .. IndexSize - 1
  <2>1. i * Stride + r * Offset \in Nat
    BY ScriptAssumption DEF Reqs
  <2> QED
    BY <2>1, Quotient DEF Key
<1> DEFINE q == [r \in Reqs |-> [i \in 0 .. n - 1 |->
                    (i * Stride + r * Offset) % IndexSize]]
<1>2. Query(n, "stride", size, draw) = q
  BY <1>1 DEF Query
<1>3. StrideQuery(n) = q
  BY <1>1 DEF StrideQuery, Query
<1>4. q \in Queries(n)
  BY <1>1 DEF Queries
<1> QED
  BY <1>2, <1>3, <1>4

\* Old tables are the reference's after no entry.
LEMMA ExpectedOld ==
  ASSUME NEW n \in Nat, NEW percent \in 0 .. 100, NEW q \in Queries(n), WalksIn,
         n = 0 \/ percent = 0
  PROVE  ExpectedStates(q, n, percent) = OldTable
<1>1. Num(n, percent) = 0
  BY NumIs
<1>2. ASSUME NEW r \in Reqs PROVE StatesAfter(q, r, n, 0)[0] = OldTable[r]
  BY StatesUnfold
<1>3. ExpectedStates(q, n, percent) = [r \in Reqs |-> StatesAfter(q, r, n, 0)[0]]
  BY <1>1 DEF ExpectedStates, Num
<1>4. OldTable = [r \in Reqs |-> OldTable[r]]
  BY OldTableIs
<1> QED
  BY <1>2, <1>3, <1>4

LEMMA InvInit == Init /\ TestsFit => Inv
<1> SUFFICES ASSUME Init, TestsFit PROVE Inv
  OBVIOUS
<1>1. opt \in Commands /\ opt.n \in Nat
  BY CommandAssumption DEF Init
<1>2. /\ session \in Sessions(Items) /\ session.at = 0 /\ session.stream = << >>
  BY DEF Init, NewSession, Sessions
<1>3. Script \in Seq(Items)
  BY <1>1, ScriptIn
<1>4. Tracks(Kinds, session, Script, 0, << >>)
  <2> HIDE DEF Script
  <2> QED
    BY <1>2, <1>3 DEF Tracks
<1>5. DeviceInv(0)
  <2>1. query = StrideQuery(opt.n)
    BY DEF Init, StrideQuery
  <2>2. Idle /\ job = None /\ copying = [c \in Cores |-> copying[c]]
    BY DEF Init, KernelInit, Idle
  <2>3. ~ Looked(0) /\ ~ TablesUpdated(0)
    BY DEF Looked, TablesUpdated, Between
  <2> QED
    BY <2>1, <2>2, <2>3 DEF DeviceInv, Init, TableAfter
<1>6. TypeInv
  BY <1>1, <1>2 DEF TypeInv, Init, KernelInit
<1> QED
  BY <1>4, <1>5, <1>6 DEF Inv, Follows

-----------------------------------------------------------------------------
(* The host.                                                                *)

LEMMA DeviceInvKept ==
  ASSUME NEW d, DeviceInv(d), UNCHANGED <<kernelVars, opt>>
  PROVE  DeviceInv(d)'
<1>1. /\ query' = query /\ fresh' = fresh /\ table' = table /\ out' = out /\ job' = job
      /\ walks' = walks /\ at' = at /\ turn' = turn /\ copying' = copying /\ opt' = opt
  BY DEF kernelVars, tensors, coreVars
<1>2. (Looked(d) <=> Looked(d)') /\ (LookedUp(opt.n) <=> LookedUp(opt.n)')
      /\ TableAfter(d)' = TableAfter(d) /\ (Idle <=> Idle')
  <2>1. Script' = Script
    BY <1>1 DEF Script
  <2>2. ExpectedStates(query, opt.n, opt.percent)' = ExpectedStates(query, opt.n, opt.percent)
    BY <1>1 DEF ExpectedStates, StatesAfter, Position
  <2> QED
    BY <1>1, <2>1, <2>2 DEF Looked, LookedUp, TableAfter, TablesUpdated, Idle
<1>3. LookupRuns(opt.n, ClampBlockDim(opt.dim)) => LookupRuns(opt.n, ClampBlockDim(opt.dim))'
  BY <1>1 DEF LookupRuns, Striding
<1>4. ASSUME NEW blocks \in 1 .. MaxBlocks, UpdateRuns(opt.n, opt.percent, blocks)
      PROVE  UpdateRuns(opt.n, opt.percent, blocks)'
  <2>1. \A r \in Reqs : /\ StatesAfter(query, r, opt.n, Num(opt.n, opt.percent))'
                             = StatesAfter(query, r, opt.n, Num(opt.n, opt.percent))
                        /\ Turns(r, Num(opt.n, opt.percent), blocks)'
                             = Turns(r, Num(opt.n, opt.percent), blocks)
    BY <1>1 DEF StatesAfter, Position, Turns, Num
  <2>2. Striding(blocks)' /\ WalksIn' /\ Idle'
    BY <1>1, <1>4 DEF UpdateRuns, UpdateGoes, Striding, WalksIn, Idle
  <2>3. /\ Num(opt.n, opt.percent)' = Num(opt.n, opt.percent)
        /\ (FitsWord(opt.n, opt.percent) <=> FitsWord(opt.n, opt.percent)')
    BY <1>1 DEF Num, FitsWord
  <2> QED
    BY <1>1, <1>4, <2>1, <2>2, <2>3 DEF UpdateRuns, UpdateGoes
<1> QED
  BY <1>1, <1>2, <1>3, <1>4 DEF DeviceInv

\* A step of the host leaves the device alone, and the oldest item.
LEMMA HostKeeps ==
  ASSUME Inv, NEW d, NEW x, Follows(d, x), NEW y,
         session' \in Sessions(Items), Tracks(Kinds, session', Script, d, y),
         session.stream # << >> => /\ session'.stream # << >>
                                   /\ Head(session'.stream) = Head(session.stream),
         status' \in {"running", "passed", "raised"}, UNCHANGED <<kernelVars, opt>>
  PROVE  Inv'
<1>1. Script' = Script /\ job' = job /\ walks' = walks /\ opt' = opt
  BY DEF Script, kernelVars
<1>2. Follows(d, y)'
  BY <1>1, DeviceInvKept DEF Follows
<1>3. TypeInv'
  BY <1>1 DEF Inv, TypeInv
<1> QED
  BY <1>2, <1>3 DEF Inv, TestsFit

LEMMA Passes ==
  ASSUME Inv, NEW s, session.at < Len(Script), Script[session.at + 1].do \notin Kinds,
         Script[session.at + 1].do = "sync" => session.stream = << >>,
         s \in {Passed(session), ClockRead(session), ClockAdded(session)},
         Proceed(s), UnchangedBelow
  PROVE  Inv'
<1>1. PICK d, x : Follows(d, x)
  BY DEF Inv
<1>2. session \in Sessions(Items) /\ Script \in Seq(Items) /\ Tracks(Kinds, session, Script, d, x)
  BY <1>1, ScriptIn DEF Inv, TypeInv, Follows
<1>3. session.at \in 0 .. Len(Script) - 1
  BY <1>2 DEF Tracks
<1>4. s \in Sessions(Items) /\ s.at = session.at + 1 /\ s.stream = session.stream
  <2> HIDE DEF Script
  <2> QED
    BY <1>2, <1>3, HostFields
<1>5. Tracks(Kinds, s, Script, d, x)
  <2> HIDE DEF Script
  <2> QED
    BY <1>2, <1>4, TracksPassed
<1>6. session' = s /\ status' \in {"running", "passed", "raised"}
  BY DEF Proceed, Inv, TypeInv
<1> QED
  BY <1>1, <1>4, <1>5, <1>6, HostKeeps DEF UnchangedBelow

LEMMA EnqueueKeeps == ASSUME Inv, Enqueue PROVE Inv'
<1>1. PICK d, x : Follows(d, x)
  BY DEF Inv
<1>2. session \in Sessions(Items) /\ Script \in Seq(Items) /\ Tracks(Kinds, session, Script, d, x)
  BY <1>1, ScriptIn DEF Inv, TypeInv, Follows
<1>3. session.at < Len(Script) /\ Script[session.at + 1].do \in Kinds
  BY DEF Enqueue, Doing, At, Kinds
<1>4. session.at \in 0 .. Len(Script) - 1
  BY <1>2, <1>3 DEF Tracks
<1> DEFINE s == Enqueued(session, Script)
<1>5. s \in Sessions(Items) /\ s.at = session.at + 1
      /\ s.stream = Append(session.stream, Script[session.at + 1])
  <2> HIDE DEF Script
  <2> QED
    BY <1>2, <1>4, HostFields
<1>6. session.stream \in Seq(Items)
  BY <1>2 DEF Sessions
<1> HIDE DEF s
<1>7. Tracks(Kinds, s, Script, d, Append(x, session.at + 1))
  <2>1. "sync" \notin Kinds
    BY DEF Kinds
  <2> HIDE DEF Script
  <2> QED
    BY <1>2, <1>3, <1>5, <1>6, <2>1, TracksEnqueued
<1>8. session.stream # << >> => /\ s.stream # << >>
                                /\ Head(s.stream) = Head(session.stream)
  BY <1>5, <1>6
<1>9. session' = s /\ status' \in {"running", "passed", "raised"}
  BY DEF Enqueue, Proceed, Inv, TypeInv, s
<1> QED
  BY <1>1, <1>5, <1>7, <1>8, <1>9, HostKeeps DEF Enqueue, UnchangedBelow

\* A kernel that runs is a job.
LEMMA JobIs ==
  ASSUME NEW n \in Nat \ {0}, NEW blocks \in 1 .. MaxBlocks
  PROVE  /\ LookupJob(n, blocks) # None /\ LookupJob(n, blocks).do = "lookup"
         /\ \A percent \in 0 .. 100 : /\ UpdateJob(n, percent, blocks) # None
                                      /\ UpdateJob(n, percent, blocks).do = "update"
<1> DEFINE Jobs == [do : {"lookup", "update"}, n : Nat, percent : Nat, blocks : Nat,
                    items : Nat]
<1>1. ReqNum * TilesOf(n) \in Nat
  <2>1. TilesOf(n) \in Nat
    BY TileCount
  <2> QED
    BY <2>1
<1>2. LookupJob(n, blocks) \in Jobs /\ LookupJob(n, blocks).do = "lookup"
  BY <1>1 DEF LookupJob
<1>3. ASSUME NEW percent \in 0 .. 100
      PROVE  UpdateJob(n, percent, blocks) \in Jobs /\ UpdateJob(n, percent, blocks).do = "update"
  BY DEF UpdateJob
<1> QED
  BY <1>2, <1>3, NoneAssumption

LEMMA RunsJob ==
  /\ \A n, blocks : LookupRuns(n, blocks) => job # None /\ job.do = "lookup"
  /\ \A n, percent, blocks : UpdateRuns(n, percent, blocks) => job # None /\ job.do = "update"
<1>1. ASSUME NEW n, NEW blocks, LookupRuns(n, blocks) PROVE job # None /\ job.do = "lookup"
  BY <1>1, JobIs DEF LookupRuns
<1>2. ASSUME NEW n, NEW percent, NEW blocks, UpdateRuns(n, percent, blocks)
      PROVE  job # None /\ job.do = "update"
  BY <1>2, JobIs DEF UpdateRuns, UpdateGoes
<1> QED
  BY <1>1, <1>2

\* Every comparison of the test succeeds.
LEMMA AgreesAtCheck ==
  ASSUME Inv, Doing("check")
  PROVE  Agrees(Current(session, Script).on)
<1> DEFINE j == session.at + 1
           n == opt.n
           percent == opt.percent
<1>1. PICK d, x : Follows(d, x)
  BY DEF Inv
<1>2. /\ opt \in Commands /\ session \in Sessions(Items) /\ Script \in Seq(Items)
      /\ Tracks(Kinds, session, Script, d, x) /\ n \in Nat /\ percent \in 0 .. 100
  BY <1>1, ScriptIn, CommandAssumption DEF Inv, TypeInv, Follows
<1>3. /\ session.at \in Nat /\ d \in 0 .. session.at /\ j \in 1 .. Len(Script)
      /\ Script[j].do = "check" /\ Current(session, Script) = Script[j]
  BY <1>2 DEF Tracks, Doing, At, Current
<1>4. opt.tool = "test"
  <2>1. Script[j] \in Items /\ Script[j] \notin Calls
    BY <1>2, <1>3, ItemIs
  <2>2. opt.tool # "test" => Script \in Seq(Calls)
    BY <1>2, ScriptIn
  <2> HIDE DEF Script
  <2> QED
    BY <1>3, <2>1, <2>2
<1>5. DeviceInv(d) /\ Ordered(opt, Script)
  BY <1>1, <1>2, <1>4, ScriptIn DEF Follows
<1> HIDE DEF Script
<1>6. PICK i \in 1 .. j - 1 : /\ Script[i].do = "sync"
                              /\ \A m \in i + 1 .. j - 1 : Script[m].do \notin Kinds
  BY <1>3, <1>5 DEF Ordered
<1>7. ASSUME NEW m \in d + 1 .. session.at, Script[m].do \in Kinds PROVE FALSE
  <2>1. PICK k \in 1 .. Len(x) : x[k] = m
    BY <1>2, <1>7 DEF Tracks
  <2>2. i \in 1 .. session.at /\ j - 1 = session.at
    BY <1>3, <1>6
  <2>3. i < x[k]
    BY <1>2, <1>6, <2>2 DEF Tracks
  <2>4. m \in i + 1 .. j - 1
    BY <1>3, <2>1, <2>2, <2>3
  <2> QED
    BY <1>6, <1>7, <2>4
<1>8. session.stream = << >>
  <2>1. Len(x) \in Nat /\ Len(x) = Len(session.stream)
    BY <1>2 DEF Tracks
  <2>2. ASSUME Len(x) > 0 PROVE FALSE
    <3>1. x[1] \in d + 1 .. session.at /\ Script[x[1]].do \in Kinds
      BY <1>2, <2>1, <2>2 DEF Tracks
    <3> QED
      BY <1>7, <3>1
  <2>3. session.stream \in Seq(Items)
    BY <1>2 DEF Sessions
  <2> QED
    BY <2>1, <2>2, <2>3
<1>9. job = None
  BY <1>8 DEF Inv, TypeInv
<1>10. table = TableAfter(d) /\ (Looked(d) => LookedUp(n)) /\ query = StrideQuery(n)
  BY <1>5, <1>9, RunsJob DEF DeviceInv
<1>11. query \in Queries(n) /\ WalksIn
  BY <1>2, <1>10, StrideQueries, WalksAre DEF Inv, TypeInv
<1>12. CASE Script[j] = CheckOut
  <2>1. CASE n = 0
    BY <1>3, <1>12, <2>1, ItemFields DEF Agrees
  <2>2. CASE n # 0
    <3>1. PICK k \in 1 .. j - 1 : Script[k] = LookupKernel
      BY <1>3, <1>5, <1>12, <2>2 DEF Ordered
    <3>2. Script[k].do \in Kinds
      BY <3>1, ItemFields DEF Kinds
    <3>3. k \in 1 .. d
      BY <1>3, <1>7, <3>2
    <3>4. LookedUp(n)
      BY <1>10, <3>1, <3>3 DEF Looked
    <3>5. ASSUME NEW r \in Reqs, NEW e \in 0 .. n - 1
          PROVE  ExpectedOut(query)[r][e] = Old(query, r, e)
      BY <1>11 DEF ExpectedOut, Old, Queries
    <3> QED
      BY <1>3, <1>12, <3>4, <3>5, ItemFields DEF Agrees, LookedUp
  <2> QED
    BY <2>1, <2>2
<1>13. CASE Script[j] = CheckStates
  <2>1. Between(Script, j, UpdateKernel, Tables) <=> TablesUpdated(d)
    <3>1. \A m \in d + 1 .. j - 1 : Script[m] # UpdateKernel /\ Script[m] # Tables
      BY <1>3, <1>7, ItemFields DEF Kinds
    <3>2. d + 1 \in Nat \ {0} /\ j \in Nat /\ d + 1 <= j
      BY <1>3
    <3> HIDE DEF j
    <3> QED
      BY <3>1, <3>2, BetweenGap DEF TablesUpdated
  <2>2. n = 0 \/ percent = 0 \/ TablesUpdated(d)
    BY <1>3, <1>5, <1>13, <2>1 DEF Ordered
  <2>3. n = 0 \/ percent = 0 => ExpectedStates(query, n, percent) = OldTable
    BY <1>2, <1>11, ExpectedOld
  <2>4. table = ExpectedStates(query, n, percent)
    BY <1>10, <2>2, <2>3 DEF TableAfter
  <2> QED
    BY <1>3, <1>13, <2>4, ItemFields DEF Agrees
<1> QED
  BY <1>2, <1>3, <1>12, <1>13, ItemIs

LEMMA HostNext == ASSUME Inv, Host PROVE Inv'
<1>1. CASE Enqueue
  BY <1>1, EnqueueKeeps
<1>2. CASE Wait
  <2>1. session.at < Len(Script) /\ Script[session.at + 1].do = "sync" /\ session.stream = << >>
    BY <1>2 DEF Wait, Doing, At, Drained
  <2> QED
    BY <1>2, <2>1, Passes DEF Wait, Kinds
<1>3. CASE ReadWall
  <2>1. session.at < Len(Script) /\ Script[session.at + 1].do \in {"clock", "elapsed"}
    BY <1>3 DEF ReadWall, Doing, At
  <2> QED
    BY <1>3, <2>1, Passes DEF ReadWall, Kinds
<1>4. CASE CheckPatterns
  <2>1. session.at < Len(Script) /\ Script[session.at + 1].do = "patterns"
    BY <1>4 DEF CheckPatterns, Doing, At
  <2>2. CASE Proceed(Passed(session))
    BY <1>4, <2>1, <2>2, Passes DEF CheckPatterns, Kinds
  <2>3. CASE End("raised")
    <3>1. PICK d, x : Follows(d, x)
      BY DEF Inv
    <3>2. session' = session /\ status' = "raised" /\ UNCHANGED <<kernelVars, opt>>
      BY <1>4, <2>3 DEF CheckPatterns, End, UnchangedBelow
    <3>3. Tracks(Kinds, session', Script, d, x) /\ session' \in Sessions(Items)
      BY <3>1, <3>2 DEF Follows, Inv, TypeInv
    <3> QED
      BY <3>1, <3>2, <3>3, HostKeeps
  <2> QED
    BY <1>4, <2>2, <2>3 DEF CheckPatterns
<1>5. CASE Check
  <2>1. session.at < Len(Script) /\ Script[session.at + 1].do = "check"
    BY <1>5 DEF Check, Doing, At
  <2>2. Proceed(Passed(session))
    BY <1>5, AgreesAtCheck DEF Check
  <2> QED
    BY <1>5, <2>1, <2>2, Passes DEF Check, Kinds
<1> QED
  BY <1>1, <1>2, <1>3, <1>4, <1>5 DEF Host

-----------------------------------------------------------------------------
(* The device.                                                              *)

\* What the next item changes of where the device is in the script.
LEMMA StageNext ==
  ASSUME NEW d \in Nat, NEW y \in Nat, d < y,
         \A j \in d + 1 .. y - 1 : Script[j].do \notin Kinds
  PROVE  /\ TablesUpdated(y) <=> \/ Script[y] = UpdateKernel
                                 \/ TablesUpdated(d) /\ Script[y] # Tables
         /\ Looked(y) <=> Looked(d) \/ Script[y] = LookupKernel
<1>1. /\ UpdateKernel.do \in Kinds /\ Tables.do \in Kinds /\ LookupKernel.do \in Kinds
      /\ UpdateKernel # Tables
  BY ItemFields DEF Kinds
<1> HIDE DEF Script
<1>2. \A j \in d + 1 .. y - 1 :
        Script[j] # UpdateKernel /\ Script[j] # Tables /\ Script[j] # LookupKernel
  BY <1>1
<1>3. Between(Script, y, UpdateKernel, Tables) <=> TablesUpdated(d)
  <2>1. d + 1 \in Nat \ {0} /\ d + 1 <= y
    OBVIOUS
  <2> QED
    BY <1>2, <2>1, BetweenGap DEF TablesUpdated
<1>4. TablesUpdated(y) <=> \/ Script[y] = UpdateKernel
                           \/ Between(Script, y, UpdateKernel, Tables) /\ Script[y] # Tables
  BY <1>1, BetweenNext DEF TablesUpdated
<1>5. Looked(y) <=> Looked(d) \/ Script[y] = LookupKernel
  <2>1. \A j \in 1 .. y : j \in 1 .. d \/ j \in d + 1 .. y - 1 \/ j = y
    OBVIOUS
  <2>2. y \in 1 .. y /\ \A j \in 1 .. d : j \in 1 .. y
    OBVIOUS
  <2> QED
    BY <1>2, <2>1, <2>2 DEF Looked
<1> QED
  BY <1>3, <1>4, <1>5

\* The device has finished its oldest item.
LEMMA DoneKeeps ==
  ASSUME Inv, NEW d, NEW x, Follows(d, x), session.stream # << >>,
         session' \in {WorkDone(session), EventStamped(session)},
         opt.tool = "test" => DeviceInv(x[1])',
         walks' \in [Reqs -> Hashes], job' = None, UNCHANGED <<opt, status>>
  PROVE  Inv'
<1> DEFINE y == x[1]
           z == Tail(x)
<1>1. /\ session \in Sessions(Items) /\ Script \in Seq(Items)
      /\ Tracks(Kinds, session, Script, d, x) /\ Script' = Script
  BY ScriptIn DEF Inv, TypeInv, Follows, Script
<1> HIDE DEF Script
<1>2. session' \in Sessions(Items) /\ session'.at = session.at
      /\ session'.stream = Tail(session.stream)
  <2>1. /\ WorkDone(session) \in Sessions(Items) /\ EventStamped(session) \in Sessions(Items)
        /\ WorkDone(session) = [session EXCEPT !.stream = Tail(session.stream),
                                               !.clock = session.clock + 1]
        /\ Head(session.stream) = StartEvent =>
             EventStamped(session) = [session EXCEPT !.stream = Tail(session.stream),
                                                     !.started = session.clock, !.timing = TRUE]
        /\ Head(session.stream) # StartEvent =>
             EventStamped(session) =
               [session EXCEPT !.stream = Tail(session.stream),
                               !.measured = session.measured + (session.clock - session.started),
                               !.timing = FALSE]
    BY <1>1, DeviceFields
  <2>2. \A v, c, m, b :
          /\ LET t == [session EXCEPT !.stream = v, !.clock = c]
             IN t.at = session.at /\ t.stream = v
          /\ LET t == [session EXCEPT !.stream = v, !.started = c, !.timing = b]
             IN t.at = session.at /\ t.stream = v
          /\ LET t == [session EXCEPT !.stream = v, !.measured = m, !.timing = b]
             IN t.at = session.at /\ t.stream = v
    BY <1>1 DEF Sessions
  <2>3. WorkDone(session).at = session.at /\ WorkDone(session).stream = Tail(session.stream)
    BY ONLY <2>1, <2>2
  <2>4. EventStamped(session).at = session.at
        /\ EventStamped(session).stream = Tail(session.stream)
    <3>1. CASE Head(session.stream) = StartEvent
      <4>1. EventStamped(session) = [session EXCEPT !.stream = Tail(session.stream),
                                                    !.started = session.clock,
                                                    !.timing = TRUE]
        BY <2>1, <3>1
      <4> QED
        BY ONLY <2>2, <4>1
    <3>2. CASE Head(session.stream) # StartEvent
      <4> DEFINE m == session.measured + (session.clock - session.started)
      <4>1. EventStamped(session) = [session EXCEPT !.stream = Tail(session.stream),
                                                    !.measured = m, !.timing = FALSE]
        BY <2>1, <3>2
      <4> HIDE DEF m
      <4> QED
        BY ONLY <2>2, <4>1
    <3> QED
      BY <3>1, <3>2
  <2> QED
    BY <2>1, <2>3, <2>4
<1>3. Tracks(Kinds, session', Script, y, z)
  <2>1. session.stream \in Seq(Items)
    BY <1>1 DEF Sessions
  <2> QED
    BY <1>1, <1>2, <2>1, TracksDone
<1>4. Follows(y, z)'
  BY <1>1, <1>3 DEF Follows
<1>5. TypeInv'
  BY <1>2 DEF Inv, TypeInv
<1> QED
  BY <1>4, <1>5 DEF Inv, TestsFit

\* What the oldest item is.
LEMMA OldestItem ==
  ASSUME Inv, NEW d, NEW x, Follows(d, x), session.stream # << >>
  PROVE  /\ x[1] \in Nat /\ d \in Nat /\ d < x[1] /\ x[1] \in 1 .. Len(Script)
         /\ Head(session.stream) = Script[x[1]] /\ Script[x[1]] \in Items
         /\ \A j \in d + 1 .. x[1] - 1 : Script[j].do \notin Kinds
<1>1. /\ session \in Sessions(Items) /\ Script \in Seq(Items)
      /\ Tracks(Kinds, session, Script, d, x)
  BY ScriptIn DEF Inv, TypeInv, Follows
<1> HIDE DEF Script
<1> DEFINE t == [session EXCEPT !.stream = Tail(session.stream)]
<1>2. session.stream \in Seq(Items) /\ t.at = session.at /\ t.stream = Tail(session.stream)
  BY <1>1 DEF Sessions
<1> HIDE DEF t
<1>3. /\ x[1] \in d + 1 .. session.at /\ x[1] \in 1 .. Len(Script)
      /\ Head(session.stream) = Script[x[1]]
      /\ \A j \in d + 1 .. x[1] - 1 : Script[j].do \notin Kinds
  BY <1>1, <1>2, TracksDone
<1>4. session.at \in Nat /\ d \in Nat
  BY <1>1 DEF Tracks
<1> QED
  BY <1>1, <1>3, <1>4

\* A copy or an event has no effect but an upload's on the tables.
LEMMA CopyKeeps ==
  ASSUME Inv, NEW d, NEW x, Follows(d, x), session.stream # << >>, opt.tool = "test",
         Head(session.stream).do \notin {"lookup", "update"},
         UNCHANGED <<opt, job, copying, walks, fresh, out, query>>,
         table' = IF Head(session.stream).do = "tables" THEN OldTable ELSE table
  PROVE  DeviceInv(x[1])'
<1> DEFINE y == x[1]
<1>1. /\ y \in Nat /\ d \in Nat /\ d < y /\ Head(session.stream) = Script[y]
      /\ Script[y] \in Items /\ \A j \in d + 1 .. y - 1 : Script[j].do \notin Kinds
  BY OldestItem
<1>2. job = None
  BY DEF Inv, TypeInv
<1>3. /\ DeviceInv(d) /\ Idle /\ table = TableAfter(d) /\ (Looked(d) => LookedUp(opt.n))
      /\ query = StrideQuery(opt.n) /\ fresh = FreshStates(opt.n)
      /\ copying = [c \in Cores |-> copying[c]]
  BY <1>2, RunsJob DEF Follows, DeviceInv
<1>4. Script[y] # UpdateKernel /\ Script[y] # LookupKernel /\ UpdateKernel # Tables
      /\ (Script[y].do = "tables" <=> Script[y] = Tables)
  BY <1>1, ItemFields, ItemIs
<1>5. /\ TablesUpdated(y) <=> TablesUpdated(d) /\ Script[y] # Tables
      /\ Looked(y) <=> Looked(d)
  BY <1>1, <1>4, StageNext
<1>6. table' = IF TablesUpdated(y) THEN ExpectedStates(query, opt.n, opt.percent) ELSE OldTable
  BY <1>1, <1>3, <1>4, <1>5 DEF TableAfter
<1> HIDE DEF y
<1>7. Script' = Script
  BY DEF Script
<1>8. TableAfter(y)' = table' /\ (Looked(y)' <=> Looked(y)) /\ (LookedUp(opt.n)' <=> LookedUp(opt.n))
      /\ Idle'
  <2>1. ExpectedStates(query, opt.n, opt.percent)' = ExpectedStates(query, opt.n, opt.percent)
    BY DEF ExpectedStates, StatesAfter, Position
  <2>2. TablesUpdated(y)' <=> TablesUpdated(y)
    BY <1>7 DEF TablesUpdated
  <2>3. TableAfter(y)' = table'
    BY <1>6, <2>1, <2>2 DEF TableAfter
  <2> QED
    BY <1>3, <1>7, <2>3 DEF Looked, LookedUp, Idle
<1>9. DeviceInv(y)'
  BY <1>2, <1>3, <1>5, <1>8 DEF DeviceInv
<1> QED
  BY <1>9 DEF y

LEMMA UploadNext ==
  ASSUME Inv, UploadTables \/ UploadQuery \/ Stamp
  PROVE  Inv'
<1>1. PICK d, x : Follows(d, x)
  BY DEF Inv
<1>2. /\ session.stream # << >> /\ opt' = opt /\ status' = status
      /\ session' \in {WorkDone(session), EventStamped(session)}
      /\ Head(session.stream).do \in {"tables", "query", "start", "stop"}
      /\ UNCHANGED <<job, copying, walks, fresh, out>>
  BY DEF UploadTables, UploadQuery, Stamp, DeviceAt, UnchangedAbove, coreVars, kernelVars,
         tensors
<1>3. job = None /\ walks \in [Reqs -> Hashes]
  BY <1>2 DEF Inv, TypeInv
<1>4. ASSUME opt.tool = "test" PROVE DeviceInv(x[1])'
  <2>1. query' = query
    <3>1. CASE UploadTables \/ Stamp
      BY <3>1 DEF UploadTables, Stamp, kernelVars, tensors
    <3>2. CASE UploadQuery
      <4> DEFINE q == Head(session.stream)
      <4>1. q = Script[x[1]] /\ x[1] \in 1 .. Len(Script) /\ q.do = "query"
        BY <1>1, <1>2, <3>2, OldestItem DEF UploadQuery, DeviceAt
      <4>2. Ordered(opt, Script) /\ opt.n \in Nat
        BY <1>4, ScriptIn, CommandAssumption DEF Inv, TypeInv
      <4>3. q = QueryOf("stride", 0)
        BY <4>1, <4>2 DEF Ordered
      <4>4. q.on.pattern = "stride"
        BY <4>3 DEF QueryOf, Instr
      <4>5. PICK draw : query' = Query(opt.n, q.on.pattern, q.on.size, draw)
        BY <3>2 DEF UploadQuery
      <4>6. query' = StrideQuery(opt.n)
        BY <4>2, <4>4, <4>5, StrideQueries
      <4> QED
        BY <1>1, <1>4, <4>6 DEF Follows, DeviceInv
    <3> QED
      BY <3>1, <3>2
  <2>2. table' = IF Head(session.stream).do = "tables" THEN OldTable ELSE table
    BY DEF UploadTables, UploadQuery, Stamp, DeviceAt, kernelVars, tensors
  <2> QED
    BY <1>1, <1>2, <1>4, <2>1, <2>2, CopyKeeps
<1> QED
  BY <1>1, <1>2, <1>3, <1>4, DoneKeeps

LEMMA StartNext == ASSUME Inv, StartKernel PROVE Inv'
<1>1. PICK d, x : Follows(d, x)
  BY DEF Inv
<1> DEFINE y == x[1]
           kind == Head(session.stream).do
<1>2. /\ session.stream # << >> /\ opt' = opt /\ status' = status /\ session' = session
      /\ job = None /\ kind \in {"lookup", "update"}
  BY DEF StartKernel, DeviceAt, UnchangedAbove, LaunchLookup, LaunchUpdate, Launched
<1>3. walks' \in [Reqs -> Hashes]
  BY DEF StartKernel, Inv, TypeInv
<1>4. job'.do = kind
  BY DEF StartKernel, DeviceAt, LaunchLookup, LaunchUpdate, Launched
<1>5. Script' = Script
  BY <1>2 DEF Script
<1>6. TypeInv'
  BY <1>2, <1>3, <1>4 DEF Inv, TypeInv
<1>7. /\ opt \in Commands /\ opt.n \in Nat /\ opt.percent \in 0 .. 100 /\ opt.dim \in Int
  BY CommandAssumption DEF Inv, TypeInv
<1>8. ASSUME opt.tool = "test" PROVE DeviceInv(d)'
  <2>1. /\ Idle /\ table = TableAfter(d) /\ (Looked(d) => LookedUp(opt.n))
        /\ query = StrideQuery(opt.n) /\ fresh = FreshStates(opt.n)
        /\ copying = [c \in Cores |-> copying[c]]
    BY <1>1, <1>2, <1>8, RunsJob DEF Follows, DeviceInv
  <2>2. /\ y \in Nat /\ d \in Nat /\ d < y /\ y \in 1 .. Len(Script)
        /\ Head(session.stream) = Script[y] /\ Script[y] \in Items
        /\ \A j \in d + 1 .. y - 1 : Script[j].do \notin Kinds
    BY <1>1, <1>2, OldestItem
  <2>3. Script[y] \in {LookupKernel, UpdateKernel}
    BY <1>2, <2>2, ItemIs
  <2>4. opt.n # 0 /\ ~ Between(Script, y, UpdateKernel, Tables)
    BY <1>7, <1>8, <2>2, <2>3, ScriptIn DEF Ordered
  <2>5. ~ TablesUpdated(d)
    <3>1. \A j \in d + 1 .. y - 1 : Script[j] # UpdateKernel /\ Script[j] # Tables
      BY <2>2, ItemFields DEF Kinds
    <3>2. d + 1 \in Nat \ {0} /\ d + 1 <= y
      BY <2>2
    <3> HIDE DEF y, Script
    <3> QED
      BY <2>2, <2>4, <3>1, <3>2, BetweenGap DEF TablesUpdated
  <2>6. table = OldTable
    BY <2>1, <2>5 DEF TableAfter
  <2>7. query \in Queries(opt.n) /\ WalksIn /\ opt.n \in Nat \ {0}
    BY <1>7, <2>1, <2>4, StrideQueries, WalksAre DEF Inv, TypeInv
  <2>8. FitsWord(opt.n, opt.percent)
    BY <1>7, <1>8 DEF Inv, TestsFit
  <2>9. query' = query /\ fresh' = fresh /\ copying' = copying
    BY DEF StartKernel, LaunchLookup, LaunchUpdate, tensors
  <2>10. CASE LaunchLookup(opt.n, opt.dim)
    <3>1. LookupRuns(opt.n, ClampBlockDim(opt.dim))'
      <4>1. PICK n \in Nat \ {0}, dim \in Int : n = opt.n /\ dim = opt.dim
        BY <1>7, <2>7
      <4>2. LookupRuns(n, ClampBlockDim(dim))'
        BY <2>1, <2>6, <2>7, <2>10, <4>1, LookupStarts
      <4>3. n = opt'.n /\ dim = opt'.dim
        BY <1>2, <4>1
      <4> QED
        BY <4>2, <4>3
    <3> QED
      BY <1>2, <2>1, <2>9, <3>1 DEF DeviceInv
  <2>11. CASE LaunchUpdate(opt.n, opt.dim, opt.percent) /\ walks' = walks
    <3>1. \E blocks \in 1 .. MaxBlocks : UpdateRuns(opt.n, opt.percent, blocks)'
      <4>1. PICK n \in Nat \ {0}, dim \in Int, percent \in 0 .. 100 :
              n = opt.n /\ dim = opt.dim /\ percent = opt.percent
        BY <1>7, <2>7
      <4>2. \E blocks \in 1 .. MaxBlocks : UpdateRuns(n, percent, blocks)'
        <5>1. UNCHANGED walks
          BY <2>11
        <5> QED
          BY <2>1, <2>6, <2>7, <2>8, <2>11, <4>1, <5>1, UpdateStarts
      <4>3. n = opt'.n /\ percent = opt'.percent
        BY <1>2, <4>1
      <4> QED
        BY <4>2, <4>3
    <3>2. (Looked(d)' <=> Looked(d)) /\ (LookedUp(opt.n) => LookedUp(opt.n)')
      BY <1>2, <1>5, <2>11 DEF LaunchUpdate, Looked, LookedUp, tensors
    <3> QED
      BY <1>2, <2>1, <2>9, <3>1, <3>2 DEF DeviceInv
  <2> QED
    BY <1>8, <2>10, <2>11 DEF StartKernel
<1>9. Follows(d, x)'
  BY <1>1, <1>2, <1>5, <1>8 DEF Follows
<1> QED
  BY <1>6, <1>9 DEF Inv, TestsFit

\* A step of a core in the test.
LEMMA CoreKeeps ==
  ASSUME Inv, NEW d, NEW x, Follows(d, x), opt.tool = "test", opt' = opt, session' = session,
         NEW c \in Cores, LookupTile(c) \/ Update(c) \/ CopyOut(c) \/ NextRequest(c)
  PROVE  DeviceInv(d)'
<1>1. /\ DeviceInv(d) /\ query = StrideQuery(opt.n) /\ fresh = FreshStates(opt.n)
      /\ copying = [e \in Cores |-> copying[e]]
  BY DEF Follows, DeviceInv
<1>2. PICK n, percent, blocks :
        n = opt.n /\ percent = opt.percent /\ blocks = ClampBlockDim(opt.dim)
  OBVIOUS
<1>3. n = opt'.n /\ percent = opt'.percent /\ blocks = ClampBlockDim(opt'.dim)
  BY <1>2
<1>4. Looked(d)' <=> Looked(d)
  BY DEF Looked, Script
<1>5. query' = query /\ fresh' = fresh /\ copying' = [e \in Cores |-> copying'[e]]
  <2>1. query' = query /\ fresh' = fresh
    BY DEF LookupTile, FullTile, TailTile, StartCopy, Update, UpdateEntry, CopyOut,
           NextRequest, tensors
  <2>2. \/ copying' = copying
        \/ \E k : copying' = [copying EXCEPT ![c] = k]
    BY DEF LookupTile, FullTile, TailTile, StartCopy, Update, UpdateEntry, CopyOut,
           NextRequest
  <2> QED
    BY <1>1, <2>1, <2>2
<1>6. query' = StrideQuery(opt'.n) /\ fresh' = FreshStates(opt'.n)
  BY <1>1, <1>5
<1>7. ASSUME LookupRuns(n, blocks)' PROVE DeviceInv(d)'
  BY <1>3, <1>5, <1>6, <1>7 DEF DeviceInv
<1>8. ASSUME NEW dim \in 1 .. MaxBlocks, UpdateRuns(n, percent, dim)', out' = out,
             Looked(d) => LookedUp(opt.n)
      PROVE  DeviceInv(d)'
  <2>1. LookedUp(opt.n) => LookedUp(opt.n)'
    BY <1>5, <1>8 DEF LookedUp
  <2> QED
    BY <1>3, <1>4, <1>5, <1>6, <1>8, <2>1 DEF DeviceInv
<1>9. CASE LookupTile(c)
  <2>1. Running(c, "lookup") /\ (FullTile(c) \/ TailTile(c))
    BY <1>9 DEF LookupTile, FullTile, TailTile
  <2>2. LookupRuns(n, blocks)
    BY <1>1, <1>2, <2>1, RunsJob DEF DeviceInv, Running
  <2>3. Untailed(n, blocks)
    BY <1>2 DEF Inv, TypeInv, TestsFit
  <2> QED
    BY <1>7, <2>1, <2>2, <2>3, LookupGathers
<1>10. CASE CopyOut(c)
  <2>1. LookupRuns(n, blocks)
    BY <1>1, <1>2, <1>10 DEF DeviceInv, Idle, UpdateRuns, UpdateGoes, CopyOut
  <2> QED
    BY <1>7, <1>10, <2>1, LookupCopies
<1>11. CASE Update(c) \/ NextRequest(c)
  <2>1. Running(c, "update") /\ out' = out
    BY <1>11 DEF Update, UpdateEntry, NextRequest, tensors
  <2>2. PICK dim \in 1 .. MaxBlocks : UpdateRuns(n, percent, dim)
    BY <1>1, <1>2, <2>1, RunsJob DEF DeviceInv, Running
  <2>3. Looked(d) => LookedUp(opt.n)
    BY <1>1, <2>1, RunsJob DEF DeviceInv, Running
  <2>4. UpdateRuns(n, percent, dim)'
    BY <1>11, <2>2, UpdateUpdates, UpdateMoves DEF Update
  <2> QED
    BY <1>8, <2>1, <2>3, <2>4
<1> QED
  BY <1>9, <1>10, <1>11

LEMMA KernelStepNext == ASSUME Inv, KernelStep PROVE Inv'
<1>1. PICK d, x : Follows(d, x)
  BY DEF Inv
<1>2. PICK c \in Cores : LookupTile(c) \/ Update(c) \/ CopyOut(c) \/ NextRequest(c)
  BY DEF KernelStep
<1>3. opt' = opt /\ status' = status /\ session' = session
  BY DEF KernelStep, UnchangedAbove
<1>4. job' = job /\ walks' = walks
  BY <1>2 DEF LookupTile, FullTile, TailTile, StartCopy, Update, UpdateEntry, CopyOut,
              NextRequest
<1>5. Script' = Script
  BY <1>3 DEF Script
<1>6. TypeInv'
  BY <1>3, <1>4 DEF Inv, TypeInv
<1>7. opt.tool = "test" => DeviceInv(d)'
  BY <1>1, <1>2, <1>3, CoreKeeps
<1>8. Follows(d, x)'
  BY <1>1, <1>3, <1>5, <1>7 DEF Follows
<1> QED
  BY <1>6, <1>8 DEF Inv, TestsFit

\* A kernel that ends has done what the reference says.
LEMMA EndNext == ASSUME Inv, EndKernel PROVE Inv'
<1>1. PICK d, x : Follows(d, x)
  BY DEF Inv
<1> DEFINE y == x[1]
<1>2. /\ KernelDone /\ job # None /\ job' = None /\ session.stream # << >>
      /\ Head(session.stream).do = job.do /\ session' = WorkDone(session)
      /\ UNCHANGED <<opt, status, walks, table, query, fresh, out, at, turn, copying>>
  BY DEF EndKernel, KernelDone, UnchangedAbove, Inv, TypeInv, tensors, coreVars
<1>3. ASSUME opt.tool = "test" PROVE DeviceInv(y)'
  <2>1. /\ y \in Nat /\ d \in Nat /\ d < y /\ y \in 1 .. Len(Script)
        /\ job.do = Script[y].do /\ Script[y] \in Items
        /\ \A j \in d + 1 .. y - 1 : Script[j].do \notin Kinds
    BY <1>1, <1>2, OldestItem
  <2>2. /\ TablesUpdated(y) <=> \/ Script[y] = UpdateKernel
                                \/ TablesUpdated(d) /\ Script[y] # Tables
        /\ Looked(y) <=> Looked(d) \/ Script[y] = LookupKernel
    BY <2>1, StageNext
  <2>3. Script[y] \in {LookupKernel, UpdateKernel} => ~ TablesUpdated(d)
    <3>1. \A j \in d + 1 .. y - 1 : Script[j] # UpdateKernel /\ Script[j] # Tables
      BY <2>1, ItemFields DEF Kinds
    <3>2. d + 1 \in Nat \ {0} /\ d + 1 <= y
      BY <2>1
    <3>3. Ordered(opt, Script)
      BY <1>3, ScriptIn DEF Inv, TypeInv
    <3> HIDE DEF y, Script
    <3> QED
      BY <2>1, <3>1, <3>2, <3>3, BetweenGap DEF TablesUpdated, Ordered
  <2>4. DeviceInv(d) /\ query = StrideQuery(opt.n) /\ fresh = FreshStates(opt.n)
        /\ copying = [c \in Cores |-> copying[c]]
    BY <1>1, <1>3 DEF Follows, DeviceInv
  <2>5. /\ Idle /\ table = TableAfter(y) /\ (Looked(y) => LookedUp(opt.n))
    <3>1. CASE LookupRuns(opt.n, ClampBlockDim(opt.dim))
      <4>1. Script[y] = LookupKernel /\ Script[y] # UpdateKernel
        BY <2>1, <3>1, RunsJob, ItemIs, ItemFields
      <4>2. ~ TablesUpdated(y)
        BY <2>2, <2>3, <4>1
      <4>3. table = OldTable
        BY <3>1 DEF LookupRuns
      <4>4. LookedUp(opt.n) /\ Idle
        BY <1>2, <3>1, LookupEnds
      <4> QED
        BY <4>2, <4>3, <4>4 DEF TableAfter
    <3>2. CASE /\ \E blocks \in 1 .. MaxBlocks : UpdateRuns(opt.n, opt.percent, blocks)
               /\ Looked(d) => LookedUp(opt.n)
      <4>1. PICK blocks \in 1 .. MaxBlocks : UpdateRuns(opt.n, opt.percent, blocks)
        BY <3>2
      <4>2. Script[y] = UpdateKernel /\ Script[y] # LookupKernel
        BY <2>1, <4>1, RunsJob, ItemIs, ItemFields
      <4>3. table = ExpectedStates(query, opt.n, opt.percent) /\ Idle
        BY <1>2, <4>1, UpdateEnds
      <4> QED
        BY <2>2, <3>2, <4>2, <4>3 DEF TableAfter
    <3> QED
      BY <1>2, <2>4, <3>1, <3>2 DEF DeviceInv
  <2>6. TableAfter(y)' = TableAfter(y) /\ (Looked(y)' <=> Looked(y))
        /\ (LookedUp(opt.n)' <=> LookedUp(opt.n)) /\ (Idle' <=> Idle)
    <3> HIDE DEF y
    <3>1. Script' = Script
      BY <1>2 DEF Script
    <3>2. ExpectedStates(query, opt.n, opt.percent)' = ExpectedStates(query, opt.n, opt.percent)
      BY <1>2 DEF ExpectedStates, StatesAfter, Position
    <3> QED
      BY <1>2, <3>1, <3>2 DEF TableAfter, TablesUpdated, Looked, LookedUp, Idle
  <2> HIDE DEF y
  <2> QED
    BY <1>2, <2>4, <2>5, <2>6 DEF DeviceInv
<1>4. walks' \in [Reqs -> Hashes]
  BY <1>2 DEF Inv, TypeInv
<1> QED
  BY <1>1, <1>2, <1>3, <1>4, DoneKeeps

-----------------------------------------------------------------------------
(* The theorem.                                                             *)

LEMMA InvNext == Inv /\ [Next]_vars => Inv'
<1> SUFFICES ASSUME Inv, [Next]_vars PROVE Inv'
  OBVIOUS
<1>1. CASE Host
  BY <1>1, HostNext
<1>2. CASE UploadTables \/ UploadQuery \/ Stamp
  BY <1>2, UploadNext
<1>3. CASE StartKernel
  BY <1>3, StartNext
<1>4. CASE KernelStep
  BY <1>4, KernelStepNext
<1>5. CASE EndKernel
  BY <1>5, EndNext
<1>6. CASE UNCHANGED vars
  <2>1. PICK d, x : Follows(d, x)
    BY DEF Inv
  <2>2. session' = session /\ status' = status /\ UNCHANGED <<kernelVars, opt>>
    BY <1>6 DEF vars, scriptVars
  <2>3. /\ session' \in Sessions(Items) /\ status' \in {"running", "passed", "raised"}
        /\ Tracks(Kinds, session', Script, d, x)
    BY <2>1, <2>2 DEF Inv, TypeInv, Follows
  <2> QED
    BY <2>1, <2>2, <2>3, HostKeeps
<1> QED
  BY <1>1, <1>2, <1>3, <1>4, <1>5, <1>6 DEF Next, Device

(* No assertion of the test fails: a lookup gives every entry's states from  *)
(* before the update, and the tables then hold what the reference's walk     *)
(* leaves, on any number of cores and in any order of their copies and       *)
(* steps, for every table, query, percentage and pair of hashes, if no core  *)
(* comes to a partial tile from another tile.                                *)
THEOREM KernelsAgree == TestsFit /\ Spec => []AgreesWithReference
<1>1. Init /\ TestsFit => Inv
  BY InvInit
<1>2. Inv /\ [Next]_vars => Inv'
  BY InvNext
<1>3. Inv => AgreesWithReference
  BY DEF Inv, TypeInv, AgreesWithReference
<1> QED
  BY <1>1, <1>2, <1>3, PTL DEF Spec

-----------------------------------------------------------------------------
(* What the scripts that measure have the device time.                      *)

Works == {"tables", "query", "lookup", "update"}

\* The launches of a command line.
Launchable(o) == IF o.n = 0 THEN {} ELSE {LookupKernel, UpdateKernel}

\* A script whose measurements can be followed.
Timeable(sc) ==
  /\ sc \in Seq(Items) /\ Quiet(Works, sc) /\ Settled(sc)
  /\ Alternates(sc, StartEvent, StopEvent) /\ Alternates(sc, ReadClock, AddClock)

TimedLaunches(kind, sc) == Cardinality(Timed({kind}, sc, Len(sc), StartEvent, StopEvent))

\* A part of a script in which the device times l lookups and u updates.
Section(o, sc, l, u) ==
  /\ Timeable(sc)
  /\ \A j \in 1 .. Len(sc) : sc[j].do \in {"lookup", "update"} => o.n # 0
  /\ o.n # 0 => TimedLaunches("lookup", sc) = l
  /\ o.n # 0 /\ o.percent # 0 => TimedLaunches("update", sc) = u
  /\ o.tool # "bench" => Cardinality(Timed(Works, sc, Len(sc), StartEvent, StopEvent)) =
                           Cardinality(Timed(Works, sc, Len(sc), ReadClock, AddClock))

LEMMA SectionConcat ==
  ASSUME NEW o, NEW f, NEW l \in Nat, NEW u \in Nat, Section(o, f, l, u),
         NEW g, NEW m \in Nat, NEW v \in Nat, Section(o, g, m, v)
  PROVE  Section(o, f \o g, l + m, u + v)
<1>1. f \in Seq(Items) /\ g \in Seq(Items)
  BY DEF Section, Timeable
<1>2. Timeable(f \o g)
  <2>1. f \o g \in Seq(Items)
    BY <1>1, ConcatLength
  <2>2. Quiet(Works, f \o g)
    BY <1>1, QuietConcat DEF Section, Timeable
  <2>3. Settled(f \o g)
    BY <1>1, SettledConcat DEF Section, Timeable
  <2>4. Alternates(f \o g, StartEvent, StopEvent)
    BY <1>1, AlternatesConcat DEF Section, Timeable
  <2>5. Alternates(f \o g, ReadClock, AddClock)
    BY <1>1, AlternatesConcat DEF Section, Timeable
  <2> QED
    BY <2>1, <2>2, <2>3, <2>4, <2>5 DEF Timeable
<1>3. ASSUME NEW j \in 1 .. Len(f \o g), (f \o g)[j].do \in {"lookup", "update"}
      PROVE  o.n # 0
  <2>1. /\ Len(f) \in Nat /\ Len(g) \in Nat /\ Len(f \o g) = Len(f) + Len(g)
        /\ \A i \in 1 .. Len(f) : (f \o g)[i] = f[i]
        /\ \A i \in 1 .. Len(g) : (f \o g)[Len(f) + i] = g[i]
    BY <1>1, ConcatAt
  <2>2. CASE j \in 1 .. Len(f)
    BY <1>3, <2>1, <2>2 DEF Section
  <2>3. CASE j \notin 1 .. Len(f)
    <3>1. j - Len(f) \in 1 .. Len(g) /\ Len(f) + (j - Len(f)) = j
      BY <2>1, <2>3
    <3>2. g[j - Len(f)].do \in {"lookup", "update"}
      BY <1>3, <2>1, <3>1
    <3> QED
      BY <3>1, <3>2 DEF Section
  <2> QED
    BY <2>2, <2>3
<1>4. \A W : Cardinality(Timed(W, f \o g, Len(f \o g), StartEvent, StopEvent)) =
               Cardinality(Timed(W, f, Len(f), StartEvent, StopEvent))
                 + Cardinality(Timed(W, g, Len(g), StartEvent, StopEvent))
  BY <1>1, TimedConcat DEF Section, Timeable
<1>5. \A W : Cardinality(Timed(W, f \o g, Len(f \o g), ReadClock, AddClock)) =
               Cardinality(Timed(W, f, Len(f), ReadClock, AddClock))
                 + Cardinality(Timed(W, g, Len(g), ReadClock, AddClock))
  BY <1>1, TimedConcat DEF Section, Timeable
<1>6. o.n # 0 => TimedLaunches("lookup", f \o g) = l + m
  BY <1>4 DEF Section, TimedLaunches
<1>7. o.n # 0 /\ o.percent # 0 => TimedLaunches("update", f \o g) = u + v
  BY <1>4 DEF Section, TimedLaunches
<1> QED
  BY <1>2, <1>3, <1>4, <1>5, <1>6, <1>7 DEF Section

\* Nothing is timed where no clock is read and no event is enqueued.
LEMMA PlainSection ==
  ASSUME NEW o, NEW sc \in Seq(Items),
         \A j \in 1 .. Len(sc) : /\ sc[j].do \notin {"start", "stop", "clock", "elapsed"}
                                 /\ sc[j].do \in {"lookup", "update"} => o.n # 0
  PROVE  Section(o, sc, 0, 0)
<1>1. /\ StartEvent.do = "start" /\ StopEvent.do = "stop"
      /\ ReadClock.do = "clock" /\ AddClock.do = "elapsed"
  BY DEF StartEvent, StopEvent, ReadClock, AddClock, Instr
<1>2. \A j \in 1 .. Len(sc) : sc[j] # StartEvent /\ sc[j] # StopEvent
  BY <1>1
<1>3. \A j \in 1 .. Len(sc) : sc[j] # ReadClock /\ sc[j] # AddClock
  BY <1>1
<1>4. /\ Alternates(sc, StartEvent, StopEvent)
      /\ \A W : Timed(W, sc, Len(sc), StartEvent, StopEvent) = {}
  BY <1>2, NoPair
<1>5. /\ Alternates(sc, ReadClock, AddClock)
      /\ \A W : Timed(W, sc, Len(sc), ReadClock, AddClock) = {}
  BY <1>3, NoPair
<1>6. Quiet(Works, sc)
  BY DEF Quiet
<1>7. Settled(sc)
  <2>1. 0 \in 0 .. Len(sc)
    OBVIOUS
  <2> QED
    BY <2>1 DEF Settled
<1>8. Timeable(sc)
  BY <1>4, <1>5, <1>6, <1>7 DEF Timeable
<1>9. TimedLaunches("lookup", sc) = 0 /\ TimedLaunches("update", sc) = 0
  BY <1>4, FS_EmptySet DEF TimedLaunches
<1> QED
  BY <1>4, <1>5, <1>8, <1>9 DEF Section

LEMMA SectionsAdd ==
  ASSUME NEW o, NEW seqs \in Seq(Seq(Items)), NEW l \in [0 .. Len(seqs) -> Nat],
         NEW u \in [0 .. Len(seqs) -> Nat], l[0] = 0, u[0] = 0,
         \A i \in 1 .. Len(seqs) : \E a, b \in Nat :
           Section(o, seqs[i], a, b) /\ l[i] = l[i - 1] + a /\ u[i] = u[i - 1] + b
  PROVE  Section(o, FlattenSeq(seqs), l[Len(seqs)], u[Len(seqs)])
<1> DEFINE n == Len(seqs)
           T == {p \in Seq(Items) \X (Nat \X Nat) : Section(o, p[1], p[2][1], p[2][2])}
           g == [i \in 0 .. n |-> <<l[i], u[i]>>]
<1>1. n \in Nat /\ \A i \in 0 .. n : g[i] = <<l[i], u[i]>> /\ l[i] \in Nat /\ u[i] \in Nat
  <2>1. \A i \in 0 .. n : g[i] = <<l[i], u[i]>>
    OBVIOUS
  <2>2. n \in Nat /\ \A i \in 0 .. n : l[i] \in Nat /\ u[i] \in Nat
    BY ONLY seqs \in Seq(Seq(Items)), l \in [0 .. Len(seqs) -> Nat],
            u \in [0 .. Len(seqs) -> Nat]
  <2> QED
    BY <2>1, <2>2
<1>2. \A f \in Seq(Items) : \A a, b \in Nat : <<f, <<a, b>>>> \in T <=> Section(o, f, a, b)
  OBVIOUS
<1>3. <<<< >>, g[0]>> \in T
  <2>1. << >> \in Seq(Items) /\ Len(<< >>) = 0
    OBVIOUS
  <2>2. Section(o, << >>, 0, 0)
    <3>1. \A j \in 1 .. Len(<< >>) : FALSE
      BY <2>1
    <3> QED
      BY ONLY <2>1, <3>1, PlainSection
  <2>3. g[0] = <<0, 0>>
    BY <1>1
  <2> HIDE DEF T, g
  <2>4. <<<< >>, <<0, 0>>>> \in T
    <3>1. 0 \in Nat
      OBVIOUS
    <3> QED
      BY ONLY <1>2, <2>1, <2>2, <3>1
  <2> QED
    BY <2>3, <2>4
<1> HIDE DEF T, g
<1>4. ASSUME NEW i \in 1 .. n, NEW f \in Seq(Items), <<f, g[i - 1]>> \in T
      PROVE  <<f \o seqs[i], g[i]>> \in T
  <2>1. i - 1 \in 0 .. n /\ i \in 0 .. n
    BY <1>1
  <2>2. /\ g[i - 1] = <<l[i - 1], u[i - 1]>> /\ g[i] = <<l[i], u[i]>>
        /\ l[i - 1] \in Nat /\ u[i - 1] \in Nat /\ l[i] \in Nat /\ u[i] \in Nat
    BY <1>1, <2>1
  <2>3. Section(o, f, l[i - 1], u[i - 1])
    BY <1>2, <1>4, <2>2
  <2>4. PICK a, b \in Nat :
          Section(o, seqs[i], a, b) /\ l[i] = l[i - 1] + a /\ u[i] = u[i - 1] + b
    OBVIOUS
  <2>5. Section(o, f \o seqs[i], l[i], u[i])
    <3>1. Section(o, f \o seqs[i], l[i - 1] + a, u[i - 1] + b)
      BY <2>2, <2>3, <2>4, SectionConcat
    <3> QED
      BY <2>4, <3>1
  <2>6. f \o seqs[i] \in Seq(Items)
    BY <2>5 DEF Section, Timeable
  <2> QED
    BY <1>2, <2>2, <2>5, <2>6
<1>5. <<FlattenSeq(seqs), g[n]>> \in T
  BY <1>3, <1>4, FlattenInduces
<1>6. FlattenSeq(seqs) \in Seq(Items) /\ n \in 0 .. n
  BY <1>1, FlattenIn
<1> QED
  BY <1>1, <1>2, <1>5, <1>6

\* How often a call launches a kernel.
Share(mode, kind) == IF mode \in {kind, "both"} THEN 1 ELSE 0

LEMMA Pair == \A a, b : <<a>> \o <<b>> = <<a, b>>
<1> TAKE a, b
<1> DEFINE S == {a, b}
           h == <<a>> \o <<b>>
<1>1. <<a>> \in Seq(S) /\ <<b>> \in Seq(S) /\ <<a, b>> \in Seq(S) /\ Len(<<a>>) = 1
  OBVIOUS
<1>2. /\ h \in Seq(S) /\ Len(h) = 2 /\ h[1] = a /\ h[2] = b
  BY <1>1, ConcatProperties
<1>3. Len(<<a, b>>) = 2 /\ <<a, b>>[1] = a /\ <<a, b>>[2] = b
  OBVIOUS
<1> HIDE DEF h, S
<1>4. \A i \in 1 .. 2 : h[i] = <<a, b>>[i]
  BY <1>2, <1>3
<1>5. h = <<a, b>>
  BY <1>1, <1>2, <1>3, <1>4, SeqEqual
<1> QED
  BY <1>5 DEF h

LEMMA CallCounts ==
  ASSUME NEW o, NEW mode \in {"lookup", "update", "both"}, NEW calls, calls = Call(o, mode)
  PROVE  /\ calls \in Seq(Launchable(o))
         /\ o.n # 0 =>
              Cardinality(Work({"lookup"}, calls, Len(calls))) = Share(mode, "lookup")
         /\ o.n # 0 /\ o.percent # 0 =>
              Cardinality(Work({"update"}, calls, Len(calls))) = Share(mode, "update")
<1>1. LookupKernel.do = "lookup" /\ UpdateKernel.do = "update"
  BY ItemFields
<1>2. CASE o.n = 0
  <2>1. LookupOnly(o) = << >> /\ UpdateOnly(o) = << >>
    BY <1>2 DEF LookupOnly, UpdateOnly
  <2>2. LookupRandomUpdate(o) = << >>
    <3>1. << >> \in Seq(Items)
      OBVIOUS
    <3> QED
      BY <2>1, <3>1, ConcatEmptySeq DEF LookupRandomUpdate
  <2>3. calls = << >>
    BY <2>1, <2>2 DEF Call
  <2> QED
    BY <1>2, <2>3
<1>3. CASE o.n # 0
  <2> DEFINE K == {LookupKernel, UpdateKernel}
  <2>1. /\ Launchable(o) = K
        /\ LookupOnly(o) = <<LookupKernel>>
        /\ o.percent = 0 => UpdateOnly(o) = << >>
        /\ o.percent # 0 => UpdateOnly(o) = <<UpdateKernel>>
    BY <1>3 DEF Launchable, LookupOnly, UpdateOnly
  <2>2. << >> \in Seq(K) /\ <<LookupKernel>> \in Seq(K) /\ <<UpdateKernel>> \in Seq(K)
        /\ <<LookupKernel, UpdateKernel>> \in Seq(K)
    OBVIOUS
  <2>3. <<LookupKernel>> \o << >> = <<LookupKernel>>
    BY <2>2, ConcatEmptySeq
  <2>4. <<LookupKernel>> \o <<UpdateKernel>> = <<LookupKernel, UpdateKernel>>
    BY Pair
  <2>5. \/ calls = <<LookupKernel>> /\ mode # "update" /\ (mode = "both" => o.percent = 0)
        \/ calls = <<UpdateKernel>> /\ mode = "update"
        \/ calls = << >> /\ mode = "update" /\ o.percent = 0
        \/ calls = <<LookupKernel, UpdateKernel>> /\ mode = "both"
    BY <2>1, <2>3, <2>4 DEF Call, LookupRandomUpdate
  <2>6. /\ Work({"lookup"}, <<LookupKernel>>, 1) = {1}
        /\ Work({"update"}, <<LookupKernel>>, 1) = {}
        /\ Work({"lookup"}, <<UpdateKernel>>, 1) = {}
        /\ Work({"update"}, <<UpdateKernel>>, 1) = {1}
        /\ Work({"lookup"}, << >>, 0) = {}
    <3>1. \A k, W : Work(W, <<k>>, 1) = IF k.do \in W THEN {1} ELSE {}
      BY DEF Work
    <3>2. Work({"lookup"}, << >>, 0) = {}
      BY DEF Work
    <3> QED
      BY <1>1, <3>1, <3>2
  <2>7. /\ Work({"lookup"}, <<LookupKernel, UpdateKernel>>, 2) = {1}
        /\ Work({"update"}, <<LookupKernel, UpdateKernel>>, 2) = {2}
    <3>1. /\ <<LookupKernel, UpdateKernel>>[1] = LookupKernel
          /\ <<LookupKernel, UpdateKernel>>[2] = UpdateKernel
      OBVIOUS
    <3>2. \A j \in 1 .. 2 : j = 1 \/ j = 2
      OBVIOUS
    <3> QED
      BY <1>1, <3>1, <3>2 DEF Work
  <2>8. Cardinality({}) = 0 /\ Cardinality({1}) = 1 /\ Cardinality({2}) = 1
    BY FS_EmptySet, FS_Singleton
  <2>9. /\ Len(<<LookupKernel>>) = 1 /\ Len(<<UpdateKernel>>) = 1 /\ Len(<< >>) = 0
        /\ Len(<<LookupKernel, UpdateKernel>>) = 2
    OBVIOUS
  <2>10. calls \in Seq(Launchable(o))
    BY <2>1, <2>2, <2>5
  <2>11. Cardinality(Work({"lookup"}, calls, Len(calls))) = Share(mode, "lookup")
    BY <2>5, <2>6, <2>7, <2>8, <2>9 DEF Share
  <2>12. o.percent # 0 =>
           Cardinality(Work({"update"}, calls, Len(calls))) = Share(mode, "update")
    BY <2>5, <2>6, <2>7, <2>8, <2>9 DEF Share
  <2> QED
    BY <2>10, <2>11, <2>12
<1> QED
  BY <1>2, <1>3

\* The instructions that are no launches.
LEMMA EventFields ==
  /\ StartEvent.do = "start" /\ StopEvent.do = "stop" /\ Synchronize.do = "sync"
  /\ ReadClock.do = "clock" /\ AddClock.do = "elapsed"
BY DEF StartEvent, StopEvent, Synchronize, ReadClock, AddClock, Instr

LEMMA LaunchItems ==
  ASSUME NEW o, NEW sc \in Seq(Launchable(o))
  PROVE  /\ sc \in Seq(Items)
         /\ \A j \in 1 .. Len(sc) : sc[j].do \in {"lookup", "update"} /\ o.n # 0
<1>1. ASSUME NEW j \in 1 .. Len(sc)
      PROVE  sc[j] \in Items /\ sc[j].do \in {"lookup", "update"} /\ o.n # 0
  <2>1. sc[j] \in Launchable(o)
    OBVIOUS
  <2>2. sc[j] \in {LookupKernel, UpdateKernel} /\ o.n # 0
    BY <2>1 DEF Launchable
  <2> QED
    BY <2>2, ItemFields DEF Items
<1> QED
  BY <1>1

LEMMA WarmSection ==
  ASSUME NEW o, NEW calls \in Seq(Launchable(o))
  PROVE  Section(o, Warm(calls), 0, 0)
<1> DEFINE r == Repeat(Warmup, LAMBDA i : calls)
<1>1. r \in Seq(Launchable(o))
  BY ScriptAssumption, RepeatIn
<1> HIDE DEF r
<1>2. Section(o, r, 0, 0)
  <2>1. r \in Seq(Items)
    BY <1>1, LaunchItems
  <2>2. \A j \in 1 .. Len(r) : r[j].do \in {"lookup", "update"} /\ o.n # 0
    BY <1>1, LaunchItems
  <2> QED
    BY <2>1, <2>2, PlainSection
<1>3. Section(o, <<Synchronize>>, 0, 0)
  <2>1. <<Synchronize>> \in Seq(Items)
    BY ItemFields DEF Items
  <2>2. \A j \in 1 .. Len(<<Synchronize>>) : <<Synchronize>>[j].do = "sync"
    BY EventFields
  <2> QED
    BY <2>1, <2>2, PlainSection
<1>4. Section(o, r \o <<Synchronize>>, 0 + 0, 0 + 0)
  BY <1>2, <1>3, SectionConcat
<1> QED
  BY <1>4 DEF Warm, r

\* The calls of a loop.
Loop(o, mode) == Repeat(Iters, LAMBDA i : Call(o, mode))

\* What a loop of calls launches.
LoopLaunches(o, mode, r) ==
  /\ r \in Seq(Items)
  /\ \A j \in 1 .. Len(r) : r[j].do \in {"lookup", "update"} /\ o.n # 0
  /\ o.n # 0 => Cardinality(Work({"lookup"}, r, Len(r))) = Iters * Share(mode, "lookup")
  /\ o.n # 0 /\ o.percent # 0 =>
       Cardinality(Work({"update"}, r, Len(r))) = Iters * Share(mode, "update")

LEMMA LoopIs ==
  ASSUME NEW o, NEW mode \in {"lookup", "update", "both"}, NEW r, r = Loop(o, mode)
  PROVE  LoopLaunches(o, mode, r)
<1>1. PICK calls : calls = Call(o, mode)
  OBVIOUS
<1>2. r = Repeat(Iters, LAMBDA i : calls) /\ Iters \in Nat
  BY <1>1, ScriptAssumption DEF Loop
<1>3. /\ calls \in Seq(Launchable(o))
      /\ o.n # 0 =>
           Cardinality(Work({"lookup"}, calls, Len(calls))) = Share(mode, "lookup")
      /\ o.n # 0 /\ o.percent # 0 =>
           Cardinality(Work({"update"}, calls, Len(calls))) = Share(mode, "update")
  BY <1>1, CallCounts
<1>4. r \in Seq(Launchable(o))
  BY <1>2, <1>3, RepeatIn
<1>5. ASSUME NEW W, NEW c \in Nat, c = Cardinality(Work(W, calls, Len(calls)))
      PROVE  Cardinality(Work(W, r, Len(r))) = Iters * c
  <2>1. r = Repeated(Iters, calls)
    BY <1>2 DEF Repeated
  <2> QED
    BY ONLY <1>2, <1>3, <1>5, <2>1, c \in Nat, RepeatWork
<1>6. Share(mode, "lookup") \in Nat /\ Share(mode, "update") \in Nat
  BY DEF Share
<1>7. r \in Seq(Items) /\ \A j \in 1 .. Len(r) : r[j].do \in {"lookup", "update"} /\ o.n # 0
  BY <1>4, LaunchItems
<1> QED
  BY ONLY <1>3, <1>5, <1>6, <1>7 DEF LoopLaunches

LEMMA LoopSection ==
  ASSUME NEW o, NEW mode \in {"lookup", "update", "both"}
  PROVE  Section(o, TimeLoop(Call(o, mode)), Iters * Share(mode, "lookup"),
                 Iters * Share(mode, "update"))
<1>1. PICK r, f, g, sc :
        /\ r = Loop(o, mode)
        /\ f = <<Synchronize, StartEvent, ReadClock>>
        /\ g = <<StopEvent, Synchronize, AddClock>>
        /\ sc = (f \o r) \o g
  OBVIOUS
<1>2. sc = TimeLoop(Call(o, mode))
  BY <1>1 DEF TimeLoop, Loop
<1>a. LoopLaunches(o, mode, r)
  BY <1>1, LoopIs
<1>3. /\ r \in Seq(Items)
      /\ \A j \in 1 .. Len(r) : r[j].do \in {"lookup", "update"} /\ o.n # 0
  BY <1>a DEF LoopLaunches
<1>4. /\ f \in Seq(Items) /\ Len(f) = 3
      /\ f[1] = Synchronize /\ f[2] = StartEvent /\ f[3] = ReadClock
      /\ g \in Seq(Items) /\ Len(g) = 3
      /\ g[1] = StopEvent /\ g[2] = Synchronize /\ g[3] = AddClock
  BY <1>1, ItemFields DEF Items
<1>5. PICK k \in Nat : k = Len(r)
  BY <1>3
<1>6. sc \in Seq(Items) /\ Around(sc, f, r, g, 3, k, 3)
  BY ONLY <1>1, <1>3, <1>4, <1>5, AroundAt
<1>7. /\ Len(sc) = k + 6
      /\ \A j \in 1 .. 3 : sc[j] = f[j]
      /\ \A i \in 1 .. k : sc[3 + i] = r[i]
      /\ \A j \in 1 .. 3 : sc[(3 + k) + j] = g[j]
      /\ \A j \in 1 .. Len(sc) : \/ j \in 1 .. 3
                                 \/ \E i \in 1 .. k : j = 3 + i
                                 \/ \E i \in 1 .. 3 : j = (3 + k) + i
  BY <1>6 DEF Around
<1>8. /\ sc[1] = Synchronize /\ sc[2] = StartEvent /\ sc[3] = ReadClock
      /\ sc[k + 4] = StopEvent /\ sc[k + 5] = Synchronize /\ sc[k + 6] = AddClock
  <2>1. 1 \in 1 .. 3 /\ 2 \in 1 .. 3 /\ 3 \in 1 .. 3
        /\ (3 + k) + 1 = k + 4 /\ (3 + k) + 2 = k + 5 /\ (3 + k) + 3 = k + 6
    OBVIOUS
  <2> QED
    BY <1>4, <1>7, <2>1
<1>9. \A j \in 1 .. k + 6 : \/ j \in {1, 2, 3, k + 4, k + 5, k + 6}
                            \/ \E i \in 1 .. k : j = 3 + i
  BY <1>7
<1>10. \A j \in 1 .. Len(r) : r[j] # StartEvent /\ r[j] # StopEvent
                              /\ r[j] # ReadClock /\ r[j] # AddClock
  BY <1>3, EventFields
<1>11. \A W : W \subseteq Works =>
         /\ \A j \in 1 .. Len(f) : f[j].do \notin W
         /\ \A j \in 1 .. Len(g) : g[j].do \notin W
  <2>1. \A j \in 1 .. 3 : f[j].do \notin Works /\ g[j].do \notin Works
    <3>1. \A j \in 1 .. 3 : j = 1 \/ j = 2 \/ j = 3
      OBVIOUS
    <3> QED
      BY <1>4, <3>1, EventFields DEF Works
  <2> QED
    BY <1>4, <2>1
<1>12. /\ Alternates(sc, StartEvent, StopEvent)
       /\ \A W : W \subseteq Works =>
            Cardinality(Timed(W, sc, Len(sc), StartEvent, StopEvent)) =
              Cardinality(Work(W, r, Len(r)))
  <2>1. StartEvent # StopEvent /\ 2 \in 1 .. Len(f) /\ 1 \in 1 .. Len(g)
    BY <1>4, EventFields
  <2>2. \A j \in 1 .. Len(f) : (f[j] = StartEvent <=> j = 2) /\ f[j] # StopEvent
    BY <1>4, EventFields
  <2>3. \A j \in 1 .. Len(g) : (g[j] = StopEvent <=> j = 1) /\ g[j] # StartEvent
    BY <1>4, EventFields
  <2>4. f \in Seq(Items) /\ r \in Seq(Items) /\ g \in Seq(Items) /\ sc = (f \o r) \o g
        /\ \A j \in 1 .. Len(r) : r[j] # StartEvent /\ r[j] # StopEvent
    BY <1>1, <1>3, <1>4, <1>10
  <2>5. Alternates(sc, StartEvent, StopEvent)
    BY ONLY <2>1, <2>2, <2>3, <2>4, TimedAround
  <2>6. TimesInside(sc, f, r, g, StartEvent, StopEvent)
    BY ONLY <2>1, <2>2, <2>3, <2>4, TimedAround
  <2> QED
    BY ONLY <1>11, <2>5, <2>6 DEF TimesInside
<1>13. /\ Alternates(sc, ReadClock, AddClock)
       /\ \A W : W \subseteq Works =>
            Cardinality(Timed(W, sc, Len(sc), ReadClock, AddClock)) =
              Cardinality(Work(W, r, Len(r)))
  <2>1. ReadClock # AddClock /\ 3 \in 1 .. Len(f) /\ 3 \in 1 .. Len(g)
    BY <1>4, EventFields
  <2>2. \A j \in 1 .. Len(f) : (f[j] = ReadClock <=> j = 3) /\ f[j] # AddClock
    BY <1>4, EventFields
  <2>3. \A j \in 1 .. Len(g) : (g[j] = AddClock <=> j = 3) /\ g[j] # ReadClock
    BY <1>4, EventFields
  <2>4. f \in Seq(Items) /\ r \in Seq(Items) /\ g \in Seq(Items) /\ sc = (f \o r) \o g
        /\ \A j \in 1 .. Len(r) : r[j] # ReadClock /\ r[j] # AddClock
    BY <1>1, <1>3, <1>4, <1>10
  <2>5. Alternates(sc, ReadClock, AddClock)
    BY ONLY <2>1, <2>2, <2>3, <2>4, TimedAround
  <2>6. TimesInside(sc, f, r, g, ReadClock, AddClock)
    BY ONLY <2>1, <2>2, <2>3, <2>4, TimedAround
  <2> QED
    BY ONLY <1>11, <2>5, <2>6 DEF TimesInside
<1>14. Quiet(Works, sc)
  <2> SUFFICES ASSUME NEW j \in 1 .. k + 6, sc[j].do \in {"clock", "elapsed"}
               PROVE  \E i \in 1 .. j - 1 : /\ sc[i].do = "sync"
                                            /\ \A m \in i + 1 .. j - 1 : sc[m].do \notin Works
    BY <1>7 DEF Quiet
  <2>1. j = 3 \/ j = k + 6
    <3>1. \A i \in 1 .. k : sc[3 + i].do \in {"lookup", "update"}
      BY <1>3, <1>5, <1>7
    <3>2. /\ sc[1].do = "sync" /\ sc[2].do = "start"
          /\ sc[k + 4].do = "stop" /\ sc[k + 5].do = "sync"
      BY <1>8, EventFields
    <3> QED
      BY <1>9, <3>1, <3>2
  <2>2. CASE j = 3
    <3>1. 1 \in 1 .. j - 1 /\ \A m \in 1 + 1 .. j - 1 : m = 2
      BY <2>2
    <3> QED
      BY <1>8, <3>1, EventFields DEF Works
  <2>3. CASE j = k + 6
    <3>1. k + 5 \in 1 .. j - 1 /\ \A m \in (k + 5) + 1 .. j - 1 : FALSE
      BY <2>3
    <3> QED
      BY <1>8, <3>1, EventFields
  <2> QED
    BY <2>1, <2>2, <2>3
<1>15. Settled(sc)
  <2>1. k + 5 \in 0 .. Len(sc) /\ \A m \in (k + 5) + 1 .. Len(sc) : m = k + 6
    BY <1>7
  <2> QED
    BY <1>8, <2>1, EventFields DEF Settled
<1>16. Timeable(sc)
  BY <1>6, <1>12, <1>13, <1>14, <1>15 DEF Timeable
<1>17. \A j \in 1 .. Len(sc) : sc[j].do \in {"lookup", "update"} => o.n # 0
  BY <1>3, <1>5, <1>7, <1>8, <1>9, EventFields
<1>18. {"lookup"} \subseteq Works /\ {"update"} \subseteq Works /\ Works \subseteq Works
  BY DEF Works
<1>19. Section(o, sc, Iters * Share(mode, "lookup"), Iters * Share(mode, "update"))
  BY <1>a, <1>12, <1>13, <1>16, <1>17, <1>18 DEF Section, TimedLaunches, LoopLaunches
<1> QED
  BY <1>2, <1>19

\* The loop of the script that has no clock of the host.
BenchLoop(o, mode) == (<<StartEvent>> \o Loop(o, mode)) \o <<StopEvent, Synchronize>>

LEMMA BenchLoopSection ==
  ASSUME NEW o, o.tool = "bench", NEW mode \in {"lookup", "update", "both"}
  PROVE  Section(o, BenchLoop(o, mode), Iters * Share(mode, "lookup"),
                 Iters * Share(mode, "update"))
<1>1. PICK r, f, g, sc :
        /\ r = Loop(o, mode)
        /\ f = <<StartEvent>>
        /\ g = <<StopEvent, Synchronize>>
        /\ sc = (f \o r) \o g
  OBVIOUS
<1>2. sc = BenchLoop(o, mode)
  BY <1>1 DEF BenchLoop
<1>a. LoopLaunches(o, mode, r)
  BY <1>1, LoopIs
<1>3. /\ r \in Seq(Items)
      /\ \A j \in 1 .. Len(r) : r[j].do \in {"lookup", "update"} /\ o.n # 0
  BY <1>a DEF LoopLaunches
<1>4. /\ f \in Seq(Items) /\ Len(f) = 1 /\ f[1] = StartEvent
      /\ g \in Seq(Items) /\ Len(g) = 2 /\ g[1] = StopEvent /\ g[2] = Synchronize
  BY <1>1, ItemFields DEF Items
<1>5. PICK k \in Nat : k = Len(r)
  BY <1>3
<1>6. sc \in Seq(Items) /\ Around(sc, f, r, g, 1, k, 2)
  BY ONLY <1>1, <1>3, <1>4, <1>5, AroundAt
<1>7. /\ Len(sc) = k + 3
      /\ \A j \in 1 .. 1 : sc[j] = f[j]
      /\ \A i \in 1 .. k : sc[1 + i] = r[i]
      /\ \A j \in 1 .. 2 : sc[(1 + k) + j] = g[j]
      /\ \A j \in 1 .. Len(sc) : \/ j \in 1 .. 1
                                 \/ \E i \in 1 .. k : j = 1 + i
                                 \/ \E i \in 1 .. 2 : j = (1 + k) + i
  BY <1>6 DEF Around
<1>8. sc[1] = StartEvent /\ sc[k + 2] = StopEvent /\ sc[k + 3] = Synchronize
  <2>1. 1 \in 1 .. 1 /\ 1 \in 1 .. 2 /\ 2 \in 1 .. 2
        /\ (1 + k) + 1 = k + 2 /\ (1 + k) + 2 = k + 3
    OBVIOUS
  <2> QED
    BY <1>4, <1>7, <2>1
<1>9. \A j \in 1 .. Len(sc) : j \in {1, k + 2, k + 3} \/ \E i \in 1 .. k : j = 1 + i
  <2> TAKE j \in 1 .. Len(sc)
  <2>1. CASE j \in 1 .. 1
    BY <2>1
  <2>2. CASE \E i \in 1 .. k : j = 1 + i
    BY <2>2
  <2>3. CASE \E i \in 1 .. 2 : j = (1 + k) + i
    BY <2>3
  <2> QED
    BY <1>7, <2>1, <2>2, <2>3
<1>10. /\ \A i \in 1 .. k : sc[1 + i].do \in {"lookup", "update"} /\ o.n # 0
       /\ sc[1].do = "start" /\ sc[k + 2].do = "stop" /\ sc[k + 3].do = "sync"
  <2>1. \A i \in 1 .. k : sc[1 + i].do \in {"lookup", "update"} /\ o.n # 0
    BY <1>3, <1>5, <1>7
  <2> QED
    BY <1>8, <2>1, EventFields
<1>11. \A j \in 1 .. Len(sc) : sc[j].do \notin {"clock", "elapsed"}
  <2> TAKE j \in 1 .. Len(sc)
  <2>1. CASE j \in {1, k + 2, k + 3}
    BY <1>10, <2>1
  <2>2. CASE \E i \in 1 .. k : j = 1 + i
    BY <1>10, <2>2
  <2> QED
    BY <1>9, <2>1, <2>2
<1>12. /\ Alternates(sc, StartEvent, StopEvent)
       /\ TimesInside(sc, f, r, g, StartEvent, StopEvent)
  <2>1. StartEvent # StopEvent /\ 1 \in 1 .. Len(f) /\ 1 \in 1 .. Len(g)
    BY <1>4, EventFields
  <2>2. \A j \in 1 .. Len(f) : (f[j] = StartEvent <=> j = 1) /\ f[j] # StopEvent
    BY <1>4, EventFields
  <2>3. \A j \in 1 .. Len(g) : (g[j] = StopEvent <=> j = 1) /\ g[j] # StartEvent
    BY <1>4, EventFields
  <2>4. f \in Seq(Items) /\ r \in Seq(Items) /\ g \in Seq(Items) /\ sc = (f \o r) \o g
        /\ \A j \in 1 .. Len(r) : r[j] # StartEvent /\ r[j] # StopEvent
    BY <1>1, <1>3, <1>4, EventFields
  <2> QED
    BY ONLY <2>1, <2>2, <2>3, <2>4, TimedAround
<1>13. \A W : W \subseteq {"lookup", "update"} =>
         Cardinality(Timed(W, sc, Len(sc), StartEvent, StopEvent)) =
           Cardinality(Work(W, r, Len(r)))
  <2>1. /\ \A j \in 1 .. Len(f) : f[j].do \notin {"lookup", "update"}
        /\ \A j \in 1 .. Len(g) : g[j].do \notin {"lookup", "update"}
    <3>1. \A j \in 1 .. 2 : j = 1 \/ j = 2
      OBVIOUS
    <3> QED
      BY <1>4, <3>1, EventFields
  <2> QED
    BY <1>12, <2>1 DEF TimesInside
<1>14. Alternates(sc, ReadClock, AddClock)
  <2>1. \A j \in 1 .. Len(sc) : sc[j] # ReadClock /\ sc[j] # AddClock
    BY <1>11, EventFields
  <2> QED
    BY <1>6, <2>1, NoPair
<1>15. Quiet(Works, sc)
  BY <1>11 DEF Quiet
<1>16. Settled(sc)
  <2>1. k + 3 \in 0 .. Len(sc) /\ \A m \in (k + 3) + 1 .. Len(sc) : FALSE
    BY <1>7
  <2> QED
    BY <1>10, <2>1 DEF Settled
<1>17. Timeable(sc)
  BY <1>6, <1>12, <1>14, <1>15, <1>16 DEF Timeable
<1>18. \A j \in 1 .. Len(sc) : sc[j].do \in {"lookup", "update"} => o.n # 0
  BY <1>7, <1>9, <1>10
<1>19. Section(o, sc, Iters * Share(mode, "lookup"), Iters * Share(mode, "update"))
  BY <1>a, <1>13, <1>17, <1>18 DEF Section, TimedLaunches, LoopLaunches
<1> QED
  BY <1>2, <1>19

\* What is made of a script before it measures.
LEMMA QuerySection ==
  ASSUME NEW o, NEW pattern \in STRING, NEW size \in Nat
  PROVE  Section(o, <<QueryOf(pattern, size)>>, 0, 0)
<1>1. QueryOf(pattern, size).do = "query" /\ QueryOf(pattern, size) \in Items
  BY ItemFields DEF QueryOf, Instr, Items
<1>2. <<QueryOf(pattern, size)>> \in Seq(Items)
  BY <1>1
<1>3. \A j \in 1 .. Len(<<QueryOf(pattern, size)>>) :
        <<QueryOf(pattern, size)>>[j].do = "query"
  BY <1>1
<1> QED
  BY <1>2, <1>3, PlainSection

LEMMA PairSection ==
  ASSUME NEW o, NEW a \in Items, NEW b \in Items,
         a.do \notin {"start", "stop", "clock", "elapsed", "lookup", "update"},
         b.do \notin {"start", "stop", "clock", "elapsed", "lookup", "update"}
  PROVE  Section(o, <<a, b>>, 0, 0)
<1>1. <<a, b>> \in Seq(Items) /\ Len(<<a, b>>) = 2 /\ <<a, b>>[1] = a /\ <<a, b>>[2] = b
  OBVIOUS
<1>2. \A j \in 1 .. Len(<<a, b>>) :
        <<a, b>>[j].do \notin {"start", "stop", "clock", "elapsed", "lookup", "update"}
  <2>1. \A j \in 1 .. 2 : j = 1 \/ j = 2
    OBVIOUS
  <2> QED
    BY <1>1, <2>1
<1> QED
  BY <1>1, <1>2, PlainSection

LEMMA InputsSection == ASSUME NEW o PROVE Section(o, Inputs, 0, 0)
<1>1. /\ Tables.do = "tables" /\ Tables \in Items
      /\ QueryOf("stride", 0).do = "query" /\ QueryOf("stride", 0) \in Items
  BY ItemFields DEF Items
<1>2. Section(o, <<Tables, QueryOf("stride", 0)>>, 0, 0)
  BY <1>1, PairSection
<1> QED
  BY <1>2 DEF Inputs

LEMMA ProfileModeSection ==
  ASSUME NEW o, NEW mode \in {"lookup", "update"}
  PROVE  Section(o, ProfileMode(o, mode), Iters * Share(mode, "lookup"),
                 Iters * Share(mode, "update"))
<1>1. PICK calls : calls = Call(o, mode)
  OBVIOUS
<1>2. calls \in Seq(Launchable(o))
  BY <1>1, CallCounts
<1>3. Section(o, Inputs, 0, 0) /\ Section(o, Warm(calls), 0, 0)
  BY <1>2, InputsSection, WarmSection
<1>4. Section(o, Inputs \o Warm(calls), 0, 0)
  <2>1. Section(o, Inputs \o Warm(calls), 0 + 0, 0 + 0)
    BY <1>3, SectionConcat
  <2> QED
    BY <2>1
<1>5. Section(o, TimeLoop(calls), Iters * Share(mode, "lookup"), Iters * Share(mode, "update"))
  BY <1>1, LoopSection
<1>6. /\ Iters * Share(mode, "lookup") \in Nat /\ Iters * Share(mode, "update") \in Nat
  BY ScriptAssumption DEF Share
<1>7. Section(o, (Inputs \o Warm(calls)) \o TimeLoop(calls),
              0 + Iters * Share(mode, "lookup"), 0 + Iters * Share(mode, "update"))
  BY <1>4, <1>5, <1>6, SectionConcat
<1>8. /\ 0 + Iters * Share(mode, "lookup") = Iters * Share(mode, "lookup")
      /\ 0 + Iters * Share(mode, "update") = Iters * Share(mode, "update")
  BY <1>6
<1> QED
  BY <1>1, <1>7, <1>8 DEF ProfileMode

LEMMA BenchPatternSection ==
  ASSUME NEW o, NEW pattern \in STRING, NEW size \in Nat
  PROVE  Section(o, BenchPattern(o, pattern, size), Iters, 0)
<1>1. PICK calls : calls = Call(o, "lookup")
  OBVIOUS
<1>2. calls \in Seq(Launchable(o)) /\ calls = LookupOnly(o)
  BY <1>1, CallCounts DEF Call
<1>3. Section(o, <<QueryOf(pattern, size)>>, 0, 0) /\ Section(o, Warm(calls), 0, 0)
  BY <1>2, QuerySection, WarmSection
<1>4. Section(o, <<QueryOf(pattern, size)>> \o Warm(calls), 0, 0)
  <2>1. Section(o, <<QueryOf(pattern, size)>> \o Warm(calls), 0 + 0, 0 + 0)
    BY <1>3, SectionConcat
  <2> QED
    BY <2>1
<1>5. Section(o, TimeLoop(calls), Iters, 0)
  <2>1. Section(o, TimeLoop(calls), Iters * Share("lookup", "lookup"),
                Iters * Share("lookup", "update"))
    BY <1>1, LoopSection
  <2>2. Iters * Share("lookup", "lookup") = Iters /\ Iters * Share("lookup", "update") = 0
    BY ScriptAssumption DEF Share
  <2> QED
    BY <2>1, <2>2
<1>6. Iters \in Nat
  BY ScriptAssumption
<1>7. Section(o, (<<QueryOf(pattern, size)>> \o Warm(calls)) \o TimeLoop(calls), 0 + Iters, 0 + 0)
  BY <1>4, <1>5, <1>6, SectionConcat
<1>8. 0 + Iters = Iters /\ 0 + 0 = 0
  BY <1>6
<1> QED
  BY <1>2, <1>7, <1>8 DEF BenchPattern

LEMMA BenchScriptSection ==
  ASSUME NEW o, o.tool = "bench", o.mode \in {"lookup", "update", "both"}
  PROVE  Section(o, BenchScript(o), Iters * Share(o.mode, "lookup"),
                 Iters * Share(o.mode, "update"))
<1>1. PICK calls, mode, r, f, a, z : /\ calls = Call(o, o.mode) /\ mode = o.mode
                                     /\ r = Loop(o, mode) /\ f = Inputs \o Warm(calls)
                                     /\ a = <<StartEvent>> /\ z = <<StopEvent, Synchronize>>
  OBVIOUS
<1>2. calls \in Seq(Launchable(o)) /\ mode \in {"lookup", "update", "both"}
  BY <1>1, CallCounts
<1>3. Section(o, Inputs, 0, 0) /\ Section(o, Warm(calls), 0, 0)
  BY <1>2, InputsSection, WarmSection
<1>4. Section(o, f, 0, 0)
  <2>1. Section(o, Inputs \o Warm(calls), 0 + 0, 0 + 0)
    BY <1>3, SectionConcat
  <2> QED
    BY <1>1, <2>1
<1>5. Section(o, (a \o r) \o z, Iters * Share(mode, "lookup"), Iters * Share(mode, "update"))
  BY <1>1, <1>2, BenchLoopSection DEF BenchLoop
<1>6. Iters * Share(mode, "lookup") \in Nat /\ Iters * Share(mode, "update") \in Nat
  BY ScriptAssumption DEF Share
<1>7. Section(o, f \o ((a \o r) \o z), Iters * Share(mode, "lookup"),
              Iters * Share(mode, "update"))
  <2>1. Section(o, f \o ((a \o r) \o z), 0 + Iters * Share(mode, "lookup"),
                0 + Iters * Share(mode, "update"))
    BY <1>4, <1>5, <1>6, SectionConcat
  <2>2. /\ 0 + Iters * Share(mode, "lookup") = Iters * Share(mode, "lookup")
        /\ 0 + Iters * Share(mode, "update") = Iters * Share(mode, "update")
    BY <1>6
  <2> QED
    BY <2>1, <2>2
<1>8. BenchScript(o) = f \o ((a \o r) \o z)
  <2>1. BenchScript(o) = ((f \o a) \o r) \o z
    BY <1>1 DEF BenchScript, Loop
  <2>2. f \in Seq(Items) /\ a \in Seq(Items) /\ z \in Seq(Items)
    BY <1>1, <1>4, ItemFields DEF Section, Timeable, Items
  <2>3. r \in Seq(Items)
    BY <1>1, <1>2, LoopIs DEF LoopLaunches
  <2>4. (f \o a) \o r = f \o (a \o r)
    BY ONLY <2>2, <2>3, ItemsAssociate
  <2>5. a \o r \in Seq(Items)
    BY <2>2, <2>3, ConcatLength
  <2>6. PICK e \in Seq(Items) : e = a \o r
    BY <2>5
  <2>7. (f \o e) \o z = f \o (e \o z)
    BY ONLY <2>2, ItemsAssociate
  <2> QED
    BY ONLY <2>1, <2>4, <2>6, <2>7
<1> QED
  BY <1>1, <1>7, <1>8

LEMMA Distribute == \A x, y, z \in Nat : z * (x + y) = z * x + z * y /\ z * y \in Nat
OBVIOUS

\* How many of the first n modes are of a kind.
ModesOf(modes, kind, n) == {i \in 1 .. n : modes[i] = kind}

LEMMA ModesOfNext ==
  ASSUME NEW modes, NEW kind, NEW n \in Nat \ {0}
  PROVE  /\ Cardinality(ModesOf(modes, kind, n)) =
              Cardinality(ModesOf(modes, kind, n - 1)) + (IF modes[n] = kind THEN 1 ELSE 0)
         /\ Cardinality(ModesOf(modes, kind, n - 1)) \in Nat
         /\ Cardinality(ModesOf(modes, kind, 0)) = 0
<1> DEFINE s == ModesOf(modes, kind, n - 1)
<1>1. IsFiniteSet(s)
  <2>1. IsFiniteSet(1 .. n - 1)
    BY FS_Interval
  <2>2. s \subseteq 1 .. n - 1
    BY DEF ModesOf
  <2> QED
    BY <2>1, <2>2, FS_Subset
<1>2. Cardinality(s) \in Nat
  BY <1>1, FS_CardinalityType
<1>3. n \notin s
  BY DEF ModesOf
<1>4. ModesOf(modes, kind, n) = IF modes[n] = kind THEN s \cup {n} ELSE s
  BY DEF ModesOf
<1>5. Cardinality(s \cup {n}) = Cardinality(s) + 1
  BY <1>1, <1>3, FS_AddElement
<1>6. ModesOf(modes, kind, 0) = {}
  BY DEF ModesOf
<1>7. Cardinality(ModesOf(modes, kind, 0)) = 0
  BY <1>6, FS_EmptySet
<1> HIDE DEF s
<1>8. Cardinality(ModesOf(modes, kind, n)) = Cardinality(s) + (IF modes[n] = kind THEN 1 ELSE 0)
  BY <1>2, <1>4, <1>5
<1> QED
  BY <1>2, <1>7, <1>8 DEF s

LEMMA ProfileScriptSection ==
  ASSUME NEW o, o.modes \in Seq({"lookup", "update"}), NEW n, n = Len(o.modes)
  PROVE  Section(o, ProfileScript(o), Iters * Cardinality(ModesOf(o.modes, "lookup", n)),
                 Iters * Cardinality(ModesOf(o.modes, "update", n)))
<1>1. PICK modes, seqs : /\ modes = o.modes
                         /\ seqs = [i \in DOMAIN modes |-> ProfileMode(o, modes[i])]
  OBVIOUS
<1>2. n \in Nat /\ DOMAIN modes = 1 .. n /\ \A i \in 1 .. n : modes[i] \in {"lookup", "update"}
  BY <1>1
<1> DEFINE c(kind, i) == Cardinality(ModesOf(modes, kind, i))
<1>3. ASSUME NEW kind, NEW i \in 0 .. n PROVE c(kind, i) \in Nat
  <2>1. i + 1 \in Nat \ {0} /\ (i + 1) - 1 = i
    BY <1>2
  <2>2. Cardinality(ModesOf(modes, kind, (i + 1) - 1)) \in Nat
    BY <2>1, ModesOfNext
  <2> QED
    BY <2>1, <2>2
<1>4. ASSUME NEW kind PROVE c(kind, 0) = 0
  BY ModesOfNext, 1 \in Nat \ {0}
<1>5. ASSUME NEW kind \in {"lookup", "update"}, NEW i \in 1 .. n
      PROVE  Iters * c(kind, i) = Iters * c(kind, i - 1) + Iters * Share(modes[i], kind)
  <2>1. i \in Nat \ {0} /\ i - 1 \in 0 .. n
    BY <1>2
  <2>2. c(kind, i) = c(kind, i - 1) + (IF modes[i] = kind THEN 1 ELSE 0)
    BY <2>1, ModesOfNext
  <2>3. Share(modes[i], kind) = IF modes[i] = kind THEN 1 ELSE 0
    BY <1>2 DEF Share
  <2>4. c(kind, i - 1) \in Nat /\ Iters \in Nat
    BY <1>3, <2>1, ScriptAssumption
  <2> HIDE DEF c
  <2>5. \A x, y, m \in Nat : m * (x + y) = m * x + m * y
    OBVIOUS
  <2>6. Share(modes[i], kind) \in Nat
    BY DEF Share
  <2> QED
    BY <2>2, <2>3, <2>4, <2>5, <2>6
<1> HIDE DEF c
<1>6. PICK l, u : /\ l = [i \in 0 .. n |-> Iters * c("lookup", i)]
                  /\ u = [i \in 0 .. n |-> Iters * c("update", i)]
  OBVIOUS
<1>7. /\ l \in [0 .. n -> Nat] /\ u \in [0 .. n -> Nat]
      /\ \A i \in 0 .. n : l[i] = Iters * c("lookup", i) /\ u[i] = Iters * c("update", i)
  <2>1. \A i \in 0 .. n : /\ c("lookup", i) \in Nat /\ c("update", i) \in Nat
                          /\ Iters \in Nat
    BY <1>3, ScriptAssumption
  <2>2. \A i \in 0 .. n : /\ Iters * c("lookup", i) \in Nat
                          /\ Iters * c("update", i) \in Nat
    BY ONLY <2>1
  <2> QED
    BY ONLY <1>6, <2>2
<1>8. l[0] = 0 /\ u[0] = 0
  BY <1>2, <1>4, <1>7, ScriptAssumption
<1>9. \A i \in 1 .. n : Section(o, ProfileMode(o, modes[i]), Iters * Share(modes[i], "lookup"),
                                Iters * Share(modes[i], "update"))
  BY <1>2, ProfileModeSection
<1>10. seqs \in Seq(Seq(Items)) /\ Len(seqs) = n
       /\ \A i \in 1 .. n : seqs[i] = ProfileMode(o, modes[i])
  <2>1. \A i \in 1 .. n : ProfileMode(o, modes[i]) \in Seq(Items)
    BY <1>9 DEF Section, Timeable
  <2> QED
    BY <1>1, <1>2, <2>1
<1>11. \A i \in 1 .. n : \E a, b \in Nat :
         Section(o, seqs[i], a, b) /\ l[i] = l[i - 1] + a /\ u[i] = u[i - 1] + b
  <2> TAKE i \in 1 .. n
  <2>1. PICK a, b : a = Iters * Share(modes[i], "lookup") /\ b = Iters * Share(modes[i], "update")
    OBVIOUS
  <2>2. a \in Nat /\ b \in Nat
    BY <2>1, ScriptAssumption DEF Share
  <2>3. Section(o, seqs[i], a, b)
    BY <1>9, <1>10, <2>1
  <2>4. i \in 0 .. n /\ i - 1 \in 0 .. n
    BY <1>2
  <2>5. l[i] = l[i - 1] + a /\ u[i] = u[i - 1] + b
    BY <1>5, <1>7, <2>1, <2>4
  <2> QED
    BY <2>2, <2>3, <2>5
<1>12. Section(o, FlattenSeq(seqs), l[n], u[n])
  BY <1>7, <1>8, <1>10, <1>11, SectionsAdd
<1>13. n \in 0 .. n
  BY <1>2
<1> QED
  BY <1>1, <1>7, <1>12, <1>13 DEF ProfileScript, c

\* The pairs of one of the first n patterns with one of its sizes.
Cases(o, n) == UNION {{p} \X DOMAIN Sizes(o.patterns[p]) : p \in 1 .. n}

LEMMA SizesIn == \A pattern : Sizes(pattern) \in Seq(Nat) /\ Len(Sizes(pattern)) \in Nat
BY ScriptAssumption DEF Sizes

LEMMA CasesNext ==
  ASSUME NEW o, NEW n \in Nat, IsFiniteSet(Cases(o, n))
  PROVE  /\ IsFiniteSet(Cases(o, n + 1))
         /\ Cardinality(Cases(o, n)) \in Nat
         /\ Cardinality(Cases(o, n + 1)) =
              Cardinality(Cases(o, n)) + Len(Sizes(o.patterns[n + 1]))
<1>1. PICK m, S, T : /\ m \in Nat /\ m = Len(Sizes(o.patterns[n + 1])) /\ S = Cases(o, n)
                     /\ T = {n + 1} \X (1 .. m)
  BY SizesIn
<1>2. DOMAIN Sizes(o.patterns[n + 1]) = 1 .. m
  BY <1>1, SizesIn
<1>3. Cases(o, n + 1) = S \cup T
  <2>1. 1 .. n + 1 = (1 .. n) \cup {n + 1}
    OBVIOUS
  <2> QED
    BY <1>1, <1>2, <2>1 DEF Cases
<1>4. S \cap T = {}
  <2>1. \A x \in S : x[1] \in 1 .. n
    BY <1>1 DEF Cases
  <2>2. \A x \in T : x[1] = n + 1
    BY <1>1
  <2> QED
    BY <2>1, <2>2
<1>5. IsFiniteSet(T) /\ Cardinality(T) = m
  <2>1. IsFiniteSet({n + 1}) /\ Cardinality({n + 1}) = 1
    BY FS_Singleton
  <2>2. IsFiniteSet(1 .. m) /\ Cardinality(1 .. m) = m
    <3>1. m \in Int /\ 1 \in Int /\ m \in Nat
      BY <1>1
    <3>2. IsFiniteSet(1 .. m) /\ Cardinality(1 .. m) = IF 1 > m THEN 0 ELSE m - 1 + 1
      BY <3>1, FS_Interval
    <3> QED
      BY ONLY <3>1, <3>2
  <2>3. IsFiniteSet({n + 1} \X (1 .. m))
        /\ Cardinality({n + 1} \X (1 .. m)) = Cardinality({n + 1}) * Cardinality(1 .. m)
    BY <2>1, <2>2, FS_Product
  <2> QED
    BY <1>1, <2>1, <2>2, <2>3
<1>6. IsFiniteSet(S) /\ Cardinality(S) \in Nat
  BY <1>1, FS_CardinalityType
<1>7. IsFiniteSet(S \cup T) /\ Cardinality(S \cup T) = Cardinality(S) + Cardinality(T) - 0
  <2>1. /\ IsFiniteSet(S \cup T)
        /\ Cardinality(S \cup T) = Cardinality(S) + Cardinality(T) - Cardinality(S \cap T)
    BY ONLY <1>5, <1>6, FS_Union
  <2> QED
    BY <1>4, <2>1, FS_EmptySet
<1>8. Cardinality(S \cup T) = Cardinality(S) + m
  <2>1. PICK a, b \in Nat : a = Cardinality(S) /\ b = Cardinality(T)
    BY <1>1, <1>5, <1>6
  <2> QED
    BY ONLY <1>5, <1>7, <2>1
<1> QED
  BY ONLY <1>1, <1>3, <1>6, <1>7, <1>8

LEMMA CasesFinite ==
  ASSUME NEW o
  PROVE  \A n \in Nat : IsFiniteSet(Cases(o, n))
<1> DEFINE S == {n \in Nat : ~ IsFiniteSet(Cases(o, n))}
<1>1. 0 \notin S
  <2>1. Cases(o, 0) = {}
    BY DEF Cases
  <2> QED
    BY <2>1, FS_EmptySet
<1>2. ASSUME S # {} PROVE FALSE
  <2>1. S \in SUBSET Nat
    OBVIOUS
  <2>2. PICK n \in S : \A m \in S : n <= m
    <3> HIDE DEF S
    <3> QED
      BY <1>2, <2>1, Least
  <2>3. n \in Nat \ {0}
    BY <1>1
  <2>4. n - 1 \in Nat /\ (n - 1) + 1 = n /\ ~ n <= n - 1
    BY <2>3
  <2>5. IsFiniteSet(Cases(o, n - 1))
    BY <2>2, <2>4
  <2>6. IsFiniteSet(Cases(o, (n - 1) + 1))
    BY <2>4, <2>5, CasesNext
  <2> QED
    BY <2>4, <2>6
<1> QED
  BY <1>2

\* The sizes of one pattern, one after the other.
PatternScript(o, pattern) ==
  FlattenSeq([s \in DOMAIN Sizes(pattern) |-> BenchPattern(o, pattern, Sizes(pattern)[s])])

LEMMA PatternSection ==
  ASSUME NEW o, NEW pattern \in STRING, NEW n, n = Len(Sizes(pattern))
  PROVE  Section(o, PatternScript(o, pattern), Iters * n, 0)
<1>1. PICK sizes, seqs : /\ sizes = Sizes(pattern)
                         /\ seqs = [s \in DOMAIN sizes |-> BenchPattern(o, pattern, sizes[s])]
  OBVIOUS
<1>a. sizes \in Seq(Nat) /\ n = Len(sizes)
  BY <1>1, SizesIn
<1>2. n \in Nat /\ DOMAIN sizes = 1 .. n /\ \A s \in 1 .. n : sizes[s] \in Nat
  BY ONLY <1>a
<1>3. \A s \in 1 .. n : Section(o, BenchPattern(o, pattern, sizes[s]), Iters, 0)
  BY <1>2, BenchPatternSection
<1>4. seqs \in Seq(Seq(Items)) /\ Len(seqs) = n
      /\ \A s \in 1 .. n : seqs[s] = BenchPattern(o, pattern, sizes[s])
  <2>1. \A s \in 1 .. n : BenchPattern(o, pattern, sizes[s]) \in Seq(Items)
    BY <1>3 DEF Section, Timeable
  <2>2. seqs = [s \in 1 .. n |-> BenchPattern(o, pattern, sizes[s])]
    BY <1>1, <1>2
  <2>3. n \in Nat
    BY <1>2
  <2>4. DOMAIN seqs = 1 .. n /\ \A s \in 1 .. n : seqs[s] = BenchPattern(o, pattern, sizes[s])
    BY ONLY <2>2
  <2>5. seqs \in [1 .. n -> Seq(Items)]
    BY ONLY <2>1, <2>2
  <2>6. seqs \in Seq(Seq(Items)) /\ Len(seqs) = n
    BY ONLY <2>3, <2>5
  <2> QED
    BY ONLY <2>4, <2>6
<1>5. PICK l, u : l = [s \in 0 .. n |-> Iters * s] /\ u = [s \in 0 .. n |-> 0]
  OBVIOUS
<1>6. /\ l \in [0 .. n -> Nat] /\ u \in [0 .. n -> Nat]
      /\ \A s \in 0 .. n : l[s] = Iters * s /\ u[s] = 0
  BY <1>2, <1>5, ScriptAssumption
<1>7. l[0] = 0 /\ u[0] = 0 /\ n \in 0 .. n
  BY <1>2, <1>6, ScriptAssumption
<1>8. \A s \in 1 .. n : \E a, b \in Nat :
        Section(o, seqs[s], a, b) /\ l[s] = l[s - 1] + a /\ u[s] = u[s - 1] + b
  <2> TAKE s \in 1 .. n
  <2>1. s \in 0 .. n /\ s - 1 \in 0 .. n /\ Iters \in Nat
    BY <1>2, ScriptAssumption
  <2>2. Iters * s = Iters * (s - 1) + Iters
    <3>1. PICK q \in Nat : q = s - 1 /\ s = q + 1
      BY <1>2
    <3>2. Iters * (q + 1) = Iters * q + Iters * 1 /\ Iters * 1 = Iters
      BY <2>1, Distribute
    <3> QED
      BY <3>1, <3>2
  <2>3. l[s] = l[s - 1] + Iters /\ u[s] = u[s - 1] + 0
    <3>1. l[s] = Iters * s /\ l[s - 1] = Iters * (s - 1) /\ u[s] = 0 /\ u[s - 1] = 0
      BY <1>6, <2>1
    <3> QED
      BY ONLY <2>2, <3>1
  <2>4. Section(o, seqs[s], Iters, 0)
    BY <1>3, <1>4
  <2>5. 0 \in Nat
    OBVIOUS
  <2> QED
    BY <2>1, <2>3, <2>4, <2>5
<1>9. Section(o, FlattenSeq(seqs), l[n], u[n])
  BY ONLY <1>4, <1>6, <1>7, <1>8, SectionsAdd
<1> QED
  BY <1>1, <1>6, <1>7, <1>9 DEF PatternScript

LEMMA MemoryScriptSection ==
  ASSUME NEW o, o.patterns \in Seq(STRING), NEW n, n = Len(o.patterns)
  PROVE  Section(o, MemoryScript(o), Iters * Cardinality(Cases(o, n)), 0)
<1>1. PICK patterns, seqs, f :
        /\ patterns = o.patterns
        /\ seqs = [p \in DOMAIN patterns |-> PatternScript(o, patterns[p])]
        /\ f = <<Tables, Instr("patterns", ToSet(patterns))>>
  OBVIOUS
<1>2. n \in Nat /\ DOMAIN patterns = 1 .. n /\ \A p \in 1 .. n : patterns[p] \in STRING
  BY <1>1
<1>3. \A p \in 1 .. n :
        Section(o, PatternScript(o, patterns[p]), Iters * Len(Sizes(patterns[p])), 0)
  BY <1>2, PatternSection
<1>4. seqs \in Seq(Seq(Items)) /\ Len(seqs) = n
      /\ \A p \in 1 .. n : seqs[p] = PatternScript(o, patterns[p])
  <2>1. \A p \in 1 .. n : PatternScript(o, patterns[p]) \in Seq(Items)
    BY <1>3 DEF Section, Timeable
  <2> QED
    BY <1>1, <1>2, <2>1
<1>5. PICK l, u : /\ l = [p \in 0 .. n |-> Iters * Cardinality(Cases(o, p))]
                  /\ u = [p \in 0 .. n |-> 0]
  OBVIOUS
<1>6. \A p \in 0 .. n : Cardinality(Cases(o, p)) \in Nat
  <2>1. \A p \in Nat : IsFiniteSet(Cases(o, p))
    BY CasesFinite
  <2> QED
    BY <1>2, <2>1, FS_CardinalityType
<1>7. /\ l \in [0 .. n -> Nat] /\ u \in [0 .. n -> Nat]
      /\ \A p \in 0 .. n : l[p] = Iters * Cardinality(Cases(o, p)) /\ u[p] = 0
  BY <1>2, <1>5, <1>6, ScriptAssumption
<1>8. l[0] = 0 /\ u[0] = 0 /\ n \in 0 .. n
  <2>1. Cases(o, 0) = {}
    BY DEF Cases
  <2>2. 0 \in 0 .. n /\ n \in 0 .. n
    BY <1>2
  <2>3. Iters * Cardinality(Cases(o, 0)) = 0
    <3>1. Cardinality(Cases(o, 0)) = 0
      BY ONLY <2>1, FS_EmptySet
    <3>2. Iters * 0 = 0
      BY ScriptAssumption
    <3> QED
      BY ONLY <3>1, <3>2
  <2> QED
    BY <1>7, <2>2, <2>3
<1>9. \A p \in 1 .. n : \E a, b \in Nat :
        Section(o, seqs[p], a, b) /\ l[p] = l[p - 1] + a /\ u[p] = u[p - 1] + b
  <2> TAKE p \in 1 .. n
  <2>1. PICK m \in Nat, q \in Nat : m = Len(Sizes(patterns[p])) /\ q = p - 1
    BY <1>2, SizesIn
  <2>2. p \in 0 .. n /\ q \in 0 .. n /\ p = q + 1 /\ Iters \in Nat
    BY <1>2, <2>1, ScriptAssumption
  <2>3. Cardinality(Cases(o, p)) = Cardinality(Cases(o, q)) + m /\ Cardinality(Cases(o, q)) \in Nat
    <3>1. IsFiniteSet(Cases(o, q))
      BY CasesFinite
    <3>2. /\ Cardinality(Cases(o, q)) \in Nat
          /\ Cardinality(Cases(o, q + 1)) =
               Cardinality(Cases(o, q)) + Len(Sizes(o.patterns[q + 1]))
      BY <3>1, CasesNext
    <3> QED
      BY <1>1, <2>1, <2>2, <3>2
  <2>4. PICK x \in Nat : x = Cardinality(Cases(o, q)) /\ Cardinality(Cases(o, p)) = x + m
    BY <2>3
  <2>5. Iters * Cardinality(Cases(o, p)) = Iters * Cardinality(Cases(o, q)) + Iters * m
        /\ Iters * m \in Nat
    BY ONLY <2>2, <2>4, Distribute
  <2>6. l[p] = l[p - 1] + Iters * m /\ u[p] = u[p - 1] + 0
    BY <1>7, <2>1, <2>2, <2>5
  <2>7. Section(o, seqs[p], Iters * m, 0)
    BY <1>3, <1>4, <2>1
  <2>8. 0 \in Nat
    OBVIOUS
  <2> QED
    BY <2>5, <2>6, <2>7, <2>8
<1>10. Section(o, FlattenSeq(seqs), l[n], u[n])
  BY ONLY <1>4, <1>7, <1>8, <1>9, SectionsAdd
<1>11. Section(o, f, 0, 0)
  <2>1. ToSet(patterns) \in SUBSET STRING
    BY <1>2 DEF ToSet
  <2>2. Instr("patterns", ToSet(patterns)).do = "patterns"
        /\ Instr("patterns", ToSet(patterns)) \in Items
    BY <2>1 DEF Instr, Items, Calls
  <2>3. Tables.do = "tables" /\ Tables \in Items
    BY ItemFields DEF Items
  <2> QED
    BY <1>1, <2>2, <2>3, PairSection
<1>12. l[n] \in Nat /\ u[n] \in Nat
  BY <1>7, <1>8
<1>13. Section(o, f \o FlattenSeq(seqs), 0 + l[n], 0 + u[n])
  BY <1>10, <1>11, <1>12, SectionConcat
<1>14. 0 + l[n] = Iters * Cardinality(Cases(o, n)) /\ 0 + u[n] = 0
  BY <1>7, <1>8, <1>12
<1>15. MemoryScript(o) = f \o FlattenSeq(seqs)
  BY <1>1 DEF MemoryScript, PatternScript
<1> QED
  BY <1>13, <1>14, <1>15

\* The device times in a script what the script divides by.
LEMMA ScriptSection ==
  ASSUME opt \in Commands, opt.tool # "test"
  PROVE  Section(opt, Script, ModesRun("lookup") * Iters, ModesRun("update") * Iters)
<1>1. Iters \in Nat
  BY ScriptAssumption
<1>2. CASE opt.tool = "bench"
  <2>1. opt.mode \in {"lookup", "update", "both"}
    BY <1>2, CommandAssumption
  <2>2. Section(opt, BenchScript(opt), Iters * Share(opt.mode, "lookup"),
                Iters * Share(opt.mode, "update"))
    BY <1>2, <2>1, BenchScriptSection
  <2>3. Script = BenchScript(opt)
    BY <1>2 DEF Script
  <2>4. /\ ModesRun("lookup") * Iters = Iters * Share(opt.mode, "lookup")
        /\ ModesRun("update") * Iters = Iters * Share(opt.mode, "update")
    BY <1>1, <1>2 DEF ModesRun, Share
  <2> QED
    BY <2>2, <2>3, <2>4
<1>3. CASE opt.tool = "profile"
  <2>1. PICK n : n = Len(opt.modes)
    OBVIOUS
  <2>2. opt.modes \in Seq({"lookup", "update"})
    BY <1>3, CommandAssumption
  <2>3. Section(opt, ProfileScript(opt), Iters * Cardinality(ModesOf(opt.modes, "lookup", n)),
                Iters * Cardinality(ModesOf(opt.modes, "update", n)))
    BY <2>1, <2>2, ProfileScriptSection
  <2>4. Script = ProfileScript(opt)
    BY <1>3 DEF Script
  <2>5. ASSUME NEW kind
        PROVE  ModesRun(kind) * Iters = Iters * Cardinality(ModesOf(opt.modes, kind, n))
    <3>1. DOMAIN opt.modes = 1 .. n /\ n \in Nat
      BY <2>1, <2>2
    <3>2. ModesRun(kind) = Cardinality(ModesOf(opt.modes, kind, n))
      BY <1>3, <3>1 DEF ModesRun, ModesOf
    <3>3. n + 1 \in Nat \ {0} /\ (n + 1) - 1 = n
      BY <3>1
    <3>4. Cardinality(ModesOf(opt.modes, kind, (n + 1) - 1)) \in Nat
      BY <3>3, ModesOfNext
    <3> QED
      BY <1>1, <3>2, <3>3, <3>4
  <2> QED
    BY <2>3, <2>4, <2>5
<1>4. CASE opt.tool = "memory"
  <2>1. PICK n : n = Len(opt.patterns)
    OBVIOUS
  <2>2. opt.patterns \in Seq(STRING)
    BY <1>4, CommandAssumption
  <2>3. Section(opt, MemoryScript(opt), Iters * Cardinality(Cases(opt, n)), 0)
    BY <2>1, <2>2, MemoryScriptSection
  <2>4. Script = MemoryScript(opt)
    BY <1>4 DEF Script
  <2>5. DOMAIN opt.patterns = 1 .. n /\ n \in Nat
    BY <2>1, <2>2
  <2>6. ModesRun("lookup") = Cardinality(Cases(opt, n)) /\ ModesRun("update") = 0
    BY <1>4, <2>5 DEF ModesRun, Cases
  <2>7. Cardinality(Cases(opt, n)) \in Nat
    <3>1. IsFiniteSet(Cases(opt, n))
      BY <2>5, CasesFinite
    <3> QED
      BY <3>1, FS_CardinalityType
  <2>8. ModesRun("lookup") * Iters = Iters * Cardinality(Cases(opt, n))
        /\ ModesRun("update") * Iters = 0
    BY <1>1, <2>6, <2>7
  <2> QED
    BY <2>3, <2>4, <2>8
<1> QED
  BY <1>2, <1>3, <1>4, CommandAssumption

-----------------------------------------------------------------------------
(* The walk visits no position twice.                                       *)

\* What is coprime to n can be taken out of a multiple of n.
LEMMA CoprimeCancels ==
  ASSUME NEW n \in Nat \ {0}, NEW a \in Nat \ {0}, Coprime(a, n),
         NEW x \in Nat \ {0}, NEW k \in Nat, a * x = k * n
  PROVE  n <= x
<1> DEFINE D == {y \in Nat \ {0} : \E c \in Nat : a * y = c * n}
<1> SUFFICES ASSUME x < n PROVE FALSE
  OBVIOUS
<1>1. D \in SUBSET Nat /\ x \in D
  OBVIOUS
<1>2. PICK m \in D : \A y \in D : m <= y
  <2> HIDE DEF D
  <2> QED
    BY <1>1, Least
<1>3. m \in Nat \ {0} /\ m < n
  <2>1. m \in Nat \ {0}
    BY <1>2
  <2>2. m <= x
    BY <1>1, <1>2
  <2> QED
    BY ONLY <2>1, <2>2, x < n, x \in Nat, n \in Nat
<1>4. PICK c \in Nat : a * m = c * n
  BY <1>2
<1> DEFINE q == n \div m
           r == n % m
<1>5. q \in Nat /\ r \in 0 .. m - 1 /\ n = q * m + r
  BY <1>3, Quotient
<1> HIDE DEF q, r
<1>6. q * m \in Nat /\ q * c \in Nat /\ a * (q * m) = (q * c) * n
  <2>1. a * (q * m) = q * (a * m)
    BY <1>3, <1>5
  <2>2. q * (c * n) = (q * c) * n
    BY <1>4, <1>5
  <2> QED
    BY <1>3, <1>4, <1>5, <2>1, <2>2
<1>7. r = 0
  <2> SUFFICES ASSUME r # 0 PROVE FALSE
    OBVIOUS
  <2> DEFINE e == q * c
             p == q * m
  <2>1. a * r = a * n - a * p
    <3>1. p \in Nat /\ r = n - p /\ n \in Nat
      BY <1>5, <1>6
    <3> HIDE DEF p
    <3> QED
      BY <3>1
  <2>2. a * r = (a - e) * n
    <3>1. e \in Nat /\ a * p = e * n
      BY <1>6
    <3> HIDE DEF e, p
    <3> QED
      BY <2>1, <3>1
  <2>3. e \in Nat /\ a * r > 0
    BY <1>5, <1>6
  <2> HIDE DEF e, p
  <2>4. a - e \in Nat
    <3>1. CASE a - e < 0
      <4>1. (a - e) * n <= 0
        BY <2>3, <3>1
      <4> QED
        BY <2>2, <2>3, <4>1
    <3> QED
      BY <2>3, <3>1
  <2>5. r \in D
    BY <1>5, <2>2, <2>4
  <2> QED
    BY <1>2, <1>5, <2>5
<1>8. n = q * m /\ q # 0 /\ q # 1
  BY <1>3, <1>5, <1>7
<1>9. a = c * q
  <2>1. a * m = (c * q) * m
    <3>1. c * (q * m) = (c * q) * m
      BY <1>3, <1>4, <1>5
    <3> QED
      BY <1>4, <1>8, <3>1
  <2>2. c * q \in Nat
    BY <1>4, <1>5
  <2> QED
    BY <1>3, <2>1, <2>2
<1>10. c # 0
  BY <1>5, <1>9
<1>11. q \in 2 .. a
  <2>1. q <= c * q
    BY <1>4, <1>5, <1>10
  <2> QED
    BY <1>5, <1>8, <1>9, <2>1
<1>12. a % q = 0 /\ n % q = 0
  <2>1. q \in Nat \ {0} /\ 0 \in 0 .. q - 1
    BY <1>5, <1>8
  <2>2. (c * q + 0) % q = 0
    BY ONLY <2>1, <1>4, DivMod
  <2>3. (m * q + 0) % q = 0
    BY ONLY <2>1, <1>3, DivMod
  <2>4. a = c * q + 0 /\ n = m * q + 0
    BY <1>3, <1>4, <1>5, <1>8, <1>9
  <2> QED
    BY <2>2, <2>3, <2>4
<1> QED
  BY <1>11, <1>12 DEF Coprime, Divides

LEMMA PositionsDiffer ==
  ASSUME WalksIn, NEW r \in Reqs, NEW n \in Nat \ {0},
         NEW s \in 0 .. n - 1, NEW t \in 0 .. n - 1, Position(r, s, n) = Position(r, t, n),
         s < t
  PROVE  FALSE
<1> DEFINE a == PickCoprimeA(walks[r].a, n)
           b == walks[r].b
<1>1. walks[r].a \in Nat /\ b \in Nat
  BY DEF WalksIn
<1>2. a \in Nat \ {0} /\ Coprime(a, n)
  <2>1. n > 1
    OBVIOUS
  <2>2. a \in 1 .. n - 1 /\ Coprime(a, n)
    BY <1>1, <2>1, StrideIs
  <2> HIDE DEF a
  <2> QED
    BY <2>2
<1>3. (a * s + b) % n = (a * t + b) % n
  BY DEF Position
<1> HIDE DEF a, b
<1> DEFINE u == a * s + b
           v == a * t + b
           p == u \div n
           q == v \div n
           e == u % n
<1>4. u \in Nat /\ v \in Nat /\ a * s \in Nat /\ a * t \in Nat
  BY <1>1, <1>2
<1>5. u = p * n + e /\ v = q * n + e /\ p \in Nat /\ q \in Nat /\ e \in 0 .. n - 1
  <2>1. u = (u \div n) * n + (u % n) /\ u \div n \in Nat /\ u % n \in 0 .. n - 1
    BY ONLY <1>4, Quotient, n \in Nat \ {0}
  <2>2. v = (v \div n) * n + (v % n) /\ v \div n \in Nat
    BY ONLY <1>4, Quotient, n \in Nat \ {0}
  <2> QED
    BY <1>3, <2>1, <2>2
<1>6. v - u = a * (t - s)
  BY <1>1, <1>2, <1>4
<1>7. a * (t - s) > 0
  BY <1>2
<1> HIDE DEF p, q, e, u, v
<1>8. v - u = (q - p) * n
  BY <1>5
<1>9. q - p \in Nat
  <2>1. CASE q - p < 0
    <3>1. (q - p) * n <= 0
      BY <1>5, <2>1
    <3>2. v - u > 0 /\ v - u <= 0
      BY ONLY <1>6, <1>7, <1>8, <3>1
    <3> QED
      BY <1>4, <3>2
  <2> QED
    BY <1>5, <2>1
<1>10. t - s \in Nat \ {0}
  OBVIOUS
<1>11. a * (t - s) = (q - p) * n
  BY <1>6, <1>8
<1> DEFINE x == t - s
           k == q - p
<1> HIDE DEF x, k
<1>12. n <= x
  BY <1>2, <1>9, <1>10, <1>11, CoprimeCancels DEF x, k
<1> QED
  BY <1>12 DEF x

-----------------------------------------------------------------------------
(* What the kernels do while the device is timed.                           *)

\* The entries whose tile a core has left behind.
Begun(n, blocks) ==
  {e \in Reqs \X (0 .. n - 1) : TileOf(n, e[1], e[2]) < at[TileOf(n, e[1], e[2]) % blocks]}

LookupCounts(n, blocks) ==
  /\ n \in Nat \ {0} /\ blocks \in 1 .. MaxBlocks
  /\ job = LookupJob(n, blocks)
  /\ Striding(blocks)

LEMMA ReqsFinite ==
  ASSUME NEW n \in Nat
  PROVE  /\ IsFiniteSet(Reqs \X (0 .. n - 1))
         /\ Cardinality(Reqs \X (0 .. n - 1)) = ReqNum * n
<1>1. IsFiniteSet(0 .. ReqNum - 1) /\ Cardinality(0 .. ReqNum - 1) = ReqNum
  <2>1. 0 \in Int /\ ReqNum - 1 \in Int /\ ~ 0 > ReqNum - 1 /\ ReqNum - 1 - 0 + 1 = ReqNum
    OBVIOUS
  <2> QED
    BY <2>1, FS_Interval
<1>2. IsFiniteSet(0 .. n - 1) /\ Cardinality(0 .. n - 1) = n
  <2>1. 0 \in Int /\ n - 1 \in Int /\ (0 > n - 1 => n = 0) /\ n - 1 - 0 + 1 = n
    OBVIOUS
  <2>2. IsFiniteSet(0 .. n - 1)
        /\ Cardinality(0 .. n - 1) = IF 0 > n - 1 THEN 0 ELSE n - 1 - 0 + 1
    BY ONLY <2>1, FS_Interval
  <2> QED
    BY <2>1, <2>2
<1>3. PICK R, K : R = 0 .. ReqNum - 1 /\ K = 0 .. n - 1
  OBVIOUS
<1>4. IsFiniteSet(R) /\ Cardinality(R) = ReqNum /\ IsFiniteSet(K) /\ Cardinality(K) = n
  BY <1>1, <1>2, <1>3
<1>5. IsFiniteSet(R \X K) /\ Cardinality(R \X K) = Cardinality(R) * Cardinality(K)
  BY ONLY <1>4, FS_Product
<1> QED
  BY <1>3, <1>4, <1>5 DEF Reqs

LEMMA BegunFinite ==
  ASSUME NEW n \in Nat, NEW blocks
  PROVE  IsFiniteSet(Begun(n, blocks)) /\ Cardinality(Begun(n, blocks)) \in Nat
<1>1. Begun(n, blocks) \in SUBSET (Reqs \X (0 .. n - 1))
  BY DEF Begun
<1>2. IsFiniteSet(Begun(n, blocks))
  BY <1>1, ReqsFinite, FS_Subset
<1> QED
  BY <1>2, FS_CardinalityType

LEMMA LookupCountsStart ==
  ASSUME NEW n \in Nat \ {0}, NEW dim \in Int, LaunchLookup(n, dim)
  PROVE  \E blocks \in 1 .. MaxBlocks :
           LookupCounts(n, blocks)' /\ Cardinality(Begun(n, blocks)') = 0
<1> DEFINE blocks == ClampBlockDim(dim)
<1>1. blocks \in 1 .. MaxBlocks
  BY BlocksIn
<1> HIDE DEF blocks
<1>2. job' = LookupJob(n, blocks) /\ at' = [c \in Cores |-> c]
  BY DEF LaunchLookup, Launched, LookupJob, blocks, TilesOf
<1>3. Striding(blocks)' /\ \A c \in Cores : at'[c] = c
  BY <1>1, <1>2, AtStart
<1>4. Begun(n, blocks)' = {}
  <2> SUFFICES ASSUME NEW e \in Reqs \X (0 .. n - 1),
                      TileOf(n, e[1], e[2]) < at'[TileOf(n, e[1], e[2]) % blocks]
               PROVE FALSE
    BY DEF Begun
  <2> DEFINE t == TileOf(n, e[1], e[2])
  <2>1. t \in Nat
    <3>1. e[1] \in Reqs /\ e[2] \in 0 .. n - 1
      OBVIOUS
    <3>2. t \in 0 .. ReqNum * TilesOf(n) - 1
      BY <3>1, TileInRange
    <3> HIDE DEF t
    <3> QED
      BY <3>2
  <2> HIDE DEF t
  <2>2. t % blocks \in Cores /\ t % blocks <= t /\ t % blocks \in 0 .. blocks - 1
    BY <1>1, <2>1, CoreOf
  <2>3. t < t % blocks
    BY <1>3, <2>2 DEF t
  <2> QED
    BY <2>1, <2>2, <2>3, <1>1
<1> QED
  BY <1>1, <1>2, <1>3, <1>4, FS_EmptySet DEF LookupCounts

\* The entries of a tile.
LEMMA TileEntries ==
  ASSUME NEW n \in Nat \ {0}, NEW k \in 0 .. ReqNum * TilesOf(n) - 1
  PROVE  LET b == (k % TilesOf(n)) * QueryTile
             v == Min({QueryTile, n - b})
             E == {e \in Reqs \X (0 .. n - 1) : TileOf(n, e[1], e[2]) = k}
         IN v \in Nat /\ IsFiniteSet(E) /\ Cardinality(E) = v
<1> DEFINE T == TilesOf(n)
           b == (k % T) * QueryTile
           r == k \div T
           v == Min({QueryTile, n - b})
           E == {e \in Reqs \X (0 .. n - 1) : TileOf(n, e[1], e[2]) = k}
<1>1. r \in Reqs /\ b \in Nat /\ b < n
  BY TileRequest
<1>2. v = IF QueryTile <= n - b THEN QueryTile ELSE n - b
  <2>1. QueryTile \in Int /\ n - b \in Int
    BY <1>1
  <2> HIDE DEF b
  <2> QED
    BY <2>1, MinMaxPair
<1>3. ASSUME NEW e \in Reqs \X (0 .. n - 1), TileOf(n, e[1], e[2]) = k
      PROVE  e[1] = r /\ e[2] - b \in 0 .. QueryTile - 1
  <2>1. e[1] \in Reqs /\ e[2] \in 0 .. n - 1
    OBVIOUS
  <2>2. /\ k \div T = e[1] /\ k % T = e[2] \div QueryTile
        /\ e[2] - (e[2] \div QueryTile) * QueryTile \in 0 .. QueryTile - 1
    <3>1. PICK s \in Reqs, i \in 0 .. n - 1 : s = e[1] /\ i = e[2]
      BY <2>1
    <3>2. /\ TileOf(n, s, i) \div TilesOf(n) = s
          /\ TileOf(n, s, i) % TilesOf(n) = i \div QueryTile
          /\ i - (i \div QueryTile) * QueryTile \in 0 .. QueryTile - 1
      BY TileInRange
    <3>3. TileOf(n, s, i) = k
      BY <1>3, <3>1
    <3> QED
      BY <3>1, <3>2, <3>3
  <2> QED
    BY <2>2
<1>4. ASSUME NEW i \in 0 .. n - 1, i - b \in 0 .. QueryTile - 1
      PROVE  TileOf(n, r, i) = k
  BY <1>4, EntriesOfTile
<1> HIDE DEF T, b, r, v
<1>5. v \in Nat \ {0} /\ v <= QueryTile /\ b + v <= n
      /\ \A i \in 0 .. n - 1 : i - b \in 0 .. QueryTile - 1 => i \in b .. b + v - 1
  BY <1>1, <1>2
<1>6. E = {r} \X (b .. b + v - 1)
  <2>1. ASSUME NEW e \in E PROVE e \in {r} \X (b .. b + v - 1)
    <3>1. e \in Reqs \X (0 .. n - 1) /\ e[1] = r /\ e[2] - b \in 0 .. QueryTile - 1
          /\ e[2] \in 0 .. n - 1
      BY <1>3
    <3>2. e[2] \in b .. b + v - 1 /\ e = <<e[1], e[2]>>
      BY <1>5, <3>1
    <3> QED
      BY <3>1, <3>2
  <2>2. ASSUME NEW i \in b .. b + v - 1 PROVE <<r, i>> \in E
    <3>1. i \in 0 .. n - 1 /\ i - b \in 0 .. QueryTile - 1
      BY <1>1, <1>5
    <3> QED
      BY <1>1, <1>4, <3>1
  <2> HIDE DEF E
  <2>3. \A e \in {r} \X (b .. b + v - 1) : e \in E
    BY <2>2
  <2> QED
    BY <2>1, <2>3
<1>7. IsFiniteSet({r}) /\ Cardinality({r}) = 1
  BY FS_Singleton
<1>8. IsFiniteSet(b .. b + v - 1) /\ Cardinality(b .. b + v - 1) = v
  <2> DEFINE last == b + v - 1
  <2>1. b \in Int /\ last \in Int /\ ~ b > last /\ last - b + 1 = v
    BY <1>1, <1>5
  <2> HIDE DEF last
  <2>2. IsFiniteSet(b .. last) /\ Cardinality(b .. last) = v
    BY <2>1, FS_Interval
  <2> QED
    BY <2>2 DEF last
<1> HIDE DEF E
<1>9. IsFiniteSet(E) /\ Cardinality(E) = 1 * v
  <2>1. PICK R, K : R = {r} /\ K = b .. b + v - 1
    OBVIOUS
  <2>2. IsFiniteSet(R) /\ Cardinality(R) = 1 /\ IsFiniteSet(K) /\ Cardinality(K) = v
    BY ONLY <1>7, <1>8, <2>1
  <2>3. IsFiniteSet(R \X K) /\ Cardinality(R \X K) = Cardinality(R) * Cardinality(K)
    BY ONLY <2>2, FS_Product
  <2> QED
    BY ONLY <1>6, <2>1, <2>2, <2>3
<1>10. v \in Nat /\ IsFiniteSet(E) /\ Cardinality(E) = v
  BY <1>5, <1>9
<1> QED
  BY <1>10 DEF v, b, T, E

LEMMA LookupCountsTile ==
  ASSUME NEW n, NEW blocks, LookupCounts(n, blocks), NEW c \in Cores, FullTile(c) \/ TailTile(c)
  PROVE  /\ LookupCounts(n, blocks)' /\ Valid(c) \in Nat
         /\ Cardinality(Begun(n, blocks)') = Cardinality(Begun(n, blocks)) + Valid(c)
<1> DEFINE k == at[c]
           Of(e) == TileOf(n, e[1], e[2])
           All == Reqs \X (0 .. n - 1)
           E == {e \in All : Of(e) = k}
<1>1. /\ n \in Nat \ {0} /\ blocks \in 1 .. MaxBlocks /\ at \in [Cores -> Nat]
      /\ job = LookupJob(n, blocks) /\ job.n = n /\ job.blocks = blocks
      /\ job.items = ReqNum * TilesOf(n)
  BY DEF LookupCounts, LookupJob, Striding
<1>2. /\ c < blocks /\ k < ReqNum * TilesOf(n) /\ at' = [at EXCEPT ![c] = k + blocks]
      /\ job' = job
  BY <1>1 DEF FullTile, TailTile, StartCopy, Running
<1>3. /\ c \in 0 .. blocks - 1 /\ k \in Nat /\ k % blocks = c
  BY <1>1, <1>2 DEF LookupCounts, Striding, Cores
<1>4. k \in 0 .. ReqNum * TilesOf(n) - 1
  <2>1. TilesOf(n) \in Nat
    BY <1>1, TileCount
  <2>2. ReqNum * TilesOf(n) \in Nat
    BY <2>1
  <2> HIDE DEF k
  <2> QED
    BY <1>2, <1>3, <2>2
<1>5. Valid(c) \in Nat /\ IsFiniteSet(E) /\ Cardinality(E) = Valid(c)
  <2>1. Valid(c) = Min({QueryTile, n - (k % TilesOf(n)) * QueryTile})
    BY <1>1 DEF Valid, BaseOf, TilesOf
  <2> QED
    BY <1>1, <1>4, <2>1, TileEntries
<1> HIDE DEF k
<1>6. /\ at' \in [Cores -> Nat] /\ at'[c] = k + blocks
      /\ \A d \in Cores \ {c} : at'[d] = at[d]
  BY <1>1, <1>2, <1>3
<1>7. Striding(blocks)'
  <2>1. ASSUME NEW d \in 0 .. blocks - 1 PROVE at'[d] % blocks = d
    <3>1. at[d] % blocks = d /\ d \in Cores
      BY <1>1 DEF LookupCounts, Striding, Cores
    <3>2. (k + blocks) % blocks = k % blocks
      <4>1. blocks \in Nat \ {0}
        BY <1>1
      <4> QED
        BY ONLY <4>1, <1>3, ResidueKept
    <3> QED
      BY <1>3, <1>6, <3>1, <3>2
  <2> QED
    BY <1>6, <2>1 DEF Striding
<1>8. LookupCounts(n, blocks)'
  BY <1>1, <1>2, <1>7 DEF LookupCounts
<1>9. ASSUME NEW e \in All
      PROVE  Of(e) < at'[Of(e) % blocks] <=> Of(e) < at[Of(e) % blocks] \/ Of(e) = k
  <2> DEFINE t == Of(e)
  <2>1. t \in Nat
    <3>1. e[1] \in Reqs /\ e[2] \in 0 .. n - 1
      OBVIOUS
    <3>2. t \in 0 .. ReqNum * TilesOf(n) - 1
      BY <1>1, <3>1, TileInRange
    <3> HIDE DEF t
    <3> QED
      BY <3>2
  <2> HIDE DEF t
  <2>2. t % blocks \in Cores
    BY <1>1, <2>1, CoreOf
  <2>3. CASE t % blocks = c
    <3>1. k < t => k + blocks <= t
      <4>1. blocks \in Nat \ {0} /\ k % blocks = t % blocks
        BY <1>1, <1>3, <2>3
      <4> QED
        BY ONLY <4>1, <1>3, <2>1, NextOfResidue
    <3>2. t < k + blocks <=> t < k \/ t = k
      BY <1>1, <1>3, <2>1, <3>1
    <3>3. at[t % blocks] = k /\ at'[t % blocks] = k + blocks
      BY <1>6, <2>3 DEF k
    <3> QED
      BY <3>2, <3>3 DEF t
  <2>4. CASE t % blocks # c
    <3>1. at'[t % blocks] = at[t % blocks] /\ t # k
      BY <1>3, <1>6, <2>2, <2>4
    <3> QED
      BY <3>1 DEF t
  <2> QED
    BY <2>3, <2>4
<1>10. Begun(n, blocks)' = Begun(n, blocks) \cup E
  BY <1>9 DEF Begun
<1>11. Begun(n, blocks) \cap E = {}
  <2> SUFFICES ASSUME NEW e \in Begun(n, blocks), Of(e) = k PROVE FALSE
    OBVIOUS
  <2>1. k < at[k % blocks]
    BY DEF Begun
  <2> QED
    BY <1>3, <2>1 DEF k
<1> HIDE DEF E
<1>12. IsFiniteSet(Begun(n, blocks)) /\ Cardinality(Begun(n, blocks)) \in Nat
  BY <1>1, BegunFinite
<1>13. Cardinality(Begun(n, blocks)') =
         Cardinality(Begun(n, blocks)) + Cardinality(E) - Cardinality({})
  BY <1>5, <1>10, <1>11, <1>12, FS_Union
<1>14. Cardinality({}) = 0
  BY FS_EmptySet
<1>15. Cardinality(Begun(n, blocks)') = Cardinality(Begun(n, blocks)) + Valid(c)
  BY ONLY <1>5, <1>12, <1>13, <1>14
<1> QED
  BY <1>5, <1>8, <1>15

LEMMA LookupCountsEnd ==
  ASSUME NEW n, NEW blocks, LookupCounts(n, blocks), KernelDone
  PROVE  Cardinality(Begun(n, blocks)) = ReqNum * n
<1>1. /\ n \in Nat \ {0} /\ blocks \in 1 .. MaxBlocks /\ at \in [Cores -> Nat]
      /\ job.blocks = blocks /\ job.items = ReqNum * TilesOf(n) /\ job.do = "lookup"
  BY DEF LookupCounts, LookupJob, Striding
<1>2. ASSUME NEW e \in Reqs \X (0 .. n - 1) PROVE e \in Begun(n, blocks)
  <2> DEFINE t == TileOf(n, e[1], e[2])
  <2>1. t \in Nat /\ t < ReqNum * TilesOf(n) /\ ReqNum * TilesOf(n) \in Nat
    <3>1. e[1] \in Reqs /\ e[2] \in 0 .. n - 1
      OBVIOUS
    <3>2. t \in 0 .. ReqNum * TilesOf(n) - 1
      BY <1>1, <3>1, TileInRange
    <3>3. ReqNum * TilesOf(n) \in Nat
      <4>1. TilesOf(n) \in Nat
        BY <1>1, TileCount
      <4> QED
        BY <4>1
    <3> HIDE DEF t
    <3> QED
      BY <3>2, <3>3
  <2> HIDE DEF t
  <2> DEFINE c == t % blocks
  <2>2. c \in Cores /\ c \in 0 .. blocks - 1
    BY <1>1, <2>1, CoreOf
  <2> HIDE DEF c
  <2>3. ~ Running(c, "lookup") /\ job # None
    BY <1>1, <2>2 DEF KernelDone
  <2>4. ~ at[c] < ReqNum * TilesOf(n)
    BY <1>1, <2>2, <2>3 DEF Running
  <2>5. t < at[c]
    BY <1>1, <2>1, <2>2, <2>4
  <2> QED
    BY <2>5 DEF Begun, t, c
<1>3. Begun(n, blocks) = Reqs \X (0 .. n - 1)
  BY <1>2 DEF Begun
<1> QED
  BY <1>1, <1>3, ReqsFinite

\* The entries an update has gone through, and the positions it has updated.
Due(num, blocks) == {e \in Reqs \X (0 .. num - 1) : e[2] < Turns(e[1], num, blocks)}

Visits(num, n, blocks) == {<<e[1], Position(e[1], e[2], n)>> : e \in Due(num, blocks)}

UpdateCounts(n, percent, blocks) ==
  UpdateGoes(n, percent, blocks) /\ visited = Visits(Num(n, percent), n, blocks)

LEMMA NumAtMost ==
  ASSUME NEW n \in Nat, NEW percent \in 0 .. 100
  PROVE  Num(n, percent) \in 0 .. n
<1> DEFINE p == n * percent
<1>1. p \in Nat /\ p <= n * 100
  OBVIOUS
<1> HIDE DEF p
<1>2. p \div 100 \in 0 .. n
  BY <1>1
<1> QED
  BY <1>2 DEF Num, p

LEMMA VisitedFinite ==
  ASSUME NEW n, NEW percent, NEW blocks, UpdateCounts(n, percent, blocks)
  PROVE  IsFiniteSet(visited) /\ Cardinality(visited) \in Nat
<1>1. n \in Nat \ {0} /\ WalksIn /\ Num(n, percent) \in Nat
  <2>1. n \in Nat \ {0} /\ WalksIn /\ percent \in 0 .. 100
    BY DEF UpdateCounts, UpdateGoes
  <2> QED
    BY <2>1, NumIs
<1>2. visited \in SUBSET (Reqs \X (0 .. n - 1))
  <2>1. ASSUME NEW e \in Due(Num(n, percent), blocks)
        PROVE  <<e[1], Position(e[1], e[2], n)>> \in Reqs \X (0 .. n - 1)
    <3>1. e[1] \in Reqs /\ e[2] \in Nat
      BY <1>1 DEF Due
    <3> QED
      BY <1>1, <3>1, PositionIs
  <2> QED
    BY <2>1 DEF UpdateCounts, Visits
<1>3. IsFiniteSet(visited)
  <2>1. n \in Nat
    BY <1>1
  <2> QED
    BY <2>1, <1>2, ReqsFinite, FS_Subset
<1> QED
  BY <1>3, FS_CardinalityType

LEMMA UpdateCountsStart ==
  ASSUME NEW n \in Nat \ {0}, NEW dim \in Int, NEW percent \in 0 .. 100,
         FitsWord(n, percent), WalksIn', visited' = {}, LaunchUpdate(n, dim, percent)
  PROVE  \E blocks \in 1 .. MaxBlocks : UpdateCounts(n, percent, blocks)'
<1> DEFINE num == Num(n, percent)
<1>1. PICK blocks \in 1 .. MaxBlocks :
        /\ UpdateGoes(n, percent, blocks)'
        /\ \A r \in Reqs : Turns(r, num, blocks)' = 0
  BY LaunchGoes
<1>2. num \in Nat /\ num' = num
  BY NumIs
<1> HIDE DEF num
<1>3. Visits(num, n, blocks)' = {}
  <2>1. \A e \in Reqs \X (0 .. num - 1) : ~ e[2] < Turns(e[1], num, blocks)'
    BY <1>1, <1>2
  <2>2. Due(num, blocks)' = {}
    BY <1>2, <2>1 DEF Due
  <2> QED
    BY <2>2 DEF Visits
<1> QED
  BY <1>1, <1>2, <1>3 DEF UpdateCounts, num

LEMMA UpdateCountsEntry ==
  ASSUME NEW n, NEW percent, NEW blocks, UpdateCounts(n, percent, blocks), NEW c \in Cores,
         UpdateEntry(c), visited' = visited \cup {<<at[c], PositionOf(c)>>}
  PROVE  UpdateCounts(n, percent, blocks)'
<1> DEFINE num == Num(n, percent)
           All == Reqs \X (0 .. num - 1)
           Of(e) == <<e[1], Position(e[1], e[2], n)>>
<1>1. PICK r, t : r = at[c] /\ t = turn[c]
  OBVIOUS
<1>2. /\ r \in Reqs /\ num \in Nat /\ t \in 0 .. num - 1
      /\ PositionOf(c) = Position(r, t, n) /\ num' = num
  BY <1>1, UpdateAt DEF UpdateEntry, UpdateCounts
<1>3. /\ UpdateGoes(n, percent, blocks)'
      /\ \A s \in Reqs \ {r} : Turns(s, num, blocks)' = Turns(s, num, blocks)
      /\ Turns(r, num, blocks) = t /\ Turns(r, num, blocks)' = t + 1
  BY <1>1, <1>2, EntryGoes DEF UpdateCounts
<1>4. walks' = walks
  BY DEF UpdateEntry
<1> HIDE DEF num
<1>5. Due(num, blocks)' = Due(num, blocks) \cup {<<r, t>>}
  <2>1. ASSUME NEW e \in All
        PROVE  e[2] < Turns(e[1], num, blocks)' <=>
                 e[2] < Turns(e[1], num, blocks) \/ e = <<r, t>>
    <3>1. e[1] \in Reqs /\ e[2] \in 0 .. num - 1 /\ e = <<e[1], e[2]>>
      OBVIOUS
    <3>2. CASE e[1] = r
      <4>1. e = <<r, t>> <=> e[2] = t
        BY <3>1, <3>2
      <4> QED
        BY <1>2, <1>3, <3>1, <3>2, <4>1
    <3>3. CASE e[1] # r
      <4>1. e # <<r, t>>
        BY <3>3
      <4> QED
        BY <1>3, <3>1, <3>3, <4>1
    <3> QED
      BY <3>2, <3>3
  <2>2. <<r, t>> \in All
    BY <1>2
  <2> QED
    BY <1>2, <2>1, <2>2 DEF Due
<1>6. Visits(num, n, blocks)' = Visits(num, n, blocks) \cup {Of(<<r, t>>)}
  <2>1. Visits(num, n, blocks)' = {Of(e) : e \in Due(num, blocks)'}
    BY <1>2, <1>4 DEF Visits, Position
  <2>2. Visits(num, n, blocks) = {Of(e) : e \in Due(num, blocks)}
    BY DEF Visits
  <2> HIDE DEF Of
  <2> QED
    BY <1>5, <2>1, <2>2
<1>7. Of(<<r, t>>) = <<at[c], PositionOf(c)>>
  BY <1>1, <1>2
<1> QED
  BY <1>2, <1>3, <1>6, <1>7 DEF UpdateCounts, num

LEMMA UpdateCountsRequest ==
  ASSUME NEW n, NEW percent, NEW blocks, UpdateCounts(n, percent, blocks), NEW c \in Cores,
         NextRequest(c), visited' = visited
  PROVE  UpdateCounts(n, percent, blocks)'
<1> DEFINE num == Num(n, percent)
<1>1. /\ UpdateGoes(n, percent, blocks)' /\ num' = num
      /\ \A r \in Reqs : Turns(r, num, blocks)' = Turns(r, num, blocks)
  BY RequestGoes DEF UpdateCounts
<1>2. walks' = walks
  BY DEF NextRequest
<1> HIDE DEF num
<1>3. Due(num, blocks)' = Due(num, blocks)
  BY <1>1 DEF Due
<1>4. Visits(num, n, blocks)' = Visits(num, n, blocks)
  BY <1>2, <1>3 DEF Visits, Position
<1> QED
  BY <1>1, <1>4 DEF UpdateCounts, num

LEMMA UpdateCountsEnd ==
  ASSUME NEW n, NEW percent, NEW blocks, UpdateCounts(n, percent, blocks), KernelDone
  PROVE  Cardinality(visited) = ReqNum * Num(n, percent)
<1> DEFINE num == Num(n, percent)
           All == Reqs \X (0 .. num - 1)
           f == [e \in All |-> <<e[1], Position(e[1], e[2], n)>>]
<1>1. /\ n \in Nat \ {0} /\ percent \in 0 .. 100 /\ blocks \in 1 .. MaxBlocks
      /\ WalksIn /\ at \in [Cores -> Nat]
      /\ job.blocks = blocks /\ job.items = ReqNum /\ job.do = "update"
  BY DEF UpdateCounts, UpdateGoes, UpdateJob, Striding
<1>2. num \in 0 .. n
  BY <1>1, NumAtMost
<1> HIDE DEF num
<1>3. ASSUME NEW r \in Reqs PROVE Turns(r, num, blocks) = num
  <2> DEFINE c == r % blocks
  <2>1. r \in Nat /\ r < ReqNum
    BY DEF Reqs
  <2>2. c \in Cores /\ c \in 0 .. blocks - 1
    BY <1>1, <2>1, CoreOf
  <2> HIDE DEF c
  <2>3. ~ Running(c, "update") /\ job # None
    BY <1>1, <2>2 DEF KernelDone
  <2>4. ~ at[c] < ReqNum
    BY <1>1, <2>2, <2>3 DEF Running
  <2>5. r < at[c]
    BY <1>1, <2>1, <2>2, <2>4
  <2> QED
    BY <2>5 DEF Turns, c
<1>4. Due(num, blocks) = All
  BY <1>2, <1>3 DEF Due
<1>5. visited = {f[e] : e \in All}
  BY <1>4 DEF UpdateCounts, Visits, num
<1>6. f \in [All -> visited]
  BY <1>5
<1>7. ASSUME NEW d \in All, NEW e \in All, f[d] = f[e] PROVE d = e
  <2>0. 0 .. num - 1 \subseteq 0 .. n - 1
    BY <1>1, <1>2
  <2>1. PICK r \in Reqs, s \in 0 .. n - 1 : d = <<r, s>>
    <3>1. d[1] \in Reqs /\ d[2] \in 0 .. n - 1 /\ d = <<d[1], d[2]>>
      BY <2>0
    <3> QED
      BY <3>1
  <2>2. PICK q \in Reqs, t \in 0 .. n - 1 : e = <<q, t>>
    <3>1. e[1] \in Reqs /\ e[2] \in 0 .. n - 1 /\ e = <<e[1], e[2]>>
      BY <2>0
    <3> QED
      BY <3>1
  <2>3. r = q /\ Position(r, s, n) = Position(r, t, n)
    BY <1>7, <2>1, <2>2
  <2>4. s = t
    <3>1. CASE s < t
      BY <1>1, <2>3, <3>1, PositionsDiffer
    <3>2. CASE t < s
      BY <1>1, <2>3, <3>2, PositionsDiffer
    <3> QED
      BY <3>1, <3>2
  <2> QED
    BY <2>1, <2>2, <2>3, <2>4
<1> HIDE DEF f, All
<1>8. \A v \in visited : \E e \in All : f[e] = v
  BY <1>5
<1>9. f \in Injection(All, visited)
  <2>1. \A d, e \in All : f[d] = f[e] => d = e
    BY <1>7
  <2> QED
    BY ONLY <1>6, <2>1 DEF Injection, IsInjective
<1>10. f \in Surjection(All, visited)
  BY <1>6, <1>8 DEF Surjection
<1>11. ExistsBijection(All, visited)
  BY <1>9, <1>10 DEF ExistsBijection, Bijection
<1>12. IsFiniteSet(All) /\ Cardinality(All) = ReqNum * num
  <2>1. num \in Nat
    BY <1>2
  <2> QED
    BY <2>1, ReqsFinite DEF All
<1> QED
  BY <1>11, <1>12, FS_Bijection DEF num

-----------------------------------------------------------------------------
(* What is counted while the scripts that measure run.                      *)

LEMMA ScriptTimeable ==
  ASSUME opt \in Commands, opt.tool # "test"
  PROVE  /\ Timeable(Script)
         /\ \A j \in 1 .. Len(Script) : Script[j].do \in {"lookup", "update"} => opt.n # 0
BY ScriptSection DEF Section

\* What the theorem supposes of the other command lines: 32 bits hold n * percent.
MeasuresFit == \A o \in Commands : o.tool # "test" => FitsWord(o.n, o.percent)

\* Kernels of a kind that the device has timed.
Launches(kind, d) == Cardinality(Timed({kind}, Script, d, StartEvent, StopEvent))

Looks(d) == Launches("lookup", d) * (ReqNum * opt.n)

Updates(d) == Launches("update", d) * (ReqNum * Num(opt.n, opt.percent))

IfTimed(k) == IF session.timing THEN k ELSE 0

(* The counts are those of the kernels that are done, and the running one's  *)
(* so far.                                                                  *)
KernelCounts(d) ==
  \/ job = None /\ timed.lookups = Looks(d) /\ timed.updates = Updates(d)
  \/ \E blocks \in 1 .. MaxBlocks :
       /\ LookupCounts(opt.n, blocks)
       /\ timed.lookups = Looks(d) + IfTimed(Cardinality(Begun(opt.n, blocks)))
       /\ timed.updates = Updates(d)
  \/ \E blocks \in 1 .. MaxBlocks :
       /\ UpdateCounts(opt.n, opt.percent, blocks)
       /\ timed.lookups = Looks(d)
       /\ timed.updates = Updates(d) + IfTimed(Cardinality(visited))

Times(d, x) ==
  /\ Tracks(Kinds, session, Script, d, x)
  /\ DeviceTimes(Works, session, Script, d)
  /\ HostTimes(Works, session, Script)
  /\ KernelCounts(d)

Measuring ==
  /\ MeasuresFit /\ opt \in Commands /\ opt.tool # "test"
  /\ session \in Sessions(Items)
  /\ WalksIn
  /\ timed \in [lookups : Int, updates : Int]
  /\ status = "passed" => session.at = Len(Script)
  /\ job # None => /\ session.stream # << >>
                   /\ Head(session.stream).do = job.do
                   /\ job.do \in {"lookup", "update"}

MeasureInv == Measuring /\ \E d, x : Times(d, x)

LEMMA MeasureInit == Init /\ MeasuresFit /\ opt.tool # "test" => MeasureInv
<1> SUFFICES ASSUME Init, MeasuresFit, opt.tool # "test" PROVE MeasureInv
  OBVIOUS
<1>1. /\ opt \in Commands /\ opt.n \in Nat /\ opt.percent \in 0 .. 100
  BY CommandAssumption DEF Init
<1>2. /\ session \in Sessions(Items) /\ session.at = 0 /\ session.stream = << >>
      /\ session.clock = 0 /\ session.timing = FALSE /\ session.measured = 0 /\ session.waited = 0
  BY DEF Init, NewSession, Sessions
<1>3. Script \in Seq(Items)
  BY <1>1, ScriptIn
<1>4. Measuring
  BY <1>1, <1>2, WalksAre DEF Measuring, Init, KernelInit
<1>5. Tracks(Kinds, session, Script, 0, << >>)
  <2> HIDE DEF Script
  <2> QED
    BY <1>2, <1>3 DEF Tracks
<1>6. /\ \A W : Work(W, Script, 0) = {}
      /\ \A W, b, e : Timed(W, Script, 0, b, e) = {} /\ ~ Between(Script, 1, b, e)
      /\ Cardinality({}) = 0
  BY FS_EmptySet DEF Work, Timed, Between
<1>7. DeviceTimes(Works, session, Script, 0) /\ HostTimes(Works, session, Script)
  <2>1. /\ Between(Script, 0 + 1, StartEvent, StopEvent) = FALSE
        /\ Between(Script, 0 + 1, ReadClock, AddClock) = FALSE
    BY <1>6
  <2>2. DeviceTimes(Works, session, Script, 0)
    <3>1. session.clock = Cardinality(Work(Works, Script, 0))
      BY <1>2, <1>6
    <3>2. session.timing = Between(Script, 0 + 1, StartEvent, StopEvent)
      BY <1>2, <2>1
    <3>3. session.measured + (IF session.timing THEN session.clock - session.started ELSE 0)
            = Cardinality(Timed(Works, Script, 0, StartEvent, StopEvent))
      <4>1. Timed(Works, Script, 0, StartEvent, StopEvent) = {} /\ Cardinality({}) = 0
        BY <1>6
      <4>2. Cardinality(Timed(Works, Script, 0, StartEvent, StopEvent)) = 0
        BY <4>1
      <4>3. session.measured + (IF session.timing THEN session.clock - session.started ELSE 0)
              = 0
        BY <1>2
      <4> QED
        BY <4>2, <4>3
    <3> QED
      BY ONLY <3>1, <3>2, <3>3 DEF DeviceTimes
  <2>3. HostTimes(Works, session, Script)
    <3>1. session.at = 0 /\ session.waited = 0
      BY <1>2
    <3>2. Timed(Works, Script, 0, ReadClock, AddClock) = {}
      BY <1>6
    <3>3. Cardinality(Timed(Works, Script, 0, ReadClock, AddClock)) = 0
      BY <1>6, <3>2
    <3>4. ~ Between(Script, 0 + 1, ReadClock, AddClock)
      BY <2>1
    <3> QED
      BY ONLY <3>1, <3>3, <3>4 DEF HostTimes
  <2> QED
    BY <2>2, <2>3
<1>8. KernelCounts(0)
  <2>1. Launches("lookup", 0) = 0 /\ Launches("update", 0) = 0
    BY <1>6 DEF Launches
  <2>2. Num(opt.n, opt.percent) \in Nat
    BY <1>1, NumIs
  <2>3. Looks(0) = 0 /\ Updates(0) = 0
    BY <1>1, <2>1, <2>2 DEF Looks, Updates
  <2> QED
    BY <2>3 DEF KernelCounts, Init, KernelInit
<1> QED
  BY <1>4, <1>5, <1>7, <1>8 DEF MeasureInv, Times

-----------------------------------------------------------------------------
(* The host.                                                                *)

LEMMA LooksKept ==
  ASSUME NEW d, opt' = opt
  PROVE  Looks(d)' = Looks(d) /\ Updates(d)' = Updates(d)
<1>1. Script' = Script
  BY DEF Script
<1> QED
  BY <1>1 DEF Looks, Updates, Launches

\* The counts depend on the kernel only.
LEMMA CountsKept ==
  ASSUME NEW d, KernelCounts(d), UNCHANGED <<job, at, turn, walks, opt, visited, timed>>,
         session'.timing = session.timing
  PROVE  KernelCounts(d)'
<1>1. UNCHANGED <<job, at, turn, walks, opt, visited, timed>>
  OBVIOUS
<1>3. Looks(d)' = Looks(d) /\ Updates(d)' = Updates(d)
  BY LooksKept
<1>4. ASSUME NEW blocks
      PROVE  /\ LookupCounts(opt.n, blocks)' <=> LookupCounts(opt.n, blocks)
             /\ UpdateCounts(opt.n, opt.percent, blocks)'
                  <=> UpdateCounts(opt.n, opt.percent, blocks)
             /\ Begun(opt.n, blocks)' = Begun(opt.n, blocks)
  <2>1. PICK n, percent : n = opt.n /\ percent = opt.percent
    OBVIOUS
  <2>2. n = opt'.n /\ percent = opt'.percent
    BY <1>1, <2>1
  <2>3. /\ LookupCounts(n, blocks)' <=> LookupCounts(n, blocks)
        /\ Begun(n, blocks)' = Begun(n, blocks)
    BY <1>1 DEF LookupCounts, Striding, Begun
  <2>4. UpdateCounts(n, percent, blocks)' <=> UpdateCounts(n, percent, blocks)
    <3>1. UpdateGoes(n, percent, blocks)' <=> UpdateGoes(n, percent, blocks)
      BY <1>1 DEF UpdateGoes, Striding, WalksIn
    <3>2. Visits(Num(n, percent), n, blocks)' = Visits(Num(n, percent), n, blocks)
      BY <1>1 DEF Visits, Due, Turns, Position
    <3> QED
      BY <1>1, <3>1, <3>2 DEF UpdateCounts
  <2> QED
    BY <2>1, <2>2, <2>3, <2>4
<1>5. \A k : IfTimed(k)' = IfTimed(k)
  BY DEF IfTimed
<1> QED
  BY <1>1, <1>3, <1>4, <1>5 DEF KernelCounts

\* The clock instructions.
LEMMA ClockIs ==
  ASSUME NEW i \in Items
  PROVE  /\ i.do = "clock" <=> i = ReadClock
         /\ i.do = "elapsed" <=> i = AddClock
         /\ "clock" # "elapsed"
<1>1. CASE i \in [do : {"tables", "lookup", "update", "start", "stop", "sync", "clock",
                        "elapsed"}, on : {0}]
  BY <1>1 DEF ReadClock, AddClock, Instr
<1>2. CASE i \in [do : {"query"}, on : [pattern : STRING \cup {"stride"}, size : Nat]]
  BY <1>2 DEF ReadClock, AddClock, Instr
<1>3. CASE i \in [do : {"patterns"}, on : SUBSET STRING]
  BY <1>3 DEF ReadClock, AddClock, Instr
<1>4. CASE i \in [do : {"check"}, on : {"out", "states"}]
  BY <1>4 DEF ReadClock, AddClock, Instr
<1> QED
  BY <1>1, <1>2, <1>3, <1>4 DEF Items, Calls

\* What a step of the host has to show.
LEMMA HostMeasures ==
  ASSUME Measuring, NEW d, NEW x, Times(d, x), NEW y,
         session' \in Sessions(Items), session'.timing = session.timing,
         Tracks(Kinds, session', Script, d, y), DeviceTimes(Works, session', Script, d),
         HostTimes(Works, session', Script),
         session.stream # << >> => /\ session'.stream # << >>
                                   /\ Head(session'.stream) = Head(session.stream),
         status' = "passed" => session'.at = Len(Script),
         UNCHANGED <<kernelVars, opt, visited, timed>>
  PROVE  MeasureInv'
<1>1. Script' = Script /\ UNCHANGED <<job, walks, opt, timed>>
  BY DEF Script, kernelVars
<1>2. KernelCounts(d)'
  <2>1. UNCHANGED <<job, at, turn, walks, opt, visited, timed>>
    BY DEF kernelVars, coreVars
  <2> QED
    BY <2>1, CountsKept DEF Times
<1>3. Times(d, y)'
  BY <1>1, <1>2 DEF Times
<1>4. Measuring'
  BY <1>1 DEF Measuring, MeasuresFit, WalksIn
<1> QED
  BY <1>3, <1>4 DEF MeasureInv

LEMMA EnqueueMeasures == ASSUME MeasureInv, Enqueue PROVE MeasureInv'
<1>1. PICK d, x : Times(d, x)
  BY DEF MeasureInv
<1>2. PICK sc : sc = Script
  OBVIOUS
<1>3. /\ Measuring /\ Timeable(sc) /\ sc \in Seq(Items) /\ session \in Sessions(Items)
      /\ Tracks(Kinds, session, sc, d, x) /\ DeviceTimes(Works, session, sc, d)
      /\ HostTimes(Works, session, sc)
  BY <1>1, <1>2, ScriptTimeable DEF MeasureInv, Measuring, Times, Timeable
<1> DEFINE s == Enqueued(session, sc)
           y == session.at + 1
<1>4. /\ session.at < Len(sc) /\ sc[y].do \in Kinds /\ session' = s
      /\ (status' = "passed" => s.at = Len(sc) \/ status = "passed")
      /\ status = "running" /\ UNCHANGED <<kernelVars, opt, visited, timed>>
  BY <1>2 DEF Enqueue, Doing, At, Kinds, Proceed, UnchangedBelow
<1>5. session.at \in 0 .. Len(sc) - 1 /\ y \in 1 .. Len(sc)
  BY <1>3, <1>4 DEF Tracks
<1>6. /\ s \in Sessions(Items) /\ s.at = y /\ s.stream = Append(session.stream, sc[y])
      /\ s.clock = session.clock /\ s.started = session.started /\ s.timing = session.timing
      /\ s.measured = session.measured /\ s.wall = session.wall /\ s.waited = session.waited
  BY <1>3, <1>5, HostFields
<1>7. session.stream \in Seq(Items)
  BY <1>3 DEF Sessions
<1> HIDE DEF s
<1>8. Tracks(Kinds, s, sc, d, Append(x, y))
  <2>1. "sync" \notin Kinds
    BY DEF Kinds
  <2> QED
    BY <1>3, <1>4, <1>6, <1>7, <2>1, TracksEnqueued
<1>9. DeviceTimes(Works, s, sc, d)
  BY <1>3, <1>6 DEF DeviceTimes
<1>10. HostTimes(Works, s, sc)
  <2>1. Bracketed(sc, ReadClock, AddClock)
    BY <1>3 DEF Timeable, Alternates
  <2>2. sc[y] # ReadClock /\ sc[y] # AddClock
    BY <1>4 DEF Kinds, ReadClock, AddClock, Instr
  <2>3. {"clock", "elapsed"} \cap Works = {}
    BY DEF Works
  <2> QED
    BY <1>3, <1>4, <1>6, <2>1, <2>2, <2>3, HostTimesNext
<1>11. session.stream # << >> => /\ s.stream # << >>
                                 /\ Head(s.stream) = Head(session.stream)
  <2>1. sc[y] \in Items
    BY <1>3, <1>5
  <2>2. PICK q, i : q = session.stream /\ i = sc[y]
    OBVIOUS
  <2>3. /\ Append(q, i) # << >>
        /\ q # << >> => Head(Append(q, i)) = Head(q)
    BY ONLY <1>7, <2>1, <2>2, ItemsAppend
  <2>4. s.stream = Append(q, i)
    BY ONLY <1>6, <2>2
  <2> QED
    BY ONLY <2>2, <2>3, <2>4
<1> QED
  BY <1>1, <1>2, <1>3, <1>4, <1>6, <1>8, <1>9, <1>10, <1>11, HostMeasures

\* Where an instruction leaves the process that enqueues nothing.
PassedTo(s, kind) ==
  IF kind = "clock" THEN ClockRead(s)
  ELSE IF kind = "elapsed" THEN ClockAdded(s)
  ELSE Passed(s)

LEMMA PassMeasures ==
  ASSUME MeasureInv, session.at < Len(Script), NEW kind, kind = Script[session.at + 1].do,
         kind \notin Kinds, kind = "sync" => session.stream = << >>,
         status = "running", Proceed(PassedTo(session, kind)), UnchangedBelow
  PROVE  MeasureInv'
<1>1. PICK d, x : Times(d, x)
  BY DEF MeasureInv
<1>2. PICK sc : sc = Script
  OBVIOUS
<1>3. /\ Measuring /\ Timeable(sc) /\ sc \in Seq(Items) /\ session \in Sessions(Items)
      /\ Tracks(Kinds, session, sc, d, x) /\ DeviceTimes(Works, session, sc, d)
      /\ HostTimes(Works, session, sc)
  BY <1>1, <1>2, ScriptTimeable DEF MeasureInv, Measuring, Times, Timeable
<1> DEFINE y == session.at + 1
<1>4. PICK s : s = PassedTo(session, kind)
  OBVIOUS
<1>5. /\ session.at < Len(sc) /\ kind = sc[y].do /\ session' = s
      /\ (status' = "passed" => s.at = Len(sc))
      /\ UNCHANGED <<kernelVars, opt, visited, timed>>
  BY <1>2, <1>4 DEF Proceed, UnchangedBelow
<1>6. session.at \in 0 .. Len(sc) - 1 /\ y \in 1 .. Len(sc)
  BY <1>3, <1>5 DEF Tracks
<1>7. /\ \A t \in {Passed(session), ClockRead(session), ClockAdded(session)} :
           /\ t \in Sessions(Items) /\ t.at = y /\ t.stream = session.stream
           /\ t.clock = session.clock /\ t.started = session.started
           /\ t.timing = session.timing /\ t.measured = session.measured
      /\ Passed(session).wall = session.wall /\ Passed(session).waited = session.waited
      /\ ClockRead(session).wall = session.clock /\ ClockRead(session).waited = session.waited
      /\ ClockAdded(session).waited = session.waited + (session.clock - session.wall)
  BY <1>3, <1>6, HostFields
<1>8. ClockAdded(session).wall = session.wall
  BY <1>3 DEF ClockAdded, Passed, Sessions
<1>9. s \in {Passed(session), ClockRead(session), ClockAdded(session)}
  BY <1>4 DEF PassedTo
<1>10. /\ s \in Sessions(Items) /\ s.at = y /\ s.stream = session.stream
       /\ s.clock = session.clock /\ s.started = session.started
       /\ s.timing = session.timing /\ s.measured = session.measured
  BY <1>7, <1>9
<1>11. /\ kind = "clock" => s.wall = session.clock /\ s.waited = session.waited
       /\ kind = "elapsed" => /\ s.waited = session.waited + (session.clock - session.wall)
                              /\ s.wall = session.wall
       /\ kind \notin {"clock", "elapsed"} => s.wall = session.wall /\ s.waited = session.waited
  BY <1>4, <1>7, <1>8 DEF PassedTo
<1>12. Tracks(Kinds, s, sc, d, x)
  BY <1>3, <1>5, <1>10, TracksPassed
<1>13. DeviceTimes(Works, s, sc, d)
  BY <1>3, <1>10 DEF DeviceTimes
<1>14. HostTimes(Works, s, sc)
  <2>1. Bracketed(sc, ReadClock, AddClock) /\ Quiet(Works, sc)
    BY <1>3 DEF Timeable, Alternates
  <2>2. /\ kind = "clock" <=> sc[y] = ReadClock
        /\ kind = "elapsed" <=> sc[y] = AddClock
        /\ "clock" # "elapsed"
    <3>1. sc[y] \in Items
      BY <1>3, <1>6
    <3> QED
      BY <1>5, <3>1, ClockIs
  <2>3. sc[y] \in {ReadClock, AddClock} => session.clock = Cardinality(Work(Works, sc, session.at))
    <3>1. SUFFICES ASSUME sc[y] \in {ReadClock, AddClock}
                   PROVE  session.clock = Cardinality(Work(Works, sc, session.at))
      OBVIOUS
    <3>2. sc[y].do \in {"clock", "elapsed"}
      BY <1>5, <2>2, <3>1
    <3>3. Works \subseteq Kinds
      BY DEF Works, Kinds
    <3> QED
      BY <1>3, <1>5, <2>1, <3>2, <3>3, ClockMeetsHost
  <2>4. {"clock", "elapsed"} \cap Works = {}
    BY DEF Works
  <2>5. /\ sc[y] = ReadClock => s.wall = session.clock
        /\ sc[y] # ReadClock => s.wall = session.wall
        /\ sc[y] = AddClock => s.waited = session.waited + (session.clock - session.wall)
        /\ sc[y] # AddClock => s.waited = session.waited
    BY <1>11, <2>2
  <2> QED
    BY <1>3, <1>5, <1>10, <2>1, <2>3, <2>4, <2>5, HostTimesNext
<1> QED
  BY <1>1, <1>2, <1>3, <1>5, <1>10, <1>12, <1>13, <1>14, HostMeasures

LEMMA HostStepMeasures == ASSUME MeasureInv, Host PROVE MeasureInv'
<1>1. CASE Enqueue
  BY <1>1, EnqueueMeasures
<1>2. CASE Wait
  <2>1. /\ session.at < Len(Script) /\ Script[session.at + 1].do = "sync"
        /\ session.stream = << >> /\ status = "running"
    BY <1>2 DEF Wait, Doing, At, Drained
  <2>2. Proceed(PassedTo(session, "sync")) /\ UnchangedBelow
    BY <1>2 DEF Wait, PassedTo
  <2> QED
    BY <2>1, <2>2, PassMeasures DEF Kinds
<1>3. CASE ReadWall
  <2>1. CASE Doing("clock") /\ Proceed(ClockRead(session))
    <3>1. /\ session.at < Len(Script) /\ Script[session.at + 1].do = "clock"
          /\ status = "running" /\ Proceed(PassedTo(session, "clock")) /\ UnchangedBelow
      BY <1>3, <2>1 DEF ReadWall, Doing, At, PassedTo
    <3> QED
      BY <3>1, PassMeasures DEF Kinds
  <2>2. CASE Doing("elapsed") /\ Proceed(ClockAdded(session))
    <3>1. /\ session.at < Len(Script) /\ Script[session.at + 1].do = "elapsed"
          /\ status = "running" /\ Proceed(PassedTo(session, "elapsed")) /\ UnchangedBelow
      BY <1>3, <2>2 DEF ReadWall, Doing, At, PassedTo
    <3> QED
      BY <3>1, PassMeasures DEF Kinds
  <2> QED
    BY <1>3, <2>1, <2>2 DEF ReadWall
<1>4. ASSUME NEW result \in {"raised", "mismatch"}, End(result), UnchangedBelow
      PROVE  MeasureInv'
  <2>1. PICK d, x : Times(d, x)
    BY DEF MeasureInv
  <2>2. session' = session /\ status' # "passed" /\ UNCHANGED <<kernelVars, opt, visited, timed>>
    BY <1>4 DEF End, UnchangedBelow
  <2>3. /\ Tracks(Kinds, session', Script, d, x) /\ DeviceTimes(Works, session', Script, d)
        /\ HostTimes(Works, session', Script) /\ session' \in Sessions(Items)
    BY <2>1, <2>2 DEF Times, MeasureInv, Measuring
  <2> QED
    BY <2>1, <2>2, <2>3, HostMeasures DEF MeasureInv
<1>5. CASE CheckPatterns
  <2>1. /\ session.at < Len(Script) /\ Script[session.at + 1].do = "patterns"
        /\ status = "running"
    BY <1>5 DEF CheckPatterns, Doing, At
  <2>2. CASE Proceed(Passed(session))
    <3>1. Proceed(PassedTo(session, "patterns")) /\ UnchangedBelow
      BY <1>5, <2>2 DEF CheckPatterns, PassedTo
    <3> QED
      BY <2>1, <3>1, PassMeasures DEF Kinds
  <2>3. CASE End("raised")
    BY <1>4, <1>5, <2>3 DEF CheckPatterns
  <2> QED
    BY <1>5, <2>2, <2>3 DEF CheckPatterns
<1>6. CASE Check
  <2>1. /\ session.at < Len(Script) /\ Script[session.at + 1].do = "check"
        /\ status = "running"
    BY <1>6 DEF Check, Doing, At
  <2>2. CASE Proceed(Passed(session))
    <3>1. Proceed(PassedTo(session, "check")) /\ UnchangedBelow
      BY <1>6, <2>2 DEF Check, PassedTo
    <3> QED
      BY <2>1, <3>1, PassMeasures DEF Kinds
  <2>3. CASE End("mismatch")
    BY <1>4, <1>6, <2>3 DEF Check
  <2> QED
    BY <1>6, <2>2, <2>3 DEF Check
<1> QED
  BY <1>1, <1>2, <1>3, <1>5, <1>6 DEF Host

-----------------------------------------------------------------------------
(* The device.                                                              *)

LEMMA EventIs ==
  ASSUME NEW i \in Items, i.do \in {"start", "stop"}
  PROVE  i \in {StartEvent, StopEvent}
<1>1. CASE i \in [do : {"tables", "lookup", "update", "start", "stop", "sync", "clock",
                        "elapsed"}, on : {0}]
  BY <1>1 DEF StartEvent, StopEvent, Instr
<1>2. CASE i \in [do : {"query"}, on : [pattern : STRING \cup {"stride"}, size : Nat]]
  BY <1>2
<1>3. CASE i \in [do : {"patterns"}, on : SUBSET STRING]
  BY <1>3
<1>4. CASE i \in [do : {"check"}, on : {"out", "states"}]
  BY <1>4
<1> QED
  BY <1>1, <1>2, <1>3, <1>4 DEF Items, Calls

\* What the device leaves alone when it finishes an item.
LEMMA DeviceKeeps ==
  ASSUME NEW S, NEW s \in Sessions(S), s.stream # << >>, NEW t \in {WorkDone(s), EventStamped(s)}
  PROVE  /\ t \in Sessions(S) /\ t.at = s.at /\ t.stream = Tail(s.stream)
         /\ t.wall = s.wall /\ t.waited = s.waited
<1>1. t \in Sessions(S)
  <2>1. WorkDone(s) \in Sessions(S) /\ EventStamped(s) \in Sessions(S)
    BY DeviceFields
  <2> QED
    BY <2>1
<1>2. /\ \A v, c : LET u == [s EXCEPT !.stream = v, !.clock = c]
                   IN u.at = s.at /\ u.stream = v /\ u.wall = s.wall /\ u.waited = s.waited
      /\ \A v, c, b : LET u == [s EXCEPT !.stream = v, !.started = c, !.timing = b]
                      IN u.at = s.at /\ u.stream = v /\ u.wall = s.wall /\ u.waited = s.waited
      /\ \A v, m, b : LET u == [s EXCEPT !.stream = v, !.measured = m, !.timing = b]
                      IN u.at = s.at /\ u.stream = v /\ u.wall = s.wall /\ u.waited = s.waited
  BY DEF Sessions
<1>3. /\ WorkDone(s) = [s EXCEPT !.stream = Tail(s.stream), !.clock = s.clock + 1]
      /\ Head(s.stream) = StartEvent =>
           EventStamped(s) = [s EXCEPT !.stream = Tail(s.stream), !.started = s.clock,
                                       !.timing = TRUE]
      /\ Head(s.stream) # StartEvent =>
           EventStamped(s) = [s EXCEPT !.stream = Tail(s.stream),
                                       !.measured = s.measured + (s.clock - s.started),
                                       !.timing = FALSE]
  BY DeviceFields
<1>4. CASE t = WorkDone(s)
  <2> DEFINE c == s.clock + 1
  <2>1. t = [s EXCEPT !.stream = Tail(s.stream), !.clock = c]
    BY <1>3, <1>4
  <2> HIDE DEF c
  <2>2. t.at = s.at /\ t.stream = Tail(s.stream)
    BY ONLY <1>2, <2>1
  <2>3. t.wall = s.wall /\ t.waited = s.waited
    BY ONLY <1>2, <2>1
  <2> QED
    BY ONLY <1>1, <2>2, <2>3
<1>5. CASE t = EventStamped(s) /\ Head(s.stream) = StartEvent
  <2>1. t = [s EXCEPT !.stream = Tail(s.stream), !.started = s.clock, !.timing = TRUE]
    BY <1>3, <1>5
  <2>2. t.at = s.at /\ t.stream = Tail(s.stream)
    BY ONLY <1>2, <2>1
  <2>3. t.wall = s.wall /\ t.waited = s.waited
    BY ONLY <1>2, <2>1
  <2> QED
    BY ONLY <1>1, <2>2, <2>3
<1>6. CASE t = EventStamped(s) /\ Head(s.stream) # StartEvent
  <2> DEFINE m == s.measured + (s.clock - s.started)
  <2>1. t = [s EXCEPT !.stream = Tail(s.stream), !.measured = m, !.timing = FALSE]
    BY <1>3, <1>6
  <2> HIDE DEF m
  <2>2. t.at = s.at /\ t.stream = Tail(s.stream)
    BY ONLY <1>2, <2>1
  <2>3. t.wall = s.wall /\ t.waited = s.waited
    BY ONLY <1>2, <2>1
  <2> QED
    BY ONLY <1>1, <2>2, <2>3
<1> QED
  BY <1>4, <1>5, <1>6

\* What the oldest item is, and whether it is timed.
LEMMA OldestMeasured ==
  ASSUME Measuring, NEW d, NEW x, Times(d, x), session.stream # << >>,
         NEW sc, sc = Script, NEW y, y = x[1]
  PROVE  /\ y \in 1 .. Len(sc) /\ d \in Nat /\ y \in Nat /\ d < y
         /\ Head(session.stream) = sc[y] /\ sc[y] \in Items /\ sc[y].do \in Kinds
         /\ \A j \in d + 1 .. y - 1 : sc[j].do \notin Kinds
         /\ \A t : t.at = session.at /\ t.stream = Tail(session.stream) =>
                     Tracks(Kinds, t, sc, y, Tail(x))
         /\ session.timing <=> Between(sc, y, StartEvent, StopEvent)
<1>1. /\ sc \in Seq(Items) /\ session \in Sessions(Items) /\ Tracks(Kinds, session, sc, d, x)
      /\ DeviceTimes(Works, session, sc, d)
  BY ScriptIn DEF Measuring, Times
<1>2. session.stream \in Seq(Items)
  BY <1>1 DEF Sessions
<1>3. ASSUME NEW t, t.at = session.at, t.stream = Tail(session.stream)
      PROVE  /\ y \in d + 1 .. session.at /\ y \in 1 .. Len(sc)
             /\ Head(session.stream) = sc[y] /\ sc[y].do \in Kinds
             /\ \A j \in d + 1 .. y - 1 : sc[j].do \notin Kinds
             /\ Tracks(Kinds, t, sc, y, Tail(x))
  BY <1>1, <1>2, <1>3, TracksDone
<1> DEFINE t == [session EXCEPT !.stream = Tail(session.stream)]
<1>4. t.at = session.at /\ t.stream = Tail(session.stream)
  BY <1>1 DEF Sessions
<1> HIDE DEF t
<1>5. session.at \in Nat /\ d \in Nat
  BY <1>1 DEF Tracks
<1>6. /\ y \in 1 .. Len(sc) /\ y \in Nat /\ d < y /\ Head(session.stream) = sc[y]
      /\ sc[y].do \in Kinds /\ \A j \in d + 1 .. y - 1 : sc[j].do \notin Kinds
  BY <1>3, <1>4, <1>5
<1>7. sc[y] \in Items
  BY <1>1, <1>6
<1>8. session.timing <=> Between(sc, y, StartEvent, StopEvent)
  <2>1. \A j \in d + 1 .. y - 1 : sc[j] # StartEvent /\ sc[j] # StopEvent
    BY <1>6 DEF Kinds, StartEvent, StopEvent, Instr
  <2>2. d + 1 \in Nat \ {0} /\ d + 1 <= y
    BY <1>5, <1>6
  <2>3. Between(sc, y, StartEvent, StopEvent) <=> Between(sc, d + 1, StartEvent, StopEvent)
    BY <1>6, <2>1, <2>2, BetweenGap
  <2> QED
    BY <1>1, <2>3 DEF DeviceTimes
<1> QED
  BY <1>3, <1>5, <1>6, <1>7, <1>8

\* A kernel that the device times counts once.
LEMMA LaunchesNext ==
  ASSUME Measuring, NEW d, NEW x, Times(d, x), session.stream # << >>, NEW y, y = x[1],
         NEW kind \in {"lookup", "update"}
  PROVE  /\ Launches(kind, d) \in Nat
         /\ Launches(kind, y) = Launches(kind, d)
              + (IF Head(session.stream).do = kind /\ session.timing THEN 1 ELSE 0)
<1>1. PICK sc : sc = Script
  OBVIOUS
<1>2. /\ d \in Nat /\ y \in Nat /\ d < y /\ Head(session.stream) = sc[y]
      /\ \A j \in d + 1 .. y - 1 : sc[j].do \notin Kinds
      /\ session.timing <=> Between(sc, y, StartEvent, StopEvent)
  BY <1>1, OldestMeasured
<1>3. \A j \in d + 1 .. y - 1 : sc[j].do \notin {kind}
  BY <1>2 DEF Kinds
<1>4. Cardinality(Timed({kind}, sc, y, StartEvent, StopEvent)) =
        Cardinality(Timed({kind}, sc, d, StartEvent, StopEvent))
          + (IF sc[y].do \in {kind} /\ Between(sc, y, StartEvent, StopEvent) THEN 1 ELSE 0)
  BY <1>2, <1>3, TimedNext
<1>5. Launches(kind, d) \in Nat
  BY <1>1, <1>2, WorkFinite DEF Launches
<1> QED
  BY <1>1, <1>2, <1>4, <1>5 DEF Launches

LEMMA CountsNext ==
  ASSUME Measuring, NEW d, NEW x, Times(d, x), session.stream # << >>, NEW y, y = x[1]
  PROVE  LET kind == Head(session.stream).do
         IN /\ Looks(d) \in Nat /\ Updates(d) \in Nat
            /\ Looks(y) = Looks(d) + IF kind = "lookup" THEN IfTimed(ReqNum * opt.n) ELSE 0
            /\ Updates(y) = Updates(d)
                 + IF kind = "update" THEN IfTimed(ReqNum * Num(opt.n, opt.percent)) ELSE 0
<1> DEFINE kind == Head(session.stream).do
           l == Launches("lookup", d)
           u == Launches("update", d)
           m == ReqNum * opt.n
           k == ReqNum * Num(opt.n, opt.percent)
<1>1. /\ l \in Nat
      /\ Launches("lookup", y) = l + (IF kind = "lookup" /\ session.timing THEN 1 ELSE 0)
  BY LaunchesNext
<1>2. /\ u \in Nat
      /\ Launches("update", y) = u + (IF kind = "update" /\ session.timing THEN 1 ELSE 0)
  BY LaunchesNext
<1>3. m \in Nat /\ k \in Nat
  <2>1. opt.n \in Nat /\ opt.percent \in 0 .. 100
    BY CommandAssumption DEF Measuring
  <2>2. Num(opt.n, opt.percent) \in Nat
    BY <2>1, NumIs
  <2> QED
    BY <2>1, <2>2
<1> HIDE DEF kind, l, u, m, k
<1>4. l * m \in Nat /\ u * k \in Nat /\ (l + 1) * m = l * m + m /\ (u + 1) * k = u * k + k
      /\ (l + 0) * m = l * m /\ (u + 0) * k = u * k
  BY <1>1, <1>2, <1>3
<1>5. Looks(y) = l * m + IF kind = "lookup" THEN IfTimed(m) ELSE 0
  BY <1>1, <1>3, <1>4 DEF Looks, IfTimed, m
<1>6. Updates(y) = u * k + IF kind = "update" THEN IfTimed(k) ELSE 0
  BY <1>2, <1>3, <1>4 DEF Updates, IfTimed, k
<1>7. Looks(d) = l * m /\ Updates(d) = u * k
  BY DEF Looks, Updates, l, u, m, k
<1> QED
  BY <1>4, <1>5, <1>6, <1>7 DEF kind, m, k

\* The device has finished its oldest item.
LEMMA DoneMeasures ==
  ASSUME MeasureInv, NEW d, NEW x, Times(d, x), session.stream # << >>,
         session' = IF Head(session.stream).do \in Works THEN WorkDone(session)
                    ELSE EventStamped(session),
         KernelCounts(x[1])', WalksIn', job' = None, UNCHANGED <<opt, status, timed>>
  PROVE  MeasureInv'
<1>1. PICK sc, y : sc = Script /\ y = x[1]
  OBVIOUS
<1>2. /\ Measuring /\ Timeable(sc) /\ sc \in Seq(Items) /\ session \in Sessions(Items)
      /\ DeviceTimes(Works, session, sc, d) /\ HostTimes(Works, session, sc)
      /\ Bracketed(sc, StartEvent, StopEvent)
  BY <1>1, ScriptTimeable DEF MeasureInv, Measuring, Times, Timeable, Alternates
<1>3. /\ y \in 1 .. Len(sc) /\ d \in Nat /\ y \in Nat /\ d < y
      /\ Head(session.stream) = sc[y] /\ sc[y] \in Items /\ sc[y].do \in Kinds
      /\ \A j \in d + 1 .. y - 1 : sc[j].do \notin Kinds
      /\ \A t : t.at = session.at /\ t.stream = Tail(session.stream) =>
                  Tracks(Kinds, t, sc, y, Tail(x))
  BY <1>1, <1>2, OldestMeasured
<1>4. Works \subseteq Kinds /\ {"start", "stop"} \subseteq Kinds \ Works
  BY DEF Works, Kinds
<1>5. /\ sc[y].do \in Works => DeviceTimes(Works, WorkDone(session), sc, y)
      /\ sc[y] \in {StartEvent, StopEvent} => DeviceTimes(Works, EventStamped(session), sc, y)
  BY <1>2, <1>3, <1>4, DeviceTimesDone
<1>6. sc[y].do \notin Works => sc[y] \in {StartEvent, StopEvent}
  BY <1>3, EventIs DEF Kinds, Works
<1>7. DeviceTimes(Works, session', sc, y)
  BY <1>3, <1>5, <1>6
<1>8. /\ session' \in Sessions(Items) /\ session'.at = session.at
      /\ session'.stream = Tail(session.stream)
      /\ session'.wall = session.wall /\ session'.waited = session.waited
  <2>1. session' \in {WorkDone(session), EventStamped(session)}
    OBVIOUS
  <2> QED
    BY <1>2, <2>1, DeviceKeeps
<1>9. HostTimes(Works, session', sc)
  BY <1>2, <1>8 DEF HostTimes
<1>10. Script' = Script
  BY DEF Script
<1>11. Times(y, Tail(x))'
  BY <1>1, <1>3, <1>7, <1>8, <1>9, <1>10 DEF Times
<1>12. Measuring'
  BY <1>2, <1>8, <1>10 DEF Measuring, MeasuresFit
<1> QED
  BY <1>11, <1>12 DEF MeasureInv

\* A kernel that is counted is a job.
LEMMA CountsJob ==
  /\ \A n, blocks : LookupCounts(n, blocks) => job # None /\ job.do = "lookup"
  /\ \A n, percent, blocks : UpdateCounts(n, percent, blocks) => job # None /\ job.do = "update"
<1>1. ASSUME NEW n, NEW blocks, LookupCounts(n, blocks) PROVE job # None /\ job.do = "lookup"
  BY <1>1, JobIs DEF LookupCounts
<1>2. ASSUME NEW n, NEW percent, NEW blocks, UpdateCounts(n, percent, blocks)
      PROVE  job # None /\ job.do = "update"
  BY <1>2, JobIs DEF UpdateCounts, UpdateGoes
<1> QED
  BY <1>1, <1>2

LEMMA UploadMeasures ==
  ASSUME MeasureInv, UploadTables \/ UploadQuery \/ Stamp
  PROVE  MeasureInv'
<1>1. PICK d, x : Times(d, x)
  BY DEF MeasureInv
<1> DEFINE kind == Head(session.stream).do
<1>2. /\ session.stream # << >> /\ kind \in {"tables", "query", "start", "stop"}
      /\ UNCHANGED <<opt, status, timed, walks, job>>
  BY DEF UploadTables, UploadQuery, Stamp, DeviceAt, UnchangedAbove, kernelVars
<1>3. session' = IF kind \in Works THEN WorkDone(session) ELSE EventStamped(session)
  BY DEF UploadTables, UploadQuery, Stamp, DeviceAt, Works
<1>4. job = None /\ WalksIn
  BY <1>2 DEF MeasureInv, Measuring
<1>5. timed.lookups = Looks(d) /\ timed.updates = Updates(d)
  BY <1>1, <1>4, CountsJob DEF Times, KernelCounts
<1>6. Looks(x[1]) = Looks(d) /\ Updates(x[1]) = Updates(d)
  <2>1. /\ Looks(d) \in Nat /\ Updates(d) \in Nat
        /\ Looks(x[1]) = Looks(d) + 0 /\ Updates(x[1]) = Updates(d) + 0
    <3>1. kind # "lookup" /\ kind # "update"
      BY <1>2
    <3> QED
      BY <1>1, <1>2, <3>1, CountsNext DEF MeasureInv
  <2> QED
    BY ONLY <2>1
<1>7. Looks(x[1])' = Looks(x[1]) /\ Updates(x[1])' = Updates(x[1])
  BY <1>2, LooksKept
<1>8. KernelCounts(x[1])'
  BY <1>2, <1>4, <1>5, <1>6, <1>7 DEF KernelCounts
<1>9. WalksIn'
  BY <1>2, <1>4 DEF WalksIn
<1> QED
  BY <1>1, <1>2, <1>3, <1>4, <1>8, <1>9, DoneMeasures

\* A step that leaves the stream alone.
LEMMA SameMeasures ==
  ASSUME MeasureInv, NEW d, NEW x, Times(d, x), UNCHANGED <<session, opt, status>>, WalksIn',
         timed' \in [lookups : Int, updates : Int], KernelCounts(d)',
         job' # None => /\ session.stream # << >>
                        /\ Head(session.stream).do = job'.do
                        /\ job'.do \in {"lookup", "update"}
  PROVE  MeasureInv'
<1>1. Script' = Script
  BY DEF Script
<1>2. Times(d, x)'
  BY <1>1 DEF Times
<1>3. Measuring'
  BY <1>1 DEF MeasureInv, Measuring, MeasuresFit
<1> QED
  BY <1>2, <1>3 DEF MeasureInv

LEMMA StartMeasures == ASSUME MeasureInv, StartKernel PROVE MeasureInv'
<1>1. PICK d, x : Times(d, x)
  BY DEF MeasureInv
<1>2. PICK sc, y : sc = Script /\ y = x[1]
  OBVIOUS
<1> DEFINE kind == Head(session.stream).do
<1>3. /\ session.stream # << >> /\ kind \in {"lookup", "update"} /\ job = None /\ job'.do = kind
      /\ UNCHANGED <<session, opt, status, timed>> /\ visited' = {}
  BY DEF StartKernel, DeviceAt, UnchangedAbove, LaunchLookup, LaunchUpdate, Launched
<1>4. /\ Measuring /\ opt \in Commands /\ opt.tool # "test" /\ WalksIn
      /\ timed \in [lookups : Int, updates : Int]
  BY DEF MeasureInv, Measuring
<1>5. /\ opt.n \in Nat /\ opt.percent \in 0 .. 100 /\ opt.dim \in Int
      /\ FitsWord(opt.n, opt.percent)
  BY <1>4, CommandAssumption DEF Measuring, MeasuresFit
<1>6. opt.n # 0
  <2>1. y \in 1 .. Len(sc) /\ Head(session.stream) = sc[y]
    BY <1>1, <1>2, <1>3, <1>4, OldestMeasured
  <2> QED
    BY <1>2, <1>3, <1>4, <2>1, ScriptTimeable
<1>7. WalksIn'
  <2>1. walks' = walks \/ walks' \in [Reqs -> Hashes]
    BY DEF StartKernel
  <2> QED
    BY <1>4, <2>1, ScriptAssumption DEF WalksIn
<1>8. timed.lookups = Looks(d) /\ timed.updates = Updates(d)
  BY <1>1, <1>3, CountsJob DEF Times, KernelCounts
<1>9. Looks(d) \in Nat /\ Updates(d) \in Nat
  BY <1>1, <1>2, <1>3, <1>4, CountsNext
<1>10. Looks(d)' = Looks(d) /\ Updates(d)' = Updates(d)
  BY <1>3, LooksKept
<1>11. timed'.lookups = Looks(d)' + IfTimed(0)' /\ timed'.updates = Updates(d)' + IfTimed(0)'
       /\ timed'.lookups = Looks(d)' /\ timed'.updates = Updates(d)'
  BY <1>3, <1>8, <1>9, <1>10 DEF IfTimed
<1>12. PICK n \in Nat \ {0}, percent \in 0 .. 100, dim \in Int :
         n = opt.n /\ percent = opt.percent /\ dim = opt.dim
  BY <1>5, <1>6
<1>13. n = opt'.n /\ percent = opt'.percent
  BY <1>3, <1>12
<1>14. KernelCounts(d)'
  <2>1. CASE LaunchLookup(opt.n, opt.dim)
    <3>1. PICK blocks \in 1 .. MaxBlocks :
            LookupCounts(n, blocks)' /\ Cardinality(Begun(n, blocks)') = 0
      BY <1>12, <2>1, LookupCountsStart
    <3>2. LookupCounts(opt.n, blocks)' /\ Cardinality(Begun(opt.n, blocks))' = 0
      BY <1>13, <3>1
    <3>3. timed'.lookups = Looks(d)' + IfTimed(Cardinality(Begun(opt.n, blocks)))'
      BY <1>11, <3>2 DEF IfTimed
    <3> QED
      BY <1>11, <3>2, <3>3 DEF KernelCounts
  <2>2. CASE LaunchUpdate(opt.n, opt.dim, opt.percent)
    <3>1. PICK blocks \in 1 .. MaxBlocks : UpdateCounts(n, percent, blocks)'
      <4>1. LaunchUpdate(n, dim, percent) /\ FitsWord(n, percent)
        BY <1>5, <1>12, <2>2
      <4> QED
        BY <1>3, <1>7, <4>1, UpdateCountsStart
    <3>2. UpdateCounts(opt.n, opt.percent, blocks)' /\ Cardinality(visited)' = 0
      <4>1. Cardinality(visited') = 0
        BY <1>3, FS_EmptySet
      <4> QED
        BY <1>13, <3>1, <4>1
    <3>3. timed'.updates = Updates(d)' + IfTimed(Cardinality(visited))'
      BY <1>11, <3>2 DEF IfTimed
    <3> QED
      BY <1>11, <3>2, <3>3 DEF KernelCounts
  <2> QED
    BY <2>1, <2>2 DEF StartKernel
<1> QED
  BY <1>1, <1>3, <1>4, <1>7, <1>14, SameMeasures

LEMMA TileMeasures ==
  ASSUME MeasureInv, NEW d, NEW x, Times(d, x), UNCHANGED <<session, opt>>,
         NEW c \in Cores, LookupTile(c)
  PROVE  KernelCounts(d)' /\ timed' \in [lookups : Int, updates : Int]
<1>1. PICK n : n = opt.n
  OBVIOUS
<1>2. n = opt'.n /\ (FullTile(c) \/ TailTile(c)) /\ Running(c, "lookup")
      /\ timed' = [timed EXCEPT !.lookups = @ + IfTimed(Valid(c))]
  BY <1>1 DEF LookupTile, FullTile, TailTile, Count, IfTimed
<1>3. PICK blocks \in 1 .. MaxBlocks :
        /\ LookupCounts(n, blocks)
        /\ timed.lookups = Looks(d) + IfTimed(Cardinality(Begun(n, blocks)))
        /\ timed.updates = Updates(d)
  BY <1>1, <1>2, CountsJob DEF Times, KernelCounts, Running
<1>4. /\ LookupCounts(n, blocks)' /\ Valid(c) \in Nat
      /\ Cardinality(Begun(n, blocks)') = Cardinality(Begun(n, blocks)) + Valid(c)
  BY <1>2, <1>3, LookupCountsTile
<1>5. n \in Nat \ {0} /\ Cardinality(Begun(n, blocks)) \in Nat
  BY <1>3, BegunFinite DEF LookupCounts
<1>6. timed \in [lookups : Int, updates : Int] /\ session.stream # << >>
  BY <1>2 DEF MeasureInv, Measuring, Running
<1>7. Looks(d) \in Nat
  <2>1. PICK y : y = x[1]
    OBVIOUS
  <2> QED
    BY <1>6, <2>1, CountsNext DEF MeasureInv
<1>8. Looks(d)' = Looks(d) /\ Updates(d)' = Updates(d)
  BY LooksKept
<1>9. /\ timed' \in [lookups : Int, updates : Int] /\ timed'.updates = timed.updates
      /\ timed'.lookups = timed.lookups + IfTimed(Valid(c))
  <2>1. IfTimed(Valid(c)) \in Int
    BY <1>4 DEF IfTimed
  <2> QED
    BY <1>2, <1>6, <2>1
<1> DEFINE v == Valid(c)
           b == Cardinality(Begun(n, blocks))
<1>10. timed'.lookups = Looks(d) + IfTimed(b + v)
  <2>1. timed'.lookups = (Looks(d) + IfTimed(b)) + IfTimed(v) /\ v \in Nat /\ b \in Nat
    BY <1>3, <1>4, <1>5, <1>9
  <2> HIDE DEF v, b
  <2> QED
    BY <1>7, <2>1 DEF IfTimed
<1>11. timed'.lookups = Looks(d)' + IfTimed(Cardinality(Begun(opt.n, blocks)))'
  <2>1. Cardinality(Begun(opt.n, blocks))' = b + v
    BY <1>2, <1>4
  <2> HIDE DEF b, v
  <2> QED
    BY <1>8, <1>10, <2>1 DEF IfTimed
<1>12. LookupCounts(opt.n, blocks)'
  BY <1>2, <1>4
<1> QED
  BY <1>3, <1>8, <1>9, <1>11, <1>12 DEF KernelCounts

LEMMA EntryMeasures ==
  ASSUME MeasureInv, NEW d, NEW x, Times(d, x), UNCHANGED <<session, opt>>,
         NEW c \in Cores, Update(c)
  PROVE  KernelCounts(d)' /\ timed' \in [lookups : Int, updates : Int]
<1>1. PICK n, percent, entry : n = opt.n /\ percent = opt.percent /\ entry = <<at[c], PositionOf(c)>>
  OBVIOUS
<1> DEFINE v == IF entry \in visited THEN 0 ELSE 1
           b == Cardinality(visited)
<1>2. /\ n = opt'.n /\ percent = opt'.percent /\ UpdateEntry(c) /\ Running(c, "update")
      /\ visited' = visited \cup {entry}
      /\ timed' = [timed EXCEPT !.updates = @ + IfTimed(v)]
  BY <1>1 DEF Update, UpdateEntry, Count, IfTimed
<1>3. PICK blocks \in 1 .. MaxBlocks :
        /\ UpdateCounts(n, percent, blocks)
        /\ timed.lookups = Looks(d)
        /\ timed.updates = Updates(d) + IfTimed(b)
  BY <1>1, <1>2, CountsJob DEF Times, KernelCounts, Running
<1>4. UpdateCounts(n, percent, blocks)'
  BY <1>1, <1>2, <1>3, UpdateCountsEntry
<1>5. b \in Nat /\ Cardinality(visited') = b + v
  <2>1. IsFiniteSet(visited) /\ b \in Nat
    BY <1>3, VisitedFinite
  <2>2. Cardinality(visited \cup {entry}) = IF entry \in visited THEN b ELSE b + 1
    BY <2>1, FS_AddElement
  <2>3. Cardinality(visited') = IF entry \in visited THEN b ELSE b + 1
    BY <1>2, <2>2
  <2> HIDE DEF b
  <2> QED
    BY <2>1, <2>3
<1>6. timed \in [lookups : Int, updates : Int] /\ session.stream # << >>
  BY <1>2 DEF MeasureInv, Measuring, Running
<1>7. Updates(d) \in Nat
  <2>1. PICK y : y = x[1]
    OBVIOUS
  <2> QED
    BY <1>6, <2>1, CountsNext DEF MeasureInv
<1>8. Looks(d)' = Looks(d) /\ Updates(d)' = Updates(d)
  BY LooksKept
<1>9. /\ timed' \in [lookups : Int, updates : Int] /\ timed'.lookups = timed.lookups
      /\ timed'.updates = timed.updates + IfTimed(v)
  <2>1. IfTimed(v) \in Int
    BY DEF IfTimed
  <2> HIDE DEF v
  <2> QED
    BY <1>2, <1>6, <2>1
<1>10. timed'.updates = Updates(d) + IfTimed(b + v)
  <2>1. timed'.updates = (Updates(d) + IfTimed(b)) + IfTimed(v) /\ v \in Nat /\ b \in Nat
    BY <1>3, <1>5, <1>9
  <2> HIDE DEF v, b
  <2> QED
    BY <1>7, <2>1 DEF IfTimed
<1>11. timed'.updates = Updates(d)' + IfTimed(Cardinality(visited))'
  <2>1. Cardinality(visited)' = b + v
    BY <1>5
  <2> HIDE DEF b, v
  <2> QED
    BY <1>8, <1>10, <2>1 DEF IfTimed
<1>12. UpdateCounts(opt.n, opt.percent, blocks)'
  BY <1>2, <1>4
<1> QED
  BY <1>3, <1>8, <1>9, <1>11, <1>12 DEF KernelCounts

LEMMA CoreMeasures == ASSUME MeasureInv, KernelStep PROVE MeasureInv'
<1>1. PICK d, x : Times(d, x)
  BY DEF MeasureInv
<1>2. PICK c \in Cores :
        \/ LookupTile(c)
        \/ Update(c)
        \/ (CopyOut(c) \/ NextRequest(c)) /\ UNCHANGED <<visited, timed>>
  BY DEF KernelStep
<1>3. UNCHANGED <<session, opt, status>>
  BY DEF KernelStep, UnchangedAbove
<1>4. job' = job /\ walks' = walks
  BY <1>2 DEF LookupTile, FullTile, TailTile, StartCopy, Update, UpdateEntry, CopyOut,
              NextRequest
<1>5. Measuring
  BY DEF MeasureInv
<1>6. KernelCounts(d)' /\ timed' \in [lookups : Int, updates : Int]
  <2>1. CASE LookupTile(c)
    BY <1>1, <1>3, <2>1, TileMeasures
  <2>2. CASE Update(c)
    BY <1>1, <1>3, <2>2, EntryMeasures
  <2>3. CASE CopyOut(c) /\ UNCHANGED <<visited, timed>>
    <3>1. UNCHANGED <<at, turn>>
      BY <2>3 DEF CopyOut
    <3>2. KernelCounts(d)'
      BY <1>1, <1>3, <1>4, <2>3, <3>1, CountsKept DEF Times
    <3> QED
      BY <1>5, <2>3, <3>2 DEF Measuring
  <2>4. CASE NextRequest(c) /\ UNCHANGED <<visited, timed>>
    <3>1. PICK n, percent : n = opt.n /\ percent = opt.percent
      OBVIOUS
    <3>2. PICK blocks \in 1 .. MaxBlocks :
            /\ UpdateCounts(n, percent, blocks)
            /\ timed.lookups = Looks(d)
            /\ timed.updates = Updates(d) + IfTimed(Cardinality(visited))
      BY <1>1, <2>4, <3>1, CountsJob DEF Times, KernelCounts, NextRequest, Running
    <3>3. UpdateCounts(n, percent, blocks)'
      BY <2>4, <3>2, UpdateCountsRequest
    <3>4. Looks(d)' = Looks(d) /\ Updates(d)' = Updates(d)
      BY <1>3, LooksKept
    <3>5. UpdateCounts(opt.n, opt.percent, blocks)'
      BY <1>3, <3>1, <3>3
    <3>6. timed'.updates = Updates(d)' + IfTimed(Cardinality(visited))'
      BY <1>3, <2>4, <3>2, <3>4 DEF IfTimed
    <3>7. KernelCounts(d)'
      BY <2>4, <3>2, <3>4, <3>5, <3>6 DEF KernelCounts
    <3> QED
      BY <1>5, <2>4, <3>7 DEF Measuring
  <2> QED
    BY <1>2, <2>1, <2>2, <2>3, <2>4
<1>7. WalksIn'
  BY <1>4, <1>5 DEF Measuring, WalksIn
<1>8. job' # None => /\ session.stream # << >>
                     /\ Head(session.stream).do = job'.do
                     /\ job'.do \in {"lookup", "update"}
  BY <1>4, <1>5 DEF Measuring
<1> QED
  BY <1>1, <1>3, <1>6, <1>7, <1>8, SameMeasures

\* A kernel that ends has done all that is counted for it.
LEMMA EndMeasures == ASSUME MeasureInv, EndKernel PROVE MeasureInv'
<1>1. PICK d, x : Times(d, x)
  BY DEF MeasureInv
<1>2. PICK y : y = x[1]
  OBVIOUS
<1> DEFINE kind == Head(session.stream).do
<1>3. /\ KernelDone /\ job # None /\ job' = None /\ session.stream # << >>
      /\ kind = job.do /\ kind \in {"lookup", "update"}
      /\ UNCHANGED <<opt, status, timed, walks>> /\ session' = WorkDone(session)
  BY DEF EndKernel, KernelDone, UnchangedAbove, MeasureInv, Measuring
<1>4. session' = IF kind \in Works THEN WorkDone(session) ELSE EventStamped(session)
  BY <1>3 DEF Works
<1>5. timed.lookups = Looks(y) /\ timed.updates = Updates(y)
  <2> DEFINE l == IfTimed(ReqNum * opt.n)
             u == IfTimed(ReqNum * Num(opt.n, opt.percent))
  <2>1. /\ Looks(d) \in Nat /\ Updates(d) \in Nat
        /\ Looks(y) = Looks(d) + IF kind = "lookup" THEN l ELSE 0
        /\ Updates(y) = Updates(d) + IF kind = "update" THEN u ELSE 0
    BY <1>1, <1>2, <1>3, CountsNext DEF MeasureInv
  <2>2. CASE \E blocks \in 1 .. MaxBlocks :
               /\ LookupCounts(opt.n, blocks)
               /\ timed.lookups = Looks(d) + IfTimed(Cardinality(Begun(opt.n, blocks)))
               /\ timed.updates = Updates(d)
    <3>1. PICK blocks \in 1 .. MaxBlocks :
               /\ LookupCounts(opt.n, blocks)
               /\ timed.lookups = Looks(d) + IfTimed(Cardinality(Begun(opt.n, blocks)))
               /\ timed.updates = Updates(d)
      BY <2>2
    <3>2. kind = "lookup" /\ Cardinality(Begun(opt.n, blocks)) = ReqNum * opt.n
      BY <1>3, <3>1, CountsJob, LookupCountsEnd
    <3>3. timed.lookups = Looks(d) + l
      BY <3>1, <3>2
    <3> HIDE DEF l, u, kind
    <3> QED
      BY <2>1, <3>1, <3>2, <3>3
  <2>3. CASE \E blocks \in 1 .. MaxBlocks :
               /\ UpdateCounts(opt.n, opt.percent, blocks)
               /\ timed.lookups = Looks(d)
               /\ timed.updates = Updates(d) + IfTimed(Cardinality(visited))
    <3>1. PICK blocks \in 1 .. MaxBlocks :
               /\ UpdateCounts(opt.n, opt.percent, blocks)
               /\ timed.lookups = Looks(d)
               /\ timed.updates = Updates(d) + IfTimed(Cardinality(visited))
      BY <2>3
    <3>2. kind = "update" /\ Cardinality(visited) = ReqNum * Num(opt.n, opt.percent)
      BY <1>3, <3>1, CountsJob, UpdateCountsEnd
    <3>3. timed.updates = Updates(d) + u
      BY <3>1, <3>2
    <3> HIDE DEF l, u, kind
    <3> QED
      BY <2>1, <3>1, <3>2, <3>3
  <2> QED
    BY <1>1, <1>3, <2>2, <2>3 DEF Times, KernelCounts
<1>6. Looks(y)' = Looks(y) /\ Updates(y)' = Updates(y)
  BY <1>3, LooksKept
<1>7. KernelCounts(y)'
  BY <1>3, <1>5, <1>6 DEF KernelCounts
<1>8. WalksIn'
  BY <1>3 DEF MeasureInv, Measuring, WalksIn
<1> QED
  BY <1>1, <1>2, <1>3, <1>4, <1>7, <1>8, DoneMeasures

LEMMA MeasureNext == MeasureInv /\ [Next]_vars => MeasureInv'
<1> SUFFICES ASSUME MeasureInv, [Next]_vars PROVE MeasureInv'
  OBVIOUS
<1>1. CASE Host
  BY <1>1, HostStepMeasures
<1>2. CASE UploadTables \/ UploadQuery \/ Stamp
  BY <1>2, UploadMeasures
<1>3. CASE StartKernel
  BY <1>3, StartMeasures
<1>4. CASE KernelStep
  BY <1>4, CoreMeasures
<1>5. CASE EndKernel
  BY <1>5, EndMeasures
<1>6. CASE UNCHANGED vars
  <2>1. PICK d, x : Times(d, x)
    BY DEF MeasureInv
  <2>2. UNCHANGED <<session, opt, status, visited, timed, job, at, turn, walks>>
    BY <1>6 DEF vars, scriptVars, kernelVars, coreVars
  <2>3. KernelCounts(d)'
    BY <2>1, <2>2, CountsKept DEF Times
  <2>4. Measuring
    BY DEF MeasureInv
  <2>5. WalksIn' /\ timed' \in [lookups : Int, updates : Int]
        /\ (job' # None => /\ session.stream # << >>
                           /\ Head(session.stream).do = job'.do
                           /\ job'.do \in {"lookup", "update"})
    BY <2>2, <2>4 DEF Measuring, WalksIn
  <2> QED
    BY <2>1, <2>2, <2>3, <2>5, SameMeasures
<1> QED
  BY <1>1, <1>2, <1>3, <1>4, <1>5, <1>6 DEF Next, Device

-----------------------------------------------------------------------------
(* The theorem.                                                             *)

LEMMA ModesRunIn ==
  ASSUME opt \in Commands, opt.tool # "test"
  PROVE  ModesRun("lookup") \in Nat /\ ModesRun("update") \in Nat
<1>1. CASE opt.tool = "bench"
  BY <1>1 DEF ModesRun
<1>2. CASE opt.tool = "profile"
  <2>1. PICK n \in Nat : n = Len(opt.modes) /\ DOMAIN opt.modes = 1 .. n
    BY <1>2, CommandAssumption
  <2>2. n + 1 \in Nat \ {0} /\ (n + 1) - 1 = n
    OBVIOUS
  <2>3. \A kind : Cardinality(ModesOf(opt.modes, kind, (n + 1) - 1)) \in Nat
    BY <2>2, ModesOfNext
  <2>4. \A kind : ModesRun(kind) = Cardinality(ModesOf(opt.modes, kind, n))
    BY <1>2, <2>1 DEF ModesRun, ModesOf
  <2> QED
    BY <2>2, <2>3, <2>4
<1>3. CASE opt.tool = "memory"
  <2>1. PICK n \in Nat : n = Len(opt.patterns) /\ DOMAIN opt.patterns = 1 .. n
    BY <1>3, CommandAssumption
  <2>2. IsFiniteSet(Cases(opt, n))
    BY CasesFinite
  <2>3. Cardinality(Cases(opt, n)) \in Nat
    BY <2>2, FS_CardinalityType
  <2>4. ModesRun("lookup") = Cardinality(Cases(opt, n)) /\ ModesRun("update") = 0
    BY <1>3, <2>1 DEF ModesRun, Cases
  <2> QED
    BY <2>3, <2>4
<1> QED
  BY <1>1, <1>2, <1>3, CommandAssumption

LEMMA MeasureEnd ==
  ASSUME MeasureInv, status = "passed"
  PROVE  /\ timed.lookups = LookupCount
         /\ timed.updates = UpdateCount
         /\ opt.tool # "bench" => session.waited = session.measured
<1>1. PICK d, x, sc : Times(d, x) /\ sc = Script
  BY DEF MeasureInv
<1>2. /\ opt \in Commands /\ opt.tool # "test" /\ session.at = Len(sc)
      /\ Tracks(Kinds, session, sc, d, x)
      /\ DeviceTimes(Works, session, sc, d) /\ HostTimes(Works, session, sc)
  BY <1>1 DEF MeasureInv, Measuring, Times
<1>3. Section(opt, sc, ModesRun("lookup") * Iters, ModesRun("update") * Iters)
  BY <1>1, <1>2, ScriptSection
<1>4. /\ sc \in Seq(Items) /\ Settled(sc)
      /\ Alternates(sc, StartEvent, StopEvent) /\ Alternates(sc, ReadClock, AddClock)
  BY <1>3 DEF Section, Timeable
<1>5. /\ ~ Between(sc, d + 1, StartEvent, StopEvent)
      /\ \A W : Timed(W, sc, d, StartEvent, StopEvent) =
                  Timed(W, sc, Len(sc), StartEvent, StopEvent)
  <2>1. {"start", "stop"} \subseteq Kinds
    BY DEF Kinds
  <2>2. ~ Between(sc, d + 1, StartEvent, StopEvent)
    BY <1>2, <1>4, <2>1, TimedAtEnd
  <2>3. \A W : Timed(W, sc, d, StartEvent, StopEvent) =
                 Timed(W, sc, Len(sc), StartEvent, StopEvent)
    BY <1>2, <1>4, <2>1, TimedAtEnd
  <2> QED
    BY <2>2, <2>3
<1>6. session.timing = FALSE
  BY <1>2, <1>5 DEF DeviceTimes
<1>7. \A k \in Int : IfTimed(k) = 0
  BY <1>6 DEF IfTimed
<1>8. timed.lookups = Looks(d) /\ timed.updates = Updates(d)
  <2>0. timed.lookups \in Int /\ timed.updates \in Int
    BY DEF MeasureInv, Measuring
  <2>1. \A k : IfTimed(k) = 0
    BY <1>6 DEF IfTimed
  <2>2. /\ Launches("lookup", d) \in Nat /\ Launches("update", d) \in Nat
    <3>1. d \in Nat
      BY <1>2 DEF Tracks
    <3> QED
      BY <3>1, WorkFinite DEF Launches
  <2>3. opt.n \in Nat /\ Num(opt.n, opt.percent) \in Nat /\ ReqNum \in Nat
    BY <1>2, CommandAssumption, NumIs
  <2>4. Looks(d) \in Nat /\ Updates(d) \in Nat
    BY <2>2, <2>3 DEF Looks, Updates
  <2> QED
    BY <1>1, <2>1, <2>4 DEF Times, KernelCounts
<1>9. \A kind : Launches(kind, d) = TimedLaunches(kind, sc)
  BY <1>1, <1>5 DEF Launches, TimedLaunches
<1>10. opt.n \in Nat /\ opt.percent \in 0 .. 100 /\ ReqNum \in Nat /\ Iters \in Nat
       /\ ModesRun("lookup") \in Nat /\ ModesRun("update") \in Nat
  BY <1>2, CommandAssumption, ScriptAssumption, ModesRunIn
<1>11. timed.lookups = LookupCount
  <2>1. CASE opt.n = 0
    <3>1. Launches("lookup", d) \in Nat
      <4>1. d \in Nat
        BY <1>2 DEF Tracks
      <4> QED
        BY <4>1, WorkFinite DEF Launches
    <3>2. Looks(d) = 0
      BY <1>10, <2>1, <3>1 DEF Looks
    <3>3. LookupCount = 0
      BY <1>10, <2>1 DEF LookupCount
    <3> QED
      BY <1>8, <3>2, <3>3
  <2>2. CASE opt.n # 0
    <3>1. TimedLaunches("lookup", sc) = ModesRun("lookup") * Iters
      BY <1>3, <2>2 DEF Section
    <3>2. timed.lookups = (ModesRun("lookup") * Iters) * (ReqNum * opt.n)
      BY <1>8, <1>9, <3>1 DEF Looks
    <3> QED
      BY <1>10, <3>2 DEF LookupCount
  <2> QED
    BY <2>1, <2>2
<1>12. timed.updates = UpdateCount
  <2>1. PICK num \in Nat : num = Num(opt.n, opt.percent)
    BY <1>10, NumIs
  <2>2. UpdateCount = ModesRun("update") * Iters * ReqNum * num
    BY <2>1 DEF UpdateCount, Num
  <2>3. CASE opt.n = 0 \/ opt.percent = 0
    <3>1. num = 0
      BY <1>10, <2>1, <2>3, NumIs
    <3>2. Launches("update", d) \in Nat
      <4>1. d \in Nat
        BY <1>2 DEF Tracks
      <4> QED
        BY <4>1, WorkFinite DEF Launches
    <3>3. Updates(d) = 0
      BY <1>10, <2>1, <3>1, <3>2 DEF Updates
    <3>4. UpdateCount = 0
      BY <1>10, <2>2, <3>1
    <3> QED
      BY <1>8, <3>3, <3>4
  <2>4. CASE opt.n # 0 /\ opt.percent # 0
    <3>1. TimedLaunches("update", sc) = ModesRun("update") * Iters
      BY <1>3, <2>4 DEF Section
    <3>2. timed.updates = (ModesRun("update") * Iters) * (ReqNum * num)
      BY <1>8, <1>9, <2>1, <3>1 DEF Updates
    <3> QED
      BY <1>10, <2>2, <3>2
  <2> QED
    BY <2>3, <2>4
<1>13. ASSUME opt.tool # "bench" PROVE session.waited = session.measured
  <2>1. /\ session.measured \in Int /\ session.waited \in Int
    BY DEF MeasureInv, Measuring, Sessions
  <2>2. session.measured = Cardinality(Timed(Works, sc, Len(sc), StartEvent, StopEvent))
    BY <1>2, <1>5, <1>6, <2>1 DEF DeviceTimes
  <2>3. ~ Between(sc, Len(sc) + 1, ReadClock, AddClock)
    BY <1>4 DEF Alternates
  <2>4. session.waited = Cardinality(Timed(Works, sc, Len(sc), ReadClock, AddClock))
    BY <1>2, <2>1, <2>3 DEF HostTimes
  <2> QED
    BY <1>3, <1>13, <2>2, <2>4 DEF Section
<1> QED
  BY <1>11, <1>12, <1>13

(* The operations between the two events are those the throughput is         *)
(* computed from: every key of every iteration's query, and as many          *)
(* different positions as the percentage says, whatever the seeds, on any    *)
(* number of cores and however far the host is ahead of the device; and the  *)
(* host's clock, where it is read, goes with the device's. The percentage of *)
(* a query has to fit the kernel's word.                                     *)
THEOREM MeasuresWhatItCounts == MeasuresFit /\ Spec => []TimesWhatItCounts
<1> DEFINE I == opt.tool = "test" \/ MeasureInv
<1>1. Init /\ MeasuresFit => I
  BY MeasureInit
<1>2. I /\ [Next]_vars => I'
  <2>1. ASSUME opt.tool = "test", [Next]_vars PROVE opt'.tool = "test"
    <3>1. opt' = opt
      BY <2>1 DEF Next, Host, Device, vars, scriptVars, Enqueue, Wait, ReadWall,
                  CheckPatterns, Check, UnchangedBelow, UploadTables, UploadQuery, Stamp,
                  StartKernel, KernelStep, EndKernel, UnchangedAbove
    <3> QED
      BY <2>1, <3>1
  <2> QED
    BY <2>1, MeasureNext
<1>3. I => TimesWhatItCounts
  BY MeasureEnd DEF TimesWhatItCounts
<1> HIDE DEF I
<1> QED
  BY <1>1, <1>2, <1>3, PTL DEF Spec

=============================================================================
