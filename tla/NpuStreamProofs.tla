--------------------------- MODULE NpuStreamProofs ---------------------------
(***************************************************************************)
(* What holds of any script over NpuStream: the items on the stream are the *)
(* script's instructions from some position on, and what has been timed is  *)
(* what lies between two instructions of the script. The scripts' modules   *)
(* use these lemmas.                                                        *)
(***************************************************************************)
EXTENDS NpuStream, Integers, FiniteSets, SequenceTheorems, FiniteSetTheorems,
        WellFoundedInduction, TLAPS

-----------------------------------------------------------------------------
(* Scripts are concatenations.                                              *)

\* A set of natural numbers that is not empty has a least element.
LEMMA Least ==
  ASSUME NEW D \in SUBSET Nat, D # {}
  PROVE  \E m \in D : \A d \in D : m <= d
<1> DEFINE R == StrictSubsetOrdering(Nat)
           F == FiniteSubsetsOf(Nat)
           Below(d) == {i \in Nat : i < d}
           B == {Below(d) : d \in D}
<1>1. \A d \in D : Below(d) \in F
  <2> SUFFICES ASSUME NEW d \in D PROVE Below(d) \in F
    OBVIOUS
  <2>1. IsFiniteSet(Below(d))
    BY FS_BoundedSetOfNaturals
  <2> QED
    BY <2>1 DEF FiniteSubsetsOf
<1>2. B \subseteq F /\ B # {}
  BY <1>1
<1>3. IsWellFoundedOn(R, F)
  BY FS_StrictSubsetOrderingWellFounded
<1>4. PICK b \in B : \A y \in B : ~ (<<y, b>> \in R)
  <2> HIDE DEF R, F, B
  <2> QED
    BY <1>2, <1>3, WFMin, Zenon
<1>5. PICK m \in D : b = Below(m)
  OBVIOUS
<1>6. ASSUME NEW d \in D, d < m PROVE FALSE
  <2>1. Below(d) \subseteq Below(m) /\ Below(d) # Below(m)
    BY <1>6
  <2>2. <<Below(d), b>> \in R
    BY <2>1, <1>5 DEF StrictSubsetOrdering
  <2> QED
    BY <2>2, <1>4
<1> QED
  BY <1>6


\* FlattenSeq concatenates one sequence after the other.
LEMMA FlattenUnfolds ==
  ASSUME NEW S, NEW seqs \in Seq(Seq(S)), Len(seqs) > 0
  PROVE  \E h \in [1 .. Len(seqs) -> Seq(S)] :
           /\ FlattenSeq(seqs) = h[Len(seqs)]
           /\ h[1] = seqs[1]
           /\ \A i \in 1 .. Len(seqs) - 1 : h[i + 1] = h[i] \o seqs[i + 1]
<1> DEFINE n == Len(seqs)
           Joins(f) == f = [i \in 1 .. n |-> IF i = 1 THEN seqs[i] ELSE f[i - 1] \o seqs[i]]
           Upto(m, g) == \A i \in 1 .. m :
                           g[i] = IF i = 1 THEN seqs[i] ELSE g[i - 1] \o seqs[i]
           Has(m) == \E g \in [1 .. m -> Seq(S)] : Upto(m, g)
           Bad == {m \in 1 .. n : ~ Has(m)}
           flatten == CHOOSE f : Joins(f)
<1>1. n \in Nat \ {0} /\ \A i \in 1 .. n : seqs[i] \in Seq(S)
  OBVIOUS
<1>2. ASSUME Bad # {} PROVE FALSE
  <2>0. Bad \in SUBSET Nat
    <3> HIDE DEF Has
    <3> QED
      BY <1>1
  <2>1. PICK m \in Bad : \A b \in Bad : m <= b
    <3> HIDE DEF Bad
    <3> QED
      BY <2>0, <1>2, Least
  <2>11. m \in 1 .. n /\ ~ Has(m) /\ \A b \in 1 .. n : ~ Has(b) => m <= b
    <3> HIDE DEF Has
    <3> QED
      BY <2>1
  <2>2. m # 1
    <3>1. SUFFICES ASSUME m = 1 PROVE Has(1)
      BY <2>11
    <3> DEFINE g == [i \in 1 .. 1 |-> seqs[1]]
    <3>2. g \in [1 .. 1 -> Seq(S)]
      BY <1>1
    <3>3. Upto(1, g)
      OBVIOUS
    <3> QED
      BY <3>2, <3>3
  <2>3. m - 1 \in 1 .. n /\ Has(m - 1)
    <3> HIDE DEF Has
    <3> QED
      BY <2>11, <2>2, <1>1
  <2>4. PICK g \in [1 .. m - 1 -> Seq(S)] : Upto(m - 1, g)
    BY <2>3
  <2> DEFINE e == g[m - 1] \o seqs[m]
             f == [i \in 1 .. m |-> IF i < m THEN g[i] ELSE e]
  <2>5. e \in Seq(S)
    <3>1. g[m - 1] \in Seq(S) /\ seqs[m] \in Seq(S)
      BY <2>3, <2>1, <1>1
    <3> QED
      BY <3>1, ConcatProperties
  <2>6. f \in [1 .. m -> Seq(S)]
    <3> HIDE DEF e
    <3> QED
      BY <2>5, <2>3
  <2>7. Upto(m, f)
    <3> SUFFICES ASSUME NEW i \in 1 .. m
                 PROVE  f[i] = IF i = 1 THEN seqs[i] ELSE f[i - 1] \o seqs[i]
      OBVIOUS
    <3>1. CASE i = m
      <4>1. f[i] = e /\ i # 1
        <5>1. i \in 1 .. m /\ ~ i < m /\ i # 1
          BY <3>1, <2>2, <2>11
        <5> HIDE DEF e
        <5> QED
          BY <5>1
      <4>2. i - 1 \in 1 .. m /\ i - 1 < m /\ i - 1 = m - 1
        BY <3>1, <2>3, <1>1
      <4>3. f[i - 1] = g[m - 1]
        <5> HIDE DEF e
        <5> QED
          BY <4>2
      <4> QED
        BY <4>1, <4>3, <3>1
    <3>2. CASE i # m
      <4>1. i \in 1 .. m - 1 /\ f[i] = g[i]
        BY <3>2, <2>3, <1>1
      <4>2. i # 1 => f[i - 1] = g[i - 1]
        BY <4>1, <2>3, <1>1
      <4> QED
        BY <4>1, <4>2, <2>4
    <3> QED
      BY <3>1, <3>2
  <2> QED
    BY <2>6, <2>7, <2>11
<1>3. PICK g \in [1 .. n -> Seq(S)] : Upto(n, g)
  <2>1. Has(n)
    <3> HIDE DEF Has
    <3> QED
      BY <1>1, <1>2
  <2> QED
    BY <2>1
<1>4. Joins(g)
  BY <1>3
<1>5. Joins(flatten)
  <2> HIDE DEF Joins
  <2> QED
    BY <1>4
<1>6. FlattenSeq(seqs) = flatten[n]
  BY <1>1 DEF FlattenSeq
<1>7. \A i \in 1 .. n : flatten[i] = IF i = 1 THEN seqs[i] ELSE flatten[i - 1] \o seqs[i]
  <2>1. flatten = [i \in 1 .. n |-> IF i = 1 THEN seqs[i] ELSE flatten[i - 1] \o seqs[i]]
    BY <1>5
  <2> HIDE DEF flatten
  <2> QED
    BY <2>1
<1> HIDE DEF flatten
<1>8. flatten[1] = seqs[1] /\ \A i \in 1 .. n - 1 : flatten[i + 1] = flatten[i] \o seqs[i + 1]
  <2>1. flatten[1] = seqs[1]
    BY <1>7, <1>1
  <2>2. ASSUME NEW i \in 1 .. n - 1 PROVE flatten[i + 1] = flatten[i] \o seqs[i + 1]
    <3>1. i + 1 \in 1 .. n /\ i + 1 # 1 /\ (i + 1) - 1 = i
      BY <1>1
    <3>2. flatten[i + 1] = flatten[(i + 1) - 1] \o seqs[i + 1]
      BY <3>1, <1>7
    <3> QED
      BY <3>1, <3>2
  <2> QED
    BY <2>1, <2>2
<1>9. \A i \in 1 .. n : flatten[i] \in Seq(S)
  <2> DEFINE Odd == {i \in 1 .. n : flatten[i] \notin Seq(S)}
  <2>1. ASSUME Odd # {} PROVE FALSE
    <3>0. Odd \in SUBSET Nat
      BY <1>1
    <3>1. PICK m \in Odd : \A b \in Odd : m <= b
      <4> HIDE DEF Odd
      <4> QED
        BY <3>0, <2>1, Least
    <3>2. m # 1
      BY <3>1, <1>8, <1>1
    <3>3. m - 1 \in 1 .. n - 1 /\ flatten[m - 1] \in Seq(S) /\ seqs[m] \in Seq(S)
      BY <3>1, <3>2, <1>1
    <3>4. flatten[m] = flatten[m - 1] \o seqs[m]
      BY <3>1, <3>2, <1>7
    <3> QED
      <4>1. flatten[m] \in Seq(S)
        BY <3>3, <3>4, ConcatProperties
      <4> QED
        BY <4>1, <3>1
  <2> QED
    BY <2>1
<1> DEFINE h == [i \in 1 .. n |-> flatten[i]]
<1>10. h \in [1 .. n -> Seq(S)] /\ FlattenSeq(seqs) = h[n] /\ h[1] = seqs[1]
         /\ \A i \in 1 .. n - 1 : h[i + 1] = h[i] \o seqs[i + 1]
  <2>1. n \in 1 .. n /\ 1 \in 1 .. n /\ \A i \in 1 .. n - 1 : i \in 1 .. n /\ i + 1 \in 1 .. n
    BY <1>1
  <2>2. h \in [1 .. n -> Seq(S)] /\ \A i \in 1 .. n : h[i] = flatten[i]
    BY <1>9
  <2> HIDE DEF h
  <2> QED
    BY <1>6, <1>8, <2>1, <2>2
<1> QED
  BY <1>10

\* Concatenations of sequences over a set are sequences over that set.
LEMMA FlattenIn ==
  ASSUME NEW S, NEW seqs \in Seq(Seq(S))
  PROVE  FlattenSeq(seqs) \in Seq(S)
<1>1. CASE Len(seqs) = 0
  BY <1>1 DEF FlattenSeq
<1>2. CASE Len(seqs) # 0
  <2>1. PICK h \in [1 .. Len(seqs) -> Seq(S)] : FlattenSeq(seqs) = h[Len(seqs)]
    <3>1. Len(seqs) > 0
      BY <1>2
    <3> QED
      BY <3>1, FlattenUnfolds
  <2>2. Len(seqs) \in 1 .. Len(seqs)
    BY <1>2
  <2> QED
    BY ONLY <2>1, <2>2
<1> QED
  BY <1>1, <1>2

LEMMA RepeatIn ==
  ASSUME NEW S, NEW calls \in Seq(S), NEW n \in Nat
  PROVE  Repeat(n, LAMBDA i : calls) \in Seq(S)
<1>1. [i \in 1 .. n |-> calls] \in Seq(Seq(S))
  OBVIOUS
<1> QED
  BY <1>1, FlattenIn DEF Repeat

\* What holds of nothing, and with one more of the sequences if it held without
\* it, holds of their concatenation. T relates sequences to what g is of them.
LEMMA FlattenInduces ==
  ASSUME NEW S, NEW seqs \in Seq(Seq(S)), NEW T, NEW g,
         <<<< >>, g[0]>> \in T,
         \A i \in 1 .. Len(seqs) : \A f \in Seq(S) :
           <<f, g[i - 1]>> \in T => <<f \o seqs[i], g[i]>> \in T
  PROVE  <<FlattenSeq(seqs), g[Len(seqs)]>> \in T
<1> DEFINE n == Len(seqs)
<1>1. n \in Nat /\ \A i \in 1 .. n : seqs[i] \in Seq(S)
  OBVIOUS
<1>2. CASE n = 0
  <2>1. FlattenSeq(seqs) = << >>
    BY <1>2 DEF FlattenSeq
  <2> QED
    BY <1>2, <2>1
<1>3. CASE n # 0
  <2>1. PICK h \in [1 .. n -> Seq(S)] :
          /\ FlattenSeq(seqs) = h[n] /\ h[1] = seqs[1]
          /\ \A i \in 1 .. n - 1 : h[i + 1] = h[i] \o seqs[i + 1]
    <3>1. Len(seqs) > 0
      BY <1>1, <1>3
    <3> QED
      BY <3>1, FlattenUnfolds
  <2> DEFINE Bad == {i \in 1 .. n : <<h[i], g[i]>> \notin T}
  <2>2. <<h[1], g[1]>> \in T
    <3>1. 1 \in 1 .. n /\ 1 - 1 = 0 /\ << >> \in Seq(S)
      BY <1>1, <1>3
    <3>2. <<<< >> \o seqs[1], g[1]>> \in T
      BY <3>1
    <3>3. << >> \o seqs[1] = h[1]
      BY <1>1, <2>1, <3>1, ConcatEmptySeq
    <3> QED
      BY <3>2, <3>3
  <2>3. ASSUME Bad # {} PROVE FALSE
    <3>1. Bad \in SUBSET Nat
      BY <1>1
    <3>2. PICK m \in Bad : \A b \in Bad : m <= b
      <4> HIDE DEF Bad
      <4> QED
        BY <2>3, <3>1, Least
    <3>3. m \in 1 .. n /\ m # 1 /\ <<h[m], g[m]>> \notin T
      BY <2>2, <3>2
    <3>4. /\ m - 1 \in 1 .. n - 1 /\ m - 1 \in 1 .. n /\ (m - 1) + 1 = m
          /\ ~ m <= m - 1
      <4> HIDE DEF n
      <4> QED
        BY <1>1, <3>3
    <3>7. h[m - 1] \in Seq(S)
      BY <2>1, <3>4
    <3>5. <<h[m - 1], g[m - 1]>> \in T
      BY <3>2, <3>4
    <3>6. h[m] = h[m - 1] \o seqs[m]
      BY <2>1, <3>4
    <3> QED
      BY <3>3, <3>4, <3>5, <3>6, <3>7
  <2>4. n \in 1 .. n
    BY <1>1, <1>3
  <2> QED
    BY <2>1, <2>3, <2>4
<1> QED
  BY <1>2, <1>3

-----------------------------------------------------------------------------
(* A stream and its script.                                                 *)

(* The device has got through the instructions 1 .. d of the script sc; x    *)
(* are the positions of the items that are on the stream: all instructions  *)
(* of the kinds K, which are enqueued, from there on to where the process   *)
(* is. None is older than a synchronize that has returned.                  *)
Tracks(K, s, sc, d, x) ==
  /\ s.at \in 0 .. Len(sc)
  /\ d \in 0 .. s.at
  /\ d > 0 => sc[d].do \in K
  /\ x \in Seq(Nat)
  /\ Len(x) = Len(s.stream)
  /\ \A i \in 1 .. Len(x) : x[i] \in d + 1 .. s.at
  /\ \A i \in 1 .. Len(x) : s.stream[i] = sc[x[i]] /\ sc[x[i]].do \in K
  /\ \A i, j \in 1 .. Len(x) : i < j => x[i] < x[j]
  /\ \A j \in d + 1 .. s.at : sc[j].do \in K => \E i \in 1 .. Len(x) : x[i] = j
  /\ \A j \in 1 .. s.at : sc[j].do = "sync" => \A i \in 1 .. Len(x) : j < x[i]

\* Position j lies behind an instruction b that no e has ended.
Between(sc, j, b, e) ==
  \E i \in 1 .. j - 1 : sc[i] = b /\ \A m \in i + 1 .. j - 1 : sc[m] # e

\* The work, of the kinds W, in the first d instructions, and the timed work.
Work(W, sc, d) == {j \in 1 .. d : sc[j].do \in W}

Timed(W, sc, d, b, e) == {j \in Work(W, sc, d) : Between(sc, j, b, e)}

(* What the device's clock and the sum of its measurements are: the last    *)
(* measurement counts as far as it has got.                                 *)
DeviceTimes(W, s, sc, d) ==
  /\ s.clock = Cardinality(Work(W, sc, d))
  /\ s.timing = Between(sc, d + 1, StartEvent, StopEvent)
  /\ s.measured + (IF s.timing THEN s.clock - s.started ELSE 0)
       = Cardinality(Timed(W, sc, d, StartEvent, StopEvent))

\* The host measures by what it has enqueued, the device having done it.
HostTimes(W, s, sc) ==
  s.waited + (IF Between(sc, s.at + 1, ReadClock, AddClock)
              THEN Cardinality(Work(W, sc, s.at)) - s.wall ELSE 0)
    = Cardinality(Timed(W, sc, s.at, ReadClock, AddClock))

\* Where the clock is read, the device has nothing left that would count.
Quiet(W, sc) ==
  \A j \in 1 .. Len(sc) : sc[j].do \in {"clock", "elapsed"} =>
    \E i \in 1 .. j - 1 : /\ sc[i].do = "sync"
                          /\ \A m \in i + 1 .. j - 1 : sc[m].do \notin W

\* b and e alternate, b first.
Bracketed(sc, b, e) ==
  \A j \in 1 .. Len(sc) : /\ sc[j] = b => ~ Between(sc, j, b, e)
                          /\ sc[j] = e => Between(sc, j, b, e)

Sessions(S) ==
  [at : Nat, stream : Seq(S), clock : Nat, started : Nat, timing : BOOLEAN,
   measured : Int, wall : Nat, waited : Int]

-----------------------------------------------------------------------------
(* The steps of the host.                                                   *)

LEMMA HostFields ==
  ASSUME NEW S, NEW sc \in Seq(S), NEW s \in Sessions(S), s.at \in 0 .. Len(sc) - 1
  PROVE  /\ \A t \in {Passed(s), ClockRead(s), ClockAdded(s)} :
              /\ t \in Sessions(S) /\ t.at = s.at + 1 /\ t.stream = s.stream
              /\ t.clock = s.clock /\ t.started = s.started /\ t.timing = s.timing
              /\ t.measured = s.measured
         /\ Passed(s).wall = s.wall /\ Passed(s).waited = s.waited
         /\ ClockRead(s).wall = s.clock /\ ClockRead(s).waited = s.waited
         /\ ClockAdded(s).waited = s.waited + (s.clock - s.wall)
         /\ Enqueued(s, sc) \in Sessions(S)
         /\ Enqueued(s, sc).at = s.at + 1
         /\ Enqueued(s, sc).stream = Append(s.stream, sc[s.at + 1])
         /\ Enqueued(s, sc).clock = s.clock /\ Enqueued(s, sc).started = s.started
         /\ Enqueued(s, sc).timing = s.timing
         /\ Enqueued(s, sc).measured = s.measured
         /\ Enqueued(s, sc).wall = s.wall /\ Enqueued(s, sc).waited = s.waited
<1>1. s.at + 1 \in Nat /\ s.waited + (s.clock - s.wall) \in Int /\ s.clock \in Nat
  BY DEF Sessions
<1>2. Append(s.stream, sc[s.at + 1]) \in Seq(S)
  <2>1. s.stream \in Seq(S) /\ sc[s.at + 1] \in S
    BY DEF Sessions
  <2> QED
    BY <2>1, AppendProperties
<1>3. Passed(s) \in Sessions(S) /\ Passed(s).at = s.at + 1 /\ Passed(s).stream = s.stream
        /\ Passed(s).clock = s.clock /\ Passed(s).started = s.started
        /\ Passed(s).timing = s.timing /\ Passed(s).measured = s.measured
        /\ Passed(s).wall = s.wall /\ Passed(s).waited = s.waited
  BY <1>1 DEF Passed, Sessions
<1>4. ASSUME NEW v \in Nat
      PROVE  LET t == [Passed(s) EXCEPT !.wall = v]
             IN /\ t \in Sessions(S) /\ t.at = s.at + 1 /\ t.stream = s.stream
                /\ t.clock = s.clock /\ t.started = s.started /\ t.timing = s.timing
                /\ t.measured = s.measured /\ t.wall = v /\ t.waited = s.waited
  BY <1>3 DEF Sessions
<1>5. ASSUME NEW v \in Int
      PROVE  LET t == [Passed(s) EXCEPT !.waited = v]
             IN /\ t \in Sessions(S) /\ t.at = s.at + 1 /\ t.stream = s.stream
                /\ t.clock = s.clock /\ t.started = s.started /\ t.timing = s.timing
                /\ t.measured = s.measured /\ t.wall = s.wall /\ t.waited = v
  BY <1>3 DEF Sessions
<1>6. ASSUME NEW v \in Seq(S)
      PROVE  LET t == [Passed(s) EXCEPT !.stream = v]
             IN /\ t \in Sessions(S) /\ t.at = s.at + 1 /\ t.stream = v
                /\ t.clock = s.clock /\ t.started = s.started /\ t.timing = s.timing
                /\ t.measured = s.measured /\ t.wall = s.wall /\ t.waited = s.waited
  BY <1>3 DEF Sessions
<1>7. ClockRead(s) = [Passed(s) EXCEPT !.wall = s.clock]
  BY DEF ClockRead
<1>8. ClockAdded(s) = [Passed(s) EXCEPT !.waited = s.waited + (s.clock - s.wall)]
  BY <1>3 DEF ClockAdded, Sessions
<1>9. Enqueued(s, sc) = [Passed(s) EXCEPT !.stream = Append(s.stream, sc[s.at + 1])]
  BY <1>3 DEF Enqueued, Current, Sessions
<1>10. /\ ClockRead(s) \in Sessions(S) /\ ClockRead(s).at = s.at + 1
       /\ ClockRead(s).stream = s.stream /\ ClockRead(s).clock = s.clock
       /\ ClockRead(s).started = s.started /\ ClockRead(s).timing = s.timing
       /\ ClockRead(s).measured = s.measured
       /\ ClockRead(s).wall = s.clock /\ ClockRead(s).waited = s.waited
  BY <1>1, <1>4, <1>7
<1>11. /\ ClockAdded(s) \in Sessions(S) /\ ClockAdded(s).at = s.at + 1
       /\ ClockAdded(s).stream = s.stream /\ ClockAdded(s).clock = s.clock
       /\ ClockAdded(s).started = s.started /\ ClockAdded(s).timing = s.timing
       /\ ClockAdded(s).measured = s.measured
       /\ ClockAdded(s).waited = s.waited + (s.clock - s.wall)
  BY <1>1, <1>5, <1>8
<1>12. /\ Enqueued(s, sc) \in Sessions(S)
       /\ Enqueued(s, sc).at = s.at + 1
       /\ Enqueued(s, sc).stream = Append(s.stream, sc[s.at + 1])
       /\ Enqueued(s, sc).clock = s.clock /\ Enqueued(s, sc).started = s.started
       /\ Enqueued(s, sc).timing = s.timing
       /\ Enqueued(s, sc).measured = s.measured
       /\ Enqueued(s, sc).wall = s.wall /\ Enqueued(s, sc).waited = s.waited
  <2> DEFINE app == Append(s.stream, sc[s.at + 1])
             e == Enqueued(s, sc)
  <2>1. app \in Seq(S) /\ e = [Passed(s) EXCEPT !.stream = app]
    BY <1>2, <1>9
  <2> HIDE DEF app, e
  <2>2. /\ e \in Sessions(S) /\ e.at = s.at + 1 /\ e.stream = app
        /\ e.clock = s.clock /\ e.started = s.started /\ e.timing = s.timing
        /\ e.measured = s.measured /\ e.wall = s.wall /\ e.waited = s.waited
    BY ONLY <2>1, <1>6
  <2> QED
    BY ONLY <2>2 DEF app, e
<1> QED
  BY <1>3, <1>10, <1>11, <1>12

\* An instruction that enqueues leaves the stream one item longer.
LEMMA TracksEnqueued ==
  ASSUME NEW S, NEW sc \in Seq(S), NEW s, NEW t, NEW K, NEW d, NEW x,
         Tracks(K, s, sc, d, x), s.stream \in Seq(S), s.at < Len(sc),
         sc[s.at + 1].do \in K, "sync" \notin K,
         t.at = s.at + 1, t.stream = Append(s.stream, sc[s.at + 1])
  PROVE  Tracks(K, t, sc, d, Append(x, s.at + 1))
<1> DEFINE n == Len(x)
           y == Append(x, s.at + 1)
<1>1. /\ s.at \in Nat /\ n \in Nat /\ n = Len(s.stream) /\ Len(sc) \in Nat
      /\ x \in Seq(Nat) /\ d \in 0 .. s.at /\ sc[s.at + 1] \in S
  BY DEF Tracks
<1>2. /\ y \in Seq(Nat) /\ Len(y) = n + 1 /\ y[n + 1] = s.at + 1
      /\ \A i \in 1 .. n : y[i] = x[i]
  BY <1>1, AppendProperties
<1>3. /\ Len(t.stream) = n + 1 /\ t.stream[n + 1] = sc[s.at + 1]
      /\ \A i \in 1 .. n : t.stream[i] = s.stream[i]
  BY <1>1, AppendProperties
<1> HIDE DEF y
<1>10. /\ \A i \in 1 .. n : /\ x[i] \in d + 1 .. s.at
                            /\ s.stream[i] = sc[x[i]] /\ sc[x[i]].do \in K
       /\ \A i, j \in 1 .. n : i < j => x[i] < x[j]
       /\ \A j \in d + 1 .. s.at : sc[j].do \in K => \E i \in 1 .. n : x[i] = j
       /\ \A j \in 1 .. s.at : sc[j].do = "sync" => \A i \in 1 .. n : j < x[i]
  BY DEF Tracks
<1>4. t.at \in 0 .. Len(sc) /\ d \in 0 .. t.at /\ (d > 0 => sc[d].do \in K)
  BY <1>1 DEF Tracks
<1> HIDE DEF n
<1>5. \A i \in 1 .. Len(y) : /\ y[i] \in d + 1 .. t.at
                             /\ t.stream[i] = sc[y[i]] /\ sc[y[i]].do \in K
  <2> SUFFICES ASSUME NEW i \in 1 .. Len(y)
               PROVE  /\ y[i] \in d + 1 .. t.at
                      /\ t.stream[i] = sc[y[i]] /\ sc[y[i]].do \in K
    OBVIOUS
  <2>1. CASE i = n + 1
    <3>1. s.at + 1 \in d + 1 .. t.at
      BY <1>1
    <3> QED
      BY <3>1, <2>1, <1>2, <1>3
  <2>2. CASE i # n + 1
    <3>1. i \in 1 .. n
      BY <2>2, <1>1, <1>2
    <3>2. x[i] \in d + 1 .. s.at /\ s.stream[i] = sc[x[i]] /\ sc[x[i]].do \in K
      BY <3>1, <1>10
    <3>3. y[i] = x[i] /\ t.stream[i] = s.stream[i]
      BY <3>1, <1>2, <1>3
    <3>4. x[i] \in d + 1 .. t.at
      BY <3>2, <1>1
    <3> QED
      BY <3>2, <3>3, <3>4
  <2> QED
    BY <2>1, <2>2
<1>6. ASSUME NEW i \in 1 .. Len(y), NEW j \in 1 .. Len(y), i < j PROVE y[i] < y[j]
  <2>1. i \in 1 .. n /\ y[i] = x[i] /\ x[i] \in d + 1 .. s.at
    <3>1. i \in 1 .. n
      BY <1>6, <1>1, <1>2
    <3> QED
      BY <3>1, <1>2, <1>10
  <2>2. CASE j = n + 1
    <3>1. y[j] = s.at + 1
      BY <2>2, <1>2
    <3>2. s.at \in Nat /\ d \in 0 .. s.at
      BY <1>1
    <3> QED
      BY ONLY <3>1, <3>2, <2>1
  <2>3. CASE j # n + 1
    <3>1. j \in 1 .. n
      BY <2>3, <1>1, <1>2
    <3>2. y[j] = x[j] /\ x[i] < x[j]
      BY <3>1, <2>1, <1>6, <1>2, <1>10
    <3> QED
      BY <3>2, <2>1
  <2> QED
    BY <2>2, <2>3
<1>7. ASSUME NEW j \in d + 1 .. t.at, sc[j].do \in K PROVE \E i \in 1 .. Len(y) : y[i] = j
  <2>1. CASE j = s.at + 1
    <3>1. n + 1 \in 1 .. Len(y) /\ y[n + 1] = j
      BY <2>1, <1>1, <1>2
    <3> QED
      BY ONLY <3>1
  <2>2. CASE j # s.at + 1
    <3>1. j \in d + 1 .. s.at
      BY <2>2, <1>1
    <3>2. PICK i \in 1 .. n : x[i] = j
      BY <3>1, <1>7, <1>10
    <3>3. i \in 1 .. Len(y)
      BY <1>1, <1>2
    <3>4. y[i] = j
      BY <3>2, <1>2
    <3> QED
      BY <3>3, <3>4
  <2> QED
    BY <2>1, <2>2
<1>8. \A j \in 1 .. t.at : sc[j].do = "sync" => \A i \in 1 .. Len(y) : j < y[i]
  <2> SUFFICES ASSUME NEW j \in 1 .. t.at, sc[j].do = "sync", NEW i \in 1 .. Len(y)
               PROVE  j < y[i]
    OBVIOUS
  <2>1. j \in 1 .. s.at
    <3>1. j # s.at + 1
      OBVIOUS
    <3> QED
      BY <3>1, <1>1
  <2> QED
    <3>1. CASE i = n + 1
      BY <3>1, <2>1, <1>1, <1>2
    <3>2. CASE i # n + 1
      <4>1. i \in 1 .. n
        BY <3>2, <1>1, <1>2
      <4>2. j < x[i] /\ y[i] = x[i]
        BY <4>1, <2>1, <1>2, <1>10
      <4> QED
        BY <4>2
    <3> QED
      BY <3>1, <3>2
<1>9. Len(y) = Len(t.stream)
  BY <1>2, <1>3
<1> QED
  BY <1>2, <1>4, <1>5, <1>6, <1>7, <1>8, <1>9 DEF Tracks, y, n

\* Any other leaves it as it is; a synchronize finds it empty.
LEMMA TracksPassed ==
  ASSUME NEW S, NEW sc \in Seq(S), NEW s, NEW t, NEW K, NEW d, NEW x,
         Tracks(K, s, sc, d, x), s.at < Len(sc), sc[s.at + 1].do \notin K,
         sc[s.at + 1].do = "sync" => s.stream = << >>,
         t.at = s.at + 1, t.stream = s.stream
  PROVE  Tracks(K, t, sc, d, x)
<1>1. s.at \in Nat /\ Len(x) \in Nat /\ Len(sc) \in Nat /\ d \in 0 .. s.at
        /\ x \in Seq(Nat) /\ Len(x) = Len(s.stream)
  BY DEF Tracks
<1>2. t.at \in 0 .. Len(sc) /\ d \in 0 .. t.at
  BY <1>1
<1>3. \A i \in 1 .. Len(x) : x[i] \in d + 1 .. t.at
  BY <1>1 DEF Tracks
<1>4. \A j \in d + 1 .. t.at : sc[j].do \in K => \E i \in 1 .. Len(x) : x[i] = j
  BY <1>1 DEF Tracks
<1>5. \A j \in 1 .. t.at : sc[j].do = "sync" => \A i \in 1 .. Len(x) : j < x[i]
  <2> SUFFICES ASSUME NEW j \in 1 .. t.at, sc[j].do = "sync", NEW i \in 1 .. Len(x)
               PROVE  j < x[i]
    OBVIOUS
  <2>1. CASE j = s.at + 1
    <3>1. s.stream = << >> /\ Len(x) = 0
      BY <2>1, <1>1
    <3> QED
      BY <3>1
  <2>2. CASE j # s.at + 1
    <3>1. j \in 1 .. s.at
      BY <2>2, <1>1
    <3> QED
      BY <3>1 DEF Tracks
  <2> QED
    BY <2>1, <2>2
<1> QED
  BY <1>2, <1>3, <1>4, <1>5 DEF Tracks

-----------------------------------------------------------------------------
(* The steps of the device.                                                 *)

\* The oldest item is the first instruction that enqueues from d on.
LEMMA TracksDone ==
  ASSUME NEW S, NEW sc \in Seq(S), NEW s, NEW t, NEW K, NEW d, NEW x,
         Tracks(K, s, sc, d, x), s.stream \in Seq(S), s.stream # << >>,
         t.at = s.at, t.stream = Tail(s.stream)
  PROVE  /\ x[1] \in d + 1 .. s.at /\ x[1] \in 1 .. Len(sc)
         /\ Head(s.stream) = sc[x[1]] /\ sc[x[1]].do \in K
         /\ \A j \in d + 1 .. x[1] - 1 : sc[j].do \notin K
         /\ Tracks(K, t, sc, x[1], Tail(x))
<1> DEFINE n == Len(x)
           y == Tail(x)
<1>1. /\ s.at \in Nat /\ n \in Nat /\ n = Len(s.stream) /\ Len(sc) \in Nat
      /\ x \in Seq(Nat) /\ d \in 0 .. s.at /\ s.at <= Len(sc)
  BY DEF Tracks
<1>2. n >= 1 /\ x # << >>
  BY <1>1
<1>3. y \in Seq(Nat) /\ Len(y) = n - 1 /\ \A i \in 1 .. n - 1 : y[i] = x[i + 1]
  BY <1>1, <1>2, HeadTailProperties
<1>4. Len(t.stream) = n - 1 /\ \A i \in 1 .. n - 1 : t.stream[i] = s.stream[i + 1]
  BY <1>1, HeadTailProperties
<1>5. x[1] \in d + 1 .. s.at /\ s.stream[1] = sc[x[1]] /\ sc[x[1]].do \in K
  BY <1>1, <1>2 DEF Tracks
<1>6. Head(s.stream) = s.stream[1]
  OBVIOUS
<1>7. \A i \in 2 .. n : x[1] < x[i]
  BY <1>1, <1>2 DEF Tracks
<1>8. ASSUME NEW j \in d + 1 .. x[1] - 1, sc[j].do \in K PROVE FALSE
  <2>3. x[1] \in Nat /\ n \in Nat /\ d \in Nat /\ s.at \in Nat
    BY <1>1, <1>5
  <2>5. x[1] \in d + 1 .. s.at
    BY <1>5
  <2>6. j \in d + 1 .. x[1] - 1
    OBVIOUS
  <2>1. j \in d + 1 .. s.at
    BY ONLY <2>3, <2>5, <2>6
  <2>2. PICK i \in 1 .. n : x[i] = j
    BY <2>1, <1>8 DEF Tracks
  <2>4. i = 1 \/ i \in 2 .. n
    BY ONLY <2>2, <2>3
  <2> QED
    BY <2>2, <2>3, <2>4, <1>7
<1> HIDE DEF y
<1>9. \A i \in 1 .. Len(y) : i + 1 \in 1 .. n /\ y[i] = x[i + 1] /\ x[i + 1] > x[1]
  BY <1>1, <1>3, <1>7
<1>10. \A i \in 1 .. Len(y) : /\ y[i] \in x[1] + 1 .. t.at
                              /\ t.stream[i] = sc[y[i]] /\ sc[y[i]].do \in K
  <2>1. \A i \in 1 .. n : /\ x[i] \in d + 1 .. s.at
                         /\ s.stream[i] = sc[x[i]] /\ sc[x[i]].do \in K
    BY DEF Tracks
  <2> SUFFICES ASSUME NEW i \in 1 .. Len(y)
               PROVE  /\ y[i] \in x[1] + 1 .. t.at
                      /\ t.stream[i] = sc[y[i]] /\ sc[y[i]].do \in K
    OBVIOUS
  <2>2. i + 1 \in 1 .. n /\ y[i] = x[i + 1] /\ x[i + 1] > x[1]
    BY <1>9
  <2>3. x[i + 1] \in d + 1 .. s.at /\ s.stream[i + 1] = sc[x[i + 1]] /\ sc[x[i + 1]].do \in K
    BY <2>1, <2>2
  <2>4. t.stream[i] = s.stream[i + 1]
    BY <1>3, <1>4
  <2>6. t.at = s.at /\ x[1] \in Nat /\ s.at \in Nat /\ d \in Nat
    BY <1>1, <1>5
  <2>5. x[i + 1] \in x[1] + 1 .. t.at
    BY ONLY <2>2, <2>3, <2>6
  <2> QED
    BY <2>2, <2>3, <2>4, <2>5
<1>11. \A i, j \in 1 .. Len(y) : i < j => y[i] < y[j]
  BY <1>1, <1>9 DEF Tracks
<1>12. ASSUME NEW j \in x[1] + 1 .. t.at, sc[j].do \in K
       PROVE  \E i \in 1 .. Len(y) : y[i] = j
  <2>1. j \in d + 1 .. s.at /\ j # x[1]
    BY <1>1, <1>5
  <2>2. PICK i \in 1 .. n : x[i] = j
    BY <2>1, <1>12 DEF Tracks
  <2>3. i - 1 \in 1 .. Len(y) /\ (i - 1) + 1 = i
    BY <2>1, <2>2, <1>1, <1>3
  <2> QED
    BY <2>2, <2>3, <1>3
<1>13. \A j \in 1 .. t.at : sc[j].do = "sync" => \A i \in 1 .. Len(y) : j < y[i]
  BY <1>9 DEF Tracks
<1>14. t.at \in 0 .. Len(sc) /\ x[1] \in 0 .. t.at /\ Len(y) = Len(t.stream)
  BY <1>1, <1>3, <1>4, <1>5
<1>15. Tracks(K, t, sc, x[1], y)
  BY <1>3, <1>5, <1>10, <1>11, <1>12, <1>13, <1>14 DEF Tracks
<1> QED
  BY <1>1, <1>5, <1>6, <1>8, <1>15 DEF y

LEMMA DeviceFields ==
  ASSUME NEW S, NEW s \in Sessions(S), s.stream # << >>
  PROVE  /\ WorkDone(s) \in Sessions(S) /\ EventStamped(s) \in Sessions(S)
         /\ WorkDone(s) = [s EXCEPT !.stream = Tail(s.stream), !.clock = s.clock + 1]
         /\ Head(s.stream) = StartEvent =>
              EventStamped(s) = [s EXCEPT !.stream = Tail(s.stream),
                                          !.started = s.clock, !.timing = TRUE]
         /\ Head(s.stream) # StartEvent =>
              EventStamped(s) = [s EXCEPT !.stream = Tail(s.stream),
                                          !.measured = s.measured + (s.clock - s.started),
                                          !.timing = FALSE]
<1>1. Tail(s.stream) \in Seq(S) /\ s.clock \in Nat /\ s.clock + 1 \in Nat
        /\ s.measured + (s.clock - s.started) \in Int
  <2>1. s.stream \in Seq(S) /\ s.clock \in Nat /\ s.measured \in Int /\ s.started \in Nat
    BY DEF Sessions
  <2> QED
    BY <2>1, HeadTailProperties
<1>2. WorkDone(s) = [s EXCEPT !.stream = Tail(s.stream), !.clock = s.clock + 1]
  BY DEF WorkDone
<1>3. Head(s.stream) = StartEvent =>
        EventStamped(s) = [s EXCEPT !.stream = Tail(s.stream),
                                    !.started = s.clock, !.timing = TRUE]
  BY DEF EventStamped
<1>4. Head(s.stream) # StartEvent =>
        EventStamped(s) = [s EXCEPT !.stream = Tail(s.stream),
                                    !.measured = s.measured + (s.clock - s.started),
                                    !.timing = FALSE]
  BY DEF EventStamped
<1>5. WorkDone(s) \in Sessions(S)
  BY <1>1, <1>2 DEF Sessions
<1>6. EventStamped(s) \in Sessions(S)
  <2>1. CASE Head(s.stream) = StartEvent
    BY <2>1, <1>1, <1>3 DEF Sessions
  <2>2. CASE Head(s.stream) # StartEvent
    BY <2>2, <1>1, <1>4 DEF Sessions
  <2> QED
    BY <2>1, <2>2
<1> QED
  BY <1>2, <1>3, <1>4, <1>5, <1>6

-----------------------------------------------------------------------------
(* What is timed.                                                           *)

LEMMA BetweenNext ==
  ASSUME NEW sc, NEW j \in Nat \ {0}, NEW b, NEW e, b # e
  PROVE  Between(sc, j + 1, b, e) <=> sc[j] = b \/ (Between(sc, j, b, e) /\ sc[j] # e)
<1>1. ASSUME sc[j] = b PROVE Between(sc, j + 1, b, e)
  <2>1. j \in 1 .. (j + 1) - 1 /\ \A m \in j + 1 .. (j + 1) - 1 : FALSE
    OBVIOUS
  <2> QED
    BY <2>1, <1>1 DEF Between
<1>2. ASSUME Between(sc, j, b, e), sc[j] # e PROVE Between(sc, j + 1, b, e)
  <2>1. PICK i \in 1 .. j - 1 : sc[i] = b /\ \A m \in i + 1 .. j - 1 : sc[m] # e
    BY <1>2 DEF Between
  <2>2. i \in 1 .. (j + 1) - 1
    OBVIOUS
  <2>3. \A m \in i + 1 .. (j + 1) - 1 : m = j \/ m \in i + 1 .. j - 1
    OBVIOUS
  <2> QED
    BY <2>1, <2>2, <2>3, <1>2 DEF Between
<1>3. ASSUME Between(sc, j + 1, b, e), sc[j] # b
      PROVE  Between(sc, j, b, e) /\ sc[j] # e
  <2>1. PICK i \in 1 .. (j + 1) - 1 :
           sc[i] = b /\ \A m \in i + 1 .. (j + 1) - 1 : sc[m] # e
    BY <1>3 DEF Between
  <2>2. i # j
    BY <2>1, <1>3
  <2>3. i \in 1 .. j - 1 /\ j \in i + 1 .. (j + 1) - 1
          /\ \A m \in i + 1 .. j - 1 : m \in i + 1 .. (j + 1) - 1
    BY <2>2
  <2> QED
    BY <2>1, <2>3 DEF Between
<1> QED
  BY <1>1, <1>2, <1>3

LEMMA BetweenGap ==
  ASSUME NEW sc, NEW a \in Nat \ {0}, NEW j \in Nat, a <= j, NEW b, NEW e,
         \A m \in a .. j - 1 : sc[m] # b /\ sc[m] # e
  PROVE  Between(sc, j, b, e) <=> Between(sc, a, b, e)
<1>1. ASSUME Between(sc, j, b, e) PROVE Between(sc, a, b, e)
  <2>1. PICK i \in 1 .. j - 1 : sc[i] = b /\ \A m \in i + 1 .. j - 1 : sc[m] # e
    BY <1>1 DEF Between
  <2>2. i \notin a .. j - 1
    BY <2>1
  <2>3. i \in 1 .. a - 1 /\ \A m \in i + 1 .. a - 1 : m \in i + 1 .. j - 1
    BY <2>2
  <2> QED
    BY <2>1, <2>3 DEF Between
<1>2. ASSUME Between(sc, a, b, e) PROVE Between(sc, j, b, e)
  <2>1. PICK i \in 1 .. a - 1 : sc[i] = b /\ \A m \in i + 1 .. a - 1 : sc[m] # e
    BY <1>2 DEF Between
  <2>2. i \in 1 .. j - 1 /\ \A m \in i + 1 .. j - 1 : m \in i + 1 .. a - 1 \/ m \in a .. j - 1
    OBVIOUS
  <2> QED
    BY <2>1, <2>2 DEF Between
<1> QED
  BY <1>1, <1>2

LEMMA WorkFinite ==
  ASSUME NEW W, NEW sc, NEW d \in Nat, NEW b, NEW e
  PROVE  /\ IsFiniteSet(Work(W, sc, d)) /\ Cardinality(Work(W, sc, d)) \in Nat
         /\ IsFiniteSet(Timed(W, sc, d, b, e)) /\ Cardinality(Timed(W, sc, d, b, e)) \in Nat
<1>1. IsFiniteSet(1 .. d)
  BY FS_Interval
<1>2. Work(W, sc, d) \in SUBSET (1 .. d) /\ Timed(W, sc, d, b, e) \in SUBSET (1 .. d)
  BY DEF Work, Timed
<1>3. IsFiniteSet(Work(W, sc, d)) /\ IsFiniteSet(Timed(W, sc, d, b, e))
  BY <1>1, <1>2, FS_Subset
<1> QED
  BY <1>3, FS_CardinalityType

\* Only the last of the instructions from d on may be work.
LEMMA WorkNext ==
  ASSUME NEW W, NEW sc, NEW d \in Nat, NEW y \in Nat, d < y,
         \A j \in d + 1 .. y - 1 : sc[j].do \notin W
  PROVE  Cardinality(Work(W, sc, y)) =
           Cardinality(Work(W, sc, d)) + (IF sc[y].do \in W THEN 1 ELSE 0)
<1> DEFINE A == Work(W, sc, d)
<1>1. Work(W, sc, y) = IF sc[y].do \in W THEN A \cup {y} ELSE A
  BY DEF Work
<1>2. y \notin A
  BY DEF Work
<1>3. IsFiniteSet(A) /\ Cardinality(A) \in Nat
  BY WorkFinite
<1> HIDE DEF A
<1>4. Cardinality(A \cup {y}) = Cardinality(A) + 1
  BY <1>2, <1>3, FS_AddElement
<1>5. Cardinality(Work(W, sc, y)) = Cardinality(A) + (IF sc[y].do \in W THEN 1 ELSE 0)
  BY <1>1, <1>3, <1>4
<1> QED
  BY <1>5 DEF A

LEMMA TimedNext ==
  ASSUME NEW W, NEW sc, NEW d \in Nat, NEW y \in Nat, d < y,
         \A j \in d + 1 .. y - 1 : sc[j].do \notin W,
         NEW b, NEW e
  PROVE  Cardinality(Timed(W, sc, y, b, e)) =
           Cardinality(Timed(W, sc, d, b, e))
             + (IF sc[y].do \in W /\ Between(sc, y, b, e) THEN 1 ELSE 0)
<1> DEFINE A == Timed(W, sc, d, b, e)
           counts == sc[y].do \in W /\ Between(sc, y, b, e)
<1>1. Timed(W, sc, y, b, e) = IF counts THEN A \cup {y} ELSE A
  BY DEF Timed, Work
<1>2. y \notin A
  BY DEF Timed, Work
<1>3. IsFiniteSet(A) /\ Cardinality(A) \in Nat
  BY WorkFinite
<1> HIDE DEF A, counts
<1>4. Cardinality(A \cup {y}) = Cardinality(A) + 1
  BY <1>2, <1>3, FS_AddElement
<1>5. Cardinality(Timed(W, sc, y, b, e)) = Cardinality(A) + (IF counts THEN 1 ELSE 0)
  BY <1>1, <1>3, <1>4
<1> QED
  BY <1>5 DEF A, counts

(* The device takes the item at y, after the last it took at d. Events are  *)
(* told from work by their kinds.                                           *)
LEMMA DeviceTimesDone ==
  ASSUME NEW S, NEW sc \in Seq(S), NEW s \in Sessions(S), NEW K, NEW W, W \subseteq K,
         {"start", "stop"} \subseteq K \ W,
         NEW d \in Nat, NEW y \in 1 .. Len(sc), d < y,
         \A j \in d + 1 .. y - 1 : sc[j].do \notin K,
         s.stream # << >>, Head(s.stream) = sc[y],
         Bracketed(sc, StartEvent, StopEvent),
         DeviceTimes(W, s, sc, d)
  PROVE  /\ sc[y].do \in W => DeviceTimes(W, WorkDone(s), sc, y)
         /\ sc[y] \in {StartEvent, StopEvent} => DeviceTimes(W, EventStamped(s), sc, y)
<1> DEFINE T(j) == Between(sc, j, StartEvent, StopEvent)
           cw == Cardinality(Work(W, sc, d))
           ct == Cardinality(Timed(W, sc, d, StartEvent, StopEvent))
           w == WorkDone(s)
           t == EventStamped(s)
<1>1. y \in Nat \ {0} /\ StartEvent # StopEvent
        /\ StartEvent.do = "start" /\ StopEvent.do = "stop"
  BY DEF StartEvent, StopEvent, Instr
<1>2. T(y) <=> T(d + 1)
  <2>1. \A m \in d + 1 .. y - 1 : sc[m] # StartEvent /\ sc[m] # StopEvent
    BY <1>1
  <2>2. d + 1 \in Nat \ {0} /\ d + 1 <= y
    OBVIOUS
  <2> QED
    BY <2>1, <2>2, BetweenGap
<1>3. T(y + 1) <=> sc[y] = StartEvent \/ (T(y) /\ sc[y] # StopEvent)
  BY <1>1, BetweenNext
<1>4. /\ Cardinality(Work(W, sc, y)) = cw + (IF sc[y].do \in W THEN 1 ELSE 0)
      /\ Cardinality(Timed(W, sc, y, StartEvent, StopEvent)) =
           ct + (IF sc[y].do \in W /\ T(y) THEN 1 ELSE 0)
  <2>1. \A j \in d + 1 .. y - 1 : sc[j].do \notin W
    OBVIOUS
  <2>2. y \in Nat /\ d \in Nat /\ d < y
    BY <1>1
  <2> QED
    BY <2>1, <2>2, WorkNext, TimedNext
<1>5. cw \in Nat /\ ct \in Nat
  BY WorkFinite
<1>6. /\ s.clock = cw /\ s.timing = T(d + 1)
      /\ s.measured + (IF s.timing THEN s.clock - s.started ELSE 0) = ct
      /\ s.clock \in Nat /\ s.started \in Nat /\ s.measured \in Int /\ s.timing \in BOOLEAN
  BY DEF DeviceTimes, Sessions
<1>7. /\ w.clock = s.clock + 1 /\ w.started = s.started /\ w.timing = s.timing
      /\ w.measured = s.measured
      /\ t.clock = s.clock
      /\ sc[y] = StartEvent => t.started = s.clock /\ t.timing = TRUE
                               /\ t.measured = s.measured
      /\ sc[y] # StartEvent => t.timing = FALSE /\ t.started = s.started
                               /\ t.measured = s.measured + (s.clock - s.started)
  <2>1. s.timing \in BOOLEAN /\ DOMAIN s =
          {"at", "stream", "clock", "started", "timing", "measured", "wall", "waited"}
    BY DEF Sessions
  <2>2. w = [s EXCEPT !.stream = Tail(s.stream), !.clock = s.clock + 1]
    BY DeviceFields
  <2>3. w.clock = s.clock + 1 /\ w.started = s.started /\ w.timing = s.timing
          /\ w.measured = s.measured
    <3> HIDE DEF w
    <3> QED
      BY <2>1, <2>2
  <2>4. sc[y] = StartEvent =>
          t = [s EXCEPT !.stream = Tail(s.stream), !.started = s.clock, !.timing = TRUE]
    BY DeviceFields
  <2>5. sc[y] # StartEvent =>
          t = [s EXCEPT !.stream = Tail(s.stream),
                        !.measured = s.measured + (s.clock - s.started), !.timing = FALSE]
    BY DeviceFields
  <2> HIDE DEF t, w
  <2>6. sc[y] = StartEvent => t.started = s.clock /\ t.timing = TRUE
                              /\ t.measured = s.measured /\ t.clock = s.clock
    BY <2>1, <2>4
  <2>7. sc[y] # StartEvent => t.timing = FALSE /\ t.started = s.started /\ t.clock = s.clock
                              /\ t.measured = s.measured + (s.clock - s.started)
    BY <2>1, <2>5
  <2> QED
    BY <2>3, <2>6, <2>7
<1>8. (sc[y] = StartEvent => ~ T(y)) /\ (sc[y] = StopEvent => T(y))
  BY DEF Bracketed
<1> HIDE DEF T, cw, ct, w, t
<1>9. ASSUME sc[y].do \in W PROVE DeviceTimes(W, w, sc, y)
  <2>1. sc[y] # StartEvent /\ sc[y] # StopEvent
    BY <1>1, <1>9
  <2>2. T(y + 1) <=> T(d + 1)
    BY <2>1, <1>2, <1>3
  <2>3. w.timing = T(y + 1)
    BY <2>2, <1>6, <1>7 DEF T, Between
  <2>4. w.clock = cw + 1 /\ Cardinality(Work(W, sc, y)) = cw + 1
    BY <1>4, <1>5, <1>6, <1>7, <1>9
  <2>5. w.measured + (IF w.timing THEN w.clock - w.started ELSE 0) =
          ct + (IF T(y) THEN 1 ELSE 0)
    <3>1. /\ w.clock = s.clock + 1 /\ w.started = s.started /\ w.timing = s.timing
          /\ w.measured = s.measured
      BY <1>7
    <3>2. /\ s.timing => s.measured + (s.clock - s.started) = ct
          /\ ~ s.timing => s.measured + 0 = ct
      BY <1>6
    <3>6. s.clock \in Nat /\ s.started \in Nat /\ s.measured \in Int
      BY <1>6
    <3>3. s.timing <=> T(y)
      BY <1>2, <1>6
    <3>4. CASE s.timing
      <4>1. s.measured + (s.clock - s.started) = ct
        BY <3>2, <3>4
      <4>2. s.measured + ((s.clock + 1) - s.started) = ct + 1
        BY ONLY <4>1, <3>6, <1>5
      <4>3. w.measured + (w.clock - w.started) = ct + 1
        BY <4>2, <3>1
      <4> QED
        BY <4>3, <3>1, <3>3, <3>4
    <3>5. CASE ~ s.timing
      <4>1. w.measured = ct
        BY ONLY <3>1, <3>2, <3>5, <3>6
      <4> QED
        BY <4>1, <3>1, <3>3, <3>5, <1>5
    <3> QED
      BY <3>4, <3>5
  <2> QED
    BY <2>3, <2>4, <2>5, <1>4, <1>9 DEF DeviceTimes, T
<1>10. ASSUME sc[y] = StartEvent PROVE DeviceTimes(W, t, sc, y)
  <2>1. sc[y].do \notin W /\ ~ T(y) /\ T(y + 1) /\ s.timing = FALSE
    BY <1>1, <1>2, <1>3, <1>6, <1>8, <1>10
  <2>2. t.timing = T(y + 1)
    BY <2>1, <1>7, <1>10 DEF T, Between
  <2>3. t.measured + (IF t.timing THEN t.clock - t.started ELSE 0) = ct
    BY <2>1, <1>5, <1>6, <1>7, <1>10
  <2>4. t.clock = cw
    BY <1>6, <1>7
  <2> QED
    BY <2>1, <2>2, <2>3, <2>4, <1>4, <1>5 DEF DeviceTimes, T
<1>11. ASSUME sc[y] = StopEvent PROVE DeviceTimes(W, t, sc, y)
  <2>1. sc[y].do \notin W /\ sc[y] # StartEvent /\ T(y) /\ ~ T(y + 1) /\ s.timing = TRUE
    BY <1>1, <1>2, <1>3, <1>6, <1>8, <1>11
  <2>2. t.timing = T(y + 1)
    BY <2>1, <1>7 DEF T, Between
  <2>3. t.measured + (IF t.timing THEN t.clock - t.started ELSE 0) = ct
    BY <2>1, <1>5, <1>6, <1>7
  <2>4. t.clock = cw
    BY <1>6, <1>7
  <2> QED
    BY <2>1, <2>2, <2>3, <2>4, <1>4, <1>5 DEF DeviceTimes, T
<1> QED
  BY <1>9, <1>10, <1>11 DEF w, t

\* Where the clock is read it shows the work the process has enqueued.
LEMMA ClockMeetsHost ==
  ASSUME NEW S, NEW sc \in Seq(S), NEW s, NEW K, NEW W, W \subseteq K, NEW d, NEW x,
         Tracks(K, s, sc, d, x), DeviceTimes(W, s, sc, d), Quiet(W, sc),
         s.at < Len(sc), sc[s.at + 1].do \in {"clock", "elapsed"}
  PROVE  s.clock = Cardinality(Work(W, sc, s.at))
<1>1. s.at \in Nat /\ d \in 0 .. s.at /\ Len(sc) \in Nat /\ s.at + 1 \in 1 .. Len(sc)
  BY DEF Tracks
<1>2. PICK i \in 1 .. (s.at + 1) - 1 :
         sc[i].do = "sync" /\ \A m \in i + 1 .. (s.at + 1) - 1 : sc[m].do \notin W
  BY <1>1 DEF Quiet
<1>3. ASSUME NEW j \in d + 1 .. s.at, sc[j].do \in W PROVE FALSE
  <2>1. PICK m \in 1 .. Len(x) : x[m] = j
    BY <1>3 DEF Tracks
  <2>2. i \in 1 .. s.at
    BY <1>1
  <2>3. i < x[m]
    BY <2>2, <1>2 DEF Tracks
  <2>4. j \in i + 1 .. (s.at + 1) - 1
    BY <2>1, <2>3, <1>1
  <2> QED
    BY <2>4, <1>2, <1>3
<1>4. Work(W, sc, s.at) = Work(W, sc, d)
  BY <1>1, <1>3 DEF Work
<1> QED
  BY <1>4 DEF DeviceTimes

\* The process goes on: it starts or stops its watch, or does neither.
LEMMA HostTimesNext ==
  ASSUME NEW S, NEW sc \in Seq(S), NEW s \in Sessions(S), NEW t \in Sessions(S), NEW W,
         {"clock", "elapsed"} \cap W = {}, s.at < Len(sc), t.at = s.at + 1,
         Bracketed(sc, ReadClock, AddClock), HostTimes(W, s, sc),
         sc[s.at + 1] \in {ReadClock, AddClock} =>
           s.clock = Cardinality(Work(W, sc, s.at)),
         sc[s.at + 1] = ReadClock => t.wall = s.clock,
         sc[s.at + 1] # ReadClock => t.wall = s.wall,
         sc[s.at + 1] = AddClock  => t.waited = s.waited + (s.clock - s.wall),
         sc[s.at + 1] # AddClock  => t.waited = s.waited
  PROVE  HostTimes(W, t, sc)
<1> DEFINE y == s.at + 1
           T(j) == Between(sc, j, ReadClock, AddClock)
           cw == Cardinality(Work(W, sc, s.at))
           ct == Cardinality(Timed(W, sc, s.at, ReadClock, AddClock))
<1>1. /\ s.at \in Nat /\ y \in Nat \ {0} /\ y \in 1 .. Len(sc) /\ t.at = y
      /\ s.clock \in Nat /\ s.wall \in Nat /\ s.waited \in Int
  <2>1. s.at \in Nat /\ s.clock \in Nat /\ s.wall \in Nat /\ s.waited \in Int
    BY DEF Sessions
  <2>2. Len(sc) \in Nat
    OBVIOUS
  <2> QED
    BY <2>1, <2>2
<1>2. /\ ReadClock # AddClock
      /\ ReadClock.do = "clock" /\ AddClock.do = "elapsed"
  BY DEF ReadClock, AddClock, Instr
<1>3. T(y + 1) <=> sc[y] = ReadClock \/ (T(y) /\ sc[y] # AddClock)
  <2> HIDE DEF y
  <2>1. y \in Nat \ {0}
    BY <1>1
  <2>2. ASSUME NEW b, NEW e, b # e
        PROVE  Between(sc, y + 1, b, e) <=> sc[y] = b \/ (Between(sc, y, b, e) /\ sc[y] # e)
    BY <2>1, <2>2, BetweenNext
  <2> QED
    BY <2>2, <1>2
<1>4. /\ Cardinality(Work(W, sc, y)) = cw + (IF sc[y].do \in W THEN 1 ELSE 0)
      /\ Cardinality(Timed(W, sc, y, ReadClock, AddClock)) =
           ct + (IF sc[y].do \in W /\ T(y) THEN 1 ELSE 0)
  <2>1. \A j \in s.at + 1 .. y - 1 : sc[j].do \notin W
    BY <1>1
  <2>2. y \in Nat /\ s.at \in Nat /\ s.at < y
    BY <1>1
  <2> HIDE DEF y
  <2> QED
    BY <2>1, <2>2, WorkNext, TimedNext
<1>5. cw \in Nat /\ ct \in Nat
  BY <1>1, WorkFinite
<1>6. s.waited + (IF T(y) THEN cw - s.wall ELSE 0) = ct
  BY DEF HostTimes
<1>7. (sc[y] = ReadClock => ~ T(y)) /\ (sc[y] = AddClock => T(y))
  BY <1>1 DEF Bracketed
<1> DEFINE cx == Cardinality(Work(W, sc, y))
<1> SUFFICES t.waited + (IF T(y + 1) THEN cx - t.wall ELSE 0)
               = Cardinality(Timed(W, sc, y, ReadClock, AddClock))
  BY <1>1 DEF HostTimes
<1> HIDE DEF T, cw, ct, cx
<1>8. CASE sc[y] = ReadClock
  <2>1. ~ T(y) /\ T(y + 1) /\ sc[y].do \notin W
    BY <1>2, <1>3, <1>7, <1>8
  <2>2. cx = cw /\ t.wall = cw /\ t.waited = s.waited
    BY <2>1, <1>4, <1>5, <1>8, <1>2 DEF cx, cw
  <2> QED
    BY <2>1, <2>2, <1>1, <1>4, <1>5, <1>6
<1>9. CASE sc[y] = AddClock
  <2>1. T(y) /\ ~ T(y + 1) /\ sc[y].do \notin W
    BY <1>2, <1>3, <1>7, <1>9
  <2>2. t.waited = s.waited + (cw - s.wall)
    BY <1>9 DEF cw
  <2> QED
    BY <2>1, <2>2, <1>1, <1>4, <1>5, <1>6
<1>10. CASE sc[y] # ReadClock /\ sc[y] # AddClock
  <2>1. T(y + 1) <=> T(y)
    BY <1>3, <1>10
  <2>2. t.wall = s.wall /\ t.waited = s.waited
    BY <1>10
  <2>3. cx = cw + (IF sc[y].do \in W THEN 1 ELSE 0)
    BY <1>4 DEF cx
  <2> DEFINE n == IF sc[y].do \in W THEN 1 ELSE 0
             tx == Cardinality(Timed(W, sc, y, ReadClock, AddClock))
  <2>4. n \in Nat /\ cx = cw + n
    BY <2>3
  <2>5. tx = ct + (IF T(y) THEN n ELSE 0)
    BY <1>4, <1>5
  <2> HIDE DEF n, tx
  <2>6. CASE T(y)
    <3>1. s.waited + (cw - s.wall) = ct /\ tx = ct + n
      BY <2>5, <2>6, <1>6
    <3>2. s.waited + (cx - s.wall) = tx
      <4>1. \A a, b, c, m \in Int : a + ((b + m) - c) = (a + (b - c)) + m
        OBVIOUS
      <4>2. s.waited \in Int /\ cw \in Int /\ s.wall \in Int /\ n \in Int
        BY <1>1, <1>5, <2>4
      <4> QED
        BY <3>1, <4>1, <4>2, <2>4
    <3>3. T(y + 1)
      BY <2>1, <2>6
    <3> QED
      BY <3>2, <3>3, <2>2 DEF tx
  <2>7. CASE ~ T(y)
    BY <2>1, <2>2, <2>4, <2>5, <2>7, <1>1, <1>5, <1>6 DEF tx
  <2> QED
    BY <2>6, <2>7
<1> QED
  BY <1>8, <1>9, <1>10

-----------------------------------------------------------------------------
(* A script that has come to its end, and one script after another.         *)

\* b and e alternate, b first and e last.
Alternates(sc, b, e) == Bracketed(sc, b, e) /\ ~ Between(sc, Len(sc) + 1, b, e)

\* Nothing is enqueued behind the last synchronize.
EndsSynced(K, sc) ==
  \E i \in 1 .. Len(sc) : /\ sc[i].do = "sync"
                          /\ \A m \in i + 1 .. Len(sc) : sc[m].do \notin K

\* When the process is through, so is the device.
LEMMA EndDrained ==
  ASSUME NEW S, NEW sc \in Seq(S), NEW s, NEW K, NEW d, NEW x,
         Tracks(K, s, sc, d, x), s.at = Len(sc), EndsSynced(K, sc)
  PROVE  \A j \in d + 1 .. Len(sc) : sc[j].do \notin K
<1>1. PICK i \in 1 .. Len(sc) : /\ sc[i].do = "sync"
                                /\ \A m \in i + 1 .. Len(sc) : sc[m].do \notin K
  BY DEF EndsSynced
<1> SUFFICES ASSUME NEW j \in d + 1 .. Len(sc), sc[j].do \in K PROVE FALSE
  OBVIOUS
<1>2. PICK m \in 1 .. Len(x) : x[m] = j
  BY DEF Tracks
<1>3. i < x[m]
  BY <1>1 DEF Tracks
<1>4. j \in i + 1 .. Len(sc)
  BY <1>2, <1>3
<1> QED
  BY <1>1, <1>4

\* And what was measured is what was timed.
LEMMA EndTimes ==
  ASSUME NEW S, NEW sc \in Seq(S), NEW s \in Sessions(S), NEW K, NEW W, W \subseteq K,
         {"start", "stop"} \subseteq K, NEW d, NEW x,
         Tracks(K, s, sc, d, x), s.at = Len(sc), EndsSynced(K, sc),
         DeviceTimes(W, s, sc, d), HostTimes(W, s, sc),
         Alternates(sc, StartEvent, StopEvent), Alternates(sc, ReadClock, AddClock)
  PROVE  /\ s.measured = Cardinality(Timed(W, sc, Len(sc), StartEvent, StopEvent))
         /\ s.waited = Cardinality(Timed(W, sc, Len(sc), ReadClock, AddClock))
<1>1. d \in Nat /\ Len(sc) \in Nat /\ d <= Len(sc)
  BY DEF Tracks
<1>2. \A j \in d + 1 .. Len(sc) : sc[j].do \notin K
  BY EndDrained
<1>3. StartEvent.do = "start" /\ StopEvent.do = "stop"
  BY DEF StartEvent, StopEvent, Instr
<1>4. Timed(W, sc, Len(sc), StartEvent, StopEvent) = Timed(W, sc, d, StartEvent, StopEvent)
  BY <1>1, <1>2 DEF Timed, Work
<1>5. ~ Between(sc, d + 1, StartEvent, StopEvent)
  <2>1. d + 1 \in Nat \ {0} /\ d + 1 <= Len(sc) + 1 /\ Len(sc) + 1 \in Nat
    BY <1>1
  <2>2. \A m \in d + 1 .. (Len(sc) + 1) - 1 : sc[m] # StartEvent /\ sc[m] # StopEvent
    BY <1>1, <1>2, <1>3
  <2>3. Between(sc, Len(sc) + 1, StartEvent, StopEvent) <=> Between(sc, d + 1, StartEvent, StopEvent)
    BY <2>1, <2>2, BetweenGap
  <2> QED
    BY <2>3 DEF Alternates
<1>6. s.measured \in Int /\ s.waited \in Int
  BY DEF Sessions
<1>7. s.measured + 0 = Cardinality(Timed(W, sc, d, StartEvent, StopEvent))
  BY <1>5 DEF DeviceTimes
<1>8. s.waited + 0 = Cardinality(Timed(W, sc, Len(sc), ReadClock, AddClock))
  BY DEF HostTimes, Alternates
<1> QED
  BY <1>4, <1>6, <1>7, <1>8

LEMMA ConcatAt ==
  ASSUME NEW S, NEW f \in Seq(S), NEW g \in Seq(S)
  PROVE  /\ f \o g \in Seq(S) /\ Len(f) \in Nat /\ Len(g) \in Nat
         /\ Len(f \o g) = Len(f) + Len(g)
         /\ \A j \in 1 .. Len(f) : (f \o g)[j] = f[j]
         /\ \A j \in 1 .. Len(g) : (f \o g)[Len(f) + j] = g[j]
         /\ \A j \in 1 .. Len(f) + Len(g) :
              j \in 1 .. Len(f) \/ \E i \in 1 .. Len(g) : j = Len(f) + i
<1>1. f \o g \in Seq(S) /\ Len(f) \in Nat /\ Len(g) \in Nat /\ Len(f \o g) = Len(f) + Len(g)
  BY ConcatProperties
<1>2. \A j \in 1 .. Len(f) : (f \o g)[j] = f[j]
  BY ConcatProperties
<1>3. \A j \in 1 .. Len(g) : (f \o g)[Len(f) + j] = g[j]
  BY ConcatProperties
<1>4. ASSUME NEW j \in 1 .. Len(f) + Len(g), j \notin 1 .. Len(f)
      PROVE  \E i \in 1 .. Len(g) : j = Len(f) + i
  <2>1. j - Len(f) \in 1 .. Len(g) /\ j = Len(f) + (j - Len(f))
    BY <1>1, <1>4
  <2> QED
    BY <2>1
<1> QED
  BY <1>1, <1>2, <1>3, <1>4

\* The same, one conclusion each.
LEMMA ConcatLength ==
  ASSUME NEW S, NEW f \in Seq(S), NEW g \in Seq(S)
  PROVE  f \o g \in Seq(S) /\ Len(f \o g) = Len(f) + Len(g)
BY ConcatAt

LEMMA ConcatFront ==
  \A S : \A f, g \in Seq(S) : \A j \in 1 .. Len(f) : (f \o g)[j] = f[j]
BY ConcatAt

LEMMA ConcatBack ==
  \A S : \A f, g \in Seq(S) : \A j \in 1 .. Len(g) : (f \o g)[Len(f) + j] = g[j]
BY ConcatAt

LEMMA BetweenConcat ==
  ASSUME NEW S, NEW f \in Seq(S), NEW g \in Seq(S), NEW b, NEW e
  PROVE  /\ \A j \in 1 .. Len(f) + 1 : Between(f \o g, j, b, e) <=> Between(f, j, b, e)
         /\ ~ Between(f, Len(f) + 1, b, e) =>
              \A j \in 1 .. Len(g) + 1 :
                Between(f \o g, Len(f) + j, b, e) <=> Between(g, j, b, e)
<1> DEFINE h == f \o g
           n == Len(f)
<1>1. /\ n \in Nat /\ Len(g) \in Nat
      /\ \A j \in 1 .. n : h[j] = f[j]
      /\ \A j \in 1 .. Len(g) : h[n + j] = g[j]
  BY ConcatAt
<1> HIDE DEF h, n
<1>2. ASSUME NEW j \in 1 .. n + 1 PROVE Between(h, j, b, e) <=> Between(f, j, b, e)
  <2>1. \A i \in 1 .. j - 1 : h[i] = f[i] /\ \A m \in i + 1 .. j - 1 : h[m] = f[m]
    BY <1>1
  <2> QED
    BY <2>1 DEF Between
<1>3. ASSUME ~ Between(f, n + 1, b, e), NEW j \in 1 .. Len(g) + 1
      PROVE  Between(h, n + j, b, e) <=> Between(g, j, b, e)
  <2>1. ASSUME Between(h, n + j, b, e) PROVE Between(g, j, b, e)
    <3>1. PICK i \in 1 .. (n + j) - 1 :
             h[i] = b /\ \A m \in i + 1 .. (n + j) - 1 : h[m] # e
      BY <2>1 DEF Between
    <3>2. i > n
      <4> SUFFICES ASSUME i <= n PROVE Between(f, n + 1, b, e)
        BY <1>1, <1>3, <3>1
      <4>1. i \in 1 .. (n + 1) - 1 /\ h[i] = f[i]
        BY <1>1
      <4>2. \A m \in i + 1 .. (n + 1) - 1 : m \in i + 1 .. (n + j) - 1 /\ m \in 1 .. n
        BY <1>1, <4>1
      <4> QED
        BY <4>1, <4>2, <3>1, <1>1 DEF Between
    <3>3. i - n \in 1 .. j - 1 /\ i - n \in 1 .. Len(g) /\ n + (i - n) = i
      BY <1>1, <3>2
    <3>4. g[i - n] = b
      BY <3>1, <3>3, <1>1
    <3>5. ASSUME NEW m \in (i - n) + 1 .. j - 1 PROVE g[m] # e
      <4>1. n + m \in i + 1 .. (n + j) - 1 /\ m \in 1 .. Len(g)
        BY <1>1, <3>3
      <4> QED
        BY <4>1, <3>1, <1>1
    <3> QED
      BY <3>3, <3>4, <3>5 DEF Between
  <2>2. ASSUME Between(g, j, b, e) PROVE Between(h, n + j, b, e)
    <3>1. PICK i \in 1 .. j - 1 : g[i] = b /\ \A m \in i + 1 .. j - 1 : g[m] # e
      BY <2>2 DEF Between
    <3>2. n + i \in 1 .. (n + j) - 1 /\ i \in 1 .. Len(g) /\ h[n + i] = b
      BY <1>1, <3>1
    <3>3. ASSUME NEW m \in (n + i) + 1 .. (n + j) - 1 PROVE h[m] # e
      <4>1. m - n \in i + 1 .. j - 1 /\ m - n \in 1 .. Len(g) /\ n + (m - n) = m
        BY <1>1
      <4> QED
        BY <4>1, <3>1, <1>1
    <3> QED
      BY <3>2, <3>3 DEF Between
  <2> QED
    BY <2>1, <2>2
<1> QED
  BY <1>2, <1>3 DEF h, n

LEMMA AlternatesConcat ==
  ASSUME NEW S, NEW f \in Seq(S), NEW g \in Seq(S), NEW b, NEW e,
         Alternates(f, b, e), Alternates(g, b, e)
  PROVE  Alternates(f \o g, b, e)
<1> DEFINE h == f \o g
           n == Len(f)
<1>1. /\ n \in Nat /\ Len(g) \in Nat /\ Len(h) = n + Len(g)
      /\ \A j \in 1 .. n : h[j] = f[j]
      /\ \A j \in 1 .. Len(g) : h[n + j] = g[j]
      /\ \A j \in 1 .. n + Len(g) : j \in 1 .. n \/ \E i \in 1 .. Len(g) : j = n + i
  BY ConcatAt
<1>2. /\ \A j \in 1 .. n + 1 : Between(h, j, b, e) <=> Between(f, j, b, e)
      /\ \A j \in 1 .. Len(g) + 1 : Between(h, n + j, b, e) <=> Between(g, j, b, e)
  BY BetweenConcat DEF Alternates
<1> HIDE DEF h, n
<1>3. ~ Between(h, Len(h) + 1, b, e)
  <2>1. Len(g) + 1 \in 1 .. Len(g) + 1 /\ n + (Len(g) + 1) = Len(h) + 1
    BY <1>1
  <2>2. ~ Between(h, n + (Len(g) + 1), b, e)
    BY <2>1, <1>2 DEF Alternates
  <2> QED
    BY <2>1, <2>2
<1>4. ASSUME NEW j \in 1 .. Len(h)
      PROVE  /\ h[j] = b => ~ Between(h, j, b, e)
             /\ h[j] = e => Between(h, j, b, e)
  <2>1. CASE j \in 1 .. n
    <3>1. j \in 1 .. Len(f) /\ j \in 1 .. n + 1 /\ h[j] = f[j]
      BY <2>1, <1>1 DEF n
    <3> QED
      BY <3>1, <1>2 DEF Alternates, Bracketed
  <2>2. CASE j \notin 1 .. n
    <3>1. PICK i \in 1 .. Len(g) : j = n + i
      BY <2>2, <1>1
    <3>2. i \in 1 .. Len(g) + 1 /\ h[j] = g[i]
      BY <3>1, <1>1
    <3>3. Between(h, j, b, e) <=> Between(g, i, b, e)
      BY <3>1, <3>2, <1>2
    <3> QED
      BY <3>2, <3>3 DEF Alternates, Bracketed
  <2> QED
    BY <2>1, <2>2
<1> QED
  BY <1>3, <1>4 DEF Alternates, Bracketed, h

LEMMA QuietConcat ==
  ASSUME NEW S, NEW f \in Seq(S), NEW g \in Seq(S), NEW W, Quiet(W, f), Quiet(W, g)
  PROVE  Quiet(W, f \o g)
<1> DEFINE h == f \o g
           n == Len(f)
<1>1. /\ n \in Nat /\ Len(g) \in Nat /\ Len(h) = n + Len(g)
      /\ \A j \in 1 .. n : h[j] = f[j]
      /\ \A j \in 1 .. Len(g) : h[n + j] = g[j]
      /\ \A j \in 1 .. n + Len(g) : j \in 1 .. n \/ \E i \in 1 .. Len(g) : j = n + i
  BY ConcatAt
<1> HIDE DEF h
<1> SUFFICES ASSUME NEW j \in 1 .. Len(h), h[j].do \in {"clock", "elapsed"}
             PROVE  \E i \in 1 .. j - 1 : /\ h[i].do = "sync"
                                          /\ \A m \in i + 1 .. j - 1 : h[m].do \notin W
  BY DEF Quiet, h
<1>2. CASE j \in 1 .. n
  <2>1. PICK i \in 1 .. j - 1 : f[i].do = "sync" /\ \A m \in i + 1 .. j - 1 : f[m].do \notin W
    BY <1>1, <1>2 DEF Quiet
  <2>2. i \in 1 .. n /\ \A m \in i + 1 .. j - 1 : m \in 1 .. n
    BY <1>1, <1>2
  <2> QED
    BY <2>1, <2>2, <1>1
<1>3. CASE j \notin 1 .. n
  <2>1. PICK k \in 1 .. Len(g) : j = n + k
    BY <1>1, <1>3
  <2>2. g[k].do \in {"clock", "elapsed"}
    BY <2>1, <1>1
  <2>3. PICK i \in 1 .. k - 1 : g[i].do = "sync" /\ \A m \in i + 1 .. k - 1 : g[m].do \notin W
    BY <2>2 DEF Quiet
  <2>4. n + i \in 1 .. j - 1 /\ h[n + i].do = "sync"
    BY <2>1, <2>3, <1>1
  <2>5. ASSUME NEW m \in (n + i) + 1 .. j - 1 PROVE h[m].do \notin W
    <3>1. m - n \in i + 1 .. k - 1 /\ m - n \in 1 .. Len(g) /\ n + (m - n) = m
      BY <2>1, <1>1
    <3> QED
      BY <3>1, <2>3, <1>1
  <2> QED
    BY <2>4, <2>5
<1> QED
  BY <1>2, <1>3

LEMMA EndsSyncedConcat ==
  ASSUME NEW S, NEW f \in Seq(S), NEW g \in Seq(S), NEW K, EndsSynced(K, g)
  PROVE  EndsSynced(K, f \o g)
<1> DEFINE h == f \o g
           n == Len(f)
<1>1. /\ n \in Nat /\ Len(g) \in Nat /\ Len(h) = n + Len(g)
      /\ \A j \in 1 .. Len(g) : h[n + j] = g[j]
  BY ConcatAt
<1>2. PICK i \in 1 .. Len(g) : /\ g[i].do = "sync"
                               /\ \A m \in i + 1 .. Len(g) : g[m].do \notin K
  BY DEF EndsSynced
<1> HIDE DEF h, n
<1>3. n + i \in 1 .. Len(h) /\ h[n + i].do = "sync"
  BY <1>1, <1>2
<1>4. ASSUME NEW m \in (n + i) + 1 .. Len(h) PROVE h[m].do \notin K
  <2>1. m - n \in i + 1 .. Len(g) /\ m - n \in 1 .. Len(g) /\ n + (m - n) = m
    BY <1>1
  <2> QED
    BY <2>1, <1>1, <1>2
<1> QED
  BY <1>3, <1>4 DEF EndsSynced, h

\* Positions in one sequence, and in one behind it.
LEMMA ShiftedCount ==
  \A n, m \in Nat : \A A \in SUBSET (1 .. n) : \A B \in SUBSET (1 .. m) :
    Cardinality(A \cup {n + j : j \in B}) = Cardinality(A) + Cardinality(B)
<1> TAKE n, m \in Nat
<1> TAKE A \in SUBSET (1 .. n)
<1> TAKE B \in SUBSET (1 .. m)
<1> DEFINE C == {n + j : j \in B}
           f == [j \in B |-> n + j]
<1>1. /\ IsFiniteSet(A) /\ Cardinality(A) \in Nat
      /\ IsFiniteSet(B) /\ Cardinality(B) \in Nat
  <2>1. IsFiniteSet(1 .. n) /\ IsFiniteSet(1 .. m)
    BY FS_Interval
  <2>2. IsFiniteSet(A) /\ IsFiniteSet(B)
    BY <2>1, FS_Subset
  <2> QED
    BY <2>2, FS_CardinalityType
<1>2. ExistsBijection(B, C)
  <2>1. f \in [B -> C]
    OBVIOUS
  <2>2. \A i, j \in B : f[i] = f[j] => i = j
    OBVIOUS
  <2>3. \A c \in C : \E j \in B : f[j] = c
    OBVIOUS
  <2> HIDE DEF f, C
  <2>4. f \in Injection(B, C) /\ f \in Surjection(B, C)
    BY ONLY <2>1, <2>2, <2>3 DEF Injection, IsInjective, Surjection
  <2> QED
    BY <2>4 DEF ExistsBijection, Bijection
<1>3. A \cap C = {}
  OBVIOUS
<1> HIDE DEF C
<1>4. IsFiniteSet(C) /\ Cardinality(C) = Cardinality(B)
  BY <1>1, <1>2, FS_Bijection
<1>5. Cardinality(A \cup C) = Cardinality(A) + Cardinality(C) - 0
  BY <1>1, <1>3, <1>4, FS_Union, FS_EmptySet
<1>6. Cardinality(A \cup C) = Cardinality(A) + Cardinality(B)
  BY <1>1, <1>4, <1>5
<1> QED
  BY <1>6 DEF C

\* Work adds up, and timed work.
LEMMA WorkAt ==
  ASSUME NEW S, NEW f \in Seq(S), NEW g \in Seq(S), NEW W
  PROVE  Work(W, f \o g, Len(f \o g)) =
           Work(W, f, Len(f)) \cup {Len(f) + j : j \in Work(W, g, Len(g))}
<1> DEFINE h == f \o g
           n == Len(f)
<1>1. /\ n \in Nat /\ Len(g) \in Nat /\ Len(h) = n + Len(g)
      /\ \A j \in 1 .. n : h[j] = f[j]
      /\ \A j \in 1 .. Len(g) : h[n + j] = g[j]
      /\ \A j \in 1 .. n + Len(g) : j \in 1 .. n \/ \E i \in 1 .. Len(g) : j = n + i
  BY ConcatAt
<1> HIDE DEF h, n
<1>2. ASSUME NEW j \in Work(W, h, Len(h))
      PROVE  j \in Work(W, f, n) \/ \E i \in Work(W, g, Len(g)) : j = n + i
  BY <1>1 DEF Work
<1>3. ASSUME NEW j \in Work(W, f, n) PROVE j \in Work(W, h, Len(h))
  BY <1>1 DEF Work
<1>4. ASSUME NEW j \in Work(W, g, Len(g)) PROVE n + j \in Work(W, h, Len(h))
  BY <1>1 DEF Work
<1>5. Work(W, h, Len(h)) = Work(W, f, n) \cup {n + j : j \in Work(W, g, Len(g))}
  BY <1>2, <1>3, <1>4
<1> QED
  BY <1>5 DEF h, n

LEMMA WorkConcat ==
  ASSUME NEW S, NEW f \in Seq(S), NEW g \in Seq(S), NEW W
  PROVE  Cardinality(Work(W, f \o g, Len(f \o g))) =
           Cardinality(Work(W, f, Len(f))) + Cardinality(Work(W, g, Len(g)))
<1> DEFINE A == Work(W, f, Len(f))
           B == Work(W, g, Len(g))
<1>1. Work(W, f \o g, Len(f \o g)) = A \cup {Len(f) + j : j \in B}
  BY WorkAt
<1>2. Len(f) \in Nat /\ Len(g) \in Nat /\ A \in SUBSET (1 .. Len(f)) /\ B \in SUBSET (1 .. Len(g))
  BY DEF Work
<1> HIDE DEF A, B
<1>3. Cardinality(A \cup {Len(f) + j : j \in B}) = Cardinality(A) + Cardinality(B)
  <2>1. \A X \in SUBSET (1 .. Len(f)) : \A Y \in SUBSET (1 .. Len(g)) :
          Cardinality(X \cup {Len(f) + j : j \in Y}) = Cardinality(X) + Cardinality(Y)
    BY <1>2, ShiftedCount
  <2> QED
    BY ONLY <1>2, <2>1
<1> QED
  BY <1>1, <1>3 DEF A, B

LEMMA TimedConcat ==
  ASSUME NEW S, NEW f \in Seq(S), NEW g \in Seq(S), NEW W, NEW b, NEW e, Alternates(f, b, e)
  PROVE  Cardinality(Timed(W, f \o g, Len(f \o g), b, e)) =
           Cardinality(Timed(W, f, Len(f), b, e)) + Cardinality(Timed(W, g, Len(g), b, e))
<1> DEFINE h == f \o g
           n == Len(f)
<1>1. /\ n \in Nat /\ Len(g) \in Nat
      /\ Work(W, h, Len(h)) = Work(W, f, n) \cup {n + j : j \in Work(W, g, Len(g))}
  <2>1. Len(f) \in Nat /\ Len(g) \in Nat
    OBVIOUS
  <2>2. Work(W, f \o g, Len(f \o g)) =
          Work(W, f, Len(f)) \cup {Len(f) + j : j \in Work(W, g, Len(g))}
    BY WorkAt
  <2> QED
    BY ONLY <2>1, <2>2 DEF h, n
<1>2. /\ \A j \in 1 .. n + 1 : Between(h, j, b, e) <=> Between(f, j, b, e)
      /\ \A j \in 1 .. Len(g) + 1 : Between(h, n + j, b, e) <=> Between(g, j, b, e)
  BY BetweenConcat DEF Alternates
<1> HIDE DEF h, n
<1>3. Work(W, f, n) \in SUBSET (1 .. n) /\ Work(W, g, Len(g)) \in SUBSET (1 .. Len(g))
  BY DEF Work
<1>4. Timed(W, h, Len(h), b, e) =
        Timed(W, f, n, b, e) \cup {n + j : j \in Timed(W, g, Len(g), b, e)}
  <2>1. \A j \in Work(W, f, n) : Between(h, j, b, e) <=> Between(f, j, b, e)
    BY <1>1, <1>2, <1>3
  <2>2. \A j \in Work(W, g, Len(g)) : Between(h, n + j, b, e) <=> Between(g, j, b, e)
    BY <1>1, <1>2, <1>3
  <2> QED
    BY <1>1, <2>1, <2>2 DEF Timed
<1>5. Timed(W, f, n, b, e) \in SUBSET (1 .. n) /\ Timed(W, g, Len(g), b, e) \in SUBSET (1 .. Len(g))
  BY <1>3 DEF Timed
<1> DEFINE Former == Timed(W, f, n, b, e)
           Latter == Timed(W, g, Len(g), b, e)
<1>6. Cardinality(Timed(W, h, Len(h), b, e)) = Cardinality(Former) + Cardinality(Latter)
  <2> HIDE DEF Former, Latter
  <2>1. Cardinality(Former \cup {n + j : j \in Latter}) = Cardinality(Former) + Cardinality(Latter)
    <3>1. /\ n \in Nat /\ Len(g) \in Nat
          /\ Former \in SUBSET (1 .. n) /\ Latter \in SUBSET (1 .. Len(g))
      BY <1>1, <1>5 DEF Former, Latter
    <3>2. \A A \in SUBSET (1 .. n) : \A B \in SUBSET (1 .. Len(g)) :
            Cardinality(A \cup {n + j : j \in B}) = Cardinality(A) + Cardinality(B)
      BY <3>1, ShiftedCount
    <3> QED
      BY ONLY <3>1, <3>2
  <2> QED
    BY <1>4, <2>1 DEF Former, Latter
<1> QED
  BY <1>6 DEF h, n

\* One b, and one e behind it.
LEMMA OnePair ==
  ASSUME NEW S, NEW sc \in Seq(S), NEW b, NEW e, b # e,
         NEW p \in 1 .. Len(sc), NEW q \in 1 .. Len(sc), p < q,
         \A j \in 1 .. Len(sc) : (sc[j] = b <=> j = p) /\ (sc[j] = e <=> j = q)
  PROVE  /\ Alternates(sc, b, e)
         /\ \A j \in 1 .. Len(sc) + 1 : Between(sc, j, b, e) <=> p < j /\ j <= q
<1>1. ASSUME NEW j \in 1 .. Len(sc) + 1
      PROVE  Between(sc, j, b, e) <=> p < j /\ j <= q
  <2>1. ASSUME Between(sc, j, b, e) PROVE p < j /\ j <= q
    <3>1. PICK i \in 1 .. j - 1 : sc[i] = b /\ \A m \in i + 1 .. j - 1 : sc[m] # e
      BY <2>1 DEF Between
    <3>2. i = p
      BY <3>1
    <3>3. q \notin i + 1 .. j - 1
      BY <3>1
    <3> QED
      BY <3>2, <3>3
  <2>2. ASSUME p < j, j <= q PROVE Between(sc, j, b, e)
    <3>1. p \in 1 .. j - 1 /\ sc[p] = b
      BY <2>2
    <3>2. \A m \in p + 1 .. j - 1 : m \in 1 .. Len(sc) /\ m # q
      BY <2>2
    <3> QED
      BY <3>1, <3>2 DEF Between
  <2> QED
    BY <2>1, <2>2
<1>2. Len(sc) \in Nat
  OBVIOUS
<1>3. ~ Between(sc, Len(sc) + 1, b, e)
  BY <1>1, <1>2
<1>4. Bracketed(sc, b, e)
  BY <1>1, <1>2 DEF Bracketed
<1> QED
  BY <1>1, <1>3, <1>4 DEF Alternates

\* Neither b nor e.
LEMMA NoPair ==
  ASSUME NEW S, NEW sc \in Seq(S), NEW b, NEW e,
         \A j \in 1 .. Len(sc) : sc[j] # b /\ sc[j] # e
  PROVE  /\ Alternates(sc, b, e)
         /\ \A W : Timed(W, sc, Len(sc), b, e) = {}
<1>1. ASSUME NEW j \in 1 .. Len(sc) + 1 PROVE ~ Between(sc, j, b, e)
  BY DEF Between
<1>2. Len(sc) \in Nat
  OBVIOUS
<1> QED
  BY <1>1, <1>2 DEF Alternates, Bracketed, Timed, Work

\* One b in front, and one e behind, of what is timed.
\* A sequence r of k items between f of n and g of m.
Around(sc, f, r, g, n, k, m) ==
  /\ n \in Nat /\ k \in Nat /\ m \in Nat /\ Len(sc) = (n + k) + m
  /\ \A j \in 1 .. n : sc[j] = f[j]
  /\ \A j \in 1 .. k : sc[n + j] = r[j]
  /\ \A j \in 1 .. m : sc[(n + k) + j] = g[j]
  /\ \A j \in 1 .. Len(sc) : \/ j \in 1 .. n
                             \/ \E i \in 1 .. k : j = n + i
                             \/ \E i \in 1 .. m : j = (n + k) + i

LEMMA AroundAt ==
  ASSUME NEW S, NEW f \in Seq(S), NEW r \in Seq(S), NEW g \in Seq(S),
         NEW sc, sc = (f \o r) \o g, NEW n, n = Len(f), NEW k, k = Len(r), NEW m, m = Len(g)
  PROVE  sc \in Seq(S) /\ Around(sc, f, r, g, n, k, m)
<1>0. PICK h : h = f \o r
  OBVIOUS
<1>1. /\ h \in Seq(S) /\ n \in Nat /\ k \in Nat /\ Len(h) = n + k
      /\ \A j \in 1 .. n : h[j] = f[j]
      /\ \A j \in 1 .. k : h[n + j] = r[j]
      /\ \A j \in 1 .. n + k : j \in 1 .. n \/ \E i \in 1 .. k : j = n + i
  BY <1>0, ConcatAt
<1>2. h \in Seq(S) /\ Len(h) = n + k /\ sc = h \o g
  BY <1>0, <1>1
<1>3. /\ sc \in Seq(S) /\ m \in Nat /\ Len(sc) = (n + k) + m
      /\ \A j \in 1 .. n + k : sc[j] = h[j]
      /\ \A j \in 1 .. m : sc[(n + k) + j] = g[j]
  <2>1. sc \in Seq(S) /\ m \in Nat /\ Len(sc) = (n + k) + m
    <3>1. h \o g \in Seq(S) /\ Len(h \o g) = Len(h) + Len(g)
      BY <1>2, ConcatLength
    <3>2. m \in Nat
      OBVIOUS
    <3> QED
      BY ONLY <1>2, <3>1, <3>2, m = Len(g)
  <2>2. \A j \in 1 .. Len(h) : sc[j] = h[j]
    BY ONLY <1>2, ConcatFront, g \in Seq(S)
  <2>3. \A j \in 1 .. Len(g) : sc[Len(h) + j] = g[j]
    BY ONLY <1>2, ConcatBack, g \in Seq(S)
  <2> QED
    BY <1>2, <2>1, <2>2, <2>3
<1>4. ASSUME NEW j \in 1 .. (n + k) + m, j \notin 1 .. n + k
      PROVE  \E i \in 1 .. m : j = (n + k) + i
  <2>1. j - (n + k) \in 1 .. m /\ j = (n + k) + (j - (n + k))
    BY <1>1, <1>3, <1>4
  <2> QED
    BY <2>1
<1>5. \A j \in 1 .. n : sc[j] = f[j]
  BY <1>1, <1>3
<1>6. \A j \in 1 .. k : sc[n + j] = r[j]
  BY <1>1, <1>3
<1>7. \A j \in 1 .. Len(sc) : \/ j \in 1 .. n
                              \/ \E i \in 1 .. k : j = n + i
                              \/ \E i \in 1 .. m : j = (n + k) + i
  <2> TAKE j \in 1 .. Len(sc)
  <2>1. j \in 1 .. (n + k) + m
    BY <1>3
  <2>2. CASE j \in 1 .. n + k
    BY <1>1, <2>2
  <2>3. CASE j \notin 1 .. n + k
    BY <1>4, <2>1, <2>3
  <2> QED
    BY <2>2, <2>3
<1> QED
  BY <1>1, <1>3, <1>5, <1>6, <1>7 DEF Around

\* Timed between b and e is what r does.
TimesInside(sc, f, r, g, b, e) ==
  \A W : (\A j \in 1 .. Len(f) : f[j].do \notin W) /\ (\A j \in 1 .. Len(g) : g[j].do \notin W)
         => Cardinality(Timed(W, sc, Len(sc), b, e)) = Cardinality(Work(W, r, Len(r)))

LEMMA TimedAround ==
  ASSUME NEW S, NEW f \in Seq(S), NEW r \in Seq(S), NEW g \in Seq(S), NEW b, NEW e, b # e,
         NEW p \in 1 .. Len(f), NEW q \in 1 .. Len(g),
         \A j \in 1 .. Len(f) : (f[j] = b <=> j = p) /\ f[j] # e,
         \A j \in 1 .. Len(r) : r[j] # b /\ r[j] # e,
         \A j \in 1 .. Len(g) : (g[j] = e <=> j = q) /\ g[j] # b,
         NEW sc, sc = (f \o r) \o g
  PROVE  Alternates(sc, b, e) /\ TimesInside(sc, f, r, g, b, e)
<1>0. PICK n, k, m, h : n = Len(f) /\ k = Len(r) /\ m = Len(g) /\ h = f \o r
  OBVIOUS
<1> DEFINE z == (n + k) + q
<1>a. sc \in Seq(S) /\ Around(sc, f, r, g, n, k, m)
  BY <1>0, AroundAt
<1>1. /\ n \in Nat /\ k \in Nat /\ m \in Nat /\ Len(sc) = (n + k) + m
      /\ \A j \in 1 .. n : sc[j] = f[j]
      /\ \A j \in 1 .. k : sc[n + j] = r[j]
      /\ \A j \in 1 .. m : sc[(n + k) + j] = g[j]
      /\ \A j \in 1 .. Len(sc) : \/ j \in 1 .. n
                                 \/ \E i \in 1 .. k : j = n + i
                                 \/ \E i \in 1 .. m : j = (n + k) + i
  BY <1>a DEF Around
<1>2. \A j \in 1 .. (n + k) + m : \/ j \in 1 .. n
                                  \/ \E i \in 1 .. k : j = n + i
                                  \/ \E i \in 1 .. m : j = (n + k) + i
  BY <1>1
<1>3. p \in 1 .. Len(sc) /\ z \in 1 .. Len(sc) /\ p < z /\ p \in 1 .. n /\ q \in 1 .. m
  BY <1>0, <1>1, <1>2
<1>4. ASSUME NEW j \in 1 .. Len(sc) PROVE (sc[j] = b <=> j = p) /\ (sc[j] = e <=> j = z)
  <2>1. CASE j \in 1 .. n
    <3>1. sc[j] = f[j] /\ j # z
      BY <1>1, <1>2, <1>3, <2>1
    <3> QED
      BY <1>0, <2>1, <3>1
  <2>2. CASE \E i \in 1 .. k : j = n + i
    <3>1. PICK i \in 1 .. k : j = n + i
      BY <2>2
    <3>2. sc[j] = r[i] /\ j # z /\ j # p
      BY <1>1, <1>2, <1>3, <3>1
    <3> QED
      BY <1>0, <3>2
  <2>3. CASE \E i \in 1 .. m : j = (n + k) + i
    <3>1. PICK i \in 1 .. m : j = (n + k) + i
      BY <2>3
    <3>2. sc[j] = g[i] /\ j # p /\ (j = z <=> i = q)
      BY <1>1, <1>2, <1>3, <3>1
    <3> QED
      BY <1>0, <3>2
  <2> QED
    BY <1>1, <1>2, <2>1, <2>2, <2>3
<1>5. /\ Alternates(sc, b, e)
      /\ \A j \in 1 .. Len(sc) + 1 : Between(sc, j, b, e) <=> p < j /\ j <= z
  BY <1>a, <1>3, <1>4, OnePair
<1>6. ASSUME NEW W, \A j \in 1 .. n : f[j].do \notin W, \A j \in 1 .. m : g[j].do \notin W
      PROVE  Cardinality(Timed(W, sc, Len(sc), b, e)) = Cardinality(Work(W, r, k))
  <2>1. Work(W, f, n) = {} /\ Work(W, g, m) = {}
    BY <1>6 DEF Work
  <2>2. /\ Work(W, h, Len(h)) = Work(W, f, n) \cup {n + j : j \in Work(W, r, k)}
        /\ Cardinality(Work(W, h, Len(h))) =
             Cardinality(Work(W, f, n)) + Cardinality(Work(W, r, k))
    <3>1. Work(W, f \o r, Len(f \o r)) =
            Work(W, f, Len(f)) \cup {Len(f) + j : j \in Work(W, r, Len(r))}
      BY WorkAt
    <3>2. Cardinality(Work(W, f \o r, Len(f \o r))) =
            Cardinality(Work(W, f, Len(f))) + Cardinality(Work(W, r, Len(r)))
      BY WorkConcat
    <3> QED
      BY ONLY <1>0, <3>1, <3>2
  <2>3. /\ Work(W, sc, Len(sc)) = Work(W, h, Len(h)) \cup {Len(h) + j : j \in Work(W, g, m)}
        /\ Cardinality(Work(W, sc, Len(sc))) =
             Cardinality(Work(W, h, Len(h))) + Cardinality(Work(W, g, m))
    <3>0. h \in Seq(S)
      BY <1>0, ConcatLength
    <3>1. Work(W, h \o g, Len(h \o g)) =
            Work(W, h, Len(h)) \cup {Len(h) + j : j \in Work(W, g, Len(g))}
      BY <3>0, WorkAt
    <3>2. Cardinality(Work(W, h \o g, Len(h \o g))) =
            Cardinality(Work(W, h, Len(h))) + Cardinality(Work(W, g, Len(g)))
      BY <3>0, WorkConcat
    <3>3. sc = h \o g /\ m = Len(g)
      BY <1>0
    <3> QED
      BY ONLY <3>1, <3>2, <3>3
  <2>4. \A j \in Work(W, sc, Len(sc)) : Between(sc, j, b, e)
    <3>1. \A j \in Work(W, sc, Len(sc)) : \E i \in 1 .. k : j = n + i
      BY <2>1, <2>2, <2>3 DEF Work
    <3>2. \A j \in Work(W, sc, Len(sc)) : j \in 1 .. Len(sc) + 1 /\ p < j /\ j <= z
      BY <1>1, <1>2, <1>3, <3>1
    <3> QED
      BY <1>5, <3>2
  <2>5. Timed(W, sc, Len(sc), b, e) = Work(W, sc, Len(sc))
    BY <2>4 DEF Timed
  <2>6. Cardinality(Work(W, r, k)) \in Nat
    BY <1>1, WorkFinite
  <2> QED
    BY <2>1, <2>2, <2>3, <2>5, <2>6, FS_EmptySet
<1> QED
  BY <1>0, <1>5, <1>6 DEF TimesInside

\* No event is enqueued behind the last synchronize.
Settled(sc) ==
  \E i \in 0 .. Len(sc) : /\ i > 0 => sc[i].do = "sync"
                          /\ \A m \in i + 1 .. Len(sc) : sc[m].do \notin {"start", "stop"}

LEMMA SettledConcat ==
  ASSUME NEW S, NEW f \in Seq(S), NEW g \in Seq(S), Settled(f), Settled(g)
  PROVE  Settled(f \o g)
<1> DEFINE h == f \o g
           n == Len(f)
<1>1. /\ n \in Nat /\ Len(g) \in Nat /\ Len(h) = n + Len(g)
      /\ \A j \in 1 .. n : h[j] = f[j]
      /\ \A j \in 1 .. Len(g) : h[n + j] = g[j]
  BY ConcatAt
<1>2. PICK i \in 0 .. Len(g) :
        /\ i > 0 => g[i].do = "sync"
        /\ \A m \in i + 1 .. Len(g) : g[m].do \notin {"start", "stop"}
  BY DEF Settled
<1>3. PICK j \in 0 .. n :
        /\ j > 0 => f[j].do = "sync"
        /\ \A m \in j + 1 .. n : f[m].do \notin {"start", "stop"}
  BY DEF Settled
<1> HIDE DEF h, n
<1>4. CASE i > 0
  <2>1. n + i \in 0 .. Len(h) /\ h[n + i].do = "sync"
    BY <1>1, <1>2, <1>4
  <2>2. ASSUME NEW m \in (n + i) + 1 .. Len(h) PROVE h[m].do \notin {"start", "stop"}
    <3>1. m - n \in i + 1 .. Len(g) /\ m - n \in 1 .. Len(g) /\ n + (m - n) = m
      BY <1>1
    <3> QED
      BY <1>1, <1>2, <3>1
  <2> QED
    BY <2>1, <2>2 DEF Settled, h
<1>5. CASE i = 0
  <2>1. j \in 0 .. Len(h) /\ (j > 0 => h[j].do = "sync")
    BY <1>1, <1>3
  <2>2. ASSUME NEW m \in j + 1 .. Len(h) PROVE h[m].do \notin {"start", "stop"}
    <3>1. CASE m \in 1 .. n
      BY <1>1, <1>3, <3>1
    <3>2. CASE m \notin 1 .. n
      <4>1. m - n \in i + 1 .. Len(g) /\ m - n \in 1 .. Len(g) /\ n + (m - n) = m
        BY <1>1, <1>3, <1>5, <3>2
      <4> QED
        BY <1>1, <1>2, <4>1
    <3> QED
      BY <3>1, <3>2
  <2> QED
    BY <2>1, <2>2 DEF Settled, h
<1> QED
  BY <1>4, <1>5

\* When the process is through, the device has come to the last event.
LEMMA TimedAtEnd ==
  ASSUME NEW S, NEW sc \in Seq(S), NEW s, NEW K, {"start", "stop"} \subseteq K, NEW d, NEW x,
         Tracks(K, s, sc, d, x), s.at = Len(sc), Settled(sc),
         Alternates(sc, StartEvent, StopEvent)
  PROVE  /\ ~ Between(sc, d + 1, StartEvent, StopEvent)
         /\ \A W : Timed(W, sc, d, StartEvent, StopEvent) =
                     Timed(W, sc, Len(sc), StartEvent, StopEvent)
<1>1. d \in Nat /\ Len(sc) \in Nat /\ d <= Len(sc)
  BY DEF Tracks
<1>2. ASSUME NEW j \in d + 1 .. Len(sc) PROVE sc[j].do \notin {"start", "stop"}
  <2>1. PICK i \in 0 .. Len(sc) :
          /\ i > 0 => sc[i].do = "sync"
          /\ \A m \in i + 1 .. Len(sc) : sc[m].do \notin {"start", "stop"}
    BY DEF Settled
  <2> SUFFICES ASSUME sc[j].do \in K PROVE j \in i + 1 .. Len(sc)
    BY <2>1
  <2>2. PICK m \in 1 .. Len(x) : x[m] = j
    BY DEF Tracks
  <2>3. i > 0 => i < x[m]
    BY <2>1, <2>2 DEF Tracks
  <2> QED
    BY <1>1, <2>2, <2>3
<1>3. StartEvent.do = "start" /\ StopEvent.do = "stop"
  BY DEF StartEvent, StopEvent, Instr
<1>4. ASSUME NEW j \in d + 1 .. Len(sc) + 1 PROVE ~ Between(sc, j, StartEvent, StopEvent)
  <2>1. j \in Nat \ {0} /\ j <= Len(sc) + 1 /\ Len(sc) + 1 \in Nat
    BY <1>1
  <2>2. \A m \in j .. (Len(sc) + 1) - 1 : sc[m] # StartEvent /\ sc[m] # StopEvent
    BY <1>1, <1>2, <1>3
  <2>3. Between(sc, Len(sc) + 1, StartEvent, StopEvent) <=> Between(sc, j, StartEvent, StopEvent)
    BY <2>1, <2>2, BetweenGap
  <2> QED
    BY <2>3 DEF Alternates
<1>5. d + 1 \in d + 1 .. Len(sc) + 1
  BY <1>1
<1>6. ASSUME NEW W
      PROVE  Timed(W, sc, d, StartEvent, StopEvent) =
               Timed(W, sc, Len(sc), StartEvent, StopEvent)
  BY <1>1, <1>4 DEF Timed, Work
<1> QED
  BY <1>4, <1>5, <1>6

\* What a loop of the same calls puts on the stream.
Repeated(n, calls) == Repeat(n, LAMBDA i : calls)

LEMMA RepeatWork ==
  ASSUME NEW S, NEW calls \in Seq(S), NEW n \in Nat, NEW W,
         NEW c \in Nat, c = Cardinality(Work(W, calls, Len(calls))),
         NEW loop, loop = Repeated(n, calls)
  PROVE  Cardinality(Work(W, loop, Len(loop))) = n * c
<1> DEFINE seqs == [i \in 1 .. n |-> calls]
           T == {p \in Seq(S) \X Nat : Cardinality(Work(W, p[1], Len(p[1]))) = p[2]}
           g == [i \in 0 .. n |-> i * c]
<1>1. seqs \in Seq(Seq(S)) /\ Len(seqs) = n /\ \A i \in 1 .. n : seqs[i] = calls
  OBVIOUS
<1>2. \A i \in 0 .. n : g[i] = i * c /\ g[i] \in Nat
  OBVIOUS
<1>3. \A f \in Seq(S) : \A k \in Nat :
        <<f, k>> \in T <=> Cardinality(Work(W, f, Len(f))) = k
  OBVIOUS
<1>4. loop = FlattenSeq(seqs)
  BY DEF Repeat, Repeated
<1> HIDE DEF seqs, T, g
<1>5. <<<< >>, g[0]>> \in T
  <2>1. << >> \in Seq(S) /\ Work(W, << >>, Len(<< >>)) = {}
    BY DEF Work
  <2>2. g[0] = 0
    BY <1>2
  <2>3. Cardinality(Work(W, << >>, Len(<< >>))) = 0
    BY <2>1, FS_EmptySet
  <2>4. PICK e \in Seq(S) : e = << >>
    BY <2>1
  <2>5. <<e, 0>> \in T
    <3>1. Cardinality(Work(W, e, Len(e))) = 0
      BY <2>3, <2>4
    <3>2. <<e, 0>> \in T <=> Cardinality(Work(W, e, Len(e))) = 0
      BY ONLY e \in Seq(S), <1>3
    <3> QED
      BY <3>1, <3>2
  <2> QED
    BY <2>2, <2>4, <2>5
<1>6. ASSUME NEW i \in 1 .. n, NEW f \in Seq(S), <<f, g[i - 1]>> \in T
      PROVE  <<f \o seqs[i], g[i]>> \in T
  <2>1. i - 1 \in 0 .. n /\ i \in 0 .. n /\ (i - 1) * c + c = i * c
    OBVIOUS
  <2>2. g[i - 1] = (i - 1) * c /\ g[i - 1] \in Nat /\ g[i] = i * c /\ g[i] \in Nat
    BY <1>2, <2>1
  <2>3. Cardinality(Work(W, f, Len(f))) = (i - 1) * c
    BY <1>3, <1>6, <2>2
  <2>4. Cardinality(Work(W, f \o calls, Len(f \o calls))) = g[i]
    <3>1. Cardinality(Work(W, f \o calls, Len(f \o calls))) =
            Cardinality(Work(W, f, Len(f))) + c
      BY WorkConcat
    <3> QED
      BY <2>1, <2>2, <2>3, <3>1
  <2>5. f \o calls \in Seq(S)
    BY ConcatLength
  <2> QED
    BY <1>1, <1>3, <2>2, <2>4, <2>5
<1>7. <<FlattenSeq(seqs), g[n]>> \in T
  BY <1>1, <1>5, <1>6, FlattenInduces
<1>8. n \in 0 .. n /\ FlattenSeq(seqs) \in Seq(S)
  BY <1>1, FlattenIn
<1> QED
  BY <1>2, <1>3, <1>4, <1>7, <1>8

=============================================================================
