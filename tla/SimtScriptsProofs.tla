-------------------------- MODULE SimtScriptsProofs --------------------------
(***************************************************************************)
(* Proofs about SimtScripts. First what the scripts are like: what a launch  *)
(* runs on was uploaded before it and is not dropped before a synchronize    *)
(* behind it, no case is launched twice, few states are held, and what the  *)
(* benchmark times is --rounds launches. Then, with NpuStreamProofs, what    *)
(* that makes of every state the processes and their devices can be in.      *)
(***************************************************************************)
EXTENDS SimtScripts, NpuStreamProofs

\* What is enqueued, and what of it takes the device time.
Kinds == {"upload", "launch", "start", "stop"}
Works == {"upload", "launch"}

DirectoryKinds == {"look", "mkdir", "capture", "analyse", "discover", "copy", "manifest"}

Items ==
  {StartEvent, StopEvent, Synchronize, ReadClock, AddClock}
    \cup [do : {"upload", "launch", "check", "manifest"}, on : Nat]
    \cup [do : {"drop"}, on : SUBSET Nat]
    \cup [do : {"look", "capture", "analyse", "discover", "copy"}, on : {0}]
    \cup [do : {"mkdir"}, on : {"raw", "parsed"}]

-----------------------------------------------------------------------------
(* What makes a script a good one.                                          *)

\* Every launch has its case uploaded and not dropped, and is waited for
\* before the next drop.
Launchable(sc) ==
  \A j \in 1 .. Len(sc) : sc[j].do = "launch" =>
    /\ \E u \in 1 .. j - 1 :
         /\ sc[u].do = "upload" /\ sc[u].on = sc[j].on
         /\ \A m \in u + 1 .. j - 1 : sc[m].do # "drop"
    /\ \E y \in j + 1 .. Len(sc) :
         /\ sc[y].do = "sync"
         /\ \A m \in j + 1 .. y - 1 : sc[m].do # "drop"

\* What is compared with the reference has been launched and waited for.
Compared(sc) ==
  \A j \in 1 .. Len(sc) : sc[j].do = "check" =>
    \E i \in 1 .. j - 1 :
      /\ sc[i].do = "launch" /\ sc[i].on = sc[j].on
      /\ \E y \in i + 1 .. j - 1 : sc[y].do = "sync"

\* No case is launched twice, and all are from lo up to hi.
Fresh(sc, lo, hi) ==
  /\ \A j \in 1 .. Len(sc) : sc[j].do = "launch" =>
       sc[j].on \in Nat /\ lo <= sc[j].on /\ sc[j].on < hi
  /\ \A i, j \in 1 .. Len(sc) :
       sc[i].do = "launch" /\ sc[j].do = "launch" /\ sc[i].on = sc[j].on => i = j

\* The cases uploaded in the first n instructions and not dropped since.
Uploads(sc, n) ==
  {v \in 1 .. n : /\ sc[v].do = "upload"
                  /\ \A m \in v + 1 .. n : sc[m].do = "drop" => sc[v].on \notin sc[m].on}

Live(sc, n) == {sc[u].on : u \in Uploads(sc, n)}

Holds(sc, bound) ==
  \A n \in 0 .. Len(sc) : IsFiniteSet(Live(sc, n)) /\ Cardinality(Live(sc, n)) <= bound

Emptied(sc) == Live(sc, Len(sc)) = {}

Good(sc, lo, hi, bound) ==
  /\ sc \in Seq(Items)
  /\ Launchable(sc) /\ Compared(sc)
  /\ Fresh(sc, lo, hi)
  /\ Holds(sc, bound)
  /\ Quiet(Works, sc)
  /\ Alternates(sc, StartEvent, StopEvent)
  /\ Alternates(sc, ReadClock, AddClock)

\* Both watches time n pieces of work.
Times(sc, n) ==
  /\ Cardinality(Timed(Works, sc, Len(sc), StartEvent, StopEvent)) = n
  /\ Cardinality(Timed(Works, sc, Len(sc), ReadClock, AddClock)) = n

\* It has nothing to do with an output directory.
Plain(sc) == \A j \in 1 .. Len(sc) : sc[j].do \notin DirectoryKinds

LEMMA PlainConcat ==
  ASSUME NEW f \in Seq(Items), NEW g \in Seq(Items), Plain(f), Plain(g)
  PROVE  Plain(f \o g)
<1> DEFINE h == f \o g
           n == Len(f)
<1>1. /\ Len(h) = n + Len(g)
      /\ \A j \in 1 .. n : h[j] = f[j]
      /\ \A j \in 1 .. Len(g) : h[n + j] = g[j]
      /\ \A j \in 1 .. n + Len(g) : j \in 1 .. n \/ \E i \in 1 .. Len(g) : j = n + i
  BY ConcatAt
<1> HIDE DEF h, n
<1>2. ASSUME NEW j \in 1 .. Len(h) PROVE h[j].do \notin DirectoryKinds
  <2>1. CASE j \in 1 .. n
    BY <2>1, <1>1 DEF Plain, n
  <2>2. CASE \E i \in 1 .. Len(g) : j = n + i
    BY <2>2, <1>1 DEF Plain
  <2> QED
    BY <1>1, <2>1, <2>2
<1> QED
  BY <1>2 DEF Plain, h

LEMMA LaunchableConcat ==
  ASSUME NEW f \in Seq(Items), NEW g \in Seq(Items), Launchable(f), Launchable(g)
  PROVE  Launchable(f \o g)
<1> DEFINE h == f \o g
           n == Len(f)
<1>1. /\ n \in Nat /\ Len(g) \in Nat /\ Len(h) = n + Len(g)
      /\ \A j \in 1 .. n : h[j] = f[j]
      /\ \A j \in 1 .. Len(g) : h[n + j] = g[j]
      /\ \A j \in 1 .. n + Len(g) : j \in 1 .. n \/ \E i \in 1 .. Len(g) : j = n + i
  BY ConcatAt
<1> HIDE DEF h
<1> SUFFICES ASSUME NEW j \in 1 .. Len(h), h[j].do = "launch"
             PROVE  /\ \E u \in 1 .. j - 1 :
                         /\ h[u].do = "upload" /\ h[u].on = h[j].on
                         /\ \A m \in u + 1 .. j - 1 : h[m].do # "drop"
                    /\ \E y \in j + 1 .. Len(h) :
                         /\ h[y].do = "sync"
                         /\ \A m \in j + 1 .. y - 1 : h[m].do # "drop"
  BY DEF Launchable, h
<1>2. CASE j \in 1 .. n
  <2>1. j \in 1 .. Len(f) /\ h[j] = f[j]
    BY <1>1, <1>2
  <2>2. PICK u \in 1 .. j - 1 : /\ f[u].do = "upload" /\ f[u].on = f[j].on
                                /\ \A m \in u + 1 .. j - 1 : f[m].do # "drop"
    BY <2>1 DEF Launchable
  <2>3. PICK y \in j + 1 .. n : /\ f[y].do = "sync"
                                /\ \A m \in j + 1 .. y - 1 : f[m].do # "drop"
    BY <2>1 DEF Launchable
  <2>4. u \in 1 .. n /\ \A m \in u + 1 .. j - 1 : m \in 1 .. n
    BY <1>1, <1>2
  <2>5. y \in 1 .. n /\ y \in j + 1 .. Len(h) /\ \A m \in j + 1 .. y - 1 : m \in 1 .. n
    BY <1>1, <1>2
  <2>6. /\ h[u].do = "upload" /\ h[u].on = h[j].on
        /\ \A m \in u + 1 .. j - 1 : h[m].do # "drop"
    BY <2>1, <2>2, <2>4, <1>1
  <2>7. h[y].do = "sync" /\ \A m \in j + 1 .. y - 1 : h[m].do # "drop"
    BY <2>3, <2>5, <1>1
  <2> QED
    BY <2>5, <2>6, <2>7
<1>3. CASE j \notin 1 .. n
  <2>1. PICK k \in 1 .. Len(g) : j = n + k
    BY <1>1, <1>3
  <2>2. h[j] = g[k] /\ g[k].do = "launch"
    BY <2>1, <1>1
  <2>3. PICK u \in 1 .. k - 1 : /\ g[u].do = "upload" /\ g[u].on = g[k].on
                                /\ \A m \in u + 1 .. k - 1 : g[m].do # "drop"
    BY <2>2 DEF Launchable
  <2>4. PICK y \in k + 1 .. Len(g) : /\ g[y].do = "sync"
                                     /\ \A m \in k + 1 .. y - 1 : g[m].do # "drop"
    BY <2>2 DEF Launchable
  <2>5. n + u \in 1 .. j - 1 /\ h[n + u] = g[u]
    BY <2>1, <1>1
  <2>6. n + y \in j + 1 .. Len(h) /\ h[n + y] = g[y]
    BY <2>1, <1>1
  <2>7. ASSUME NEW m \in (n + u) + 1 .. j - 1 PROVE h[m].do # "drop"
    <3>1. m - n \in u + 1 .. k - 1 /\ m - n \in 1 .. Len(g) /\ n + (m - n) = m
      BY <2>1, <1>1
    <3> QED
      BY <3>1, <2>3, <1>1
  <2>8. ASSUME NEW m \in j + 1 .. (n + y) - 1 PROVE h[m].do # "drop"
    <3>1. m - n \in k + 1 .. y - 1 /\ m - n \in 1 .. Len(g) /\ n + (m - n) = m
      BY <2>1, <1>1
    <3> QED
      BY <3>1, <2>4, <1>1
  <2>9. \E v \in 1 .. j - 1 : /\ h[v].do = "upload" /\ h[v].on = h[j].on
                              /\ \A m \in v + 1 .. j - 1 : h[m].do # "drop"
    BY <2>2, <2>3, <2>5, <2>7
  <2> QED
    BY <2>4, <2>6, <2>8, <2>9
<1> QED
  BY <1>2, <1>3

LEMMA ComparedConcat ==
  ASSUME NEW f \in Seq(Items), NEW g \in Seq(Items), Compared(f), Compared(g)
  PROVE  Compared(f \o g)
<1> DEFINE h == f \o g
           n == Len(f)
<1>1. /\ n \in Nat /\ Len(g) \in Nat /\ Len(h) = n + Len(g)
      /\ \A j \in 1 .. n : h[j] = f[j]
      /\ \A j \in 1 .. Len(g) : h[n + j] = g[j]
      /\ \A j \in 1 .. n + Len(g) : j \in 1 .. n \/ \E i \in 1 .. Len(g) : j = n + i
  BY ConcatAt
<1> HIDE DEF h
<1> SUFFICES ASSUME NEW j \in 1 .. Len(h), h[j].do = "check"
             PROVE  \E i \in 1 .. j - 1 :
                      /\ h[i].do = "launch" /\ h[i].on = h[j].on
                      /\ \E y \in i + 1 .. j - 1 : h[y].do = "sync"
  BY DEF Compared, h
<1>2. CASE j \in 1 .. n
  <2>1. j \in 1 .. Len(f) /\ h[j] = f[j]
    BY <1>1, <1>2
  <2>2. PICK i \in 1 .. j - 1 : /\ f[i].do = "launch" /\ f[i].on = f[j].on
                                /\ \E y \in i + 1 .. j - 1 : f[y].do = "sync"
    BY <2>1 DEF Compared
  <2>3. PICK y \in i + 1 .. j - 1 : f[y].do = "sync"
    BY <2>2
  <2>4. i \in 1 .. n /\ y \in 1 .. n
    BY <1>1, <1>2
  <2> QED
    BY <2>1, <2>2, <2>3, <2>4, <1>1
<1>3. CASE j \notin 1 .. n
  <2>1. PICK k \in 1 .. Len(g) : j = n + k
    BY <1>1, <1>3
  <2>2. h[j] = g[k] /\ g[k].do = "check"
    BY <2>1, <1>1
  <2>3. PICK i \in 1 .. k - 1 : /\ g[i].do = "launch" /\ g[i].on = g[k].on
                                /\ \E y \in i + 1 .. k - 1 : g[y].do = "sync"
    BY <2>2 DEF Compared
  <2>4. PICK y \in i + 1 .. k - 1 : g[y].do = "sync"
    BY <2>3
  <2>5. n + i \in 1 .. j - 1 /\ h[n + i] = g[i]
    <3>1. i \in 1 .. Len(g) /\ n + i \in 1 .. j - 1
      BY <2>1, <1>1
    <3> QED
      BY <3>1, <1>1
  <2>6. n + y \in (n + i) + 1 .. j - 1 /\ h[n + y] = g[y]
    BY <2>1, <1>1
  <2> QED
    BY <2>2, <2>3, <2>4, <2>5, <2>6
<1> QED
  BY <1>2, <1>3

LEMMA FreshConcat ==
  ASSUME NEW f \in Seq(Items), NEW g \in Seq(Items),
         NEW lo \in Nat, NEW mid \in Nat, NEW hi \in Nat, lo <= mid, mid <= hi,
         Fresh(f, lo, mid), Fresh(g, mid, hi)
  PROVE  Fresh(f \o g, lo, hi)
<1> DEFINE h == f \o g
           n == Len(f)
<1>1. /\ n \in Nat /\ Len(g) \in Nat /\ Len(h) = n + Len(g)
      /\ \A j \in 1 .. n : h[j] = f[j]
      /\ \A j \in 1 .. Len(g) : h[n + j] = g[j]
      /\ \A j \in 1 .. n + Len(g) : j \in 1 .. n \/ \E i \in 1 .. Len(g) : j = n + i
  BY ConcatAt
<1> HIDE DEF h
<1>2. ASSUME NEW j \in 1 .. Len(h), h[j].do = "launch"
      PROVE  h[j].on \in Nat /\ lo <= h[j].on /\ h[j].on < hi
             /\ (j \in 1 .. n <=> h[j].on < mid)
  <2>1. CASE j \in 1 .. n
    <3>1. h[j] = f[j] /\ j \in 1 .. Len(f)
      BY <2>1, <1>1
    <3>2. h[j].on \in Nat /\ lo <= h[j].on /\ h[j].on < mid
      BY <3>1, <1>2 DEF Fresh
    <3> QED
      BY <3>2, <2>1
  <2>2. CASE j \notin 1 .. n
    <3>1. PICK k \in 1 .. Len(g) : j = n + k
      BY <1>1, <2>2
    <3>2. h[j] = g[k]
      BY <3>1, <1>1
    <3>3. h[j].on \in Nat /\ mid <= h[j].on /\ h[j].on < hi
      BY <3>2, <1>2 DEF Fresh
    <3> QED
      BY <3>3, <2>2
  <2> QED
    BY <2>1, <2>2
<1>3. ASSUME NEW i \in 1 .. Len(h), NEW j \in 1 .. Len(h),
             h[i].do = "launch", h[j].do = "launch", h[i].on = h[j].on
      PROVE  i = j
  <2>1. i \in 1 .. n <=> j \in 1 .. n
    BY <1>2, <1>3
  <2>2. CASE i \in 1 .. n
    <3>1. j \in 1 .. n /\ h[i] = f[i] /\ h[j] = f[j]
      BY <2>1, <2>2, <1>1
    <3> QED
      BY <3>1, <2>2, <1>3 DEF Fresh
  <2>3. CASE i \notin 1 .. n
    <3>1. PICK k \in 1 .. Len(g) : i = n + k
      BY <1>1, <2>3
    <3>2. PICK m \in 1 .. Len(g) : j = n + m
      BY <1>1, <2>1, <2>3
    <3>3. h[i] = g[k] /\ h[j] = g[m]
      BY <3>1, <3>2, <1>1
    <3>4. k = m
      BY <3>3, <1>3 DEF Fresh
    <3> QED
      BY <3>1, <3>2, <3>4
  <2> QED
    BY <2>2, <2>3
<1> QED
  BY <1>2, <1>3 DEF Fresh, h

LEMMA LiveConcat ==
  ASSUME NEW f \in Seq(Items), NEW g \in Seq(Items)
  PROVE  /\ \A m \in 0 .. Len(f) : Live(f \o g, m) = Live(f, m)
         /\ Emptied(f) => \A m \in 0 .. Len(g) : Live(f \o g, Len(f) + m) = Live(g, m)
<1> DEFINE h == f \o g
           n == Len(f)
<1>1. /\ n \in Nat /\ Len(g) \in Nat /\ Len(h) = n + Len(g)
      /\ \A j \in 1 .. n : h[j] = f[j]
      /\ \A j \in 1 .. Len(g) : h[n + j] = g[j]
      /\ \A j \in 1 .. n + Len(g) : j \in 1 .. n \/ \E i \in 1 .. Len(g) : j = n + i
  BY ConcatAt
<1> HIDE DEF h
<1>2. ASSUME NEW m \in 0 .. n PROVE Live(h, m) = Live(f, m)
  <2>1. \A v \in 1 .. m : h[v] = f[v] /\ \A k \in v + 1 .. m : h[k] = f[k]
    BY <1>1
  <2>2. Uploads(h, m) = Uploads(f, m)
    BY <2>1 DEF Uploads
  <2>3. \A v \in Uploads(f, m) : h[v] = f[v]
    BY <2>1 DEF Uploads
  <2> QED
    BY <2>2, <2>3 DEF Live
<1>3. ASSUME Emptied(f), NEW m \in 0 .. Len(g) PROVE Live(h, n + m) = Live(g, m)
  <2>1. ASSUME NEW v \in Uploads(h, n + m)
        PROVE  \E u \in Uploads(g, m) : h[v].on = g[u].on
    <3>1. v \in 1 .. n + m /\ h[v].do = "upload"
            /\ \A k \in v + 1 .. n + m : h[k].do = "drop" => h[v].on \notin h[k].on
      BY DEF Uploads
    <3>2. v \notin 1 .. n
      <4> SUFFICES ASSUME v \in 1 .. n PROVE v \in Uploads(f, n)
        BY <1>3 DEF Emptied, Live
      <4>1. h[v] = f[v] /\ \A k \in v + 1 .. n : h[k] = f[k] /\ k \in v + 1 .. n + m
        BY <1>1
      <4> QED
        BY <4>1, <3>1 DEF Uploads
    <3>3. v \in 1 .. n + Len(g)
      BY <3>1, <1>1
    <3>4. PICK u \in 1 .. Len(g) : v = n + u
      BY <3>2, <3>3, <1>1
    <3>5. u \in 1 .. m /\ h[v] = g[u]
      BY <3>1, <3>4, <1>1
    <3>6. ASSUME NEW k \in u + 1 .. m, g[k].do = "drop" PROVE g[u].on \notin g[k].on
      <4>1. n + k \in v + 1 .. n + m /\ k \in 1 .. Len(g)
        BY <3>4, <1>1
      <4> QED
        BY <4>1, <3>1, <3>5, <3>6, <1>1
    <3>7. u \in Uploads(g, m)
      BY <3>1, <3>5, <3>6 DEF Uploads
    <3> QED
      BY <3>5, <3>7
  <2>2. ASSUME NEW u \in Uploads(g, m)
        PROVE  \E v \in Uploads(h, n + m) : h[v].on = g[u].on
    <3>1. u \in 1 .. m /\ g[u].do = "upload"
            /\ \A k \in u + 1 .. m : g[k].do = "drop" => g[u].on \notin g[k].on
      BY DEF Uploads
    <3>2. n + u \in 1 .. n + m /\ u \in 1 .. Len(g) /\ h[n + u] = g[u]
      BY <3>1, <1>1
    <3>3. ASSUME NEW k \in (n + u) + 1 .. n + m, h[k].do = "drop"
          PROVE  h[n + u].on \notin h[k].on
      <4>1. k - n \in u + 1 .. m /\ k - n \in 1 .. Len(g) /\ n + (k - n) = k
        BY <3>1, <1>1
      <4>2. h[k] = g[k - n]
        BY <4>1, <1>1
      <4> QED
        BY <4>1, <4>2, <3>1, <3>2, <3>3
    <3>4. n + u \in Uploads(h, n + m)
      BY <3>1, <3>2, <3>3 DEF Uploads
    <3> QED
      BY <3>2, <3>4
  <2> QED
    BY <2>1, <2>2 DEF Live
<1> QED
  BY <1>2, <1>3 DEF h, n

\* One good script after another.
LEMMA GoodConcat ==
  ASSUME NEW f, NEW g,
         NEW lo \in Nat, NEW mid \in Nat, NEW hi \in Nat, lo <= mid, mid <= hi, NEW bound,
         Good(f, lo, mid, bound), Good(g, mid, hi, bound), Emptied(f)
  PROVE  /\ Good(f \o g, lo, hi, bound)
         /\ Emptied(g) => Emptied(f \o g)
         /\ \A i, j \in Nat : Times(f, i) /\ Times(g, j) => Times(f \o g, i + j)
<1>1. f \in Seq(Items) /\ g \in Seq(Items)
  BY DEF Good
<1>2. /\ f \o g \in Seq(Items) /\ Len(f) \in Nat /\ Len(g) \in Nat
      /\ Len(f \o g) = Len(f) + Len(g)
  BY <1>1, ConcatAt
<1>3. Launchable(f \o g) /\ Compared(f \o g)
  BY <1>1, LaunchableConcat, ComparedConcat DEF Good
<1>4. Fresh(f \o g, lo, hi)
  BY <1>1, FreshConcat DEF Good
<1>5. Quiet(Works, f \o g)
  BY <1>1, QuietConcat DEF Good
<1>6. Alternates(f \o g, StartEvent, StopEvent) /\ Alternates(f \o g, ReadClock, AddClock)
  BY <1>1, AlternatesConcat DEF Good
<1>7. /\ \A m \in 0 .. Len(f) : Live(f \o g, m) = Live(f, m)
      /\ \A m \in 0 .. Len(g) : Live(f \o g, Len(f) + m) = Live(g, m)
  BY <1>1, LiveConcat
<1>8. Holds(f \o g, bound)
  <2> SUFFICES ASSUME NEW m \in 0 .. Len(f \o g)
               PROVE  /\ IsFiniteSet(Live(f \o g, m))
                      /\ Cardinality(Live(f \o g, m)) <= bound
    BY DEF Holds
  <2>1. CASE m <= Len(f)
    <3>1. m \in 0 .. Len(f) /\ Live(f \o g, m) = Live(f, m)
      BY <2>1, <1>2, <1>7
    <3> QED
      BY <3>1 DEF Good, Holds
  <2>2. CASE ~ m <= Len(f)
    <3>1. m - Len(f) \in 0 .. Len(g) /\ Len(f) + (m - Len(f)) = m
      BY <2>2, <1>2
    <3>2. Live(f \o g, m) = Live(g, m - Len(f))
      BY <3>1, <1>7
    <3> QED
      BY <3>1, <3>2 DEF Good, Holds
  <2> QED
    BY <2>1, <2>2
<1>9. Emptied(g) => Emptied(f \o g)
  <2>1. Len(g) \in 0 .. Len(g)
    BY <1>2
  <2> QED
    BY <2>1, <1>2, <1>7 DEF Emptied
<1>10. ASSUME NEW i \in Nat, NEW j \in Nat, Times(f, i), Times(g, j)
       PROVE  Times(f \o g, i + j)
  <2>1. Alternates(f, StartEvent, StopEvent) /\ Alternates(f, ReadClock, AddClock)
    BY DEF Good
  <2> QED
    BY <2>1, <1>1, <1>10, TimedConcat DEF Times
<1> QED
  BY <1>2, <1>3, <1>4, <1>5, <1>6, <1>8, <1>9, <1>10 DEF Good

-----------------------------------------------------------------------------
(* The pieces the scripts are made of.                                      *)

LEMMA ItemsAssociate ==
  \A f, g, h \in Seq(Items) : (f \o g) \o h = f \o (g \o h)
<1> SUFFICES ASSUME NEW f \in Seq(Items), NEW g \in Seq(Items), NEW h \in Seq(Items)
             PROVE  (f \o g) \o h = f \o (g \o h)
  OBVIOUS
<1>1. PICK S : S = Items
  OBVIOUS
<1>2. f \in Seq(S) /\ g \in Seq(S) /\ h \in Seq(S)
  BY <1>1
<1> QED
  BY ONLY <1>2, ConcatAssociative

LEMMA InstrItems ==
  /\ {Synchronize, StartEvent, StopEvent, ReadClock, AddClock} \subseteq Items
  /\ \A c \in Nat : /\ Instr("upload", c) \in Items /\ Instr("launch", c) \in Items
                    /\ Instr("check", c) \in Items /\ Instr("manifest", c) \in Items
  /\ \A C \in SUBSET Nat : Instr("drop", C) \in Items
  /\ \A what \in {"look", "capture", "analyse", "discover", "copy"} : Instr(what, 0) \in Items
  /\ Instr("mkdir", "raw") \in Items /\ Instr("mkdir", "parsed") \in Items
BY DEF Items, Instr

\* What kind an instruction is of.
LEMMA InstrFields ==
  /\ \A what, c : Instr(what, c).do = what /\ Instr(what, c).on = c
  /\ Synchronize.do = "sync" /\ StartEvent.do = "start" /\ StopEvent.do = "stop"
  /\ ReadClock.do = "clock" /\ AddClock.do = "elapsed"
BY DEF Instr, Synchronize, StartEvent, StopEvent, ReadClock, AddClock

LEMMA CaseIdsAt ==
  ASSUME NEW f \in Nat, NEW n \in Nat
  PROVE  CaseIds(f, n) \in Seq(Nat) /\ Len(CaseIds(f, n)) = n
         /\ \A i \in 1 .. n : CaseIds(f, n)[i] = f + i - 1
BY DEF CaseIds

LEMMA CaseIdsEmpty ==
  ASSUME NEW f \in Nat, NEW n \in Nat
  PROVE  CaseIds(f, n) = << >> <=> n = 0
BY CaseIdsAt

LEMMA CaseIdsConcat ==
  ASSUME NEW f \in Nat, NEW n \in Nat, NEW m \in Nat
  PROVE  CaseIds(f, n) \o CaseIds(f + n, m) = CaseIds(f, n + m)
<1> DEFINE a == CaseIds(f, n)
           b == CaseIds(f + n, m)
           c == CaseIds(f, n + m)
<1>1. /\ a \in Seq(Nat) /\ Len(a) = n /\ \A i \in 1 .. n : a[i] = f + i - 1
      /\ b \in Seq(Nat) /\ Len(b) = m /\ \A i \in 1 .. m : b[i] = (f + n) + i - 1
      /\ c \in Seq(Nat) /\ Len(c) = n + m /\ \A i \in 1 .. n + m : c[i] = f + i - 1
  <2>1. f + n \in Nat /\ n + m \in Nat
    OBVIOUS
  <2> QED
    BY <2>1, CaseIdsAt
<1> HIDE DEF a, b, c
<1>2. /\ a \o b \in Seq(Nat) /\ Len(a \o b) = n + m
      /\ \A j \in 1 .. n : (a \o b)[j] = a[j]
      /\ \A j \in 1 .. m : (a \o b)[n + j] = b[j]
  <2>1. a \o b \in Seq(Nat) /\ Len(a \o b) = n + m
    BY <1>1, ConcatLength
  <2>2. \A j \in 1 .. n : (a \o b)[j] = a[j]
    BY <1>1, ConcatFront
  <2>3. \A j \in 1 .. Len(b) : (a \o b)[Len(a) + j] = b[j]
    <3>1. a \in Seq(Nat) /\ b \in Seq(Nat)
      BY <1>1
    <3> QED
      BY <3>1, ConcatBack
  <2> QED
    BY <1>1, <2>1, <2>2, <2>3
<1>3. ASSUME NEW i \in 1 .. n + m PROVE (a \o b)[i] = c[i]
  <2>1. CASE i \in 1 .. n
    BY <2>1, <1>1, <1>2
  <2>2. CASE i \notin 1 .. n
    <3>1. i - n \in 1 .. m /\ n + (i - n) = i
      BY <2>2
    <3>2. (a \o b)[i] = (f + n) + (i - n) - 1
      BY <3>1, <1>1, <1>2
    <3> QED
      BY <3>1, <3>2, <1>1
  <2> QED
    BY <2>1, <2>2
<1>4. a \o b = c
  BY <1>1, <1>2, <1>3, SeqEqual
<1> QED
  BY <1>4 DEF a, b, c

LEMMA CaseIdsAppend ==
  ASSUME NEW f \in Nat, NEW n \in Nat
  PROVE  CaseIds(f, n + 1) = Append(CaseIds(f, n), f + n)
<1> DEFINE a == CaseIds(f, n)
           b == CaseIds(f, n + 1)
<1>1. /\ a \in Seq(Nat) /\ Len(a) = n /\ \A i \in 1 .. n : a[i] = f + i - 1
      /\ b \in Seq(Nat) /\ Len(b) = n + 1 /\ \A i \in 1 .. n + 1 : b[i] = f + i - 1
  <2>1. n + 1 \in Nat
    OBVIOUS
  <2> QED
    BY <2>1, CaseIdsAt
<1> HIDE DEF a, b
<1>2. /\ Append(a, f + n) \in Seq(Nat) /\ Len(Append(a, f + n)) = n + 1
      /\ \A i \in 1 .. n : Append(a, f + n)[i] = a[i]
      /\ Append(a, f + n)[n + 1] = f + n
  BY <1>1, AppendProperties
<1>3. \A i \in 1 .. n + 1 : Append(a, f + n)[i] = b[i]
  BY <1>1, <1>2
<1>4. b = Append(a, f + n)
  BY <1>1, <1>2, <1>3, SeqEqual
<1> QED
  BY <1>4 DEF a, b

LEMMA CaseIdsSet ==
  ASSUME NEW f \in Nat, NEW n \in Nat
  PROVE  ToSet(CaseIds(f, n)) = f .. f + n - 1
<1>1. DOMAIN CaseIds(f, n) = 1 .. n
  BY DEF CaseIds
<1>2. \A c \in f .. f + n - 1 : (c - f) + 1 \in 1 .. n /\ c = f + ((c - f) + 1) - 1
  OBVIOUS
<1>3. \A i \in 1 .. n : f + i - 1 \in f .. f + n - 1
  OBVIOUS
<1>4. ToSet(CaseIds(f, n)) = {CaseIds(f, n)[i] : i \in 1 .. n}
  BY <1>1 DEF ToSet
<1>5. \A i \in 1 .. n : CaseIds(f, n)[i] = f + i - 1
  BY CaseIdsAt
<1> DEFINE a == CaseIds(f, n)
<1> HIDE DEF a
<1>6. {a[i] : i \in 1 .. n} = f .. f + n - 1
  <2>1. \A i \in 1 .. n : a[i] \in f .. f + n - 1
    BY <1>3, <1>5 DEF a
  <2>2. ASSUME NEW c \in f .. f + n - 1 PROVE c \in {a[i] : i \in 1 .. n}
    <3>1. (c - f) + 1 \in 1 .. n /\ c = f + ((c - f) + 1) - 1
      BY <1>2
    <3>2. a[(c - f) + 1] = c
      BY <3>1, <1>5 DEF a
    <3> QED
      BY ONLY <3>1, <3>2
  <2> QED
    BY ONLY <2>1, <2>2
<1> QED
  BY <1>4, <1>6 DEF a


LEMMA RunShape ==
  ASSUME NEW f \in Nat, NEW n \in Nat, NEW what \in {"upload", "launch"}
  PROVE  LET r == [i \in DOMAIN CaseIds(f, n) |-> Instr(what, CaseIds(f, n)[i])]
         IN  /\ r \in Seq(Items) /\ Len(r) = n
             /\ \A i \in 1 .. n : r[i] = Instr(what, f + i - 1)
<1> DEFINE r == [i \in DOMAIN CaseIds(f, n) |-> Instr(what, CaseIds(f, n)[i])]
<1>1. DOMAIN CaseIds(f, n) = 1 .. n
  BY DEF CaseIds
<1>2. \A i \in 1 .. n : CaseIds(f, n)[i] = f + i - 1 /\ f + i - 1 \in Nat
  BY DEF CaseIds
<1>3. \A i \in 1 .. n : r[i] = Instr(what, f + i - 1)
  BY <1>1, <1>2
<1>4. \A i \in 1 .. n : r[i] \in Items
  BY <1>2, <1>3, InstrItems
<1>5. r = [i \in 1 .. n |-> r[i]]
  BY <1>1
<1> HIDE DEF r
<1>6. r \in Seq(Items) /\ Len(r) = n
  BY <1>4, <1>5
<1> QED
  BY <1>3, <1>6 DEF r

LEMMA PreloadShape ==
  ASSUME NEW f \in Nat, NEW n \in Nat
  PROVE  LET r == PreloadStates(CaseIds(f, n))
         IN  /\ r \in Seq(Items) /\ Len(r) = n + 1
             /\ \A i \in 1 .. n : r[i] = Instr("upload", f + i - 1)
             /\ r[n + 1] = Synchronize
<1> DEFINE u == [i \in DOMAIN CaseIds(f, n) |-> Instr("upload", CaseIds(f, n)[i])]
<1>1. u \in Seq(Items) /\ Len(u) = n /\ \A i \in 1 .. n : u[i] = Instr("upload", f + i - 1)
  BY RunShape
<1>2. <<Synchronize>> \in Seq(Items) /\ Len(<<Synchronize>>) = 1 /\ <<Synchronize>>[1] = Synchronize
  BY InstrItems
<1> HIDE DEF u
<1>3. /\ u \o <<Synchronize>> \in Seq(Items) /\ Len(u \o <<Synchronize>>) = n + 1
      /\ \A j \in 1 .. n : (u \o <<Synchronize>>)[j] = u[j]
      /\ (u \o <<Synchronize>>)[n + 1] = Synchronize
  BY <1>1, <1>2, ConcatAt
<1> QED
  BY <1>1, <1>3 DEF PreloadStates, u

LEMMA WarmupShape ==
  ASSUME NEW f \in Nat, NEW n \in Nat
  PROVE  LET r == WarmupStates(CaseIds(f, n))
         IN  /\ r \in Seq(Items) /\ Len(r) = n + 1
             /\ \A i \in 1 .. n : r[i] = Instr("launch", f + i - 1)
             /\ r[n + 1] = Synchronize
<1> DEFINE u == Launches(CaseIds(f, n))
<1>1. u \in Seq(Items) /\ Len(u) = n /\ \A i \in 1 .. n : u[i] = Instr("launch", f + i - 1)
  BY RunShape DEF Launches
<1>2. <<Synchronize>> \in Seq(Items) /\ Len(<<Synchronize>>) = 1 /\ <<Synchronize>>[1] = Synchronize
  BY InstrItems
<1> HIDE DEF u
<1>3. /\ u \o <<Synchronize>> \in Seq(Items) /\ Len(u \o <<Synchronize>>) = n + 1
      /\ \A j \in 1 .. n : (u \o <<Synchronize>>)[j] = u[j]
      /\ (u \o <<Synchronize>>)[n + 1] = Synchronize
  BY <1>1, <1>2, ConcatAt
<1> QED
  BY <1>1, <1>3 DEF WarmupStates, u

LEMMA TimedRunShape ==
  ASSUME NEW f \in Nat, NEW n \in Nat
  PROVE  LET r == RunStates(CaseIds(f, n))
         IN  /\ r \in Seq(Items) /\ Len(r) = n + 6
             /\ r[1] = Synchronize /\ r[2] = StartEvent /\ r[3] = ReadClock
             /\ \A i \in 1 .. n : r[3 + i] = Instr("launch", f + i - 1)
             /\ r[n + 4] = StopEvent /\ r[n + 5] = Synchronize /\ r[n + 6] = AddClock
<1> DEFINE u == Launches(CaseIds(f, n))
           a == <<Synchronize, StartEvent, ReadClock>>
           b == <<StopEvent, Synchronize, AddClock>>
           c == a \o u
           r == c \o b
<1>1. u \in Seq(Items) /\ Len(u) = n /\ \A i \in 1 .. n : u[i] = Instr("launch", f + i - 1)
  BY RunShape DEF Launches
<1>2. a \in Seq(Items) /\ Len(a) = 3 /\ a[1] = Synchronize /\ a[2] = StartEvent /\ a[3] = ReadClock
  BY InstrItems
<1>3. b \in Seq(Items) /\ Len(b) = 3 /\ b[1] = StopEvent /\ b[2] = Synchronize /\ b[3] = AddClock
  BY InstrItems
<1> HIDE DEF u, a, b
<1>4. /\ c \in Seq(Items) /\ Len(c) = n + 3
      /\ \A j \in 1 .. 3 : c[j] = a[j]
      /\ \A j \in 1 .. n : c[3 + j] = u[j]
  <2>1. /\ a \o u \in Seq(Items) /\ Len(a \o u) = 3 + n
        /\ \A j \in 1 .. 3 : (a \o u)[j] = a[j]
        /\ \A j \in 1 .. n : (a \o u)[3 + j] = u[j]
    <3>1. a \o u \in Seq(Items) /\ Len(a \o u) = 3 + n
      BY <1>1, <1>2, ConcatLength
    <3>2. \A j \in 1 .. Len(a) : (a \o u)[j] = a[j]
      BY <1>1, <1>2, ConcatFront
    <3>3. \A j \in 1 .. Len(u) : (a \o u)[Len(a) + j] = u[j]
      <4>1. a \in Seq(Items) /\ u \in Seq(Items)
        BY <1>1, <1>2
      <4> QED
        BY <4>1, ConcatBack
    <3> QED
      BY <1>1, <1>2, <3>1, <3>2, <3>3
  <2> QED
    BY <2>1
<1> HIDE DEF c
<1>5. /\ r \in Seq(Items) /\ Len(r) = (n + 3) + 3
      /\ \A j \in 1 .. n + 3 : r[j] = c[j]
      /\ \A j \in 1 .. 3 : r[(n + 3) + j] = b[j]
  <2>1. /\ c \in Seq(Items) /\ Len(c) = n + 3 /\ b \in Seq(Items) /\ Len(b) = 3
    BY <1>3, <1>4
  <2> DEFINE k == n + 3
  <2> HIDE DEF k
  <2>2. /\ c \o b \in Seq(Items) /\ Len(c \o b) = k + 3
        /\ \A j \in 1 .. k : (c \o b)[j] = c[j]
        /\ \A j \in 1 .. 3 : (c \o b)[k + j] = b[j]
    <3>1. Len(c) = k
      BY <2>1 DEF k
    <3>2. c \o b \in Seq(Items) /\ Len(c \o b) = k + 3
      BY <2>1, <3>1, ConcatLength
    <3>3. \A j \in 1 .. k : (c \o b)[j] = c[j]
      BY <2>1, <3>1, ConcatFront
    <3>4. \A j \in 1 .. Len(b) : (c \o b)[Len(c) + j] = b[j]
      <4>1. c \in Seq(Items) /\ b \in Seq(Items)
        BY <2>1
      <4> QED
        BY <4>1, ConcatBack
    <3> QED
      BY <2>1, <3>1, <3>2, <3>3, <3>4
  <2> QED
    BY <2>2 DEF k
<1> HIDE DEF r
<1>6. r[(n + 3) + 1] = StopEvent /\ r[(n + 3) + 2] = Synchronize /\ r[(n + 3) + 3] = AddClock
  BY <1>3, <1>5
<1>7. r[1] = Synchronize /\ r[2] = StartEvent /\ r[3] = ReadClock
  <2>1. \A j \in 1 .. 3 : j \in 1 .. n + 3
    OBVIOUS
  <2> QED
    BY <2>1, <1>2, <1>4, <1>5
<1>8. ASSUME NEW i \in 1 .. n PROVE r[3 + i] = Instr("launch", f + i - 1)
  <2>1. 3 + i \in 1 .. n + 3
    OBVIOUS
  <2> QED
    BY <2>1, <1>1, <1>4, <1>5
<1>9. (n + 3) + 1 = n + 4 /\ (n + 3) + 2 = n + 5 /\ (n + 3) + 3 = n + 6
  OBVIOUS
<1>10. RunStates(CaseIds(f, n)) = r
  BY DEF RunStates, r, c, a, b, u
<1> QED
  BY <1>5, <1>6, <1>7, <1>8, <1>9, <1>10

(* A batch of the benchmark: w warmup and t timed launches of the cases from *)
(* f on.                                                                    *)
Batch(f, w, t) ==
  ((PreloadStates(CaseIds(f, w + t))
      \o (IF w = 0 THEN << >> ELSE WarmupStates(CaseIds(f, w))))
     \o RunStates(CaseIds(f + w, t)))
    \o <<Instr("drop", f .. f + w + t - 1)>>

\* Where its timed part begins.
TimedFrom(w, t) == w + t + 1 + (IF w = 0 THEN 0 ELSE w + 1)

\* Uploads, warmup launches, the timed run, a drop; n = w + t cases.
IsBatch(r, f, w, t, n, g) ==
  /\ r \in Seq(Items) /\ Len(r) = g + t + 7 /\ g \in Nat /\ g > n
  /\ \A i \in 1 .. n : r[i] = Instr("upload", f + i - 1)
  /\ r[n + 1] = Synchronize
  /\ \A i \in 1 .. w : r[n + 1 + i] = Instr("launch", f + i - 1)
  /\ w > 0 => g = n + 2 + w
  /\ w = 0 => g = n + 1
  /\ r[g] = Synchronize
  /\ r[g + 1] = Synchronize /\ r[g + 2] = StartEvent /\ r[g + 3] = ReadClock
  /\ \A i \in 1 .. t : r[g + 3 + i] = Instr("launch", f + w + i - 1)
  /\ r[g + t + 4] = StopEvent /\ r[g + t + 5] = Synchronize
  /\ r[g + t + 6] = AddClock
  /\ r[g + t + 7] = Instr("drop", f .. f + n - 1)

LEMMA BatchShape ==
  ASSUME NEW f \in Nat, NEW w \in Nat, NEW t \in Nat
  PROVE  IsBatch(Batch(f, w, t), f, w, t, w + t, TimedFrom(w, t))
<1> DEFINE n == w + t
           g == TimedFrom(w, t)
           a == PreloadStates(CaseIds(f, n))
           b == IF w = 0 THEN << >> ELSE WarmupStates(CaseIds(f, w))
           c == RunStates(CaseIds(f + w, t))
           d == <<Instr("drop", f .. f + n - 1)>>
           ab == a \o b
           abc == ab \o c
           r == abc \o d
<1>1. n \in Nat /\ f + w \in Nat /\ g \in Nat /\ g > n /\ (w = 0 => g = n + 1)
        /\ (w > 0 => g = n + 2 + w)
  BY DEF TimedFrom
<1>2. /\ a \in Seq(Items) /\ Len(a) = n + 1 /\ a[n + 1] = Synchronize
      /\ \A i \in 1 .. n : a[i] = Instr("upload", f + i - 1)
  <2> HIDE DEF n
  <2> QED
    BY <1>1, PreloadShape
<1>3. /\ b \in Seq(Items) /\ Len(b) = g - (n + 1)
      /\ w > 0 => b[w + 1] = Synchronize /\ \A i \in 1 .. w : b[i] = Instr("launch", f + i - 1)
  <2>1. CASE w = 0
    <3>1. b = << >> /\ g - (n + 1) = 0
      BY <2>1, <1>1
    <3> QED
      BY <3>1, <2>1
  <2>2. CASE w > 0
    <3>1. b = WarmupStates(CaseIds(f, w)) /\ g - (n + 1) = w + 1
      BY <2>2, <1>1
    <3> HIDE DEF b
    <3> QED
      BY <3>1, WarmupShape
  <2> QED
    BY <2>1, <2>2
<1>4. /\ c \in Seq(Items) /\ Len(c) = t + 6
      /\ c[1] = Synchronize /\ c[2] = StartEvent /\ c[3] = ReadClock
      /\ \A i \in 1 .. t : c[3 + i] = Instr("launch", (f + w) + i - 1)
      /\ c[t + 4] = StopEvent /\ c[t + 5] = Synchronize /\ c[t + 6] = AddClock
  BY <1>1, TimedRunShape
<1>5. d \in Seq(Items) /\ Len(d) = 1 /\ d[1] = Instr("drop", f .. f + n - 1)
  <2>1. f .. f + n - 1 \in SUBSET Nat
    BY <1>1
  <2>2. Instr("drop", f .. f + n - 1) \in Items
    BY <2>1, InstrItems
  <2> QED
    BY <2>2
<1> HIDE DEF a, b, c, d, n, g
<1>6. /\ ab \in Seq(Items) /\ Len(ab) = g
      /\ \A j \in 1 .. n + 1 : ab[j] = a[j]
      /\ \A j \in 1 .. g - (n + 1) : ab[(n + 1) + j] = b[j]
  <2>1. (n + 1) + (g - (n + 1)) = g
    BY <1>1
  <2> QED
    <3>1. a \o b \in Seq(Items) /\ Len(a \o b) = (n + 1) + (g - (n + 1))
      BY <1>2, <1>3, ConcatLength
    <3>2. \A j \in 1 .. n + 1 : (a \o b)[j] = a[j]
      BY <1>2, <1>3, ConcatFront
    <3>3. \A j \in 1 .. g - (n + 1) : (a \o b)[(n + 1) + j] = b[j]
      BY <1>2, <1>3, ConcatBack
    <3> QED
      BY <3>1, <3>2, <3>3, <2>1
<1> HIDE DEF ab
<1>7. /\ abc \in Seq(Items) /\ Len(abc) = g + (t + 6)
      /\ \A j \in 1 .. g : abc[j] = ab[j]
      /\ \A j \in 1 .. t + 6 : abc[g + j] = c[j]
  <2>1. abc \in Seq(Items) /\ Len(abc) = g + (t + 6)
    BY <1>4, <1>6, ConcatLength
  <2>2. \A j \in 1 .. g : abc[j] = ab[j]
    BY <1>4, <1>6, ConcatFront
  <2>3. \A j \in 1 .. t + 6 : abc[g + j] = c[j]
    BY <1>4, <1>6, ConcatBack
  <2> QED
    BY <2>1, <2>2, <2>3
<1> HIDE DEF abc
<1>8. /\ r \in Seq(Items) /\ Len(r) = (g + (t + 6)) + 1
      /\ \A j \in 1 .. g + (t + 6) : r[j] = abc[j]
      /\ r[(g + (t + 6)) + 1] = d[1]
  <2>1. /\ abc \o d \in Seq(Items) /\ Len(abc \o d) = (g + (t + 6)) + 1
        /\ \A j \in 1 .. g + (t + 6) : (abc \o d)[j] = abc[j]
        /\ \A j \in 1 .. 1 : (abc \o d)[(g + (t + 6)) + j] = d[j]
    <3>1. abc \in Seq(Items) /\ d \in Seq(Items) /\ Len(d) = 1 /\ Len(abc) = g + (t + 6)
      BY <1>5, <1>7
    <3> DEFINE k == g + (t + 6)
    <3> HIDE DEF k
    <3>2. Len(abc) = k
      BY <3>1 DEF k
    <3>3. abc \o d \in Seq(Items) /\ Len(abc \o d) = k + 1
      BY <3>1, <3>2, ConcatLength
    <3>4. \A j \in 1 .. k : (abc \o d)[j] = abc[j]
      BY <3>1, <3>2, ConcatFront
    <3>5. \A j \in 1 .. 1 : (abc \o d)[k + j] = d[j]
      BY <3>1, <3>2, ConcatBack
    <3> QED
      BY <3>3, <3>4, <3>5 DEF k
  <2>2. 1 \in 1 .. 1
    OBVIOUS
  <2>3. (abc \o d)[(g + (t + 6)) + 1] = d[1]
    BY <2>1, <2>2
  <2> QED
    BY <2>1, <2>3
<1> HIDE DEF r
<1>9. \A j \in 1 .. g : r[j] = ab[j]
  <2>1. \A j \in 1 .. g : j \in 1 .. g + (t + 6)
    BY <1>1
  <2> QED
    BY <2>1, <1>7, <1>8
<1>10. \A j \in 1 .. t + 6 : r[g + j] = c[j]
  <2>1. \A j \in 1 .. t + 6 : g + j \in 1 .. g + (t + 6)
    BY <1>1
  <2> QED
    BY <2>1, <1>7, <1>8
<1>11. \A j \in 1 .. n + 1 : r[j] = a[j]
  <2>1. \A j \in 1 .. n + 1 : j \in 1 .. g
    BY <1>1
  <2> QED
    BY <2>1, <1>6, <1>9
<1>12. \A i \in 1 .. n : r[i] = Instr("upload", f + i - 1)
  BY <1>1, <1>2, <1>11
<1>13. r[n + 1] = Synchronize
  BY <1>1, <1>2, <1>11
<1>14. \A i \in 1 .. w : r[n + 1 + i] = Instr("launch", f + i - 1)
  <2> SUFFICES ASSUME NEW i \in 1 .. w PROVE r[n + 1 + i] = Instr("launch", f + i - 1)
    OBVIOUS
  <2>1. w > 0 /\ i \in 1 .. g - (n + 1) /\ (n + 1) + i \in 1 .. g /\ (n + 1) + i = n + 1 + i
    BY <1>1
  <2> QED
    BY <2>1, <1>3, <1>6, <1>9
<1>15. r[g] = Synchronize
  <2>1. CASE w = 0
    BY <2>1, <1>1, <1>13
  <2>2. CASE w > 0
    <3>1. w + 1 \in 1 .. g - (n + 1) /\ (n + 1) + (w + 1) = g /\ g \in 1 .. g
      BY <2>2, <1>1
    <3> QED
      BY <3>1, <2>2, <1>3, <1>6, <1>9
  <2> QED
    BY <2>1, <2>2
<1>16. /\ r[g + 1] = Synchronize /\ r[g + 2] = StartEvent /\ r[g + 3] = ReadClock
       /\ r[g + t + 4] = StopEvent /\ r[g + t + 5] = Synchronize /\ r[g + t + 6] = AddClock
  <2>1. {1, 2, 3, t + 4, t + 5, t + 6} \subseteq 1 .. t + 6
    OBVIOUS
  <2>2. g + (t + 4) = g + t + 4 /\ g + (t + 5) = g + t + 5 /\ g + (t + 6) = g + t + 6
    BY <1>1
  <2> QED
    BY <2>1, <2>2, <1>4, <1>10
<1>17. \A i \in 1 .. t : r[g + 3 + i] = Instr("launch", f + w + i - 1)
  <2> SUFFICES ASSUME NEW i \in 1 .. t PROVE r[g + 3 + i] = Instr("launch", f + w + i - 1)
    OBVIOUS
  <2>1. 3 + i \in 1 .. t + 6 /\ g + (3 + i) = g + 3 + i
    BY <1>1
  <2> QED
    BY <2>1, <1>4, <1>10
<1>18. (g + (t + 6)) + 1 = g + t + 7
  BY <1>1
<1>19. r[g + t + 7] = Instr("drop", f .. f + n - 1) /\ Len(r) = g + t + 7
  BY <1>5, <1>8, <1>18
<1>20. f + w + t - 1 = f + n - 1
  BY DEF n
<1>21. Batch(f, w, t) = r
  BY <1>20 DEF Batch, r, abc, ab, a, b, c, d, n
<1> QED
  <2>1. IsBatch(r, f, w, t, n, g)
    BY <1>1, <1>8, <1>12, <1>13, <1>14, <1>15, <1>16, <1>17, <1>19 DEF IsBatch
  <2> QED
    BY <2>1, <1>21 DEF n, g

LEMMA BatchSpan ==
  ASSUME NEW w \in Nat, NEW t \in Nat, NEW n \in Nat, NEW g \in Nat,
         w > 0 => g = n + 2 + w, w = 0 => g = n + 1, NEW j \in 1 .. g + t + 7
  PROVE  \/ j \in 1 .. n \/ j = n + 1 \/ j \in n + 2 .. n + 1 + w \/ j = g
         \/ j = g + 1 \/ j = g + 2 \/ j = g + 3 \/ j \in g + 4 .. g + 3 + t
         \/ j = g + t + 4 \/ j = g + t + 5 \/ j = g + t + 6 \/ j = g + t + 7
OBVIOUS

\* What is at position j of a batch.
InBatch(r, f, w, t, n, g, j) ==
  \/ j \in 1 .. n /\ r[j] = Instr("upload", f + j - 1)
  \/ j \in n + 2 .. n + 1 + w /\ j < g /\ r[j] = Instr("launch", f + (j - (n + 1)) - 1)
  \/ j \in g + 4 .. g + 3 + t /\ r[j] = Instr("launch", f + (w + (j - (g + 3))) - 1)
  \/ j \in {n + 1, g, g + 1, g + t + 5} /\ r[j] = Synchronize
  \/ j = g + 2 /\ r[j] = StartEvent
  \/ j = g + 3 /\ r[j] = ReadClock
  \/ j = g + t + 4 /\ r[j] = StopEvent
  \/ j = g + t + 6 /\ r[j] = AddClock
  \/ j = g + t + 7 /\ r[j] = Instr("drop", f .. f + n - 1)

LEMMA BatchAt ==
  ASSUME NEW f \in Nat, NEW w \in Nat, NEW t \in Nat, NEW n \in Nat, NEW g \in Nat,
         NEW r \in Seq(Items), IsBatch(r, f, w, t, n, g), NEW j \in 1 .. Len(r)
  PROVE  InBatch(r, f, w, t, n, g, j)
<1>1. /\ r \in Seq(Items) /\ Len(r) = g + t + 7 /\ g \in Nat /\ g > n
      /\ \A i \in 1 .. n : r[i] = Instr("upload", f + i - 1)
      /\ r[n + 1] = Synchronize
      /\ \A i \in 1 .. w : r[n + 1 + i] = Instr("launch", f + i - 1)
      /\ w > 0 => g = n + 2 + w
      /\ w = 0 => g = n + 1
      /\ r[g] = Synchronize
      /\ r[g + 1] = Synchronize /\ r[g + 2] = StartEvent /\ r[g + 3] = ReadClock
      /\ \A i \in 1 .. t : r[g + 3 + i] = Instr("launch", f + w + i - 1)
      /\ r[g + t + 4] = StopEvent /\ r[g + t + 5] = Synchronize
      /\ r[g + t + 6] = AddClock
      /\ r[g + t + 7] = Instr("drop", f .. f + n - 1)
  BY DEF IsBatch
<1>2. n \in Nat
  OBVIOUS
<1>3. \/ j \in 1 .. n \/ j = n + 1 \/ j \in n + 2 .. n + 1 + w \/ j = g
      \/ j = g + 1 \/ j = g + 2 \/ j = g + 3 \/ j \in g + 4 .. g + 3 + t
      \/ j = g + t + 4 \/ j = g + t + 5 \/ j = g + t + 6 \/ j = g + t + 7
  <2>1. (w > 0 => g = n + 2 + w) /\ (w = 0 => g = n + 1)
    BY <1>1
  <2>2. Len(r) = g + t + 7
    BY <1>1
  <2>3. j \in 1 .. g + t + 7
    BY <2>2
  <2> QED
    BY <2>1, <2>3, BatchSpan
<1>4. CASE j \in 1 .. n
  BY <1>1, <1>4 DEF InBatch
<1>5. CASE j \in n + 2 .. n + 1 + w
  <2>1. j - (n + 1) \in 1 .. w /\ n + 1 + (j - (n + 1)) = j
    BY <1>2, <1>5
  <2>2. r[j] = Instr("launch", f + (j - (n + 1)) - 1)
    BY <1>1, <2>1
  <2>3. j < g
    BY <1>1, <1>2, <1>5, <2>1
  <2> QED
    BY <1>5, <2>2, <2>3 DEF InBatch
<1>6. CASE j \in g + 4 .. g + 3 + t
  <2>1. j - (g + 3) \in 1 .. t /\ g + 3 + (j - (g + 3)) = j
    BY <1>6
  <2>2. r[j] = Instr("launch", f + w + (j - (g + 3)) - 1)
    BY <1>1, <2>1
  <2>3. f + w + (j - (g + 3)) - 1 = f + (w + (j - (g + 3))) - 1
    BY <2>1
  <2> QED
    BY <1>6, <2>2, <2>3 DEF InBatch
<1>7. CASE j \in {n + 1, g, g + 1, g + t + 5}
  BY <1>1, <1>7 DEF InBatch
<1>8. CASE j \in {g + 2, g + 3, g + t + 4, g + t + 6, g + t + 7}
  BY <1>1, <1>8 DEF InBatch
<1> QED
  BY <1>3, <1>4, <1>5, <1>6, <1>7, <1>8

\* And which kinds are where.
KindInBatch(r, f, w, t, n, g, j) ==
  /\ r[j].do = "upload" => j \in 1 .. n /\ r[j].on = f + j - 1
  /\ r[j].do = "launch" =>
       \/ j \in n + 2 .. n + 1 + w /\ j < g /\ r[j].on = f + (j - (n + 1)) - 1
       \/ j \in g + 4 .. g + 3 + t /\ r[j].on = f + (w + (j - (g + 3))) - 1
  /\ r[j].do = "drop" => j = g + t + 7
  /\ r[j].do # "check"
  /\ r[j].do = "clock" => j = g + 3
  /\ r[j].do = "elapsed" => j = g + t + 6
  /\ r[j] = StartEvent => j = g + 2
  /\ r[j] = StopEvent => j = g + t + 4
  /\ r[j] = ReadClock => j = g + 3
  /\ r[j] = AddClock => j = g + t + 6
  /\ r[j].do \notin DirectoryKinds

LEMMA BatchKinds ==
  ASSUME NEW f \in Nat, NEW w \in Nat, NEW t \in Nat, NEW n \in Nat, NEW g \in Nat,
         NEW r \in Seq(Items), IsBatch(r, f, w, t, n, g), NEW j \in 1 .. Len(r)
  PROVE  KindInBatch(r, f, w, t, n, g, j)
<1>1. CASE j \in 1 .. n /\ r[j] = Instr("upload", f + j - 1)
  BY <1>1 DEF Instr, Synchronize, StartEvent, StopEvent, ReadClock, AddClock, DirectoryKinds,
         KindInBatch
<1>2. CASE j \in n + 2 .. n + 1 + w /\ j < g /\ r[j] = Instr("launch", f + (j - (n + 1)) - 1)
  BY <1>2 DEF Instr, Synchronize, StartEvent, StopEvent, ReadClock, AddClock, DirectoryKinds,
         KindInBatch
<1>3. CASE j \in g + 4 .. g + 3 + t /\ r[j] = Instr("launch", f + (w + (j - (g + 3))) - 1)
  BY <1>3 DEF Instr, Synchronize, StartEvent, StopEvent, ReadClock, AddClock, DirectoryKinds,
         KindInBatch
<1>4. CASE j \in {n + 1, g, g + 1, g + t + 5} /\ r[j] = Synchronize
  BY <1>4 DEF Instr, Synchronize, StartEvent, StopEvent, ReadClock, AddClock, DirectoryKinds,
         KindInBatch
<1>5. CASE j = g + 2 /\ r[j] = StartEvent
  BY <1>5 DEF Instr, Synchronize, StartEvent, StopEvent, ReadClock, AddClock, DirectoryKinds,
         KindInBatch
<1>6. CASE j = g + 3 /\ r[j] = ReadClock
  BY <1>6 DEF Instr, Synchronize, StartEvent, StopEvent, ReadClock, AddClock, DirectoryKinds,
         KindInBatch
<1>7. CASE j = g + t + 4 /\ r[j] = StopEvent
  BY <1>7 DEF Instr, Synchronize, StartEvent, StopEvent, ReadClock, AddClock, DirectoryKinds,
         KindInBatch
<1>8. CASE j = g + t + 6 /\ r[j] = AddClock
  BY <1>8 DEF Instr, Synchronize, StartEvent, StopEvent, ReadClock, AddClock, DirectoryKinds,
         KindInBatch
<1>9. CASE j = g + t + 7 /\ r[j] = Instr("drop", f .. f + n - 1)
  BY <1>9 DEF Instr, Synchronize, StartEvent, StopEvent, ReadClock, AddClock, DirectoryKinds,
         KindInBatch
<1>10. InBatch(r, f, w, t, n, g, j)
  BY BatchAt
<1> QED
  BY <1>1, <1>2, <1>3, <1>4, <1>5, <1>6, <1>7, <1>8, <1>9, <1>10 DEF InBatch

\* A batch is a good script of the cases f .. f + w + t - 1.
LEMMA BatchLive ==
  ASSUME NEW f \in Nat, NEW w \in Nat, NEW t \in Nat, NEW n \in Nat, n = w + t, NEW g \in Nat,
         NEW r \in Seq(Items), IsBatch(r, f, w, t, n, g), NEW bound \in Nat, n <= bound
  PROVE  Holds(r, bound) /\ Emptied(r)
<1>0. \A j \in 1 .. Len(r) : KindInBatch(r, f, w, t, n, g, j)
  BY BatchKinds
<1>1. \A j \in 1 .. Len(r) : r[j].do = "upload" => j \in 1 .. n /\ r[j].on = f + j - 1
  BY <1>0 DEF KindInBatch
<1>2. Len(r) = g + t + 7 /\ g > n /\ r[g + t + 7] = Instr("drop", f .. f + n - 1)
  BY DEF IsBatch
<1>3. ASSUME NEW m \in 0 .. Len(r)
      PROVE  IsFiniteSet(Live(r, m)) /\ Cardinality(Live(r, m)) <= bound
  <2>1. \A v \in Uploads(r, m) : v \in 1 .. Len(r) /\ r[v].do = "upload"
    BY DEF Uploads
  <2>2. ASSUME NEW v \in Uploads(r, m) PROVE r[v].on \in f .. f + n - 1
    <3>1. v \in 1 .. n /\ r[v].on = f + v - 1
      BY <2>1, <1>1
    <3>2. f \in Nat /\ n \in Nat
      OBVIOUS
    <3> QED
      BY ONLY <3>1, <3>2
  <2>3. Live(r, m) \subseteq f .. f + n - 1
    BY <2>2 DEF Live
  <2>4. IsFiniteSet(f .. f + n - 1) /\ Cardinality(f .. f + n - 1) = n
    <3>1. f + n - 1 \in Int
      OBVIOUS
    <3>2. Cardinality(f .. f + n - 1) = IF f > f + n - 1 THEN 0 ELSE (f + n - 1) - f + 1
      BY <3>1, FS_Interval
    <3> QED
      BY <3>1, <3>2, FS_Interval
  <2> DEFINE I == f .. f + n - 1
  <2> HIDE DEF I
  <2>5. IsFiniteSet(Live(r, m)) /\ Cardinality(Live(r, m)) <= Cardinality(I)
    BY <2>3, <2>4, FS_Subset DEF I
  <2>6. Cardinality(Live(r, m)) \in Nat
    BY <2>5, FS_CardinalityType
  <2> QED
    BY <2>4, <2>5, <2>6 DEF I
<1>4. Emptied(r)
  <2> SUFFICES ASSUME NEW v \in Uploads(r, Len(r)) PROVE FALSE
    BY DEF Emptied, Live
  <2>1. v \in 1 .. Len(r) /\ r[v].do = "upload"
        /\ \A m \in v + 1 .. Len(r) : r[m].do = "drop" => r[v].on \notin r[m].on
    BY DEF Uploads
  <2>2. v \in 1 .. n /\ r[v].on = f + v - 1
    BY <2>1, <1>1
  <2>3. g + t + 7 \in v + 1 .. Len(r)
    BY <2>2, <1>2
  <2>4. r[g + t + 7].do = "drop" /\ r[g + t + 7].on = f .. f + n - 1
    BY <1>2 DEF Instr
  <2>5. f + v - 1 \in f .. f + n - 1
    BY <2>2
  <2> QED
    BY <2>1, <2>2, <2>3, <2>4, <2>5
<1> QED
  BY <1>3, <1>4 DEF Holds

LEMMA BatchLaunches ==
  ASSUME NEW f \in Nat, NEW w \in Nat, NEW t \in Nat, NEW n \in Nat, n = w + t, NEW g \in Nat,
         NEW r \in Seq(Items), IsBatch(r, f, w, t, n, g)
  PROVE  Launchable(r) /\ Compared(r) /\ Fresh(r, f, f + n)
<1>0. \A j \in 1 .. Len(r) : KindInBatch(r, f, w, t, n, g, j)
  BY BatchKinds
<1>1. /\ Len(r) = g + t + 7 /\ g > n
      /\ \A i \in 1 .. n : r[i] = Instr("upload", f + i - 1)
      /\ r[g + t + 5] = Synchronize
  BY DEF IsBatch
<1>2. \A j \in 1 .. Len(r) : r[j].do = "drop" => j = g + t + 7
  BY <1>0 DEF KindInBatch
<1>3. ASSUME NEW j \in 1 .. Len(r), r[j].do = "launch"
      PROVE  \/ j \in n + 2 .. n + 1 + w /\ j < g /\ r[j].on = f + (j - (n + 1)) - 1
             \/ j \in g + 4 .. g + 3 + t /\ r[j].on = f + (w + (j - (g + 3))) - 1
  BY <1>0, <1>3 DEF KindInBatch
<1>4. ASSUME NEW j \in 1 .. Len(r), r[j].do = "launch"
      PROVE  \E i \in 1 .. n : /\ r[j].on = f + i - 1 /\ i < j
                               /\ i <= w => j = n + 1 + i /\ j < g
                               /\ i > w  => j = g + 3 + (i - w)
  <2>1. CASE j \in n + 2 .. n + 1 + w /\ j < g /\ r[j].on = f + (j - (n + 1)) - 1
    <3> DEFINE i == j - (n + 1)
    <3>1. i \in 1 .. n /\ i <= w /\ j = n + 1 + i /\ i < j
      BY <2>1
    <3>2. r[j].on = f + i - 1 /\ j < g
      BY <2>1
    <3> HIDE DEF i
    <3>3. ~ i > w
      BY <3>1
    <3> QED
      BY <3>1, <3>2, <3>3
  <2>2. CASE j \in g + 4 .. g + 3 + t /\ r[j].on = f + (w + (j - (g + 3))) - 1
    <3> DEFINE i == w + (j - (g + 3))
    <3>0. g > n
      BY <1>1
    <3>1. i \in 1 .. n /\ i > w /\ j = g + 3 + (i - w) /\ i < j
      BY <2>2, <3>0
    <3>2. r[j].on = f + i - 1
      BY <2>2
    <3> HIDE DEF i
    <3>3. ~ i <= w
      BY <3>1
    <3> QED
      BY <3>1, <3>2, <3>3
  <2> QED
    BY <2>1, <2>2, <1>3, <1>4
<1>5. Launchable(r)
  <2> SUFFICES ASSUME NEW j \in 1 .. Len(r), r[j].do = "launch"
               PROVE  /\ \E u \in 1 .. j - 1 :
                           /\ r[u].do = "upload" /\ r[u].on = r[j].on
                           /\ \A m \in u + 1 .. j - 1 : r[m].do # "drop"
                      /\ \E y \in j + 1 .. Len(r) :
                           /\ r[y].do = "sync"
                           /\ \A m \in j + 1 .. y - 1 : r[m].do # "drop"
    BY DEF Launchable
  <2>1. PICK i \in 1 .. n : /\ r[j].on = f + i - 1 /\ i < j
                            /\ i <= w => j = n + 1 + i /\ j < g
                            /\ i > w  => j = g + 3 + (i - w)
    BY <1>4
  <2>2. i \in 1 .. j - 1 /\ r[i].do = "upload" /\ r[i].on = r[j].on
    <3>1. r[i] = Instr("upload", f + i - 1)
      BY <1>1
    <3>2. r[i].do = "upload" /\ r[i].on = f + i - 1
      BY <3>1 DEF Instr
    <3> QED
      BY <2>1, <3>2
  <2>3. j < g + t + 5
    BY <2>1, <1>1
  <2>4. g + t + 5 \in j + 1 .. Len(r) /\ r[g + t + 5].do = "sync"
    <3>1. r[g + t + 5].do = "sync"
      BY <1>1, InstrFields
    <3>2. Len(r) = g + t + 7 /\ g \in Nat /\ t \in Nat /\ j \in Nat
      BY <1>1
    <3>3. g + t + 5 \in j + 1 .. Len(r)
      BY ONLY <2>3, <3>2
    <3> QED
      BY <3>1, <3>3
  <2>5. \A m \in i + 1 .. j - 1 : m \in 1 .. Len(r) /\ m # g + t + 7
    BY <2>1, <2>3, <1>1
  <2>6. \A m \in j + 1 .. (g + t + 5) - 1 : m \in 1 .. Len(r) /\ m # g + t + 7
    BY <1>1
  <2> QED
    BY <2>2, <2>4, <2>5, <2>6, <1>2
<1>6. Compared(r)
  BY <1>0 DEF Compared, KindInBatch
<1>7. Fresh(r, f, f + n)
  <2>1. ASSUME NEW j \in 1 .. Len(r), r[j].do = "launch"
        PROVE  r[j].on \in Nat /\ f <= r[j].on /\ r[j].on < f + n
    BY <2>1, <1>4
  <2>2. ASSUME NEW j \in 1 .. Len(r), NEW k \in 1 .. Len(r), r[j].do = "launch",
               r[k].do = "launch", r[j].on = r[k].on
        PROVE  j = k
    <3>1. PICK i \in 1 .. n : /\ r[j].on = f + i - 1 /\ i < j
                              /\ i <= w => j = n + 1 + i /\ j < g
                              /\ i > w  => j = g + 3 + (i - w)
      BY <1>4, <2>2
    <3>2. PICK h \in 1 .. n : /\ r[k].on = f + h - 1 /\ h < k
                              /\ h <= w => k = n + 1 + h /\ k < g
                              /\ h > w  => k = g + 3 + (h - w)
      BY <1>4, <2>2
    <3>3. i = h
      BY <3>1, <3>2, <2>2
    <3> QED
      BY <3>1, <3>2, <3>3
  <2> QED
    BY <2>1, <2>2 DEF Fresh
<1> QED
  BY <1>5, <1>6, <1>7

LEMMA BatchTimes ==
  ASSUME NEW f \in Nat, NEW w \in Nat, NEW t \in Nat, NEW n \in Nat, n = w + t, NEW g \in Nat,
         NEW r \in Seq(Items), IsBatch(r, f, w, t, n, g)
  PROVE  /\ Quiet(Works, r) /\ EndsSynced(Kinds, r) /\ Times(r, t)
         /\ Alternates(r, StartEvent, StopEvent) /\ Alternates(r, ReadClock, AddClock)
<1>0. \A j \in 1 .. Len(r) : KindInBatch(r, f, w, t, n, g, j)
  BY BatchKinds
<1>1. Len(r) = g + t + 7 /\ g > n
  BY DEF IsBatch
<1>2. /\ r[g + 1] = Synchronize /\ r[g + 2] = StartEvent /\ r[g + 3] = ReadClock
      /\ r[g + t + 4] = StopEvent /\ r[g + t + 5] = Synchronize /\ r[g + t + 6] = AddClock
      /\ r[g + t + 7] = Instr("drop", f .. f + n - 1)
      /\ \A i \in 1 .. t : r[g + 3 + i] = Instr("launch", f + w + i - 1)
  BY DEF IsBatch
<1>3. /\ r[g + 1].do = "sync" /\ r[g + 2].do = "start" /\ r[g + t + 5].do = "sync"
      /\ r[g + t + 6].do = "elapsed" /\ r[g + t + 7].do = "drop"
  BY <1>2 DEF Instr, Synchronize, StartEvent, AddClock
<1>4. Quiet(Works, r)
  <2> SUFFICES ASSUME NEW j \in 1 .. Len(r), r[j].do \in {"clock", "elapsed"}
               PROVE  \E i \in 1 .. j - 1 : /\ r[i].do = "sync"
                                            /\ \A m \in i + 1 .. j - 1 : r[m].do \notin Works
    BY DEF Quiet
  <2>1. j = g + 3 \/ j = g + t + 6
    BY <1>0 DEF KindInBatch
  <2>2. CASE j = g + 3
    <3>1. g + 1 \in 1 .. j - 1 /\ \A m \in (g + 1) + 1 .. j - 1 : m = g + 2
      BY <2>2
    <3> QED
      BY <3>1, <1>3 DEF Works
  <2>3. CASE j = g + t + 6
    <3>1. g + t + 5 \in 1 .. j - 1 /\ \A m \in (g + t + 5) + 1 .. j - 1 : FALSE
      BY <2>3
    <3> QED
      BY <3>1, <1>3
  <2> QED
    BY <2>1, <2>2, <2>3
<1>5. EndsSynced(Kinds, r)
  <2>1. g + t + 5 \in 1 .. Len(r)
    BY <1>1
  <2>2. ASSUME NEW m \in (g + t + 5) + 1 .. Len(r) PROVE r[m].do \notin Kinds
    <3>1. m = g + t + 6 \/ m = g + t + 7
      BY <1>1
    <3> QED
      BY <3>1, <1>3 DEF Kinds
  <2> QED
    BY <2>1, <2>2, <1>3 DEF EndsSynced
<1>6. /\ g + 2 \in 1 .. Len(r) /\ g + t + 4 \in 1 .. Len(r) /\ g + 2 < g + t + 4
      /\ g + 3 \in 1 .. Len(r) /\ g + t + 6 \in 1 .. Len(r) /\ g + 3 < g + t + 6
  BY <1>1
<1>7. \A j \in 1 .. Len(r) : /\ r[j] = StartEvent <=> j = g + 2
                             /\ r[j] = StopEvent <=> j = g + t + 4
  BY <1>0, <1>2 DEF KindInBatch
<1>8. \A j \in 1 .. Len(r) : /\ r[j] = ReadClock <=> j = g + 3
                             /\ r[j] = AddClock <=> j = g + t + 6
  BY <1>0, <1>2 DEF KindInBatch
<1>9. StartEvent # StopEvent /\ ReadClock # AddClock
  BY DEF StartEvent, StopEvent, ReadClock, AddClock, Instr
<1>10. /\ Alternates(r, StartEvent, StopEvent)
       /\ \A j \in 1 .. Len(r) + 1 :
            Between(r, j, StartEvent, StopEvent) <=> g + 2 < j /\ j <= g + t + 4
  <2> DEFINE p == g + 2
             q == g + t + 4
  <2>1. p \in 1 .. Len(r) /\ q \in 1 .. Len(r) /\ p < q
    BY <1>6
  <2>2. StartEvent # StopEvent
    BY <1>9
  <2>3. \A j \in 1 .. Len(r) : (r[j] = StartEvent <=> j = p) /\ (r[j] = StopEvent <=> j = q)
    BY <1>7
  <2> HIDE DEF p, q
  <2>4. /\ Alternates(r, StartEvent, StopEvent)
        /\ \A j \in 1 .. Len(r) + 1 : Between(r, j, StartEvent, StopEvent) <=> p < j /\ j <= q
    BY <2>1, <2>2, <2>3, OnePair
  <2> QED
    BY <2>4 DEF p, q
<1>11. /\ Alternates(r, ReadClock, AddClock)
       /\ \A j \in 1 .. Len(r) + 1 :
            Between(r, j, ReadClock, AddClock) <=> g + 3 < j /\ j <= g + t + 6
  <2> DEFINE p == g + 3
             q == g + t + 6
  <2>1. p \in 1 .. Len(r) /\ q \in 1 .. Len(r) /\ p < q
    BY <1>6
  <2>2. ReadClock # AddClock
    BY <1>9
  <2>3. \A j \in 1 .. Len(r) : (r[j] = ReadClock <=> j = p) /\ (r[j] = AddClock <=> j = q)
    BY <1>8
  <2> HIDE DEF p, q
  <2>4. /\ Alternates(r, ReadClock, AddClock)
        /\ \A j \in 1 .. Len(r) + 1 : Between(r, j, ReadClock, AddClock) <=> p < j /\ j <= q
    BY <2>1, <2>2, <2>3, OnePair
  <2> QED
    BY <2>4 DEF p, q
<1>12. \A j \in 1 .. Len(r) : g + 2 < j /\ j <= g + t + 6 =>
         (r[j].do \in Works <=> j \in g + 4 .. g + 3 + t)
  <2> SUFFICES ASSUME NEW j \in 1 .. Len(r), g + 2 < j, j <= g + t + 6
               PROVE  r[j].do \in Works <=> j \in g + 4 .. g + 3 + t
    OBVIOUS
  <2>1. ASSUME r[j].do \in Works PROVE j \in g + 4 .. g + 3 + t
    <3>1. CASE r[j].do = "upload"
      <4>1. j \in 1 .. n
        BY <3>1, <1>0 DEF KindInBatch
      <4> QED
        BY <4>1, <1>1
    <3>2. CASE r[j].do = "launch"
      <4>1. j < g \/ j \in g + 4 .. g + 3 + t
        BY <3>2, <1>0 DEF KindInBatch
      <4> QED
        BY <4>1
    <3> QED
      BY <2>1, <3>1, <3>2 DEF Works
  <2>2. ASSUME j \in g + 4 .. g + 3 + t PROVE r[j].do \in Works
    <3>1. j - (g + 3) \in 1 .. t /\ g + 3 + (j - (g + 3)) = j
      BY <2>2
    <3>2. r[j] = Instr("launch", f + w + (j - (g + 3)) - 1)
      BY <3>1, <1>2
    <3> QED
      BY <3>2 DEF Instr, Works
  <2> QED
    BY <2>1, <2>2
<1>13. g + 4 .. g + 3 + t \subseteq 1 .. Len(r)
  BY <1>1
<1>14. Timed(Works, r, Len(r), StartEvent, StopEvent) = g + 4 .. g + 3 + t
  BY <1>1, <1>10, <1>12, <1>13 DEF Timed, Work
<1>15. Timed(Works, r, Len(r), ReadClock, AddClock) = g + 4 .. g + 3 + t
  BY <1>1, <1>11, <1>12, <1>13 DEF Timed, Work
<1>16. Cardinality(g + 4 .. g + 3 + t) = t
  <2>1. g + 4 \in Int /\ g + 3 + t \in Int
    OBVIOUS
  <2>2. Cardinality(g + 4 .. g + 3 + t) =
          IF g + 4 > g + 3 + t THEN 0 ELSE (g + 3 + t) - (g + 4) + 1
    BY <2>1, FS_Interval
  <2> QED
    BY <2>1, <2>2
<1> QED
  BY <1>4, <1>5, <1>10, <1>11, <1>14, <1>15, <1>16 DEF Times

LEMMA BatchGood ==
  ASSUME NEW f \in Nat, NEW w \in Nat, NEW t \in Nat, NEW bound \in Nat, w + t <= bound
  PROVE  /\ Good(Batch(f, w, t), f, f + (w + t), bound)
         /\ Emptied(Batch(f, w, t)) /\ EndsSynced(Kinds, Batch(f, w, t))
         /\ Times(Batch(f, w, t), t) /\ Plain(Batch(f, w, t))
<1> DEFINE n == w + t
           g == TimedFrom(w, t)
           r == Batch(f, w, t)
<1>1. IsBatch(r, f, w, t, n, g)
  BY BatchShape
<1>2. n \in Nat /\ n = w + t /\ n <= bound
  OBVIOUS
<1>3. g \in Nat
  BY DEF TimedFrom
<1> HIDE DEF n, g, r
<1>4. r \in Seq(Items)
  BY <1>1 DEF IsBatch
<1>5. Holds(r, bound) /\ Emptied(r)
  BY <1>1, <1>2, <1>3, <1>4, BatchLive
<1>6. Launchable(r) /\ Compared(r) /\ Fresh(r, f, f + n)
  BY <1>1, <1>2, <1>3, <1>4, BatchLaunches
<1>7. /\ Quiet(Works, r) /\ EndsSynced(Kinds, r) /\ Times(r, t)
      /\ Alternates(r, StartEvent, StopEvent) /\ Alternates(r, ReadClock, AddClock)
  BY <1>1, <1>2, <1>3, <1>4, BatchTimes
<1>8. Good(r, f, f + n, bound)
  BY <1>4, <1>5, <1>6, <1>7 DEF Good
<1>9. Plain(r)
  <2>1. \A j \in 1 .. Len(r) : KindInBatch(r, f, w, t, n, g, j)
    BY <1>1, <1>2, <1>3, <1>4, BatchKinds
  <2> QED
    BY <2>1 DEF Plain, KindInBatch
<1> QED
  BY <1>5, <1>7, <1>8, <1>9 DEF r, n

-----------------------------------------------------------------------------
(* The benchmark's batches.                                                 *)

LEMMA MinPair ==
  ASSUME NEW a \in Nat, NEW b \in Nat
  PROVE  /\ Min({a, b}) \in {a, b}
         /\ Min({a, b}) <= a /\ Min({a, b}) <= b
<1>1. \E x \in {a, b} : \A y \in {a, b} : x =< y
  OBVIOUS
<1>2. /\ Min({a, b}) \in {a, b}
      /\ \A y \in {a, b} : Min({a, b}) =< y
  BY <1>1 DEF Min
<1> QED
  BY <1>2

\* As many batches as --rounds takes, rounded up.
LEMMA Ceiling ==
  ASSUME NEW c \in Nat \ {0}, NEW d \in Nat \ {0}
  PROVE  /\ (c + d - 1) \div d \in Nat \ {0}
         /\ (((c + d - 1) \div d) - 1) * d < c
         /\ c <= ((c + d - 1) \div d) * d
<1> DEFINE q == (c + d - 1) \div d
           r == (c + d - 1) % d
<1>1. q \in Int /\ r \in 0 .. d - 1 /\ c + d - 1 = d * q + r
  OBVIOUS
<1> HIDE DEF q, r
<1>2. d * q = q * d /\ (q - 1) * d = q * d - d
  BY <1>1
<1>3. q * d = c + d - 1 - r
  BY <1>1, <1>2
<1>4. q * d >= c /\ q * d - d < c
  BY <1>1, <1>3
<1>5. q > 0
  <2> SUFFICES ASSUME q <= 0 PROVE FALSE
    BY <1>1
  <2>1. q * d <= 0
    BY <1>1
  <2> QED
    BY <2>1, <1>1, <1>4
<1> QED
  BY <1>1, <1>2, <1>4, <1>5 DEF q

LEMMA Products ==
  ASSUME NEW d \in Nat, NEW i \in Nat, NEW j \in Nat, i <= j
  PROVE  i * d <= j * d /\ i * d \in Nat /\ (i + 1) * d = i * d + d
OBVIOUS

\* The command lines.
LEMMA OptionFields ==
  /\ \A o \in Options.validate :
       o.tool = "validate" /\ o.first \in {0, 1} /\ o.count \in Nat \ {0} /\ o.warmup \in Nat
  /\ \A o \in Options.bench :
       /\ o.tool = "bench" /\ o.count \in Nat \ {0} /\ o.warmup \in Nat /\ o.batch \in Nat
       /\ o.verify \in BOOLEAN
  /\ \A o \in Options.profile :
       /\ o.tool = "profile" /\ o.count \in Nat \ {0} /\ o.warmup \in Nat
       /\ o.verify \in BOOLEAN
<1> DEFINE option(tools, firsts, batches) ==
             [tool : tools, first : firsts, count : Counts, warmup : Warmups,
              batch : batches, verify : BOOLEAN]
<1>1. /\ Options.validate = option({"validate"}, {0, 1}, {0})
      /\ Options.bench = option({"bench"}, {1}, {0} \cup Counts)
      /\ Options.profile = option({"profile"}, {1}, {0})
  BY DEF Options
<1>2. Counts \subseteq Nat \ {0} /\ Warmups \subseteq Nat
  BY ScriptAssumption
<1>3. \A o \in Options.validate :
        o.tool = "validate" /\ o.first \in {0, 1} /\ o.count \in Counts /\ o.warmup \in Warmups
  BY <1>1
<1>4. \A o \in Options.bench :
        /\ o.tool = "bench" /\ o.count \in Counts /\ o.warmup \in Warmups
        /\ o.batch \in {0} \cup Counts /\ o.verify \in BOOLEAN
  BY <1>1
<1>5. \A o \in Options.profile :
        /\ o.tool = "profile" /\ o.count \in Counts /\ o.warmup \in Warmups
        /\ o.verify \in BOOLEAN
  BY <1>1
<1> HIDE DEF option
<1>6. /\ \A c \in Counts : c \in Nat \ {0}
      /\ \A c \in {0} \cup Counts : c \in Nat
      /\ \A c \in Warmups : c \in Nat
  BY <1>2
<1>7. \A o \in Options.validate :
        o.tool = "validate" /\ o.first \in {0, 1} /\ o.count \in Nat \ {0} /\ o.warmup \in Nat
  BY <1>3, <1>6, Zenon
<1>8. \A o \in Options.bench :
        /\ o.tool = "bench" /\ o.count \in Nat \ {0} /\ o.warmup \in Nat /\ o.batch \in Nat
        /\ o.verify \in BOOLEAN
  BY <1>4, <1>6, Zenon
<1>9. \A o \in Options.profile :
        /\ o.tool = "profile" /\ o.count \in Nat \ {0} /\ o.warmup \in Nat
        /\ o.verify \in BOOLEAN
  BY <1>5, <1>6, Zenon
<1> QED
  BY <1>7, <1>8, <1>9

\* How large the batches are, and how many.
LEMMA BatchCount ==
  ASSUME NEW o \in Options.bench
  PROVE  /\ BatchRounds(o) \in 1 .. o.count /\ Batches(o) \in Nat \ {0}
         /\ (Batches(o) - 1) * BatchRounds(o) < o.count
         /\ o.count <= Batches(o) * BatchRounds(o)
<1> DEFINE c == o.count
           R == BatchRounds(o)
           B == Batches(o)
<1>1. c \in Nat \ {0} /\ o.warmup \in Nat /\ o.batch \in Nat
  BY OptionFields
<1>2. R \in 1 .. c
  <2>1. CASE o.batch = 0
    BY <2>1, <1>1 DEF BatchRounds
  <2>2. CASE o.batch # 0
    <3>1. R = Min({o.batch, o.count})
      BY <2>2 DEF BatchRounds
    <3>2. /\ R \in {o.batch, o.count} /\ R <= o.batch /\ R <= o.count
      BY <3>1, <1>1, MinPair
    <3> QED
      BY <2>2, <3>2, <1>1
  <2> QED
    BY <2>1, <2>2
<1>3. B \in Nat \ {0} /\ (B - 1) * R < c /\ c <= B * R
  <2>1. B = (c + R - 1) \div R
    BY DEF Batches
  <2> HIDE DEF B, c, R
  <2>2. c \in Nat \ {0} /\ R \in Nat \ {0}
    BY <1>1, <1>2
  <2> QED
    BY <2>1, <2>2, Ceiling
<1> QED
  BY <1>2, <1>3 DEF c, R, B

(* Batch k is that of the cases from NextCaseId on: the rounds before it are *)
(* Completed, and the last batch completes them.                            *)
LEMMA BatchArithmetic ==
  ASSUME NEW o \in Options.bench, NEW k \in 1 .. Batches(o)
  PROVE  /\ BatchRounds(o) \in 1 .. o.count /\ Batches(o) \in Nat \ {0}
         /\ Completed(o, k) \in Nat /\ CurrentRounds(o, k) \in 1 .. BatchRounds(o)
         /\ k = 1 => Completed(o, k) = 0
         /\ k < Batches(o) => Completed(o, k + 1) = Completed(o, k) + CurrentRounds(o, k)
         /\ k = Batches(o) => Completed(o, k) + CurrentRounds(o, k) = o.count
         /\ WarmupLeft(o, k) \in 0 .. o.warmup
         /\ NextCaseId(o, k) + WarmupLeft(o, k) = 1 + Completed(o, k) + o.warmup
         /\ k = 1 => NextCaseId(o, k) = 1
         /\ k < Batches(o) => NextCaseId(o, k + 1) = 1 + Completed(o, k + 1) + o.warmup
         /\ NextCaseId(o, k) \in Nat
<1> DEFINE c == o.count
           R == BatchRounds(o)
           B == Batches(o)
<1>1. c \in Nat \ {0} /\ o.warmup \in Nat /\ o.batch \in Nat
  BY OptionFields
<1>2. R \in 1 .. c
  BY BatchCount
<1>3. B \in Nat \ {0} /\ (B - 1) * R < c /\ c <= B * R
  BY BatchCount
<1>4. Completed(o, k) = (k - 1) * R /\ k \in 1 .. B
  BY DEF Completed
<1>5. Completed(o, k + 1) = k * R
  BY <1>3, <1>4 DEF Completed
<1>6. CurrentRounds(o, k) = Min({R, c - Completed(o, k)})
  BY DEF CurrentRounds
<1> HIDE DEF c, R, B
<1>7. /\ (k - 1) * R \in Nat /\ k * R = (k - 1) * R + R /\ (k - 1) * R <= (B - 1) * R
      /\ (B - 1) * R \in Nat
  <2>1. k - 1 \in Nat /\ B - 1 \in Nat /\ k - 1 <= B - 1 /\ (k - 1) + 1 = k /\ R \in Nat
    BY <1>2, <1>3, <1>4
  <2> QED
    BY <2>1, Products
<1>8. Completed(o, k) \in Nat /\ Completed(o, k) < c /\ c - Completed(o, k) \in Nat
  BY <1>1, <1>3, <1>4, <1>7
<1>9. CurrentRounds(o, k) \in {R, c - Completed(o, k)} /\ CurrentRounds(o, k) <= R
      /\ CurrentRounds(o, k) <= c - Completed(o, k)
  BY <1>2, <1>6, <1>8, MinPair
<1>10. CurrentRounds(o, k) \in 1 .. R
  BY <1>1, <1>2, <1>8, <1>9
<1>11. k < B => Completed(o, k + 1) = Completed(o, k) + CurrentRounds(o, k)
  <2> SUFFICES ASSUME k < B PROVE CurrentRounds(o, k) = R
    BY <1>4, <1>5, <1>7
  <2>1. k * R <= (B - 1) * R
    <3>1. k \in Nat /\ B - 1 \in Nat /\ k <= B - 1 /\ R \in Nat
      BY <1>2, <1>3, <1>4
    <3> QED
      BY <3>1, Products
  <2>2. c - Completed(o, k) > R
    BY <2>1, <1>1, <1>2, <1>3, <1>4, <1>7
  <2> QED
    BY <2>2, <1>1, <1>2, <1>8, <1>9
<1>12. k = B => Completed(o, k) + CurrentRounds(o, k) = c
  <2> SUFFICES ASSUME k = B PROVE CurrentRounds(o, k) = c - Completed(o, k)
    BY <1>1, <1>8
  <2>1. c - Completed(o, k) <= R
    BY <1>1, <1>2, <1>3, <1>4, <1>7
  <2> QED
    BY <2>1, <1>1, <1>2, <1>8, <1>9
<1>13. k = 1 => Completed(o, k) = 0
  BY <1>2, <1>4
<1>14. /\ WarmupLeft(o, k) \in 0 .. o.warmup /\ WarmupLeft(o, k + 1) = 0
       /\ k = 1 => WarmupLeft(o, k) = o.warmup
  BY <1>1, <1>3, <1>4 DEF WarmupLeft
<1>15. /\ NextCaseId(o, k) = 1 + Completed(o, k) + (o.warmup - WarmupLeft(o, k))
       /\ NextCaseId(o, k + 1) = 1 + Completed(o, k + 1) + (o.warmup - WarmupLeft(o, k + 1))
  BY DEF NextCaseId
<1>16. /\ NextCaseId(o, k) + WarmupLeft(o, k) = 1 + Completed(o, k) + o.warmup
       /\ k = 1 => NextCaseId(o, k) = 1
       /\ NextCaseId(o, k) \in Nat
  BY <1>1, <1>8, <1>13, <1>14, <1>15
<1>17. k < B => NextCaseId(o, k + 1) = 1 + Completed(o, k + 1) + o.warmup
  <2> SUFFICES ASSUME k < B PROVE Completed(o, k + 1) \in Nat
    BY <1>1, <1>14, <1>15
  <2> QED
    BY <1>5, <1>7, <1>2
<1> QED
  BY <1>2, <1>3, <1>8, <1>10, <1>11, <1>12, <1>13, <1>14, <1>16, <1>17 DEF c, R, B

\* What BenchBatch carries out.
LEMMA BenchBatchIs ==
  ASSUME NEW o \in Options.bench, NEW k \in 1 .. Batches(o)
  PROVE  BenchBatch(o, k) = Batch(NextCaseId(o, k), WarmupLeft(o, k), CurrentRounds(o, k))
<1> DEFINE f == NextCaseId(o, k)
           w == WarmupLeft(o, k)
           t == CurrentRounds(o, k)
<1>1. f \in Nat /\ w \in Nat /\ t \in Nat
  <2>1. o.warmup \in Nat /\ BatchRounds(o) \in Nat
    BY OptionFields, BatchArithmetic
  <2>2. w \in 0 .. o.warmup /\ t \in 1 .. BatchRounds(o) /\ f \in Nat
    BY BatchArithmetic
  <2> QED
    BY <2>1, <2>2
<1>2. BenchBatch(o, k) =
        PreloadStates(CaseIds(f, w) \o CaseIds(f + w, t))
          \o (IF CaseIds(f, w) = << >> THEN << >> ELSE WarmupStates(CaseIds(f, w)))
          \o RunStates(CaseIds(f + w, t))
          \o <<Instr("drop", ToSet(CaseIds(f, w) \o CaseIds(f + w, t)))>>
  BY DEF BenchBatch
<1> HIDE DEF f, w, t
<1>3. /\ CaseIds(f, w) \o CaseIds(f + w, t) = CaseIds(f, w + t)
      /\ CaseIds(f, w) = << >> <=> w = 0
  <2>1. CaseIds(f, w) \o CaseIds(f + w, t) = CaseIds(f, w + t)
    BY ONLY <1>1, CaseIdsConcat
  <2>2. CaseIds(f, w) = << >> <=> w = 0
    BY ONLY <1>1, CaseIdsEmpty
  <2> QED
    BY <2>1, <2>2
<1>4. ToSet(CaseIds(f, w + t)) = f .. f + (w + t) - 1
  <2>1. w + t \in Nat
    BY <1>1
  <2> QED
    BY <1>1, <2>1, CaseIdsSet
<1>5. f + (w + t) - 1 = f + w + t - 1
  BY <1>1
<1> QED
  BY <1>2, <1>3, <1>4, <1>5 DEF Batch, f, w, t

LEMMA BenchBatchGood ==
  ASSUME NEW o \in Options.bench, NEW k \in 1 .. Batches(o)
  PROVE  LET b == BenchBatch(o, k)
         IN  /\ Good(b, NextCaseId(o, k), 1 + (Completed(o, k) + CurrentRounds(o, k)) + o.warmup,
                     BatchRounds(o) + o.warmup)
             /\ Emptied(b) /\ EndsSynced(Kinds, b) /\ Times(b, CurrentRounds(o, k))
             /\ Plain(b)
<1> DEFINE f == NextCaseId(o, k)
           w == WarmupLeft(o, k)
           t == CurrentRounds(o, k)
           c == Completed(o, k)
           R == BatchRounds(o)
<1>1. o.warmup \in Nat
  BY OptionFields
<1>2. /\ R \in Nat /\ w \in 0 .. o.warmup /\ t \in 1 .. R /\ f \in Nat /\ c \in Nat
      /\ f + w = 1 + c + o.warmup
  <2>1. R \in 1 .. o.count
    BY BatchCount
  <2>2. /\ w \in 0 .. o.warmup /\ t \in 1 .. R /\ f \in Nat /\ c \in Nat
        /\ f + w = 1 + c + o.warmup
    BY BatchArithmetic
  <2> QED
    BY <2>1, <2>2
<1>3. BenchBatch(o, k) = Batch(f, w, t)
  BY BenchBatchIs
<1> HIDE DEF f, w, t, c, R
<1>4. /\ w \in Nat /\ t \in Nat /\ R + o.warmup \in Nat /\ w + t <= R + o.warmup
      /\ f + (w + t) = 1 + (c + t) + o.warmup
  BY <1>1, <1>2
<1>5. /\ Good(Batch(f, w, t), f, f + (w + t), R + o.warmup)
      /\ Emptied(Batch(f, w, t)) /\ EndsSynced(Kinds, Batch(f, w, t))
      /\ Times(Batch(f, w, t), t) /\ Plain(Batch(f, w, t))
  BY <1>2, <1>4, BatchGood
<1> QED
  BY <1>3, <1>4, <1>5 DEF f, w, t, c, R

\* All of them, one after the other.
LEMMA BatchesGood ==
  ASSUME NEW o \in Options.bench
  PROVE  LET s == Repeat(Batches(o), LAMBDA k : BenchBatch(o, k))
         IN  /\ Good(s, 1, 1 + o.count + o.warmup, BatchRounds(o) + o.warmup)
             /\ Emptied(s) /\ EndsSynced(Kinds, s) /\ Times(s, o.count) /\ Plain(s)
<1> DEFINE B == Batches(o)
           seqs == [k \in 1 .. B |-> BenchBatch(o, k)]
           bound == BatchRounds(o) + o.warmup
           Upto(k) == Completed(o, k) + CurrentRounds(o, k)
<1>1. B \in Nat \ {0} /\ o.warmup \in Nat /\ bound \in Nat
  BY OptionFields, BatchCount
<1>2. ASSUME NEW k \in 1 .. B
      PROVE  /\ Good(seqs[k], NextCaseId(o, k), 1 + Upto(k) + o.warmup, bound)
             /\ Emptied(seqs[k]) /\ EndsSynced(Kinds, seqs[k])
             /\ Times(seqs[k], CurrentRounds(o, k)) /\ Plain(seqs[k])
  <2>1. seqs[k] = BenchBatch(o, k)
    OBVIOUS
  <2>2. k \in 1 .. Batches(o)
    OBVIOUS
  <2> HIDE DEF seqs
  <2> QED
    BY <2>1, <2>2, BenchBatchGood
<1>3. seqs \in Seq(Seq(Items)) /\ Len(seqs) = B
  <2>1. \A k \in 1 .. B : seqs[k] \in Seq(Items)
    BY <1>2 DEF Good
  <2> QED
    BY <1>1, <2>1
<1>4. Repeat(B, LAMBDA k : BenchBatch(o, k)) = FlattenSeq(seqs)
  BY DEF Repeat
<1>5. PICK h \in [1 .. B -> Seq(Items)] :
        /\ FlattenSeq(seqs) = h[B]
        /\ h[1] = seqs[1]
        /\ \A i \in 1 .. B - 1 : h[i + 1] = h[i] \o seqs[i + 1]
  <2> HIDE DEF B, seqs
  <2>1. Len(seqs) > 0
    BY <1>1, <1>3
  <2>2. \E h \in [1 .. Len(seqs) -> Seq(Items)] :
          /\ FlattenSeq(seqs) = h[Len(seqs)]
          /\ h[1] = seqs[1]
          /\ \A i \in 1 .. Len(seqs) - 1 : h[i + 1] = h[i] \o seqs[i + 1]
    BY <1>3, <2>1, FlattenUnfolds
  <2> QED
    BY <1>3, <2>2
<1>6. ASSUME NEW k \in 1 .. B
      PROVE  /\ Upto(k) \in Nat /\ CurrentRounds(o, k) \in Nat /\ NextCaseId(o, k) \in Nat
             /\ k = 1 => NextCaseId(o, k) = 1 /\ Upto(k) = CurrentRounds(o, k)
             /\ k < B => NextCaseId(o, k + 1) = 1 + Upto(k) + o.warmup
             /\ k < B => Upto(k + 1) = Upto(k) + CurrentRounds(o, k + 1)
             /\ k = B => Upto(k) = o.count
  <2>1. BatchRounds(o) \in Nat
    BY BatchCount, OptionFields
  <2>2. /\ Completed(o, k) \in Nat /\ CurrentRounds(o, k) \in 1 .. BatchRounds(o)
        /\ k = 1 => Completed(o, k) = 0
        /\ k < B => Completed(o, k + 1) = Completed(o, k) + CurrentRounds(o, k)
        /\ k = B => Completed(o, k) + CurrentRounds(o, k) = o.count
        /\ k = 1 => NextCaseId(o, k) = 1
        /\ k < B => NextCaseId(o, k + 1) = 1 + Completed(o, k + 1) + o.warmup
        /\ NextCaseId(o, k) \in Nat
    BY BatchArithmetic
  <2> QED
    BY <2>1, <2>2
<1> DEFINE P(k) == /\ Good(h[k], 1, 1 + Upto(k) + o.warmup, bound)
                   /\ Emptied(h[k]) /\ EndsSynced(Kinds, h[k]) /\ Times(h[k], Upto(k))
                   /\ Plain(h[k])
           D == {k \in 1 .. B : ~ P(k)}
<1>7. P(1)
  <2>1. 1 \in 1 .. B
    BY <1>1
  <2>2. NextCaseId(o, 1) = 1 /\ Upto(1) = CurrentRounds(o, 1)
    BY <2>1, <1>6
  <2> QED
    BY <2>1, <2>2, <1>2, <1>5
<1> HIDE DEF B, seqs, bound, Upto
<1>8. ASSUME NEW k \in 1 .. B - 1, P(k) PROVE P(k + 1)
  <2>1. k \in 1 .. B /\ k + 1 \in 1 .. B /\ k < B
    BY <1>1
  <2> DEFINE mid == 1 + Upto(k) + o.warmup
             hi == 1 + Upto(k + 1) + o.warmup
             f == h[k]
             g == seqs[k + 1]
  <2>2. /\ mid \in Nat /\ hi \in Nat /\ 1 <= mid /\ mid <= hi /\ NextCaseId(o, k + 1) = mid
        /\ Upto(k) \in Nat /\ CurrentRounds(o, k + 1) \in Nat
        /\ Upto(k + 1) = Upto(k) + CurrentRounds(o, k + 1)
    <3>1. /\ Upto(k) \in Nat /\ NextCaseId(o, k + 1) = 1 + Upto(k) + o.warmup
          /\ Upto(k + 1) = Upto(k) + CurrentRounds(o, k + 1)
      BY <2>1, <1>6
    <3>2. CurrentRounds(o, k + 1) \in Nat
      BY <2>1, <1>6
    <3>3. o.warmup \in Nat
      BY <1>1
    <3> QED
      BY ONLY <3>1, <3>2, <3>3
  <2>3. Good(f, 1, mid, bound) /\ Emptied(f) /\ Times(f, Upto(k)) /\ Plain(f)
    BY <1>8
  <2>4. Good(g, mid, hi, bound) /\ Emptied(g) /\ EndsSynced(Kinds, g)
        /\ Times(g, CurrentRounds(o, k + 1)) /\ Plain(g)
    BY <2>1, <2>2, <1>2
  <2>5. h[k + 1] = f \o g
    BY <1>5
  <2> HIDE DEF mid, hi, f, g
  <2>6. Good(f \o g, 1, hi, bound) /\ Emptied(f \o g)
        /\ Times(f \o g, Upto(k) + CurrentRounds(o, k + 1))
    BY <2>2, <2>3, <2>4, GoodConcat
  <2>7. EndsSynced(Kinds, f \o g)
    BY <2>3, <2>4, EndsSyncedConcat DEF Good
  <2>8. Plain(f \o g)
    BY <2>3, <2>4, PlainConcat DEF Good
  <2> QED
    BY <2>2, <2>5, <2>6, <2>7, <2>8 DEF hi
<1>9. D = {}
  <2> SUFFICES ASSUME D # {} PROVE FALSE
    OBVIOUS
  <2>1. D \in SUBSET Nat
    BY <1>1
  <2>2. \A k \in D : k \in 1 .. B /\ ~ P(k)
    OBVIOUS
  <2>3. \A k \in 1 .. B : k \notin D => P(k)
    OBVIOUS
  <2> HIDE DEF D, P
  <2>4. PICK m \in D : \A d \in D : m <= d
    BY <2>1, Least
  <2>5. m \in 1 .. B /\ ~ P(m) /\ m # 1
    BY <2>2, <2>4, <1>7
  <2>6. m - 1 \in 1 .. B - 1 /\ m - 1 \in 1 .. B /\ (m - 1) + 1 = m /\ ~ m <= m - 1
    BY <2>5, <1>1
  <2>7. P(m - 1)
    BY <2>3, <2>4, <2>6
  <2> QED
    BY <1>8, <2>5, <2>6, <2>7
<1>10. P(B) /\ Upto(B) = o.count
  <2>1. B \in 1 .. B
    BY <1>1
  <2> QED
    BY <2>1, <1>6, <1>9
<1> QED
  BY <1>4, <1>5, <1>10 DEF B, bound

-----------------------------------------------------------------------------
(* The verification of one state, and the three scripts.                    *)

\* Upload, launch, wait, compare, and perhaps drop, case c.
IsVerification(sc, c) ==
  /\ sc \in Seq(Items) /\ Len(sc) \in {4, 5}
  /\ sc[1] = Instr("upload", c) /\ sc[2] = Instr("launch", c)
  /\ sc[3] = Synchronize /\ sc[4] = Instr("check", c)
  /\ Len(sc) = 5 => sc[5] = Instr("drop", {c})

LEMMA VerificationGood ==
  ASSUME NEW c \in Nat, NEW sc, IsVerification(sc, c), NEW bound \in Nat \ {0}
  PROVE  /\ Good(sc, c, c + 1, bound) /\ Times(sc, 0)
         /\ Len(sc) = 5 => Emptied(sc)
         /\ Plain(sc)
<1>1. sc \in Seq(Items) /\ Len(sc) \in {4, 5}
  BY DEF IsVerification
<1>0. Len(sc) \in Nat /\ 3 <= Len(sc)
  <2>1. Len(sc) = 4 \/ Len(sc) = 5
    BY <1>1
  <2> QED
    BY <2>1
<1>2. /\ sc[1].do = "upload" /\ sc[2].do = "launch" /\ sc[3].do = "sync"
      /\ sc[4].do = "check" /\ sc[1].on = c /\ sc[2].on = c /\ sc[4].on = c
  BY DEF IsVerification, Instr, Synchronize
<1>3. Len(sc) = 5 => sc[5].do = "drop" /\ sc[5].on = {c}
  BY DEF IsVerification, Instr
<1>4. \A j \in 1 .. Len(sc) : j \in {1, 2, 3, 4} \/ (j = 5 /\ Len(sc) = 5)
  <2>1. CASE Len(sc) = 4
    BY <2>1
  <2>2. CASE Len(sc) = 5
    BY <2>2
  <2> QED
    BY <1>1, <2>1, <2>2
<1>5. \A j \in 1 .. Len(sc) : /\ sc[j].do = "upload" => j = 1
                              /\ sc[j].do = "launch" => j = 2
                              /\ sc[j].do = "check" => j = 4
                              /\ sc[j].do = "drop" => j = 5
                              /\ sc[j].do \notin {"start", "stop", "clock", "elapsed"}
  BY <1>2, <1>3, <1>4
<1>6. Launchable(sc)
  <2> SUFFICES ASSUME NEW j \in 1 .. Len(sc), sc[j].do = "launch"
               PROVE  /\ \E u \in 1 .. j - 1 :
                           /\ sc[u].do = "upload" /\ sc[u].on = sc[j].on
                           /\ \A m \in u + 1 .. j - 1 : sc[m].do # "drop"
                      /\ \E y \in j + 1 .. Len(sc) :
                           /\ sc[y].do = "sync"
                           /\ \A m \in j + 1 .. y - 1 : sc[m].do # "drop"
    BY DEF Launchable
  <2>1. j = 2
    BY <1>5
  <2>2. 1 \in 1 .. j - 1 /\ 3 \in j + 1 .. Len(sc)
    BY <1>0, <2>1
  <2>3. (\A m \in 1 + 1 .. j - 1 : FALSE) /\ (\A m \in j + 1 .. 3 - 1 : FALSE)
    BY <2>1
  <2> QED
    BY <1>2, <2>1, <2>2, <2>3
<1>7. Compared(sc)
  <2> SUFFICES ASSUME NEW j \in 1 .. Len(sc), sc[j].do = "check"
               PROVE  \E i \in 1 .. j - 1 :
                        /\ sc[i].do = "launch" /\ sc[i].on = sc[j].on
                        /\ \E y \in i + 1 .. j - 1 : sc[y].do = "sync"
    BY DEF Compared
  <2>1. j = 4 /\ 2 \in 1 .. j - 1 /\ 3 \in 2 + 1 .. j - 1
    BY <1>5
  <2> QED
    BY <1>2, <2>1
<1>8. Fresh(sc, c, c + 1)
  BY <1>2, <1>5 DEF Fresh
<1>9. Quiet(Works, sc)
  BY <1>5 DEF Quiet
<1>10. \A j \in 1 .. Len(sc) : /\ sc[j] # StartEvent /\ sc[j] # StopEvent
                               /\ sc[j] # ReadClock /\ sc[j] # AddClock
  BY <1>5, InstrFields
<1>11. /\ Alternates(sc, StartEvent, StopEvent)
       /\ Timed(Works, sc, Len(sc), StartEvent, StopEvent) = {}
  BY <1>1, <1>10, NoPair
<1>12. /\ Alternates(sc, ReadClock, AddClock)
       /\ Timed(Works, sc, Len(sc), ReadClock, AddClock) = {}
  BY <1>1, <1>10, NoPair
<1>13. Holds(sc, bound)
  <2> SUFFICES ASSUME NEW m \in 0 .. Len(sc)
               PROVE  IsFiniteSet(Live(sc, m)) /\ Cardinality(Live(sc, m)) <= bound
    BY DEF Holds
  <2>1. \A v \in Uploads(sc, m) : v \in 1 .. Len(sc) /\ sc[v].do = "upload"
    BY <1>1 DEF Uploads
  <2>2. \A v \in Uploads(sc, m) : sc[v].on = c
    BY <2>1, <1>2, <1>5
  <2>3. Live(sc, m) \subseteq {c}
    BY <2>2 DEF Live
  <2>4. IsFiniteSet({c}) /\ Cardinality({c}) = 1
    BY FS_Singleton
  <2>5. IsFiniteSet(Live(sc, m)) /\ Cardinality(Live(sc, m)) <= Cardinality({c})
    BY <2>3, <2>4, FS_Subset
  <2>6. Cardinality(Live(sc, m)) \in Nat
    BY <2>5, FS_CardinalityType
  <2> QED
    BY <2>4, <2>5, <2>6
<1>14. ASSUME Len(sc) = 5 PROVE Emptied(sc)
  <2> SUFFICES ASSUME NEW v \in Uploads(sc, Len(sc)) PROVE FALSE
    BY DEF Emptied, Live
  <2>1. v \in 1 .. Len(sc) /\ sc[v].do = "upload"
        /\ \A m \in v + 1 .. Len(sc) : sc[m].do = "drop" => sc[v].on \notin sc[m].on
    BY DEF Uploads
  <2>2. v = 1 /\ 5 \in v + 1 .. Len(sc)
    BY <2>1, <1>5, <1>14
  <2> QED
    BY <2>1, <2>2, <1>2, <1>3, <1>14
<1>15. Times(sc, 0)
  BY <1>11, <1>12, FS_EmptySet DEF Times
<1>16. Plain(sc)
  BY <1>2, <1>3, <1>4 DEF Plain, DirectoryKinds
<1> QED
  BY <1>1, <1>6, <1>7, <1>8, <1>9, <1>11, <1>12, <1>13, <1>14, <1>15, <1>16 DEF Good

\* A script that neither enqueues nor times anything.
LEMMA IdleGood ==
  ASSUME NEW lo, NEW hi, NEW bound \in Nat, NEW e \in Seq(Items),
         \A j \in 1 .. Len(e) : e[j].do \in DirectoryKinds
  PROVE  Good(e, lo, hi, bound) /\ Emptied(e) /\ Times(e, 0)
<1>1. \A j \in 1 .. Len(e) : e[j].do \notin {"upload", "launch", "check", "drop", "start",
                                             "stop", "clock", "elapsed"}
  BY DEF DirectoryKinds
<1>2. /\ Launchable(e) /\ Compared(e) /\ Fresh(e, lo, hi) /\ Quiet(Works, e)
  BY <1>1 DEF Launchable, Compared, Fresh, Quiet
<1>3. \A j \in 1 .. Len(e) : /\ e[j] # StartEvent /\ e[j] # StopEvent
                             /\ e[j] # ReadClock /\ e[j] # AddClock
  BY <1>1, InstrFields
<1>4. /\ Alternates(e, StartEvent, StopEvent)
      /\ Timed(Works, e, Len(e), StartEvent, StopEvent) = {}
  BY <1>3, NoPair
<1>5. /\ Alternates(e, ReadClock, AddClock)
      /\ Timed(Works, e, Len(e), ReadClock, AddClock) = {}
  BY <1>3, NoPair
<1>6. \A m \in 0 .. Len(e) : Live(e, m) = {}
  BY <1>1 DEF Live, Uploads
<1>7. Len(e) \in Nat
  BY LenProperties
<1>8. Holds(e, bound) /\ Emptied(e)
  <2>0. IsFiniteSet({}) /\ Cardinality({}) = 0
    BY FS_EmptySet
  <2>1. Holds(e, bound)
    <3>1. SUFFICES ASSUME NEW m \in 0 .. Len(e)
                   PROVE  IsFiniteSet(Live(e, m)) /\ Cardinality(Live(e, m)) <= bound
      BY DEF Holds
    <3>2. Live(e, m) = {}
      BY <1>6
    <3>3. Cardinality(Live(e, m)) = 0
      BY <2>0, <3>2
    <3> QED
      BY <2>0, <3>2, <3>3
  <2>2. Len(e) \in 0 .. Len(e)
    BY <1>7
  <2>3. Emptied(e)
    BY <1>6, <2>2 DEF Emptied
  <2> QED
    BY <2>1, <2>3
<1>9. Times(e, 0)
  BY <1>4, <1>5, FS_EmptySet DEF Times
<1> QED
  BY <1>2, <1>4, <1>5, <1>8, <1>9 DEF Good

LEMMA VerifiedGood ==
  ASSUME NEW o, o.verify \in BOOLEAN, NEW bound \in Nat \ {0}
  PROVE  /\ Good(Verified(o), 0, 1, bound) /\ Emptied(Verified(o)) /\ Times(Verified(o), 0)
         /\ Plain(Verified(o))
<1> DEFINE v == <<Instr("upload", 0), Instr("launch", 0), Synchronize, Instr("check", 0),
                  Instr("drop", {0})>>
<1>1. IsVerification(v, 0) /\ Len(v) = 5
  <2>1. {0} \in SUBSET Nat
    OBVIOUS
  <2>2. v \in Seq(Items)
    BY <2>1, InstrItems
  <2> QED
    BY <2>2 DEF IsVerification
<1> HIDE DEF v
<1>2. Good(v, 0, 1, bound) /\ Emptied(v) /\ Times(v, 0) /\ Plain(v)
  <2>1. Good(v, 0, 0 + 1, bound) /\ Emptied(v) /\ Times(v, 0) /\ Plain(v)
    BY <1>1, VerificationGood
  <2> QED
    BY <2>1
<1>3. CASE o.verify
  BY <1>2, <1>3 DEF Verified, v
<1>4. CASE ~ o.verify
  <2> DEFINE e == << >>
  <2>1. e \in Seq(Items) /\ \A j \in 1 .. Len(e) : FALSE
    OBVIOUS
  <2>2. bound \in Nat /\ Verified(o) = e
    BY <1>4 DEF Verified
  <2> HIDE DEF e
  <2> QED
    BY <2>1, <2>2, IdleGood DEF Plain
<1> QED
  BY <1>3, <1>4

\* The three scripts.
LEMMA ValidateGood ==
  ASSUME NEW o \in Options.validate
  PROVE  Good(ValidateScript(o), o.first, o.first + 1, 1) /\ Plain(ValidateScript(o))
<1>1. o.first \in Nat
  BY OptionFields
<1> DEFINE v == ValidateScript(o)
<1>2. IsVerification(v, o.first)
  <2>1. v \in Seq(Items) /\ Len(v) = 4
    BY <1>1, InstrItems DEF ValidateScript
  <2> QED
    BY <2>1 DEF IsVerification, ValidateScript
<1> HIDE DEF v
<1> QED
  BY <1>1, <1>2, VerificationGood DEF v

LEMMA BenchGood ==
  ASSUME NEW o \in Options.bench
  PROVE  /\ Good(BenchScript(o), 0, 1 + o.count + o.warmup, BatchRounds(o) + o.warmup)
         /\ EndsSynced(Kinds, BenchScript(o)) /\ Times(BenchScript(o), o.count)
         /\ Plain(BenchScript(o))
<1> DEFINE f == Verified(o)
           g == Repeat(Batches(o), LAMBDA k : BenchBatch(o, k))
           bound == BatchRounds(o) + o.warmup
           hi == 1 + o.count + o.warmup
<1>1. o.count \in Nat /\ hi \in Nat /\ 1 <= hi /\ bound \in Nat \ {0} /\ o.verify \in BOOLEAN
  BY OptionFields, BatchCount
<1>2. Good(f, 0, 1, bound) /\ Emptied(f) /\ Times(f, 0) /\ Plain(f)
  <2> HIDE DEF bound
  <2> QED
    BY <1>1, VerifiedGood
<1>3. Good(g, 1, hi, bound) /\ EndsSynced(Kinds, g) /\ Times(g, o.count) /\ Plain(g)
  BY BatchesGood
<1>4. BenchScript(o) = f \o g
  BY DEF BenchScript
<1> HIDE DEF f, g, bound, hi
<1>5. Good(f \o g, 0, hi, bound)
  BY <1>1, <1>2, <1>3, GoodConcat
<1>6. Times(f \o g, o.count)
  <2>1. Times(f \o g, 0 + o.count)
    BY <1>1, <1>2, <1>3, GoodConcat
  <2> QED
    BY <2>1, <1>1
<1>7. EndsSynced(Kinds, f \o g)
  BY <1>2, <1>3, EndsSyncedConcat DEF Good
<1>8. Plain(f \o g)
  BY <1>2, <1>3, PlainConcat DEF Good
<1> QED
  BY <1>4, <1>5, <1>6, <1>7, <1>8 DEF bound, hi

(* What the profiler does once it has looked at the directory: n = w + c     *)
(* uploads, w warmup launches, and from position s on c captured ones.      *)
IsCapture(r, w, c, n, s) ==
  /\ r \in Seq(Items) /\ Len(r) = s + c + 5
  /\ \A i \in 1 .. n : r[i] = Instr("upload", i)
  /\ r[n + 1] = Synchronize
  /\ \A i \in 1 .. w : r[n + 1 + i] = Instr("launch", i)
  /\ r[n + w + 2] = Synchronize
  /\ r[s] = Instr("capture", 0)
  /\ \A i \in 1 .. c : r[s + i] = Instr("launch", w + i)
  /\ r[s + c + 1] = Synchronize /\ r[s + c + 2] = Instr("analyse", 0)
  /\ r[s + c + 3] = Instr("discover", 0) /\ r[s + c + 4] = Instr("copy", 0)
  /\ r[s + c + 5] = Instr("manifest", 1 + w)

Captured(w, c) ==
  (((PreloadStates(CaseIds(1, w + c)) \o WarmupStates(CaseIds(1, w)))
     \o <<Instr("capture", 0)>>) \o Launches(CaseIds(1 + w, c)))
    \o <<Synchronize, Instr("analyse", 0), Instr("discover", 0), Instr("copy", 0),
         Instr("manifest", 1 + w)>>

LEMMA CaptureShape ==
  ASSUME NEW w \in Nat, NEW c \in Nat, NEW n \in Nat, n = w + c, NEW s \in Nat, s = n + w + 3
  PROVE  IsCapture(Captured(w, c), w, c, n, s)
<1> DEFINE a == PreloadStates(CaseIds(1, n))
           b == WarmupStates(CaseIds(1, w))
           d == <<Instr("capture", 0)>>
           e == Launches(CaseIds(1 + w, c))
           z == <<Synchronize, Instr("analyse", 0), Instr("discover", 0), Instr("copy", 0),
                  Instr("manifest", 1 + w)>>
           ab == a \o b
           abd == ab \o d
           abde == abd \o e
           r == abde \o z
<1>1. /\ a \in Seq(Items) /\ Len(a) = n + 1 /\ a[n + 1] = Synchronize
      /\ \A i \in 1 .. n : a[i] = Instr("upload", 1 + i - 1)
  BY PreloadShape
<1>2. /\ b \in Seq(Items) /\ Len(b) = w + 1 /\ b[w + 1] = Synchronize
      /\ \A i \in 1 .. w : b[i] = Instr("launch", 1 + i - 1)
  BY WarmupShape
<1>3. d \in Seq(Items) /\ Len(d) = 1 /\ d[1] = Instr("capture", 0)
  BY InstrItems
<1>4. e \in Seq(Items) /\ Len(e) = c /\ \A i \in 1 .. c : e[i] = Instr("launch", (1 + w) + i - 1)
  <2> DEFINE k == 1 + w
  <2>1. k \in Nat
    OBVIOUS
  <2> HIDE DEF k
  <2>2. LET u == Launches(CaseIds(k, c))
        IN  u \in Seq(Items) /\ Len(u) = c /\ \A i \in 1 .. c : u[i] = Instr("launch", k + i - 1)
    BY <2>1, RunShape DEF Launches
  <2> QED
    BY <2>2 DEF k
<1>5. /\ z \in Seq(Items) /\ Len(z) = 5 /\ z[1] = Synchronize
      /\ z[2] = Instr("analyse", 0) /\ z[3] = Instr("discover", 0)
      /\ z[4] = Instr("copy", 0) /\ z[5] = Instr("manifest", 1 + w)
  <2>1. 1 + w \in Nat
    OBVIOUS
  <2> QED
    BY <2>1, InstrItems
<1> HIDE DEF a, b, d, e, z
<1>6. ab \in Seq(Items) /\ Len(ab) = s - 1
  BY <1>1, <1>2, ConcatLength
<1>7. \A j \in 1 .. n + 1 : ab[j] = a[j]
  BY <1>1, <1>2, ConcatFront
<1>8. \A j \in 1 .. w + 1 : ab[(n + 1) + j] = b[j]
  <2>1. \A j \in 1 .. Len(b) : (a \o b)[Len(a) + j] = b[j]
    <3>1. a \in Seq(Items) /\ b \in Seq(Items)
      BY <1>1, <1>2
    <3> QED
      BY <3>1, ConcatBack
  <2> QED
    BY <1>1, <1>2, <2>1
<1> HIDE DEF ab
<1>9. abd \in Seq(Items) /\ Len(abd) = s
  <2>1. ab \in Seq(Items) /\ d \in Seq(Items) /\ Len(ab) = s - 1 /\ Len(d) = 1
    BY <1>3, <1>6
  <2>2. ab \o d \in Seq(Items) /\ Len(ab \o d) = Len(ab) + Len(d)
    BY ONLY <2>1, ConcatLength
  <2>3. (s - 1) + 1 = s
    OBVIOUS
  <2> QED
    BY <2>1, <2>2, <2>3
<1>10. \A j \in 1 .. s - 1 : abd[j] = ab[j]
  BY <1>3, <1>6, ConcatFront
<1>11. abd[s] = d[1]
  <2>1. \A j \in 1 .. Len(d) : (ab \o d)[Len(ab) + j] = d[j]
    <3>1. ab \in Seq(Items) /\ d \in Seq(Items)
      BY <1>3, <1>6
    <3> QED
      BY <3>1, ConcatBack
  <2>2. 1 \in 1 .. Len(d) /\ Len(ab) + 1 = s
    BY <1>3, <1>6
  <2> QED
    BY <2>1, <2>2
<1> HIDE DEF abd
<1>12. abde \in Seq(Items) /\ Len(abde) = s + c
  BY <1>4, <1>9, ConcatLength
<1>13. \A j \in 1 .. s : abde[j] = abd[j]
  BY <1>4, <1>9, ConcatFront
<1>14. \A j \in 1 .. c : abde[s + j] = e[j]
  <2>1. \A j \in 1 .. Len(e) : (abd \o e)[Len(abd) + j] = e[j]
    <3>1. abd \in Seq(Items) /\ e \in Seq(Items)
      BY <1>4, <1>9
    <3> QED
      BY <3>1, ConcatBack
  <2> QED
    BY <1>4, <1>9, <2>1
<1> HIDE DEF abde
<1>15. r \in Seq(Items) /\ Len(r) = s + c + 5
  <2>1. abde \in Seq(Items) /\ z \in Seq(Items) /\ Len(abde) = s + c /\ Len(z) = 5
    BY <1>5, <1>12
  <2>2. abde \o z \in Seq(Items) /\ Len(abde \o z) = Len(abde) + Len(z)
    BY ONLY <2>1, ConcatLength
  <2> QED
    BY <2>1, <2>2
<1>16. \A j \in 1 .. s + c : r[j] = abde[j]
  BY <1>5, <1>12, ConcatFront
<1>17. \A j \in 1 .. 5 : r[s + c + j] = z[j]
  <2>1. \A j \in 1 .. Len(z) : (abde \o z)[Len(abde) + j] = z[j]
    <3>1. abde \in Seq(Items) /\ z \in Seq(Items)
      BY <1>5, <1>12
    <3> QED
      BY <3>1, ConcatBack
  <2> QED
    BY <1>5, <1>12, <2>1
<1> HIDE DEF r
<1>18. \A j \in 1 .. s - 1 : r[j] = ab[j]
  <2>1. \A j \in 1 .. s - 1 : j \in 1 .. s /\ j \in 1 .. s + c
    OBVIOUS
  <2> QED
    BY <2>1, <1>10, <1>13, <1>16
<1>19. ASSUME NEW i \in 1 .. n PROVE r[i] = Instr("upload", i)
  <2>1. i \in 1 .. n + 1 /\ i \in 1 .. s - 1 /\ 1 + i - 1 = i
    OBVIOUS
  <2>2. r[i] = a[i]
    BY <2>1, <1>7, <1>18
  <2> QED
    BY <2>1, <2>2, <1>1
<1>20. r[n + 1] = Synchronize
  <2>1. n + 1 \in 1 .. n + 1 /\ n + 1 \in 1 .. s - 1
    OBVIOUS
  <2> QED
    BY <2>1, <1>1, <1>7, <1>18
<1>21. ASSUME NEW i \in 1 .. w PROVE r[n + 1 + i] = Instr("launch", i)
  <2>1. i \in 1 .. w + 1 /\ (n + 1) + i \in 1 .. s - 1 /\ 1 + i - 1 = i
    OBVIOUS
  <2>2. r[(n + 1) + i] = b[i]
    BY <2>1, <1>8, <1>18
  <2> QED
    BY <2>1, <2>2, <1>2
<1>22. r[n + w + 2] = Synchronize
  <2>1. w + 1 \in 1 .. w + 1 /\ n + w + 2 \in 1 .. s - 1 /\ (n + 1) + (w + 1) = n + w + 2
    OBVIOUS
  <2> QED
    BY <2>1, <1>2, <1>8, <1>18
<1>23. r[s] = Instr("capture", 0)
  <2>1. s \in 1 .. s /\ s \in 1 .. s + c
    OBVIOUS
  <2> QED
    BY <2>1, <1>3, <1>11, <1>13, <1>16
<1>24. ASSUME NEW i \in 1 .. c PROVE r[s + i] = Instr("launch", w + i)
  <2>1. s + i \in 1 .. s + c /\ (1 + w) + i - 1 = w + i
    OBVIOUS
  <2>2. r[s + i] = e[i]
    BY <2>1, <1>14, <1>16
  <2> QED
    BY <2>1, <2>2, <1>4
<1>25. /\ r[s + c + 1] = Synchronize /\ r[s + c + 2] = Instr("analyse", 0)
       /\ r[s + c + 3] = Instr("discover", 0) /\ r[s + c + 4] = Instr("copy", 0)
       /\ r[s + c + 5] = Instr("manifest", 1 + w)
  BY <1>5, <1>17
<1>26. IsCapture(r, w, c, n, s)
  BY <1>15, <1>19, <1>20, <1>21, <1>22, <1>23, <1>24, <1>25 DEF IsCapture
<1>27. Captured(w, c) = r
  BY DEF Captured, r, abde, abd, ab, a, b, d, e, z
<1> QED
  BY <1>26, <1>27

\* What is at position j of it, and which kinds are where.
InCapture(r, w, c, n, s, j) ==
  \/ j \in 1 .. n /\ r[j] = Instr("upload", j)
  \/ j \in n + 2 .. n + 1 + w /\ r[j] = Instr("launch", j - (n + 1))
  \/ j \in s + 1 .. s + c /\ r[j] = Instr("launch", w + (j - s))
  \/ j \in {n + 1, n + w + 2, s + c + 1} /\ r[j] = Synchronize
  \/ j = s /\ r[j] = Instr("capture", 0)
  \/ j = s + c + 2 /\ r[j] = Instr("analyse", 0)
  \/ j = s + c + 3 /\ r[j] = Instr("discover", 0)
  \/ j = s + c + 4 /\ r[j] = Instr("copy", 0)
  \/ j = s + c + 5 /\ r[j] = Instr("manifest", 1 + w)

KindInCapture(r, w, c, n, s, j) ==
  /\ r[j].do = "upload" => j \in 1 .. n /\ r[j].on = j
  /\ r[j].do = "launch" =>
       \/ j \in n + 2 .. n + 1 + w /\ r[j].on = j - (n + 1)
       \/ j \in s + 1 .. s + c /\ r[j].on = w + (j - s)
  /\ r[j].do \notin {"drop", "check", "start", "stop", "clock", "elapsed"}
  /\ r[j].do \in DirectoryKinds => j \in {s, s + c + 2, s + c + 3, s + c + 4, s + c + 5}

LEMMA CaptureSpan ==
  ASSUME NEW w \in Nat, NEW c \in Nat, NEW n \in Nat, NEW s \in Nat, s = n + w + 3,
         NEW j \in 1 .. s + c + 5
  PROVE  \/ j \in 1 .. n \/ j = n + 1 \/ j \in n + 2 .. n + 1 + w \/ j = n + w + 2 \/ j = s
         \/ j \in s + 1 .. s + c \/ j = s + c + 1 \/ j = s + c + 2 \/ j = s + c + 3
         \/ j = s + c + 4 \/ j = s + c + 5
OBVIOUS

LEMMA CaptureAt ==
  ASSUME NEW w \in Nat, NEW c \in Nat, NEW n \in Nat, NEW s \in Nat, s = n + w + 3,
         NEW r \in Seq(Items), IsCapture(r, w, c, n, s), NEW j \in 1 .. Len(r)
  PROVE  InCapture(r, w, c, n, s, j)
<1>1. /\ Len(r) = s + c + 5
      /\ \A i \in 1 .. n : r[i] = Instr("upload", i)
      /\ r[n + 1] = Synchronize
      /\ \A i \in 1 .. w : r[n + 1 + i] = Instr("launch", i)
      /\ r[n + w + 2] = Synchronize
      /\ r[s] = Instr("capture", 0)
      /\ \A i \in 1 .. c : r[s + i] = Instr("launch", w + i)
      /\ r[s + c + 1] = Synchronize /\ r[s + c + 2] = Instr("analyse", 0)
      /\ r[s + c + 3] = Instr("discover", 0) /\ r[s + c + 4] = Instr("copy", 0)
      /\ r[s + c + 5] = Instr("manifest", 1 + w)
  BY DEF IsCapture
<1>2. j \in 1 .. s + c + 5
  BY <1>1
<1>3. \/ j \in 1 .. n \/ j = n + 1 \/ j \in n + 2 .. n + 1 + w \/ j = n + w + 2 \/ j = s
      \/ j \in s + 1 .. s + c \/ j = s + c + 1 \/ j = s + c + 2 \/ j = s + c + 3
      \/ j = s + c + 4 \/ j = s + c + 5
  BY <1>2, CaptureSpan
<1>4. CASE j \in 1 .. n
  BY <1>1, <1>4 DEF InCapture
<1>5. CASE j \in n + 2 .. n + 1 + w
  <2>1. j - (n + 1) \in 1 .. w /\ n + 1 + (j - (n + 1)) = j
    BY <1>5
  <2>2. r[j] = Instr("launch", j - (n + 1))
    BY <1>1, <2>1
  <2> QED
    BY <1>5, <2>2 DEF InCapture
<1>6. CASE j \in s + 1 .. s + c
  <2>1. j - s \in 1 .. c /\ s + (j - s) = j
    BY <1>6
  <2>2. r[j] = Instr("launch", w + (j - s))
    BY <1>1, <2>1
  <2> QED
    BY <1>6, <2>2 DEF InCapture
<1>7. CASE j \in {n + 1, n + w + 2, s + c + 1}
  BY <1>1, <1>7 DEF InCapture
<1>8. CASE j \in {s, s + c + 2, s + c + 3, s + c + 4, s + c + 5}
  BY <1>1, <1>8 DEF InCapture
<1> QED
  BY <1>3, <1>4, <1>5, <1>6, <1>7, <1>8

LEMMA CaptureKinds ==
  ASSUME NEW w \in Nat, NEW c \in Nat, NEW n \in Nat, NEW s \in Nat, s = n + w + 3,
         NEW r \in Seq(Items), IsCapture(r, w, c, n, s), NEW j \in 1 .. Len(r)
  PROVE  KindInCapture(r, w, c, n, s, j)
<1>0. InCapture(r, w, c, n, s, j)
  BY CaptureAt
<1>1. CASE j \in 1 .. n /\ r[j] = Instr("upload", j)
  BY <1>1 DEF KindInCapture, Instr, DirectoryKinds
<1>2. CASE j \in n + 2 .. n + 1 + w /\ r[j] = Instr("launch", j - (n + 1))
  BY <1>2 DEF KindInCapture, Instr, DirectoryKinds
<1>3. CASE j \in s + 1 .. s + c /\ r[j] = Instr("launch", w + (j - s))
  BY <1>3 DEF KindInCapture, Instr, DirectoryKinds
<1>4. CASE r[j] = Synchronize
  BY <1>4 DEF KindInCapture, Instr, Synchronize, DirectoryKinds
<1>5. CASE j = s /\ r[j] = Instr("capture", 0)
  BY <1>5 DEF KindInCapture, Instr
<1>6. CASE j = s + c + 2 /\ r[j] = Instr("analyse", 0)
  BY <1>6 DEF KindInCapture, Instr
<1>7. CASE j = s + c + 3 /\ r[j] = Instr("discover", 0)
  BY <1>7 DEF KindInCapture, Instr
<1>8. CASE j = s + c + 4 /\ r[j] = Instr("copy", 0)
  BY <1>8 DEF KindInCapture, Instr
<1>9. CASE j = s + c + 5 /\ r[j] = Instr("manifest", 1 + w)
  BY <1>9 DEF KindInCapture, Instr
<1> QED
  BY <1>0, <1>1, <1>2, <1>3, <1>4, <1>5, <1>6, <1>7, <1>8, <1>9 DEF InCapture

LEMMA CaptureGood ==
  ASSUME NEW w \in Nat, NEW c \in Nat, NEW n \in Nat, n = w + c,
         NEW s \in Nat, s = n + w + 3,
         NEW r \in Seq(Items), IsCapture(r, w, c, n, s)
  PROVE  Good(r, 1, 1 + n, n)
<1>0. \A j \in 1 .. Len(r) : KindInCapture(r, w, c, n, s, j)
  BY CaptureKinds
<1>1. /\ Len(r) = s + c + 5
      /\ \A i \in 1 .. n : r[i] = Instr("upload", i)
      /\ r[s + c + 1] = Synchronize
  BY DEF IsCapture
<1>2. \A j \in 1 .. Len(r) :
        r[j].do \notin {"drop", "check", "start", "stop", "clock", "elapsed"}
  BY <1>0 DEF KindInCapture
<1>3. ASSUME NEW j \in 1 .. Len(r), r[j].do = "launch"
      PROVE  \E i \in 1 .. n : /\ r[j].on = i /\ i < j /\ j < s + c + 1
                               /\ i <= w => j = n + 1 + i
                               /\ i > w  => j = s + (i - w)
  <2>0. \/ j \in n + 2 .. n + 1 + w /\ r[j].on = j - (n + 1)
        \/ j \in s + 1 .. s + c /\ r[j].on = w + (j - s)
    BY <1>0, <1>3 DEF KindInCapture
  <2>1. CASE j \in n + 2 .. n + 1 + w /\ r[j].on = j - (n + 1)
    <3> DEFINE i == j - (n + 1)
    <3>1. i \in 1 .. n /\ i <= w /\ j = n + 1 + i /\ i < j /\ j < s + c + 1
      BY <2>1
    <3>2. r[j].on = i
      BY <2>1
    <3> HIDE DEF i
    <3>3. ~ i > w
      BY <3>1
    <3> QED
      BY <3>1, <3>2, <3>3
  <2>2. CASE j \in s + 1 .. s + c /\ r[j].on = w + (j - s)
    <3> DEFINE i == w + (j - s)
    <3>1. i \in 1 .. n /\ i > w /\ j = s + (i - w) /\ i < j /\ j < s + c + 1
      BY <2>2
    <3>2. r[j].on = i
      BY <2>2
    <3> HIDE DEF i
    <3>3. ~ i <= w
      BY <3>1
    <3> QED
      BY <3>1, <3>2, <3>3
  <2> QED
    BY <2>0, <2>1, <2>2
<1>4. Launchable(r)
  <2> SUFFICES ASSUME NEW j \in 1 .. Len(r), r[j].do = "launch"
               PROVE  /\ \E u \in 1 .. j - 1 :
                           /\ r[u].do = "upload" /\ r[u].on = r[j].on
                           /\ \A m \in u + 1 .. j - 1 : r[m].do # "drop"
                      /\ \E y \in j + 1 .. Len(r) :
                           /\ r[y].do = "sync"
                           /\ \A m \in j + 1 .. y - 1 : r[m].do # "drop"
    BY DEF Launchable
  <2>1. PICK i \in 1 .. n : r[j].on = i /\ i < j /\ j < s + c + 1
    BY <1>3
  <2>2. r[i].do = "upload" /\ r[i].on = i
    <3>1. r[i] = Instr("upload", i)
      BY <1>1
    <3> QED
      BY <3>1 DEF Instr
  <2>3. i \in 1 .. j - 1
    BY <2>1
  <2>4. s + c + 1 \in j + 1 .. Len(r)
    BY <2>1, <1>1
  <2>5. r[s + c + 1].do = "sync"
    BY <1>1, InstrFields
  <2>6. \A m \in i + 1 .. j - 1 : m \in 1 .. Len(r)
    <3>1. Len(r) = s + c + 5
      BY <1>1
    <3>2. \A m \in i + 1 .. j - 1 : m \in 1 .. s + c + 5
      BY <2>1
    <3> QED
      BY <3>1, <3>2
  <2>7. \A m \in j + 1 .. (s + c + 1) - 1 : m \in 1 .. Len(r)
    BY <1>1
  <2> QED
    BY <2>1, <2>2, <2>3, <2>4, <2>5, <2>6, <2>7, <1>2
<1>5. Compared(r) /\ Quiet(Works, r)
  BY <1>2 DEF Compared, Quiet
<1>6. Fresh(r, 1, 1 + n)
  <2>1. ASSUME NEW j \in 1 .. Len(r), r[j].do = "launch"
        PROVE  r[j].on \in Nat /\ 1 <= r[j].on /\ r[j].on < 1 + n
    BY <2>1, <1>3
  <2>2. ASSUME NEW j \in 1 .. Len(r), NEW k \in 1 .. Len(r), r[j].do = "launch",
               r[k].do = "launch", r[j].on = r[k].on
        PROVE  j = k
    <3>1. PICK i \in 1 .. n : /\ r[j].on = i
                              /\ i <= w => j = n + 1 + i
                              /\ i > w  => j = s + (i - w)
      BY <1>3, <2>2
    <3>2. PICK h \in 1 .. n : /\ r[k].on = h
                              /\ h <= w => k = n + 1 + h
                              /\ h > w  => k = s + (h - w)
      BY <1>3, <2>2
    <3>3. i = h
      BY <3>1, <3>2, <2>2
    <3> QED
      BY <3>1, <3>2, <3>3
  <2> QED
    BY <2>1, <2>2 DEF Fresh
<1>7. \A j \in 1 .. Len(r) : /\ r[j] # StartEvent /\ r[j] # StopEvent
                             /\ r[j] # ReadClock /\ r[j] # AddClock
  BY <1>2, InstrFields
<1>8. Alternates(r, StartEvent, StopEvent) /\ Alternates(r, ReadClock, AddClock)
  BY <1>7, NoPair
<1>9. Holds(r, n)
  <2> SUFFICES ASSUME NEW m \in 0 .. Len(r)
               PROVE  IsFiniteSet(Live(r, m)) /\ Cardinality(Live(r, m)) <= n
    BY DEF Holds
  <2>1. \A v \in Uploads(r, m) : v \in 1 .. Len(r) /\ r[v].do = "upload"
    BY DEF Uploads
  <2>2. \A v \in Uploads(r, m) : r[v].on \in 1 .. n
    BY <2>1, <1>0 DEF KindInCapture
  <2>3. Live(r, m) \subseteq 1 .. n
    BY <2>2 DEF Live
  <2>4. IsFiniteSet(1 .. n) /\ Cardinality(1 .. n) = n
    <3>1. Cardinality(1 .. n) = IF 1 > n THEN 0 ELSE n - 1 + 1
      BY FS_Interval
    <3> QED
      BY <3>1, FS_Interval
  <2> DEFINE I == 1 .. n
  <2> HIDE DEF I
  <2>5. IsFiniteSet(Live(r, m)) /\ Cardinality(Live(r, m)) <= Cardinality(I)
    BY <2>3, <2>4, FS_Subset DEF I
  <2>6. Cardinality(Live(r, m)) \in Nat
    BY <2>5, FS_CardinalityType
  <2> QED
    BY <2>4, <2>5, <2>6 DEF I
<1> QED
  BY <1>4, <1>5, <1>6, <1>8, <1>9 DEF Good

\* The part of the profiler's script that captures, from position s on.
Layout(sc, w, c, s) ==
  /\ s \in Nat /\ s > 1 /\ Len(sc) = s + c + 5
  /\ sc[s - 1].do = "sync" /\ sc[s].do = "capture"
  /\ \A i \in 1 .. c : sc[s + i].do = "launch" /\ sc[s + i].on = w + i
  /\ sc[s + c + 1].do = "sync" /\ sc[s + c + 2].do = "analyse"
  /\ sc[s + c + 3].do = "discover" /\ sc[s + c + 4].do = "copy"
  /\ sc[s + c + 5].do = "manifest" /\ sc[s + c + 5].on = 1 + w
  /\ \A j \in 1 .. Len(sc) :
       sc[j].do \in DirectoryKinds \ {"look", "mkdir"} =>
         j \in {s, s + c + 2, s + c + 3, s + c + 4, s + c + 5}

LEMMA ProfileSplit ==
  ASSUME NEW o \in Options.profile
  PROVE  LET a == <<Instr("look", 0), Instr("mkdir", "raw"), Instr("mkdir", "parsed")>>
         IN  /\ ProfileScript(o) = (a \o Verified(o)) \o Captured(o.warmup, o.count)
             /\ a \o Verified(o) \in Seq(Items) /\ Captured(o.warmup, o.count) \in Seq(Items)
<1> DEFINE a == <<Instr("look", 0), Instr("mkdir", "raw"), Instr("mkdir", "parsed")>>
           f == a \o Verified(o)
           w == o.warmup
           c == o.count
           p == PreloadStates(CaseIds(1, w) \o CaseIds(1 + w, c))
           u == WarmupStates(CaseIds(1, w))
           d == <<Instr("capture", 0)>>
           e == Launches(CaseIds(1 + w, c))
           z == <<Synchronize, Instr("analyse", 0), Instr("discover", 0), Instr("copy", 0),
                  Instr("manifest", 1 + w)>>
<1>1. w \in Nat /\ c \in Nat /\ o.verify \in BOOLEAN
  BY OptionFields
<1>2. ProfileScript(o) = ((((f \o p) \o u) \o d) \o e) \o z
  BY DEF ProfileScript
<1>3. f \in Seq(Items)
  <2>1. a \in Seq(Items)
    BY InstrItems
  <2>2. Verified(o) \in Seq(Items)
    <3>1. Good(Verified(o), 0, 1, 1)
      BY <1>1, VerifiedGood
    <3> QED
      BY <3>1 DEF Good
  <2> HIDE DEF a
  <2> QED
    BY <2>1, <2>2, ConcatLength
<1>4. p = PreloadStates(CaseIds(1, w + c))
  <2>1. CaseIds(1, w) \o CaseIds(1 + w, c) = CaseIds(1, w + c)
    <3> HIDE DEF w, c
    <3>1. 1 \in Nat /\ w \in Nat /\ c \in Nat
      BY <1>1
    <3> QED
      BY ONLY <3>1, CaseIdsConcat
  <2> QED
    BY <2>1
<1>5. p \in Seq(Items)
  <2>1. w + c \in Nat
    BY <1>1
  <2> HIDE DEF w, c, p
  <2> QED
    BY <2>1, <1>4, PreloadShape
<1>6. u \in Seq(Items)
  <2> HIDE DEF w
  <2> QED
    BY <1>1, WarmupShape
<1>7. d \in Seq(Items)
  BY InstrItems
<1>8. e \in Seq(Items)
  <2> DEFINE k == 1 + w
  <2>1. k \in Nat
    BY <1>1
  <2> HIDE DEF k
  <2>2. Launches(CaseIds(k, c)) \in Seq(Items)
    <3> HIDE DEF c
    <3> QED
      BY <1>1, <2>1, RunShape DEF Launches
  <2> QED
    BY <2>2 DEF k
<1>9. z \in Seq(Items)
  <2>1. 1 + w \in Nat
    BY <1>1
  <2> HIDE DEF w
  <2> QED
    BY <2>1, InstrItems
<1>10. Captured(w, c) = (((p \o u) \o d) \o e) \o z
  BY <1>4 DEF Captured
<1> HIDE DEF f, w, c, p, u, d, e, z
<1>11. p \o u \in Seq(Items) /\ (f \o p) \o u = f \o (p \o u)
  BY <1>3, <1>5, <1>6, ConcatLength, ItemsAssociate
<1> DEFINE pu == p \o u
<1> HIDE DEF pu
<1>12. pu \o d \in Seq(Items) /\ (f \o pu) \o d = f \o (pu \o d)
  <2>1. pu \in Seq(Items) /\ f \in Seq(Items) /\ d \in Seq(Items)
    BY <1>3, <1>7, <1>11 DEF pu
  <2>2. pu \o d \in Seq(Items)
    BY <2>1, ConcatLength
  <2>3. (f \o pu) \o d = f \o (pu \o d)
    BY ONLY <2>1, ItemsAssociate
  <2> QED
    BY <2>2, <2>3
<1> DEFINE pud == pu \o d
<1> HIDE DEF pud
<1>13. pud \o e \in Seq(Items) /\ (f \o pud) \o e = f \o (pud \o e)
  <2>1. pud \in Seq(Items) /\ f \in Seq(Items) /\ e \in Seq(Items)
    BY <1>3, <1>8, <1>12 DEF pud
  <2>2. pud \o e \in Seq(Items)
    BY <2>1, ConcatLength
  <2>3. (f \o pud) \o e = f \o (pud \o e)
    BY ONLY <2>1, ItemsAssociate
  <2> QED
    BY <2>2, <2>3
<1> DEFINE pude == pud \o e
<1> HIDE DEF pude
<1>14. pude \o z \in Seq(Items) /\ (f \o pude) \o z = f \o (pude \o z)
  <2>1. pude \in Seq(Items) /\ f \in Seq(Items) /\ z \in Seq(Items)
    BY <1>3, <1>9, <1>13 DEF pude
  <2>2. pude \o z \in Seq(Items)
    BY <2>1, ConcatLength
  <2>3. (f \o pude) \o z = f \o (pude \o z)
    BY ONLY <2>1, ItemsAssociate
  <2> QED
    BY <2>2, <2>3
<1>15. ProfileScript(o) = f \o (pude \o z) /\ Captured(w, c) = pude \o z
  BY <1>2, <1>10, <1>11, <1>12, <1>13, <1>14 DEF pu, pud, pude
<1> QED
  BY <1>3, <1>14, <1>15 DEF f, w, c

LEMMA ProfileGood ==
  ASSUME NEW o \in Options.profile
  PROVE  /\ Good(ProfileScript(o), 0, 1 + (o.warmup + o.count), o.warmup + o.count)
         /\ Layout(ProfileScript(o), o.warmup, o.count, Len(ProfileScript(o)) - 5 - o.count)
<1> DEFINE a == <<Instr("look", 0), Instr("mkdir", "raw"), Instr("mkdir", "parsed")>>
           v == Verified(o)
           f == a \o v
           w == o.warmup
           c == o.count
           n == w + c
           s == n + w + 3
           r == Captured(w, c)
           sc == ProfileScript(o)
<1>1. w \in Nat /\ c \in Nat \ {0} /\ o.verify \in BOOLEAN /\ n \in Nat \ {0} /\ n = w + c
      /\ s \in Nat /\ s = n + w + 3
  BY OptionFields
<1>2. sc = f \o r /\ f \in Seq(Items) /\ r \in Seq(Items)
  BY ProfileSplit
<1>3. /\ a \in Seq(Items) /\ Len(a) = 3 /\ a[1].do = "look" /\ a[2].do = "mkdir"
      /\ a[3].do = "mkdir"
  BY InstrItems DEF Instr
<1> HIDE DEF a, w, c, n, s, r, sc
<1>4. \A j \in 1 .. Len(a) : a[j].do \in {"look", "mkdir"}
  <2> SUFFICES ASSUME NEW j \in 1 .. Len(a) PROVE a[j].do \in {"look", "mkdir"}
    OBVIOUS
  <2>1. j = 1 \/ j = 2 \/ j = 3
    BY <1>3
  <2> QED
    BY <2>1, <1>3
<1>5. Good(a, 0, 0, n) /\ Emptied(a)
  <2>1. \A j \in 1 .. Len(a) : a[j].do \in DirectoryKinds
    BY <1>4 DEF DirectoryKinds
  <2> QED
    BY <2>1, <1>1, <1>3, IdleGood
<1>6. Good(v, 0, 1, n) /\ Emptied(v) /\ Plain(v)
  BY <1>1, VerifiedGood
<1>7. Good(f, 0, 1, n) /\ Emptied(f)
  <2> HIDE DEF v
  <2> QED
    BY <1>5, <1>6, GoodConcat
<1>8. IsCapture(r, w, c, n, s)
  BY <1>1, CaptureShape DEF r
<1>9. Good(r, 1, 1 + n, n)
  BY <1>1, <1>2, <1>8, CaptureGood
<1>10. Good(f \o r, 0, 1 + n, n)
  <2>1. 1 + n \in Nat /\ 1 <= 1 + n
    BY <1>1
  <2> HIDE DEF f
  <2> QED
    BY <2>1, <1>7, <1>9, GoodConcat
<1>11. \A j \in 1 .. Len(f) : f[j].do \notin DirectoryKinds \ {"look", "mkdir"}
  <2>1. v \in Seq(Items)
    BY <1>6 DEF Good
  <2>2. /\ \A j \in 1 .. Len(a) : f[j] = a[j]
        /\ \A j \in 1 .. Len(v) : f[Len(a) + j] = v[j]
        /\ Len(f) = Len(a) + Len(v)
        /\ \A j \in 1 .. Len(a) + Len(v) :
             j \in 1 .. Len(a) \/ \E i \in 1 .. Len(v) : j = Len(a) + i
    <3> HIDE DEF v
    <3>1. a \in Seq(Items)
      BY <1>3
    <3>2. \A j \in 1 .. Len(a) : f[j] = a[j]
      BY <3>1, <2>1, ConcatFront
    <3>3. \A j \in 1 .. Len(v) : f[Len(a) + j] = v[j]
      BY <3>1, <2>1, ConcatBack
    <3>4. Len(f) = Len(a) + Len(v)
      BY <3>1, <2>1, ConcatLength
    <3>5. Len(a) \in Nat /\ Len(v) \in Nat
      BY <3>1, <2>1, LenProperties
    <3>6. \A i, m \in Nat : \A j \in 1 .. i + m :
            j \in 1 .. i \/ \E l \in 1 .. m : j = i + l
      <4> SUFFICES ASSUME NEW i \in Nat, NEW m \in Nat, NEW j \in 1 .. i + m, j \notin 1 .. i
                   PROVE  \E l \in 1 .. m : j = i + l
        OBVIOUS
      <4>1. j - i \in 1 .. m /\ j = i + (j - i)
        OBVIOUS
      <4> QED
        BY <4>1
    <3>7. \A j \in 1 .. Len(a) + Len(v) :
             j \in 1 .. Len(a) \/ \E i \in 1 .. Len(v) : j = Len(a) + i
      BY <3>5, <3>6, Zenon
    <3> QED
      BY <3>2, <3>3, <3>4, <3>7
  <2> HIDE DEF f, v
  <2> SUFFICES ASSUME NEW j \in 1 .. Len(f)
               PROVE  f[j].do \notin DirectoryKinds \ {"look", "mkdir"}
    OBVIOUS
  <2>3. CASE j \in 1 .. Len(a)
    BY <2>2, <2>3, <1>4
  <2>4. CASE \E i \in 1 .. Len(v) : j = Len(a) + i
    <3>1. PICK i \in 1 .. Len(v) : j = Len(a) + i
      BY <2>4
    <3>2. f[j] = v[i]
      BY <3>1, <2>2
    <3> QED
      BY <3>2, <1>6 DEF Plain
  <2> QED
    BY <2>2, <2>3, <2>4
<1> DEFINE k == Len(f)
<1>12. k \in Nat
  BY <1>2
<1>13. Len(r) = s + c + 5
  BY <1>8 DEF IsCapture
<1> HIDE DEF f
<1>14. /\ Len(f \o r) = k + Len(r)
       /\ \A j \in 1 .. Len(r) : (f \o r)[k + j] = r[j]
       /\ \A j \in 1 .. k : (f \o r)[j] = f[j]
       /\ \A j \in 1 .. k + Len(r) : j \in 1 .. k \/ \E i \in 1 .. Len(r) : j = k + i
  BY <1>2, ConcatAt
<1>15. Len(sc) = k + s + c + 5
  BY <1>1, <1>2, <1>12, <1>13, <1>14
<1>16. \A j \in 1 .. s + c + 5 : sc[k + j] = r[j]
  BY <1>2, <1>13, <1>14
<1>17. \A j \in 1 .. Len(sc) : sc[j].do \in DirectoryKinds \ {"look", "mkdir"} =>
         j \in {k + s, k + s + c + 2, k + s + c + 3, k + s + c + 4, k + s + c + 5}
  <2> SUFFICES ASSUME NEW j \in 1 .. Len(sc), sc[j].do \in DirectoryKinds \ {"look", "mkdir"}
               PROVE  j \in {k + s, k + s + c + 2, k + s + c + 3, k + s + c + 4, k + s + c + 5}
    OBVIOUS
  <2>1. j \notin 1 .. k
    BY <1>2, <1>11, <1>14
  <2>2. PICK i \in 1 .. Len(r) : j = k + i
    BY <2>1, <1>2, <1>14
  <2>3. r[i].do \in DirectoryKinds
    BY <2>2, <1>2, <1>14
  <2>4. KindInCapture(r, w, c, n, s, i)
    BY <1>1, <1>2, <1>8, CaptureKinds
  <2>5. i \in {s, s + c + 2, s + c + 3, s + c + 4, s + c + 5}
    BY <2>3, <2>4 DEF KindInCapture
  <2> QED
    BY <2>2, <2>5, <1>1, <1>12
<1>18. ASSUME NEW i \in 1 .. c PROVE sc[k + s + i].do = "launch" /\ sc[k + s + i].on = w + i
  <2>1. s + i \in 1 .. s + c + 5 /\ k + (s + i) = k + s + i
    BY <1>1, <1>12
  <2>2. r[s + i] = Instr("launch", w + i)
    BY <1>8 DEF IsCapture
  <2> QED
    BY <2>1, <2>2, <1>16 DEF Instr
<1>19. sc[k + s - 1].do = "sync"
  <2>1. s - 1 \in 1 .. s + c + 5 /\ k + (s - 1) = k + s - 1 /\ s - 1 = n + w + 2
    BY <1>1, <1>12
  <2>2. r[n + w + 2] = Synchronize
    BY <1>8 DEF IsCapture
  <2> QED
    BY <2>1, <2>2, <1>16, InstrFields
<1>20. /\ sc[k + s].do = "capture" /\ sc[k + s + c + 1].do = "sync"
       /\ sc[k + s + c + 2].do = "analyse" /\ sc[k + s + c + 3].do = "discover"
       /\ sc[k + s + c + 4].do = "copy" /\ sc[k + s + c + 5].do = "manifest"
       /\ sc[k + s + c + 5].on = 1 + w
  <2>1. {s, s + c + 1, s + c + 2, s + c + 3, s + c + 4, s + c + 5} \subseteq 1 .. s + c + 5
    BY <1>1
  <2>2. /\ k + (s + c + 1) = k + s + c + 1 /\ k + (s + c + 2) = k + s + c + 2
        /\ k + (s + c + 3) = k + s + c + 3 /\ k + (s + c + 4) = k + s + c + 4
        /\ k + (s + c + 5) = k + s + c + 5
    BY <1>1, <1>12
  <2>3. /\ sc[k + s] = r[s] /\ sc[k + s + c + 1] = r[s + c + 1]
        /\ sc[k + s + c + 2] = r[s + c + 2] /\ sc[k + s + c + 3] = r[s + c + 3]
        /\ sc[k + s + c + 4] = r[s + c + 4] /\ sc[k + s + c + 5] = r[s + c + 5]
    <3>1. \A j \in 1 .. s + c + 5 : sc[k + j] = r[j]
      BY <1>1, <1>16
    <3> QED
      BY ONLY <2>1, <2>2, <3>1, SMTT(30)
  <2>4. /\ r[s] = Instr("capture", 0)
        /\ r[s + c + 1] = Synchronize /\ r[s + c + 2] = Instr("analyse", 0)
        /\ r[s + c + 3] = Instr("discover", 0) /\ r[s + c + 4] = Instr("copy", 0)
        /\ r[s + c + 5] = Instr("manifest", 1 + w)
    BY <1>8 DEF IsCapture
  <2> QED
    BY <2>3, <2>4 DEF Instr, Synchronize
<1>21. Layout(sc, w, c, k + s)
  <2> HIDE DEF k
  <2> DEFINE z == k + s
  <2>1. z \in Nat /\ z > 1 /\ c \in Nat
    BY <1>1, <1>12
  <2>2. Len(sc) = z + c + 5
    BY <1>15
  <2>3. \A j \in 1 .. Len(sc) : sc[j].do \in DirectoryKinds \ {"look", "mkdir"} =>
          j \in {z, z + c + 2, z + c + 3, z + c + 4, z + c + 5}
    BY <1>17
  <2>4. \A i \in 1 .. c : sc[z + i].do = "launch" /\ sc[z + i].on = w + i
    BY <1>18
  <2>5. /\ sc[z - 1].do = "sync" /\ sc[z].do = "capture" /\ sc[z + c + 1].do = "sync"
        /\ sc[z + c + 2].do = "analyse" /\ sc[z + c + 3].do = "discover"
        /\ sc[z + c + 4].do = "copy" /\ sc[z + c + 5].do = "manifest"
        /\ sc[z + c + 5].on = 1 + w
    <3>1. z - 1 = k + s - 1
      BY <1>1, <1>12
    <3>2. sc[z - 1].do = "sync"
      BY <3>1, <1>19
    <3> QED
      BY <3>2, <1>20
  <2>6. Layout(sc, w, c, z)
    <3> HIDE DEF z
    <3> QED
      BY <2>1, <2>2, <2>3, <2>4, <2>5 DEF Layout
  <2> QED
    BY <2>6
<1>22. k + s = Len(sc) - 5 - c
  <2>1. k \in Nat /\ s \in Nat /\ c \in Nat
    BY <1>1, <1>12
  <2> HIDE DEF k
  <2> QED
    BY <2>1, <1>15
<1>23. Good(sc, 0, 1 + n, n) /\ Layout(sc, w, c, Len(sc) - 5 - c)
  BY <1>2, <1>10, <1>21, <1>22
<1> QED
  BY <1>23 DEF sc, w, c, n

-----------------------------------------------------------------------------
(* What the process has done of its script.                                 *)

AnyOption == (Options.validate \cup Options.bench) \cup Options.profile

\* The states a run may hold, as the scripts announce it.
Announced(o) ==
  CASE o.tool = "validate" -> 1
    [] o.tool = "bench"    -> BatchRounds(o) + o.warmup
    [] o.tool = "profile"  -> o.count + o.warmup

\* The position of the capture.
Captures(o) == Len(Script(o)) - 5 - o.count

\* What the proofs use of a script.
Suits(o, sc) ==
  /\ \E lo, hi : Good(sc, lo, hi, Announced(o))
  /\ o.tool = "bench" => EndsSynced(Kinds, sc) /\ Times(sc, o.count)
  /\ o.tool = "profile" => Layout(sc, o.warmup, o.count, Len(sc) - 5 - o.count)
  /\ o.tool # "profile" => Plain(sc)

LEMMA ScriptSuits ==
  ASSUME NEW o \in AnyOption
  PROVE  /\ Suits(o, Script(o))
         /\ o.tool \in {"validate", "bench", "profile"}
         /\ o.tool = "profile" => o.count \in Nat \ {0} /\ o.warmup \in Nat
<1>1. CASE o \in Options.validate
  <2>1. o.tool = "validate"
    BY <1>1, OptionFields
  <2>2. Script(o) = ValidateScript(o) /\ Announced(o) = 1
    BY <2>1 DEF Script, Announced
  <2>3. Good(ValidateScript(o), o.first, o.first + 1, 1) /\ Plain(ValidateScript(o))
    BY <1>1, ValidateGood
  <2>4. Suits(o, Script(o))
    BY <2>1, <2>2, <2>3 DEF Suits
  <2> QED
    BY <2>1, <2>4
<1>2. CASE o \in Options.bench
  <2>1. o.tool = "bench"
    BY <1>2, OptionFields
  <2>2. Script(o) = BenchScript(o) /\ Announced(o) = BatchRounds(o) + o.warmup
    BY <2>1 DEF Script, Announced
  <2>3. /\ Good(BenchScript(o), 0, 1 + o.count + o.warmup, BatchRounds(o) + o.warmup)
        /\ EndsSynced(Kinds, BenchScript(o)) /\ Times(BenchScript(o), o.count)
        /\ Plain(BenchScript(o))
    BY <1>2, BenchGood
  <2>4. Suits(o, Script(o))
    BY <2>1, <2>2, <2>3 DEF Suits
  <2> QED
    BY <2>1, <2>4
<1>3. CASE o \in Options.profile
  <2>1. o.tool = "profile" /\ o.count \in Nat \ {0} /\ o.warmup \in Nat
    BY <1>3, OptionFields
  <2>2. Script(o) = ProfileScript(o) /\ Announced(o) = o.warmup + o.count
    BY <2>1 DEF Script, Announced
  <2>3. /\ Good(ProfileScript(o), 0, 1 + (o.warmup + o.count), o.warmup + o.count)
        /\ Layout(ProfileScript(o), o.warmup, o.count, Len(ProfileScript(o)) - 5 - o.count)
    BY <1>3, ProfileGood
  <2>4. Suits(o, Script(o))
    BY <2>1, <2>2, <2>3 DEF Suits
  <2> QED
    BY <2>1, <2>4
<1> QED
  BY <1>1, <1>2, <1>3 DEF AnyOption

\* One more instruction and the states that are held.
LEMMA LiveNext ==
  ASSUME NEW sc \in Seq(Items), NEW n \in Nat, n < Len(sc)
  PROVE  /\ sc[n + 1].do = "upload" => Live(sc, n + 1) = Live(sc, n) \cup {sc[n + 1].on}
         /\ sc[n + 1].do = "drop" => Live(sc, n + 1) = Live(sc, n) \ sc[n + 1].on
         /\ sc[n + 1].do \notin {"upload", "drop"} => Live(sc, n + 1) = Live(sc, n)
<1>1. \A m : m \in 1 .. n + 1 <=> m \in 1 .. n \/ m = n + 1
  OBVIOUS
<1>2. \A v \in 1 .. n : \A m : m \in v + 1 .. n + 1 <=> m \in v + 1 .. n \/ m = n + 1
  OBVIOUS
<1>3. n + 1 \notin 1 .. n /\ n + 2 .. n + 1 = {}
  OBVIOUS
<1>4. \A v \in 1 .. n :
        v \in Uploads(sc, n + 1) <=>
          v \in Uploads(sc, n) /\ (sc[n + 1].do = "drop" => sc[v].on \notin sc[n + 1].on)
  <2> SUFFICES ASSUME NEW v \in 1 .. n
               PROVE  v \in Uploads(sc, n + 1) <=>
                        v \in Uploads(sc, n)
                          /\ (sc[n + 1].do = "drop" => sc[v].on \notin sc[n + 1].on)
    OBVIOUS
  <2>1. v \in 1 .. n + 1
    BY <1>1
  <2> QED
    BY <2>1, <1>2, Zenon DEF Uploads
<1>5. n + 1 \in Uploads(sc, n + 1) <=> sc[n + 1].do = "upload"
  <2>1. \A m \in (n + 1) + 1 .. n + 1 : FALSE
    OBVIOUS
  <2>2. n + 1 \in 1 .. n + 1
    OBVIOUS
  <2> QED
    BY <2>1, <2>2, Zenon DEF Uploads
<1>6. \A v : v \in Uploads(sc, n + 1) => v \in 1 .. n \/ v = n + 1
  BY <1>1 DEF Uploads
<1>7. \A v : v \in Uploads(sc, n) => v \in 1 .. n
  BY DEF Uploads
<1>8. ASSUME sc[n + 1].do = "upload"
      PROVE  Live(sc, n + 1) = Live(sc, n) \cup {sc[n + 1].on}
  <2>1. Uploads(sc, n + 1) = Uploads(sc, n) \cup {n + 1}
    BY <1>4, <1>5, <1>6, <1>7, <1>8
  <2> QED
    BY <2>1 DEF Live
<1>9. ASSUME sc[n + 1].do = "drop"
      PROVE  Live(sc, n + 1) = Live(sc, n) \ sc[n + 1].on
  <2>1. \A v : v \in Uploads(sc, n + 1) <=>
               v \in Uploads(sc, n) /\ sc[v].on \notin sc[n + 1].on
    BY <1>4, <1>5, <1>6, <1>7, <1>9
  <2> QED
    BY <2>1 DEF Live
<1>10. ASSUME sc[n + 1].do \notin {"upload", "drop"}
       PROVE  Live(sc, n + 1) = Live(sc, n)
  <2>1. Uploads(sc, n + 1) = Uploads(sc, n)
    BY <1>4, <1>5, <1>6, <1>7, <1>10
  <2> QED
    BY <2>1 DEF Live
<1> QED
  BY <1>8, <1>9, <1>10

\* The cases of the launches among the first d instructions.
Ran(sc, d) == {sc[j].on : j \in {i \in 1 .. d : sc[i].do = "launch"}}

\* The device passes from instruction d to the next one that it is given.
LEMMA RanNext ==
  ASSUME NEW sc, NEW d \in Nat, NEW y \in Nat, d < y,
         \A j \in d + 1 .. y - 1 : sc[j].do \notin Kinds
  PROVE  /\ sc[y].do = "launch" => Ran(sc, y) = Ran(sc, d) \cup {sc[y].on}
         /\ sc[y].do # "launch" => Ran(sc, y) = Ran(sc, d)
<1> DEFINE L(e) == {i \in 1 .. e : sc[i].do = "launch"}
<1>1. \A j : j \in 1 .. y => j \in 1 .. d \/ j \in d + 1 .. y - 1 \/ j = y
  OBVIOUS
<1>2. \A j \in 1 .. d : j \in 1 .. y
  OBVIOUS
<1>3. y \in 1 .. y
  OBVIOUS
<1>4. \A j : j \in L(y) <=> j \in L(d) \/ (j = y /\ sc[y].do = "launch")
  BY <1>1, <1>2, <1>3 DEF Kinds
<1>5. \A e : Ran(sc, e) = {sc[j].on : j \in L(e)}
  BY DEF Ran
<1> HIDE DEF L
<1>6. sc[y].do = "launch" => L(y) = L(d) \cup {y}
  BY <1>4
<1>7. sc[y].do # "launch" => L(y) = L(d)
  BY <1>4
<1>8. ASSUME sc[y].do = "launch" PROVE Ran(sc, y) = Ran(sc, d) \cup {sc[y].on}
  <2>1. Ran(sc, y) = {sc[j].on : j \in L(d) \cup {y}}
    BY <1>5, <1>6, <1>8
  <2>2. Ran(sc, d) = {sc[j].on : j \in L(d)}
    BY <1>5
  <2> QED
    BY <2>1, <2>2
<1>9. ASSUME sc[y].do # "launch" PROVE Ran(sc, y) = Ran(sc, d)
  <2>1. Ran(sc, y) = {sc[j].on : j \in L(d)}
    BY <1>5, <1>7, <1>9
  <2>2. Ran(sc, d) = {sc[j].on : j \in L(d)}
    BY <1>5
  <2> QED
    BY <2>1, <2>2
<1> QED
  BY <1>8, <1>9

LEMMA SuitFacts ==
  ASSUME NEW o \in AnyOption, NEW sc, sc = Script(o)
  PROVE  /\ sc \in Seq(Items) /\ Len(sc) \in Nat
         /\ Launchable(sc) /\ Compared(sc) /\ Quiet(Works, sc)
         /\ Holds(sc, Announced(o))
         /\ \A i, j \in 1 .. Len(sc) :
              sc[i].do = "launch" /\ sc[j].do = "launch" /\ sc[i].on = sc[j].on => i = j
         /\ Alternates(sc, StartEvent, StopEvent) /\ Alternates(sc, ReadClock, AddClock)
<1>1. Suits(o, sc)
  BY ScriptSuits
<1>2. PICK lo, hi : Good(sc, lo, hi, Announced(o))
  BY <1>1 DEF Suits
<1>3. sc \in Seq(Items) /\ Launchable(sc) /\ Compared(sc) /\ Fresh(sc, lo, hi)
        /\ Holds(sc, Announced(o)) /\ Quiet(Works, sc)
        /\ Alternates(sc, StartEvent, StopEvent) /\ Alternates(sc, ReadClock, AddClock)
  BY <1>2 DEF Good
<1>4. \A i, j \in 1 .. Len(sc) :
        sc[i].do = "launch" /\ sc[j].do = "launch" /\ sc[i].on = sc[j].on => i = j
  BY <1>3 DEF Fresh
<1>5. Len(sc) \in Nat
  BY <1>3, LenProperties
<1> QED
  BY <1>3, <1>4, <1>5

(* A process in session s of command line o, the states al it holds, the    *)
(* cases us that ran, those ca that were captured: d is the last of the     *)
(* instructions that the device has carried out, x says where in the script *)
(* the items on the stream come from.                                       *)
FollowsBy(o, s, al, us, ca, d, x) ==
  /\ Tracks(Kinds, s, Script(o), d, x)
  /\ us = Ran(Script(o), d)
  /\ al = Live(Script(o), s.at)
  /\ o.tool = "bench" => DeviceTimes(Works, s, Script(o), d) /\ HostTimes(Works, s, Script(o))
  /\ o.tool = "profile" =>
       ca = CaseIds(1 + o.warmup, IF d <= Captures(o) THEN 0 ELSE d - Captures(o))

Follows(o, s, al, us, ca) == \E d, x : FollowsBy(o, s, al, us, ca, d, x)

\* An instruction that enqueues.
LEMMA FollowsEnqueued ==
  ASSUME NEW o \in AnyOption, NEW s \in Sessions(Items), NEW al, NEW us, NEW ca,
         Follows(o, s, al, us, ca), NEW sc, sc = Script(o), At(s, sc, Kinds)
  PROVE  /\ Enqueued(s, sc) \in Sessions(Items) /\ Enqueued(s, sc).at = s.at + 1
         /\ Follows(o, Enqueued(s, sc),
                    IF sc[s.at + 1].do = "upload" THEN al \cup {sc[s.at + 1].on} ELSE al, us, ca)
<1> DEFINE t == Enqueued(s, sc)
           y == s.at + 1
           bl == IF sc[y].do = "upload" THEN al \cup {sc[y].on} ELSE al
<1>1. PICK d, x : FollowsBy(o, s, al, us, ca, d, x)
  BY DEF Follows
<1>2. Tracks(Kinds, s, sc, d, x)
  BY <1>1 DEF FollowsBy
<1>3. sc \in Seq(Items) /\ Len(sc) \in Nat
  BY SuitFacts
<1>4. s.at < Len(sc) /\ sc[y].do \in Kinds /\ s.at \in 0 .. Len(sc) - 1 /\ s.at \in Nat
  BY <1>2, <1>3 DEF At, Tracks
<1>5. s.stream \in Seq(Items)
  BY DEF Sessions
<1>6. /\ t \in Sessions(Items) /\ t.at = y /\ t.stream = Append(s.stream, sc[y])
      /\ t.clock = s.clock /\ t.started = s.started /\ t.timing = s.timing
      /\ t.measured = s.measured /\ t.wall = s.wall /\ t.waited = s.waited
  BY <1>3, <1>4, HostFields
<1> HIDE DEF t
<1>7. Tracks(Kinds, t, sc, d, Append(x, y))
  <2>1. "sync" \notin Kinds
    BY DEF Kinds
  <2> QED
    BY <1>2, <1>3, <1>4, <1>5, <1>6, <2>1, TracksEnqueued
<1>8. bl = Live(sc, y)
  <2>1. al = Live(sc, s.at)
    BY <1>1 DEF FollowsBy
  <2>2. sc[y].do # "drop"
    BY <1>4 DEF Kinds
  <2>3. CASE sc[y].do = "upload"
    BY <1>3, <1>4, <2>1, <2>3, LiveNext
  <2>4. CASE sc[y].do # "upload"
    BY <1>3, <1>4, <2>1, <2>2, <2>4, LiveNext
  <2> QED
    BY <2>3, <2>4
<1>9. ASSUME o.tool = "bench" PROVE DeviceTimes(Works, t, sc, d) /\ HostTimes(Works, t, sc)
  <2>1. DeviceTimes(Works, s, sc, d) /\ HostTimes(Works, s, sc)
    BY <1>1, <1>9 DEF FollowsBy
  <2>2. DeviceTimes(Works, t, sc, d)
    BY <2>1, <1>6 DEF DeviceTimes
  <2>3. Bracketed(sc, ReadClock, AddClock)
    BY SuitFacts DEF Alternates
  <2>4. sc[y] # ReadClock /\ sc[y] # AddClock
    BY <1>4, InstrFields DEF Kinds
  <2>5. {"clock", "elapsed"} \cap Works = {}
    BY DEF Works
  <2>6. HostTimes(Works, t, sc)
    BY <1>3, <1>4, <1>6, <2>1, <2>3, <2>4, <2>5, HostTimesNext
  <2> QED
    BY <2>2, <2>6
<1>10. us = Ran(sc, d)
       /\ (o.tool = "profile" =>
             ca = CaseIds(1 + o.warmup, IF d <= Captures(o) THEN 0 ELSE d - Captures(o)))
  BY <1>1 DEF FollowsBy
<1>11. FollowsBy(o, t, bl, us, ca, d, Append(x, y))
  <2> HIDE DEF bl
  <2> QED
    BY <1>6, <1>7, <1>8, <1>9, <1>10 DEF FollowsBy
<1>12. Follows(o, t, bl, us, ca)
  BY <1>11 DEF Follows
<1> QED
  BY <1>6, <1>12 DEF t

\* Where an instruction leaves the process that enqueues nothing.
PassedTo(s, instr) ==
  IF instr.do = "clock" THEN ClockRead(s)
  ELSE IF instr.do = "elapsed" THEN ClockAdded(s)
  ELSE Passed(s)

HeldAfter(al, instr) == IF instr.do = "drop" THEN al \ instr.on ELSE al

LEMMA FollowsPassed ==
  ASSUME NEW o \in AnyOption, NEW s \in Sessions(Items), NEW al, NEW us, NEW ca,
         Follows(o, s, al, us, ca), NEW sc, sc = Script(o),
         s.at < Len(sc), NEW h, h = sc[s.at + 1], h.do \notin Kinds,
         h.do = "sync" => s.stream = << >>,
         NEW t, t = PassedTo(s, h)
  PROVE  /\ t \in Sessions(Items) /\ t.at = s.at + 1
         /\ Follows(o, t, HeldAfter(al, h), us, ca)
<1> DEFINE y == s.at + 1
           bl == IF sc[y].do = "drop" THEN al \ sc[y].on ELSE al
<1>0. /\ h = sc[y] /\ bl = HeldAfter(al, h)
      /\ t = IF sc[y].do = "clock" THEN ClockRead(s)
             ELSE IF sc[y].do = "elapsed" THEN ClockAdded(s) ELSE Passed(s)
  BY DEF PassedTo, HeldAfter
<1>1. PICK d, x : FollowsBy(o, s, al, us, ca, d, x)
  BY DEF Follows
<1>2. Tracks(Kinds, s, sc, d, x)
  BY <1>1 DEF FollowsBy
<1>3. sc \in Seq(Items) /\ Len(sc) \in Nat
  BY SuitFacts
<1>4. s.at \in 0 .. Len(sc) - 1 /\ s.at \in Nat /\ y \in 1 .. Len(sc)
  BY <1>2, <1>3 DEF Tracks
<1>6. /\ t \in Sessions(Items) /\ t.at = y /\ t.stream = s.stream
      /\ t.clock = s.clock /\ t.started = s.started /\ t.timing = s.timing
      /\ t.measured = s.measured
  BY <1>0, <1>3, <1>4, HostFields
<1>61. /\ sc[y].do = "clock" => t.wall = s.clock /\ t.waited = s.waited
       /\ sc[y].do = "elapsed" => t.waited = s.waited + (s.clock - s.wall) /\ t.wall = s.wall
       /\ sc[y].do \notin {"clock", "elapsed"} => t.wall = s.wall /\ t.waited = s.waited
  <2>1. /\ Passed(s).wall = s.wall /\ Passed(s).waited = s.waited
        /\ ClockRead(s).wall = s.clock /\ ClockRead(s).waited = s.waited
        /\ ClockAdded(s).waited = s.waited + (s.clock - s.wall)
    BY <1>3, <1>4, HostFields
  <2>2. ClockAdded(s).wall = s.wall
    BY <2>1 DEF ClockAdded, Passed, Sessions
  <2> QED
    BY <2>1, <2>2, <1>0
<1>7. Tracks(Kinds, t, sc, d, x)
  BY <1>0, <1>2, <1>3, <1>4, <1>6, TracksPassed
<1>8. bl = Live(sc, y)
  <2>1. al = Live(sc, s.at)
    BY <1>1 DEF FollowsBy
  <2>2. sc[y].do # "upload"
    BY <1>0 DEF Kinds
  <2>3. CASE sc[y].do = "drop"
    BY <1>3, <1>4, <2>1, <2>3, LiveNext
  <2>4. CASE sc[y].do # "drop"
    BY <1>3, <1>4, <2>1, <2>2, <2>4, LiveNext
  <2> QED
    BY <2>3, <2>4
<1>9. ASSUME o.tool = "bench" PROVE DeviceTimes(Works, t, sc, d) /\ HostTimes(Works, t, sc)
  <2>1. DeviceTimes(Works, s, sc, d) /\ HostTimes(Works, s, sc)
    BY <1>1, <1>9 DEF FollowsBy
  <2>2. DeviceTimes(Works, t, sc, d)
    BY <2>1, <1>6 DEF DeviceTimes
  <2>3. Bracketed(sc, ReadClock, AddClock) /\ Quiet(Works, sc)
    BY SuitFacts DEF Alternates
  <2>4. sc[y] \in {ReadClock, AddClock} => s.clock = Cardinality(Work(Works, sc, s.at))
    <3>1. SUFFICES ASSUME sc[y] \in {ReadClock, AddClock}
                   PROVE  s.clock = Cardinality(Work(Works, sc, s.at))
      OBVIOUS
    <3>2. sc[y].do \in {"clock", "elapsed"}
      BY <3>1, InstrFields
    <3>3. Works \subseteq Kinds
      BY DEF Works, Kinds
    <3> QED
      BY <3>2, <3>3, <1>2, <1>3, <2>1, <2>3, ClockMeetsHost
  <2>5. {"clock", "elapsed"} \cap Works = {}
    BY DEF Works
  <2>6. sc[y] \in Items
    BY <1>3, <1>4
  <2>7. /\ sc[y].do = "clock" <=> sc[y] = ReadClock
        /\ sc[y].do = "elapsed" <=> sc[y] = AddClock
    BY <2>6, InstrFields DEF Items
  <2>8. "clock" # "elapsed"
    OBVIOUS
  <2>9. /\ sc[y] = ReadClock => t.wall = s.clock
        /\ sc[y] # ReadClock => t.wall = s.wall
        /\ sc[y] = AddClock => t.waited = s.waited + (s.clock - s.wall)
        /\ sc[y] # AddClock => t.waited = s.waited
    BY <1>61, <2>7, <2>8
  <2>10. HostTimes(Works, t, sc)
    BY <1>3, <1>4, <1>6, <2>1, <2>3, <2>4, <2>5, <2>9, HostTimesNext
  <2> QED
    BY <2>2, <2>10
<1>10. us = Ran(sc, d)
       /\ (o.tool = "profile" =>
             ca = CaseIds(1 + o.warmup, IF d <= Captures(o) THEN 0 ELSE d - Captures(o)))
  BY <1>1 DEF FollowsBy
<1>11. FollowsBy(o, t, bl, us, ca, d, x)
  <2> HIDE DEF bl
  <2> QED
    BY <1>6, <1>7, <1>8, <1>9, <1>10 DEF FollowsBy
<1>12. Follows(o, t, bl, us, ca)
  BY <1>11 DEF Follows
<1> QED
  BY <1>0, <1>6, <1>12


\* What the device does next, and where that is in the profiler's script.
LEMMA DeviceNext ==
  ASSUME NEW o \in AnyOption, NEW s \in Sessions(Items), NEW al, NEW us, NEW ca,
         NEW d, NEW x, FollowsBy(o, s, al, us, ca, d, x), NEW sc, sc = Script(o),
         s.stream # << >>
  PROVE  /\ x[1] \in d + 1 .. s.at /\ x[1] \in 1 .. Len(sc) /\ d \in Nat
         /\ Head(s.stream) = sc[x[1]] /\ sc[x[1]].do \in Kinds
         /\ \A j \in d + 1 .. x[1] - 1 : sc[j].do \notin Kinds
         /\ \A t : t.at = s.at /\ t.stream = Tail(s.stream) =>
                     Tracks(Kinds, t, sc, x[1], Tail(x))
         /\ \A j \in 1 .. s.at : sc[j].do = "sync" => j < x[1]
<1>1. Tracks(Kinds, s, sc, d, x)
  BY DEF FollowsBy
<1>2. sc \in Seq(Items)
  BY SuitFacts
<1>3. s.stream \in Seq(Items)
  BY DEF Sessions
<1>4. \A t : t.at = s.at /\ t.stream = Tail(s.stream) => Tracks(Kinds, t, sc, x[1], Tail(x))
  <2> SUFFICES ASSUME NEW t, t.at = s.at, t.stream = Tail(s.stream)
               PROVE  Tracks(Kinds, t, sc, x[1], Tail(x))
    OBVIOUS
  <2> QED
    BY <1>1, <1>2, <1>3, TracksDone
<1>5. \E t : t.at = s.at /\ t.stream = Tail(s.stream)
  <2> DEFINE t == [at |-> s.at, stream |-> Tail(s.stream)]
  <2>1. t.at = s.at /\ t.stream = Tail(s.stream)
    OBVIOUS
  <2> QED
    BY <2>1
<1>6. /\ x[1] \in d + 1 .. s.at /\ x[1] \in 1 .. Len(sc)
      /\ Head(s.stream) = sc[x[1]] /\ sc[x[1]].do \in Kinds
      /\ \A j \in d + 1 .. x[1] - 1 : sc[j].do \notin Kinds
  <2>1. PICK t : t.at = s.at /\ t.stream = Tail(s.stream)
    BY <1>5
  <2> QED
    BY <1>1, <1>2, <1>3, <2>1, TracksDone
<1>7. 1 \in 1 .. Len(x)
  <2>1. Len(s.stream) \in Nat \ {0}
    BY <1>3, LenProperties, EmptySeq
  <2> QED
    BY <2>1, <1>1 DEF Tracks
<1>8. \A j \in 1 .. s.at : sc[j].do = "sync" => j < x[1]
  BY <1>1, <1>7 DEF Tracks
<1>9. d \in Nat
  BY <1>1 DEF Tracks
<1> QED
  BY <1>4, <1>6, <1>8, <1>9

(* The profiler's script between the capture and the analysis: the launches  *)
(* that are captured, in the order of their cases.                          *)
CapturesItem(sc, w, S, d, y, prof) ==
  CaseIds(1 + w, IF y <= S THEN 0 ELSE y - S) =
    IF sc[y].do = "launch" /\ prof
    THEN Append(CaseIds(1 + w, IF d <= S THEN 0 ELSE d - S), sc[y].on)
    ELSE CaseIds(1 + w, IF d <= S THEN 0 ELSE d - S)

\* The device has done the script up to d and comes to y; the host is at at.
ComesTo(sc, w, c, S, at, d, y) ==
  /\ Layout(sc, w, c, S)
  /\ d < y /\ y <= at /\ at <= Len(sc)
  /\ \A j \in d + 1 .. y - 1 : sc[j].do \notin Kinds
  /\ sc[y].do \in Kinds
  /\ \A j \in 1 .. at : sc[j].do = "sync" => j < y

LEMMA CaptureNext ==
  ASSUME NEW sc, NEW w \in Nat, NEW c \in Nat \ {0}, NEW S,
         NEW at \in Nat, NEW d \in Nat, NEW y \in Nat, ComesTo(sc, w, c, S, at, d, y),
         NEW prof \in BOOLEAN, prof => at >= S, S <= at /\ at < S + c + 2 => prof
  PROVE  CapturesItem(sc, w, S, d, y, prof)
<1>0. /\ Layout(sc, w, c, S) /\ d < y /\ y <= at /\ at <= Len(sc)
      /\ \A j \in d + 1 .. y - 1 : sc[j].do \notin Kinds
      /\ sc[y].do \in Kinds
      /\ \A j \in 1 .. at : sc[j].do = "sync" => j < y
  BY DEF ComesTo
<1> USE <1>0
<1>1. /\ S \in Nat /\ S > 1 /\ Len(sc) = S + c + 5
      /\ sc[S - 1].do = "sync" /\ sc[S].do = "capture"
      /\ \A i \in 1 .. c : sc[S + i].do = "launch" /\ sc[S + i].on = w + i
      /\ sc[S + c + 1].do = "sync"
      /\ sc[S + c + 2].do = "analyse" /\ sc[S + c + 3].do = "discover"
      /\ sc[S + c + 4].do = "copy" /\ sc[S + c + 5].do = "manifest"
  BY DEF Layout
<1>2. y # S /\ y # S + c + 1 /\ y # S + c + 2 /\ y # S + c + 3 /\ y # S + c + 4
      /\ y # S + c + 5
  BY <1>1 DEF Kinds
<1>3. ASSUME y > S PROVE y \in S + 1 .. S + c
  BY <1>1, <1>2, <1>3
<1>4. ASSUME y <= S
      PROVE  ~ prof
  <2>1. y < S /\ d < S
    BY <1>1, <1>2, <1>4
  <2>2. ~ (S - 1 <= at)
    <3>0. S \in Nat /\ S > 1
      BY <1>1
    <3>1. S - 1 \in Nat /\ 1 <= S - 1
      BY ONLY <3>0
    <3>2. S - 1 <= at => S - 1 < y
      BY <1>1, <3>1
    <3> QED
      BY <3>1, <3>2, <2>1, <1>1
  <2> QED
    BY <2>2, <1>1
<1>5. ASSUME y > S
      PROVE  prof
  <2>1. S <= at
    BY <1>1, <1>5
  <2>2. S + c + 1 <= at => S + c + 1 < y
    BY <1>1
  <2>3. ~ (S + c + 1 <= at)
    BY <2>2, <1>3, <1>5, <1>1
  <2> QED
    BY <2>1, <2>3, <1>1
<1>6. CASE y <= S
  BY <1>4, <1>6, <1>1 DEF CapturesItem
<1>7. CASE ~ y <= S
  <2>1. y \in S + 1 .. S + c /\ prof
    BY <1>3, <1>5, <1>7, <1>1
  <2>2. sc[y].do = "launch" /\ sc[y].on = w + (y - S)
    <3>0. S \in Nat /\ y \in S + 1 .. S + c
      BY <2>1, <1>1
    <3>1. y - S \in 1 .. c /\ S + (y - S) = y
      BY <3>0
    <3>2. \A i \in 1 .. c : sc[S + i].do = "launch" /\ sc[S + i].on = w + i
      BY <1>1
    <3> QED
      BY ONLY <3>1, <3>2
  <2> DEFINE m == IF d <= S THEN 0 ELSE d - S
  <2>3. m \in Nat /\ y - S = m + 1
    <3>1. CASE d <= S
      <4>1. y = S + 1
        <5>1. CASE y > S + 1
          <6>1. S + 1 \in d + 1 .. y - 1
            BY <5>1, <3>1, <1>1
          <6>2. sc[S + 1].do = "launch"
            BY <1>1
          <6> QED
            BY <6>1, <6>2 DEF Kinds
        <5> QED
          BY <5>1, <2>1, <1>1
      <4> QED
        BY <4>1, <3>1, <1>1
    <3>2. CASE ~ d <= S
      <4>1. y = d + 1
        <5>1. CASE y > d + 1
          <6>1. d + 1 \in d + 1 .. y - 1 /\ d + 1 - S \in 1 .. c /\ S + (d + 1 - S) = d + 1
            BY <5>1, <3>2, <2>1, <1>1
          <6>2. sc[d + 1].do = "launch"
            BY <6>1, <1>1
          <6> QED
            BY <6>1, <6>2 DEF Kinds
        <5> QED
          BY <5>1
      <4> QED
        BY <4>1, <3>2, <1>1
    <3> QED
      BY <3>1, <3>2
  <2> HIDE DEF m
  <2>4. CaseIds(1 + w, m + 1) = Append(CaseIds(1 + w, m), w + (m + 1))
    <3>1. 1 + w \in Nat /\ m \in Nat /\ w + (m + 1) = (1 + w) + m
      BY <2>3
    <3> HIDE DEF m
    <3> QED
      BY ONLY <3>1, CaseIdsAppend
  <2>5. (IF y <= S THEN 0 ELSE y - S) = m + 1 /\ sc[y].on = w + (m + 1)
    BY <2>2, <2>3, <1>7
  <2>6. (IF d <= S THEN 0 ELSE d - S) = m
    BY DEF m
  <2> QED
    BY <2>1, <2>2, <2>4, <2>5, <2>6 DEF CapturesItem
<1> QED
  BY <1>6, <1>7


\* What the device does with item h.
RanAfter(us, h) == IF h.do = "launch" THEN us \cup {h.on} ELSE us

CapturedAfter(ca, h, prof) == IF h.do = "launch" /\ prof THEN Append(ca, h.on) ELSE ca

LEMMA FollowsDone ==
  ASSUME NEW o \in AnyOption, NEW s \in Sessions(Items), NEW al, NEW us, NEW ca,
         Follows(o, s, al, us, ca), s.stream # << >>,
         NEW h, h = Head(s.stream), NEW t,
         \/ h.do \in {"upload", "launch"} /\ t = WorkDone(s)
         \/ h.do \in {"start", "stop"} /\ t = EventStamped(s),
         NEW prof \in BOOLEAN,
         o.tool = "profile" =>
           /\ prof => s.at >= Captures(o)
           /\ s.at >= Captures(o) /\ s.at < Len(Script(o)) - 3 => prof
  PROVE  /\ t \in Sessions(Items) /\ t.at = s.at
         /\ Follows(o, t, al, RanAfter(us, h), CapturedAfter(ca, h, prof))
<1> DEFINE sc == Script(o)
<1>1. PICK d, x : FollowsBy(o, s, al, us, ca, d, x)
  BY DEF Follows
<1> DEFINE y == x[1]
           ur == RanAfter(us, h)
           cr == CapturedAfter(ca, h, prof)
<1>2. /\ y \in d + 1 .. s.at /\ y \in 1 .. Len(sc) /\ d \in Nat
      /\ h = sc[y] /\ sc[y].do \in Kinds
      /\ \A j \in d + 1 .. y - 1 : sc[j].do \notin Kinds
      /\ \A r : r.at = s.at /\ r.stream = Tail(s.stream) => Tracks(Kinds, r, sc, y, Tail(x))
      /\ \A j \in 1 .. s.at : sc[j].do = "sync" => j < y
  BY <1>1, DeviceNext
<1>3. sc \in Seq(Items) /\ Len(sc) \in Nat
  BY SuitFacts
<1>4. s.at \in 0 .. Len(sc) /\ s.at \in Nat
  <2>1. Tracks(Kinds, s, sc, d, x)
    BY <1>1 DEF FollowsBy
  <2> QED
    BY <2>1, <1>3 DEF Tracks
<1>5. /\ t \in Sessions(Items) /\ t.at = s.at /\ t.stream = Tail(s.stream)
      /\ t.wall = s.wall /\ t.waited = s.waited
  <2>1. /\ WorkDone(s) \in Sessions(Items) /\ EventStamped(s) \in Sessions(Items)
        /\ WorkDone(s) = [s EXCEPT !.stream = Tail(s.stream), !.clock = s.clock + 1]
        /\ Head(s.stream) = StartEvent =>
             EventStamped(s) = [s EXCEPT !.stream = Tail(s.stream),
                                         !.started = s.clock, !.timing = TRUE]
        /\ Head(s.stream) # StartEvent =>
             EventStamped(s) = [s EXCEPT !.stream = Tail(s.stream),
                                         !.measured = s.measured + (s.clock - s.started),
                                         !.timing = FALSE]
    BY DeviceFields
  <2>2. t = WorkDone(s) \/ t = EventStamped(s)
    OBVIOUS
  <2>3. t \in Sessions(Items)
    BY <2>1, <2>2
  <2>4. /\ WorkDone(s).at = s.at /\ WorkDone(s).stream = Tail(s.stream)
        /\ WorkDone(s).wall = s.wall /\ WorkDone(s).waited = s.waited
    BY <2>1 DEF Sessions
  <2>5. /\ EventStamped(s).at = s.at /\ EventStamped(s).stream = Tail(s.stream)
        /\ EventStamped(s).wall = s.wall /\ EventStamped(s).waited = s.waited
    <3>1. CASE Head(s.stream) = StartEvent
      BY <2>1, <3>1 DEF Sessions
    <3>2. CASE Head(s.stream) # StartEvent
      BY <2>1, <3>2 DEF Sessions
    <3> QED
      BY <3>1, <3>2
  <2> QED
    BY <2>2, <2>3, <2>4, <2>5
<1> HIDE DEF sc, y
<1>6. Tracks(Kinds, t, sc, y, Tail(x))
  BY <1>2, <1>5
<1>7. d < y /\ y \in Nat /\ y <= s.at
  BY <1>2, <1>3, <1>4
<1>8. ur = Ran(sc, y)
  <2>1. us = Ran(sc, d)
    BY <1>1 DEF FollowsBy, sc
  <2> QED
    BY <2>1, <1>2, <1>7, RanNext DEF RanAfter
<1>9. al = Live(sc, t.at)
  BY <1>1, <1>5 DEF FollowsBy, sc
<1>10. ASSUME o.tool = "bench" PROVE DeviceTimes(Works, t, sc, y) /\ HostTimes(Works, t, sc)
  <2>1. DeviceTimes(Works, s, sc, d) /\ HostTimes(Works, s, sc)
    BY <1>1, <1>10 DEF FollowsBy, sc
  <2>2. HostTimes(Works, t, sc)
    BY <2>1, <1>5 DEF HostTimes
  <2>3. Bracketed(sc, StartEvent, StopEvent)
    BY SuitFacts DEF Alternates, sc
  <2>4. Works \subseteq Kinds /\ {"start", "stop"} \subseteq Kinds \ Works
    BY DEF Works, Kinds
  <2>5. /\ sc[y].do \in Works => DeviceTimes(Works, WorkDone(s), sc, y)
        /\ sc[y] \in {StartEvent, StopEvent} => DeviceTimes(Works, EventStamped(s), sc, y)
    BY <1>2, <1>3, <1>7, <2>1, <2>3, <2>4, DeviceTimesDone
  <2>6. sc[y] \in Items
    BY <1>2, <1>3
  <2>7. sc[y].do \in {"start", "stop"} => sc[y] \in {StartEvent, StopEvent}
    BY <2>6, InstrFields DEF Items
  <2>8. CASE h.do \in {"upload", "launch"} /\ t = WorkDone(s)
    <3>1. sc[y].do \in Works
      BY <2>8, <1>2 DEF Works
    <3> QED
      BY <3>1, <2>8, <2>5, <2>2
  <2>9. CASE h.do \in {"start", "stop"} /\ t = EventStamped(s)
    BY <2>9, <1>2, <2>5, <2>7, <2>2
  <2> QED
    BY <2>8, <2>9
<1>11. ASSUME o.tool = "profile"
       PROVE  cr = CaseIds(1 + o.warmup, IF y <= Captures(o) THEN 0 ELSE y - Captures(o))
  <2> DEFINE w == o.warmup
             c == o.count
             S == Captures(o)
  <2>1. c \in Nat \ {0} /\ w \in Nat /\ Layout(sc, w, c, S)
    BY <1>11, ScriptSuits DEF Suits, sc, Captures
  <2>2. ca = CaseIds(1 + w, IF d <= S THEN 0 ELSE d - S)
    BY <1>1, <1>11 DEF FollowsBy
  <2>3. S \in Nat /\ Len(sc) = S + c + 5
    BY <2>1 DEF Layout
  <2>4. /\ prof => s.at >= S
        /\ S <= s.at /\ s.at < S + c + 2 => prof
    <3>1. S <= s.at /\ s.at < S + c + 2 => s.at >= S /\ s.at < Len(sc) - 3
      BY <1>4, <2>1, <2>3
    <3> QED
      BY <1>11, <3>1 DEF sc
  <2>5. s.at <= Len(sc)
    BY <1>4
  <2> HIDE DEF w, c, S
  <2>6. CaseIds(1 + w, IF y <= S THEN 0 ELSE y - S) =
           IF sc[y].do = "launch" /\ prof
           THEN Append(CaseIds(1 + w, IF d <= S THEN 0 ELSE d - S), sc[y].on)
           ELSE CaseIds(1 + w, IF d <= S THEN 0 ELSE d - S)
    <3>1. /\ \A j \in d + 1 .. y - 1 : sc[j].do \notin Kinds
          /\ sc[y].do \in Kinds /\ \A j \in 1 .. s.at : sc[j].do = "sync" => j < y
      BY <1>2
    <3>2. /\ s.at \in Nat /\ d \in Nat /\ y \in Nat /\ d < y /\ y <= s.at
          /\ s.at <= Len(sc)
      BY <1>2, <1>4, <1>7, <2>5
    <3>3. /\ w \in Nat /\ c \in Nat \ {0} /\ Layout(sc, w, c, S)
      BY <2>1
    <3> DEFINE at == s.at
    <3> HIDE DEF at
    <3>4. /\ at \in Nat /\ y <= at /\ at <= Len(sc)
          /\ \A j \in 1 .. at : sc[j].do = "sync" => j < y
          /\ prof => at >= S
          /\ S <= at /\ at < S + c + 2 => prof
      BY <3>1, <3>2, <2>4 DEF at
    <3>5. CapturesItem(sc, w, S, d, y, prof)
      <4>1. d \in Nat /\ y \in Nat /\ d < y
        BY <3>2
      <4>2. ASSUME NEW b \in BOOLEAN, b => at >= S, S <= at /\ at < S + c + 2 => b
            PROVE  CapturesItem(sc, w, S, d, y, b)
        <5>1. ComesTo(sc, w, c, S, at, d, y)
          BY <3>1, <3>3, <3>4, <4>1 DEF ComesTo
        <5>2. w \in Nat /\ c \in Nat \ {0} /\ at \in Nat /\ d \in Nat /\ y \in Nat
          BY <3>3, <3>4, <4>1
        <5> QED
          BY ONLY <5>1, <5>2, <4>2, CaptureNext
      <4>3. prof \in BOOLEAN
        OBVIOUS
      <4> QED
        BY <3>4, <4>2, <4>3, Zenon
    <3> QED
      BY <3>5 DEF CapturesItem
  <2>7. cr = CaseIds(1 + w, IF y <= S THEN 0 ELSE y - S)
    BY <2>2, <2>6, <1>2 DEF CapturedAfter
  <2> QED
    BY <2>7 DEF w, S
<1>12. FollowsBy(o, t, al, ur, cr, y, Tail(x))
  <2> HIDE DEF ur, cr
  <2> QED
    BY <1>6, <1>8, <1>9, <1>10, <1>11 DEF FollowsBy, sc
<1>13. Follows(o, t, al, ur, cr)
  BY <1>12 DEF Follows
<1> QED
  BY <1>5, <1>13


-----------------------------------------------------------------------------
(* The invariant.                                                           *)

TypeInv ==
  /\ opt \in [Procs -> AnyOption]
  /\ session \in [Procs -> Sessions(Items)]
  /\ status \in [Procs -> {"running", "passed", "failed"}]
  /\ alive \in [Procs -> SUBSET Nat]
  /\ used \in [Procs -> SUBSET Nat]
  /\ captured \in [Procs -> Seq(Nat)]
  /\ found \in [Procs -> Procs \cup {None}]

ProcessInv ==
  \A p \in Procs : Follows(opt[p], session[p], alive[p], used[p], captured[p])

\* The process has an instruction of this kind behind it.
Behind(p, kind) == \E j \in 1 .. session[p].at : ScriptOf(p)[j].do = kind

(* What stands in the output directory tells how far its runs are. Only one *)
(* of them gets past the discovery of its raw profile.                      *)
DirectoryInv ==
  /\ IsFiniteSet(profiles)
  /\ profiles = {p \in Procs : Behind(p, "capture")}
  /\ \A p \in analysed : p \in Procs /\ Behind(p, "analyse")
  /\ \A p \in Procs : Behind(p, "discover") => found[p] = p
  /\ \A p, q \in Procs : Behind(p, "discover") /\ Behind(q, "discover") => p = q
  /\ parsed = {p \in Procs : Behind(p, "copy")}
  /\ manifest # None => \E p \in Procs : Behind(p, "manifest")
  /\ \A p \in Procs : Behind(p, "manifest") =>
       manifest = [by |-> p, raw |-> p, first |-> 1 + opt[p].warmup,
                   iterations |-> opt[p].count]
  /\ \A p \in Procs : opt[p].tool = "profile" /\ status[p] = "passed" => Behind(p, "manifest")

Inv == TypeInv /\ ProcessInv /\ DirectoryInv

\* Where the profiler works on its directory.
LEMMA Phases ==
  ASSUME NEW o \in AnyOption, NEW sc, sc = Script(o), NEW j \in 1 .. Len(sc)
  PROVE  /\ sc[j].do \in {"capture", "analyse", "discover", "copy", "manifest"} =>
              o.tool = "profile"
         /\ o.tool = "profile" =>
              /\ Captures(o) \in Nat \ {0} /\ Len(sc) = Captures(o) + o.count + 5
              /\ o.count \in Nat \ {0} /\ o.warmup \in Nat
              /\ sc[j].do = "capture" <=> j = Captures(o)
              /\ sc[j].do = "analyse" <=> j = Len(sc) - 3
              /\ sc[j].do = "discover" <=> j = Len(sc) - 2
              /\ sc[j].do = "copy" <=> j = Len(sc) - 1
              /\ sc[j].do = "manifest" <=> j = Len(sc)
              /\ sc[Len(sc)].on = 1 + o.warmup
<1>1. ASSUME o.tool # "profile"
      PROVE  sc[j].do \notin {"capture", "analyse", "discover", "copy", "manifest"}
  <2>1. Plain(sc)
    BY <1>1, ScriptSuits DEF Suits
  <2> QED
    BY <2>1 DEF Plain, DirectoryKinds
<1>2. ASSUME o.tool = "profile"
      PROVE  /\ Captures(o) \in Nat \ {0} /\ Len(sc) = Captures(o) + o.count + 5
             /\ o.count \in Nat \ {0} /\ o.warmup \in Nat
             /\ sc[j].do = "capture" <=> j = Captures(o)
             /\ sc[j].do = "analyse" <=> j = Len(sc) - 3
             /\ sc[j].do = "discover" <=> j = Len(sc) - 2
             /\ sc[j].do = "copy" <=> j = Len(sc) - 1
             /\ sc[j].do = "manifest" <=> j = Len(sc)
             /\ sc[Len(sc)].on = 1 + o.warmup
  <2> DEFINE w == o.warmup
             c == o.count
             S == Captures(o)
             n == Len(sc)
  <2>1. c \in Nat \ {0} /\ w \in Nat /\ Layout(sc, w, c, S)
    BY <1>2, ScriptSuits DEF Suits, Captures
  <2>2. S \in Nat \ {0} /\ n = S + c + 5
    BY <2>1 DEF Layout
  <2> HIDE DEF w, c, S
  <2>3. /\ n - 3 = S + c + 2 /\ n - 2 = S + c + 3 /\ n - 1 = S + c + 4 /\ n = S + c + 5
    BY <2>1, <2>2
  <2>4. /\ sc[S].do = "capture" /\ sc[n - 3].do = "analyse" /\ sc[n - 2].do = "discover"
        /\ sc[n - 1].do = "copy" /\ sc[n].do = "manifest" /\ sc[n].on = 1 + w
    <3> HIDE DEF n
    <3> QED
      BY <2>1, <2>3 DEF Layout
  <2>5. sc[j].do \in DirectoryKinds \ {"look", "mkdir"} => j \in {S, n - 3, n - 2, n - 1, n}
    <3>1. sc[j].do \in DirectoryKinds \ {"look", "mkdir"} =>
            j \in {S, S + c + 2, S + c + 3, S + c + 4, S + c + 5}
      BY <2>1 DEF Layout
    <3> HIDE DEF n
    <3> QED
      BY <3>1, <2>3
  <2>6. {"capture", "analyse", "discover", "copy", "manifest"}
          \subseteq DirectoryKinds \ {"look", "mkdir"}
    BY DEF DirectoryKinds
  <2> HIDE DEF n
  <2>7. /\ sc[j].do = "capture" <=> j = S
        /\ sc[j].do = "analyse" <=> j = n - 3
        /\ sc[j].do = "discover" <=> j = n - 2
        /\ sc[j].do = "copy" <=> j = n - 1
        /\ sc[j].do = "manifest" <=> j = n
    BY <2>4, <2>5, <2>6
  <2> QED
    BY <2>1, <2>2, <2>4, <2>7 DEF w, c, S, n
<1> QED
  BY <1>1, <1>2

LEMMA AtBounds ==
  ASSUME TypeInv, ProcessInv, NEW p \in Procs
  PROVE  /\ opt[p] \in AnyOption /\ session[p] \in Sessions(Items)
         /\ Len(ScriptOf(p)) \in Nat /\ session[p].at \in 0 .. Len(ScriptOf(p))
         /\ session[p].at \in Nat
<1>1. opt[p] \in AnyOption /\ session[p] \in Sessions(Items)
  BY DEF TypeInv
<1>2. Len(ScriptOf(p)) \in Nat
  BY <1>1, SuitFacts DEF ScriptOf
<1>3. PICK d, x : FollowsBy(opt[p], session[p], alive[p], used[p], captured[p], d, x)
  BY DEF ProcessInv, Follows
<1>4. session[p].at \in 0 .. Len(ScriptOf(p))
  BY <1>3 DEF FollowsBy, Tracks, ScriptOf
<1> QED
  BY <1>1, <1>2, <1>4

\* How far a profiler is, by what it has behind it.
LEMMA BehindIs ==
  ASSUME TypeInv, ProcessInv, NEW p \in Procs, NEW o, o = opt[p], NEW n, n = Len(ScriptOf(p))
  PROVE  /\ Behind(p, "capture") <=> o.tool = "profile" /\ session[p].at >= Captures(o)
         /\ Behind(p, "analyse") <=> o.tool = "profile" /\ session[p].at >= n - 3
         /\ Behind(p, "discover") <=> o.tool = "profile" /\ session[p].at >= n - 2
         /\ Behind(p, "copy") <=> o.tool = "profile" /\ session[p].at >= n - 1
         /\ Behind(p, "manifest") <=> o.tool = "profile" /\ session[p].at = n
<1> DEFINE at == session[p].at
           sc == ScriptOf(p)
<1>1. o \in AnyOption /\ n \in Nat /\ at \in 0 .. n /\ at \in Nat
  BY AtBounds
<1>2. sc = Script(o) /\ n = Len(sc)
  BY DEF ScriptOf
<1> HIDE DEF at, sc
<1>3. ASSUME NEW kind \in {"capture", "analyse", "discover", "copy", "manifest"}, NEW m,
             o.tool = "profile" =>
               m \in 1 .. n /\ \A j \in 1 .. n : sc[j].do = kind <=> j = m
      PROVE  Behind(p, kind) <=> o.tool = "profile" /\ at >= m
  <2>1. Behind(p, kind) <=> \E j \in 1 .. at : sc[j].do = kind
    BY DEF Behind, at, sc
  <2>2. \A j \in 1 .. at : j \in 1 .. n
    BY <1>1
  <2>3. CASE o.tool = "profile"
    <3>1. Behind(p, kind) <=> \E j \in 1 .. at : j = m
      BY <2>1, <2>2, <2>3, <1>3
    <3>2. (\E j \in 1 .. at : j = m) <=> at >= m
      BY <1>1, <1>3, <2>3
    <3> QED
      BY <3>1, <3>2, <2>3
  <2>4. CASE o.tool # "profile"
    BY <2>1, <2>2, <2>4, <1>1, <1>2, Phases
  <2> QED
    BY <2>3, <2>4
<1>4. ASSUME o.tool = "profile"
      PROVE  /\ Captures(o) \in 1 .. n
             /\ n - 3 \in 1 .. n /\ n - 2 \in 1 .. n /\ n - 1 \in 1 .. n /\ n \in 1 .. n
             /\ \A j \in 1 .. n : sc[j].do = "capture" <=> j = Captures(o)
             /\ \A j \in 1 .. n : sc[j].do = "analyse" <=> j = n - 3
             /\ \A j \in 1 .. n : sc[j].do = "discover" <=> j = n - 2
             /\ \A j \in 1 .. n : sc[j].do = "copy" <=> j = n - 1
             /\ \A j \in 1 .. n : sc[j].do = "manifest" <=> j = n
  <2>1. Captures(o) \in Nat \ {0} /\ n = Captures(o) + o.count + 5 /\ o.count \in Nat \ {0}
    <3>1. Layout(sc, o.warmup, o.count, Captures(o)) /\ o.count \in Nat \ {0}
      BY <1>1, <1>2, <1>4, ScriptSuits DEF Suits, Captures
    <3> QED
      BY <3>1, <1>2 DEF Layout
  <2>2. \A j \in 1 .. n :
          /\ sc[j].do = "capture" <=> j = Captures(o)
          /\ sc[j].do = "analyse" <=> j = n - 3
          /\ sc[j].do = "discover" <=> j = n - 2
          /\ sc[j].do = "copy" <=> j = n - 1
          /\ sc[j].do = "manifest" <=> j = n
    BY <1>1, <1>2, <1>4, Phases
  <2> QED
    BY <2>1, <2>2
<1>5. Behind(p, "capture") <=> o.tool = "profile" /\ at >= Captures(o)
  BY <1>3, <1>4, Zenon
<1>6. Behind(p, "analyse") <=> o.tool = "profile" /\ at >= n - 3
  BY <1>3, <1>4, Zenon
<1>7. Behind(p, "discover") <=> o.tool = "profile" /\ at >= n - 2
  BY <1>3, <1>4, Zenon
<1>8. Behind(p, "copy") <=> o.tool = "profile" /\ at >= n - 1
  BY <1>3, <1>4, Zenon
<1>9. Behind(p, "manifest") <=> o.tool = "profile" /\ at >= n
  <2>1. o.tool = "profile" =>
          n \in 1 .. n /\ \A j \in 1 .. n : sc[j].do = "manifest" <=> j = n
    BY <1>4
  <2> QED
    BY ONLY <2>1, <1>3
<1>10. at >= n <=> at = n
  BY <1>1
<1> QED
  BY <1>5, <1>6, <1>7, <1>8, <1>9, <1>10 DEF at


-----------------------------------------------------------------------------
(* The steps. A process carries out k instructions, one or none.            *)

Advances(p, k) ==
  /\ opt' = opt
  /\ session' \in [Procs -> Sessions(Items)]
  /\ status' \in [Procs -> {"running", "passed", "failed"}]
  /\ alive' \in [Procs -> SUBSET Nat]
  /\ used' \in [Procs -> SUBSET Nat]
  /\ captured' \in [Procs -> Seq(Nat)]
  /\ ProcessInv'
  /\ \A q \in Procs : session'[q].at = session[q].at + (IF q = p THEN k ELSE 0)
  /\ \A q \in Procs : status'[q] = "passed" =>
       status[q] = "passed" \/ session'[q].at = Len(ScriptOf(q))

LEMMA ProceedAdvances ==
  ASSUME TypeInv, ProcessInv, NEW p \in Procs, NEW t \in Sessions(Items),
         t.at = session[p].at + 1, Proceed(p, t),
         NEW a \in SUBSET Nat, alive' = [alive EXCEPT ![p] = a],
         Follows(opt[p], t, a, used[p], captured[p]), used' = used, captured' = captured
  PROVE  Advances(p, 1)
<1>1. /\ opt' = opt /\ session' = [session EXCEPT ![p] = t]
      /\ status' = [status EXCEPT ![p] = IF t.at = Len(ScriptOf(p)) THEN "passed" ELSE @]
  BY DEF Proceed
<1>2. /\ opt \in [Procs -> AnyOption] /\ session \in [Procs -> Sessions(Items)]
      /\ status \in [Procs -> {"running", "passed", "failed"}]
      /\ alive \in [Procs -> SUBSET Nat] /\ used \in [Procs -> SUBSET Nat]
      /\ captured \in [Procs -> Seq(Nat)]
  BY DEF TypeInv
<1>3. /\ session' \in [Procs -> Sessions(Items)] /\ alive' \in [Procs -> SUBSET Nat]
  BY <1>1, <1>2
<1>4. status' \in [Procs -> {"running", "passed", "failed"}]
  BY <1>1, <1>2
<1>5. used' \in [Procs -> SUBSET Nat] /\ captured' \in [Procs -> Seq(Nat)]
  BY <1>2
<1>6. /\ session'[p] = t /\ alive'[p] = a
      /\ \A q \in Procs : q # p => session'[q] = session[q] /\ alive'[q] = alive[q]
                                     /\ status'[q] = status[q]
  BY <1>1, <1>2
<1>7. ProcessInv'
  <2> SUFFICES ASSUME NEW q \in Procs
               PROVE  Follows(opt[q], session'[q], alive'[q], used[q], captured[q])
    BY <1>1 DEF ProcessInv
  <2>1. CASE q = p
    BY <2>1, <1>6
  <2>2. CASE q # p
    BY <2>2, <1>6 DEF ProcessInv
  <2> QED
    BY <2>1, <2>2
<1>8. \A q \in Procs : session'[q].at = session[q].at + (IF q = p THEN 1 ELSE 0)
  <2>1. \A q \in Procs : session[q].at \in Nat
    BY AtBounds
  <2> QED
    BY <2>1, <1>6
<1>9. \A q \in Procs : status'[q] = "passed" =>
        status[q] = "passed" \/ session'[q].at = Len(ScriptOf(q))
  <2> SUFFICES ASSUME NEW q \in Procs, status'[q] = "passed", status[q] # "passed"
               PROVE  session'[q].at = Len(ScriptOf(q))
    OBVIOUS
  <2>1. q = p
    BY <1>6
  <2>2. status'[p] = IF t.at = Len(ScriptOf(p)) THEN "passed" ELSE status[p]
    BY <1>1, <1>2
  <2> QED
    BY <2>1, <2>2, <1>6
<1> QED
  BY <1>1, <1>3, <1>4, <1>5, <1>7, <1>8, <1>9 DEF Advances

\* An instruction that enqueues nothing.
LEMMA PassedAdvances ==
  ASSUME TypeInv, ProcessInv, NEW p \in Procs,
         session[p].at < Len(ScriptOf(p)),
         NEW h, h = ScriptOf(p)[session[p].at + 1], h.do \notin Kinds,
         h.do = "sync" => Drained(session[p]),
         NEW t, t = PassedTo(session[p], h), Proceed(p, t),
         alive' = [alive EXCEPT ![p] = HeldAfter(alive[p], h)],
         used' = used, captured' = captured
  PROVE  Advances(p, 1)
<1> DEFINE o == opt[p]
           s == session[p]
           sc == ScriptOf(p)
           a == HeldAfter(alive[p], h)
<1>1. o \in AnyOption /\ s \in Sessions(Items) /\ sc = Script(o)
  BY AtBounds DEF ScriptOf
<1>2. Follows(o, s, alive[p], used[p], captured[p])
  BY DEF ProcessInv
<1>3. h.do = "sync" => s.stream = << >>
  BY DEF Drained
<1> HIDE DEF o, s, sc
<1>4. s.at < Len(sc) /\ h = sc[s.at + 1] /\ t = PassedTo(s, h)
  BY DEF s, sc
<1>5. t \in Sessions(Items) /\ t.at = s.at + 1 /\ Follows(o, t, a, used[p], captured[p])
  BY <1>1, <1>2, <1>3, <1>4, FollowsPassed
<1>6. a \in SUBSET Nat
  BY DEF TypeInv, HeldAfter
<1> HIDE DEF a
<1>7. alive' = [alive EXCEPT ![p] = a]
  BY DEF a
<1> QED
  BY <1>5, <1>6, <1>7, ProceedAdvances DEF o, s

LEMMA EnqueueAdvances ==
  ASSUME TypeInv, ProcessInv, NEW p \in Procs, Enqueue(p)
  PROVE  Advances(p, 1) /\ At(session[p], ScriptOf(p), Kinds)
<1> DEFINE o == opt[p]
           s == session[p]
           sc == ScriptOf(p)
           t == Enqueued(s, sc)
           a == IF sc[s.at + 1].do = "upload" THEN alive[p] \cup {sc[s.at + 1].on} ELSE alive[p]
<1>1. o \in AnyOption /\ s \in Sessions(Items) /\ sc = Script(o)
  BY AtBounds DEF ScriptOf
<1>2. Follows(o, s, alive[p], used[p], captured[p])
  BY DEF ProcessInv
<1>3. At(s, sc, Kinds)
  BY DEF Enqueue, Doing, At, Kinds
<1>4. Proceed(p, t) /\ used' = used /\ captured' = captured
  BY DEF Enqueue
<1>5. alive' = [alive EXCEPT ![p] = a]
  <2>1. status[p] = "running"
    BY DEF Enqueue, Doing
  <2>2. Doing(p, "upload") <=> sc[s.at + 1].do = "upload"
    BY <2>1, <1>3 DEF Doing, At
  <2>3. alive' = [alive EXCEPT ![p] = IF Doing(p, "upload") THEN @ \cup {On(p)} ELSE @]
    BY DEF Enqueue
  <2> QED
    BY <2>2, <2>3 DEF On, Current
<1> HIDE DEF o, s, sc
<1>6. t \in Sessions(Items) /\ t.at = s.at + 1 /\ Follows(o, t, a, used[p], captured[p])
  BY <1>1, <1>2, <1>3, FollowsEnqueued
<1>7. a \in SUBSET Nat
  <2>1. alive[p] \in SUBSET Nat
    BY DEF TypeInv
  <2>2. sc \in Seq(Items)
    BY <1>1, SuitFacts
  <2>3. s.at + 1 \in 1 .. Len(sc)
    BY <1>3, AtBounds DEF At, s, sc
  <2>4. sc[s.at + 1] \in Items
    BY <2>2, <2>3
  <2>5. sc[s.at + 1].do = "upload" => sc[s.at + 1].on \in Nat
    BY <2>4, InstrFields DEF Items
  <2> QED
    BY <2>1, <2>5
<1> HIDE DEF a, t
<1>8. Advances(p, 1)
  BY <1>4, <1>5, <1>6, <1>7, ProceedAdvances DEF o, s
<1> QED
  BY <1>3, <1>8 DEF s, sc

LEMMA RaiseAdvances ==
  ASSUME TypeInv, ProcessInv, NEW p \in Procs, Raise(p)
  PROVE  Advances(p, 0)
<1>1. /\ opt' = opt /\ session' = session /\ alive' = alive /\ used' = used
      /\ captured' = captured /\ status' = [status EXCEPT ![p] = "failed"]
  BY DEF Raise, memory
<1>2. status' \in [Procs -> {"running", "passed", "failed"}]
  BY <1>1 DEF TypeInv
<1>3. \A q \in Procs : status'[q] = "passed" => status[q] = "passed"
  BY <1>1 DEF TypeInv
<1>4. ProcessInv'
  BY <1>1 DEF ProcessInv
<1>5. \A q \in Procs : session'[q].at = session[q].at + (IF q = p THEN 0 ELSE 0)
  <2>1. \A q \in Procs : session[q].at \in Nat
    BY AtBounds
  <2> QED
    BY <2>1, <1>1
<1> QED
  BY <1>1, <1>2, <1>3, <1>4, <1>5 DEF Advances, TypeInv


\* What the device does next is an item of the script.
LEMMA HeadItem ==
  ASSUME TypeInv, NEW p \in Procs, session[p].stream # << >>,
         NEW h, h = Head(session[p].stream)
  PROVE  h \in Items /\ (h.do = "launch" => h.on \in Nat)
<1>1. session[p].stream \in Seq(Items)
  BY DEF TypeInv, Sessions
<1>2. h \in Items
  BY <1>1, HeadTailProperties
<1> QED
  BY <1>2, InstrFields DEF Items

\* A process is profiled from its capture to its analysis.
LEMMA ProfiledBetween ==
  ASSUME Inv, NEW p \in Procs, opt[p].tool = "profile"
  PROVE  /\ Profiling(p) => session[p].at >= Captures(opt[p])
         /\ session[p].at >= Captures(opt[p]) /\ session[p].at < Len(ScriptOf(p)) - 3 =>
              Profiling(p)
<1>1. /\ Behind(p, "capture") <=> session[p].at >= Captures(opt[p])
      /\ Behind(p, "analyse") <=> session[p].at >= Len(ScriptOf(p)) - 3
  BY BehindIs DEF Inv
<1>2. p \in profiles <=> Behind(p, "capture")
  BY DEF Inv, DirectoryInv
<1>3. p \in analysed => Behind(p, "analyse")
  BY DEF Inv, DirectoryInv
<1>4. session[p].at \in Nat /\ Len(ScriptOf(p)) \in Nat
  BY AtBounds DEF Inv
<1>5. Behind(p, "analyse") => ~ (session[p].at < Len(ScriptOf(p)) - 3)
  BY <1>1, <1>4
<1> QED
  BY <1>1, <1>2, <1>3, <1>5 DEF Profiling

LEMMA DoneAdvances ==
  ASSUME Inv, NEW p \in Procs, session[p].stream # << >>,
         NEW h, h = Head(session[p].stream), NEW t,
         \/ h.do \in {"upload", "launch"} /\ t = WorkDone(session[p])
         \/ h.do \in {"start", "stop"} /\ t = EventStamped(session[p]),
         Finish(p, t), alive' = alive,
         h.do = "launch" => /\ used' = [used EXCEPT ![p] = @ \cup {h.on}]
                            /\ captured' = [captured EXCEPT ![p] =
                                              IF Profiling(p) THEN Append(@, h.on) ELSE @],
         h.do # "launch" => used' = used /\ captured' = captured
  PROVE  Advances(p, 0)
<1> DEFINE o == opt[p]
           s == session[p]
           prof == Profiling(p)
           u == RanAfter(used[p], h)
           c == CapturedAfter(captured[p], h, prof)
<1>1. TypeInv /\ ProcessInv /\ o \in AnyOption /\ s \in Sessions(Items)
  BY AtBounds DEF Inv
<1>2. Follows(o, s, alive[p], used[p], captured[p])
  BY <1>1 DEF ProcessInv
<1>3. o.tool = "profile" =>
        /\ prof => s.at >= Captures(o)
        /\ s.at >= Captures(o) /\ s.at < Len(Script(o)) - 3 => prof
  BY ProfiledBetween DEF ScriptOf
<1>4. prof \in BOOLEAN
  BY DEF Profiling
<1>5. h \in Items /\ (h.do = "launch" => h.on \in Nat)
  BY <1>1, HeadItem
<1> HIDE DEF o, s, prof
<1>6. t \in Sessions(Items) /\ t.at = s.at /\ Follows(o, t, alive[p], u, c)
  <2>1. /\ s.stream # << >> /\ h = Head(s.stream)
        /\ \/ h.do \in {"upload", "launch"} /\ t = WorkDone(s)
           \/ h.do \in {"start", "stop"} /\ t = EventStamped(s)
    BY DEF s
  <2>2. ASSUME NEW b \in BOOLEAN,
               o.tool = "profile" =>
                 /\ b => s.at >= Captures(o)
                 /\ s.at >= Captures(o) /\ s.at < Len(Script(o)) - 3 => b,
               NEW al, NEW us, NEW ca, Follows(o, s, al, us, ca)
        PROVE  /\ t \in Sessions(Items) /\ t.at = s.at
               /\ Follows(o, t, al, RanAfter(us, h), CapturedAfter(ca, h, b))
    BY <1>1, <2>1, <2>2, FollowsDone
  <2> QED
    BY <1>2, <1>3, <1>4, <2>2, Zenon
<1>7. /\ opt \in [Procs -> AnyOption] /\ session \in [Procs -> Sessions(Items)]
      /\ used \in [Procs -> SUBSET Nat] /\ captured \in [Procs -> Seq(Nat)]
  BY <1>1 DEF TypeInv
<1>8. u \in SUBSET Nat /\ c \in Seq(Nat)
  <2>1. used[p] \in SUBSET Nat /\ captured[p] \in Seq(Nat)
    BY <1>7
  <2>2. h.do = "launch" => Append(captured[p], h.on) \in Seq(Nat)
    BY <1>5, <2>1, AppendProperties
  <2> QED
    BY <1>5, <2>1, <2>2 DEF RanAfter, CapturedAfter
<1>9. used' = [used EXCEPT ![p] = u] /\ captured' = [captured EXCEPT ![p] = c]
  <2>1. CASE h.do = "launch"
    BY <2>1 DEF RanAfter, CapturedAfter, prof
  <2>2. CASE h.do # "launch"
    BY <2>2, <1>7 DEF RanAfter, CapturedAfter
  <2> QED
    BY <2>1, <2>2
<1>10. /\ opt' = opt /\ status' = status /\ session' = [session EXCEPT ![p] = t]
  BY DEF Finish
<1> HIDE DEF u, c
<1>11. /\ session' \in [Procs -> Sessions(Items)] /\ used' \in [Procs -> SUBSET Nat]
       /\ captured' \in [Procs -> Seq(Nat)]
  BY <1>6, <1>7, <1>8, <1>9, <1>10
<1>12. /\ session'[p] = t /\ used'[p] = u /\ captured'[p] = c
       /\ \A q \in Procs : q # p => session'[q] = session[q] /\ used'[q] = used[q]
                                      /\ captured'[q] = captured[q]
  BY <1>7, <1>9, <1>10
<1>13. ProcessInv'
  <2> SUFFICES ASSUME NEW q \in Procs
               PROVE  Follows(opt[q], session'[q], alive[q], used'[q], captured'[q])
    BY <1>10 DEF ProcessInv
  <2>1. CASE q = p
    BY <2>1, <1>6, <1>12 DEF o
  <2>2. CASE q # p
    BY <2>2, <1>1, <1>12 DEF ProcessInv
  <2> QED
    BY <2>1, <2>2
<1>14. \A q \in Procs : session'[q].at = session[q].at + (IF q = p THEN 0 ELSE 0)
  <2>1. \A q \in Procs : session[q].at \in Nat
    BY <1>1, AtBounds
  <2>2. t.at = session[p].at
    BY <1>6 DEF s
  <2>3. \A q \in Procs : session'[q].at = session[q].at
    BY <1>12, <2>2
  <2> QED
    BY <2>1, <2>3
<1> QED
  BY <1>1, <1>10, <1>11, <1>13, <1>14 DEF Advances, TypeInv

LEMMA RunKernelAdvances ==
  ASSUME Inv, NEW p \in Procs, RunKernel(p)
  PROVE  Advances(p, 0)
<1> DEFINE h == Head(session[p].stream)
<1>1. session[p].stream # << >> /\ h.do = "launch"
  BY DEF RunKernel, DeviceAt
<1>2. /\ used' = [used EXCEPT ![p] = @ \cup {h.on}]
      /\ captured' = [captured EXCEPT ![p] = IF Profiling(p) THEN Append(@, h.on) ELSE @]
      /\ Finish(p, WorkDone(session[p])) /\ alive' = alive
  BY DEF RunKernel
<1> HIDE DEF h
<1> DEFINE t == WorkDone(session[p])
<1> HIDE DEF t
<1>3. h = Head(session[p].stream) /\ t = WorkDone(session[p]) /\ Finish(p, t)
  BY <1>2 DEF h, t
<1> QED
  BY <1>1, <1>2, <1>3, DoneAdvances

LEMMA CopyOrStampAdvances ==
  ASSUME Inv, NEW p \in Procs, CopyOrStamp(p)
  PROVE  Advances(p, 0)
<1> DEFINE h == Head(session[p].stream)
<1>1. session[p].stream # << >>
  BY DEF CopyOrStamp, DeviceAt
<1>2. alive' = alive /\ used' = used /\ captured' = captured
  BY DEF CopyOrStamp, memory
<1>3. PICK t : /\ \/ h.do \in {"upload", "launch"} /\ t = WorkDone(session[p])
                  \/ h.do \in {"start", "stop"} /\ t = EventStamped(session[p])
               /\ Finish(p, t) /\ h.do # "launch"
  <2>1. CASE DeviceAt(session[p], {"upload"}) /\ Finish(p, WorkDone(session[p]))
    BY <2>1 DEF DeviceAt
  <2>2. CASE DeviceAt(session[p], {"start", "stop"}) /\ Finish(p, EventStamped(session[p]))
    BY <2>2 DEF DeviceAt
  <2> QED
    BY <2>1, <2>2 DEF CopyOrStamp
<1> HIDE DEF h
<1>4. h = Head(session[p].stream)
  BY DEF h
<1> QED
  BY <1>1, <1>2, <1>3, <1>4, DoneAdvances


-----------------------------------------------------------------------------
(* The output directory.                                                    *)

LEMMA BehindNext ==
  ASSUME TypeInv, ProcessInv, NEW p \in Procs, NEW k \in {0, 1}, Advances(p, k),
         NEW kind, kind = IF k = 1 THEN ScriptOf(p)[session[p].at + 1].do ELSE "none",
         NEW q \in Procs, NEW what, what # "none"
  PROVE  Behind(q, what)' <=> Behind(q, what) \/ (q = p /\ kind = what)
<1>1. opt' = opt /\ session'[q].at = session[q].at + (IF q = p THEN k ELSE 0)
  BY DEF Advances
<1>2. session[q].at \in Nat
  BY AtBounds
<1>3. Behind(q, what)' <=> \E j \in 1 .. session'[q].at : ScriptOf(q)[j].do = what
  BY <1>1 DEF Behind, ScriptOf
<1>4. Behind(q, what) <=> \E j \in 1 .. session[q].at : ScriptOf(q)[j].do = what
  BY DEF Behind
<1>5. CASE q = p /\ k = 1
  <2>1. session'[q].at = session[q].at + 1 /\ kind = ScriptOf(q)[session[q].at + 1].do
    BY <1>1, <1>5
  <2> DEFINE n == session[q].at
             sc == ScriptOf(q)
  <2> HIDE DEF n, sc
  <2>2. \A j : j \in 1 .. n + 1 <=> j \in 1 .. n \/ j = n + 1
    BY <1>2 DEF n
  <2>3. Behind(q, what)' <=> \E j \in 1 .. n + 1 : sc[j].do = what
    BY <1>3, <2>1 DEF n, sc
  <2>4. Behind(q, what) <=> \E j \in 1 .. n : sc[j].do = what
    BY <1>4 DEF n, sc
  <2>5. kind = sc[n + 1].do
    BY <2>1 DEF n, sc
  <2> QED
    BY <2>2, <2>3, <2>4, <2>5, <1>5
<1>6. CASE ~ (q = p /\ k = 1)
  <2>1. session'[q].at = session[q].at
    BY <1>1, <1>2, <1>6
  <2>2. ~ (q = p /\ kind = what)
    BY <1>6
  <2> QED
    BY <1>3, <1>4, <2>1, <2>2
<1> QED
  BY <1>5, <1>6

\* What comes before what.
LEMMA Order ==
  ASSUME TypeInv, ProcessInv, NEW p \in Procs
  PROVE  /\ Behind(p, "discover") => Behind(p, "capture")
         /\ Behind(p, "manifest") => Behind(p, "discover")
         /\ session[p].at < Len(ScriptOf(p)) =>
              LET h == ScriptOf(p)[session[p].at + 1]
              IN  /\ h.do = "discover" => Behind(p, "capture") /\ ~ Behind(p, "discover")
                  /\ h.do = "copy" => Behind(p, "discover")
                  /\ h.do = "manifest" => Behind(p, "discover") /\ h.on = 1 + opt[p].warmup
<1> DEFINE o == opt[p]
           at == session[p].at
           sc == ScriptOf(p)
           n == Len(sc)
           h == sc[at + 1]
<1>1. o \in AnyOption /\ n \in Nat /\ at \in Nat /\ sc = Script(o)
  BY AtBounds DEF ScriptOf
<1>2. /\ Behind(p, "capture") <=> o.tool = "profile" /\ at >= Captures(o)
      /\ Behind(p, "discover") <=> o.tool = "profile" /\ at >= n - 2
      /\ Behind(p, "copy") <=> o.tool = "profile" /\ at >= n - 1
      /\ Behind(p, "manifest") <=> o.tool = "profile" /\ at = n
  BY BehindIs
<1> HIDE DEF o, at, sc
<1>3. ASSUME o.tool = "profile"
      PROVE  /\ Captures(o) \in Nat \ {0} /\ n = Captures(o) + o.count + 5
             /\ o.count \in Nat \ {0} /\ sc[n].on = 1 + o.warmup
  <2>1. /\ Layout(sc, o.warmup, o.count, Captures(o))
        /\ o.count \in Nat \ {0} /\ o.warmup \in Nat
    BY <1>1, <1>3, ScriptSuits DEF Suits, Captures
  <2>2. Captures(o) \in Nat \ {0} /\ n = Captures(o) + o.count + 5
    BY <2>1 DEF Layout
  <2>3. n \in 1 .. n
    BY <2>1, <2>2
  <2>4. sc[n].on = 1 + o.warmup
    BY <1>1, <1>3, <2>3, Phases
  <2> QED
    BY <2>1, <2>2, <2>4
<1>4. Behind(p, "discover") => Behind(p, "capture")
  BY <1>1, <1>2, <1>3
<1>5. Behind(p, "manifest") => Behind(p, "discover")
  BY <1>1, <1>2, <1>3
<1>6. ASSUME at < n
      PROVE  /\ h.do = "discover" => Behind(p, "capture") /\ ~ Behind(p, "discover")
             /\ h.do = "copy" => Behind(p, "discover")
             /\ h.do = "manifest" => Behind(p, "discover") /\ h.on = 1 + o.warmup
  <2>1. at + 1 \in 1 .. n
    BY <1>1, <1>6
  <2>2. h.do \in {"discover", "copy", "manifest"} => o.tool = "profile"
    BY <1>1, <2>1, Phases
  <2>3. o.tool = "profile" =>
          /\ h.do = "discover" => at + 1 = n - 2
          /\ h.do = "copy" => at + 1 = n - 1
          /\ h.do = "manifest" => at + 1 = n
    BY <1>1, <2>1, Phases
  <2> HIDE DEF h
  <2>4. h.do = "discover" => Behind(p, "capture") /\ ~ Behind(p, "discover")
    BY <1>1, <1>2, <1>3, <2>2, <2>3
  <2>5. h.do = "copy" => Behind(p, "discover")
    BY <1>1, <1>2, <1>3, <2>2, <2>3
  <2>6. h.do = "manifest" => Behind(p, "discover") /\ h.on = 1 + o.warmup
    <3>1. SUFFICES ASSUME h.do = "manifest"
                   PROVE  Behind(p, "discover") /\ h.on = 1 + o.warmup
      OBVIOUS
    <3>2. o.tool = "profile" /\ at + 1 = n
      BY <2>2, <2>3, <3>1
    <3>3. h.on = 1 + o.warmup
      BY <1>3, <3>2 DEF h
    <3>4. at >= n - 2
      BY <3>2, <1>1
    <3> QED
      BY <1>2, <3>2, <3>3, <3>4
  <2> QED
    BY <2>4, <2>5, <2>6
<1> QED
  BY <1>4, <1>5, <1>6 DEF o, at, sc


\* What a step that carries out an instruction of some kind does to the directory.
DirectoryStep(p, kind) ==
  /\ profiles' = IF kind = "capture" THEN profiles \cup {p} ELSE profiles
  /\ analysed' \subseteq analysed \cup (IF kind = "analyse" THEN {p} ELSE {})
  /\ kind = "discover" =>
       /\ Cardinality(profiles) = 1
       /\ \E q \in profiles : found' = [found EXCEPT ![p] = q]
  /\ kind # "discover" => found' = found
  /\ parsed' = IF kind = "copy" THEN parsed \cup {found[p]} ELSE parsed
  /\ kind = "manifest" =>
       manifest' = [by |-> p, raw |-> found[p], first |-> On(p),
                    iterations |-> opt[p].count]
  /\ kind # "manifest" => manifest' = manifest

LEMMA DirectoryNext ==
  ASSUME Inv, NEW p \in Procs, NEW k \in {0, 1}, Advances(p, k),
         k = 1 => session[p].at < Len(ScriptOf(p)),
         NEW kind, kind = IF k = 1 THEN ScriptOf(p)[session[p].at + 1].do ELSE "none",
         DirectoryStep(p, kind)
  PROVE  Inv'
<1>1. TypeInv /\ ProcessInv /\ DirectoryInv
  BY DEF Inv
<1>2. opt' = opt
  BY DEF Advances
<1>3. \A what : what # "none" =>
        \A q \in Procs : Behind(q, what)' <=> Behind(q, what) \/ (q = p /\ kind = what)
  BY <1>1, BehindNext
<1>4. /\ \A q \in Procs : Behind(q, "capture")' <=> Behind(q, "capture") \/ (q = p /\ kind = "capture")
      /\ \A q \in Procs : Behind(q, "analyse")' <=> Behind(q, "analyse") \/ (q = p /\ kind = "analyse")
      /\ \A q \in Procs : Behind(q, "discover")' <=> Behind(q, "discover") \/ (q = p /\ kind = "discover")
      /\ \A q \in Procs : Behind(q, "copy")' <=> Behind(q, "copy") \/ (q = p /\ kind = "copy")
      /\ \A q \in Procs : Behind(q, "manifest")' <=> Behind(q, "manifest") \/ (q = p /\ kind = "manifest")
  BY <1>3
<1>5. /\ \A q \in Procs : Behind(q, "discover") => Behind(q, "capture")
      /\ \A q \in Procs : Behind(q, "manifest") => Behind(q, "discover")
  BY <1>1, Order
<1>6. /\ kind = "discover" => Behind(p, "capture") /\ ~ Behind(p, "discover")
      /\ kind = "copy" => Behind(p, "discover")
      /\ kind = "manifest" => Behind(p, "discover") /\ On(p) = 1 + opt[p].warmup
  <2>1. CASE k = 1
    BY <2>1, <1>1, Order DEF On, Current
  <2>2. CASE k # 1
    BY <2>2
  <2> QED
    BY <2>1, <2>2
<1>7. kind = "discover" => profiles = {p}
  <2>1. SUFFICES ASSUME kind = "discover" PROVE profiles = {p}
    OBVIOUS
  <2>2. IsFiniteSet(profiles) /\ Cardinality(profiles) = 1
    BY <1>1, <2>1 DEF DirectoryInv, DirectoryStep
  <2>3. \E x : profiles = {x}
    BY <2>2, FS_Singleton
  <2>4. p \in profiles
    BY <1>1, <1>6, <2>1 DEF DirectoryInv
  <2> QED
    BY <2>3, <2>4
<1>8. IsFiniteSet(profiles')
  <2>1. IsFiniteSet(profiles) /\ IsFiniteSet(profiles \cup {p})
    BY <1>1, FS_AddElement DEF DirectoryInv
  <2> QED
    BY <2>1 DEF DirectoryStep
<1>9. profiles' = {q \in Procs : Behind(q, "capture")'}
  <2>1. profiles = {q \in Procs : Behind(q, "capture")}
    BY <1>1 DEF DirectoryInv
  <2>2. profiles' = IF kind = "capture" THEN profiles \cup {p} ELSE profiles
    BY DEF DirectoryStep
  <2>3. \A q \in Procs : Behind(q, "capture")' <=> Behind(q, "capture") \/ (q = p /\ kind = "capture")
    BY <1>4
  <2>4. \A q : q \in profiles' <=> q \in Procs /\ Behind(q, "capture")'
    BY <2>1, <2>2, <2>3
  <2> QED
    BY <2>4
<1>10. \A q \in analysed' : q \in Procs /\ Behind(q, "analyse")'
  <2>1. \A q \in analysed : q \in Procs /\ Behind(q, "analyse")
    BY <1>1 DEF DirectoryInv
  <2>2. \A q \in analysed' : q \in analysed \/ (q = p /\ kind = "analyse")
    BY DEF DirectoryStep
  <2> QED
    BY <2>1, <2>2, <1>4
<1>11. ASSUME NEW q \in Procs, Behind(q, "discover")'
       PROVE  found'[q] = q
  <2>1. CASE kind = "discover"
    <3>1. PICK r \in profiles : found' = [found EXCEPT ![p] = r]
      BY <2>1 DEF DirectoryStep
    <3>2. r = p
      BY <1>7, <2>1
    <3>3. found \in [Procs -> Procs \cup {None}]
      BY <1>1 DEF TypeInv
    <3>4. CASE q = p
      BY <3>1, <3>2, <3>3, <3>4
    <3>5. CASE q # p
      <4>1. Behind(q, "discover")
        BY <1>4, <1>11, <3>5
      <4>2. found[q] = q
        BY <1>1, <4>1 DEF DirectoryInv
      <4> QED
        BY <3>1, <3>3, <3>5, <4>2
    <3> QED
      BY <3>4, <3>5
  <2>2. CASE kind # "discover"
    <3>1. Behind(q, "discover") /\ found' = found
      BY <1>4, <1>11, <2>2 DEF DirectoryStep
    <3> QED
      BY <1>1, <3>1 DEF DirectoryInv
  <2> QED
    BY <2>1, <2>2
<1>12. ASSUME NEW q \in Procs, NEW r \in Procs,
              Behind(q, "discover")', Behind(r, "discover")'
       PROVE  q = r
  <2>1. CASE kind = "discover"
    <3>1. \A s \in Procs : Behind(s, "discover") => s = p
      <4>1. \A s \in Procs : Behind(s, "discover") => s \in profiles
        BY <1>1, <1>5 DEF DirectoryInv
      <4> QED
        BY <4>1, <1>7, <2>1
    <3> QED
      BY <1>4, <1>12, <3>1
  <2>2. CASE kind # "discover"
    <3>1. Behind(q, "discover") /\ Behind(r, "discover")
      BY <1>4, <1>12, <2>2
    <3> QED
      BY <1>1, <3>1 DEF DirectoryInv
  <2> QED
    BY <2>1, <2>2
<1>13. parsed' = {q \in Procs : Behind(q, "copy")'}
  <2>1. parsed = {q \in Procs : Behind(q, "copy")}
    BY <1>1 DEF DirectoryInv
  <2>2. parsed' = IF kind = "copy" THEN parsed \cup {found[p]} ELSE parsed
    BY DEF DirectoryStep
  <2>3. kind = "copy" => found[p] = p
    BY <1>1, <1>6 DEF DirectoryInv
  <2>4. \A q : q \in parsed' <=> q \in Procs /\ Behind(q, "copy")'
    BY <2>1, <2>2, <2>3, <1>4
  <2> QED
    BY <2>4
<1>14. manifest' # None => \E q \in Procs : Behind(q, "manifest")'
  <2>1. CASE kind = "manifest"
    BY <2>1, <1>4
  <2>2. CASE kind # "manifest"
    <3>1. manifest' = manifest
      BY <2>2 DEF DirectoryStep
    <3>2. manifest # None => \E q \in Procs : Behind(q, "manifest")
      BY <1>1 DEF DirectoryInv
    <3> QED
      BY <3>1, <3>2, <1>4
  <2> QED
    BY <2>1, <2>2
<1>15. ASSUME NEW q \in Procs, Behind(q, "manifest")'
       PROVE  manifest' = [by |-> q, raw |-> q, first |-> 1 + opt[q].warmup,
                           iterations |-> opt[q].count]
  <2>1. CASE kind = "manifest"
    <3>1. q = p
      <4>1. Behind(q, "manifest") => Behind(q, "discover") /\ Behind(p, "discover")
        BY <1>5, <1>6, <2>1
      <4>2. Behind(q, "manifest") => q = p
        BY <1>1, <4>1 DEF DirectoryInv
      <4> QED
        BY <4>2, <1>4, <1>15
    <3>2. found[p] = p /\ On(p) = 1 + opt[p].warmup
      BY <1>1, <1>6, <2>1 DEF DirectoryInv
    <3> QED
      BY <3>1, <3>2, <2>1 DEF DirectoryStep
  <2>2. CASE kind # "manifest"
    <3>1. manifest' = manifest /\ Behind(q, "manifest")
      BY <1>4, <1>15, <2>2 DEF DirectoryStep
    <3> QED
      BY <1>1, <3>1 DEF DirectoryInv
  <2> QED
    BY <2>1, <2>2
<1>16. ASSUME NEW q \in Procs, opt[q].tool = "profile", status'[q] = "passed"
       PROVE  Behind(q, "manifest")'
  <2>1. CASE status[q] = "passed"
    <3>1. Behind(q, "manifest")
      BY <1>1, <1>16, <2>1 DEF DirectoryInv
    <3> QED
      BY <3>1, <1>4
  <2>2. CASE session'[q].at = Len(ScriptOf(q))
    <3> DEFINE o == opt[q]
               sc == ScriptOf(q)
               n == Len(sc)
    <3>1. o \in AnyOption /\ n \in Nat /\ sc = Script(o)
      BY <1>1, AtBounds DEF ScriptOf
    <3>2. n \in 1 .. n
      <4>1. /\ Layout(sc, o.warmup, o.count, Captures(o))
            /\ o.count \in Nat \ {0} /\ o.warmup \in Nat
        BY <3>1, <1>16, ScriptSuits DEF Suits, Captures
      <4>2. Captures(o) \in Nat \ {0} /\ n = Captures(o) + o.count + 5
        BY <4>1 DEF Layout
      <4> QED
        BY <4>1, <4>2
    <3>3. sc[n].do = "manifest"
      BY <3>1, <3>2, <1>16, Phases
    <3>4. Behind(q, "manifest")' <=> \E j \in 1 .. n : sc[j].do = "manifest"
      BY <1>2, <2>2 DEF Behind, ScriptOf
    <3> QED
      BY <3>2, <3>3, <3>4
  <2> QED
    BY <2>1, <2>2, <1>16 DEF Advances
<1>17. DirectoryInv'
  BY <1>2, <1>8, <1>9, <1>10, <1>11, <1>12, <1>13, <1>14, <1>15, <1>16 DEF DirectoryInv
<1>18. TypeInv'
  <2>1. found' \in [Procs -> Procs \cup {None}]
    <3>1. CASE kind = "discover"
      <4>1. PICK r \in profiles : found' = [found EXCEPT ![p] = r]
        BY <3>1 DEF DirectoryStep
      <4>2. r \in Procs
        BY <1>1 DEF DirectoryInv
      <4> QED
        BY <1>1, <4>1, <4>2 DEF TypeInv
    <3>2. CASE kind # "discover"
      BY <1>1, <3>2 DEF TypeInv, DirectoryStep
    <3> QED
      BY <3>1, <3>2
  <2> QED
    BY <2>1, <1>1, <1>2 DEF TypeInv, Advances
<1>19. ProcessInv'
  BY DEF Advances
<1> QED
  BY <1>17, <1>18, <1>19 DEF Inv


\* A step after which the directory stands as it did.
LEMMA DirectoryKept ==
  ASSUME NEW p, NEW kind, UNCHANGED <<directory, found>>,
         kind \notin {"capture", "discover", "copy", "manifest"}
  PROVE  DirectoryStep(p, kind)
BY DEF DirectoryStep, directory

\* The instructions that are passed by a host which neither enqueues nor
\* reads a clock nor drops anything.
LEMMA PassedNext ==
  ASSUME Inv, NEW p \in Procs,
         NEW kind \in {"sync", "check"} \cup DirectoryKinds, Doing(p, kind),
         kind = "sync" => Drained(session[p]),
         Proceed(p, Passed(session[p])), alive' = alive, used' = used, captured' = captured,
         DirectoryStep(p, kind)
  PROVE  Inv'
<1> DEFINE h == ScriptOf(p)[session[p].at + 1]
           t == Passed(session[p])
<1>1. TypeInv /\ ProcessInv
  BY DEF Inv
<1>2. session[p].at < Len(ScriptOf(p)) /\ h.do = kind
  BY DEF Doing, At
<1>3. h.do \notin Kinds /\ h.do \notin {"clock", "elapsed", "drop"}
  BY <1>2 DEF Kinds, DirectoryKinds
<1>4. t = PassedTo(session[p], h)
  BY <1>3 DEF PassedTo
<1>5. alive' = [alive EXCEPT ![p] = HeldAfter(alive[p], h)]
  BY <1>1, <1>3 DEF HeldAfter, TypeInv
<1>6. h.do = "sync" => Drained(session[p])
  BY <1>2
<1>7. Proceed(p, t) /\ h = ScriptOf(p)[session[p].at + 1]
  OBVIOUS
<1> HIDE DEF h, t
<1>8. Advances(p, 1)
  BY <1>1, <1>2, <1>3, <1>4, <1>5, <1>6, <1>7, PassedAdvances
<1>9. kind = ScriptOf(p)[session[p].at + 1].do
  BY <1>2, <1>7
<1> QED
  BY <1>2, <1>8, <1>9, DirectoryNext

LEMMA ReadWallNext ==
  ASSUME Inv, NEW p \in Procs, ReadWall(p)
  PROVE  Inv'
<1> DEFINE h == ScriptOf(p)[session[p].at + 1]
<1>1. TypeInv /\ ProcessInv
  BY DEF Inv
<1>2. session[p].at < Len(ScriptOf(p)) /\ h.do \in {"clock", "elapsed"}
  BY DEF ReadWall, Doing, At
<1>3. PICK t : t = PassedTo(session[p], h) /\ Proceed(p, t)
  <2>1. CASE Doing(p, "clock") /\ Proceed(p, ClockRead(session[p]))
    BY <2>1 DEF PassedTo, Doing, At
  <2>2. CASE Doing(p, "elapsed") /\ Proceed(p, ClockAdded(session[p]))
    BY <2>2 DEF PassedTo, Doing, At
  <2> QED
    BY <2>1, <2>2 DEF ReadWall
<1>4. UNCHANGED <<memory, directory, found>>
  BY DEF ReadWall
<1>5. alive' = [alive EXCEPT ![p] = HeldAfter(alive[p], h)]
  BY <1>1, <1>2, <1>4 DEF HeldAfter, TypeInv, memory
<1>6. h.do \notin Kinds /\ h.do # "sync"
  BY <1>2 DEF Kinds
<1>7. h = ScriptOf(p)[session[p].at + 1] /\ used' = used /\ captured' = captured
  BY <1>4 DEF memory
<1> HIDE DEF h
<1>8. Advances(p, 1)
  BY <1>1, <1>2, <1>3, <1>5, <1>6, <1>7, PassedAdvances
<1>9. DirectoryStep(p, h.do)
  BY <1>2, <1>4, DirectoryKept
<1> QED
  BY <1>2, <1>7, <1>8, <1>9, DirectoryNext

LEMMA CheckOrDropNext ==
  ASSUME Inv, NEW p \in Procs, CheckOrDrop(p)
  PROVE  Inv'
<1> DEFINE h == ScriptOf(p)[session[p].at + 1]
<1>1. TypeInv /\ ProcessInv
  BY DEF Inv
<1>2. /\ session[p].at < Len(ScriptOf(p)) /\ h.do \in {"check", "drop"}
      /\ Doing(p, "drop") <=> h.do = "drop"
  BY DEF CheckOrDrop, Doing, At
<1>3. /\ Proceed(p, Passed(session[p])) /\ UNCHANGED <<directory, found>>
      /\ used' = used /\ captured' = captured
      /\ alive' = [alive EXCEPT ![p] = IF Doing(p, "drop") THEN @ \ On(p) ELSE @]
  BY DEF CheckOrDrop
<1>4. Passed(session[p]) = PassedTo(session[p], h)
  BY <1>2 DEF PassedTo
<1>5. alive' = [alive EXCEPT ![p] = HeldAfter(alive[p], h)]
  BY <1>2, <1>3 DEF HeldAfter, On, Current
<1>6. h.do \notin Kinds /\ h.do # "sync"
  BY <1>2 DEF Kinds
<1>7. h = ScriptOf(p)[session[p].at + 1]
  OBVIOUS
<1> HIDE DEF h
<1>8. Advances(p, 1)
  BY <1>1, <1>2, <1>3, <1>4, <1>5, <1>6, <1>7, PassedAdvances
<1>9. DirectoryStep(p, h.do)
  BY <1>2, <1>3, DirectoryKept
<1> QED
  BY <1>2, <1>7, <1>8, <1>9, DirectoryNext

LEMMA RaiseNext ==
  ASSUME Inv, NEW p \in Procs, Raise(p)
  PROVE  Inv'
<1>1. Advances(p, 0)
  BY RaiseAdvances DEF Inv
<1>2. UNCHANGED <<directory, found>>
  BY DEF Raise
<1>3. DirectoryStep(p, "none")
  BY <1>2, DirectoryKept
<1> QED
  BY <1>1, <1>3, DirectoryNext

LEMMA HostNext ==
  ASSUME Inv, NEW p \in Procs, Host(p)
  PROVE  Inv'
<1>1. CASE Enqueue(p)
  <2> DEFINE kind == ScriptOf(p)[session[p].at + 1].do
  <2>1. Advances(p, 1) /\ At(session[p], ScriptOf(p), Kinds)
    BY <1>1, EnqueueAdvances DEF Inv
  <2>2. session[p].at < Len(ScriptOf(p)) /\ kind \in Kinds
    BY <2>1 DEF At
  <2>3. UNCHANGED <<directory, found>>
    BY <1>1 DEF Enqueue
  <2>4. DirectoryStep(p, kind)
    BY <2>2, <2>3, DirectoryKept DEF Kinds
  <2> QED
    BY <2>1, <2>2, <2>4, DirectoryNext
<1>2. CASE Wait(p)
  <2>1. /\ Doing(p, "sync") /\ Drained(session[p]) /\ Proceed(p, Passed(session[p]))
        /\ UNCHANGED <<memory, directory, found>>
    BY <1>2 DEF Wait
  <2>2. DirectoryStep(p, "sync")
    BY <2>1, DirectoryKept
  <2> QED
    BY <2>1, <2>2, PassedNext DEF memory
<1>3. CASE ReadWall(p)
  BY <1>3, ReadWallNext
<1>4. CASE CheckOrDrop(p)
  BY <1>4, CheckOrDropNext
<1>5. CASE LookAtRoot(p)
  <2>1. CASE Refused /\ Raise(p)
    BY <2>1, RaiseNext
  <2>2. CASE ~ Refused /\ Proceed(p, Passed(session[p])) /\ UNCHANGED <<memory, directory, found>>
    <3>1. Doing(p, "look")
      BY <1>5 DEF LookAtRoot
    <3>2. DirectoryStep(p, "look")
      BY <2>2, DirectoryKept
    <3> QED
      BY <2>2, <3>1, <3>2, PassedNext DEF memory, DirectoryKinds
  <2> QED
    BY <1>5, <2>1, <2>2 DEF LookAtRoot
<1>6. CASE MakeDir(p)
  <2>1. /\ Doing(p, "mkdir") /\ Proceed(p, Passed(session[p]))
        /\ UNCHANGED <<memory, profiles, analysed, parsed, manifest, found>>
    BY <1>6 DEF MakeDir
  <2>2. DirectoryStep(p, "mkdir")
    BY <2>1 DEF DirectoryStep
  <2> QED
    BY <2>1, <2>2, PassedNext DEF memory, DirectoryKinds
<1>7. CASE Capture(p)
  <2>1. /\ Doing(p, "capture") /\ Proceed(p, Passed(session[p])) /\ profiles' = profiles \cup {p}
        /\ UNCHANGED <<memory, root, analysed, parsed, manifest, found>>
    BY <1>7 DEF Capture
  <2>2. DirectoryStep(p, "capture")
    BY <2>1 DEF DirectoryStep
  <2> QED
    BY <2>1, <2>2, PassedNext DEF memory, DirectoryKinds
<1>8. CASE Analyse(p)
  <2>1. /\ Doing(p, "analyse") /\ Proceed(p, Passed(session[p]))
        /\ analysed' \in {analysed, analysed \cup {p}}
        /\ UNCHANGED <<memory, root, profiles, parsed, manifest, found>>
    BY <1>8 DEF Analyse
  <2>2. DirectoryStep(p, "analyse")
    BY <2>1 DEF DirectoryStep
  <2> QED
    BY <2>1, <2>2, PassedNext DEF memory, DirectoryKinds
<1>9. CASE DiscoverRawProfile(p)
  <2>1. CASE ~ OneProfile /\ Raise(p)
    BY <2>1, RaiseNext
  <2>2. CASE /\ OneProfile /\ \E q \in profiles : found' = [found EXCEPT ![p] = q]
             /\ Proceed(p, Passed(session[p])) /\ UNCHANGED <<memory, directory>>
    <3>1. Doing(p, "discover")
      BY <1>9 DEF DiscoverRawProfile
    <3>2. DirectoryStep(p, "discover")
      BY <2>2 DEF DirectoryStep, directory, OneProfile
    <3> QED
      BY <2>2, <3>1, <3>2, PassedNext DEF memory, DirectoryKinds
  <2> QED
    BY <1>9, <2>1, <2>2 DEF DiscoverRawProfile
<1>10. CASE CopyParsedResults(p)
  <2>1. CASE ~ Parsable(found[p]) /\ Raise(p)
    BY <2>1, RaiseNext
  <2>2. CASE /\ parsed' = parsed \cup {found[p]} /\ Proceed(p, Passed(session[p]))
             /\ UNCHANGED <<memory, root, profiles, analysed, manifest, found>>
    <3>1. Doing(p, "copy")
      BY <1>10 DEF CopyParsedResults
    <3>2. DirectoryStep(p, "copy")
      BY <2>2 DEF DirectoryStep
    <3> QED
      BY <2>2, <3>1, <3>2, PassedNext DEF memory, DirectoryKinds
  <2> QED
    BY <1>10, <2>1, <2>2 DEF CopyParsedResults
<1>11. CASE WriteManifest(p)
  <2>1. /\ Doing(p, "manifest") /\ Proceed(p, Passed(session[p]))
        /\ manifest' = [by |-> p, raw |-> found[p], first |-> On(p),
                        iterations |-> opt[p].count]
        /\ UNCHANGED <<memory, profiles, analysed, parsed, found>>
    BY <1>11 DEF WriteManifest
  <2>2. DirectoryStep(p, "manifest")
    BY <2>1 DEF DirectoryStep
  <2> QED
    BY <2>1, <2>2, PassedNext DEF memory, DirectoryKinds
<1> QED
  BY <1>1, <1>2, <1>3, <1>4, <1>5, <1>6, <1>7, <1>8, <1>9, <1>10, <1>11 DEF Host

LEMMA DeviceSteps ==
  ASSUME Inv, NEW p \in Procs, RunKernel(p) \/ CopyOrStamp(p)
  PROVE  Inv'
<1>1. Advances(p, 0)
  BY RunKernelAdvances, CopyOrStampAdvances
<1>2. UNCHANGED <<directory, found>>
  BY DEF RunKernel, CopyOrStamp, Finish
<1>3. DirectoryStep(p, "none")
  BY <1>2, DirectoryKept
<1> QED
  BY <1>1, <1>3, DirectoryNext


LEMMA FollowsInit ==
  ASSUME NEW o \in AnyOption
  PROVE  NewSession \in Sessions(Items) /\ Follows(o, NewSession, {}, {}, << >>)
<1> DEFINE s == NewSession
           sc == Script(o)
<1>1. /\ s \in Sessions(Items) /\ s.at = 0 /\ s.stream = << >> /\ s.clock = 0
      /\ s.timing = FALSE /\ s.measured = 0 /\ s.wall = 0 /\ s.waited = 0
  BY DEF NewSession, Sessions
<1>2. sc \in Seq(Items) /\ Len(sc) \in Nat
  BY SuitFacts
<1> HIDE DEF s, sc
<1>3. Tracks(Kinds, s, sc, 0, << >>)
  BY <1>1, <1>2 DEF Tracks
<1>4. {} = Ran(sc, 0) /\ {} = Live(sc, s.at)
  BY <1>1 DEF Ran, Live, Uploads
<1>5. DeviceTimes(Works, s, sc, 0) /\ HostTimes(Works, s, sc)
  <2>1. Work(Works, sc, 0) = {}
    BY DEF Work
  <2>2. \A b, e : Timed(Works, sc, 0, b, e) = {}
    BY <2>1 DEF Timed
  <2>3. Cardinality({}) = 0
    BY FS_EmptySet
  <2>4. \A b, e : ~ Between(sc, 1, b, e)
    BY DEF Between
  <2>5. DeviceTimes(Works, s, sc, 0)
    <3>1. s.timing = Between(sc, 0 + 1, StartEvent, StopEvent)
      <4>1. Between(sc, 1, StartEvent, StopEvent) = FALSE
        BY DEF Between
      <4>2. 0 + 1 = 1 /\ s.timing = FALSE
        BY <1>1
      <4> QED
        BY <4>1, <4>2
    <3>2. s.clock = Cardinality(Work(Works, sc, 0))
      BY <1>1, <2>1, <2>3
    <3>3. s.measured + (IF s.timing THEN s.clock - s.started ELSE 0) = 0
      BY <1>1
    <3>4. Cardinality(Timed(Works, sc, 0, StartEvent, StopEvent)) = 0
      BY <2>2, <2>3
    <3> QED
      BY <3>1, <3>2, <3>3, <3>4 DEF DeviceTimes
  <2>6. HostTimes(Works, s, sc)
    <3>1. ~ Between(sc, s.at + 1, ReadClock, AddClock)
      BY <1>1, <2>4
    <3>2. Cardinality(Timed(Works, sc, s.at, ReadClock, AddClock)) = 0
      BY <1>1, <2>2, <2>3
    <3> QED
      BY <1>1, <3>1, <3>2 DEF HostTimes
  <2> QED
    BY <2>5, <2>6
<1>6. o.tool = "profile" =>
        << >> = CaseIds(1 + o.warmup, IF 0 <= Captures(o) THEN 0 ELSE 0 - Captures(o))
  <2>1. SUFFICES ASSUME o.tool = "profile"
                 PROVE  << >> = CaseIds(1 + o.warmup, IF 0 <= Captures(o) THEN 0 ELSE 0 - Captures(o))
    OBVIOUS
  <2>2. Captures(o) \in Nat /\ o.warmup \in Nat
    BY <2>1, ScriptSuits DEF Suits, Captures, Layout
  <2>3. CaseIds(1 + o.warmup, 0) = << >>
    <3>1. 1 + o.warmup \in Nat /\ 0 \in Nat
      BY <2>2
    <3> QED
      BY <3>1, CaseIdsEmpty
  <2> QED
    BY <2>2, <2>3
<1>7. FollowsBy(o, s, {}, {}, << >>, 0, << >>)
  BY <1>3, <1>4, <1>5, <1>6 DEF FollowsBy, sc
<1>8. Follows(o, s, {}, {}, << >>)
  BY <1>7 DEF Follows
<1> QED
  BY <1>1, <1>8 DEF s

LEMMA InvInit == Init => Inv
<1> SUFFICES ASSUME Init PROVE Inv
  OBVIOUS
<1>1. /\ session = [p \in Procs |-> NewSession] /\ alive = [p \in Procs |-> {}]
      /\ used = [p \in Procs |-> {}] /\ captured = [p \in Procs |-> << >>]
      /\ profiles = {} /\ analysed = {} /\ parsed = {} /\ manifest = None
      /\ found = [p \in Procs |-> None]
  BY DEF Init
<1>2. /\ opt \in [Procs -> AnyOption]
      /\ status \in [Procs -> {"running", "passed", "failed"}]
      /\ \A p \in Procs : opt[p].tool = "profile" => status[p] # "passed"
  <2>1. CASE \E p \in Procs, o \in Options.validate \cup Options.bench :
               /\ opt = [q \in Procs |-> o]
               /\ status = [q \in Procs |-> IF q = p THEN "running" ELSE "passed"]
    <3>1. PICK p \in Procs, o \in Options.validate \cup Options.bench :
               /\ opt = [q \in Procs |-> o]
               /\ status = [q \in Procs |-> IF q = p THEN "running" ELSE "passed"]
      BY <2>1
    <3>2. o \in AnyOption /\ o.tool # "profile"
      BY OptionFields DEF AnyOption
    <3> QED
      BY <3>1, <3>2
  <2>2. CASE opt \in [Procs -> Options.profile] /\ status = [q \in Procs |-> "running"]
    BY <2>2 DEF AnyOption
  <2> QED
    BY <2>1, <2>2 DEF Init
<1>3. NewSession \in Sessions(Items) /\ NewSession.at = 0
  BY DEF NewSession, Sessions
<1>4. TypeInv
  <2>1. << >> \in Seq(Nat)
    OBVIOUS
  <2> QED
    BY <1>1, <1>2, <1>3, <2>1 DEF TypeInv
<1>5. ProcessInv
  <2> SUFFICES ASSUME NEW p \in Procs
               PROVE  Follows(opt[p], session[p], alive[p], used[p], captured[p])
    BY DEF ProcessInv
  <2>1. opt[p] \in AnyOption
    BY <1>2
  <2> QED
    BY <1>1, <2>1, FollowsInit
<1>6. \A p \in Procs : \A kind : ~ Behind(p, kind)
  BY <1>1, <1>3 DEF Behind
<1>7. DirectoryInv
  BY <1>1, <1>2, <1>6, FS_EmptySet DEF DirectoryInv
<1> QED
  BY <1>4, <1>5, <1>7 DEF Inv

LEMMA InvNext == Inv /\ [Next]_vars => Inv'
<1> SUFFICES ASSUME Inv, [Next]_vars PROVE Inv'
  OBVIOUS
<1>1. CASE Next
  <2>1. PICK p \in Procs : Host(p) \/ RunKernel(p) \/ CopyOrStamp(p) \/ Die(p)
    BY <1>1 DEF Next
  <2>2. CASE Host(p)
    BY <2>2, HostNext
  <2>3. CASE RunKernel(p) \/ CopyOrStamp(p)
    BY <2>3, DeviceSteps
  <2>4. CASE Die(p)
    BY <2>4, RaiseNext DEF Die
  <2> QED
    BY <2>1, <2>2, <2>3, <2>4
<1>2. CASE UNCHANGED vars
  BY <1>2 DEF vars, memory, directory, Inv, TypeInv, ProcessInv, DirectoryInv, Behind, ScriptOf
<1> QED
  BY <1>1, <1>2

\* Inv holds in every state of every run of the scripts.
THEOREM Invariance == Spec => []Inv
BY InvInit, InvNext, PTL DEF Spec


-----------------------------------------------------------------------------
(* The properties.                                                          *)

(* A launch that waits on the stream: its case was uploaded and is not       *)
(* dropped, since the synchronize ahead of the drop has not been passed; no  *)
(* launch before it was of that case, and none beside it is.                *)
LEMMA FreshStates ==
  ASSUME Inv, NEW p \in Procs
  PROVE  /\ \A i \in Waiting(p) : CaseAt(p, i) \in alive[p] \ used[p]
         /\ \A i, j \in Waiting(p) : CaseAt(p, i) = CaseAt(p, j) => i = j
<1> DEFINE o == opt[p]
           s == session[p]
           sc == Script(o)
<1>1. o \in AnyOption /\ s \in Sessions(Items) /\ sc \in Seq(Items) /\ Len(sc) \in Nat
  BY AtBounds, SuitFacts DEF Inv
<1>2. PICK d, x : FollowsBy(o, s, alive[p], used[p], captured[p], d, x)
  BY DEF Inv, ProcessInv, Follows
<1>3. /\ s.at \in 0 .. Len(sc) /\ d \in 0 .. s.at /\ x \in Seq(Nat) /\ Len(x) = Len(s.stream)
      /\ \A i \in 1 .. Len(x) : x[i] \in d + 1 .. s.at
      /\ \A i \in 1 .. Len(x) : s.stream[i] = sc[x[i]]
      /\ \A i, j \in 1 .. Len(x) : i < j => x[i] < x[j]
      /\ \A j \in 1 .. s.at : sc[j].do = "sync" => \A i \in 1 .. Len(x) : j < x[i]
  BY <1>2 DEF FollowsBy, Tracks
<1>4. used[p] = Ran(sc, d) /\ alive[p] = Live(sc, s.at)
  BY <1>2 DEF FollowsBy
<1>5. /\ Launchable(sc)
      /\ \A i, j \in 1 .. Len(sc) :
           sc[i].do = "launch" /\ sc[j].do = "launch" /\ sc[i].on = sc[j].on => i = j
  BY <1>1, SuitFacts
<1>6. s.stream \in Seq(Items) /\ Len(s.stream) \in Nat
  BY <1>1, LenProperties DEF Sessions
<1>7. ASSUME NEW i \in Waiting(p)
      PROVE  /\ i \in 1 .. Len(x) /\ x[i] \in 1 .. Len(sc) /\ x[i] \in d + 1 .. s.at
             /\ sc[x[i]].do = "launch" /\ CaseAt(p, i) = sc[x[i]].on
  <2>1. i \in DOMAIN s.stream /\ s.stream[i].do = "launch"
    BY <1>7 DEF Waiting
  <2>2. i \in 1 .. Len(x)
    BY <2>1, <1>3, <1>6
  <2>3. x[i] \in d + 1 .. s.at /\ s.stream[i] = sc[x[i]]
    BY <2>2, <1>3
  <2>4. x[i] \in 1 .. Len(sc)
    BY <2>3, <1>1, <1>3
  <2> QED
    BY <2>1, <2>2, <2>3, <2>4 DEF CaseAt
<1>8. ASSUME NEW i \in Waiting(p)
      PROVE  CaseAt(p, i) \in alive[p]
  <2> DEFINE j == x[i]
             c == CaseAt(p, i)
  <2>1. /\ i \in 1 .. Len(x) /\ j \in 1 .. Len(sc) /\ j \in d + 1 .. s.at
        /\ sc[j].do = "launch" /\ c = sc[j].on
    BY <1>7
  <2> HIDE DEF c, sc, o, s, j
  <2>2. PICK u \in 1 .. j - 1 : /\ sc[u].do = "upload" /\ sc[u].on = sc[j].on
                                /\ \A m \in u + 1 .. j - 1 : sc[m].do # "drop"
    BY <1>5, <2>1 DEF Launchable
  <2>3. PICK y \in j + 1 .. Len(sc) : /\ sc[y].do = "sync"
                                      /\ \A m \in j + 1 .. y - 1 : sc[m].do # "drop"
    BY <1>5, <2>1 DEF Launchable
  <2>4. s.at < y
    <3>1. y \in 1 .. s.at => y < j
      BY <1>3, <2>1, <2>3 DEF j
    <3>2. j < y /\ y \in Nat /\ 1 <= y /\ s.at \in Nat /\ j \in Nat
      BY <1>1, <1>3, <2>1, <2>3
    <3> QED
      BY <3>1, <3>2
  <2>5. \A m \in u + 1 .. s.at : sc[m].do # "drop"
    <3> SUFFICES ASSUME NEW m \in u + 1 .. s.at PROVE sc[m].do # "drop"
      OBVIOUS
    <3>1. j \in Nat /\ y \in Nat /\ u \in Nat /\ s.at \in Nat
      BY <1>1, <1>3, <2>1, <2>2, <2>3
    <3>2. m \in u + 1 .. j - 1 \/ m = j \/ m \in j + 1 .. y - 1
      BY <3>1, <2>4
    <3>3. "launch" # "drop"
      OBVIOUS
    <3> QED
      BY <3>2, <3>3, <2>1, <2>2, <2>3
  <2>6. u \in 1 .. s.at
    BY <2>1, <2>2, <1>1, <1>3
  <2>7. u \in Uploads(sc, s.at)
    BY <2>2, <2>5, <2>6 DEF Uploads
  <2> QED
    BY <2>1, <2>2, <2>7, <1>4 DEF Live, c
<1>9. ASSUME NEW i \in Waiting(p)
      PROVE  CaseAt(p, i) \notin used[p]
  <2>1. SUFFICES ASSUME CaseAt(p, i) \in used[p] PROVE FALSE
    OBVIOUS
  <2>2. PICK r \in {j \in 1 .. d : sc[j].do = "launch"} : CaseAt(p, i) = sc[r].on
    BY <2>1, <1>4 DEF Ran
  <2>3. /\ x[i] \in 1 .. Len(sc) /\ x[i] \in d + 1 .. s.at
        /\ sc[x[i]].do = "launch" /\ CaseAt(p, i) = sc[x[i]].on
    BY <1>7
  <2>4. r \in 1 .. Len(sc) /\ r < x[i]
    BY <2>2, <2>3, <1>1, <1>3
  <2>5. r = x[i]
    BY <2>2, <2>3, <2>4, <1>5
  <2>6. x[i] \in Nat
    BY <2>3, <1>1
  <2> QED
    BY <2>4, <2>5, <2>6
<1>10. ASSUME NEW i \in Waiting(p), NEW j \in Waiting(p), CaseAt(p, i) = CaseAt(p, j)
       PROVE  i = j
  <2>1. /\ i \in 1 .. Len(x) /\ x[i] \in 1 .. Len(sc)
        /\ sc[x[i]].do = "launch" /\ CaseAt(p, i) = sc[x[i]].on
    BY <1>7
  <2>2. /\ j \in 1 .. Len(x) /\ x[j] \in 1 .. Len(sc)
        /\ sc[x[j]].do = "launch" /\ CaseAt(p, j) = sc[x[j]].on
    BY <1>7
  <2>3. x[i] = x[j]
    BY <2>1, <2>2, <1>5, <1>10
  <2>4. i \in Nat /\ j \in Nat /\ x[i] \in Nat
    BY <2>1, <2>2, <1>1
  <2>5. ~ i < j /\ ~ j < i
    BY <2>1, <2>2, <2>3, <2>4, <1>3
  <2> QED
    BY <2>4, <2>5
<1> QED
  BY <1>8, <1>9, <1>10

\* What is compared has run, and was waited for.
LEMMA ComparesResults ==
  ASSUME Inv, NEW p \in Procs, Doing(p, "check")
  PROVE  On(p) \in used[p]
<1> DEFINE o == opt[p]
           s == session[p]
           sc == Script(o)
           j == s.at + 1
<1>1. o \in AnyOption /\ sc \in Seq(Items) /\ Len(sc) \in Nat
  BY AtBounds, SuitFacts DEF Inv
<1>2. PICK d, x : FollowsBy(o, s, alive[p], used[p], captured[p], d, x)
  BY DEF Inv, ProcessInv, Follows
<1>3. Tracks(Kinds, s, sc, d, x) /\ used[p] = Ran(sc, d)
  BY <1>2 DEF FollowsBy
<1>4. /\ s.at \in 0 .. Len(sc) /\ d \in 0 .. s.at
      /\ \A i \in 1 .. Len(x) : x[i] \in d + 1 .. s.at
      /\ \A m \in d + 1 .. s.at : sc[m].do \in Kinds => \E i \in 1 .. Len(x) : x[i] = m
      /\ \A m \in 1 .. s.at : sc[m].do = "sync" => \A i \in 1 .. Len(x) : m < x[i]
  BY <1>3 DEF Tracks
<1>5. s.at < Len(sc) /\ sc[j].do = "check" /\ On(p) = sc[j].on
  BY DEF Doing, At, On, Current, ScriptOf
<1>6. Compared(sc)
  BY <1>1, SuitFacts
<1> HIDE DEF sc, o, s
<1>7. j \in 1 .. Len(sc) /\ s.at \in Nat
  BY <1>1, <1>4, <1>5
<1>8. PICK i \in 1 .. j - 1 : /\ sc[i].do = "launch" /\ sc[i].on = sc[j].on
                              /\ \E y \in i + 1 .. j - 1 : sc[y].do = "sync"
  BY <1>5, <1>6, <1>7 DEF Compared
<1>9. PICK y \in i + 1 .. j - 1 : sc[y].do = "sync"
  BY <1>8
<1>10. i \in Nat /\ y \in 1 .. s.at /\ i < y /\ i <= s.at
  BY <1>7, <1>8, <1>9
<1>11. i \in 1 .. d
  <2>1. SUFFICES ASSUME i \notin 1 .. d PROVE FALSE
    OBVIOUS
  <2>2. i \in d + 1 .. s.at
    BY <2>1, <1>4, <1>7, <1>8, <1>10
  <2>3. PICK k \in 1 .. Len(x) : x[k] = i
    BY <2>2, <1>4, <1>8 DEF Kinds
  <2>4. y < x[k]
    BY <1>4, <1>9, <1>10
  <2> QED
    BY <2>3, <2>4, <1>10
<1> QED
  BY <1>3, <1>5, <1>8, <1>11 DEF Ran

(* Every launch meets a state of its own, still held and never launched on,  *)
(* and what is compared with the reference has been computed.               *)
THEOREM MeetsFreshStates == Spec => []LaunchesMeetFreshStates
<1>1. Inv => LaunchesMeetFreshStates
  BY FreshStates, ComparesResults DEF LaunchesMeetFreshStates
<1> QED
  BY <1>1, Invariance, PTL

\* No more states are held than the scripts announce.
THEOREM HoldsWhatItAnnounces == Spec => []MemoryEstimateHolds
<1>1. ASSUME Inv PROVE MemoryEstimateHolds
  <2> SUFFICES ASSUME NEW p \in Procs
               PROVE  Cardinality(alive[p]) <=
                        CASE opt[p].tool = "validate" -> 1
                          [] opt[p].tool = "bench"    -> BatchRounds(opt[p]) + opt[p].warmup
                          [] opt[p].tool = "profile"  -> opt[p].count + opt[p].warmup
    BY DEF MemoryEstimateHolds
  <2> DEFINE o == opt[p]
             s == session[p]
             sc == Script(o)
  <2>1. o \in AnyOption /\ Holds(sc, Announced(o))
    BY <1>1, AtBounds, SuitFacts DEF Inv
  <2>2. s.at \in 0 .. Len(sc)
    BY <1>1, AtBounds DEF Inv, ScriptOf
  <2>3. PICK d, x : FollowsBy(o, s, alive[p], used[p], captured[p], d, x)
    BY <1>1 DEF Inv, ProcessInv, Follows
  <2>4. alive[p] = Live(sc, s.at)
    BY <2>3 DEF FollowsBy
  <2>5. Cardinality(alive[p]) <= Announced(o)
    <3> HIDE DEF sc, s
    <3> QED
      BY <2>1, <2>2, <2>4 DEF Holds
  <2> QED
    BY <2>5 DEF Announced
<1> QED
  BY <1>1, Invariance, PTL

(* When the benchmark is done, the host's clock and the device's events have *)
(* both timed --rounds launches.                                            *)
THEOREM MeasuresRounds == Spec => []MeasuresItsRounds
<1>1. ASSUME Inv PROVE MeasuresItsRounds
  <2> SUFFICES ASSUME NEW p \in Procs, opt[p].tool = "bench",
                      session[p].at = Len(ScriptOf(p))
               PROVE  session[p].measured = opt[p].count /\ session[p].waited = opt[p].count
    BY DEF MeasuresItsRounds
  <2> DEFINE o == opt[p]
             s == session[p]
             sc == Script(o)
  <2>1. o \in AnyOption /\ s \in Sessions(Items) /\ s.at = Len(sc)
    BY <1>1, AtBounds DEF Inv, ScriptOf
  <2>2. /\ sc \in Seq(Items)
        /\ Alternates(sc, StartEvent, StopEvent) /\ Alternates(sc, ReadClock, AddClock)
    BY <2>1, SuitFacts
  <2>3. EndsSynced(Kinds, sc) /\ Times(sc, o.count)
    BY <2>1, ScriptSuits DEF Suits
  <2>4. PICK d, x : FollowsBy(o, s, alive[p], used[p], captured[p], d, x)
    BY <1>1 DEF Inv, ProcessInv, Follows
  <2>5. /\ Tracks(Kinds, s, sc, d, x)
        /\ DeviceTimes(Works, s, sc, d) /\ HostTimes(Works, s, sc)
    BY <2>4 DEF FollowsBy
  <2>6. Works \subseteq Kinds /\ {"start", "stop"} \subseteq Kinds
    BY DEF Works, Kinds
  <2> HIDE DEF o, s, sc
  <2>7. /\ s.measured = Cardinality(Timed(Works, sc, Len(sc), StartEvent, StopEvent))
        /\ s.waited = Cardinality(Timed(Works, sc, Len(sc), ReadClock, AddClock))
    BY <2>1, <2>2, <2>3, <2>5, <2>6, EndTimes
  <2> QED
    BY <2>3, <2>7 DEF Times, o, s
<1> QED
  BY <1>1, Invariance, PTL

\* A profiler that has come to its end has captured its cases, in their order.
LEMMA CapturedAll ==
  ASSUME Inv, NEW p \in Procs, Behind(p, "manifest")
  PROVE  captured[p] = CaseIds(1 + opt[p].warmup, opt[p].count)
<1> DEFINE o == opt[p]
           s == session[p]
           sc == Script(o)
           w == o.warmup
           c == o.count
           S == Captures(o)
<1>1. o \in AnyOption /\ sc = ScriptOf(p)
  BY AtBounds DEF Inv, ScriptOf
<1>2. o.tool = "profile" /\ s.at = Len(sc)
  BY <1>1, BehindIs DEF Inv
<1>3. /\ Layout(sc, w, c, S) /\ c \in Nat \ {0} /\ w \in Nat
  BY <1>1, <1>2, ScriptSuits DEF Suits, Captures
<1>4. PICK d, x : FollowsBy(o, s, alive[p], used[p], captured[p], d, x)
  BY DEF Inv, ProcessInv, Follows
<1>5. /\ Tracks(Kinds, s, sc, d, x)
      /\ captured[p] = CaseIds(1 + w, IF d <= S THEN 0 ELSE d - S)
  BY <1>2, <1>4 DEF FollowsBy
<1> HIDE DEF o, s, sc, w, c, S
<1>6. /\ S \in Nat /\ Len(sc) = S + c + 5
      /\ \A i \in 1 .. c : sc[S + i].do = "launch"
      /\ sc[S + c + 1].do = "sync" /\ sc[S + c + 2].do = "analyse"
      /\ sc[S + c + 3].do = "discover" /\ sc[S + c + 4].do = "copy"
      /\ sc[S + c + 5].do = "manifest"
  BY <1>3 DEF Layout
<1>7. /\ d \in 0 .. s.at /\ (d > 0 => sc[d].do \in Kinds)
      /\ \A m \in d + 1 .. s.at : sc[m].do \in Kinds => \E i \in 1 .. Len(x) : x[i] = m
      /\ \A m \in 1 .. s.at : sc[m].do = "sync" => \A i \in 1 .. Len(x) : m < x[i]
  BY <1>5 DEF Tracks
<1>8. S + c \in 1 .. d
  <2>1. SUFFICES ASSUME S + c \notin 1 .. d PROVE FALSE
    OBVIOUS
  <2>2. S + c \in d + 1 .. s.at /\ S + c + 1 \in 1 .. s.at
    BY <2>1, <1>2, <1>3, <1>6, <1>7
  <2>3. sc[S + c].do \in Kinds
    <3>1. c \in 1 .. c
      BY <1>3
    <3> QED
      BY <3>1, <1>6 DEF Kinds
  <2>4. PICK i \in 1 .. Len(x) : x[i] = S + c
    BY <2>2, <2>3, <1>7
  <2>5. S + c + 1 < x[i]
    BY <2>2, <1>6, <1>7
  <2> QED
    BY <2>4, <2>5, <1>3, <1>6
<1>9. d = S + c
  <2>1. d \in S + c .. S + c + 5 /\ d > 0
    BY <1>2, <1>3, <1>6, <1>7, <1>8
  <2>2. sc[d].do \in Kinds
    BY <2>1, <1>7
  <2>3. d # S + c + 1 /\ d # S + c + 2 /\ d # S + c + 3 /\ d # S + c + 4 /\ d # S + c + 5
    BY <2>2, <1>6 DEF Kinds
  <2>4. S \in Nat /\ c \in Nat
    BY <1>3, <1>6
  <2> QED
    BY ONLY <2>1, <2>3, <2>4
<1>10. ~ d <= S /\ d - S = c
  BY <1>3, <1>6, <1>9
<1> QED
  BY <1>5, <1>10 DEF w, c, o

(* A manifest is of one run: its raw profile, its case ids, its analysis;    *)
(* and no two runs of one directory pass.                                   *)
THEOREM ManifestOfOneRun == Spec => []ManifestTrue
<1>1. ASSUME Inv PROVE ManifestTrue
  <2>1. TypeInv /\ ProcessInv /\ DirectoryInv
    BY <1>1 DEF Inv
  <2>2. ASSUME NEW p \in Procs, Behind(p, "manifest")
        PROVE  /\ manifest = [by |-> p, raw |-> p, first |-> 1 + opt[p].warmup,
                              iterations |-> opt[p].count]
               /\ manifest # None /\ parsed = {p}
    <3>1. manifest = [by |-> p, raw |-> p, first |-> 1 + opt[p].warmup,
                      iterations |-> opt[p].count]
      BY <2>1, <2>2 DEF DirectoryInv
    <3>2. opt[p].count \in Nat /\ 1 + opt[p].warmup \in Nat
      <4>1. opt[p] \in AnyOption /\ opt[p].tool = "profile"
        BY <2>1, <2>2, AtBounds, BehindIs
      <4> QED
        BY <4>1, ScriptSuits
    <3>3. manifest # None
      BY <3>1, <3>2, ScriptAssumption
    <3>4. \A q \in Procs : Behind(q, "copy") => Behind(q, "discover")
      <4> SUFFICES ASSUME NEW q \in Procs, Behind(q, "copy") PROVE Behind(q, "discover")
        OBVIOUS
      <4>1. session[q].at \in Nat /\ Len(ScriptOf(q)) \in Nat
        BY <2>1, AtBounds
      <4>2. opt[q].tool = "profile" /\ session[q].at >= Len(ScriptOf(q)) - 1
        BY <2>1, BehindIs
      <4>3. session[q].at >= Len(ScriptOf(q)) - 2
        BY <4>1, <4>2
      <4> QED
        BY <2>1, <4>2, <4>3, BehindIs
    <3>5. Behind(p, "copy") /\ Behind(p, "discover")
      <4>1. session[p].at \in Nat /\ Len(ScriptOf(p)) \in Nat
        BY <2>1, AtBounds
      <4>2. opt[p].tool = "profile" /\ session[p].at = Len(ScriptOf(p))
        BY <2>1, <2>2, BehindIs
      <4>3. session[p].at >= Len(ScriptOf(p)) - 1
        BY <4>1, <4>2
      <4>4. Behind(p, "copy")
        BY <2>1, <4>2, <4>3, BehindIs
      <4> QED
        BY <4>4, <3>4
    <3>6. parsed = {p}
      <4>1. parsed = {q \in Procs : Behind(q, "copy")}
        BY <2>1 DEF DirectoryInv
      <4>2. \A q \in Procs : Behind(q, "copy") => q = p
        BY <2>1, <3>4, <3>5 DEF DirectoryInv
      <4> QED
        BY <4>1, <4>2, <3>5
    <3> QED
      BY <3>1, <3>3, <3>6
  <2>3. ASSUME manifest # None
        PROVE  /\ manifest.raw = manifest.by /\ parsed = {manifest.by}
               /\ captured[manifest.by] = CaseIds(manifest.first, manifest.iterations)
    <3>1. PICK p \in Procs : Behind(p, "manifest")
      BY <2>1, <2>3 DEF DirectoryInv
    <3>2. /\ manifest.by = p /\ manifest.raw = p /\ manifest.first = 1 + opt[p].warmup
          /\ manifest.iterations = opt[p].count /\ parsed = {p}
      BY <2>2, <3>1
    <3>3. captured[p] = CaseIds(1 + opt[p].warmup, opt[p].count)
      BY <1>1, <3>1, CapturedAll
    <3> QED
      BY <3>2, <3>3
  <2>4. ASSUME NEW p \in Procs, opt[p].tool = "profile", status[p] = "passed"
        PROVE  manifest # None /\ manifest.by = p
    <3>1. Behind(p, "manifest")
      BY <2>1, <2>4 DEF DirectoryInv
    <3> QED
      BY <2>2, <3>1
  <2> QED
    BY <2>3, <2>4 DEF ManifestTrue
<1> QED
  BY <1>1, Invariance, PTL


=============================================================================
