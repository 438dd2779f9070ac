--------------------------- MODULE AsuKvCacheProofs ---------------------------
(***************************************************************************)
(* The tables of the managed contexts, for any number of layers, requests,  *)
(* blocks and slots, when there is a managed slot for every token and no    *)
(* selection holds a filler: resets, appended tokens and the kernel keep    *)
(* them together, and a prepared context is the running request's. Without  *)
(* preemption the record addresses and the copies stay right, so that the   *)
(* managed attention path implements the original one.                      *)
(***************************************************************************)
EXTENDS AsuKvCache, FiniteSetTheorems, TLAPS

\* What the configuration has to provide. Without the second part the kernel
\* resolves fillers, and without the first it pops an empty stack.
Roomy ==
  /\ MaxSeqLen <= ManagedSlots
  /\ \A p \in PromptLens : TopK <= p + 1

\* A context with the types of what SlotsExact speaks of.
IsContext(c) ==
  c \in [reqId : Reqs \cup {Invalid}, seqLen : 0..MaxSeqLen, state : [Tokens -> States],
         record : {c.record}, slotOf : [Tokens -> Slots \cup {Invalid}],
         owner : [Slots -> Tokens \cup {Invalid}], freeCount : 0..ManagedSlots,
         managed : {c.managed}]

\* SlotsExact for one context.
Exact(c) ==
  /\ IsContext(c)
  /\ \A t \in Resident(c) : c.slotOf[t] \in Slots /\ c.owner[c.slotOf[t]] = t
  /\ \A s \in Slots :
       IF s < c.freeCount THEN c.owner[s] = Invalid
       ELSE c.owner[s] \in Resident(c) /\ c.slotOf[c.owner[s]] = s

\* Every token a context has classified lies below its length, and that within
\* its request.
Classified(c) ==
  /\ c.seqLen \in 0..MaxSeqLen
  /\ c.reqId \in Reqs => c.seqLen <= len[c.reqId]
  /\ \A t \in Tokens : c.state[t] # Invalid => t < c.seqLen

\* The contexts are reset and extended together.
Together ==
  \A k, l \in AsuLayers : ctx[k].reqId = ctx[l].reqId /\ ctx[k].seqLen = ctx[l].seqLen

\* What the contexts rely on of the engine: a running request has tokens, and
\* enough of them for a selection once it decodes alone.
EngineInv ==
  /\ len \in [Reqs -> 0..MaxSeqLen]
  /\ \A r \in Reqs : len[r] > 0 => len[r] + 1 >= TopK
  /\ running \subseteq Reqs
  /\ \A r \in running : len[r] > 0
  /\ step # Idle =>
       /\ step \in [req : Reqs, layer : Nat, phase : {"write", "attend"}, topk : {step.topk}]
       /\ step.req \in running /\ len[step.req] >= TopK
       /\ step.phase = "attend" => step.topk \in Engine!Selections(len[step.req])

\* Between the preparing of the contexts and attention.
UnderWayInv ==
  /\ pos \in 0..(TopK + 1)
  /\ pos > 0 =>
       /\ UsesAsu
       /\ \A l \in AsuLayers : ctx[l].reqId = step.req /\ ctx[l].seqLen = len[step.req]

ContextInv ==
  /\ ctx = [l \in AsuLayers |-> ctx[l]]
  /\ \A l \in AsuLayers : Exact(ctx[l]) /\ Classified(ctx[l])
  /\ Together

IInv == EngineInv /\ ContextInv /\ UnderWayInv

-----------------------------------------------------------------------------
(* Constants, and what the context operators make of a context.             *)

LEMMA Sizes ==
  /\ MaxSeqLen \in Nat \ {0} /\ TopK \in Nat \ {0} /\ ManagedSlots \in Nat \ {0}
  /\ Tokens = 0..(MaxSeqLen - 1) /\ PromptLens \subseteq 1..MaxSeqLen
  /\ Invalid \notin Nat /\ Pad \notin Nat
  /\ Invalid # HbmResident /\ Invalid # AsuOnly /\ Invalid # TailHbm
  /\ AsuOnly # HbmResident /\ TailHbm # HbmResident
  BY AsuAssumption DEF Engine!SizesSound, Tokens, Engine!Tokens

LEMMA FreshExact ==
  /\ Exact(FreshContext) /\ Resident(FreshContext) = {}
  /\ FreshContext.seqLen = 0 /\ FreshContext.reqId = Invalid
  /\ \A t \in Tokens : FreshContext.state[t] = Invalid
<1>1. IsContext(FreshContext)
  BY Sizes DEF IsContext, FreshContext, States
<1>2. Resident(FreshContext) = {}
  BY Sizes DEF Resident, FreshContext
<1>3. /\ FreshContext.seqLen = 0 /\ FreshContext.reqId = Invalid
      /\ FreshContext.freeCount = ManagedSlots
      /\ \A t \in Tokens : FreshContext.state[t] = Invalid
      /\ \A s \in Slots : FreshContext.owner[s] = Invalid /\ s < ManagedSlots
  BY Sizes DEF FreshContext, Slots
<1> QED
  BY <1>1, <1>2, <1>3 DEF Exact

\* The context d serves n tokens of request r.
Serves(d, r, n) ==
  /\ Exact(d) /\ d.reqId = r /\ d.seqLen = n
  /\ \A t \in Tokens : d.state[t] # Invalid => t < n

\* The context d is c with one more resident token.
Installed(c, d, t) ==
  /\ Exact(d) /\ d.reqId = c.reqId /\ d.seqLen = c.seqLen
  /\ Resident(d) = Resident(c) \cup {t}
  /\ \A u \in Tokens : u # t => d.state[u] = c.state[u] /\ d.slotOf[u] = c.slotOf[u]
  /\ \A u \in Resident(c) : d.managed[c.slotOf[u]] = c.managed[c.slotOf[u]]

\* A reset leaves no token resident and every slot free.
LEMMA ResetEffect ==
  ASSUME NEW c, NEW r \in Reqs, NEW n \in 1..MaxSeqLen, NEW bt,
         NEW d, d = Reset(c, r, n, n - 1, bt)
  PROVE  Serves(d, r, n)
<1> DEFINE st == [t \in Tokens |-> CASE t < n - 1 -> AsuOnly
                                     [] t >= n - 1 /\ t < n -> TailHbm
                                     [] OTHER -> Invalid]
           rec == [t \in Tokens |-> IF t < n - 1 THEN Engine!SourceSlot(bt, t) ELSE Invalid]
<1>1. d = [FreshContext EXCEPT !.reqId = r, !.seqLen = n, !.managed = c.managed,
                               !.state = st, !.record = rec]
  BY DEF Reset
<1>2. st \in [Tokens -> States] /\ \A t \in Tokens : st[t] # HbmResident /\ (st[t] # Invalid => t < n)
  BY Sizes DEF States
<1> HIDE DEF st, rec
<1>3. /\ d.reqId = r /\ d.seqLen = n /\ d.state = st /\ d.freeCount = ManagedSlots
      /\ d.slotOf = [t \in Tokens |-> Invalid] /\ d.owner = [s \in Slots |-> Invalid]
      /\ d.record = rec /\ d.managed = c.managed
  BY <1>1 DEF FreshContext
<1>4. IsContext(d)
  <2>1. /\ n \in 0..MaxSeqLen /\ ManagedSlots \in 0..ManagedSlots
        /\ [t \in Tokens |-> Invalid] \in [Tokens -> Slots \cup {Invalid}]
        /\ [s \in Slots |-> Invalid] \in [Slots -> Tokens \cup {Invalid}]
    BY Sizes
  <2> QED
    BY <1>1, <1>2, <1>3, <2>1 DEF IsContext, FreshContext
<1>5. Resident(d) = {}
  BY <1>2, <1>3 DEF Resident
<1>6. Exact(d)
  BY <1>3, <1>4, <1>5, Sizes DEF Exact, Slots
<1> QED
  BY <1>2, <1>3, <1>6 DEF Serves

\* An appended token was not classified, and is not resident now.
LEMMA MarkEffect ==
  ASSUME NEW c, Exact(c), NEW n \in 1..MaxSeqLen, n > c.seqLen,
         \A t \in Tokens : c.state[t] # Invalid => t < c.seqLen
  PROVE  LET d == MarkDecodeToken(c, n - 1)
         IN  /\ Exact(d) /\ d.reqId = c.reqId /\ d.seqLen = n
             /\ \A t \in Tokens : d.state[t] # Invalid => t < n
             /\ Resident(d) = Resident(c) /\ d.slotOf = c.slotOf /\ d.managed = c.managed
<1> DEFINE d == MarkDecodeToken(c, n - 1)
           st == [c.state EXCEPT ![n - 1] = TailHbm]
<1>0. c.seqLen \in 0..MaxSeqLen /\ c.state \in [Tokens -> States]
  BY DEF Exact, IsContext
<1>1. d = [c EXCEPT !.seqLen = n, !.state = st]
  <2>1. (IF (n - 1) + 1 > c.seqLen THEN (n - 1) + 1 ELSE c.seqLen) = n
    BY <1>0
  <2>2. d = [c EXCEPT !.seqLen = IF (n - 1) + 1 > c.seqLen THEN (n - 1) + 1 ELSE c.seqLen,
                      !.state = st]
    BY DEF MarkDecodeToken
  <2> QED
    BY <2>1, <2>2
<1>2. st \in [Tokens -> States] /\ \A t \in Tokens : st[t] = IF t = n - 1 THEN TailHbm ELSE c.state[t]
  BY <1>0, Sizes DEF States
<1> HIDE DEF d, st
<1>3. /\ d.reqId = c.reqId /\ d.seqLen = n /\ d.state = st /\ d.freeCount = c.freeCount
      /\ d.slotOf = c.slotOf /\ d.owner = c.owner /\ d.managed = c.managed
      /\ d.record = c.record
  BY <1>1 DEF Exact, IsContext
<1>4. IsContext(d)
  <2>1. n \in 0..MaxSeqLen
    OBVIOUS
  <2> QED
    BY <1>1, <1>2, <1>3, <2>1 DEF Exact, IsContext
<1>5. Resident(d) = Resident(c)
  BY <1>0, <1>2, <1>3, Sizes DEF Resident
<1>6. Exact(d)
  BY <1>3, <1>4, <1>5 DEF Exact
<1>7. \A t \in Tokens : d.state[t] # Invalid => t < n
  BY <1>0, <1>2, <1>3, Sizes
<1> QED
  BY <1>3, <1>5, <1>6, <1>7 DEF d

\* A token that is not resident takes the slot on top of the stack.
LEMMA InstallEffect ==
  ASSUME NEW c, Exact(c), NEW t \in Tokens, c.state[t] # HbmResident, c.freeCount > 0,
         NEW state, NEW d, d = Install(c, t, state, c.freeCount - 1)
  PROVE  Installed(c, d, t)
<1> DEFINE slot == c.freeCount - 1
<1>0. /\ c.freeCount \in 1..ManagedSlots /\ slot \in Slots
      /\ c.state \in [Tokens -> States] /\ c.slotOf \in [Tokens -> Slots \cup {Invalid}]
      /\ c.owner \in [Slots -> Tokens \cup {Invalid}]
  BY Sizes DEF Exact, IsContext, Slots
<1> DEFINE st == [u \in Tokens |-> IF u = t THEN HbmResident ELSE c.state[u]]
           so == [u \in Tokens |-> IF u = t THEN slot ELSE c.slotOf[u]]
           ow == [s \in Slots |-> IF s = slot THEN t ELSE c.owner[s]]
           ma == [s \in Slots |-> IF s = slot THEN SourceRead(c, t, state) ELSE c.managed[s]]
<1>1. d = [c EXCEPT !.freeCount = slot, !.state = st, !.slotOf = so, !.owner = ow, !.managed = ma]
  BY DEF Install
<1>2. /\ st \in [Tokens -> States] /\ so \in [Tokens -> Slots \cup {Invalid}]
      /\ ow \in [Slots -> Tokens \cup {Invalid}] /\ slot \in 0..ManagedSlots
  BY <1>0, Sizes DEF States
<1> HIDE DEF st, so, ow, ma
<1>3. /\ d.reqId = c.reqId /\ d.seqLen = c.seqLen /\ d.freeCount = slot
      /\ d.state = st /\ d.slotOf = so /\ d.owner = ow /\ d.managed = ma
  BY <1>1 DEF Exact, IsContext
<1>4. IsContext(d)
  BY <1>1, <1>2, <1>3 DEF Exact, IsContext
<1>5. Resident(d) = Resident(c) \cup {t}
  BY <1>3 DEF Resident, st
<1>6. \A u \in Resident(c) : u \in Tokens /\ u # t /\ c.slotOf[u] \in Slots /\ c.slotOf[u] # slot
  <2> SUFFICES ASSUME NEW u \in Resident(c)
               PROVE  u \in Tokens /\ u # t /\ c.slotOf[u] \in Slots /\ c.slotOf[u] # slot
    OBVIOUS
  <2>1. u \in Tokens /\ u # t
    BY DEF Resident
  <2>2. c.slotOf[u] \in Slots /\ c.owner[c.slotOf[u]] = u
    BY DEF Exact
  <2>3. c.owner[slot] = Invalid
    BY <1>0 DEF Exact
  <2>4. u \in Nat
    BY <2>1, Sizes
  <2> QED
    BY <2>1, <2>2, <2>3, <2>4, Sizes
<1>7. ASSUME NEW u \in Resident(d)
      PROVE  d.slotOf[u] \in Slots /\ d.owner[d.slotOf[u]] = u
  <2>1. CASE u = t
    BY <1>0, <1>3, <2>1 DEF so, ow
  <2>2. CASE u # t
    <3>1. u \in Resident(c)
      BY <1>5, <1>7, <2>2
    <3>2. c.slotOf[u] \in Slots /\ c.owner[c.slotOf[u]] = u
      BY <3>1 DEF Exact
    <3> QED
      BY <1>3, <1>6, <2>2, <3>1, <3>2 DEF so, ow
  <2> QED
    BY <2>1, <2>2
<1>8. ASSUME NEW s \in Slots
      PROVE  IF s < d.freeCount THEN d.owner[s] = Invalid
             ELSE d.owner[s] \in Resident(d) /\ d.slotOf[d.owner[s]] = s
  <2>1. CASE s = slot
    <3>1. ~(s < d.freeCount)
      BY <1>0, <1>3, <2>1
    <3>2. d.owner[s] = t /\ d.slotOf[t] = slot
      BY <1>3, <2>1 DEF so, ow
    <3> QED
      BY <1>5, <2>1, <3>1, <3>2
  <2>2. CASE s < slot
    <3>1. s < c.freeCount
      BY <1>0, <2>2 DEF Slots
    <3>2. c.owner[s] = Invalid
      BY <3>1 DEF Exact
    <3>3. s # slot
      BY <1>0, <2>2 DEF Slots
    <3> QED
      BY <1>3, <2>2, <3>2, <3>3 DEF ow
  <2>3. CASE s # slot /\ ~(s < slot)
    <3>1. ~(s < c.freeCount)
      BY <1>0, <2>3 DEF Slots
    <3>2. c.owner[s] \in Resident(c) /\ c.slotOf[c.owner[s]] = s
      BY <3>1 DEF Exact
    <3>3. d.owner[s] = c.owner[s]
      BY <1>3, <2>3 DEF ow
    <3>4. d.slotOf[c.owner[s]] = s
      BY <1>3, <1>6, <3>2 DEF so
    <3> QED
      BY <1>3, <1>5, <2>3, <3>2, <3>3, <3>4
  <2> QED
    BY <2>1, <2>2, <2>3
<1>9. Exact(d)
  BY <1>4, <1>7, <1>8 DEF Exact
<1>10. \A u \in Tokens : u # t => d.state[u] = c.state[u] /\ d.slotOf[u] = c.slotOf[u]
  BY <1>3 DEF st, so
<1>11. \A u \in Resident(c) : d.managed[c.slotOf[u]] = c.managed[c.slotOf[u]]
  BY <1>3, <1>6 DEF ma
<1> QED
  BY <1>3, <1>5, <1>9, <1>10, <1>11 DEF Installed

-----------------------------------------------------------------------------
(* There is always a slot to pop: every slot that is not on the stack holds *)
(* a resident token of its own.                                             *)

LEMMA SlotLeft ==
  ASSUME Roomy, NEW c, Exact(c), NEW t \in Tokens, c.state[t] # HbmResident
  PROVE  c.freeCount > 0
<1> SUFFICES ASSUME c.freeCount = 0 PROVE FALSE
  BY DEF Exact, IsContext
<1> DEFINE others == Tokens \ {t}
           f == [s \in Slots |-> c.owner[s]]
<1>1. \A s \in Slots : c.owner[s] \in Resident(c) /\ c.slotOf[c.owner[s]] = s
  BY Sizes DEF Exact, Slots
<1>2. Resident(c) \subseteq others
  BY DEF Resident
<1>3. f \in [Slots -> others]
  BY <1>1, <1>2
<1>4. \A s, q \in Slots : f[s] = f[q] => s = q
  BY <1>1
<1>5. IsFiniteSet(Slots) /\ Cardinality(Slots) = ManagedSlots
  <2>1. PICK m \in Nat \ {0} : m = ManagedSlots
    BY Sizes
  <2>2. Cardinality(0..(m - 1)) = (IF 0 > m - 1 THEN 0 ELSE m - 1 - 0 + 1) /\ IsFiniteSet(0..(m - 1))
    BY FS_Interval
  <2>3. (IF 0 > m - 1 THEN 0 ELSE m - 1 - 0 + 1) = m
    OBVIOUS
  <2> QED
    BY <2>1, <2>2, <2>3 DEF Slots
<1>6. IsFiniteSet(others) /\ Cardinality(others) = MaxSeqLen - 1
  <2>1. PICK m \in Nat \ {0} : m = MaxSeqLen
    BY Sizes
  <2>2. Cardinality(0..(m - 1)) = (IF 0 > m - 1 THEN 0 ELSE m - 1 - 0 + 1) /\ IsFiniteSet(0..(m - 1))
    BY FS_Interval
  <2>3. (IF 0 > m - 1 THEN 0 ELSE m - 1 - 0 + 1) = m
    OBVIOUS
  <2>4. IsFiniteSet(Tokens) /\ Cardinality(Tokens) = m
    BY <2>1, <2>2, <2>3, Sizes
  <2> QED
    BY <2>1, <2>4, FS_RemoveElement
<1>7. Cardinality(others) < Cardinality(Slots)
  <2>1. PICK m \in Nat, n \in Nat : m = MaxSeqLen /\ n = ManagedSlots
    BY Sizes
  <2>2. m <= n
    BY <2>1 DEF Roomy
  <2>3. m - 1 < n
    BY <2>2
  <2> QED
    BY <1>5, <1>6, <2>1, <2>3
<1> HIDE DEF f, others
<1> QED
  BY <1>3, <1>4, <1>5, <1>6, <1>7, FS_PigeonHole

-----------------------------------------------------------------------------
(* The engine.                                                              *)

\* A request's tokens are never fewer after a step.
Longer == \A r \in Reqs : len'[r] >= len[r]

LEMMA EngineInit == Engine!Init => EngineInv
  BY Sizes DEF Engine!Init, EngineInv

LEMMA EngineBatch ==
  ASSUME Roomy, EngineInv, NEW prefills \in SUBSET Reqs, NEW decodes \in SUBSET Reqs,
         Engine!Batch(prefills, decodes)
  PROVE  EngineInv' /\ Longer
<1>1. PICK filled \in [prefills -> 1..MaxSeqLen] :
         /\ \A r \in prefills : filled[r] \in Engine!PrefillLens(r)
         /\ len' = [r \in Reqs |-> CASE r \in prefills -> filled[r]
                                     [] r \in decodes  -> len[r] + 1
                                     [] OTHER          -> len[r]]
  BY DEF Engine!Batch
<1>2. /\ step = Idle /\ step' = step /\ running' = running \cup prefills
      /\ prefills \cap running = {} /\ decodes \subseteq running
      /\ \A r \in decodes : len[r] < MaxSeqLen
  BY DEF Engine!Batch
<1>3. ASSUME NEW r \in Reqs
      PROVE  /\ len'[r] \in 0..MaxSeqLen /\ len'[r] >= len[r]
             /\ len'[r] > 0 => len'[r] + 1 >= TopK
             /\ r \in running' => len'[r] > 0
  <2>0. /\ len[r] \in 0..MaxSeqLen
        /\ len[r] > 0 => len[r] + 1 >= TopK
        /\ r \in running => len[r] > 0
    BY DEF EngineInv
  <2>m. PICK m \in 0..MaxSeqLen : m = len[r]
    BY <2>0
  <2>1. CASE r \in prefills
    <3>0. PICK f \in 1..MaxSeqLen : f = filled[r]
      BY <1>1, <2>1
    <3>1. len'[r] = f
      BY <1>1, <1>2, <2>1, <3>0
    <3>2. CASE len[r] = 0
      <4>1. filled[r] \in PromptLens
        BY <1>1, <2>1, <3>2 DEF Engine!PrefillLens
      <4>2. TopK <= f + 1
        BY <3>0, <4>1 DEF Roomy
      <4> QED
        BY <3>1, <3>2, <4>2, Sizes
    <3>3. CASE len[r] # 0
      <4>1. f = m + 1
        BY <1>1, <2>1, <2>m, <3>0, <3>3 DEF Engine!PrefillLens
      <4>2. m > 0 /\ m + 1 >= TopK
        BY <2>0, <2>m, <3>3
      <4> QED
        BY <2>m, <3>1, <4>1, <4>2, Sizes
    <3> QED
      BY <3>2, <3>3
  <2>2. CASE r \notin prefills /\ r \in decodes
    <3>1. len'[r] = m + 1
      BY <1>1, <2>2, <2>m
    <3>2. m < MaxSeqLen /\ m > 0 /\ m + 1 >= TopK
      BY <1>2, <2>0, <2>2, <2>m
    <3> QED
      BY <2>m, <3>1, <3>2, Sizes
  <2>3. CASE r \notin prefills /\ r \notin decodes
    <3>1. len'[r] = m
      BY <1>1, <2>3, <2>m
    <3>2. r \in running' => r \in running
      BY <1>2, <2>3
    <3> QED
      BY <2>0, <2>m, <3>1, <3>2
  <2> QED
    BY <2>1, <2>2, <2>3
<1>4. len' \in [Reqs -> 0..MaxSeqLen]
  BY <1>1, <1>3
<1>5. running' \subseteq Reqs
  BY <1>2 DEF EngineInv
<1> QED
  BY <1>2, <1>3, <1>4, <1>5 DEF EngineInv, Longer

LEMMA EngineBegin ==
  ASSUME Roomy, EngineInv, NEW r \in Reqs, Engine!BeginDecode(r)
  PROVE  EngineInv' /\ Longer
<1>1. /\ step = Idle /\ r \in running /\ len[r] < MaxSeqLen /\ len' = [len EXCEPT ![r] = @ + 1]
      /\ step' = [req |-> r, layer |-> 1, phase |-> "write", topk |-> << >>]
      /\ running' = running
  BY DEF Engine!BeginDecode
<1>2. ASSUME NEW q \in Reqs
      PROVE  /\ len'[q] \in 0..MaxSeqLen /\ len'[q] >= len[q]
             /\ len'[q] > 0 => len'[q] + 1 >= TopK
             /\ q \in running' => len'[q] > 0
             /\ q = r => len'[q] >= TopK
  <2>0. /\ len[q] \in 0..MaxSeqLen
        /\ len[q] > 0 => len[q] + 1 >= TopK
        /\ q \in running => len[q] > 0
    BY DEF EngineInv
  <2>m. PICK m \in 0..MaxSeqLen : m = len[q]
    BY <2>0
  <2>1. CASE q = r
    <3>1. len'[q] = m + 1 /\ m < MaxSeqLen /\ m > 0 /\ m + 1 >= TopK
      BY <1>1, <2>0, <2>1, <2>m DEF EngineInv
    <3> QED
      BY <2>m, <3>1, Sizes
  <2>2. CASE q # r
    <3>1. len'[q] = m
      BY <1>1, <2>2, <2>m DEF EngineInv
    <3> QED
      BY <1>1, <2>0, <2>2, <2>m, <3>1
  <2> QED
    BY <2>1, <2>2
<1>3. len' \in [Reqs -> 0..MaxSeqLen]
  BY <1>1, <1>2 DEF EngineInv
<1>4. /\ step' \in [req : Reqs, layer : Nat, phase : {"write", "attend"}, topk : {step'.topk}]
      /\ step'.req = r /\ step'.phase = "write"
  BY <1>1
<1> QED
  BY <1>1, <1>2, <1>3, <1>4 DEF EngineInv, Longer

LEMMA EngineRelease ==
  ASSUME EngineInv, NEW r \in Reqs, Engine!Release(r)
  PROVE  EngineInv' /\ Longer
<1>1. step = Idle /\ step' = step /\ len' = len /\ running' \subseteq running
  BY DEF Engine!Release
<1> QED
  BY <1>1 DEF EngineInv, Longer

LEMMA EngineWrite ==
  ASSUME EngineInv, Engine!WriteLayer
  PROVE  EngineInv' /\ len' = len
<1>1. PICK sel \in Engine!Selections(len[step.req]) :
         step' = [step EXCEPT !.phase = "attend", !.topk = sel]
  BY DEF Engine!WriteLayer
<1>2. step # Idle /\ len' = len /\ running' = running
  BY DEF Engine!WriteLayer
<1>3. /\ step'.req = step.req /\ step'.topk = sel /\ step'.phase = "attend"
      /\ step'.layer = step.layer
  BY <1>1, <1>2 DEF EngineInv
<1>4. step' \in [req : Reqs, layer : Nat, phase : {"write", "attend"}, topk : {step'.topk}]
  BY <1>1, <1>2, <1>3 DEF EngineInv
<1>5. Engine!Selections(len[step.req])' = Engine!Selections(len'[step'.req])
  BY <1>2, <1>3 DEF Engine!Selections
<1> QED
  BY <1>2, <1>3, <1>4, <1>5 DEF EngineInv

LEMMA EngineAttend ==
  ASSUME EngineInv, NEW kv, Engine!AttendTo(kv)
  PROVE  EngineInv' /\ len' = len
<1>1. step # Idle /\ len' = len /\ running' = running
  BY DEF Engine!AttendTo, Engine!Attending
<1>2. CASE step' = Idle
  BY <1>1, <1>2 DEF EngineInv
<1>3. CASE step' = [step EXCEPT !.layer = @ + 1, !.phase = "write", !.topk = << >>]
  <2>1. /\ step'.req = step.req /\ step'.topk = << >> /\ step'.phase = "write"
        /\ step'.layer = step.layer + 1
    BY <1>1, <1>3 DEF EngineInv
  <2>2. step.layer + 1 \in Nat
    BY <1>1 DEF EngineInv
  <2>3. step' \in [req : Reqs, layer : Nat, phase : {"write", "attend"}, topk : {step'.topk}]
    BY <1>1, <1>3, <2>1, <2>2 DEF EngineInv
  <2> QED
    BY <1>1, <2>1, <2>3 DEF EngineInv
<1> QED
  BY <1>2, <1>3 DEF Engine!AttendTo

-----------------------------------------------------------------------------
(* The contexts.                                                            *)

\* ResidentStays for one context.
Stays(c, d) ==
  d.reqId = c.reqId =>
    \A t \in Resident(c) :
      /\ t \in Resident(d) /\ d.slotOf[t] = c.slotOf[t]
      /\ d.managed[c.slotOf[t]] = c.managed[c.slotOf[t]]

LEMMA ContextsKept ==
  ASSUME EngineInv, ContextInv, Longer, ctx' = ctx, len' \in [Reqs -> 0..MaxSeqLen]
  PROVE  ContextInv'
<1>1. ASSUME NEW l \in AsuLayers
      PROVE  Exact(ctx'[l]) /\ Classified(ctx[l])'
  <2>1. Exact(ctx[l]) /\ Classified(ctx[l])
    BY DEF ContextInv
  <2>2. ASSUME ctx[l].reqId \in Reqs PROVE ctx[l].seqLen <= len'[ctx[l].reqId]
    <3>1. PICK a \in 0..MaxSeqLen, b \in 0..MaxSeqLen, c \in 0..MaxSeqLen :
            a = ctx[l].seqLen /\ b = len[ctx[l].reqId] /\ c = len'[ctx[l].reqId]
      BY <2>1, <2>2 DEF EngineInv, Classified
    <3>2. a <= b /\ c >= b
      BY <2>1, <2>2, <3>1 DEF Longer, Classified
    <3> QED
      BY <3>1, <3>2
  <2> QED
    BY <2>1, <2>2 DEF Classified
<1> QED
  BY <1>1 DEF ContextInv, Together, Exact, IsContext, Resident

LEMMA PrepareStep ==
  ASSUME EngineInv, ContextInv, UnderWayInv, Prepare
  PROVE  /\ ContextInv' /\ UnderWayInv'
         /\ \A k \in AsuLayers : Stays(ctx[k], ctx'[k])
<1> DEFINE l == step.layer  r == step.req  n == len[r]  bt == blockTable[r]
<1>1. /\ l \in AsuLayers /\ step # Idle /\ r \in Reqs
      /\ len' = len /\ step' = step /\ pos' = 1
  BY DEF Prepare, UsesAsu, Engine!Attending, EngineInv, engineVars
<1>2. PICK m \in 1..MaxSeqLen : m = n
  <2>1. n \in 0..MaxSeqLen /\ n > 0
    BY <1>1 DEF EngineInv
  <2> QED
    BY <2>1, Sizes
<1>3. ctx' = [k \in AsuLayers |->
                IF NeedsReset(ctx[l], r, m) THEN Reset(ctx[k], r, m, m - 1, bt)
                ELSE IF m > ctx[l].seqLen THEN MarkDecodeToken(ctx[k], m - 1)
                ELSE ctx[k]]
  BY <1>2 DEF Prepare, Prepared
<1>4. \A k \in AsuLayers : /\ Exact(ctx[k]) /\ Classified(ctx[k])
                           /\ ctx[k].reqId = ctx[l].reqId /\ ctx[k].seqLen = ctx[l].seqLen
  BY <1>1 DEF ContextInv, Together
<1>5. UsesAsu'
  BY <1>1 DEF Prepare, UsesAsu, Engine!Attending
<1> HIDE DEF l, r, n, bt
<1>6. ASSUME NEW k \in AsuLayers
      PROVE  /\ Exact(ctx'[k]) /\ ctx'[k].reqId = r /\ ctx'[k].seqLen = m
             /\ \A t \in Tokens : ctx'[k].state[t] # Invalid => t < m
             /\ Stays(ctx[k], ctx'[k])
  <2>1. CASE NeedsReset(ctx[l], r, m)
    <3>1. ctx'[k] = Reset(ctx[k], r, m, m - 1, bt)
      BY <1>3, <2>1
    <3>2. /\ Exact(ctx'[k]) /\ ctx'[k].reqId = r /\ ctx'[k].seqLen = m
          /\ \A t \in Tokens : ctx'[k].state[t] # Invalid => t < m
      <4>1. PICK q \in Reqs : q = r
        BY <1>1
      <4>2. PICK b, c, d : b = bt /\ c = ctx[k] /\ d = ctx'[k]
        OBVIOUS
      <4>3. d = Reset(c, q, m, m - 1, b)
        BY <3>1, <4>1, <4>2
      <4>4. Serves(d, q, m)
        BY <4>3, ResetEffect
      <4> QED
        BY <4>1, <4>2, <4>4 DEF Serves
    <3>3. ASSUME ctx[k].reqId = r PROVE Resident(ctx[k]) = {}
      <4>1. PICK a \in 0..MaxSeqLen : a = ctx[k].seqLen
        BY <1>4 DEF Classified
      <4>2. a <= m
        BY <1>1, <1>2, <1>4, <3>3, <4>1 DEF Classified, n
      <4>3. a = 0
        BY <1>4, <2>1, <3>3, <4>1, <4>2 DEF NeedsReset
      <4>4. \A t \in Tokens : ctx[k].state[t] = Invalid
        <5>1. \A t \in Tokens : ctx[k].state[t] # Invalid => t < 0
          BY <1>4, <4>1, <4>3 DEF Classified
        <5>2. \A t \in Tokens : ~(t < 0)
          BY Sizes
        <5> QED
          BY <5>1, <5>2
      <4> QED
        BY <4>4, Sizes DEF Resident
    <3> QED
      BY <3>2, <3>3 DEF Stays
  <2>2. CASE ~NeedsReset(ctx[l], r, m) /\ m > ctx[l].seqLen
    <3>1. ctx'[k] = MarkDecodeToken(ctx[k], m - 1)
      BY <1>3, <2>2
    <3>2. ctx[k].reqId = r /\ m > ctx[k].seqLen
      BY <1>4, <2>2 DEF NeedsReset
    <3>3. /\ Exact(ctx[k])
          /\ \A t \in Tokens : ctx[k].state[t] # Invalid => t < ctx[k].seqLen
      BY <1>4 DEF Classified
    <3>4. /\ Exact(ctx'[k]) /\ ctx'[k].reqId = ctx[k].reqId /\ ctx'[k].seqLen = m
          /\ \A t \in Tokens : ctx'[k].state[t] # Invalid => t < m
          /\ Resident(ctx'[k]) = Resident(ctx[k]) /\ ctx'[k].slotOf = ctx[k].slotOf
          /\ ctx'[k].managed = ctx[k].managed
      BY <3>1, <3>2, <3>3, MarkEffect
    <3> QED
      BY <3>2, <3>4 DEF Stays
  <2>3. CASE ~NeedsReset(ctx[l], r, m) /\ ~(m > ctx[l].seqLen)
    <3>1. ctx'[k] = ctx[k]
      BY <1>3, <2>3
    <3>2. PICK a \in 0..MaxSeqLen : a = ctx[k].seqLen
      BY <1>4 DEF Classified
    <3>3. a = m /\ ctx[k].reqId = r
      BY <1>4, <2>3, <3>2 DEF NeedsReset
    <3> QED
      BY <1>4, <3>1, <3>2, <3>3 DEF Stays, Classified
  <2> QED
    BY <2>1, <2>2, <2>3
<1>7. ctx' = [k \in AsuLayers |-> ctx'[k]]
  BY <1>3
<1>8. ContextInv'
  BY <1>1, <1>2, <1>6, <1>7 DEF ContextInv, Together, Classified, n, Exact, IsContext, Resident
<1>9. UnderWayInv'
  BY <1>1, <1>2, <1>5, <1>6, Sizes DEF UnderWayInv, r, n
<1> QED
  BY <1>6, <1>8, <1>9

\* The selected token is one of the request's.
LEMMA SelectionIsToken ==
  ASSUME EngineInv, Resolving
  PROVE  Selection \in Tokens /\ Selection # Pad /\ Selection < len[step.req]
<1>1. PICK m \in 0..MaxSeqLen, k \in Nat \ {0} : m = len[step.req] /\ k = TopK
  BY Sizes DEF EngineInv, Resolving, UsesAsu, Engine!Attending
<1>2. /\ k <= m /\ pos \in 1..k
      /\ step.topk \in [1..k -> (0..(m - 1)) \cup {Pad}]
      /\ \A i \in 1..k : (step.topk[i] = Pad) <=> (i > m)
  BY <1>1 DEF EngineInv, Resolving, UsesAsu, Engine!Attending, Engine!Selections
<1>3. step.topk[pos] # Pad
  BY <1>2
<1>4. step.topk[pos] \in 0..(m - 1)
  BY <1>2, <1>3
<1>5. step.topk[pos] \in 0..(MaxSeqLen - 1) /\ step.topk[pos] < m
  BY <1>4, Sizes
<1> QED
  BY <1>1, <1>3, <1>5, Sizes DEF Selection

LEMMA ResolveStep ==
  ASSUME Roomy, EngineInv, ContextInv, UnderWayInv, ResolveMissing
  PROVE  /\ ContextInv' /\ len' = len
         /\ \A k \in AsuLayers : /\ Stays(ctx[k], ctx'[k])
                                 /\ ctx'[k].reqId = ctx[k].reqId /\ ctx'[k].seqLen = ctx[k].seqLen
<1>0. PICK l \in AsuLayers : l = step.layer
  BY DEF ResolveMissing, Resolving, UsesAsu
<1>1. PICK state \in StatesRead(ctx[l], Selection) \ {HbmResident}, slot \in PoppedSlots(ctx[l]) :
         ctx' = [ctx EXCEPT ![l] = Install(@, Selection, state, slot)]
  BY <1>0 DEF ResolveMissing
<1>2. Resolving /\ len' = len
  BY DEF ResolveMissing, Resolving, UsesAsu, AdvanceTo, engineVars
<1>3. PICK t \in Tokens : t = Selection /\ t # Pad /\ t < len[step.req]
  BY <1>2, SelectionIsToken
<1>4. Exact(ctx[l]) /\ Classified(ctx[l]) /\ ctx[l].seqLen = len[step.req]
  BY <1>2 DEF ContextInv, UnderWayInv, Resolving
<1>5. ctx[l].state[t] # HbmResident
  BY <1>1, <1>3 DEF StatesRead
<1>6. ctx[l].freeCount > 0
  BY <1>4, <1>5, SlotLeft
<1>7. slot = ctx[l].freeCount - 1
  BY <1>1, <1>6 DEF PoppedSlots
<1>8. /\ ctx'[l] = Install(ctx[l], t, state, ctx[l].freeCount - 1)
      /\ \A k \in AsuLayers : k # l => ctx'[k] = ctx[k]
      /\ ctx' = [k \in AsuLayers |-> ctx'[k]]
  BY <1>1, <1>2, <1>3, <1>7 DEF ContextInv
<1> DEFINE c == ctx[l]  d == ctx'[l]
<1>9. /\ Exact(d) /\ d.reqId = c.reqId /\ d.seqLen = c.seqLen
      /\ Resident(d) = Resident(c) \cup {t}
      /\ \A u \in Tokens : u # t => d.state[u] = c.state[u] /\ d.slotOf[u] = c.slotOf[u]
      /\ \A u \in Resident(c) : d.managed[c.slotOf[u]] = c.managed[c.slotOf[u]]
  <2>1. PICK a, b : a = c /\ b = d
    OBVIOUS
  <2>2. /\ Exact(a) /\ a.state[t] # HbmResident /\ a.freeCount > 0
        /\ b = Install(a, t, state, a.freeCount - 1)
    BY <1>4, <1>5, <1>6, <1>8, <2>1
  <2>3. Installed(a, b, t)
    BY <2>2, InstallEffect
  <2> QED
    BY <2>1, <2>3 DEF Installed
<1>10. \A u \in Resident(c) : u \in Tokens /\ u # t
  BY <1>5 DEF Resident
<1>11. Stays(c, d)
  BY <1>9, <1>10 DEF Stays
<1>12. \A u \in Tokens : d.state[u] # Invalid => u < d.seqLen
  <2> SUFFICES ASSUME NEW u \in Tokens, d.state[u] # Invalid PROVE u < d.seqLen
    OBVIOUS
  <2>1. CASE u = t
    BY <1>3, <1>4, <1>9, <2>1
  <2>2. CASE u # t
    BY <1>4, <1>9, <2>2 DEF Classified
  <2> QED
    BY <2>1, <2>2
<1>13. Classified(c)'
  BY <1>2, <1>4, <1>9, <1>12 DEF Classified
<1> HIDE DEF c, d
<1>14. ASSUME NEW k \in AsuLayers
       PROVE  /\ Stays(ctx[k], ctx'[k]) /\ Exact(ctx'[k]) /\ Classified(ctx[k])'
              /\ ctx'[k].reqId = ctx[k].reqId /\ ctx'[k].seqLen = ctx[k].seqLen
  <2>1. CASE k = l
    BY <1>9, <1>11, <1>13, <2>1 DEF c, d
  <2>2. CASE k # l
    <3>1. ctx'[k] = ctx[k] /\ Exact(ctx[k]) /\ Classified(ctx[k])
      BY <1>8, <2>2 DEF ContextInv
    <3> QED
      BY <1>2, <3>1 DEF Stays, Classified, Resident
  <2> QED
    BY <2>1, <2>2
<1> QED
  BY <1>2, <1>8, <1>14 DEF ContextInv, Together

\* Steps that leave the contexts alone.
LEMMA EngineStep ==
  ASSUME IInv, EngineInv', Longer, ctx' = ctx, pos' = 0
  PROVE  IInv' /\ \A k \in AsuLayers : Stays(ctx[k], ctx'[k])
<1>1. ContextInv'
  BY ContextsKept DEF IInv, EngineInv
<1>2. UnderWayInv'
  BY Sizes DEF UnderWayInv
<1> QED
  BY <1>1, <1>2 DEF IInv, Stays

LEMMA SameLonger == ASSUME EngineInv, len' = len PROVE Longer
<1> SUFFICES ASSUME NEW r \in Reqs PROVE len'[r] >= len[r]
  BY DEF Longer
<1>1. PICK a \in 0..MaxSeqLen : a = len[r]
  BY DEF EngineInv
<1> QED
  BY <1>1

-----------------------------------------------------------------------------
LEMMA InitIInv == Init => IInv
<1> SUFFICES ASSUME Init PROVE IInv
  OBVIOUS
<1>1. EngineInv
  BY EngineInit DEF Init
<1>2. ctx = [l \in AsuLayers |-> FreshContext]
  BY DEF Init
<1>3. PICK c : c = FreshContext
  OBVIOUS
<1>4. /\ Exact(c) /\ c.seqLen = 0 /\ c.reqId = Invalid
      /\ \A t \in Tokens : c.state[t] = Invalid
  BY <1>3, FreshExact
<1>5. ASSUME NEW l \in AsuLayers PROVE ctx[l] = c
  BY <1>2, <1>3
<1>6. Classified(c)
  <2>1. 0 \in 0..MaxSeqLen
    BY Sizes
  <2>2. c.reqId \in Reqs => 0 <= len[c.reqId]
    BY <1>1 DEF EngineInv
  <2> QED
    BY <1>4, <2>1, <2>2 DEF Classified
<1>7. ContextInv
  BY <1>2, <1>4, <1>5, <1>6 DEF ContextInv, Together
<1>8. UnderWayInv
  BY Sizes DEF Init, UnderWayInv
<1> QED
  BY <1>1, <1>7, <1>8 DEF IInv

LEMMA NextIInv ==
  ASSUME Roomy, IInv, [Next]_vars
  PROVE  IInv' /\ \A k \in AsuLayers : Stays(ctx[k], ctx'[k])
<1> USE DEF IInv
<1>idle. step = Idle \/ step.phase = "write" \/ step.layer \notin AsuLayers => pos = 0
  BY DEF UnderWayInv, UsesAsu, Engine!Attending
<1>1. ASSUME NEW prefills \in SUBSET Reqs, NEW decodes \in SUBSET Reqs,
             Engine!Batch(prefills, decodes), UNCHANGED <<ctx, pos, resolved>>
      PROVE  IInv' /\ \A k \in AsuLayers : Stays(ctx[k], ctx'[k])
  <2>1. step = Idle
    BY <1>1 DEF Engine!Batch
  <2> QED
    BY <1>1, <1>idle, <2>1, EngineBatch, EngineStep
<1>2. ASSUME NEW r \in Reqs, Engine!BeginDecode(r), UNCHANGED <<ctx, pos, resolved>>
      PROVE  IInv' /\ \A k \in AsuLayers : Stays(ctx[k], ctx'[k])
  <2>1. step = Idle
    BY <1>2 DEF Engine!BeginDecode
  <2> QED
    BY <1>2, <1>idle, <2>1, EngineBegin, EngineStep
<1>3. ASSUME NEW r \in Reqs, Engine!Finish(r) \/ Engine!Preempt(r), UNCHANGED <<ctx, pos, resolved>>
      PROVE  IInv' /\ \A k \in AsuLayers : Stays(ctx[k], ctx'[k])
  <2>1. Engine!Release(r)
    BY <1>3 DEF Engine!Finish, Engine!Preempt
  <2>2. step = Idle
    BY <2>1 DEF Engine!Release
  <2> QED
    BY <1>3, <1>idle, <2>1, <2>2, EngineRelease, EngineStep
<1>4. ASSUME Write
      PROVE  IInv' /\ \A k \in AsuLayers : Stays(ctx[k], ctx'[k])
  <2>1. Engine!WriteLayer /\ step.phase = "write" /\ ctx' = ctx /\ pos' = pos
    BY <1>4 DEF Write, Engine!WriteLayer
  <2>2. EngineInv' /\ len' = len
    BY <2>1, EngineWrite
  <2> QED
    BY <1>idle, <2>1, <2>2, SameLonger, EngineStep
<1>5. ASSUME AttendOriginal
      PROVE  IInv' /\ \A k \in AsuLayers : Stays(ctx[k], ctx'[k])
  <2>1. /\ step.layer \notin AsuLayers /\ ctx' = ctx /\ pos' = pos
        /\ Engine!AttendTo([i \in Engine!Selected |->
                    original[step.layer][Engine!SourceSlot(blockTable[step.req], step.topk[i])]])
    BY <1>5 DEF AttendOriginal, Engine!Attend
  <2>2. EngineInv' /\ len' = len
    BY <2>1, EngineAttend
  <2> QED
    BY <1>idle, <2>1, <2>2, SameLonger, EngineStep
<1>6. ASSUME AttendManaged
      PROVE  IInv' /\ \A k \in AsuLayers : Stays(ctx[k], ctx'[k])
  <2>1. ctx' = ctx /\ pos' = 0 /\ \E kv : Engine!AttendTo(kv)
    BY <1>6 DEF AttendManaged
  <2>2. EngineInv' /\ len' = len
    BY <2>1, EngineAttend
  <2> QED
    BY <2>1, <2>2, SameLonger, EngineStep
<1>7. ASSUME Prepare
      PROVE  IInv' /\ \A k \in AsuLayers : Stays(ctx[k], ctx'[k])
  <2>1. EngineInv'
    BY <1>7 DEF Prepare, engineVars, EngineInv, Engine!Selections
  <2> QED
    BY <1>7, <2>1, PrepareStep
<1>8. ASSUME Resolving, engineVars' = engineVars, pos' = pos + 1
      PROVE  /\ EngineInv' /\ len' = len /\ step' = step
             /\ pos' \in 0..(TopK + 1) /\ UsesAsu'
             /\ pos > 0
  <2>1. EngineInv'
    BY <1>8 DEF engineVars, EngineInv, Engine!Selections
  <2>2. pos' \in 0..(TopK + 1) /\ pos > 0
    BY <1>8, Sizes DEF Resolving
  <2> QED
    BY <1>8, <2>1, <2>2 DEF Resolving, UsesAsu, Engine!Attending, engineVars
<1>9. ASSUME ResolveResident
      PROVE  IInv' /\ \A k \in AsuLayers : Stays(ctx[k], ctx'[k])
  <2>1. Resolving /\ engineVars' = engineVars /\ pos' = pos + 1 /\ ctx' = ctx
    BY <1>9 DEF ResolveResident, AdvanceTo
  <2>2. UnderWayInv'
    BY <1>8, <2>1 DEF UnderWayInv
  <2>3. ContextInv'
    BY <1>8, <2>1, SameLonger, ContextsKept DEF EngineInv
  <2> QED
    BY <1>8, <2>1, <2>2, <2>3 DEF Stays
<1>10. ASSUME ResolveMissing
       PROVE  IInv' /\ \A k \in AsuLayers : Stays(ctx[k], ctx'[k])
  <2>1. Resolving /\ engineVars' = engineVars /\ pos' = pos + 1
    BY <1>10 DEF ResolveMissing, AdvanceTo
  <2>2. /\ ContextInv'
        /\ \A k \in AsuLayers : /\ Stays(ctx[k], ctx'[k])
                                /\ ctx'[k].reqId = ctx[k].reqId /\ ctx'[k].seqLen = ctx[k].seqLen
    BY <1>10, ResolveStep
  <2>3. UnderWayInv'
    BY <1>8, <2>1, <2>2 DEF UnderWayInv
  <2> QED
    BY <1>8, <2>1, <2>2, <2>3
<1>11. CASE UNCHANGED vars
  <2>1. EngineInv' /\ ctx' = ctx
    BY <1>11 DEF vars, engineVars, EngineInv, Engine!Selections
  <2>2. UnderWayInv'
    BY <1>11 DEF vars, engineVars, UnderWayInv, UsesAsu, Engine!Attending
  <2>3. len' = len
    BY <1>11 DEF vars, engineVars
  <2>4. ContextInv'
    BY <2>1, <2>3, SameLonger, ContextsKept DEF EngineInv
  <2> QED
    BY <2>1, <2>2, <2>4 DEF Stays
<1> QED
  BY <1>1, <1>2, <1>3, <1>4, <1>5, <1>6, <1>7, <1>9, <1>10, <1>11 DEF Next, Schedule, Work

-----------------------------------------------------------------------------
(* The theorems.                                                            *)

\* The tables, the contexts' common request and the engine's lengths hold
\* together in every reachable state.
THEOREM Invariance == Roomy /\ Spec => []IInv
<1> SUFFICES ASSUME Roomy PROVE Spec => []IInv
  OBVIOUS
<1>1. IInv /\ [Next]_vars => IInv'
  BY NextIInv
<1> QED
  BY <1>1, InitIInv, PTL DEF Spec

\* Resident tokens and taken slots name each other, and the taken slots are
\* those popped, through every reset, appended token and kernel entry.
THEOREM TablesAgree == Roomy /\ Spec => []SlotsExact
<1>1. IInv => SlotsExact
  BY DEF IInv, ContextInv, Exact, SlotsExact
<1> QED
  BY <1>1, Invariance, PTL

\* A prepared context is the running request's, whichever layer prepared it.
THEOREM PreparedForRequest == Roomy /\ Spec => []ContextOwnsRequest
<1>1. IInv => ContextOwnsRequest
  <2> SUFFICES ASSUME IInv, NEW l \in AsuLayers, UnderWay(l)
               PROVE  /\ ctx[l].reqId = step.req
                      /\ ctx[l].seqLen = len[step.req]
                      /\ \A t \in Tokens : ctx[l].state[t] # Invalid => t < len[step.req]
    BY DEF ContextOwnsRequest
  <2>1. ctx[l].reqId = step.req /\ ctx[l].seqLen = len[step.req]
    BY DEF IInv, UnderWayInv, UnderWay
  <2> QED
    BY <2>1 DEF IInv, ContextInv, Classified
<1> QED
  BY <1>1, Invariance, PTL

\* While a context serves one request, no resident token loses its slot or its
\* copy: neither preparing nor the kernel hands a taken slot out again.
THEOREM ResidentKept == Roomy /\ Spec => ResidentStays
<1> SUFFICES ASSUME Roomy PROVE Spec => ResidentStays
  OBVIOUS
<1> DEFINE A == \A l \in AsuLayers : \A t \in Tokens :
                  ctx[l].state[t] = HbmResident /\ ctx'[l].reqId = ctx[l].reqId =>
                    /\ ctx'[l].state[t] = HbmResident
                    /\ ctx'[l].slotOf[t] = ctx[l].slotOf[t]
                    /\ ctx'[l].managed[ctx[l].slotOf[t]] = ctx[l].managed[ctx[l].slotOf[t]]
<1>1. IInv /\ [Next]_vars => [A]_vars
  BY NextIInv DEF Stays, Resident
<1>2. Spec => []IInv
  BY Invariance
<1>3. ResidentStays <=> [][A]_vars
  BY DEF ResidentStays
<1> HIDE DEF A
<1> QED
  BY <1>1, <1>2, <1>3, PTL DEF Spec

-----------------------------------------------------------------------------
(***************************************************************************)
(* Record addresses, when no request is preempted: what a reset computes from *)
(* the block table stays the place of the token's KV, since a request's    *)
(* blocks are only added to until it has finished.                         *)
(***************************************************************************)

NoPreemption == Preemptible = {}

\* A sequence, of whatever it may be.
IsTable(bt) == \E S : bt \in Seq(S)

BlocksInv ==
  /\ blockTable = [r \in Reqs |-> blockTable[r]]
  /\ \A r \in Reqs : IsTable(blockTable[r])
  /\ \A r \in running : Engine!BlocksFor(len[r]) <= Len(blockTable[r])
  /\ running \cap finished = {}

\* A context that has tokens is of a request that has not left unfinished.
Known(c) == c.seqLen > 0 => c.reqId \in running \cup finished

\* The addresses a context may still use.
Sourced(c) ==
  c.reqId \in running =>
    \A t \in Tokens : c.state[t] = AsuOnly =>
      c.record[t] = Engine!SourceSlot(blockTable[c.reqId], t)

RecordInv == BlocksInv /\ \A l \in AsuLayers : Known(ctx[l]) /\ Sourced(ctx[l])

\* The context d has the addresses of c, for no further tokens.
NoNewSources(c, d) ==
  /\ d.reqId = c.reqId /\ d.record = c.record /\ (d.seqLen > 0 => c.seqLen > 0)
  /\ \A t \in Tokens : d.state[t] = AsuOnly => c.state[t] = AsuOnly

-----------------------------------------------------------------------------
(* Arithmetic of blocks.                                                    *)

LEMMA Division ==
  ASSUME NEW a \in Nat, NEW b \in Nat \ {0}
  PROVE  a \div b \in Nat /\ b * (a \div b) <= a /\ a < b * (a \div b) + b
  OBVIOUS

\* The block of a token is one of those for any longer sequence.
LEMMA BlockOfToken ==
  ASSUME NEW t \in Nat, NEW n \in Nat, NEW b \in Nat \ {0}, t < n
  PROVE  (t \div b) + 1 <= (n + b - 1) \div b
<1>1. t + b <= n + b - 1
  OBVIOUS
<1>2. PICK q \in Nat : q = t \div b /\ b * q <= t
  BY Division
<1>3. PICK p \in Nat : p = (n + b - 1) \div b /\ n + b - 1 < b * p + b
  BY Division
<1>4. b * q < b * p
  BY <1>1, <1>2, <1>3
<1>5. q < p
  <2>1. ASSUME p <= q PROVE b * p <= b * q
    BY <2>1
  <2> QED
    BY <1>4, <2>1
<1> QED
  BY <1>2, <1>3, <1>5

\* The same slot is found in every table that begins with this one.
LEMMA SameSource ==
  ASSUME NEW n \in Nat, NEW t \in Nat, t < n, NEW bt, NEW new,
         IsTable(bt), Engine!BlocksFor(n) <= Len(bt),
         \A b \in 1..Len(bt) : new[b] = bt[b]
  PROVE  Engine!SourceSlot(new, t) = Engine!SourceSlot(bt, t)
<1>1. PICK B \in Nat \ {0} : B = BlockSize
  BY AsuAssumption DEF Engine!SizesSound
<1>2. PICK k \in Nat : k = Len(bt)
  BY DEF IsTable
<1>3. (n + B - 1) \div B <= k
  BY <1>1, <1>2 DEF Engine!BlocksFor
<1>4. PICK i \in Nat : i = t \div B
  BY Division
<1>5. PICK q \in Nat : q = (n + B - 1) \div B
  <2>1. n + B - 1 \in Nat
    OBVIOUS
  <2> QED
    BY <2>1, Division
<1>6. i + 1 <= q
  BY <1>4, <1>5, BlockOfToken
<1>7. i + 1 \in 1..k
  BY <1>3, <1>5, <1>6
<1>8. new[i + 1] = bt[i + 1]
  BY <1>2, <1>7
<1> QED
  BY <1>1, <1>4, <1>8 DEF Engine!SourceSlot

LEMMA SequenceMade ==
  ASSUME NEW k \in Nat, NEW f, f = [b \in 1..k |-> f[b]]
  PROVE  IsTable(f) /\ Len(f) = k
<1> DEFINE S == {f[b] : b \in 1..k}
<1>1. f \in [1..k -> S]
  OBVIOUS
<1> HIDE DEF S
<1>2. f \in Seq(S)
  BY <1>1
<1> QED
  BY <1>1, <1>2 DEF IsTable

\* Tables are only extended, to hold what they are extended for.
LEMMA Allocated ==
  ASSUME BlocksInv, NEW newLen, \A r \in Reqs : newLen[r] \in Nat, Engine!Allocate(newLen)
  PROVE  /\ blockTable' = [r \in Reqs |-> blockTable'[r]]
         /\ \A r \in Reqs :
              /\ IsTable(blockTable'[r]) /\ Len(blockTable'[r]) >= Len(blockTable[r])
              /\ Len(blockTable'[r]) >= Engine!BlocksFor(newLen[r])
              /\ \A b \in 1..Len(blockTable[r]) : blockTable'[r][b] = blockTable[r][b]
<1>1. PICK given :
        blockTable' =
          [r \in Reqs |->
            [b \in 1..(IF Engine!BlocksFor(newLen[r]) > Len(blockTable[r])
                       THEN Engine!BlocksFor(newLen[r]) ELSE Len(blockTable[r])) |->
                IF b <= Len(blockTable[r]) THEN blockTable[r][b] ELSE given[<<r, b>>]]]
  BY DEF Engine!Allocate
<1>2. ASSUME NEW r \in Reqs
      PROVE  /\ IsTable(blockTable'[r]) /\ Len(blockTable'[r]) >= Len(blockTable[r])
             /\ Len(blockTable'[r]) >= Engine!BlocksFor(newLen[r])
             /\ \A b \in 1..Len(blockTable[r]) : blockTable'[r][b] = blockTable[r][b]
  <2>1. PICK old \in Nat : old = Len(blockTable[r])
    BY DEF BlocksInv, IsTable
  <2>2. PICK new \in Nat : new = Engine!BlocksFor(newLen[r])
    <3>1. PICK B \in Nat \ {0}, n \in Nat : B = BlockSize /\ n = newLen[r]
      BY AsuAssumption DEF Engine!SizesSound
    <3>2. (n + B - 1) \div B \in Nat
      BY Division
    <3> QED
      BY <3>1, <3>2 DEF Engine!BlocksFor
  <2>3. PICK k \in Nat : k = IF new > old THEN new ELSE old
    OBVIOUS
  <2>4. PICK f : f = blockTable'[r]
    OBVIOUS
  <2>5. f = [b \in 1..k |-> IF b <= old THEN blockTable[r][b] ELSE given[<<r, b>>]]
    BY <1>1, <2>1, <2>2, <2>3, <2>4
  <2>6. IsTable(f) /\ Len(f) = k
    <3>1. f = [b \in 1..k |-> f[b]]
      BY <2>5
    <3> QED
      BY <3>1, SequenceMade
  <2>7. \A b \in 1..old : f[b] = blockTable[r][b]
    BY <2>3, <2>5
  <2> QED
    BY <2>1, <2>2, <2>3, <2>4, <2>6, <2>7
<1> QED
  BY <1>1, <1>2

-----------------------------------------------------------------------------
(* What the context operators do to the addresses.                          *)

\* The addresses of the context d are those of the table bt.
From(d, bt) ==
  \A t \in Tokens : d.state[t] = AsuOnly => d.record[t] = Engine!SourceSlot(bt, t)

LEMMA ResetSources ==
  ASSUME NEW c, NEW r \in Reqs, NEW n \in 1..MaxSeqLen, NEW bt,
         NEW d, d = Reset(c, r, n, n - 1, bt)
  PROVE  From(d, bt)
<1> DEFINE st == [t \in Tokens |-> CASE t < n - 1 -> AsuOnly
                                     [] t >= n - 1 /\ t < n -> TailHbm
                                     [] OTHER -> Invalid]
           rec == [t \in Tokens |-> IF t < n - 1 THEN Engine!SourceSlot(bt, t) ELSE Invalid]
<1>1. d = [FreshContext EXCEPT !.reqId = r, !.seqLen = n, !.managed = c.managed,
                               !.state = st, !.record = rec]
  BY DEF Reset
<1>2. ASSUME NEW t \in Tokens, st[t] = AsuOnly PROVE rec[t] = Engine!SourceSlot(bt, t)
  <2>1. t < n - 1
    BY <1>2, Sizes, AsuAssumption
  <2> QED
    BY <2>1
<1> HIDE DEF st, rec
<1>3. d.state = st /\ d.record = rec
  BY <1>1 DEF FreshContext
<1> QED
  BY <1>2, <1>3 DEF From

LEMMA MarkSources ==
  ASSUME NEW c, Exact(c), NEW n \in Nat, c.seqLen > 0, NEW d, d = MarkDecodeToken(c, n)
  PROVE  NoNewSources(c, d)
<1> DEFINE st == [c.state EXCEPT ![n] = TailHbm]
           sl == IF n + 1 > c.seqLen THEN n + 1 ELSE c.seqLen
<1>1. d = [c EXCEPT !.seqLen = sl, !.state = st]
  BY DEF MarkDecodeToken
<1>2. \A t \in Tokens : st[t] = AsuOnly => c.state[t] = AsuOnly
  BY AsuAssumption DEF Exact, IsContext
<1> HIDE DEF st, sl
<1>3. d.reqId = c.reqId /\ d.record = c.record /\ d.state = st
  BY <1>1 DEF Exact, IsContext
<1> QED
  BY <1>2, <1>3 DEF NoNewSources

LEMMA InstallSources ==
  ASSUME NEW c, Exact(c), NEW t, NEW state, NEW slot, NEW d, d = Install(c, t, state, slot)
  PROVE  NoNewSources(c, d)
<1> DEFINE st == [u \in Tokens |-> IF u = t THEN HbmResident ELSE c.state[u]]
           so == [u \in Tokens |-> IF u = t THEN slot ELSE c.slotOf[u]]
           ow == [s \in Slots |-> IF s = slot THEN t ELSE c.owner[s]]
           ma == [s \in Slots |-> IF s = slot THEN SourceRead(c, t, state) ELSE c.managed[s]]
           fc == c.freeCount - 1
<1>1. d = [c EXCEPT !.freeCount = fc, !.state = st, !.slotOf = so, !.owner = ow, !.managed = ma]
  BY DEF Install
<1>2. \A u \in Tokens : st[u] = AsuOnly => c.state[u] = AsuOnly
  BY Sizes
<1> HIDE DEF st, so, ow, ma, fc
<1>3. d.reqId = c.reqId /\ d.record = c.record /\ d.state = st /\ d.seqLen = c.seqLen
  BY <1>1 DEF Exact, IsContext
<1> QED
  BY <1>2, <1>3 DEF NoNewSources

\* Without new addresses, and with the same tables, the addresses stay right.
LEMMA SourcesKept ==
  ASSUME RecordInv, UNCHANGED <<running, finished, len, blockTable>>,
         ctx' = [k \in AsuLayers |-> ctx'[k]],
         \A k \in AsuLayers : NoNewSources(ctx[k], ctx'[k])
  PROVE  RecordInv'
<1>1. BlocksInv'
  BY DEF RecordInv, BlocksInv, Engine!BlocksFor, IsTable
<1>2. ASSUME NEW k \in AsuLayers PROVE Known(ctx[k])' /\ Sourced(ctx[k])'
  <2>1. PICK c, d : c = ctx[k] /\ d = ctx'[k]
    OBVIOUS
  <2>2. NoNewSources(c, d) /\ Known(c) /\ Sourced(c)
    BY <2>1 DEF RecordInv
  <2>3. Known(d)
    BY <2>2 DEF NoNewSources, Known
  <2>4. Sourced(d)
    BY <2>2 DEF NoNewSources, Sourced
  <2> QED
    BY <2>1, <2>3, <2>4 DEF Known, Sourced
<1> QED
  BY <1>1, <1>2 DEF RecordInv

\* A step of the engine that only extends tables: of requests that run, or that
\* no context knows.
LEMMA TablesGrow ==
  ASSUME IInv, RecordInv, ctx' = ctx, finished' = finished,
         NEW prefills \in SUBSET Reqs, prefills \cap (running \cup finished) = {},
         running' = running \cup prefills,
         NEW newLen, \A r \in Reqs : newLen[r] \in Nat, Engine!Allocate(newLen),
         \A r \in running' : newLen[r] = len'[r] \/ (r \in running /\ len'[r] = len[r])
  PROVE  RecordInv'
<1>1. /\ blockTable' = [r \in Reqs |-> blockTable'[r]]
      /\ \A r \in Reqs :
           /\ IsTable(blockTable'[r]) /\ Len(blockTable'[r]) >= Len(blockTable[r])
           /\ Len(blockTable'[r]) >= Engine!BlocksFor(newLen[r])
           /\ \A b \in 1..Len(blockTable[r]) : blockTable'[r][b] = blockTable[r][b]
  BY Allocated DEF RecordInv
<1>2. ASSUME NEW r \in running' PROVE Engine!BlocksFor(len'[r]) <= Len(blockTable'[r])
  <2>0. r \in Reqs
    BY <1>2 DEF IInv, EngineInv
  <2>1. CASE newLen[r] = len'[r]
    <3>1. PICK n : n = newLen[r]
      OBVIOUS
    <3>2. Len(blockTable'[r]) >= Engine!BlocksFor(n)
      BY <1>1, <2>0, <3>1
    <3>3. PICK k \in Nat : k = Len(blockTable'[r])
      BY <1>1, <2>0 DEF IsTable
    <3> QED
      BY <2>1, <3>1, <3>2, <3>3 DEF Engine!BlocksFor
  <2>2. CASE r \in running /\ len'[r] = len[r]
    <3>0. IsTable(blockTable[r]) /\ IsTable(blockTable'[r])
      BY <1>1, <2>0 DEF RecordInv, BlocksInv
    <3>j. PICK j \in Nat : j = Len(blockTable[r])
      BY <3>0 DEF IsTable
    <3>k. PICK k \in Nat : k = Len(blockTable'[r])
      BY <3>0 DEF IsTable
    <3>1. j = Len(blockTable[r]) /\ k = Len(blockTable'[r])
      BY <3>j, <3>k
    <3>2. k >= j
      BY <1>1, <2>0, <3>1
    <3>3. PICK n \in Nat, B \in Nat \ {0} : n = len[r] /\ B = BlockSize
      BY <2>0, AsuAssumption DEF IInv, EngineInv, Engine!SizesSound
    <3>4. PICK q \in Nat : q = (n + B - 1) \div B
      <4>1. n + B - 1 \in Nat
        OBVIOUS
      <4> QED
        BY <4>1, Division
    <3>5. q <= j
      BY <2>2, <3>1, <3>3, <3>4 DEF RecordInv, BlocksInv, Engine!BlocksFor
    <3> QED
      BY <2>2, <3>1, <3>2, <3>3, <3>4, <3>5 DEF Engine!BlocksFor
  <2> QED
    BY <1>2, <2>1, <2>2
<1>3. BlocksInv'
  BY <1>1, <1>2 DEF RecordInv, BlocksInv
<1>4. ASSUME NEW l \in AsuLayers PROVE Known(ctx[l])' /\ Sourced(ctx[l])'
  <2>1. PICK c : c = ctx[l]
    OBVIOUS
  <2>2. Known(c) /\ Sourced(c) /\ Classified(c)
    BY <2>1 DEF RecordInv, IInv, ContextInv
  <2>3. Known(ctx[l])'
    BY <2>1, <2>2 DEF Known
  <2>4. ASSUME c.reqId \in running', NEW t \in Tokens, c.state[t] = AsuOnly
        PROVE  c.record[t] = Engine!SourceSlot(blockTable'[c.reqId], t)
    <3>1. t \in Nat /\ t < c.seqLen /\ c.seqLen > 0
      <4>1. t \in Nat
        BY Sizes
      <4>2. PICK n \in Nat : n = c.seqLen
        BY <2>2, Sizes DEF Classified
      <4>3. t < n
        BY <2>2, <2>4, <4>2, Sizes DEF Classified
      <4> QED
        BY <4>1, <4>2, <4>3
    <3>2. c.reqId \in running
      BY <2>2, <2>4, <3>1 DEF Known
    <3>3. PICK r \in Reqs : r = c.reqId
      BY <3>2 DEF IInv, EngineInv
    <3>4. PICK n \in Nat : n = len[r] /\ t < n
      <4>1. PICK n \in Nat, m \in Nat : n = len[r] /\ m = c.seqLen
        BY <2>2, Sizes DEF IInv, EngineInv, Classified
      <4>2. m <= n
        BY <2>2, <3>3, <4>1 DEF Classified
      <4>3. t < n
        BY <3>1, <4>1, <4>2
      <4> QED
        BY <4>1, <4>3
    <3>5. PICK bt, new : bt = blockTable[r] /\ new = blockTable'[r]
      OBVIOUS
    <3>6. /\ IsTable(bt) /\ Engine!BlocksFor(n) <= Len(bt)
          /\ \A b \in 1..Len(bt) : new[b] = bt[b]
      BY <1>1, <3>2, <3>3, <3>4, <3>5 DEF RecordInv, BlocksInv
    <3>7. Engine!SourceSlot(new, t) = Engine!SourceSlot(bt, t)
      BY <3>1, <3>4, <3>6, SameSource
    <3>8. c.record[t] = Engine!SourceSlot(bt, t)
      BY <2>2, <2>4, <3>2, <3>3, <3>5 DEF Sourced
    <3> QED
      BY <3>3, <3>5, <3>7, <3>8
  <2> QED
    BY <2>1, <2>3, <2>4 DEF Sourced
<1> QED
  BY <1>3, <1>4 DEF RecordInv

-----------------------------------------------------------------------------
(* The actions.                                                             *)

LEMMA BatchRecords ==
  ASSUME IInv, RecordInv, NEW prefills \in SUBSET Reqs, NEW decodes \in SUBSET Reqs,
         EngineInv', Engine!Batch(prefills, decodes), ctx' = ctx
  PROVE  RecordInv'
<1>1. PICK newLen : newLen = [r \in Reqs |-> IF r \in prefills \cup decodes THEN len'[r] ELSE 0]
  OBVIOUS
<1>2. /\ Engine!Allocate(newLen) /\ running' = running \cup prefills /\ finished' = finished
      /\ prefills \cap (running \cup finished) = {}
  BY <1>1 DEF Engine!Batch
<1>3. \A r \in Reqs : newLen[r] \in Nat
  <2>1. \A r \in Reqs : len'[r] \in Nat
    BY Sizes DEF EngineInv
  <2> QED
    BY <1>1, <2>1
<1>4. ASSUME NEW r \in running' PROVE newLen[r] = len'[r] \/ (r \in running /\ len'[r] = len[r])
  <2>0. r \in Reqs
    BY <1>4 DEF EngineInv
  <2>1. CASE r \in prefills \cup decodes
    BY <1>1, <2>0, <2>1
  <2>2. CASE r \notin prefills \cup decodes
    <3>1. len'[r] = len[r]
      BY <2>0, <2>2 DEF Engine!Batch
    <3> QED
      BY <1>2, <1>4, <2>2, <3>1
  <2> QED
    BY <2>1, <2>2
<1> QED
  BY <1>2, <1>3, <1>4, TablesGrow

LEMMA BeginRecords ==
  ASSUME IInv, RecordInv, NEW r \in Reqs, EngineInv', Engine!BeginDecode(r), ctx' = ctx
  PROVE  RecordInv'
<1>1. PICK newLen : newLen = [q \in Reqs |-> IF q = r THEN len'[r] ELSE 0]
  OBVIOUS
<1>2. /\ Engine!Allocate(newLen) /\ running' = running \cup {} /\ finished' = finished
      /\ len' = [len EXCEPT ![r] = @ + 1]
  BY <1>1 DEF Engine!BeginDecode
<1>3. \A q \in Reqs : newLen[q] \in Nat
  <2>1. \A q \in Reqs : len'[q] \in Nat
    BY Sizes DEF EngineInv
  <2> QED
    BY <1>1, <2>1
<1>4. ASSUME NEW q \in running' PROVE newLen[q] = len'[q] \/ (q \in running /\ len'[q] = len[q])
  <2>1. q \in Reqs
    BY <1>4 DEF EngineInv
  <2> QED
    BY <1>1, <1>2, <1>4, <2>1 DEF IInv, EngineInv
<1>5. {} \in SUBSET Reqs /\ {} \cap (running \cup finished) = {}
  OBVIOUS
<1> QED
  BY <1>2, <1>3, <1>4, <1>5, TablesGrow

LEMMA FinishRecords ==
  ASSUME IInv, RecordInv, NEW r \in Reqs, Engine!Finish(r), ctx' = ctx
  PROVE  RecordInv'
<1>1. /\ r \in running /\ running' = running \ {r} /\ finished' = finished \cup {r}
      /\ blockTable' = [blockTable EXCEPT ![r] = << >>] /\ len' = len
  BY DEF Engine!Finish, Engine!Release
<1>2. ASSUME NEW q \in Reqs
      PROVE  IsTable(blockTable'[q]) /\ (q # r => blockTable'[q] = blockTable[q])
  <2>1. CASE q = r
    <3>1. blockTable'[q] = << >>
      BY <1>1, <2>1 DEF RecordInv, BlocksInv
    <3>2. << >> \in Seq({})
      OBVIOUS
    <3> QED
      BY <2>1, <3>1, <3>2 DEF IsTable
  <2>2. CASE q # r
    <3>1. blockTable'[q] = blockTable[q]
      BY <1>1, <2>2 DEF RecordInv, BlocksInv
    <3> QED
      BY <3>1 DEF RecordInv, BlocksInv
  <2> QED
    BY <2>1, <2>2
<1>3. blockTable' = [q \in Reqs |-> blockTable'[q]]
  BY <1>1 DEF RecordInv, BlocksInv
<1>4. ASSUME NEW q \in running' PROVE Engine!BlocksFor(len'[q]) <= Len(blockTable'[q])
  <2>1. q \in running /\ q # r /\ q \in Reqs
    BY <1>1, <1>4 DEF IInv, EngineInv
  <2>2. blockTable'[q] = blockTable[q] /\ len'[q] = len[q]
    BY <1>1, <1>2, <2>1
  <2>3. Engine!BlocksFor(len[q]) <= Len(blockTable[q])
    BY <2>1 DEF RecordInv, BlocksInv
  <2> QED
    BY <2>2, <2>3 DEF Engine!BlocksFor
<1>5. BlocksInv'
  BY <1>1, <1>2, <1>3, <1>4 DEF RecordInv, BlocksInv
<1>6. ASSUME NEW l \in AsuLayers PROVE Known(ctx[l])' /\ Sourced(ctx[l])'
  <2>1. PICK c : c = ctx[l] /\ Known(c) /\ Sourced(c)
    BY DEF RecordInv
  <2>2. Known(ctx[l])'
    BY <1>1, <2>1 DEF Known
  <2>3. ASSUME c.reqId \in running', NEW t \in Tokens, c.state[t] = AsuOnly
        PROVE  c.record[t] = Engine!SourceSlot(blockTable'[c.reqId], t)
    <3>1. c.reqId \in running /\ c.reqId # r /\ c.reqId \in Reqs
      BY <1>1, <2>3 DEF IInv, EngineInv
    <3>2. PICK bt : bt = blockTable[c.reqId] /\ bt = blockTable'[c.reqId]
      BY <1>2, <3>1
    <3>3. c.record[t] = Engine!SourceSlot(bt, t)
      BY <2>1, <2>3, <3>1, <3>2 DEF Sourced
    <3> QED
      BY <3>2, <3>3
  <2> QED
    BY <2>1, <2>2, <2>3 DEF Sourced
<1> QED
  BY <1>5, <1>6 DEF RecordInv

LEMMA SameSources ==
  ASSUME IInv, RecordInv, UNCHANGED <<running, finished, len, blockTable, ctx>>
  PROVE  RecordInv'
<1>1. \A k \in AsuLayers : NoNewSources(ctx[k], ctx'[k])
  BY DEF NoNewSources
<1> QED
  BY <1>1, SourcesKept DEF IInv, ContextInv

LEMMA PrepareRecords ==
  ASSUME IInv, RecordInv, Prepare
  PROVE  RecordInv'
<1> DEFINE l == step.layer  r == step.req  n == len[r]  bt == blockTable[r]
<1>1. /\ l \in AsuLayers /\ step # Idle /\ r \in Reqs /\ r \in running
      /\ UNCHANGED <<running, finished, len, blockTable>>
  BY DEF Prepare, UsesAsu, Engine!Attending, IInv, EngineInv, engineVars
<1>2. PICK m \in 1..MaxSeqLen : m = n
  <2>1. n \in 0..MaxSeqLen /\ n > 0
    BY <1>1 DEF IInv, EngineInv
  <2> QED
    BY <2>1, Sizes
<1>3. ctx' = [k \in AsuLayers |->
                IF NeedsReset(ctx[l], r, m) THEN Reset(ctx[k], r, m, m - 1, bt)
                ELSE IF m > ctx[l].seqLen THEN MarkDecodeToken(ctx[k], m - 1)
                ELSE ctx[k]]
  BY <1>2 DEF Prepare, Prepared
<1>4. \A k \in AsuLayers : Exact(ctx[k]) /\ Classified(ctx[k]) /\ ctx[k].seqLen = ctx[l].seqLen
  BY <1>1 DEF IInv, ContextInv, Together
<1> HIDE DEF l, n
<1>5. CASE NeedsReset(ctx[l], r, m)
  <2>1. BlocksInv'
    BY <1>1 DEF RecordInv, BlocksInv, Engine!BlocksFor, IsTable
  <2>2. ASSUME NEW k \in AsuLayers PROVE Known(ctx[k])' /\ Sourced(ctx[k])'
    <3>1. PICK q \in Reqs : q = r /\ q \in running
      BY <1>1
    <3>2. PICK b, c, d : b = blockTable[q] /\ c = ctx[k] /\ d = ctx'[k]
      OBVIOUS
    <3>3. d = Reset(c, q, m, m - 1, b)
      BY <1>3, <1>5, <3>1, <3>2
    <3>4. Serves(d, q, m)
      BY <3>3, ResetEffect
    <3>5. From(d, b)
      BY <3>3, ResetSources
    <3>6. blockTable' = blockTable /\ running' = running /\ finished' = finished
      BY <1>1
    <3>7. Known(ctx[k])'
      BY <3>1, <3>2, <3>4, <3>6 DEF Known, Serves
    <3>8. d.reqId = q /\ \A t \in Tokens : d.state[t] = AsuOnly => d.record[t] = Engine!SourceSlot(b, t)
      BY <3>4, <3>5 DEF Serves, From
    <3>9. Sourced(ctx[k])'
      BY <3>2, <3>6, <3>8 DEF Sourced
    <3> QED
      BY <3>7, <3>9
  <2> QED
    BY <2>1, <2>2 DEF RecordInv
<1>6. CASE ~NeedsReset(ctx[l], r, m)
  <2>1. ASSUME NEW k \in AsuLayers PROVE NoNewSources(ctx[k], ctx'[k])
    <3>1. CASE m > ctx[l].seqLen
      <4>1. PICK c, d : c = ctx[k] /\ d = ctx'[k]
        OBVIOUS
      <4>2. d = MarkDecodeToken(c, m - 1) /\ Exact(c)
        BY <1>3, <1>4, <1>6, <3>1, <4>1
      <4>3. c.seqLen > 0
        <5>1. PICK a \in 0..MaxSeqLen : a = ctx[k].seqLen
          BY <1>4 DEF Classified
        <5>2. a # 0
          BY <1>4, <1>6, <5>1 DEF NeedsReset
        <5> QED
          BY <4>1, <5>1, <5>2
      <4>4. m - 1 \in Nat
        OBVIOUS
      <4>5. NoNewSources(c, d)
        BY <4>2, <4>3, <4>4, MarkSources
      <4> QED
        BY <4>1, <4>5
    <3>2. CASE ~(m > ctx[l].seqLen)
      BY <1>3, <1>6, <3>2 DEF NoNewSources
    <3> QED
      BY <3>1, <3>2
  <2>2. ctx' = [k \in AsuLayers |-> ctx'[k]]
    BY <1>3
  <2> QED
    BY <1>1, <2>1, <2>2, SourcesKept
<1> QED
  BY <1>5, <1>6

LEMMA ResolveRecords ==
  ASSUME IInv, RecordInv, ResolveMissing
  PROVE  RecordInv'
<1>0. PICK l \in AsuLayers : l = step.layer
  BY DEF ResolveMissing, Resolving, UsesAsu
<1>1. PICK state, slot, t : t = Selection /\ ctx' = [ctx EXCEPT ![l] = Install(@, t, state, slot)]
  BY <1>0 DEF ResolveMissing
<1>2. UNCHANGED <<running, finished, len, blockTable>>
  BY DEF ResolveMissing, AdvanceTo, engineVars
<1>3. /\ ctx'[l] = Install(ctx[l], t, state, slot)
      /\ \A k \in AsuLayers : k # l => ctx'[k] = ctx[k]
      /\ ctx' = [k \in AsuLayers |-> ctx'[k]]
  BY <1>1 DEF IInv, ContextInv
<1>4. ASSUME NEW k \in AsuLayers PROVE NoNewSources(ctx[k], ctx'[k])
  <2>1. CASE k = l
    <3>1. PICK c, d : c = ctx[l] /\ d = ctx'[l]
      OBVIOUS
    <3>2. d = Install(c, t, state, slot) /\ Exact(c)
      BY <1>3, <3>1 DEF IInv, ContextInv
    <3>3. NoNewSources(c, d)
      BY <3>2, InstallSources
    <3> QED
      BY <2>1, <3>1, <3>3
  <2>2. CASE k # l
    BY <1>3, <2>2 DEF NoNewSources
  <2> QED
    BY <2>1, <2>2
<1> QED
  BY <1>2, <1>3, <1>4, SourcesKept

LEMMA InitRecordInv == Init => RecordInv
<1> SUFFICES ASSUME Init PROVE RecordInv
  OBVIOUS
<1>1. /\ running = {} /\ finished = {} /\ blockTable = [r \in Reqs |-> << >>]
      /\ ctx = [l \in AsuLayers |-> FreshContext]
  BY DEF Init, Engine!Init
<1>2. << >> \in Seq({})
  OBVIOUS
<1>3. BlocksInv
  BY <1>1, <1>2 DEF BlocksInv, IsTable
<1>4. FreshContext.seqLen = 0
  BY FreshExact
<1> QED
  BY <1>1, <1>3, <1>4 DEF RecordInv, Known, Sourced

LEMMA NextRecordInv ==
  ASSUME NoPreemption, IInv, IInv', RecordInv, [Next]_vars
  PROVE  RecordInv'
<1>1. ASSUME NEW prefills \in SUBSET Reqs, NEW decodes \in SUBSET Reqs,
             Engine!Batch(prefills, decodes), UNCHANGED <<ctx, pos, resolved>>
      PROVE  RecordInv'
  BY <1>1, BatchRecords DEF IInv
<1>2. ASSUME NEW r \in Reqs, Engine!BeginDecode(r), UNCHANGED <<ctx, pos, resolved>>
      PROVE  RecordInv'
  BY <1>2, BeginRecords DEF IInv
<1>3. ASSUME NEW r \in Reqs, Engine!Finish(r), UNCHANGED <<ctx, pos, resolved>>
      PROVE  RecordInv'
  BY <1>3, FinishRecords
<1>4. ASSUME NEW r \in Reqs, Engine!Preempt(r)
      PROVE  FALSE
  BY <1>4 DEF Engine!Preempt, NoPreemption
<1>5. CASE Write
  BY <1>5, SameSources DEF Write, Engine!WriteLayer
<1>6. CASE AttendOriginal
  <2>1. UNCHANGED <<running, finished, len, blockTable, ctx>>
    BY <1>6 DEF AttendOriginal, Engine!Attend, Engine!AttendTo
  <2> QED
    BY <2>1, SameSources
<1>7. CASE AttendManaged
  <2>1. UNCHANGED <<running, finished, len, blockTable, ctx>>
    BY <1>7 DEF AttendManaged, Engine!AttendTo
  <2> QED
    BY <2>1, SameSources
<1>8. CASE Prepare
  BY <1>8, PrepareRecords
<1>9. CASE ResolveResident
  BY <1>9, SameSources DEF ResolveResident, AdvanceTo, engineVars
<1>10. CASE ResolveMissing
  BY <1>10, ResolveRecords
<1>11. CASE UNCHANGED vars
  BY <1>11, SameSources DEF vars, engineVars
<1> QED
  BY <1>1, <1>2, <1>3, <1>4, <1>5, <1>6, <1>7, <1>8, <1>9, <1>10, <1>11 DEF Next, Schedule, Work

\* Without preemption, a record address that may still be used is where the
\* token's KV is, however long ago the reset computed it: the exact condition
\* that the code's test for a reset needs.
THEOREM RecordsStayRight == Roomy /\ NoPreemption /\ Spec => []RecordIsSource
<1> SUFFICES ASSUME Roomy, NoPreemption PROVE Spec => []RecordIsSource
  OBVIOUS
<1>1. IInv /\ IInv' /\ RecordInv /\ [Next]_vars => RecordInv'
  BY NextRecordInv
<1>2. IInv /\ RecordInv => RecordIsSource
  <2> SUFFICES ASSUME IInv, RecordInv, NEW l \in AsuLayers, UnderWay(l),
                      NEW t \in Tokens, ctx[l].state[t] = AsuOnly
               PROVE  ctx[l].record[t] = Engine!SourceSlot(blockTable[step.req], t)
    BY DEF RecordIsSource
  <2>1. ctx[l].reqId = step.req /\ step.req \in running
    BY DEF IInv, UnderWayInv, UnderWay, EngineInv, UsesAsu, Engine!Attending
  <2> QED
    BY <2>1 DEF RecordInv, Sourced
<1>3. Spec => []IInv
  BY Invariance
<1> QED
  BY <1>1, <1>2, <1>3, InitRecordInv, PTL DEF Spec

-----------------------------------------------------------------------------
(***************************************************************************)
(* The managed attention path reads what the original path reads, when there *)
(* is room and no request is preempted: the copy of a resident token is that *)
(* token's KV, so AsuKvCache implements PagedDecode.                       *)
(***************************************************************************)

\* The paged cache: blocks belong to one place of one block table, and hold
\* the KV of every token of a running request, but for the layers that a decode
\* step has not come to, which lack its newest token.
Disjoint(tables) ==
  \A r, q \in Reqs : \A i \in 1..Len(tables[r]), j \in 1..Len(tables[q]) :
    tables[r][i] = tables[q][j] => r = q /\ i = j

Unwritten(r, l, t) ==
  /\ step # Idle /\ step.req = r /\ t = len[r] - 1
  /\ l > step.layer \/ (l = step.layer /\ step.phase = "write")

PagedInv ==
  /\ blockTable \in [Reqs -> Seq(Engine!Blocks)]
  /\ Disjoint(blockTable)
  /\ original \in [Engine!Layers -> [Engine!Addrs -> {Empty} \cup (Reqs \X Tokens)]]
  /\ step # Idle => step.layer \in Engine!Layers
  /\ \A r \in running, l \in Engine!Layers, t \in Tokens :
       t < len[r] /\ ~Unwritten(r, l, t) =>
         original[l][Engine!SourceSlot(blockTable[r], t)] = <<r, t>>

\* The copies of a context of a running request are that request's KV.
Copied(c) ==
  c.reqId \in running => \A t \in Resident(c) : c.managed[c.slotOf[t]] = <<c.reqId, t>>

CopiesInv == \A l \in AsuLayers : Copied(ctx[l])

\* The entries resolved so far are the slots of their tokens.
ResolvedInv ==
  /\ resolved = [i \in 1..TopK |-> resolved[i]]
  /\ pos > 0 => \A i \in 1..TopK : i < pos =>
       /\ step.topk[i] \in Resident(ctx[step.layer])
       /\ resolved[i] = ctx[step.layer].slotOf[step.topk[i]]

CopyInv == PagedInv /\ CopiesInv /\ ResolvedInv

-----------------------------------------------------------------------------
(* Slots of the paged cache.                                                *)

LEMMA Remainder ==
  ASSUME NEW a \in Nat, NEW b \in Nat \ {0}
  PROVE  a % b \in 0..(b - 1) /\ a = b * (a \div b) + (a % b)
  OBVIOUS

\* The place of an offset in a block.
PlaceIn(b, x, p) == x * b + p

\* It determines block and offset.
LEMMA OnePlace ==
  ASSUME NEW b \in Nat \ {0}, NEW x \in Nat, NEW y \in Nat,
         NEW p \in 0..(b - 1), NEW q \in 0..(b - 1),
         PlaceIn(b, x, p) = PlaceIn(b, y, q)
  PROVE  x = y /\ p = q
<1>0. x * b + p = y * b + q
  BY DEF PlaceIn
<1>1. ASSUME NEW u \in Nat, NEW v \in Nat, u < v PROVE u * b + b <= v * b
  <2>1. PICK d \in Nat : v = u + 1 + d
    <3>1. v - u - 1 \in Nat /\ v = u + 1 + (v - u - 1)
      BY <1>1
    <3> QED
      BY <3>1
  <2>2. v * b = u * b + b + d * b
    BY <2>1
  <2>3. d * b \in Nat /\ u * b \in Nat
    OBVIOUS
  <2> QED
    BY <2>2, <2>3
<1>2. x * b \in Nat /\ y * b \in Nat
  OBVIOUS
<1>3. ~(x < y)
  <2>1. ASSUME x < y PROVE FALSE
    <3>1. x * b + b <= y * b
      BY <1>1, <2>1
    <3> QED
      BY <1>0, <1>2, <3>1
  <2> QED
    BY <2>1
<1>4. ~(y < x)
  <2>1. ASSUME y < x PROVE FALSE
    <3>1. y * b + b <= x * b
      BY <1>1, <2>1
    <3> QED
      BY <1>0, <1>2, <3>1
  <2> QED
    BY <2>1
<1>5. x = y
  BY <1>3, <1>4
<1> QED
  BY <1>0, <1>2, <1>5

\* The place of a token in a table that holds n tokens.
LEMMA Place ==
  ASSUME NEW bt \in Seq(Engine!Blocks), NEW n \in Nat, Engine!BlocksFor(n) <= Len(bt),
         NEW t \in Nat, t < n
  PROVE  /\ (t \div BlockSize) + 1 \in 1..Len(bt)
         /\ bt[(t \div BlockSize) + 1] \in Engine!Blocks
         /\ Engine!SourceSlot(bt, t) \in Engine!Addrs
<1>1. PICK B \in Nat \ {0}, N \in Nat \ {0} : B = BlockSize /\ N = NumBlocks
  BY AsuAssumption DEF Engine!SizesSound
<1>2. PICK k \in Nat : k = Len(bt)
  OBVIOUS
<1>3. PICK i \in Nat : i = t \div B
  BY Division
<1>4. i + 1 \in 1..k
  <2>1. n + B - 1 \in Nat
    OBVIOUS
  <2>2. PICK q \in Nat : q = (n + B - 1) \div B
    BY <2>1, Division
  <2>3. i + 1 <= q
    BY <1>3, <2>2, BlockOfToken
  <2>4. q <= k
    BY <1>1, <1>2, <2>2 DEF Engine!BlocksFor
  <2> QED
    BY <2>3, <2>4
<1>5. bt[i + 1] \in Engine!Blocks
  BY <1>2, <1>4
<1>6. PICK x \in 0..(N - 1) : x = bt[i + 1]
  BY <1>1, <1>5 DEF Engine!Blocks
<1>7. PICK p \in 0..(B - 1) : p = t % B
  BY Remainder
<1>8. x * B + p \in 0..(N * B - 1)
  <2>1. PICK d \in Nat : N = x + 1 + d
    <3>1. N - x - 1 \in Nat /\ N = x + 1 + (N - x - 1)
      OBVIOUS
    <3> QED
      BY <3>1
  <2>2. N * B = x * B + B + d * B
    BY <2>1
  <2>3. d * B \in Nat /\ x * B \in Nat /\ N * B \in Nat
    OBVIOUS
  <2> QED
    BY <2>2, <2>3
<1>9. Engine!SourceSlot(bt, t) = x * B + p
  BY <1>1, <1>3, <1>6, <1>7 DEF Engine!SourceSlot
<1> QED
  BY <1>1, <1>2, <1>3, <1>4, <1>5, <1>8, <1>9 DEF Engine!Addrs

\* No two tokens of running requests share a place.
LEMMA OwnPlace ==
  ASSUME NEW tables \in [Reqs -> Seq(Engine!Blocks)], Disjoint(tables),
         NEW r \in Reqs, NEW q \in Reqs, NEW n \in Nat, NEW m \in Nat,
         Engine!BlocksFor(n) <= Len(tables[r]), Engine!BlocksFor(m) <= Len(tables[q]),
         NEW t \in Nat, t < n, NEW u \in Nat, u < m,
         Engine!SourceSlot(tables[r], t) = Engine!SourceSlot(tables[q], u)
  PROVE  r = q /\ t = u
<1>1. PICK B \in Nat \ {0} : B = BlockSize
  BY AsuAssumption DEF Engine!SizesSound
<1>2. PICK i \in Nat : i = t \div B
  BY Division
<1>3. PICK j \in Nat : j = u \div B
  BY Division
<1>4. PICK bt \in Seq(Engine!Blocks), bu \in Seq(Engine!Blocks) : bt = tables[r] /\ bu = tables[q]
  OBVIOUS
<1>5. i + 1 \in 1..Len(bt) /\ bt[i + 1] \in Engine!Blocks
  BY <1>1, <1>2, <1>4, Place
<1>6. j + 1 \in 1..Len(bu) /\ bu[j + 1] \in Engine!Blocks
  BY <1>1, <1>3, <1>4, Place
<1>7. PICK x \in Nat, y \in Nat : x = bt[i + 1] /\ y = bu[j + 1]
  BY <1>5, <1>6 DEF Engine!Blocks
<1>8. PICK p \in 0..(B - 1) : p = t % B /\ t = B * i + p
  BY <1>2, Remainder
<1>9. PICK s \in 0..(B - 1) : s = u % B /\ u = B * j + s
  BY <1>3, Remainder
<1>10. PlaceIn(B, x, p) = PlaceIn(B, y, s)
  BY <1>1, <1>2, <1>3, <1>4, <1>7, <1>8, <1>9 DEF Engine!SourceSlot, PlaceIn
<1>11. x = y /\ p = s
  BY <1>10, OnePlace
<1>12. r = q /\ i + 1 = j + 1
  BY <1>4, <1>5, <1>6, <1>7, <1>11 DEF Disjoint
<1>13. i = j
  BY <1>12
<1> QED
  BY <1>8, <1>9, <1>11, <1>12, <1>13

LEMMA MoreBlocks ==
  ASSUME NEW n \in Nat, NEW m \in Nat, NEW b \in Nat \ {0}, n <= m
  PROVE  (n + b - 1) \div b <= (m + b - 1) \div b
<1>1. PICK x \in Nat, y \in Nat : x = n + b - 1 /\ y = m + b - 1 /\ x <= y
  <2>1. n + b - 1 \in Nat /\ m + b - 1 \in Nat /\ n + b - 1 <= m + b - 1
    OBVIOUS
  <2> QED
    BY <2>1
<1>2. PICK p \in Nat : p = x \div b /\ b * p <= x
  BY Division
<1>3. PICK q \in Nat : q = y \div b /\ y < b * q + b
  BY Division
<1>4. ASSUME q < p PROVE FALSE
  <2>1. PICK d \in Nat : p = q + 1 + d
    <3>1. p - q - 1 \in Nat /\ p = q + 1 + (p - q - 1)
      BY <1>4
    <3> QED
      BY <3>1
  <2>2. b * p = b * q + b + b * d
    BY <2>1
  <2>3. b * d \in Nat /\ b * q \in Nat
    OBVIOUS
  <2>4. b * q + b <= b * p
    BY <2>2, <2>3
  <2>5. b * p \in Nat
    OBVIOUS
  <2> QED
    BY <1>1, <1>2, <1>3, <2>3, <2>4, <2>5
<1> QED
  BY <1>1, <1>2, <1>3, <1>4

\* New blocks are free ones, each given once.
LEMMA AllocatedBlocks ==
  ASSUME blockTable \in [Reqs -> Seq(Engine!Blocks)], Disjoint(blockTable),
         NEW newLen, \A r \in Reqs : newLen[r] \in 0..MaxSeqLen, Engine!Allocate(newLen)
  PROVE  blockTable' \in [Reqs -> Seq(Engine!Blocks)] /\ Disjoint(blockTable')
<1> DEFINE missing == {m \in Reqs \X (1..Engine!BlocksFor(MaxSeqLen)) :
                         /\ m[2] > Len(blockTable[m[1]])
                         /\ m[2] <= Engine!BlocksFor(newLen[m[1]])}
           old(r) == Len(blockTable[r])
           size(r) == IF Engine!BlocksFor(newLen[r]) > old(r)
                      THEN Engine!BlocksFor(newLen[r]) ELSE old(r)
<1>1. PICK given \in Engine!Injection(missing, Engine!FreeBlocks) :
        blockTable' =
          [r \in Reqs |-> [b \in 1..size(r) |->
             IF b <= old(r) THEN blockTable[r][b] ELSE given[<<r, b>>]]]
  BY DEF Engine!Allocate
<1>2. /\ given \in [missing -> Engine!FreeBlocks]
      /\ \A x, y \in missing : given[x] = given[y] => x = y
  BY <1>1 DEF Engine!Injection, Engine!IsInjective
<1>3. ASSUME NEW r \in Reqs
      PROVE  /\ old(r) \in Nat /\ size(r) \in Nat /\ old(r) <= size(r)
             /\ \A b \in 1..size(r) : b > old(r) => <<r, b>> \in missing
  <2>1. PICK B \in Nat \ {0}, n \in Nat, M \in Nat :
          B = BlockSize /\ n = newLen[r] /\ M = MaxSeqLen /\ n <= M
    <3>1. newLen[r] \in 0..MaxSeqLen
      OBVIOUS
    <3> QED
      BY <3>1, AsuAssumption DEF Engine!SizesSound
  <2>2. PICK f \in Nat : f = (n + B - 1) \div B
    <3>1. n + B - 1 \in Nat
      OBVIOUS
    <3> QED
      BY <3>1, Division
  <2>3. PICK g \in Nat : g = (M + B - 1) \div B
    <3>1. M + B - 1 \in Nat
      OBVIOUS
    <3> QED
      BY <3>1, Division
  <2>4. f <= g
    BY <2>1, <2>2, <2>3, MoreBlocks
  <2>5. f = Engine!BlocksFor(newLen[r]) /\ g = Engine!BlocksFor(MaxSeqLen)
    BY <2>1, <2>2, <2>3 DEF Engine!BlocksFor
  <2>6. PICK k \in Nat : k = old(r)
    OBVIOUS
  <2>7. size(r) = IF f > k THEN f ELSE k
    BY <2>5, <2>6
  <2>8. size(r) \in Nat /\ old(r) <= size(r)
    BY <2>6, <2>7
  <2>9. ASSUME NEW b \in 1..size(r), b > old(r) PROVE <<r, b>> \in missing
    <3>1. b \in 1..g /\ b > k /\ b <= f
      BY <2>4, <2>6, <2>7, <2>9
    <3> QED
      BY <2>5, <2>6, <3>1
  <2> QED
    BY <2>6, <2>8, <2>9
<1> HIDE DEF missing, size
<1>4. ASSUME NEW r \in Reqs, NEW b \in 1..size(r), b > old(r)
      PROVE  /\ blockTable'[r][b] = given[<<r, b>>] /\ <<r, b>> \in missing
             /\ blockTable'[r][b] \in Engine!Blocks
             /\ \A q \in Reqs : \A i \in 1..old(q) : blockTable'[r][b] # blockTable[q][i]
  <2>1. blockTable'[r][b] = given[<<r, b>>]
    <3>1. PICK k \in Nat : k = old(r)
      BY <1>3
    <3>2. b > k /\ b \in Int
      BY <1>3, <1>4, <3>1
    <3>3. ~(b <= old(r))
      BY <3>1, <3>2
    <3> QED
      BY <1>1, <1>4, <3>3
  <2>2. <<r, b>> \in missing
    BY <1>3, <1>4
  <2>3. given[<<r, b>>] \in Engine!FreeBlocks
    BY <1>2, <2>2
  <2>4. ASSUME NEW q \in Reqs, NEW i \in 1..old(q) PROVE given[<<r, b>>] # blockTable[q][i]
    <3>1. blockTable[q][i] \in Engine!Range(blockTable[q])
      BY DEF Engine!Range
    <3> QED
      BY <2>3, <3>1 DEF Engine!FreeBlocks
  <2> QED
    BY <2>1, <2>2, <2>3, <2>4 DEF Engine!FreeBlocks
<1>5. ASSUME NEW r \in Reqs, NEW b \in 1..size(r), ~(b > old(r))
      PROVE  blockTable'[r][b] = blockTable[r][b] /\ b \in 1..old(r)
  <2>1. PICK k \in Nat : k = old(r)
    BY <1>3
  <2>2. b <= k /\ b \in 1..k
    BY <1>3, <1>5, <2>1
  <2> QED
    BY <1>1, <2>1, <2>2
<1>6. ASSUME NEW r \in Reqs
      PROVE  blockTable'[r] \in Seq(Engine!Blocks) /\ Len(blockTable'[r]) = size(r)
  <2>1. PICK k \in Nat, f \in {blockTable'[r]} : k = size(r) /\ f = blockTable'[r]
    BY <1>3
  <2>2. f = [b \in 1..k |-> f[b]]
    BY <1>1, <2>1
  <2>3. ASSUME NEW b \in 1..k PROVE f[b] \in Engine!Blocks
    <3>1. CASE b > old(r)
      BY <1>4, <2>1, <3>1
    <3>2. CASE ~(b > old(r))
      BY <1>5, <2>1, <3>2
    <3> QED
      BY <3>1, <3>2
  <2>4. f \in [1..k -> Engine!Blocks]
    BY <2>2, <2>3
  <2>5. f \in Seq(Engine!Blocks) /\ Len(f) = k
    BY <2>4
  <2> QED
    BY <2>1, <2>5
<1>7. ASSUME NEW r \in Reqs, NEW q \in Reqs, NEW i \in 1..size(r), NEW j \in 1..size(q),
             blockTable'[r][i] = blockTable'[q][j]
      PROVE  r = q /\ i = j
  <2>1. CASE i > old(r) /\ j > old(q)
    <3>1. PICK x \in missing, y \in missing : x = <<r, i>> /\ y = <<q, j>>
      BY <1>4, <2>1
    <3>2. blockTable'[r][i] = given[x] /\ blockTable'[q][j] = given[y]
      BY <1>4, <2>1, <3>1
    <3>3. x = y
      BY <1>2, <1>7, <3>2
    <3> QED
      BY <3>1, <3>3
  <2>2. CASE ~(i > old(r)) /\ ~(j > old(q))
    BY <1>5, <1>7, <2>2 DEF Disjoint
  <2>3. CASE i > old(r) /\ ~(j > old(q))
    <3>1. blockTable'[q][j] = blockTable[q][j] /\ j \in 1..old(q)
      BY <1>5, <2>3
    <3>2. \A o \in Reqs : \A u \in 1..old(o) : blockTable'[r][i] # blockTable[o][u]
      BY <1>4, <2>3
    <3> QED
      BY <1>7, <3>1, <3>2
  <2>4. CASE ~(i > old(r)) /\ j > old(q)
    <3>1. blockTable'[r][i] = blockTable[r][i] /\ i \in 1..old(r)
      BY <1>5, <2>4
    <3>2. \A o \in Reqs : \A u \in 1..old(o) : blockTable'[q][j] # blockTable[o][u]
      BY <1>4, <2>4
    <3> QED
      BY <1>7, <3>1, <3>2
  <2> QED
    BY <2>1, <2>2, <2>3, <2>4
<1>8. blockTable' \in [Reqs -> Seq(Engine!Blocks)]
  BY <1>1, <1>6
<1> QED
  BY <1>6, <1>7, <1>8 DEF Disjoint

-----------------------------------------------------------------------------
(* The paged cache, step by step.                                           *)

\* Places of running requests' tokens: in the cache, and of one token each.
LEMMA RunningPlace ==
  ASSUME IInv, RecordInv, PagedInv, NEW r \in running, NEW t \in Tokens, t < len[r]
  PROVE  /\ r \in Reqs /\ len[r] \in Nat /\ t \in Nat
         /\ blockTable[r] \in Seq(Engine!Blocks)
         /\ Engine!BlocksFor(len[r]) <= Len(blockTable[r])
         /\ Engine!SourceSlot(blockTable[r], t) \in Engine!Addrs
<1>0. r \in Reqs /\ t \in Nat
  BY Sizes DEF IInv, EngineInv
<1>1. /\ len[r] \in Nat /\ blockTable[r] \in Seq(Engine!Blocks)
      /\ Engine!BlocksFor(len[r]) <= Len(blockTable[r])
  <2>1. len[r] \in 0..MaxSeqLen /\ blockTable[r] \in Seq(Engine!Blocks)
    BY <1>0 DEF IInv, EngineInv, PagedInv
  <2>2. len[r] \in Nat
    BY <2>1, Sizes
  <2> QED
    BY <2>1, <2>2 DEF RecordInv, BlocksInv
<1>2. PICK bt \in Seq(Engine!Blocks), n \in Nat : bt = blockTable[r] /\ n = len[r]
  BY <1>1
<1>3. Engine!SourceSlot(bt, t) \in Engine!Addrs
  BY <1>0, <1>1, <1>2, Place
<1> QED
  BY <1>0, <1>1, <1>2, <1>3

LEMMA RunningOwn ==
  ASSUME IInv, RecordInv, PagedInv, NEW r \in running, NEW t \in Tokens, t < len[r],
         NEW q \in running, NEW u \in Tokens, u < len[q],
         Engine!SourceSlot(blockTable[r], t) = Engine!SourceSlot(blockTable[q], u)
  PROVE  r = q /\ t = u
<1>1. PICK tables \in [Reqs -> Seq(Engine!Blocks)] : tables = blockTable /\ Disjoint(tables)
  BY DEF PagedInv
<1>2. PICK x \in Reqs, n \in Nat, v \in Nat :
        x = r /\ n = len[r] /\ v = t /\ v < n /\ Engine!BlocksFor(n) <= Len(tables[x])
  BY <1>1, RunningPlace DEF Engine!BlocksFor
<1>3. PICK y \in Reqs, m \in Nat, w \in Nat :
        y = q /\ m = len[q] /\ w = u /\ w < m /\ Engine!BlocksFor(m) <= Len(tables[y])
  BY <1>1, RunningPlace DEF Engine!BlocksFor
<1>4. Engine!SourceSlot(tables[x], v) = Engine!SourceSlot(tables[y], w)
  BY <1>1, <1>2, <1>3
<1>5. x = y /\ v = w
  BY <1>1, <1>2, <1>3, <1>4, OwnPlace
<1> QED
  BY <1>2, <1>3, <1>5

\* The same for the state that a step of the engine leads to.
LEMMA NextPlace ==
  ASSUME IInv', RecordInv', blockTable' \in [Reqs -> Seq(Engine!Blocks)], Disjoint(blockTable'),
         NEW r \in running', NEW t \in Tokens, t < len'[r]
  PROVE  /\ r \in Reqs /\ len'[r] \in Nat /\ t \in Nat
         /\ Engine!SourceSlot(blockTable'[r], t) \in Engine!Addrs
         /\ \A q \in running', u \in Tokens :
              u < len'[q]
              /\ Engine!SourceSlot(blockTable'[r], t) = Engine!SourceSlot(blockTable'[q], u)
              => r = q /\ t = u
<1>1. \A q \in running' : /\ q \in Reqs /\ len'[q] \in Nat
                          /\ Engine!BlocksFor(len'[q]) <= Len(blockTable'[q])
  BY Sizes DEF IInv, EngineInv, RecordInv, BlocksInv, Engine!BlocksFor
<1>2. PICK tables \in [Reqs -> Seq(Engine!Blocks)] : tables = blockTable' /\ Disjoint(tables)
  OBVIOUS
<1>3. PICK n \in Nat : n = len'[r] /\ t < n /\ Engine!BlocksFor(n) <= Len(tables[r])
  BY <1>1, <1>2 DEF Engine!BlocksFor
<1>4. r \in Reqs /\ t \in Nat
  BY <1>1, Sizes
<1>5. PICK bt \in Seq(Engine!Blocks) : bt = tables[r]
  BY <1>4
<1>6. Engine!SourceSlot(bt, t) \in Engine!Addrs
  BY <1>3, <1>4, <1>5, Place
<1>7. ASSUME NEW q \in running', NEW u \in Tokens, u < len'[q],
             Engine!SourceSlot(tables[r], t) = Engine!SourceSlot(tables[q], u)
      PROVE  r = q /\ t = u
  <2>1. PICK m \in Nat : m = len'[q] /\ u < m /\ Engine!BlocksFor(m) <= Len(tables[q])
    BY <1>1, <1>2, <1>7 DEF Engine!BlocksFor
  <2>2. q \in Reqs /\ u \in Nat
    BY <1>1, Sizes
  <2> QED
    BY <1>2, <1>3, <1>4, <1>7, <2>1, <2>2, OwnPlace
<1> QED
  BY <1>1, <1>2, <1>4, <1>5, <1>6, <1>7

\* A token that was there stays in its place.
LEMMA SamePlace ==
  ASSUME IInv, RecordInv, PagedInv, NEW newLen, \A q \in Reqs : newLen[q] \in Nat,
         Engine!Allocate(newLen), NEW r \in running, NEW t \in Tokens, t < len[r]
  PROVE  Engine!SourceSlot(blockTable'[r], t) = Engine!SourceSlot(blockTable[r], t)
<1>1. /\ r \in Reqs /\ len[r] \in Nat /\ t \in Nat
      /\ Engine!BlocksFor(len[r]) <= Len(blockTable[r])
  BY RunningPlace
<1>2. IsTable(blockTable[r]) /\ \A b \in 1..Len(blockTable[r]) : blockTable'[r][b] = blockTable[r][b]
  BY <1>1, Allocated DEF RecordInv, BlocksInv
<1>3. PICK bt, new : bt = blockTable[r] /\ new = blockTable'[r]
  OBVIOUS
<1>4. PICK m \in Nat : m = len[r] /\ t < m
  BY <1>1
<1>5. IsTable(bt) /\ Engine!BlocksFor(m) <= Len(bt) /\ \A b \in 1..Len(bt) : new[b] = bt[b]
  BY <1>1, <1>2, <1>3, <1>4 DEF Engine!BlocksFor
<1>6. Engine!SourceSlot(new, t) = Engine!SourceSlot(bt, t)
  BY <1>1, <1>4, <1>5, SameSource
<1> QED
  BY <1>3, <1>6

LEMMA StepIsNotIdle ==
  ASSUME NEW r \in Reqs, NEW k \in Engine!Layers, NEW phase \in {"write", "attend"},
         NEW topk \in Seq(Tokens \cup {Pad})
  PROVE  [req |-> r, layer |-> k, phase |-> phase, topk |-> topk] # Idle
  BY AsuAssumption DEF Engine!SizesSound, Engine!Layers, Tokens, Engine!Tokens

LEMMA BatchPaged ==
  ASSUME IInv, IInv', RecordInv, RecordInv', PagedInv,
         NEW prefills \in SUBSET Reqs, NEW decodes \in SUBSET Reqs,
         Engine!Batch(prefills, decodes)
  PROVE  PagedInv'
<1> DEFINE written == {w \in (prefills \cup decodes) \X Tokens :
                         w[2] < len'[w[1]] /\ (w[1] \in decodes => w[2] = len[w[1]])}
           place(r, t) == Engine!SourceSlot(blockTable'[r], t)
<1>1. /\ step = Idle /\ step' = Idle /\ running' = running \cup prefills
      /\ decodes \subseteq running /\ prefills \cap running = {}
  BY DEF Engine!Batch
<1>w. original' = [l \in Engine!Layers |-> Engine!Written(original[l], written)]
  BY DEF Engine!Batch, Tokens
<1>2. PICK newLen : newLen = [r \in Reqs |-> IF r \in prefills \cup decodes THEN len'[r] ELSE 0]
  OBVIOUS
<1>3. Engine!Allocate(newLen) /\ \A r \in Reqs : newLen[r] \in 0..MaxSeqLen /\ newLen[r] \in Nat
  <2>1. \A r \in Reqs : len'[r] \in 0..MaxSeqLen /\ 0 \in 0..MaxSeqLen
    BY Sizes DEF IInv, EngineInv
  <2>2. \A r \in Reqs : newLen[r] \in 0..MaxSeqLen
    BY <1>2, <2>1
  <2> QED
    BY <1>2, <2>2, Sizes DEF Engine!Batch
<1>4. blockTable' \in [Reqs -> Seq(Engine!Blocks)] /\ Disjoint(blockTable')
  BY <1>3, AllocatedBlocks DEF PagedInv
<1>5. ASSUME NEW w \in written
      PROVE  /\ w[1] \in running' /\ w[2] \in Tokens /\ w[2] < len'[w[1]]
             /\ w = <<w[1], w[2]>> /\ w \in Reqs \X Tokens
  BY <1>1
<1> HIDE DEF written
<1>6. ASSUME NEW l \in Engine!Layers, NEW a \in Engine!Addrs
      PROVE  original'[l][a] = IF \E w \in written : place(w[1], w[2]) = a
                               THEN CHOOSE w \in written : place(w[1], w[2]) = a
                               ELSE original[l][a]
  BY <1>w DEF Engine!Written
<1>7. ASSUME NEW l \in Engine!Layers PROVE original'[l] \in [Engine!Addrs -> {Empty} \cup (Reqs \X Tokens)]
  <2>1. ASSUME NEW a \in Engine!Addrs PROVE original'[l][a] \in {Empty} \cup (Reqs \X Tokens)
    <3>1. CASE \E w \in written : place(w[1], w[2]) = a
      <4>1. original'[l][a] \in written
        BY <1>6, <3>1
      <4> QED
        BY <1>5, <4>1
    <3>2. CASE ~ \E w \in written : place(w[1], w[2]) = a
      <4>1. original'[l][a] = original[l][a]
        BY <1>6, <3>2
      <4> QED
        BY <4>1 DEF PagedInv
    <3> QED
      BY <3>1, <3>2
  <2>2. original'[l] = [a \in Engine!Addrs |-> original'[l][a]]
    BY <1>w DEF Engine!Written
  <2> QED
    BY <2>1, <2>2
<1>8. original' \in [Engine!Layers -> [Engine!Addrs -> {Empty} \cup (Reqs \X Tokens)]]
  BY <1>w, <1>7
<1>9. ASSUME NEW r \in running', NEW l \in Engine!Layers, NEW t \in Tokens, t < len'[r]
      PROVE  original'[l][place(r, t)] = <<r, t>>
  <2>1. /\ r \in Reqs /\ place(r, t) \in Engine!Addrs
        /\ \A q \in running', u \in Tokens : u < len'[q] /\ place(r, t) = place(q, u) => r = q /\ t = u
    BY <1>4, <1>9, NextPlace
  <2>2. \A w \in written : place(w[1], w[2]) = place(r, t) => w = <<r, t>>
    BY <1>5, <2>1
  <2>3. CASE <<r, t>> \in written
    <3>1. PICK a \in Engine!Addrs : a = place(r, t)
      BY <2>1
    <3>2. \E w \in written : place(w[1], w[2]) = a
      BY <2>3, <3>1
    <3>3. original'[l][a] = CHOOSE w \in written : place(w[1], w[2]) = a
      BY <1>6, <3>2
    <3>4. original'[l][a] \in written /\ place(original'[l][a][1], original'[l][a][2]) = a
      BY <3>2, <3>3
    <3> QED
      BY <2>2, <3>1, <3>4
  <2>4. CASE <<r, t>> \notin written
    <3>1. ~ \E w \in written : place(w[1], w[2]) = place(r, t)
      BY <2>2, <2>4
    <3>2. original'[l][place(r, t)] = original[l][place(r, t)]
      BY <1>6, <2>1, <3>1
    <3>3. r \notin prefills
      BY <1>1, <1>9, <2>4 DEF written
    <3>4. r \in running
      BY <1>1, <3>3
    <3>5. t < len[r]
      <4>1. CASE r \in decodes
        <5>1. len'[r] = len[r] + 1
          BY <2>1, <3>3, <4>1 DEF Engine!Batch
        <5>2. t # len[r]
          BY <1>9, <2>4, <4>1 DEF written
        <5>3. PICK n \in Nat : n = len[r]
          BY <2>1, Sizes DEF IInv, EngineInv
        <5>4. t \in Nat /\ t < n + 1
          BY <1>9, <5>1, <5>3, Sizes
        <5> QED
          BY <5>2, <5>3, <5>4
      <4>2. CASE r \notin decodes
        <5>1. len'[r] = len[r]
          BY <2>1, <3>3, <4>2 DEF Engine!Batch
        <5> QED
          BY <1>9, <5>1
      <4> QED
        BY <4>1, <4>2
    <3>6. place(r, t) = Engine!SourceSlot(blockTable[r], t)
      BY <1>3, <3>4, <3>5, SamePlace
    <3>7. original[l][Engine!SourceSlot(blockTable[r], t)] = <<r, t>>
      BY <1>1, <3>4, <3>5 DEF PagedInv, Unwritten
    <3> QED
      BY <3>2, <3>6, <3>7
  <2> QED
    BY <2>3, <2>4
<1> QED
  BY <1>1, <1>4, <1>8, <1>9 DEF PagedInv

\* A decode step starts: its request's newest token has a place and no KV yet.
LEMMA BeginPaged ==
  ASSUME IInv, IInv', RecordInv, RecordInv', PagedInv, NEW r \in Reqs, Engine!BeginDecode(r)
  PROVE  PagedInv'
<1>1. /\ step = Idle /\ r \in running /\ running' = running /\ original' = original
      /\ len' = [len EXCEPT ![r] = @ + 1]
      /\ step' = [req |-> r, layer |-> 1, phase |-> "write", topk |-> << >>]
  BY DEF Engine!BeginDecode
<1>2. PICK newLen : newLen = [q \in Reqs |-> IF q = r THEN len'[r] ELSE 0]
  OBVIOUS
<1>3. Engine!Allocate(newLen) /\ \A q \in Reqs : newLen[q] \in 0..MaxSeqLen /\ newLen[q] \in Nat
  <2>1. len'[r] \in 0..MaxSeqLen /\ 0 \in 0..MaxSeqLen
    BY Sizes DEF IInv, EngineInv
  <2>2. \A q \in Reqs : newLen[q] \in 0..MaxSeqLen
    BY <1>2, <2>1
  <2> QED
    BY <1>2, <2>2, Sizes DEF Engine!BeginDecode
<1>4. blockTable' \in [Reqs -> Seq(Engine!Blocks)] /\ Disjoint(blockTable')
  BY <1>3, AllocatedBlocks DEF PagedInv
<1>5. /\ step' # Idle => step'.layer \in Engine!Layers
      /\ step'.req = r /\ step'.layer = 1 /\ step'.phase = "write"
  BY <1>1, AsuAssumption DEF Engine!Layers, Engine!SizesSound
<1>6. ASSUME NEW q \in running, NEW l \in Engine!Layers, NEW t \in Tokens, t < len'[q],
             ~(q = r /\ t = len'[r] - 1)
      PROVE  original[l][Engine!SourceSlot(blockTable'[q], t)] = <<q, t>>
  <2>1. q \in Reqs /\ t \in Nat
    BY Sizes DEF IInv, EngineInv
  <2>2. PICK n \in Nat : n = len[q]
    BY <2>1, Sizes DEF IInv, EngineInv
  <2>3. t < len[q]
    <3>1. CASE q = r
      <4>1. len'[r] = n + 1
        BY <1>1, <2>1, <2>2, <3>1 DEF IInv, EngineInv
      <4>2. t < n + 1 /\ t # n + 1 - 1
        BY <1>6, <3>1, <4>1
      <4> QED
        BY <2>1, <2>2, <4>2
    <3>2. CASE q # r
      BY <1>1, <1>6, <2>1, <3>2 DEF IInv, EngineInv
    <3> QED
      BY <3>1, <3>2
  <2>4. Engine!SourceSlot(blockTable'[q], t) = Engine!SourceSlot(blockTable[q], t)
    BY <1>3, <2>3, SamePlace
  <2>5. original[l][Engine!SourceSlot(blockTable[q], t)] = <<q, t>>
    BY <1>1, <2>3 DEF PagedInv, Unwritten
  <2> QED
    BY <2>4, <2>5
<1>7. step' # Idle
  <2>1. << >> \in Seq(Tokens \cup {Pad}) /\ 1 \in Engine!Layers
    BY AsuAssumption DEF Engine!Layers, Engine!SizesSound
  <2> QED
    BY <1>1, <2>1, StepIsNotIdle
<1>8. ASSUME NEW q \in running', NEW l \in Engine!Layers, NEW t \in Tokens, t < len'[q],
             ~Unwritten(q, l, t)'
      PROVE  original'[l][Engine!SourceSlot(blockTable'[q], t)] = <<q, t>>
  <2>1. ~(q = r /\ t = len'[r] - 1)
    <3>1. l > 1 \/ l = 1
      BY AsuAssumption DEF Engine!Layers, Engine!SizesSound
    <3> QED
      BY <1>5, <1>7, <1>8, <3>1 DEF Unwritten
  <2> QED
    BY <1>1, <1>6, <1>8, <2>1
<1> QED
  BY <1>1, <1>4, <1>5, <1>8 DEF PagedInv

LEMMA FinishPaged ==
  ASSUME IInv, RecordInv, PagedInv, NEW r \in Reqs, Engine!Release(r)
  PROVE  PagedInv'
<1>1. /\ step = Idle /\ step' = Idle /\ running' = running \ {r} /\ len' = len
      /\ original' = original /\ blockTable' = [blockTable EXCEPT ![r] = << >>]
  BY DEF Engine!Release
<1>2. blockTable' \in [Reqs -> Seq(Engine!Blocks)]
  <2>1. << >> \in Seq(Engine!Blocks)
    OBVIOUS
  <2> QED
    BY <1>1, <2>1 DEF PagedInv
<1>3. \A q \in Reqs : blockTable'[q] = IF q = r THEN << >> ELSE blockTable[q]
  BY <1>1 DEF PagedInv
<1>4. Disjoint(blockTable')
  <2> SUFFICES ASSUME NEW p \in Reqs, NEW q \in Reqs, NEW i \in 1..Len(blockTable'[p]),
                      NEW j \in 1..Len(blockTable'[q]), blockTable'[p][i] = blockTable'[q][j]
               PROVE  p = q /\ i = j
    BY DEF Disjoint
  <2>1. p # r /\ q # r
    <3>1. 1..Len(<< >>) = {}
      OBVIOUS
    <3> QED
      BY <1>3, <3>1
  <2>2. blockTable'[p] = blockTable[p] /\ blockTable'[q] = blockTable[q]
    BY <1>3, <2>1
  <2> QED
    BY <2>2 DEF PagedInv, Disjoint
<1>5. ASSUME NEW q \in running', NEW l \in Engine!Layers, NEW t \in Tokens, t < len'[q]
      PROVE  original'[l][Engine!SourceSlot(blockTable'[q], t)] = <<q, t>>
  <2>1. q \in running /\ q # r /\ q \in Reqs /\ t < len[q]
    BY <1>1, <1>5 DEF IInv, EngineInv
  <2>2. PICK bt : bt = blockTable[q] /\ bt = blockTable'[q]
    BY <1>3, <2>1
  <2>3. original[l][Engine!SourceSlot(bt, t)] = <<q, t>>
    BY <1>1, <2>1, <2>2 DEF PagedInv, Unwritten
  <2> QED
    BY <1>1, <2>2, <2>3
<1>6. original' \in [Engine!Layers -> [Engine!Addrs -> {Empty} \cup (Reqs \X Tokens)]]
  BY <1>1 DEF PagedInv
<1>7. step' = Idle
  BY <1>1
<1> QED
  BY <1>2, <1>4, <1>5, <1>6, <1>7 DEF PagedInv

\* A layer writes the newest token's KV at its place, which is no other token's.
LEMMA WritePaged ==
  ASSUME IInv, RecordInv, PagedInv, Engine!WriteLayer
  PROVE  PagedInv'
<1>1. PICK r \in running, k \in Engine!Layers :
        /\ r = step.req /\ k = step.layer /\ step # Idle /\ step.phase = "write"
        /\ UNCHANGED <<running, len, blockTable>>
  BY DEF Engine!WriteLayer, IInv, EngineInv, PagedInv
<1>2. PICK n \in Nat : n = len[r] /\ n > 0 /\ n - 1 \in Tokens /\ n - 1 \in Nat
  <2>1. len[r] \in 0..MaxSeqLen /\ len[r] > 0
    BY DEF IInv, EngineInv
  <2> QED
    BY <2>1, Sizes
<1>3. PICK w \in Tokens, bt \in {blockTable[r]} : w = n - 1 /\ w < n /\ bt = blockTable[r]
  BY <1>2
<1>4. PICK place \in Engine!Addrs : place = Engine!SourceSlot(bt, w)
  BY <1>2, <1>3, RunningPlace
<1>5. original' = [original EXCEPT ![k][place] = <<r, w>>]
  BY <1>1, <1>2, <1>3, <1>4 DEF Engine!WriteLayer
<1>6. PICK sel \in Engine!Selections(n) : step' = [step EXCEPT !.phase = "attend", !.topk = sel]
  BY <1>1, <1>2 DEF Engine!WriteLayer
<1>7. step'.req = r /\ step'.layer = k /\ step'.phase = "attend"
  BY <1>1, <1>6 DEF IInv, EngineInv
<1>s. step' # Idle
  <2>1. sel \in Seq(Tokens \cup {Pad})
    <3>1. sel \in [1..TopK -> (0..(n - 1)) \cup {Pad}]
      BY <1>6 DEF Engine!Selections
    <3>2. 0..(n - 1) \subseteq Tokens
      BY <1>2, Sizes
    <3>3. sel \in [1..TopK -> Tokens \cup {Pad}]
      BY <3>1, <3>2
    <3> QED
      BY <3>3, Sizes
  <2>2. r \in Reqs /\ step' = [req |-> r, layer |-> k, phase |-> "attend", topk |-> sel]
    BY <1>1, <1>6 DEF IInv, EngineInv
  <2> QED
    BY <2>1, <2>2, StepIsNotIdle
<1>8. <<r, w>> \in Reqs \X Tokens
  BY DEF IInv, EngineInv
<1>9. /\ original' \in [Engine!Layers -> [Engine!Addrs -> {Empty} \cup (Reqs \X Tokens)]]
      /\ \A l \in Engine!Layers, a \in Engine!Addrs :
           original'[l][a] = IF l = k /\ a = place THEN <<r, w>> ELSE original[l][a]
  BY <1>5, <1>8 DEF PagedInv
<1>10. ASSUME NEW q \in running, NEW l \in Engine!Layers, NEW t \in Tokens, t < len[q],
              ~Unwritten(q, l, t)'
       PROVE  original'[l][Engine!SourceSlot(blockTable[q], t)] = <<q, t>>
  <2>1. PICK a \in Engine!Addrs : a = Engine!SourceSlot(blockTable[q], t)
    BY <1>10, RunningPlace
  <2>2. a = place => q = r /\ t = w
    BY <1>2, <1>3, <1>4, <1>10, <2>1, RunningOwn
  <2>3. CASE l = k /\ q = r /\ t = w
    BY <1>3, <1>4, <1>9, <2>1, <2>3
  <2>4. CASE ~(l = k /\ q = r /\ t = w)
    <3>1. ~Unwritten(q, l, t)
      <4>1. SUFFICES ASSUME Unwritten(q, l, t) PROVE FALSE
        OBVIOUS
      <4>2. q = r /\ t = n - 1 /\ (l > k \/ l = k)
        BY <1>1, <1>2, <4>1 DEF Unwritten
      <4>3. l > k
        BY <1>3, <2>4, <4>2
      <4>4. Unwritten(q, l, t)'
        BY <1>1, <1>2, <1>7, <1>s, <4>2, <4>3 DEF Unwritten
      <4> QED
        BY <1>10, <4>4
    <3>2. original[l][a] = <<q, t>>
      BY <1>10, <2>1, <3>1 DEF PagedInv
    <3> QED
      BY <1>9, <2>1, <2>2, <2>4, <3>2
  <2> QED
    BY <2>3, <2>4
<1> QED
  BY <1>1, <1>7, <1>9, <1>10 DEF PagedInv

\* After its attention a layer has written its token, and the next one has not.
LEMMA AttendPaged ==
  ASSUME IInv, PagedInv, NEW kv, Engine!AttendTo(kv)
  PROVE  PagedInv'
<1>1. /\ step # Idle /\ step.phase = "attend"
      /\ running' = running /\ len' = len /\ blockTable' = blockTable /\ original' = original
  BY DEF Engine!AttendTo, Engine!Attending
<1>2. PICK N \in Nat, k \in Nat : N = NumLayers /\ k = step.layer /\ k \in 1..N
  BY <1>1, AsuAssumption DEF PagedInv, Engine!Layers, Engine!SizesSound
<1>3. step' # Idle => /\ step'.req = step.req /\ step'.layer = k + 1 /\ k + 1 \in 1..N
                      /\ step'.phase = "write"
  <2>1. CASE k = N
    BY <1>2, <2>1 DEF Engine!AttendTo
  <2>2. CASE k # N
    <3>1. step' = [step EXCEPT !.layer = k + 1, !.phase = "write", !.topk = << >>]
      BY <1>2, <2>2 DEF Engine!AttendTo
    <3>2. k + 1 \in 1..N
      BY <1>2, <2>2
    <3> QED
      BY <1>1, <3>1, <3>2 DEF IInv, EngineInv
  <2> QED
    BY <2>1, <2>2
<1>4. k # N => step' # Idle
  <2>1. SUFFICES ASSUME k # N PROVE step' # Idle
    OBVIOUS
  <2>2. PICK r \in Reqs : r = step.req
    BY <1>1 DEF IInv, EngineInv
  <2>3. k + 1 \in Engine!Layers /\ << >> \in Seq(Tokens \cup {Pad})
    BY <1>2, <2>1 DEF Engine!Layers
  <2>4. step' = [step EXCEPT !.layer = k + 1, !.phase = "write", !.topk = << >>]
    BY <1>2, <2>1 DEF Engine!AttendTo
  <2>5. step' = [req |-> r, layer |-> k + 1, phase |-> "write", topk |-> << >>]
    BY <1>1, <2>2, <2>4 DEF IInv, EngineInv
  <2> QED
    BY <2>3, <2>5, StepIsNotIdle
<1>5. ASSUME NEW r \in running, NEW l \in Engine!Layers, NEW t \in Tokens, Unwritten(r, l, t)
      PROVE  Unwritten(r, l, t)'
  <2>1. step.req = r /\ t = len[r] - 1 /\ l > k
    BY <1>1, <1>2, <1>5 DEF Unwritten
  <2>2. l \in 1..N
    BY <1>2 DEF Engine!Layers
  <2>3. k # N /\ (l > k + 1 \/ l = k + 1)
    BY <2>1, <2>2
  <2> QED
    BY <1>1, <1>3, <1>4, <2>1, <2>3 DEF Unwritten
<1>6. step' # Idle => step'.layer \in Engine!Layers
  BY <1>2, <1>3 DEF Engine!Layers
<1>7. ASSUME NEW r \in running, NEW l \in Engine!Layers, NEW t \in Tokens,
             t < len[r], ~Unwritten(r, l, t)'
      PROVE  original[l][Engine!SourceSlot(blockTable[r], t)] = <<r, t>>
  BY <1>5, <1>7 DEF PagedInv
<1>8. /\ blockTable \in [Reqs -> Seq(Engine!Blocks)] /\ Disjoint(blockTable)
      /\ original \in [Engine!Layers -> [Engine!Addrs -> {Empty} \cup (Reqs \X Tokens)]]
  BY DEF PagedInv
<1> QED
  BY <1>1, <1>6, <1>7, <1>8 DEF PagedInv

LEMMA SamePaged ==
  ASSUME PagedInv, UNCHANGED engineVars
  PROVE  PagedInv'
<1>1. UNCHANGED <<running, len, blockTable, original, step>>
  BY DEF engineVars
<1>2. ASSUME NEW r \in running, NEW l \in Engine!Layers, NEW t \in Tokens,
             t < len[r], ~Unwritten(r, l, t)'
      PROVE  original[l][Engine!SourceSlot(blockTable[r], t)] = <<r, t>>
  <2>1. ~Unwritten(r, l, t)
    BY <1>1, <1>2 DEF Unwritten
  <2> QED
    BY <1>2, <2>1 DEF PagedInv
<1>3. /\ blockTable \in [Reqs -> Seq(Engine!Blocks)] /\ Disjoint(blockTable)
      /\ original \in [Engine!Layers -> [Engine!Addrs -> {Empty} \cup (Reqs \X Tokens)]]
      /\ step # Idle => step.layer \in Engine!Layers
  BY DEF PagedInv
<1> QED
  BY <1>1, <1>2, <1>3 DEF PagedInv

-----------------------------------------------------------------------------
(* The copies.                                                              *)

\* Nothing is resident in a context that has been reset.
LEMMA ResetCopies ==
  ASSUME NEW c, NEW r \in Reqs, NEW n \in 1..MaxSeqLen, NEW bt,
         NEW d, d = Reset(c, r, n, n - 1, bt)
  PROVE  Resident(d) = {}
<1> DEFINE st == [t \in Tokens |-> CASE t < n - 1 -> AsuOnly
                                     [] t >= n - 1 /\ t < n -> TailHbm
                                     [] OTHER -> Invalid]
           rec == [t \in Tokens |-> IF t < n - 1 THEN Engine!SourceSlot(bt, t) ELSE Invalid]
<1>1. d = [FreshContext EXCEPT !.reqId = r, !.seqLen = n, !.managed = c.managed,
                               !.state = st, !.record = rec]
  BY DEF Reset
<1>2. \A t \in Tokens : st[t] # HbmResident
  BY Sizes
<1> HIDE DEF st, rec
<1>3. d.state = st
  BY <1>1 DEF FreshContext
<1> QED
  BY <1>2, <1>3 DEF Resident

\* The context d has the copies of c.
SameCopies(c, d) ==
  /\ d.reqId = c.reqId /\ Resident(d) = Resident(c)
  /\ \A t \in Resident(c) : d.managed[d.slotOf[t]] = c.managed[c.slotOf[t]]

LEMMA MarkCopies ==
  ASSUME NEW c, Exact(c), NEW n \in 1..MaxSeqLen, n > c.seqLen,
         \A t \in Tokens : c.state[t] # Invalid => t < c.seqLen,
         NEW d, d = MarkDecodeToken(c, n - 1)
  PROVE  SameCopies(c, d)
  BY MarkEffect DEF SameCopies

\* The kernel copies the selected token's KV into its slot.
LEMMA InstallCopies ==
  ASSUME NEW c, Exact(c), NEW t \in Tokens, NEW state, NEW slot \in Slots,
         NEW d, d = Install(c, t, state, slot)
  PROVE  d.slotOf[t] = slot /\ d.managed[slot] = SourceRead(c, t, state)
<1> DEFINE st == [u \in Tokens |-> IF u = t THEN HbmResident ELSE c.state[u]]
           so == [u \in Tokens |-> IF u = t THEN slot ELSE c.slotOf[u]]
           ow == [s \in Slots |-> IF s = slot THEN t ELSE c.owner[s]]
           ma == [s \in Slots |-> IF s = slot THEN SourceRead(c, t, state) ELSE c.managed[s]]
           fc == c.freeCount - 1
<1>1. d = [c EXCEPT !.freeCount = fc, !.state = st, !.slotOf = so, !.owner = ow, !.managed = ma]
  BY DEF Install
<1>2. so[t] = slot /\ ma[slot] = SourceRead(c, t, state)
  OBVIOUS
<1> HIDE DEF st, so, ow, ma, fc
<1>3. d.slotOf = so /\ d.managed = ma
  BY <1>1 DEF Exact, IsContext
<1> QED
  BY <1>2, <1>3

\* Requests that begin to run are of no context, and those that go on running
\* keep their KV.
LEMMA EngineCopies ==
  ASSUME IInv, RecordInv, CopiesInv, ctx' = ctx,
         NEW prefills, prefills \cap (running \cup finished) = {},
         running' \subseteq running \cup prefills
  PROVE  CopiesInv'
<1> SUFFICES ASSUME NEW l \in AsuLayers PROVE Copied(ctx[l])'
  BY DEF CopiesInv
<1>1. PICK c : c = ctx[l] /\ c = ctx'[l]
  OBVIOUS
<1>2. Copied(c) /\ Known(c) /\ Classified(c)
  BY <1>1 DEF CopiesInv, RecordInv, IInv, ContextInv
<1>3. ASSUME c.reqId \in running', c.reqId \notin running PROVE Resident(c) = {}
  <2>1. c.reqId \notin running \cup finished
    BY <1>3
  <2>2. c.seqLen = 0
    <3>1. c.seqLen \in 0..MaxSeqLen
      BY <1>2 DEF Classified
    <3> QED
      BY <1>2, <2>1, <3>1, Sizes DEF Known
  <2>3. \A t \in Tokens : c.state[t] # Invalid => t < 0
    BY <1>2, <2>2 DEF Classified
  <2>4. \A t \in Tokens : ~(t < 0)
    BY Sizes
  <2> QED
    BY <2>3, <2>4, Sizes DEF Resident
<1>4. c.reqId \in running' => \A t \in Resident(c) : c.managed[c.slotOf[t]] = <<c.reqId, t>>
  BY <1>2, <1>3 DEF Copied
<1> QED
  BY <1>1, <1>4 DEF Copied

\* The same copies, of the same requests.
LEMMA CopiesKept ==
  ASSUME NEW c, NEW d, Copied(c), SameCopies(c, d), running' = running
  PROVE  d.reqId \in running' => \A t \in Resident(d) : d.managed[d.slotOf[t]] = <<d.reqId, t>>
  BY DEF Copied, SameCopies

LEMMA PrepareCopies ==
  ASSUME IInv, CopiesInv, Prepare
  PROVE  CopiesInv'
<1> DEFINE l == step.layer  r == step.req  n == len[r]  bt == blockTable[r]
<1>1. l \in AsuLayers /\ step # Idle /\ r \in Reqs /\ running' = running
  BY DEF Prepare, UsesAsu, Engine!Attending, IInv, EngineInv, engineVars
<1>2. PICK m \in 1..MaxSeqLen : m = n
  <2>1. r \in running
    BY <1>1 DEF IInv, EngineInv
  <2>2. n \in 0..MaxSeqLen /\ n > 0
    BY <1>1, <2>1 DEF IInv, EngineInv
  <2> QED
    BY <2>2, Sizes
<1>3. ctx' = [k \in AsuLayers |->
                IF NeedsReset(ctx[l], r, m) THEN Reset(ctx[k], r, m, m - 1, bt)
                ELSE IF m > ctx[l].seqLen THEN MarkDecodeToken(ctx[k], m - 1)
                ELSE ctx[k]]
  BY <1>2 DEF Prepare, Prepared
<1>4. \A k \in AsuLayers : /\ Exact(ctx[k]) /\ Classified(ctx[k]) /\ Copied(ctx[k])
                           /\ ctx[k].seqLen = ctx[l].seqLen
  BY <1>1 DEF IInv, ContextInv, Together, CopiesInv
<1> HIDE DEF l, n
<1> SUFFICES ASSUME NEW k \in AsuLayers PROVE Copied(ctx[k])'
  BY DEF CopiesInv
<1>q. PICK q \in Reqs : q = r
  BY <1>1
<1>5. PICK c, d, b : c = ctx[k] /\ d = ctx'[k] /\ b = bt
  OBVIOUS
<1>6. d.reqId \in running' => \A t \in Resident(d) : d.managed[d.slotOf[t]] = <<d.reqId, t>>
  <2>1. CASE NeedsReset(ctx[l], r, m)
    <3>1. d = Reset(c, q, m, m - 1, b)
      BY <1>3, <1>5, <1>q, <2>1
    <3>2. Resident(d) = {}
      BY <3>1, ResetCopies
    <3> QED
      BY <3>2
  <2>2. CASE ~NeedsReset(ctx[l], r, m) /\ m > ctx[l].seqLen
    <3>1. d = MarkDecodeToken(c, m - 1) /\ m > c.seqLen
      BY <1>3, <1>4, <1>5, <2>2
    <3>2. /\ Exact(c) /\ Copied(c)
          /\ \A t \in Tokens : c.state[t] # Invalid => t < c.seqLen
      BY <1>4, <1>5 DEF Classified
    <3>3. SameCopies(c, d)
      BY <3>1, <3>2, MarkCopies
    <3> QED
      BY <1>1, <3>2, <3>3, CopiesKept
  <2>3. CASE ~NeedsReset(ctx[l], r, m) /\ ~(m > ctx[l].seqLen)
    <3>1. d = c
      BY <1>3, <1>5, <2>3
    <3> QED
      BY <1>1, <1>4, <1>5, <3>1 DEF Copied
  <2> QED
    BY <2>1, <2>2, <2>3
<1> QED
  BY <1>5, <1>6 DEF Copied

\* What the kernel reads for a missing token is that token's KV: the record
\* address and the block table lead to the same slot, and the layer's own token
\* has been written.
LEMMA SourceIsKV ==
  ASSUME IInv, RecordInv, PagedInv, Resolving, NEW l \in AsuLayers, l = step.layer,
         NEW state \in StatesRead(ctx[l], Selection)
  PROVE  SourceRead(ctx[l], Selection, state) = <<step.req, Selection>>
<1>1. /\ step # Idle /\ step.phase = "attend" /\ pos > 0
      /\ Selection \in Tokens /\ Selection # Pad /\ Selection < len[step.req]
  BY SelectionIsToken, Sizes DEF IInv, Resolving, UsesAsu, Engine!Attending
<1>2. PICK r \in running, t \in Tokens, k \in Engine!Layers :
        r = step.req /\ t = Selection /\ k = l /\ t < len[r] /\ t # Pad
  BY <1>1 DEF IInv, EngineInv, PagedInv
<1>3. PICK c : c = ctx[l] /\ Sourced(c) /\ c.reqId = r /\ state = c.state[t]
  BY <1>1, <1>2 DEF IInv, UnderWayInv, RecordInv, StatesRead
<1>4. ~Unwritten(r, k, t)
  <2>1. PICK m \in Nat : m = step.layer
    BY <1>1 DEF IInv, EngineInv
  <2> QED
    BY <1>1, <1>2, <2>1 DEF Unwritten
<1>5. original[k][Engine!SourceSlot(blockTable[r], t)] = <<r, t>>
  BY <1>2, <1>4 DEF PagedInv
<1>6. CASE state = AsuOnly
  <2>1. c.record[t] = Engine!SourceSlot(blockTable[r], t)
    BY <1>3, <1>6 DEF Sourced
  <2>2. SourceRead(c, t, state) = original[k][c.record[t]]
    BY <1>2, <1>6 DEF SourceRead
  <2> QED
    BY <1>2, <1>3, <1>5, <2>1, <2>2
<1>7. CASE state # AsuOnly
  <2>1. SourceRead(c, t, state) = original[k][Engine!SourceSlot(blockTable[r], t)]
    BY <1>2, <1>7 DEF SourceRead
  <2> QED
    BY <1>2, <1>3, <1>5, <2>1
<1> QED
  BY <1>6, <1>7

LEMMA ResolveCopies ==
  ASSUME Roomy, IInv, RecordInv, PagedInv, CopiesInv, ResolveMissing
  PROVE  /\ CopiesInv'
         /\ \E l \in AsuLayers : \E slot : /\ l = step.layer /\ AdvanceTo(slot)
                                           /\ Selection \in Resident(ctx'[l])
                                           /\ slot = ctx'[l].slotOf[Selection]
<1>0. PICK l \in AsuLayers : l = step.layer
  BY DEF ResolveMissing, Resolving, UsesAsu
<1>1. PICK state \in StatesRead(ctx[l], Selection) \ {HbmResident}, slot \in PoppedSlots(ctx[l]) :
         AdvanceTo(slot) /\ ctx' = [ctx EXCEPT ![l] = Install(@, Selection, state, slot)]
  BY <1>0 DEF ResolveMissing
<1>2. Resolving /\ running' = running /\ pos > 0
  BY <1>1, Sizes DEF ResolveMissing, Resolving, AdvanceTo, engineVars
<1>3. PICK t \in Tokens : t = Selection /\ t # Pad
  BY <1>2, SelectionIsToken DEF IInv
<1>4. PICK c, d, r : c = ctx[l] /\ d = ctx'[l] /\ r = step.req
  OBVIOUS
<1>5. Exact(c) /\ Copied(c) /\ c.reqId = r
  BY <1>2, <1>4 DEF IInv, ContextInv, UnderWayInv, CopiesInv
<1>6. c.state[t] # HbmResident
  BY <1>1, <1>3, <1>4 DEF StatesRead
<1>7. c.freeCount > 0
  BY <1>5, <1>6, SlotLeft
<1>8. slot = c.freeCount - 1 /\ slot \in Slots
  <2>1. slot = c.freeCount - 1
    BY <1>1, <1>4, <1>7 DEF PoppedSlots
  <2>2. c.freeCount \in 0..ManagedSlots
    BY <1>5 DEF Exact, IsContext
  <2> QED
    BY <1>7, <2>1, <2>2, Sizes DEF Slots
<1>9. d = Install(c, t, state, slot) /\ \A k \in AsuLayers : k # l => ctx'[k] = ctx[k]
  BY <1>1, <1>3, <1>4 DEF IInv, ContextInv
<1>10. Installed(c, d, t)
  BY <1>5, <1>6, <1>7, <1>8, <1>9, InstallEffect
<1>11. d.slotOf[t] = slot /\ d.managed[slot] = SourceRead(c, t, state)
  BY <1>5, <1>8, <1>9, InstallCopies
<1>12. SourceRead(c, t, state) = <<r, t>>
  BY <1>0, <1>1, <1>2, <1>3, <1>4, SourceIsKV
<1>13. ASSUME c.reqId \in running, NEW u \in Resident(d)
       PROVE  d.managed[d.slotOf[u]] = <<d.reqId, u>>
  <2>1. CASE u = t
    BY <1>5, <1>10, <1>11, <1>12, <2>1 DEF Installed
  <2>2. CASE u # t
    <3>1. u \in Resident(c) /\ u \in Tokens
      BY <1>10, <1>13, <2>2 DEF Installed, Resident
    <3>2. /\ d.slotOf[u] = c.slotOf[u] /\ d.managed[c.slotOf[u]] = c.managed[c.slotOf[u]]
          /\ d.reqId = c.reqId
      BY <1>10, <2>2, <3>1 DEF Installed
    <3>3. c.managed[c.slotOf[u]] = <<c.reqId, u>>
      BY <1>5, <1>13, <3>1 DEF Copied
    <3> QED
      BY <3>2, <3>3
  <2> QED
    BY <2>1, <2>2
<1>14. ASSUME NEW k \in AsuLayers PROVE Copied(ctx[k])'
  <2>1. CASE k = l
    <3>1. d.reqId = c.reqId
      BY <1>10 DEF Installed
    <3> QED
      BY <1>2, <1>4, <1>13, <2>1, <3>1 DEF Copied
  <2>2. CASE k # l
    <3>1. PICK e : e = ctx[k] /\ e = ctx'[k] /\ Copied(e)
      BY <1>9, <2>2 DEF CopiesInv
    <3> QED
      BY <1>2, <3>1 DEF Copied
  <2> QED
    BY <2>1, <2>2
<1>15. CopiesInv'
  BY <1>14 DEF CopiesInv
<1>16. t \in Resident(d)
  BY <1>10 DEF Installed
<1> QED
  BY <1>0, <1>1, <1>3, <1>4, <1>11, <1>15, <1>16

-----------------------------------------------------------------------------
(* The entries resolved.                                                    *)

LEMMA ResolvedMore ==
  ASSUME ResolvedInv, Resolving, NEW l \in AsuLayers, l = step.layer,
         Stays(ctx[l], ctx'[l]), ctx'[l].reqId = ctx[l].reqId,
         NEW slot, AdvanceTo(slot),
         Selection \in Resident(ctx'[l]), slot = ctx'[l].slotOf[Selection]
  PROVE  ResolvedInv'
<1>1. PICK K \in Nat, p \in Nat : K = TopK /\ p = pos /\ p \in 1..K
  BY Sizes DEF Resolving
<1>2. /\ resolved = [i \in 1..K |-> resolved[i]] /\ resolved' = [resolved EXCEPT ![p] = slot]
      /\ pos' = p + 1 /\ step' = step
  BY <1>1 DEF ResolvedInv, AdvanceTo, engineVars
<1>3. /\ resolved' = [i \in 1..K |-> resolved'[i]]
      /\ \A i \in 1..K : resolved'[i] = IF i = p THEN slot ELSE resolved[i]
  BY <1>1, <1>2
<1>4. PICK c, d : c = ctx[l] /\ d = ctx'[l] /\ Stays(c, d) /\ d.reqId = c.reqId
  OBVIOUS
<1>5. ASSUME NEW i \in 1..K, i < p + 1
      PROVE  step.topk[i] \in Resident(d) /\ resolved'[i] = d.slotOf[step.topk[i]]
  <2>1. CASE i = p
    BY <1>1, <1>3, <1>4, <2>1 DEF Selection
  <2>2. CASE i # p
    <3>1. i < p /\ p > 0
      BY <1>1, <1>5, <2>2
    <3>2. step.topk[i] \in Resident(c) /\ resolved[i] = c.slotOf[step.topk[i]]
      BY <1>1, <1>4, <3>1 DEF ResolvedInv
    <3> QED
      BY <1>3, <1>4, <2>2, <3>2 DEF Stays
  <2> QED
    BY <2>1, <2>2
<1> QED
  BY <1>1, <1>2, <1>3, <1>4, <1>5 DEF ResolvedInv

\* A resident token's entry is its slot.
LEMMA ResidentResolved ==
  ASSUME IInv, ResolvedInv, ResolveResident
  PROVE  ResolvedInv'
<1>0. PICK l \in AsuLayers : l = step.layer
  BY DEF ResolveResident, Resolving, UsesAsu
<1>1. PICK slot \in SlotsRead(ctx[l], Selection) :
        /\ AdvanceTo(slot) /\ ctx' = ctx /\ Resolving
        /\ HbmResident \in StatesRead(ctx[l], Selection)
  BY <1>0 DEF ResolveResident
<1>2. PICK t \in Tokens : t = Selection /\ t # Pad
  BY <1>1, SelectionIsToken DEF IInv
<1>3. slot = ctx[l].slotOf[t] /\ t \in Resident(ctx[l])
  BY <1>1, <1>2 DEF SlotsRead, StatesRead, Resident
<1>4. Stays(ctx[l], ctx'[l])
  BY <1>1 DEF Stays
<1> QED
  BY <1>0, <1>1, <1>2, <1>3, <1>4, ResolvedMore

\* Nothing is resolved yet.
LEMMA NoneResolved ==
  ASSUME resolved' = [i \in 1..TopK |-> resolved'[i]], pos' \in {0, 1}
  PROVE  ResolvedInv'
<1>1. \A i \in 1..TopK : ~(i < pos')
  BY Sizes
<1> QED
  BY <1>1 DEF ResolvedInv

-----------------------------------------------------------------------------
(* The invariant.                                                           *)

LEMMA InitCopyInv == Init => CopyInv
<1> SUFFICES ASSUME Init PROVE CopyInv
  OBVIOUS
<1>1. /\ running = {} /\ blockTable = [r \in Reqs |-> << >>] /\ step = Idle
      /\ original = [l \in Engine!Layers |-> [a \in Engine!Addrs |-> Empty]]
      /\ ctx = [l \in AsuLayers |-> FreshContext]
      /\ pos = 0 /\ resolved = [i \in 1..TopK |-> Invalid]
  BY DEF Init, Engine!Init
<1>2. blockTable \in [Reqs -> Seq(Engine!Blocks)]
  <2>1. << >> \in Seq(Engine!Blocks)
    OBVIOUS
  <2> QED
    BY <1>1, <2>1
<1>3. Disjoint(blockTable)
  <2>1. 1..Len(<< >>) = {}
    OBVIOUS
  <2>2. \A r \in Reqs : 1..Len(blockTable[r]) = {}
    BY <1>1, <2>1
  <2> QED
    BY <2>2 DEF Disjoint
<1>4. original \in [Engine!Layers -> [Engine!Addrs -> {Empty} \cup (Reqs \X Tokens)]]
  BY <1>1
<1>5. PagedInv
  BY <1>1, <1>2, <1>3, <1>4 DEF PagedInv
<1>6. CopiesInv
  <2>1. \A l \in AsuLayers : Resident(ctx[l]) = {}
    BY <1>1, FreshExact
  <2> QED
    BY <2>1 DEF CopiesInv, Copied
<1>7. ResolvedInv
  <2>1. pos > 0 => FALSE
    BY <1>1
  <2> QED
    BY <1>1, <2>1 DEF ResolvedInv
<1> QED
  BY <1>5, <1>6, <1>7 DEF CopyInv

LEMMA NextCopyInv ==
  ASSUME Roomy, NoPreemption, IInv, IInv', RecordInv, RecordInv', CopyInv, [Next]_vars
  PROVE  CopyInv'
<1> USE DEF CopyInv
<1>idle. step = Idle \/ step.phase = "write" \/ step.layer \notin AsuLayers => pos = 0
  BY Sizes DEF IInv, UnderWayInv, UsesAsu, Engine!Attending
<1>r. resolved = [i \in 1..TopK |-> resolved[i]]
  BY DEF ResolvedInv
<1>kept. ASSUME pos = 0, UNCHANGED <<pos, resolved>> PROVE ResolvedInv'
  BY <1>r, <1>kept, NoneResolved
<1>engine. ASSUME UNCHANGED <<ctx, running>> PROVE CopiesInv'
  <2>1. {} \cap (running \cup finished) = {} /\ running' \subseteq running \cup {}
    BY <1>engine
  <2> QED
    BY <1>engine, <2>1, EngineCopies
<1>1. ASSUME NEW prefills \in SUBSET Reqs, NEW decodes \in SUBSET Reqs,
             Engine!Batch(prefills, decodes), UNCHANGED <<ctx, pos, resolved>>
      PROVE  CopyInv'
  <2>1. /\ step = Idle /\ running' = running \cup prefills
        /\ prefills \cap (running \cup finished) = {}
    BY <1>1 DEF Engine!Batch
  <2>2. PagedInv'
    BY <1>1, BatchPaged
  <2>3. CopiesInv'
    BY <1>1, <2>1, EngineCopies
  <2> QED
    BY <1>1, <1>idle, <1>kept, <2>1, <2>2, <2>3
<1>2. ASSUME NEW r \in Reqs, Engine!BeginDecode(r), UNCHANGED <<ctx, pos, resolved>>
      PROVE  CopyInv'
  <2>1. step = Idle /\ running' = running
    BY <1>2 DEF Engine!BeginDecode
  <2>2. PagedInv'
    BY <1>2, BeginPaged
  <2> QED
    BY <1>2, <1>idle, <1>kept, <1>engine, <2>1, <2>2
<1>3. ASSUME NEW r \in Reqs, Engine!Finish(r), UNCHANGED <<ctx, pos, resolved>>
      PROVE  CopyInv'
  <2>0. Engine!Release(r)
    BY <1>3 DEF Engine!Finish
  <2>1. step = Idle /\ running' \subseteq running \cup {}
    BY <2>0 DEF Engine!Release
  <2>2. PagedInv'
    BY <2>0, FinishPaged
  <2>3. CopiesInv'
    <3>1. {} \cap (running \cup finished) = {}
      OBVIOUS
    <3> QED
      BY <1>3, <2>1, <3>1, EngineCopies
  <2> QED
    BY <1>3, <1>idle, <1>kept, <2>1, <2>2, <2>3
<1>4. ASSUME NEW r \in Reqs, Engine!Preempt(r)
      PROVE  FALSE
  BY <1>4 DEF Engine!Preempt, NoPreemption
<1>5. CASE Write
  <2>1. Engine!WriteLayer /\ step.phase = "write" /\ UNCHANGED <<ctx, pos, resolved, running>>
    BY <1>5 DEF Write, Engine!WriteLayer
  <2>2. PagedInv'
    BY <2>1, WritePaged
  <2> QED
    BY <1>idle, <1>kept, <1>engine, <2>1, <2>2
<1>6. CASE AttendOriginal
  <2>1. PICK kv : /\ Engine!AttendTo(kv) /\ step.layer \notin AsuLayers
                  /\ UNCHANGED <<ctx, pos, resolved, running>>
    BY <1>6 DEF AttendOriginal, Engine!Attend, Engine!AttendTo
  <2>2. PagedInv'
    BY <2>1, AttendPaged
  <2> QED
    BY <1>idle, <1>kept, <1>engine, <2>1, <2>2
<1>7. CASE AttendManaged
  <2>1. PICK kv : Engine!AttendTo(kv) /\ UNCHANGED <<ctx, running>>
    BY <1>7 DEF AttendManaged, Engine!AttendTo
  <2>2. PagedInv'
    BY <2>1, AttendPaged
  <2>3. resolved' = [i \in 1..TopK |-> resolved'[i]] /\ pos' \in {0, 1}
    BY <1>7 DEF AttendManaged
  <2> QED
    BY <1>engine, <2>1, <2>2, <2>3, NoneResolved
<1>8. CASE Prepare
  <2>1. UNCHANGED engineVars /\ resolved' = resolved /\ pos' = 1
    BY <1>8 DEF Prepare
  <2>2. resolved' = [i \in 1..TopK |-> resolved'[i]] /\ pos' \in {0, 1}
    BY <1>r, <2>1
  <2> QED
    BY <1>8, <2>1, <2>2, SamePaged, PrepareCopies, NoneResolved
<1>9. CASE ResolveResident
  <2>1. UNCHANGED engineVars /\ UNCHANGED <<ctx, running>>
    BY <1>9 DEF ResolveResident, AdvanceTo, engineVars
  <2> QED
    BY <1>9, <1>engine, <2>1, SamePaged, ResidentResolved
<1>10. CASE ResolveMissing
  <2>1. UNCHANGED engineVars /\ Resolving
    BY <1>10 DEF ResolveMissing, AdvanceTo
  <2>2. CopiesInv'
    BY <1>10, ResolveCopies
  <2>3. PICK l \in AsuLayers : l = step.layer
    BY <2>1 DEF Resolving, UsesAsu
  <2>4. PICK slot : /\ AdvanceTo(slot) /\ Selection \in Resident(ctx'[l])
                    /\ slot = ctx'[l].slotOf[Selection]
    BY <1>10, <2>3, ResolveCopies
  <2>5. Stays(ctx[l], ctx'[l]) /\ ctx'[l].reqId = ctx[l].reqId
    BY <1>10, ResolveStep DEF IInv
  <2>6. ResolvedInv'
    BY <2>1, <2>3, <2>4, <2>5, ResolvedMore
  <2> QED
    BY <2>1, <2>2, <2>6, SamePaged
<1>11. CASE UNCHANGED vars
  <2>1. UNCHANGED engineVars /\ UNCHANGED <<ctx, running, step, pos, resolved>>
    BY <1>11 DEF vars, engineVars
  <2>2. ResolvedInv'
    BY <2>1 DEF ResolvedInv
  <2> QED
    BY <1>engine, <2>1, <2>2, SamePaged
<1> QED
  BY <1>1, <1>2, <1>3, <1>4, <1>5, <1>6, <1>7, <1>8, <1>9, <1>10, <1>11 DEF Next, Schedule, Work

LEMMA CopyInvariance == Roomy /\ NoPreemption /\ Spec => [](IInv /\ RecordInv /\ CopyInv)
<1> SUFFICES ASSUME Roomy, NoPreemption PROVE Spec => [](IInv /\ RecordInv /\ CopyInv)
  OBVIOUS
<1>1. IInv /\ [Next]_vars => IInv'
  BY NextIInv
<1>2. IInv /\ IInv' /\ RecordInv /\ [Next]_vars => RecordInv'
  BY NextRecordInv
<1>3. IInv /\ IInv' /\ RecordInv /\ RecordInv' /\ CopyInv /\ [Next]_vars => CopyInv'
  BY NextCopyInv
<1> QED
  BY <1>1, <1>2, <1>3, InitIInv, InitRecordInv, InitCopyInv, PTL DEF Spec

-----------------------------------------------------------------------------
(* The theorems.                                                            *)

\* The managed copy of a resident token is that token's KV of the running
\* request, through every change of request and reuse of slots.
THEOREM CopiesCurrent == Roomy /\ NoPreemption /\ Spec => []ResidentCopyCurrent
<1>1. IInv /\ RecordInv /\ CopyInv => ResidentCopyCurrent
  <2> SUFFICES ASSUME IInv, CopyInv, NEW l \in AsuLayers, UnderWay(l), NEW t \in Resident(ctx[l])
               PROVE  ctx[l].managed[ctx[l].slotOf[t]] = <<step.req, t>>
    BY DEF ResidentCopyCurrent
  <2>1. ctx[l].reqId = step.req /\ step.req \in running
    BY DEF IInv, UnderWayInv, UnderWay, EngineInv, UsesAsu, Engine!Attending
  <2> QED
    BY <2>1 DEF CopyInv, CopiesInv, Copied
<1> QED
  BY <1>1, CopyInvariance, PTL

\* Attention over the managed slots is attention over the paged cache: every
\* selected entry resolves to a slot with the KV that the block table leads to.
LEMMA AttendsTheSame ==
  ASSUME IInv, RecordInv, CopyInv, AttendManaged
  PROVE  Engine!Attend
<1>1. PICK l \in AsuLayers : l = step.layer /\ UsesAsu /\ pos = TopK + 1 /\ Engine!Attending
  BY DEF AttendManaged, UsesAsu
<1>2. PICK r \in running, k \in Engine!Layers : r = step.req /\ k = l
  BY <1>1 DEF IInv, EngineInv, CopyInv, PagedInv, Engine!Attending
<1> DEFINE read(i) == IF resolved[i] \in Slots THEN ctx[l].managed[resolved[i]] ELSE Empty
           paged(i) == original[k][Engine!SourceSlot(blockTable[r], step.topk[i])]
<1>3. ASSUME NEW i \in Engine!Selected PROVE read(i) = paged(i)
  <2>1. i \in 1..TopK /\ i < pos /\ pos > 0
    BY <1>1, Sizes DEF Engine!Selected
  <2>2. PICK t : t = step.topk[i] /\ t \in Resident(ctx[l]) /\ resolved[i] = ctx[l].slotOf[t]
    BY <1>1, <2>1 DEF CopyInv, ResolvedInv
  <2>3. ctx[l].reqId = r /\ ctx[l].seqLen = len[r]
    BY <1>1, <1>2, <2>1 DEF IInv, UnderWayInv
  <2>4. resolved[i] \in Slots
    BY <2>2 DEF IInv, ContextInv, Exact
  <2>5. read(i) = <<r, t>>
    BY <1>2, <2>2, <2>3, <2>4 DEF CopyInv, CopiesInv, Copied
  <2>6. t \in Tokens /\ t < len[r]
    BY <2>2, <2>3, Sizes DEF IInv, ContextInv, Classified, Resident
  <2>7. ~Unwritten(r, k, t)
    <3>1. PICK m \in Nat : m = step.layer /\ m = k /\ step.phase = "attend"
      BY <1>1, <1>2 DEF IInv, EngineInv, Engine!Attending
    <3> QED
      BY <3>1 DEF Unwritten
  <2>8. paged(i) = <<r, t>>
    BY <2>2, <2>6, <2>7 DEF CopyInv, PagedInv
  <2> QED
    BY <2>5, <2>8
<1>4. Engine!AttendTo([i \in Engine!Selected |-> read(i)])
  BY <1>1 DEF AttendManaged
<1>5. [i \in Engine!Selected |-> read(i)] = [i \in Engine!Selected |-> paged(i)]
  BY <1>3
<1>6. Engine!AttendTo([i \in Engine!Selected |-> paged(i)])
  BY <1>4, <1>5
<1> QED
  BY <1>1, <1>2, <1>6 DEF Engine!Attend

LEMMA StepImplements ==
  ASSUME IInv, RecordInv, CopyInv, [Next]_vars
  PROVE  [Engine!Next]_(Engine!vars)
<1>1. CASE Schedule
  BY <1>1 DEF Schedule, Engine!Next
<1>2. CASE Write
  BY <1>2 DEF Write, Engine!Next
<1>3. CASE AttendManaged
  BY <1>3, AttendsTheSame DEF Engine!Next
<1>4. CASE AttendOriginal
  BY <1>4 DEF AttendOriginal, Engine!Next
<1>5. CASE Prepare \/ ResolveResident \/ ResolveMissing
  BY <1>5 DEF Prepare, ResolveResident, ResolveMissing, AdvanceTo, engineVars, Engine!vars
<1>6. CASE UNCHANGED vars
  BY <1>6 DEF vars, engineVars, Engine!vars
<1> QED
  BY <1>1, <1>2, <1>3, <1>4, <1>5, <1>6 DEF Next, Work

\* The managed path implements the original one: no step of the engine and no
\* attention shows whether a layer has a context.
THEOREM ManagedIsOriginal == Roomy /\ NoPreemption /\ Spec => ImplementsPagedDecode
<1> SUFFICES ASSUME Roomy, NoPreemption PROVE Spec => ImplementsPagedDecode
  OBVIOUS
<1>1. Init => Engine!Init
  BY DEF Init
<1>2. IInv /\ RecordInv /\ CopyInv /\ [Next]_vars => [Engine!Next]_(Engine!vars)
  BY StepImplements
<1>3. Spec => [](IInv /\ RecordInv /\ CopyInv)
  BY CopyInvariance
<1>4. ImplementsPagedDecode <=> Engine!Init /\ [][Engine!Next]_(Engine!vars)
  BY DEF ImplementsPagedDecode, Engine!Spec
<1> QED
  BY <1>1, <1>2, <1>3, <1>4, PTL DEF Spec

-----------------------------------------------------------------------------
(* The types of what the kernel reads unchecked: with the slots exact, the  *)
(* addresses and copies it follows lie in the paged cache.                  *)

\* A context's record addresses and copies have their types.
Typed(c) ==
  /\ c.record \in [Tokens -> Engine!Addrs \cup {Invalid}]
  /\ c.managed \in [Slots -> (Reqs \X Tokens) \cup {Empty}]

TypesInv ==
  /\ \A l \in AsuLayers : Typed(ctx[l])
  /\ resolved \in [1..TopK -> Slots \cup {Invalid}]

LEMMA ResetTypes ==
  ASSUME NEW c, Typed(c), NEW r \in Reqs, NEW n \in 1..MaxSeqLen,
         NEW bt \in Seq(Engine!Blocks), Engine!BlocksFor(n) <= Len(bt),
         NEW d, d = Reset(c, r, n, n - 1, bt)
  PROVE  Typed(d)
<1> DEFINE st == [t \in Tokens |-> CASE t < n - 1 -> AsuOnly
                                     [] t >= n - 1 /\ t < n -> TailHbm
                                     [] OTHER -> Invalid]
           rec == [t \in Tokens |-> IF t < n - 1 THEN Engine!SourceSlot(bt, t) ELSE Invalid]
<1>1. d = [FreshContext EXCEPT !.reqId = r, !.seqLen = n, !.managed = c.managed,
                               !.state = st, !.record = rec]
  BY DEF Reset
<1>2. rec \in [Tokens -> Engine!Addrs \cup {Invalid}]
  <2> SUFFICES ASSUME NEW t \in Tokens, t < n - 1 PROVE Engine!SourceSlot(bt, t) \in Engine!Addrs
    OBVIOUS
  <2>1. t \in Nat /\ t < n /\ n \in Nat
    BY Sizes
  <2> QED
    BY <2>1, Place
<1> HIDE DEF st, rec
<1>3. d.record = rec /\ d.managed = c.managed
  BY <1>1 DEF FreshContext
<1> QED
  BY <1>2, <1>3 DEF Typed

LEMMA InstallTypes ==
  ASSUME NEW c, Exact(c), Typed(c), NEW t \in Tokens, NEW state, NEW slot,
         SourceRead(c, t, state) \in Reqs \X Tokens,
         NEW d, d = Install(c, t, state, slot)
  PROVE  Typed(d)
<1> DEFINE st == [u \in Tokens |-> IF u = t THEN HbmResident ELSE c.state[u]]
           so == [u \in Tokens |-> IF u = t THEN slot ELSE c.slotOf[u]]
           ow == [s \in Slots |-> IF s = slot THEN t ELSE c.owner[s]]
           ma == [s \in Slots |-> IF s = slot THEN SourceRead(c, t, state) ELSE c.managed[s]]
           fc == c.freeCount - 1
<1>1. d = [c EXCEPT !.freeCount = fc, !.state = st, !.slotOf = so, !.owner = ow, !.managed = ma]
  BY DEF Install
<1>2. ma \in [Slots -> (Reqs \X Tokens) \cup {Empty}]
  BY DEF Typed
<1> HIDE DEF st, so, ow, ma, fc
<1>3. d.record = c.record /\ d.managed = ma
  BY <1>1 DEF Exact, IsContext
<1> QED
  BY <1>2, <1>3 DEF Typed

LEMMA PrepareTypes ==
  ASSUME IInv, RecordInv, PagedInv, TypesInv, Prepare
  PROVE  TypesInv'
<1> DEFINE l == step.layer  r == step.req  n == len[r]
<1>1. l \in AsuLayers /\ step # Idle /\ r \in Reqs /\ r \in running /\ resolved' = resolved
  BY DEF Prepare, UsesAsu, Engine!Attending, IInv, EngineInv
<1>2. PICK m \in 1..MaxSeqLen : m = n
  <2>1. n \in 0..MaxSeqLen /\ n > 0
    BY <1>1 DEF IInv, EngineInv
  <2> QED
    BY <2>1, Sizes
<1>b. PICK b \in Seq(Engine!Blocks) : b = blockTable[r] /\ Engine!BlocksFor(m) <= Len(b)
  BY <1>1, <1>2 DEF PagedInv, RecordInv, BlocksInv, Engine!BlocksFor
<1>3. ctx' = [k \in AsuLayers |->
                IF NeedsReset(ctx[l], r, m) THEN Reset(ctx[k], r, m, m - 1, b)
                ELSE IF m > ctx[l].seqLen THEN MarkDecodeToken(ctx[k], m - 1)
                ELSE ctx[k]]
  BY <1>2, <1>b DEF Prepare, Prepared
<1>4. \A k \in AsuLayers : /\ Exact(ctx[k]) /\ Classified(ctx[k]) /\ Typed(ctx[k])
                           /\ ctx[k].seqLen = ctx[l].seqLen
  BY <1>1 DEF IInv, ContextInv, Together, TypesInv
<1> HIDE DEF l, n
<1>5. ASSUME NEW k \in AsuLayers PROVE Typed(ctx'[k])
  <2>q. PICK q \in Reqs : q = r
    BY <1>1
  <2>c. PICK c, d : c = ctx[k] /\ d = ctx'[k]
    OBVIOUS
  <2>1. CASE NeedsReset(ctx[l], r, m)
    <3>1. d = Reset(c, q, m, m - 1, b) /\ Typed(c)
      BY <1>3, <1>4, <2>q, <2>c, <2>1
    <3> QED
      BY <1>b, <2>c, <3>1, ResetTypes
  <2>2. CASE ~NeedsReset(ctx[l], r, m) /\ m > ctx[l].seqLen
    <3>1. d = MarkDecodeToken(c, m - 1) /\ m > c.seqLen /\ Exact(c) /\ Typed(c)
      BY <1>3, <1>4, <2>c, <2>2
    <3>2. c.seqLen \in 0..MaxSeqLen /\ \A t \in Tokens : c.state[t] # Invalid => t < c.seqLen
      BY <1>4, <2>c DEF Classified
    <3>3. c.seqLen > 0
      BY <1>4, <2>c, <2>2, <3>2 DEF NeedsReset
    <3>4. d.managed = c.managed
      BY <3>1, <3>2, MarkEffect
    <3>5. d.record = c.record
      <4>1. m - 1 \in Nat
        OBVIOUS
      <4>2. NoNewSources(c, d)
        BY <3>1, <3>3, <4>1, MarkSources
      <4> QED
        BY <4>2 DEF NoNewSources
    <3> QED
      BY <2>c, <3>1, <3>4, <3>5 DEF Typed
  <2>3. CASE ~NeedsReset(ctx[l], r, m) /\ ~(m > ctx[l].seqLen)
    BY <1>3, <1>4, <2>3
  <2> QED
    BY <2>1, <2>2, <2>3
<1> QED
  BY <1>1, <1>5 DEF TypesInv, Typed

LEMMA ResolveTypes ==
  ASSUME Roomy, IInv, IInv', RecordInv, PagedInv, CopiesInv, TypesInv, ResolveMissing
  PROVE  TypesInv'
<1>0. PICK l \in AsuLayers : l = step.layer
  BY DEF ResolveMissing, Resolving, UsesAsu
<1>1. PICK state \in StatesRead(ctx[l], Selection), slot \in PoppedSlots(ctx[l]) :
         ctx' = [ctx EXCEPT ![l] = Install(@, Selection, state, slot)]
  BY <1>0 DEF ResolveMissing
<1>2. Resolving
  BY DEF ResolveMissing
<1>3. PICK t \in Tokens : t = Selection
  BY <1>2, SelectionIsToken DEF IInv
<1>4. PICK c, d : c = ctx[l] /\ d = ctx'[l]
  OBVIOUS
<1>5. SourceRead(c, t, state) \in Reqs \X Tokens
  <2>1. step.req \in Reqs
    BY <1>2 DEF Resolving, UsesAsu, Engine!Attending, IInv, EngineInv
  <2> QED
    BY <1>0, <1>1, <1>2, <1>3, <1>4, <2>1, SourceIsKV
<1>6. d = Install(c, t, state, slot) /\ \A k \in AsuLayers : k # l => ctx'[k] = ctx[k]
  BY <1>1, <1>3, <1>4 DEF IInv, ContextInv
<1>7. Exact(c) /\ Typed(c)
  BY <1>4 DEF IInv, ContextInv, TypesInv
<1>8. Typed(d)
  BY <1>5, <1>6, <1>7, InstallTypes
<1>9. \A k \in AsuLayers : Typed(ctx'[k])
  BY <1>4, <1>6, <1>8 DEF TypesInv
<1>10. resolved' \in [1..TopK -> Slots \cup {Invalid}]
  <2>1. PICK new : /\ AdvanceTo(new) /\ Selection \in Resident(ctx'[l])
                   /\ new = ctx'[l].slotOf[Selection]
    BY <1>0, ResolveCopies
  <2>2. new \in Slots
    BY <2>1 DEF IInv, ContextInv, Exact
  <2> QED
    BY <2>1, <2>2 DEF AdvanceTo, TypesInv
<1> QED
  BY <1>9, <1>10 DEF TypesInv, Typed

LEMMA NextTypesInv ==
  ASSUME Roomy, IInv, IInv', RecordInv, CopyInv, TypesInv, [Next]_vars
  PROVE  TypesInv'
<1>same. ASSUME ctx' = ctx, resolved' \in [1..TopK -> Slots \cup {Invalid}] PROVE TypesInv'
  BY <1>same DEF TypesInv, Typed
<1>r. resolved \in [1..TopK -> Slots \cup {Invalid}]
  BY DEF TypesInv
<1>1. CASE Schedule
  BY <1>1, <1>same, <1>r DEF Schedule
<1>2. CASE Write
  BY <1>2, <1>same, <1>r DEF Write
<1>3. CASE AttendManaged
  BY <1>3, <1>same DEF AttendManaged
<1>4. CASE AttendOriginal
  BY <1>4, <1>same, <1>r DEF AttendOriginal
<1>5. CASE Prepare
  BY <1>5, PrepareTypes DEF CopyInv
<1>6. CASE ResolveResident
  <2>1. PICK l \in AsuLayers : l = step.layer
    BY <1>6 DEF ResolveResident, Resolving, UsesAsu
  <2>2. PICK slot \in SlotsRead(ctx[l], Selection) :
          AdvanceTo(slot) /\ ctx' = ctx /\ Resolving /\ HbmResident \in StatesRead(ctx[l], Selection)
    BY <1>6, <2>1 DEF ResolveResident
  <2>3. Selection \in Tokens /\ Selection # Pad
    BY <2>2, SelectionIsToken DEF IInv
  <2>4. slot \in Slots
    BY <2>2, <2>3 DEF SlotsRead, StatesRead, IInv, ContextInv, Exact, Resident
  <2> QED
    BY <2>2, <2>4, <1>same, <1>r DEF AdvanceTo
<1>7. CASE ResolveMissing
  BY <1>7, ResolveTypes DEF CopyInv
<1>8. CASE UNCHANGED vars
  BY <1>8, <1>same, <1>r DEF vars
<1> QED
  BY <1>1, <1>2, <1>3, <1>4, <1>5, <1>6, <1>7, <1>8 DEF Next, Work

\* The stack is never popped empty, and every address and slot that the kernel
\* follows unchecked is one of the cache it follows it into.
THEOREM TypeCorrect == Roomy /\ NoPreemption /\ Spec => []TypeOK
<1> SUFFICES ASSUME Roomy, NoPreemption PROVE Spec => []TypeOK
  OBVIOUS
<1>1. Init => TypesInv
  <2> SUFFICES ASSUME Init PROVE TypesInv
    OBVIOUS
  <2>1. Typed(FreshContext)
    BY DEF Typed, FreshContext
  <2> QED
    BY <2>1 DEF Init, TypesInv
<1>2. /\ IInv /\ IInv' /\ RecordInv /\ CopyInv /\ TypesInv /\ [Next]_vars
      => TypesInv'
  BY NextTypesInv
<1>3. IInv /\ TypesInv => TypeOK
  <2> SUFFICES ASSUME IInv, TypesInv PROVE TypeOK
    OBVIOUS
  <2>1. ASSUME NEW l \in AsuLayers PROVE ctx[l] \in Contexts /\ ctx[l].freeCount \in 0..ManagedSlots
    <3>1. PICK c : c = ctx[l] /\ IsContext(c) /\ Typed(c)
      BY DEF IInv, ContextInv, Exact, TypesInv
    <3>2. c \in Contexts
      BY <3>1 DEF IsContext, Typed, Contexts
    <3> QED
      BY <3>1, <3>2 DEF IsContext
  <2>2. ctx \in [AsuLayers -> Contexts]
    BY <2>1 DEF IInv, ContextInv
  <2> QED
    BY <2>1, <2>2 DEF TypeOK, TypesInv, IInv, UnderWayInv
<1>4. Spec => [](IInv /\ RecordInv /\ CopyInv)
  BY CopyInvariance
<1> QED
  BY <1>1, <1>2, <1>3, <1>4, PTL DEF Spec
=============================================================================
