--------------------------- MODULE HbmIndexProofs ---------------------------
(***************************************************************************)
(* Safety of the HBM index operators for every number of requests, cores,   *)
(* tokens, slots and queries SizeAssumption allows: the invariants of       *)
(* HbmIndex follow from one inductive invariant, IInv, and so does that the *)
(* operators implement PinnedCache.                                         *)
(*                                                                          *)
(* Then the kernels against the sequential reference of the validation      *)
(* script: every core's request goes through the reference's states, one    *)
(* query position or one slot at a time, so that what a kernel leaves is    *)
(* what the script expects, for every script the command line can ask for,  *)
(* but for what the answer to a request may lack that its core went on from.*)
(*                                                                          *)
(* Last, the benchmark: what its script times and restores, where the       *)
(* device is in it, and what a kernel takes of the pools on the way.        *)
(***************************************************************************)
EXTENDS HbmIndexRefinement, HbmScripts, NpuStreamProofs

-----------------------------------------------------------------------------
(* Division: which core handles a request.                                  *)

LEMMA DivMod ==
  ASSUME NEW B \in Nat \ {0}, NEW x \in Nat
  PROVE  /\ x = B * (x \div B) + (x % B)
         /\ x \div B \in Nat
         /\ x % B \in 0 .. B - 1
  OBVIOUS

LEMMA ModSmall ==
  ASSUME NEW B \in Nat \ {0}, NEW x \in 0 .. B - 1
  PROVE  x % B = x
  OBVIOUS

LEMMA QuotientUnique ==
  ASSUME NEW B \in Nat \ {0}, NEW p \in Nat, NEW q \in Nat,
         NEW a \in 0 .. B - 1, NEW b \in 0 .. B - 1,
         B * p + a = B * q + b
  PROVE  p = q /\ a = b
<1>1. ~(p < q)
  <2> SUFFICES ASSUME p < q PROVE FALSE
    OBVIOUS
  <2>1. p + 1 <= q
    OBVIOUS
  <2>2. B * (p + 1) <= B * q
    BY <2>1
  <2>3. B * (p + 1) = B * p + B
    OBVIOUS
  <2> QED
    BY <2>2, <2>3
<1>2. ~(q < p)
  <2> SUFFICES ASSUME q < p PROVE FALSE
    OBVIOUS
  <2>1. q + 1 <= p
    OBVIOUS
  <2>2. B * (q + 1) <= B * p
    BY <2>1
  <2>3. B * (q + 1) = B * q + B
    OBVIOUS
  <2> QED
    BY <2>2, <2>3
<1> QED
  BY <1>1, <1>2

LEMMA ModStride ==
  ASSUME NEW B \in Nat \ {0}, NEW x \in Nat
  PROVE  (x + B) % B = x % B
<1>1. PICK p \in Nat, a \in 0 .. B - 1 : x = B * p + a /\ a = x % B
  BY DivMod
<1>2. x + B \in Nat
  OBVIOUS
<1>3. PICK q \in Nat, b \in 0 .. B - 1 : x + B = B * q + b /\ b = (x + B) % B
  BY <1>2, DivMod
<1>4. B * (p + 1) + a = B * q + b
  BY <1>1, <1>3
<1>5. p + 1 \in Nat
  OBVIOUS
<1>6. a = b
  BY <1>4, <1>5, QuotientUnique
<1> QED
  BY <1>1, <1>3, <1>6

LEMMA ModUnique ==
  ASSUME NEW B \in Nat \ {0}, NEW x \in Nat, NEW y \in Nat,
         x <= y, y < x + B, x % B = y % B
  PROVE  x = y
<1>1. PICK p \in Nat, a \in 0 .. B - 1 : x = B * p + a /\ a = x % B
  BY DivMod
<1>2. PICK q \in Nat, b \in 0 .. B - 1 : y = B * q + b /\ b = y % B
  BY DivMod
<1>3. PICK d \in 0 .. B - 1 : d = y - x
  OBVIOUS
<1>4. PICK z \in 0 .. B - 1 : z = 0
  OBVIOUS
<1>5. B * p + d = B * q + z
  BY <1>1, <1>2, <1>3, <1>4
<1>6. d = z
  BY <1>5, QuotientUnique
<1> QED
  BY <1>3, <1>4, <1>6

-----------------------------------------------------------------------------
(* The inductive invariant.                                                 *)

AllResident(r) == \A i \in Positions : index[r][query[r][i]] # NotFound

\* A position of the answer is right, or was left out.
Answered(r) ==
  \A i \in Positions :
    LET slot == index[r][query[r][i]] IN
      /\ slot # NotFound
      /\ slotOut[r][i] # slot => Followed(r) /\ slotOut[r][i] = NotFound

\* Which loop a core is in, and at which request.
Control ==
  \A c \in Cores :
    /\ pc[c] = "alloc" => op = "lookup" /\ req[c] < ReqNum
    /\ pc[c] \in {"scan", "fault"} => op = "maintain" /\ req[c] < ReqNum
    /\ op # "idle" => CoreOf(req[c]) = c

\* A core in lookup has answered the positions before pos rightly, and either
\* it entered with a full pool or it will not need the pool.
LookupProgress ==
  \A c \in Cores : pc[c] = "alloc" =>
    /\ pos[c] <= QueryCount
    /\ head[c] <= pos[c] \/ AllResident(req[c])
    /\ \A i \in Positions :
         /\ i < pos[c] => outTile[c][i] # NotFound
         /\ outTile[c][i] # NotFound =>
              outTile[c][i] = index[req[c]][query[req[c]][i]]

\* A request no core is at enters lookup with a full pool, or needs none; one
\* its core has passed is answered.
LookupRequests ==
  op = "lookup" => \A r \in Reqs :
    /\ (\A c \in Cores : Busy(c) => req[c] # r) =>
         freeHead[r] = 0 \/ AllResident(r)
    /\ r < req[CoreOf(r)] => Answered(r)

\* maintain runs on answered requests and scans with their slots protected; no
\* position of theirs was left out.
MaintainProgress ==
  /\ op = "maintain" => answered
  /\ \A c \in Cores : pc[c] = "scan" =>
       /\ pos[c] \in Slots
       /\ protected[c] = {slotOut[req[c]][i] : i \in Positions}
       /\ NotFound \notin protected[c]

IInv ==
  /\ TypeOK
  /\ Control
  /\ MappingBijective
  /\ FreePoolExact
  /\ LookupProgress
  /\ LookupRequests
  /\ MaintainProgress
  /\ AnswerStands
-----------------------------------------------------------------------------
(* Consequences of the invariant the steps below rely on.                   *)

LEMMA OneCorePerRequest ==
  ASSUME Control, op # "idle", NEW c \in Cores, NEW d \in Cores,
         req[c] = req[d]
  PROVE  c = d
  BY DEF Control

LEMMA InitIInv == Init => IInv
<1> SUFFICES ASSUME Init PROVE IInv
  OBVIOUS
<1> USE SizeAssumption DEF Init, NotFound, Reqs, Cores, Tokens, Slots, FreeRow,
        Positions, Residents, Busy
<1>1. TypeOK
  <2>1. /\ index \in [Reqs -> [Tokens -> Slots \cup {NotFound}]]
        /\ slotToIndex \in [Reqs -> [Slots -> Tokens \cup {NotFound}]]
    OBVIOUS
  <2>2. /\ freeSlots \in [Reqs -> [FreeRow -> Slots]]
        /\ freeHead \in [Reqs -> 0 .. FreeCount]
        /\ query \in [Reqs -> [Positions -> Tokens]]
        /\ slotOut \in [Reqs -> [Positions -> Slots \cup {NotFound}]]
    OBVIOUS
  <2>3. /\ req \in [Cores -> Nat]
        /\ pc \in [Cores -> {"load", "alloc", "scan", "fault"}]
        /\ head \in [Cores -> 0 .. FreeCount]
        /\ pos \in [Cores -> Nat]
        /\ outTile \in [Cores -> [Positions -> Slots \cup {NotFound}]]
        /\ protected \in [Cores -> SUBSET (Slots \cup {NotFound})]
    OBVIOUS
  <2> QED
    BY <2>1, <2>2, <2>3 DEF TypeOK
<1>2. Control
  BY DEF Control
<1>3. MappingBijective
  BY DEF MappingBijective
<1>4. FreePoolExact
  <2> SUFFICES ASSUME NEW r \in Reqs PROVE PoolExact(r, freeHead[r])
    BY DEF FreePoolExact
  <2>1. \A s \in Slots : slotToIndex[r][s] = NotFound =>
                           s - Residents \in FreeRow
    OBVIOUS
  <2> QED
    BY <2>1 DEF PoolExact
<1>5. LookupProgress /\ LookupRequests /\ MaintainProgress /\ AnswerStands
  BY DEF LookupProgress, LookupRequests, MaintainProgress, AnswerStands
<1> QED
  BY <1>1, <1>2, <1>3, <1>4, <1>5 DEF IInv

-----------------------------------------------------------------------------
(* Host steps.                                                              *)

\* With no kernel running no core is inside a loop.
LEMMA IdleCores ==
  ASSUME IInv, \A c \in Cores : req[c] >= ReqNum \/ op = "idle",
         NEW c \in Cores
  PROVE  pc[c] = "load"
<1>1. pc[c] \in {"load", "alloc", "scan", "fault"} /\ req[c] \in Nat
  BY DEF IInv, TypeOK
<1>2. ~(pc[c] \in {"alloc", "scan", "fault"})
  BY <1>1, SizeAssumption DEF IInv, Control
<1> QED
  BY <1>1, <1>2

LEMMA BusyRequest ==
  ASSUME IInv, NEW c \in Cores, Busy(c)
  PROVE  req[c] \in Reqs
<1>1. pc[c] \in {"alloc", "scan", "fault"} /\ req[c] \in Nat
  BY DEF IInv, TypeOK, Busy
<1> QED
  BY <1>1, SizeAssumption DEF IInv, Control, Reqs

LEMMA LaunchLookupStep ==
  ASSUME IInv, NEW q \in [Reqs -> [Positions -> Tokens]], LaunchLookup(q)
  PROVE  IInv'
<1> USE DEF LaunchLookup, Launch, registers
<1>1. \A c \in Cores : pc[c] = "load" /\ pc'[c] = "load"
  BY IdleCores
<1>2. TypeOK'
  BY DEF IInv, TypeOK, Cores
<1>3. Control'
  BY <1>1, SizeAssumption, ModSmall DEF Control, CoreOf, Cores
<1>4. MappingBijective'
  BY DEF IInv, MappingBijective
<1>5. FreePoolExact'
  BY <1>1 DEF IInv, FreePoolExact, PoolExact, Busy
<1>6. LookupProgress' /\ MaintainProgress'
  BY <1>1 DEF LookupProgress, MaintainProgress
<1>7. LookupRequests'
  <2> SUFFICES ASSUME NEW r \in Reqs
               PROVE  /\ freeHead[r] = 0 \/ AllResident(r)'
                      /\ ~(r < req'[CoreOf(r)])
    BY DEF LookupRequests
  <2>1. freeHead[r] = 0 \/ AllResident(r)'
    BY DEF MayLookup, IInv, AnswerStands, AllResident
  <2>2. r \in Nat /\ CoreOf(r) \in Cores /\ CoreOf(r) <= r
    <3>1. r \in Nat /\ BlockNum \in Nat \ {0}
      BY SizeAssumption DEF Reqs
    <3>2. PICK k \in Nat, c \in Cores : r = BlockNum * k + c /\ c = CoreOf(r)
      BY <3>1, DivMod DEF CoreOf, Cores
    <3>3. BlockNum * k \in Nat /\ c \in Nat
      BY <3>1 DEF Cores
    <3> QED
      BY <3>1, <3>2, <3>3
  <2> QED
    BY <2>1, <2>2 DEF Cores
<1>8. AnswerStands'
  BY DEF AnswerStands
<1> QED
  BY <1>2, <1>3, <1>4, <1>5, <1>6, <1>7, <1>8 DEF IInv

LEMMA LaunchMaintainStep == ASSUME IInv, LaunchMaintain PROVE IInv'
<1> USE DEF LaunchMaintain, Launch, memory, registers
<1>1. \A c \in Cores : pc[c] = "load" /\ pc'[c] = "load"
  BY IdleCores
<1>2. TypeOK'
  BY DEF IInv, TypeOK, Cores
<1>3. Control'
  BY <1>1, SizeAssumption, ModSmall DEF Control, CoreOf, Cores
<1>4. MappingBijective'
  BY DEF IInv, MappingBijective
<1>5. FreePoolExact'
  BY <1>1 DEF IInv, FreePoolExact, PoolExact, Busy
<1>6. LookupProgress' /\ LookupRequests' /\ MaintainProgress'
  BY <1>1 DEF LookupProgress, LookupRequests, MaintainProgress
<1>7. AnswerStands'
  BY DEF IInv, AnswerStands
<1> QED
  BY <1>2, <1>3, <1>4, <1>5, <1>6, <1>7 DEF IInv

LEMMA HostSyncStep == ASSUME IInv, HostSync PROVE IInv'
<1> USE DEF HostSync, memory, registers
<1>1. \A c \in Cores : pc[c] = "load" /\ pc'[c] = "load"
  BY IdleCores
<1>2. TypeOK'
  BY DEF IInv, TypeOK
<1>3. Control'
  BY <1>1 DEF Control
<1>4. MappingBijective'
  BY DEF IInv, MappingBijective
<1>5. FreePoolExact'
  BY <1>1 DEF IInv, FreePoolExact, PoolExact, Busy
<1>6. LookupProgress' /\ LookupRequests' /\ MaintainProgress'
  BY <1>1 DEF LookupProgress, LookupRequests, MaintainProgress
<1>7. AnswerStands'
  <2>1. CASE op = "lookup"
    <3> SUFFICES ASSUME NEW r \in Reqs PROVE Answered(r)
      BY DEF AnswerStands, Answered
    <3>1. CoreOf(r) \in Cores /\ r < ReqNum /\ r \in Nat
      BY DivMod, SizeAssumption DEF CoreOf, Cores, Reqs
    <3>2. r < req[CoreOf(r)]
      BY <3>1, SizeAssumption DEF IInv, TypeOK
    <3> QED
      BY <2>1, <3>2 DEF IInv, LookupRequests
  <2>2. CASE op # "lookup"
    BY <2>2 DEF IInv, AnswerStands
  <2> QED
    BY <2>1, <2>2
<1> QED
  BY <1>2, <1>3, <1>4, <1>5, <1>6, <1>7 DEF IInv

-----------------------------------------------------------------------------
(* Lookup steps.                                                            *)

LEMMA NotAtOthers ==
  ASSUME IInv, NEW c \in Cores, op # "idle", pc[c] = "load"
  PROVE  \A d \in Cores : Busy(d) => req[d] # req[c]
<1> SUFFICES ASSUME NEW d \in Cores, Busy(d), req[d] = req[c] PROVE FALSE
  OBVIOUS
<1>1. d = c
  BY OneCorePerRequest DEF IInv
<1> QED
  BY <1>1 DEF Busy

LEMMA LookupLoadStep ==
  ASSUME IInv, NEW c \in Cores, LookupLoad(c) PROVE IInv'
<1> USE DEF LookupLoad, AtLoad, memory
<1> DEFINE r == req[c]
<1>1. r \in Reqs
  BY SizeAssumption DEF IInv, TypeOK, Reqs
<1>2. TypeOK'
  <2>1. Gather(r) \in [Positions -> Slots \cup {NotFound}]
    BY <1>1 DEF Gather, IInv, TypeOK
  <2>2. freeHead[r] \in 0 .. FreeCount
    BY <1>1 DEF IInv, TypeOK
  <2> QED
    BY <2>1, <2>2 DEF IInv, TypeOK
<1>3. Control'
  BY DEF IInv, TypeOK, Control
<1>4. MappingBijective'
  BY DEF IInv, MappingBijective
<1>5. FreePoolExact'
  <2>1. PoolExact(r, freeHead[r])
    BY <1>1, NotAtOthers DEF IInv, FreePoolExact
  <2>2. \A d \in Cores : pc'[d] # "load" => PoolExact(req[d], head'[d])
    BY <2>1 DEF IInv, TypeOK, FreePoolExact, Busy
  <2>3. \A q \in Reqs : (\A d \in Cores : pc'[d] # "load" => req[d] # q)
                          => PoolExact(q, freeHead[q])
    BY DEF IInv, TypeOK, FreePoolExact, Busy
  <2> QED
    BY <2>2, <2>3 DEF FreePoolExact, PoolExact, Busy
<1>6. LookupProgress'
  <2>1. freeHead[r] = 0 \/ AllResident(r)
    BY <1>1, NotAtOthers DEF IInv, LookupRequests
  <2>2. \A i \in Positions : ~(i < 0)
    BY DEF Positions
  <2> QED
    BY <1>1, <2>1, <2>2, SizeAssumption
       DEF IInv, TypeOK, LookupProgress, AllResident, Gather
<1>7. LookupRequests'
  BY DEF IInv, TypeOK, LookupRequests, AllResident, Answered, Busy
<1>8. MaintainProgress'
  BY DEF IInv, TypeOK, MaintainProgress, Control
<1>9. AnswerStands'
  BY DEF AnswerStands
<1> QED
  BY <1>2, <1>3, <1>4, <1>5, <1>6, <1>7, <1>8, <1>9 DEF IInv

LEMMA InAlloc ==
  ASSUME IInv, NEW c \in Cores, pc[c] = "alloc"
  PROVE  /\ req[c] \in Reqs
         /\ op = "lookup"
         /\ \A d \in Cores : pc[d] # "scan"
         /\ \A d \in Cores : req[d] = req[c] => d = c
<1>1. op = "lookup" /\ req[c] \in Reqs
  BY SizeAssumption DEF IInv, TypeOK, Control, Reqs
<1> QED
  BY <1>1, OneCorePerRequest DEF IInv, Control

\* The two ways of answering a position without allocating.
LEMMA AnswerKnownStep ==
  ASSUME IInv, NEW c \in Cores, AtQuery(c), NEW slot \in Slots,
         slot = index[req[c]][QueryToken(c)], AnswerPosition(c, slot),
         UNCHANGED <<index, slotToIndex, head>>
  PROVE  IInv'
<1> USE DEF AtQuery, AnswerPosition, QueryToken
<1>1. /\ req[c] \in Reqs /\ op = "lookup"
      /\ \A d \in Cores : pc[d] # "scan"
      /\ pos[c] \in Positions
  <2>1. pos[c] \in Positions
    BY SizeAssumption DEF IInv, TypeOK, Positions
  <2> QED
    BY <2>1, InAlloc
<1>2. TypeOK'
  BY <1>1 DEF IInv, TypeOK
<1>3. Control'
  BY DEF IInv, Control
<1>4. MappingBijective'
  BY DEF IInv, MappingBijective
<1>5. FreePoolExact'
  BY DEF IInv, FreePoolExact, PoolExact, Busy
<1>6. LookupProgress'
  <2> SUFFICES ASSUME NEW d \in Cores, pc[d] = "alloc"
               PROVE  /\ pos'[d] <= QueryCount
                      /\ head[d] <= pos'[d] \/ AllResident(req[d])
                      /\ \A i \in Positions :
                           /\ i < pos'[d] => outTile'[d][i] # NotFound
                           /\ outTile'[d][i] # NotFound =>
                                outTile'[d][i] = index[req[d]][query[req[d]][i]]
    BY DEF LookupProgress, AllResident
  <2>1. CASE d # c
    BY <2>1 DEF IInv, TypeOK, LookupProgress
  <2>2. CASE d = c
    <3>1. pos'[c] = pos[c] + 1 /\ pos[c] \in Nat /\ head[c] \in Nat
      BY SizeAssumption DEF IInv, TypeOK
    <3>2. \A i \in Positions :
            outTile'[c][i] = IF i = pos[c] THEN slot ELSE outTile[c][i]
      BY <1>1 DEF IInv, TypeOK
    <3>3. slot # NotFound
      BY SizeAssumption DEF Slots, NotFound
    <3>4. \A i \in Positions : i < pos[c] + 1 => i < pos[c] \/ i = pos[c]
      BY <3>1 DEF Positions
    <3>5. /\ head[c] <= pos[c] \/ AllResident(req[c])
          /\ \A i \in Positions :
               /\ i < pos[c] => outTile[c][i] # NotFound
               /\ outTile[c][i] # NotFound => outTile[c][i] = index[req[c]][query[req[c]][i]]
      BY DEF IInv, LookupProgress
    <3>6. pos'[c] <= QueryCount
      BY <1>1, <3>1, SizeAssumption DEF Positions
    <3>7. ASSUME NEW i \in Positions
          PROVE  /\ i < pos'[c] => outTile'[c][i] # NotFound
                 /\ outTile'[c][i] # NotFound =>
                      outTile'[c][i] = index[req[c]][query[req[c]][i]]
      BY ONLY slot = index[req[c]][query[req[c]][pos[c]]], <3>1, <3>2, <3>3, <3>4, <3>5
    <3>8. head[c] <= pos'[c] \/ AllResident(req[c])
      BY ONLY <3>1, <3>5
    <3> QED
      BY ONLY <2>2, <3>6, <3>7, <3>8
  <2> QED
    BY <2>1, <2>2
<1>7. LookupRequests'
  BY DEF IInv, LookupRequests, AllResident, Answered, Busy
<1>8. MaintainProgress'
  BY <1>1 DEF MaintainProgress
<1>9. AnswerStands'
  BY <1>1 DEF AnswerStands
<1> QED
  BY <1>2, <1>3, <1>4, <1>5, <1>6, <1>7, <1>8, <1>9 DEF IInv

LEMMA LookupHitStep ==
  ASSUME IInv, NEW c \in Cores, LookupHit(c) PROVE IInv'
<1> DEFINE slot == outTile[c][pos[c]]
<1>1. pos[c] \in Positions /\ pc[c] = "alloc"
  BY SizeAssumption DEF LookupHit, AtQuery, IInv, TypeOK, Positions
<1>2. slot \in Slots /\ slot = index[req[c]][QueryToken(c)]
  BY <1>1 DEF LookupHit, QueryToken, IInv, TypeOK, LookupProgress
<1> QED
  BY <1>2, AnswerKnownStep DEF LookupHit

LEMMA LookupRepeatedMissStep ==
  ASSUME IInv, NEW c \in Cores, LookupRepeatedMiss(c) PROVE IInv'
<1> DEFINE slot == index[req[c]][QueryToken(c)]
<1>1. pos[c] \in Positions /\ req[c] \in Reqs
  BY InAlloc, SizeAssumption DEF LookupRepeatedMiss, AtQuery, IInv, TypeOK, Positions
<1>2. slot \in Slots
  BY <1>1 DEF LookupRepeatedMiss, QueryToken, IInv, TypeOK
<1> QED
  BY <1>2, AnswerKnownStep DEF LookupRepeatedMiss

\* A first miss: a free entry is left, and the slot it holds is empty.
LEMMA FreeEntryLeft ==
  ASSUME IInv, NEW c \in Cores, AtQuery(c),
         index[req[c]][QueryToken(c)] = NotFound
  PROVE  /\ head[c] \in FreeRow
         /\ FreeEntry(req[c], head[c]) = {freeSlots[req[c]][head[c]]}
         /\ slotToIndex[req[c]][freeSlots[req[c]][head[c]]] = NotFound
<1> USE DEF AtQuery, QueryToken
<1>1. req[c] \in Reqs /\ pos[c] \in Positions /\ head[c] \in 0 .. FreeCount
  BY InAlloc, SizeAssumption DEF IInv, TypeOK, Positions
<1>2. ~AllResident(req[c])
  BY <1>1 DEF AllResident
<1>3. head[c] <= pos[c]
  BY <1>2 DEF IInv, LookupProgress
<1>4. head[c] < FreeCount
  BY <1>1, <1>3, SizeAssumption DEF Positions
<1>5. FreeEntry(req[c], head[c]) = {freeSlots[req[c]][head[c]]}
  BY <1>1, <1>4, SizeAssumption DEF FreeEntry
<1>6. PoolExact(req[c], head[c]) /\ head[c] \in head[c] .. FreeCount - 1
  BY <1>1, <1>4, SizeAssumption DEF IInv, FreePoolExact, Busy
<1> QED
  BY <1>1, <1>4, <1>5, <1>6, SizeAssumption DEF FreeRow, PoolExact

LEMMA LookupAllocateStep ==
  ASSUME IInv, NEW c \in Cores, LookupAllocate(c) PROVE IInv'
<1> USE DEF AtQuery, AnswerPosition
<1>0. PICK r \in Reqs, t \in Tokens, h \in FreeRow, slot \in Slots :
        /\ r = req[c] /\ t = QueryToken(c)
        /\ h = head[c] /\ slot = freeSlots[r][h]
        /\ FreeEntry(r, h) = {slot}
        /\ slotToIndex[r][slot] = NotFound
        /\ index[r][t] = NotFound
  <2>1. /\ req[c] \in Reqs /\ pos[c] \in Positions /\ head[c] \in FreeRow
        /\ FreeEntry(req[c], head[c]) = {freeSlots[req[c]][head[c]]}
        /\ slotToIndex[req[c]][freeSlots[req[c]][head[c]]] = NotFound
    <3>1. pc[c] = "alloc" /\ pos[c] < QueryCount
      BY DEF LookupAllocate, AtQuery
    <3>2. pos[c] \in Positions
      BY <3>1, SizeAssumption DEF IInv, TypeOK, Positions
    <3> QED
      BY <3>1, <3>2, InAlloc, FreeEntryLeft DEF LookupAllocate
  <2>2. QueryToken(c) \in Tokens /\ freeSlots[req[c]][head[c]] \in Slots
    BY <2>1 DEF QueryToken, IInv, TypeOK
  <2> QED
    BY <2>1, <2>2 DEF LookupAllocate
<1>1. /\ op = "lookup" /\ pos[c] \in Positions /\ pc[c] = "alloc"
      /\ \A d \in Cores : pc[d] # "scan"
      /\ \A d \in Cores : req[d] = r => d = c
  <2>1. pc[c] = "alloc"
    BY DEF LookupAllocate
  <2>2. pos[c] \in Positions
    BY SizeAssumption DEF LookupAllocate, IInv, TypeOK, Positions
  <2>3. /\ op = "lookup"
        /\ \A d \in Cores : pc[d] # "scan"
        /\ \A d \in Cores : req[d] = req[c] => d = c
    BY <2>1, InAlloc
  <2> QED
    BY <1>0, <2>1, <2>2, <2>3
<1>2. /\ UNCHANGED <<freeSlots, freeHead, query, slotOut, op, answered, req, pc,
                     protected>>
      /\ pos' = [pos EXCEPT ![c] = @ + 1]
  BY DEF LookupAllocate
<1>3. /\ index' = [index EXCEPT ![r][t] = slot]
      /\ slotToIndex' = [slotToIndex EXCEPT ![r][slot] = t]
      /\ outTile' = [outTile EXCEPT ![c][pos[c]] = slot]
      /\ head' = [head EXCEPT ![c] = h + 1]
  BY <1>0 DEF LookupAllocate
<1>4. slot # NotFound /\ t # NotFound
  BY SizeAssumption DEF Slots, Tokens, NotFound
<1>5. /\ \A q \in Reqs, u \in Tokens :
           index'[q][u] = IF q = r /\ u = t THEN slot ELSE index[q][u]
      /\ \A q \in Reqs, s \in Slots :
           slotToIndex'[q][s] =
             IF q = r /\ s = slot THEN t ELSE slotToIndex[q][s]
  BY <1>3 DEF IInv, TypeOK
<1>6. TypeOK'
  <2>1. h + 1 \in 0 .. FreeCount
    BY SizeAssumption DEF FreeRow
  <2>2. index' \in [Reqs -> [Tokens -> Slots \cup {NotFound}]]
    BY <1>1, <1>2, <1>3 DEF IInv, TypeOK
  <2>3. slotToIndex' \in [Reqs -> [Slots -> Tokens \cup {NotFound}]]
    BY <1>1, <1>2, <1>3 DEF IInv, TypeOK
  <2>4. /\ outTile' \in [Cores -> [Positions -> Slots \cup {NotFound}]]
        /\ head' \in [Cores -> 0 .. FreeCount]
        /\ pos' \in [Cores -> Nat]
    BY <1>1, <1>2, <1>3, <2>1 DEF IInv, TypeOK
  <2> QED
    BY <1>2, <2>2, <2>3, <2>4 DEF IInv, TypeOK
<1>7. Control'
  BY <1>2 DEF IInv, Control
<1>8. MappingBijective'
  <2>1. index[r][t] = NotFound /\ slotToIndex[r][slot] = NotFound
    BY <1>0
  <2>2. ASSUME NEW q \in Reqs, NEW u \in Tokens, index'[q][u] # NotFound
        PROVE  slotToIndex'[q][index'[q][u]] = u
    <3>1. CASE q = r /\ u = t
      BY <1>5, <3>1
    <3>2. CASE ~(q = r /\ u = t)
      <4>1. index'[q][u] = index[q][u] /\ index[q][u] \in Slots
        BY <1>5, <2>2, <3>2 DEF IInv, TypeOK
      <4>2. slotToIndex[q][index[q][u]] = u /\ u # NotFound
        BY <2>2, <4>1, SizeAssumption
           DEF IInv, MappingBijective, Tokens, NotFound
      <4> QED
        BY <1>5, <2>1, <4>1, <4>2
    <3> QED
      BY <3>1, <3>2
  <2>3. ASSUME NEW q \in Reqs, NEW s \in Slots, slotToIndex'[q][s] # NotFound
        PROVE  index'[q][slotToIndex'[q][s]] = s
    <3>1. CASE q = r /\ s = slot
      BY <1>5, <3>1
    <3>2. CASE ~(q = r /\ s = slot)
      <4>1. slotToIndex'[q][s] = slotToIndex[q][s]
            /\ slotToIndex[q][s] \in Tokens
        BY <1>5, <2>3, <3>2 DEF IInv, TypeOK
      <4>2. index[q][slotToIndex[q][s]] = s /\ s # NotFound
        BY <2>3, <4>1, SizeAssumption
           DEF IInv, MappingBijective, Slots, NotFound
      <4> QED
        BY <1>5, <2>1, <4>1, <4>2
    <3> QED
      BY <3>1, <3>2
  <2> QED
    BY <2>2, <2>3 DEF MappingBijective
<1>9. FreePoolExact'
  <2>1. PoolExact(r, h)
    BY <1>0, <1>1 DEF IInv, FreePoolExact, Busy
  <2>2. PoolExact(r, h + 1)'
    <3>1. \A k \in h + 1 .. FreeCount - 1 :
            /\ k \in h .. FreeCount - 1
            /\ freeSlots[r][k] # slot
            /\ freeSlots[r][k] \in Slots
      <4> SUFFICES ASSUME NEW k \in h + 1 .. FreeCount - 1
                   PROVE  /\ k \in h .. FreeCount - 1
                          /\ freeSlots[r][k] # slot
                          /\ freeSlots[r][k] \in Slots
        OBVIOUS
      <4>1. k \in h .. FreeCount - 1 /\ h \in h .. FreeCount - 1 /\ k # h
            /\ k \in FreeRow
        BY SizeAssumption DEF FreeRow
      <4>2. freeSlots[r][k] # freeSlots[r][h]
        BY <2>1, <4>1 DEF PoolExact
      <4> QED
        BY <1>0, <4>1, <4>2 DEF IInv, TypeOK
    <3>2. \A s \in Slots : slotToIndex'[r][s] = NotFound =>
             s # slot /\ slotToIndex[r][s] = NotFound
      BY <1>4, <1>5
    <3>3. \A k \in h .. FreeCount - 1 : k = h \/ k \in h + 1 .. FreeCount - 1
      BY DEF FreeRow
    <3> QED
      <4>1. \A k \in h + 1 .. FreeCount - 1 :
              slotToIndex'[r][freeSlots[r][k]] = NotFound
        BY <1>5, <2>1, <3>1 DEF PoolExact
      <4>2. \A k, l \in h + 1 .. FreeCount - 1 :
              freeSlots[r][k] = freeSlots[r][l] => k = l
        BY <2>1, <3>1 DEF PoolExact
      <4>3. \A s \in Slots : slotToIndex'[r][s] = NotFound =>
              \E k \in h + 1 .. FreeCount - 1 : freeSlots[r][k] = s
        BY <1>0, <2>1, <3>2, <3>3 DEF PoolExact
      <4> QED
        BY <1>2, <4>1, <4>2, <4>3 DEF PoolExact
  <2>3. ASSUME NEW q \in Reqs, q # r, NEW k, PoolExact(q, k)
        PROVE  PoolExact(q, k)'
    <3>1. slotToIndex'[q] = slotToIndex[q]
      BY <1>3, <2>3 DEF IInv, TypeOK
    <3> QED
      BY <1>2, <2>3, <3>1 DEF PoolExact
  <2>4. ASSUME NEW d \in Cores, Busy(d)
        PROVE  PoolExact(req[d], head[d])'
    <3>1. CASE d = c
      <4>1. req'[d] = r /\ head'[d] = h + 1
        BY <1>0, <1>2, <1>3, <3>1 DEF IInv, TypeOK
      <4> QED
        BY <2>2, <4>1
    <3>2. CASE d # c
      <4>1. PICK q \in Reqs, k \in 0 .. FreeCount : q = req[d] /\ k = head[d]
        BY <2>4, BusyRequest DEF IInv, TypeOK
      <4>2. PoolExact(q, k) /\ q # r
        BY <1>1, <2>4, <3>2, <4>1 DEF IInv, FreePoolExact
      <4>3. req'[d] = q /\ head'[d] = k
        BY <1>2, <1>3, <3>2, <4>1 DEF IInv, TypeOK
      <4> QED
        BY <2>3, <4>2, <4>3
    <3> QED
      BY <3>1, <3>2
  <2>5. ASSUME NEW q \in Reqs, \A d \in Cores : Busy(d) => req[d] # q
        PROVE  PoolExact(q, freeHead[q])'
    <3>1. q # r
      BY <1>0, <1>1, <2>5 DEF Busy
    <3>2. PoolExact(q, freeHead[q])
      BY <2>5 DEF IInv, FreePoolExact
    <3>3. PICK k : k = freeHead[q]
      OBVIOUS
    <3> QED
      BY <1>2, <2>3, <3>1, <3>2, <3>3
  <2> QED
    BY <1>2, <2>4, <2>5 DEF FreePoolExact, Busy
<1>10. LookupProgress'
  <2> SUFFICES ASSUME NEW d \in Cores, pc[d] = "alloc"
               PROVE  /\ pos'[d] <= QueryCount
                      /\ head'[d] <= pos'[d] \/ AllResident(req[d])'
                      /\ \A i \in Positions :
                           /\ i < pos'[d] => outTile'[d][i] # NotFound
                           /\ outTile'[d][i] # NotFound =>
                                outTile'[d][i] = index'[req[d]][query[req[d]][i]]
    BY <1>2 DEF LookupProgress, AllResident
  <2>1. \A i \in Positions : query[req[d]][i] \in Tokens
    BY InAlloc DEF IInv, TypeOK
  <2>2. CASE d # c
    <3>1. req[d] \in Reqs /\ req[d] # r
      BY <1>1, <2>2, InAlloc
    <3> QED
      BY <1>2, <1>3, <1>5, <2>1, <2>2, <3>1
         DEF IInv, TypeOK, LookupProgress, AllResident
  <2>3. CASE d = c
    <3>1. pos'[c] = pos[c] + 1 /\ pos[c] \in Nat /\ h \in Nat
          /\ pos[c] < QueryCount
      BY <1>2, SizeAssumption DEF LookupAllocate, FreeRow, IInv, TypeOK
    <3>2. \A i \in Positions :
            outTile'[c][i] = IF i = pos[c] THEN slot ELSE outTile[c][i]
      BY <1>1, <1>3 DEF IInv, TypeOK
    <3>3. \A i \in Positions : i < pos[c] + 1 => i < pos[c] \/ i = pos[c]
      BY <3>1 DEF Positions
    <3>4. h <= pos[c]
      BY <1>0, <1>1 DEF IInv, LookupProgress, AllResident, QueryToken
    <3>5. head'[c] <= pos'[c]
      BY <1>3, <3>1, <3>4 DEF IInv, TypeOK
    <3>6. \A i \in Positions : outTile[c][i] # NotFound =>
            query[r][i] # t /\ outTile[c][i] = index[r][query[r][i]]
      BY <1>0, <1>1 DEF IInv, LookupProgress
    <3>7. pos'[c] <= QueryCount
      BY <3>1, SizeAssumption
    <3>8. query[r][pos[c]] = t
      BY <1>0 DEF QueryToken
    <3>9. ASSUME NEW i \in Positions
          PROVE  /\ i < pos'[c] => outTile'[c][i] # NotFound
                 /\ outTile'[c][i] # NotFound =>
                      outTile'[c][i] = index'[r][query[r][i]]
      <4>1. CASE i = pos[c]
        BY <1>4, <1>5, <3>2, <3>8, <4>1
      <4>2. CASE i # pos[c]
        <5>1. outTile'[c][i] = outTile[c][i]
          BY <3>2, <4>2
        <5>2. i < pos'[c] => outTile[c][i] # NotFound
          BY <1>1, <3>1, <3>3, <4>2 DEF IInv, LookupProgress
        <5>3. query[r][i] \in Tokens
          BY <1>0, <2>1, <2>3
        <5> QED
          BY <1>5, <3>6, <5>1, <5>2, <5>3
      <4> QED
        BY <4>1, <4>2
    <3> QED
      BY <1>0, <2>3, <3>5, <3>7, <3>9
  <2> QED
    BY <2>2, <2>3
<1>11. LookupRequests'
  <2>1. \A q \in Reqs : AllResident(q) => AllResident(q)'
    BY <1>2, <1>4, <1>5 DEF AllResident, IInv, TypeOK
  <2>2. ASSUME NEW q \in Reqs, Answered(q) PROVE Answered(q)'
    <3>1. ASSUME NEW i \in Positions
          PROVE  index'[q][query[q][i]] = index[q][query[q][i]]
      <4>1. query[q][i] \in Tokens /\ index[q][query[q][i]] # NotFound
        BY <2>2 DEF Answered, IInv, TypeOK
      <4> QED
        BY <1>0, <1>5, <4>1
    <3> QED
      BY <1>2, <2>2, <3>1 DEF Answered
  <2> QED
    BY <1>2, <2>1, <2>2 DEF IInv, LookupRequests, Busy
<1>12. MaintainProgress' /\ AnswerStands'
  BY <1>1, <1>2 DEF MaintainProgress, AnswerStands
<1> QED
  BY <1>6, <1>7, <1>8, <1>9, <1>10, <1>11, <1>12 DEF IInv

\* A core moves on to the next of its requests.
LEMMA NextRequestControl ==
  ASSUME IInv, NEW c \in Cores, op # "idle", NextRequest(c), op' = op
  PROVE  /\ Control'
         /\ req'[c] = req[c] + BlockNum
         /\ \A d \in Cores : d # c => req'[d] = req[d] /\ pc'[d] = pc[d]
         /\ pc'[c] = "load"
         /\ req' \in [Cores -> Nat] /\ pc' \in [Cores -> {"load", "alloc", "scan", "fault"}]
<1> USE DEF NextRequest
<1>1. /\ req[c] \in Nat /\ BlockNum \in Nat \ {0}
      /\ req \in [Cores -> Nat] /\ pc \in [Cores -> {"load", "alloc", "scan", "fault"}]
  BY SizeAssumption DEF IInv, TypeOK
<1>2. /\ req'[c] = req[c] + BlockNum
      /\ \A d \in Cores : d # c => req'[d] = req[d] /\ pc'[d] = pc[d]
      /\ pc'[c] = "load"
      /\ req' \in [Cores -> Nat] /\ pc' \in [Cores -> {"load", "alloc", "scan", "fault"}]
  BY <1>1
<1>3. CoreOf(req[c] + BlockNum) = CoreOf(req[c])
  BY <1>1, ModStride DEF CoreOf
<1>4. Control'
  BY <1>2, <1>3 DEF IInv, Control, CoreOf
<1> QED
  BY <1>2, <1>4

LEMMA LookupStoreStep ==
  ASSUME IInv, NEW c \in Cores, LookupStore(c) PROVE IInv'
<1> USE DEF LookupStore, registers
<1>0. PICK r \in Reqs, h \in 0 .. FreeCount, tile \in [Positions -> Slots \cup {NotFound}] :
        r = req[c] /\ h = head[c] /\ tile = outTile[c]
  BY InAlloc DEF IInv, TypeOK
<1>1. PICK kept \in [Positions -> Slots \cup {NotFound}] :
        /\ slotOut' = [slotOut EXCEPT ![r] = kept]
        /\ \A i \in Positions : kept[i] # tile[i] => Followed(r) /\ kept[i] = NotFound
  <2>1. PICK lost \in IF Followed(r) THEN LostParts ELSE {{}} :
          slotOut' = [slotOut EXCEPT ![r] =
                        [i \in Positions |-> IF i \in lost THEN NotFound ELSE tile[i]]]
    BY <1>0
  <2> WITNESS [i \in Positions |-> IF i \in lost THEN NotFound ELSE tile[i]]
                \in [Positions -> Slots \cup {NotFound}]
  <2> QED
    BY <2>1
<1>2. /\ op = "lookup"
      /\ \A d \in Cores : pc[d] # "scan"
      /\ \A d \in Cores : req[d] = r => d = c
  BY <1>0, InAlloc
<1>3. /\ \A q \in Reqs : slotOut'[q] = IF q = r THEN kept ELSE slotOut[q]
      /\ \A q \in Reqs : freeHead'[q] = IF q = r THEN h ELSE freeHead[q]
  BY <1>0, <1>1 DEF IInv, TypeOK
<1>4. /\ Control'
      /\ req'[c] = req[c] + BlockNum
      /\ \A d \in Cores : d # c => req'[d] = req[d] /\ pc'[d] = pc[d]
      /\ pc'[c] = "load"
      /\ req' \in [Cores -> Nat] /\ pc' \in [Cores -> {"load", "alloc", "scan", "fault"}]
  BY <1>2, NextRequestControl
<1>5. TypeOK'
  <2>1. /\ slotOut' \in [Reqs -> [Positions -> Slots \cup {NotFound}]]
        /\ freeHead' \in [Reqs -> 0 .. FreeCount]
    BY <1>0, <1>1 DEF IInv, TypeOK
  <2> QED
    BY <1>4, <2>1 DEF IInv, TypeOK
<1>6. MappingBijective'
  BY DEF IInv, MappingBijective
<1>7. FreePoolExact'
  <2>1. PoolExact(r, h)
    BY <1>0 DEF IInv, FreePoolExact, Busy
  <2>2. \A d \in Cores : pc'[d] # "load" => PoolExact(req'[d], head[d])
    BY <1>4 DEF IInv, FreePoolExact, Busy
  <2>3. \A q \in Reqs : (\A d \in Cores : pc'[d] # "load" => req'[d] # q)
                          => PoolExact(q, freeHead'[q])
    BY <1>0, <1>3, <1>4, <2>1 DEF IInv, FreePoolExact, Busy
  <2> QED
    BY <2>2, <2>3 DEF FreePoolExact, PoolExact, Busy
<1>8. LookupProgress'
  BY <1>4 DEF IInv, LookupProgress, AllResident
<1>9. LookupRequests'
  <2>1. \A i \in Positions : tile[i] = index[r][query[r][i]] /\ tile[i] # NotFound
    <3>1. pos[c] \in Nat /\ \A i \in Positions : i < pos[c]
      BY SizeAssumption DEF IInv, TypeOK, Positions
    <3> QED
      BY <1>0, <3>1 DEF IInv, LookupProgress
  <2>2. AllResident(r) /\ Answered(r)'
    BY <1>1, <1>3, <2>1 DEF AllResident, Answered
  <2>3. ASSUME NEW q \in Reqs, q # r
        PROVE  /\ (\A d \in Cores : pc'[d] # "load" => req'[d] # q) =>
                     freeHead'[q] = 0 \/ AllResident(q)
               /\ q < req'[CoreOf(q)] => Answered(q)'
    <3>1. (\A d \in Cores : pc'[d] # "load" => req'[d] # q) =>
             freeHead'[q] = 0 \/ AllResident(q)
      BY <1>0, <1>2, <1>3, <1>4, <2>3 DEF IInv, LookupRequests, Busy
    <3>2. CoreOf(q) \in Cores /\ q \in Nat /\ r \in Nat /\ BlockNum \in Nat \ {0}
      BY DivMod, SizeAssumption DEF CoreOf, Cores, Reqs
    <3>3. q < req'[CoreOf(q)] => q < req[CoreOf(q)]
      <4>1. CASE CoreOf(q) # c
        BY <1>4, <3>2, <4>1
      <4>2. CASE CoreOf(q) = c
        <5>1. CoreOf(r) = c
          BY <1>0, <1>2 DEF IInv, Control
        <5>2. ~(r <= q /\ q < r + BlockNum)
          BY <2>3, <3>2, <4>2, <5>1, ModUnique DEF CoreOf
        <5> QED
          BY <1>0, <1>4, <3>2, <4>2, <5>2
      <4> QED
        BY <4>1, <4>2
    <3>4. Answered(q) => Answered(q)'
      BY <1>3, <2>3 DEF Answered
    <3> QED
      BY <1>2, <3>1, <3>3, <3>4 DEF IInv, LookupRequests
  <2> QED
    BY <2>2, <2>3 DEF LookupRequests, AllResident, Busy
<1>10. MaintainProgress' /\ AnswerStands'
  BY <1>2, <1>4 DEF MaintainProgress, AnswerStands
<1> QED
  BY <1>4, <1>5, <1>6, <1>7, <1>8, <1>9, <1>10 DEF IInv

-----------------------------------------------------------------------------
(* Maintain steps.                                                          *)

LEMMA MaintainSkipStep ==
  ASSUME IInv, NEW c \in Cores, MaintainSkip(c) PROVE IInv'
<1> USE DEF MaintainSkip, AtLoad, memory, registers
<1>1. /\ Control'
      /\ \A d \in Cores : d # c => req'[d] = req[d] /\ pc'[d] = pc[d]
      /\ pc'[c] = "load"
      /\ req' \in [Cores -> Nat] /\ pc' \in [Cores -> {"load", "alloc", "scan", "fault"}]
  BY NextRequestControl
<1>2. TypeOK'
  BY <1>1 DEF IInv, TypeOK
<1>3. MappingBijective'
  BY DEF IInv, MappingBijective
<1>4. FreePoolExact'
  <2>1. \A d \in Cores : pc'[d] # "load" => PoolExact(req'[d], head[d])
    BY <1>1 DEF IInv, FreePoolExact, Busy
  <2>2. \A q \in Reqs : (\A d \in Cores : pc'[d] # "load" => req'[d] # q)
                          => PoolExact(q, freeHead[q])
    BY <1>1 DEF IInv, FreePoolExact, Busy
  <2> QED
    BY <2>1, <2>2 DEF FreePoolExact, PoolExact, Busy
<1>5. LookupProgress' /\ LookupRequests'
  BY <1>1 DEF IInv, LookupProgress, LookupRequests, AllResident
<1>6. MaintainProgress' /\ AnswerStands'
  BY <1>1 DEF IInv, MaintainProgress, AnswerStands
<1> QED
  BY <1>1, <1>2, <1>3, <1>4, <1>5, <1>6 DEF IInv

LEMMA MaintainLoadStep ==
  ASSUME IInv, NEW c \in Cores, MaintainLoad(c) PROVE IInv'
<1> USE DEF MaintainLoad, AtLoad, memory
<1>m. /\ AfterMarking(c) \in {"scan", "fault"}
      /\ AfterMarking(c) = "scan" => NotFound \notin MarkProtected(c)
  BY DEF AfterMarking
<1>0. PICK r \in Reqs : r = req[c]
  BY SizeAssumption DEF IInv, TypeOK, Reqs
<1>1. PICK start \in Slots : pos' = [pos EXCEPT ![c] = start]
  OBVIOUS
<1>2. TypeOK'
  <2>1. MarkProtected(c) \in SUBSET (Slots \cup {NotFound})
    BY <1>0 DEF MarkProtected, IInv, TypeOK
  <2>2. freeHead[req[c]] \in 0 .. FreeCount /\ start \in Nat
    BY <1>0, SizeAssumption DEF IInv, TypeOK, Slots
  <2> QED
    BY <1>1, <1>m, <2>1, <2>2 DEF IInv, TypeOK
<1>3. Control'
  BY <1>m DEF IInv, TypeOK, Control
<1>4. MappingBijective'
  BY DEF IInv, MappingBijective
<1>5. FreePoolExact'
  <2>1. PoolExact(r, freeHead[r])
    BY <1>0, NotAtOthers DEF IInv, FreePoolExact
  <2>2. \A d \in Cores : pc'[d] # "load" => PoolExact(req[d], head'[d])
    BY <1>0, <2>1 DEF IInv, TypeOK, FreePoolExact, Busy
  <2>3. \A q \in Reqs : (\A d \in Cores : pc'[d] # "load" => req[d] # q)
                          => PoolExact(q, freeHead[q])
    BY <1>m DEF IInv, TypeOK, FreePoolExact, Busy
  <2> QED
    BY <2>2, <2>3 DEF FreePoolExact, PoolExact, Busy
<1>6. LookupProgress'
  BY <1>m DEF IInv, TypeOK, Control, LookupProgress
<1>7. LookupRequests' /\ AnswerStands'
  BY DEF IInv, LookupRequests, AnswerStands
<1>8. MaintainProgress'
  BY <1>1, <1>m DEF IInv, TypeOK, MaintainProgress, MarkProtected
<1> QED
  BY <1>2, <1>3, <1>4, <1>5, <1>6, <1>7, <1>8 DEF IInv

LEMMA InScan ==
  ASSUME IInv, NEW c \in Cores, pc[c] = "scan"
  PROVE  /\ req[c] \in Reqs
         /\ op = "maintain"
         /\ \A d \in Cores : pc[d] # "alloc"
         /\ \A d \in Cores : req[d] = req[c] => d = c
<1>1. op = "maintain" /\ req[c] \in Reqs
  BY SizeAssumption DEF IInv, TypeOK, Control, Reqs
<1> QED
  BY <1>1, OneCorePerRequest DEF IInv, Control

LEMMA NextSlotType == \A s \in Slots : NextSlot(s) \in Slots
BY SizeAssumption DEF NextSlot, Slots

LEMMA MaintainPassStep ==
  ASSUME IInv, NEW c \in Cores, MaintainPass(c) PROVE IInv'
<1> USE DEF MaintainPass, AtSlot, memory
<1>1. /\ op = "maintain"
      /\ \A d \in Cores : pc[d] # "alloc"
  BY InScan
<1>2. NextSlot(pos[c]) \in Slots /\ Slots \subseteq Nat
  BY NextSlotType DEF IInv, MaintainProgress, Slots
<1>3. TypeOK'
  BY <1>2 DEF IInv, TypeOK
<1>4. Control' /\ MappingBijective'
  BY DEF IInv, Control, MappingBijective
<1>5. FreePoolExact'
  BY DEF IInv, FreePoolExact, PoolExact, Busy
<1>6. LookupProgress' /\ LookupRequests' /\ AnswerStands'
  BY <1>1 DEF IInv, LookupProgress, LookupRequests, AnswerStands
<1>7. MaintainProgress'
  BY <1>2 DEF IInv, TypeOK, MaintainProgress
<1> QED
  BY <1>3, <1>4, <1>5, <1>6, <1>7 DEF IInv

LEMMA MaintainStoreStep ==
  ASSUME IInv, NEW c \in Cores, MaintainStore(c) PROVE IInv'
<1> USE DEF MaintainStore, registers
<1>0. PICK r \in Reqs : r = req[c] /\ head[c] = 0
  BY InScan DEF IInv, TypeOK
<1>1. op = "maintain" /\ \A d \in Cores : pc[d] # "alloc"
  BY InScan
<1>2. \A q \in Reqs : freeHead'[q] = IF q = r THEN 0 ELSE freeHead[q]
  BY <1>0 DEF IInv, TypeOK
<1>3. /\ Control'
      /\ \A d \in Cores : d # c => req'[d] = req[d] /\ pc'[d] = pc[d]
      /\ pc'[c] = "load"
      /\ req' \in [Cores -> Nat] /\ pc' \in [Cores -> {"load", "alloc", "scan", "fault"}]
  BY <1>1, NextRequestControl
<1>4. TypeOK'
  <2>1. freeHead' \in [Reqs -> 0 .. FreeCount]
    BY <1>0, SizeAssumption DEF IInv, TypeOK
  <2> QED
    BY <1>3, <2>1 DEF IInv, TypeOK
<1>5. MappingBijective'
  BY DEF IInv, MappingBijective
<1>6. FreePoolExact'
  <2>1. PoolExact(r, 0)
    BY <1>0 DEF IInv, FreePoolExact, Busy
  <2>2. \A d \in Cores : pc'[d] # "load" => PoolExact(req'[d], head[d])
    BY <1>3 DEF IInv, FreePoolExact, Busy
  <2>3. \A q \in Reqs : (\A d \in Cores : pc'[d] # "load" => req'[d] # q)
                          => PoolExact(q, freeHead'[q])
    BY <1>0, <1>2, <1>3, <2>1 DEF IInv, FreePoolExact, Busy
  <2> QED
    BY <2>2, <2>3 DEF FreePoolExact, PoolExact, Busy
<1>7. LookupProgress' /\ LookupRequests' /\ AnswerStands'
  BY <1>1, <1>3 DEF IInv, LookupProgress, LookupRequests, AnswerStands
<1>8. MaintainProgress'
  BY <1>3 DEF IInv, MaintainProgress
<1> QED
  BY <1>3, <1>4, <1>5, <1>6, <1>7, <1>8 DEF IInv

LEMMA MaintainEvictStep ==
  ASSUME IInv, NEW c \in Cores, MaintainEvict(c) PROVE IInv'
<1> USE DEF AtSlot
<1>0. PICK r \in Reqs, s \in Slots, h \in FreeRow, t \in Tokens :
        /\ r = req[c] /\ s = pos[c] /\ head[c] = h + 1
        /\ t = slotToIndex[r][s] /\ index[r][t] = s
        /\ s \notin protected[c]
  <2>1. req[c] \in Reqs /\ pos[c] \in Slots /\ pc[c] = "scan"
    BY InScan DEF MaintainEvict, IInv, MaintainProgress
  <2>2. slotToIndex[req[c]][pos[c]] \in Tokens /\ pos[c] \notin protected[c]
    BY <2>1 DEF MaintainEvict, Evictable, IInv, TypeOK
  <2>3. index[req[c]][slotToIndex[req[c]][pos[c]]] = pos[c]
    BY <2>1 DEF MaintainEvict, Evictable, IInv, MappingBijective
  <2>4. head[c] - 1 \in FreeRow /\ head[c] = (head[c] - 1) + 1
    BY SizeAssumption DEF MaintainEvict, FreeRow, IInv, TypeOK
  <2> QED
    BY <2>1, <2>2, <2>3, <2>4
<1>1. /\ op = "maintain" /\ answered /\ pc[c] = "scan"
      /\ \A d \in Cores : pc[d] # "alloc"
      /\ \A d \in Cores : req[d] = r => d = c
  <2>1. pc[c] = "scan"
    BY DEF MaintainEvict
  <2> QED
    BY <1>0, <2>1, InScan DEF IInv, MaintainProgress
<1>2. UNCHANGED <<freeHead, query, slotOut, op, answered, req, pc, outTile,
                  protected>>
  BY DEF MaintainEvict
<1>3. /\ index' = [index EXCEPT ![r][t] = NotFound]
      /\ slotToIndex' = [slotToIndex EXCEPT ![r][s] = NotFound]
      /\ freeSlots' = [freeSlots EXCEPT ![r][h] = s]
      /\ head' = [head EXCEPT ![c] = h]
      /\ pos' = [pos EXCEPT ![c] = NextSlot(s)]
  <2>1. h \in Int /\ head[c] - 1 = h
    BY <1>0 DEF FreeRow
  <2> QED
    BY <1>0, <2>1 DEF MaintainEvict
<1>4. s # NotFound /\ t # NotFound
  BY SizeAssumption DEF Slots, Tokens, NotFound
<1>5. /\ \A q \in Reqs, u \in Tokens :
           index'[q][u] = IF q = r /\ u = t THEN NotFound ELSE index[q][u]
      /\ \A q \in Reqs, v \in Slots :
           slotToIndex'[q][v] =
             IF q = r /\ v = s THEN NotFound ELSE slotToIndex[q][v]
      /\ \A q \in Reqs, k \in FreeRow :
           freeSlots'[q][k] = IF q = r /\ k = h THEN s ELSE freeSlots[q][k]
  BY <1>3 DEF IInv, TypeOK
<1>6. TypeOK'
  <2>1. h \in 0 .. FreeCount /\ NextSlot(s) \in Nat
    BY SizeAssumption, NextSlotType DEF FreeRow, Slots
  <2>2. index' \in [Reqs -> [Tokens -> Slots \cup {NotFound}]]
    BY <1>3 DEF IInv, TypeOK
  <2>3. slotToIndex' \in [Reqs -> [Slots -> Tokens \cup {NotFound}]]
    BY <1>3 DEF IInv, TypeOK
  <2>4. freeSlots' \in [Reqs -> [FreeRow -> Slots]]
    BY <1>3 DEF IInv, TypeOK
  <2>5. head' \in [Cores -> 0 .. FreeCount] /\ pos' \in [Cores -> Nat]
    BY <1>3, <2>1 DEF IInv, TypeOK
  <2> QED
    BY <1>2, <2>2, <2>3, <2>4, <2>5 DEF IInv, TypeOK
<1>7. Control'
  BY <1>2 DEF IInv, Control
<1>8. MappingBijective'
  <2>1. ASSUME NEW q \in Reqs, NEW u \in Tokens, index'[q][u] # NotFound
        PROVE  slotToIndex'[q][index'[q][u]] = u
    <3>1. /\ ~(q = r /\ u = t) /\ index'[q][u] = index[q][u]
          /\ index[q][u] \in Slots
      BY <1>5, <2>1 DEF IInv, TypeOK
    <3>2. slotToIndex[q][index[q][u]] = u
      BY <2>1, <3>1 DEF IInv, MappingBijective
    <3> QED
      BY <1>0, <1>5, <3>1, <3>2
  <2>2. ASSUME NEW q \in Reqs, NEW v \in Slots, slotToIndex'[q][v] # NotFound
        PROVE  index'[q][slotToIndex'[q][v]] = v
    <3>1. /\ ~(q = r /\ v = s) /\ slotToIndex'[q][v] = slotToIndex[q][v]
          /\ slotToIndex[q][v] \in Tokens
      BY <1>5, <2>2 DEF IInv, TypeOK
    <3>2. index[q][slotToIndex[q][v]] = v
      BY <2>2, <3>1 DEF IInv, MappingBijective
    <3> QED
      BY <1>0, <1>5, <3>1, <3>2
  <2> QED
    BY <2>1, <2>2 DEF MappingBijective
<1>9. FreePoolExact'
  <2>1. PoolExact(r, h + 1)
    BY <1>0, <1>1 DEF IInv, FreePoolExact, Busy
  <2>2. \A k \in h .. FreeCount - 1 :
          /\ k \in FreeRow
          /\ k = h \/ k \in h + 1 .. FreeCount - 1
          /\ freeSlots'[r][k] = IF k = h THEN s ELSE freeSlots[r][k]
    BY <1>5, SizeAssumption DEF FreeRow
  <2>3. \A k \in h + 1 .. FreeCount - 1 :
          /\ k \in h .. FreeCount - 1 /\ k # h
          /\ freeSlots[r][k] \in Slots
          /\ freeSlots[r][k] # s /\ slotToIndex[r][freeSlots[r][k]] = NotFound
    <3>1. \A k \in h + 1 .. FreeCount - 1 :
            k \in h .. FreeCount - 1 /\ k # h /\ k \in FreeRow
      BY SizeAssumption DEF FreeRow
    <3> QED
      BY <1>0, <1>4, <2>1, <3>1 DEF PoolExact, IInv, TypeOK
  <2>4. PoolExact(r, h)'
    <3>1. \A k \in h .. FreeCount - 1 : slotToIndex'[r][freeSlots'[r][k]] = NotFound
      BY <1>5, <2>2, <2>3
    <3>2. \A k, l \in h .. FreeCount - 1 :
            freeSlots'[r][k] = freeSlots'[r][l] => k = l
      BY <2>1, <2>2, <2>3 DEF PoolExact
    <3>3. ASSUME NEW v \in Slots, slotToIndex'[r][v] = NotFound
          PROVE  \E k \in h .. FreeCount - 1 : freeSlots'[r][k] = v
      <4>1. CASE v = s
        <5>1. h \in h .. FreeCount - 1
          BY SizeAssumption DEF FreeRow
        <5> QED
          BY <2>2, <4>1, <5>1
      <4>2. CASE v # s
        <5>1. slotToIndex[r][v] = NotFound
          BY <1>5, <3>3, <4>2
        <5>2. PICK k \in h + 1 .. FreeCount - 1 : freeSlots[r][k] = v
          BY <2>1, <5>1 DEF PoolExact
        <5> QED
          BY <2>2, <2>3, <5>2
      <4> QED
        BY <4>1, <4>2
    <3> QED
      BY <3>1, <3>2, <3>3 DEF PoolExact
  <2>5. ASSUME NEW q \in Reqs, q # r, NEW k, PoolExact(q, k)
        PROVE  PoolExact(q, k)'
    <3>1. slotToIndex'[q] = slotToIndex[q] /\ freeSlots'[q] = freeSlots[q]
      BY <1>3, <2>5 DEF IInv, TypeOK
    <3> QED
      BY <2>5, <3>1 DEF PoolExact
  <2>6. ASSUME NEW d \in Cores, Busy(d)
        PROVE  PoolExact(req[d], head[d])'
    <3>1. CASE d = c
      <4>1. req'[d] = r /\ head'[d] = h
        BY <1>0, <1>2, <1>3, <3>1 DEF IInv, TypeOK
      <4> QED
        BY <2>4, <4>1
    <3>2. CASE d # c
      <4>2. PICK q \in Reqs, k \in 0 .. FreeCount : q = req[d] /\ k = head[d]
        BY <2>6, BusyRequest DEF IInv, TypeOK
      <4>3. PoolExact(q, k) /\ q # r
        BY <1>1, <2>6, <3>2, <4>2 DEF IInv, FreePoolExact
      <4>4. req'[d] = q /\ head'[d] = k
        BY <1>2, <1>3, <3>2, <4>2 DEF IInv, TypeOK
      <4> QED
        BY <2>5, <4>3, <4>4
    <3> QED
      BY <3>1, <3>2
  <2>7. ASSUME NEW q \in Reqs, \A d \in Cores : Busy(d) => req[d] # q
        PROVE  PoolExact(q, freeHead[q])'
    <3>1. q # r
      BY <1>0, <1>1, <2>7 DEF Busy
    <3>2. PoolExact(q, freeHead[q])
      BY <2>7 DEF IInv, FreePoolExact
    <3>3. PICK k : k = freeHead[q]
      OBVIOUS
    <3> QED
      BY <1>2, <2>5, <3>1, <3>2, <3>3
  <2> QED
    BY <1>2, <2>6, <2>7 DEF FreePoolExact, Busy
<1>10. LookupProgress' /\ LookupRequests'
  BY <1>1, <1>2 DEF LookupProgress, LookupRequests
<1>11. MaintainProgress'
  <2>1. \A d \in Cores : pc[d] = "scan" => pos'[d] \in Slots
    BY <1>3, NextSlotType DEF IInv, TypeOK, MaintainProgress
  <2> QED
    BY <1>1, <1>2, <2>1 DEF IInv, MaintainProgress
<1>12. AnswerStands'
  <2>1. ASSUME NEW q \in Reqs, NEW i \in Positions
        PROVE  index'[q][query[q][i]] = index[q][query[q][i]]
    <3>1. /\ query[q][i] \in Tokens
          /\ slotOut[q][i] # index[q][query[q][i]] => slotOut[q][i] = NotFound
      BY <1>1 DEF IInv, TypeOK, AnswerStands
    <3>2. slotOut[r][i] \in protected[c] /\ NotFound \notin protected[c]
      BY <1>0, <1>1 DEF IInv, MaintainProgress
    <3>3. ~(q = r /\ query[q][i] = t)
      BY <1>0, <3>1, <3>2
    <3> QED
      BY <1>5, <3>1, <3>3
  <2> QED
    BY <1>1, <1>2, <2>1 DEF IInv, AnswerStands
<1> QED
  BY <1>6, <1>7, <1>8, <1>9, <1>10, <1>11, <1>12 DEF IInv

-----------------------------------------------------------------------------
(* Theorems.                                                                *)

LEMMA StutterStep == IInv /\ UNCHANGED vars => IInv'
BY DEF vars, memory, registers, IInv, TypeOK, Control, MappingBijective,
   FreePoolExact, PoolExact, Busy, LookupProgress, LookupRequests, AllResident,
   Answered, MaintainProgress, AnswerStands

LEMMA NextIInv == IInv /\ [Next]_vars => IInv'
<1> SUFFICES ASSUME IInv, Next PROVE IInv'
  BY StutterStep
<1>1. ASSUME NEW q \in [Reqs -> [Positions -> Tokens]], LaunchLookup(q)
      PROVE  IInv'
  BY <1>1, LaunchLookupStep
<1>2. CASE LaunchMaintain
  BY <1>2, LaunchMaintainStep
<1>3. CASE HostSync
  BY <1>3, HostSyncStep
<1>4. ASSUME NEW c \in Cores, LookupStep(c) PROVE IInv'
  BY <1>4, LookupLoadStep, LookupHitStep, LookupRepeatedMissStep,
     LookupAllocateStep, LookupStoreStep DEF LookupStep
<1>5. ASSUME NEW c \in Cores, MaintainStep(c) PROVE IInv'
  BY <1>5, MaintainSkipStep, MaintainLoadStep,
     MaintainEvictStep, MaintainPassStep, MaintainStoreStep DEF MaintainStep
<1> QED
  BY <1>1, <1>2, <1>3, <1>4, <1>5 DEF Next

(***************************************************************************)
(* The inductive invariant holds: control, mapping, pool, both kernels'     *)
(* progress and the standing answer are preserved together, because each    *)
(* kernel relies on what the other leaves.                                  *)
(***************************************************************************)
THEOREM Invariance == Spec => []IInv
BY InitIInv, NextIInv, PTL DEF Spec

(***************************************************************************)
(* Type correctness, with the bound the code never checks: freeHead stays   *)
(* within the row of the pool.                                              *)
(***************************************************************************)
THEOREM TypeCorrect == Spec => []TypeOK
<1>1. IInv => TypeOK
  BY DEF IInv
<1> QED
  BY <1>1, Invariance, PTL

(***************************************************************************)
(* index and slotToIndex stay inverse of each other at every step of both   *)
(* kernels.                                                                 *)
(***************************************************************************)
THEOREM MappingStaysBijective == Spec => []MappingBijective
<1>1. IInv => MappingBijective
  BY DEF IInv
<1> QED
  BY <1>1, Invariance, PTL

(***************************************************************************)
(* The free pool lists exactly the empty slots, each once: maintain's       *)
(* eviction returns what lookup's allocation consumed.                      *)
(***************************************************************************)
THEOREM PoolIsExact == Spec => []FreePoolExact
<1>1. IInv => FreePoolExact
  BY DEF IInv
<1> QED
  BY <1>1, Invariance, PTL

(***************************************************************************)
(* lookup's unchecked read of the pool stays in the request's row.          *)
(***************************************************************************)
THEOREM RowInBounds == Spec => []FreeRowInBounds
<1>1. IInv => FreeRowInBounds
  <2> SUFFICES ASSUME IInv, NEW c \in Cores, AtQuery(c),
                      index[req[c]][QueryToken(c)] = NotFound
               PROVE  head[c] < FreeCount
    BY DEF FreeRowInBounds, AtQuery, QueryToken
  <2> QED
    BY FreeEntryLeft, SizeAssumption DEF FreeRow
<1> QED
  BY <1>1, Invariance, PTL

(***************************************************************************)
(* An answer stands until the next lookup, through every eviction.          *)
(***************************************************************************)
THEOREM AnswersStand == Spec => []AnswerStands
<1>1. IInv => AnswerStands
  BY DEF IInv
<1> QED
  BY <1>1, Invariance, PTL

(***************************************************************************)
(* No step of lookup moves a resident token.                                *)
(***************************************************************************)
THEOREM LookupMovesNoResident == Spec => OnlyMaintainEvicts
<1>1. IInv /\ [Next]_vars =>
        [op = "lookup" => \A r \in Reqs, t \in Tokens :
           index[r][t] # NotFound => index'[r][t] = index[r][t]]_vars
  <2> SUFFICES ASSUME IInv, Next, op = "lookup", NEW r \in Reqs, NEW t \in Tokens,
                      index[r][t] # NotFound
               PROVE  index'[r][t] = index[r][t]
    OBVIOUS
  <2>1. ASSUME NEW c \in Cores, LookupAllocate(c)
        PROVE  index'[r][t] = index[r][t]
    <3>1. /\ index[req[c]][QueryToken(c)] = NotFound
          /\ \E slot : index' = [index EXCEPT ![req[c]][QueryToken(c)] = slot]
      BY <2>1 DEF LookupAllocate
    <3> QED
      BY <3>1 DEF IInv, TypeOK
  <2>2. ASSUME NEW c \in Cores, MaintainStep(c) PROVE FALSE
    BY <2>2, InScan DEF MaintainStep, MaintainSkip, MaintainLoad,
       AtLoad, MaintainEvict, MaintainPass, AtSlot, MaintainStore
  <2>3. \A q \in [Reqs -> [Positions -> Tokens]] : ~LaunchLookup(q)
    BY DEF LaunchLookup, Launch
  <2> QED
    BY <2>1, <2>2, <2>3 DEF Next, LaunchMaintain, HostSync, LookupStep,
       LookupLoad, LookupHit, LookupRepeatedMiss, LookupStore, memory
<1> QED
  BY <1>1, Invariance, PTL DEF Spec, OnlyMaintainEvicts

-----------------------------------------------------------------------------
(* The refinement: each step of the kernels is a step of PinnedCache or a    *)
(* stutter. First the abstract state in terms of the kernels'.              *)

Cache == [r \in Reqs |-> Contents(r)]

Pending == IF op = "lookup" THEN Ahead ELSE {}

Full(r) == {u \in Tokens : index[r][u] # NotFound}

Vacant(r) == {s \in Slots : slotToIndex[r][s] = NotFound}

LEMMA ResidentIsFull ==
  ASSUME NEW r \in Reqs
  PROVE  Promise!Resident(r) = Full(r) /\ Cache[r] = [t \in Full(r) |-> index[r][t]]
BY DEF Promise!Resident, Cache, Contents, Full

LEMMA EmptyIsVacant ==
  ASSUME IInv, NEW r \in Reqs
  PROVE  Promise!Empty(r) = Vacant(r)
<1>1. Promise!Empty(r) = Slots \ {index[r][t] : t \in Full(r)}
  <2>1. Promise!Empty(r) = Slots \ {Cache[r][t] : t \in Full(r)}
    BY ResidentIsFull DEF Promise!Empty, Cache
  <2> QED
    BY <2>1, ResidentIsFull
<1>2. ASSUME NEW s \in Slots, slotToIndex[r][s] = NotFound, NEW t \in Full(r)
      PROVE  s # index[r][t]
  <2>1. slotToIndex[r][index[r][t]] = t /\ t \in Tokens
    BY DEF Full, IInv, MappingBijective
  <2> QED
    BY <1>2, <2>1 DEF Tokens, NotFound
<1>3. ASSUME NEW s \in Slots, slotToIndex[r][s] # NotFound
      PROVE  \E t \in Full(r) : s = index[r][t]
  <2>1. slotToIndex[r][s] \in Tokens /\ index[r][slotToIndex[r][s]] = s
    BY <1>3 DEF IInv, TypeOK, MappingBijective
  <2> QED
    BY <2>1 DEF Full, Slots, NotFound
<1> QED
  BY <1>1, <1>2, <1>3 DEF Vacant

\* The instance's own copy of the operator of FiniteSets.
LEMMA SameCardinality ==
  ASSUME NEW S
  PROVE  Promise!Cardinality(S) = Cardinality(S)
BY DEF Promise!Cardinality, Cardinality

LEMMA CoreOfIsCore ==
  ASSUME NEW r \in Reqs
  PROVE  CoreOf(r) \in Cores /\ CoreOf(r) <= r
<1>1. PICK B \in Nat \ {0}, x \in Nat : B = BlockNum /\ x = r
  BY SizeAssumption DEF Reqs
<1>2. PICK p \in Nat, a \in 0 .. B - 1 : x = B * p + a /\ a = x % B
  BY DivMod
<1>3. B * p \in Nat
  OBVIOUS
<1> QED
  BY <1>1, <1>2, <1>3 DEF CoreOf, Cores

\* A step that keeps the index, the batch, the answer and who is pending.
LEMMA Stutters ==
  ASSUME UNCHANGED <<index, query, slotOut>>, Pending' = Pending
  PROVE  UNCHANGED Promise!vars
<1>1. Cache' = Cache
  BY DEF Cache, Contents
<1> QED
  BY <1>1 DEF Promise!vars, Cache, Pending

-----------------------------------------------------------------------------
(* The steps.                                                               *)

LEMMA InitImplements == Init => Promise!Init
<1> SUFFICES ASSUME Init PROVE Promise!Init
  OBVIOUS
<1>1. Pending = {}
  BY DEF Init, Pending
<1>2. IInv
  BY InitIInv
<1>3. ASSUME NEW r \in Reqs, NEW t \in Full(r)
      PROVE  /\ t \in Tokens /\ Cache[r][t] = index[r][t] /\ index[r][t] \in Slots
             /\ slotToIndex[r][index[r][t]] = t
  <2>1. t \in Tokens /\ index[r][t] # NotFound
    BY DEF Full
  <2>2. index[r][t] \in Slots
    BY <1>2, <2>1 DEF IInv, TypeOK
  <2>3. slotToIndex[r][index[r][t]] = t
    BY <1>2, <2>1 DEF IInv, MappingBijective
  <2>4. Cache[r][t] = index[r][t]
    BY ResidentIsFull
  <2> QED
    BY <2>1, <2>2, <2>3, <2>4
<1>4. ASSUME NEW r \in Reqs
      PROVE  /\ Promise!Resident(r) \subseteq Tokens
             /\ \A t \in Promise!Resident(r) : Cache[r][t] \in Slots
             /\ \A t, u \in Promise!Resident(r) : Cache[r][t] = Cache[r][u] => t = u
  <2>0. Promise!Resident(r) = Full(r)
    BY ResidentIsFull
  <2>1. \A t \in Full(r) : t \in Tokens /\ Cache[r][t] \in Slots
    BY <1>3
  <2>2. \A t \in Full(r) : slotToIndex[r][Cache[r][t]] = t
    BY <1>3
  <2> QED
    BY <2>0, <2>1, <2>2
<1> QED
  BY <1>1, <1>4 DEF Promise!Init, Cache, Pending

\* Launching lookup asks for a batch: every request is pending.
LEMMA LaunchAsks ==
  ASSUME IInv, NEW q \in [Reqs -> [Positions -> Tokens]], LaunchLookup(q)
  PROVE  Promise!Ask
<1>1. op = "idle" /\ op' = "lookup" /\ query' = q /\ UNCHANGED <<index, slotOut>>
      /\ req' = [c \in Cores |-> c]
  BY DEF LaunchLookup, Launch
<1>2. Pending = {}
  BY <1>1 DEF Pending
<1>3. \A r \in Reqs : req'[CoreOf(r)] <= r
  BY <1>1, CoreOfIsCore
<1>4. Pending' = Reqs
  BY <1>1, <1>3 DEF Pending, Ahead, CoreOf
<1>5. Cache' = Cache
  BY <1>1 DEF Cache, Contents
<1> QED
  BY <1>1, <1>2, <1>4, <1>5 DEF Promise!Ask, Cache, Pending

\* A first miss admits an asked token into an empty slot.
LEMMA AllocateAdmits ==
  ASSUME IInv, NEW c \in Cores, LookupAllocate(c)
  PROVE  \E r \in Reqs : Promise!Admit(r)
<1>1. /\ req[c] \in Reqs /\ op = "lookup" /\ pos[c] \in Positions
      /\ QueryToken(c) \in Tokens
      /\ AtQuery(c) /\ index[req[c]][QueryToken(c)] = NotFound
  BY InAlloc, SizeAssumption
  DEF LookupAllocate, AtQuery, QueryToken, IInv, TypeOK, Positions
<1>2. PICK r \in Reqs, t \in Tokens, slot \in Slots :
        /\ r = req[c] /\ t = QueryToken(c) /\ index[r][t] = NotFound
        /\ slotToIndex[r][slot] = NotFound
        /\ index' = [index EXCEPT ![r][t] = slot]
        /\ UNCHANGED <<query, slotOut, op, req>>
  <2>1. /\ head[c] \in FreeRow
        /\ FreeEntry(req[c], head[c]) = {freeSlots[req[c]][head[c]]}
        /\ slotToIndex[req[c]][freeSlots[req[c]][head[c]]] = NotFound
    BY <1>1, FreeEntryLeft
  <2>2. freeSlots[req[c]][head[c]] \in Slots
    BY <1>1, <2>1 DEF IInv, TypeOK
  <2>3. PICK s \in FreeEntry(req[c], head[c]) :
          /\ index' = [index EXCEPT ![req[c]][QueryToken(c)] = s]
          /\ AnswerPosition(c, s)
    BY DEF LookupAllocate
  <2>4. UNCHANGED <<query, slotOut, op, req>>
    BY <2>3 DEF AnswerPosition
  <2>5. s = freeSlots[req[c]][head[c]]
    BY <2>1, <2>3
  <2> QED
    BY <1>1, <2>1, <2>2, <2>3, <2>4, <2>5
<1>3. r \in Pending /\ Pending' = Pending
  <2>1. req[CoreOf(r)] <= r
    BY <1>1, <1>2 DEF IInv, Control, Reqs
  <2> QED
    BY <1>1, <1>2, <2>1 DEF Pending, Ahead, CoreOf
<1>4. t \in Promise!Wanted(r) \ Promise!Resident(r)
  <2>1. t = query[r][pos[c]]
    BY <1>2 DEF QueryToken
  <2> QED
    <3>1. r \in Reqs /\ pos[c] \in Positions /\ index[r][t] = NotFound
      BY <1>1, <1>2
    <3>2. t \in Promise!Wanted(r)
      BY <2>1, <3>1 DEF Promise!Wanted
    <3>3. t \notin Full(r)
      BY ONLY <3>1 DEF Full
    <3> QED
      BY ONLY <3>1, <3>2, <3>3, ResidentIsFull
<1>5. slot \in Promise!Empty(r)
  BY <1>2, EmptyIsVacant DEF Vacant
<1>6. Cache' = [Cache EXCEPT ![r] =
                  [u \in Promise!Resident(r) \cup {t} |-> IF u = t THEN slot ELSE Cache[r][u]]]
  <2>1. \A q \in Reqs, u \in Tokens :
          index'[q][u] = IF q = r /\ u = t THEN slot ELSE index[q][u]
    BY <1>2 DEF IInv, TypeOK
  <2>2. slot # NotFound
    BY DEF Slots, NotFound
  <2>3. Full(r)' = Full(r) \cup {t}
    BY <2>1, <2>2 DEF Full
  <2>4. Contents(r)' = [u \in Full(r) \cup {t} |-> IF u = t THEN slot ELSE Cache[r][u]]
    <3>1. Contents(r)' = [u \in Full(r)' |-> index'[r][u]]
      BY DEF Contents, Full
    <3>2. ASSUME NEW u \in Full(r) \cup {t}
          PROVE  index'[r][u] = IF u = t THEN slot ELSE Cache[r][u]
      <4>1. r \in Reqs /\ t \in Tokens
        BY <1>1
      <4>2. u \in Tokens
        BY <3>2, <4>1 DEF Full
      <4>3. index'[r][u] = IF u = t THEN slot ELSE index[r][u]
        BY ONLY <2>1, <4>1, <4>2
      <4>4. ASSUME u # t PROVE Cache[r][u] = index[r][u]
        <5>1. u \in Full(r)
          BY <3>2, <4>4
        <5> QED
          BY ONLY <4>1, <5>1, ResidentIsFull
      <4> QED
        BY ONLY <4>3, <4>4
    <3> QED
      BY <2>3, <3>1, <3>2
  <2>5. \A q \in Reqs : q # r => Contents(q)' = Contents(q)
    BY <2>1 DEF Contents
  <2> QED
    BY <2>4, <2>5, ResidentIsFull DEF Cache
<1>7. Promise!Admit(r)
  <2>1. \E v \in Promise!Wanted(r) \ Promise!Resident(r), s \in Promise!Empty(r) :
          Cache' = [Cache EXCEPT ![r] =
                      [u \in Promise!Resident(r) \cup {v} |->
                         IF u = v THEN s ELSE Cache[r][u]]]
    BY <1>4, <1>5, <1>6
  <2> QED
    BY <1>2, <1>3, <2>1 DEF Promise!Admit, Cache, Pending
<1> QED
  BY <1>7

\* Storing a request answers it: its batch, resident now, whole unless the core
\* goes on to another.
LEMMA StoreAnswers ==
  ASSUME IInv, NEW c \in Cores, LookupStore(c)
  PROVE  \E r \in Reqs : Promise!Answer(r)
<1>1. PICK r \in Reqs : r = req[c] /\ op = "lookup"
  BY InAlloc DEF LookupStore
<1>2. /\ NextRequest(c)
      /\ UNCHANGED <<index, query, op>> /\ pc[c] = "alloc" /\ pos[c] >= QueryCount
  BY <1>1 DEF LookupStore
<1>0. PICK lost \in IF Followed(r) THEN LostParts ELSE {{}} :
        slotOut' = [slotOut EXCEPT ![r] =
                      [i \in Positions |-> IF i \in lost THEN NotFound ELSE outTile[c][i]]]
  BY <1>1 DEF LookupStore
<1>3. CoreOf(r) = c /\ r \in Pending
  <2>1. CoreOf(r) = c
    BY <1>1 DEF IInv, Control
  <2> QED
    BY <1>1, <2>1 DEF Pending, Ahead, Reqs
<1>4. ASSUME NEW i \in Positions
      PROVE  /\ outTile[c][i] = index[r][query[r][i]]
             /\ query[r][i] \in Full(r)
  <2>1. i < pos[c]
    BY <1>2, SizeAssumption DEF Positions, IInv, TypeOK
  <2> QED
    BY <1>1, <1>2, <2>1 DEF IInv, TypeOK, LookupProgress, Full
<1>5. Promise!Wanted(r) \subseteq Promise!Resident(r)
  BY <1>4, ResidentIsFull DEF Promise!Wanted
<1>6. /\ lost \in IF r \in {q \in Reqs : Followed(q)} THEN SUBSET Positions ELSE {{}}
      /\ slotOut' = [slotOut EXCEPT ![r] =
                       [i \in Positions |-> IF i \in lost THEN NotFound
                                                         ELSE Cache[r][query[r][i]]]]
  <2>1. lost \in IF r \in {q \in Reqs : Followed(q)} THEN SUBSET Positions ELSE {{}}
    BY <1>0, LostAssumption
  <2>2. ASSUME NEW i \in Positions PROVE outTile[c][i] = Cache[r][query[r][i]]
    <3>1. PICK u \in Full(r) : u = query[r][i] /\ outTile[c][i] = index[r][u]
      BY <1>4
    <3>2. Cache[r][u] = index[r][u]
      BY ResidentIsFull
    <3> QED
      BY <3>1, <3>2
  <2>3. [i \in Positions |-> IF i \in lost THEN NotFound ELSE outTile[c][i]]
          = [i \in Positions |-> IF i \in lost THEN NotFound ELSE Cache[r][query[r][i]]]
    BY <2>2
  <2> QED
    BY <1>0, <2>1, <2>3
<1>7. Pending' = Pending \ {r}
  <2>1. /\ req'[c] = r + BlockNum
        /\ \A d \in Cores : d # c => req'[d] = req[d]
    BY <1>1, <1>2, NextRequestControl
  <2>2. ASSUME NEW q \in Reqs
        PROVE  req'[CoreOf(q)] <= q <=> req[CoreOf(q)] <= q /\ q # r
    <3>1. CASE CoreOf(q) # c
      BY <1>3, <2>1, <3>1, CoreOfIsCore
    <3>2. CASE CoreOf(q) = c
      <4>1. r <= q /\ q < r + BlockNum => q = r
        <5>1. PICK B \in Nat \ {0}, x \in Nat, y \in Nat : B = BlockNum /\ x = r /\ y = q
          BY SizeAssumption DEF Reqs
        <5>2. x % B = y % B
          BY <1>3, <3>2, <5>1 DEF CoreOf
        <5> QED
          BY <5>1, <5>2, ModUnique
      <4>2. r + BlockNum <= q => r <= q /\ q # r
        BY SizeAssumption DEF Reqs
      <4>3. q < r + BlockNum \/ r + BlockNum <= q
        BY SizeAssumption DEF Reqs
      <4>4. q = r => ~(r + BlockNum <= q)
        BY SizeAssumption DEF Reqs
      <4> QED
        BY <1>1, <2>1, <3>2, <4>1, <4>2, <4>3, <4>4
    <3> QED
      BY <3>1, <3>2
  <2>3. Ahead' = {q \in Reqs : req'[CoreOf(q)] <= q}
    BY DEF Ahead, CoreOf
  <2>4. Ahead' = Ahead \ {r}
    BY <2>2, <2>3 DEF Ahead
  <2> QED
    BY <1>1, <1>2, <2>4 DEF Pending
<1>8. Cache' = Cache
  BY <1>2 DEF Cache, Contents
<1>9. Promise!Answer(r)
  BY <1>2, <1>3, <1>5, <1>6, <1>7, <1>8 DEF Promise!Answer, Cache, Pending
<1> QED
  BY <1>9

\* While the pool from h > 0 on is exact, fewer than FreeCount slots are empty.
LEMMA RoomToEvict ==
  ASSUME IInv, NEW r \in Reqs, NEW h \in 1 .. FreeCount, PoolExact(r, h)
  PROVE  Cardinality(Vacant(r)) < FreeCount
<1>1. PICK n \in Nat : n = FreeCount - 1 /\ n < FreeCount
  BY SizeAssumption
<1> DEFINE Free == h .. n
           f == [k \in Free |-> freeSlots[r][k]]
<1>2. Free \subseteq FreeRow
  BY <1>1 DEF FreeRow
<1>3. f \in Surjection(Free, Vacant(r))
  <2>1. ASSUME NEW k \in Free PROVE f[k] \in Vacant(r)
    <3>1. freeSlots[r][k] \in Slots
      BY <1>2 DEF IInv, TypeOK
    <3>2. slotToIndex[r][freeSlots[r][k]] = NotFound
      BY <1>1 DEF PoolExact
    <3> QED
      BY <3>1, <3>2 DEF Vacant
  <2>2. ASSUME NEW s \in Vacant(r) PROVE \E k \in Free : f[k] = s
    BY <1>1 DEF PoolExact, Vacant
  <2>3. f \in [Free -> Vacant(r)]
    BY <2>1
  <2> QED
    BY <2>2, <2>3 DEF Surjection
<1>4. IsFiniteSet(Free) /\ Cardinality(Free) = IF h > n THEN 0 ELSE n - h + 1
  BY FS_Interval
<1>5. IsFiniteSet(Vacant(r)) /\ Cardinality(Vacant(r)) <= Cardinality(Free)
  BY <1>3, <1>4, FS_Surjection
<1>6. Cardinality(Vacant(r)) \in Nat
  BY <1>5, FS_CardinalityType
<1> QED
  BY <1>1, <1>4, <1>5, <1>6, SizeAssumption

\* maintain evicts a resident token the last batch did not ask for.
LEMMA EvictEvicts ==
  ASSUME IInv, NEW c \in Cores, MaintainEvict(c)
  PROVE  \E r \in Reqs : Promise!Evict(r)
<1>1. PICK r \in Reqs, s \in Slots, t \in Tokens :
        /\ r = req[c] /\ s = pos[c] /\ t = slotToIndex[r][s] /\ index[r][t] = s
        /\ s \notin protected[c] /\ pc[c] = "scan" /\ op = "maintain" /\ answered
  <2>1. /\ req[c] \in Reqs /\ pos[c] \in Slots /\ pc[c] = "scan"
        /\ op = "maintain" /\ answered
    BY InScan DEF MaintainEvict, AtSlot, IInv, MaintainProgress
  <2>2. slotToIndex[req[c]][pos[c]] \in Tokens /\ pos[c] \notin protected[c]
    BY <2>1 DEF MaintainEvict, Evictable, IInv, TypeOK
  <2>3. index[req[c]][slotToIndex[req[c]][pos[c]]] = pos[c]
    BY <2>1 DEF MaintainEvict, Evictable, IInv, MappingBijective
  <2> QED
    BY <2>1, <2>2, <2>3
<1>2. /\ index' = [index EXCEPT ![r][t] = NotFound]
      /\ UNCHANGED <<query, slotOut, op, req>>
  BY <1>1 DEF MaintainEvict
<1>3. Pending = {} /\ Pending' = {}
  BY <1>1, <1>2 DEF Pending
<1>4. Promise!Cardinality(Promise!Empty(r)) < FreeCount
  <2>1. head[c] \in 1 .. FreeCount
    BY SizeAssumption DEF MaintainEvict, AtSlot, IInv, TypeOK
  <2>2. PoolExact(r, head[c])
    BY <1>1 DEF IInv, FreePoolExact, Busy
  <2> QED
    BY <2>1, <2>2, RoomToEvict, EmptyIsVacant, SameCardinality
<1>5. t \in Promise!Resident(r) \ Promise!Wanted(r)
  <2>1. t \in Full(r)
    BY <1>1 DEF Full, Slots, NotFound
  <2>2. ASSUME NEW i \in Positions, query[r][i] = t PROVE FALSE
    <3>2. slotOut[r][i] \in protected[c] /\ NotFound \notin protected[c]
      BY <1>1 DEF IInv, MaintainProgress
    <3>1. slotOut[r][i] = s
      BY <1>1, <2>2, <3>2 DEF IInv, AnswerStands
    <3> QED
      BY <1>1, <3>1, <3>2
  <2> QED
    BY <2>1, <2>2, ResidentIsFull DEF Promise!Wanted
<1>6. Cache' = [Cache EXCEPT ![r] = [u \in Promise!Resident(r) \ {t} |-> Cache[r][u]]]
  <2>1. \A q \in Reqs, u \in Tokens :
          index'[q][u] = IF q = r /\ u = t THEN NotFound ELSE index[q][u]
    BY <1>2 DEF IInv, TypeOK
  <2>2. Full(r)' = Full(r) \ {t}
    BY <2>1 DEF Full
  <2>3. Contents(r)' = [u \in Full(r) \ {t} |-> Cache[r][u]]
    <3>1. Contents(r)' = [u \in Full(r)' |-> index'[r][u]]
      BY DEF Contents, Full
    <3>2. ASSUME NEW u \in Full(r) \ {t} PROVE index'[r][u] = Cache[r][u]
      <4>1. u \in Tokens /\ r \in Reqs
        BY <1>1, <3>2 DEF Full
      <4>2. index'[r][u] = index[r][u]
        BY ONLY <2>1, <3>2, <4>1
      <4>3. Cache[r][u] = index[r][u]
        BY ONLY <3>2, <4>1, ResidentIsFull
      <4> QED
        BY ONLY <4>2, <4>3
    <3> QED
      BY <2>2, <3>1, <3>2
  <2>4. \A q \in Reqs : q # r => Contents(q)' = Contents(q)
    BY <2>1 DEF Contents
  <2> QED
    BY <2>3, <2>4, ResidentIsFull DEF Cache
<1>7. Promise!Evict(r)
  <2>1. \E v \in Promise!Resident(r) \ Promise!Wanted(r) :
          Cache' = [Cache EXCEPT ![r] =
                      [u \in Promise!Resident(r) \ {v} |-> Cache[r][u]]]
    BY <1>5, <1>6
  <2> QED
    BY <1>2, <1>3, <1>4, <2>1 DEF Promise!Evict, Cache, Pending
<1> QED
  BY <1>7

\* When the stream synchronises after a lookup, no request is pending.
LEMMA SyncStutters ==
  ASSUME IInv, HostSync
  PROVE  UNCHANGED Promise!vars
<1>1. ASSUME NEW r \in Reqs PROVE ~(req[CoreOf(r)] <= r)
  <2>1. req[CoreOf(r)] >= ReqNum /\ req[CoreOf(r)] \in Nat
    BY CoreOfIsCore DEF HostSync, IInv, TypeOK
  <2> QED
    BY <2>1, SizeAssumption DEF Reqs
<1>2. Pending = {}
  BY <1>1 DEF Pending, Ahead
<1>3. Pending' = {}
  BY DEF HostSync, Pending
<1> QED
  BY <1>2, <1>3, Stutters DEF HostSync, memory

LEMMA NextImplements ==
  ASSUME IInv, [Next]_vars
  PROVE  [Promise!Next]_(Promise!vars)
<1>1. ASSUME NEW q \in [Reqs -> [Positions -> Tokens]], LaunchLookup(q)
      PROVE  Promise!Next
  BY <1>1, LaunchAsks DEF Promise!Next
<1>2. ASSUME LaunchMaintain PROVE UNCHANGED Promise!vars
  <2>1. Pending = {} /\ Pending' = {} /\ UNCHANGED <<index, query, slotOut>>
    BY <1>2 DEF LaunchMaintain, Launch, Pending, memory
  <2> QED
    BY <2>1, Stutters
<1>3. ASSUME HostSync PROVE UNCHANGED Promise!vars
  BY <1>3, SyncStutters
<1>4. ASSUME UNCHANGED <<op, req, index, query, slotOut>>
      PROVE  UNCHANGED Promise!vars
  <2>1. Pending' = Pending
    BY <1>4 DEF Pending, Ahead, CoreOf
  <2> QED
    BY <1>4, <2>1, Stutters
<1>5. ASSUME NEW c \in Cores, LookupStep(c)
      PROVE  Promise!Next \/ UNCHANGED Promise!vars
  <2>1. CASE LookupAllocate(c)
    BY <2>1, AllocateAdmits DEF Promise!Next
  <2>2. CASE LookupStore(c)
    BY <2>2, StoreAnswers DEF Promise!Next
  <2>3. CASE LookupLoad(c) \/ LookupHit(c) \/ LookupRepeatedMiss(c)
    BY <2>3, <1>4 DEF LookupLoad, LookupHit, LookupRepeatedMiss, AnswerPosition, memory
  <2> QED
    BY <1>5, <2>1, <2>2, <2>3 DEF LookupStep
<1>6. ASSUME NEW c \in Cores, MaintainStep(c)
      PROVE  Promise!Next \/ UNCHANGED Promise!vars
  <2>1. CASE MaintainEvict(c)
    BY <2>1, EvictEvicts DEF Promise!Next
  <2>2. CASE MaintainLoad(c) \/ MaintainPass(c)
    BY <2>2, <1>4 DEF MaintainLoad, MaintainPass, memory
  <2>3. CASE MaintainSkip(c) \/ MaintainStore(c)
    <3>1. op = "maintain" /\ UNCHANGED <<op, index, query, slotOut>>
      BY <2>3, InScan DEF MaintainSkip, AtLoad, MaintainStore, memory
    <3>2. Pending = {} /\ Pending' = {}
      BY <3>1 DEF Pending
    <3> QED
      BY <3>1, <3>2, Stutters
  <2> QED
    BY <1>6, <2>1, <2>2, <2>3 DEF MaintainStep
<1>7. ASSUME UNCHANGED vars PROVE UNCHANGED Promise!vars
  BY <1>7, <1>4 DEF vars, memory
<1> QED
  BY <1>1, <1>2, <1>3, <1>5, <1>6, <1>7 DEF Next

(***************************************************************************)
(* Every behaviour of the two kernels, on any number of cores, is one of    *)
(* the fully associative cache: a batch is answered at one instant with the *)
(* slots that hold its tokens, all of them where the core went on to no     *)
(* other request, only absent tokens are admitted and only into empty       *)
(* slots, and maintain evicts nothing of the last batch, answered whole or  *)
(* not.                                                                     *)
(***************************************************************************)
THEOREM ImplementsCache == Spec => ImplementsPinnedCache
<1>1. Spec => []IInv
  BY Invariance
<1>2. IInv /\ [Next]_vars => [Promise!Next]_(Promise!vars)
  BY NextImplements
<1> QED
  BY <1>1, <1>2, InitImplements, PTL DEF Spec, Promise!Spec, ImplementsPinnedCache

-----------------------------------------------------------------------------
USE SizeAssumption

-----------------------------------------------------------------------------
(* The sequential reference.                                                *)

LEMMA Counts ==
  ASSUME NEW N \in Nat, NEW D, 0 \in D, \A n \in 0 .. N - 1 : n \in D => n + 1 \in D
  PROVE  0 .. N \subseteq D
<1> DEFINE Odd == {n \in 0 .. N : n \notin D}
<1>1. ASSUME Odd # {} PROVE FALSE
  <2>1. Odd \in SUBSET Nat
    OBVIOUS
  <2>2. PICK m \in Odd : \A n \in Odd : m <= n
    <3> HIDE DEF Odd
    <3> QED
      BY <1>1, <2>1, Least
  <2>3. m \in 1 .. N /\ m \notin D
    BY <2>2
  <2>4. m - 1 \in 0 .. N - 1 /\ m - 1 \in 0 .. N /\ ~ m <= m - 1 /\ (m - 1) + 1 = m
    BY <2>3
  <2>5. m - 1 \in D
    BY <2>2, <2>4
  <2> QED
    BY <2>3, <2>4, <2>5
<1> QED
  BY <1>1

\* A recursion by steps F from s0 has a solution where every step can be taken:
\* T holds of what has been reached after how many.
Recurs(N, S, s0, T, F) ==
  /\ N \in Nat
  /\ T \in SUBSET (Nat \X S)
  /\ <<0, s0>> \in T
  /\ \A n \in 0 .. N - 1, s \in S : <<n, s>> \in T => <<n + 1, F[<<n, s>>]>> \in T

Solves(N, S, s0, T, F, g) ==
  /\ g \in [0 .. N -> S]
  /\ g[0] = s0
  /\ \A n \in 0 .. N - 1 : g[n + 1] = F[<<n, g[n]>>]
  /\ \A n \in 0 .. N : <<n, g[n]>> \in T

LEMMA Iterates ==
  ASSUME NEW N, NEW S, NEW s0, NEW T, NEW F, Recurs(N, S, s0, T, F)
  PROVE  \E g : Solves(N, S, s0, T, F, g)
<1> DEFINE Goes(m, g) == /\ g[0] = s0
                         /\ \A n \in 0 .. m - 1 : g[n + 1] = F[<<n, g[n]>>]
                         /\ \A n \in 0 .. m : <<n, g[n]>> \in T
           Has(m) == \E g \in [0 .. m -> S] : Goes(m, g)
           D == {m \in 0 .. N : Has(m)}
<1>0. /\ N \in Nat /\ T \in SUBSET (Nat \X S) /\ <<0, s0>> \in T
      /\ \A n \in 0 .. N - 1, s \in S : <<n, s>> \in T => <<n + 1, F[<<n, s>>]>> \in T
  BY DEF Recurs
<1>1. 0 \in D
  <2> DEFINE g == [n \in 0 .. 0 |-> s0]
  <2>1. s0 \in S
    BY <1>0
  <2>2. g \in [0 .. 0 -> S] /\ Goes(0, g)
    BY <1>0, <2>1
  <2> HIDE DEF g, Goes
  <2>3. Has(0)
    BY <2>2
  <2> HIDE DEF Has
  <2> QED
    BY <1>0, <2>3
<1>2. ASSUME NEW m \in 0 .. N - 1, m \in D PROVE m + 1 \in D
  <2>1. PICK g \in [0 .. m -> S] : Goes(m, g)
    BY <1>2
  <2> DEFINE last == F[<<m, g[m]>>]
             h == [n \in 0 .. m + 1 |-> IF n = m + 1 THEN last ELSE g[n]]
  <2>2. <<m + 1, last>> \in T /\ last \in S
    <3>1. g[m] \in S /\ <<m, g[m]>> \in T
      BY <2>1
    <3>2. <<m + 1, last>> \in T
      BY <1>0, <3>1
    <3> QED
      BY <1>0, <3>2
  <2> HIDE DEF last
  <2>3. h \in [0 .. m + 1 -> S]
    BY <1>0, <2>2
  <2>4. \A n \in 0 .. m : h[n] = g[n] /\ n # m + 1
    BY <1>0
  <2>5. h[m + 1] = last
    BY <1>0
  <2> HIDE DEF h
  <2>6. Goes(m + 1, h)
    <3>1. h[0] = s0
      BY <1>0, <2>1, <2>4
    <3>2. ASSUME NEW n \in 0 .. m PROVE h[n + 1] = F[<<n, h[n]>>]
      <4>1. CASE n = m
        BY <1>0, <2>4, <2>5, <4>1 DEF last
      <4>2. CASE n # m
        <5>1. n \in 0 .. m - 1 /\ n + 1 \in 0 .. m
          BY <1>0, <4>2
        <5>2. h[n] = g[n] /\ h[n + 1] = g[n + 1]
          BY <2>4, <5>1
        <5>3. g[n + 1] = F[<<n, g[n]>>]
          BY <2>1, <5>1
        <5> QED
          BY ONLY <5>2, <5>3
      <4> QED
        BY <4>1, <4>2
    <3>3. ASSUME NEW n \in 0 .. m + 1 PROVE <<n, h[n]>> \in T
      BY <1>0, <2>1, <2>2, <2>4, <2>5
    <3>4. (m + 1) - 1 = m
      BY <1>0
    <3> QED
      BY <3>1, <3>2, <3>3, <3>4
  <2>7. m + 1 \in 0 .. N
    BY <1>0
  <2> HIDE DEF Goes
  <2> QED
    BY <2>3, <2>6, <2>7
<1>3. N \in D
  <2> HIDE DEF D
  <2>1. 0 .. N \subseteq D
    BY <1>0, <1>1, <1>2, Counts
  <2> QED
    BY <1>0, <2>1
<1> QED
  BY <1>3 DEF Solves

\* What the lookup's reference is given: the slots of the residents are taken,
\* those of the pool follow in order.
LookupInput(c) ==
  \A r \in Reqs :
    /\ c.index[r] \in [Tokens -> Slots \cup {NotFound}]
    /\ c.slotToIndex[r] \in [Slots -> Tokens \cup {NotFound}]
    /\ c.freeSlots[r] = [k \in FreeRow |-> Residents + k]
    /\ c.freeHead[r] = 0
    /\ c.query[r] \in [Positions -> Tokens]
    /\ \A s \in Slots : c.slotToIndex[r][s] # NotFound <=> s < Residents

LookupStates ==
  [index : [Tokens -> Slots \cup {NotFound}],
   slotToIndex : [Slots -> Tokens \cup {NotFound}],
   head : Nat,
   out : [Positions -> Slots \cup {NotFound}]]

(* After n positions: at most as many slots are taken, in order, what had a  *)
(* slot has it still, and these positions have an answer.                   *)
LookupAt(c, r, n, s) ==
  /\ s.head <= n
  /\ \A t \in Tokens : c.index[r][t] # NotFound => s.index[t] = c.index[r][t]
  /\ \A q \in Slots : s.slotToIndex[q] # NotFound <=> q < Residents + s.head
  /\ \A i \in Positions : i < n => s.out[i] \in Slots

LEMMA Sizes ==
  /\ Residents \in Nat \ {0} /\ QueryCount <= Residents /\ Residents + FreeCount = SlotCount
  /\ \A h \in Nat : h < QueryCount =>
       h \in FreeRow /\ Residents + h \in Slots /\ Residents + h # NotFound
BY DEF Residents, FreeRow, Slots, NotFound

LEMMA ExpectAtStep ==
  ASSUME NEW c, NEW r \in Reqs, NEW n \in 0 .. QueryCount - 1, LookupInput(c),
         NEW s \in LookupStates, LookupAt(c, r, n, s)
  PROVE  /\ ExpectAt(c, r, s, n) \in LookupStates
         /\ LookupAt(c, r, n + 1, ExpectAt(c, r, s, n))
<1> DEFINE token == c.query[r][n]
           new == Residents + s.head
           miss == s.index[token] = NotFound
           slot == IF miss THEN c.freeSlots[r][s.head] ELSE s.index[token]
           e == ExpectAt(c, r, s, n)
<1>1. /\ s.index \in [Tokens -> Slots \cup {NotFound}]
      /\ s.slotToIndex \in [Slots -> Tokens \cup {NotFound}]
      /\ s.out \in [Positions -> Slots \cup {NotFound}]
      /\ s.head \in Nat /\ s.head <= n
  BY DEF LookupStates, LookupAt
<1>2. n \in Positions /\ token \in Tokens /\ token # NotFound
  <2>1. n \in Positions
    BY DEF Positions
  <2>2. token \in Tokens
    BY <2>1 DEF LookupInput
  <2> QED
    BY <2>1, <2>2 DEF Tokens, NotFound
<1>3. s.head \in FreeRow /\ new \in Slots /\ new # NotFound
  <2>1. PICK h \in Nat : h = s.head /\ h < QueryCount
    BY <1>1
  <2>2. h \in FreeRow /\ Residents + h \in Slots /\ Residents + h # NotFound
    BY ONLY <2>1, Sizes
  <2> QED
    BY ONLY <2>1, <2>2
<1>4. slot = IF miss THEN new ELSE s.index[token]
  <2>1. c.freeSlots[r] = [k \in FreeRow |-> Residents + k]
    BY DEF LookupInput
  <2>2. c.freeSlots[r][s.head] = new
    BY ONLY <1>3, <2>1
  <2> QED
    BY <2>2
<1>5. slot \in Slots /\ slot # NotFound
  BY <1>1, <1>2, <1>3, <1>4
<1>6. /\ e.index = [s.index EXCEPT ![token] = slot]
      /\ e.slotToIndex = IF miss THEN [s.slotToIndex EXCEPT ![slot] = token] ELSE s.slotToIndex
      /\ e.head = IF miss THEN s.head + 1 ELSE s.head
      /\ e.out = [s.out EXCEPT ![n] = slot]
      /\ e = [index |-> e.index, slotToIndex |-> e.slotToIndex, head |-> e.head, out |-> e.out]
  BY DEF ExpectAt
<1> HIDE DEF e, slot, token, new
<1>7. /\ e.index \in [Tokens -> Slots \cup {NotFound}]
      /\ e.slotToIndex \in [Slots -> Tokens \cup {NotFound}]
      /\ e.out \in [Positions -> Slots \cup {NotFound}]
      /\ e.head \in Nat /\ e.head <= n + 1
  BY <1>1, <1>2, <1>5, <1>6
<1>8. e \in LookupStates
  BY ONLY <1>6, <1>7 DEF LookupStates
<1>9. ASSUME NEW t \in Tokens, c.index[r][t] # NotFound PROVE e.index[t] = c.index[r][t]
  <2>1. s.index[t] = c.index[r][t]
    BY <1>9 DEF LookupAt
  <2>2. CASE t = token
    BY <1>1, <1>4, <1>6, <1>9, <2>1, <2>2
  <2>3. CASE t # token
    BY <1>1, <1>6, <2>1, <2>3
  <2> QED
    BY <2>2, <2>3
<1>10. ASSUME NEW q \in Slots
       PROVE  e.slotToIndex[q] # NotFound <=> q < Residents + e.head
  <2>0. /\ s.slotToIndex[q] # NotFound <=> q < Residents + s.head
        /\ q \in Nat /\ Residents \in Nat
    BY Sizes DEF LookupAt, Slots
  <2>1. CASE ~ miss
    BY <1>6, <2>0, <2>1
  <2>2. CASE miss
    <3>1. /\ slot = Residents + s.head /\ e.head = s.head + 1
          /\ e.slotToIndex = [s.slotToIndex EXCEPT ![slot] = token]
      BY <1>4, <1>6, <2>2 DEF new
    <3>2. CASE q = slot
      <4>1. e.slotToIndex[q] = token
        BY <1>1, <3>1, <3>2
      <4> QED
        BY <1>1, <1>2, <2>0, <3>1, <3>2, <4>1
    <3>3. CASE q # slot
      <4>1. e.slotToIndex[q] = s.slotToIndex[q]
        BY <1>1, <3>1, <3>3
      <4> QED
        BY <1>1, <2>0, <3>1, <3>3, <4>1
    <3> QED
      BY <3>2, <3>3
  <2> QED
    BY <2>1, <2>2
<1>11. ASSUME NEW i \in Positions, i < n + 1 PROVE e.out[i] \in Slots
  <2>1. CASE i = n
    BY <1>1, <1>2, <1>5, <1>6, <2>1
  <2>2. CASE i # n
    <3>1. i < n
      BY <1>11, <2>2 DEF Positions
    <3>2. s.out[i] \in Slots
      BY <3>1 DEF LookupAt
    <3> QED
      BY <1>1, <1>6, <2>2, <3>2
  <2> QED
    BY <2>1, <2>2
<1> QED
  BY <1>7, <1>8, <1>9, <1>10, <1>11 DEF LookupAt, e

LookupStart(c, r) ==
  [index |-> c.index[r], slotToIndex |-> c.slotToIndex[r],
   head |-> c.freeHead[r], out |-> [i \in Positions |-> NotFound]]

LEMMA LookupRowsAre ==
  ASSUME NEW c, NEW r \in Reqs, LookupInput(c)
  PROVE  /\ LookupRows(c, r)[0] = LookupStart(c, r)
         /\ \A n \in 0 .. QueryCount - 1 :
              LookupRows(c, r)[n + 1] = ExpectAt(c, r, LookupRows(c, r)[n], n)
         /\ \A n \in 0 .. QueryCount : /\ LookupRows(c, r)[n] \in LookupStates
                                       /\ LookupAt(c, r, n, LookupRows(c, r)[n])
<1> DEFINE N == QueryCount
           S == LookupStates
           s0 == LookupStart(c, r)
           T == {p \in Nat \X S : LookupAt(c, r, p[1], p[2])}
           F == [p \in (0 .. N - 1) \X S |-> ExpectAt(c, r, p[2], p[1])]
           Joins(f) == f = [n \in 0 .. N |-> IF n = 0 THEN s0
                                             ELSE ExpectAt(c, r, f[n - 1], n - 1)]
           rows == CHOOSE f : Joins(f)
<1>1. s0 \in S /\ LookupAt(c, r, 0, s0)
  <2>1. /\ s0.index = c.index[r] /\ s0.slotToIndex = c.slotToIndex[r]
        /\ s0.head = 0 /\ s0.out \in [Positions -> Slots \cup {NotFound}]
        /\ s0 = [index |-> s0.index, slotToIndex |-> s0.slotToIndex, head |-> s0.head,
                 out |-> s0.out]
    BY DEF LookupStart, LookupInput
  <2> HIDE DEF s0
  <2>2. s0.index \in [Tokens -> Slots \cup {NotFound}]
        /\ s0.slotToIndex \in [Slots -> Tokens \cup {NotFound}]
    BY <2>1 DEF LookupInput
  <2>3. s0 \in S
    BY ONLY <2>1, <2>2 DEF LookupStates
  <2>4. Residents \in Nat /\ Residents + 0 = Residents
    BY Sizes
  <2>5. LookupAt(c, r, 0, s0)
    <3>1. s0.head <= 0
      BY <2>1
    <3>2. \A t \in Tokens : c.index[r][t] # NotFound => s0.index[t] = c.index[r][t]
      BY <2>1
    <3>3. \A q \in Slots : s0.slotToIndex[q] # NotFound <=> q < Residents + s0.head
      BY <2>1, <2>4 DEF LookupInput
    <3>4. \A i \in Positions : ~ i < 0
      BY DEF Positions
    <3> QED
      BY ONLY <3>1, <3>2, <3>3, <3>4 DEF LookupAt
  <2> QED
    BY <2>3, <2>5
<1>2. T \in SUBSET (Nat \X S) /\ \A n \in Nat, s \in S : <<n, s>> \in T <=> LookupAt(c, r, n, s)
  OBVIOUS
<1>3. \A n \in 0 .. N - 1, s \in S : F[<<n, s>>] = ExpectAt(c, r, s, n)
  OBVIOUS
<1>4. \A p \in T : p = <<p[1], p[2]>> /\ p[1] \in Nat /\ p[2] \in S
  OBVIOUS
<1> HIDE DEF T, F
<1>5. <<0, s0>> \in T
  BY <1>1, <1>2
<1>6. \A n \in 0 .. N - 1, s \in S : <<n, s>> \in T => <<n + 1, F[<<n, s>>]>> \in T
  <2> SUFFICES ASSUME NEW n \in 0 .. N - 1, NEW s \in S, <<n, s>> \in T
               PROVE  <<n + 1, F[<<n, s>>]>> \in T
    OBVIOUS
  <2>1. n \in Nat /\ n + 1 \in Nat
    OBVIOUS
  <2>2. LookupAt(c, r, n, s)
    BY <1>2, <2>1
  <2>3. ExpectAt(c, r, s, n) \in S /\ LookupAt(c, r, n + 1, ExpectAt(c, r, s, n))
    BY <2>2, ExpectAtStep
  <2> QED
    BY <1>2, <1>3, <2>1, <2>3
<1>7. PICK g \in [0 .. N -> S] :
        /\ g[0] = s0
        /\ \A n \in 0 .. N - 1 : g[n + 1] = F[<<n, g[n]>>]
        /\ \A n \in 0 .. N : <<n, g[n]>> \in T
  <2> HIDE DEF s0, S
  <2>1. N \in Nat
    OBVIOUS
  <2>2. Recurs(N, S, s0, T, F)
    BY ONLY <1>2, <1>5, <1>6, <2>1 DEF Recurs
  <2>3. PICK g : Solves(N, S, s0, T, F, g)
    BY <2>2, Iterates
  <2> QED
    BY ONLY <2>3 DEF Solves
<1>8. Joins(g)
  <2>1. \A n \in 0 .. N : g[n] = IF n = 0 THEN s0 ELSE ExpectAt(c, r, g[n - 1], n - 1)
    <3> SUFFICES ASSUME NEW n \in 0 .. N, n # 0
                 PROVE  g[n] = ExpectAt(c, r, g[n - 1], n - 1)
      BY <1>7
    <3>1. n - 1 \in 0 .. N - 1 /\ n - 1 \in 0 .. N /\ (n - 1) + 1 = n
      OBVIOUS
    <3>2. g[n] = F[<<n - 1, g[n - 1]>>] /\ g[n - 1] \in S
      BY <1>7, <3>1
    <3> QED
      BY <1>3, <3>1, <3>2
  <2> HIDE DEF s0, S
  <2>2. g = [n \in 0 .. N |-> g[n]]
    BY <1>7
  <2> QED
    BY ONLY <2>1, <2>2
<1>9. Joins(rows)
  <2> HIDE DEF Joins
  <2> QED
    BY <1>8
<1>10. LookupRows(c, r) = rows
  BY DEF LookupRows, LookupStart
<1>11. \A n \in 0 .. N : rows[n] = IF n = 0 THEN s0 ELSE ExpectAt(c, r, rows[n - 1], n - 1)
  <2>1. rows = [n \in 0 .. N |-> IF n = 0 THEN s0 ELSE ExpectAt(c, r, rows[n - 1], n - 1)]
    BY <1>9
  <2> HIDE DEF rows, s0
  <2> QED
    BY <2>1
<1> HIDE DEF rows, Joins
<1>12. /\ rows[0] = s0
       /\ \A n \in 0 .. N - 1 : rows[n + 1] = ExpectAt(c, r, rows[n], n)
  <2>1. 0 \in 0 .. N /\ \A n \in 0 .. N - 1 : n + 1 \in 0 .. N /\ n + 1 # 0 /\ (n + 1) - 1 = n
    OBVIOUS
  <2> HIDE DEF s0
  <2> QED
    BY ONLY <1>11, <2>1
<1> DEFINE D == {n \in 0 .. N : <<n, rows[n]>> \in T}
<1>13. 0 \in D
  BY <1>5, <1>12
<1>14. ASSUME NEW n \in 0 .. N - 1, n \in D PROVE n + 1 \in D
  <2>1. <<n, rows[n]>> \in T
    BY <1>14
  <2>2. rows[n] \in S
    BY <2>1, <1>4
  <2>3. <<n + 1, F[<<n, rows[n]>>]>> \in T
    BY <1>6, <2>1, <2>2
  <2>4. F[<<n, rows[n]>>] = rows[n + 1]
    BY <1>3, <1>12, <2>2
  <2>5. <<n + 1, rows[n + 1]>> \in T
    BY <2>3, <2>4
  <2> QED
    BY <2>5
<1> HIDE DEF D
<1>15. 0 .. N \subseteq D
  BY <1>13, <1>14, Counts
<1>16. ASSUME NEW n \in 0 .. N PROVE rows[n] \in S /\ LookupAt(c, r, n, rows[n])
  <2>1. <<n, rows[n]>> \in T
    BY <1>15 DEF D
  <2>2. rows[n] \in S
    BY <2>1, <1>4
  <2> QED
    BY <1>2, <2>1, <2>2
<1> QED
  BY <1>10, <1>12, <1>16

\* What maintain's reference is given: as many slots of the pool are taken as
\* freeHead says, and with the residents they come first; no answer is missing.
MaintainGiven(c) ==
  \A r \in Reqs :
    /\ c.index[r] \in [Tokens -> Slots \cup {NotFound}]
    /\ c.slotToIndex[r] \in [Slots -> Nat \cup {NotFound}]
    /\ c.freeSlots[r] \in [FreeRow -> Slots]
    /\ c.freeHead[r] \in 0 .. FreeCount
    /\ \A s \in Slots : c.slotToIndex[r][s] # NotFound <=> s < Residents + c.freeHead[r]
    /\ \A i \in Positions : c.last[r][i] \in Slots

MaintainStates ==
  [index : [Tokens -> Slots \cup {NotFound}],
   slotToIndex : [Slots -> Nat \cup {NotFound}],
   freeSlots : [FreeRow -> Slots],
   head : 0 .. FreeCount]

Kept(c, r) == {c.last[r][i] : i \in Positions}

Held(s) == {q \in Slots : s.slotToIndex[q] # NotFound}

SlotAt(start, r, o) == (start[r] + o) % SlotCount

(* After n slots: what is taken of the pool is what is held beyond the        *)
(* residents, and as long as some of it is, no slot that has been passed is  *)
(* held and not in the answer.                                              *)
MaintainAt(c, start, r, n, s) ==
  /\ IsFiniteSet(Held(s)) /\ Cardinality(Held(s)) = Residents + s.head
  /\ s.head > 0 =>
       \A o \in 0 .. n - 1 : SlotAt(start, r, o) \notin Held(s) \ Kept(c, r)

Evicts(c, r, s, slot) == s.head > 0 /\ slot \in Held(s) \ Kept(c, r)

LEMMA ScanIs ==
  ASSUME NEW c, NEW r \in Reqs, NEW s \in MaintainStates, NEW slot \in Slots
  PROVE  ExpectScan(c, r, s, slot) =
           IF Evicts(c, r, s, slot)
           THEN [slotToIndex |-> [s.slotToIndex EXCEPT ![slot] = NotFound],
                 index |-> [s.index EXCEPT ![s.slotToIndex[slot]] = NotFound],
                 head |-> s.head - 1,
                 freeSlots |-> [s.freeSlots EXCEPT ![s.head - 1] = slot]]
           ELSE s
<1>1. (\A i \in Positions : c.last[r][i] # slot) <=> slot \notin Kept(c, r)
  BY DEF Kept
<1>2. s.slotToIndex[slot] # NotFound <=> slot \in Held(s)
  BY DEF Held
<1> QED
  BY <1>1, <1>2 DEF ExpectScan, Evicts

LEMMA ScanPasses ==
  ASSUME NEW c, NEW r, NEW s, NEW slot, ~ Evicts(c, r, s, slot), slot \in Slots
  PROVE  ExpectScan(c, r, s, slot) = s
<1>1. ~ (s.head > 0 /\ s.slotToIndex[slot] # NotFound /\ \A i \in Positions : c.last[r][i] # slot)
  BY DEF Evicts, Held, Kept
<1> QED
  BY <1>1 DEF ExpectScan

LEMMA SlotAtIs ==
  ASSUME NEW start \in [Reqs -> Slots], NEW r \in Reqs, NEW o \in Nat
  PROVE  SlotAt(start, r, o) \in Slots
<1>1. start[r] \in Nat /\ start[r] + o \in Nat /\ SlotCount \in Nat \ {0}
  BY Sizes DEF Slots
<1> QED
  BY <1>1, DivMod DEF SlotAt, Slots

LEMMA ExpectScanStep ==
  ASSUME NEW c, NEW start \in [Reqs -> Slots], NEW r \in Reqs, NEW n \in Nat,
         NEW s \in MaintainStates, MaintainAt(c, start, r, n, s)
  PROVE  /\ ExpectScan(c, r, s, SlotAt(start, r, n)) \in MaintainStates
         /\ MaintainAt(c, start, r, n + 1, ExpectScan(c, r, s, SlotAt(start, r, n)))
<1> DEFINE e == ExpectScan(c, r, s, SlotAt(start, r, n))
<1>0. PICK slot : slot = SlotAt(start, r, n)
  OBVIOUS
<1>1. slot \in Slots
  BY <1>0, SlotAtIs
<1>2. /\ s.index \in [Tokens -> Slots \cup {NotFound}]
      /\ s.slotToIndex \in [Slots -> Nat \cup {NotFound}]
      /\ s.freeSlots \in [FreeRow -> Slots]
      /\ s.head \in 0 .. FreeCount
  BY DEF MaintainStates
<1>3. /\ IsFiniteSet(Held(s)) /\ Cardinality(Held(s)) = Residents + s.head
      /\ s.head > 0 =>
           \A o \in 0 .. n - 1 : SlotAt(start, r, o) \notin Held(s) \ Kept(c, r)
  BY DEF MaintainAt
<1>4. e = IF Evicts(c, r, s, slot)
          THEN [slotToIndex |-> [s.slotToIndex EXCEPT ![slot] = NotFound],
                index |-> [s.index EXCEPT ![s.slotToIndex[slot]] = NotFound],
                head |-> s.head - 1,
                freeSlots |-> [s.freeSlots EXCEPT ![s.head - 1] = slot]]
          ELSE s
  BY <1>0, <1>1, ScanIs
<1> HIDE DEF e
<1>5. CASE ~ Evicts(c, r, s, slot)
  <2>1. e = s
    BY <1>4, <1>5
  <2>2. ASSUME s.head > 0, NEW o \in 0 .. (n + 1) - 1
        PROVE  SlotAt(start, r, o) \notin Held(s) \ Kept(c, r)
    <3>1. CASE o = n
      BY <1>0, <1>5, <2>2, <3>1 DEF Evicts
    <3>2. CASE o # n
      <4>1. o \in 0 .. n - 1
        BY <3>2
      <4> QED
        BY <1>3, <2>2, <4>1
    <3> QED
      BY <3>1, <3>2
  <2> QED
    BY <1>3, <2>1, <2>2 DEF MaintainAt, e
<1>6. CASE Evicts(c, r, s, slot)
  <2>1. /\ e.slotToIndex = [s.slotToIndex EXCEPT ![slot] = NotFound]
        /\ e.index = [s.index EXCEPT ![s.slotToIndex[slot]] = NotFound]
        /\ e.head = s.head - 1
        /\ e.freeSlots = [s.freeSlots EXCEPT ![s.head - 1] = slot]
        /\ e = [index |-> e.index, slotToIndex |-> e.slotToIndex,
                freeSlots |-> e.freeSlots, head |-> e.head]
    BY <1>4, <1>6
  <2>2. s.head > 0 /\ slot \in Held(s) /\ s.head - 1 \in 0 .. FreeCount /\ s.head - 1 \in FreeRow
    BY <1>2, <1>6 DEF Evicts, FreeRow
  <2>3. /\ e.index \in [Tokens -> Slots \cup {NotFound}]
        /\ e.slotToIndex \in [Slots -> Nat \cup {NotFound}]
        /\ e.freeSlots \in [FreeRow -> Slots]
        /\ e.head \in 0 .. FreeCount
    <3>1. e.index \in [Tokens -> Slots \cup {NotFound}]
      <4>1. PICK t : e.index = [s.index EXCEPT ![t] = NotFound]
        BY ONLY <2>1
      <4> QED
        BY ONLY <1>2, <4>1
    <3>2. e.slotToIndex \in [Slots -> Nat \cup {NotFound}]
      BY ONLY <1>2, <2>1
    <3>3. e.freeSlots \in [FreeRow -> Slots]
      <4>1. e.freeSlots = [s.freeSlots EXCEPT ![s.head - 1] = slot]
        BY ONLY <2>1
      <4> QED
        BY ONLY <1>1, <1>2, <4>1
    <3> QED
      BY <2>1, <2>2, <3>1, <3>2, <3>3
  <2>4. e \in MaintainStates
    BY ONLY <2>1, <2>3 DEF MaintainStates
  <2>5. Held(e) = Held(s) \ {slot}
    <3>1. \A q \in Slots : e.slotToIndex[q] = IF q = slot THEN NotFound ELSE s.slotToIndex[q]
      BY ONLY <1>1, <1>2, <2>1
    <3> QED
      BY ONLY <3>1 DEF Held
  <2>6. IsFiniteSet(Held(e)) /\ Cardinality(Held(e)) = Cardinality(Held(s)) - 1
    BY <1>3, <2>2, <2>5, FS_RemoveElement
  <2>7. Cardinality(Held(e)) = Residents + e.head
    <3>1. Residents \in Nat
      BY Sizes
    <3> QED
      BY <1>2, <1>3, <2>1, <2>6, <3>1
  <2>8. ASSUME NEW o \in 0 .. (n + 1) - 1
        PROVE  SlotAt(start, r, o) \notin Held(e) \ Kept(c, r)
    <3>1. CASE o = n
      BY <1>0, <2>5, <3>1
    <3>2. CASE o # n
      <4>1. o \in 0 .. n - 1
        BY <3>2
      <4> QED
        BY <1>3, <2>2, <2>5, <4>1
    <3> QED
      BY <3>1, <3>2
  <2> QED
    BY <2>4, <2>6, <2>7, <2>8 DEF MaintainAt, e
<1> QED
  BY <1>5, <1>6

MaintainStart(c, r) ==
  [index |-> c.index[r], slotToIndex |-> c.slotToIndex[r],
   freeSlots |-> c.freeSlots[r], head |-> c.freeHead[r]]

LEMMA MaintainRowsAre ==
  ASSUME NEW c, NEW start \in [Reqs -> Slots], NEW r \in Reqs, MaintainGiven(c)
  PROVE  /\ MaintainRows(c, start, r)[0] = MaintainStart(c, r)
         /\ \A n \in 0 .. SlotCount - 1 :
              MaintainRows(c, start, r)[n + 1] =
                ExpectScan(c, r, MaintainRows(c, start, r)[n], SlotAt(start, r, n))
         /\ \A n \in 0 .. SlotCount : /\ MaintainRows(c, start, r)[n] \in MaintainStates
                                      /\ MaintainAt(c, start, r, n, MaintainRows(c, start, r)[n])
<1> DEFINE N == SlotCount
           S == MaintainStates
           s0 == MaintainStart(c, r)
           T == {p \in Nat \X S : MaintainAt(c, start, r, p[1], p[2])}
           F == [p \in (0 .. N - 1) \X S |-> ExpectScan(c, r, p[2], SlotAt(start, r, p[1]))]
           Joins(f) == f = [n \in 0 .. N |-> 
                         IF n = 0 THEN s0
                         ELSE ExpectScan(c, r, f[n - 1], SlotAt(start, r, n - 1))]
           rows == CHOOSE f : Joins(f)
<1>1. s0 \in S /\ MaintainAt(c, start, r, 0, s0)
  <2>1. /\ s0.index = c.index[r] /\ s0.slotToIndex = c.slotToIndex[r]
        /\ s0.head = c.freeHead[r] /\ s0.freeSlots = c.freeSlots[r]
        /\ s0 = [index |-> s0.index, slotToIndex |-> s0.slotToIndex,
                 freeSlots |-> s0.freeSlots, head |-> s0.head]
    BY DEF MaintainStart
  <2> HIDE DEF s0
  <2>2. /\ s0.index \in [Tokens -> Slots \cup {NotFound}]
        /\ s0.slotToIndex \in [Slots -> Nat \cup {NotFound}]
        /\ s0.freeSlots \in [FreeRow -> Slots]
        /\ s0.head \in 0 .. FreeCount
        /\ \A q \in Slots : s0.slotToIndex[q] # NotFound <=> q < Residents + s0.head
    BY <2>1 DEF MaintainGiven
  <2>3. s0 \in S
    BY ONLY <2>1, <2>2 DEF MaintainStates
  <2>4. PICK m \in Nat \ {0} : m = Residents + s0.head /\ m <= SlotCount
    BY <2>2, Sizes
  <2>5. Held(s0) = 0 .. m - 1
    <3>1. \A q \in Slots : q \in Held(s0) <=> q < m
      BY ONLY <2>2, <2>4 DEF Held
    <3>2. Held(s0) \subseteq Slots /\ 0 .. m - 1 \subseteq Slots
      BY <2>4 DEF Held, Slots
    <3>3. \A q \in Slots : q < m <=> q \in 0 .. m - 1
      BY <2>4 DEF Slots
    <3> QED
      BY ONLY <3>1, <3>2, <3>3
  <2>6. IsFiniteSet(0 .. m - 1) /\ Cardinality(0 .. m - 1) = m
    <3>1. 0 \in Int /\ m - 1 \in Int /\ ~ 0 > m - 1 /\ m - 1 - 0 + 1 = m
      BY <2>4
    <3>2. IsFiniteSet(0 .. m - 1)
          /\ Cardinality(0 .. m - 1) = IF 0 > m - 1 THEN 0 ELSE m - 1 - 0 + 1
      BY ONLY <3>1, FS_Interval
    <3> QED
      BY <3>1, <3>2
  <2>7. ~ \E o \in 0 .. 0 - 1 : TRUE
    OBVIOUS
  <2>8. MaintainAt(c, start, r, 0, s0)
    BY <2>4, <2>5, <2>6, <2>7 DEF MaintainAt
  <2> QED
    BY <2>3, <2>8
<1>2. T \in SUBSET (Nat \X S) /\ \A n \in Nat, s \in S : <<n, s>> \in T <=> MaintainAt(c, start, r, n, s)
  OBVIOUS
<1>3. \A n \in 0 .. N - 1, s \in S : F[<<n, s>>] = ExpectScan(c, r, s, SlotAt(start, r, n))
  OBVIOUS
<1>4. \A p \in T : p = <<p[1], p[2]>> /\ p[1] \in Nat /\ p[2] \in S
  OBVIOUS
<1> HIDE DEF T, F
<1>5. <<0, s0>> \in T
  BY <1>1, <1>2
<1>6. \A n \in 0 .. N - 1, s \in S : <<n, s>> \in T => <<n + 1, F[<<n, s>>]>> \in T
  <2> SUFFICES ASSUME NEW n \in 0 .. N - 1, NEW s \in S, <<n, s>> \in T
               PROVE  <<n + 1, F[<<n, s>>]>> \in T
    OBVIOUS
  <2>1. n \in Nat /\ n + 1 \in Nat
    OBVIOUS
  <2>2. MaintainAt(c, start, r, n, s)
    BY <1>2, <2>1
  <2>3. /\ ExpectScan(c, r, s, SlotAt(start, r, n)) \in S
        /\ MaintainAt(c, start, r, n + 1, ExpectScan(c, r, s, SlotAt(start, r, n)))
    BY <2>2, ExpectScanStep
  <2> QED
    BY <1>2, <1>3, <2>1, <2>3
<1>7. PICK g \in [0 .. N -> S] :
        /\ g[0] = s0
        /\ \A n \in 0 .. N - 1 : g[n + 1] = F[<<n, g[n]>>]
        /\ \A n \in 0 .. N : <<n, g[n]>> \in T
  <2> HIDE DEF s0, S
  <2>1. N \in Nat
    OBVIOUS
  <2>2. Recurs(N, S, s0, T, F)
    BY ONLY <1>2, <1>5, <1>6, <2>1 DEF Recurs
  <2>3. PICK g : Solves(N, S, s0, T, F, g)
    BY <2>2, Iterates
  <2> QED
    BY ONLY <2>3 DEF Solves
<1>8. Joins(g)
  <2>1. \A n \in 0 .. N :
          g[n] = IF n = 0 THEN s0 ELSE ExpectScan(c, r, g[n - 1], SlotAt(start, r, n - 1))
    <3> SUFFICES ASSUME NEW n \in 0 .. N, n # 0
                 PROVE  g[n] = ExpectScan(c, r, g[n - 1], SlotAt(start, r, n - 1))
      BY <1>7
    <3>1. n - 1 \in 0 .. N - 1 /\ n - 1 \in 0 .. N /\ (n - 1) + 1 = n
      OBVIOUS
    <3>2. g[n] = F[<<n - 1, g[n - 1]>>] /\ g[n - 1] \in S
      BY <1>7, <3>1
    <3> QED
      BY <1>3, <3>1, <3>2
  <2> HIDE DEF s0, S
  <2>2. g = [n \in 0 .. N |-> g[n]]
    BY <1>7
  <2> QED
    BY ONLY <2>1, <2>2
<1>9. Joins(rows)
  <2> HIDE DEF Joins
  <2> QED
    BY <1>8
<1>10. MaintainRows(c, start, r) = rows
  BY DEF MaintainRows, MaintainStart, SlotAt
<1>11. \A n \in 0 .. N :
         rows[n] = IF n = 0 THEN s0 ELSE ExpectScan(c, r, rows[n - 1], SlotAt(start, r, n - 1))
  <2>1. rows = [n \in 0 .. N |->
                 IF n = 0 THEN s0
                 ELSE ExpectScan(c, r, rows[n - 1], SlotAt(start, r, n - 1))]
    BY <1>9
  <2> HIDE DEF rows, s0
  <2> QED
    BY <2>1
<1> HIDE DEF rows, Joins
<1>12. /\ rows[0] = s0
       /\ \A n \in 0 .. N - 1 : rows[n + 1] = ExpectScan(c, r, rows[n], SlotAt(start, r, n))
  <2>1. 0 \in 0 .. N /\ \A n \in 0 .. N - 1 : n + 1 \in 0 .. N /\ n + 1 # 0 /\ (n + 1) - 1 = n
    OBVIOUS
  <2> HIDE DEF s0
  <2> QED
    BY ONLY <1>11, <2>1
<1> DEFINE D == {n \in 0 .. N : <<n, rows[n]>> \in T}
<1>13. 0 \in D
  BY <1>5, <1>12
<1>14. ASSUME NEW n \in 0 .. N - 1, n \in D PROVE n + 1 \in D
  <2>1. <<n, rows[n]>> \in T
    BY <1>14
  <2>2. rows[n] \in S
    BY <2>1, <1>4
  <2>3. <<n + 1, F[<<n, rows[n]>>]>> \in T
    BY <1>6, <2>1, <2>2
  <2>4. F[<<n, rows[n]>>] = rows[n + 1]
    BY <1>3, <1>12, <2>2
  <2>5. <<n + 1, rows[n + 1]>> \in T
    BY <2>3, <2>4
  <2> QED
    BY <2>5
<1> HIDE DEF D
<1>15. 0 .. N \subseteq D
  BY <1>13, <1>14, Counts
<1>16. ASSUME NEW n \in 0 .. N PROVE rows[n] \in S /\ MaintainAt(c, start, r, n, rows[n])
  <2>1. <<n, rows[n]>> \in T
    BY <1>15 DEF D
  <2>2. rows[n] \in S
    BY <2>1, <1>4
  <2> QED
    BY <1>2, <2>1, <2>2
<1> QED
  BY <1>10, <1>12, <1>16

LEMMA SlotsPassed ==
  ASSUME NEW start \in [Reqs -> Slots], NEW r \in Reqs, NEW q \in Slots
  PROVE  \E o \in 0 .. SlotCount - 1 : SlotAt(start, r, o) = q
<1>1. PICK a \in 0 .. SlotCount - 1 : a = start[r]
  BY DEF Slots
<1>2. SlotCount \in Nat \ {0} /\ q \in 0 .. SlotCount - 1 /\ q % SlotCount = q
  <2>1. SlotCount \in Nat \ {0}
    BY Sizes
  <2> QED
    BY <2>1, ModSmall DEF Slots
<1>3. CASE a <= q
  <2>1. q - a \in 0 .. SlotCount - 1 /\ a + (q - a) = q
    BY <1>1, <1>2, <1>3
  <2>2. SlotAt(start, r, q - a) = q
    BY <1>1, <1>2, <2>1 DEF SlotAt
  <2> QED
    BY <2>1, <2>2
<1>4. CASE ~ a <= q
  <2>1. PICK o \in 0 .. SlotCount - 1 : a + o = q + SlotCount
    <3>1. q + SlotCount - a \in 0 .. SlotCount - 1 /\ a + (q + SlotCount - a) = q + SlotCount
      BY <1>1, <1>2, <1>4
    <3> QED
      BY <3>1
  <2>2. (q + SlotCount) % SlotCount = q
    <3>1. q \in Nat
      BY <1>2
    <3>2. (q + SlotCount) % SlotCount = q % SlotCount
      BY ONLY <1>2, <3>1, ModStride
    <3> QED
      BY <1>2, <3>2
  <2>3. SlotAt(start, r, o) = q
    BY <1>1, <2>1, <2>2 DEF SlotAt
  <2> QED
    BY <2>3
<1> QED
  BY <1>3, <1>4

\* One turn around the slots refills the pool: otherwise every slot that holds
\* a token would be in the answer, and there are more of them.
LEMMA OneTurnIsEnough ==
  ASSUME NEW c, NEW start \in [Reqs -> Slots], NEW r \in Reqs,
         NEW s \in MaintainStates, MaintainAt(c, start, r, SlotCount, s)
  PROVE  s.head = 0
<1>1. SUFFICES ASSUME s.head > 0 PROVE FALSE
  BY DEF MaintainStates
<1>2. Held(s) \subseteq Kept(c, r)
  <2> SUFFICES ASSUME NEW q \in Held(s) PROVE q \in Kept(c, r)
    OBVIOUS
  <2>1. q \in Slots
    BY DEF Held
  <2>2. PICK o \in 0 .. SlotCount - 1 : SlotAt(start, r, o) = q
    BY <2>1, SlotsPassed
  <2> QED
    BY <1>1, <2>2 DEF MaintainAt
<1>3. IsFiniteSet(Kept(c, r)) /\ Cardinality(Kept(c, r)) <= QueryCount
  <2>1. IsFiniteSet(Positions) /\ Cardinality(Positions) = QueryCount
    BY FS_Interval DEF Positions
  <2> DEFINE f == [i \in Positions |-> c.last[r][i]]
  <2>2. f \in Surjection(Positions, Kept(c, r))
    BY DEF Surjection, Kept
  <2> HIDE DEF f
  <2> QED
    BY <2>1, <2>2, FS_Surjection
<1>4. Cardinality(Held(s)) <= QueryCount
  <2>1. Cardinality(Held(s)) <= Cardinality(Kept(c, r))
    BY <1>2, <1>3, FS_Subset
  <2>2. Cardinality(Held(s)) \in Nat /\ Cardinality(Kept(c, r)) \in Nat
    BY <1>2, <1>3, FS_Subset, FS_CardinalityType
  <2> QED
    BY <1>3, <2>1, <2>2
<1>5. Cardinality(Held(s)) = Residents + s.head /\ s.head \in Nat
  BY DEF MaintainAt, MaintainStates
<1> QED
  BY <1>1, <1>4, <1>5, Sizes

\* The rest of the turn leaves a pool that is full as it is.
LEMMA FullPoolStays ==
  ASSUME NEW c, NEW start \in [Reqs -> Slots], NEW r \in Reqs, MaintainGiven(c),
         NEW o \in 0 .. SlotCount, MaintainRows(c, start, r)[o].head = 0
  PROVE  MaintainRows(c, start, r)[SlotCount] = MaintainRows(c, start, r)[o]
<1>1. PICK rows : rows = MaintainRows(c, start, r)
  OBVIOUS
<1> DEFINE D == {m \in 0 .. SlotCount - o : rows[o + m] = rows[o]}
<1>2. 0 \in D /\ SlotCount - o \in Nat
  BY Sizes
<1>3. ASSUME NEW m \in 0 .. (SlotCount - o) - 1, m \in D PROVE m + 1 \in D
  <2>1. /\ o + m \in 0 .. SlotCount - 1 /\ o + m \in Nat /\ o \in 0 .. SlotCount
        /\ o + (m + 1) = (o + m) + 1 /\ m + 1 \in 0 .. SlotCount - o
    OBVIOUS
  <2>2. rows[(o + m) + 1] = ExpectScan(c, r, rows[o + m], SlotAt(start, r, o + m))
    BY <1>1, <2>1, MaintainRowsAre
  <2>3. rows[o + m] = rows[o] /\ rows[o] \in MaintainStates
    BY <1>1, <1>3, <2>1, MaintainRowsAre
  <2>4. ~ Evicts(c, r, rows[o], SlotAt(start, r, o + m))
    BY <1>1 DEF Evicts
  <2>5. SlotAt(start, r, o + m) \in Slots
    BY <2>1, SlotAtIs
  <2>6. ExpectScan(c, r, rows[o], SlotAt(start, r, o + m)) = rows[o]
    <3>1. PICK s, slot : s = rows[o] /\ slot = SlotAt(start, r, o + m)
      OBVIOUS
    <3>2. s \in MaintainStates /\ slot \in Slots /\ ~ Evicts(c, r, s, slot)
      BY ONLY <2>3, <2>4, <2>5, <3>1
    <3>3. ExpectScan(c, r, s, slot) = s
      BY ONLY <3>2, ScanPasses
    <3> QED
      BY <3>1, <3>3
  <2>7. rows[o + (m + 1)] = rows[o]
    BY <2>1, <2>2, <2>3, <2>6
  <2> QED
    BY <2>1, <2>7
<1>4. SlotCount - o \in D
  <2> HIDE DEF D
  <2>1. 0 .. SlotCount - o \subseteq D
    BY <1>2, <1>3, Counts
  <2> QED
    BY <1>2, <2>1
<1>5. rows[o + (SlotCount - o)] = rows[o] /\ o + (SlotCount - o) = SlotCount
  BY <1>4, Sizes
<1> QED
  BY <1>1, <1>5

-----------------------------------------------------------------------------
(* What the scripts make is what the reference is about.                    *)

LEMMA QueryIn ==
  ASSUME NEW pattern \in Patterns, NEW r \in Reqs
  PROVE  Query(pattern, r) \in [Positions -> Tokens]
<1>1. IndexSize \in Nat \ {0} /\ Residents \in Nat \ {0} /\ Residents <= IndexSize
      /\ MissBase \in Nat /\ MissStride \in Nat /\ r \in Nat
  BY Sizes, ScriptAssumption DEF Reqs
<1>2. r * MissStride \in Nat
  BY <1>1
<1>3. ASSUME NEW i \in Nat
      PROVE  (MissBase + r * MissStride + i) % IndexSize \in Tokens /\ i % Residents \in Tokens
  <2>1. PICK k \in Nat : k = MissBase + r * MissStride + i
    BY <1>1, <1>2
  <2>2. k % IndexSize \in 0 .. IndexSize - 1 /\ i % Residents \in 0 .. Residents - 1
    BY ONLY <1>1, <1>3, <2>1
  <2> QED
    BY <1>1, <2>1, <2>2 DEF Tokens
<1>4. MissQuery(r) \in [Positions -> Tokens] /\ HitQuery \in [Positions -> Tokens]
  BY <1>3 DEF MissQuery, HitQuery, Positions
<1>5. CASE pattern = "mixed"
  <2> DEFINE half == QueryCount \div 2
             From(i) == IF i \in {half + 1, half + 3} THEN i - 1 ELSE i
  <2>1. half \in Nat
    OBVIOUS
  <2> HIDE DEF half
  <2>2. ASSUME NEW i \in Positions, ~ i < half
        PROVE  From(i) - half \in Positions
    BY <2>1, <2>2 DEF Positions
  <2> HIDE DEF From
  <2>3. Query(pattern, r) =
          [i \in Positions |-> IF i < half THEN HitQuery[i] ELSE MissQuery(r)[From(i) - half]]
    BY <1>5 DEF Query, half, From
  <2> QED
    BY <1>4, <2>2, <2>3
<1> QED
  BY <1>4, <1>5 DEF Patterns, Query

LEMMA MaintainCaseIn ==
  ASSUME NEW n \in 0 .. FreeCount
  PROVE  /\ MaintainGiven(MaintainCase(n))
         /\ MaintainCase(n).index \in [Reqs -> [Tokens -> Slots \cup {NotFound}]]
         /\ MaintainCase(n).slotToIndex \in [Reqs -> [Slots -> Nat \cup {NotFound}]]
         /\ MaintainCase(n).freeSlots = [r \in Reqs |-> [k \in FreeRow |-> Residents + k]]
         /\ MaintainCase(n).freeSlots \in [Reqs -> [FreeRow -> Slots]]
         /\ MaintainCase(n).freeHead = [r \in Reqs |-> n]
         /\ MaintainCase(n).last \in [Reqs -> [Positions -> Slots \cup {NotFound}]]
         /\ "last" \in DOMAIN MaintainCase(n) /\ "query" \notin DOMAIN MaintainCase(n)
<1>1. /\ Residents \in Nat \ {0} /\ Residents + FreeCount = SlotCount /\ MissBase \in Nat
      /\ n \in Nat /\ n <= FreeCount /\ FreeCount \in Nat /\ QueryCount \in Nat
  BY Sizes, ScriptAssumption
<1> DEFINE missed == MissBase .. MissBase + n - 1
           hits   == QueryCount - n
           ix(t)  == CASE t < Residents -> t
                       [] t \in missed  -> Residents + (t - MissBase)
                       [] OTHER         -> NotFound
           si(s)  == CASE s < Residents     -> s
                       [] s < Residents + n /\ s >= Residents
                                            -> MissBase + (s - Residents)
                       [] OTHER             -> NotFound
           la(i)  == IF i < hits THEN i ELSE Residents + (i - hits)
<1>2. ASSUME NEW t \in Tokens PROVE ix(t) \in Slots \cup {NotFound}
  <2>1. t \in Nat
    BY DEF Tokens
  <2>2. CASE t < Residents
    BY <1>1, <2>1, <2>2 DEF Slots
  <2>3. CASE ~ t < Residents /\ t \in missed
    <3>1. ix(t) = Residents + (t - MissBase)
      BY <2>3
    <3> QED
      BY <1>1, <2>1, <2>3, <3>1 DEF Slots
  <2>4. CASE ~ t < Residents /\ t \notin missed
    BY <2>4
  <2> QED
    BY <2>2, <2>3, <2>4
<1>3. ASSUME NEW s \in Slots
      PROVE  si(s) \in Nat \cup {NotFound} /\ (si(s) # NotFound <=> s < Residents + n)
  <2>1. s \in Nat
    BY DEF Slots
  <2>2. CASE s < Residents
    BY <1>1, <2>1, <2>2 DEF NotFound
  <2>3. CASE ~ s < Residents /\ s < Residents + n
    <3>1. si(s) = MissBase + (s - Residents)
      BY <1>1, <2>1, <2>3
    <3> QED
      BY <1>1, <2>1, <2>3, <3>1 DEF NotFound
  <2>4. CASE ~ s < Residents + n
    BY <1>1, <2>1, <2>4
  <2> QED
    BY <2>2, <2>3, <2>4
<1>4. ASSUME NEW i \in Positions PROVE la(i) \in Slots
  BY <1>1, Sizes DEF Positions, Slots
<1>5. ASSUME NEW k \in FreeRow PROVE Residents + k \in Slots
  BY <1>1 DEF FreeRow, Slots
<1>6. MaintainCase(n) =
        [index |-> [r \in Reqs |-> [t \in Tokens |-> ix(t)]],
         slotToIndex |-> [r \in Reqs |-> [s \in Slots |-> si(s)]],
         freeSlots |-> [r \in Reqs |-> [k \in FreeRow |-> Residents + k]],
         freeHead |-> [r \in Reqs |-> n],
         last |-> [r \in Reqs |-> [i \in Positions |-> la(i)]]]
  BY DEF MaintainCase
<1> HIDE DEF ix, si, la
<1>7. "last" \in DOMAIN MaintainCase(n) /\ "query" \notin DOMAIN MaintainCase(n)
  BY <1>6
<1> DEFINE m == MaintainCase(n)
<1>8. /\ m.index = [r \in Reqs |-> [t \in Tokens |-> ix(t)]]
      /\ m.slotToIndex = [r \in Reqs |-> [s \in Slots |-> si(s)]]
      /\ m.freeSlots = [r \in Reqs |-> [k \in FreeRow |-> Residents + k]]
      /\ m.freeHead = [r \in Reqs |-> n]
      /\ m.last = [r \in Reqs |-> [i \in Positions |-> la(i)]]
  BY <1>6
<1> HIDE DEF m
<1>9. /\ m.index \in [Reqs -> [Tokens -> Slots \cup {NotFound}]]
      /\ m.slotToIndex \in [Reqs -> [Slots -> Nat \cup {NotFound}]]
      /\ m.freeSlots \in [Reqs -> [FreeRow -> Slots]]
      /\ m.last \in [Reqs -> [Positions -> Slots \cup {NotFound}]]
  BY <1>2, <1>3, <1>4, <1>5, <1>8
<1>10. MaintainGiven(m)
  <2> SUFFICES ASSUME NEW r \in Reqs
               PROVE  /\ m.freeHead[r] \in 0 .. FreeCount
                      /\ \A s \in Slots : m.slotToIndex[r][s] # NotFound
                                            <=> s < Residents + m.freeHead[r]
                      /\ \A i \in Positions : m.last[r][i] \in Slots
    BY <1>9 DEF MaintainGiven
  <2> QED
    BY <1>3, <1>4, <1>8
<1> QED
  BY <1>7, <1>8, <1>9, <1>10 DEF m

LEMMA IndexCaseIn ==
  ASSUME NEW pattern \in Patterns
  PROVE  /\ LookupInput(IndexCase(pattern))
         /\ IndexCase(pattern).index \in [Reqs -> [Tokens -> Slots \cup {NotFound}]]
         /\ IndexCase(pattern).slotToIndex \in [Reqs -> [Slots -> Nat \cup {NotFound}]]
         /\ IndexCase(pattern).freeSlots \in [Reqs -> [FreeRow -> Slots]]
         /\ IndexCase(pattern).freeHead \in [Reqs -> Nat]
         /\ IndexCase(pattern).query \in [Reqs -> [Positions -> Tokens]]
         /\ "query" \in DOMAIN IndexCase(pattern) /\ "last" \notin DOMAIN IndexCase(pattern)
<1> DEFINE m == MaintainCase(0)
           x == IndexCase(pattern)
<1>1. x = [index |-> m.index, slotToIndex |-> m.slotToIndex,
           freeSlots |-> m.freeSlots, freeHead |-> m.freeHead,
           query |-> [r \in Reqs |-> Query(pattern, r)]]
  BY DEF IndexCase
<1>2. m.slotToIndex = [r \in Reqs |-> [s \in Slots |-> IF s < Residents THEN s ELSE NotFound]]
  <2>1. \A s \in Slots : ~ (s < Residents + 0 /\ s >= Residents)
    BY Sizes DEF Slots
  <2> QED
    BY <2>1 DEF MaintainCase
<1>3. \A s \in Slots : s < Residents => s \in Tokens /\ s # NotFound
  BY Sizes DEF Slots, Tokens, NotFound
<1>4. m.slotToIndex \in [Reqs -> [Slots -> Tokens \cup {NotFound}]]
      /\ \A r \in Reqs, s \in Slots : m.slotToIndex[r][s] # NotFound <=> s < Residents
  BY <1>2, <1>3
<1>5. 0 \in 0 .. FreeCount
  OBVIOUS
<1>6. /\ m.index \in [Reqs -> [Tokens -> Slots \cup {NotFound}]]
      /\ m.slotToIndex \in [Reqs -> [Slots -> Nat \cup {NotFound}]]
      /\ m.freeSlots = [r \in Reqs |-> [k \in FreeRow |-> Residents + k]]
      /\ m.freeSlots \in [Reqs -> [FreeRow -> Slots]]
      /\ m.freeHead = [r \in Reqs |-> 0]
  BY <1>5, MaintainCaseIn
<1>7. [r \in Reqs |-> Query(pattern, r)] \in [Reqs -> [Positions -> Tokens]]
  BY QueryIn
<1> HIDE DEF m
<1>8. /\ x.index = m.index /\ x.slotToIndex = m.slotToIndex /\ x.freeSlots = m.freeSlots
      /\ x.freeHead = m.freeHead /\ x.query = [r \in Reqs |-> Query(pattern, r)]
      /\ "query" \in DOMAIN x /\ "last" \notin DOMAIN x
  BY <1>1
<1> HIDE DEF x
<1>9. x.freeHead \in [Reqs -> Nat]
  BY <1>6, <1>8
<1>10. LookupInput(x)
  BY <1>4, <1>6, <1>7, <1>8 DEF LookupInput
<1> QED
  BY <1>6, <1>7, <1>8, <1>9, <1>10 DEF x

LEMMA ExpectedLookupIn ==
  ASSUME NEW c, LookupInput(c), c.freeSlots \in [Reqs -> [FreeRow -> Slots]]
  PROVE  /\ MaintainGiven(ExpectedLookup(c))
         /\ ExpectedLookup(c).index \in [Reqs -> [Tokens -> Slots \cup {NotFound}]]
         /\ ExpectedLookup(c).slotToIndex \in [Reqs -> [Slots -> Nat \cup {NotFound}]]
         /\ ExpectedLookup(c).freeSlots \in [Reqs -> [FreeRow -> Slots]]
         /\ ExpectedLookup(c).freeHead \in [Reqs -> Nat]
         /\ ExpectedLookup(c).last \in [Reqs -> [Positions -> Slots \cup {NotFound}]]
         /\ "last" \in DOMAIN ExpectedLookup(c) /\ "query" \notin DOMAIN ExpectedLookup(c)
<1> DEFINE row(r) == LookupRows(c, r)[QueryCount]
           e == ExpectedLookup(c)
<1>1. QueryCount \in 0 .. QueryCount /\ QueryCount \in 0 .. FreeCount
  OBVIOUS
<1>2. ASSUME NEW r \in Reqs
      PROVE  row(r) \in LookupStates /\ LookupAt(c, r, QueryCount, row(r))
  BY <1>1, LookupRowsAre
<1>3. e = [index       |-> [r \in Reqs |-> row(r).index],
           slotToIndex |-> [r \in Reqs |-> row(r).slotToIndex],
           freeSlots   |-> c.freeSlots,
           freeHead    |-> [r \in Reqs |-> row(r).head],
           last        |-> [r \in Reqs |-> row(r).out]]
  BY DEF ExpectedLookup
<1> HIDE DEF row
<1>4. /\ e.index = [r \in Reqs |-> row(r).index]
      /\ e.slotToIndex = [r \in Reqs |-> row(r).slotToIndex]
      /\ e.freeSlots = c.freeSlots
      /\ e.freeHead = [r \in Reqs |-> row(r).head]
      /\ e.last = [r \in Reqs |-> row(r).out]
      /\ "last" \in DOMAIN e /\ "query" \notin DOMAIN e
  BY <1>3
<1> HIDE DEF e
<1>5. ASSUME NEW r \in Reqs
      PROVE  /\ row(r).index \in [Tokens -> Slots \cup {NotFound}]
             /\ row(r).slotToIndex \in [Slots -> Nat \cup {NotFound}]
             /\ row(r).head \in 0 .. FreeCount
             /\ row(r).out \in [Positions -> Slots \cup {NotFound}]
             /\ \A s \in Slots : row(r).slotToIndex[s] # NotFound <=> s < Residents + row(r).head
             /\ \A i \in Positions : row(r).out[i] \in Slots
  <2>1. /\ row(r).index \in [Tokens -> Slots \cup {NotFound}]
        /\ row(r).slotToIndex \in [Slots -> Tokens \cup {NotFound}]
        /\ row(r).head \in Nat
        /\ row(r).out \in [Positions -> Slots \cup {NotFound}]
    BY <1>2 DEF LookupStates
  <2>2. row(r).head <= QueryCount
        /\ \A s \in Slots : row(r).slotToIndex[s] # NotFound <=> s < Residents + row(r).head
    BY <1>2 DEF LookupAt
  <2>3. Tokens \cup {NotFound} \subseteq Nat \cup {NotFound}
    BY DEF Tokens
  <2>4. row(r).slotToIndex \in [Slots -> Nat \cup {NotFound}]
    BY <2>1, <2>3
  <2>5. row(r).head \in 0 .. FreeCount
    BY <1>1, <2>1, <2>2
  <2>6. \A i \in Positions : row(r).out[i] \in Slots
    BY <1>2 DEF LookupAt, Positions
  <2> QED
    BY <2>1, <2>2, <2>4, <2>5, <2>6
<1>6. /\ e.index \in [Reqs -> [Tokens -> Slots \cup {NotFound}]]
      /\ e.slotToIndex \in [Reqs -> [Slots -> Nat \cup {NotFound}]]
      /\ e.freeHead \in [Reqs -> 0 .. FreeCount]
      /\ e.last \in [Reqs -> [Positions -> Slots \cup {NotFound}]]
  BY <1>4, <1>5
<1>7. MaintainGiven(e)
  <2> SUFFICES ASSUME NEW r \in Reqs
               PROVE  /\ \A s \in Slots : e.slotToIndex[r][s] # NotFound
                                             <=> s < Residents + e.freeHead[r]
                      /\ \A i \in Positions : e.last[r][i] \in Slots
    BY <1>4, <1>6 DEF MaintainGiven
  <2> QED
    BY <1>4, <1>5
<1>8. e.freeHead \in [Reqs -> Nat]
  BY <1>6
<1> QED
  BY <1>4, <1>6, <1>7, <1>8 DEF e

\* Tensors of one of the two scripts' kinds.
TensorsOf(c) ==
  /\ c.index \in [Reqs -> [Tokens -> Slots \cup {NotFound}]]
  /\ c.slotToIndex \in [Reqs -> [Slots -> Nat \cup {NotFound}]]
  /\ c.freeSlots \in [Reqs -> [FreeRow -> Slots]]
  /\ c.freeHead \in [Reqs -> Nat]
  /\ "query" \in DOMAIN c => c.query \in [Reqs -> [Positions -> Tokens]]
  /\ "last" \in DOMAIN c => c.last \in [Reqs -> [Positions -> Slots \cup {NotFound}]]

Inputs(lookup, maintain) ==
  /\ LookupInput(lookup) /\ TensorsOf(lookup)
  /\ "query" \in DOMAIN lookup /\ "last" \notin DOMAIN lookup
  /\ MaintainGiven(maintain) /\ TensorsOf(maintain)
  /\ "last" \in DOMAIN maintain /\ "query" \notin DOMAIN maintain

LEMMA InputsIn ==
  ASSUME NEW o \in Options
  PROVE  Inputs(IndexCase(o.pattern), MaintainInput(o))
<1>1. o.pattern \in Patterns /\ o.evict \in EvictSlots \cup {None}
  BY DEF Options
<1> DEFINE x == IndexCase(o.pattern)
<1>2. LookupInput(x) /\ TensorsOf(x) /\ "query" \in DOMAIN x /\ "last" \notin DOMAIN x
  BY <1>1, IndexCaseIn DEF TensorsOf
<1> HIDE DEF x
<1>3. CASE o.evict # None
  <2>1. PICK n \in 0 .. FreeCount : n = o.evict
    BY <1>1, <1>3, ScriptAssumption
  <2>2. MaintainInput(o) = MaintainCase(n)
    BY <1>3, <2>1 DEF MaintainInput
  <2> DEFINE m == MaintainCase(n)
  <2>3. m.freeHead = [r \in Reqs |-> n]
    BY DEF MaintainCase
  <2>4. n \in Nat /\ m.freeHead \in [Reqs -> Nat]
    BY <2>3
  <2>5. MaintainGiven(m) /\ TensorsOf(m) /\ "last" \in DOMAIN m /\ "query" \notin DOMAIN m
    BY <2>4, MaintainCaseIn DEF TensorsOf
  <2> HIDE DEF m
  <2> QED
    BY <1>2, <2>2, <2>5 DEF Inputs, m, x
<1>4. CASE o.evict = None
  <2>1. PICK pattern \in Patterns : MaintainInput(o) = ExpectedLookup(IndexCase(pattern))
    <3>1. "mixed" \in Patterns
      BY DEF Patterns
    <3> QED
      BY <1>1, <1>4, <3>1 DEF MaintainInput
  <2>2. PICK c : c = IndexCase(pattern)
    OBVIOUS
  <2>3. LookupInput(c) /\ c.freeSlots \in [Reqs -> [FreeRow -> Slots]]
    BY <2>2, IndexCaseIn
  <2> DEFINE e == ExpectedLookup(c)
  <2>4. MaintainGiven(e) /\ TensorsOf(e) /\ "last" \in DOMAIN e /\ "query" \notin DOMAIN e
    BY <2>3, ExpectedLookupIn DEF TensorsOf
  <2> HIDE DEF e
  <2> QED
    BY <1>2, <2>1, <2>2, <2>4 DEF Inputs, e, x
<1> QED
  BY <1>3, <1>4

-----------------------------------------------------------------------------
(* The kernels go through the reference's states.                           *)

TensorsIn ==
  /\ index \in [Reqs -> [Tokens -> Slots \cup {NotFound}]]
  /\ slotToIndex \in [Reqs -> [Slots -> Nat \cup {NotFound}]]
  /\ freeSlots \in [Reqs -> [FreeRow -> Slots]]
  /\ freeHead \in [Reqs -> Nat]
  /\ query \in [Reqs -> [Positions -> Tokens]]
  /\ slotOut \in [Reqs -> [Positions -> Slots \cup {NotFound}]]

RegistersIn ==
  /\ req \in [Cores -> Nat]
  /\ pc \in [Cores -> {"load", "alloc", "scan"}]
  /\ head \in [Cores -> Nat]
  /\ pos \in [Cores -> Nat]
  /\ outTile \in [Cores -> [Positions -> Slots \cup {NotFound}]]
  /\ protected \in [Cores -> SUBSET (Slots \cup {NotFound})]

LookupRow(r, n) == LookupRows(given.lookup, r)[n]

LookupDone(r) ==
  /\ index[r] = LookupRow(r, QueryCount).index
  /\ slotToIndex[r] = LookupRow(r, QueryCount).slotToIndex
  /\ freeHead[r] = LookupRow(r, QueryCount).head
  /\ \A i \in Positions : slotOut[r][i] # LookupRow(r, QueryCount).out[i] =>
       Followed(r) /\ slotOut[r][i] = NotFound

LookupAhead(r) ==
  /\ index[r] = given.lookup.index[r]
  /\ slotToIndex[r] = given.lookup.slotToIndex[r]
  /\ freeHead[r] = given.lookup.freeHead[r]

\* Core c has the first pos[c] answers, and gathered the others at the start.
LookupBusy(c, r) ==
  /\ pos[c] \in 0 .. QueryCount
  /\ index[r] = LookupRow(r, pos[c]).index
  /\ slotToIndex[r] = LookupRow(r, pos[c]).slotToIndex
  /\ head[c] = LookupRow(r, pos[c]).head
  /\ \A i \in Positions :
       outTile[c][i] = IF i < pos[c] THEN LookupRow(r, pos[c]).out[i]
                       ELSE given.lookup.index[r][query[r][i]]

LookupRequest(r) ==
  LET c == CoreOf(r) IN
    /\ r < req[c] => LookupDone(r)
    /\ req[c] < r \/ (req[c] = r /\ pc[c] = "load") => LookupAhead(r)
    /\ req[c] = r /\ pc[c] = "alloc" => LookupBusy(c, r)

CoresAt(loop) ==
  \A c \in Cores : /\ CoreOf(req[c]) = c
                   /\ pc[c] \in {"load", loop}
                   /\ pc[c] = loop => req[c] \in Reqs

LookupRuns ==
  /\ CoresAt("alloc")
  /\ query = given.lookup.query /\ freeSlots = given.lookup.freeSlots
  /\ \A r \in Reqs : LookupRequest(r)

MaintainRow(r, o) == MaintainRows(given.maintain, starts, r)[o]

MaintainDone(r) ==
  /\ index[r] = MaintainRow(r, SlotCount).index
  /\ slotToIndex[r] = MaintainRow(r, SlotCount).slotToIndex
  /\ freeSlots[r] = MaintainRow(r, SlotCount).freeSlots
  /\ freeHead[r] = MaintainRow(r, SlotCount).head

MaintainAhead(r) ==
  /\ index[r] = given.maintain.index[r]
  /\ slotToIndex[r] = given.maintain.slotToIndex[r]
  /\ freeSlots[r] = given.maintain.freeSlots[r]
  /\ freeHead[r] = given.maintain.freeHead[r]

\* Core c has passed o slots.
MaintainBusyAt(c, r, o) ==
  /\ index[r] = MaintainRow(r, o).index
  /\ slotToIndex[r] = MaintainRow(r, o).slotToIndex
  /\ freeSlots[r] = MaintainRow(r, o).freeSlots
  /\ head[c] = MaintainRow(r, o).head
  /\ protected[c] = Kept(given.maintain, r)
  /\ o < SlotCount => pos[c] = SlotAt(starts, r, o)

MaintainRequest(r) ==
  LET c == CoreOf(r) IN
    /\ r < req[c] => MaintainDone(r)
    /\ req[c] < r \/ (req[c] = r /\ pc[c] = "load") => MaintainAhead(r)
    /\ req[c] = r /\ pc[c] = "scan" => \E o \in 0 .. SlotCount : MaintainBusyAt(c, r, o)

MaintainRuns ==
  /\ CoresAt("scan")
  /\ slotOut = given.maintain.last
  /\ \A r \in Reqs : MaintainRequest(r)

Runs(kernel) == IF kernel = "lookup" THEN LookupRuns ELSE MaintainRuns

-----------------------------------------------------------------------------
(* The validation script.                                                   *)

Kernels == {"lookup", "maintain"}

Loaded(kernel) ==
  /\ index = given[kernel].index /\ slotToIndex = given[kernel].slotToIndex
  /\ freeSlots = given[kernel].freeSlots /\ freeHead = given[kernel].freeHead
  /\ IF kernel = "lookup" THEN query = given[kernel].query
                          ELSE slotOut = given[kernel].last

Kernel(kernel) == Instr(kernel, 0)

Steps ==
  {Synchronize, Instr("resolve", 0), CopyBack} \cup {Upload(kernel) : kernel \in Kernels}
    \cup {Kernel(kernel) : kernel \in Kernels}
    \cup {Instr("check", kernel) : kernel \in Kernels}

\* A kernel's section of the script, behind position p: it is uploaded, run,
\* perhaps its results are copied back, then it is waited for and checked.
Validates(sc, p, kernel, back) ==
  /\ p \in Nat /\ p + 4 + back <= Len(sc)
  /\ sc[p + 1] = Upload(kernel) /\ sc[p + 2] = Kernel(kernel)
  /\ back = 1 => sc[p + 3] = CopyBack
  /\ sc[p + 3 + back] = Synchronize /\ sc[p + 4 + back] = Instr("check", kernel)

\* Nothing is on the stream before an upload, or where maintain is looked up.
Seam(sc, p) ==
  p < Len(sc) =>
    \/ \E kernel \in Kernels, back \in {0, 1} : Validates(sc, p, kernel, back)
    \/ /\ sc[p + 1] = Instr("resolve", 0) /\ p + 1 < Len(sc)
       /\ \E back \in {0, 1} : Validates(sc, p + 1, "maintain", back)

\* The section's work is on the stream from its instruction k on.
OnStream(sc, p, back, k) ==
  /\ session.at \in p + 1 .. p + 2 + back
  /\ p + k <= session.at + 1
  /\ session.stream = SubSeq(sc, p + k, session.at)

\* How far the kernel is when the device is at instruction k of its section.
Reached(kernel, k) ==
  \/ k = 1 /\ op = "idle"
  \/ k = 2 /\ op = "idle" /\ Loaded(kernel)
  \/ k = 2 /\ op = kernel /\ Runs(kernel)
  \/ k > 2 /\ op = "idle" /\ Matches(kernel)

InSection(sc, p, kernel, back) ==
  \/ \E k \in 1 .. 4 : /\ OnStream(sc, p, back, k) /\ Reached(kernel, k)
                       /\ op # "idle" => p + k <= session.at
  \/ /\ session.at = p + 3 + back /\ session.stream = << >>
     /\ op = "idle" /\ Matches(kernel)

InScript(sc) ==
  /\ session.at \in 0 .. Len(sc)
  /\ \/ op = "idle" /\ session.stream = << >> /\ Seam(sc, session.at)
     \/ \E p \in 0 .. Len(sc), kernel \in Kernels, back \in {0, 1} :
          Validates(sc, p, kernel, back) /\ InSection(sc, p, kernel, back)

\* What the process has made at the start, and does not change.
Asked ==
  /\ opt \in Options /\ opt.tool = "validate"
  /\ Inputs(given.lookup, given.maintain)
  /\ expected.lookup = ExpectedLookup(given.lookup)
  /\ expected.maintain = ExpectedMaintain(given.maintain, starts)
  /\ starts \in [Reqs -> Slots]

\* With one request on a core no answer is spoilt.
NoneSpoilt == ReqNum <= BlockNum => status # "mismatch"

ValidateInv ==
  /\ Asked
  /\ session \in Sessions(Steps)
  /\ NoneSpoilt
  /\ TensorsIn /\ RegistersIn
  /\ op = "idle" => \A c \in Cores : pc[c] = "load"
  /\ InScript(Script)

LEMMA ScriptShape ==
  ASSUME NEW o
  PROVE  /\ ValidateScript(o) \in Seq(Steps)
         /\ Seam(ValidateScript(o), 0)
         /\ \A p \in Nat, kernel \in Kernels, back \in {0, 1} :
              Validates(ValidateScript(o), p, kernel, back)
                => Seam(ValidateScript(o), p + 4 + back)
<1> DEFINE lk == <<Upload("lookup"), Lookup, Synchronize, Instr("check", "lookup")>>
           mn == <<Instr("resolve", 0), Upload("maintain")>> \o MaintainCall(o)
                   \o <<Synchronize, Instr("check", "maintain")>>
           Full1(f) == /\ Len(f) = 4 /\ f[1] = Upload("lookup") /\ f[2] = Kernel("lookup")
                       /\ f[3] = Synchronize /\ f[4] = Instr("check", "lookup")
           Full2(g, back) ==
             /\ Len(g) = 5 + back /\ g[1] = Instr("resolve", 0) /\ g[2] = Upload("maintain")
             /\ g[3] = Kernel("maintain") /\ (back = 1 => g[4] = CopyBack)
             /\ g[4 + back] = Synchronize /\ g[5 + back] = Instr("check", "maintain")
<1>1. /\ Upload("lookup") \in Steps /\ Lookup \in Steps /\ Synchronize \in Steps
      /\ Instr("check", "lookup") \in Steps /\ Instr("resolve", 0) \in Steps
      /\ Upload("maintain") \in Steps /\ Maintain \in Steps /\ CopyBack \in Steps
      /\ Instr("check", "maintain") \in Steps
  BY DEF Steps, Kernels, Kernel, Lookup, Maintain
<1>2. lk \in Seq(Steps) /\ Full1(lk) /\ << >> \in Seq(Steps) /\ Len(<< >>) = 0
  BY <1>1 DEF Kernel, Lookup
<1>3. PICK back \in {0, 1} : mn \in Seq(Steps) /\ Full2(mn, back)
  <2> DEFINE pre == <<Instr("resolve", 0), Upload("maintain")>>
             post == <<Synchronize, Instr("check", "maintain")>>
  <2>1. /\ pre \in Seq(Steps) /\ Len(pre) = 2 /\ pre[1] = Instr("resolve", 0)
        /\ pre[2] = Upload("maintain")
        /\ post \in Seq(Steps) /\ Len(post) = 2 /\ post[1] = Synchronize
        /\ post[2] = Instr("check", "maintain")
    BY <1>1
  <2>2. PICK call \in Seq(Steps), b \in {0, 1} :
          /\ call = MaintainCall(o) /\ Len(call) = 1 + b /\ call[1] = Maintain
          /\ b = 1 => call[2] = CopyBack
    <3>1. CASE Returns(o)
      <4>1. /\ <<Maintain, CopyBack>> \in Seq(Steps) /\ Len(<<Maintain, CopyBack>>) = 1 + 1
            /\ <<Maintain, CopyBack>>[1] = Maintain /\ <<Maintain, CopyBack>>[2] = CopyBack
        BY <1>1
      <4>2. MaintainCall(o) = <<Maintain, CopyBack>>
        BY <3>1 DEF MaintainCall
      <4> QED
        BY <4>1, <4>2
    <3>2. CASE ~ Returns(o)
      <4>1. <<Maintain>> \in Seq(Steps) /\ Len(<<Maintain>>) = 1 + 0 /\ <<Maintain>>[1] = Maintain
        BY <1>1
      <4>2. MaintainCall(o) = <<Maintain>>
        BY <3>2 DEF MaintainCall
      <4>3. PICK b \in {0, 1} : b = 0
        OBVIOUS
      <4> QED
        BY <4>1, <4>2, <4>3
    <3> QED
      BY <3>1, <3>2
  <2> DEFINE front == pre \o call
  <2> HIDE DEF pre, post
  <2>3. /\ front \in Seq(Steps) /\ Len(front) = 3 + b
        /\ front[1] = pre[1] /\ front[2] = pre[2] /\ front[3] = call[1]
        /\ b = 1 => front[4] = call[2]
    <3>1. /\ front \in Seq(Steps) /\ Len(front) = Len(pre) + Len(call)
          /\ \A j \in 1 .. Len(pre) : front[j] = pre[j]
          /\ \A j \in 1 .. Len(call) : front[Len(pre) + j] = call[j]
      <4>1. pre \in Seq(Steps) /\ call \in Seq(Steps)
        BY <2>1, <2>2
      <4> QED
        BY ONLY <4>1, ConcatAt
    <3> HIDE DEF front
    <3>2. /\ 1 \in 1 .. Len(pre) /\ 2 \in 1 .. Len(pre) /\ 1 \in 1 .. Len(call)
          /\ b = 1 => 2 \in 1 .. Len(call)
      BY <2>1, <2>2
    <3>3. Len(pre) + 1 = 3 /\ Len(pre) + 2 = 4 /\ Len(pre) + Len(call) = 3 + b
      BY <2>1, <2>2
    <3> QED
      BY ONLY <3>1, <3>2, <3>3
  <2> DEFINE all == front \o post
  <2> HIDE DEF front
  <2>4. /\ all \in Seq(Steps) /\ Len(all) = 5 + b
        /\ \A j \in 1 .. 3 + b : all[j] = front[j]
        /\ all[4 + b] = post[1] /\ all[5 + b] = post[2]
    <3>1. all \in Seq(Steps) /\ Len(all) = (3 + b) + 2
          /\ (\A j \in 1 .. 3 + b : all[j] = front[j])
          /\ (\A j \in 1 .. 2 : all[(3 + b) + j] = post[j])
      <4>1. /\ all \in Seq(Steps) /\ Len(all) = Len(front) + Len(post)
            /\ \A j \in 1 .. Len(front) : all[j] = front[j]
            /\ \A j \in 1 .. Len(post) : all[Len(front) + j] = post[j]
        <5>1. front \in Seq(Steps) /\ post \in Seq(Steps)
          BY <2>1, <2>3
        <5>2. all = front \o post
          OBVIOUS
        <5> HIDE DEF all
        <5>3. PICK w : w = front \o post
          OBVIOUS
        <5>4. /\ w \in Seq(Steps) /\ Len(w) = Len(front) + Len(post)
              /\ \A j \in 1 .. Len(front) : w[j] = front[j]
              /\ \A j \in 1 .. Len(post) : w[Len(front) + j] = post[j]
          <6>1. /\ front \o post \in Seq(Steps) /\ Len(front \o post) = Len(front) + Len(post)
                /\ \A j \in 1 .. Len(front) : (front \o post)[j] = front[j]
                /\ \A j \in 1 .. Len(post) : (front \o post)[Len(front) + j] = post[j]
            BY ONLY <5>1, ConcatAt
          <6> QED
            BY ONLY <5>3, <6>1
        <5> QED
          BY ONLY <5>2, <5>3, <5>4
      <4> HIDE DEF all
      <4> QED
        BY ONLY <2>1, <2>3, <4>1
    <3> HIDE DEF all
    <3>2. 1 \in 1 .. 2 /\ 2 \in 1 .. 2 /\ (3 + b) + 1 = 4 + b /\ (3 + b) + 2 = 5 + b
      OBVIOUS
    <3> QED
      BY <3>1, <3>2
  <2> HIDE DEF all
  <2>5. 1 \in 1 .. 3 + b /\ 2 \in 1 .. 3 + b /\ 3 \in 1 .. 3 + b /\ (b = 1 => 4 \in 1 .. 3 + b)
    OBVIOUS
  <2>6. Full2(all, b)
    BY <2>1, <2>2, <2>3, <2>4, <2>5 DEF Kernel, Maintain
  <2> QED
    BY <2>2, <2>4, <2>6 DEF all, front, pre, post
<1>4. PICK f \in Seq(Steps), g \in Seq(Steps) :
        /\ ValidateScript(o) = f \o g
        /\ Len(f) = 0 \/ Full1(f)
        /\ Len(g) = 0 \/ Full2(g, back)
  <2> HIDE DEF lk, mn, Full1, Full2
  <2> QED
    BY <1>2, <1>3 DEF ValidateScript, For, lk, mn
<1> DEFINE sc == f \o g
<1> HIDE DEF lk, mn
<1>5. /\ sc \in Seq(Steps) /\ Len(f) \in Nat /\ Len(g) \in Nat /\ Len(sc) = Len(f) + Len(g)
      /\ \A j \in 1 .. Len(f) : sc[j] = f[j]
      /\ \A j \in 1 .. Len(g) : sc[Len(f) + j] = g[j]
  BY ConcatAt
<1> HIDE DEF sc
<1>6. ASSUME Full1(f) PROVE Validates(sc, 0, "lookup", 0)
  <2>1. sc[1] = f[1] /\ sc[2] = f[2] /\ sc[3] = f[3] /\ sc[4] = f[4] /\ Len(sc) >= 4
    BY <1>5, <1>6
  <2> QED
    BY <1>5, <1>6, <2>1 DEF Validates
<1>7. ASSUME Full2(g, back)
      PROVE  /\ Validates(sc, Len(f) + 1, "maintain", back) /\ Len(sc) = Len(f) + 5 + back
             /\ sc[Len(f) + 1] = Instr("resolve", 0)
  <2>1. PICK n \in Nat : n = Len(f)
    BY <1>5
  <2>2. \A j \in 1 .. 5 + back : sc[n + j] = g[j]
    BY <1>5, <1>7, <2>1
  <2>3. /\ sc[n + 1] = g[1] /\ sc[n + 2] = g[2] /\ sc[n + 3] = g[3]
        /\ back = 1 => sc[n + 4] = g[4]
        /\ sc[n + (4 + back)] = g[4 + back] /\ sc[n + (5 + back)] = g[5 + back]
        /\ Len(sc) = n + 5 + back
    <3>1. /\ 1 \in 1 .. 5 + back /\ 2 \in 1 .. 5 + back /\ 3 \in 1 .. 5 + back
          /\ (back = 1 => 4 \in 1 .. 5 + back)
          /\ 4 + back \in 1 .. 5 + back /\ 5 + back \in 1 .. 5 + back
      OBVIOUS
    <3>2. Len(sc) = n + 5 + back
      BY <1>5, <1>7, <2>1
    <3> QED
      BY <2>2, <3>1, <3>2
  <2>4. /\ (n + 1) + 1 = n + 2 /\ (n + 1) + 2 = n + 3 /\ (n + 1) + 3 = n + 4
        /\ (n + 1) + 3 + back = n + (4 + back) /\ (n + 1) + 4 + back = n + (5 + back)
        /\ (n + 1) + 4 + back <= n + 5 + back /\ n + 1 \in Nat
    OBVIOUS
  <2> QED
    BY <1>7, <2>1, <2>3, <2>4 DEF Validates
<1>8. Seam(sc, Len(f))
  <2>1. CASE Len(g) = 0
    BY <1>5, <2>1 DEF Seam
  <2>2. CASE Full2(g, back)
    <3>1. Len(f) + 1 < Len(sc)
      BY <1>5, <1>7, <2>2
    <3> QED
      BY <1>7, <2>2, <3>1 DEF Seam
  <2> QED
    BY <1>4, <2>1, <2>2
<1>9. Seam(sc, 0)
  <2>1. CASE Full1(f)
    BY <1>6, <2>1 DEF Seam, Kernels
  <2> QED
    BY <1>4, <1>8, <2>1
<1>10. ASSUME NEW p \in Nat, NEW kernel \in Kernels, NEW b \in {0, 1},
              Validates(sc, p, kernel, b)
       PROVE  p + 4 + b = Len(f) \/ p + 4 + b = Len(sc)
  <2>1. /\ sc[p + 1].do = "upload" /\ p + 4 + b <= Len(sc)
        /\ b = 1 => sc[p + 3].do = "return"
        /\ b = 0 => sc[p + 3].do = "sync"
    BY <1>10 DEF Validates, Upload, CopyBack, Synchronize, Instr
  <2>2. CASE p < Len(f)
    <3>0. Full1(f)
      BY <1>4, <2>2
    <3>1. Full1(f) /\ p \in 0 .. 3
      BY <2>2, <3>0
    <3>2. p + 1 \in 1 .. Len(f)
      BY <3>1
    <3>3. f[p + 1].do = "upload"
      BY <1>5, <2>1, <3>2
    <3>4. p # 1 /\ p # 2 /\ p # 3
      BY <3>1, <3>3 DEF Upload, Instr, Synchronize, Kernel, Kernels
    <3>5. p = 0
      BY <3>1, <3>4
    <3>6. sc[3].do = "sync"
      BY <1>5, <3>1 DEF Synchronize, Instr
    <3>7. b = 0
      BY <2>1, <3>5, <3>6
    <3> QED
      BY <3>1, <3>5, <3>7
  <2>3. CASE ~ p < Len(f)
    <3>1. Full2(g, back)
      BY <1>4, <1>5, <2>1, <2>3
    <3>2. PICK j \in 1 .. 5 + back : p + 1 = Len(f) + j
      <4>0. PICK m \in Nat, n \in Nat : m = Len(f) /\ n = Len(sc)
        BY <1>5
      <4>1. n = m + (5 + back) /\ p + 4 + b <= n /\ ~ p < m
        BY <1>5, <2>1, <2>3, <3>1, <4>0
      <4>2. (p + 1) - m \in 1 .. 5 + back /\ p + 1 = m + ((p + 1) - m)
        BY ONLY <4>0, <4>1, p \in Nat, b \in {0, 1}, back \in {0, 1}
      <4> QED
        BY <4>0, <4>2
    <3>3. g[j].do = "upload"
      BY <1>5, <2>1, <3>1, <3>2
    <3>4. j = 2
      <4>1. j # 1 /\ j # 3 /\ j # 4 + back /\ j # 5 + back /\ (back = 1 => j # 4)
        BY <3>1, <3>3 DEF Instr, Synchronize, Kernel, CopyBack
      <4> QED
        BY <4>1
    <3>5. p = Len(f) + 1 /\ p + 3 = Len(f) + 4
      BY <1>5, <3>2, <3>4
    <3>6. 4 \in 1 .. Len(g)
      BY <3>1
    <3>7. sc[p + 3] = g[4]
      BY <1>5, <3>5, <3>6
    <3>8. (back = 0 => g[4].do = "sync") /\ (back = 1 => g[4].do = "return")
      BY <3>1 DEF Synchronize, CopyBack, Instr
    <3>9. b = back
      BY <2>1, <3>7, <3>8
    <3> QED
      BY <1>5, <3>1, <3>5, <3>9
  <2> QED
    BY <2>2, <2>3
<1>11. Seam(sc, Len(sc))
  BY <1>5 DEF Seam
<1>12. \A p \in Nat, kernel \in Kernels, b \in {0, 1} :
         Validates(sc, p, kernel, b) => Seam(sc, p + 4 + b)
  BY <1>8, <1>10, <1>11
<1> QED
  BY <1>4, <1>5, <1>9, <1>12 DEF sc

-----------------------------------------------------------------------------
(* A core moves on.                                                         *)

\* The control of a kernel's step: only core c goes on, perhaps to its next request.
Moves(c) ==
  /\ \A d \in Cores \ {c} : req'[d] = req[d] /\ pc'[d] = pc[d]
  /\ req'[c] = req[c] \/ (req'[c] = req[c] + BlockNum /\ pc'[c] = "load")

LEMMA OtherRequests ==
  ASSUME NEW q \in Nat, NEW r \in Nat, r # q, CoreOf(r) = CoreOf(q),
         NEW n \in {q, q + BlockNum}
  PROVE  /\ r < n => r < q
         /\ n <= r => q < r
         /\ n = r => n # q
<1>1. CASE q < r
  <2>1. ASSUME r < q + BlockNum PROVE FALSE
    <3>1. q <= r /\ q % BlockNum = r % BlockNum
      BY <1>1 DEF CoreOf
    <3>2. q = r
      BY <2>1, <3>1, ModUnique
    <3> QED
      BY <1>1, <3>2
  <2> QED
    BY <1>1, <2>1
<1>2. CASE r < q
  BY <1>2
<1> QED
  BY <1>1, <1>2

LEMMA CoresMove ==
  ASSUME NEW loop \in {"alloc", "scan"}, CoresAt(loop), req \in [Cores -> Nat],
         NEW c \in Cores, req[c] \in Reqs, Moves(c), pc'[c] \in {"load", loop}
  PROVE  CoresAt(loop)'
<1>1. CoreOf(req[c] + BlockNum) = CoreOf(req[c])
  BY ModStride DEF CoreOf
<1>2. CoreOf(req[c]) = c
  BY DEF CoresAt
<1>3. CoreOf(req[c])' = CoreOf(req'[c])
  BY DEF CoreOf
<1>4. CoreOf(req'[c]) = c
  BY <1>1, <1>2 DEF Moves
<1>5. \A d \in Cores : /\ CoreOf(req'[d]) = d
                       /\ pc'[d] \in {"load", loop}
                       /\ pc'[d] = loop => req'[d] \in Reqs
  BY <1>4 DEF Moves, CoresAt
<1> QED
  BY <1>5 DEF CoresAt, CoreOf

-----------------------------------------------------------------------------
(* The lookup kernel.                                                       *)

LookupGoes ==
  /\ op = "lookup" /\ LookupInput(given.lookup)
  /\ TensorsIn /\ RegistersIn /\ LookupRuns

\* What position n, with token t, makes of state s.
Answers(r, n, t, s, w) ==
  /\ s \in LookupStates /\ s.head <= n /\ t \in Tokens
  /\ given.lookup.index[r][t] # NotFound => s.index[t] = given.lookup.index[r][t]
  /\ s.index[t] # NotFound =>
       /\ w.index = s.index /\ w.slotToIndex = s.slotToIndex /\ w.head = s.head
       /\ w.out = [s.out EXCEPT ![n] = s.index[t]]
  /\ s.index[t] = NotFound =>
       \E slot : /\ slot = given.lookup.freeSlots[r][s.head]
                 /\ w.index = [s.index EXCEPT ![t] = slot]
                 /\ w.slotToIndex = [s.slotToIndex EXCEPT ![slot] = t]
                 /\ w.head = s.head + 1
                 /\ w.out = [s.out EXCEPT ![n] = slot]

LEMMA LookupRowNext ==
  ASSUME LookupInput(given.lookup), NEW r \in Reqs, NEW n \in Positions
  PROVE  Answers(r, n, given.lookup.query[r][n], LookupRow(r, n), LookupRow(r, n + 1))
<1>0. PICK t, s : t = given.lookup.query[r][n] /\ s = LookupRow(r, n)
  OBVIOUS
<1>1. n \in 0 .. QueryCount - 1 /\ n \in 0 .. QueryCount
  BY DEF Positions
<1>2. /\ LookupRow(r, n + 1) = ExpectAt(given.lookup, r, s, n)
      /\ s \in LookupStates /\ LookupAt(given.lookup, r, n, s)
  BY <1>0, <1>1, LookupRowsAre DEF LookupRow
<1>3. t \in Tokens
  BY <1>0 DEF LookupInput
<1>4. s.head <= n /\ (given.lookup.index[r][t] # NotFound => s.index[t] = given.lookup.index[r][t])
  BY <1>2, <1>3 DEF LookupAt
<1>5. s.index \in [Tokens -> Slots \cup {NotFound}]
  BY <1>2 DEF LookupStates
<1> DEFINE slot == IF s.index[t] = NotFound THEN given.lookup.freeSlots[r][s.head] ELSE s.index[t]
           e == ExpectAt(given.lookup, r, s, n)
<1>6. e = [index |-> [s.index EXCEPT ![t] = slot],
           slotToIndex |-> IF s.index[t] = NotFound THEN [s.slotToIndex EXCEPT ![slot] = t]
                                                    ELSE s.slotToIndex,
           head |-> IF s.index[t] = NotFound THEN s.head + 1 ELSE s.head,
           out |-> [s.out EXCEPT ![n] = slot]]
  BY <1>0 DEF ExpectAt
<1> HIDE DEF e
<1>7. /\ e.index = [s.index EXCEPT ![t] = slot]
      /\ e.slotToIndex = IF s.index[t] = NotFound THEN [s.slotToIndex EXCEPT ![slot] = t]
                                                  ELSE s.slotToIndex
      /\ e.head = IF s.index[t] = NotFound THEN s.head + 1 ELSE s.head
      /\ e.out = [s.out EXCEPT ![n] = slot]
  BY <1>6
<1>8. LookupRow(r, n + 1) = e
  BY <1>2 DEF e
<1>9. ASSUME s.index[t] # NotFound PROVE Answers(r, n, t, s, LookupRow(r, n + 1))
  <2>1. slot = s.index[t]
    BY <1>9
  <2>2. e.index = s.index
    <3>1. PICK f \in [Tokens -> Slots \cup {NotFound}] : f = s.index
      BY <1>5
    <3>2. [f EXCEPT ![t] = f[t]] = f
      BY <1>3
    <3> QED
      BY <1>7, <2>1, <3>1, <3>2
  <2> QED
    BY <1>2, <1>3, <1>4, <1>7, <1>8, <1>9, <2>1, <2>2 DEF Answers
<1>10. ASSUME s.index[t] = NotFound PROVE Answers(r, n, t, s, LookupRow(r, n + 1))
  BY <1>2, <1>3, <1>4, <1>7, <1>8, <1>10 DEF Answers
<1>11. Answers(r, n, t, s, LookupRow(r, n + 1))
  BY <1>9, <1>10
<1> QED
  BY ONLY <1>0, <1>11

\* What a step of core c's on its request leaves alone.
LookupFrame(c) ==
  /\ Moves(c)
  /\ \A d \in Cores \ {c} : head'[d] = head[d] /\ pos'[d] = pos[d] /\ outTile'[d] = outTile[d]
  /\ \A r \in Reqs \ {req[c]} : /\ index'[r] = index[r] /\ slotToIndex'[r] = slotToIndex[r]
                                /\ freeHead'[r] = freeHead[r] /\ slotOut'[r] = slotOut[r]
  /\ UNCHANGED <<query, freeSlots, given>>

LEMMA LookupOthers ==
  ASSUME LookupRuns, req \in [Cores -> Nat], NEW c \in Cores, NEW q \in Reqs, q = req[c],
         LookupFrame(c), pc'[c] \in {"load", "alloc"}, LookupRequest(q)'
  PROVE  LookupRuns'
<1>1. CoresAt("alloc")'
  BY CoresMove DEF LookupRuns, LookupFrame
<1>2. ASSUME NEW r \in Reqs, r # q PROVE LookupRequest(r)'
  <2>1. PICK d \in Cores : d = CoreOf(r)
    BY CoreOfIsCore
  <2>2. LookupRequest(r)
    BY DEF LookupRuns
  <2>3. /\ index'[r] = index[r] /\ slotToIndex'[r] = slotToIndex[r]
        /\ freeHead'[r] = freeHead[r] /\ slotOut'[r] = slotOut[r]
        /\ query' = query /\ given' = given
    BY <1>2 DEF LookupFrame
  <2>4. \A n : LookupRow(r, n)' = LookupRow(r, n)
    BY <2>3 DEF LookupRow
  <2>5. CASE d # c
    <3>1. /\ req'[d] = req[d] /\ pc'[d] = pc[d] /\ head'[d] = head[d] /\ pos'[d] = pos[d]
          /\ outTile'[d] = outTile[d]
      BY <2>5 DEF LookupFrame, Moves
    <3>2. LookupDone(r) => LookupDone(r)'
      BY <2>3 DEF LookupDone, LookupRow
    <3>3. LookupAhead(r) => LookupAhead(r)'
      BY <2>3 DEF LookupAhead
    <3>4. LookupBusy(d, r) => LookupBusy(d, r)'
      BY <2>3, <3>1 DEF LookupBusy, LookupRow
    <3>5. CoreOf(r) = d /\ CoreOf(r)' = d
      BY <2>1 DEF CoreOf
    <3> QED
      BY <2>2, <3>1, <3>2, <3>3, <3>4, <3>5 DEF LookupRequest
  <2>6. CASE d = c
    <3>1. CoreOf(q) = c
      BY DEF LookupRuns, CoresAt
    <3>2. q \in Nat /\ r \in Nat /\ req'[c] \in {q, q + BlockNum} /\ (req'[c] = q + BlockNum => pc'[c] = "load" \/ req'[c] = q)
      BY DEF Reqs, LookupFrame, Moves
    <3>3. /\ r < req'[c] => r < q
          /\ req'[c] <= r => q < r
          /\ req'[c] = r => req'[c] # q
      <4>1. PICK n \in {q, q + BlockNum} : n = req'[c]
        BY <3>2
      <4>2. CoreOf(r) = CoreOf(q)
        BY <2>1, <2>6, <3>1
      <4>3. (r < n => r < q) /\ (n <= r => q < r) /\ (n = r => n # q)
        BY <1>2, <3>2, <4>2, OtherRequests
      <4> QED
        BY <4>1, <4>3
    <3>4. LookupDone(r) => LookupDone(r)'
      BY <2>3 DEF LookupDone, LookupRow
    <3>5. LookupAhead(r) => LookupAhead(r)'
      BY <2>3 DEF LookupAhead
    <3>6. CoreOf(r) = c /\ CoreOf(r)' = c
      BY <2>1, <2>6 DEF CoreOf
    <3>7. (r < q => LookupDone(r)) /\ (q < r => LookupAhead(r))
      BY <2>2, <3>6 DEF LookupRequest
    <3>8. r < req'[c] => LookupDone(r)'
      BY <3>3, <3>4, <3>7
    <3>9. req'[c] < r \/ (req'[c] = r /\ pc'[c] = "load") => LookupAhead(r)'
      BY <3>2, <3>3, <3>5, <3>7
    <3>10. ~ (req'[c] = r /\ pc'[c] = "alloc")
      BY <3>2, <3>3
    <3> QED
      BY <3>6, <3>8, <3>9, <3>10 DEF LookupRequest
  <2> QED
    BY <2>5, <2>6
<1>3. query' = given'.lookup.query /\ freeSlots' = given'.lookup.freeSlots
  BY DEF LookupRuns, LookupFrame
<1> QED
  BY <1>1, <1>2, <1>3 DEF LookupRuns

LEMMA LookupLoadGoes ==
  ASSUME LookupGoes, NEW c \in Cores, LookupLoad(c), UNCHANGED given
  PROVE  TensorsIn' /\ RegistersIn' /\ LookupRuns'
<1>1. PICK q \in Reqs : q = req[c]
  BY DEF LookupGoes, RegistersIn, LookupLoad, AtLoad, Reqs
<1>2. /\ pc[c] = "load" /\ pc' = [pc EXCEPT ![c] = "alloc"] /\ req' = req
      /\ head' = [head EXCEPT ![c] = freeHead[q]] /\ pos' = [pos EXCEPT ![c] = 0]
      /\ outTile' = [outTile EXCEPT ![c] = Gather(q)] /\ protected' = protected
      /\ UNCHANGED <<index, slotToIndex, freeSlots, freeHead, query, slotOut>>
  BY <1>1 DEF LookupLoad, AtLoad, memory
<1>3. TensorsIn /\ RegistersIn /\ LookupInput(given.lookup)
  BY DEF LookupGoes
<1>4. CoreOf(q) = c /\ query = given.lookup.query /\ LookupAhead(q)
  <2>1. CoreOf(q) = c /\ LookupRequest(q) /\ query = given.lookup.query
    BY <1>1 DEF LookupGoes, LookupRuns, CoresAt
  <2> QED
    BY <1>1, <1>2, <2>1 DEF LookupRequest
<1>5. \A i \in Positions : query[q][i] \in Tokens /\ Gather(q)[i] = index[q][query[q][i]]
  BY <1>3 DEF TensorsIn, Gather
<1>6. Gather(q) \in [Positions -> Slots \cup {NotFound}]
  BY <1>3, <1>5 DEF TensorsIn, Gather
<1>7. TensorsIn'
  BY <1>2, <1>3 DEF TensorsIn
<1>8. RegistersIn'
  <2>1. freeHead[q] \in Nat
    BY <1>3 DEF TensorsIn
  <2> QED
    BY <1>2, <1>3, <1>6, <2>1 DEF RegistersIn
<1>9. /\ pc'[c] = "alloc" /\ head'[c] = freeHead[q] /\ pos'[c] = 0 /\ outTile'[c] = Gather(q)
  BY <1>2, <1>3 DEF RegistersIn
<1>10. LookupFrame(c)
  BY <1>2, <1>3 DEF LookupFrame, Moves, RegistersIn
<1>11. LookupRow(q, 0) = LookupStart(given.lookup, q)
  BY <1>3, LookupRowsAre DEF LookupRow
<1>12. LookupBusy(c, q)'
  <2>1. /\ LookupRow(q, 0).index = given.lookup.index[q]
        /\ LookupRow(q, 0).slotToIndex = given.lookup.slotToIndex[q]
        /\ LookupRow(q, 0).head = given.lookup.freeHead[q]
    BY <1>11 DEF LookupStart
  <2>2. \A n : LookupRow(q, n)' = LookupRow(q, n)
    BY DEF LookupRow
  <2>3. \A i \in Positions : ~ i < 0
    BY DEF Positions
  <2>4. \A i \in Positions : outTile'[c][i] = given.lookup.index[q][query[q][i]]
    BY <1>4, <1>5, <1>9 DEF LookupAhead
  <2>5. 0 \in 0 .. QueryCount
    OBVIOUS
  <2>6. index[q] = LookupRow(q, 0).index /\ slotToIndex[q] = LookupRow(q, 0).slotToIndex
        /\ head'[c] = LookupRow(q, 0).head
    BY <1>4, <1>9, <2>1 DEF LookupAhead
  <2> QED
    BY <1>2, <1>9, <2>3, <2>4, <2>5, <2>6 DEF LookupBusy, LookupRow
<1>13. LookupRequest(q)'
  <2>1. ~ q < q /\ CoreOf(q)' = c /\ req'[c] = q
    BY <1>1, <1>2, <1>4 DEF CoreOf, Reqs
  <2> QED
    BY <1>9, <1>12, <2>1 DEF LookupRequest
<1>14. LookupRuns'
  BY <1>1, <1>3, <1>9, <1>10, <1>13, LookupOthers DEF LookupGoes, RegistersIn
<1> QED
  BY <1>7, <1>8, <1>14

\* Core c in the middle of its request.
LookupMid(c, q, n) ==
  /\ q = req[c] /\ n = pos[c] /\ pc[c] = "alloc" /\ CoreOf(q) = c
  /\ query = given.lookup.query /\ freeSlots = given.lookup.freeSlots
  /\ LookupBusy(c, q)

LEMMA InLookup ==
  ASSUME LookupGoes, NEW c \in Cores, pc[c] = "alloc"
  PROVE  \E q \in Reqs, n \in 0 .. QueryCount : LookupMid(c, q, n)
<1>1. PICK q \in Reqs : q = req[c]
  BY DEF LookupGoes, LookupRuns, CoresAt
<1>2. CoreOf(q) = c /\ LookupRequest(q)
      /\ query = given.lookup.query /\ freeSlots = given.lookup.freeSlots
  BY <1>1 DEF LookupGoes, LookupRuns, CoresAt
<1>3. LookupBusy(c, q)
  BY <1>1, <1>2 DEF LookupRequest
<1>4. pos[c] \in 0 .. QueryCount
  BY <1>3 DEF LookupBusy
<1> QED
  BY <1>1, <1>2, <1>3, <1>4 DEF LookupMid

\* A step to the next position, with the reference's answer.
GoesOn(c, q, n, slot, s, w) ==
  /\ LookupMid(c, q, n) /\ AnswerPosition(c, slot)
  /\ s = LookupRow(q, n) /\ w = LookupRow(q, n + 1)
  /\ w.out = [s.out EXCEPT ![n] = slot]
  /\ index' = [index EXCEPT ![q] = w.index]
  /\ slotToIndex' = [slotToIndex EXCEPT ![q] = w.slotToIndex]
  /\ head' = [head EXCEPT ![c] = w.head]
  /\ given' = given

LEMMA LookupGoesOn ==
  ASSUME LookupGoes, NEW c \in Cores, NEW q \in Reqs, NEW n \in Positions,
         NEW slot \in Slots, NEW s, NEW w, GoesOn(c, q, n, slot, s, w)
  PROVE  TensorsIn' /\ RegistersIn' /\ LookupRuns'
<1>0. /\ LookupMid(c, q, n) /\ AnswerPosition(c, slot)
      /\ s = LookupRow(q, n) /\ w = LookupRow(q, n + 1)
      /\ w.out = [s.out EXCEPT ![n] = slot]
      /\ index' = [index EXCEPT ![q] = w.index]
      /\ slotToIndex' = [slotToIndex EXCEPT ![q] = w.slotToIndex]
      /\ head' = [head EXCEPT ![c] = w.head]
      /\ given' = given
  BY DEF GoesOn
<1>1. n \in 0 .. QueryCount - 1 /\ n + 1 \in 0 .. QueryCount /\ n \in 0 .. QueryCount /\ n \in Nat
  BY <1>0 DEF Positions
<1>2. TensorsIn /\ RegistersIn /\ LookupInput(given.lookup)
  BY <1>0 DEF LookupGoes
<1>3. w \in LookupStates /\ s \in LookupStates
  BY <1>0, <1>1, <1>2, LookupRowsAre DEF LookupRow
<1>4. /\ w.index \in [Tokens -> Slots \cup {NotFound}]
      /\ w.slotToIndex \in [Slots -> Nat \cup {NotFound}] /\ w.head \in Nat
      /\ s.out \in [Positions -> Slots \cup {NotFound}]
  <2>1. Tokens \cup {NotFound} \subseteq Nat \cup {NotFound}
    BY <1>0 DEF Tokens
  <2> QED
    BY <1>0, <1>3, <2>1 DEF LookupStates
<1>5. /\ q = req[c] /\ n = pos[c] /\ pc[c] = "alloc" /\ CoreOf(q) = c /\ LookupBusy(c, q)
      /\ query = given.lookup.query
  BY <1>0 DEF LookupMid
<1>6. /\ outTile' = [outTile EXCEPT ![c][n] = slot] /\ pos' = [pos EXCEPT ![c] = @ + 1]
      /\ UNCHANGED <<freeSlots, freeHead, query, slotOut, req, pc, protected>>
  BY <1>0, <1>5 DEF AnswerPosition
<1>7. TensorsIn'
  BY <1>0, <1>2, <1>4, <1>6 DEF TensorsIn
<1>8. RegistersIn'
  <2>1. outTile' \in [Cores -> [Positions -> Slots \cup {NotFound}]]
    BY <1>0, <1>2, <1>6 DEF RegistersIn
  <2>2. pos' \in [Cores -> Nat]
    BY <1>0, <1>2, <1>6 DEF RegistersIn
  <2>3. head' \in [Cores -> Nat]
    BY <1>0, <1>2, <1>4 DEF RegistersIn
  <2> QED
    BY <1>0, <1>2, <1>6, <2>1, <2>2, <2>3 DEF RegistersIn
<1>9. /\ pos'[c] = n + 1 /\ head'[c] = w.head
      /\ \A i \in Positions : outTile'[c][i] = IF i = n THEN slot ELSE outTile[c][i]
      /\ index'[q] = w.index /\ slotToIndex'[q] = w.slotToIndex
  BY <1>0, <1>2, <1>5, <1>6 DEF RegistersIn, TensorsIn
<1>10. LookupFrame(c)
  <2>1. \A d \in Cores \ {c} : head'[d] = head[d] /\ pos'[d] = pos[d] /\ outTile'[d] = outTile[d]
    BY <1>0, <1>2, <1>6 DEF RegistersIn
  <2>2. \A r \in Reqs \ {q} : index'[r] = index[r] /\ slotToIndex'[r] = slotToIndex[r]
    BY <1>0, <1>2 DEF TensorsIn
  <2> QED
    BY <1>0, <1>5, <1>6, <2>1, <2>2 DEF LookupFrame, Moves
<1>11. LookupBusy(c, q)'
  <2>1. ASSUME NEW i \in Positions
        PROVE  outTile'[c][i] = IF i < n + 1 THEN w.out[i]
                                ELSE given.lookup.index[q][query[q][i]]
    <3>1. i \in Nat
      BY <1>0 DEF Positions
    <3>2. outTile[c][i] = IF i < n THEN s.out[i] ELSE given.lookup.index[q][query[q][i]]
      BY <1>0, <1>5 DEF LookupBusy
    <3>3. w.out[i] = IF i = n THEN slot ELSE s.out[i]
      BY <1>0, <1>4
    <3>4. CASE i = n
      BY <1>0, <1>1, <1>9, <3>3, <3>4
    <3>5. CASE i # n
      <4>1. i < n + 1 <=> i < n
        BY <1>0, <1>1, <3>1, <3>5
      <4> QED
        BY <1>0, <1>9, <3>2, <3>3, <3>5, <4>1
    <3> QED
      BY <1>0, <3>4, <3>5
  <2>2. LookupRow(q, pos[c])' = w
    BY <1>0, <1>9 DEF LookupRow
  <2>3. /\ (pos[c] \in 0 .. QueryCount)'
        /\ (index[q] = LookupRow(q, pos[c]).index)'
        /\ (slotToIndex[q] = LookupRow(q, pos[c]).slotToIndex)'
        /\ (head[c] = LookupRow(q, pos[c]).head)'
    BY <1>0, <1>1, <1>9, <2>2
  <2>4. (\A i \in Positions :
           outTile[c][i] = IF i < pos[c] THEN LookupRow(q, pos[c]).out[i]
                           ELSE given.lookup.index[q][query[q][i]])'
    BY <1>0, <1>6, <1>9, <2>1, <2>2
  <2> QED
    BY <1>0, <2>3, <2>4 DEF LookupBusy
<1>12. LookupRequest(q)'
  <2>1. ~ q < q /\ CoreOf(q)' = c /\ req'[c] = q /\ pc'[c] = "alloc"
    BY <1>0, <1>5, <1>6 DEF CoreOf, Reqs
  <2> QED
    BY <1>0, <1>11, <2>1 DEF LookupRequest
<1>13. LookupRuns'
  <2>1. pc'[c] \in {"load", "alloc"}
    BY <1>0, <1>5, <1>6
  <2> QED
    BY <1>0, <1>2, <1>5, <1>10, <1>12, <2>1, LookupOthers DEF LookupGoes, RegistersIn
<1> QED
  BY <1>0, <1>7, <1>8, <1>13

LEMMA LookupKnownGoes ==
  ASSUME LookupGoes, NEW c \in Cores, UNCHANGED given, LookupHit(c) \/ LookupRepeatedMiss(c)
  PROVE  TensorsIn' /\ RegistersIn' /\ LookupRuns'
<1>1. PICK q \in Reqs, n \in 0 .. QueryCount : LookupMid(c, q, n)
  BY InLookup DEF LookupHit, LookupRepeatedMiss, AtQuery
<1>2. /\ q = req[c] /\ n = pos[c] /\ LookupBusy(c, q)
      /\ query = given.lookup.query /\ n \in Positions
  BY <1>1 DEF LookupMid, LookupHit, LookupRepeatedMiss, AtQuery, Positions
<1>3. TensorsIn /\ RegistersIn /\ LookupInput(given.lookup)
  BY DEF LookupGoes
<1>4. PICK t, s, w : t = query[q][n] /\ s = LookupRow(q, n) /\ w = LookupRow(q, n + 1)
  OBVIOUS
<1>5. /\ s \in LookupStates /\ t \in Tokens
      /\ given.lookup.index[q][t] # NotFound => s.index[t] = given.lookup.index[q][t]
      /\ s.index[t] # NotFound => /\ w.index = s.index /\ w.slotToIndex = s.slotToIndex
                                  /\ w.head = s.head
                                  /\ w.out = [s.out EXCEPT ![n] = s.index[t]]
  <2>1. t = given.lookup.query[q][n]
    BY <1>2, <1>4
  <2>2. Answers(q, n, t, s, w)
    BY <1>2, <1>3, <1>4, <2>1, LookupRowNext
  <2> QED
    BY ONLY <2>2 DEF Answers
<1>6. /\ index[q] = s.index /\ slotToIndex[q] = s.slotToIndex /\ head[c] = s.head
      /\ outTile[c][n] = given.lookup.index[q][t]
  <2>1. /\ index[q] = LookupRow(q, n).index /\ slotToIndex[q] = LookupRow(q, n).slotToIndex
        /\ head[c] = LookupRow(q, n).head
    BY <1>2 DEF LookupBusy
  <2>2. outTile[c][n] = IF n < n THEN LookupRow(q, n).out[n]
                        ELSE given.lookup.index[q][query[q][n]]
    BY <1>2 DEF LookupBusy
  <2>3. ~ n < n
    BY <1>2 DEF Positions
  <2> QED
    BY ONLY <1>4, <2>1, <2>2, <2>3
<1>7. s.index[t] # NotFound /\ AnswerPosition(c, s.index[t])
      /\ UNCHANGED <<index, slotToIndex, head>>
  <2>1. CASE LookupHit(c)
    BY <1>2, <1>5, <1>6, <2>1 DEF LookupHit
  <2>2. CASE LookupRepeatedMiss(c)
    <3>1. QueryToken(c) = t
      BY <1>2, <1>4 DEF QueryToken
    <3> QED
      BY <1>2, <1>6, <2>2, <3>1 DEF LookupRepeatedMiss
  <2> QED
    BY <2>1, <2>2
<1>8. PICK slot \in Slots : slot = s.index[t]
  BY <1>5, <1>7 DEF LookupStates
<1>9. w.out = [s.out EXCEPT ![n] = slot] /\ AnswerPosition(c, slot)
  BY <1>5, <1>7, <1>8
<1>10. /\ index' = [index EXCEPT ![q] = w.index]
       /\ slotToIndex' = [slotToIndex EXCEPT ![q] = w.slotToIndex]
       /\ head' = [head EXCEPT ![c] = w.head]
  BY <1>3, <1>5, <1>6, <1>7 DEF TensorsIn, RegistersIn
<1> QED
  <2>1. GoesOn(c, q, n, slot, s, w)
    BY <1>1, <1>4, <1>9, <1>10 DEF GoesOn
  <2> QED
    BY <1>2, <2>1, LookupGoesOn

LEMMA LookupAllocateGoes ==
  ASSUME LookupGoes, NEW c \in Cores, UNCHANGED given, LookupAllocate(c)
  PROVE  TensorsIn' /\ RegistersIn' /\ LookupRuns'
<1>1. PICK q \in Reqs, n \in 0 .. QueryCount : LookupMid(c, q, n)
  BY InLookup DEF LookupAllocate, AtQuery
<1>2. /\ q = req[c] /\ n = pos[c] /\ LookupBusy(c, q)
      /\ query = given.lookup.query /\ freeSlots = given.lookup.freeSlots /\ n \in Positions
  BY <1>1 DEF LookupMid, LookupAllocate, AtQuery, Positions
<1>3. TensorsIn /\ RegistersIn /\ LookupInput(given.lookup)
  BY DEF LookupGoes
<1>4. PICK t, s, w : t = query[q][n] /\ s = LookupRow(q, n) /\ w = LookupRow(q, n + 1)
  OBVIOUS
<1>5. /\ s \in LookupStates /\ t \in Tokens /\ s.head <= n
      /\ s.index[t] = NotFound =>
              \E slot : /\ slot = given.lookup.freeSlots[q][s.head]
                        /\ w.index = [s.index EXCEPT ![t] = slot]
                        /\ w.slotToIndex = [s.slotToIndex EXCEPT ![slot] = t]
                        /\ w.head = s.head + 1
                        /\ w.out = [s.out EXCEPT ![n] = slot]
  <2>1. t = given.lookup.query[q][n]
    BY <1>2, <1>4
  <2>2. Answers(q, n, t, s, w)
    BY <1>2, <1>3, <1>4, <2>1, LookupRowNext
  <2> QED
    BY ONLY <2>2 DEF Answers
<1>6. /\ index[q] = s.index /\ slotToIndex[q] = s.slotToIndex /\ head[c] = s.head
  BY <1>2, <1>4 DEF LookupBusy
<1>7. QueryToken(c) = t /\ s.index[t] = NotFound
  BY <1>2, <1>4, <1>6 DEF QueryToken, LookupAllocate
<1>8. s.head \in Nat /\ s.head < FreeCount /\ s.head \in FreeRow
  BY <1>2, <1>5 DEF LookupStates, Positions, FreeRow
<1>9. FreeEntry(q, s.head) = {freeSlots[q][s.head]}
  BY <1>8 DEF FreeEntry
<1>10. PICK slot \in Slots : slot = freeSlots[q][s.head]
  BY <1>3, <1>8 DEF TensorsIn
<1>11. /\ w.index = [s.index EXCEPT ![t] = slot]
       /\ w.slotToIndex = [s.slotToIndex EXCEPT ![slot] = t]
       /\ w.head = s.head + 1
       /\ w.out = [s.out EXCEPT ![n] = slot]
  BY <1>2, <1>5, <1>7, <1>10
<1>12. /\ index' = [index EXCEPT ![q][t] = slot]
       /\ slotToIndex' = [slotToIndex EXCEPT ![q][slot] = t]
       /\ AnswerPosition(c, slot)
       /\ head' = [head EXCEPT ![c] = @ + 1]
  BY <1>2, <1>6, <1>7, <1>9, <1>10 DEF LookupAllocate
<1>13. /\ index' = [index EXCEPT ![q] = w.index]
       /\ slotToIndex' = [slotToIndex EXCEPT ![q] = w.slotToIndex]
       /\ head' = [head EXCEPT ![c] = w.head]
  BY <1>3, <1>6, <1>11, <1>12 DEF TensorsIn, RegistersIn
<1> QED
  <2>1. GoesOn(c, q, n, slot, s, w)
    BY <1>1, <1>4, <1>11, <1>12, <1>13 DEF GoesOn
  <2> QED
    BY <1>2, <2>1, LookupGoesOn

LEMMA LookupStoreGoes ==
  ASSUME LookupGoes, NEW c \in Cores, UNCHANGED given, LookupStore(c)
  PROVE  TensorsIn' /\ RegistersIn' /\ LookupRuns'
<1>1. PICK q \in Reqs, n \in 0 .. QueryCount : LookupMid(c, q, n)
  BY InLookup DEF LookupStore
<1>2. /\ q = req[c] /\ n = pos[c] /\ LookupBusy(c, q) /\ n = QueryCount /\ CoreOf(q) = c
  BY <1>1 DEF LookupMid, LookupStore
<1>3. TensorsIn /\ RegistersIn /\ LookupInput(given.lookup)
  BY DEF LookupGoes
<1>4. PICK s : s = LookupRow(q, QueryCount)
  OBVIOUS
<1>5. s \in LookupStates
  BY <1>3, <1>4, LookupRowsAre DEF LookupRow
<1>6. /\ freeHead' = [freeHead EXCEPT ![q] = head[c]]
      /\ req' = [req EXCEPT ![c] = @ + BlockNum] /\ pc' = [pc EXCEPT ![c] = "load"]
      /\ UNCHANGED <<index, slotToIndex, freeSlots, query, head, pos, outTile, protected>>
  BY <1>2 DEF LookupStore, NextRequest, registers
<1>7. index[q] = s.index /\ slotToIndex[q] = s.slotToIndex /\ head[c] = s.head
  BY <1>2, <1>4 DEF LookupBusy
<1>8. outTile[c] = s.out
  <2>1. \A i \in Positions : outTile[c][i] = s.out[i]
    BY <1>2, <1>4 DEF LookupBusy, Positions
  <2>2. outTile[c] \in [Positions -> Slots \cup {NotFound}]
        /\ s.out \in [Positions -> Slots \cup {NotFound}]
    BY <1>3, <1>5 DEF RegistersIn, LookupStates
  <2> QED
    BY <2>1, <2>2
<1>9. PICK kept \in [Positions -> Slots \cup {NotFound}] :
        /\ slotOut' = [slotOut EXCEPT ![q] = kept]
        /\ \A i \in Positions : kept[i] # s.out[i] => Followed(q) /\ kept[i] = NotFound
  <2>1. PICK tile \in [Positions -> Slots \cup {NotFound}] : tile = outTile[c] /\ tile = s.out
    BY <1>3, <1>8 DEF RegistersIn
  <2>2. PICK lost \in IF Followed(q) THEN LostParts ELSE {{}} :
          slotOut' = [slotOut EXCEPT ![q] =
                        [i \in Positions |-> IF i \in lost THEN NotFound ELSE tile[i]]]
    BY <1>2, <2>1 DEF LookupStore
  <2>3. \A i \in Positions : i \in lost => Followed(q)
    BY <2>2
  <2> WITNESS [i \in Positions |-> IF i \in lost THEN NotFound ELSE tile[i]]
                \in [Positions -> Slots \cup {NotFound}]
  <2> QED
    BY <2>1, <2>2, <2>3
<1>10. TensorsIn' /\ RegistersIn'
  <2>1. head[c] \in Nat
    BY <1>3 DEF RegistersIn
  <2>2. TensorsIn'
    BY <1>3, <1>6, <1>9, <2>1 DEF TensorsIn
  <2>3. RegistersIn'
    BY <1>3, <1>6 DEF RegistersIn
  <2> QED
    BY <2>2, <2>3
<1>11. /\ slotOut'[q] = kept /\ freeHead'[q] = s.head /\ index'[q] = s.index
       /\ slotToIndex'[q] = s.slotToIndex /\ req'[c] = q + BlockNum /\ pc'[c] = "load"
  BY <1>2, <1>3, <1>6, <1>7, <1>9 DEF TensorsIn, RegistersIn
<1>12. LookupFrame(c)
  <2>1. \A d \in Cores \ {c} : req'[d] = req[d] /\ pc'[d] = pc[d]
    BY <1>3, <1>6 DEF RegistersIn
  <2>2. \A r \in Reqs \ {q} : freeHead'[r] = freeHead[r] /\ slotOut'[r] = slotOut[r]
    BY <1>3, <1>6, <1>9 DEF TensorsIn
  <2> QED
    BY <1>2, <1>6, <1>11, <2>1, <2>2 DEF LookupFrame, Moves
<1>13. LookupDone(q)'
  <2>1. LookupRow(q, QueryCount)' = s
    BY <1>4 DEF LookupRow
  <2> QED
    BY <1>11, <1>9, <2>1 DEF LookupDone
<1>14. LookupRequest(q)'
  <2>1. CoreOf(q)' = c /\ ~ req'[c] < q /\ req'[c] # q
    BY <1>2, <1>11 DEF CoreOf, Reqs
  <2> QED
    BY <1>13, <2>1 DEF LookupRequest
<1>15. LookupRuns'
  BY <1>2, <1>3, <1>11, <1>12, <1>14, LookupOthers DEF LookupGoes, RegistersIn
<1> QED
  BY <1>10, <1>15

LEMMA LookupStepGoes ==
  ASSUME LookupGoes, NEW c \in Cores, UNCHANGED given, LookupStep(c)
  PROVE  TensorsIn' /\ RegistersIn' /\ LookupRuns' /\ op' = op
<1>1. op' = op
  BY DEF LookupStep, LookupLoad, LookupHit, LookupRepeatedMiss, LookupAllocate, LookupStore,
         AnswerPosition
<1> QED
  BY <1>1, LookupLoadGoes, LookupKnownGoes, LookupAllocateGoes, LookupStoreGoes DEF LookupStep

-----------------------------------------------------------------------------
(* The maintain kernel.                                                     *)

MaintainGoes ==
  /\ op = "maintain" /\ MaintainGiven(given.maintain) /\ starts \in [Reqs -> Slots]
  /\ TensorsIn /\ RegistersIn /\ MaintainRuns

LEMMA NextSlotAt ==
  ASSUME NEW start \in [Reqs -> Slots], NEW r \in Reqs, NEW o \in Nat
  PROVE  NextSlot(SlotAt(start, r, o)) = SlotAt(start, r, o + 1)
<1>1. PICK x \in Nat : x = start[r] + o /\ x + 1 = start[r] + (o + 1)
  <2>1. start[r] \in Nat
    BY DEF Slots
  <2> QED
    BY <2>1
<1>2. SlotCount \in Nat \ {0}
  BY Sizes
<1>3. PICK d \in Nat, y \in 0 .. SlotCount - 1 :
        x = SlotCount * d + y /\ y = x % SlotCount
  BY <1>1, <1>2, DivMod
<1>4. PICK e \in Nat, z \in 0 .. SlotCount - 1 :
        x + 1 = SlotCount * e + z /\ z = (x + 1) % SlotCount
  <2>1. x + 1 \in Nat
    BY <1>1
  <2> QED
    BY <1>2, <2>1, DivMod
<1>5. CASE y + 1 = SlotCount
  <2>1. SlotCount * (d + 1) + 0 = SlotCount * e + z
    BY <1>2, <1>3, <1>4, <1>5
  <2>2. z = 0
    BY <1>2, <1>3, <1>4, <2>1, QuotientUnique
  <2> QED
    BY <1>1, <1>3, <1>4, <1>5, <2>2 DEF NextSlot, SlotAt
<1>6. CASE y + 1 # SlotCount
  <2>1. PICK v \in 0 .. SlotCount - 1 : v = y + 1
    BY <1>2, <1>6
  <2>2. SlotCount * d + v = SlotCount * e + z
    BY <1>2, <1>3, <1>4, <2>1
  <2>3. z = y + 1
    BY <1>2, <2>1, <2>2, QuotientUnique
  <2> QED
    BY <1>1, <1>3, <1>4, <1>6, <2>3 DEF NextSlot, SlotAt
<1> QED
  BY <1>5, <1>6

\* What passing a slot makes of state s.
Passes(r, slot, s, w) ==
  /\ s \in MaintainStates /\ w \in MaintainStates /\ slot \in Slots
  /\ Evicts(given.maintain, r, s, slot) =>
       /\ w.slotToIndex = [s.slotToIndex EXCEPT ![slot] = NotFound]
       /\ w.index = [s.index EXCEPT ![s.slotToIndex[slot]] = NotFound]
       /\ w.head = s.head - 1
       /\ w.freeSlots = [s.freeSlots EXCEPT ![s.head - 1] = slot]
  /\ ~ Evicts(given.maintain, r, s, slot) => w = s

LEMMA MaintainRowNext ==
  ASSUME MaintainGiven(given.maintain), starts \in [Reqs -> Slots],
         NEW r \in Reqs, NEW o \in 0 .. SlotCount - 1
  PROVE  Passes(r, SlotAt(starts, r, o), MaintainRow(r, o), MaintainRow(r, o + 1))
<1>1. PICK slot, s, w : slot = SlotAt(starts, r, o) /\ s = MaintainRow(r, o)
                        /\ w = MaintainRow(r, o + 1)
  OBVIOUS
<1>2. o \in Nat /\ o \in 0 .. SlotCount /\ o + 1 \in 0 .. SlotCount
  OBVIOUS
<1>3. slot \in Slots
  BY <1>1, <1>2, SlotAtIs
<1>4. s \in MaintainStates /\ w \in MaintainStates /\ w = ExpectScan(given.maintain, r, s, slot)
  BY <1>1, <1>2, MaintainRowsAre DEF MaintainRow
<1>5. w = IF Evicts(given.maintain, r, s, slot)
          THEN [slotToIndex |-> [s.slotToIndex EXCEPT ![slot] = NotFound],
                index |-> [s.index EXCEPT ![s.slotToIndex[slot]] = NotFound],
                head |-> s.head - 1,
                freeSlots |-> [s.freeSlots EXCEPT ![s.head - 1] = slot]]
          ELSE s
  BY <1>3, <1>4, ScanIs
<1>6. Passes(r, slot, s, w)
  BY <1>3, <1>4, <1>5 DEF Passes
<1> QED
  BY ONLY <1>1, <1>6

\* What a step of core c's on its request leaves alone.
MaintainFrame(c) ==
  /\ Moves(c)
  /\ \A d \in Cores \ {c} : head'[d] = head[d] /\ pos'[d] = pos[d] /\ protected'[d] = protected[d]
  /\ \A r \in Reqs \ {req[c]} : /\ index'[r] = index[r] /\ slotToIndex'[r] = slotToIndex[r]
                                /\ freeSlots'[r] = freeSlots[r] /\ freeHead'[r] = freeHead[r]
  /\ UNCHANGED <<slotOut, given, starts>>

LEMMA MaintainOthers ==
  ASSUME MaintainRuns, req \in [Cores -> Nat], NEW c \in Cores, NEW q \in Reqs, q = req[c],
         MaintainFrame(c), pc'[c] \in {"load", "scan"}, MaintainRequest(q)'
  PROVE  MaintainRuns'
<1>1. CoresAt("scan")'
  BY CoresMove DEF MaintainRuns, MaintainFrame
<1>2. ASSUME NEW r \in Reqs, r # q PROVE MaintainRequest(r)'
  <2>1. PICK d \in Cores : d = CoreOf(r)
    BY CoreOfIsCore
  <2>2. MaintainRequest(r)
    BY DEF MaintainRuns
  <2>3. /\ index'[r] = index[r] /\ slotToIndex'[r] = slotToIndex[r]
        /\ freeSlots'[r] = freeSlots[r] /\ freeHead'[r] = freeHead[r]
        /\ given' = given /\ starts' = starts
    BY <1>2 DEF MaintainFrame
  <2>4. MaintainDone(r) => MaintainDone(r)'
    BY <2>3 DEF MaintainDone, MaintainRow
  <2>5. MaintainAhead(r) => MaintainAhead(r)'
    BY <2>3 DEF MaintainAhead
  <2>6. CASE d # c
    <3>1. /\ req'[d] = req[d] /\ pc'[d] = pc[d] /\ head'[d] = head[d] /\ pos'[d] = pos[d]
          /\ protected'[d] = protected[d]
      BY <2>6 DEF MaintainFrame, Moves
    <3>2. ASSUME NEW o \in 0 .. SlotCount, MaintainBusyAt(d, r, o)
          PROVE  MaintainBusyAt(d, r, o)'
      BY <2>3, <3>1, <3>2 DEF MaintainBusyAt, MaintainRow
    <3>3. CoreOf(r) = d /\ CoreOf(r)' = d
      BY <2>1 DEF CoreOf
    <3> QED
      BY <2>2, <2>4, <2>5, <3>1, <3>2, <3>3 DEF MaintainRequest
  <2>7. CASE d = c
    <3>1. CoreOf(q) = c
      BY DEF MaintainRuns, CoresAt
    <3>2. q \in Nat /\ r \in Nat /\ req'[c] \in {q, q + BlockNum} /\ (req'[c] = q + BlockNum => pc'[c] = "load" \/ req'[c] = q)
      BY DEF Reqs, MaintainFrame, Moves
    <3>3. /\ r < req'[c] => r < q
          /\ req'[c] <= r => q < r
          /\ req'[c] = r => req'[c] # q
      <4>1. PICK n \in {q, q + BlockNum} : n = req'[c]
        BY <3>2
      <4>2. CoreOf(r) = CoreOf(q)
        BY <2>1, <2>7, <3>1
      <4>3. (r < n => r < q) /\ (n <= r => q < r) /\ (n = r => n # q)
        BY <1>2, <3>2, <4>2, OtherRequests
      <4> QED
        BY <4>1, <4>3
    <3>4. CoreOf(r) = c /\ CoreOf(r)' = c
      BY <2>1, <2>7 DEF CoreOf
    <3>5. (r < q => MaintainDone(r)) /\ (q < r => MaintainAhead(r))
      BY <2>2, <3>4 DEF MaintainRequest
    <3>6. r < req'[c] => MaintainDone(r)'
      BY <2>4, <3>3, <3>5
    <3>7. req'[c] < r \/ (req'[c] = r /\ pc'[c] = "load") => MaintainAhead(r)'
      BY <2>5, <3>2, <3>3, <3>5
    <3>8. ~ (req'[c] = r /\ pc'[c] = "scan")
      BY <3>2, <3>3
    <3> QED
      BY <3>4, <3>6, <3>7, <3>8 DEF MaintainRequest
  <2> QED
    BY <2>6, <2>7
<1>3. slotOut' = given'.maintain.last
  BY DEF MaintainRuns, MaintainFrame
<1> QED
  BY <1>1, <1>2, <1>3 DEF MaintainRuns

LEMMA AtMaintainLoad ==
  ASSUME MaintainGoes, NEW c \in Cores, AtLoad("maintain", c)
  PROVE  \E q \in Reqs : q = req[c] /\ CoreOf(q) = c /\ MaintainAhead(q)
<1>1. PICK q \in Reqs : q = req[c]
  BY DEF MaintainGoes, RegistersIn, AtLoad, Reqs
<1>2. CoreOf(q) = c /\ MaintainRequest(q)
  BY <1>1 DEF MaintainGoes, MaintainRuns, CoresAt
<1>3. MaintainAhead(q)
  BY <1>1, <1>2 DEF MaintainRequest, AtLoad
<1> QED
  BY <1>1, <1>2, <1>3

LEMMA MaintainStartRow ==
  ASSUME MaintainGoes, NEW q \in Reqs
  PROVE  /\ MaintainRow(q, 0).index = given.maintain.index[q]
         /\ MaintainRow(q, 0).slotToIndex = given.maintain.slotToIndex[q]
         /\ MaintainRow(q, 0).freeSlots = given.maintain.freeSlots[q]
         /\ MaintainRow(q, 0).head = given.maintain.freeHead[q]
<1>1. MaintainRow(q, 0) = MaintainStart(given.maintain, q)
  BY MaintainRowsAre DEF MaintainRow, MaintainGoes
<1> QED
  BY <1>1 DEF MaintainStart

\* A core is done with its request where its pool is full.
Refilled(c, q, o, s) ==
  /\ q = req[c] /\ CoreOf(q) = c /\ s = MaintainRow(q, o) /\ s.head = 0
  /\ index[q] = s.index /\ slotToIndex[q] = s.slotToIndex /\ freeSlots[q] = s.freeSlots
  /\ freeHead' = [freeHead EXCEPT ![q] = 0] /\ NextRequest(c)
  /\ UNCHANGED <<index, slotToIndex, freeSlots, query, slotOut, head, pos, outTile,
                 protected, given, starts>>

LEMMA MaintainRequestDone ==
  ASSUME MaintainGoes, NEW c \in Cores, NEW q \in Reqs, NEW o \in 0 .. SlotCount, NEW s,
         Refilled(c, q, o, s)
  PROVE  TensorsIn' /\ RegistersIn' /\ MaintainRuns'
<1>0. /\ q = req[c] /\ CoreOf(q) = c /\ s = MaintainRow(q, o) /\ s.head = 0
      /\ index[q] = s.index /\ slotToIndex[q] = s.slotToIndex /\ freeSlots[q] = s.freeSlots
      /\ freeHead' = [freeHead EXCEPT ![q] = 0] /\ NextRequest(c)
      /\ UNCHANGED <<index, slotToIndex, freeSlots, query, slotOut, head, pos, outTile,
                     protected, given, starts>>
  BY DEF Refilled
<1>1. TensorsIn /\ RegistersIn /\ MaintainGiven(given.maintain) /\ starts \in [Reqs -> Slots]
  BY DEF MaintainGoes
<1>2. req' = [req EXCEPT ![c] = @ + BlockNum] /\ pc' = [pc EXCEPT ![c] = "load"]
  BY <1>0 DEF NextRequest
<1>3. TensorsIn'
  BY <1>0, <1>1 DEF TensorsIn
<1>4. RegistersIn'
  BY <1>0, <1>1, <1>2 DEF RegistersIn
<1>5. freeHead'[q] = 0 /\ req'[c] = q + BlockNum /\ pc'[c] = "load"
  BY <1>0, <1>1, <1>2 DEF TensorsIn, RegistersIn
<1>6. MaintainFrame(c)
  <2>1. \A d \in Cores \ {c} : req'[d] = req[d] /\ pc'[d] = pc[d]
    BY <1>0, <1>1, <1>2 DEF RegistersIn
  <2>2. \A r \in Reqs \ {q} : freeHead'[r] = freeHead[r]
    BY <1>0, <1>1 DEF TensorsIn
  <2> QED
    BY <1>0, <1>5, <2>1, <2>2 DEF MaintainFrame, Moves
<1>7. MaintainRow(q, SlotCount) = s
  BY <1>0, <1>1, FullPoolStays DEF MaintainRow
<1>8. MaintainDone(q)'
  <2>1. MaintainRow(q, SlotCount)' = s
    BY <1>0, <1>7 DEF MaintainRow
  <2> QED
    BY <1>0, <1>5, <2>1 DEF MaintainDone
<1>9. MaintainRequest(q)'
  <2>1. CoreOf(q)' = c /\ ~ req'[c] < q /\ req'[c] # q
    BY <1>0, <1>5 DEF CoreOf, Reqs
  <2> QED
    BY <1>0, <1>8, <2>1 DEF MaintainRequest
<1>10. MaintainRuns'
  BY <1>0, <1>1, <1>5, <1>6, <1>9, MaintainOthers DEF MaintainGoes, RegistersIn
<1> QED
  BY <1>0, <1>3, <1>4, <1>10

LEMMA MaintainSkipGoes ==
  ASSUME MaintainGoes, NEW c \in Cores, UNCHANGED <<given, starts>>, MaintainSkip(c)
  PROVE  TensorsIn' /\ RegistersIn' /\ MaintainRuns'
<1>1. PICK q \in Reqs : q = req[c] /\ CoreOf(q) = c /\ MaintainAhead(q)
  BY AtMaintainLoad DEF MaintainSkip
<1>2. PICK s : s = MaintainRow(q, 0)
  OBVIOUS
<1>3. /\ index[q] = s.index /\ slotToIndex[q] = s.slotToIndex /\ freeSlots[q] = s.freeSlots
      /\ freeHead[q] = s.head
  BY <1>1, <1>2, MaintainStartRow DEF MaintainAhead
<1>4. freeHead[q] = 0 /\ NextRequest(c)
      /\ UNCHANGED <<index, slotToIndex, freeSlots, freeHead, query, slotOut, head, pos, outTile, protected>>
  BY <1>1 DEF MaintainSkip, memory, registers
<1>5. freeHead' = [freeHead EXCEPT ![q] = 0]
  BY <1>4 DEF MaintainGoes, TensorsIn
<1>6. 0 \in 0 .. SlotCount
  OBVIOUS
<1> QED
  <2>1. Refilled(c, q, 0, s)
    BY <1>1, <1>2, <1>3, <1>4, <1>5 DEF Refilled
  <2> QED
    BY <1>6, <2>1, MaintainRequestDone

LEMMA MaintainLoadGoes ==
  ASSUME MaintainGoes, NEW c \in Cores, UNCHANGED <<given, starts>>, MaintainLoad(c),
         AfterMarking(c) = "scan", pos'[c] = starts[req[c]]
  PROVE  TensorsIn' /\ RegistersIn' /\ MaintainRuns'
<1>1. PICK q \in Reqs : q = req[c] /\ CoreOf(q) = c /\ MaintainAhead(q)
  BY AtMaintainLoad DEF MaintainLoad
<1>2. PICK start \in Slots :
      /\ pc[c] = "load" /\ head' = [head EXCEPT ![c] = freeHead[q]]
      /\ protected' = [protected EXCEPT ![c] = MarkProtected(c)]
      /\ pos' = [pos EXCEPT ![c] = start] /\ pc' = [pc EXCEPT ![c] = "scan"] /\ req' = req
      /\ UNCHANGED <<index, slotToIndex, freeSlots, freeHead, query, slotOut, outTile>>
  BY <1>1 DEF MaintainLoad, AtLoad, memory
<1>3. TensorsIn /\ RegistersIn /\ MaintainGiven(given.maintain) /\ starts \in [Reqs -> Slots]
      /\ slotOut = given.maintain.last
  BY DEF MaintainGoes, MaintainRuns
<1>4. MarkProtected(c) = Kept(given.maintain, q) /\ MarkProtected(c) \in SUBSET (Slots \cup {NotFound})
  BY <1>1, <1>3 DEF MarkProtected, Kept, TensorsIn
<1>5. TensorsIn'
  BY <1>2, <1>3 DEF TensorsIn
<1>6. RegistersIn'
  <2>1. freeHead[q] \in Nat /\ start \in Nat
    BY <1>3 DEF TensorsIn, Slots
  <2> QED
    BY <1>2, <1>3, <1>4, <2>1 DEF RegistersIn
<1>7. /\ pc'[c] = "scan" /\ head'[c] = freeHead[q] /\ pos'[c] = starts[q]
      /\ protected'[c] = Kept(given.maintain, q)
  BY <1>1, <1>2, <1>3, <1>4 DEF RegistersIn
<1>8. MaintainFrame(c)
  BY <1>2, <1>3 DEF MaintainFrame, Moves, RegistersIn
<1>9. SlotAt(starts, q, 0) = starts[q]
  <2>1. PICK x \in Slots : x = starts[q]
    BY <1>3
  <2>2. (x + 0) % SlotCount = x
    BY DEF Slots
  <2> QED
    BY <2>1, <2>2 DEF SlotAt
<1>10. MaintainBusyAt(c, q, 0)'
  <2>1. MaintainRow(q, 0)' = MaintainRow(q, 0) /\ SlotAt(starts, q, 0)' = SlotAt(starts, q, 0)
        /\ Kept(given.maintain, q)' = Kept(given.maintain, q)
    BY DEF MaintainRow, SlotAt, Kept
  <2> QED
    BY <1>1, <1>2, <1>7, <1>9, <2>1, MaintainStartRow DEF MaintainBusyAt, MaintainAhead
<1>11. MaintainRequest(q)'
  <2>1. ~ q < q /\ CoreOf(q)' = c /\ req'[c] = q /\ 0 \in 0 .. SlotCount
    BY <1>1, <1>2 DEF CoreOf, Reqs
  <2> QED
    BY <1>7, <1>10, <2>1 DEF MaintainRequest
<1>12. MaintainRuns'
  BY <1>1, <1>3, <1>7, <1>8, <1>11, MaintainOthers DEF MaintainGoes, RegistersIn
<1> QED
  BY <1>5, <1>6, <1>12

\* Core c in the middle of its request, o slots on.
MaintainMid(c, q, o, s) ==
  /\ q = req[c] /\ pc[c] = "scan" /\ CoreOf(q) = c
  /\ s = MaintainRow(q, o) /\ s \in MaintainStates /\ MaintainBusyAt(c, q, o)
  /\ o = SlotCount => s.head = 0

LEMMA InMaintain ==
  ASSUME MaintainGoes, NEW c \in Cores, pc[c] = "scan"
  PROVE  \E q \in Reqs, o \in 0 .. SlotCount, s \in MaintainStates : MaintainMid(c, q, o, s)
<1>1. PICK q \in Reqs : q = req[c] /\ CoreOf(q) = c
  BY DEF MaintainGoes, MaintainRuns, CoresAt
<1>2. MaintainRequest(q) /\ MaintainGiven(given.maintain) /\ starts \in [Reqs -> Slots]
  BY DEF MaintainGoes, MaintainRuns
<1>3. PICK o \in 0 .. SlotCount : MaintainBusyAt(c, q, o)
  BY <1>1, <1>2 DEF MaintainRequest
<1>4. PICK s : s = MaintainRow(q, o)
  OBVIOUS
<1>5. s \in MaintainStates /\ MaintainAt(given.maintain, starts, q, o, s)
  BY <1>2, <1>4, MaintainRowsAre DEF MaintainRow
<1>6. o = SlotCount => s.head = 0
  BY <1>2, <1>5, OneTurnIsEnough
<1> QED
  BY <1>1, <1>3, <1>4, <1>5, <1>6 DEF MaintainMid

LEMMA MaintainStoreGoes ==
  ASSUME MaintainGoes, NEW c \in Cores, UNCHANGED <<given, starts>>, MaintainStore(c)
  PROVE  TensorsIn' /\ RegistersIn' /\ MaintainRuns'
<1>1. PICK q \in Reqs, o \in 0 .. SlotCount, s \in MaintainStates : MaintainMid(c, q, o, s)
  BY InMaintain DEF MaintainStore
<1>2. /\ q = req[c] /\ CoreOf(q) = c /\ s = MaintainRow(q, o) /\ s \in MaintainStates
      /\ index[q] = s.index /\ slotToIndex[q] = s.slotToIndex /\ freeSlots[q] = s.freeSlots
      /\ head[c] = s.head
  BY <1>1 DEF MaintainMid, MaintainBusyAt
<1>3. /\ freeHead' = [freeHead EXCEPT ![q] = head[c]] /\ NextRequest(c) /\ head[c] <= 0
      /\ UNCHANGED <<index, slotToIndex, freeSlots, query, slotOut, head, pos, outTile, protected>>
  BY <1>2 DEF MaintainStore, registers
<1>4. s.head = 0 /\ head[c] = 0
  BY <1>2, <1>3 DEF MaintainStates
<1>5. Refilled(c, q, o, s)
  BY <1>2, <1>3, <1>4 DEF Refilled
<1> QED
  BY <1>5, MaintainRequestDone

\* A step to the next slot, with what the reference makes of it.
PassesOn(c, q, o, s, w) ==
  /\ MaintainMid(c, q, o, s) /\ o # SlotCount
  /\ w = MaintainRow(q, o + 1) /\ w \in MaintainStates
  /\ index' = [index EXCEPT ![q] = w.index]
  /\ slotToIndex' = [slotToIndex EXCEPT ![q] = w.slotToIndex]
  /\ freeSlots' = [freeSlots EXCEPT ![q] = w.freeSlots]
  /\ head' = [head EXCEPT ![c] = w.head]
  /\ pos' = [pos EXCEPT ![c] = NextSlot(@)]
  /\ UNCHANGED <<freeHead, query, slotOut, req, pc, outTile, protected, given, starts>>

LEMMA MaintainPassesOn ==
  ASSUME MaintainGoes, NEW c \in Cores, NEW q \in Reqs, NEW o \in 0 .. SlotCount,
         NEW s, NEW w, PassesOn(c, q, o, s, w)
  PROVE  TensorsIn' /\ RegistersIn' /\ MaintainRuns'
<1>1. TensorsIn /\ RegistersIn /\ MaintainGiven(given.maintain) /\ starts \in [Reqs -> Slots]
  BY DEF MaintainGoes
<1>2. /\ q = req[c] /\ pc[c] = "scan" /\ CoreOf(q) = c /\ MaintainBusyAt(c, q, o)
      /\ o \in Nat /\ o < SlotCount /\ o + 1 \in 0 .. SlotCount
  BY DEF PassesOn, MaintainMid
<1>3. /\ w = MaintainRow(q, o + 1)
      /\ index' = [index EXCEPT ![q] = w.index]
      /\ slotToIndex' = [slotToIndex EXCEPT ![q] = w.slotToIndex]
      /\ freeSlots' = [freeSlots EXCEPT ![q] = w.freeSlots]
      /\ head' = [head EXCEPT ![c] = w.head]
      /\ pos' = [pos EXCEPT ![c] = NextSlot(@)]
      /\ UNCHANGED <<freeHead, query, slotOut, req, pc, outTile, protected, given, starts>>
  BY DEF PassesOn
<1>4. /\ w.index \in [Tokens -> Slots \cup {NotFound}]
      /\ w.slotToIndex \in [Slots -> Nat \cup {NotFound}]
      /\ w.freeSlots \in [FreeRow -> Slots] /\ w.head \in Nat
  BY DEF PassesOn, MaintainStates
<1>5. pos[c] = SlotAt(starts, q, o) /\ NextSlot(pos[c]) = SlotAt(starts, q, o + 1)
      /\ NextSlot(pos[c]) \in Nat
  <2>1. pos[c] = SlotAt(starts, q, o)
    BY <1>2 DEF MaintainBusyAt
  <2>2. NextSlot(pos[c]) = SlotAt(starts, q, o + 1)
    BY <1>1, <1>2, <2>1, NextSlotAt
  <2>3. SlotAt(starts, q, o + 1) \in Slots
    BY <1>1, <1>2, SlotAtIs
  <2> QED
    BY <2>1, <2>2, <2>3 DEF Slots
<1>6. TensorsIn'
  BY <1>1, <1>3, <1>4 DEF TensorsIn
<1>7. RegistersIn'
  BY <1>1, <1>3, <1>4, <1>5 DEF RegistersIn
<1>8. /\ pos'[c] = SlotAt(starts, q, o + 1) /\ head'[c] = w.head
      /\ index'[q] = w.index /\ slotToIndex'[q] = w.slotToIndex /\ freeSlots'[q] = w.freeSlots
  BY <1>1, <1>3, <1>5 DEF RegistersIn, TensorsIn
<1>9. MaintainFrame(c)
  <2>1. \A d \in Cores \ {c} : head'[d] = head[d] /\ pos'[d] = pos[d]
    BY <1>1, <1>3 DEF RegistersIn
  <2>2. \A r \in Reqs \ {q} : index'[r] = index[r] /\ slotToIndex'[r] = slotToIndex[r]
                              /\ freeSlots'[r] = freeSlots[r]
    BY <1>1, <1>3 DEF TensorsIn
  <2> QED
    BY <1>2, <1>3, <2>1, <2>2 DEF MaintainFrame, Moves
<1>10. MaintainBusyAt(c, q, o + 1)'
  <2>1. MaintainRow(q, o + 1)' = w /\ SlotAt(starts, q, o + 1)' = SlotAt(starts, q, o + 1)
        /\ Kept(given.maintain, q)' = Kept(given.maintain, q)
    BY <1>3 DEF MaintainRow, SlotAt, Kept
  <2>2. protected'[c] = Kept(given.maintain, q)
    BY <1>2, <1>3 DEF MaintainBusyAt
  <2> QED
    BY <1>8, <2>1, <2>2 DEF MaintainBusyAt
<1>11. MaintainRequest(q)'
  <2>1. ~ q < q /\ CoreOf(q)' = c /\ req'[c] = q /\ pc'[c] = "scan"
    BY <1>2, <1>3 DEF CoreOf, Reqs
  <2> QED
    BY <1>2, <1>10, <2>1 DEF MaintainRequest
<1>12. MaintainRuns'
  <2>1. pc'[c] \in {"load", "scan"}
    BY <1>2, <1>3
  <2> QED
    BY <1>1, <1>2, <1>9, <1>11, <2>1, MaintainOthers DEF MaintainGoes, RegistersIn
<1> QED
  BY <1>6, <1>7, <1>12

LEMMA MaintainScanGoes ==
  ASSUME MaintainGoes, NEW c \in Cores, UNCHANGED <<given, starts>>,
         MaintainEvict(c) \/ MaintainPass(c)
  PROVE  TensorsIn' /\ RegistersIn' /\ MaintainRuns'
<1>1. PICK q \in Reqs, o \in 0 .. SlotCount, s \in MaintainStates : MaintainMid(c, q, o, s)
  BY InMaintain DEF MaintainEvict, MaintainPass, AtSlot
<1>2. /\ q = req[c] /\ s = MaintainRow(q, o)
      /\ index[q] = s.index /\ slotToIndex[q] = s.slotToIndex /\ freeSlots[q] = s.freeSlots
      /\ head[c] = s.head /\ protected[c] = Kept(given.maintain, q)
      /\ o < SlotCount => pos[c] = SlotAt(starts, q, o)
      /\ o = SlotCount => s.head = 0
  BY <1>1 DEF MaintainMid, MaintainBusyAt
<1>3. head[c] > 0
  BY DEF MaintainEvict, MaintainPass, AtSlot
<1>4. o # SlotCount /\ o < SlotCount /\ o \in 0 .. SlotCount - 1
  BY <1>2, <1>3
<1>5. TensorsIn /\ RegistersIn /\ MaintainGiven(given.maintain) /\ starts \in [Reqs -> Slots]
  BY DEF MaintainGoes
<1>6. PICK slot, w : slot = SlotAt(starts, q, o) /\ w = MaintainRow(q, o + 1)
  OBVIOUS
<1>7. Passes(q, slot, s, w)
  BY <1>2, <1>4, <1>5, <1>6, MaintainRowNext
<1>8. pos[c] = slot /\ slot \in Slots /\ w \in MaintainStates /\ s \in MaintainStates
  BY <1>2, <1>4, <1>6, <1>7 DEF Passes
<1>9. Evictable(c, slot) <=> Evicts(given.maintain, q, s, slot)
  BY <1>2, <1>3, <1>8 DEF Evictable, Evicts, Held
<1>10. CASE MaintainEvict(c)
  <2>1. /\ w.slotToIndex = [s.slotToIndex EXCEPT ![slot] = NotFound]
        /\ w.index = [s.index EXCEPT ![s.slotToIndex[slot]] = NotFound]
        /\ w.head = s.head - 1
        /\ w.freeSlots = [s.freeSlots EXCEPT ![s.head - 1] = slot]
    BY <1>7, <1>8, <1>9, <1>10 DEF Passes, MaintainEvict
  <2>2. /\ slotToIndex' = [slotToIndex EXCEPT ![q][slot] = NotFound]
        /\ index' = [index EXCEPT ![q][s.slotToIndex[slot]] = NotFound]
        /\ head' = [head EXCEPT ![c] = @ - 1]
        /\ freeSlots' = [freeSlots EXCEPT ![q][s.head - 1] = slot]
        /\ pos' = [pos EXCEPT ![c] = NextSlot(@)]
        /\ UNCHANGED <<freeHead, query, slotOut, req, pc, outTile, protected>>
    BY <1>2, <1>8, <1>10 DEF MaintainEvict
  <2>3. /\ index' = [index EXCEPT ![q] = w.index]
        /\ slotToIndex' = [slotToIndex EXCEPT ![q] = w.slotToIndex]
        /\ freeSlots' = [freeSlots EXCEPT ![q] = w.freeSlots]
        /\ head' = [head EXCEPT ![c] = w.head]
    BY <1>2, <1>5, <2>1, <2>2 DEF TensorsIn, RegistersIn
  <2>4. PassesOn(c, q, o, s, w)
    BY <1>1, <1>4, <1>6, <1>8, <2>2, <2>3 DEF PassesOn
  <2> QED
    BY <2>4, MaintainPassesOn
<1>11. CASE MaintainPass(c)
  <2>1. w = s
    BY <1>7, <1>8, <1>9, <1>11 DEF Passes, MaintainPass
  <2>2. /\ pos' = [pos EXCEPT ![c] = NextSlot(@)]
        /\ UNCHANGED <<index, slotToIndex, freeSlots, freeHead, query, slotOut, req, pc,
                       head, outTile, protected>>
    BY <1>11 DEF MaintainPass, memory
  <2>3. /\ index' = [index EXCEPT ![q] = w.index]
        /\ slotToIndex' = [slotToIndex EXCEPT ![q] = w.slotToIndex]
        /\ freeSlots' = [freeSlots EXCEPT ![q] = w.freeSlots]
        /\ head' = [head EXCEPT ![c] = w.head]
    BY <1>2, <1>5, <2>1, <2>2 DEF TensorsIn, RegistersIn
  <2>4. PassesOn(c, q, o, s, w)
    BY <1>1, <1>4, <1>6, <1>8, <2>2, <2>3 DEF PassesOn
  <2> QED
    BY <2>4, MaintainPassesOn
<1> QED
  BY <1>10, <1>11

LEMMA MaintainStepGoes ==
  ASSUME MaintainGoes, NEW c \in Cores, UNCHANGED <<given, starts>>, MaintainStep(c),
         pc[c] = "load" /\ pc'[c] = "scan" => pos'[c] = starts[req[c]]
  PROVE  TensorsIn' /\ RegistersIn' /\ MaintainRuns' /\ op' = op
<1>1. op' = op
  BY DEF MaintainStep, MaintainSkip, MaintainLoad, MaintainEvict, MaintainPass, MaintainStore
<1>2. ASSUME MaintainLoad(c) PROVE AfterMarking(c) = "scan"
  <2>1. ASSUME AtLoad("maintain", c) PROVE NotFound \notin MarkProtected(c)
    <3>1. PICK q \in Reqs : q = req[c]
      BY <2>1, AtMaintainLoad
    <3>2. \A i \in Positions : slotOut[q][i] \in Slots
      BY DEF MaintainGoes, MaintainRuns, MaintainGiven
    <3>3. NotFound \notin Slots
      BY DEF NotFound, Slots
    <3> QED
      BY <3>1, <3>2, <3>3 DEF MarkProtected
  <2> QED
    BY <1>2, <2>1 DEF MaintainLoad, AfterMarking
<1>3. ASSUME MaintainLoad(c) PROVE pos'[c] = starts[req[c]]
  BY <1>2, <1>3 DEF MaintainLoad, AtLoad, MaintainGoes, RegistersIn
<1> QED
  BY <1>1, <1>3, <1>2, MaintainSkipGoes, MaintainLoadGoes, MaintainScanGoes, MaintainStoreGoes
     DEF MaintainStep

-----------------------------------------------------------------------------
(* From launch to return.                                                   *)

LEMMA KernelStarts ==
  ASSUME TensorsIn, RegistersIn, \A c \in Cores : pc[c] = "load",
         NEW kernel \in Kernels, Loaded(kernel), Launch(kernel),
         UNCHANGED <<memory, given>>
  PROVE  TensorsIn' /\ RegistersIn' /\ Runs(kernel)' /\ op' = kernel
<1>1. /\ op' = kernel /\ req' = [c \in Cores |-> c]
      /\ UNCHANGED <<pc, head, pos, outTile, protected>>
      /\ UNCHANGED <<index, slotToIndex, freeSlots, freeHead, query, slotOut>>
  BY DEF Launch, registers, memory
<1>2. TensorsIn'
  BY <1>1 DEF TensorsIn
<1>3. RegistersIn'
  BY <1>1 DEF RegistersIn, Cores
<1>4. \A c \in Cores : CoreOf(c) = c
  BY ModSmall DEF CoreOf, Cores
<1>5. \A loop \in {"alloc", "scan"} : CoresAt(loop)'
  BY <1>1, <1>4 DEF CoresAt, CoreOf
<1>6. ASSUME NEW r \in Reqs
      PROVE  /\ CoreOf(r) \in Cores /\ ~ r < req'[CoreOf(r)]
             /\ pc'[CoreOf(r)] = "load"
             /\ req'[CoreOf(r)] < r \/ req'[CoreOf(r)] = r
  <2>1. CoreOf(r) \in Cores /\ CoreOf(r) <= r
    BY CoreOfIsCore
  <2>2. req'[CoreOf(r)] = CoreOf(r) /\ pc'[CoreOf(r)] = "load"
    BY <1>1, <2>1
  <2> QED
    BY <2>1, <2>2 DEF Cores, Reqs
<1>7. CASE kernel = "lookup"
  <2>1. ASSUME NEW r \in Reqs PROVE LookupRequest(r)'
    <3>1. LookupAhead(r)'
      BY <1>1, <1>7 DEF LookupAhead, Loaded
    <3> QED
      BY <1>6, <3>1 DEF LookupRequest, CoreOf
  <2>2. LookupRuns'
    BY <1>1, <1>5, <1>7, <2>1 DEF LookupRuns, Loaded
  <2> QED
    BY <1>1, <1>2, <1>3, <1>7, <2>2 DEF Runs
<1>8. CASE kernel = "maintain"
  <2>1. ASSUME NEW r \in Reqs PROVE MaintainRequest(r)'
    <3>1. MaintainAhead(r)'
      BY <1>1, <1>8 DEF MaintainAhead, Loaded
    <3> QED
      BY <1>6, <3>1 DEF MaintainRequest, CoreOf
  <2>2. MaintainRuns'
    BY <1>1, <1>5, <1>8, <2>1 DEF MaintainRuns, Loaded
  <2> QED
    BY <1>1, <1>2, <1>3, <1>8, <2>2 DEF Runs
<1> QED
  BY <1>7, <1>8 DEF Kernels

LEMMA LookupReturns ==
  ASSUME LookupGoes, expected.lookup = ExpectedLookup(given.lookup),
         \A c \in Cores : req[c] >= ReqNum
  PROVE  Matches("lookup") /\ \A c \in Cores : pc[c] = "load"
<1>1. \A c \in Cores : pc[c] = "load"
  BY DEF LookupGoes, LookupRuns, CoresAt, Reqs
<1>2. ASSUME NEW r \in Reqs PROVE LookupDone(r)
  <2>1. CoreOf(r) \in Cores
    BY CoreOfIsCore
  <2>2. r < req[CoreOf(r)]
    <3>1. req[CoreOf(r)] >= ReqNum /\ req[CoreOf(r)] \in Nat
      BY <2>1 DEF LookupGoes, RegistersIn
    <3> QED
      BY <3>1 DEF Reqs
  <2>3. LookupRequest(r)
    BY DEF LookupGoes, LookupRuns
  <2> QED
    BY <2>2, <2>3 DEF LookupRequest
<1> DEFINE row(r) == LookupRow(r, QueryCount)
<1>3. \A r \in Reqs : /\ index[r] = row(r).index /\ slotToIndex[r] = row(r).slotToIndex
                      /\ freeHead[r] = row(r).head
                      /\ \A i \in Positions : slotOut[r][i] # row(r).out[i] =>
                           Followed(r) /\ slotOut[r][i] = NotFound
  BY <1>2 DEF LookupDone
<1>4. ExpectedLookup(given.lookup) =
        [index       |-> [r \in Reqs |-> row(r).index],
         slotToIndex |-> [r \in Reqs |-> row(r).slotToIndex],
         freeSlots   |-> given.lookup.freeSlots,
         freeHead    |-> [r \in Reqs |-> row(r).head],
         last        |-> [r \in Reqs |-> row(r).out]]
  BY DEF ExpectedLookup, LookupRow
<1> HIDE DEF row
<1> DEFINE e == expected.lookup
<1>5. /\ e.index = [r \in Reqs |-> row(r).index]
      /\ e.slotToIndex = [r \in Reqs |-> row(r).slotToIndex]
      /\ e.freeHead = [r \in Reqs |-> row(r).head]
      /\ e.last = [r \in Reqs |-> row(r).out]
  BY <1>4
<1>6. index = e.index /\ slotToIndex = e.slotToIndex /\ freeHead = e.freeHead
  BY <1>3, <1>5 DEF LookupGoes, TensorsIn
<1>7. \A r \in Reqs, i \in Positions :
        slotOut[r][i] # e.last[r][i] => Followed(r) /\ slotOut[r][i] = NotFound
  BY <1>3, <1>5
<1> QED
  BY <1>1, <1>6, <1>7 DEF Matches

LEMMA MaintainReturns ==
  ASSUME MaintainGoes, expected.maintain = ExpectedMaintain(given.maintain, starts),
         \A c \in Cores : req[c] >= ReqNum
  PROVE  Matches("maintain") /\ \A c \in Cores : pc[c] = "load"
<1>1. \A c \in Cores : pc[c] = "load"
  BY DEF MaintainGoes, MaintainRuns, CoresAt, Reqs
<1>2. ASSUME NEW r \in Reqs PROVE MaintainDone(r)
  <2>1. CoreOf(r) \in Cores
    BY CoreOfIsCore
  <2>2. r < req[CoreOf(r)]
    <3>1. req[CoreOf(r)] >= ReqNum /\ req[CoreOf(r)] \in Nat
      BY <2>1 DEF MaintainGoes, RegistersIn
    <3> QED
      BY <3>1 DEF Reqs
  <2>3. MaintainRequest(r)
    BY DEF MaintainGoes, MaintainRuns
  <2> QED
    BY <2>2, <2>3 DEF MaintainRequest
<1> DEFINE row(r) == MaintainRow(r, SlotCount)
<1>3. \A r \in Reqs : /\ index[r] = row(r).index /\ slotToIndex[r] = row(r).slotToIndex
                      /\ freeSlots[r] = row(r).freeSlots /\ freeHead[r] = row(r).head
  BY <1>2 DEF MaintainDone
<1>4. ExpectedMaintain(given.maintain, starts) =
        [index       |-> [r \in Reqs |-> row(r).index],
         slotToIndex |-> [r \in Reqs |-> row(r).slotToIndex],
         freeSlots   |-> [r \in Reqs |-> row(r).freeSlots],
         freeHead    |-> [r \in Reqs |-> row(r).head],
         last        |-> given.maintain.last]
  BY DEF ExpectedMaintain, MaintainRow
<1> HIDE DEF row
<1> DEFINE e == expected.maintain
<1>5. /\ e.index = [r \in Reqs |-> row(r).index]
      /\ e.slotToIndex = [r \in Reqs |-> row(r).slotToIndex]
      /\ e.freeSlots = [r \in Reqs |-> row(r).freeSlots]
      /\ e.freeHead = [r \in Reqs |-> row(r).head]
  BY <1>4
<1>6. index = e.index /\ slotToIndex = e.slotToIndex /\ freeHead = e.freeHead /\ freeSlots = e.freeSlots
  BY <1>3, <1>5 DEF MaintainGoes, TensorsIn
<1> QED
  BY <1>1, <1>6 DEF Matches

\* A stretch of a sequence, taken from its front and grown at its end.
LEMMA Window ==
  ASSUME NEW S, NEW sc \in Seq(S), NEW k \in Nat \ {0}, NEW n \in 0 .. Len(sc), k <= n + 1
  PROVE  /\ SubSeq(sc, k, n) = << >> <=> k = n + 1
         /\ k <= n => /\ Head(SubSeq(sc, k, n)) = sc[k]
                      /\ Tail(SubSeq(sc, k, n)) = SubSeq(sc, k + 1, n)
         /\ n < Len(sc) => Append(SubSeq(sc, k, n), sc[n + 1]) = SubSeq(sc, k, n + 1)
<1>1. Len(sc) \in Nat /\ n \in Nat
  OBVIOUS
<1>2. \A i \in 1 .. Len(sc) : sc[i] \in S
  OBVIOUS
<1>3. ASSUME NEW m \in 0 .. Len(sc), k <= m + 1
      PROVE  /\ SubSeq(sc, k, m) \in Seq(S) /\ Len(SubSeq(sc, k, m)) = m + 1 - k
             /\ \A i \in 1 .. m + 1 - k : SubSeq(sc, k, m)[i] = sc[k + i - 1]
  <2>1. \A i \in k .. m : sc[i] \in S
    BY <1>1, <1>2
  <2>2. /\ SubSeq(sc, k, m) \in Seq(S)
        /\ Len(SubSeq(sc, k, m)) = IF k <= m THEN m - k + 1 ELSE 0
        /\ \A i \in 1 .. m - k + 1 : SubSeq(sc, k, m)[i] = sc[k + i - 1]
    BY <1>1, <2>1, SubSeqProperties
  <2> QED
    BY <1>1, <1>3, <2>2
<1>4. SubSeq(sc, k, n) = << >> <=> k = n + 1
  <2>1. PICK f \in Seq(S) : f = SubSeq(sc, k, n) /\ Len(f) = n + 1 - k
    BY <1>3
  <2>2. f = << >> <=> Len(f) = 0
    OBVIOUS
  <2> QED
    BY <1>1, <2>1, <2>2
<1>5. ASSUME k <= n
      PROVE  /\ Head(SubSeq(sc, k, n)) = sc[k]
             /\ Tail(SubSeq(sc, k, n)) = SubSeq(sc, k + 1, n)
  <2>1. k \in 1 .. Len(sc) /\ n \in k .. Len(sc)
    BY <1>1, <1>5
  <2> QED
    BY <2>1, HeadTailOfSubSeq
<1>6. ASSUME n < Len(sc)
      PROVE  Append(SubSeq(sc, k, n), sc[n + 1]) = SubSeq(sc, k, n + 1)
  <2>1. PICK m \in Nat : m = n + 1
    BY <1>1
  <2>2. m \in 0 .. Len(sc) /\ k <= m + 1 /\ sc[m] \in S
    BY <1>1, <1>2, <1>6, <2>1
  <2>3. PICK f \in Seq(S), x \in S :
          /\ f = SubSeq(sc, k, n) /\ Len(f) = n + 1 - k /\ x = sc[m]
          /\ \A i \in 1 .. n + 1 - k : f[i] = sc[k + i - 1]
    BY <1>3, <2>2
  <2>4. PICK g \in Seq(S) :
          /\ g = SubSeq(sc, k, m) /\ Len(g) = m + 1 - k
          /\ \A i \in 1 .. m + 1 - k : g[i] = sc[k + i - 1]
    BY <1>3, <2>2
  <2>5. /\ Append(f, x) \in Seq(S) /\ Len(Append(f, x)) = Len(f) + 1
        /\ \A i \in 1 .. Len(f) : Append(f, x)[i] = f[i]
        /\ Append(f, x)[Len(f) + 1] = x
    BY AppendProperties
  <2>6. Len(g) = Len(f) + 1 /\ k + Len(g) - 1 = m /\ Len(g) \in Nat /\ Len(f) \in Nat
    BY <1>1, <2>1, <2>3, <2>4
  <2>7. \A i \in 1 .. Len(g) : Append(f, x)[i] = g[i]
    <3>1. ASSUME NEW i \in 1 .. Len(f) PROVE Append(f, x)[i] = g[i]
      <4>1. i \in 1 .. n + 1 - k /\ i \in 1 .. m + 1 - k
        BY <1>1, <2>1, <2>3
      <4> QED
        BY <2>3, <2>4, <2>5, <4>1
    <3>2. Append(f, x)[Len(g)] = g[Len(g)]
      <4>1. Len(g) \in 1 .. m + 1 - k
        BY <1>1, <2>1, <2>4
      <4>2. g[Len(g)] = sc[k + Len(g) - 1]
        BY <2>4, <4>1
      <4> QED
        BY <2>3, <2>5, <2>6, <4>2
    <3>3. \A i \in 1 .. Len(g) : i \in 1 .. Len(f) \/ i = Len(g)
      BY <2>6
    <3> QED
      BY <3>1, <3>2, <3>3
  <2>8. Append(f, x) = g
    BY <2>4, <2>5, <2>6, <2>7, SeqEqual
  <2> QED
    BY <2>1, <2>3, <2>4, <2>8
<1> QED
  BY <1>4, <1>5, <1>6

LEMMA SectionSays ==
  ASSUME NEW sc, NEW p \in Nat, NEW kernel \in Kernels, NEW back \in {0, 1},
         Validates(sc, p, kernel, back)
  PROVE  /\ sc[p + 1] = Upload(kernel) /\ sc[p + 1].do = "upload"
         /\ sc[p + 2] = Kernel(kernel) /\ sc[p + 2].do = kernel
         /\ back = 1 => sc[p + 3].do = "return"
         /\ sc[p + (3 + back)].do = "sync"
         /\ sc[p + (4 + back)].do = "check" /\ sc[p + (4 + back)].on = kernel
         /\ kernel \notin {"upload", "return", "sync", "check"}
<1>1. p + 3 + back = p + (3 + back) /\ p + 4 + back = p + (4 + back)
  OBVIOUS
<1>2. kernel \notin {"upload", "return", "sync", "check"}
  BY DEF Kernels
<1> QED
  BY <1>1, <1>2 DEF Validates, Upload, Kernel, CopyBack, Synchronize, Instr

\* What the instructions of a section do.
LEMMA Doings ==
  ASSUME NEW sc, NEW p \in Nat, NEW kernel \in Kernels, NEW back \in {0, 1},
         Validates(sc, p, kernel, back), NEW j \in 1 .. 4 + back
  PROVE  /\ sc[p + j].do = "upload" <=> j = 1
         /\ sc[p + j].do \in Kernels <=> j = 2
         /\ sc[p + j].do = "return" <=> j = 3 /\ back = 1
         /\ sc[p + j].do = "sync" <=> j = 3 + back
         /\ sc[p + j].do = "check" <=> j = 4 + back
         /\ sc[p + j].do \in {"upload", "return", "sync", "check"} \cup Kernels
         /\ j = 1 => sc[p + j] = Upload(kernel)
         /\ j = 2 => sc[p + j] = Kernel(kernel)
         /\ j = 4 + back => sc[p + j].on = kernel
<1>1. /\ sc[p + 1] = Upload(kernel) /\ sc[p + 1].do = "upload"
      /\ sc[p + 2] = Kernel(kernel) /\ sc[p + 2].do = kernel
      /\ back = 1 => sc[p + 3].do = "return"
      /\ sc[p + (3 + back)].do = "sync"
      /\ sc[p + (4 + back)].do = "check" /\ sc[p + (4 + back)].on = kernel
  BY SectionSays
<1>2. kernel \notin {"upload", "return", "sync", "check"}
  BY DEF Kernels
<1>3. "upload" \notin Kernels /\ "return" \notin Kernels /\ "sync" \notin Kernels /\ "check" \notin Kernels
  BY DEF Kernels
<1>4. j = 1 \/ j = 2 \/ (j = 3 /\ back = 1) \/ j = 3 + back \/ j = 4 + back
  OBVIOUS
<1> QED
  BY <1>1, <1>2, <1>3, <1>4

\* Where a section waits, and where it compares.
LEMMA WaitsAndChecks ==
  ASSUME NEW sc, NEW p \in Nat, NEW kernel \in Kernels, NEW back \in {0, 1},
         Validates(sc, p, kernel, back)
  PROVE  \A n \in 1 .. 4 + back : /\ sc[p + n].do = "sync" <=> n = 3 + back
                                  /\ sc[p + n].do = "check" <=> n = 4 + back
<1> SUFFICES ASSUME NEW n \in 1 .. 4 + back
             PROVE  /\ sc[p + n].do = "sync" <=> n = 3 + back
                    /\ sc[p + n].do = "check" <=> n = 4 + back
  OBVIOUS
<1>1. /\ sc[p + 1].do = "upload" /\ sc[p + 2].do = kernel
      /\ back = 1 => sc[p + 3].do = "return"
      /\ sc[p + (3 + back)].do = "sync"
      /\ sc[p + (4 + back)].do = "check"
      /\ kernel \notin {"upload", "return", "sync", "check"}
  BY SectionSays
<1>2. n = 1 \/ n = 2 \/ (n = 3 /\ back = 1) \/ n = 3 + back \/ n = 4 + back
  OBVIOUS
<1> QED
  BY <1>1, <1>2

-----------------------------------------------------------------------------
(* The host's steps.                                                        *)

LEMMA ScriptOf ==
  ASSUME ValidateInv
  PROVE  \E sc \in Seq(Steps) :
           /\ sc = Script /\ InScript(sc) /\ Len(sc) \in Nat
           /\ \A p \in Nat, kernel \in Kernels, back \in {0, 1} :
                Validates(sc, p, kernel, back) => Seam(sc, p + 4 + back)
<1>1. Script = ValidateScript(opt) /\ InScript(Script)
  BY DEF ValidateInv, Asked, Script
<1>2. PICK sc : sc = Script
  OBVIOUS
<1>3. sc \in Seq(Steps) /\ InScript(sc)
      /\ \A p \in Nat, kernel \in Kernels, back \in {0, 1} :
           Validates(sc, p, kernel, back) => Seam(sc, p + 4 + back)
  BY <1>1, <1>2, ScriptShape
<1> QED
  BY <1>2, <1>3

LEMMA SeamDo ==
  ASSUME NEW sc, NEW p \in Nat, Seam(sc, p), p < Len(sc)
  PROVE  sc[p + 1].do \in {"upload", "resolve"}
<1>1. ASSUME NEW kernel, NEW back, Validates(sc, p, kernel, back) PROVE sc[p + 1].do = "upload"
  BY <1>1 DEF Validates, Upload, Instr
<1>2. \/ \E kernel \in Kernels, back \in {0, 1} : Validates(sc, p, kernel, back)
      \/ sc[p + 1] = Instr("resolve", 0)
  BY DEF Seam
<1> QED
  BY <1>1, <1>2 DEF Instr

\* The host has carried out j instructions of a section.
HostAt(p, kernel, back, j) ==
  /\ session.at = p + j
  /\ j = 3 + back => session.stream = << >> /\ op = "idle" /\ Matches(kernel)

\* The device is at instruction k of the section.
DeviceIn(sc, p, kernel, back, k) ==
  /\ OnStream(sc, p, back, k) /\ Reached(kernel, k)
  /\ op # "idle" => p + k <= session.at

LEMMA HostIn ==
  ASSUME NEW sc, NEW p \in Nat, NEW kernel \in Kernels, NEW back \in {0, 1},
         InSection(sc, p, kernel, back)
  PROVE  \E j \in 1 .. 3 + back :
           /\ HostAt(p, kernel, back, j)
           /\ j = 3 + back \/ \E k \in 1 .. 4 : DeviceIn(sc, p, kernel, back, k)
<1>1. CASE \E k \in 1 .. 4 : /\ OnStream(sc, p, back, k) /\ Reached(kernel, k)
                             /\ op # "idle" => p + k <= session.at
  <2>1. session.at \in p + 1 .. p + 2 + back
    BY <1>1 DEF OnStream
  <2>2. session.at - p \in 1 .. 3 + back /\ session.at = p + (session.at - p)
        /\ session.at - p < 3 + back
    BY <2>1
  <2>3. PICK j \in 1 .. 3 + back : session.at = p + j /\ j # 3 + back
    BY <2>2
  <2>4. HostAt(p, kernel, back, j) /\ \E k \in 1 .. 4 : DeviceIn(sc, p, kernel, back, k)
    BY <1>1, <2>3 DEF HostAt, DeviceIn
  <2> QED
    BY <2>4
<1>2. CASE /\ session.at = p + 3 + back /\ session.stream = << >>
           /\ op = "idle" /\ Matches(kernel)
  <2>1. 3 + back \in 1 .. 3 + back /\ p + 3 + back = p + (3 + back)
    OBVIOUS
  <2> QED
    BY <1>2, <2>1 DEF HostAt
<1> QED
  BY <1>1, <1>2 DEF InSection

\* What the host does leaves the device where it is.
LEMMA BelowKeeps ==
  ASSUME UnchangedBelow
  PROVE  /\ op' = op
         /\ \A kernel : Matches(kernel)' <=> Matches(kernel)
         /\ \A kernel, k : Reached(kernel, k)' <=> Reached(kernel, k)
<1>1. /\ UNCHANGED <<index, slotToIndex, freeSlots, freeHead, query, slotOut>>
      /\ UNCHANGED <<op, req, pc, head, pos, outTile, protected>>
      /\ UNCHANGED <<opt, given, expected, starts>>
  BY DEF UnchangedBelow, vars, memory, registers
<1>2. ASSUME NEW r PROVE LookupRequest(r)' = LookupRequest(r)
  BY <1>1 DEF LookupRequest, LookupDone, LookupAhead, LookupBusy, LookupRow, CoreOf, Followed
<1>3. ASSUME NEW r PROVE MaintainRequest(r)' = MaintainRequest(r)
  BY <1>1 DEF MaintainRequest, MaintainDone, MaintainAhead, MaintainBusyAt, MaintainRow,
              SlotAt, Kept, CoreOf
<1>4. ASSUME NEW loop PROVE CoresAt(loop)' = CoresAt(loop)
  BY <1>1 DEF CoresAt, CoreOf
<1>5. \A kernel : /\ Runs(kernel)' <=> Runs(kernel)
                  /\ Loaded(kernel)' <=> Loaded(kernel)
                  /\ Matches(kernel)' <=> Matches(kernel)
  BY <1>1, <1>2, <1>3, <1>4 DEF Runs, LookupRuns, MaintainRuns, Loaded, Matches, Followed
<1> QED
  BY <1>1, <1>5 DEF Reached

\* What is left to show of a step of the host's.
LEMMA HostKeeps ==
  ASSUME ValidateInv, UnchangedBelow, NEW sc, sc = Script,
         session' \in Sessions(Steps), NoneSpoilt', InScript(sc)'
  PROVE  ValidateInv'
<1>1. /\ UNCHANGED <<index, slotToIndex, freeSlots, freeHead, query, slotOut>>
      /\ UNCHANGED <<op, req, pc, head, pos, outTile, protected>>
      /\ UNCHANGED <<opt, given, expected, starts>>
  BY DEF UnchangedBelow, vars, memory, registers
<1>2. TensorsIn'
  BY <1>1 DEF ValidateInv, TensorsIn
<1>3. RegistersIn'
  BY <1>1 DEF ValidateInv, RegistersIn
<1>4. Asked'
  BY <1>1 DEF ValidateInv, Asked
<1>5. (op = "idle" => \A c \in Cores : pc[c] = "load")'
  BY <1>1 DEF ValidateInv
<1>6. Script' = sc
  BY <1>1 DEF Script
<1>7. InScript(Script)'
  BY <1>6 DEF InScript, Seam, InSection, OnStream
<1> QED
  BY <1>2, <1>3, <1>4, <1>5, <1>7 DEF ValidateInv

LEMMA EnqueueGoes == ASSUME ValidateInv, Enqueue PROVE ValidateInv'
<1>1. PICK sc \in Seq(Steps) : sc = Script /\ InScript(sc) /\ Len(sc) \in Nat
  BY ScriptOf
<1>2. /\ session \in Sessions(Steps) /\ session.at \in 0 .. Len(sc) /\ session.at < Len(sc)
      /\ session' = Enqueued(session, sc) /\ status' \in {"passed", status}
      /\ sc[session.at + 1].do \in {"upload", "snapshot", "restore", "lookup", "maintain",
                                    "return", "start", "stop"}
      /\ UnchangedBelow
  BY <1>1 DEF ValidateInv, InScript, Enqueue, Doing, At, Proceed
<1>3. PICK at \in Nat, stream \in Seq(Steps) : at = session.at /\ stream = session.stream
  BY <1>2 DEF Sessions
<1>4. /\ session' \in Sessions(Steps) /\ session'.at = at + 1
      /\ session'.stream = Append(stream, sc[at + 1])
  <2>1. session.at \in 0 .. Len(sc) - 1
    BY <1>1, <1>2
  <2> QED
    BY <1>2, <1>3, <2>1, HostFields
<1>5. /\ sc[at + 1].do \notin {"sync", "check", "resolve"}
      /\ at \in 0 .. Len(sc) /\ at + 1 \in 0 .. Len(sc) /\ at < Len(sc)
  BY <1>1, <1>2, <1>3
<1>6. op' = op /\ \A kernel, k : Reached(kernel, k)' <=> Reached(kernel, k)
  BY <1>2, BelowKeeps
<1>7. ASSUME op = "idle", stream = << >>, Seam(sc, at) PROVE InScript(sc)'
  <2>1. PICK kernel \in Kernels, back \in {0, 1} : Validates(sc, at, kernel, back)
    BY <1>5, <1>7 DEF Seam, Instr
  <2>2. session'.stream = SubSeq(sc, at + 1, at + 1)
    <3>1. at + 1 \in Nat \ {0} /\ at + 1 <= at + 1
      OBVIOUS
    <3>2. /\ SubSeq(sc, at + 1, at) = << >>
          /\ Append(SubSeq(sc, at + 1, at), sc[at + 1]) = SubSeq(sc, at + 1, at + 1)
      BY <1>5, <3>1, Window
    <3> QED
      BY <1>4, <1>7, <3>2
  <2>3. OnStream(sc, at, back, 1)'
    <3>1. at + 1 \in at + 1 .. at + 2 + back /\ at + 1 <= (at + 1) + 1
      OBVIOUS
    <3> QED
      BY <1>4, <2>2, <3>1 DEF OnStream
  <2>4. InSection(sc, at, kernel, back)'
    <3>1. Reached(kernel, 1)' /\ op' = "idle" /\ 1 \in 1 .. 4
      BY <1>6, <1>7 DEF Reached
    <3> QED
      BY <2>3, <3>1 DEF InSection
  <2> QED
    BY <1>4, <1>5, <2>1, <2>4 DEF InScript
<1>8. ASSUME NEW p \in 0 .. Len(sc), NEW kernel \in Kernels, NEW back \in {0, 1},
             Validates(sc, p, kernel, back), InSection(sc, p, kernel, back)
      PROVE  InScript(sc)'
  <2>0. p \in Nat
    BY <1>1
  <2>1. PICK j \in 1 .. 3 + back :
          /\ HostAt(p, kernel, back, j)
          /\ j = 3 + back \/ \E k \in 1 .. 4 : DeviceIn(sc, p, kernel, back, k)
    BY <1>8, <2>0, HostIn
  <2>2. j < 2 + back
    <3>1. j + 1 \in 1 .. 4 + back /\ p + (j + 1) = at + 1
      BY <1>3, <2>0, <2>1 DEF HostAt
    <3>2. PICK n \in 1 .. 4 + back : n = j + 1 /\ p + n = at + 1
      BY <3>1
    <3>3. /\ sc[p + n].do = "sync" <=> n = 3 + back
          /\ sc[p + n].do = "check" <=> n = 4 + back
      <4>1. Validates(sc, p, kernel, back)
        BY <1>8
      <4> QED
        BY ONLY <2>0, <4>1, n \in 1 .. 4 + back, kernel \in Kernels, back \in {0, 1},
           WaitsAndChecks
    <3>4. n # 3 + back /\ n # 4 + back
      BY <1>5, <3>2, <3>3
    <3> QED
      BY ONLY <3>2, <3>4, j \in 1 .. 3 + back, back \in {0, 1}
  <2>3. PICK k \in 1 .. 4 : /\ OnStream(sc, p, back, k) /\ Reached(kernel, k)
                            /\ op # "idle" => p + k <= at
    <3>1. j # 3 + back
      BY <2>2
    <3> QED
      BY <1>3, <2>1, <3>1 DEF DeviceIn
  <2>4. OnStream(sc, p, back, k)'
    <3>1. p + k <= at + 1 /\ stream = SubSeq(sc, p + k, at)
      BY <1>3, <2>3 DEF OnStream
    <3>2. p + k \in Nat \ {0}
      BY <2>0
    <3>3. Append(SubSeq(sc, p + k, at), sc[at + 1]) = SubSeq(sc, p + k, at + 1)
      BY <1>5, <3>1, <3>2, Window
    <3>4. at + 1 \in p + 1 .. p + 2 + back /\ p + k <= (at + 1) + 1
      <4>1. at = p + j
        BY <1>3, <2>1 DEF HostAt
      <4> QED
        BY ONLY <2>0, <2>2, <3>1, <4>1, j \in 1 .. 3 + back, back \in {0, 1}, k \in 1 .. 4
    <3> QED
      BY <1>4, <3>1, <3>3, <3>4 DEF OnStream
  <2>5. op' # "idle" => p + k <= session'.at
    BY <1>4, <1>6, <2>0, <2>3
  <2>6. InSection(sc, p, kernel, back)'
    BY <1>6, <2>3, <2>4, <2>5 DEF InSection
  <2> QED
    BY <1>4, <1>5, <1>8, <2>6 DEF InScript
<1>9. InScript(sc)'
  <2>1. \/ op = "idle" /\ stream = << >> /\ Seam(sc, at)
        \/ \E p \in 0 .. Len(sc), kernel \in Kernels, back \in {0, 1} :
             Validates(sc, p, kernel, back) /\ InSection(sc, p, kernel, back)
    BY <1>1, <1>3 DEF InScript
  <2> QED
    BY <1>7, <1>8, <2>1
<1>10. NoneSpoilt'
  BY <1>2 DEF ValidateInv, NoneSpoilt
<1> QED
  BY <1>1, <1>2, <1>4, <1>9, <1>10, HostKeeps

LEMMA WaitGoes == ASSUME ValidateInv, Wait PROVE ValidateInv'
<1>1. PICK sc \in Seq(Steps) : sc = Script /\ InScript(sc) /\ Len(sc) \in Nat
  BY ScriptOf
<1>2. /\ session \in Sessions(Steps) /\ session.at \in 0 .. Len(sc) /\ session.at < Len(sc)
      /\ session' = Passed(session) /\ status' \in {"passed", status}
      /\ sc[session.at + 1].do = "sync" /\ session.stream = << >>
      /\ UnchangedBelow
  BY <1>1 DEF ValidateInv, InScript, Wait, Doing, At, Proceed, Drained
<1>3. PICK at \in Nat : at = session.at
  BY <1>2
<1>4. session' \in Sessions(Steps) /\ session'.at = at + 1 /\ session'.stream = << >>
  <2>1. session.at \in 0 .. Len(sc) - 1
    BY <1>1, <1>2
  <2> QED
    BY <1>2, <1>3, <2>1, HostFields
<1>5. op' = op /\ \A kernel : Matches(kernel)' <=> Matches(kernel)
  BY <1>2, BelowKeeps
<1>6. ~ Seam(sc, at)
  BY <1>2, <1>3, SeamDo
<1>7. ASSUME NEW p \in 0 .. Len(sc), NEW kernel \in Kernels, NEW back \in {0, 1},
             Validates(sc, p, kernel, back), InSection(sc, p, kernel, back)
      PROVE  InScript(sc)'
  <2>0. p \in Nat
    BY <1>1
  <2>1. PICK j \in 1 .. 3 + back :
          /\ HostAt(p, kernel, back, j)
          /\ j = 3 + back \/ \E k \in 1 .. 4 : DeviceIn(sc, p, kernel, back, k)
    BY <1>7, <2>0, HostIn
  <2>2. j = 2 + back
    <3>1. j + 1 \in 1 .. 4 + back /\ p + (j + 1) = at + 1
      BY <1>3, <2>0, <2>1 DEF HostAt
    <3>2. PICK n \in 1 .. 4 + back : n = j + 1 /\ p + n = at + 1
      BY <3>1
    <3>3. sc[p + n].do = "sync" <=> n = 3 + back
      <4>1. Validates(sc, p, kernel, back)
        BY <1>7
      <4> QED
        BY ONLY <2>0, <4>1, n \in 1 .. 4 + back, kernel \in Kernels, back \in {0, 1},
           WaitsAndChecks
    <3>4. n = 3 + back
      BY <1>2, <1>3, <3>2, <3>3
    <3> QED
      BY ONLY <3>2, <3>4, j \in 1 .. 3 + back, back \in {0, 1}
  <2>3. PICK k \in 1 .. 4 : /\ OnStream(sc, p, back, k) /\ Reached(kernel, k)
                            /\ op # "idle" => p + k <= at
    <3>1. j # 3 + back
      BY <2>2
    <3> QED
      BY <1>3, <2>1, <3>1 DEF DeviceIn
  <2>4. p + k = at + 1
    <3>1. p + k <= at + 1 /\ SubSeq(sc, p + k, at) = << >>
      BY <1>2, <1>3, <2>3 DEF OnStream
    <3>2. p + k \in Nat \ {0} /\ at \in 0 .. Len(sc)
      BY <1>2, <1>3, <2>0
    <3> QED
      BY <3>1, <3>2, Window
  <2>5. op = "idle" /\ Matches(kernel)
    <3>1. k > 2 /\ ~ p + k <= at /\ k # 1 /\ k # 2
      BY <1>3, <2>0, <2>1, <2>2, <2>4 DEF HostAt
    <3> QED
      BY <2>3, <3>1 DEF Reached
  <2>6. session'.at = p + 3 + back
    BY <1>3, <1>4, <2>0, <2>1, <2>2 DEF HostAt
  <2>7. InSection(sc, p, kernel, back)'
    BY <1>4, <1>5, <2>5, <2>6 DEF InSection
  <2>8. session'.at \in 0 .. Len(sc)
    BY <1>2, <1>3, <1>4
  <2> QED
    BY <1>7, <2>7, <2>8 DEF InScript
<1>8. InScript(sc)'
  BY <1>1, <1>3, <1>6, <1>7 DEF InScript
<1>9. NoneSpoilt'
  BY <1>2 DEF ValidateInv, NoneSpoilt
<1> QED
  BY <1>1, <1>2, <1>4, <1>8, <1>9, HostKeeps

\* A script that ends leaves its place.
LEMMA EndGoes ==
  ASSUME ValidateInv, UnchangedBelow, NEW result, End(result),
         ReqNum <= BlockNum => result # "mismatch"
  PROVE  ValidateInv'
<1>1. PICK sc \in Seq(Steps) : sc = Script /\ InScript(sc)
  BY ScriptOf
<1>2. session' = session /\ status' = result
  BY DEF End
<1>3. /\ op' = op
      /\ \A kernel : Matches(kernel)' <=> Matches(kernel)
      /\ \A kernel, k : Reached(kernel, k)' <=> Reached(kernel, k)
  BY BelowKeeps
<1>4. ASSUME NEW p, NEW kernel, NEW back
      PROVE  InSection(sc, p, kernel, back)' <=> InSection(sc, p, kernel, back)
  BY <1>2, <1>3 DEF InSection, OnStream
<1>5. InScript(sc)'
  BY <1>1, <1>2, <1>3, <1>4 DEF InScript
<1>6. session' \in Sessions(Steps) /\ NoneSpoilt'
  BY <1>2 DEF ValidateInv, NoneSpoilt
<1> QED
  BY <1>1, <1>5, <1>6, HostKeeps

LEMMA ResolveGoes == ASSUME ValidateInv, ResolveMaintain PROVE ValidateInv'
<1>1. CASE End("raised") \/ End("skipped")
  BY <1>1, EndGoes DEF ResolveMaintain
<1>2. CASE Proceed(Passed(session))
  <2>1. PICK sc \in Seq(Steps) : sc = Script /\ InScript(sc) /\ Len(sc) \in Nat
    BY ScriptOf
  <2>2. /\ session \in Sessions(Steps) /\ session.at \in 0 .. Len(sc) /\ session.at < Len(sc)
        /\ session' = Passed(session) /\ status' \in {"passed", status}
        /\ sc[session.at + 1].do = "resolve" /\ UnchangedBelow
    BY <1>2, <2>1 DEF ValidateInv, InScript, ResolveMaintain, Doing, At, Proceed
  <2>3. PICK at \in Nat : at = session.at
    BY <2>2
  <2>4. /\ session' \in Sessions(Steps) /\ session'.at = at + 1
        /\ session'.stream = session.stream
    <3>1. session.at \in 0 .. Len(sc) - 1
      BY <2>1, <2>2
    <3> QED
      BY <2>2, <2>3, <3>1, HostFields
  <2>5. op' = op
    BY <2>2, BelowKeeps
  <2>6. op = "idle" /\ session.stream = << >> /\ Seam(sc, at)
    <3>1. ASSUME NEW p \in 0 .. Len(sc), NEW kernel \in Kernels, NEW back \in {0, 1},
                 Validates(sc, p, kernel, back), InSection(sc, p, kernel, back)
          PROVE  FALSE
      <4>1. p \in Nat
        BY <2>1
      <4>2. PICK j \in 1 .. 3 + back : HostAt(p, kernel, back, j)
        BY <3>1, <4>1, HostIn
      <4>3. j + 1 \in 1 .. 4 + back /\ p + (j + 1) = at + 1
        BY <2>3, <4>1, <4>2 DEF HostAt
      <4>4. sc[at + 1].do \in {"upload", "return", "sync", "check"} \cup Kernels
        BY <3>1, <4>1, <4>3, Doings
      <4> QED
        BY <2>2, <2>3, <4>4 DEF Kernels
    <3> QED
      BY <2>1, <2>3, <3>1 DEF InScript
  <2>7. Seam(sc, at + 1)
    <3>1. ASSUME NEW kernel, NEW back PROVE ~ Validates(sc, at, kernel, back)
      BY <2>2, <2>3 DEF Validates, Upload, Instr
    <3>2. \E back \in {0, 1} : Validates(sc, at + 1, "maintain", back)
      BY <2>2, <2>3, <2>6, <3>1 DEF Seam
    <3> QED
      BY <3>2 DEF Seam, Kernels
  <2>8. session'.at \in 0 .. Len(sc)
    BY <2>2, <2>3, <2>4
  <2>9. InScript(sc)'
    BY <2>4, <2>5, <2>6, <2>7, <2>8 DEF InScript
  <2>10. NoneSpoilt'
    BY <2>2 DEF ValidateInv, NoneSpoilt
  <2> QED
    BY <2>1, <2>2, <2>4, <2>9, <2>10, HostKeeps
<1> QED
  BY <1>1, <1>2 DEF ResolveMaintain, NoRunner

LEMMA MiscountGoes == ASSUME ValidateInv, WrapperMiscounts PROVE ValidateInv'
BY EndGoes DEF WrapperMiscounts

\* Where the script compares: the device is idle, and what the kernel left matches.
LEMMA Checking ==
  ASSUME ValidateInv, Doing("check")
  PROVE  \E sc \in Seq(Steps), p \in Nat, kernel \in Kernels, back \in {0, 1} :
           /\ sc = Script /\ Len(sc) \in Nat /\ session.at < Len(sc)
           /\ session.at = p + 3 + back /\ Seam(sc, p + 4 + back)
           /\ op = "idle" /\ session.stream = << >> /\ Matches(kernel) /\ On = kernel
<1>1. PICK sc \in Seq(Steps) :
        /\ sc = Script /\ InScript(sc) /\ Len(sc) \in Nat
        /\ \A p \in Nat, kernel \in Kernels, back \in {0, 1} :
             Validates(sc, p, kernel, back) => Seam(sc, p + 4 + back)
  BY ScriptOf
<1>2. /\ session.at \in 0 .. Len(sc) /\ session.at < Len(sc)
      /\ sc[session.at + 1].do = "check" /\ On = sc[session.at + 1].on
  BY <1>1 DEF InScript, Doing, At, On, Current
<1>3. PICK at \in Nat : at = session.at
  BY <1>2
<1>4. ~ Seam(sc, at)
  BY <1>2, <1>3, SeamDo
<1>5. PICK p \in 0 .. Len(sc), kernel \in Kernels, back \in {0, 1} :
        Validates(sc, p, kernel, back) /\ InSection(sc, p, kernel, back)
  BY <1>1, <1>3, <1>4 DEF InScript
<1>6. p \in Nat
  BY <1>1
<1>7. PICK j \in 1 .. 3 + back : HostAt(p, kernel, back, j)
  BY <1>5, <1>6, HostIn
<1>8. PICK i \in 1 .. 4 + back : i = j + 1 /\ p + i = at + 1
  <2>1. j + 1 \in 1 .. 4 + back /\ p + (j + 1) = at + 1
    BY <1>3, <1>6, <1>7 DEF HostAt
  <2> QED
    BY <2>1
<1>9. i = 4 + back /\ sc[at + 1].on = kernel
  <2>1. Validates(sc, p, kernel, back) /\ sc[p + i].do = "check"
    BY <1>2, <1>3, <1>5, <1>8
  <2>2. i = 4 + back
    BY ONLY <1>6, <2>1, kernel \in Kernels, back \in {0, 1}, i \in 1 .. 4 + back, Doings,
       SMTT(30)
  <2>3. sc[p + i].on = kernel
    BY ONLY <1>6, <2>1, <2>2, kernel \in Kernels, back \in {0, 1}, i \in 1 .. 4 + back, Doings
  <2> QED
    BY <1>8, <2>2, <2>3
<1>10. at = p + 3 + back /\ j = 3 + back
  BY <1>6, <1>8, <1>9
<1> QED
  BY <1>1, <1>2, <1>3, <1>5, <1>6, <1>7, <1>9, <1>10 DEF HostAt

\* With one request on a core there is nothing an answer may lack.
LEMMA NoneFollowed ==
  ASSUME ValidateInv, NEW kernel \in Kernels, Matches(kernel), ReqNum <= BlockNum
  PROVE  Agrees(kernel)
<1>1. \A r \in Reqs : ~ Followed(r)
  BY DEF Followed, Reqs
<1>2. CASE kernel = "lookup"
  <2>1. expected.lookup.last \in [Reqs -> [Positions -> Slots \cup {NotFound}]]
    BY ExpectedLookupIn DEF ValidateInv, Asked, Inputs, TensorsOf
  <2>2. slotOut \in [Reqs -> [Positions -> Slots \cup {NotFound}]]
    BY DEF ValidateInv, TensorsIn
  <2>3. \A r \in Reqs, i \in Positions : slotOut[r][i] = expected.lookup.last[r][i]
    BY <1>1, <1>2 DEF Matches
  <2>4. slotOut = expected.lookup.last
    BY <2>1, <2>2, <2>3
  <2> QED
    BY <1>2, <2>4 DEF Matches, Agrees
<1>3. CASE kernel = "maintain"
  BY <1>3 DEF Matches, Agrees
<1> QED
  BY <1>2, <1>3 DEF Kernels

LEMMA CheckGoes == ASSUME ValidateInv, Check PROVE ValidateInv'
<1>1. Doing("check") /\ UnchangedBelow
      /\ IF Agrees(On) THEN Proceed(Passed(session)) ELSE End("mismatch")
  BY DEF Check
<1>2. PICK sc \in Seq(Steps), p \in Nat, kernel \in Kernels, back \in {0, 1} :
        /\ sc = Script /\ Len(sc) \in Nat /\ session.at < Len(sc)
        /\ session.at = p + 3 + back /\ Seam(sc, p + 4 + back)
        /\ op = "idle" /\ session.stream = << >> /\ Matches(kernel) /\ On = kernel
  BY <1>1, Checking
<1>3. CASE ~ Agrees(kernel)
  <2>1. End("mismatch")
    BY <1>1, <1>2, <1>3
  <2>2. ReqNum <= BlockNum => "mismatch" # "mismatch"
    BY <1>2, <1>3, NoneFollowed
  <2> QED
    BY <1>1, <2>1, <2>2, EndGoes
<1>4. CASE Agrees(kernel)
  <2>1. session' = Passed(session) /\ status' \in {"passed", status}
    BY <1>1, <1>2, <1>4 DEF Proceed
  <2>2. session \in Sessions(Steps) /\ session.at \in 0 .. Len(sc) - 1
    BY <1>2 DEF ValidateInv
  <2>3. /\ session' \in Sessions(Steps) /\ session'.at = session.at + 1
        /\ session'.stream = << >>
    BY <1>2, <2>1, <2>2, HostFields
  <2>4. session'.at = p + 4 + back /\ session'.at \in 0 .. Len(sc)
    BY <1>2, <2>2, <2>3
  <2>5. op' = "idle"
    BY <1>1, <1>2, BelowKeeps
  <2>6. InScript(sc)'
    BY <1>2, <2>3, <2>4, <2>5 DEF InScript
  <2>7. NoneSpoilt'
    BY <2>1 DEF ValidateInv, NoneSpoilt
  <2> QED
    BY <1>1, <1>2, <2>3, <2>6, <2>7, HostKeeps
<1> QED
  BY <1>3, <1>4

-----------------------------------------------------------------------------
(* The device's steps.                                                      *)

\* The device is at instruction k of a kernel's section of the script.
LEMMA SectionOf ==
  ASSUME ValidateInv, session.stream # << >>
  PROVE  \E sc \in Seq(Steps), p \in Nat, kernel \in Kernels, back \in {0, 1}, k \in 1 .. 3 :
           /\ sc = Script /\ session.at \in 0 .. Len(sc) /\ p \in 0 .. Len(sc)
           /\ Validates(sc, p, kernel, back) /\ OnStream(sc, p, back, k)
           /\ Reached(kernel, k) /\ p + k <= session.at /\ k \in 1 .. 2 + back
           /\ Head(session.stream) = sc[p + k]
           /\ Tail(session.stream) = SubSeq(sc, p + k + 1, session.at)
<1>1. PICK sc \in Seq(Steps) : sc = Script /\ InScript(sc) /\ Len(sc) \in Nat
  BY ScriptOf
<1>2. PICK p \in 0 .. Len(sc), kernel \in Kernels, back \in {0, 1}, k \in 1 .. 4 :
        /\ Validates(sc, p, kernel, back)
        /\ OnStream(sc, p, back, k) /\ Reached(kernel, k)
  BY <1>1 DEF InScript, InSection
<1>3. session.at \in 0 .. Len(sc) /\ p \in Nat /\ p + k \in Nat \ {0}
  BY <1>1, <1>2 DEF InScript
<1>4. PICK at \in Nat : at = session.at
  BY <1>3
<1>5. /\ at \in p + 1 .. p + 2 + back /\ p + k <= at + 1
      /\ session.stream = SubSeq(sc, p + k, at)
  BY <1>2, <1>4 DEF OnStream
<1>6. p + k <= at
  <2>1. p + k # at + 1
    BY <1>3, <1>4, <1>5, Window
  <2> QED
    BY <1>3, <1>5, <2>1
<1>7. k \in 1 .. 3 /\ k \in 1 .. 2 + back
  BY ONLY <1>3, <1>4, <1>5, <1>6, k \in 1 .. 4, back \in {0, 1}
<1>8. Head(session.stream) = sc[p + k] /\ Tail(session.stream) = SubSeq(sc, p + k + 1, at)
  <2>1. p + k <= at + 1 /\ at \in 0 .. Len(sc)
    BY <1>3, <1>4, <1>6
  <2> QED
    BY ONLY <1>3, <1>5, <1>6, <2>1, sc \in Seq(Steps), Window
<1> QED
  BY <1>1, <1>2, <1>3, <1>4, <1>6, <1>7, <1>8

\* What is left to show of a step of the device's.
LEMMA DeviceKeeps ==
  ASSUME ValidateInv, UNCHANGED <<opt, given, expected, starts, status>>,
         NEW sc, sc = Script, NEW p \in 0 .. Len(sc), NEW kernel \in Kernels,
         NEW back \in {0, 1},
         session' \in Sessions(Steps), session'.at \in 0 .. Len(sc),
         Validates(sc, p, kernel, back), InSection(sc, p, kernel, back)',
         TensorsIn', RegistersIn', op' = "idle" => \A c \in Cores : pc'[c] = "load"
  PROVE  ValidateInv'
<1>1. Asked' /\ NoneSpoilt'
  BY DEF ValidateInv, Asked, NoneSpoilt
<1>2. Script' = sc
  BY DEF Script
<1>3. InScript(sc)'
  BY DEF InScript
<1>4. InScript(Script)'
  BY <1>2, <1>3 DEF InScript, Seam, InSection, OnStream
<1> QED
  BY <1>1, <1>4 DEF ValidateInv

\* The device has done instruction k of a section, and no kernel runs.
LEMMA PopGoes ==
  ASSUME ValidateInv, UNCHANGED <<opt, given, expected, starts, status>>,
         session.stream # << >>, session' = WorkDone(session),
         NEW sc, sc = Script, NEW p \in 0 .. Len(sc), p \in Nat, NEW kernel \in Kernels,
         NEW back \in {0, 1}, NEW k \in 1 .. 3, session.at \in 0 .. Len(sc),
         Validates(sc, p, kernel, back), OnStream(sc, p, back, k), p + k <= session.at,
         Tail(session.stream) = SubSeq(sc, p + k + 1, session.at),
         Reached(kernel, k + 1)', TensorsIn', RegistersIn', op' = "idle",
         \A c \in Cores : pc'[c] = "load"
  PROVE  ValidateInv'
<1>1. /\ session' \in Sessions(Steps) /\ session'.at = session.at
      /\ session'.stream = Tail(session.stream)
  <2>1. session \in Sessions(Steps)
    BY DEF ValidateInv
  <2>2. /\ WorkDone(session) \in Sessions(Steps)
        /\ WorkDone(session) = [session EXCEPT !.stream = Tail(session.stream),
                                               !.clock = session.clock + 1]
    BY <2>1, DeviceFields
  <2> QED
    BY <2>1, <2>2 DEF Sessions
<1>2. p + (k + 1) = p + k + 1 /\ k + 1 \in 1 .. 4
  OBVIOUS
<1>3. OnStream(sc, p, back, k + 1)'
  <2>1. session.at \in p + 1 .. p + 2 + back
    BY DEF OnStream
  <2>2. p + (k + 1) <= session.at + 1
    BY <2>1
  <2> QED
    BY <1>1, <1>2, <2>1, <2>2 DEF OnStream
<1>4. InSection(sc, p, kernel, back)'
  BY <1>2, <1>3 DEF InSection
<1>5. session'.at \in 0 .. Len(sc)
  BY <1>1
<1> QED
  BY <1>1, <1>4, <1>5, DeviceKeeps

LEMMA CopyGoes == ASSUME ValidateInv, Copy PROVE ValidateInv'
<1>1. session.stream # << >> /\ Head(session.stream).do \in {"upload", "restore"}
  BY DEF Copy, DeviceAt
<1>2. PICK sc \in Seq(Steps), p \in Nat, kernel \in Kernels, back \in {0, 1}, k \in 1 .. 3 :
        /\ sc = Script /\ session.at \in 0 .. Len(sc) /\ p \in 0 .. Len(sc)
        /\ Validates(sc, p, kernel, back) /\ OnStream(sc, p, back, k)
        /\ Reached(kernel, k) /\ p + k <= session.at /\ k \in 1 .. 2 + back
        /\ Head(session.stream) = sc[p + k]
        /\ Tail(session.stream) = SubSeq(sc, p + k + 1, session.at)
  BY <1>1, SectionOf
<1>3. k = 1 /\ Head(session.stream) = Upload(kernel)
  <2>1. k \in 1 .. 4 + back
    BY <1>2
  <2>2. /\ sc[p + k].do \in {"upload", "return", "sync", "check"} \cup Kernels
        /\ sc[p + k].do = "upload" <=> k = 1
        /\ k = 1 => sc[p + k] = Upload(kernel)
    <3>1. Validates(sc, p, kernel, back)
      BY <1>2
    <3>2. sc[p + k].do \in {"upload", "return", "sync", "check"} \cup Kernels
      BY ONLY <2>1, <3>1, p \in Nat, kernel \in Kernels, back \in {0, 1}, Doings
    <3>3. sc[p + k].do = "upload" <=> k = 1
      BY ONLY <2>1, <3>1, p \in Nat, kernel \in Kernels, back \in {0, 1}, Doings
    <3>4. k = 1 => sc[p + k] = Upload(kernel)
      BY ONLY <2>1, <3>1, p \in Nat, kernel \in Kernels, back \in {0, 1}, Doings
    <3> QED
      BY ONLY <3>2, <3>3, <3>4
  <2> QED
    BY <1>1, <1>2, <2>2 DEF Kernels
<1>4. op = "idle"
  BY <1>2, <1>3 DEF Reached
<1>5. /\ SetTensors(given[kernel]) /\ session' = WorkDone(session)
      /\ UNCHANGED <<opt, given, expected, starts, status>>
      /\ UNCHANGED <<op, req, pc, head, pos, outTile, protected>>
  BY <1>3 DEF Copy, DeviceAt, Upload, Instr, UnchangedHost, registers
<1>6. TensorsOf(given[kernel]) /\ (kernel = "lookup" => "query" \in DOMAIN given[kernel])
      /\ (kernel = "maintain" => "last" \in DOMAIN given[kernel])
  BY DEF ValidateInv, Asked, Inputs, Kernels
<1>7. PICK c : c = given[kernel]
  OBVIOUS
<1>8. /\ index' = c.index /\ slotToIndex' = c.slotToIndex /\ freeSlots' = c.freeSlots
      /\ freeHead' = c.freeHead
      /\ query' = IF "query" \in DOMAIN c THEN c.query ELSE query
      /\ slotOut' = IF "last" \in DOMAIN c THEN c.last ELSE slotOut
  BY <1>5, <1>7 DEF SetTensors
<1>9. TensorsIn'
  <2>1. query' \in [Reqs -> [Positions -> Tokens]]
    BY <1>6, <1>7, <1>8 DEF TensorsOf, ValidateInv, TensorsIn
  <2>2. slotOut' \in [Reqs -> [Positions -> Slots \cup {NotFound}]]
    BY <1>6, <1>7, <1>8 DEF TensorsOf, ValidateInv, TensorsIn
  <2> QED
    BY <1>6, <1>7, <1>8, <2>1, <2>2 DEF TensorsOf, TensorsIn
<1>10. RegistersIn' /\ op' = "idle" /\ \A d \in Cores : pc'[d] = "load"
  BY <1>4, <1>5 DEF ValidateInv, RegistersIn
<1>11. Loaded(kernel)'
  <2>1. kernel = "lookup" => query' = c.query
    BY <1>6, <1>7, <1>8
  <2>2. kernel # "lookup" => slotOut' = c.last
    BY <1>6, <1>7, <1>8 DEF Kernels
  <2>3. given'[kernel] = c
    BY <1>5, <1>7
  <2> QED
    BY <1>8, <2>1, <2>2, <2>3 DEF Loaded
<1>12. Reached(kernel, k + 1)'
  BY <1>3, <1>10, <1>11 DEF Reached
<1> QED
  BY <1>1, <1>2, <1>5, <1>9, <1>10, <1>12, PopGoes

\* Nothing but copies and kernels is on the validation's stream.
LEMMA OnlyWork ==
  ASSUME ValidateInv, session.stream # << >>
  PROVE  Head(session.stream).do \in {"upload", "lookup", "maintain", "return"}
<1>1. PICK sc \in Seq(Steps), p \in Nat, kernel \in Kernels, back \in {0, 1}, k \in 1 .. 3 :
        /\ Validates(sc, p, kernel, back) /\ k \in 1 .. 2 + back
        /\ Head(session.stream) = sc[p + k]
  BY SectionOf
<1>2. k \in 1 .. 4 + back /\ k # 3 + back /\ k # 4 + back
  BY <1>1
<1>3. sc[p + k].do \in {"upload", "return"} \cup Kernels
  BY <1>1, <1>2, Doings
<1> QED
  BY <1>1, <1>3 DEF Kernels

LEMMA CopyReturnedGoes == ASSUME ValidateInv, CopyReturned PROVE ValidateInv'
<1>1. /\ session.stream # << >> /\ Head(session.stream).do = "return"
      /\ session' = WorkDone(session)
      /\ UNCHANGED <<opt, given, expected, starts, status>>
      /\ UNCHANGED <<index, slotToIndex, freeSlots, freeHead, query, slotOut>>
      /\ UNCHANGED <<op, req, pc, head, pos, outTile, protected>>
  BY DEF CopyReturned, DeviceAt, UnchangedHost, vars, memory, registers
<1>2. PICK sc \in Seq(Steps), p \in Nat, kernel \in Kernels, back \in {0, 1}, k \in 1 .. 3 :
        /\ sc = Script /\ session.at \in 0 .. Len(sc) /\ p \in 0 .. Len(sc)
        /\ Validates(sc, p, kernel, back) /\ OnStream(sc, p, back, k)
        /\ Reached(kernel, k) /\ p + k <= session.at /\ k \in 1 .. 2 + back
        /\ Head(session.stream) = sc[p + k]
        /\ Tail(session.stream) = SubSeq(sc, p + k + 1, session.at)
  BY <1>1, SectionOf
<1>3. k = 3
  <2>1. k \in 1 .. 4 + back
    BY <1>2
  <2> QED
    BY <1>1, <1>2, <2>1, Doings
<1>4. op = "idle" /\ Matches(kernel)
  BY <1>2, <1>3 DEF Reached
<1>5. Matches(kernel)' /\ op' = "idle"
  BY <1>1, <1>4 DEF Matches, Followed
<1>6. Reached(kernel, k + 1)'
  BY <1>3, <1>5 DEF Reached
<1>7. TensorsIn'
  BY <1>1 DEF ValidateInv, TensorsIn
<1>8. RegistersIn' /\ \A c \in Cores : pc'[c] = "load"
  BY <1>1, <1>4 DEF ValidateInv, RegistersIn
<1> QED
  BY <1>1, <1>2, <1>5, <1>6, <1>7, <1>8, PopGoes

LEMMA StartGoes == ASSUME ValidateInv, StartKernel PROVE ValidateInv'
<1>1. /\ session.stream # << >> /\ Head(session.stream).do \in {"lookup", "maintain"}
      /\ Launch(Head(session.stream).do) /\ op = "idle"
      /\ UNCHANGED <<memory, session>> /\ UNCHANGED <<opt, given, expected, status>>
  BY DEF StartKernel, DeviceAt, Launch, UnchangedHost
<1>2. starts' = starts
  BY DEF StartKernel, ValidateInv, Asked
<1>3. PICK sc \in Seq(Steps), p \in Nat, kernel \in Kernels, back \in {0, 1}, k \in 1 .. 3 :
        /\ sc = Script /\ session.at \in 0 .. Len(sc) /\ p \in 0 .. Len(sc)
        /\ Validates(sc, p, kernel, back) /\ OnStream(sc, p, back, k)
        /\ Reached(kernel, k) /\ p + k <= session.at /\ k \in 1 .. 2 + back
        /\ Head(session.stream) = sc[p + k]
  BY <1>1, SectionOf
<1>4. k = 2 /\ Head(session.stream) = Kernel(kernel) /\ Loaded(kernel)
  <2>1. k \in 1 .. 4 + back
    BY <1>3
  <2>2. k = 2 /\ Head(session.stream) = Kernel(kernel)
    BY <1>1, <1>3, <2>1, Doings DEF Kernels
  <2> QED
    BY <1>1, <1>3, <2>2 DEF Reached, Kernels
<1>5. Head(session.stream).do = kernel
  BY <1>4 DEF Kernel, Instr
<1>6. TensorsIn' /\ RegistersIn' /\ Runs(kernel)' /\ op' = kernel
  <2>1. TensorsIn /\ RegistersIn /\ \A c \in Cores : pc[c] = "load"
    BY <1>1 DEF ValidateInv
  <2>2. Launch(kernel) /\ UNCHANGED <<memory, given, starts>>
    BY <1>1, <1>2, <1>5
  <2> QED
    BY <1>4, <2>1, <2>2, KernelStarts
<1>7. InSection(sc, p, kernel, back)' /\ op' # "idle"
  <2>1. OnStream(sc, p, back, 2)' /\ p + 2 <= session'.at
    BY <1>1, <1>3, <1>4 DEF OnStream
  <2>2. Reached(kernel, 2)' /\ 2 \in 1 .. 4
    BY <1>6 DEF Reached
  <2> QED
    BY <1>6, <2>1, <2>2 DEF InSection, Kernels
<1>8. session' \in Sessions(Steps) /\ session'.at \in 0 .. Len(sc)
  BY <1>1, <1>3 DEF ValidateInv
<1> QED
  BY <1>1, <1>2, <1>3, <1>6, <1>7, <1>8, DeviceKeeps

\* A kernel that runs is the one of the section.
LEMMA RunningSection ==
  ASSUME ValidateInv, op # "idle"
  PROVE  \E sc \in Seq(Steps), p \in Nat, kernel \in Kernels, back \in {0, 1} :
           /\ sc = Script /\ session.at \in 0 .. Len(sc) /\ p \in 0 .. Len(sc)
           /\ Validates(sc, p, kernel, back) /\ OnStream(sc, p, back, 2)
           /\ p + 2 <= session.at /\ op = kernel /\ Runs(kernel)
           /\ session.stream # << >>
           /\ Tail(session.stream) = SubSeq(sc, p + 2 + 1, session.at)
<1>1. PICK sc \in Seq(Steps) : sc = Script /\ InScript(sc) /\ Len(sc) \in Nat
  BY ScriptOf
<1>2. PICK p \in 0 .. Len(sc), kernel \in Kernels, back \in {0, 1}, k \in 1 .. 4 :
        /\ Validates(sc, p, kernel, back) /\ OnStream(sc, p, back, k)
        /\ Reached(kernel, k) /\ p + k <= session.at
  BY <1>1 DEF InScript, InSection
<1>3. session.at \in 0 .. Len(sc) /\ p \in Nat /\ p + 2 \in Nat \ {0}
  BY <1>1, <1>2 DEF InScript
<1>4. k = 2 /\ op = kernel /\ Runs(kernel)
  BY <1>2 DEF Reached
<1>5. session.stream = SubSeq(sc, p + 2, session.at) /\ p + 2 <= session.at
  BY <1>2, <1>4 DEF OnStream
<1>6. session.stream # << >> /\ Tail(session.stream) = SubSeq(sc, p + 2 + 1, session.at)
  <2>1. PICK at \in 0 .. Len(sc), m \in Nat \ {0} : at = session.at /\ m = p + 2
    BY <1>3
  <2>2. at \in Nat /\ m <= at /\ m <= at + 1 /\ m # at + 1
    BY <1>3, <1>5, <2>1
  <2>3. SubSeq(sc, m, at) # << >> /\ Tail(SubSeq(sc, m, at)) = SubSeq(sc, m + 1, at)
    BY ONLY <2>2, at \in 0 .. Len(sc), m \in Nat \ {0}, sc \in Seq(Steps), Window
  <2> QED
    BY <1>5, <2>1, <2>3
<1> QED
  BY <1>1, <1>2, <1>3, <1>4, <1>5, <1>6

LEMMA KernelOf ==
  ASSUME ValidateInv, NEW kernel \in Kernels, op = kernel, Runs(kernel)
  PROVE  (kernel = "lookup" => LookupGoes) /\ (kernel = "maintain" => MaintainGoes)
BY DEF ValidateInv, Asked, Inputs, LookupGoes, MaintainGoes, Runs

LEMMA KernelStepGoes == ASSUME ValidateInv, KernelStep PROVE ValidateInv'
<1>1. /\ UNCHANGED <<opt, given, expected, status>> /\ UNCHANGED <<session, starts>>
  BY DEF KernelStep, UnchangedHost
<1>2. PICK c \in Cores :
        \/ LookupStep(c)
        \/ MaintainStep(c) /\ (pc[c] = "load" /\ pc'[c] = "scan" => pos'[c] = starts[req[c]])
  BY DEF KernelStep
<1>3. op # "idle"
  BY <1>2 DEF ValidateInv, LookupStep, LookupLoad, LookupHit, LookupRepeatedMiss,
     LookupAllocate, LookupStore, MaintainStep, MaintainSkip, MaintainLoad,
     MaintainEvict, MaintainPass, MaintainStore, AtLoad, AtQuery, AtSlot
<1>4. PICK sc \in Seq(Steps), p \in Nat, kernel \in Kernels, back \in {0, 1} :
        /\ sc = Script /\ session.at \in 0 .. Len(sc) /\ p \in 0 .. Len(sc)
        /\ Validates(sc, p, kernel, back) /\ OnStream(sc, p, back, 2)
        /\ p + 2 <= session.at /\ op = kernel /\ Runs(kernel)
  BY <1>3, RunningSection
<1>5. TensorsIn' /\ RegistersIn' /\ Runs(kernel)' /\ op' = op
  <2>1. CASE kernel = "lookup"
    <3>1. LookupGoes
      BY <1>4, <2>1, KernelOf
    <3>2. ~ MaintainStep(c)
      BY <3>1 DEF LookupGoes, LookupRuns, CoresAt, MaintainStep, MaintainSkip,
         MaintainLoad, MaintainEvict, MaintainPass, MaintainStore, AtLoad, AtSlot
    <3> QED
      BY <1>1, <1>2, <2>1, <3>1, <3>2, LookupStepGoes DEF Runs
  <2>2. CASE kernel = "maintain"
    <3>1. MaintainGoes
      BY <1>4, <2>2, KernelOf
    <3>2. ~ LookupStep(c)
      BY <3>1 DEF MaintainGoes, MaintainRuns, CoresAt, LookupStep, LookupLoad, LookupHit,
         LookupRepeatedMiss, LookupAllocate, LookupStore, AtLoad, AtQuery
    <3> QED
      BY <1>1, <1>2, <2>2, <3>1, <3>2, MaintainStepGoes DEF Runs
  <2> QED
    BY <2>1, <2>2 DEF Kernels
<1>6. InSection(sc, p, kernel, back)' /\ op' # "idle"
  <2>1. OnStream(sc, p, back, 2)' /\ p + 2 <= session'.at
    BY <1>1, <1>4 DEF OnStream
  <2>2. Reached(kernel, 2)' /\ 2 \in 1 .. 4
    BY <1>4, <1>5 DEF Reached
  <2> QED
    BY <1>3, <1>5, <2>1, <2>2 DEF InSection
<1>7. session' \in Sessions(Steps) /\ session'.at \in 0 .. Len(sc)
  BY <1>1, <1>4 DEF ValidateInv
<1> QED
  BY <1>1, <1>4, <1>5, <1>6, <1>7, DeviceKeeps

LEMMA KernelDoneGoes == ASSUME ValidateInv, KernelDone PROVE ValidateInv'
<1>1. /\ op # "idle" /\ op' = "idle" /\ \A c \in Cores : req[c] >= ReqNum
      /\ session' = WorkDone(session)
      /\ UNCHANGED <<index, slotToIndex, freeSlots, freeHead, query, slotOut>>
      /\ UNCHANGED <<req, pc, head, pos, outTile, protected>>
      /\ UNCHANGED <<opt, given, expected, starts, status>>
  BY DEF KernelDone, HostSync, UnchangedHost, memory, registers
<1>2. PICK sc \in Seq(Steps), p \in Nat, kernel \in Kernels, back \in {0, 1} :
        /\ sc = Script /\ session.at \in 0 .. Len(sc) /\ p \in 0 .. Len(sc)
        /\ Validates(sc, p, kernel, back) /\ OnStream(sc, p, back, 2)
        /\ p + 2 <= session.at /\ op = kernel /\ Runs(kernel)
        /\ session.stream # << >>
        /\ Tail(session.stream) = SubSeq(sc, p + 2 + 1, session.at)
  BY <1>1, RunningSection
<1>3. Matches(kernel) /\ \A c \in Cores : pc[c] = "load"
  <2>1. CASE kernel = "lookup"
    <3>1. LookupGoes /\ expected.lookup = ExpectedLookup(given.lookup)
      BY <1>2, <2>1, KernelOf DEF ValidateInv, Asked
    <3> QED
      BY <1>1, <2>1, <3>1, LookupReturns
  <2>2. CASE kernel = "maintain"
    <3>1. MaintainGoes /\ expected.maintain = ExpectedMaintain(given.maintain, starts)
      BY <1>2, <2>2, KernelOf DEF ValidateInv, Asked
    <3> QED
      BY <1>1, <2>2, <3>1, MaintainReturns
  <2> QED
    BY <2>1, <2>2 DEF Kernels
<1>4. Reached(kernel, 2 + 1)'
  BY <1>1, <1>3 DEF Matches, Followed, Reached
<1>5. TensorsIn'
  BY <1>1 DEF ValidateInv, TensorsIn
<1>6. RegistersIn'
  BY <1>1 DEF ValidateInv, RegistersIn
<1>7. (\A c \in Cores : pc'[c] = "load") /\ 2 \in 1 .. 3
  BY <1>1, <1>3
<1> QED
  BY <1>1, <1>2, <1>4, <1>5, <1>6, <1>7, PopGoes

-----------------------------------------------------------------------------
(* The validation's script starts, and goes on.                             *)

LEMMA ValidateStarts == ASSUME ScriptInit, opt.tool = "validate" PROVE ValidateInv
<1>1. /\ Init /\ opt \in Options /\ session = NewSession /\ status = "running"
      /\ starts \in ScanStarts
      /\ given = [lookup |-> IndexCase(opt.pattern), maintain |-> MaintainInput(opt)]
      /\ expected = [lookup   |-> ExpectedLookup(given.lookup),
                     maintain |-> ExpectedMaintain(given.maintain, starts)]
  BY CommandAssumption DEF ScriptInit
<1>2. Asked
  <2>1. Inputs(given.lookup, given.maintain)
    BY <1>1, InputsIn
  <2>2. starts \in [Reqs -> Slots]
    BY <1>1, ScriptAssumption DEF ScanStarts
  <2> QED
    BY <1>1, <2>1, <2>2 DEF Asked
<1>3. session \in Sessions(Steps) /\ session.at = 0 /\ session.stream = << >>
  BY <1>1 DEF NewSession, Sessions
<1>4. TensorsIn
  <2>1. \A r \in Reqs :
          /\ index[r] \in [Tokens -> Slots \cup {NotFound}]
          /\ slotToIndex[r] \in [Slots -> Nat \cup {NotFound}]
          /\ freeSlots[r] \in [FreeRow -> Slots]
          /\ freeHead[r] \in Nat
          /\ query[r] \in [Positions -> Tokens]
          /\ slotOut[r] \in [Positions -> Slots \cup {NotFound}]
    BY <1>1, Sizes DEF Init, Tokens, Slots, FreeRow, Residents
  <2> QED
    BY <1>1, <2>1 DEF Init, TensorsIn
<1>5. RegistersIn /\ op = "idle" /\ \A c \in Cores : pc[c] = "load"
  BY <1>1 DEF Init, RegistersIn
<1>6. InScript(Script)
  <2>1. Script = ValidateScript(opt)
    BY DEF Script
  <2>2. Seam(Script, 0) /\ Script \in Seq(Steps)
    BY <2>1, ScriptShape
  <2> QED
    BY <1>3, <1>5, <2>2 DEF InScript
<1> QED
  BY <1>1, <1>2, <1>3, <1>4, <1>5, <1>6 DEF ValidateInv, NoneSpoilt

LEMMA ValidateStutters ==
  ASSUME ValidateInv, UNCHANGED <<vars, scriptVars>>
  PROVE  ValidateInv'
<1>1. End(status) /\ UnchangedBelow /\ (ReqNum <= BlockNum => status # "mismatch")
  BY DEF scriptVars, End, UnchangedBelow, ValidateInv, NoneSpoilt
<1> QED
  BY <1>1, EndGoes

LEMMA ValidateGoes ==
  ASSUME ValidateInv, [ScriptNext]_<<vars, scriptVars>>
  PROVE  ValidateInv'
<1>1. CASE Host
  BY <1>1, EnqueueGoes, WaitGoes, ResolveGoes, MiscountGoes, CheckGoes DEF Host
<1>2. CASE Device
  <2>1. ~ TakeSnapshot /\ ~ Stamp
    BY OnlyWork DEF TakeSnapshot, Stamp, DeviceAt
  <2> QED
    BY <1>2, <2>1, CopyGoes, CopyReturnedGoes, StartGoes, KernelStepGoes, KernelDoneGoes
       DEF Device
<1>3. CASE UNCHANGED <<vars, scriptVars>>
  BY <1>3, ValidateStutters
<1> QED
  BY <1>1, <1>2, <1>3 DEF ScriptNext

-----------------------------------------------------------------------------
(* The benchmark compares nothing.                                          *)

Uncompared ==
  [do : {"lookup", "maintain", "return", "sync", "start", "stop", "resolve", "upload",
         "snapshot", "restore"},
   on : {0} \cup Kernels]

LEMMA BenchUncompared ==
  ASSUME NEW o \in Options
  PROVE  BenchScript(o) \in Seq(Uncompared)
<1>1. /\ Lookup \in Uncompared /\ Maintain \in Uncompared /\ CopyBack \in Uncompared
      /\ Synchronize \in Uncompared /\ StartEvent \in Uncompared /\ StopEvent \in Uncompared
      /\ Instr("resolve", 0) \in Uncompared
      /\ \A what \in Kernels : /\ Upload(what) \in Uncompared /\ Snapshot(what) \in Uncompared
                               /\ Restore(what) \in Uncompared
  BY DEF Uncompared, Lookup, Maintain, CopyBack, Synchronize, StartEvent, StopEvent, Upload,
         Snapshot, Restore, Instr, Kernels
<1>2. Warmup \in Nat /\ Iters \in Nat
  BY ScriptAssumption
<1>3. ASSUME NEW a \in Seq(Uncompared), NEW b \in Seq(Uncompared)
      PROVE  a \o b \in Seq(Uncompared)
  OBVIOUS
<1>4. TimeIterations(Lookup) \in Seq(Uncompared)
  <2> DEFINE once == <<Lookup>>
  <2>1. once \in Seq(Uncompared) /\ <<Synchronize, StartEvent>> \in Seq(Uncompared)
        /\ <<StopEvent, Synchronize>> \in Seq(Uncompared)
    BY <1>1
  <2> HIDE DEF once
  <2>2. Repeat(Warmup, LAMBDA i : once) \in Seq(Uncompared)
        /\ Repeat(Iters, LAMBDA i : once) \in Seq(Uncompared)
    BY <1>2, <2>1, RepeatIn
  <2> QED
    BY <1>3, <2>1, <2>2 DEF TimeIterations, once
<1>5. ASSUME NEW call \in Seq(Uncompared), NEW what \in Kernels
      PROVE  TimeIterationsRestored(what, call) \in Seq(Uncompared)
  <2> DEFINE warm == <<Restore(what), Synchronize>> \o call
             first == <<Restore(what), Synchronize, StartEvent>> \o call
             once == first \o <<StopEvent, Synchronize>>
  <2>1. /\ <<Restore(what), Synchronize>> \in Seq(Uncompared)
        /\ <<Restore(what), Synchronize, StartEvent>> \in Seq(Uncompared)
        /\ <<StopEvent, Synchronize>> \in Seq(Uncompared)
        /\ <<Synchronize>> \in Seq(Uncompared)
    BY <1>1
  <2>2. warm \in Seq(Uncompared) /\ once \in Seq(Uncompared)
    BY <1>3, <2>1
  <2> HIDE DEF warm, once
  <2>3. Repeat(Warmup, LAMBDA i : warm) \in Seq(Uncompared)
        /\ Repeat(Iters, LAMBDA i : once) \in Seq(Uncompared)
    BY <1>2, <2>2, RepeatIn
  <2> QED
    BY <1>3, <2>1, <2>3 DEF TimeIterationsRestored, warm, once
<1>6. MaintainCall(o) \in Seq(Uncompared) /\ <<Lookup>> \in Seq(Uncompared)
  BY <1>1 DEF MaintainCall
<1>7. BenchMaintainChained(o) \in Seq(Uncompared)
  <2> DEFINE up == <<Upload("maintain")>> \o MaintainCall(o)
             warm == up \o <<Synchronize>>
             timed == <<Upload("maintain"), Synchronize, StartEvent>> \o MaintainCall(o)
             once == timed \o <<StopEvent, Synchronize>>
  <2>1. /\ <<Upload("maintain")>> \in Seq(Uncompared) /\ <<Synchronize>> \in Seq(Uncompared)
        /\ <<Upload("maintain"), Synchronize, StartEvent>> \in Seq(Uncompared)
        /\ <<StopEvent, Synchronize>> \in Seq(Uncompared)
    BY <1>1 DEF Kernels
  <2>2. warm \in Seq(Uncompared)
    BY <1>3, <1>6, <2>1
  <2> HIDE DEF warm
  <2>3. Repeat(Warmup, LAMBDA i : warm) \in Seq(Uncompared)
    BY <1>2, <2>2, RepeatIn
  <2> DEFINE r == Repeat(Warmup, LAMBDA i : warm)
             a == r \o <<Upload("maintain"), Synchronize, StartEvent>>
             b == a \o MaintainCall(o)
  <2> HIDE DEF r
  <2>4. a \in Seq(Uncompared)
    BY <1>3, <2>1, <2>3 DEF r
  <2> HIDE DEF a
  <2>5. b \in Seq(Uncompared)
    BY <1>3, <1>6, <2>4
  <2> HIDE DEF b
  <2>6. b \o <<StopEvent, Synchronize>> \in Seq(Uncompared)
    BY <1>3, <2>1, <2>5
  <2>7. BenchMaintainChained(o) = b \o <<StopEvent, Synchronize>>
    BY DEF BenchMaintainChained, b, a, r, warm
  <2> QED
    BY <2>6, <2>7
<1>8. ASSUME NEW what \in Kernels
      PROVE  <<Upload(what), Snapshot(what)>> \in Seq(Uncompared)
  BY <1>1
<1>9. BenchLookup(o) \in Seq(Uncompared) /\ BenchMaintain(o) \in Seq(Uncompared)
  <2>1. /\ TimeIterationsRestored("lookup", <<Lookup>>) \in Seq(Uncompared)
        /\ TimeIterationsRestored("maintain", MaintainCall(o)) \in Seq(Uncompared)
    BY <1>5, <1>6 DEF Kernels
  <2>2. <<Upload("lookup"), Snapshot("lookup")>> \in Seq(Uncompared)
        /\ <<Upload("maintain"), Snapshot("maintain")>> \in Seq(Uncompared)
    BY <1>8 DEF Kernels
  <2> QED
    BY <1>3, <1>4, <2>1, <2>2 DEF BenchLookup, BenchMaintain
<1>10. ASSUME NEW kernel, NEW steps \in Seq(Uncompared)
       PROVE  For(o, kernel, steps) \in Seq(Uncompared)
  BY DEF For
<1>11. <<Instr("resolve", 0)>> \in Seq(Uncompared)
  BY <1>1
<1> DEFINE f == For(o, "maintain", <<Instr("resolve", 0)>>)
           g == For(o, "lookup", BenchLookup(o))
           h == For(o, "maintain", IF o.chained THEN BenchMaintainChained(o) ELSE BenchMaintain(o))
<1>12. f \in Seq(Uncompared) /\ g \in Seq(Uncompared) /\ h \in Seq(Uncompared)
  BY <1>7, <1>9, <1>10, <1>11
<1> HIDE DEF f, g, h
<1>13. f \o g \in Seq(Uncompared) /\ (f \o g) \o h \in Seq(Uncompared)
  BY <1>3, <1>12
<1> QED
  BY <1>13 DEF BenchScript, f, g, h

BenchInv ==
  /\ opt \in Options /\ opt.tool # "validate"
  /\ "at" \in DOMAIN session /\ session.at \in Nat
  /\ status # "mismatch"

\* The benchmark's script has nothing to check.
LEMMA BenchNoCheck == ASSUME BenchInv PROVE ~ Doing("check")
<1>1. ASSUME Doing("check") PROVE FALSE
  <2>1. session.at < Len(Script) /\ Script[session.at + 1].do = "check"
    BY <1>1 DEF Doing, At
  <2>2. Script \in Seq(Uncompared)
    BY BenchUncompared DEF BenchInv, Script, Options
  <2>3. session.at + 1 \in 1 .. Len(Script)
    BY <2>1, <2>2 DEF BenchInv
  <2>4. Script[session.at + 1] \in Uncompared
    BY <2>2, <2>3
  <2> QED
    BY <2>1, <2>4 DEF Uncompared
<1> QED
  BY <1>1

LEMMA BenchGoes ==
  ASSUME BenchInv, [ScriptNext]_<<vars, scriptVars>>
  PROVE  BenchInv'
<1>1. opt' = opt
  BY DEF ScriptNext, Host, Device, Enqueue, Wait, ResolveMaintain, WrapperMiscounts, Check,
         UnchangedBelow, Copy, TakeSnapshot, CopyReturned, Stamp, StartKernel, KernelStep, KernelDone,
         UnchangedHost, scriptVars
<1>2. "at" \in DOMAIN session' /\ session'.at \in Nat
  <2>1. \/ session' \in {session, Passed(session), WorkDone(session), EventStamped(session)}
        \/ session' = Enqueued(session, Script)
    BY DEF ScriptNext, Host, Device, Enqueue, Wait, ResolveMaintain, WrapperMiscounts, Check,
           Proceed, End, Copy, TakeSnapshot, CopyReturned, Stamp, StartKernel, KernelStep, KernelDone,
           scriptVars
  <2>2. PICK s : s = session
    OBVIOUS
  <2>3. "at" \in DOMAIN s /\ s.at \in Nat
    BY <2>2 DEF BenchInv
  <2>4. ASSUME NEW t \in {Passed(s), WorkDone(s), EventStamped(s)}
        PROVE  "at" \in DOMAIN t /\ t.at \in Nat
    <3>1. t = [s EXCEPT !.at = @ + 1]
          \/ t = [s EXCEPT !.stream = Tail(@), !.clock = @ + 1]
          \/ t = [s EXCEPT !.stream = Tail(@), !.started = s.clock, !.timing = TRUE]
          \/ t = [s EXCEPT !.stream = Tail(@), !.measured = @ + (s.clock - s.started),
                           !.timing = FALSE]
      BY <2>4 DEF Passed, WorkDone, EventStamped
    <3>2. DOMAIN t = DOMAIN s
      BY ONLY <3>1
    <3>3. t["at"] \in {s["at"], s["at"] + 1}
      BY ONLY <2>3, <3>1
    <3> QED
      BY ONLY <2>3, <3>2, <3>3
  <2>5. "at" \in DOMAIN Enqueued(s, Script) /\ Enqueued(s, Script).at \in Nat
    <3>1. PICK t : t = Passed(s)
      OBVIOUS
    <3>2. "at" \in DOMAIN t /\ t.at \in Nat
      BY <2>4, <3>1
    <3>3. Enqueued(s, Script) = [t EXCEPT !.stream = Append(@, Current(s, Script))]
      BY <3>1 DEF Enqueued
    <3> QED
      BY ONLY <3>2, <3>3
  <2> QED
    BY <2>1, <2>2, <2>3, <2>4, <2>5
<1>3. CASE Device \/ UNCHANGED <<vars, scriptVars>>
  <2>1. status' = status
    BY <1>3 DEF Device, Copy, TakeSnapshot, CopyReturned, Stamp, StartKernel, KernelStep, KernelDone,
                UnchangedHost, scriptVars
  <2> QED
    BY <1>1, <1>2, <2>1 DEF BenchInv
<1>4. CASE Host
  <2>1. ~ Check
    BY BenchNoCheck DEF Check
  <2>2. status' \in {"passed", "raised", "skipped", status}
    BY <1>4, <2>1 DEF Host, Enqueue, Wait, ResolveMaintain, WrapperMiscounts, Proceed, End,
                      NoRunner
  <2> QED
    BY <1>1, <1>2, <2>2 DEF BenchInv
<1> QED
  BY <1>3, <1>4 DEF ScriptNext

\* The process compares with the reference only where ValidateInv holds.
LEMMA Started == ScriptInit => ValidateInv \/ BenchInv
<1>1. ScriptInit => opt \in Options /\ status = "running" /\ session = NewSession
  BY CommandAssumption DEF ScriptInit
<1> QED
  BY <1>1, ValidateStarts DEF BenchInv, NewSession

LEMMA GoesOnward ==
  (ValidateInv \/ BenchInv) /\ [ScriptNext]_<<vars, scriptVars>> => (ValidateInv \/ BenchInv)'
BY ValidateGoes, BenchGoes

(* Whatever the sizes, the command line, the number of cores and their       *)
(* interleaving, and wherever the hash starts the scans: whenever the script *)
(* compares, the tensors the kernels left are the sequential reference's, up *)
(* to positions an answer lacks because its core went on to another request  *)
(* before its copy was done (asu_hbm_index_lookup_aiv.cpp:79-129).           *)
THEOREM KernelsMatchReference == ScriptSpec => []ResultsMatchReference
<1> DEFINE I == ValidateInv \/ BenchInv
<1>1. ScriptInit => I
  BY Started
<1>2. I /\ [ScriptNext]_<<vars, scriptVars>> => I'
  BY GoesOnward
<1>3. I => ResultsMatchReference
  BY Checking, BenchNoCheck DEF ResultsMatchReference
<1> QED
  BY <1>1, <1>2, <1>3, PTL DEF ScriptSpec

(* With a core for every request, no comparison of validate_hbm_index_ops.py *)
(* ever fails, whatever the sizes, the command line and the interleaving.    *)
THEOREM ComparisonsHold ==
  ASSUME ReqNum <= BlockNum
  PROVE  ScriptSpec => []AgreesWithReference
<1> DEFINE I == ValidateInv \/ BenchInv
<1>1. ScriptInit => I
  BY Started
<1>2. I /\ [ScriptNext]_<<vars, scriptVars>> => I'
  BY GoesOnward
<1>3. I => AgreesWithReference
  BY DEF ValidateInv, NoneSpoilt, BenchInv, AgreesWithReference
<1> QED
  BY <1>1, <1>2, <1>3, PTL DEF ScriptSpec

HIDE SizeAssumption

-----------------------------------------------------------------------------
(* What the benchmark's script says.                                        *)

Works == {"upload", "snapshot", "restore", "lookup", "maintain", "return"}

Enqueues == Works \cup {"start", "stop"}

\* What changes the tensors.
Writers == {"upload", "restore", "lookup", "maintain"}

BenchSteps ==
  {Synchronize, StartEvent, StopEvent, CopyBack, Instr("resolve", 0)}
    \cup UNION {{Kernel(k), Upload(k), Snapshot(k), Restore(k)} : k \in Kernels}

\* Before instruction j, the last of the kinds B is one of A.
Latest(sc, j, A, B) == \E i \in 1 .. j - 1 : sc[i] \in A /\ \A m \in i + 1 .. j - 1 : sc[m].do \notin B

\* Kernel k's tensors have been copied, and not been worked on since.
Fresh(sc, j, k) == Latest(sc, j, {Upload(k), Restore(k)}, Writers)

Cloned(sc, j, k) == Latest(sc, j, {Snapshot(k)}, {"snapshot"})

\* The kernels that are counted find fresh tensors, and so do the clones.
Fed(o, sc) ==
  \A j \in 1 .. Len(sc), k \in Kernels :
    sc[j] = Snapshot(k) \/ (sc[j] = Kernel(k) /\ (k = "maintain" \/ o.reset)) => Fresh(sc, j, k)

\* What is restored are the last clones.
Restores(sc) == \A j \in 1 .. Len(sc), k \in Kernels : sc[j] = Restore(k) => Cloned(sc, j, k)

TimedIn(W, sc) == Cardinality(Timed(W, sc, Len(sc), StartEvent, StopEvent))

\* The pieces of work in l calls of lookup and m of maintain.
Pieces(o, l, m) == l + (IF Returns(o) THEN m + m ELSE m)

\* A part of a script in which the device times l lookups, m maintains and nothing
\* but what a wrapper copies back.
Part(o, S, sc, l, m) ==
  /\ sc \in Seq(S) /\ Settled(sc) /\ Alternates(sc, StartEvent, StopEvent)
  /\ Fed(o, sc)
  /\ TimedIn({"lookup"}, sc) = l /\ TimedIn({"maintain"}, sc) = m
  /\ TimedIn(Works, sc) = Pieces(o, l, m)

\* The instructions of a loop over kernel k.
LoopSteps(k) ==
  {Synchronize, StartEvent, StopEvent, CopyBack, Kernel(k), Upload(k), Restore(k)}

Lookups(o) == IF o.target = "maintain" THEN 0 ELSE Iters
Maintains(o) == IF o.target = "lookup" THEN 0 ELSE IF o.chained THEN 1 ELSE Iters

-----------------------------------------------------------------------------
(* What holds while it is carried out.                                      *)

\* Tensors of kernel k as the process made them.
Copies(c, k) ==
  /\ c.index = given[k].index /\ c.slotToIndex = given[k].slotToIndex
  /\ c.freeSlots = given[k].freeSlots /\ c.freeHead = given[k].freeHead
  /\ IF k = "lookup"
     THEN "query" \in DOMAIN c /\ c.query = given[k].query /\ "last" \notin DOMAIN c
     ELSE "last" \in DOMAIN c /\ c.last = given[k].last /\ "query" \notin DOMAIN c

Loop(kernel) == IF kernel = "lookup" THEN "alloc" ELSE "scan"

\* What is consumed of request r's pool.
Consumed(r) ==
  LET c == CoreOf(r) IN IF req[c] = r /\ pc[c] # "load" THEN head[c] ELSE freeHead[r]

SumConsumed == Sum([r \in Reqs |-> Consumed(r)])

ControlIn ==
  /\ freeHead \in [Reqs -> Nat]
  /\ req \in [Cores -> Nat]
  /\ pc \in [Cores -> {"load", "alloc", "scan"}]
  /\ head \in [Cores -> Nat]

\* The lookups that are counted go through the reference's states.
Follows ==
  /\ TensorsIn /\ RegistersIn /\ starts \in [Reqs -> Slots]
  /\ op # "idle" => Runs(op)

Running(kernel) == op = kernel /\ session.timing

Launches(kind, d) == Cardinality(Timed({kind}, Script, d, StartEvent, StopEvent))

Evictions(d) ==
  evicted = Launches("maintain", d) * Sum(given.maintain.freeHead)
              + (IF Running("maintain") THEN Sum(given.maintain.freeHead) - SumConsumed ELSE 0)

Allocations(d) ==
  allocated = Launches("lookup", d) * Sum(expected.lookup.freeHead)
                + (IF Running("lookup") THEN SumConsumed ELSE 0)

Given ==
  /\ opt \in Options /\ opt.tool = "bench"
  /\ Inputs(given.lookup, given.maintain)
  /\ given.lookup.freeHead = [r \in Reqs |-> 0]
  /\ expected.lookup = ExpectedLookup(given.lookup)

\* The pools of the requests a maintain kernel is done with are full again.
Emptied == op = "maintain" => \A r \in Reqs : r < req[CoreOf(r)] => freeHead[r] = 0

\* A maintain kernel's answer is the one made for it, and lacks none.
LastAnswer == op = "maintain" => slotOut = given.maintain.last

Benching ==
  /\ Given /\ ControlIn
  /\ session \in Sessions(BenchSteps)
  /\ status = "passed" => session.at = Len(Script)
  /\ op \in {"idle"} \cup Kernels
  /\ IF op = "idle" THEN \A c \in Cores : pc[c] = "load"
     ELSE session.stream # << >> /\ Head(session.stream) = Kernel(op) /\ CoresAt(Loop(op))
  /\ Emptied /\ LastAnswer
  /\ opt.reset => Follows

DeviceDone(d) ==
  /\ \A k \in Kernels : Fresh(Script, d + 1, k) => op # "idle" \/ Loaded(k)
  /\ \A k \in Kernels : Cloned(Script, d + 1, k) => Copies(snapshot, k)
  /\ Evictions(d)
  /\ opt.reset => Allocations(d)

Measures(d, x) ==
  /\ Tracks(Enqueues, session, Script, d, x)
  /\ DeviceTimes(Works, session, Script, d)
  /\ DeviceDone(d)

MeasureInv == Benching /\ \E d, x : Measures(d, x)

-----------------------------------------------------------------------------
(* The script's parts.                                                      *)

LEMMA StepFields ==
  /\ Synchronize.do = "sync" /\ StartEvent.do = "start" /\ StopEvent.do = "stop"
  /\ CopyBack.do = "return" /\ Instr("resolve", 0).do = "resolve"
  /\ \A k \in Kernels : /\ Kernel(k).do = k /\ Upload(k).do = "upload"
                        /\ Snapshot(k).do = "snapshot" /\ Restore(k).do = "restore"
                        /\ k \in {"lookup", "maintain"}
  /\ \A k, l \in Kernels : (Restore(k) = Restore(l) => k = l) /\ (Snapshot(k) = Snapshot(l) => k = l)
                           /\ (Upload(k) = Upload(l) => k = l) /\ (Kernel(k) = Kernel(l) => k = l)
BY DEF Synchronize, StartEvent, StopEvent, CopyBack, Kernel, Upload, Snapshot, Restore, Instr, Kernels

LEMMA LatestConcat ==
  ASSUME NEW S, NEW f \in Seq(S), NEW g \in Seq(S), NEW A, NEW B
  PROVE  /\ \A j \in 1 .. Len(f) : Latest(f, j, A, B) => Latest(f \o g, j, A, B)
         /\ \A j \in 1 .. Len(g) : Latest(g, j, A, B) => Latest(f \o g, Len(f) + j, A, B)
<1> DEFINE h == f \o g
           n == Len(f)
<1>1. /\ n \in Nat /\ Len(g) \in Nat
      /\ \A j \in 1 .. n : h[j] = f[j]
      /\ \A j \in 1 .. Len(g) : h[n + j] = g[j]
  BY ConcatAt
<1> HIDE DEF h, n
<1>2. ASSUME NEW j \in 1 .. n, Latest(f, j, A, B) PROVE Latest(h, j, A, B)
  <2>1. PICK i \in 1 .. j - 1 : f[i] \in A /\ \A m \in i + 1 .. j - 1 : f[m].do \notin B
    BY <1>2 DEF Latest
  <2>2. \A m \in 1 .. j - 1 : h[m] = f[m]
    BY <1>1
  <2>3. h[i] \in A
    BY <2>1, <2>2
  <2>4. ASSUME NEW m \in i + 1 .. j - 1 PROVE h[m].do \notin B
    <3>1. m \in 1 .. j - 1
      OBVIOUS
    <3> QED
      BY <2>1, <2>2, <3>1
  <2> QED
    BY <2>3, <2>4 DEF Latest
<1>3. ASSUME NEW j \in 1 .. Len(g), Latest(g, j, A, B) PROVE Latest(h, n + j, A, B)
  <2>1. PICK i \in 1 .. j - 1 : g[i] \in A /\ \A m \in i + 1 .. j - 1 : g[m].do \notin B
    BY <1>3 DEF Latest
  <2>2. n + i \in 1 .. (n + j) - 1 /\ h[n + i] \in A
    <3>1. n + i \in 1 .. (n + j) - 1 /\ i \in 1 .. Len(g)
      BY <1>1
    <3>2. h[n + i] = g[i]
      BY <1>1, <3>1
    <3> QED
      BY <2>1, <3>1, <3>2
  <2>3. ASSUME NEW m \in (n + i) + 1 .. (n + j) - 1 PROVE h[m].do \notin B
    <3>1. m - n \in i + 1 .. j - 1 /\ m - n \in 1 .. Len(g) /\ n + (m - n) = m
      BY <1>1, <2>1
    <3>2. h[m] = g[m - n]
      BY <1>1, <3>1
    <3> QED
      BY <2>1, <3>1, <3>2
  <2> QED
    BY <2>2, <2>3 DEF Latest
<1> QED
  BY <1>2, <1>3 DEF h, n

LEMMA FedConcat ==
  ASSUME NEW S, NEW f \in Seq(S), NEW g \in Seq(S), NEW o
  PROVE  /\ Fed(o, f) /\ Fed(o, g) => Fed(o, f \o g)
         /\ Restores(f) /\ Restores(g) => Restores(f \o g)
<1> DEFINE h == f \o g
           n == Len(f)
<1>1. /\ n \in Nat /\ Len(g) \in Nat /\ Len(h) = n + Len(g)
      /\ \A j \in 1 .. n : h[j] = f[j]
      /\ \A j \in 1 .. Len(g) : h[n + j] = g[j]
      /\ \A j \in 1 .. n + Len(g) : j \in 1 .. n \/ \E i \in 1 .. Len(g) : j = n + i
  BY ConcatAt
<1>2. \A A, B : /\ \A j \in 1 .. n : Latest(f, j, A, B) => Latest(h, j, A, B)
                /\ \A j \in 1 .. Len(g) : Latest(g, j, A, B) => Latest(h, n + j, A, B)
  BY LatestConcat
<1> HIDE DEF h, n
<1>3. ASSUME Fed(o, f), Fed(o, g) PROVE Fed(o, h)
  <2> SUFFICES ASSUME NEW j \in 1 .. n + Len(g), NEW k \in Kernels,
                      h[j] = Snapshot(k) \/ (h[j] = Kernel(k) /\ (k = "maintain" \/ o.reset))
               PROVE  Fresh(h, j, k)
    BY <1>1 DEF Fed
  <2>1. CASE j \in 1 .. n
    <3>1. Fresh(f, j, k)
      BY <1>1, <1>3, <2>1 DEF Fed, n
    <3> QED
      BY <1>2, <2>1, <3>1 DEF Fresh
  <2>2. ASSUME NEW i \in 1 .. Len(g), j = n + i PROVE Fresh(h, j, k)
    <3>1. Fresh(g, i, k)
      BY <1>1, <1>3, <2>2 DEF Fed
    <3> QED
      BY <1>2, <2>2, <3>1 DEF Fresh
  <2> QED
    BY <1>1, <2>1, <2>2
<1>4. ASSUME Restores(f), Restores(g) PROVE Restores(h)
  <2> SUFFICES ASSUME NEW j \in 1 .. n + Len(g), NEW k \in Kernels, h[j] = Restore(k)
               PROVE  Cloned(h, j, k)
    BY <1>1 DEF Restores
  <2>1. CASE j \in 1 .. n
    <3>1. Cloned(f, j, k)
      BY <1>1, <1>4, <2>1 DEF Restores, n
    <3> QED
      BY <1>2, <2>1, <3>1 DEF Cloned
  <2>2. ASSUME NEW i \in 1 .. Len(g), j = n + i PROVE Cloned(h, j, k)
    <3>1. Cloned(g, i, k)
      BY <1>1, <1>4, <2>2 DEF Restores
    <3> QED
      BY <1>2, <2>2, <3>1 DEF Cloned
  <2> QED
    BY <1>1, <2>1, <2>2
<1> QED
  BY <1>3, <1>4 DEF h

LEMMA PartConcat ==
  ASSUME NEW o, NEW S, NEW f, NEW l \in Nat, NEW m \in Nat, Part(o, S, f, l, m),
         NEW g, NEW k \in Nat, NEW n \in Nat, Part(o, S, g, k, n)
  PROVE  Part(o, S, f \o g, l + k, m + n)
<1>1. f \in Seq(S) /\ g \in Seq(S)
  BY DEF Part
<1>2. f \o g \in Seq(S)
  BY <1>1, ConcatLength
<1>3. Settled(f \o g)
  BY <1>1, SettledConcat DEF Part
<1>4. Alternates(f \o g, StartEvent, StopEvent)
  BY <1>1, AlternatesConcat DEF Part
<1>5. Fed(o, f \o g)
  BY <1>1, FedConcat DEF Part
<1>6. \A W : TimedIn(W, f \o g) = TimedIn(W, f) + TimedIn(W, g)
  BY <1>1, TimedConcat DEF Part, TimedIn
<1>7. TimedIn(Works, f \o g) = Pieces(o, l + k, m + n)
  <2>1. Pieces(o, l, m) + Pieces(o, k, n) = Pieces(o, l + k, m + n)
    <3>1. CASE Returns(o)
      <4>1. (l + (m + m)) + (k + (n + n)) = (l + k) + ((m + n) + (m + n))
        OBVIOUS
      <4> QED
        BY <3>1, <4>1 DEF Pieces
    <3>2. CASE ~ Returns(o)
      <4>1. (l + m) + (k + n) = (l + k) + (m + n)
        OBVIOUS
      <4> QED
        BY <3>2, <4>1 DEF Pieces
    <3> QED
      BY <3>1, <3>2
  <2>2. TimedIn(Works, f) = Pieces(o, l, m) /\ TimedIn(Works, g) = Pieces(o, k, n)
    BY DEF Part
  <2> QED
    BY <1>6, <2>1, <2>2
<1> QED
  BY <1>2, <1>3, <1>4, <1>5, <1>6, <1>7 DEF Part

\* Nothing is timed where no event is enqueued.
LEMMA PlainPart ==
  ASSUME NEW o, NEW S, NEW sc \in Seq(S), \A j \in 1 .. Len(sc) : sc[j].do \notin {"start", "stop"},
         Fed(o, sc)
  PROVE  Part(o, S, sc, 0, 0)
<1>1. \A j \in 1 .. Len(sc) : sc[j] # StartEvent /\ sc[j] # StopEvent
  BY StepFields
<1>2. /\ Alternates(sc, StartEvent, StopEvent)
      /\ \A W : Timed(W, sc, Len(sc), StartEvent, StopEvent) = {}
  BY <1>1, NoPair
<1>3. Settled(sc)
  <2>1. 0 \in 0 .. Len(sc)
    OBVIOUS
  <2> QED
    BY <2>1 DEF Settled
<1>4. \A W : TimedIn(W, sc) = 0
  BY <1>2, FS_EmptySet DEF TimedIn
<1> QED
  BY <1>2, <1>3, <1>4 DEF Part, Pieces

LEMMA PartRepeats ==
  ASSUME NEW o, NEW S, NEW sc, NEW l \in Nat, NEW m \in Nat, Part(o, S, sc, l, m),
         NEW n \in Nat, NEW loop, loop = Repeated(n, sc)
  PROVE  Part(o, S, loop, n * l, n * m)
<1> DEFINE seqs == [i \in 1 .. n |-> sc]
           T == {p \in Seq(S) \X (Nat \X Nat) : Part(o, S, p[1], p[2][1], p[2][2])}
           g == [i \in 0 .. n |-> <<i * l, i * m>>]
<1>1. seqs \in Seq(Seq(S)) /\ Len(seqs) = n /\ \A i \in 1 .. n : seqs[i] = sc
  BY DEF Part
<1>2. \A i \in 0 .. n : g[i] = <<i * l, i * m>> /\ i * l \in Nat /\ i * m \in Nat
  OBVIOUS
<1>3. \A f \in Seq(S) : \A a, b \in Nat : <<f, <<a, b>>>> \in T <=> Part(o, S, f, a, b)
  OBVIOUS
<1>4. loop = FlattenSeq(seqs)
  BY DEF Repeat, Repeated
<1> HIDE DEF seqs, T, g
<1>5. <<<< >>, g[0]>> \in T
  <2>1. PICK e \in Seq(S) : e = << >>
    <3>1. << >> \in Seq(S)
      OBVIOUS
    <3> QED
      BY <3>1
  <2>2. \A j \in 1 .. Len(e) : FALSE
    BY <2>1
  <2>3. Part(o, S, e, 0, 0)
    <3>1. Fed(o, e)
      BY <2>2 DEF Fed
    <3> QED
      BY <2>2, <3>1, PlainPart
  <2>4. g[0] = <<0, 0>>
    <3>1. 0 \in 0 .. n /\ 0 * l = 0 /\ 0 * m = 0
      OBVIOUS
    <3> QED
      BY <1>2, <3>1
  <2>5. <<e, <<0, 0>>>> \in T
    BY ONLY <1>3, <2>3
  <2> QED
    BY <2>1, <2>4, <2>5
<1>6. ASSUME NEW i \in 1 .. n, NEW f \in Seq(S), <<f, g[i - 1]>> \in T
      PROVE  <<f \o seqs[i], g[i]>> \in T
  <2>1. /\ i - 1 \in 0 .. n /\ i \in 0 .. n
        /\ (i - 1) * l + l = i * l /\ (i - 1) * m + m = i * m
    OBVIOUS
  <2>2. /\ g[i - 1] = <<(i - 1) * l, (i - 1) * m>> /\ g[i] = <<i * l, i * m>>
        /\ (i - 1) * l \in Nat /\ (i - 1) * m \in Nat /\ i * l \in Nat /\ i * m \in Nat
    BY <1>2, <2>1
  <2>3. Part(o, S, f, (i - 1) * l, (i - 1) * m)
    BY <1>3, <1>6, <2>2
  <2>4. Part(o, S, f \o sc, i * l, i * m)
    <3>1. Part(o, S, f \o sc, (i - 1) * l + l, (i - 1) * m + m)
      BY <2>2, <2>3, PartConcat
    <3> QED
      BY <2>1, <3>1
  <2>5. f \o sc \in Seq(S)
    BY <2>4 DEF Part
  <2> QED
    BY <1>1, <1>3, <2>2, <2>4, <2>5
<1>7. <<FlattenSeq(seqs), g[n]>> \in T
  BY <1>1, <1>5, <1>6, FlattenInduces
<1>8. n \in 0 .. n /\ FlattenSeq(seqs) \in Seq(S)
  BY <1>1, FlattenIn
<1> QED
  BY <1>2, <1>3, <1>4, <1>7, <1>8

\* How often kernel k is the lookup, the maintain.
Is(k, kernel) == IF k = kernel THEN 1 ELSE 0

\* The operator's call: its kernel, and a wrapper's copy back.
Call(o, k) == IF k = "maintain" THEN MaintainCall(o) ELSE <<Lookup>>

LEMMA CallIs ==
  ASSUME NEW o, NEW k \in Kernels, NEW S, {Kernel(k), CopyBack} \subseteq S
  PROVE  \E n \in {1, 2} :
           /\ Call(o, k) \in Seq(S) /\ Len(Call(o, k)) = n /\ Call(o, k)[1] = Kernel(k)
           /\ n = 2 => Call(o, k)[2] = CopyBack
           /\ n = Pieces(o, Is(k, "lookup"), Is(k, "maintain"))
<1>1. k = "lookup" \/ k = "maintain"
  BY DEF Kernels
<1>2. /\ <<Kernel(k)>> \in Seq(S) /\ Len(<<Kernel(k)>>) = 1 /\ <<Kernel(k)>>[1] = Kernel(k)
      /\ <<Kernel(k), CopyBack>> \in Seq(S) /\ Len(<<Kernel(k), CopyBack>>) = 2
      /\ <<Kernel(k), CopyBack>>[1] = Kernel(k) /\ <<Kernel(k), CopyBack>>[2] = CopyBack
  OBVIOUS
<1>3. CASE k = "maintain" /\ Returns(o)
  <2>1. Call(o, k) = <<Kernel(k), CopyBack>>
    BY <1>3 DEF Call, MaintainCall, Maintain, Kernel
  <2>2. 2 = Pieces(o, Is(k, "lookup"), Is(k, "maintain"))
    BY <1>3 DEF Pieces, Is
  <2> QED
    BY <1>2, <2>1, <2>2
<1>4. CASE ~ (k = "maintain" /\ Returns(o))
  <2>1. Call(o, k) = <<Kernel(k)>>
    BY <1>1, <1>4 DEF Call, MaintainCall, Maintain, Lookup, Kernel
  <2>2. 1 = Pieces(o, Is(k, "lookup"), Is(k, "maintain"))
    BY <1>1, <1>4 DEF Pieces, Is
  <2> QED
    BY <1>2, <2>1, <2>2
<1> QED
  BY <1>3, <1>4

\* The pieces of a call with tensors loaded for it are not timed.
LEMMA WarmParts ==
  ASSUME NEW o, NEW k \in Kernels, NEW load \in {Upload(k), Restore(k)},
         NEW S, {load, Synchronize, Kernel(k), CopyBack} \subseteq S
  PROVE  /\ Part(o, S, <<load, Synchronize>> \o Call(o, k), 0, 0)
         /\ Part(o, S, (<<load>> \o Call(o, k)) \o <<Synchronize>>, 0, 0)
<1>1. load \in S /\ Synchronize \in S /\ Kernel(k) \in S /\ CopyBack \in S
  OBVIOUS
<1>2. load.do \in {"upload", "restore"} /\ Kernel(k).do \in Kernels
      /\ CopyBack.do = "return" /\ Synchronize.do = "sync"
  BY StepFields
<1>3. ASSUME NEW sc \in Seq(S), NEW p \in {2, 3}, Len(sc) >= p, sc[1] = load, sc[p] = Kernel(k),
             \A j \in 1 .. Len(sc) : j = 1 \/ j = p \/ sc[j] \in {Synchronize, CopyBack}
      PROVE  Part(o, S, sc, 0, 0)
  <2>1. \A j \in 1 .. Len(sc) : sc[j] \in {load, Kernel(k), Synchronize, CopyBack}
    BY <1>3
  <2>2. \A j \in 1 .. Len(sc) : sc[j].do \notin {"start", "stop", "snapshot"}
    BY <1>2, <2>1, StepFields
  <2>3. ASSUME NEW j \in 1 .. Len(sc), NEW l \in Kernels,
               sc[j] = Snapshot(l) \/ sc[j] = Kernel(l)
        PROVE  Fresh(sc, j, l)
    <3>1. sc[j] = Kernel(l)
      BY <2>2, <2>3, StepFields
    <3>2. j = p /\ sc[j] = Kernel(k) /\ l = k
      <4>1. j # 1 /\ sc[j] \notin {Synchronize, CopyBack}
        BY <1>2, <1>3, <3>1, StepFields
      <4> QED
        BY <1>3, <3>1, <4>1, StepFields
    <3>3. 1 \in 1 .. j - 1
      BY <3>2
    <3>4. sc[1] \in {Upload(l), Restore(l)}
      BY <1>3, <3>2
    <3>5. ASSUME NEW m \in 1 + 1 .. j - 1 PROVE sc[m].do \notin Writers
      <4>1. m \in 1 .. Len(sc) /\ m # 1 /\ m # p
        BY <1>3, <3>2
      <4>2. sc[m] \in {Synchronize, CopyBack}
        BY <1>3, <4>1
      <4> QED
        BY <1>2, <4>2 DEF Writers
    <3> QED
      BY <3>3, <3>4, <3>5 DEF Fresh, Latest
  <2>4. Fed(o, sc)
    BY <2>3 DEF Fed
  <2> QED
    BY <2>2, <2>4, PlainPart
<1>4. PICK call, n, x, y, z :
        /\ call = Call(o, k) /\ n = Len(call)
        /\ x = <<load, Synchronize>> /\ y = <<load>> /\ z = <<Synchronize>>
  OBVIOUS
<1>5. /\ call \in Seq(S) /\ n \in {1, 2} /\ Len(call) = n /\ call[1] = Kernel(k)
      /\ \A j \in 1 .. n : j = 1 \/ call[j] = CopyBack
  <2>1. {Kernel(k), CopyBack} \subseteq S
    BY <1>1
  <2>2. PICK c \in {1, 2} :
           /\ call \in Seq(S) /\ Len(call) = c /\ call[1] = Kernel(k)
           /\ c = 2 => call[2] = CopyBack
    BY <1>4, <2>1, CallIs
  <2>3. \A j \in 1 .. c : j = 1 \/ (j = 2 /\ c = 2)
    OBVIOUS
  <2> QED
    BY <1>4, <2>2, <2>3
<1>6. /\ x \in Seq(S) /\ Len(x) = 2 /\ x[1] = load /\ x[2] = Synchronize
      /\ y \in Seq(S) /\ Len(y) = 1 /\ y[1] = load
      /\ z \in Seq(S) /\ Len(z) = 1 /\ z[1] = Synchronize
  BY <1>1, <1>4
<1>7. Part(o, S, x \o call, 0, 0)
  <2>1. PICK sc, a : sc = x \o call /\ a = Len(x)
    OBVIOUS
  <2>2. a = 2
    BY <1>6, <2>1
  <2>3. /\ sc \in Seq(S) /\ Len(sc) = a + n
        /\ \A j \in 1 .. a : sc[j] = x[j]
        /\ \A j \in 1 .. n : sc[a + j] = call[j]
        /\ \A j \in 1 .. a + n : j \in 1 .. a \/ \E i \in 1 .. n : j = a + i
    BY <1>4, <1>5, <1>6, <2>1, ConcatAt
  <2>4. 1 \in 1 .. a /\ 1 \in 1 .. n /\ a + 1 = 3 /\ 3 \in {2, 3} /\ Len(sc) >= 3
        /\ \A j \in 1 .. a : j = 1 \/ j = 2
    BY <1>5, <2>2, <2>3
  <2>5. sc[1] = load /\ sc[3] = Kernel(k)
    BY <1>5, <1>6, <2>3, <2>4
  <2>6. \A j \in 1 .. Len(sc) : j = 1 \/ j = 3 \/ sc[j] \in {Synchronize, CopyBack}
    <3> TAKE j \in 1 .. Len(sc)
    <3>1. CASE j \in 1 .. a
      BY <1>6, <2>3, <2>4, <3>1
    <3>2. ASSUME NEW i \in 1 .. n, j = a + i PROVE j = 3 \/ sc[j] = CopyBack
      BY <1>5, <2>3, <2>4, <3>2
    <3> QED
      BY <2>3, <3>1, <3>2
  <2>7. Part(o, S, sc, 0, 0)
    BY <1>3, <2>3, <2>4, <2>5, <2>6
  <2> QED
    BY <2>1, <2>7
<1>8. Part(o, S, (y \o call) \o z, 0, 0)
  <2>1. PICK sc, a : sc = (y \o call) \o z /\ a = 1
    OBVIOUS
  <2>2. a = Len(y) /\ a = Len(z) /\ a = 1
    BY <1>6, <2>1
  <2>3. sc \in Seq(S) /\ Around(sc, y, call, z, a, n, a)
    BY ONLY <1>4, <1>5, <1>6, <2>1, <2>2, AroundAt
  <2>4. /\ Len(sc) = (a + n) + a
        /\ \A j \in 1 .. a : sc[j] = y[j]
        /\ \A i \in 1 .. n : sc[a + i] = call[i]
        /\ \A j \in 1 .. a : sc[(a + n) + j] = z[j]
        /\ \A j \in 1 .. Len(sc) : \/ j \in 1 .. a
                                   \/ \E i \in 1 .. n : j = a + i
                                   \/ \E i \in 1 .. a : j = (a + n) + i
    BY <2>3 DEF Around
  <2>5. 1 \in 1 .. a /\ 1 \in 1 .. n /\ a + 1 = 2 /\ 2 \in {2, 3} /\ Len(sc) >= 2
        /\ \A j \in 1 .. a : j = 1
    BY <1>5, <2>2, <2>4
  <2>6. sc[1] = load /\ sc[2] = Kernel(k)
    BY <1>5, <1>6, <2>4, <2>5
  <2>7. \A j \in 1 .. Len(sc) : j = 1 \/ j = 2 \/ sc[j] \in {Synchronize, CopyBack}
    <3> TAKE j \in 1 .. Len(sc)
    <3>1. ASSUME NEW i \in 1 .. n, j = a + i PROVE j = 2 \/ sc[j] = CopyBack
      BY <1>5, <2>4, <2>5, <3>1
    <3>2. ASSUME NEW i \in 1 .. a, j = (a + n) + i PROVE sc[j] = Synchronize
      BY <1>6, <2>4, <2>5, <3>2
    <3> QED
      BY <2>4, <2>5, <3>1, <3>2
  <2>8. Part(o, S, sc, 0, 0)
    BY <1>3, <2>3, <2>5, <2>6, <2>7
  <2> QED
    BY <2>1, <2>8
<1> QED
  BY <1>4, <1>7, <1>8

\* Of a call between events nothing else is timed.
LEMMA TimedPart ==
  ASSUME NEW o, NEW k \in Kernels, NEW load \in {Upload(k), Restore(k)},
         NEW S, {load, Synchronize, Kernel(k), CopyBack, StartEvent, StopEvent} \subseteq S
  PROVE  Part(o, S, (<<load, Synchronize, StartEvent>> \o Call(o, k)) \o <<StopEvent, Synchronize>>,
              Is(k, "lookup"), Is(k, "maintain"))
<1>1. load \in S /\ Synchronize \in S /\ Kernel(k) \in S /\ CopyBack \in S
      /\ StartEvent \in S /\ StopEvent \in S
  OBVIOUS
<1>2. load.do \in {"upload", "restore"} /\ Kernel(k).do = k /\ k \in {"lookup", "maintain"}
      /\ CopyBack.do = "return"
  BY StepFields
<1>3. PICK sc, call, x, z, l, m :
        /\ call = Call(o, k) /\ x = <<load, Synchronize, StartEvent>>
        /\ z = <<StopEvent, Synchronize>> /\ sc = (x \o call) \o z
        /\ l = Is(k, "lookup") /\ m = Is(k, "maintain")
  OBVIOUS
<1>4. PICK n \in {1, 2} :
        /\ call \in Seq(S) /\ Len(call) = n /\ call[1] = Kernel(k)
        /\ n = 2 => call[2] = CopyBack
        /\ n = Pieces(o, l, m)
  <2>1. {Kernel(k), CopyBack} \subseteq S
    BY <1>1
  <2> QED
    BY <1>3, <2>1, CallIs
<1>5. /\ x \in Seq(S) /\ Len(x) = 3 /\ x[1] = load /\ x[2] = Synchronize /\ x[3] = StartEvent
      /\ z \in Seq(S) /\ Len(z) = 2 /\ z[1] = StopEvent /\ z[2] = Synchronize
  BY <1>1, <1>3
<1>6. /\ sc \in Seq(S) /\ Len(sc) = n + 5 /\ sc[1] = load /\ sc[2] = Synchronize
      /\ sc[3] = StartEvent /\ sc[4] = Kernel(k) /\ (n = 2 => sc[5] = CopyBack)
      /\ sc[n + 4] = StopEvent /\ sc[n + 5] = Synchronize
  <2>1. PICK a, b : a = 3 /\ b = 2
    OBVIOUS
  <2>2. a = Len(x) /\ b = Len(z) /\ n = Len(call)
    BY <1>4, <1>5, <2>1
  <2>3. sc \in Seq(S) /\ Around(sc, x, call, z, a, n, b)
    BY ONLY <1>3, <1>4, <1>5, <2>2, AroundAt
  <2>4. /\ Len(sc) = (a + n) + b
        /\ \A j \in 1 .. a : sc[j] = x[j]
        /\ \A i \in 1 .. n : sc[a + i] = call[i]
        /\ \A j \in 1 .. b : sc[(a + n) + j] = z[j]
    BY <2>3 DEF Around
  <2>5. /\ 1 \in 1 .. a /\ 2 \in 1 .. a /\ 3 \in 1 .. a /\ 1 \in 1 .. n /\ (n = 2 => 2 \in 1 .. n)
        /\ 1 \in 1 .. b /\ 2 \in 1 .. b /\ a + 1 = 4 /\ a + 2 = 5
        /\ (a + n) + 1 = n + 4 /\ (a + n) + 2 = n + 5 /\ (a + n) + b = n + 5
    BY <2>1
  <2>6. sc[1] = load /\ sc[2] = Synchronize /\ sc[3] = StartEvent
    BY <1>5, <2>4, <2>5
  <2>7. sc[4] = Kernel(k) /\ (n = 2 => sc[5] = CopyBack)
    BY <1>4, <2>4, <2>5
  <2>8. sc[n + 4] = StopEvent /\ sc[n + 5] = Synchronize
    BY <1>5, <2>4, <2>5
  <2> QED
    BY <2>3, <2>4, <2>5, <2>6, <2>7, <2>8
<1>7. \A j \in 1 .. Len(sc) : j = 1 \/ j = 2 \/ j = 3 \/ j = 4 \/ (j = 5 /\ n = 2) \/ j = n + 4 \/ j = n + 5
  BY <1>6
<1>8. \A j \in 1 .. Len(sc) : (sc[j] = StartEvent <=> j = 3) /\ (sc[j] = StopEvent <=> j = n + 4)
  BY <1>2, <1>6, <1>7, StepFields
<1>9. /\ Alternates(sc, StartEvent, StopEvent)
      /\ \A j \in 1 .. Len(sc) + 1 : Between(sc, j, StartEvent, StopEvent) <=> 3 < j /\ j <= n + 4
  <2>1. PICK p, q : p = 3 /\ q = n + 4
    OBVIOUS
  <2>2. p \in 1 .. Len(sc) /\ q \in 1 .. Len(sc) /\ p < q /\ StartEvent # StopEvent
    BY <1>6, <2>1, StepFields
  <2>3. sc \in Seq(S)
    BY <1>6
  <2>4. \A j \in 1 .. Len(sc) : (sc[j] = StartEvent <=> j = p) /\ (sc[j] = StopEvent <=> j = q)
    BY <1>8, <2>1
  <2>5. /\ Alternates(sc, StartEvent, StopEvent)
        /\ \A j \in 1 .. Len(sc) + 1 : Between(sc, j, StartEvent, StopEvent) <=> p < j /\ j <= q
    BY ONLY <2>2, <2>3, <2>4, OnePair
  <2> QED
    BY <2>1, <2>5
<1>10. ASSUME NEW W, "stop" \notin W
       PROVE  TimedIn(W, sc) = (IF k \in W THEN 1 ELSE 0)
                               + (IF n = 2 /\ "return" \in W THEN 1 ELSE 0)
  <2>1. Timed(W, sc, Len(sc), StartEvent, StopEvent) =
          (IF k \in W THEN {4} ELSE {}) \cup (IF n = 2 /\ "return" \in W THEN {5} ELSE {})
    <3>1. ASSUME NEW j \in 1 .. n + 5
          PROVE  Between(sc, j, StartEvent, StopEvent) <=> 3 < j /\ j <= n + 4
      BY <1>6, <1>9
    <3>2. ASSUME NEW j \in 1 .. n + 5
          PROVE  (3 < j /\ j <= n + 4 /\ sc[j].do \in W)
                   <=> (j = 4 /\ k \in W) \/ (j = 5 /\ n = 2 /\ "return" \in W)
      <4>1. sc[n + 4].do = "stop" /\ sc[4].do = k /\ (n = 2 => sc[5].do = "return")
        BY <1>2, <1>6, StepFields
      <4>2. 3 < j /\ j <= n + 4 <=> j = 4 \/ (j = 5 /\ n = 2) \/ j = n + 4
        OBVIOUS
      <4> QED
        BY <1>10, <4>1, <4>2
    <3>3. 4 \in 1 .. n + 5 /\ 5 \in 1 .. n + 5
      OBVIOUS
    <3>4. Timed(W, sc, Len(sc), StartEvent, StopEvent) =
            {j \in 1 .. n + 5 : 3 < j /\ j <= n + 4 /\ sc[j].do \in W}
      BY <1>6, <3>1 DEF Timed, Work
    <3> QED
      BY <3>2, <3>3, <3>4
  <2>2. Cardinality({4, 5}) = 2
    <3>1. PICK p, q \in Int : p = 4 /\ q = 5
      OBVIOUS
    <3>2. Cardinality(p .. q) = IF p > q THEN 0 ELSE q - p + 1
      BY ONLY p \in Int, q \in Int, FS_Interval
    <3>3. p .. q = {4, 5} /\ ~ p > q /\ q - p + 1 = 2
      BY <3>1
    <3> QED
      BY <3>2, <3>3
  <2>3. CASE k \in W /\ n = 2 /\ "return" \in W
    <3>1. Timed(W, sc, Len(sc), StartEvent, StopEvent) = {4, 5}
      BY <2>1, <2>3
    <3> QED
      BY <2>2, <2>3, <3>1 DEF TimedIn
  <2>4. CASE ~ (k \in W /\ n = 2 /\ "return" \in W)
    <3>1. Cardinality({4}) = 1 /\ Cardinality({5}) = 1 /\ Cardinality({}) = 0
      BY FS_EmptySet, FS_Singleton
    <3>2. CASE k \in W
      <4>1. Timed(W, sc, Len(sc), StartEvent, StopEvent) = {4}
        BY <2>1, <2>4, <3>2
      <4> QED
        BY <2>4, <3>1, <3>2, <4>1 DEF TimedIn
    <3>3. CASE k \notin W /\ n = 2 /\ "return" \in W
      <4>1. Timed(W, sc, Len(sc), StartEvent, StopEvent) = {5}
        BY <2>1, <3>3
      <4> QED
        BY <3>1, <3>3, <4>1 DEF TimedIn
    <3>4. CASE k \notin W /\ ~ (n = 2 /\ "return" \in W)
      <4>1. Timed(W, sc, Len(sc), StartEvent, StopEvent) = {}
        BY <2>1, <3>4
      <4> QED
        BY <3>1, <3>4, <4>1 DEF TimedIn
    <3> QED
      BY <3>2, <3>3, <3>4
  <2> QED
    BY <2>3, <2>4
<1>11. /\ TimedIn({"lookup"}, sc) = l /\ TimedIn({"maintain"}, sc) = m
       /\ TimedIn(Works, sc) = Pieces(o, l, m)
  <2>1. TimedIn({"lookup"}, sc) = l
    <3>1. PICK W : W = {"lookup"}
      OBVIOUS
    <3>2. "stop" \notin W /\ "return" \notin W /\ (k \in W <=> k = "lookup")
      BY <3>1
    <3>3. TimedIn(W, sc) = (IF k \in W THEN 1 ELSE 0) + (IF n = 2 /\ "return" \in W THEN 1 ELSE 0)
      BY <1>10, <3>2
    <3>4. TimedIn(W, sc) = IF k = "lookup" THEN 1 ELSE 0
      BY <3>2, <3>3
    <3> QED
      BY <1>3, <3>1, <3>4 DEF Is
  <2>2. TimedIn({"maintain"}, sc) = m
    <3>1. PICK W : W = {"maintain"}
      OBVIOUS
    <3>2. "stop" \notin W /\ "return" \notin W /\ (k \in W <=> k = "maintain")
      BY <3>1
    <3>3. TimedIn(W, sc) = (IF k \in W THEN 1 ELSE 0) + (IF n = 2 /\ "return" \in W THEN 1 ELSE 0)
      BY <1>10, <3>2
    <3>4. TimedIn(W, sc) = IF k = "maintain" THEN 1 ELSE 0
      BY <3>2, <3>3
    <3> QED
      BY <1>3, <3>1, <3>4 DEF Is
  <2>3. TimedIn(Works, sc) = 1 + (IF n = 2 THEN 1 ELSE 0)
    <3>1. "stop" \notin Works /\ k \in Works /\ "return" \in Works
      BY <1>2 DEF Works
    <3> QED
      BY <1>10, <3>1
  <2> QED
    BY <1>4, <2>1, <2>2, <2>3
<1>12. Settled(sc)
  <2>1. n + 5 \in 0 .. Len(sc) /\ \A i \in (n + 5) + 1 .. Len(sc) : FALSE
    BY <1>6
  <2> QED
    BY <1>6, <2>1, StepFields DEF Settled
<1>13. Fed(o, sc)
  <2> SUFFICES ASSUME NEW j \in 1 .. Len(sc), NEW i \in Kernels,
                      sc[j] = Snapshot(i) \/ sc[j] = Kernel(i)
               PROVE  Fresh(sc, j, i)
    BY DEF Fed
  <2>1. j = 4 /\ i = k
    <3>1. sc[j].do \in {"snapshot", "lookup", "maintain"}
      BY StepFields
    <3>2. sc[1].do \in {"upload", "restore"} /\ sc[2].do = "sync" /\ sc[3].do = "start"
          /\ (n = 2 => sc[5].do = "return") /\ sc[n + 4].do = "stop" /\ sc[n + 5].do = "sync"
      BY <1>2, <1>6, StepFields
    <3>3. j = 4
      <4>1. j # 1 /\ j # 2 /\ j # 3 /\ ~ (j = 5 /\ n = 2)
        BY <3>1, <3>2
      <4>2. j # n + 4 /\ j # n + 5
        BY <3>1, <3>2
      <4> QED
        BY <1>7, <4>1, <4>2
    <3>4. sc[j] = Kernel(k)
      BY <1>6, <3>3
    <3>5. Kernel(k) # Snapshot(i)
      BY <1>2, StepFields
    <3> QED
      BY <3>3, <3>4, <3>5, StepFields
  <2>2. 1 \in 1 .. j - 1 /\ \A h \in 1 + 1 .. j - 1 : h = 2 \/ h = 3
    BY <2>1
  <2>3. sc[1] \in {Upload(i), Restore(i)} /\ \A h \in 1 + 1 .. j - 1 : sc[h].do \notin Writers
    BY <1>6, <2>1, <2>2, StepFields DEF Writers
  <2> QED
    BY <2>2, <2>3 DEF Fresh, Latest
<1>14. Part(o, S, sc, l, m)
  BY <1>6, <1>9, <1>11, <1>12, <1>13 DEF Part
<1> QED
  BY <1>3, <1>14

\* The loop that restores nothing, of lookups alone.
LEMMA LookupLoopPart ==
  ASSUME NEW o, ~ o.reset
  PROVE  Part(o, LoopSteps("lookup"), TimeIterations(Lookup), Iters, 0)
<1> DEFINE S == LoopSteps("lookup")
<1>1. PICK w, x, r, y, n :
        /\ w = Repeat(Warmup, LAMBDA i : <<Lookup>>)
        /\ x = <<Synchronize, StartEvent>>
        /\ r = Repeat(Iters, LAMBDA i : <<Lookup>>)
        /\ y = <<StopEvent, Synchronize>>
        /\ n = Iters
  OBVIOUS
<1>2. n = Iters /\ n \in Nat /\ Warmup \in Nat
  <2>1. n = Iters
    BY <1>1
  <2> QED
    BY <2>1, ScriptAssumption
<1>3. Lookup = Kernel("lookup") /\ Lookup.do = "lookup" /\ "lookup" \in Kernels
  BY StepFields DEF Lookup, Kernel, Kernels
<1>4. /\ Lookup \in S /\ Synchronize \in S /\ StartEvent \in S /\ StopEvent \in S
  BY <1>3 DEF LoopSteps
<1>5. PICK one : one = <<Lookup>>
  OBVIOUS
<1>6. one \in Seq(S) /\ one \in Seq({Lookup}) /\ Len(one) = 1 /\ one[1] = Lookup
  BY <1>4, <1>5
<1>7. w = Repeated(Warmup, one) /\ r = Repeated(n, one)
  BY <1>1, <1>5 DEF Repeated, Repeat
<1>8. w \in Seq({Lookup}) /\ r \in Seq({Lookup})
  BY <1>2, <1>6, <1>7, RepeatIn DEF Repeated
<1>9. Seq({Lookup}) \subseteq Seq(S)
  BY <1>4
<1>10. Part(o, S, w, 0, 0)
  <2>1. \A j \in 1 .. Len(w) : w[j] = Lookup
    BY <1>8
  <2>2. Fed(o, w)
    BY <2>1, <1>3, StepFields DEF Fed
  <2>3. \A j \in 1 .. Len(w) : w[j].do \notin {"start", "stop"}
    BY <2>1, <1>3
  <2> QED
    BY <1>8, <1>9, <2>2, <2>3, PlainPart
<1>11. Cardinality(Work({"lookup"}, r, Len(r))) = n
       /\ Cardinality(Work(Works, r, Len(r))) = n
       /\ Cardinality(Work({"maintain"}, r, Len(r))) = 0
  <2>1. ASSUME NEW W, NEW c \in Nat, c = IF "lookup" \in W THEN 1 ELSE 0
        PROVE  Cardinality(Work(W, r, Len(r))) = n * c
    <3>1. Work(W, one, Len(one)) = IF "lookup" \in W THEN {1} ELSE {}
      BY <1>3, <1>6 DEF Work
    <3>2. c = Cardinality(Work(W, one, Len(one)))
      BY <2>1, <3>1, FS_EmptySet, FS_Singleton
    <3>3. one \in Seq({Lookup}) /\ n \in Nat /\ r = Repeated(n, one)
      BY <1>2, <1>6, <1>7
    <3> QED
      BY ONLY <3>2, <3>3, c \in Nat, RepeatWork
  <2>2. n * 1 = n /\ n * 0 = 0
    BY <1>2
  <2>3. "lookup" \in {"lookup"} /\ "lookup" \in Works /\ "lookup" \notin {"maintain"}
    BY DEF Works
  <2>4. Cardinality(Work({"lookup"}, r, Len(r))) = n * 1
    BY <2>1, <2>3
  <2>5. Cardinality(Work(Works, r, Len(r))) = n * 1
    BY <2>1, <2>3
  <2>6. Cardinality(Work({"maintain"}, r, Len(r))) = n * 0
    BY <2>1, <2>3
  <2> QED
    BY <2>2, <2>4, <2>5, <2>6
<1>12. PICK t : t = (x \o r) \o y
  OBVIOUS
<1>13. /\ x \in Seq(S) /\ Len(x) = 2 /\ x[1] = Synchronize /\ x[2] = StartEvent
       /\ y \in Seq(S) /\ Len(y) = 2 /\ y[1] = StopEvent /\ y[2] = Synchronize
  <2>1. x = <<Synchronize, StartEvent>> /\ y = <<StopEvent, Synchronize>>
    BY <1>1
  <2> HIDE DEF S
  <2>2. \A a, b \in S : /\ <<a, b>> \in Seq(S) /\ Len(<<a, b>>) = 2
                        /\ <<a, b>>[1] = a /\ <<a, b>>[2] = b
    OBVIOUS
  <2> QED
    BY ONLY <1>4, <2>1, <2>2
<1>14. PICK k \in Nat : k = Len(r)
  BY <1>8
<1>15. t \in Seq(S) /\ Around(t, x, r, y, 2, k, 2)
  <2>1. r \in Seq(S)
    BY <1>8, <1>9
  <2> HIDE DEF S
  <2>2. PICK two : two = 2
    OBVIOUS
  <2>3. two = Len(x) /\ two = Len(y)
    BY <1>13, <2>2
  <2>4. t \in Seq(S) /\ Around(t, x, r, y, two, k, two)
    BY ONLY <1>12, <1>13, <1>14, <2>1, <2>3, AroundAt
  <2> QED
    BY <2>2, <2>4
<1>16. /\ Len(t) = (2 + k) + 2
       /\ \A j \in 1 .. 2 : t[j] = x[j]
       /\ \A i \in 1 .. k : t[2 + i] = r[i]
       /\ \A j \in 1 .. 2 : t[(2 + k) + j] = y[j]
       /\ \A j \in 1 .. Len(t) : \/ j \in 1 .. 2
                                 \/ \E i \in 1 .. k : j = 2 + i
                                 \/ \E i \in 1 .. 2 : j = (2 + k) + i
  BY <1>15 DEF Around
<1>17. /\ Alternates(t, StartEvent, StopEvent)
       /\ TimesInside(t, x, r, y, StartEvent, StopEvent)
  <2>1. \A j \in 1 .. 2 : j = 1 \/ j = 2
    OBVIOUS
  <2>2. StartEvent # StopEvent /\ 2 \in 1 .. Len(x) /\ 1 \in 1 .. Len(y)
    BY <1>13, StepFields
  <2>3. \A j \in 1 .. Len(x) : (x[j] = StartEvent <=> j = 2) /\ x[j] # StopEvent
    BY <1>13, <2>1, StepFields
  <2>4. \A j \in 1 .. Len(y) : (y[j] = StopEvent <=> j = 1) /\ y[j] # StartEvent
    BY <1>13, <2>1, StepFields
  <2>5. r \in Seq(S) /\ \A j \in 1 .. Len(r) : r[j] # StartEvent /\ r[j] # StopEvent
    BY <1>3, <1>8, <1>9, StepFields
  <2> HIDE DEF S
  <2> QED
    BY ONLY <1>12, <1>13, <2>2, <2>3, <2>4, <2>5, TimedAround
<1>18. \A W : W \subseteq Works => TimedIn(W, t) = Cardinality(Work(W, r, Len(r)))
  <2>1. \A j \in 1 .. 2 : j = 1 \/ j = 2
    OBVIOUS
  <2>2. /\ \A j \in 1 .. Len(x) : x[j].do \notin Works
        /\ \A j \in 1 .. Len(y) : y[j].do \notin Works
    BY <1>13, <2>1, StepFields DEF Works
  <2> QED
    BY <1>17, <2>2 DEF TimesInside, TimedIn
<1>19. TimedIn({"lookup"}, t) = n /\ TimedIn({"maintain"}, t) = 0 /\ TimedIn(Works, t) = Pieces(o, n, 0)
  <2>1. {"lookup"} \subseteq Works /\ {"maintain"} \subseteq Works /\ Works \subseteq Works
    BY DEF Works
  <2> QED
    BY <1>2, <1>11, <1>18, <2>1 DEF Pieces
<1>20. Settled(t)
  <2>1. k + 4 \in 0 .. Len(t) /\ \A m \in (k + 4) + 1 .. Len(t) : FALSE
    BY <1>16
  <2>2. t[(2 + k) + 2] = Synchronize
    BY <1>13, <1>16
  <2>3. (2 + k) + 2 = k + 4
    OBVIOUS
  <2> QED
    BY <2>1, <2>2, <2>3, StepFields DEF Settled
<1>21. Fed(o, t)
  <2>1. \A j \in 1 .. Len(t) : t[j] \in {Synchronize, StartEvent, StopEvent, Lookup}
    <3>1. \A j \in 1 .. 2 : j = 1 \/ j = 2
      OBVIOUS
    <3> TAKE j \in 1 .. Len(t)
    <3>2. CASE j \in 1 .. 2
      BY <1>13, <1>16, <3>1, <3>2
    <3>3. CASE \E i \in 1 .. k : j = 2 + i
      BY <1>8, <1>14, <1>16, <3>3
    <3>4. CASE \E i \in 1 .. 2 : j = (2 + k) + i
      BY <1>13, <1>16, <3>1, <3>4
    <3> QED
      BY <1>16, <3>2, <3>3, <3>4
  <2> QED
    BY <1>3, <2>1, StepFields DEF Fed
<1>22. Part(o, S, t, n, 0)
  BY <1>15, <1>17, <1>19, <1>20, <1>21 DEF Part
<1>23. Part(o, S, w \o t, 0 + n, 0 + 0)
  <2> HIDE DEF S
  <2>1. 0 \in Nat
    OBVIOUS
  <2> QED
    BY ONLY <1>2, <1>10, <1>22, <2>1, PartConcat
<1>24. TimeIterations(Lookup) = w \o t
  <2>1. TimeIterations(Lookup) = ((w \o x) \o r) \o y
    BY <1>1 DEF TimeIterations
  <2>2. w \in Seq(S) /\ x \in Seq(S) /\ r \in Seq(S) /\ y \in Seq(S)
    BY <1>8, <1>9, <1>13
  <2> HIDE DEF S
  <2>3. ((w \o x) \o r) \o y = w \o ((x \o r) \o y)
    <3>1. (w \o x) \o r = w \o (x \o r)
      BY ONLY <2>2, ConcatAssociative, SMTT(60)
    <3>2. PICK z \in Seq(S) : z = x \o r
      BY ONLY <2>2, ConcatProperties
    <3>3. (w \o z) \o y = w \o (z \o y)
      BY ONLY <2>2, z \in Seq(S), ConcatAssociative, SMTT(60)
    <3> QED
      BY ONLY <3>1, <3>2, <3>3
  <2> QED
    BY <1>12, <2>1, <2>3
<1>25. 0 + n = Iters /\ 0 + 0 = 0
  BY <1>2
<1> QED
  BY <1>23, <1>24, <1>25

LEMMA PartIn ==
  ASSUME NEW o, NEW S, NEW T, S \subseteq T, NEW sc, NEW l, NEW m, Part(o, S, sc, l, m)
  PROVE  Part(o, T, sc, l, m)
<1>1. sc \in Seq(T)
  <2>1. sc \in Seq(S)
    BY DEF Part
  <2> QED
    BY <2>1
<1> QED
  BY <1>1 DEF Part

LEMMA LoopStepsIn ==
  ASSUME NEW k \in Kernels
  PROVE  /\ LoopSteps(k) \subseteq BenchSteps /\ Upload(k) \in BenchSteps
         /\ Snapshot(k) \in BenchSteps /\ Instr("resolve", 0) \in BenchSteps
         /\ \A i \in LoopSteps(k) : i.do # "snapshot"
         /\ \A i \in LoopSteps(k), l \in Kernels : i = Restore(l) => l = k
<1>1. LoopSteps(k) \subseteq BenchSteps /\ Upload(k) \in BenchSteps
      /\ Snapshot(k) \in BenchSteps /\ Instr("resolve", 0) \in BenchSteps
  BY DEF LoopSteps, BenchSteps
<1>2. \A i \in LoopSteps(k) : i.do # "snapshot"
  BY StepFields DEF LoopSteps
<1>3. ASSUME NEW i \in LoopSteps(k), NEW l \in Kernels, i = Restore(l) PROVE l = k
  <2>1. i.do = "restore"
    BY <1>3, StepFields
  <2>2. i = Restore(k)
    BY <2>1, StepFields DEF LoopSteps
  <2> QED
    BY <1>3, <2>2, StepFields
<1> QED
  BY <1>1, <1>2, <1>3

\* A loop over tensors that have been uploaded and cloned.
LEMMA CopiedPart ==
  ASSUME NEW o, NEW k \in Kernels, NEW loop, NEW l \in Nat, NEW m \in Nat,
         Part(o, LoopSteps(k), loop, l, m),
         NEW sc, sc = <<Upload(k), Snapshot(k)>> \o loop
  PROVE  Part(o, BenchSteps, sc, l, m) /\ Restores(sc)
<1>1. PICK f, S : f = <<Upload(k), Snapshot(k)>> /\ S = BenchSteps
  OBVIOUS
<1>2. f \in Seq(S) /\ Len(f) = 2 /\ f[1] = Upload(k) /\ f[2] = Snapshot(k)
  BY <1>1, LoopStepsIn
<1>3. \A j \in 1 .. 2 : j = 1 \/ j = 2
  OBVIOUS
<1>4. Part(o, S, f, 0, 0)
  <2>1. ASSUME NEW j \in 1 .. Len(f), NEW i \in Kernels,
               f[j] = Snapshot(i) \/ f[j] = Kernel(i)
        PROVE  Fresh(f, j, i)
    <3>1. j = 2 /\ i = k
      BY <1>2, <1>3, <2>1, StepFields, SMTT(30)
    <3>2. 1 \in 1 .. j - 1 /\ \A n \in 1 + 1 .. j - 1 : FALSE
      BY <3>1
    <3> QED
      BY <1>2, <3>1, <3>2 DEF Fresh, Latest
  <2>2. Fed(o, f)
    BY <2>1 DEF Fed
  <2>3. \A j \in 1 .. Len(f) : f[j].do \notin {"start", "stop"}
    BY <1>2, <1>3, StepFields
  <2> QED
    BY <1>2, <2>2, <2>3, PlainPart
<1>5. loop \in Seq(LoopSteps(k)) /\ loop \in Seq(S) /\ Part(o, S, loop, l, m)
  <2>1. loop \in Seq(LoopSteps(k))
    BY DEF Part
  <2>2. LoopSteps(k) \subseteq S
    BY <1>1, LoopStepsIn
  <2> QED
    BY <2>1, <2>2, PartIn
<1>6. Part(o, S, f \o loop, l, m)
  <2>1. 0 \in Nat /\ 0 + l = l /\ 0 + m = m
    OBVIOUS
  <2>2. Part(o, S, f \o loop, 0 + l, 0 + m)
    BY ONLY <1>4, <1>5, <2>1, l \in Nat, m \in Nat, PartConcat
  <2> QED
    BY <2>1, <2>2
<1>7. /\ Len(sc) = 2 + Len(loop) /\ Len(loop) \in Nat /\ sc[2] = Snapshot(k)
      /\ \A j \in 3 .. Len(sc) : sc[j] \in LoopSteps(k)
  <2>1. PICK n : n = Len(f)
    OBVIOUS
  <2>2. n = 2 /\ sc = f \o loop
    BY <1>1, <1>2, <2>1
  <2>3. /\ Len(loop) \in Nat /\ Len(sc) = n + Len(loop)
        /\ \A j \in 1 .. n : sc[j] = f[j]
        /\ \A j \in 1 .. Len(loop) : sc[n + j] = loop[j]
    BY <1>2, <1>5, <2>1, <2>2, ConcatAt
  <2>4. ASSUME NEW j \in 3 .. Len(sc) PROVE sc[j] \in LoopSteps(k)
    <3>1. j - 2 \in 1 .. Len(loop) /\ n + (j - 2) = j
      BY <2>2, <2>3
    <3>2. sc[j] = loop[j - 2]
      BY <2>3, <3>1
    <3> QED
      BY <1>5, <3>1, <3>2
  <2> QED
    BY <1>2, <2>2, <2>3, <2>4
<1>8. sc[1] = Upload(k)
  <2>1. 1 \in 1 .. Len(f)
    BY <1>2
  <2> QED
    BY <1>1, <1>2, <1>5, <2>1, ConcatAt
<1>9. Restores(sc)
  <2> SUFFICES ASSUME NEW j \in 1 .. Len(sc), NEW i \in Kernels, sc[j] = Restore(i)
               PROVE  Cloned(sc, j, i)
    BY DEF Restores
  <2>1. sc[j].do = "restore"
    BY StepFields
  <2>2. j # 1 /\ j # 2
    BY <1>7, <1>8, <2>1, StepFields
  <2>3. j \in 3 .. Len(sc)
    BY <2>2
  <2>4. i = k
    BY <1>7, <2>3, LoopStepsIn
  <2>5. 2 \in 1 .. j - 1 /\ \A m2 \in 2 + 1 .. j - 1 : m2 \in 3 .. Len(sc)
    BY <2>3
  <2>6. \A m2 \in 2 + 1 .. j - 1 : sc[m2].do \notin {"snapshot"}
    BY <1>7, <2>5, LoopStepsIn
  <2> QED
    BY <1>7, <2>4, <2>5, <2>6 DEF Cloned, Latest
<1> QED
  BY <1>1, <1>6, <1>9

LEMMA RestoredPart ==
  ASSUME NEW o, NEW k \in Kernels
  PROVE  Part(o, LoopSteps(k), TimeIterationsRestored(k, Call(o, k)),
              Iters * Is(k, "lookup"), Iters * Is(k, "maintain"))
<1>1. PICK warm, once, mid, S :
        /\ warm = <<Restore(k), Synchronize>> \o Call(o, k)
        /\ once = (<<Restore(k), Synchronize, StartEvent>> \o Call(o, k)) \o <<StopEvent, Synchronize>>
        /\ mid = <<Synchronize>> /\ S = LoopSteps(k)
  OBVIOUS
<1>2. {Restore(k), Synchronize, Kernel(k), CopyBack, StartEvent, StopEvent} \subseteq S
  BY <1>1 DEF LoopSteps
<1>3. PICK a, b \in Nat : a = Is(k, "lookup") /\ b = Is(k, "maintain")
  BY DEF Is
<1>4. Part(o, S, warm, 0, 0)
  BY <1>1, <1>2, WarmParts
<1>5. Part(o, S, once, a, b)
  BY <1>1, <1>2, <1>3, TimedPart
<1>6. Part(o, S, mid, 0, 0)
  <2>1. mid \in Seq(S) /\ Len(mid) = 1 /\ mid[1] = Synchronize
    BY <1>1, <1>2
  <2>2. \A j \in 1 .. Len(mid) : mid[j] = Synchronize
    BY <2>1
  <2>3. Fed(o, mid)
    BY <2>2, StepFields DEF Fed
  <2> QED
    BY <2>1, <2>2, <2>3, StepFields, PlainPart
<1>7. Warmup \in Nat /\ Iters \in Nat
  BY ScriptAssumption
<1>8. PICK w, z : w = Repeat(Warmup, LAMBDA i : warm) /\ z = Repeat(Iters, LAMBDA i : once)
  OBVIOUS
<1>9. Part(o, S, w, 0, 0) /\ Part(o, S, z, Iters * a, Iters * b)
  <2>1. 0 \in Nat /\ Warmup * 0 = 0
    BY <1>7
  <2>2. w = Repeated(Warmup, warm) /\ z = Repeated(Iters, once)
    BY <1>8 DEF Repeated, Repeat
  <2>3. Part(o, S, w, Warmup * 0, Warmup * 0)
    BY ONLY <1>4, <1>7, <2>1, <2>2, PartRepeats
  <2>4. Part(o, S, z, Iters * a, Iters * b)
    BY ONLY <1>3, <1>5, <1>7, <2>2, PartRepeats
  <2> QED
    BY <2>1, <2>3, <2>4
<1>10. Part(o, S, (w \o mid) \o z, Iters * a, Iters * b)
  <2>1. Part(o, S, w \o mid, 0, 0)
    <3>1. 0 \in Nat /\ 0 + 0 = 0
      OBVIOUS
    <3> QED
      BY ONLY <1>6, <1>9, <3>1, PartConcat
  <2>2. PICK p, q \in Nat : p = Iters * a /\ q = Iters * b
    BY <1>7
  <2>3. Part(o, S, (w \o mid) \o z, 0 + p, 0 + q)
    BY <1>9, <2>1, <2>2, PartConcat
  <2> QED
    BY <2>2, <2>3
<1>11. TimeIterationsRestored(k, Call(o, k)) = (w \o mid) \o z
  BY <1>1, <1>8 DEF TimeIterationsRestored, Repeat
<1> QED
  BY <1>1, <1>3, <1>10, <1>11

LEMMA ChainedPart ==
  ASSUME NEW o
  PROVE  Part(o, BenchSteps, BenchMaintainChained(o), 0, 1) /\ Restores(BenchMaintainChained(o))
<1>1. PICK k, warm, once, S :
        /\ k = "maintain"
        /\ warm = (<<Upload(k)>> \o Call(o, k)) \o <<Synchronize>>
        /\ once = (<<Upload(k), Synchronize, StartEvent>> \o Call(o, k)) \o <<StopEvent, Synchronize>>
        /\ S = {Upload(k), Synchronize, Kernel(k), CopyBack, StartEvent, StopEvent}
  OBVIOUS
<1>2. k \in Kernels
  BY <1>1 DEF Kernels
<1>3. Part(o, S, warm, 0, 0) /\ Part(o, S, once, 0, 1)
  <2>1. Is(k, "lookup") = 0 /\ Is(k, "maintain") = 1
    BY <1>1 DEF Is
  <2>2. Part(o, S, warm, 0, 0)
    BY <1>1, <1>2, WarmParts
  <2>3. Part(o, S, once, Is(k, "lookup"), Is(k, "maintain"))
    BY <1>1, <1>2, TimedPart
  <2> QED
    BY <2>1, <2>2, <2>3
<1>4. PICK w : w = Repeat(Warmup, LAMBDA i : warm)
  OBVIOUS
<1>5. Warmup \in Nat /\ 0 \in Nat /\ 1 \in Nat /\ Warmup * 0 = 0 /\ 0 + 0 = 0 /\ 0 + 1 = 1
  BY ScriptAssumption
<1>6. Part(o, S, w, 0, 0)
  <2>1. w = Repeated(Warmup, warm)
    BY <1>4 DEF Repeated, Repeat
  <2>2. Part(o, S, w, Warmup * 0, Warmup * 0)
    BY ONLY <1>3, <1>5, <2>1, PartRepeats
  <2> QED
    BY <1>5, <2>2
<1>7. PICK sc : sc = w \o once
  OBVIOUS
<1>8. Part(o, S, sc, 0, 1)
  <2>1. Part(o, S, w \o once, 0 + 0, 0 + 1)
    BY <1>3, <1>5, <1>6, PartConcat
  <2> QED
    BY <1>5, <1>7, <2>1
<1>9. S \subseteq LoopSteps(k) /\ S \subseteq BenchSteps
  <2>1. S \subseteq LoopSteps(k)
    BY <1>1 DEF LoopSteps
  <2> QED
    BY <1>2, <2>1, LoopStepsIn
<1>10. Restores(sc)
  <2>1. sc \in Seq(S)
    BY <1>8 DEF Part
  <2>2. \A i \in S : i.do # "restore"
    BY <1>1, <1>2, StepFields
  <2>3. \A j \in 1 .. Len(sc) : sc[j].do # "restore"
    BY <2>1, <2>2
  <2> QED
    BY <2>3, StepFields DEF Restores
<1>11. sc = BenchMaintainChained(o)
  <2>1. PICK x, call, z :
          x = <<Upload(k), Synchronize, StartEvent>> /\ call = Call(o, k) /\ z = <<StopEvent, Synchronize>>
    OBVIOUS
  <2>2. call = MaintainCall(o)
    BY <1>1, <2>1 DEF Call
  <2>3. BenchMaintainChained(o) = ((w \o x) \o call) \o z
    BY <1>1, <1>4, <2>1, <2>2 DEF BenchMaintainChained, Repeat
  <2>4. sc = w \o ((x \o call) \o z)
    BY <1>1, <1>7, <2>1
  <2>5. w \in Seq(S)
    BY <1>6 DEF Part
  <2>6. x \in Seq(S) /\ z \in Seq(S)
    BY <1>1, <2>1
  <2>7. call \in Seq(S)
    <3>1. {Kernel(k), CopyBack} \subseteq S
      BY <1>1
    <3> QED
      BY <1>2, <2>1, <3>1, CallIs
  <2>8. ((w \o x) \o call) \o z = w \o ((x \o call) \o z)
    <3>1. (w \o x) \o call = w \o (x \o call)
      BY ONLY <2>5, <2>6, <2>7, ConcatAssociative, SMTT(60)
    <3>2. PICK y \in Seq(S) : y = x \o call
      BY ONLY <2>6, <2>7, ConcatProperties
    <3>3. (w \o y) \o z = w \o (y \o z)
      BY ONLY <2>5, <2>6, y \in Seq(S), ConcatAssociative, SMTT(60)
    <3> QED
      BY ONLY <3>1, <3>2, <3>3
  <2> QED
    BY <2>3, <2>4, <2>8
<1>12. Part(o, BenchSteps, sc, 0, 1)
  BY <1>8, <1>9, PartIn
<1> QED
  BY <1>10, <1>11, <1>12

LEMMA EmptyPart ==
  ASSUME NEW o, NEW sc, sc = << >>
  PROVE  Part(o, BenchSteps, sc, 0, 0) /\ Restores(sc)
<1>1. sc \in Seq(BenchSteps) /\ \A j \in 1 .. Len(sc) : FALSE
  OBVIOUS
<1>2. Fed(o, sc) /\ Restores(sc)
  BY <1>1 DEF Fed, Restores
<1> QED
  BY <1>1, <1>2, PlainPart

\* The device times what the benchmark divides by.
LEMMA BenchParts ==
  ASSUME NEW o \in Options
  PROVE  /\ Part(o, BenchSteps, BenchScript(o), Lookups(o), Maintains(o))
         /\ Restores(BenchScript(o))
<1>1. PICK f, g, h :
        /\ f = For(o, "maintain", <<Instr("resolve", 0)>>)
        /\ g = For(o, "lookup", BenchLookup(o))
        /\ h = For(o, "maintain", IF o.chained THEN BenchMaintainChained(o) ELSE BenchMaintain(o))
  OBVIOUS
<1>2. o.target \in {"lookup", "maintain", "both"}
  BY DEF Options
<1>3. Iters \in Nat /\ 0 \in Nat /\ 1 \in Nat /\ Iters * 1 = Iters /\ Iters * 0 = 0
  BY ScriptAssumption
<1>4. /\ Lookup = Kernel("lookup") /\ Maintain = Kernel("maintain")
      /\ "lookup" \in Kernels /\ "maintain" \in Kernels
  BY DEF Lookup, Maintain, Kernel, Kernels
<1>5. Part(o, BenchSteps, f, 0, 0) /\ Restores(f)
  <2>1. PICK p, i : p = <<i>> /\ i = Instr("resolve", 0)
    OBVIOUS
  <2>2. p \in Seq(BenchSteps) /\ \A j \in 1 .. Len(p) : p[j] = i
    <3>1. i \in BenchSteps
      BY <1>4, <2>1, LoopStepsIn
    <3> QED
      BY <2>1, <3>1
  <2>3. i.do = "resolve"
    BY <2>1, StepFields
  <2>4. Fed(o, p) /\ Restores(p)
    BY <2>2, <2>3, StepFields DEF Fed, Restores
  <2>5. Part(o, BenchSteps, p, 0, 0)
    BY <2>2, <2>3, <2>4, PlainPart
  <2>6. f = p \/ f = << >>
    BY <1>1, <2>1 DEF For
  <2> QED
    BY <2>4, <2>5, <2>6, EmptyPart
<1>6. Part(o, BenchSteps, g, Lookups(o), 0) /\ Restores(g)
  <2>1. CASE o.target = "maintain"
    <3>1. g = << >> /\ Lookups(o) = 0
      BY <1>1, <2>1 DEF For, Lookups
    <3> QED
      BY <3>1, EmptyPart
  <2>2. CASE o.target # "maintain"
    <3>1. PICK k, loop : /\ k = "lookup"
                         /\ loop = IF o.reset THEN TimeIterationsRestored("lookup", <<Lookup>>)
                                   ELSE TimeIterations(Lookup)
      OBVIOUS
    <3>2. Part(o, LoopSteps(k), loop, Iters, 0)
      <4>1. CASE o.reset
        <5>1. Is("lookup", "lookup") = 1 /\ Is("lookup", "maintain") = 0
          BY DEF Is
        <5>2. Part(o, LoopSteps("lookup"), TimeIterationsRestored("lookup", Call(o, "lookup")),
                   Iters * Is("lookup", "lookup"), Iters * Is("lookup", "maintain"))
          BY <1>4, RestoredPart
        <5>3. Call(o, "lookup") = <<Lookup>>
          BY DEF Call
        <5> QED
          BY <1>3, <3>1, <4>1, <5>1, <5>2, <5>3
      <4>2. CASE ~ o.reset
        BY <3>1, <4>2, LookupLoopPart
      <4> QED
        BY <4>1, <4>2
    <3>3. g = <<Upload(k), Snapshot(k)>> \o loop /\ Lookups(o) = Iters
      BY <1>1, <1>2, <2>2, <3>1 DEF For, BenchLookup, Lookups
    <3>4. k \in Kernels
      BY <1>4, <3>1
    <3>5. Part(o, BenchSteps, g, Iters, 0) /\ Restores(g)
      BY ONLY <1>3, <3>2, <3>3, <3>4, CopiedPart
    <3> QED
      BY <3>3, <3>5
  <2> QED
    BY <2>1, <2>2
<1>7. Part(o, BenchSteps, h, 0, Maintains(o)) /\ Restores(h)
  <2>1. CASE o.target = "lookup"
    <3>1. h = << >> /\ Maintains(o) = 0
      BY <1>1, <2>1 DEF For, Maintains
    <3> QED
      BY <3>1, EmptyPart
  <2>2. CASE o.target # "lookup" /\ o.chained
    <3>1. h = BenchMaintainChained(o) /\ Maintains(o) = 1
      BY <1>1, <1>2, <2>2 DEF For, Maintains
    <3> QED
      BY <3>1, ChainedPart
  <2>3. CASE o.target # "lookup" /\ ~ o.chained
    <3>1. PICK k, loop : k = "maintain" /\ loop = TimeIterationsRestored("maintain", MaintainCall(o))
      OBVIOUS
    <3>2. Part(o, LoopSteps(k), loop, 0, Iters)
      <4>1. Is("maintain", "lookup") = 0 /\ Is("maintain", "maintain") = 1
        BY DEF Is
      <4>2. Part(o, LoopSteps("maintain"), TimeIterationsRestored("maintain", Call(o, "maintain")),
                 Iters * Is("maintain", "lookup"), Iters * Is("maintain", "maintain"))
        BY <1>4, RestoredPart
      <4>3. Call(o, "maintain") = MaintainCall(o)
        BY DEF Call
      <4> QED
        BY <1>3, <3>1, <4>1, <4>2, <4>3
    <3>3. h = <<Upload(k), Snapshot(k)>> \o loop /\ Maintains(o) = Iters
      BY <1>1, <1>2, <2>3, <3>1 DEF For, BenchMaintain, Maintains
    <3>4. k \in Kernels
      BY <1>4, <3>1
    <3>5. Part(o, BenchSteps, h, 0, Iters) /\ Restores(h)
      BY ONLY <1>3, <3>2, <3>3, <3>4, CopiedPart
    <3> QED
      BY <3>3, <3>5
  <2> QED
    BY <2>1, <2>2, <2>3
<1>8. PICK l, m \in Nat : l = Lookups(o) /\ m = Maintains(o)
  BY <1>3 DEF Lookups, Maintains
<1>9. f \in Seq(BenchSteps) /\ g \in Seq(BenchSteps) /\ h \in Seq(BenchSteps)
  BY <1>5, <1>6, <1>7 DEF Part
<1>10. Part(o, BenchSteps, f \o g, 0 + l, 0 + 0) /\ Restores(f \o g)
  <2>1. Part(o, BenchSteps, f \o g, 0 + l, 0 + 0)
    BY <1>3, <1>5, <1>6, <1>8, PartConcat
  <2>2. Restores(f \o g)
    BY <1>5, <1>6, <1>9, FedConcat
  <2> QED
    BY <2>1, <2>2
<1>11. 0 + l = l /\ 0 + 0 = 0 /\ l + 0 = l /\ 0 + m = m
  OBVIOUS
<1>12. Part(o, BenchSteps, (f \o g) \o h, l + 0, 0 + m) /\ Restores((f \o g) \o h)
  <2>1. Part(o, BenchSteps, f \o g, l, 0) /\ Part(o, BenchSteps, h, 0, m)
    BY <1>7, <1>8, <1>10, <1>11
  <2>2. Part(o, BenchSteps, (f \o g) \o h, l + 0, 0 + m)
    BY <1>3, <2>1, PartConcat
  <2>3. f \o g \in Seq(BenchSteps)
    BY <2>1 DEF Part
  <2>4. Restores((f \o g) \o h)
    BY <1>7, <1>9, <1>10, <2>3, FedConcat
  <2> QED
    BY <2>2, <2>4
<1> QED
  BY <1>1, <1>8, <1>11, <1>12 DEF BenchScript

\* Where the device has come from d to y, past nothing of the kinds A.
LEMMA LatestNext ==
  ASSUME NEW sc, NEW d \in Nat, NEW y \in Nat, d < y, NEW A, NEW B,
         \A m \in d + 1 .. y - 1 : sc[m] \notin A
  PROVE  /\ Latest(sc, y + 1, A, B) => \/ sc[y] \in A
                                       \/ Latest(sc, d + 1, A, B) /\ sc[y].do \notin B
         /\ Latest(sc, y, A, B) => Latest(sc, d + 1, A, B)
<1>1. ASSUME NEW i \in 1 .. y - 1, sc[i] \in A, \A m \in i + 1 .. y - 1 : sc[m].do \notin B
      PROVE  Latest(sc, d + 1, A, B)
  <2>1. i \in 1 .. (d + 1) - 1
    BY <1>1
  <2>2. \A m \in i + 1 .. (d + 1) - 1 : m \in i + 1 .. y - 1
    OBVIOUS
  <2> QED
    BY <1>1, <2>1, <2>2 DEF Latest
<1>2. ASSUME Latest(sc, y + 1, A, B), sc[y] \notin A
      PROVE  Latest(sc, d + 1, A, B) /\ sc[y].do \notin B
  <2>1. PICK i \in 1 .. (y + 1) - 1 :
          sc[i] \in A /\ \A m \in i + 1 .. (y + 1) - 1 : sc[m].do \notin B
    BY <1>2 DEF Latest
  <2>2. i # y
    BY <1>2, <2>1
  <2>3. i \in 1 .. y - 1 /\ y \in i + 1 .. (y + 1) - 1
        /\ \A m \in i + 1 .. y - 1 : m \in i + 1 .. (y + 1) - 1
    BY <2>1, <2>2
  <2> QED
    BY <1>1, <2>1, <2>3
<1>3. ASSUME Latest(sc, y, A, B) PROVE Latest(sc, d + 1, A, B)
  BY <1>1, <1>3 DEF Latest
<1> QED
  BY <1>2, <1>3

-----------------------------------------------------------------------------
(* Sums over the requests.                                                  *)

USE SizeAssumption

LEMMA SumIs ==
  ASSUME NEW f \in [Reqs -> Nat]
  PROVE  \E g \in [0 .. ReqNum -> Nat] :
           /\ g[0] = 0 /\ \A n \in Reqs : g[n + 1] = g[n] + f[n]
           /\ Sum(f) = g[ReqNum]
<1> DEFINE N == ReqNum
           F == [p \in (0 .. N - 1) \X Nat |-> p[2] + f[p[1]]]
           Joins(h) == h = [n \in 0 .. N |-> IF n = 0 THEN 0 ELSE h[n - 1] + f[n - 1]]
           upto == CHOOSE h : Joins(h)
<1>1. \A n \in 0 .. N - 1, k \in Nat : F[<<n, k>>] = k + f[n] /\ F[<<n, k>>] \in Nat
  BY DEF Reqs
<1> HIDE DEF F
<1>2. PICK g \in [0 .. N -> Nat] : g[0] = 0 /\ \A n \in 0 .. N - 1 : g[n + 1] = F[<<n, g[n]>>]
  <2>1. PICK T, zero, S, m : T = S \X S /\ zero = 0 /\ S = Nat /\ m = N
    OBVIOUS
  <2>2. /\ m \in Nat /\ T \in SUBSET (Nat \X S) /\ <<0, zero>> \in T
        /\ \A n \in 0 .. m - 1, k \in S : <<n, k>> \in T => <<n + 1, F[<<n, k>>]>> \in T
    BY <1>1, <2>1
  <2>3. Recurs(m, S, zero, T, F)
    BY ONLY <2>2 DEF Recurs
  <2>4. PICK g : Solves(m, S, zero, T, F, g)
    BY <2>3, Iterates
  <2>5. /\ g \in [0 .. m -> S] /\ g[0] = zero
        /\ \A n \in 0 .. m - 1 : g[n + 1] = F[<<n, g[n]>>]
    BY ONLY <2>4 DEF Solves
  <2> QED
    BY <2>1, <2>5
<1>3. \A n \in 0 .. N - 1 : g[n + 1] = g[n] + f[n]
  <2>1. \A n \in 0 .. N - 1 : n \in 0 .. N
    OBVIOUS
  <2>2. g \in [0 .. N -> Nat] /\ \A n \in 0 .. N - 1 : g[n + 1] = F[<<n, g[n]>>]
    BY <1>2
  <2>3. \A n \in 0 .. N - 1 : g[n] \in Nat
    BY ONLY <2>1, <2>2
  <2> QED
    BY ONLY <1>1, <2>2, <2>3
<1>4. Joins(g)
  <2>1. \A n \in 0 .. N : g[n] = IF n = 0 THEN 0 ELSE g[n - 1] + f[n - 1]
    <3> SUFFICES ASSUME NEW n \in 0 .. N, n # 0 PROVE g[n] = g[n - 1] + f[n - 1]
      BY <1>2
    <3>1. n - 1 \in 0 .. N - 1 /\ (n - 1) + 1 = n
      OBVIOUS
    <3> QED
      BY <1>3, <3>1
  <2>2. g = [n \in 0 .. N |-> g[n]]
    BY <1>2
  <2> QED
    BY ONLY <2>1, <2>2
<1>5. Joins(upto)
  <2> HIDE DEF Joins
  <2> QED
    BY <1>4
<1>6. Sum(f) = upto[N]
  BY DEF Sum
<1>7. \A n \in 0 .. N : upto[n] = IF n = 0 THEN 0 ELSE upto[n - 1] + f[n - 1]
  <2>1. upto = [n \in 0 .. N |-> IF n = 0 THEN 0 ELSE upto[n - 1] + f[n - 1]]
    BY <1>5
  <2> HIDE DEF upto
  <2> QED
    BY <2>1
<1> HIDE DEF upto, Joins
<1> DEFINE D == {n \in 0 .. N : upto[n] = g[n]}
<1>8. N \in Nat /\ 0 \in D
  <2>1. N \in Nat /\ 0 \in 0 .. N
    OBVIOUS
  <2>2. upto[0] = 0 /\ g[0] = 0
    BY <1>2, <1>7, <2>1
  <2> QED
    BY <2>1, <2>2
<1>9. ASSUME NEW n \in 0 .. N - 1, n \in D PROVE n + 1 \in D
  <2>1. n + 1 \in 0 .. N /\ n + 1 # 0 /\ (n + 1) - 1 = n /\ n \in 0 .. N - 1
    OBVIOUS
  <2>2. upto[n + 1] = upto[n] + f[n]
    BY <1>7, <2>1
  <2>3. upto[n] = g[n]
    BY <1>9
  <2> QED
    BY <1>3, <2>1, <2>2, <2>3
<1> HIDE DEF D
<1>10. N \in D
  <2>1. 0 .. N \subseteq D
    BY <1>8, <1>9, Counts
  <2> QED
    BY <1>8, <2>1
<1>11. upto[N] = g[N]
  BY <1>10 DEF D
<1> QED
  BY <1>2, <1>3, <1>6, <1>11 DEF Reqs

\* Where one request's share changes, so does the sum.
LEMMA SumChanges ==
  ASSUME NEW f \in [Reqs -> Nat], NEW h \in [Reqs -> Nat], NEW r \in Reqs,
         \A q \in Reqs \ {r} : h[q] = f[q]
  PROVE  Sum(h) = Sum(f) + (h[r] - f[r]) /\ Sum(f) \in Nat
<1>1. PICK a \in [0 .. ReqNum -> Nat] :
        a[0] = 0 /\ (\A n \in Reqs : a[n + 1] = a[n] + f[n]) /\ Sum(f) = a[ReqNum]
  BY SumIs
<1>2. PICK b \in [0 .. ReqNum -> Nat] :
        b[0] = 0 /\ (\A n \in Reqs : b[n + 1] = b[n] + h[n]) /\ Sum(h) = b[ReqNum]
  BY SumIs
<1> DEFINE by(n) == IF r < n THEN h[r] - f[r] ELSE 0
           D == {n \in 0 .. ReqNum : b[n] = a[n] + by(n)}
<1>3. ReqNum \in Nat /\ r \in Nat /\ r < ReqNum /\ f[r] \in Nat /\ h[r] \in Nat
  BY DEF Reqs
<1>4. 0 \in D
  BY <1>1, <1>2, <1>3
<1>5. ASSUME NEW n \in 0 .. ReqNum - 1, n \in D PROVE n + 1 \in D
  <2>1. n \in Reqs /\ n + 1 \in 0 .. ReqNum /\ n \in 0 .. ReqNum
    BY DEF Reqs
  <2>2. a[n + 1] = a[n] + f[n] /\ b[n + 1] = b[n] + h[n] /\ b[n] = a[n] + by(n)
        /\ a[n] \in Nat /\ b[n] \in Nat /\ f[n] \in Nat /\ h[n] \in Nat
    BY <1>1, <1>2, <1>5, <2>1
  <2>3. b[n + 1] = a[n + 1] + by(n + 1)
    <3>1. CASE n = r
      BY <1>3, <2>2, <3>1
    <3>2. CASE n # r
      <4>1. h[n] = f[n] /\ (r < n <=> r < n + 1)
        BY <1>3, <2>1, <3>2
      <4>2. by(n) = by(n + 1) /\ by(n) \in Int
        BY <1>3, <4>1
      <4> HIDE DEF by
      <4> QED
        BY ONLY <2>2, <4>1, <4>2
    <3> QED
      BY <3>1, <3>2
  <2> QED
    BY <2>1, <2>3
<1>6. ReqNum \in D
  <2> HIDE DEF D
  <2>1. 0 .. ReqNum \subseteq D
    BY <1>3, <1>4, <1>5, Counts
  <2> QED
    BY <1>3, <2>1
<1>7. b[ReqNum] = a[ReqNum] + (h[r] - f[r])
  BY <1>3, <1>6
<1>8. a[ReqNum] \in Nat
  BY <1>1
<1> QED
  BY <1>1, <1>2, <1>7, <1>8

LEMMA SumOfNothing ==
  ASSUME NEW f \in [Reqs -> Nat], \A r \in Reqs : f[r] = 0
  PROVE  Sum(f) = 0
<1>1. PICK a \in [0 .. ReqNum -> Nat] :
        a[0] = 0 /\ (\A n \in Reqs : a[n + 1] = a[n] + f[n]) /\ Sum(f) = a[ReqNum]
  BY SumIs
<1> DEFINE D == {n \in 0 .. ReqNum : a[n] = 0}
<1>2. ReqNum \in Nat /\ 0 \in D
  BY <1>1
<1>3. ASSUME NEW n \in 0 .. ReqNum - 1, n \in D PROVE n + 1 \in D
  <2>1. n \in Reqs /\ n + 1 \in 0 .. ReqNum
    BY DEF Reqs
  <2> QED
    BY <1>1, <1>3, <2>1
<1> HIDE DEF D
<1>4. ReqNum \in D
  <2>1. 0 .. ReqNum \subseteq D
    BY <1>2, <1>3, Counts
  <2> QED
    BY <1>2, <2>1
<1> QED
  BY <1>1, <1>4 DEF D

LEMMA SumsIn ==
  /\ \A f \in [Reqs -> Nat] : Sum(f) \in Nat
  /\ Given => given.maintain.freeHead \in [Reqs -> Nat] /\ expected.lookup.freeHead \in [Reqs -> Nat]
  /\ ControlIn => [r \in Reqs |-> Consumed(r)] \in [Reqs -> Nat] /\ SumConsumed \in Nat
<1>1. ASSUME NEW f \in [Reqs -> Nat] PROVE Sum(f) \in Nat
  <2>1. PICK g \in [0 .. ReqNum -> Nat] :
          g[0] = 0 /\ (\A n \in Reqs : g[n + 1] = g[n] + f[n]) /\ Sum(f) = g[ReqNum]
    BY SumIs
  <2> QED
    BY <2>1
<1>2. ASSUME Given
      PROVE  given.maintain.freeHead \in [Reqs -> Nat] /\ expected.lookup.freeHead \in [Reqs -> Nat]
  <2>1. LookupInput(given.lookup) /\ given.lookup.freeSlots \in [Reqs -> [FreeRow -> Slots]]
        /\ given.maintain.freeHead \in [Reqs -> Nat] /\ expected.lookup = ExpectedLookup(given.lookup)
    BY <1>2 DEF Given, Inputs, TensorsOf
  <2> QED
    BY <2>1, ExpectedLookupIn
<1>3. ASSUME ControlIn PROVE [r \in Reqs |-> Consumed(r)] \in [Reqs -> Nat]
  <2>1. ASSUME NEW r \in Reqs PROVE Consumed(r) \in Nat
    <3>1. CoreOf(r) \in Cores
      BY CoreOfIsCore
    <3> QED
      BY <1>3, <3>1 DEF ControlIn, Consumed
  <2> QED
    BY <2>1
<1> QED
  BY <1>1, <1>2, <1>3 DEF SumConsumed

-----------------------------------------------------------------------------
(* A kernel's step.                                                         *)

\* What a step of core c's on its request q leaves alone.
Frame(c, q) ==
  /\ q = req[c] /\ Moves(c)
  /\ \A d \in Cores \ {c} : head'[d] = head[d]
  /\ \A r \in Reqs \ {q} : freeHead'[r] = freeHead[r]

LEMMA ConsumedNext ==
  ASSUME ControlIn, ControlIn', NEW loop \in {"alloc", "scan"}, CoresAt(loop),
         NEW c \in Cores, NEW q \in Reqs, Frame(c, q)
  PROVE  SumConsumed' = SumConsumed + (Consumed(q)' - Consumed(q))
<1> DEFINE f == [r \in Reqs |-> Consumed(r)]
           h == [r \in Reqs |-> Consumed(r)']
<1>1. f \in [Reqs -> Nat] /\ h \in [Reqs -> Nat]
  <2>1. ASSUME NEW r \in Reqs PROVE Consumed(r)' \in Nat
    <3>1. CoreOf(r) \in Cores /\ CoreOf(r)' = CoreOf(r)
      BY CoreOfIsCore DEF CoreOf
    <3> QED
      BY <3>1 DEF ControlIn, Consumed
  <2> QED
    BY <2>1, SumsIn
<1>2. ASSUME NEW r \in Reqs, r # q PROVE Consumed(r)' = Consumed(r)
  <2>1. PICK d \in Cores : d = CoreOf(r) /\ d = CoreOf(r)'
    BY CoreOfIsCore DEF CoreOf
  <2>2. freeHead'[r] = freeHead[r]
    BY <1>2 DEF Frame
  <2>3. CASE d # c
    <3>1. req'[d] = req[d] /\ pc'[d] = pc[d] /\ head'[d] = head[d]
      BY <2>3 DEF Frame, Moves
    <3> QED
      BY <2>1, <2>2, <3>1 DEF Consumed
  <2>4. CASE d = c
    <3>1. Consumed(r) = freeHead[r]
      BY <1>2, <2>1, <2>4 DEF Frame, Consumed
    <3>2. ~ (req'[c] = r /\ pc'[c] # "load")
      BY <1>2 DEF Frame, Moves
    <3>3. Consumed(r)' = freeHead'[r]
      BY <2>1, <2>4, <3>2 DEF Consumed
    <3> QED
      BY <2>2, <3>1, <3>3
  <2> QED
    BY <2>3, <2>4
<1>3. \A r \in Reqs : f[r] = Consumed(r) /\ h[r] = Consumed(r)'
  OBVIOUS
<1>4. SumConsumed = Sum(f) /\ SumConsumed' = Sum(h)
  BY DEF SumConsumed
<1> HIDE DEF f, h
<1>5. Sum(h) = Sum(f) + (h[q] - f[q])
  BY <1>1, <1>2, <1>3, SumChanges
<1> QED
  BY <1>3, <1>4, <1>5

\* Of which request, and how many entries core c has taken.
LEMMA ConsumedHere ==
  ASSUME NEW loop \in {"alloc", "scan"}, CoresAt(loop), NEW c \in Cores, NEW q \in Reqs, q = req[c]
  PROVE  CoreOf(q) = c /\ Consumed(q) = IF pc[c] = "load" THEN freeHead[q] ELSE head[c]
BY DEF CoresAt, Consumed

LEMMA StepRequest ==
  ASSUME ControlIn, NEW loop \in {"alloc", "scan"}, CoresAt(loop),
         NEW c \in Cores, LookupStep(c) \/ MaintainStep(c)
  PROVE  req[c] \in Reqs /\ req[c] \in Nat
<1>1. req[c] \in Nat
  BY DEF ControlIn
<1>2. (pc[c] = "load" /\ req[c] < ReqNum) \/ pc[c] = "alloc" \/ pc[c] = "scan"
  BY DEF LookupStep, LookupLoad, LookupHit, LookupRepeatedMiss,
     LookupAllocate, LookupStore, MaintainStep, MaintainSkip, MaintainLoad,
     MaintainEvict, MaintainPass, MaintainStore, AtLoad, AtQuery, AtSlot
<1>3. pc[c] \in {"load", loop} /\ (pc[c] = loop => req[c] \in Reqs)
  BY DEF CoresAt
<1> QED
  BY <1>1, <1>2, <1>3 DEF Reqs

\* What a step does with the pool of its request and with the core's count.
Takes(c, q, loop) ==
  /\ pc[c] = "load"
  /\ pc' = [pc EXCEPT ![c] = loop] /\ head' = [head EXCEPT ![c] = freeHead[q]]
  /\ UNCHANGED <<req, freeHead>>

Advances(c, q, loop) ==
  /\ pc[c] = loop
  /\ \E n \in Nat : head' = [head EXCEPT ![c] = n]
  /\ UNCHANGED <<pc, req, freeHead>>

Completes(c, q, loop) ==
  /\ pc[c] = loop
  /\ freeHead' = [freeHead EXCEPT ![q] = head[c]] /\ NextRequest(c)
  /\ UNCHANGED head

Skips(c, q, loop) == pc[c] = "load" /\ NextRequest(c) /\ UNCHANGED <<head, freeHead>>

Draws(c, q, loop) ==
  Takes(c, q, loop) \/ Advances(c, q, loop) \/ Completes(c, q, loop) \/ Skips(c, q, loop)

LEMMA PoolStep ==
  ASSUME ControlIn, NEW loop \in {"alloc", "scan"}, CoresAt(loop),
         NEW c \in Cores, NEW q \in Reqs, q = req[c], Draws(c, q, loop)
  PROVE  /\ ControlIn' /\ CoresAt(loop)' /\ Frame(c, q)
         /\ SumConsumed' = SumConsumed + (IF pc[c] = loop THEN head'[c] - head[c] ELSE 0)
         /\ SumConsumed \in Nat
<1>1. /\ freeHead \in [Reqs -> Nat] /\ req \in [Cores -> Nat]
      /\ pc \in [Cores -> {"load", "alloc", "scan"}] /\ head \in [Cores -> Nat]
  BY DEF ControlIn
<1>2. loop # "load" /\ q \in Nat /\ q + BlockNum \in Nat /\ q + BlockNum # q /\ head[c] \in Nat
      /\ freeHead[q] \in Nat
  BY <1>1 DEF Reqs
<1>3. CoreOf(q) = c /\ CoreOf(q)' = c /\ Consumed(q) = IF pc[c] = "load" THEN freeHead[q] ELSE head[c]
  BY ConsumedHere DEF CoreOf
<1>4. /\ ControlIn' /\ Frame(c, q) /\ pc'[c] \in {"load", loop}
      /\ Consumed(q)' = Consumed(q) + (IF pc[c] = loop THEN head'[c] - head[c] ELSE 0)
  <2>1. CASE Takes(c, q, loop)
    <3>1. /\ pc[c] = "load" /\ pc'[c] = loop /\ head'[c] = freeHead[q] /\ req' = req
          /\ freeHead' = freeHead /\ \A d \in Cores \ {c} : head'[d] = head[d] /\ pc'[d] = pc[d]
      BY <1>1, <2>1 DEF Takes
    <3>2. ControlIn'
      BY <1>1, <1>2, <2>1 DEF Takes, ControlIn
    <3>3. Consumed(q)' = freeHead[q]
      BY <1>2, <1>3, <3>1 DEF Consumed
    <3> QED
      BY <1>2, <1>3, <3>1, <3>2, <3>3 DEF Frame, Moves
  <2>2. CASE Advances(c, q, loop)
    <3>1. PICK n \in Nat : head' = [head EXCEPT ![c] = n]
      BY <2>2 DEF Advances
    <3>2. /\ pc[c] = loop /\ pc' = pc /\ req' = req /\ freeHead' = freeHead /\ head'[c] = n
          /\ \A d \in Cores \ {c} : head'[d] = head[d]
      BY <1>1, <2>2, <3>1 DEF Advances
    <3>3. ControlIn'
      BY <1>1, <3>1, <3>2 DEF ControlIn
    <3>4. Consumed(q)' = n
      BY <1>2, <1>3, <3>2 DEF Consumed
    <3> QED
      BY <1>2, <1>3, <3>2, <3>3, <3>4 DEF Frame, Moves
  <2>3. CASE Completes(c, q, loop)
    <3>1. /\ pc[c] = loop /\ pc'[c] = "load" /\ head' = head /\ req'[c] = q + BlockNum
          /\ freeHead'[q] = head[c] /\ \A r \in Reqs \ {q} : freeHead'[r] = freeHead[r]
          /\ \A d \in Cores \ {c} : req'[d] = req[d] /\ pc'[d] = pc[d]
      BY <1>1, <2>3 DEF Completes, NextRequest
    <3>2. ControlIn'
      BY <1>1, <1>2, <2>3 DEF Completes, NextRequest, ControlIn
    <3>3. Consumed(q)' = head[c]
      BY <1>2, <1>3, <3>1 DEF Consumed
    <3> QED
      BY <1>2, <1>3, <3>1, <3>2, <3>3 DEF Frame, Moves
  <2>4. CASE Skips(c, q, loop)
    <3>1. /\ pc[c] = "load" /\ pc'[c] = "load" /\ head' = head /\ req'[c] = q + BlockNum
          /\ freeHead' = freeHead /\ \A d \in Cores \ {c} : req'[d] = req[d] /\ pc'[d] = pc[d]
      BY <1>1, <2>4 DEF Skips, NextRequest
    <3>2. ControlIn'
      BY <1>1, <1>2, <2>4 DEF Skips, NextRequest, ControlIn
    <3>3. Consumed(q)' = freeHead[q]
      BY <1>2, <1>3, <3>1 DEF Consumed
    <3> QED
      BY <1>2, <1>3, <3>1, <3>2, <3>3 DEF Frame, Moves
  <2> QED
    BY <2>1, <2>2, <2>3, <2>4 DEF Draws
<1>5. CoresAt(loop)'
  BY <1>1, <1>4, CoresMove DEF Frame
<1>6. SumConsumed' = SumConsumed + (Consumed(q)' - Consumed(q)) /\ SumConsumed \in Nat
  BY <1>4, ConsumedNext, SumsIn
<1>7. Consumed(q) \in Nat /\ head'[c] \in Nat
  BY <1>2, <1>3, <1>4 DEF ControlIn
<1> QED
  BY <1>2, <1>4, <1>5, <1>6, <1>7

LEMMA LookupTakes ==
  ASSUME ControlIn, op = "lookup", CoresAt("alloc"), NEW c \in Cores, LookupStep(c)
  PROVE  /\ ControlIn' /\ CoresAt("alloc")' /\ op' = op
         /\ SumConsumed' = SumConsumed + (IF pc[c] = "alloc" THEN head'[c] - head[c] ELSE 0)
         /\ SumConsumed \in Nat
<1>1. PICK q \in Reqs : q = req[c]
  BY StepRequest
<1>2. op' = op
  BY DEF LookupStep, LookupLoad, LookupHit, LookupRepeatedMiss, LookupAllocate, LookupStore,
         AnswerPosition
<1>3. head \in [Cores -> Nat] /\ head[c] \in Nat
  BY DEF ControlIn
<1>4. ASSUME LookupLoad(c) PROVE Takes(c, q, "alloc")
  BY <1>1, <1>4 DEF LookupLoad, AtLoad, Takes, memory
<1>5. ASSUME LookupHit(c) \/ LookupRepeatedMiss(c) PROVE Advances(c, q, "alloc")
  <2>1. pc[c] = "alloc" /\ UNCHANGED <<pc, req, freeHead, head>>
    BY <1>5 DEF LookupHit, LookupRepeatedMiss, AtQuery, AnswerPosition
  <2>2. head' = [head EXCEPT ![c] = head[c]]
    BY <1>3, <2>1
  <2> QED
    BY <1>3, <2>1, <2>2 DEF Advances
<1>6. ASSUME LookupAllocate(c) PROVE Advances(c, q, "alloc")
  <2>1. pc[c] = "alloc" /\ UNCHANGED <<pc, req, freeHead>> /\ head' = [head EXCEPT ![c] = @ + 1]
    BY <1>6 DEF LookupAllocate, AtQuery, AnswerPosition
  <2>2. head[c] + 1 \in Nat /\ head' = [head EXCEPT ![c] = head[c] + 1]
    BY <1>3, <2>1
  <2> QED
    BY <2>1, <2>2 DEF Advances
<1>7. ASSUME LookupStore(c) PROVE Completes(c, q, "alloc")
  BY <1>1, <1>7 DEF LookupStore, Completes, registers
<1>8. Draws(c, q, "alloc")
  BY <1>4, <1>5, <1>6, <1>7 DEF LookupStep, Draws
<1> QED
  BY <1>1, <1>2, <1>8, PoolStep

LEMMA MaintainTakes ==
  ASSUME ControlIn, op = "maintain", CoresAt("scan"), Emptied, NEW c \in Cores, MaintainStep(c),
         MaintainLoad(c) => AfterMarking(c) = "scan"
  PROVE  /\ ControlIn' /\ CoresAt("scan")' /\ op' = op /\ Emptied'
         /\ SumConsumed' = SumConsumed + (IF pc[c] = "scan" THEN head'[c] - head[c] ELSE 0)
         /\ SumConsumed \in Nat
<1>1. PICK q \in Reqs : q = req[c]
  BY StepRequest
<1>2. op' = op
  BY DEF MaintainStep, MaintainSkip, MaintainLoad, MaintainEvict, MaintainPass, MaintainStore
<1>3. head \in [Cores -> Nat] /\ head[c] \in Nat
  BY DEF ControlIn
<1>4. ASSUME MaintainLoad(c) PROVE Takes(c, q, "scan")
  BY <1>1, <1>4 DEF MaintainLoad, AtLoad, Takes, memory
<1>5. ASSUME MaintainPass(c) PROVE Advances(c, q, "scan")
  <2>1. pc[c] = "scan" /\ UNCHANGED <<pc, req, freeHead, head>>
    BY <1>5 DEF MaintainPass, AtSlot, memory
  <2>2. head' = [head EXCEPT ![c] = head[c]]
    BY <1>3, <2>1
  <2> QED
    BY <1>3, <2>1, <2>2 DEF Advances
<1>6. ASSUME MaintainEvict(c) PROVE Advances(c, q, "scan")
  <2>1. pc[c] = "scan" /\ head[c] > 0 /\ UNCHANGED <<pc, req, freeHead>> /\ head' = [head EXCEPT ![c] = @ - 1]
    BY <1>6 DEF MaintainEvict, AtSlot
  <2>2. head[c] - 1 \in Nat /\ head' = [head EXCEPT ![c] = head[c] - 1]
    BY <1>3, <2>1
  <2> QED
    BY <2>1, <2>2 DEF Advances
<1>7. ASSUME MaintainStore(c) PROVE Completes(c, q, "scan") /\ head[c] = 0
  BY <1>1, <1>3, <1>7 DEF MaintainStore, Completes, registers
<1>8. ASSUME MaintainSkip(c) PROVE Skips(c, q, "scan") /\ freeHead[q] = 0
  BY <1>1, <1>8 DEF MaintainSkip, Skips, registers, memory, AtLoad
<1>9. Draws(c, q, "scan")
  BY <1>4, <1>5, <1>6, <1>7, <1>8 DEF MaintainStep, Draws
<1>10. /\ ControlIn' /\ CoresAt("scan")' /\ Frame(c, q)
       /\ SumConsumed' = SumConsumed + (IF pc[c] = "scan" THEN head'[c] - head[c] ELSE 0)
       /\ SumConsumed \in Nat
  BY <1>1, <1>9, PoolStep
<1>11. Emptied'
  <2>1. ASSUME NEW r \in Reqs, r < req'[CoreOf(r)] PROVE freeHead'[r] = 0
    <3>1. PICK d \in Cores : d = CoreOf(r)
      BY CoreOfIsCore
    <3>2. CASE r # q
      <4>1. r < req[d]
        <5>1. CASE d # c
          BY <2>1, <3>1, <5>1, <1>10 DEF Frame, Moves
        <5>2. CASE d = c
          <6>1. CoreOf(q) = CoreOf(r) /\ q \in Nat /\ r \in Nat
            BY <1>1, <3>1, <5>2 DEF CoresAt, Reqs
          <6>2. PICK n \in {q, q + BlockNum} : n = req'[c]
            BY <1>10 DEF Frame, Moves
          <6>3. r < n => r < q
            BY <3>2, <6>1, <6>2, OtherRequests
          <6> QED
            BY <1>1, <2>1, <3>1, <5>2, <6>2, <6>3
        <5> QED
          BY <5>1, <5>2
      <4>2. freeHead[r] = 0
        BY <3>1, <4>1 DEF Emptied
      <4> QED
        BY <1>10, <3>2, <4>2 DEF Frame
    <3>3. CASE r = q
      <4>1. CoreOf(q) = c /\ ~ q < q
        BY <1>1 DEF CoresAt, Reqs
      <4>2. req'[c] # req[c]
        BY <1>1, <2>1, <3>3, <4>1
      <4>3. MaintainStore(c) \/ MaintainSkip(c)
        BY <1>4, <1>5, <1>6, <4>2 DEF MaintainStep, Takes, Advances
      <4>4. CASE MaintainStore(c)
        <5>1. freeHead' = [freeHead EXCEPT ![q] = head[c]] /\ head[c] = 0 /\ freeHead \in [Reqs -> Nat]
          BY <1>7, <4>4 DEF Completes, ControlIn
        <5> QED
          BY <3>3, <5>1
      <4>5. CASE MaintainSkip(c)
        BY <1>8, <3>3, <4>5 DEF Skips
      <4> QED
        BY <4>3, <4>4, <4>5
    <3> QED
      BY <3>2, <3>3
  <2>2. \A r : CoreOf(r)' = CoreOf(r)
    BY DEF CoreOf
  <2> QED
    BY <2>1, <2>2 DEF Emptied
<1> QED
  BY <1>2, <1>10, <1>11

-----------------------------------------------------------------------------
(* The benchmark's host.                                                    *)

LEMMA ScriptIs ==
  ASSUME Given
  PROVE  \E sc \in Seq(BenchSteps) :
           /\ sc = Script /\ Part(opt, BenchSteps, sc, Lookups(opt), Maintains(opt))
           /\ Restores(sc) /\ Settled(sc) /\ Alternates(sc, StartEvent, StopEvent)
           /\ Bracketed(sc, StartEvent, StopEvent) /\ Fed(opt, sc) /\ Len(sc) \in Nat
<1>1. PICK sc : sc = Script
  OBVIOUS
<1>2. sc = BenchScript(opt) /\ opt \in Options
  BY <1>1 DEF Given, Script
<1>3. Part(opt, BenchSteps, sc, Lookups(opt), Maintains(opt)) /\ Restores(sc)
  BY <1>2, BenchParts
<1>4. sc \in Seq(BenchSteps)
  BY <1>3 DEF Part
<1> QED
  BY <1>1, <1>3, <1>4 DEF Part, Alternates

\* What only depends on the tensors, the kernel and the counts.
LEMMA StateKept ==
  ASSUME UNCHANGED <<vars, opt, given, expected, starts, snapshot, allocated, evicted>>
  PROVE  /\ ControlIn' = ControlIn /\ Emptied' = Emptied /\ LastAnswer' = LastAnswer
         /\ Given' = Given /\ Script' = Script
         /\ \A k : /\ Loaded(k)' = Loaded(k) /\ CoresAt(Loop(k))' = CoresAt(Loop(k))
                   /\ Copies(snapshot, k)' = Copies(snapshot, k)
         /\ Follows' = Follows /\ SumConsumed' = SumConsumed
<1>1. /\ UNCHANGED <<index, slotToIndex, freeSlots, freeHead, query, slotOut>>
      /\ UNCHANGED <<op, req, pc, head, pos, outTile, protected>>
      /\ UNCHANGED <<opt, given, expected, starts, snapshot>>
  BY DEF vars, memory, registers
<1>2. ControlIn' = ControlIn /\ Emptied' = Emptied /\ LastAnswer' = LastAnswer
      /\ Given' = Given /\ Script' = Script
  BY <1>1 DEF ControlIn, Emptied, LastAnswer, CoreOf, Given, Script
<1>3. ASSUME NEW loop PROVE CoresAt(loop)' = CoresAt(loop)
  BY <1>1 DEF CoresAt, CoreOf
<1>4. \A k : Loaded(k)' = Loaded(k) /\ Copies(snapshot, k)' = Copies(snapshot, k)
  BY <1>1 DEF Loaded, Copies
<1>5. ASSUME NEW r PROVE LookupRequest(r)' = LookupRequest(r)
  BY <1>1 DEF LookupRequest, LookupDone, LookupAhead, LookupBusy, LookupRow, CoreOf, Followed
<1>6. ASSUME NEW r PROVE MaintainRequest(r)' = MaintainRequest(r)
  BY <1>1 DEF MaintainRequest, MaintainDone, MaintainAhead, MaintainBusyAt, MaintainRow,
              SlotAt, Kept, CoreOf
<1>7. \A kernel : Runs(kernel)' = Runs(kernel)
  BY <1>1, <1>3, <1>5, <1>6 DEF Runs, LookupRuns, MaintainRuns
<1>8. Follows' = Follows
  <2>1. TensorsIn' = TensorsIn /\ RegistersIn' = RegistersIn
    BY <1>1 DEF TensorsIn, RegistersIn
  <2> QED
    BY <1>1, <1>7, <2>1 DEF Follows
<1>9. SumConsumed' = SumConsumed
  BY <1>1 DEF SumConsumed, Consumed, CoreOf
<1> QED
  BY <1>2, <1>3, <1>4, <1>8, <1>9 DEF Loop

\* What a step of the host has to show.
LEMMA HostBenches ==
  ASSUME Benching, NEW d, NEW x, Measures(d, x), NEW y, NEW sc, sc = Script,
         session' \in Sessions(BenchSteps), session'.timing = session.timing,
         Tracks(Enqueues, session', sc, d, y), DeviceTimes(Works, session', sc, d),
         session.stream # << >> => /\ session'.stream # << >>
                                   /\ Head(session'.stream) = Head(session.stream),
         status' = "passed" => session'.at = Len(sc),
         UNCHANGED <<vars, opt, given, expected, starts, snapshot, allocated, evicted>>
  PROVE  MeasureInv'
<1>1. Script' = sc /\ op' = op /\ UNCHANGED <<opt, given, expected, allocated, evicted, pc>>
  BY StateKept DEF vars
<1>2. \A k : Running(k)' = Running(k)
  BY <1>1 DEF Running
<1>3. \A kind : Launches(kind, d)' = Launches(kind, d)
  BY <1>1 DEF Launches
<1>4. DeviceDone(d)'
  <2>1. Evictions(d)' = Evictions(d) /\ Allocations(d)' = Allocations(d)
    BY <1>1, <1>2, <1>3, StateKept DEF Evictions, Allocations
  <2> QED
    BY <1>1, <2>1, StateKept DEF Measures, DeviceDone
<1>5. Measures(d, y)'
  BY <1>1, <1>4 DEF Measures
<1>6. Benching'
  <2>1. Given' /\ ControlIn' /\ Emptied' /\ LastAnswer' /\ (opt'.reset => Follows')
    BY <1>1, StateKept DEF Benching
  <2>2. ASSUME op # "idle" PROVE CoresAt(Loop(op))'
    <3>1. PICK k : k = op /\ k = op'
      BY <1>1
    <3>2. CoresAt(Loop(k))'
      BY <2>2, <3>1, StateKept DEF Benching
    <3> QED
      BY <3>1, <3>2 DEF CoresAt, Loop, CoreOf
  <2> QED
    BY <1>1, <2>1, <2>2 DEF Benching
<1> QED
  BY <1>5, <1>6 DEF MeasureInv

LEMMA AppendHead ==
  ASSUME NEW S, NEW q \in Seq(S), NEW i \in S
  PROVE  Append(q, i) # << >> /\ (q # << >> => Head(Append(q, i)) = Head(q))
<1>1. Len(Append(q, i)) = Len(q) + 1 /\ Len(q) \in Nat
  OBVIOUS
<1>2. Append(q, i) # << >>
  BY <1>1
<1>3. ASSUME q # << >> PROVE Head(Append(q, i)) = Head(q)
  <2>1. 1 \in 1 .. Len(q)
    BY <1>3
  <2>2. Append(q, i)[1] = q[1]
    BY <2>1
  <2> QED
    BY <1>2, <1>3, <2>2
<1> QED
  BY <1>2, <1>3

LEMMA EnqueueBenches == ASSUME MeasureInv, Enqueue PROVE MeasureInv'
<1>1. PICK d, x : Measures(d, x)
  BY DEF MeasureInv
<1>2. Benching /\ Given
  BY DEF MeasureInv, Benching
<1>3. PICK sc \in Seq(BenchSteps) : sc = Script /\ Len(sc) \in Nat
  BY <1>2, ScriptIs
<1>4. /\ session \in Sessions(BenchSteps) /\ Tracks(Enqueues, session, sc, d, x)
      /\ DeviceTimes(Works, session, sc, d)
  BY <1>1, <1>2, <1>3 DEF Benching, Measures
<1> DEFINE y == session.at + 1
<1>5. PICK s : s = Enqueued(session, sc)
  OBVIOUS
<1>6. /\ session.at < Len(sc) /\ sc[y].do \in Enqueues /\ session' = s
      /\ (status' = "passed" => s.at = Len(sc)) /\ status = "running"
      /\ UNCHANGED <<vars, opt, given, expected, starts, snapshot, allocated, evicted>>
  BY <1>3, <1>5 DEF Enqueue, Doing, At, Enqueues, Works, Proceed, UnchangedBelow
<1>7. session.at \in 0 .. Len(sc) - 1 /\ y \in 1 .. Len(sc)
  BY <1>3, <1>4, <1>6 DEF Tracks
<1>8. /\ s \in Sessions(BenchSteps) /\ s.at = y /\ s.stream = Append(session.stream, sc[y])
      /\ s.clock = session.clock /\ s.started = session.started /\ s.timing = session.timing
      /\ s.measured = session.measured
  BY <1>4, <1>5, <1>7, HostFields
<1>9. session.stream \in Seq(BenchSteps) /\ sc[y] \in BenchSteps
  BY <1>4, <1>7 DEF Sessions
<1>10. Tracks(Enqueues, s, sc, d, Append(x, y))
  <2>1. "sync" \notin Enqueues
    BY DEF Enqueues, Works
  <2> QED
    BY <1>4, <1>6, <1>8, <1>9, <2>1, TracksEnqueued
<1>11. DeviceTimes(Works, s, sc, d)
  BY <1>4, <1>8 DEF DeviceTimes
<1>12. session.stream # << >> => s.stream # << >> /\ Head(s.stream) = Head(session.stream)
  <2>1. PICK q, i : q = session.stream /\ i = sc[y]
    OBVIOUS
  <2>2. Append(q, i) # << >> /\ (q # << >> => Head(Append(q, i)) = Head(q))
    BY ONLY <1>9, <2>1, AppendHead
  <2>3. s.stream = Append(q, i)
    BY ONLY <1>8, <2>1
  <2> QED
    BY ONLY <2>1, <2>2, <2>3
<1> QED
  BY <1>1, <1>2, <1>3, <1>6, <1>8, <1>10, <1>11, <1>12, HostBenches

\* An instruction that enqueues nothing, and is passed.
LEMMA PassBenches ==
  ASSUME MeasureInv, session.at < Len(Script), NEW kind, kind = Script[session.at + 1].do,
         kind \notin Enqueues, kind = "sync" => session.stream = << >>,
         Proceed(Passed(session)), UnchangedBelow, status = "running"
  PROVE  MeasureInv'
<1>1. PICK d, x : Measures(d, x)
  BY DEF MeasureInv
<1>2. Benching /\ Given
  BY DEF MeasureInv, Benching
<1>3. PICK sc \in Seq(BenchSteps) : sc = Script /\ Len(sc) \in Nat
  BY <1>2, ScriptIs
<1>4. /\ session \in Sessions(BenchSteps) /\ Tracks(Enqueues, session, sc, d, x)
      /\ DeviceTimes(Works, session, sc, d)
  BY <1>1, <1>2, <1>3 DEF Benching, Measures
<1> DEFINE y == session.at + 1
<1>5. PICK s : s = Passed(session)
  OBVIOUS
<1>6. /\ session.at < Len(sc) /\ sc[y].do = kind /\ session' = s
      /\ (status' = "passed" => s.at = Len(sc))
      /\ UNCHANGED <<vars, opt, given, expected, starts, snapshot, allocated, evicted>>
  BY <1>3, <1>5 DEF Proceed, UnchangedBelow
<1>7. session.at \in 0 .. Len(sc) - 1 /\ y \in 1 .. Len(sc)
  BY <1>3, <1>4, <1>6 DEF Tracks
<1>8. /\ s \in Sessions(BenchSteps) /\ s.at = y /\ s.stream = session.stream
      /\ s.clock = session.clock /\ s.started = session.started /\ s.timing = session.timing
      /\ s.measured = session.measured
  BY <1>4, <1>5, <1>7, HostFields
<1>9. Tracks(Enqueues, s, sc, d, x)
  BY <1>4, <1>6, <1>8, TracksPassed
<1>10. DeviceTimes(Works, s, sc, d)
  BY <1>4, <1>8 DEF DeviceTimes
<1> QED
  BY <1>1, <1>2, <1>3, <1>6, <1>8, <1>9, <1>10, HostBenches

\* A script that has not passed may stop where it is.
LEMMA EndBenches ==
  ASSUME MeasureInv, UnchangedBelow, session' = session, status' \in {"raised", "skipped", status}
  PROVE  MeasureInv'
<1>1. PICK d, x : Measures(d, x)
  BY DEF MeasureInv
<1>2. Benching /\ Given
  BY DEF MeasureInv, Benching
<1>3. PICK sc \in Seq(BenchSteps) : sc = Script /\ Len(sc) \in Nat
  BY <1>2, ScriptIs
<1>4. /\ session \in Sessions(BenchSteps) /\ Tracks(Enqueues, session, sc, d, x)
      /\ DeviceTimes(Works, session, sc, d)
  BY <1>1, <1>2, <1>3 DEF Benching, Measures
<1>5. status' = "passed" => session'.at = Len(sc)
  BY <1>2, <1>3 DEF Benching
<1>6. UNCHANGED <<vars, opt, given, expected, starts, snapshot, allocated, evicted>>
  BY DEF UnchangedBelow
<1>7. /\ session' \in Sessions(BenchSteps) /\ session'.timing = session.timing
      /\ Tracks(Enqueues, session', sc, d, x) /\ DeviceTimes(Works, session', sc, d)
      /\ session.stream # << >> => session'.stream # << >> /\ Head(session'.stream) = Head(session.stream)
  BY <1>4
<1> QED
  BY <1>1, <1>2, <1>3, <1>5, <1>6, <1>7, HostBenches

LEMMA HostStepBenches == ASSUME MeasureInv, Host PROVE MeasureInv'
<1>1. CASE Enqueue
  BY <1>1, EnqueueBenches
<1>2. CASE Wait
  <2>1. /\ session.at < Len(Script) /\ Script[session.at + 1].do = "sync"
        /\ session.stream = << >> /\ status = "running"
        /\ Proceed(Passed(session)) /\ UnchangedBelow
    BY <1>2 DEF Wait, Doing, At, Drained
  <2> QED
    BY <2>1, PassBenches DEF Enqueues, Works
<1>3. CASE ResolveMaintain
  <2>1. CASE Proceed(Passed(session))
    <3>1. /\ session.at < Len(Script) /\ Script[session.at + 1].do = "resolve"
          /\ status = "running" /\ UnchangedBelow
      BY <1>3 DEF ResolveMaintain, Doing, At
    <3> QED
      BY <2>1, <3>1, PassBenches DEF Enqueues, Works
  <2>2. CASE End("raised") \/ End("skipped")
    BY <1>3, <2>2, EndBenches DEF ResolveMaintain, End
  <2> QED
    BY <1>3, <2>1, <2>2 DEF ResolveMaintain, NoRunner
<1>4. CASE WrapperMiscounts
  BY <1>4, EndBenches DEF WrapperMiscounts, End
<1>5. CASE Check
  <2>1. Given
    BY DEF MeasureInv, Benching
  <2>2. PICK sc \in Seq(BenchSteps) : sc = Script /\ Len(sc) \in Nat
    BY <2>1, ScriptIs
  <2>3. session.at < Len(sc) /\ sc[session.at + 1].do = "check" /\ session.at \in Nat
    BY <1>5, <2>2 DEF Check, Doing, At, MeasureInv, Benching, Sessions
  <2>4. sc[session.at + 1] \in BenchSteps
    BY <2>2, <2>3
  <2>5. \A i \in BenchSteps : i.do # "check"
    BY StepFields DEF BenchSteps
  <2> QED
    BY <2>3, <2>4, <2>5
<1> QED
  BY <1>1, <1>2, <1>3, <1>4, <1>5 DEF Host

-----------------------------------------------------------------------------
(* The benchmark starts.                                                    *)

LEMMA BenchGiven == ASSUME ScriptInit, opt.tool = "bench" PROVE Given
<1>1. /\ opt \in Options
      /\ given = [lookup |-> IndexCase(opt.pattern), maintain |-> MaintainInput(opt)]
      /\ expected = [lookup   |-> ExpectedLookup(given.lookup),
                     maintain |-> ExpectedMaintain(given.maintain, starts)]
  BY CommandAssumption DEF ScriptInit
<1>2. given.lookup = IndexCase(opt.pattern) /\ given.maintain = MaintainInput(opt)
  BY ONLY <1>1
<1>3. expected.lookup = ExpectedLookup(given.lookup)
  BY ONLY <1>1
<1>4. Inputs(given.lookup, given.maintain)
  BY <1>1, <1>2, InputsIn
<1>5. given.lookup.freeHead = [r \in Reqs |-> 0]
  <2>1. MaintainCase(0).freeHead = [r \in Reqs |-> 0]
    BY DEF MaintainCase
  <2>2. IndexCase(opt.pattern).freeHead = MaintainCase(0).freeHead
    BY DEF IndexCase
  <2> QED
    BY ONLY <1>2, <2>1, <2>2
<1> QED
  BY <1>1, <1>3, <1>4, <1>5 DEF Given

LEMMA MeasureInit == ASSUME ScriptInit, opt.tool = "bench" PROVE MeasureInv
<1>1. /\ Init /\ session = NewSession /\ status = "running"
      /\ starts = [r \in Reqs |-> 0] /\ allocated = 0 /\ evicted = 0
  BY DEF ScriptInit
<1>2. Given
  BY BenchGiven
<1>3. PICK sc \in Seq(BenchSteps) : sc = Script /\ Len(sc) \in Nat
  BY <1>2, ScriptIs
<1>4. /\ session \in Sessions(BenchSteps) /\ session.at = 0 /\ session.stream = << >>
      /\ session.clock = 0 /\ session.timing = FALSE /\ session.measured = 0
  BY <1>1 DEF NewSession, Sessions
<1>5. op = "idle" /\ \A c \in Cores : pc[c] = "load"
  BY <1>1 DEF Init
<1>6. TensorsIn
  <2>1. \A r \in Reqs :
          /\ index[r] \in [Tokens -> Slots \cup {NotFound}]
          /\ slotToIndex[r] \in [Slots -> Nat \cup {NotFound}]
          /\ freeSlots[r] \in [FreeRow -> Slots]
          /\ freeHead[r] \in Nat
          /\ query[r] \in [Positions -> Tokens]
          /\ slotOut[r] \in [Positions -> Slots \cup {NotFound}]
    BY <1>1, Sizes DEF Init, Tokens, Slots, FreeRow, Residents
  <2> QED
    BY <1>1, <2>1 DEF Init, TensorsIn
<1>7. RegistersIn
  BY <1>1 DEF Init, RegistersIn
<1>8. starts \in [Reqs -> Slots]
  <2>1. 0 \in Slots
    BY Sizes DEF Slots
  <2> QED
    BY <1>1, <2>1
<1>9. Benching
  <2>1. ControlIn
    BY <1>6, <1>7 DEF ControlIn, TensorsIn, RegistersIn
  <2>2. Emptied /\ LastAnswer /\ Follows
    BY <1>5, <1>6, <1>7, <1>8 DEF Emptied, LastAnswer, Follows
  <2> QED
    BY <1>1, <1>2, <1>4, <1>5, <2>1, <2>2 DEF Benching
<1>10. Tracks(Enqueues, session, sc, 0, << >>)
  BY <1>4 DEF Tracks
<1>11. /\ \A W : Work(W, sc, 0) = {}
       /\ \A W, b, e : Timed(W, sc, 0, b, e) = {} /\ ~ Between(sc, 0 + 1, b, e)
       /\ Cardinality({}) = 0
  BY FS_EmptySet DEF Work, Timed, Between
<1>12. DeviceTimes(Works, session, sc, 0)
  <2>1. session.clock = Cardinality(Work(Works, sc, 0))
    BY <1>4, <1>11
  <2>2. session.timing = Between(sc, 0 + 1, StartEvent, StopEvent)
    <3>1. Between(sc, 0 + 1, StartEvent, StopEvent) = FALSE
      BY <1>11
    <3> QED
      BY ONLY <1>4, <3>1
  <2>3. Cardinality(Timed(Works, sc, 0, StartEvent, StopEvent)) = 0
    <3>1. Timed(Works, sc, 0, StartEvent, StopEvent) = {} /\ Cardinality({}) = 0
      BY <1>11
    <3> QED
      BY ONLY <3>1
  <2>4. session.measured + (IF session.timing THEN session.clock - session.started ELSE 0) = 0
    BY <1>4
  <2> QED
    BY ONLY <2>1, <2>2, <2>3, <2>4 DEF DeviceTimes
<1>13. DeviceDone(0)
  <2>1. \A A, B : ~ Latest(sc, 0 + 1, A, B)
    BY DEF Latest
  <2>2. \A k : ~ Fresh(Script, 0 + 1, k) /\ ~ Cloned(Script, 0 + 1, k)
    BY <1>3, <2>1 DEF Fresh, Cloned
  <2>3. \A kind : Launches(kind, 0) = 0
    BY <1>3, <1>11 DEF Launches
  <2>4. Sum(given.maintain.freeHead) \in Nat /\ Sum(expected.lookup.freeHead) \in Nat
    BY <1>2, SumsIn
  <2>5. Evictions(0) /\ Allocations(0)
    BY <1>1, <1>5, <2>3, <2>4 DEF Evictions, Allocations, Running
  <2> QED
    BY <2>2, <2>5 DEF DeviceDone
<1>14. Measures(0, << >>)
  BY <1>3, <1>10, <1>12, <1>13 DEF Measures
<1> QED
  BY <1>9, <1>14 DEF MeasureInv

-----------------------------------------------------------------------------
(* The device's oldest item.                                                *)

LEMMA DoneFields ==
  ASSUME NEW S, NEW s \in Sessions(S), s.stream # << >>, NEW t \in {WorkDone(s), EventStamped(s)}
  PROVE  t \in Sessions(S) /\ t.at = s.at /\ t.stream = Tail(s.stream)
<1>1. t \in Sessions(S)
  <2>1. WorkDone(s) \in Sessions(S) /\ EventStamped(s) \in Sessions(S)
    BY DeviceFields
  <2> QED
    BY ONLY <2>1, t \in {WorkDone(s), EventStamped(s)}
<1>2. \/ t = [s EXCEPT !.stream = Tail(s.stream), !.clock = s.clock + 1]
      \/ t = [s EXCEPT !.stream = Tail(s.stream), !.started = s.clock, !.timing = TRUE]
      \/ t = [s EXCEPT !.stream = Tail(s.stream), !.measured = s.measured + (s.clock - s.started),
                       !.timing = FALSE]
  <2>1. CASE t = WorkDone(s)
    BY <2>1, DeviceFields
  <2>2. CASE t = EventStamped(s)
    BY <2>2, DeviceFields
  <2> QED
    BY <2>1, <2>2
<1>3. t.at = s.at /\ t.stream = Tail(s.stream)
  BY ONLY <1>2, s \in Sessions(S) DEF Sessions
<1> QED
  BY <1>1, <1>3

\* What the oldest item is, and whether it is timed.
LEMMA OldestBenched ==
  ASSUME Benching, NEW d, NEW x, Measures(d, x), session.stream # << >>,
         NEW sc, sc = Script, NEW y, y = x[1]
  PROVE  /\ sc \in Seq(BenchSteps) /\ y \in 1 .. Len(sc) /\ d \in Nat /\ y \in Nat /\ d < y
         /\ Head(session.stream) = sc[y] /\ sc[y] \in BenchSteps /\ sc[y].do \in Enqueues
         /\ \A j \in d + 1 .. y - 1 : sc[j].do \notin Enqueues
         /\ \A t : t.at = session.at /\ t.stream = Tail(session.stream) =>
                     Tracks(Enqueues, t, sc, y, Tail(x))
         /\ session.timing <=> Between(sc, y, StartEvent, StopEvent)
<1>1. /\ sc \in Seq(BenchSteps) /\ session \in Sessions(BenchSteps)
      /\ Tracks(Enqueues, session, sc, d, x) /\ DeviceTimes(Works, session, sc, d)
  BY ScriptIs DEF Benching, Measures
<1>2. session.stream \in Seq(BenchSteps)
  BY <1>1 DEF Sessions
<1>3. ASSUME NEW t, t.at = session.at, t.stream = Tail(session.stream)
      PROVE  /\ y \in d + 1 .. session.at /\ y \in 1 .. Len(sc)
             /\ Head(session.stream) = sc[y] /\ sc[y].do \in Enqueues
             /\ \A j \in d + 1 .. y - 1 : sc[j].do \notin Enqueues
             /\ Tracks(Enqueues, t, sc, y, Tail(x))
  BY <1>1, <1>2, <1>3, TracksDone
<1> DEFINE t == [session EXCEPT !.stream = Tail(session.stream)]
<1>4. t.at = session.at /\ t.stream = Tail(session.stream)
  BY <1>1 DEF Sessions
<1> HIDE DEF t
<1>5. session.at \in Nat /\ d \in Nat
  BY <1>1 DEF Tracks
<1>6. /\ y \in 1 .. Len(sc) /\ y \in Nat /\ d < y /\ Head(session.stream) = sc[y]
      /\ sc[y].do \in Enqueues /\ \A j \in d + 1 .. y - 1 : sc[j].do \notin Enqueues
  BY <1>3, <1>4, <1>5
<1>7. sc[y] \in BenchSteps
  BY <1>1, <1>6
<1>8. session.timing <=> Between(sc, y, StartEvent, StopEvent)
  <2>1. \A j \in d + 1 .. y - 1 : sc[j] # StartEvent /\ sc[j] # StopEvent
    BY <1>6 DEF Enqueues, StartEvent, StopEvent, Instr
  <2>2. d + 1 \in Nat \ {0} /\ d + 1 <= y
    BY <1>5, <1>6
  <2>3. Between(sc, y, StartEvent, StopEvent) <=> Between(sc, d + 1, StartEvent, StopEvent)
    BY <1>6, <2>1, <2>2, BetweenGap
  <2> QED
    BY <1>1, <2>3 DEF DeviceTimes
<1> QED
  BY <1>1, <1>3, <1>5, <1>6, <1>7, <1>8

\* A kernel that the device times counts once.
LEMMA LaunchesNext ==
  ASSUME Benching, NEW d, NEW x, Measures(d, x), session.stream # << >>, NEW y, y = x[1],
         NEW kind \in Kernels
  PROVE  /\ Launches(kind, d) \in Nat
         /\ Launches(kind, y) = Launches(kind, d)
              + (IF Head(session.stream).do = kind /\ session.timing THEN 1 ELSE 0)
<1>1. PICK sc : sc = Script
  OBVIOUS
<1>2. /\ d \in Nat /\ y \in Nat /\ d < y /\ Head(session.stream) = sc[y]
      /\ \A j \in d + 1 .. y - 1 : sc[j].do \notin Enqueues
      /\ session.timing <=> Between(sc, y, StartEvent, StopEvent)
  BY <1>1, OldestBenched
<1>3. \A j \in d + 1 .. y - 1 : sc[j].do \notin {kind}
  BY <1>2 DEF Enqueues, Works, Kernels
<1>4. Cardinality(Timed({kind}, sc, y, StartEvent, StopEvent)) =
        Cardinality(Timed({kind}, sc, d, StartEvent, StopEvent))
          + (IF sc[y].do \in {kind} /\ Between(sc, y, StartEvent, StopEvent) THEN 1 ELSE 0)
  BY <1>2, <1>3, TimedNext
<1>5. Launches(kind, d) \in Nat
  BY <1>1, <1>2, WorkFinite DEF Launches
<1> QED
  BY <1>1, <1>2, <1>4, <1>5 DEF Launches

LEMMA EventIs ==
  ASSUME NEW i \in BenchSteps
  PROVE  i.do \in {"start", "stop"} => i \in {StartEvent, StopEvent}
<1>1. CASE i \in {Synchronize, StartEvent, StopEvent, CopyBack, Instr("resolve", 0)}
  BY <1>1, StepFields
<1>2. ASSUME NEW k \in Kernels, i \in {Kernel(k), Upload(k), Snapshot(k), Restore(k)}
      PROVE  i.do \notin {"start", "stop"}
  BY <1>2, StepFields
<1> QED
  BY <1>1, <1>2 DEF BenchSteps

\* Before the oldest item, tensors and clones are what they were at d.
LEMMA LatestDevice ==
  ASSUME Benching, NEW d, NEW x, Measures(d, x), session.stream # << >>, NEW y, y = x[1],
         NEW k \in Kernels
  PROVE  LET i == Head(session.stream)
         IN /\ Fresh(Script, y, k) => Fresh(Script, d + 1, k)
            /\ Cloned(Script, y, k) => Cloned(Script, d + 1, k)
            /\ Fresh(Script, y + 1, k) => \/ i \in {Upload(k), Restore(k)}
                                          \/ Fresh(Script, d + 1, k) /\ i.do \notin Writers
            /\ Cloned(Script, y + 1, k) => \/ i = Snapshot(k)
                                           \/ Cloned(Script, d + 1, k) /\ i.do # "snapshot"
<1>1. PICK sc : sc = Script
  OBVIOUS
<1>2. /\ d \in Nat /\ y \in Nat /\ d < y /\ Head(session.stream) = sc[y]
      /\ \A j \in d + 1 .. y - 1 : sc[j].do \notin Enqueues
  BY <1>1, OldestBenched
<1>3. \A j \in d + 1 .. y - 1 : sc[j] \notin {Upload(k), Restore(k)} /\ sc[j] \notin {Snapshot(k)}
  BY <1>2, StepFields DEF Enqueues, Works
<1>4. /\ Fresh(sc, y + 1, k) => \/ sc[y] \in {Upload(k), Restore(k)}
                                \/ Fresh(sc, d + 1, k) /\ sc[y].do \notin Writers
      /\ Fresh(sc, y, k) => Fresh(sc, d + 1, k)
  BY <1>2, <1>3, LatestNext DEF Fresh
<1>5. /\ Cloned(sc, y + 1, k) => \/ sc[y] \in {Snapshot(k)}
                                 \/ Cloned(sc, d + 1, k) /\ sc[y].do \notin {"snapshot"}
      /\ Cloned(sc, y, k) => Cloned(sc, d + 1, k)
  BY <1>2, <1>3, LatestNext DEF Cloned
<1> QED
  BY <1>1, <1>2, <1>4, <1>5

\* The device has finished its oldest item.
LEMMA DoneBenches ==
  ASSUME Benching, NEW d, NEW x, Measures(d, x), session.stream # << >>,
         session' = IF Head(session.stream).do \in Works THEN WorkDone(session)
                    ELSE EventStamped(session),
         Given', ControlIn', op' = "idle", \A c \in Cores : pc'[c] = "load",
         opt.reset => Follows', DeviceDone(x[1])', UNCHANGED <<opt, status>>
  PROVE  MeasureInv'
<1>1. PICK sc, y : sc = Script /\ y = x[1]
  OBVIOUS
<1>2. /\ sc \in Seq(BenchSteps) /\ session \in Sessions(BenchSteps)
      /\ Bracketed(sc, StartEvent, StopEvent) /\ DeviceTimes(Works, session, sc, d)
  BY <1>1, ScriptIs DEF Benching, Measures
<1>3. /\ y \in 1 .. Len(sc) /\ d \in Nat /\ y \in Nat /\ d < y
      /\ Head(session.stream) = sc[y] /\ sc[y] \in BenchSteps /\ sc[y].do \in Enqueues
      /\ \A j \in d + 1 .. y - 1 : sc[j].do \notin Enqueues
      /\ \A t : t.at = session.at /\ t.stream = Tail(session.stream) =>
                  Tracks(Enqueues, t, sc, y, Tail(x))
  BY <1>1, OldestBenched
<1>4. Works \subseteq Enqueues /\ {"start", "stop"} \subseteq Enqueues \ Works
  BY DEF Works, Enqueues
<1>5. /\ sc[y].do \in Works => DeviceTimes(Works, WorkDone(session), sc, y)
      /\ sc[y] \in {StartEvent, StopEvent} => DeviceTimes(Works, EventStamped(session), sc, y)
  BY <1>2, <1>3, <1>4, DeviceTimesDone
<1>6. sc[y].do \notin Works => sc[y] \in {StartEvent, StopEvent}
  BY <1>3, EventIs DEF Enqueues
<1>7. DeviceTimes(Works, session', sc, y)
  BY <1>3, <1>5, <1>6
<1>8. /\ session' \in Sessions(BenchSteps) /\ session'.at = session.at
      /\ session'.stream = Tail(session.stream)
  <2>1. session' \in {WorkDone(session), EventStamped(session)}
    OBVIOUS
  <2> QED
    BY <1>2, <2>1, DoneFields
<1>9. Script' = Script
  BY DEF Script
<1>10. Measures(y, Tail(x))'
  <2>1. Tracks(Enqueues, session', sc, y, Tail(x))
    BY <1>3, <1>8
  <2> QED
    BY <1>1, <1>7, <1>9, <2>1 DEF Measures
<1>11. Benching'
  <2>1. status' = "passed" => session'.at = Len(Script')
    BY <1>8, <1>9 DEF Benching
  <2>2. Emptied' /\ LastAnswer'
    BY DEF Emptied, LastAnswer
  <2> QED
    BY <1>8, <2>1, <2>2 DEF Benching
<1> QED
  BY <1>10, <1>11 DEF MeasureInv

\* The device does something other than a kernel, or has a kernel to start.
LEMMA NoKernel ==
  ASSUME Benching, op = "idle"
  PROVE  /\ \A c \in Cores : pc[c] = "load"
         /\ \A k \in Kernels : ~ Running(k)
BY DEF Benching, Running, Kernels

LEMMA HeadNotKernel ==
  ASSUME Benching, session.stream # << >>, Head(session.stream).do \notin Kernels
  PROVE  op = "idle"
<1>1. ASSUME op # "idle" PROVE FALSE
  <2>1. op \in Kernels /\ Head(session.stream) = Kernel(op)
    BY <1>1 DEF Benching
  <2> QED
    BY <2>1, StepFields
<1> QED
  BY <1>1

\* Where no kernel runs and none is done, the counts stand.
LEMMA CountsStand ==
  ASSUME Benching, NEW d, NEW x, Measures(d, x), session.stream # << >>,
         Head(session.stream).do \notin Kernels, op' = "idle",
         UNCHANGED <<opt, given, expected, allocated, evicted>>
  PROVE  Evictions(x[1])' /\ (opt.reset => Allocations(x[1])')
<1>1. PICK y : y = x[1]
  OBVIOUS
<1>2. op = "idle" /\ "lookup" \in Kernels /\ "maintain" \in Kernels
  BY HeadNotKernel DEF Kernels
<1>3. ASSUME NEW k \in Kernels PROVE Launches(k, y)' = Launches(k, d)
  <2>1. /\ Launches(k, d) \in Nat
        /\ Launches(k, y) = Launches(k, d)
             + (IF Head(session.stream).do = k /\ session.timing THEN 1 ELSE 0)
    BY <1>1, LaunchesNext
  <2>2. Launches(k, y) = Launches(k, d)
    BY <2>1
  <2>3. Script' = Script
    BY DEF Script
  <2> QED
    BY <2>2, <2>3 DEF Launches
<1>4. \A k \in Kernels : ~ Running(k) /\ ~ Running(k)'
  BY <1>2 DEF Running, Kernels
<1>5. Evictions(d) /\ (opt.reset => Allocations(d))
  BY DEF Measures, DeviceDone
<1>6. Evictions(y)'
  BY <1>2, <1>3, <1>4, <1>5 DEF Evictions
<1>7. opt.reset => Allocations(y)'
  BY <1>2, <1>3, <1>4, <1>5 DEF Allocations
<1> QED
  BY <1>1, <1>6, <1>7

-----------------------------------------------------------------------------
(* Copies and events.                                                       *)

LEMMA StepIs ==
  ASSUME NEW i \in BenchSteps
  PROVE  /\ i.do = "upload" => \E k \in Kernels : i = Upload(k) /\ i.on = k
         /\ i.do = "restore" => \E k \in Kernels : i = Restore(k) /\ i.on = k
         /\ i.do = "snapshot" => \E k \in Kernels : i = Snapshot(k) /\ i.on = k
         /\ i.do \in Kernels => i = Kernel(i.do)
<1>1. CASE i \in {Synchronize, StartEvent, StopEvent, CopyBack, Instr("resolve", 0)}
  <2>1. i.do \in {"sync", "start", "stop", "return", "resolve"}
    BY <1>1, StepFields
  <2> QED
    BY <2>1 DEF Kernels
<1>2. ASSUME NEW k \in Kernels, i \in {Kernel(k), Upload(k), Snapshot(k), Restore(k)}
      PROVE  /\ i.do = "upload" => i = Upload(k)
             /\ i.do = "restore" => i = Restore(k)
             /\ i.do = "snapshot" => i = Snapshot(k)
             /\ i.do \in Kernels => i = Kernel(i.do)
  <2>1. CASE i = Kernel(k)
    BY <2>1, StepFields
  <2>2. CASE i = Upload(k)
    BY <2>2, StepFields
  <2>3. CASE i = Snapshot(k)
    BY <2>3, StepFields
  <2>4. CASE i = Restore(k)
    BY <2>4, StepFields
  <2> QED
    BY <1>2, <2>1, <2>2, <2>3, <2>4
<1>3. \A k : Upload(k).on = k /\ Restore(k).on = k /\ Snapshot(k).on = k
  BY DEF Upload, Restore, Snapshot, Instr
<1> QED
  BY <1>1, <1>2, <1>3 DEF BenchSteps

LEMMA GivenCopies ==
  ASSUME Given, NEW k \in Kernels
  PROVE  TensorsOf(given[k]) /\ Copies(given[k], k)
<1>1. Inputs(given.lookup, given.maintain)
  BY DEF Given
<1>2. CASE k = "lookup"
  BY <1>1, <1>2 DEF Inputs, Copies
<1>3. CASE k = "maintain"
  BY <1>1, <1>3 DEF Inputs, Copies
<1> QED
  BY <1>2, <1>3 DEF Kernels

\* The kernel's tensors are the process's again.
LEMMA SetLoads ==
  ASSUME Given, NEW k \in Kernels, NEW c, Copies(c, k), SetTensors(c),
         UNCHANGED <<given, req, pc, head, pos, outTile, protected>>, ControlIn
  PROVE  Loaded(k)' /\ ControlIn' /\ (TensorsIn => TensorsIn')
<1>1. PICK g : g = given[k] /\ g = given'[k]
  OBVIOUS
<1>2. TensorsOf(g)
  BY <1>1, GivenCopies
<1>3. /\ index' = g.index /\ slotToIndex' = g.slotToIndex /\ freeSlots' = g.freeSlots
      /\ freeHead' = g.freeHead
  BY <1>1 DEF SetTensors, Copies
<1>4. k = "lookup" => "query" \in DOMAIN g /\ query' = g.query /\ slotOut' = slotOut
  BY <1>1, GivenCopies DEF SetTensors, Copies
<1>5. k # "lookup" => "last" \in DOMAIN g /\ slotOut' = g.last /\ query' = query
  BY <1>1, GivenCopies DEF SetTensors, Copies
<1>6. Loaded(k)'
  BY <1>1, <1>3, <1>4, <1>5 DEF Loaded
<1>7. ControlIn'
  BY <1>2, <1>3 DEF ControlIn, TensorsOf
<1>8. ASSUME TensorsIn PROVE TensorsIn'
  <2>1. query' \in [Reqs -> [Positions -> Tokens]]
    BY <1>2, <1>4, <1>5, <1>8 DEF TensorsOf, TensorsIn
  <2>2. slotOut' \in [Reqs -> [Positions -> Slots \cup {NotFound}]]
    BY <1>2, <1>4, <1>5, <1>8 DEF TensorsOf, TensorsIn
  <2> QED
    BY <1>2, <1>3, <2>1, <2>2 DEF TensorsOf, TensorsIn
<1> QED
  BY <1>6, <1>7, <1>8

\* What the stream asks for, the benchmark's tensors and clones are.
LEMMA AskedFor ==
  ASSUME Benching, NEW d, NEW x, Measures(d, x), session.stream # << >>, NEW k \in Kernels
  PROVE  LET i == Head(session.stream)
         IN /\ i = Restore(k) => Copies(snapshot, k)
            /\ i = Snapshot(k) => op = "idle" /\ Loaded(k)
            /\ i = Kernel(k) /\ (k = "maintain" \/ opt.reset) => op # "idle" \/ Loaded(k)
<1>1. PICK sc, y : sc = Script /\ y = x[1]
  OBVIOUS
<1>2. Fed(opt, sc) /\ Restores(sc)
  BY <1>1, ScriptIs DEF Benching
<1>3. y \in 1 .. Len(sc) /\ Head(session.stream) = sc[y]
  BY <1>1, OldestBenched
<1>4. /\ Fresh(sc, y, k) => Fresh(sc, d + 1, k)
      /\ Cloned(sc, y, k) => Cloned(sc, d + 1, k)
  BY <1>1, LatestDevice
<1>5. /\ Fresh(sc, d + 1, k) => op # "idle" \/ Loaded(k)
      /\ Cloned(sc, d + 1, k) => Copies(snapshot, k)
  BY <1>1 DEF Measures, DeviceDone
<1>6. ASSUME sc[y] = Restore(k) PROVE Copies(snapshot, k)
  BY <1>2, <1>3, <1>4, <1>5, <1>6 DEF Restores
<1>7. ASSUME sc[y] = Snapshot(k) \/ (sc[y] = Kernel(k) /\ (k = "maintain" \/ opt.reset))
      PROVE  op # "idle" \/ Loaded(k)
  BY <1>2, <1>3, <1>4, <1>5, <1>7 DEF Fed
<1>8. ASSUME sc[y] = Snapshot(k) PROVE op = "idle"
  <2>1. Head(session.stream).do \notin Kernels
    BY <1>3, <1>8, StepFields DEF Kernels
  <2> QED
    BY <2>1, HeadNotKernel
<1> QED
  BY <1>3, <1>6, <1>7, <1>8

LEMMA CopyBenches == ASSUME MeasureInv, Copy PROVE MeasureInv'
<1>1. PICK d, x, i : Measures(d, x) /\ i = Head(session.stream)
  BY DEF MeasureInv
<1>2. /\ session.stream # << >> /\ i.do \in {"upload", "restore"} /\ session' = WorkDone(session)
      /\ UNCHANGED <<opt, given, expected, starts, status, snapshot, allocated, evicted>>
      /\ UNCHANGED <<op, req, pc, head, pos, outTile, protected>>
      /\ \/ i.do = "upload" /\ SetTensors(given[i.on])
         \/ i.do = "restore" /\ SetTensors(snapshot)
  BY <1>1 DEF Copy, DeviceAt, UnchangedHost, registers
<1>3. Benching /\ Given /\ ControlIn
  BY DEF MeasureInv, Benching
<1>4. i \in BenchSteps
  BY <1>1, <1>2, <1>3, OldestBenched
<1>5. PICK k \in Kernels : i.on = k /\ i \in {Upload(k), Restore(k)}
                           /\ (i.do = "upload" => i = Upload(k)) /\ (i.do = "restore" => i = Restore(k))
  BY <1>2, <1>4, StepIs, StepFields
<1>6. op = "idle" /\ op' = "idle" /\ \A c \in Cores : pc'[c] = "load"
  <2>1. i.do \notin Kernels
    BY <1>2 DEF Kernels
  <2> QED
    BY <1>1, <1>2, <1>3, <2>1, HeadNotKernel, NoKernel
<1>7. Loaded(k)' /\ ControlIn' /\ (TensorsIn => TensorsIn')
  <2>1. PICK c : Copies(c, k) /\ SetTensors(c)
    <3>1. CASE i.do = "upload" /\ SetTensors(given[i.on])
      BY <1>3, <1>5, <3>1, GivenCopies
    <3>2. CASE i.do = "restore" /\ SetTensors(snapshot)
      BY <1>1, <1>2, <1>3, <1>5, <3>2, AskedFor
    <3> QED
      BY <1>2, <3>1, <3>2
  <2> QED
    BY <1>2, <1>3, <2>1, SetLoads
<1>8. Given' /\ Script' = Script
  BY <1>2, <1>3 DEF Given, Script
<1>9. opt.reset => Follows'
  <2>1. RegistersIn => RegistersIn'
    BY <1>2 DEF RegistersIn
  <2> QED
    BY <1>2, <1>3, <1>6, <1>7, <2>1 DEF Benching, Follows
<1>10. PICK y : y = x[1]
  OBVIOUS
<1>11. DeviceDone(y)'
  <2>1. ASSUME NEW l \in Kernels, Fresh(Script, y + 1, l) PROVE Loaded(l)'
    <3>1. i \in {Upload(l), Restore(l)} \/ i.do \notin Writers
      BY <1>1, <1>2, <1>3, <1>10, <2>1, LatestDevice
    <3>2. i \in {Upload(l), Restore(l)}
      BY <1>2, <3>1 DEF Writers
    <3>3. l = k
      BY <1>5, <3>2, StepFields
    <3> QED
      BY <1>7, <3>3
  <2>2. ASSUME NEW l \in Kernels, Cloned(Script, y + 1, l) PROVE Copies(snapshot, l)'
    <3>1. i = Snapshot(l) \/ Cloned(Script, d + 1, l)
      BY <1>1, <1>2, <1>3, <1>10, <2>2, LatestDevice
    <3>2. Copies(snapshot, l)
      BY <1>1, <1>2, <3>1, StepFields DEF Measures, DeviceDone
    <3> QED
      BY <1>2, <3>2 DEF Copies
  <2>3. Evictions(y)' /\ (opt.reset => Allocations(y)')
    <3>1. Head(session.stream).do \notin Kernels
      BY <1>1, <1>2 DEF Kernels
    <3> QED
      BY <1>1, <1>2, <1>3, <1>6, <1>10, <3>1, CountsStand
  <2> QED
    BY <1>2, <1>8, <2>1, <2>2, <2>3 DEF DeviceDone, Fresh, Cloned
<1>12. session' = IF Head(session.stream).do \in Works THEN WorkDone(session)
                  ELSE EventStamped(session)
  BY <1>1, <1>2 DEF Works
<1> QED
  BY <1>1, <1>2, <1>3, <1>6, <1>7, <1>8, <1>9, <1>10, <1>11, <1>12, DoneBenches

\* A step that leaves tensors and kernels alone.
LEMMA MarkBenches ==
  ASSUME MeasureInv, TakeSnapshot \/ Stamp \/ CopyReturned
  PROVE  MeasureInv'
<1>1. PICK d, x, i : Measures(d, x) /\ i = Head(session.stream)
  BY DEF MeasureInv
<1>2. /\ session.stream # << >> /\ i.do \in {"snapshot", "start", "stop", "return"}
      /\ session' = IF i.do \in Works THEN WorkDone(session) ELSE EventStamped(session)
      /\ UNCHANGED <<opt, given, expected, starts, status, allocated, evicted>>
      /\ UNCHANGED vars
      /\ snapshot' = IF i.do = "snapshot" THEN Clones(i.on) ELSE snapshot
  BY <1>1 DEF TakeSnapshot, Stamp, CopyReturned, DeviceAt, UnchangedHost, Works
<1>3. Benching /\ Given /\ ControlIn
  BY DEF MeasureInv, Benching
<1>4. i \in BenchSteps
  BY <1>1, <1>2, <1>3, OldestBenched
<1>5. /\ UNCHANGED <<index, slotToIndex, freeSlots, freeHead, query, slotOut>>
      /\ UNCHANGED <<op, req, pc, head, pos, outTile, protected>>
  BY <1>2 DEF vars, memory, registers
<1>6. op = "idle" /\ op' = "idle" /\ \A c \in Cores : pc'[c] = "load"
  <2>1. i.do \notin Kernels
    BY <1>2 DEF Kernels
  <2> QED
    BY <1>1, <1>2, <1>3, <1>5, <2>1, HeadNotKernel, NoKernel
<1>7. Given' /\ Script' = Script /\ ControlIn'
  BY <1>2, <1>3, <1>5 DEF Given, Script, ControlIn
<1>8. opt.reset => Follows'
  <2>1. (RegistersIn => RegistersIn') /\ (TensorsIn => TensorsIn')
    BY <1>5 DEF RegistersIn, TensorsIn
  <2> QED
    BY <1>2, <1>3, <1>6, <2>1 DEF Benching, Follows
<1>9. PICK y : y = x[1]
  OBVIOUS
<1>10. DeviceDone(y)'
  <2>1. ASSUME NEW l \in Kernels, Fresh(Script, y + 1, l) PROVE Loaded(l)'
    <3>1. i \in {Upload(l), Restore(l)} \/ Fresh(Script, d + 1, l)
      BY <1>1, <1>2, <1>3, <1>9, <2>1, LatestDevice
    <3>2. Fresh(Script, d + 1, l)
      BY <1>2, <3>1, StepFields
    <3>3. Loaded(l)
      BY <1>1, <1>6, <3>2 DEF Measures, DeviceDone
    <3> QED
      BY <1>2, <1>5, <3>3 DEF Loaded
  <2>2. ASSUME NEW l \in Kernels, Cloned(Script, y + 1, l) PROVE Copies(snapshot, l)'
    <3>1. i = Snapshot(l) \/ (Cloned(Script, d + 1, l) /\ i.do # "snapshot")
      BY <1>1, <1>2, <1>3, <1>9, <2>2, LatestDevice
    <3>2. CASE i = Snapshot(l)
      <4>1. Loaded(l) /\ i.do = "snapshot" /\ i.on = l
        <5>1. i.do = "snapshot" /\ i.on = l
          BY <3>2 DEF Snapshot, Instr
        <5> QED
          BY <1>1, <1>2, <1>3, <3>2, <5>1, AskedFor
      <4>2. snapshot' = Clones(l)
        BY <1>2, <4>1
      <4>3. Copies(Clones(l), l)
        <5>1. CASE l = "lookup"
          BY <4>1, <5>1 DEF Clones, Loaded, Copies
        <5>2. CASE l = "maintain"
          BY <4>1, <5>2 DEF Clones, Loaded, Copies
        <5> QED
          BY <5>1, <5>2 DEF Kernels
      <4> QED
        BY <1>2, <4>2, <4>3 DEF Copies
    <3>3. CASE Cloned(Script, d + 1, l) /\ i.do # "snapshot"
      <4>1. Copies(snapshot, l) /\ snapshot' = snapshot
        BY <1>1, <1>2, <3>3 DEF Measures, DeviceDone
      <4> QED
        BY <1>2, <4>1 DEF Copies
    <3> QED
      BY <3>1, <3>2, <3>3
  <2>3. Evictions(y)' /\ (opt.reset => Allocations(y)')
    <3>1. Head(session.stream).do \notin Kernels
      BY <1>1, <1>2 DEF Kernels
    <3> QED
      BY <1>1, <1>2, <1>3, <1>6, <1>9, <3>1, CountsStand
  <2> QED
    BY <1>2, <1>7, <2>1, <2>2, <2>3 DEF DeviceDone, Fresh, Cloned
<1> QED
  BY <1>1, <1>2, <1>3, <1>6, <1>7, <1>8, <1>9, <1>10, DoneBenches

-----------------------------------------------------------------------------
(* A kernel.                                                                *)

\* A step that leaves the stream alone.
LEMMA SameBenches ==
  ASSUME MeasureInv, NEW d, NEW x, Measures(d, x), UNCHANGED <<session, opt, status>>,
         Given', ControlIn', Emptied', LastAnswer', opt.reset => Follows', DeviceDone(d)',
         op' \in Kernels, session.stream # << >>, Head(session.stream) = Kernel(op'),
         NEW loop, loop = Loop(op'), CoresAt(loop)'
  PROVE  MeasureInv'
<1>1. Benching /\ Script' = Script
  BY DEF MeasureInv, Script
<1>2. Measures(d, x)'
  BY <1>1 DEF Measures
<1>3. CoresAt(Loop(op))'
  BY DEF CoresAt, CoreOf, Loop
<1>4. op' # "idle"
  BY DEF Kernels
<1>5. Benching'
  BY <1>1, <1>3, <1>4 DEF Benching
<1> QED
  BY <1>2, <1>5 DEF MeasureInv

\* Between requests, what is consumed is in the memory.
LEMMA SumLoaded ==
  ASSUME freeHead \in [Reqs -> Nat], \A c \in Cores : pc[c] = "load"
  PROVE  SumConsumed = Sum(freeHead)
<1>1. ASSUME NEW r \in Reqs PROVE Consumed(r) = freeHead[r]
  <2>1. CoreOf(r) \in Cores
    BY CoreOfIsCore
  <2> QED
    BY <2>1 DEF Consumed
<1>2. [r \in Reqs |-> Consumed(r)] = freeHead
  BY <1>1
<1> QED
  BY <1>2 DEF SumConsumed

LEMMA SumLaunched ==
  ASSUME freeHead \in [Reqs -> Nat], freeHead' = freeHead, \A c \in Cores : pc'[c] = "load"
  PROVE  SumConsumed' = Sum(freeHead)
<1>1. ASSUME NEW r \in Reqs PROVE Consumed(r)' = freeHead[r]
  <2>1. CoreOf(r) \in Cores /\ CoreOf(r)' = CoreOf(r)
    BY CoreOfIsCore DEF CoreOf
  <2> QED
    BY <2>1 DEF Consumed
<1>2. [r \in Reqs |-> Consumed(r)'] = freeHead
  BY <1>1
<1> QED
  BY <1>2 DEF SumConsumed

LEMMA StartBenches == ASSUME MeasureInv, StartKernel PROVE MeasureInv'
<1>1. PICK d, x, i : Measures(d, x) /\ i = Head(session.stream)
  BY DEF MeasureInv
<1>2. PICK k \in Kernels : k = i.do
  BY <1>1 DEF StartKernel, DeviceAt, Kernels
<1>3. /\ session.stream # << >> /\ Launch(k) /\ op = "idle" /\ op' = k
      /\ req' = [c \in Cores |-> c] /\ UNCHANGED <<pc, head, pos, outTile, protected>>
      /\ UNCHANGED <<index, slotToIndex, freeSlots, freeHead, query, slotOut>>
      /\ UNCHANGED <<memory, session, opt, given, expected, status, snapshot, allocated, evicted>>
  BY <1>1, <1>2 DEF StartKernel, DeviceAt, Launch, registers, memory, UnchangedHost
<1>4. Benching /\ Given /\ ControlIn /\ \A c \in Cores : pc[c] = "load"
  BY <1>3, NoKernel DEF MeasureInv, Benching
<1>5. i = Kernel(k)
  <2>1. i \in BenchSteps
    BY <1>1, <1>3, <1>4, OldestBenched
  <2> QED
    BY <1>2, <2>1, StepIs
<1>6. k = "maintain" \/ opt.reset => Loaded(k)
  BY <1>1, <1>3, <1>4, <1>5, AskedFor
<1>7. Given' /\ ControlIn' /\ Script' = Script
  BY <1>3, <1>4 DEF Given, ControlIn, Script, Cores
<1>8. Emptied'
  <2>1. ASSUME NEW r \in Reqs PROVE ~ r < req'[CoreOf(r)]
    <3>1. CoreOf(r) \in Cores /\ CoreOf(r) <= r
      BY CoreOfIsCore
    <3>2. req'[CoreOf(r)] = CoreOf(r)
      BY <1>3, <3>1
    <3> QED
      BY <3>1, <3>2 DEF Cores, Reqs
  <2>2. \A r : CoreOf(r)' = CoreOf(r)
    BY DEF CoreOf
  <2> QED
    BY <2>1, <2>2 DEF Emptied
<1>9. PICK loop \in {"alloc", "scan"} : loop = Loop(k)
  BY DEF Loop
<1>10. CoresAt(loop)'
  <2>1. \A c \in Cores : CoreOf(c) = c
    BY ModSmall DEF CoreOf, Cores
  <2> QED
    BY <1>3, <1>4, <1>9, <2>1 DEF CoresAt, CoreOf
<1>11. ASSUME opt.reset PROVE Follows'
  <2>1. TensorsIn /\ RegistersIn /\ starts \in [Reqs -> Slots]
    BY <1>4, <1>11 DEF Benching, Follows
  <2>2. TensorsIn' /\ RegistersIn' /\ Runs(k)'
    <3>1. Loaded(k) /\ UNCHANGED <<memory, given>>
      BY <1>3, <1>6, <1>11
    <3> QED
      BY <1>3, <1>4, <2>1, <3>1, KernelStarts
  <2>3. starts' \in [Reqs -> Slots]
    <3>1. starts' \in ScanStarts \/ starts' = starts
      BY DEF StartKernel
    <3>2. ScanStarts \subseteq [Reqs -> Slots]
      BY ScriptAssumption DEF ScanStarts
    <3> QED
      BY <2>1, <3>1, <3>2
  <2>4. Runs(op)'
    BY <1>3, <2>2 DEF Runs
  <2> QED
    BY <2>2, <2>3, <2>4 DEF Follows
<1>12. freeHead \in [Reqs -> Nat] /\ SumConsumed' = Sum(freeHead)
  <2>1. freeHead \in [Reqs -> Nat]
    BY <1>4 DEF ControlIn
  <2> QED
    BY <1>3, <1>4, <2>1, SumLaunched
<1>13. DeviceDone(d)'
  <2>1. op' # "idle"
    BY <1>3 DEF Kernels
  <2>2. \A l \in Kernels : Cloned(Script, d + 1, l)' => Copies(snapshot, l)'
    BY <1>1, <1>3, <1>7 DEF Measures, DeviceDone, Cloned, Copies
  <2>3. Evictions(d) /\ (opt.reset => Allocations(d))
    BY <1>1 DEF Measures, DeviceDone
  <2>4. \A l : Launches(l, d)' = Launches(l, d)
    BY <1>7 DEF Launches
  <2>5. \A l \in Kernels : ~ Running(l) /\ (Running(l)' => k = l)
    BY <1>3 DEF Running, Kernels
  <2>6. "lookup" \in Kernels /\ "maintain" \in Kernels
    BY DEF Kernels
  <2>7. Sum(given.maintain.freeHead) \in Nat /\ Sum(expected.lookup.freeHead) \in Nat
    BY <1>4, SumsIn
  <2>8. Evictions(d)'
    <3>1. ASSUME Running("maintain")'
          PROVE  Sum(given.maintain.freeHead) - SumConsumed' = 0
      <4>1. freeHead = given.maintain.freeHead
        BY <1>6, <2>5, <2>6, <3>1 DEF Loaded
      <4> QED
        BY <1>12, <2>7, <4>1
    <3> QED
      BY <1>3, <2>3, <2>4, <2>5, <2>6, <3>1 DEF Evictions
  <2>9. ASSUME opt.reset PROVE Allocations(d)'
    <3>1. ASSUME Running("lookup")' PROVE SumConsumed' = 0
      <4>1. freeHead = given.lookup.freeHead
        BY <1>6, <2>5, <2>6, <2>9, <3>1 DEF Loaded
      <4>2. \A r \in Reqs : freeHead[r] = 0
        BY <1>4, <4>1 DEF Given
      <4> QED
        BY <1>12, <4>2, SumOfNothing
    <3> QED
      BY <1>3, <2>3, <2>4, <2>5, <2>6, <2>9, <3>1 DEF Allocations
  <2> QED
    BY <1>3, <2>1, <2>2, <2>8, <2>9 DEF DeviceDone
<1>14. LastAnswer'
  <2>1. k = "maintain" => Loaded(k)
    BY <1>6
  <2> QED
    BY <1>3, <2>1 DEF LastAnswer, Loaded
<1> QED
  BY <1>1, <1>3, <1>5, <1>7, <1>8, <1>9, <1>10, <1>11, <1>13, <1>14, SameBenches

LEMMA LookupBenches ==
  ASSUME MeasureInv, NEW c \in Cores, LookupStep(c),
         allocated' = allocated + WhileTiming(IF pc[c] = "alloc" THEN head'[c] - head[c] ELSE 0),
         UNCHANGED <<opt, session, status, given, expected, starts, snapshot, evicted>>
  PROVE  MeasureInv'
<1>1. PICK d, x : Measures(d, x)
  BY DEF MeasureInv
<1>2. Benching /\ Given /\ ControlIn
  BY DEF MeasureInv, Benching
<1>3. op = "lookup"
  <2>1. op # "idle" /\ op # "maintain"
    BY <1>2 DEF Benching, LookupStep, LookupLoad, LookupHit, LookupRepeatedMiss, LookupAllocate,
       LookupStore, AtLoad, AtQuery, CoresAt, Loop
  <2> QED
    BY <1>2, <2>1 DEF Benching, Kernels
<1>4. CoresAt("alloc") /\ session.stream # << >> /\ Head(session.stream) = Kernel("lookup")
  BY <1>2, <1>3 DEF Benching, Loop
<1>5. /\ ControlIn' /\ CoresAt("alloc")' /\ op' = op /\ SumConsumed \in Nat
      /\ SumConsumed' = SumConsumed + (IF pc[c] = "alloc" THEN head'[c] - head[c] ELSE 0)
  BY <1>2, <1>3, <1>4, LookupTakes
<1>6. Given' /\ Script' = Script /\ Emptied' /\ LastAnswer'
  BY <1>2, <1>3, <1>5 DEF Given, Script, Emptied, LastAnswer
<1>7. ASSUME opt.reset PROVE Follows'
  <2>1. LookupGoes
    BY <1>2, <1>3, <1>7 DEF Benching, Follows, Runs, LookupGoes, Given, Inputs
  <2>2. TensorsIn' /\ RegistersIn' /\ LookupRuns'
    BY <2>1, LookupStepGoes
  <2>3. starts' \in [Reqs -> Slots]
    BY <1>2, <1>7 DEF Benching, Follows
  <2>4. Runs(op)'
    BY <1>3, <1>5, <2>2 DEF Runs
  <2> QED
    BY <2>2, <2>3, <2>4 DEF Follows
<1>8. DeviceDone(d)'
  <2>1. op' # "idle"
    BY <1>3, <1>5
  <2>2. \A l \in Kernels : Cloned(Script, d + 1, l)' => Copies(snapshot, l)'
    BY <1>1, <1>6 DEF Measures, DeviceDone, Cloned, Copies
  <2>3. Evictions(d) /\ (opt.reset => Allocations(d))
    BY <1>1 DEF Measures, DeviceDone
  <2>4. \A l : Launches(l, d)' = Launches(l, d)
    BY <1>6 DEF Launches
  <2>5. ~ Running("maintain") /\ ~ Running("maintain")'
        /\ (Running("lookup") <=> session.timing) /\ (Running("lookup")' <=> session.timing)
    BY <1>3, <1>5 DEF Running
  <2>6. Evictions(d)'
    BY <2>3, <2>4, <2>5 DEF Evictions
  <2>7. ASSUME opt.reset PROVE Allocations(d)'
    <3>1. PICK base : base = Launches("lookup", d) * Sum(expected.lookup.freeHead)
      OBVIOUS
    <3>2. base \in Nat
      <4>1. d \in Nat
        BY <1>1 DEF Measures, Tracks
      <4>2. Launches("lookup", d) \in Nat
        BY <4>1, WorkFinite DEF Launches
      <4>3. Sum(expected.lookup.freeHead) \in Nat
        BY <1>2, SumsIn
      <4> QED
        BY <3>1, <4>2, <4>3
    <3>3. allocated = base + (IF session.timing THEN SumConsumed ELSE 0)
      BY <2>3, <2>5, <2>7, <3>1 DEF Allocations
    <3>4. PICK delta \in Int : delta = IF pc[c] = "alloc" THEN head'[c] - head[c] ELSE 0
      BY <1>2, <1>5 DEF ControlIn
    <3>5. allocated' = base + (IF session.timing THEN SumConsumed' ELSE 0)
      <4>1. allocated' = allocated + (IF session.timing THEN delta ELSE 0)
        BY <3>4 DEF WhileTiming
      <4>2. SumConsumed' = SumConsumed + delta
        BY <1>5, <3>4
      <4> QED
        BY ONLY <1>5, <3>2, <3>3, <4>1, <4>2
    <3> QED
      BY <2>4, <2>5, <3>1, <3>5 DEF Allocations
  <2> QED
    BY <2>1, <2>2, <2>6, <2>7 DEF DeviceDone
<1>9. op' \in Kernels /\ Loop(op') = "alloc" /\ Head(session.stream) = Kernel(op')
  BY <1>3, <1>4, <1>5 DEF Kernels, Loop
<1> QED
  BY <1>1, <1>4, <1>5, <1>6, <1>7, <1>8, <1>9, SameBenches

LEMMA MaintainBenches ==
  ASSUME MeasureInv, NEW c \in Cores, MaintainStep(c),
         pc[c] = "load" /\ pc'[c] = "scan" => pos'[c] = starts[req[c]],
         evicted' = evicted + WhileTiming(IF pc[c] = "scan" THEN head[c] - head'[c] ELSE 0),
         UNCHANGED <<opt, session, status, given, expected, starts, snapshot, allocated>>
  PROVE  MeasureInv'
<1>1. PICK d, x : Measures(d, x)
  BY DEF MeasureInv
<1>2. Benching /\ Given /\ ControlIn /\ Emptied
  BY DEF MeasureInv, Benching
<1>3. op = "maintain"
  <2>1. op # "idle" /\ op # "lookup"
    BY <1>2 DEF Benching, MaintainStep, MaintainSkip, MaintainLoad, MaintainEvict,
       MaintainPass, MaintainStore, AtLoad, AtSlot, CoresAt, Loop
  <2> QED
    BY <1>2, <2>1 DEF Benching, Kernels
<1>4. CoresAt("scan") /\ session.stream # << >> /\ Head(session.stream) = Kernel("maintain")
  BY <1>2, <1>3 DEF Benching, Loop
<1>5. /\ ControlIn' /\ CoresAt("scan")' /\ op' = op /\ Emptied' /\ SumConsumed \in Nat
      /\ SumConsumed' = SumConsumed + (IF pc[c] = "scan" THEN head'[c] - head[c] ELSE 0)
  <2>1. AfterMarking(c) = "scan"
    <3>1. req[c] \in Reqs
      BY <1>2, <1>4, StepRequest
    <3>2. \A j \in Positions : slotOut[req[c]][j] \in Slots
      BY <1>2, <1>3, <3>1 DEF Benching, LastAnswer, Given, Inputs, MaintainGiven
    <3>3. NotFound \notin Slots
      BY DEF NotFound, Slots
    <3> QED
      BY <3>2, <3>3 DEF AfterMarking, MarkProtected
  <2> QED
    BY <1>2, <1>3, <1>4, <2>1, MaintainTakes
<1>6. Given' /\ Script' = Script /\ LastAnswer'
  <2>1. slotOut' = slotOut
    BY DEF MaintainStep, MaintainSkip, MaintainLoad, MaintainEvict, MaintainPass,
           MaintainStore, memory
  <2> QED
    BY <1>2, <1>3, <1>5, <2>1 DEF Benching, LastAnswer, Given, Script
<1>7. ASSUME opt.reset PROVE Follows'
  <2>1. MaintainGoes
    BY <1>2, <1>3, <1>7 DEF Benching, Follows, Runs, MaintainGoes, Given, Inputs
  <2>2. TensorsIn' /\ RegistersIn' /\ MaintainRuns'
    BY <2>1, MaintainStepGoes
  <2>3. starts' \in [Reqs -> Slots]
    BY <1>2, <1>7 DEF Benching, Follows
  <2>4. Runs(op)'
    BY <1>3, <1>5, <2>2 DEF Runs
  <2> QED
    BY <2>2, <2>3, <2>4 DEF Follows
<1>8. DeviceDone(d)'
  <2>1. op' # "idle"
    BY <1>3, <1>5
  <2>2. \A l \in Kernels : Cloned(Script, d + 1, l)' => Copies(snapshot, l)'
    BY <1>1, <1>6 DEF Measures, DeviceDone, Cloned, Copies
  <2>3. Evictions(d) /\ (opt.reset => Allocations(d))
    BY <1>1 DEF Measures, DeviceDone
  <2>4. \A l : Launches(l, d)' = Launches(l, d)
    BY <1>6 DEF Launches
  <2>5. ~ Running("lookup") /\ ~ Running("lookup")'
        /\ (Running("maintain") <=> session.timing) /\ (Running("maintain")' <=> session.timing)
    BY <1>3, <1>5 DEF Running
  <2>6. opt.reset => Allocations(d)'
    BY <2>3, <2>4, <2>5 DEF Allocations
  <2>7. Evictions(d)'
    <3>1. PICK all, base : /\ all = Sum(given.maintain.freeHead)
                           /\ base = Launches("maintain", d) * all
      OBVIOUS
    <3>2. all \in Nat /\ base \in Nat
      <4>1. d \in Nat
        BY <1>1 DEF Measures, Tracks
      <4>2. Launches("maintain", d) \in Nat
        BY <4>1, WorkFinite DEF Launches
      <4>3. all \in Nat
        BY <1>2, <3>1, SumsIn
      <4> QED
        BY <3>1, <4>2, <4>3
    <3>3. evicted = base + (IF session.timing THEN all - SumConsumed ELSE 0)
      BY <2>3, <2>5, <3>1 DEF Evictions
    <3>4. PICK delta \in Int : delta = IF pc[c] = "scan" THEN head'[c] - head[c] ELSE 0
      BY <1>2, <1>5 DEF ControlIn
    <3>5. evicted' = base + (IF session.timing THEN all - SumConsumed' ELSE 0)
      <4>1. evicted' = evicted + (IF session.timing THEN 0 - delta ELSE 0)
        <5>1. (IF pc[c] = "scan" THEN head[c] - head'[c] ELSE 0) = 0 - delta
          BY <1>2, <1>5, <3>4 DEF ControlIn
        <5> QED
          BY <5>1 DEF WhileTiming
      <4>2. SumConsumed' = SumConsumed + delta
        BY <1>5, <3>4
      <4> QED
        BY ONLY <1>5, <3>2, <3>3, <4>1, <4>2
    <3> QED
      BY <2>4, <2>5, <3>1, <3>5 DEF Evictions
  <2> QED
    BY <2>1, <2>2, <2>6, <2>7 DEF DeviceDone
<1>9. op' \in Kernels /\ Loop(op') = "scan" /\ Head(session.stream) = Kernel(op')
  BY <1>3, <1>4, <1>5 DEF Kernels, Loop
<1> QED
  BY <1>1, <1>4, <1>5, <1>6, <1>7, <1>8, <1>9, SameBenches

LEMMA KernelStepBenches == ASSUME MeasureInv, KernelStep PROVE MeasureInv'
<1>1. UNCHANGED <<opt, session, status, given, expected, starts, snapshot>>
  BY DEF KernelStep, UnchangedHost
<1>2. PICK c \in Cores :
        \/ /\ LookupStep(c)
           /\ allocated' = allocated
                + WhileTiming(IF pc[c] = "alloc" THEN head'[c] - head[c] ELSE 0)
           /\ UNCHANGED evicted
        \/ /\ MaintainStep(c)
           /\ (pc[c] = "load" /\ pc'[c] = "scan" => pos'[c] = starts[req[c]])
           /\ evicted' = evicted
                + WhileTiming(IF pc[c] = "scan" THEN head[c] - head'[c] ELSE 0)
           /\ UNCHANGED allocated
  BY DEF KernelStep
<1> QED
  BY <1>1, <1>2, LookupBenches, MaintainBenches

\* What a kernel has counted when it returns.
LEMMA ReturnsAll ==
  ASSUME Benching, NEW k \in Kernels, op = k, \A c \in Cores : req[c] >= ReqNum
  PROVE  /\ \A c \in Cores : pc[c] = "load"
         /\ k = "maintain" => SumConsumed = 0
         /\ k = "lookup" /\ opt.reset => SumConsumed = Sum(expected.lookup.freeHead)
<1>1. CoresAt(Loop(k)) /\ Loop(k) \in {"alloc", "scan"} /\ ControlIn /\ Given /\ Emptied
  BY DEF Benching, Kernels, Loop
<1>2. \A c \in Cores : req[c] \in Nat /\ req[c] \notin Reqs
  BY <1>1 DEF ControlIn, Reqs
<1>3. \A c \in Cores : pc[c] = "load"
  BY <1>1, <1>2 DEF CoresAt
<1>4. freeHead \in [Reqs -> Nat] /\ SumConsumed = Sum(freeHead)
  <2>1. freeHead \in [Reqs -> Nat]
    BY <1>1 DEF ControlIn
  <2> QED
    BY <1>3, <2>1, SumLoaded
<1>5. ASSUME k = "maintain" PROVE SumConsumed = 0
  <2>1. ASSUME NEW r \in Reqs PROVE freeHead[r] = 0
    <3>1. CoreOf(r) \in Cores
      BY CoreOfIsCore
    <3>2. r < req[CoreOf(r)]
      BY <1>2, <3>1 DEF Reqs
    <3> QED
      BY <1>1, <1>5, <3>2 DEF Emptied
  <2> QED
    BY <1>4, <2>1, SumOfNothing
<1>6. ASSUME k = "lookup", opt.reset PROVE SumConsumed = Sum(expected.lookup.freeHead)
  <2>1. LookupGoes /\ expected.lookup = ExpectedLookup(given.lookup)
    BY <1>1, <1>6 DEF Benching, Follows, Runs, LookupGoes, Given, Inputs
  <2>2. Matches("lookup")
    BY <2>1, LookupReturns
  <2>3. freeHead = expected.lookup.freeHead
    BY <2>2 DEF Matches
  <2> QED
    BY <1>4, <2>3
<1> QED
  BY <1>3, <1>5, <1>6

LEMMA KernelDoneBenches == ASSUME MeasureInv, KernelDone PROVE MeasureInv'
<1>1. PICK d, x, i, y : Measures(d, x) /\ i = Head(session.stream) /\ y = x[1]
  BY DEF MeasureInv
<1>2. /\ op # "idle" /\ op' = "idle" /\ \A c \in Cores : req[c] >= ReqNum
      /\ session' = WorkDone(session)
      /\ UNCHANGED <<index, slotToIndex, freeSlots, freeHead, query, slotOut>>
      /\ UNCHANGED <<req, pc, head, pos, outTile, protected>>
      /\ UNCHANGED <<opt, given, expected, starts, status, snapshot, allocated, evicted>>
  BY DEF KernelDone, HostSync, UnchangedHost, memory, registers
<1>3. Benching /\ Given /\ ControlIn
  BY DEF MeasureInv, Benching
<1>4. PICK k \in Kernels : op = k
  BY <1>2, <1>3 DEF Benching
<1>5. session.stream # << >> /\ i = Kernel(k) /\ i.do = k
  <2>1. session.stream # << >> /\ i = Kernel(k)
    BY <1>1, <1>2, <1>3, <1>4 DEF Benching
  <2> QED
    BY <2>1, StepFields
<1>6. /\ \A c \in Cores : pc[c] = "load"
      /\ k = "maintain" => SumConsumed = 0
      /\ k = "lookup" /\ opt.reset => SumConsumed = Sum(expected.lookup.freeHead)
  BY <1>2, <1>3, <1>4, ReturnsAll
<1>7. Given' /\ Script' = Script /\ ControlIn'
  BY <1>2, <1>3 DEF Given, Script, ControlIn
<1>8. opt.reset => Follows'
  <2>1. (RegistersIn => RegistersIn') /\ (TensorsIn => TensorsIn')
    BY <1>2 DEF RegistersIn, TensorsIn
  <2> QED
    BY <1>2, <1>3, <2>1 DEF Benching, Follows
<1>9. ASSUME NEW l \in Kernels
      PROVE  /\ Launches(l, d) \in Nat
             /\ Launches(l, y)' = Launches(l, d) + (IF l = k /\ session.timing THEN 1 ELSE 0)
  <2>1. /\ Launches(l, d) \in Nat
        /\ Launches(l, y) = Launches(l, d)
             + (IF Head(session.stream).do = l /\ session.timing THEN 1 ELSE 0)
    BY <1>1, <1>3, <1>5, LaunchesNext
  <2>2. Launches(l, y)' = Launches(l, y)
    BY <1>7 DEF Launches
  <2> QED
    BY <1>1, <1>5, <2>1, <2>2
<1>10. \A l \in Kernels : (Running(l) <=> l = k /\ session.timing) /\ ~ Running(l)'
  BY <1>2, <1>4 DEF Running, Kernels
<1>11. "lookup" \in Kernels /\ "maintain" \in Kernels
       /\ Sum(given.maintain.freeHead) \in Nat /\ Sum(expected.lookup.freeHead) \in Nat
  BY <1>3, SumsIn DEF Kernels
<1>12. Evictions(d) /\ (opt.reset => Allocations(d))
  BY <1>1 DEF Measures, DeviceDone
<1>13. \A m, n \in Nat : (m + 1) * n = m * n + n /\ (m + 0) * n = m * n /\ m * n \in Nat
  OBVIOUS
<1>14. Evictions(y)'
  <2>1. PICK all, l \in Nat : all = Sum(given.maintain.freeHead) /\ l = Launches("maintain", d)
    BY <1>9, <1>11
  <2>2. evicted = l * all + (IF k = "maintain" /\ session.timing THEN all - SumConsumed ELSE 0)
    BY <1>10, <1>11, <1>12, <2>1 DEF Evictions
  <2>3. Launches("maintain", y)' = l + (IF k = "maintain" /\ session.timing THEN 1 ELSE 0)
    BY <1>9, <1>11, <2>1
  <2>4. evicted = Launches("maintain", y)' * all
    BY <1>6, <1>13, <2>2, <2>3
  <2>5. Launches("maintain", y)' * all \in Nat
    BY <1>13, <2>2, <2>3
  <2> QED
    BY <1>2, <1>10, <1>11, <2>1, <2>4, <2>5 DEF Evictions
<1>15. ASSUME opt.reset PROVE Allocations(y)'
  <2>1. PICK all, l \in Nat : all = Sum(expected.lookup.freeHead) /\ l = Launches("lookup", d)
    BY <1>9, <1>11
  <2>2. allocated = l * all + (IF k = "lookup" /\ session.timing THEN SumConsumed ELSE 0)
    BY <1>10, <1>11, <1>12, <1>15, <2>1 DEF Allocations
  <2>3. Launches("lookup", y)' = l + (IF k = "lookup" /\ session.timing THEN 1 ELSE 0)
    BY <1>9, <1>11, <2>1
  <2>4. allocated = Launches("lookup", y)' * all
    BY <1>6, <1>13, <1>15, <2>1, <2>2, <2>3
  <2>5. Launches("lookup", y)' * all \in Nat
    BY <1>13, <2>2, <2>3
  <2> QED
    BY <1>2, <1>10, <1>11, <2>1, <2>4, <2>5 DEF Allocations
<1>16. DeviceDone(y)'
  <2>1. ASSUME NEW l \in Kernels PROVE ~ Fresh(Script, y + 1, l)
    <3>1. i.do \in Writers /\ i \notin {Upload(l), Restore(l)}
      BY <1>5, StepFields DEF Writers
    <3> QED
      BY <1>1, <1>3, <1>5, <3>1, LatestDevice
  <2>2. ASSUME NEW l \in Kernels, Cloned(Script, y + 1, l) PROVE Copies(snapshot, l)'
    <3>1. i # Snapshot(l)
      BY <1>5, StepFields
    <3>2. Cloned(Script, d + 1, l)
      BY <1>1, <1>3, <1>5, <2>2, <3>1, LatestDevice
    <3>3. Copies(snapshot, l)
      BY <1>1, <3>2 DEF Measures, DeviceDone
    <3> QED
      BY <1>2, <3>3 DEF Copies
  <2> QED
    BY <1>2, <1>7, <1>14, <1>15, <2>1, <2>2 DEF DeviceDone, Fresh, Cloned
<1>17. session' = IF Head(session.stream).do \in Works THEN WorkDone(session)
                  ELSE EventStamped(session)
  BY <1>1, <1>2, <1>5 DEF Works, Kernels
<1> QED
  BY <1>1, <1>2, <1>3, <1>5, <1>6, <1>7, <1>8, <1>16, <1>17, DoneBenches

LEMMA BenchStutters ==
  ASSUME MeasureInv, UNCHANGED <<vars, scriptVars>>
  PROVE  MeasureInv'
<1>1. UnchangedBelow /\ session' = session /\ status' = status
  BY DEF scriptVars, UnchangedBelow
<1> QED
  BY <1>1, EndBenches

LEMMA MeasureNext ==
  ASSUME MeasureInv, [ScriptNext]_<<vars, scriptVars>>
  PROVE  MeasureInv'
BY HostStepBenches, CopyBenches, MarkBenches, StartBenches, KernelStepBenches, KernelDoneBenches,
   BenchStutters DEF ScriptNext, Device

-----------------------------------------------------------------------------
(* The theorem.                                                             *)

LEMMA MeasureEnd == ASSUME MeasureInv PROVE MeasuresItsIterations
<1> SUFFICES ASSUME opt.tool = "bench", status = "passed"
             PROVE  /\ session.measured = WorkTimed.lookup + WorkTimed.maintain + WorkTimed.copies
                    /\ evicted = WorkTimed.maintain * Sum(given.maintain.freeHead)
                    /\ opt.reset => allocated =
                         WorkTimed.lookup * Sum(expected.lookup.freeHead)
  BY DEF MeasuresItsIterations
<1>1. PICK d, x : Measures(d, x)
  BY DEF MeasureInv
<1>2. Benching /\ Given
  BY DEF MeasureInv, Benching
<1>3. PICK sc \in Seq(BenchSteps) :
        /\ sc = Script /\ Part(opt, BenchSteps, sc, Lookups(opt), Maintains(opt))
        /\ Settled(sc) /\ Alternates(sc, StartEvent, StopEvent)
  BY <1>2, ScriptIs
<1>4. /\ session.at = Len(sc) /\ session \in Sessions(BenchSteps)
      /\ Tracks(Enqueues, session, sc, d, x) /\ DeviceTimes(Works, session, sc, d)
  BY <1>1, <1>2, <1>3 DEF Benching, Measures
<1>5. /\ ~ Between(sc, d + 1, StartEvent, StopEvent)
      /\ \A W : Timed(W, sc, d, StartEvent, StopEvent) =
                  Timed(W, sc, Len(sc), StartEvent, StopEvent)
  <2>1. {"start", "stop"} \subseteq Enqueues
    BY DEF Enqueues
  <2>2. ~ Between(sc, d + 1, StartEvent, StopEvent)
    BY <1>3, <1>4, <2>1, TimedAtEnd
  <2>3. \A W : Timed(W, sc, d, StartEvent, StopEvent) =
                 Timed(W, sc, Len(sc), StartEvent, StopEvent)
    BY <1>3, <1>4, <2>1, TimedAtEnd
  <2> QED
    BY <2>2, <2>3
<1>6. session.timing = FALSE
  BY <1>4, <1>5 DEF DeviceTimes
<1>7. PICK l \in Nat, m \in Nat : l = Lookups(opt) /\ m = Maintains(opt)
  BY ScriptAssumption DEF Lookups, Maintains
<1>8. WorkTimed.lookup = l /\ WorkTimed.maintain = m
      /\ WorkTimed.copies = IF Returns(opt) THEN m ELSE 0
  BY <1>7 DEF WorkTimed, Lookups, Maintains
<1>9. session.measured = l + m + WorkTimed.copies
  <2>1. session.measured \in Int
    BY <1>4 DEF Sessions
  <2>2. session.measured = Cardinality(Timed(Works, sc, Len(sc), StartEvent, StopEvent))
    BY <1>4, <1>5, <1>6, <2>1 DEF DeviceTimes
  <2>3. session.measured = Pieces(opt, l, m)
    BY <1>3, <1>7, <2>2 DEF Part, TimedIn
  <2> QED
    BY <1>7, <1>8, <2>3 DEF Pieces
<1>10. Launches("lookup", d) = l /\ Launches("maintain", d) = m
  <2>1. \A kind : Launches(kind, d) = TimedIn({kind}, sc)
    BY <1>3, <1>5 DEF Launches, TimedIn
  <2> QED
    BY <1>3, <1>7, <2>1 DEF Part
<1>11. Sum(given.maintain.freeHead) \in Nat /\ Sum(expected.lookup.freeHead) \in Nat
  BY <1>2, SumsIn
<1>12. ~ Running("lookup") /\ ~ Running("maintain")
  BY <1>6 DEF Running
<1>13. Evictions(d) /\ (opt.reset => Allocations(d))
  BY <1>1 DEF Measures, DeviceDone
<1>14. evicted = m * Sum(given.maintain.freeHead)
  BY <1>7, <1>10, <1>11, <1>12, <1>13 DEF Evictions
<1>15. opt.reset => allocated = l * Sum(expected.lookup.freeHead)
  BY <1>7, <1>10, <1>11, <1>12, <1>13 DEF Allocations
<1> QED
  BY <1>8, <1>9, <1>14, <1>15

(* What the benchmark divides by is what it timed, whatever the sizes, the   *)
(* command line, the number of cores and their interleaving, the hash and    *)
(* how far the host is ahead of the device: the kernels of --iters iterations *)
(* and, of a wrapper that returns its tensors, their copies back, and nothing *)
(* else; every maintain among them found fresh tensors and refilled their     *)
(* whole pools, and with --reset-each-iter every lookup allocated what the    *)
(* reference does.                                                           *)
THEOREM TimesItsIterations == ScriptSpec => []MeasuresItsIterations
<1> DEFINE I == opt.tool # "bench" \/ MeasureInv
<1>1. ScriptInit => I
  BY MeasureInit
<1>2. I /\ [ScriptNext]_<<vars, scriptVars>> => I'
  <2>1. ASSUME opt.tool # "bench", [ScriptNext]_<<vars, scriptVars>> PROVE opt'.tool # "bench"
    <3>1. opt' = opt
      BY <2>1 DEF ScriptNext, Host, Device, Enqueue, Wait, ResolveMaintain, WrapperMiscounts,
                  Check, UnchangedBelow, Copy, TakeSnapshot, CopyReturned, Stamp, StartKernel,
                  KernelStep, KernelDone, UnchangedHost, scriptVars
    <3> QED
      BY <2>1, <3>1
  <2> QED
    BY <2>1, MeasureNext
<1>3. I => MeasuresItsIterations
  BY MeasureEnd DEF MeasuresItsIterations
<1> HIDE DEF I
<1> QED
  BY <1>1, <1>2, <1>3, PTL DEF ScriptSpec

=============================================================================
