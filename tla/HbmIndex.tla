------------------------------ MODULE HbmIndex ------------------------------
(***************************************************************************)
(* The HBM index operators: asu_hbm_index_lookup, which answers a batch of  *)
(* token queries of every request and gives each missing token a slot of    *)
(* the request's free pool, and asu_hbm_index_maintain, which evicts as     *)
(* many resident tokens as the lookup consumed free slots.                  *)
(*                                                                          *)
(* A kernel runs on BlockNum cores. Core c handles the requests c,          *)
(* c + BlockNum, c + 2 * BlockNum, ...; the cores interleave, one action    *)
(* per iteration of their scalar loops. The host launches one kernel at a   *)
(* time on a stream and waits for it.                                       *)
(***************************************************************************)
EXTENDS Integers

CONSTANTS
  ReqNum,      \* requests in the batch
  BlockNum,    \* cores the kernel is launched on (1 for the AICPU kernel)
  IndexSize,   \* INDEX_SIZE: tokens a request may have
  SlotCount,   \* SLOT_COUNT: cache slots of a request
  FreeCount,   \* FREE_SLOT_COUNT: entries of a request's free pool
  QueryCount,  \* QUERY_COUNT: tokens a lookup asks for
  LostParts    \* positions of an answer that may be overwritten while it is
               \* copied out: the sets of them to consider

(***************************************************************************)
(* The sizes as the sources fix them: 128K tokens, 10K slots of which 2K    *)
(* start free, 2K queries. A batch of queries fits in the free pool and     *)
(* leaves residents to evict.                                               *)
(***************************************************************************)
ASSUME SizeAssumption ==
  /\ ReqNum \in Nat \ {0}
  /\ BlockNum \in Nat \ {0}
  /\ IndexSize \in Nat
  /\ SlotCount \in Nat
  /\ FreeCount \in Nat \ {0}
  /\ QueryCount \in Nat \ {0}
  /\ QueryCount <= FreeCount
  /\ FreeCount + QueryCount <= SlotCount
  /\ SlotCount <= IndexSize

NotFound == -1

Reqs      == 0 .. ReqNum - 1
Cores     == 0 .. BlockNum - 1
Tokens    == 0 .. IndexSize - 1
Slots     == 0 .. SlotCount - 1
FreeRow   == 0 .. FreeCount - 1
Positions == 0 .. QueryCount - 1

ASSUME LostAssumption == LostParts \subseteq SUBSET Positions

VARIABLES
  index,       \* index[r][t]: slot of token t of request r, or NotFound
  slotToIndex, \* slotToIndex[r][s]: token in slot s, or NotFound
  freeSlots,   \* freeSlots[r]: the free pool; entries freeHead[r].. are free
  freeHead,    \* freeHead[r]: entries of the pool consumed so far
  query,       \* query[r]: tokens the current or last lookup asks for
  slotOut,     \* slotOut[r]: answer of the last lookup (lastQuerySlots)
  op,          \* kernel on the stream: "idle", "lookup" or "maintain"
  answered,    \* a lookup has completed: slotOut holds its answer
  req,         \* req[c]: the request core c is at
  pc,          \* pc[c]: "load", "alloc" (lookup), "scan" (maintain) or "fault"
  head,        \* head[c]: the core's copy of freeHead
  pos,         \* pos[c]: next query position (lookup), next slot (maintain)
  outTile,     \* outTile[c]: the answer the core is assembling
  protected    \* protected[c]: bitmap of the slots maintain may not evict

memory == <<index, slotToIndex, freeSlots, freeHead, query, slotOut>>
registers == <<head, pos, outTile, protected>>
vars == <<memory, op, answered, req, pc, registers>>

-----------------------------------------------------------------------------

(***************************************************************************)
(* The host's starting state: the first tokens resident in the slots of     *)
(* the same number, the last FreeCount slots free.                          *)
(***************************************************************************)
Residents == SlotCount - FreeCount

Init ==
  /\ index = [r \in Reqs |->
                [t \in Tokens |-> IF t < Residents THEN t ELSE NotFound]]
  /\ slotToIndex = [r \in Reqs |->
                [s \in Slots |-> IF s < Residents THEN s ELSE NotFound]]
  /\ freeSlots = [r \in Reqs |-> [k \in FreeRow |-> Residents + k]]
  /\ freeHead = [r \in Reqs |-> 0]
  /\ query = [r \in Reqs |-> [i \in Positions |-> 0]]
  /\ slotOut = [r \in Reqs |-> [i \in Positions |-> NotFound]]
  /\ op = "idle"
  /\ answered = FALSE
  /\ req = [c \in Cores |-> ReqNum]
  /\ pc = [c \in Cores |-> "load"]
  /\ head = [c \in Cores |-> 0]
  /\ pos = [c \in Cores |-> 0]
  /\ outTile = [c \in Cores |-> [i \in Positions |-> NotFound]]
  /\ protected = [c \in Cores |-> {}]

-----------------------------------------------------------------------------

(***************************************************************************)
(* Host. A lookup is launched on pools that maintain has refilled, or is    *)
(* repeated with the same queries (the benchmark without --reset-each-iter).*)
(* maintain is launched with the answer of the last lookup.                 *)
(***************************************************************************)
Launch(kernel) ==
  /\ op = "idle"
  /\ op' = kernel
  /\ req' = [c \in Cores |-> c]
  /\ UNCHANGED <<pc, registers>>

\* Mutant: lookup relaunched without maintain in between.
MayLookupUnmaintained(q) == TRUE

MayLookup(q) ==
  \/ \A r \in Reqs : freeHead[r] = 0
  \/ answered /\ q = query

LaunchLookup(q) ==
  /\ Launch("lookup")
  /\ MayLookup(q)
  /\ query' = q
  /\ UNCHANGED <<index, slotToIndex, freeSlots, freeHead, slotOut, answered>>

LaunchMaintain ==
  /\ answered
  /\ Launch("maintain")
  /\ UNCHANGED <<memory, answered>>

HostSync ==
  /\ op # "idle"
  /\ \A c \in Cores : req[c] >= ReqNum
  /\ op' = "idle"
  /\ answered' = (answered \/ op = "lookup")
  /\ UNCHANGED <<memory, req, pc, registers>>

-----------------------------------------------------------------------------

\* The core that handles request r: reqId = coreId; reqId += blockNum.
CoreOf(r) == r % BlockNum

NextRequest(c) ==
  /\ req' = [req EXCEPT ![c] = @ + BlockNum]
  /\ pc' = [pc EXCEPT ![c] = "load"]

AtLoad(kernel, c) == op = kernel /\ pc[c] = "load" /\ req[c] < ReqNum

(***************************************************************************)
(* What the tile sweep over the index leaves in outTile: the slot of each   *)
(* query token as the index stood when the request was loaded. Before it,   *)
(* outTile is filled with NotFound, whether or not the answer of the core's *)
(* last request has left it: see LookupStore.                               *)
(***************************************************************************)
Gather(r) == [i \in Positions |-> index[r][query[r][i]]]

LookupLoad(c) ==
  /\ AtLoad("lookup", c)
  /\ head' = [head EXCEPT ![c] = freeHead[req[c]]]
  /\ outTile' = [outTile EXCEPT ![c] = Gather(req[c])]
  /\ pos' = [pos EXCEPT ![c] = 0]
  /\ pc' = [pc EXCEPT ![c] = "alloc"]
  /\ UNCHANGED <<memory, op, answered, req, protected>>

(***************************************************************************)
(* Entry h of request r's pool. The rows of all requests lie end to end, so *)
(* an h past the row reads the row of the next request, and past the last   *)
(* row whatever follows the array.                                          *)
(***************************************************************************)
FreeEntry(r, h) ==
  CASE h < FreeCount -> {freeSlots[r][h]}
    [] h >= FreeCount /\ r + 1 < ReqNum -> {freeSlots[r + 1][h % FreeCount]}
    [] OTHER -> Slots

AtQuery(c) == pc[c] = "alloc" /\ pos[c] < QueryCount

QueryToken(c) == query[req[c]][pos[c]]

AnswerPosition(c, slot) ==
  /\ outTile' = [outTile EXCEPT ![c][pos[c]] = slot]
  /\ pos' = [pos EXCEPT ![c] = @ + 1]
  /\ UNCHANGED <<freeSlots, freeHead, query, slotOut, op, answered, req, pc,
                 protected>>

\* The gathered slot stands.
LookupHit(c) ==
  /\ AtQuery(c)
  /\ outTile[c][pos[c]] # NotFound
  /\ AnswerPosition(c, outTile[c][pos[c]])
  /\ UNCHANGED <<index, slotToIndex, head>>

\* Missing when gathered, installed since by an earlier position of the batch.
LookupRepeatedMiss(c) ==
  /\ AtQuery(c)
  /\ outTile[c][pos[c]] = NotFound
  /\ index[req[c]][QueryToken(c)] # NotFound
  /\ AnswerPosition(c, index[req[c]][QueryToken(c)])
  /\ UNCHANGED <<index, slotToIndex, head>>

\* Mutant: ++freeHead lost, two misses share a pool entry.
LookupAllocateSameEntry(c) ==
  /\ AtQuery(c)
  /\ outTile[c][pos[c]] = NotFound
  /\ index[req[c]][QueryToken(c)] = NotFound
  /\ \E slot \in FreeEntry(req[c], head[c]) :
       /\ index' = [index EXCEPT ![req[c]][QueryToken(c)] = slot]
       /\ slotToIndex' = [slotToIndex EXCEPT ![req[c]][slot] = QueryToken(c)]
       /\ AnswerPosition(c, slot)
  /\ UNCHANGED head

\* Mutant: the index is not read again, a repeated miss is installed twice.
LookupAllocateUnread(c) ==
  /\ AtQuery(c)
  /\ outTile[c][pos[c]] = NotFound
  /\ \E slot \in FreeEntry(req[c], head[c]) :
       /\ index' = [index EXCEPT ![req[c]][QueryToken(c)] = slot]
       /\ slotToIndex' = [slotToIndex EXCEPT ![req[c]][slot] = QueryToken(c)]
       /\ AnswerPosition(c, slot)
  /\ head' = [head EXCEPT ![c] = @ + 1]

\* A first miss takes the next free slot and installs the mapping both ways.
LookupAllocate(c) ==
  /\ AtQuery(c)
  /\ outTile[c][pos[c]] = NotFound
  /\ index[req[c]][QueryToken(c)] = NotFound
  /\ \E slot \in FreeEntry(req[c], head[c]) :
       /\ index' = [index EXCEPT ![req[c]][QueryToken(c)] = slot]
       /\ slotToIndex' = [slotToIndex EXCEPT ![req[c]][slot] = QueryToken(c)]
       /\ AnswerPosition(c, slot)
  /\ head' = [head EXCEPT ![c] = @ + 1]

\* The core that handles request r has another one after it.
Followed(r) == r + BlockNum < ReqNum

(***************************************************************************)
(* The request's answer and consumed count go back to memory. The copy of   *)
(* the answer is asynchronous and nothing waits for it before the core's    *)
(* next request fills outTile: the positions it has not read by then arrive *)
(* as NotFound. slotOut is not read before the kernel returns, so what      *)
(* arrives is chosen here.                                                  *)
(***************************************************************************)
LookupStore(c) ==
  /\ pc[c] = "alloc"
  /\ pos[c] >= QueryCount
  /\ \E lost \in IF Followed(req[c]) THEN LostParts ELSE {{}} :
       slotOut' = [slotOut EXCEPT ![req[c]] =
                     [i \in Positions |-> IF i \in lost THEN NotFound
                                                       ELSE outTile[c][i]]]
  /\ freeHead' = [freeHead EXCEPT ![req[c]] = head[c]]
  /\ NextRequest(c)
  /\ UNCHANGED <<index, slotToIndex, freeSlots, query, op, answered, registers>>

-----------------------------------------------------------------------------

\* A request that consumed no free slot is skipped.
MaintainSkip(c) ==
  /\ AtLoad("maintain", c)
  /\ freeHead[req[c]] = 0
  /\ NextRequest(c)
  /\ UNCHANGED <<memory, op, answered, registers>>

\* Mutant: the marking loop starts at 1.
MarkProtectedFromOne(c) == {slotOut[req[c]][i] : i \in Positions \ {0}}

\* The bitmap is cleared, then marked with the slots of the last answer.
MarkProtected(c) == {slotOut[req[c]][i] : i \in Positions}

\* A NotFound in the answer is marked like a slot, at bit 2^32 - 1, far outside
\* the bitmap. What becomes of the core is not defined; here it stops for good.
AfterMarking(c) == IF NotFound \in MarkProtected(c) THEN "fault" ELSE "scan"

\* The scan starts at Hash32(seed ^ reqId) % SLOT_COUNT: any slot.
MaintainLoad(c) ==
  /\ AtLoad("maintain", c)
  /\ freeHead[req[c]] # 0
  /\ head' = [head EXCEPT ![c] = freeHead[req[c]]]
  /\ protected' = [protected EXCEPT ![c] = MarkProtected(c)]
  /\ \E start \in Slots : pos' = [pos EXCEPT ![c] = start]
  /\ pc' = [pc EXCEPT ![c] = AfterMarking(c)]
  /\ UNCHANGED <<memory, op, answered, req, outTile>>

\* Mutant: the circular scan restarts at slot 1.
NextSlotFromOne(s) == IF s + 1 = SlotCount THEN 1 ELSE s + 1

NextSlot(s) == IF s + 1 = SlotCount THEN 0 ELSE s + 1

\* Mutant: the bitmap is not consulted.
EvictableUnprotected(c, s) == slotToIndex[req[c]][s] # NotFound

Evictable(c, s) ==
  /\ slotToIndex[req[c]][s] # NotFound
  /\ s \notin protected[c]

AtSlot(c) == pc[c] = "scan" /\ head[c] > 0

\* Mutant: the index keeps the evicted token.
MaintainEvictOneWay(c) ==
  /\ AtSlot(c)
  /\ Evictable(c, pos[c])
  /\ slotToIndex' = [slotToIndex EXCEPT ![req[c]][pos[c]] = NotFound]
  /\ head' = [head EXCEPT ![c] = @ - 1]
  /\ freeSlots' = [freeSlots EXCEPT ![req[c]][head[c] - 1] = pos[c]]
  /\ pos' = [pos EXCEPT ![c] = NextSlot(@)]
  /\ UNCHANGED <<index, freeHead, query, slotOut, op, answered, req, pc, outTile,
                 protected>>

\* A resident, unprotected token leaves and its slot returns to the pool.
MaintainEvict(c) ==
  /\ AtSlot(c)
  /\ Evictable(c, pos[c])
  /\ slotToIndex' = [slotToIndex EXCEPT ![req[c]][pos[c]] = NotFound]
  /\ index' = [index EXCEPT
                 ![req[c]][slotToIndex[req[c]][pos[c]]] = NotFound]
  /\ head' = [head EXCEPT ![c] = @ - 1]
  /\ freeSlots' = [freeSlots EXCEPT ![req[c]][head[c] - 1] = pos[c]]
  /\ pos' = [pos EXCEPT ![c] = NextSlot(@)]
  /\ UNCHANGED <<freeHead, query, slotOut, op, answered, req, pc, outTile,
                 protected>>

\* Empty and protected slots are passed over.
MaintainPass(c) ==
  /\ AtSlot(c)
  /\ ~Evictable(c, pos[c])
  /\ pos' = [pos EXCEPT ![c] = NextSlot(@)]
  /\ UNCHANGED <<memory, op, answered, req, pc, head, outTile, protected>>

MaintainStore(c) ==
  /\ pc[c] = "scan"
  /\ head[c] <= 0
  /\ freeHead' = [freeHead EXCEPT ![req[c]] = head[c]]
  /\ NextRequest(c)
  /\ UNCHANGED <<index, slotToIndex, freeSlots, query, slotOut, op, answered,
                 registers>>

-----------------------------------------------------------------------------

LookupStep(c) ==
  \/ LookupLoad(c)
  \/ LookupHit(c)
  \/ LookupRepeatedMiss(c)
  \/ LookupAllocate(c)
  \/ LookupStore(c)

MaintainStep(c) ==
  \/ MaintainSkip(c)
  \/ MaintainLoad(c)
  \/ MaintainEvict(c)
  \/ MaintainPass(c)
  \/ MaintainStore(c)

Next ==
  \/ \E q \in [Reqs -> [Positions -> Tokens]] : LaunchLookup(q)
  \/ LaunchMaintain
  \/ HostSync
  \/ \E c \in Cores : LookupStep(c) \/ MaintainStep(c)

(***************************************************************************)
(* A launched kernel runs: every core keeps stepping and the stream         *)
(* synchronises once all are through. Nothing obliges the host to launch.   *)
(***************************************************************************)
Fairness ==
  /\ WF_vars(HostSync)
  /\ \A c \in Cores : WF_vars(LookupStep(c) \/ MaintainStep(c))

Spec == Init /\ [][Next]_vars

FairSpec == Spec /\ Fairness

-----------------------------------------------------------------------------

TypeOK ==
  /\ index \in [Reqs -> [Tokens -> Slots \cup {NotFound}]]
  /\ slotToIndex \in [Reqs -> [Slots -> Tokens \cup {NotFound}]]
  /\ freeSlots \in [Reqs -> [FreeRow -> Slots]]
  /\ freeHead \in [Reqs -> 0 .. FreeCount]
  /\ query \in [Reqs -> [Positions -> Tokens]]
  /\ slotOut \in [Reqs -> [Positions -> Slots \cup {NotFound}]]
  /\ op \in {"idle", "lookup", "maintain"}
  /\ answered \in BOOLEAN
  /\ req \in [Cores -> Nat]
  /\ pc \in [Cores -> {"load", "alloc", "scan", "fault"}]
  /\ head \in [Cores -> 0 .. FreeCount]
  /\ pos \in [Cores -> Nat]
  /\ outTile \in [Cores -> [Positions -> Slots \cup {NotFound}]]
  /\ protected \in [Cores -> SUBSET (Slots \cup {NotFound})]

Busy(c) == pc[c] # "load"

(***************************************************************************)
(* The index and its inverse agree at every step of either kernel: a token  *)
(* with a slot is the token of that slot, and a slot with a token is the    *)
(* slot of that token (so no two tokens share a slot).                      *)
(***************************************************************************)
MappingBijective ==
  \A r \in Reqs :
    /\ \A t \in Tokens :
         index[r][t] # NotFound => slotToIndex[r][index[r][t]] = t
    /\ \A s \in Slots :
         slotToIndex[r][s] # NotFound => index[r][slotToIndex[r][s]] = s

(***************************************************************************)
(* From entry h on, request r's pool lists every empty slot once and no     *)
(* other.                                                                   *)
(***************************************************************************)
PoolExact(r, h) ==
  LET Free == h .. FreeCount - 1 IN
    /\ \A k \in Free : slotToIndex[r][freeSlots[r][k]] = NotFound
    /\ \A k, l \in Free : freeSlots[r][k] = freeSlots[r][l] => k = l
    /\ \A s \in Slots : slotToIndex[r][s] = NotFound =>
                          \E k \in Free : freeSlots[r][k] = s

(***************************************************************************)
(* No slot leaks and none is handed out twice: at every step the pool is    *)
(* exact, counted from the register of the core at work on the request or,  *)
(* when none is, from freeHead.                                             *)
(***************************************************************************)
FreePoolExact ==
  /\ \A c \in Cores : Busy(c) => PoolExact(req[c], head[c])
  /\ \A r \in Reqs :
       (\A c \in Cores : Busy(c) => req[c] # r) => PoolExact(r, freeHead[r])

(***************************************************************************)
(* lookup never takes an entry past its request's row of the pool (the code *)
(* has no bound on freeHead and returns no error).                          *)
(***************************************************************************)
FreeRowInBounds ==
  \A c \in Cores :
    (pc[c] = "alloc" /\ pos[c] < QueryCount /\ outTile[c][pos[c]] = NotFound
       /\ index[req[c]][query[req[c]][pos[c]]] = NotFound)
      => head[c] < FreeCount

(***************************************************************************)
(* From the end of a lookup until the next one, through every eviction of   *)
(* maintain, the tokens asked for keep a slot, and the answer is that slot: *)
(* the attention kernel may read it meanwhile. Only the answer to a request *)
(* that its core went on from may lack positions, and has no wrong ones.    *)
(***************************************************************************)
AnswerStands ==
  answered /\ op # "lookup" =>
    \A r \in Reqs, i \in Positions :
      LET slot == index[r][query[r][i]] IN
        /\ slot # NotFound
        /\ slotOut[r][i] # slot => Followed(r) /\ slotOut[r][i] = NotFound

(***************************************************************************)
(* lookup moves no resident token: a slot, once it holds a token, keeps it  *)
(* until a maintain kernel evicts it.                                       *)
(***************************************************************************)
OnlyMaintainEvicts ==
  [][op = "lookup" => \A r \in Reqs, t \in Tokens :
        index[r][t] # NotFound => index'[r][t] = index[r][t]]_vars

(***************************************************************************)
(* Both kernels return: in particular maintain's circular scan, which the   *)
(* code leaves only when the pool is full again, meets enough evictable     *)
(* slots from wherever the hash starts it.                                  *)
(***************************************************************************)
KernelReturns == op # "idle" ~> op = "idle"
=============================================================================
