----------------------------- MODULE SimtLookup -----------------------------
(***************************************************************************)
(* asu_hbm_index_lookup_simt: one kernel looks a batch of query tokens up,  *)
(* allocates slots to the missing ones in least-recently-used order,        *)
(* evicting the tokens that hold them, and rewrites the LRU order.          *)
(*                                                                          *)
(* A block of Threads threads serves one request; blocks share nothing, so  *)
(* one request is modelled. The threads run in phases separated by          *)
(* asc_syncthreads(). Where threads of a phase touch the same memory (the   *)
(* claims of lookup, the installs of alloc) every iteration is a step;      *)
(* elsewhere a thread writes only its own share of an array nobody else     *)
(* reads before the barrier, and its whole phase is a step.                 *)
(***************************************************************************)
EXTENDS Integers, FiniteSets

CONSTANTS
  Threads,     \* ASU_HBM_SIMT_THREADS
  IndexSize,   \* ASU_HBM_INDEX_SIZE: token ids
  SlotCount,   \* ASU_HBM_SLOT_COUNT
  QueryCount,  \* ASU_HBM_QUERY_COUNT
  Workload     \* batches of queries the host may launch with

\* 256 threads, 128K tokens, 10K slots, 2K queries.
ASSUME SimtAssumption ==
  /\ Threads \in Nat \ {0}
  /\ SlotCount \in Nat \ {0}
  /\ IndexSize \in Nat
  /\ SlotCount <= IndexSize
  /\ QueryCount \in 1 .. SlotCount
  /\ Workload \subseteq [0 .. QueryCount - 1 -> Int]

NotFound == -1
Claiming == -2

Tids      == 0 .. Threads - 1
Tokens    == 0 .. IndexSize - 1
Slots     == 0 .. SlotCount - 1
Positions == 0 .. QueryCount - 1

VARIABLES
  tokenToSlot, slotToToken, \* the two maps
  lru,          \* lru_slots: slots from least to most recently used
  query,        \* query_token_ids; an id outside Tokens is padding
  slotIds,      \* slot_ids: the answer
  missMask,     \* miss_mask: positions that must load their payload
  payload,      \* payload[s]: the token whose KV data is in slot s
  op,           \* host: "idle", "lookup" (kernel running) or "io"
  phase,        \* phase[t]: where thread t is
  pos,          \* pos[t]: next position of t's lookup or alloc loop
  claiming,     \* claiming[t]: between the load of token_slot and the CAS
  hitFlags, hitSlots, evictableSlots, \* workspace
  hitCounts, evictCounts, missCounts  \* workspace: thread_*_counts

tables == <<tokenToSlot, slotToToken, lru>>
outputs == <<slotIds, missMask>>
scans == <<hitSlots, evictableSlots, hitCounts, evictCounts, missCounts>>
host == <<query, payload, op>>
vars == <<tables, outputs, host, phase, pos, claiming, hitFlags,
          scans>>

-----------------------------------------------------------------------------

(***************************************************************************)
(* The barriers. A thread that finishes a phase waits in the next one until *)
(* no thread is in an earlier one.                                          *)
(***************************************************************************)
Clear == 1
Lookup == 2
Count == 3
Compact == 4
Misses == 5
Alloc == 6
Rewrite == 7
Done == 8

In(t, p) == /\ op = "lookup"
            /\ phase[t] = p
            /\ \A u \in Tids : phase[u] >= p

Pass(t) == phase' = [phase EXCEPT ![t] = @ + 1]

\* How the loops share n items out among the threads.
Strided(t, n) == {p \in 0 .. n - 1 : p % Threads = t}

ChunkWidth(n) == (n + Threads - 1) \div Threads

Chunk(t, n) ==
  {p \in 0 .. n - 1 : t * ChunkWidth(n) <= p /\ p < (t + 1) * ChunkWidth(n)}

\* Sum of the counts of the threads before t.
Prefix(counts, t) ==
  LET sum[i \in 0 .. Threads] ==
        IF i = 0 THEN 0 ELSE sum[i - 1] + counts[i - 1]
  IN  sum[t]

\* Offset of p in a stable compaction of S.
RankIn(S, p) == Cardinality({q \in S : q < p})

-----------------------------------------------------------------------------

(***************************************************************************)
(* The host's states: empty slots first, the other slots hold the token of  *)
(* the same number, LRU order is slot order.                                *)
(***************************************************************************)
Init ==
  /\ \E empty \in 0 .. SlotCount :
       /\ slotToToken = [s \in Slots |-> IF s < empty THEN NotFound ELSE s]
       /\ tokenToSlot = [k \in Tokens |->
                           IF k < SlotCount /\ k >= empty THEN k ELSE NotFound]
  /\ lru = [p \in Slots |-> p]
  /\ query = [p \in Positions |-> NotFound]
  /\ slotIds = [p \in Positions |-> NotFound]
  /\ missMask = [p \in Positions |-> FALSE]
  /\ payload = slotToToken
  /\ op = "idle"
  /\ phase = [t \in Tids |-> Done]
  /\ pos = [t \in Tids |-> 0]
  /\ claiming = [t \in Tids |-> FALSE]
  /\ hitFlags = [s \in Slots |-> FALSE]
  /\ hitSlots = [p \in Slots |-> 0]
  /\ evictableSlots = [p \in Slots |-> 0]
  /\ hitCounts = [t \in Tids |-> 0]
  /\ evictCounts = [t \in Tids |-> 0]
  /\ missCounts = [t \in Tids |-> 0]

(***************************************************************************)
(* The launch allocates outputs and workspace with torch.empty. The flags   *)
(* come with any contents; the other arrays are written before they are     *)
(* read, so their fresh contents are one value.                             *)
(***************************************************************************)
Launch(q) ==
  /\ op = "idle"
  /\ op' = "lookup"
  /\ query' = q
  /\ slotIds' = [p \in Positions |-> NotFound]
  /\ missMask' = [p \in Positions |-> FALSE]
  /\ hitFlags' \in [Slots -> BOOLEAN]
  /\ hitSlots' = [p \in Slots |-> 0]
  /\ evictableSlots' = [p \in Slots |-> 0]
  /\ hitCounts' = [t \in Tids |-> 0]
  /\ evictCounts' = [t \in Tids |-> 0]
  /\ missCounts' = [t \in Tids |-> 0]
  /\ phase' = [t \in Tids |-> Clear]
  /\ UNCHANGED <<tables, payload, pos, claiming>>

HostSync ==
  /\ op = "lookup"
  /\ \A t \in Tids : phase[t] = Done
  /\ op' = "io"
  /\ UNCHANGED <<tables, outputs, query, payload, phase, pos, claiming, hitFlags, scans>>

(***************************************************************************)
(* The caller loads query_token_ids[miss_mask] into slot_ids[miss_mask]     *)
(* before attention consumes slot_ids and before the next lookup.           *)
(***************************************************************************)
LoadMisses ==
  /\ op = "io"
  /\ op' = "idle"
  /\ payload' = [s \in Slots |->
       IF \E p \in Positions : missMask[p] /\ slotIds[p] = s
       THEN query[CHOOSE p \in Positions : missMask[p] /\ slotIds[p] = s]
       ELSE payload[s]]
  /\ UNCHANGED <<tables, outputs, query, phase, pos, claiming,
                 hitFlags, scans>>

-----------------------------------------------------------------------------

ClearFlags(t) ==
  /\ In(t, Clear)
  /\ hitFlags' = [s \in Slots |->
                    IF s \in Strided(t, SlotCount) THEN FALSE ELSE hitFlags[s]]
  /\ pos' = [pos EXCEPT ![t] = t]
  /\ Pass(t)
  /\ UNCHANGED <<tables, outputs, host, claiming, scans>>

AtQuery(t) == In(t, Lookup) /\ pos[t] < QueryCount /\ ~claiming[t]

QueryToken(t) == query[pos[t]]

Advance(t, step) == pos' = [pos EXCEPT ![t] = @ + step]

\* slot_ids[pos] = slot, miss_mask[pos] = 0.
Answer(t, slot) ==
  /\ slotIds' = [slotIds EXCEPT ![pos[t]] = slot]
  /\ missMask' = [missMask EXCEPT ![pos[t]] = FALSE]

LookupPadding(t) ==
  /\ AtQuery(t)
  /\ QueryToken(t) \notin Tokens
  /\ Answer(t, NotFound)
  /\ Advance(t, Threads)
  /\ UNCHANGED <<tables, host, phase, claiming, hitFlags, scans>>

\* Mutant: the hit flag is not set.
LookupHitUnflagged(t) ==
  /\ AtQuery(t)
  /\ QueryToken(t) \in Tokens
  /\ tokenToSlot[QueryToken(t)] >= 0
  /\ Answer(t, tokenToSlot[QueryToken(t)])
  /\ Advance(t, Threads)
  /\ UNCHANGED <<tables, host, phase, claiming, hitFlags, scans>>

LookupHit(t) ==
  /\ AtQuery(t)
  /\ QueryToken(t) \in Tokens
  /\ tokenToSlot[QueryToken(t)] >= 0
  /\ Answer(t, tokenToSlot[QueryToken(t)])
  /\ hitFlags' = [hitFlags EXCEPT ![tokenToSlot[QueryToken(t)]] = TRUE]
  /\ Advance(t, Threads)
  /\ UNCHANGED <<tables, host, phase, claiming, scans>>

\* Mutant: wait here for the slot of the position that claimed the token.
LookupClaimedSpin(t) ==
  /\ AtQuery(t)
  /\ QueryToken(t) \in Tokens
  /\ tokenToSlot[QueryToken(t)] = Claiming
  /\ Answer(t, NotFound)
  /\ UNCHANGED <<tables, host, phase, pos, claiming, hitFlags, scans>>

\* Another position has claimed the token already.
LookupClaimed(t) ==
  /\ AtQuery(t)
  /\ QueryToken(t) \in Tokens
  /\ tokenToSlot[QueryToken(t)] = Claiming
  /\ Answer(t, NotFound)
  /\ Advance(t, Threads)
  /\ UNCHANGED <<tables, host, phase, claiming, hitFlags, scans>>

LookupMiss(t) ==
  /\ AtQuery(t)
  /\ QueryToken(t) \in Tokens
  /\ tokenToSlot[QueryToken(t)] = NotFound
  /\ Answer(t, NotFound)
  /\ claiming' = [claiming EXCEPT ![t] = TRUE]
  /\ UNCHANGED <<tables, host, phase, pos, hitFlags, scans>>

\* Mutant: the claim is a plain store, not a compare and swap.
ClaimUnconditionally(t) ==
  /\ In(t, Lookup)
  /\ claiming[t]
  /\ tokenToSlot' = [tokenToSlot EXCEPT ![QueryToken(t)] = Claiming]
  /\ missMask' = [missMask EXCEPT ![pos[t]] = TRUE]
  /\ claiming' = [claiming EXCEPT ![t] = FALSE]
  /\ Advance(t, Threads)
  /\ UNCHANGED <<slotToToken, lru, slotIds, host, phase, hitFlags, scans>>

\* Mutant: the loser takes whatever it found for a slot (old # NOT_FOUND).
ClaimAnyOld(t) ==
  LET old == tokenToSlot[QueryToken(t)] IN
    /\ In(t, Lookup)
    /\ claiming[t]
    /\ tokenToSlot' = [tokenToSlot EXCEPT
                         ![QueryToken(t)] = IF old = NotFound THEN Claiming ELSE old]
    /\ missMask' = [missMask EXCEPT ![pos[t]] = (old = NotFound)]
    /\ slotIds' = [slotIds EXCEPT ![pos[t]] = old]
    /\ claiming' = [claiming EXCEPT ![t] = FALSE]
    /\ Advance(t, Threads)
    /\ UNCHANGED <<slotToToken, lru, host, phase, hitFlags, scans>>

(***************************************************************************)
(* asc_atomic_cas(token_slot, NOT_FOUND, CLAIMING): the winner's position   *)
(* is the one that will load the token.                                     *)
(***************************************************************************)
Claim(t) ==
  LET old == tokenToSlot[QueryToken(t)] IN
    /\ In(t, Lookup)
    /\ claiming[t]
    /\ tokenToSlot' = [tokenToSlot EXCEPT
                         ![QueryToken(t)] = IF old = NotFound THEN Claiming ELSE old]
    /\ missMask' = [missMask EXCEPT ![pos[t]] = (old = NotFound)]
    /\ slotIds' = [slotIds EXCEPT ![pos[t]] = IF old >= 0 THEN old ELSE @]
    /\ hitFlags' = IF old >= 0 THEN [hitFlags EXCEPT ![old] = TRUE] ELSE hitFlags
    /\ claiming' = [claiming EXCEPT ![t] = FALSE]
    /\ Advance(t, Threads)
    /\ UNCHANGED <<slotToToken, lru, host, phase, scans>>

LookupEnd(t) ==
  /\ In(t, Lookup)
  /\ pos[t] >= QueryCount
  /\ ~claiming[t]
  /\ Pass(t)
  /\ UNCHANGED <<tables, outputs, host, pos, claiming, hitFlags, scans>>

-----------------------------------------------------------------------------

\* Positions of the LRU order whose slot was hit, and those that were not.
HitAt == {p \in Slots : hitFlags[lru[p]]}
EvictableAt == Slots \ HitAt

CountHits(t) ==
  /\ In(t, Count)
  /\ hitCounts' = [hitCounts EXCEPT
       ![t] = Cardinality(HitAt \cap Chunk(t, SlotCount))]
  /\ evictCounts' = [evictCounts EXCEPT
       ![t] = Cardinality(EvictableAt \cap Chunk(t, SlotCount))]
  /\ Pass(t)
  /\ UNCHANGED <<tables, outputs, host, pos, claiming, hitFlags,
                 hitSlots, evictableSlots, missCounts>>

\* array, with the slots at the LRU positions S written from offset on.
Compacted(array, S, offset) ==
  [o \in Slots |->
     IF \E p \in S : offset + RankIn(S, p) = o
     THEN lru[CHOOSE p \in S : offset + RankIn(S, p) = o]
     ELSE array[o]]

CompactLru(t) ==
  /\ In(t, Compact)
  /\ hitSlots' = Compacted(hitSlots, HitAt \cap Chunk(t, SlotCount),
                           Prefix(hitCounts, t))
  /\ evictableSlots' = Compacted(evictableSlots,
                                 EvictableAt \cap Chunk(t, SlotCount),
                                 Prefix(evictCounts, t))
  /\ Pass(t)
  /\ UNCHANGED <<tables, outputs, host, pos, claiming, hitFlags,
                 hitCounts, evictCounts, missCounts>>

MissAt == {p \in Positions : missMask[p]}

CountMisses(t) ==
  /\ In(t, Misses)
  /\ missCounts' = [missCounts EXCEPT
       ![t] = Cardinality(MissAt \cap Chunk(t, QueryCount))]
  /\ pos' = [pos EXCEPT ![t] = 0]
  /\ Pass(t)
  /\ UNCHANGED <<tables, outputs, host, claiming, hitFlags,
                 hitSlots, evictableSlots, hitCounts, evictCounts>>

-----------------------------------------------------------------------------

(***************************************************************************)
(* Allocation. Thread t walks the misses of its chunk in order, numbered    *)
(* from miss_prefix = the misses of earlier threads; the n-th miss takes    *)
(* the n-th evictable slot from the token that holds it.                    *)
(***************************************************************************)
MissesLeft(t) == {p \in MissAt \cap Chunk(t, QueryCount) : p >= pos[t]}

\* Mutant: ++miss_offset instead of miss_offset++.
MissRankAhead(t, p) ==
  Prefix(missCounts, t) + RankIn(MissAt \cap Chunk(t, QueryCount), p) + 1

MissRank(t, p) == Prefix(missCounts, t) + RankIn(MissAt \cap Chunk(t, QueryCount), p)

\* Mutant: the victim's token keeps its slot in token_to_slot.
ReboundOneWay(token, victim) == [tokenToSlot EXCEPT ![token] = victim]

\* token_to_slot after slot victim passes from its token to this one.
Rebound(token, victim) ==
  [k \in Tokens |->
     CASE k = token -> victim
       [] k # token /\ k = slotToToken[victim] -> NotFound
       [] OTHER -> tokenToSlot[k]]

Install(t) ==
  /\ In(t, Alloc)
  /\ \E p \in MissesLeft(t) :
       LET victim == evictableSlots[MissRank(t, p)] IN
         /\ \A q \in MissesLeft(t) : p <= q
         /\ tokenToSlot' = Rebound(query[p], victim)
         /\ slotToToken' = [slotToToken EXCEPT ![victim] = query[p]]
         /\ slotIds' = [slotIds EXCEPT ![p] = victim]
         /\ pos' = [pos EXCEPT ![t] = p + 1]
  /\ UNCHANGED <<lru, missMask, host, phase, claiming, hitFlags, scans>>

AllocEnd(t) ==
  /\ In(t, Alloc)
  /\ MissesLeft(t) = {}
  /\ Pass(t)
  /\ UNCHANGED <<tables, outputs, host, pos, claiming, hitFlags, scans>>

(***************************************************************************)
(* The new LRU order: evictable slots nobody took, then the taken ones,     *)
(* then the hit ones, each group in its order. Thread t writes its strided  *)
(* share, then answers its positions that were claimed by another.          *)
(***************************************************************************)
EvictableCount == Prefix(evictCounts, Threads)
MissCount == Prefix(missCounts, Threads)
StaleCount == EvictableCount - MissCount

\* Mutant: the slots just filled stay at the least recently used end.
NewLruUntouched(p) ==
  IF p < EvictableCount THEN evictableSlots[p] ELSE hitSlots[p - EvictableCount]

NewLru(p) ==
  CASE p < StaleCount -> evictableSlots[MissCount + p]
    [] StaleCount <= p /\ p < EvictableCount -> evictableSlots[p - StaleCount]
    [] OTHER -> hitSlots[p - EvictableCount]

RewriteLru(t) ==
  /\ In(t, Rewrite)
  /\ lru' = [p \in Slots |->
               IF p \in Strided(t, SlotCount) THEN NewLru(p) ELSE lru[p]]
  /\ slotIds' = [p \in Positions |->
       IF /\ p \in Strided(t, QueryCount)
          /\ slotIds[p] = NotFound
          /\ query[p] \in Tokens
       THEN tokenToSlot[query[p]] ELSE slotIds[p]]
  /\ Pass(t)
  /\ UNCHANGED <<tokenToSlot, slotToToken, missMask, host, pos, claiming,
                 hitFlags, scans>>

-----------------------------------------------------------------------------

ThreadStep(t) ==
  \/ ClearFlags(t)
  \/ LookupPadding(t)
  \/ LookupHit(t)
  \/ LookupClaimed(t)
  \/ LookupMiss(t)
  \/ Claim(t)
  \/ LookupEnd(t)
  \/ CountHits(t)
  \/ CompactLru(t)
  \/ CountMisses(t)
  \/ Install(t)
  \/ AllocEnd(t)
  \/ RewriteLru(t)

Next ==
  \/ \E q \in Workload : Launch(q)
  \/ HostSync
  \/ LoadMisses
  \/ \E t \in Tids : ThreadStep(t)

Spec == Init /\ [][Next]_vars

\* A launched kernel runs to its end and the caller waits for it.
Fairness ==
  /\ WF_vars(HostSync)
  /\ \A t \in Tids : WF_vars(ThreadStep(t))

FairSpec == Spec /\ Fairness

-----------------------------------------------------------------------------

Partial(S) == S \cup {NotFound}

TypeOK ==
  /\ tokenToSlot \in [Tokens -> Slots \cup {NotFound, Claiming}]
  /\ slotToToken \in [Slots -> Partial(Tokens)]
  /\ lru \in [Slots -> Slots]
  /\ query \in [Positions -> Int]
  /\ slotIds \in [Positions -> Partial(Slots)]
  /\ missMask \in [Positions -> BOOLEAN]
  /\ payload \in [Slots -> Partial(Tokens)]
  /\ op \in {"idle", "lookup", "io"}
  /\ phase \in [Tids -> Clear .. Done]
  /\ pos \in [Tids -> Nat]
  /\ claiming \in [Tids -> BOOLEAN]
  /\ hitFlags \in [Slots -> BOOLEAN]
  /\ hitSlots \in [Slots -> Slots]
  /\ evictableSlots \in [Slots -> Slots]
  /\ hitCounts \in [Tids -> 0 .. SlotCount]
  /\ evictCounts \in [Tids -> 0 .. SlotCount]
  /\ missCounts \in [Tids -> 0 .. QueryCount]

(***************************************************************************)
(* The state the README requires at the entry of a launch is the one every  *)
(* launch leaves: the maps are inverse, no claim is left over, and lru      *)
(* lists every slot once.                                                   *)
(***************************************************************************)
EntryStateRestored ==
  op # "lookup" =>
    /\ \A k \in Tokens : tokenToSlot[k] # NotFound =>
         tokenToSlot[k] \in Slots /\ slotToToken[tokenToSlot[k]] = k
    /\ \A s \in Slots : slotToToken[s] # NotFound =>
         tokenToSlot[slotToToken[s]] = s
    /\ \A p, q \in Slots : lru[p] = lru[q] => p = q

(***************************************************************************)
(* Downstream IO driven by miss_mask is complete and not repeated: after it *)
(* every slot holds the data of the token it is mapped to, every valid      *)
(* position is answered with the slot that holds its token's data, and no   *)
(* two positions load the same token.                                       *)
(***************************************************************************)
MissIoExact ==
  /\ op = "idle" => \A s \in Slots : slotToToken[s] # NotFound =>
                                       payload[s] = slotToToken[s]
  /\ op # "lookup" => \A p \in Positions :
       /\ query[p] \in Tokens => /\ slotIds[p] # NotFound
                                 /\ slotToToken[slotIds[p]] = query[p]
       /\ query[p] \notin Tokens => slotIds[p] = NotFound /\ ~missMask[p]
  /\ op # "lookup" => \A p, q \in Positions :
       missMask[p] /\ missMask[q] /\ query[p] = query[q] => p = q

(***************************************************************************)
(* The unchecked index miss_rank stays within the evictable slots.          *)
(***************************************************************************)
VictimInRange ==
  \A t \in Tids : In(t, Alloc) =>
    \A p \in MissesLeft(t) : MissRank(t, p) < EvictableCount

(***************************************************************************)
(* A token of the batch that has a slot keeps it for the whole kernel: no   *)
(* miss evicts a hit, or what another miss has just installed.              *)
(***************************************************************************)
BatchNeverEvicted ==
  [][op = "lookup" => \A p \in Positions :
       query[p] \in Tokens /\ tokenToSlot[query[p]] >= 0 =>
         tokenToSlot'[query[p]] = tokenToSlot[query[p]]]_vars

\* Every thread gets through every barrier and the kernel returns.
KernelReturns == op = "lookup" ~> op = "io"
=============================================================================
