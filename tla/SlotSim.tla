------------------------------- MODULE SlotSim -------------------------------
(***************************************************************************)
(* The eviction simulator (kv_cache_eviction_sim.py): one pool of slots    *)
(* for the tokens of all requests.  A decode step first evicts the least   *)
(* recently used tokens until the reserve of free slots is met, then       *)
(* resolves one query list per request; a miss that finds no free slot is  *)
(* a shortage, and evicts nothing.                                         *)
(*                                                                         *)
(* One action per iteration of the two loops of LRUManagedCache.  The      *)
(* workloads differ in which token ids they draw: here, any distinct ones. *)
(***************************************************************************)
EXTENDS Integers, FiniteSets, SequencesExt

CONSTANTS
    ReqNum,         \* req_num
    Steps,          \* steps
    TokensPerReq,   \* managed_tokens_per_req
    SlotsPerReq,    \* hbm_slots_per_req
    TargetPerReq,   \* free_slots_target_per_req
    TopK            \* TOPK_PER_REQ

\* validate_config
ASSUME ConfigAssumption ==
    /\ {ReqNum, Steps, TokensPerReq, SlotsPerReq, TopK} \subseteq Nat \ {0}
    /\ TokensPerReq >= TopK
    /\ TargetPerReq \in Nat

VARIABLES
    freeSlots,   \* _free_slots: a stack, its top last
    residents,   \* _residents: <<token, slot>>, least recently used first
    phase,       \* "prepare" or "resolve"
    step,        \* step_id
    req,         \* req_id
    query,       \* tokens of the request's query that are left
    stats,       \* step_stats
    total

cache == <<freeSlots, residents>>
vars == <<cache, phase, step, req, query, stats, total>>

TotalSlots == ReqNum * SlotsPerReq
Slots == 0..(TotalSlots - 1)
TokenIds == 0..(TokensPerReq - 1)
Tokens == (0..(ReqNum - 1)) \X TokenIds

FreeSlotTarget ==
    IF ReqNum * TargetPerReq < TotalSlots THEN ReqNum * TargetPerReq ELSE TotalSlots

NoStats == [hits |-> 0, misses |-> 0, installs |-> 0, shortages |-> 0, evictions |-> 0]

Init ==
    /\ freeSlots = [i \in 1..TotalSlots |-> TotalSlots - i]
    /\ residents = << >>
    /\ phase = "prepare"
    /\ step = 0
    /\ req = 0
    /\ query = << >>
    /\ stats = NoStats
    /\ total = NoStats

ResidentTokens == {residents[i][1] : i \in DOMAIN residents}

-----------------------------------------------------------------------------
(* prepare_free_slots.                                                     *)

\* Mutant: the reserve is filled one slot too far.
ReserveShortOrMet == Len(freeSlots) <= FreeSlotTarget /\ residents # << >>

ReserveShort == Len(freeSlots) < FreeSlotTarget /\ residents # << >>

Evict ==
    /\ phase = "prepare"
    /\ step < Steps
    /\ ReserveShort
    /\ residents' = Tail(residents)
    /\ freeSlots' = Append(freeSlots, Head(residents)[2])
    /\ stats' = [stats EXCEPT !.evictions = @ + 1]
    /\ UNCHANGED <<phase, step, req, query, total>>

\* TopKWorkload.query
Queries(r) ==
    {[i \in 1..TopK |-> <<r, ids[i]>>] :
        ids \in {ids \in [1..TopK -> TokenIds] : IsInjective(ids)}}

BeginResolve ==
    /\ phase = "prepare"
    /\ step < Steps
    /\ ~ ReserveShort
    /\ phase' = "resolve"
    /\ req' = 0
    /\ query' \in Queries(0)
    /\ UNCHANGED <<cache, step, stats, total>>

-----------------------------------------------------------------------------
(* resolve_query.                                                          *)

Resolving == phase = "resolve" /\ query # << >>

\* Mutant: a hit leaves the token's place in the order alone.
TouchedInPlace(token) == residents

\* move_to_end
Touched(token) ==
    LET i == CHOOSE i \in DOMAIN residents : residents[i][1] = token
    IN Append(RemoveAt(residents, i), residents[i])

ResolveHit ==
    /\ Resolving
    /\ Head(query) \in ResidentTokens
    /\ residents' = Touched(Head(query))
    /\ query' = Tail(query)
    /\ stats' = [stats EXCEPT !.hits = @ + 1]
    /\ UNCHANGED <<freeSlots, phase, step, req, total>>

\* Mutant: the slot is read from the stack and stays there.
StackAfterPeek == freeSlots

StackAfterPop == Front(freeSlots)

ResolveInstall ==
    /\ Resolving
    /\ Head(query) \notin ResidentTokens
    /\ freeSlots # << >>
    /\ residents' = Append(residents, <<Head(query), Last(freeSlots)>>)
    /\ freeSlots' = StackAfterPop
    /\ query' = Tail(query)
    /\ stats' = [stats EXCEPT !.misses = @ + 1, !.installs = @ + 1]
    /\ UNCHANGED <<phase, step, req, total>>

ResolveShortage ==
    /\ Resolving
    /\ Head(query) \notin ResidentTokens
    /\ freeSlots = << >>
    /\ query' = Tail(query)
    /\ stats' = [stats EXCEPT !.misses = @ + 1, !.shortages = @ + 1]
    /\ UNCHANGED <<cache, phase, step, req, total>>

NextRequest ==
    /\ phase = "resolve"
    /\ query = << >>
    /\ req + 1 < ReqNum
    /\ req' = req + 1
    /\ query' \in Queries(req + 1)
    /\ UNCHANGED <<cache, phase, step, stats, total>>

\* Mutant: the evictions are added both with the step and by themselves.
AddedTwice(sum, s) ==
    [k \in DOMAIN sum |-> IF k = "evictions" THEN sum[k] + 2 * s[k] ELSE sum[k] + s[k]]

\* total.add(step_stats), and the evictions
Added(sum, s) == [k \in DOMAIN sum |-> sum[k] + s[k]]

EndStep ==
    /\ phase = "resolve"
    /\ query = << >>
    /\ req + 1 = ReqNum
    /\ total' = Added(total, stats)
    /\ stats' = NoStats
    /\ step' = step + 1
    /\ phase' = "prepare"
    /\ UNCHANGED <<cache, req, query>>

Next ==
    \/ Evict \/ BeginResolve
    \/ ResolveHit \/ ResolveInstall \/ ResolveShortage
    \/ NextRequest \/ EndStep

Spec == Init /\ [][Next]_vars

-----------------------------------------------------------------------------
\* The types, and every slot in exactly one place: each is on the free stack
\* or under one resident token, once.
TypeOK ==
    /\ phase \in {"prepare", "resolve"}
    /\ step \in 0..Steps
    /\ req \in 0..(ReqNum - 1)
    /\ \A t \in ToSet(query) : t \in Tokens
    /\ ResidentTokens \subseteq Tokens
    /\ Len(freeSlots) + Len(residents) = TotalSlots
    /\ ToSet(freeSlots) \cup {e[2] : e \in ToSet(residents)} = Slots
    /\ Cardinality(ResidentTokens) = Len(residents)

\* The reserve does what it is for: a step starts with at least the target
\* free, and with no more than the target if it evicted for it; so a step
\* with no more distinct misses than the target meets no shortage, and one
\* that meets a shortage has used all of the reserve.
ReserveServes ==
    /\ phase = "resolve" => Len(freeSlots) + stats.installs >= FreeSlotTarget
    /\ stats.evictions > 0 => Len(freeSlots) + stats.installs <= FreeSlotTarget
    /\ stats.shortages > 0 => freeSlots = << >> /\ stats.installs >= FreeSlotTarget

\* The counters the program prints agree with the pool and the workload: what
\* was installed and not evicted is resident, and every token queried was one
\* of a hit, an install or a shortage.
Accounting ==
    LET sum == [k \in DOMAIN NoStats |-> total[k] + stats[k]]
    IN /\ sum.installs - sum.evictions = Len(residents)
       /\ sum.misses = sum.installs + sum.shortages
       /\ sum.hits + sum.misses =
              TopK * (ReqNum * step + (IF phase = "resolve" THEN req + 1 ELSE 0)) - Len(query)
=============================================================================
