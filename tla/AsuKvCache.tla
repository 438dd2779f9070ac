------------------------------ MODULE AsuKvCache ------------------------------
(***************************************************************************)
(* The managed KV cache of patches 0001 to 0003.  Each managed layer has a *)
(* context: the state of every token, the paged slot its record is in, the *)
(* managed slots with their owners, and a stack of free ones.  When one    *)
(* request decodes alone, a layer first prepares the contexts (reset them  *)
(* for another request, or append the new token), then the resolver kernel *)
(* installs every selected token that is not resident, and attention reads *)
(* the managed slots only.                                                 *)
(*                                                                         *)
(* The free stack holds 0, 1, 2, ... from the reset on and is only popped: *)
(* it is the number of its entries.  managed_prefix_len is stored, passed  *)
(* and never read; it is left out.                                         *)
(***************************************************************************)
EXTENDS Integers, Sequences, FiniteSets

CONSTANTS Reqs, NumLayers, NumBlocks, BlockSize, MaxSeqLen, TopK, PromptLens,
          Preemptible, Pad, Idle, Empty,
          AsuLayers,     \* layers with a context
          ManagedSlots,  \* managed_slot_count
          Invalid,       \* INVALID
          AsuOnly, HbmResident, TailHbm,
          Outside        \* memory outside the managed cache

VARIABLES running, finished, len, blockTable, original, step, output,
          ctx,       \* layer -> ASULayerKVCacheContext
          pos,       \* next entry of the resolver, 0 before the contexts are prepared
          resolved   \* resolved_kv_slots

engineVars == <<running, finished, len, blockTable, original, step, output>>
vars == <<engineVars, ctx, pos, resolved>>

Engine == INSTANCE PagedDecode

Tokens == Engine!Tokens
Slots  == 0..(ManagedSlots - 1)
States == {Invalid, AsuOnly, HbmResident, TailHbm}

ASSUME AsuAssumption ==
    /\ Engine!SizesSound
    /\ AsuLayers \subseteq Engine!Layers
    /\ ManagedSlots \in Nat \ {0}
    /\ Invalid \notin {AsuOnly, HbmResident, TailHbm}
    /\ AsuOnly \notin {HbmResident, TailHbm} /\ HbmResident # TailHbm
    /\ {Invalid, Outside} \cap Nat = {}

Contexts ==
    [reqId    : Reqs \cup {Invalid},
     seqLen   : 0..MaxSeqLen,
     state    : [Tokens -> States],
     record   : [Tokens -> Engine!Addrs \cup {Invalid}],
     slotOf   : [Tokens -> Slots \cup {Invalid, Outside}],
     owner    : [Slots -> Tokens \cup {Invalid, Pad}],
     freeCount : Int,
     managed  : [Slots -> (Reqs \X Tokens) \cup {Empty}]]

\* from_kv_caches
FreshContext ==
    [reqId |-> Invalid, seqLen |-> 0,
     state |-> [t \in Tokens |-> Invalid], record |-> [t \in Tokens |-> Invalid],
     slotOf |-> [t \in Tokens |-> Invalid], owner |-> [s \in Slots |-> Invalid],
     freeCount |-> ManagedSlots, managed |-> [s \in Slots |-> Empty]]

Init ==
    /\ Engine!Init
    /\ ctx = [l \in AsuLayers |-> FreshContext]
    /\ pos = 0
    /\ resolved = [i \in 1..TopK |-> Invalid]

-----------------------------------------------------------------------------
(* Preparing the contexts, and its mutants.                                *)

\* Mutant: the record addresses of an earlier request are kept.
ResetKeepsRecords(c, r, n, prefix, bt) ==
    [FreshContext EXCEPT
        !.reqId = r, !.seqLen = n, !.managed = c.managed,
        !.state = [t \in Tokens |-> CASE t < prefix -> AsuOnly
                                      [] t >= prefix /\ t < n -> TailHbm
                                      [] OTHER -> Invalid],
        !.record = [t \in Tokens |->
                       IF c.record[t] = Invalid /\ t < prefix THEN Engine!SourceSlot(bt, t) ELSE c.record[t]]]

\* reset_state: everything but the managed cache's contents starts over.
Reset(c, r, n, prefix, bt) ==
    [FreshContext EXCEPT
        !.reqId = r, !.seqLen = n, !.managed = c.managed,
        !.state = [t \in Tokens |-> CASE t < prefix -> AsuOnly
                                      [] t >= prefix /\ t < n -> TailHbm
                                      [] OTHER -> Invalid],
        !.record = [t \in Tokens |-> IF t < prefix THEN Engine!SourceSlot(bt, t) ELSE Invalid]]

\* mark_decode_token
MarkDecodeToken(c, t) ==
    [c EXCEPT !.seqLen = IF t + 1 > @ THEN t + 1 ELSE @, !.state[t] = TailHbm]

\* Mutant: a context is kept for any request that is long enough.
NeedsResetByLength(c, r, n) == c.seqLen = 0 \/ n < c.seqLen

NeedsReset(c, r, n) == c.reqId # r \/ c.seqLen = 0 \/ n < c.seqLen

\* _prepare_asu_layer_context: this layer's context decides for all of them.
Prepared(l, r, n, bt) ==
    [k \in AsuLayers |->
        IF NeedsReset(ctx[l], r, n) THEN Reset(ctx[k], r, n, n - 1, bt)
        ELSE IF n > ctx[l].seqLen THEN MarkDecodeToken(ctx[k], n - 1)
        ELSE ctx[k]]

UsesAsu == Engine!Attending /\ step.layer \in AsuLayers

Prepare ==
    /\ UsesAsu
    /\ pos = 0
    /\ ctx' = Prepared(step.layer, step.req, len[step.req], blockTable[step.req])
    /\ pos' = 1
    /\ UNCHANGED <<engineVars, resolved>>

-----------------------------------------------------------------------------
(* The resolver kernel.  It has no bounds checks: an entry that is a       *)
(* filler, or a pop from an empty stack, reads what lies in memory there.  *)

StatesRead(c, t) == IF t = Pad THEN States ELSE {c.state[t]}

SlotsRead(c, t) == IF t = Pad THEN Slots \cup {Outside} ELSE {c.slotOf[t]}

\* Mutant: the stack is read before its count is decremented.
PoppedSlotsEarly(c) == IF c.freeCount > 0 THEN {c.freeCount} ELSE Slots \cup {Outside}

\* PopFreeSlot
PoppedSlots(c) == IF c.freeCount > 0 THEN {c.freeCount - 1} ELSE Slots \cup {Outside}

\* Mutant: tail tokens are looked up among the record addresses too.
SourceReadRecords(c, t, state) ==
    IF t = Pad \/ c.record[t] = Invalid THEN Empty ELSE original[step.layer][c.record[t]]

\* The KV a record address, or the block table for any other state, leads to.
SourceRead(c, t, state) ==
    LET cache == original[step.layer]
    IN CASE t = Pad -> Empty
         [] t # Pad /\ state = AsuOnly -> cache[c.record[t]]
         [] OTHER -> cache[Engine!SourceSlot(blockTable[step.req], t)]

\* Mutant: the popped slot stays on the stack.
InstallUnpopped(c, t, state, slot) ==
    [c EXCEPT
        !.state = [u \in Tokens |-> IF u = t THEN HbmResident ELSE @[u]],
        !.slotOf = [u \in Tokens |-> IF u = t THEN slot ELSE @[u]],
        !.owner = [s \in Slots |-> IF s = slot THEN t ELSE @[s]],
        !.managed = [s \in Slots |-> IF s = slot THEN SourceRead(c, t, state) ELSE @[s]]]

\* Mutant: the slot's owner is not recorded.
InstallUnowned(c, t, state, slot) ==
    [c EXCEPT
        !.freeCount = @ - 1,
        !.state = [u \in Tokens |-> IF u = t THEN HbmResident ELSE @[u]],
        !.slotOf = [u \in Tokens |-> IF u = t THEN slot ELSE @[u]],
        !.managed = [s \in Slots |-> IF s = slot THEN SourceRead(c, t, state) ELSE @[s]]]

Install(c, t, state, slot) ==
    [c EXCEPT
        !.freeCount = @ - 1,
        !.state = [u \in Tokens |-> IF u = t THEN HbmResident ELSE @[u]],
        !.slotOf = [u \in Tokens |-> IF u = t THEN slot ELSE @[u]],
        !.owner = [s \in Slots |-> IF s = slot THEN t ELSE @[s]],
        !.managed = [s \in Slots |-> IF s = slot THEN SourceRead(c, t, state) ELSE @[s]]]

Resolving == UsesAsu /\ pos \in 1..TopK

Selection == step.topk[pos]

AdvanceTo(slot) ==
    /\ resolved' = [resolved EXCEPT ![pos] = slot]
    /\ pos' = pos + 1
    /\ UNCHANGED engineVars

ResolveResident ==
    /\ Resolving
    /\ HbmResident \in StatesRead(ctx[step.layer], Selection)
    /\ \E slot \in SlotsRead(ctx[step.layer], Selection) : AdvanceTo(slot)
    /\ UNCHANGED ctx

ResolveMissing ==
    /\ Resolving
    /\ \E state \in StatesRead(ctx[step.layer], Selection) \ {HbmResident},
          slot \in PoppedSlots(ctx[step.layer]) :
          /\ ctx' = [ctx EXCEPT ![step.layer] = Install(@, Selection, state, slot)]
          /\ AdvanceTo(slot)

\* npu_sparse_flash_attention_asu: the managed slots of the selected tokens.
AttendManaged ==
    /\ UsesAsu
    /\ pos = TopK + 1
    /\ LET read(i) == IF resolved[i] \in Slots THEN ctx[step.layer].managed[resolved[i]] ELSE Empty
       IN Engine!AttendTo([i \in Engine!Selected |-> read(i)])
    /\ pos' = 0
    /\ resolved' = [i \in 1..TopK |-> Invalid]
    /\ UNCHANGED ctx

\* A layer without a context attends to the paged cache.
AttendOriginal ==
    /\ Engine!Attending
    /\ step.layer \notin AsuLayers
    /\ Engine!Attend
    /\ UNCHANGED <<ctx, pos, resolved>>

-----------------------------------------------------------------------------
Schedule ==
    /\ \/ \E prefills, decodes \in SUBSET Reqs : Engine!Batch(prefills, decodes)
       \/ \E r \in Reqs : Engine!BeginDecode(r)
       \/ \E r \in Reqs : Engine!Finish(r)
       \/ \E r \in Reqs : Engine!Preempt(r)
    /\ UNCHANGED <<ctx, pos, resolved>>

Write == Engine!WriteLayer /\ UNCHANGED <<ctx, pos, resolved>>

\* The worker: once a step is under way it runs to its end.
Work == Write \/ Prepare \/ ResolveResident \/ ResolveMissing \/ AttendManaged \/ AttendOriginal

Next == Schedule \/ Work

Spec == Init /\ [][Next]_vars
-----------------------------------------------------------------------------
(* Properties.                                                             *)

\* Types; in particular the stack, which the kernel pops unchecked, is never
\* popped below zero when there is a managed slot for every token.
TypeOK ==
    /\ ctx \in [AsuLayers -> Contexts]
    /\ \A l \in AsuLayers : ctx[l].freeCount \in 0..ManagedSlots
    /\ pos \in 0..(TopK + 1)
    /\ resolved \in [1..TopK -> Slots \cup {Invalid}]

Resident(c) == {t \in Tokens : c.state[t] = HbmResident}

\* Resident tokens and taken slots name each other one to one, and the taken
\* slots are those popped from the stack: resets, appended tokens and the
\* kernel's four unguarded writes keep the five tables of a context together.
SlotsExact ==
    \A l \in AsuLayers :
        LET c == ctx[l]
        IN /\ \A t \in Resident(c) : c.slotOf[t] \in Slots /\ c.owner[c.slotOf[t]] = t
           /\ \A s \in Slots :
                 IF s < c.freeCount THEN c.owner[s] = Invalid
                 ELSE c.owner[s] \in Resident(c) /\ c.slotOf[c.owner[s]] = s

UnderWay(l) == UsesAsu /\ pos > 0 /\ l = step.layer

\* Once prepared, the context of a layer is the running request's, and it has
\* classified the tokens of this request only, whichever layer of this or of
\* an earlier step did the preparing and whatever ran in between.
ContextOwnsRequest ==
    \A l \in AsuLayers : UnderWay(l) =>
        /\ ctx[l].reqId = step.req
        /\ ctx[l].seqLen = len[step.req]
        /\ \A t \in Tokens : ctx[l].state[t] # Invalid => t < len[step.req]

\* A record address that may still be used is the paged slot the token's KV
\* is in, although it was computed at a reset some steps ago.
RecordIsSource ==
    \A l \in AsuLayers : UnderWay(l) =>
        \A t \in Tokens : ctx[l].state[t] = AsuOnly =>
            ctx[l].record[t] = Engine!SourceSlot(blockTable[step.req], t)

\* The managed copy of a resident token is that token's KV of the running
\* request, through every change of request and reuse of slots.
ResidentCopyCurrent ==
    \A l \in AsuLayers : UnderWay(l) =>
        \A t \in Resident(ctx[l]) : ctx[l].managed[ctx[l].slotOf[t]] = <<step.req, t>>

\* While a context serves one request, a resident token stays resident in its
\* slot with its copy: a slot handed to attention is not handed out again.
ResidentStays ==
    [][\A l \in AsuLayers : \A t \in Tokens :
          ctx[l].state[t] = HbmResident /\ ctx'[l].reqId = ctx[l].reqId =>
              /\ ctx'[l].state[t] = HbmResident
              /\ ctx'[l].slotOf[t] = ctx[l].slotOf[t]
              /\ ctx'[l].managed[ctx[l].slotOf[t]] = ctx[l].managed[ctx[l].slotOf[t]]]_vars

\* Attention over the managed slots reads exactly what the original attention
\* would have read from the paged cache: the managed path is a refinement of
\* the original one, and leaves the paged cache and the requests alone.
ImplementsPagedDecode == Engine!Spec

\* The reference refuses a token id below zero: a filler takes no slot.
FillerTakesNoSlot ==
    [][\A l \in AsuLayers : UsesAsu /\ pos \in 1..TopK /\ Selection = Pad =>
           ctx'[l].freeCount = ctx[l].freeCount]_vars
=============================================================================
