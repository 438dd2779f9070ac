----------------------------- MODULE PagedDecode -----------------------------
(***************************************************************************)
(* What the serving engine and the original sparse attention do, as far as *)
(* the ASU KV cache of patch 0003 can tell: requests hold block tables of  *)
(* a paged KV cache, a step runs a batch of them, and a step that decodes  *)
(* one request alone runs its layers one by one, each writing the new      *)
(* token's KV, choosing token ids and attending to them.  Attention reads  *)
(* the paged cache through the block table: this is the original path the  *)
(* managed cache has to be indistinguishable from.                         *)
(*                                                                         *)
(* The engine (vLLM) is not in this repository; it is modelled from how    *)
(* the patches use it.  A KV entry is <<request, token>>: recomputing a    *)
(* token yields the same entry, another request's never does.              *)
(***************************************************************************)
EXTENDS Integers, Sequences, FiniteSets, Functions

CONSTANTS Reqs,         \* request ids, never used again once finished
          NumLayers,    \* attention layers, run in order
          NumBlocks,    \* blocks of the paged cache
          BlockSize,
          MaxSeqLen,
          TopK,         \* token ids the indexer selects
          PromptLens,   \* lengths of the prompts that arrive
          Preemptible,  \* requests the scheduler may preempt
          Pad,          \* filler of a selection from fewer than TopK tokens
          Idle,         \* no decode step is under way
          Empty         \* content of a slot never written

\* Assumed where the module is instantiated.
SizesSound ==
    /\ {NumLayers, NumBlocks, BlockSize, MaxSeqLen, TopK} \subseteq Nat \ {0}
    /\ PromptLens \subseteq 1..MaxSeqLen
    /\ Preemptible \subseteq Reqs
    /\ Pad \notin Nat
    /\ Idle \notin [req : Reqs, layer : 1..NumLayers, phase : {"write", "attend"},
                    topk : Seq(0..(MaxSeqLen - 1) \cup {Pad})]

VARIABLES running,      \* requests that hold blocks
          finished,
          len,          \* tokens of a request whose KV has been computed
          blockTable,   \* request -> its blocks
          original,     \* layer -> slot -> KV entry: the paged cache
          step,         \* the decode step of a single request, or Idle
          output        \* what the last attention read

vars == <<running, finished, len, blockTable, original, step, output>>

Layers == 1..NumLayers
Blocks == 0..(NumBlocks - 1)
Addrs  == 0..(NumBlocks * BlockSize - 1)
Tokens == 0..(MaxSeqLen - 1)

\* The slot of token t in a cache paged by the block table bt.
SourceSlot(bt, t) == bt[(t \div BlockSize) + 1] * BlockSize + (t % BlockSize)

BlocksFor(n) == (n + BlockSize - 1) \div BlockSize

FreeBlocks == Blocks \ UNION {Range(blockTable[r]) : r \in Reqs}

\* Extend every block table to hold newLen[r] tokens of its request.
Allocate(newLen) ==
    LET missing == {m \in Reqs \X (1..BlocksFor(MaxSeqLen)) :
                        /\ m[2] > Len(blockTable[m[1]])
                        /\ m[2] <= BlocksFor(newLen[m[1]])}
    IN \E given \in Injection(missing, FreeBlocks) :
          blockTable' =
              [r \in Reqs |->
                  [b \in 1..(IF BlocksFor(newLen[r]) > Len(blockTable[r])
                             THEN BlocksFor(newLen[r]) ELSE Len(blockTable[r])) |->
                      IF b <= Len(blockTable[r]) THEN blockTable[r][b] ELSE given[<<r, b>>]]]

\* The KV of the written tokens, at their slots, in one layer.
Written(cache, written) ==
    [a \in Addrs |->
        IF \E w \in written : SourceSlot(blockTable'[w[1]], w[2]) = a
        THEN CHOOSE w \in written : SourceSlot(blockTable'[w[1]], w[2]) = a
        ELSE cache[a]]

-----------------------------------------------------------------------------
Init ==
    /\ running = {}
    /\ finished = {}
    /\ len = [r \in Reqs |-> 0]
    /\ blockTable = [r \in Reqs |-> << >>]
    /\ original = [l \in Layers |-> [a \in Addrs |-> Empty]]
    /\ step = Idle
    /\ output = Idle

\* Tokens a prefill computes: the prompt, or after a preemption every token
\* so far and the one sampled last.
PrefillLens(r) == IF len[r] = 0 THEN PromptLens ELSE {len[r] + 1} \cap 1..MaxSeqLen

\* A step that is not a decode of one request alone: any prefill, or a decode
\* of several requests.  No layer of it takes the managed path.
Batch(prefills, decodes) ==
    /\ step = Idle
    /\ prefills # {} \/ Cardinality(decodes) > 1
    /\ prefills \cap (running \cup finished) = {}
    /\ decodes \subseteq running
    /\ \A r \in decodes : len[r] < MaxSeqLen
    /\ \E filled \in {f \in [prefills -> 1..MaxSeqLen] : \A r \in prefills : f[r] \in PrefillLens(r)} :
          len' = [r \in Reqs |-> CASE r \in prefills -> filled[r]
                                   [] r \in decodes  -> len[r] + 1
                                   [] OTHER          -> len[r]]
    /\ Allocate([r \in Reqs |-> IF r \in prefills \cup decodes THEN len'[r] ELSE 0])
    /\ LET written == {w \in (prefills \cup decodes) \X Tokens :
                          w[2] < len'[w[1]] /\ (w[1] \in decodes => w[2] = len[w[1]])}
       IN original' = [l \in Layers |-> Written(original[l], written)]
    /\ running' = running \cup prefills
    /\ output' = Idle
    /\ UNCHANGED <<finished, step>>

\* A step that decodes one request alone.
BeginDecode(r) ==
    /\ step = Idle
    /\ r \in running
    /\ len[r] < MaxSeqLen
    /\ len' = [len EXCEPT ![r] = @ + 1]
    /\ Allocate([q \in Reqs |-> IF q = r THEN len'[r] ELSE 0])
    /\ step' = [req |-> r, layer |-> 1, phase |-> "write", topk |-> << >>]
    /\ output' = Idle
    /\ UNCHANGED <<running, finished, original>>

\* Selections of the indexer from n tokens: any ids, filled up when n is small.
Selections(n) ==
    {sel \in [1..TopK -> (0..(n - 1)) \cup {Pad}] :
        \A i \in 1..TopK : (sel[i] = Pad) <=> (i > n)}

\* A layer writes the new token's KV, then its indexer selects.
WriteLayer ==
    /\ step # Idle
    /\ step.phase = "write"
    /\ LET r == step.req
           t == len[r] - 1
       IN /\ original' = [original EXCEPT ![step.layer][SourceSlot(blockTable[r], t)] = <<r, t>>]
          /\ \E sel \in Selections(len[r]) :
                step' = [step EXCEPT !.phase = "attend", !.topk = sel]
    /\ output' = Idle
    /\ UNCHANGED <<running, finished, len, blockTable>>

Attending == step # Idle /\ step.phase = "attend"

\* Attention skips the fillers.
Selected == {i \in 1..TopK : step.topk[i] # Pad}

\* The layer attends to the KV entries kv and the next layer follows.
AttendTo(kv) ==
    /\ Attending
    /\ output' = [layer |-> step.layer, topk |-> step.topk, kv |-> kv]
    /\ step' = IF step.layer = NumLayers
               THEN Idle
               ELSE [step EXCEPT !.layer = @ + 1, !.phase = "write", !.topk = << >>]
    /\ UNCHANGED <<running, finished, len, blockTable, original>>

\* The original path reads the paged cache through the block table.
Attend ==
    /\ Attending
    /\ AttendTo([i \in Selected |->
                    original[step.layer][SourceSlot(blockTable[step.req], step.topk[i])]])

Release(r) ==
    /\ step = Idle
    /\ r \in running
    /\ running' = running \ {r}
    /\ blockTable' = [blockTable EXCEPT ![r] = << >>]
    /\ output' = Idle
    /\ UNCHANGED <<len, original, step>>

Finish(r) == Release(r) /\ finished' = finished \cup {r}

\* A preempted request loses its blocks and is prefilled again later.
Preempt(r) == r \in Preemptible /\ Release(r) /\ UNCHANGED finished

Next ==
    \/ \E prefills, decodes \in SUBSET Reqs : Batch(prefills, decodes)
    \/ \E r \in Reqs : BeginDecode(r) \/ Finish(r) \/ Preempt(r)
    \/ WriteLayer
    \/ Attend

Spec == Init /\ [][Next]_vars
=============================================================================
