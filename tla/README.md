# ASU-Ascend: specifications, model checking and proofs

ASU-Ascend moves the KV cache of long-context decoding out of the accelerator's
memory (HBM) and keeps only the tokens that sparse attention selects. The
repository holds several generations of the data structure that decides which
token is in which HBM slot, a service to keep KV records in while the idea is
being validated, and simulators. This directory specifies them in TLA+, checks
the specifications with TLC on small instances and proves, with TLAPS and for all
sizes, the safety of the HBM index, of the SIMT lookup, of the managed contexts, of
MicroKV, of the simulated cache, of the simulation kernels and of the scripts around
them, and four refinements.

## 1. Inventory

**A. HBM index operators** (`src/ops`, `src/ascend-ops`, the same kernels as
AscendC/AICPU programs and as registered operators).
State, per request: `index` (token to slot), `slotToIndex` (slot to token), a row
of free slots `freeSlots` with `freeHead`, the last answer. *lookup* answers a
batch of queries and gives missing tokens free slots; *maintain* evicts as many
tokens as lookup took slots, by a circular scan from a hashed start that skips
the slots of the last answer. Cores split the requests among them. The host
launches kernels on a stream and waits.
Hard: three arrays kept consistent by two kernels in separate steps; a pool
without a bound check; a scan without a bound of its own; registers, bitmap and
the tile of an answer, copied out asynchronously, reused between requests of a core.
Correct when: the maps are inverse, no slot leaks or is given twice, the pool
row is never overrun, the slots of the last answer stay valid until the next
lookup, the kernels return.

**B. SIMT lookup** (`src/pta-ops/asu_hbm_index_lookup_simt`, Ascend 950).
State: `token_to_slot`, `slot_to_token`, an LRU order of the slots, a workspace,
and the outputs `slot_ids` and `miss_mask`. One kernel does lookup, allocation
and eviction in barrier-separated phases: classify queries and claim misses with
compare-and-swap, compact the LRU order, allocate misses by rank, rewrite the
order. The caller then loads the tokens of `miss_mask`.
Hard: threads race for repeated tokens, a claim is visible as a sentinel in a
shared table, ranks are prefix sums over thread chunks, payloads arrive after the
maps have changed.
Correct when: the launch is equivalent to one atomic batch LRU lookup (the Python
reference `lookup_lru_reference.py`), each missing token is loaded once, no token
of the batch is evicted, no thread waits for another outside a barrier.

**C. ASU KV cache manager** (`src/patch/0001..0004`, patches to vllm-ascend).
State, per managed layer (`ASULayerKVCacheContext`): token states, record
addresses in the paged cache, slot per token, owner per slot, stack of free
slots, the managed cache itself. A decode step of a single request prepares the
contexts (`_prepare_asu_layer_context`: reset or append), resolves the selected
tokens to managed slots (`asu_kv_resolver` kernel), and attends to those
(`npu_sparse_flash_attention_asu`). Everything else takes the original path.
Hard: addresses computed at a reset and used many steps later, one layer preparing
the contexts of all, requests that alternate, are preempted and resumed, a stack
popped unchecked, fillers used as indexes.
Correct when: attention reads exactly what the original path would have read.

**D. MicroKV** (`src/MicroKV`): a C++ server with a thread per connection and a
mutex around a map, and a blocking Python client over a Unix socket.
Hard: one lock section per item of a batch, disconnects in mid-batch, refusals
that overtake the request, answers too long to send, restarts that lose the data, requests and responses
paired by position alone.
Correct when: calls take effect item by item in order and once, answers belong to
the call they are returned to, every call ends.

**E. Cache simulator** (`src/simu/kv_cache_eviction_sim.py`): one pool of slots for
all requests, an ordered dictionary of residents, a stack of free slots and
counters. A step evicts until a reserve is met (`prepare_free_slots`), then
resolves a query per request (`resolve_query`); misses beyond the reserve are
shortages. Hard: the reserve is shared and not refilled within a step; the order
of last use is spread over steps and requests. Correct when: slots are
partitioned, evictions go by last use, the reserve is met and not exceeded, the
counters agree with the pool.

**F. Simulation kernels** (`src/simu/hbm_lookup_update`). A *lookup* gathers the
states of a request's query keys from its table, tile by tile over the cores,
through an output tile that is copied out asynchronously; an *update* rewrites a
percentage of the queried entries, chosen by a walk `a*t + b mod n` with a
coprime stride. Hard: a buffer reused while its copy may be under way, padding
behind the last tile, a walk that must not visit a position twice.
Correct when: the outputs and tables are those of the sequential reference in
`test_lookup_update.py`.

**G. Scripts around the kernels** (`src/ops/scripts`,
`src/pta-ops/asu_hbm_index_lookup_simt/scripts`,
`src/simu/hbm_lookup_update/scripts`): validation, benchmarks, profiling. They
make inputs, enqueue copies, kernels and events on a stream, wait, compare with a
reference and print times. Hard: everything enqueued is asynchronous; a kernel
consumes the state it is timed on, so states are snapshot, restored, cloned or
preloaded in batches; an output directory may be shared by two runs; an operator
may be missing. Correct when: what is compared is what the reference says, what is
timed is the iterations that the printed figure is divided by, the memory
announced bounds what is held, a manifest describes its own run.

**Not modelled**: operator registration, tiling and bindings other than the ones
that launch F's kernels, build files, and `src/docs`, whose design notes mostly
describe versions that are not in the tree. Of the scripts, argument parsing,
device selection, what `torch_npu.profiler` writes and the tables printed from it.

The components do not call one another: A, B and C are alternative generations of
the token index (A and B for the attention of later versions, C inside vLLM), D
stands in for the remote store. What they share is the caller's discipline, which
each model includes: launch, wait, read the answer, fetch what is missing. G is
that caller for A, B and F; `HbmScripts` composes it with A's kernels, and
`LookupUpdateScripts` with F's.

## 2. Modules

| component | detailed | promised behaviour | refinement | TLC | proofs |
|---|---|---|---|---|---|
| A | `HbmIndex` | `PinnedCache` | `HbmIndexRefinement` | `MCHbmIndex` | `HbmIndexProofs` |
| B | `SimtLookup` | `BatchLru` | `SimtLookupRefinement` | `MCSimtLookup` | `SimtLookupProofs` |
| C | `AsuKvCache` | `PagedDecode` | in `AsuKvCache` | `MCAsuKvCache` | `AsuKvCacheProofs` |
| D | `MicroKv`, `KvStore` | `KvService` | in `MicroKv` | `MCMicroKv` | `MicroKvProofs` |
| E | `SlotSim`, `SlotSimHistory` | | | `MCSlotSim` | `SlotSimProofs` |
| F | `LookupUpdate` | reference in `LookupUpdateScripts` | | `MCLookupUpdate` | `LookupUpdateProofs` |
| G | `HbmScripts`, `SimtScripts`, `LookupUpdateScripts`, all over `NpuStream` | reference in `HbmScripts` | | `MCHbmScripts`, `MCSimtScripts`, `MCLookupUpdate` | `NpuStreamProofs`, `HbmIndexProofs`, `SimtScriptsProofs`, `LookupUpdateProofs` |

Operators whose comment begins with "Mutant" are plausible mistakes in the code,
one for each property, kept beside the definition they replace; no specification
uses them.

**`HbmIndex`.** One action per iteration of a core's scalar loop. A launch fixes
`op`; a core walks its requests `c, c + BlockNum, ...`. Lookup: `LookupLoad` (load
the queries, gather the slots), `LookupHit`, `LookupRepeatedMiss`,
`LookupAllocate` (one query each), `LookupStore` (write the answer and
`freeHead`). Maintain: `MaintainSkip`, `MaintainLoad` (build the bitmap, choose
the start), `MaintainPass`, `MaintainEvict` (one slot each), `MaintainStore`.
The copy of an answer is asynchronous, and the core's next request refills the tile
without waiting for it: what the copy has not read by then arrives as `NotFound`. Nothing
reads the answer before the kernel returns, so `LookupStore` chooses already what
arrives: all of it if the core has no further request, otherwise all but any of
`LostParts`. A maintain that meets such a `NotFound` computes bit 2^32 - 1 of its
bitmap; the core then stops for good (`AfterMarking`), which stands for whatever an
access that far outside the bitmap does.
The hash that chooses the first slot of the scan is abstracted to any slot. The host may launch a
lookup only when the code's callers would: the pool has been refilled, or the
queries are those just answered. `PinnedCache` forgets pools, bitmaps and
cores: a cache from tokens to places, a batch that pins its tokens, admissions
into empty places, single evictions; only the answer to a request that is not its
core's last (`Hurried`) may leave positions out.

**`SimtLookup`.** One action per memory access whose order with another thread's
matters, and one per phase for what only a thread's own chunk is concerned with. The
four map writes of an install (`Install`) are one action too: each install has a token
and a slot of its own, so the writes of different threads are disjoint, no other thread
reads them before the next barrier, and no order of them can be told from another. The barriers
are the phases' common advance. The workspace starts with any contents. The
caller's IO (`LoadMisses`) is external. `BatchLru` is the reference's batch as one
step in which any occurrence of a repeated missing token may lead;
`SimtLookupRefinement` keeps the state at the launch in a history variable and
lets the batch happen when the kernel is seen to end.

**`AsuKvCache` over `PagedDecode`.** `PagedDecode` is both the external engine
(block tables, batches, prefill, decode, preemption; modelled from how the
patches use it) and the specification of the original path: attention reads the
paged cache through the block table. `AsuKvCache` replaces attention in the
managed layers by `Prepare`, `ResolveResident` / `ResolveMissing` for each
selected entry, and `AttendManaged`. A KV entry is a pair of request and token.
What the kernel reads out of bounds is any value that may lie there. Its writes
to negative indexes, outside every table of the context, are dropped.
`managed_prefix_len` is stored and passed on but never read, and is left out.

**`MicroKv` over `KvStore`.** A request travels in parts: header, then one per
key. `ReadHeader`, `Refuse`, `Section` (read a part, one lock section),
`Respond`, `DropResponse` (a payload longer than a response can say: nothing is sent and
the thread ends) and `EndThread` are `HandleClient` and `HandleRequest`; `Connect`,
`Invoke`, `SendPart`, `Receive`, `RaiseError`, `Close` are the client. `Crash`
loses threads and store, `Restart` binds the socket again. The byte layout of
frames and keys is abstracted: the client builds lengths that are always right,
so of the server's rejections only the batch limit can be met; `TooLong` says which
answers of a batch read are too long. A client that has
seen an error is used no more. The sockets' buffers are unbounded here, so that a
server writing while its client still writes never blocks; in the code that write is a
refusal of five bytes. `KvService` has no threads and no messages:
a call is performed item by item and returns its answers, fails, or is lost, with the
store or over an answer too long to return. Detailed model and service share the effect
of each operation on the store (`KvStore`): what a single put or get does is translated,
not checked; what is checked is when it takes effect and whose answer it is.

**`SlotSim`.** One action per iteration of the loops of `prepare_free_slots`
(`Evict`) and `resolve_query` (`ResolveHit`, `ResolveInstall`,
`ResolveShortage`), and the loops of `run_simulation` around them. `SlotSimHistory`
adds the time of each token's last use as a history variable, against which the
order of eviction is judged.

**`LookupUpdate`.** One action per tile of the lookup (`FullTile`, `TailTile`, with
the copy out of the previous tile, `CopyOut`, free to finish at any time before the
next barrier) and per entry of the update (`UpdateEntry`). Hash values are
constants, so the walk is checked from several starts. Words are 16 bits wide
here and 32 in the code: the product that chooses the share is taken modulo the
word, and the scripts' sizes stay below it in both.

**`NpuStream`.** A process as a straight list of instructions, a stream the device
works off in order, events stamped when the device reaches them, a clock that
counts pieces of work done.

**`HbmScripts`.** The validation and the benchmark of A: command lines are records
in `Commands`; `ValidateScript` and `BenchScript` unroll the code's loops into
instructions; `ResolveMaintain` is the search for the operator; a Python wrapper of it
either updates the tensors in place or returns four, which are then copied back behind
its kernel (`CopyBack`) and timed with it, or returns something else (`WrapperMiscounts`).
Whether such a wrapper works on the tensors or on others, nothing reads them between kernel
and copy, so the results are taken to be in place. The kernels on the
stream are `HbmIndex`'s own actions, on two cores that interleave.
`ExpectedLookup` and `ExpectedMaintain` translate the sequential reference of
`asu_hbm_index_common.py`, which `Check` compares the device's tensors with.

**`SimtScripts`.** The scripts of B. What the lookup computes is `SimtLookup`'s
concern; here a launch consumes the state of one case id, and the model follows
which states exist, which launches are between the events, what is held in memory,
and two profiler runs (`LookAtRoot`, `MakeDir`, `Capture`, `Analyse`,
`DiscoverRawProfile`, `CopyParsedResults`, `WriteManifest`) given one directory,
either of which may die anywhere.

**`LookupUpdateScripts`.** The pybind functions (which kernels a call puts on the
stream) and the four scripts of F, with the reference of the test.

## 3. Runs

| run | bounds | what it shows |
|---|---|---|
| `hbm_one` | 1 request, 5 tokens, 4 slots, 2 free, 2 queries | everything of one request: maps, pool, answers, refinement, return of the scan |
| `hbm_scripts` | 3 requests, 2 cores, 20 tokens, 16 slots, 8 free, 8 queries, two starts of the scan; an overtaken answer loses nothing or one position | kernels on interleaving cores leave the reference's state but for what an overtaken answer lacks; the benchmark times its iterations; each script ends as its operators allow |
| `simt_repeat` | 2 threads, 5 tokens, 3 slots, chosen batches of 3 | any sequence of launches: repeated tokens, padding, chunks of unequal width, several misses of a thread, ranks across threads |
| `simt_scripts` | 2 processes, counts 2 and 3, warmups 0 and 2, batches of every size | each launch meets a fresh state, what is measured, memory, manifests |
| `lookup_update` | 2 requests, 16 keys, tiles of 4, 0 to 8 queries, 1 to 4 cores, percentages from 0 to 100 | where no core has a tail behind another tile: outputs and tables agree with the test's reference; times and counts agree |
| `lookup_tail` | 6 queries, 3 cores | a violation, section 6 |
| `asu_serve` | 2 requests, 2 layers (one managed), 3 blocks of 2, 4 tokens, top 2, a slot per token | the managed path reads what the original path reads, without preemption |
| `asu_preempt` | 2 managed layers, 2 blocks of 2, top 1, preemption | tables exact and contexts owned whichever layer prepared them |
| `asu_resume`, `asu_filler` | | violations, section 6 |
| `microkv_serve` | 2 connections, 2 keys, batches of 2 and of 3 over a limit of 2, crash | pairing, refinement of the service, every call ends |
| `sim_lru` | 2 requests of 3 tokens, 4 slots, a reserve of 2, 3 steps of 2 queries each | partition, reserve, counters, order of eviction |

Why the bounds are enough. *A*: there are more tokens than slots and the batch
equals the pool, so an off-by-one in pool, bitmap or scan overruns or starves
something at once; two slots can be pinned and two evicted. Requests are
independent but for the cores, so a single request gets any sequence of launches
and three requests on two cores (core 0 handles two) the scripts' sequences. That an
overtaken answer loses one position of eight is enough in `hbm_scripts`, where one missing
slot is what a comparison meets; no script gives maintain the device's answer. What any
loss means for any sequence of launches of any requests, a maintain on such an answer
included, is in the theorems of section 5, which assume nothing of `LostParts` but that
they are positions.
*B*: three slots suffice for a batch that hits one and evicts the others, or
misses all or the same token twice; three positions give a thread two of them.
*C*: with four
tokens in blocks of two a request crosses a block boundary while decoding, three
blocks make two requests compete, and a selection of two takes residents and
missing ones at once. Requests are symmetric and permuting them is sound for the
invariants and action properties checked with symmetry. *D*: two items are
enough for another connection's operation to fall between; one type stands for
all, since operations never name two. *E*: the second step
evicts what the first installed, the third what was hit or installed after that;
a step has more queries than the reserve. *F*: queries of no, one, one and a half
and two tiles; more cores than tiles and fewer; strides that must be stepped past
a common divisor, for lengths that are prime, even and a power of two. *G*: two
timed iterations show a state consumed by the first; three launches in batches of
two have a short last batch; two runs are what it takes to share a directory. The
command lines name each loop of the scripts at least once. The liveness runs
use no symmetry.

Deadlock is checked except in component C, where all requests may have finished,
in E, where the simulation ends after its steps, and in F and G, where the scripts
end.

## 4. Fairness

A launched kernel keeps running (weak fairness of each core's or thread's steps,
and of the host's synchronisation); nothing obliges the host to launch. The
device runs blocks to completion, so this is what the stream guarantees. After
an answer that lacks slots a maintain need not return (it has none in `hbm_one`, whose
request is its core's last, nor in the scripts). In
`MicroKv` server threads and clients in a call are scheduled by the operating
system; nobody is obliged to connect, to call, to close or to restart a crashed
server. A call still ends after a crash because the socket reports it. In
`HbmScripts` the process and the device keep working (weak fairness of the
script's next step), which is all `ScriptEnds` needs.

## 5. Proofs

`HbmIndexProofs` proves, for every number of requests, cores, tokens, slots, free
slots and queries admitted by `SizeAssumption` (a batch fits in the pool, pool and
batch fit in the slots, slots do not exceed tokens: the constants of the sources
satisfy it):

- `Invariance`: the inductive invariant `IInv`;
- `TypeCorrect`, `MappingStaysBijective`, `PoolIsExact`, `RowInBounds`, `AnswersStand`: the
  five invariants of `hbm_one`;
- `LookupMovesNoResident`: the action property `OnlyMaintainEvicts`.

The state invariants are not inductive. `PoolIsExact` needs the current head: in
the core's register while it is at the request, in `freeHead` otherwise; and
that in turn needs to know which core is at a request. `Control` ties `pc` and
`req` to `op`; the lemmas on `%` (`ModStride`, `ModUnique`, `OneCorePerRequest`)
say that a core only ever meets requests congruent to its number, so no two
share one. `LookupProgress` bounds the head by the position: at most one slot is
consumed per query, so with a batch no larger than the pool `RowInBounds`
follows, and `LookupRequests` says what of the answer is already right at the
requests passed, at hand and to come: a request passed has the slots of its batch, but
for positions it may lack if it is not its core's last (`Followed`). `MaintainProgress`
says that the bitmap protects the slots of the answer, which is whole or the core would
not have come to its scan, whence `AnswersStand`: nothing of the batch is evicted, and
no answer names a wrong slot. There is a lemma for
each action, and `NextIInv` combines them.

The same module proves `ImplementsCache` (`ImplementsPinnedCache`), from the same
`IInv`: with the index as cache and, while a lookup runs, the requests ahead of their
cores as pending, `LookupAllocate` is `Admit`, `LookupStore` is `Answer`,
`MaintainEvict` is `Evict`, launching lookup is `Ask` and everything else stutters.
That storing takes exactly one request off the pending ones is again arithmetic of
`%`; that eviction stops at `FreeCount` empty slots is a count of the pool
(`RoomToEvict`).

And it proves `KernelsMatchReference` (`ResultsMatchReference` of `HbmScripts`): for all
sizes, command lines, numbers of cores and interleavings, and wherever the hash starts
the scans, the tensors are the reference's whenever the validation compares them, but for
positions that the answer to a `Followed` request may lack. With a core for every
request there is no such request, and no comparison fails: `ComparisonsHold`
(`AgreesWithReference`), which states that condition; section 6 shows that it is
needed. `HbmScripts` drives the kernels
without `HbmIndex`'s launch conditions, from made-up states and in one case with a
partly used pool, so this does not rest on `IInv`. The two references are recursive
functions over a bounded domain, whose unfolding is had by a least counterexample
(`Iterates`, from which `LookupRowsAre` and `MaintainRowsAre` say that every state the
reference goes through is well typed and how the next follows). While a kernel runs,
each request is done, and has the reference's last state; or is yet to come, and has
its first; or is at a core, and has the one that belongs to the core's place in the
query or in the scan (`LookupRuns`, `MaintainRuns`). The lookup core compares with the
tile it gathered at the start, the reference with the index as it is: they differ only at
tokens that have been missed before, where the kernel looks again
(`LookupRowNext`). The kernel's scan stops as soon as the pool is full, the
reference in the model after one turn; one turn is enough for every input the
scripts make, the slots that are held and not protected being at least as many as
those taken from the pool (`OneTurnIsEnough`), and a full pool stays as it is
(`FullPoolStays`). Around the kernels, `InScript` says what is on the stream and what has
been loaded or agreed on at each place of a script whose sections are upload, kernel,
synchronize, check (`ScriptShape`). `ValidateInv` puts these together, and was checked
by TLC first; that the benchmark compares nothing is `BenchUncompared`.

`TimesItsIterations` (`MeasuresItsIterations`) is about the benchmark of A, again for all
sizes, command lines, cores, interleavings and hash starts, and however far the host is
ahead of the device: what lies between the events is the `--iters` kernels of each kind the
times are divided by and, where the operator is a wrapper that returns its tensors, the
copy back behind each maintain, and nothing else; every maintain among them refills all the slots
its case has taken from the pools, and with `--reset-each-iter` every lookup
allocates what the reference does. The argument has three parts. The script: `Part` says of a stretch of it which
kernels it times, that the kernels that count are preceded by an upload or a restore of
their own tensors with no other writer between (`Fed`), and, with `Restores`, that what is
restored are the last clones. Loops and their concatenation keep this (`PartRepeats`,
`PartConcat`), so it holds of every option's script (`BenchParts`). The device:
`Tracks` and `DeviceTimes` place it in the script, and `DeviceDone` says which tensors
its place implies. A kernel: `SumConsumed` is what is taken of the pools, the heads in the
cores' registers included; a lookup follows the reference's states from zero to its total, a
maintain brings it from the given total down to zero (`PoolStep`, `Emptied`), and
`evicted` and `allocated` are whole totals of the launches timed and this part of the one
that runs (`Evictions`, `Allocations`). `MeasureInv` puts these together, and was
checked by TLC first.

`SimtLookupProofs` proves, for every number of threads, tokens, slots and queries
(`SimtAssumption`: slots do not exceed tokens, a batch has at most as many queries
as there are slots) and every workload, all that `simt_repeat` checks but its
liveness: `TypeCorrect` (`TypeOK`), `EntryState` (`EntryStateRestored`), `MissIo`
(`MissIoExact`), `RanksInRange` (`VictimInRange`), `BatchKept`
(`BatchNeverEvicted`), from the invariant `IInv` (`Invariant`).

The barriers keep any two threads within one phase of each other (`ThreadInv`), so
what a phase reads is what all threads left in the phases before. A position is
`Looked` once its thread has left it in the lookup loop and `Installed` once the
thread of its chunk has left it in the alloc loop; each part of the invariant says
what holds of a position or slot before and after. A claimed token has exactly one
position that loads it, from the compare and swap to its install (`ClaimInv`);
a looked token that nobody loads is in a flagged slot (`HitInv`). The counts of the
threads before `t` sum up to the members of the set below `t`'s chunk
(`PrefixCounts`, by a least counterexample, since induction is out of reach), hence a
thread's offset plus the rank in its chunk is the rank in the whole (`RankSplit`) and
the two compacted lists part the slots between them, each listed once. Hits and
distinct misses together are no more than the queries (`HitsFit`), so every rank is
among the evictable slots (`Allocating`); equal ranks are equal positions, so no
install takes the slot of another, and what it evicts is no token of the batch
(`Victim`). The new order is a permutation of the two lists (`NewOrder`), which
the next launch relies on.

The refinement, `ImplementsBatch` (`ImplementsBatchLru`), relates the running kernel to
the state at its launch (`HistoryInv`, over the history variable `prior`): missing
tokens had no slot then and the other tokens of the batch still have theirs
(`AskedInv`), a slot no miss was given holds its old token (`KeyInv`), and the old order
is in `lru` until a thread rewrites it and in the two lists from then on (`OrderInv`).
When the host sees the end, the marked positions are leaders (`LeadersMarked`), the
flagged slots are the promised hits (`HitsFlagged`), the `n`-th miss has the slot of
the `n`-th free rank (`SlotsTaken`), and every rank of the new order is the new rank of
one of the old (`OrderAsPromised`). That the step comes to be taken is `KernelReturns`,
which is only model-checked.

`AsuKvCacheProofs` speaks of every number of layers, requests, blocks, tokens and slots, under two conditions that are stated
with the theorems and that the code does not check: `Roomy` (a managed slot for
every token, prompts that leave nothing to fill up in a selection; without it the
kernel resolves fillers or pops an empty stack) and, for all that depends on
addresses, `NoPreemption`.

- `TablesAgree` (`SlotsExact`), `PreparedForRequest` (`ContextOwnsRequest`),
  `ResidentKept` (`ResidentStays`), from the invariant `IInv`;
- `RecordsStayRight` (`RecordIsSource`), from `IInv` and `RecordInv`;
- `CopiesCurrent` (`ResidentCopyCurrent`), `ManagedIsOriginal`
  (`ImplementsPagedDecode`) and `TypeCorrect` (`TypeOK`), from these and `CopyInv`:
  everything the runs check of C.

`SlotsExact` alone is not inductive: that a pop finds a slot follows by counting
(`SlotLeft`: with an empty stack every slot would hold a resident token other than
the selected one, more slots than such tokens), and needs every selection to
consist of tokens, which depends on how long a request is when it decodes alone
(`EngineInv`). That a context is the running request's although another layer
prepared it needs all contexts to agree on request and length (`Together`), and
that nothing beyond the length is classified (`Classified`). For the addresses:
block tables are only extended (`Allocated`), a token keeps its block
(`SameSource`, by the arithmetic of `\div`), and a request that has left is
finished, so that its context is never taken for current. `asu_resume` shows
that the last step fails with preemption.

The refinement needs to know what the paged cache holds (`PagedInv`): no block is
in two places of the tables (`AllocatedBlocks`), so no two tokens of running
requests share a slot (`OwnPlace`), and each token's slot holds its KV in every
layer that the decode step has come to (`Unwritten` names the exceptions). What the
kernel reads for a missing token is then that token's KV whether it follows the
record address or the block table (`SourceIsKV`), the copies stay right
(`CopiesInv`), the entries resolved stay the slots of their tokens while others are
installed (`ResolvedInv`, by `ResidentStays`), and what attention reads is what the
original path reads (`AttendsTheSame`); every other step of the managed path
is a step of the engine or leaves it alone.

`MicroKvProofs` proves `TypeCorrect` (`TypeOK`) and `RepliesPaired`
(`ReplyIsForCall`) for any connections, keys, values, batch limit and requests that
`RequestAssumption` describes. The invariant ties the parts sent, the parts read
and the answers of each connection together, in every state of its thread and of
its client (`SentOfCall`, `ThreadAtCall`, `ReplyOfCall`); disconnects, crashes and
restarts keep it because they end both sides or leave the pair unusable. From it and
`ServedInv` (a client that has left its call has failed it; no thread is at the
sections of a batch that is too large), `ImplementsService` (`ImplementsKvService`):
`Section` is `Perform`, `Receive` is `Return`, errors and `Close` are `Fail`, a thread
that ends or refuses a call whose client has left is `Abandon`, `DropResponse` is
`LoseAnswers`, `Crash` is `LoseAll`
of the calls without a response on its way, and reading and responding are not seen.

`SlotSimProofs` proves `TypeCorrect` (`TypeOK`), `ReserveKept` (`ReserveServes`),
`CountersRight` (`Accounting`) and `OldestEvicted` (`EvictsOldest`) for any configuration with at least as many
tokens per request as a query asks for. The invariant says that every slot is free
or held exactly once (`Placed`, `Distinct`), where in the step the simulation is
(`StepShape`), and what each counter counts (`Counted`). For the order of eviction
the dictionary is sorted by last use and the step's number of tokens resolved lies
above every last use (`OrderInv`): a hit and an installation put their token at the
end with a later use than any other.

`SimtScriptsProofs` proves for `SimtScripts` all that `simt_scripts` checks, for any
processes, any `--rounds` and `--profile-iterations` from 1, any `--warmup` and any
batch size of these, if `None` is not the record of a manifest (`ScriptAssumption`):
`MeetsFreshStates` (`LaunchesMeetFreshStates`), `HoldsWhatItAnnounces`
(`MemoryEstimateHolds`), `MeasuresRounds` (`MeasuresItsRounds`) and `ManifestOfOneRun`
(`ManifestTrue`), from the invariant `Inv` (`Invariance`).

The proof has a static and a dynamic part. A script is a list of instructions
built with `FlattenSeq`, whose unfolding at either end follows from the recursive
function in its definition by a least counterexample (`FlattenUnfolds`); a
benchmark's script is then put together batch by batch, again with a least
batch count at which it would fail (`BatchesGood`), from what `BatchGood` says of one
batch. What comes out is that every script `Suits` its options: a launch runs on a
state uploaded before and not dropped until a synchronize behind it, no case
is launched twice, what is alive at a position is within the announcement, and
what lies between start and end event is the timed launches. The positions of the
profiler's instructions are those of `Layout`.

The dynamic part is in `NpuStreamProofs` as far as it does not depend on the
instructions: the stream is the script's enqueued instructions from some position
`d` on (`Tracks`), what the device has stamped is what lies in the script before `d`
(`DeviceTimes`), what the host's clock has added up is that at the last
synchronize (`HostTimes`, `ClockMeetsHost`). `Follows` adds what has been used, what
is alive and what was captured. `DirectoryInv` holds the runs of one directory
apart: a run that is past the discovery of its raw profile saw exactly one, its
own, and every other run that looked in time has yet to add its own or is bound to
fail, whence at most one run is past it. The invariant was checked by TLC on
the instance of `simt_scripts` first.

`LookupUpdateProofs` proves `KernelsAgree` (`AgreesWithReference`) for F's kernels as
the test runs them: every number of requests, cores and queries, every table, tile
and pair of hashes. Two conditions on the test's command lines are stated with it
(`TestsFit`): no core comes to a partial tile from another tile (`Untailed`; the
code does not ensure it, and `lookup_tail` shows the theorem failing without it), and
`n * percent` fits the kernel's 32-bit word (`FitsWord`). `ScriptAssumption`,
`CommandAssumption` and `NoneAssumption` say what the scripts' constants are.

While a lookup runs, each entry of a tile that its core has left behind has been
written, or the core's last copy is still under way and holds it (`LookupRuns`); the
cores stay at tiles congruent to their number (`Striding`), so a core's next tile is
the next of its residue (`NextOfResidue`) and no two write one tile. A gathered tile
never meets a copy under way: a full tile waits, and `Untailed` leaves no other
(`LookupGathers`). While an update runs, each request's table is the reference's
after as many entries as its core has gone through (`UpdateRuns`); the reference's walk
is a recursive function over a bounded domain, whose unfolding (`StatesUnfold`) is
again had by a least counterexample. That the script puts these pieces in an order in
which they mean what the test compares is `Ordered`: each kernel starts on tables
uploaded behind the last update, and each comparison has a synchronize with
nothing enqueued behind it, so that `Tracks` says that the device has done
all that lies before it (`AgreesAtCheck`). `DeviceInv` relates tables and output to
the place of the device in the script.

`MeasuresWhatItCounts` (`TimesWhatItCounts`) is about F's measuring scripts, for every
number of iterations, requests and cores and every seed: where `n * percent` fits the
kernel's word (`MeasuresFit`), the operations between the events are those the
throughput is computed from. What has been counted (`Times`) is that of the kernels the
device has timed, `Launches` of them by the script, and of the running kernel as far
as its cores have come: the queries of the tiles behind them (`Begun`), or the
positions visited. The update's walk visits `n * percent \div 100` different positions
of each request because its step has no common factor with `n`; the positions of all
requests are then as many as the pairs of request and step (`FS_Bijection`).

Only model-checked: liveness (`KernelReturns` of A's and of B's kernels, `ScriptEnds`,
`CallEnds`), which is out of the proof system's reach.

## 6. Disagreements found

1. `asu_resume` (`RecordIsSource`): a request that is preempted and resumed with
   at least as many tokens, no other request having decoded alone in between,
   is not seen to need a reset and keeps record addresses of its former blocks.
2. `asu_filler` (`FillerTakesNoSlot`): a filler in the selection is resolved like
   a token; the reference refuses it.
3. `lookup_tail` (`AgreesWithReference`): a core that comes from one tile to a
   partial one overwrites the output tile without the barrier that the branch for
   full tiles has, while the copy out may still be under way; the test asserts
   equality for a shape in which this happens.

A fourth is part of the model instead of a run of its own, for the properties of A say
what follows from it: the lookup of A has the same gap between the requests of a core.
The tile is filled with `NOT_FOUND` for the next request
(`asu_hbm_index_lookup_aiv.cpp:87`) while the copy of the last answer (`:128`) may be
under way, and the validation compares `slot_out` (`validate_hbm_index_ops.py:114`). In
`hbm_scripts`, where core 0 has two of three requests, that comparison can fail
(`MayMismatch`, the outcome `ScriptEnds` admits for it; `AgreesWithReference`, given to
TLC as an invariant, is violated). Index, inverse, pool, heads and every other answer do not suffer
(`ResultsMatchReference`), but a maintain given such an answer marks a bit outside its
bitmap (`AfterMarking`).

`asu_serve` therefore states its bounds as assumptions: no preemption, a slot per
token, prompts no shorter than the selection. `lookup_update` leaves out command
lines in which a core has a tail behind another tile. The checks of A leave nothing out:
the properties say what an answer may lack, and when.

Noted while reading, and modelled as the code has it: with fewer managed slots
than tokens the resolver pops from an empty stack, where the design raises an
error; which occurrence of a repeated missing token the SIMT kernel marks for
loading is decided by a race, which `BatchLru` allows and the Python reference, with
its fixed order, does not.

## 7. What remains

Of the properties the runs check, the safety invariants, the action properties and the
safety parts of the refinements are proved; liveness stays with TLC. What the model
itself leaves out is listed next.

## 8. Not covered

Hazards without a property are listed with their reasons in `PROJECT.json`: false
sharing of `freeHead` cache lines, and a client interrupted inside a call. Numerics
and data movement inside the attention kernel are abstracted to which slot is read
for each selected token. Of the scripts: the profiler's own output and the rows
printed from it (and, with them, profile files of an earlier run that
`profile_lookup_memory.py:322` may find in its directory), shape checks of
the bindings, which the scripts' tensors pass. Registration, tiling and bindings
of A and B are declarations; the core count they choose is a constant.
