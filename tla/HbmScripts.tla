----------------------------- MODULE HbmScripts -----------------------------
(***************************************************************************)
(* validate_hbm_index_ops.py and bench_hbm_index_ops.py over the HBM index  *)
(* kernels: the inputs they make, the sequential reference they compare     *)
(* with, how the maintain operator is found, and the stream of copies,      *)
(* kernels and events. The kernels are HbmIndex's, step by step on their    *)
(* cores; what the host does is here.                                       *)
(***************************************************************************)
EXTENDS HbmIndex, NpuStream

CONSTANTS
  MissBase,    \* the first token of a miss query (20_000)
  MissStride,  \* how far the next request's lie (3_000)
  EvictSlots,  \* values of evict_slots_from_ratio(--evict-ratio)
  HashStarts,  \* values of hash32(seed ^ req_id) % SLOT_COUNT
  Warmup,      \* --warmup
  Iters,       \* --iters
  Commands,    \* command lines, each with the runner its environment gives
  None

ASSUME ScriptAssumption ==
  /\ MissBase \in Nat /\ MissStride \in Nat
  /\ EvictSlots \subseteq 0 .. FreeCount
  /\ HashStarts \subseteq Slots
  /\ Warmup \in Nat /\ Iters \in Nat \ {0}

VARIABLES
  opt,        \* the command line, and what the environment offers
  session,    \* the process and its stream
  status,     \* "running", "passed", "skipped", "mismatch" or "raised"
  given,      \* the inputs of either kernel
  expected,   \* what the reference makes of them
  starts,     \* starts[r]: where a maintain kernel starts its scan
  snapshot,   \* the clones restore_tensors copies back
  allocated,  \* free slots taken while the device is timed
  evicted     \* slots refilled while the device is timed

scriptVars == <<opt, session, status, given, expected, starts, snapshot, allocated, evicted>>

-----------------------------------------------------------------------------
(* Inputs.                                                                  *)

MissQuery(r) == [i \in Positions |-> (MissBase + r * MissStride + i) % IndexSize]

HitQuery == [i \in Positions |-> i % Residents]

\* make_query; in a mixed query two misses occur twice.
Query(pattern, r) ==
  LET half == QueryCount \div 2
      From(i) == IF i \in {half + 1, half + 3} THEN i - 1 ELSE i
  IN CASE pattern = "hit"   -> HitQuery
       [] pattern = "miss"  -> MissQuery(r)
       [] pattern = "mixed" -> [i \in Positions |->
            IF i < half THEN HitQuery[i] ELSE MissQuery(r)[From(i) - half]]

\* make_maintain_case: n slots of the pool are taken, by the last n queries.
MaintainCase(n) ==
  LET missed == MissBase .. MissBase + n - 1
      hits   == QueryCount - n
  IN [index |-> [r \in Reqs |-> [t \in Tokens |->
                  CASE t < Residents -> t
                    [] t \in missed  -> Residents + (t - MissBase)
                    [] OTHER         -> NotFound]],
      slotToIndex |-> [r \in Reqs |-> [s \in Slots |->
                  CASE s < Residents     -> s
                    [] s < Residents + n /\ s >= Residents
                                         -> MissBase + (s - Residents)
                    [] OTHER             -> NotFound]],
      freeSlots |-> [r \in Reqs |-> [k \in FreeRow |-> Residents + k]],
      freeHead  |-> [r \in Reqs |-> n],
      last      |-> [r \in Reqs |-> [i \in Positions |->
                      IF i < hits THEN i ELSE Residents + (i - hits)]]]

\* make_index_case: none is taken, and there is a query instead of its answer.
IndexCase(pattern) ==
  LET full == MaintainCase(0)
  IN [index |-> full.index, slotToIndex |-> full.slotToIndex,
      freeSlots |-> full.freeSlots, freeHead |-> full.freeHead,
      query |-> [r \in Reqs |-> Query(pattern, r)]]

-----------------------------------------------------------------------------
(* The sequential reference.                                                *)

\* One query position of expected_lookup_allocate.
ExpectAt(c, r, s, i) ==
  LET token == c.query[r][i]
      miss  == s.index[token] = NotFound
      slot  == IF miss THEN c.freeSlots[r][s.head] ELSE s.index[token]
  IN [index |-> [s.index EXCEPT ![token] = slot],
      slotToIndex |-> IF miss THEN [s.slotToIndex EXCEPT ![slot] = token]
                              ELSE s.slotToIndex,
      head |-> IF miss THEN s.head + 1 ELSE s.head,
      out |-> [s.out EXCEPT ![i] = slot]]

\* Its state after the first n positions of request r's query.
LookupRows(c, r) ==
  LET after[n \in 0 .. QueryCount] ==
        IF n = 0
        THEN [index |-> c.index[r], slotToIndex |-> c.slotToIndex[r],
              head |-> c.freeHead[r], out |-> [i \in Positions |-> NotFound]]
        ELSE ExpectAt(c, r, after[n - 1], n - 1)
  IN after

\* expected_lookup_allocate, as the input of maintain.
ExpectedLookup(c) ==
  LET row == [r \in Reqs |-> LookupRows(c, r)[QueryCount]]
  IN [index       |-> [r \in Reqs |-> row[r].index],
      slotToIndex |-> [r \in Reqs |-> row[r].slotToIndex],
      freeSlots   |-> c.freeSlots,
      freeHead    |-> [r \in Reqs |-> row[r].head],
      last        |-> [r \in Reqs |-> row[r].out]]

\* One slot of expected_maintain's scan.
ExpectScan(c, r, s, slot) ==
  IF s.head > 0 /\ s.slotToIndex[slot] # NotFound
       /\ \A i \in Positions : c.last[r][i] # slot
  THEN [slotToIndex |-> [s.slotToIndex EXCEPT ![slot] = NotFound],
        index |-> [s.index EXCEPT ![s.slotToIndex[slot]] = NotFound],
        head |-> s.head - 1,
        freeSlots |-> [s.freeSlots EXCEPT ![s.head - 1] = slot]]
  ELSE s

\* Its state after n slots of request r, from the one the hash gives on.
MaintainRows(c, start, r) ==
  LET after[n \in 0 .. SlotCount] ==
        IF n = 0
        THEN [index |-> c.index[r], slotToIndex |-> c.slotToIndex[r],
              freeSlots |-> c.freeSlots[r], head |-> c.freeHead[r]]
        ELSE ExpectScan(c, r, after[n - 1], (start[r] + (n - 1)) % SlotCount)
  IN after

\* expected_maintain; one turn around the slots frees enough of them.
ExpectedMaintain(c, start) ==
  LET row == [r \in Reqs |-> MaintainRows(c, start, r)[SlotCount]]
  IN [index       |-> [r \in Reqs |-> row[r].index],
      slotToIndex |-> [r \in Reqs |-> row[r].slotToIndex],
      freeSlots   |-> [r \in Reqs |-> row[r].freeSlots],
      freeHead    |-> [r \in Reqs |-> row[r].head],
      last        |-> c.last]

Patterns == {"hit", "miss", "mixed"}

\* What the maintain kernel is given: validate_maintain,
\* make_maintain_benchmark_tensors. The benchmark has a pattern of its own.
MaintainInput(o) ==
  IF o.evict # None THEN MaintainCase(o.evict)
  ELSE ExpectedLookup(IndexCase(IF o.tool = "bench" THEN "mixed" ELSE o.pattern))

-----------------------------------------------------------------------------
(* Where the maintain operator comes from.                                  *)

Environments ==
  [plugin : {"unasked", "loads", "missing"}, library : {"found", "none", "missing"},
   call : {"unasked", "resolves", "missing"}, op : {"unasked", "resolves", "missing"},
   candidate : BOOLEAN]

\* resolve_maintain_callable, in its order of preference.
Resolve(e) ==
  CASE e.plugin = "missing" \/ e.library = "missing" -> "error"
    [] e.library = "found" -> "direct"
    [] e.call # "unasked"  -> IF e.call = "resolves" THEN "python" ELSE "error"
    [] e.op # "unasked"    -> IF e.op = "resolves" THEN "python" ELSE "error"
    [] OTHER               -> IF e.candidate THEN "python" ELSE "none"

Runners == {Resolve(e) : e \in Environments}

-----------------------------------------------------------------------------
(* The scripts.                                                             *)

Lookup   == Instr("lookup", 0)
Maintain == Instr("maintain", 0)
CopyBack == Instr("return", 0)   \* copy_ of the four tensors a wrapper returned
Upload(what)   == Instr("upload", what)
Snapshot(what) == Instr("snapshot", what)
Restore(what)  == Instr("restore", what)

\* The operator is a Python wrapper that returns its tensors, rather than
\* updating them in place and returning None.
Returns(o) == o.runner = "python" /\ o.returns

\* call_maintain
MaintainCall(o) == IF Returns(o) THEN <<Maintain, CopyBack>> ELSE <<Maintain>>

For(o, kernel, steps) == IF o.target \in {kernel, "both"} THEN steps ELSE << >>

ValidateScript(o) ==
  For(o, "lookup",
      <<Upload("lookup"), Lookup, Synchronize, Instr("check", "lookup")>>)
  \o For(o, "maintain",
      <<Instr("resolve", 0), Upload("maintain")>> \o MaintainCall(o)
        \o <<Synchronize, Instr("check", "maintain")>>)

\* Mutant: the state is restored once, before the timed loop.
TimeIterationsOnceRestored(what, call) ==
  Repeat(Warmup, LAMBDA i : <<Restore(what), Synchronize>> \o call)
  \o <<Synchronize, Restore(what), Synchronize>>
  \o Repeat(Iters, LAMBDA i : <<StartEvent>> \o call \o <<StopEvent, Synchronize>>)

\* time_npu_iterations with a restore_once, and without; call is run_once.
TimeIterationsRestored(what, call) ==
  Repeat(Warmup, LAMBDA i : <<Restore(what), Synchronize>> \o call)
  \o <<Synchronize>>
  \o Repeat(Iters, LAMBDA i : <<Restore(what), Synchronize, StartEvent>> \o call
                              \o <<StopEvent, Synchronize>>)

TimeIterations(kernel) ==
  Repeat(Warmup, LAMBDA i : <<kernel>>)
  \o <<Synchronize, StartEvent>> \o Repeat(Iters, LAMBDA i : <<kernel>>)
  \o <<StopEvent, Synchronize>>

BenchLookup(o) ==
  <<Upload("lookup"), Snapshot("lookup")>>
  \o (IF o.reset THEN TimeIterationsRestored("lookup", <<Lookup>>)
                 ELSE TimeIterations(Lookup))

BenchMaintain(o) ==
  <<Upload("maintain"), Snapshot("maintain")>>
  \o TimeIterationsRestored("maintain", MaintainCall(o))

\* bench_maintain_chained: fresh tensors for every call.
BenchMaintainChained(o) ==
  Repeat(Warmup, LAMBDA i : <<Upload("maintain")>> \o MaintainCall(o) \o <<Synchronize>>)
  \o <<Upload("maintain"), Synchronize, StartEvent>> \o MaintainCall(o)
  \o <<StopEvent, Synchronize>>

BenchScript(o) ==
  For(o, "maintain", <<Instr("resolve", 0)>>)
  \o For(o, "lookup", BenchLookup(o))
  \o For(o, "maintain", IF o.chained THEN BenchMaintainChained(o) ELSE BenchMaintain(o))

Script == IF opt.tool = "bench" THEN BenchScript(opt) ELSE ValidateScript(opt)

Options ==
  [tool : {"validate", "bench"}, target : {"lookup", "maintain", "both"},
   pattern : Patterns, evict : EvictSlots \cup {None},
   runner : Runners, returns : BOOLEAN, strict : BOOLEAN, reset : BOOLEAN,
   chained : BOOLEAN]

ScanStarts == [Reqs -> HashStarts]

ASSUME CommandAssumption == Commands \subseteq Options

(***************************************************************************)
(* The inputs and the expected results are functions of the options and the *)
(* seed. The validation has one seed, the benchmark one per iteration.      *)
(***************************************************************************)
ScriptInit ==
  /\ Init
  /\ opt \in Commands
  /\ session = NewSession
  /\ status = "running"
  /\ starts \in IF opt.tool = "validate" THEN ScanStarts ELSE {[r \in Reqs |-> 0]}
  /\ given = [lookup |-> IndexCase(opt.pattern), maintain |-> MaintainInput(opt)]
  /\ expected = [lookup   |-> ExpectedLookup(given.lookup),
                 maintain |-> ExpectedMaintain(given.maintain, starts)]
  /\ snapshot = None
  /\ allocated = 0
  /\ evicted = 0

-----------------------------------------------------------------------------
(* The host.                                                                *)

Doing(what) == status = "running" /\ At(session, Script, {what})

On == Current(session, Script).on

\* The script goes on with s, or ends there.
Proceed(s) ==
  /\ session' = s
  /\ status' = IF s.at = Len(Script) THEN "passed" ELSE status

End(result) == status' = result /\ UNCHANGED session

UnchangedBelow ==
  UNCHANGED <<vars, opt, given, expected, starts, snapshot, allocated, evicted>>

Enqueue ==
  /\ \E what \in {"upload", "snapshot", "restore", "lookup", "maintain", "return",
                  "start", "stop"} : Doing(what)
  /\ Proceed(Enqueued(session, Script))
  /\ UnchangedBelow

Wait ==
  /\ Doing("sync")
  /\ Drained(session)
  /\ Proceed(Passed(session))
  /\ UnchangedBelow

\* Mutant: a maintain operator that is not there is skipped, asked for or not.
NoRunnerSkipped == "skipped"

NoRunner == IF opt.tool = "bench" \/ opt.strict THEN "raised" ELSE "skipped"

ResolveMaintain ==
  /\ Doing("resolve")
  /\ CASE opt.runner = "error" -> End("raised")
       [] opt.runner = "none"  -> End(NoRunner)
       [] OTHER                -> Proceed(Passed(session))
  /\ UnchangedBelow

\* A wrapper has returned something else than four tensors.
WrapperMiscounts ==
  /\ Doing("return")
  /\ End("raised")
  /\ UnchangedBelow

\* The tensors are those the reference computes from the same input.
Agrees(kernel) ==
  LET e == expected[kernel]
  IN /\ <<index, slotToIndex, freeHead>> = <<e.index, e.slotToIndex, e.freeHead>>
     /\ IF kernel = "lookup" THEN slotOut = e.last ELSE freeSlots = e.freeSlots

Check ==
  /\ Doing("check")
  /\ IF Agrees(On) THEN Proceed(Passed(session)) ELSE End("mismatch")
  /\ UnchangedBelow

-----------------------------------------------------------------------------
(* The device: the stream, in order; a kernel runs to its end.              *)

UnchangedHost == UNCHANGED <<opt, status, given, expected>>

\* The tensors a kernel works on come from the host, or from their clones.
SetTensors(c) ==
  /\ index' = c.index
  /\ slotToIndex' = c.slotToIndex
  /\ freeSlots' = c.freeSlots
  /\ freeHead' = c.freeHead
  /\ query' = IF "query" \in DOMAIN c THEN c.query ELSE query
  /\ slotOut' = IF "last" \in DOMAIN c THEN c.last ELSE slotOut

\* snapshot_tensors: of the lookup's tensors all but slot_out.
Clones(what) ==
  IF what = "lookup"
  THEN [index |-> index, slotToIndex |-> slotToIndex, freeSlots |-> freeSlots,
        freeHead |-> freeHead, query |-> query]
  ELSE [index |-> index, slotToIndex |-> slotToIndex, freeSlots |-> freeSlots,
        freeHead |-> freeHead, last |-> slotOut]

Copy ==
  LET what == Head(session.stream).on
  IN /\ \/ DeviceAt(session, {"upload"})  /\ SetTensors(given[what])
        \/ DeviceAt(session, {"restore"}) /\ SetTensors(snapshot)
     /\ session' = WorkDone(session)
     /\ UnchangedHost
     /\ UNCHANGED <<op, answered, req, pc, registers, starts, snapshot, allocated,
                    evicted>>

TakeSnapshot ==
  /\ DeviceAt(session, {"snapshot"})
  /\ snapshot' = Clones(Head(session.stream).on)
  /\ session' = WorkDone(session)
  /\ UnchangedHost
  /\ UNCHANGED <<vars, starts, allocated, evicted>>

Stamp ==
  /\ DeviceAt(session, {"start", "stop"})
  /\ session' = EventStamped(session)
  /\ UnchangedHost
  /\ UNCHANGED <<vars, starts, snapshot, allocated, evicted>>

\* The four copies of call_maintain_python. Whether the wrapper worked on the
\* tensors or on others, this is what leaves its results in them; nothing reads
\* them between its kernel and here, so they are there already.
CopyReturned ==
  /\ DeviceAt(session, {"return"})
  /\ session' = WorkDone(session)
  /\ UnchangedHost
  /\ UNCHANGED <<vars, starts, snapshot, allocated, evicted>>

StartKernel ==
  /\ DeviceAt(session, {"lookup", "maintain"})
  /\ Launch(Head(session.stream).do)
  /\ starts' \in IF op' = "maintain" /\ opt.tool = "bench" THEN ScanStarts ELSE {starts}
  /\ UnchangedHost
  /\ UNCHANGED <<memory, answered, session, snapshot, allocated, evicted>>

WhileTiming(n) == IF session.timing THEN n ELSE 0

KernelStep ==
  /\ \E c \in Cores :
       \/ /\ LookupStep(c)
          /\ allocated' = allocated
               + WhileTiming(IF pc[c] = "alloc" THEN head'[c] - head[c] ELSE 0)
          /\ UNCHANGED evicted
       \/ /\ MaintainStep(c)
          /\ (pc[c] = "load" /\ pc'[c] = "scan" => pos'[c] = starts[req[c]])
          /\ evicted' = evicted
               + WhileTiming(IF pc[c] = "scan" THEN head[c] - head'[c] ELSE 0)
          /\ UNCHANGED allocated
  /\ UnchangedHost
  /\ UNCHANGED <<session, starts, snapshot>>

KernelDone ==
  /\ HostSync
  /\ session' = WorkDone(session)
  /\ UnchangedHost
  /\ UNCHANGED <<starts, snapshot, allocated, evicted>>

Host == Enqueue \/ Wait \/ ResolveMaintain \/ WrapperMiscounts \/ Check
Device ==
  Copy \/ TakeSnapshot \/ CopyReturned \/ Stamp \/ StartKernel \/ KernelStep \/ KernelDone

ScriptNext == Host \/ Device

(***************************************************************************)
(* The machine does not stop while the script, the stream or a core has a   *)
(* next step. None of the three can keep the others from theirs for ever, so *)
(* nothing is assumed of each.                                              *)
(***************************************************************************)
ScriptSpec ==
  /\ ScriptInit
  /\ [][ScriptNext]_<<vars, scriptVars>>
  /\ WF_<<vars, scriptVars>>(ScriptNext)

-----------------------------------------------------------------------------
(* Properties.                                                              *)

(* No comparison of the validation ever fails                               *)
(* (validate_hbm_index_ops.py:114-117, 184-187).                            *)
AgreesWithReference == status # "mismatch"

\* The tensors are the reference's, but for what an answer may lack.
Matches(kernel) ==
  LET e == expected[kernel]
  IN /\ <<index, slotToIndex, freeHead>> = <<e.index, e.slotToIndex, e.freeHead>>
     /\ kernel = "maintain" => freeSlots = e.freeSlots
     /\ kernel = "lookup" => \A r \in Reqs, i \in Positions :
          slotOut[r][i] # e.last[r][i] => Followed(r) /\ slotOut[r][i] = NotFound

(* On any number of cores, in any interleaving, from wherever the hash      *)
(* starts the scans, the kernels leave exactly what the sequential          *)
(* reference computes, to the slot number. Only the answer to a request     *)
(* that its core went on from may lack positions: it has no other slots in  *)
(* their place, and the index, its inverse, the pool and the heads have not *)
(* suffered (asu_hbm_index_lookup_aiv.cpp:79-129).                          *)
ResultsMatchReference == Doing("check") /\ Drained(session) => Matches(On)

\* The sum of f over the requests.
Sum(f) ==
  LET upto[n \in 0 .. ReqNum] == IF n = 0 THEN 0 ELSE upto[n - 1] + f[n - 1]
  IN upto[ReqNum]

WorkTimed ==
  LET lookups   == IF opt.target = "maintain" THEN 0 ELSE Iters
      maintains == IF opt.target = "lookup" THEN 0 ELSE IF opt.chained THEN 1 ELSE Iters
  IN [lookup |-> lookups, maintain |-> maintains,
      copies |-> IF Returns(opt) THEN maintains ELSE 0]

(* What the benchmark divides by is what it timed: the kernels of --iters    *)
(* iterations and nothing else, but for a wrapper that returns its tensors:  *)
(* then one copy back for each maintain is timed too. Each maintain timed    *)
(* refilled the slots the throughput counts; with --reset-each-iter each     *)
(* lookup allocated all the misses of its pattern                            *)
(* (bench_hbm_index_ops.py:138, 158, 217; asu_hbm_index_common.py:466-467).  *)
MeasuresItsIterations ==
  opt.tool = "bench" /\ status = "passed" =>
    /\ session.measured = WorkTimed.lookup + WorkTimed.maintain + WorkTimed.copies
    /\ evicted = WorkTimed.maintain * Sum(given.maintain.freeHead)
    /\ opt.reset => allocated =
         WorkTimed.lookup * Sum(expected.lookup.freeHead)

RunnerFound == opt.runner \in {"direct", "python"}

MayRaise == IF Returns(opt) THEN {"raised"} ELSE {}

\* A core that goes on to another request may spoil the answer it leaves.
MayMismatch ==
  IF opt.tool = "validate" /\ opt.target # "maintain" /\ ReqNum > BlockNum
  THEN {"mismatch"} ELSE {}

(* Every script ends: its kernels return, maintain's unbounded scan on the   *)
(* made-up cases included, and it waits for nothing else. It passes if the   *)
(* operators are there and no answer was spoilt; if maintain is not, the     *)
(* validation may skip it, but not where --strict-maintain said it must      *)
(* fail, and there is no benchmark of it (validate_hbm_index_ops.py:161-170).*)
ScriptEnds ==
  <>(status \in MayMismatch \cup
       CASE RunnerFound -> {"passed"} \cup MayRaise
         [] ~ RunnerFound /\ (opt.strict \/ opt.tool = "bench") -> {"raised"}
         [] OTHER -> {"raised", "skipped"})
=============================================================================
