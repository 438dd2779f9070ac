------------------------- MODULE LookupUpdateScripts -------------------------
(***************************************************************************)
(* Calls of the lookup and update operators: the pybind functions, which    *)
(* put kernels on the stream, and the scripts test_lookup_update.py,        *)
(* bench_lookup_update.py, profile_lookup_update.py and                     *)
(* profile_lookup_memory.py, which make the inputs, call, wait, compare and *)
(* time.                                                                    *)
(***************************************************************************)
EXTENDS LookupUpdate, NpuStream

CONSTANTS
  Stride,    \* 17 between the keys of a query
  Offset,    \* 257 between those of two requests
  Hashes,    \* values of the pair of hashes of a seed and a request
  Draws,     \* what rng.integers() may draw for a position, one key per request
  KvBlock,   \* --kv-block-size
  Hotsets,   \* --hotset-size, a sequence
  Warmup, Iters,
  Commands   \* command lines

ASSUME ScriptAssumption ==
  /\ Stride \in Nat /\ Offset \in Nat
  /\ Hashes \subseteq [a : Nat, b : Nat]
  /\ KvBlock \in Nat \ {0} /\ Hotsets \in Seq(Nat)
  /\ Warmup \in Nat /\ Iters \in Nat \ {0}

\* What the scripts take for an argument.
ASSUME CommandAssumption ==
  \A o \in Commands :
    /\ o.n \in Nat /\ o.percent \in 0 .. 100 /\ o.dim \in Int
    /\ \/ o.tool = "test"
       \/ o.tool = "bench" /\ o.mode \in {"lookup", "update", "both"}
       \/ o.tool = "profile" /\ o.modes \in Seq({"lookup", "update"})
       \/ o.tool = "memory" /\ o.patterns \in Seq(STRING)

VARIABLES
  opt,      \* the command line
  session,  \* the process and its stream
  status,   \* "running", "passed", "mismatch" or "raised"
  visited,  \* positions the kernel has updated, with their requests
  timed     \* keys looked up and positions updated while the device is timed

scriptVars == <<opt, session, status, visited, timed>>
vars == <<kernelVars, scriptVars>>

-----------------------------------------------------------------------------
(* Inputs.                                                                  *)

OldState(r, k) == r * IndexSize + k

NewState(r, i) == (ReqNum + r) * IndexSize + i

OldTable == [r \in Reqs |-> [k \in 0 .. IndexSize - 1 |-> OldState(r, k)]]

FreshStates(n) == [r \in Reqs |-> [i \in 0 .. n - 1 |-> NewState(r, i)]]

\* make_query_cpu, without its seed; the other scripts' query is "stride".
Key(pattern, size, draw, r, i) ==
  CASE pattern = "fixed"      -> (r * Offset) % IndexSize
    [] pattern = "sequential" -> (i + r * Offset) % IndexSize
    [] pattern = "stride"     -> (i * Stride + r * Offset) % IndexSize
    [] pattern = "block"      -> (i * Stride + r * Offset)
                                   % Max({1, IndexSize \div KvBlock})
    [] pattern = "hotset"     -> draw[r] % Min({Max({1, size}), IndexSize})
    [] pattern = "random"     -> draw[r] % IndexSize

Patterns == {"fixed", "sequential", "stride", "block", "hotset", "random"}

Query(n, pattern, size, draw) ==
  [r \in Reqs |-> [i \in 0 .. n - 1 |-> Key(pattern, size, draw[i], r, i)]]

-----------------------------------------------------------------------------
(* The reference of the test.                                               *)

ExpectedOut(q) == [r \in Reqs |-> [i \in DOMAIN q[r] |-> OldTable[r][q[r][i]]]]

\* The states of a request after t entries.
StatesAfter(q, r, n, num) ==
  LET states[t \in 0 .. num] ==
        IF t = 0 THEN OldTable[r]
        ELSE LET pos == Position(r, t - 1, n)
             IN [states[t - 1] EXCEPT ![q[r][pos]] = NewState(r, pos)]
  IN states

ExpectedStates(q, n, percent) ==
  LET num == (n * percent) \div 100
  IN [r \in Reqs |-> StatesAfter(q, r, n, num)[num]]

-----------------------------------------------------------------------------
(* The operators: what each puts on the stream.                             *)

LookupKernel == Instr("lookup", 0)
UpdateKernel == Instr("update", 0)

UpdateOnly(o) == IF o.n = 0 \/ o.percent = 0 THEN << >> ELSE <<UpdateKernel>>

LookupOnly(o) == IF o.n = 0 THEN << >> ELSE <<LookupKernel>>

\* Mutant: the update is launched first.
LookupRandomUpdateSwapped(o) == UpdateOnly(o) \o LookupOnly(o)

LookupRandomUpdate(o) == LookupOnly(o) \o UpdateOnly(o)

\* call_op
Call(o, mode) ==
  CASE mode = "lookup" -> LookupOnly(o)
    [] mode = "update" -> UpdateOnly(o)
    [] mode = "both"   -> LookupRandomUpdate(o)

-----------------------------------------------------------------------------
(* The scripts.                                                             *)

Tables == Instr("tables", 0)
QueryOf(pattern, size) == Instr("query", [pattern |-> pattern, size |-> size])
Inputs == <<Tables, QueryOf("stride", 0)>>
CheckOut    == Instr("check", "out")
CheckStates == Instr("check", "states")

TestScript(o) ==
  Inputs \o LookupRandomUpdate(o) \o <<Synchronize, CheckOut, CheckStates>>
  \o <<Tables>> \o LookupOnly(o) \o <<Synchronize, CheckOut>>
  \o <<Tables>> \o UpdateOnly(o) \o <<Synchronize, CheckStates>>

Warm(calls) == Repeat(Warmup, LAMBDA i : calls) \o <<Synchronize>>

BenchScript(o) ==
  Inputs \o Warm(Call(o, o.mode))
  \o <<StartEvent>> \o Repeat(Iters, LAMBDA i : Call(o, o.mode))
  \o <<StopEvent, Synchronize>>

TimeLoop(calls) ==
  <<Synchronize, StartEvent, ReadClock>> \o Repeat(Iters, LAMBDA i : calls)
  \o <<StopEvent, Synchronize, AddClock>>

\* The modes one after the other, each with inputs of its own.
ProfileMode(o, mode) == Inputs \o Warm(Call(o, mode)) \o TimeLoop(Call(o, mode))

ProfileScript(o) ==
  FlattenSeq([i \in DOMAIN o.modes |-> ProfileMode(o, o.modes[i])])

BenchPattern(o, pattern, size) ==
  <<QueryOf(pattern, size)>> \o Warm(LookupOnly(o)) \o TimeLoop(LookupOnly(o))

Sizes(pattern) == IF pattern = "hotset" THEN Hotsets ELSE <<0>>

MemoryScript(o) ==
  <<Tables, Instr("patterns", ToSet(o.patterns))>>
  \o FlattenSeq([p \in DOMAIN o.patterns |->
       FlattenSeq([s \in DOMAIN Sizes(o.patterns[p]) |->
         BenchPattern(o, o.patterns[p], Sizes(o.patterns[p])[s])])])

Script ==
  CASE opt.tool = "test"    -> TestScript(opt)
    [] opt.tool = "bench"   -> BenchScript(opt)
    [] opt.tool = "profile" -> ProfileScript(opt)
    [] opt.tool = "memory"  -> MemoryScript(opt)

Init ==
  /\ KernelInit
  /\ opt \in Commands
  /\ session = NewSession
  /\ status = "running"
  /\ walks \in [Reqs -> Hashes]
  /\ table = OldTable
  /\ query = Query(opt.n, "stride", 0, [i \in 0 .. opt.n - 1 |-> [r \in Reqs |-> 0]])
  /\ fresh = FreshStates(opt.n)
  /\ out = OldTable
  /\ visited = {}
  /\ timed = [lookups |-> 0, updates |-> 0]

-----------------------------------------------------------------------------
(* The host.                                                                *)

Doing(what) == status = "running" /\ At(session, Script, {what})

Proceed(s) ==
  /\ session' = s
  /\ status' = IF s.at = Len(Script) THEN "passed" ELSE status

End(result) == status' = result /\ UNCHANGED session

UnchangedBelow == UNCHANGED <<kernelVars, opt, visited, timed>>

Enqueue ==
  /\ \E what \in {"tables", "query", "lookup", "update", "start", "stop"} : Doing(what)
  /\ Proceed(Enqueued(session, Script))
  /\ UnchangedBelow

Wait ==
  /\ Doing("sync")
  /\ Drained(session)
  /\ Proceed(Passed(session))
  /\ UnchangedBelow

ReadWall ==
  /\ \/ Doing("clock")   /\ Proceed(ClockRead(session))
     \/ Doing("elapsed") /\ Proceed(ClockAdded(session))
  /\ UnchangedBelow

\* Every pattern of the list is looked at before the first is run.
CheckPatterns ==
  /\ Doing("patterns")
  /\ IF Current(session, Script).on \subseteq Patterns
     THEN Proceed(Passed(session)) ELSE End("raised")
  /\ UnchangedBelow

\* The padding is cut off before the comparison.
Agrees(what) ==
  IF what = "out"
  THEN \A r \in Reqs : \A i \in 0 .. opt.n - 1 : out[r][i] = ExpectedOut(query)[r][i]
  ELSE table = ExpectedStates(query, opt.n, opt.percent)

Check ==
  /\ Doing("check")
  /\ IF Agrees(Current(session, Script).on) THEN Proceed(Passed(session))
                                            ELSE End("mismatch")
  /\ UnchangedBelow

-----------------------------------------------------------------------------
(* The device.                                                              *)

UnchangedAbove == UNCHANGED <<opt, status>>

UploadTables ==
  /\ DeviceAt(session, {"tables"})
  /\ table' = OldTable
  /\ session' = WorkDone(session)
  /\ UnchangedAbove
  /\ UNCHANGED <<query, fresh, walks, out, job, coreVars, visited, timed>>

UploadQuery ==
  /\ DeviceAt(session, {"query"})
  /\ \E draw \in [0 .. opt.n - 1 -> Draws] :
       LET q == Head(session.stream).on
       IN query' = Query(opt.n, q.pattern, q.size, draw)
  /\ session' = WorkDone(session)
  /\ UnchangedAbove
  /\ UNCHANGED <<table, fresh, walks, out, job, coreVars, visited, timed>>

Stamp ==
  /\ DeviceAt(session, {"start", "stop"})
  /\ session' = EventStamped(session)
  /\ UnchangedAbove
  /\ UNCHANGED <<kernelVars, visited, timed>>

\* The test has one seed; in the other scripts each call has its own.
StartKernel ==
  /\ \/ /\ DeviceAt(session, {"lookup"})
        /\ LaunchLookup(opt.n, opt.dim)
        /\ UNCHANGED walks
     \/ /\ DeviceAt(session, {"update"})
        /\ LaunchUpdate(opt.n, opt.dim, opt.percent)
        /\ walks' \in IF opt.tool = "test" THEN {walks} ELSE [Reqs -> Hashes]
  /\ visited' = {}
  /\ UnchangedAbove
  /\ UNCHANGED <<session, timed>>

Count(what, n) == [timed EXCEPT ![what] = @ + (IF session.timing THEN n ELSE 0)]

LookupTile(c) ==
  /\ FullTile(c) \/ TailTile(c)
  /\ timed' = Count("lookups", Valid(c))
  /\ UNCHANGED visited

\* A position that is visited again is not another update.
Update(c) ==
  LET entry == <<at[c], PositionOf(c)>>
  IN /\ UpdateEntry(c)
     /\ visited' = visited \cup {entry}
     /\ timed' = Count("updates", IF entry \in visited THEN 0 ELSE 1)

KernelStep ==
  /\ \E c \in Cores :
       \/ LookupTile(c)
       \/ Update(c)
       \/ (CopyOut(c) \/ NextRequest(c)) /\ UNCHANGED <<visited, timed>>
  /\ UnchangedAbove
  /\ UNCHANGED session

EndKernel ==
  /\ KernelDone
  /\ session' = WorkDone(session)
  /\ UnchangedAbove
  /\ UNCHANGED <<visited, timed>>

Host == Enqueue \/ Wait \/ ReadWall \/ CheckPatterns \/ Check
Device == UploadTables \/ UploadQuery \/ Stamp \/ StartKernel \/ KernelStep \/ EndKernel

Next == Host \/ Device

Spec == Init /\ [][Next]_vars

-----------------------------------------------------------------------------
(* What the scripts divide by.                                              *)

\* How often a kernel is timed in a loop of its own.
ModesRun(mode) ==
  CASE opt.tool = "bench"   -> IF opt.mode \in {mode, "both"} THEN 1 ELSE 0
    [] opt.tool = "profile" -> Cardinality({i \in DOMAIN opt.modes : opt.modes[i] = mode})
    [] opt.tool = "memory"  ->
         IF mode = "update" THEN 0
         ELSE Cardinality(UNION {{p} \X DOMAIN Sizes(opt.patterns[p]) :
                                   p \in DOMAIN opt.patterns})

LookupCount == ModesRun("lookup") * Iters * ReqNum * opt.n

UpdateCount == ModesRun("update") * Iters * ReqNum * ((opt.n * opt.percent) \div 100)

-----------------------------------------------------------------------------
(* Properties.                                                              *)

(* On any number of cores, in any interleaving, a lookup leaves the states   *)
(* before the update, the update launched right behind it exactly the chosen *)
(* entries of every request, and the two separate operators the same: no     *)
(* assertion of the test fails (test_lookup_update.py:127-128, 184-208).     *)
AgreesWithReference == status # "mismatch"

(* The operations the throughput is computed from are those done between the *)
(* two events: every key of every query of every iteration, and as many      *)
(* different positions as the percentage says, whatever the seeds; nothing   *)
(* of the warmup is in between, for the host's clock neither                 *)
(* (bench_lookup_update.py:107-111, profile_lookup_update.py:238-240,        *)
(* profile_lookup_memory.py:272-288).                                        *)
TimesWhatItCounts ==
  opt.tool # "test" /\ status = "passed" =>
    /\ timed.lookups = LookupCount
    /\ timed.updates = UpdateCount
    /\ opt.tool # "bench" => session.waited = session.measured
=============================================================================
