----------------------------- MODULE SimtScripts -----------------------------
(***************************************************************************)
(* The scripts around the SIMT lookup: validate_lookup_simt.py,             *)
(* bench_lookup_simt.py and profile_lookup_simt.py. Every launch gets a     *)
(* state of its own, built from a case id; the benchmark preloads states in *)
(* batches, the profiler captures its launches in an output directory that  *)
(* another run may have been given too.                                     *)
(***************************************************************************)
EXTENDS NpuStream, FiniteSetsExt

CONSTANTS
  Procs,       \* processes that run a script
  Counts,      \* values of --rounds, --profile-iterations
  Warmups,     \* values of --warmup
  None

ASSUME ScriptAssumption ==
  /\ Counts \subseteq Nat \ {0}
  /\ Warmups \subseteq Nat
  /\ None \notin [by : Procs, raw : Procs, first : Nat, iterations : Nat]

VARIABLES
  opt,        \* opt[p]: the command line
  session,    \* session[p]: the process and its stream
  status,     \* "running", "passed", or "failed" (an exception, or killed)
  alive,      \* alive[p]: cases whose tensors the process holds
  used,       \* used[p]: cases a kernel has run on
  captured,   \* captured[p]: cases run while the process was profiled
  root,       \* names in the output directory, none if it does not exist
  profiles,   \* raw profiles under raw/, each named by its process
  analysed,   \* those with an ASCEND_PROFILER_OUTPUT
  parsed,     \* those copied to parsed/
  found,      \* found[p]: raw_profile
  manifest    \* manifest.json, or None

memory == <<alive, used, captured>>
directory == <<root, profiles, analysed, parsed, manifest>>
vars == <<opt, session, status, memory, directory, found>>

-----------------------------------------------------------------------------
(* The scripts.                                                             *)

Launches(cases) == [i \in DOMAIN cases |-> Instr("launch", cases[i])]

\* The case ids first, ..., first + count - 1.
CaseIds(first, count) == [i \in 1..count |-> first + i - 1]

PreloadStates(cases) ==
  [i \in DOMAIN cases |-> Instr("upload", cases[i])] \o <<Synchronize>>

WarmupStates(cases) == Launches(cases) \o <<Synchronize>>

\* verify_one_state; its state is dropped when it returns.
Verified(o) ==
  IF o.verify
  THEN <<Instr("upload", 0), Instr("launch", 0), Synchronize, Instr("check", 0),
         Instr("drop", {0})>>
  ELSE << >>

ValidateScript(o) ==
  <<Instr("upload", o.first), Instr("launch", o.first), Synchronize,
    Instr("check", o.first)>>

RunStates(cases) ==
  <<Synchronize, StartEvent, ReadClock>> \o Launches(cases)
    \o <<StopEvent, Synchronize, AddClock>>

BatchRounds(o) == IF o.batch = 0 THEN o.count ELSE Min({o.batch, o.count})

Batches(o) == (o.count + BatchRounds(o) - 1) \div BatchRounds(o)

\* completed, and warmup_remaining, when batch k begins.
Completed(o, k) == (k - 1) * BatchRounds(o)
WarmupLeft(o, k) == IF k = 1 THEN o.warmup ELSE 0

\* Mutant: the last batch is as large as the others.
CurrentRoundsFull(o, k) == BatchRounds(o)

CurrentRounds(o, k) == Min({BatchRounds(o), o.count - Completed(o, k)})

\* Mutant: next_case_id is advanced by the timed rounds alone.
NextCaseIdUnwarmed(o, k) == 1 + Completed(o, k)

NextCaseId(o, k) == 1 + Completed(o, k) + (o.warmup - WarmupLeft(o, k))

\* Mutant: the states of a batch are kept while the next is preloaded.
BenchBatchKept(o, k) ==
  LET first == NextCaseId(o, k)
      warm  == CaseIds(first, WarmupLeft(o, k))
      timed == CaseIds(first + WarmupLeft(o, k), CurrentRounds(o, k))
  IN PreloadStates(warm \o timed)
       \o (IF warm = << >> THEN << >> ELSE WarmupStates(warm))
       \o RunStates(timed)

BenchBatch(o, k) ==
  LET first == NextCaseId(o, k)
      warm  == CaseIds(first, WarmupLeft(o, k))
      timed == CaseIds(first + WarmupLeft(o, k), CurrentRounds(o, k))
  IN PreloadStates(warm \o timed)
       \o (IF warm = << >> THEN << >> ELSE WarmupStates(warm))
       \o RunStates(timed)
       \o <<Instr("drop", ToSet(warm \o timed))>>

BenchScript(o) == Verified(o) \o Repeat(Batches(o), LAMBDA k : BenchBatch(o, k))

ProfileScript(o) ==
  LET warm == CaseIds(1, o.warmup)
      run  == CaseIds(1 + o.warmup, o.count)
  IN <<Instr("look", 0), Instr("mkdir", "raw"), Instr("mkdir", "parsed")>>
       \o Verified(o)
       \o PreloadStates(warm \o run) \o WarmupStates(warm)
       \o <<Instr("capture", 0)>> \o Launches(run)
       \o <<Synchronize, Instr("analyse", 0), Instr("discover", 0),
            Instr("copy", 0), Instr("manifest", 1 + o.warmup)>>

Script(o) ==
  CASE o.tool = "validate" -> ValidateScript(o)
    [] o.tool = "bench"    -> BenchScript(o)
    [] o.tool = "profile"  -> ProfileScript(o)

ScriptOf(p) == Script(opt[p])

\* validate_args of the three scripts.
Options ==
  LET option(tools, firsts, batches) ==
        [tool : tools, first : firsts, count : Counts, warmup : Warmups,
         batch : batches, verify : BOOLEAN]
  IN [validate |-> option({"validate"}, {0, 1}, {0}),
      bench    |-> option({"bench"}, {1}, {0} \cup Counts),
      profile  |-> option({"profile"}, {1}, {0})]

(***************************************************************************)
(* One process runs the benchmark, the validation or the profiler, or all   *)
(* run the profiler and were given the same output directory.               *)
(***************************************************************************)
Init ==
  /\ session = [p \in Procs |-> NewSession]
  /\ \/ \E p \in Procs, o \in Options.validate \cup Options.bench :
          /\ opt = [q \in Procs |-> o]
          /\ status = [q \in Procs |-> IF q = p THEN "running" ELSE "passed"]
     \/ /\ opt \in [Procs -> Options.profile]
        /\ status = [q \in Procs |-> "running"]
  /\ alive = [p \in Procs |-> {}]
  /\ used = [p \in Procs |-> {}]
  /\ captured = [p \in Procs |-> << >>]
  /\ root \in {{}, {"notes"}}
  /\ profiles = {}
  /\ analysed = {}
  /\ parsed = {}
  /\ found = [p \in Procs |-> None]
  /\ manifest = None

-----------------------------------------------------------------------------
(* The host.                                                                *)

Doing(p, what) == status[p] = "running" /\ At(session[p], ScriptOf(p), {what})

On(p) == Current(session[p], ScriptOf(p)).on

Proceed(p, s) ==
  /\ session' = [session EXCEPT ![p] = s]
  /\ status' = [status EXCEPT ![p] = IF s.at = Len(ScriptOf(p)) THEN "passed" ELSE @]
  /\ UNCHANGED opt

Raise(p) ==
  /\ status' = [status EXCEPT ![p] = "failed"]
  /\ UNCHANGED <<opt, session, memory, directory, found>>

Enqueue(p) ==
  /\ \E what \in {"upload", "launch", "start", "stop"} : Doing(p, what)
  /\ alive' = [alive EXCEPT ![p] = IF Doing(p, "upload") THEN @ \cup {On(p)} ELSE @]
  /\ Proceed(p, Enqueued(session[p], ScriptOf(p)))
  /\ UNCHANGED <<used, captured, directory, found>>

\* torch.npu.synchronize()
Wait(p) ==
  /\ Doing(p, "sync")
  /\ Drained(session[p])
  /\ Proceed(p, Passed(session[p]))
  /\ UNCHANGED <<memory, directory, found>>

ReadWall(p) ==
  /\ \/ Doing(p, "clock") /\ Proceed(p, ClockRead(session[p]))
     \/ Doing(p, "elapsed") /\ Proceed(p, ClockAdded(session[p]))
  /\ UNCHANGED <<memory, directory, found>>

\* assert_runtime_result, and the end of a scope that held states.
CheckOrDrop(p) ==
  /\ Doing(p, "check") \/ Doing(p, "drop")
  /\ alive' = [alive EXCEPT ![p] = IF Doing(p, "drop") THEN @ \ On(p) ELSE @]
  /\ Proceed(p, Passed(session[p]))
  /\ UNCHANGED <<used, captured, directory, found>>

Refused == root # {}

\* prepare_output_dir: the look, and then the two directories. A file in the
\* directory's place is refused as a directory with something in it is.
LookAtRoot(p) ==
  /\ Doing(p, "look")
  /\ \/ Refused /\ Raise(p)
     \/ /\ ~ Refused
        /\ Proceed(p, Passed(session[p]))
        /\ UNCHANGED <<memory, directory, found>>

MakeDir(p) ==
  /\ Doing(p, "mkdir")
  /\ root' = root \cup {On(p)}
  /\ Proceed(p, Passed(session[p]))
  /\ UNCHANGED <<memory, profiles, analysed, parsed, manifest, found>>

\* Entering the profiler: its raw profile appears.
Capture(p) ==
  /\ Doing(p, "capture")
  /\ profiles' = profiles \cup {p}
  /\ Proceed(p, Passed(session[p]))
  /\ UNCHANGED <<memory, root, analysed, parsed, manifest, found>>

\* Leaving it: tensorboard_trace_handler analyses the profile, or cannot.
Analyse(p) ==
  /\ Doing(p, "analyse")
  /\ analysed' \in {analysed, analysed \cup {p}}
  /\ Proceed(p, Passed(session[p]))
  /\ UNCHANGED <<memory, root, profiles, parsed, manifest, found>>

\* Mutant: the first of several raw profiles is taken.
SomeProfile == profiles # {}

OneProfile == Cardinality(profiles) = 1

DiscoverRawProfile(p) ==
  /\ Doing(p, "discover")
  /\ \/ ~ OneProfile /\ Raise(p)
     \/ /\ OneProfile
        /\ \E q \in profiles : found' = [found EXCEPT ![p] = q]
        /\ Proceed(p, Passed(session[p]))
        /\ UNCHANGED <<memory, directory>>

Parsable(q) == q \in analysed

CopyParsedResults(p) ==
  /\ Doing(p, "copy")
  /\ \/ ~ Parsable(found[p]) /\ Raise(p)
     \/ /\ Parsable(found[p])
        /\ parsed' = parsed \cup {found[p]}
        /\ Proceed(p, Passed(session[p]))
        /\ UNCHANGED <<memory, root, profiles, analysed, manifest, found>>

WriteManifest(p) ==
  /\ Doing(p, "manifest")
  /\ manifest' = [by |-> p, raw |-> found[p], first |-> On(p),
                  iterations |-> opt[p].count]
  /\ root' = root \cup {"manifest.json"}
  /\ Proceed(p, Passed(session[p]))
  /\ UNCHANGED <<memory, profiles, analysed, parsed, found>>

\* An exception out of the runtime, an interrupt, a kill.
Die(p) == status[p] = "running" /\ Raise(p)

-----------------------------------------------------------------------------
(* The device.                                                              *)

Profiling(p) ==
  /\ opt[p].tool = "profile"
  /\ p \in profiles
  /\ p \notin analysed

Finish(p, s) ==
  /\ session' = [session EXCEPT ![p] = s]
  /\ UNCHANGED <<opt, status, directory, found>>

RunKernel(p) ==
  /\ DeviceAt(session[p], {"launch"})
  /\ LET c == Head(session[p].stream).on
     IN /\ used' = [used EXCEPT ![p] = @ \cup {c}]
        /\ captured' = [captured EXCEPT ![p] =
                          IF Profiling(p) THEN Append(@, c) ELSE @]
  /\ Finish(p, WorkDone(session[p]))
  /\ UNCHANGED alive

CopyOrStamp(p) ==
  /\ \/ DeviceAt(session[p], {"upload"}) /\ Finish(p, WorkDone(session[p]))
     \/ DeviceAt(session[p], {"start", "stop"}) /\ Finish(p, EventStamped(session[p]))
  /\ UNCHANGED memory

Host(p) ==
  \/ Enqueue(p) \/ Wait(p) \/ ReadWall(p) \/ CheckOrDrop(p)
  \/ LookAtRoot(p) \/ MakeDir(p) \/ Capture(p) \/ Analyse(p)
  \/ DiscoverRawProfile(p) \/ CopyParsedResults(p) \/ WriteManifest(p)

Next == \E p \in Procs : Host(p) \/ RunKernel(p) \/ CopyOrStamp(p) \/ Die(p)

Spec == Init /\ [][Next]_vars
-----------------------------------------------------------------------------
(* Properties.                                                              *)

\* Where the launches are that the device has yet to do.
Waiting(p) ==
  {i \in DOMAIN session[p].stream : session[p].stream[i].do = "launch"}

CaseAt(p, i) == session[p].stream[i].on

(* Every launch finds, when the device gets to it, a state that the process *)
(* still holds and a case that no launch has had before: a launch updates    *)
(* its index, so what ran once would hit where it should miss, and a case    *)
(* built twice repeats a measurement instead of sampling ("fresh randomly    *)
(* distributed misses", profile_lookup_simt.py:42). And a comparison with    *)
(* the reference looks at a finished result.                                 *)
LaunchesMeetFreshStates ==
  \A p \in Procs :
    /\ \A i \in Waiting(p) :
         CaseAt(p, i) \in alive[p] \ used[p] \/ status[p] = "failed"
    /\ \A i, j \in Waiting(p) : CaseAt(p, i) = CaseAt(p, j) => i = j
    /\ Doing(p, "check") => On(p) \in used[p]

(* What the benchmark divides by --rounds is the time of exactly that many   *)
(* launches, for the host's clock and for the device's events, whatever the *)
(* batches: no copy, no warmup launch and no part of the next batch is in   *)
(* it (bench_lookup_simt.py:262-275).                                       *)
MeasuresItsRounds ==
  \A p \in Procs : opt[p].tool = "bench" /\ session[p].at = Len(ScriptOf(p)) =>
    session[p].measured = opt[p].count /\ session[p].waited = opt[p].count

(* The memory the scripts announce, so many states "at most", bounds the    *)
(* states they hold at any moment (bench_lookup_simt.py:213-217,            *)
(* profile_lookup_simt.py:398-402).                                         *)
MemoryEstimateHolds ==
  \A p \in Procs :
    Cardinality(alive[p]) <=
      CASE opt[p].tool = "validate" -> 1
        [] opt[p].tool = "bench"    -> BatchRounds(opt[p]) + opt[p].warmup
        [] opt[p].tool = "profile"  -> opt[p].count + opt[p].warmup

(* A manifest describes one run: the profile it names is the one its writer *)
(* captured, of the case ids it lists and in their order, and what was      *)
(* copied beside it is the analysis of that profile. Two runs that were     *)
(* both told to use the directory before either had written to it do not    *)
(* both pass (profile_lookup_simt.py:92-104, 238-250).                      *)
ManifestTrue ==
  /\ manifest # None =>
       /\ manifest.raw = manifest.by
       /\ parsed = {manifest.by}
       /\ captured[manifest.by] = CaseIds(manifest.first, manifest.iterations)
  /\ \A p \in Procs :
       opt[p].tool = "profile" /\ status[p] = "passed" =>
         manifest # None /\ manifest.by = p
=============================================================================
