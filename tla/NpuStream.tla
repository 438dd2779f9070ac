------------------------------ MODULE NpuStream ------------------------------
(***************************************************************************)
(* How the scripts of this repository use an NPU: a process carries out a   *)
(* straight list of instructions, some of which only enqueue work on a      *)
(* stream; the device does the work later, in order. An event enqueued with *)
(* record() is stamped when the device reaches it. Time is measured in      *)
(* pieces of work the device has done.                                      *)
(*                                                                          *)
(* The state of one process and its stream is a record, a session. The      *)
(* scripts' modules say which instructions there are.                       *)
(***************************************************************************)
EXTENDS Naturals, SequencesExt

\* An instruction; on is what it is about.
Instr(what, on) == [do |-> what, on |-> on]

StartEvent == Instr("start", 0)
StopEvent  == Instr("stop", 0)
Synchronize == Instr("sync", 0)
ReadClock  == Instr("clock", 0)
AddClock   == Instr("elapsed", 0)

\* The instructions f(1), ..., f(n), each a sequence of its own.
Repeat(n, f(_)) == FlattenSeq([i \in 1..n |-> f(i)])

NewSession ==
  [at       |-> 0,      \* instructions of the script carried out
   stream   |-> << >>,  \* enqueued and not yet done, oldest first
   clock    |-> 0,      \* pieces of work done
   started  |-> 0,      \* stamp of the last start event
   timing   |-> FALSE,  \* the device is between a start and an end event
   measured |-> 0,      \* sum of start.elapsed_time(end)
   wall     |-> 0,      \* the host's perf_counter() at the last ReadClock
   waited   |-> 0]      \* sum of the host's perf_counter() differences

At(s, script, kinds) == s.at < Len(script) /\ script[s.at + 1].do \in kinds

Current(s, script) == script[s.at + 1]

Passed(s) == [s EXCEPT !.at = @ + 1]

Enqueued(s, script) ==
  [Passed(s) EXCEPT !.stream = Append(@, Current(s, script))]

Drained(s) == s.stream = << >>

ClockRead(s) == [Passed(s) EXCEPT !.wall = s.clock]

ClockAdded(s) == [Passed(s) EXCEPT !.waited = @ + (s.clock - s.wall)]

DeviceAt(s, kinds) == s.stream # << >> /\ Head(s.stream).do \in kinds

\* The device has reached the oldest item, an event.
EventStamped(s) ==
  IF Head(s.stream) = StartEvent
  THEN [s EXCEPT !.stream = Tail(@), !.started = s.clock, !.timing = TRUE]
  ELSE [s EXCEPT !.stream = Tail(@), !.measured = @ + (s.clock - s.started),
                 !.timing = FALSE]

\* The device has done the oldest item, a copy or a kernel.
WorkDone(s) == [s EXCEPT !.stream = Tail(@), !.clock = @ + 1]
=============================================================================
