------------------------------ MODULE OpProfiler ------------------------------
(***************************************************************************)
(* The operator profilers of src/zpl/profilers/tflm/tflm_profiler.cpp and  *)
(* src/zpl/profilers/tvm/tvm_profiler.c: a buffer of MaxEvents slots that  *)
(* an inference fills, one per operator, and that is emitted and emptied   *)
(* when the inference is over.  Both files do the same; TFLM nests         *)
(* operators of subgraphs (MaxDepth 2 or more), TVM does not (MaxDepth 1). *)
(*                                                                         *)
(* The inference runs in one thread.  The shell preempts it anywhere and   *)
(* switches tflm_profiler or tvm_profiler (profiler) and tflm or tvm       *)
(* (events).  Tags and arena sizes are stored like op_idx and left out.    *)
(* The events of an inference itself are left out too: they do not pass    *)
(* through the buffer.                                                     *)
(***************************************************************************)
EXTENDS Integers, Sequences

CONSTANTS
  Ops,        \* operator indices of the model
  IdxSize,    \* what op_idx can hold: 2^8 in TVM, 2^16 in TFLM
  MaxEvents,  \* CONFIG_ZPL_..._PROFILER_MAX_EVENTS
  MaxDepth,   \* how deep operators nest
  MaxRuns     \* bound: operators run in a behaviour

ASSUME SizeAssumption ==
  Ops \subseteq Nat /\ IdxSize \in Nat \ {0} /\ MaxEvents \in Nat \ {0} /\ MaxDepth \in Nat \ {0}
  /\ MaxRuns \in Nat

VARIABLES
  delayed,            \* CONFIG_ZPL_..._PROFILER_DELAYED_EMISSION
  profiler, events,   \* the two runtime flags
  num_events, slots,  \* the buffer
  pc, dumped,         \* where the inference is; events of the buffer emitted so far
  stack,              \* operators being run: their runs and handles
  runs,               \* history: what ran when; end 0 while it runs
  trace,              \* the emitted events
  clock,
  whole, first        \* both flags were on, and the buffer empty, since run first

vars == <<delayed, profiler, events, num_events, slots, pc, dumped, stack, runs, trace,
          clock, whole, first>>

OpIdx  == 0..(IdxSize - 1)
Slot   == [op: OpIdx, begin: Nat, end: Nat]
Run    == [op: Ops, begin: Nat, end: Nat]
Handle == -1..(MaxEvents - 1)
Event  == [kind: {"enter", "exit"}, op: OpIdx, at: Nat]

TypeOK ==
  /\ delayed \in BOOLEAN /\ profiler \in BOOLEAN /\ events \in BOOLEAN
  /\ num_events \in 0..MaxEvents /\ slots \in [0..(MaxEvents - 1) -> Slot]
  /\ pc \in {"idle", "running", "dump"} /\ dumped \in 0..(2 * MaxEvents)
  /\ stack \in Seq([run: Nat, handle: Handle]) /\ runs \in Seq(Run)
  /\ trace \in Seq(Event) /\ clock \in Nat /\ whole \in BOOLEAN /\ first \in Nat

Init ==
  /\ delayed \in BOOLEAN
  /\ profiler = TRUE /\ events = TRUE
  /\ num_events = 0
  /\ slots = [h \in 0..(MaxEvents - 1) |-> [op |-> 0, begin |-> 0, end |-> 0]]
  /\ pc = "idle" /\ dumped = 0 /\ stack = <<>> /\ runs = <<>> /\ trace = <<>>
  /\ clock = 1 /\ whole = TRUE /\ first = 1

----------------------------------------------------------------------------
(* The buffer *)

Enter(op, at) == [kind |-> "enter", op |-> op, at |-> at]
Exit(op, at)  == [kind |-> "exit", op |-> op, at |-> at]

\* zpl_emit_..._event, which looks at its own flag every time
Emit(e) == trace' = IF events THEN Append(trace, e) ELSE trace

\* The operator's index as a slot and an event hold it
OpIdxOf(op) == op % IdxSize

HasRoomOneMore == num_events <= MaxEvents       \* mutant
HasRoom == num_events < MaxEvents

\* BeginEvent: the next slot, and its number, or -1 if the buffer is full
Begin(op) ==
  /\ pc = "running" /\ Len(stack) < MaxDepth /\ Len(runs) < MaxRuns
  /\ runs' = Append(runs, [op |-> op, begin |-> clock, end |-> 0])
  /\ clock' = clock + 1
  /\ IF HasRoom
     THEN /\ slots' = [slots EXCEPT ![num_events].op = OpIdxOf(op), ![num_events].begin = clock]
          /\ num_events' = num_events + 1
          /\ stack' = Append(stack, [run |-> Len(runs) + 1, handle |-> num_events])
          /\ IF delayed THEN UNCHANGED trace ELSE Emit(Enter(OpIdxOf(op), clock))
     ELSE /\ stack' = Append(stack, [run |-> Len(runs) + 1, handle |-> -1])
          /\ UNCHANGED <<slots, num_events, trace>>
  /\ UNCHANGED <<delayed, profiler, events, pc, dumped, whole, first>>

TopHandleLast(s) == num_events - 1              \* mutant: the last slot taken
TopHandle(s) == s[Len(s)].handle

\* EndEvent of the operator begun last; for an operator without a slot the handle is
\* no index (TFLM tests that in EndEvent, TVM in its caller), and nothing happens.
End ==
  /\ pc = "running" /\ stack # <<>>
  /\ runs' = [runs EXCEPT ![stack[Len(stack)].run].end = clock]
  /\ clock' = clock + 1
  /\ stack' = SubSeq(stack, 1, Len(stack) - 1)
  /\ LET h == TopHandle(stack) IN
     IF h = -1
     THEN UNCHANGED <<slots, trace>>
     ELSE /\ slots' = IF delayed THEN [slots EXCEPT ![h].end = clock] ELSE slots
          /\ IF delayed THEN UNCHANGED trace ELSE Emit(Exit(slots[h].op, clock))
  /\ UNCHANGED <<delayed, profiler, events, num_events, pc, dumped, whole, first>>

----------------------------------------------------------------------------
(* The inference *)

\* The interpreter, or the graph executor, begins an inference.
Invoke ==
  /\ pc = "idle" /\ Len(runs) < MaxRuns
  /\ pc' = "running"
  /\ whole' = (profiler /\ events /\ num_events = 0) /\ first' = Len(runs) + 1
  /\ UNCHANGED <<delayed, profiler, events, num_events, slots, dumped, stack, runs, trace, clock>>

\* DumpEvents after the last operator.  If the profiler is off the buffer stays as it is.
Dump ==
  /\ pc = "running" /\ stack = <<>>
  /\ pc' = IF profiler THEN "dump" ELSE "idle"
  /\ UNCHANGED <<delayed, profiler, events, num_events, slots, dumped, stack, runs, trace,
                 clock, whole, first>>

DumpNextExitFirst ==                            \* mutant: the exit before the enter
  LET slot == slots[dumped \div 2] IN
  /\ pc = "dump" /\ delayed /\ dumped < 2 * num_events
  /\ Emit(IF dumped % 2 = 1 THEN Enter(slot.op, slot.begin) ELSE Exit(slot.op, slot.end))
  /\ dumped' = dumped + 1
  /\ UNCHANGED <<delayed, profiler, events, num_events, slots, pc, stack, runs, clock, whole, first>>

\* The buffered events, for each slot its enter and its exit
DumpNext ==
  LET slot == slots[dumped \div 2] IN
  /\ pc = "dump" /\ delayed /\ dumped < 2 * num_events
  /\ Emit(IF dumped % 2 = 0 THEN Enter(slot.op, slot.begin) ELSE Exit(slot.op, slot.end))
  /\ dumped' = dumped + 1
  /\ UNCHANGED <<delayed, profiler, events, num_events, slots, pc, stack, runs, clock, whole, first>>

DumpedKeepsEvents ==                            \* mutant: num_events is not reset
  /\ pc = "dump" /\ (delayed => dumped = 2 * num_events)
  /\ pc' = "idle" /\ dumped' = 0
  /\ UNCHANGED <<delayed, profiler, events, num_events, slots, stack, runs, trace, clock, whole, first>>

DumpedTooEarly ==                               \* mutant: the last slot is forgotten
  /\ pc = "dump" /\ (delayed => dumped >= 2 * (num_events - 1))
  /\ pc' = "idle" /\ num_events' = 0 /\ dumped' = 0
  /\ UNCHANGED <<delayed, profiler, events, slots, stack, runs, trace, clock, whole, first>>

Dumped ==
  /\ pc = "dump" /\ (delayed => dumped = 2 * num_events)
  /\ pc' = "idle" /\ num_events' = 0 /\ dumped' = 0
  /\ UNCHANGED <<delayed, profiler, events, slots, stack, runs, trace, clock, whole, first>>

\* ZPL_CONF_SET of one of the two flags
Switch ==
  /\ \/ profiler' = ~profiler /\ UNCHANGED events
     \/ events' = ~events /\ UNCHANGED profiler
  /\ whole' = FALSE
  /\ UNCHANGED <<delayed, num_events, slots, pc, dumped, stack, runs, trace, clock, first>>

Next ==
  \/ Invoke \/ (\E op \in Ops : Begin(op)) \/ End
  \/ Dump \/ DumpNext \/ Dumped \/ Switch

Spec == Init /\ [][Next]_vars

----------------------------------------------------------------------------
(* Properties *)

Traced == {trace[n] : n \in DOMAIN trace}

\* Every event in the trace tells what happened: its operator began, or ended, at its
\* time, also if the buffer was full in between or kept from an earlier inference.  Only
\* an operator whose index does not fit into op_idx comes out as another.
EventsAreTrue ==
  \A e \in Traced : \E n \in DOMAIN runs :
    /\ runs[n].op \in OpIdx => runs[n].op = e.op
    /\ e.at = IF e.kind = "enter" THEN runs[n].begin ELSE runs[n].end

\* No event comes out twice, though dumps are skipped while the profiler is off.
NoEventTwice == \A m, n \in DOMAIN trace : trace[m].at = trace[n].at => m = n

\* No operator began before the one before it had ended.
NoNesting == \A n \in DOMAIN runs : n > 1 => runs[n - 1].end # 0 /\ runs[n - 1].end < runs[n].begin

\* The operators' events come out in the order of their timestamps, unless buffered
\* operators nest: a slot's exit then precedes the enter of the next slot.
StreamInOrder ==
  (~delayed \/ NoNesting) =>
    \A n \in DOMAIN trace : n > 1 => trace[n - 1].at < trace[n].at

\* After an inference with both flags on all the time, which found the buffer empty,
\* its first MaxEvents operators are in the trace, with enter and exit.
InferenceIsComplete ==
  pc = "idle" /\ whole =>
    \A n \in DOMAIN runs : first <= n /\ n < first + MaxEvents =>
      {Enter(OpIdxOf(runs[n].op), runs[n].begin), Exit(OpIdxOf(runs[n].op), runs[n].end)} \subseteq Traced
=============================================================================
