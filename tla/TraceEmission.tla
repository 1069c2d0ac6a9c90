---------------------------- MODULE TraceEmission ----------------------------
(***************************************************************************)
(* How the library's events get into the trace, on one CPU: a thread that  *)
(* runs an inference in a code scope, the handler of a timer that emits    *)
(* scopes too (the delayed emission samples), and the thread of a          *)
(* profiler, which preempt and interrupt each other between any two steps  *)
(* unless interrupts are locked.                                           *)
(*                                                                         *)
(* While the library works it turns function instrumentation off for the   *)
(* thread it works for (ZPL_DISABLE_INSTRUMENTATION; every thread has a    *)
(* switch, and a handler uses that of the thread it interrupts).           *)
(***************************************************************************)
EXTENDS Integers, Sequences

CONSTANTS
  Interrupts,   \* bound: times the timer fires
  Loads         \* bound: times the profiler's thread wakes up

Contexts  == {"main", "load", "isr"}     \* "load" is the profiler's thread
ThreadIds == {"main", "load"}
Flags     == {"code_scope", "inference", "tflm", "tvm", "cpu_load", "memory", "die_temp"}

\* What is emitted: the flag that must be on, whether the instrumentation is turned off
\* meanwhile, whether the flag is looked at before that, the stream, and whether interrupts
\* are locked from taking the time to the write.  An event that does not lock them takes its
\* time from its caller.
Event(flag, switches, first, stream, locks) ==
  [flag |-> flag, switches |-> switches, first |-> first, stream |-> stream, locks |-> locks]

zpl_code_scope_enter == Event("code_scope", TRUE, FALSE, 0, TRUE)
zpl_code_scope_exit  == Event("code_scope", TRUE, FALSE, 0, TRUE)
zpl_emit_scope_event == Event("code_scope", FALSE, TRUE, 0, TRUE)
zpl_inference_enter  == Event("inference", TRUE, TRUE, 0, TRUE)
zpl_inference_exit   == Event("inference", TRUE, TRUE, 0, TRUE)
zpl_emit_tflm_event  == Event("tflm", TRUE, TRUE, 1, FALSE)
zpl_emit_tvm_event   == Event("tvm", TRUE, TRUE, 1, FALSE)

\* The events of the profilers, with what their threads put around them
zpl_profile_cpu_load == Event("cpu_load", TRUE, FALSE, 0, TRUE)
zpl_profile_memory   == Event("memory", TRUE, FALSE, 0, TRUE)
zpl_profile_die_temp == Event("die_temp", FALSE, TRUE, 0, TRUE)

\* The timer of the samples emits scopes itself; one of an application marks them.
interrupt_timer_handler == << zpl_emit_scope_event, zpl_emit_scope_event >>
marking_handler         == << zpl_code_scope_enter, zpl_code_scope_exit >>

\* What is built: the events of operators, the handler, and the profiler
Builds ==
  {[operators |-> zpl_emit_tflm_event, handler |-> marking_handler,
    profiler |-> zpl_profile_cpu_load],
   [operators |-> zpl_emit_tvm_event, handler |-> interrupt_timer_handler,
    profiler |-> zpl_profile_memory],
   [operators |-> zpl_emit_tflm_event, handler |-> interrupt_timer_handler,
    profiler |-> zpl_profile_die_temp]}

VARIABLES
  build,
  conf,       \* the flags that are on
  stack,      \* who runs, and below it whom it interrupted
  context,    \* every context: the call it is in, the step of it, the time it has taken, and
              \*   whether it found the instrumentation on
  instr,      \* the switch of every thread
  initially,  \*   and what it was at first
  locked,     \* irq_lock
  clock,
  trace,      \* the time of the last event written to each stream
  wakeups     \* how often the timer fired and the profiler's thread woke up

setting      == <<build, conf, initially>>
emissionVars == <<setting, stack, context, instr, locked, clock, trace, wakeups>>

EmissionInit ==
  /\ build \in Builds
  /\ conf \in {Flags, Flags \ {"code_scope", "cpu_load"}, Flags \ {"inference", "tflm"}}
  /\ initially \in [ThreadIds -> BOOLEAN] /\ instr = initially
  /\ stack = <<"main">>
  /\ context = [c \in Contexts |-> [call |-> 1, step |-> "begin", time |-> 0, was |-> FALSE]]
  /\ locked = FALSE /\ clock = 0 /\ trace = [stream \in {0, 1} |-> 0]
  /\ wakeups = [isr |-> 0, load |-> 0]

\* The calls of each context; that of the profiler repeats
Script ==
  [main |-> << zpl_code_scope_enter, zpl_inference_enter, build.operators, build.operators,
               zpl_inference_exit, zpl_code_scope_exit >>,
   isr  |-> build.handler,
   load |-> << build.profiler >>]

Running  == stack[Len(stack)]
Emits(c) == Script[c][context[c].call]
IsOn(c)  == Emits(c).flag \in conf

\* Context c has the CPU and does this step
AtStep(c, step) ==
  /\ Running = c /\ context[c].call <= Len(Script[c]) /\ context[c].step = step
  /\ UNCHANGED <<setting, stack, wakeups>>
Goto(c, step) == context' = [context EXCEPT ![c].step = step]
GotoWithTime(c, step) ==
  /\ clock' = clock + 1
  /\ context' = [context EXCEPT ![c].step = step, ![c].time = clock']
FinishCall(c) ==
  context' = [context EXCEPT ![c] = [call |-> @.call + 1, step |-> "begin", time |-> 0, was |-> FALSE]]

SwitchOfAll(c) == "main"                          \* mutant: one switch for all threads
\* The thread whose switch a context uses
SwitchOf(c) == IF c = "isr" THEN stack[Len(stack) - 1] ELSE c

----------------------------------------------------------------------------
(* A call, step by step *)

\* The call is over, for a profiler with its sleep
Finish(c) == IF c = "load" THEN Goto(c, "sleep") ELSE FinishCall(c)

\* ZPL_CONF_RETURN_IF_DISABLED, where it comes first
ReturnIfDisabled(c) ==
  /\ AtStep(c, "begin") /\ Emits(c).first /\ ~IsOn(c)
  /\ Finish(c)
  /\ UNCHANGED <<instr, locked, clock, trace>>

\* The caller of an event without lock has taken its time; ZPL_DISABLE_INSTRUMENTATION looks
\* at instr_enabled() ...
LookAtSwitch(c) ==
  /\ AtStep(c, "begin") /\ Emits(c).switches /\ (Emits(c).first => IsOn(c))
  /\ clock' = IF Emits(c).locks THEN clock ELSE clock + 1
  /\ context' = [context EXCEPT ![c].step = "off", ![c].was = instr[SwitchOf(c)],
                                ![c].time = IF Emits(c).locks THEN 0 ELSE clock']
  /\ UNCHANGED <<instr, locked, trace>>

\* Nothing is put around this event.
KeepSwitch(c) ==
  /\ AtStep(c, "begin") /\ ~Emits(c).switches /\ (Emits(c).first => IsOn(c))
  /\ Goto(c, "emit")
  /\ UNCHANGED <<instr, locked, clock, trace>>

\* ... and then __zpl_disable_instr turns it off, if it was on.
TurnOff(c) ==
  /\ AtStep(c, "off") /\ Goto(c, "emit")
  /\ instr' = [instr EXCEPT ![SwitchOf(c)] = @ /\ ~context[c].was]
  /\ UNCHANGED <<locked, clock, trace>>

\* A profiler sleeps before it turns the instrumentation on again.
AfterWrite(c) == IF c = "load" THEN "sleep" ELSE "on"

\* The flag is off, or this event takes neither the lock nor the time.
EmitUnlocked(c) ==
  /\ AtStep(c, "emit") /\ ~(IsOn(c) /\ Emits(c).locks)
  /\ Goto(c, IF IsOn(c) THEN "write" ELSE AfterWrite(c))
  /\ UNCHANGED <<instr, locked, clock, trace>>

LockIrqLate(c) ==                    \* mutant: the time is taken before irq_lock
  /\ AtStep(c, "emit") /\ IsOn(c) /\ Emits(c).locks
  /\ GotoWithTime(c, "write")
  /\ UNCHANGED <<instr, locked, trace>>
LockIrq(c) ==
  /\ AtStep(c, "emit") /\ IsOn(c) /\ Emits(c).locks
  /\ locked' = TRUE
  /\ Goto(c, "time")
  /\ UNCHANGED <<instr, clock, trace>>

\* zpl_timestamp_get
TakeTime(c) ==
  /\ AtStep(c, "time")
  /\ GotoWithTime(c, "write")
  /\ UNCHANGED <<instr, locked, trace>>

\* tracing_format_raw_data, irq_unlock
WriteEvent(c) ==
  /\ AtStep(c, "write") /\ Goto(c, AfterWrite(c))
  /\ trace' = [trace EXCEPT ![Emits(c).stream] = context[c].time]
  /\ locked' = FALSE
  /\ UNCHANGED <<instr, clock>>

\* The body of ZPL_DISABLE_INSTRUMENTATION, if there was one, is over: on again, if it was on
TurnOn(c) ==
  /\ AtStep(c, "on") /\ FinishCall(c)
  /\ instr' = [instr EXCEPT ![SwitchOf(c)] = @ \/ context[c].was]
  /\ UNCHANGED <<locked, clock, trace>>

----------------------------------------------------------------------------
(* Interrupts and preemption *)

\* Handler or thread c takes the CPU
Enter(c, step, bound) ==
  /\ ~locked /\ wakeups[c] < bound
  /\ wakeups' = [wakeups EXCEPT ![c] = @ + 1]
  /\ stack' = Append(stack, c)
  /\ context' = [context EXCEPT ![c].step = step, ![c].call = 1]
  /\ UNCHANGED <<setting, instr, locked, clock, trace>>

Leave(c, step) ==
  /\ Running = c
  /\ stack' = SubSeq(stack, 1, Len(stack) - 1)
  /\ context' = [context EXCEPT ![c].step = step]
  /\ UNCHANGED <<setting, instr, locked, clock, trace, wakeups>>

TimerFires     == Running # "isr" /\ Enter("isr", "begin", Interrupts)
HandlerReturns == context["isr"].call > Len(Script["isr"]) /\ Leave("isr", "begin")

\* k_msleep in the loop of a profiler, and the next round
LoadSleeps == context["load"].step = "sleep" /\ Leave("load", "asleep")
LoadWakes  ==
  Running = "main" /\ Enter("load", IF context["load"].step = "asleep" THEN "on" ELSE "begin", Loads)
LoadRepeats ==
  /\ Running = "load" /\ context["load"].call > Len(Script["load"])
  /\ context' = [context EXCEPT !["load"].call = 1]
  /\ UNCHANGED <<setting, stack, instr, locked, clock, trace, wakeups>>

EmissionNext ==
  \/ \E c \in Contexts : \/ ReturnIfDisabled(c) \/ LookAtSwitch(c) \/ KeepSwitch(c)
                         \/ TurnOff(c) \/ EmitUnlocked(c)
                         \/ LockIrq(c) \/ TakeTime(c) \/ WriteEvent(c) \/ TurnOn(c)
  \/ TimerFires \/ HandlerReturns
  \/ LoadSleeps \/ LoadWakes \/ LoadRepeats

EmissionSpec == EmissionInit /\ [][EmissionNext]_emissionVars

----------------------------------------------------------------------------
EmissionTypeOK ==
  /\ conf \subseteq Flags /\ initially \in [ThreadIds -> BOOLEAN] /\ instr \in [ThreadIds -> BOOLEAN]
  /\ \A i \in 1..Len(stack) : stack[i] \in Contexts
  /\ \A c \in Contexts : context[c].time \in 0..clock
  /\ locked \in BOOLEAN

\* The events of stream 0 come into the trace in the order of their timestamps, whoever emits
\* them (scope_event.c:27-43, inference_event.c:22-36, cpu_load.c:24-36): what a reader of
\* the stream relies on.  Stream 1, whose events carry earlier times, has no such order.
Stream0InOrder ==
  [][trace'[0] # trace[0] => trace'[0] > trace[0]]_trace

\* While the library works for a thread the instrumentation of that thread is off, and when
\* it has stopped it is what it was before (zpl.h:57-60, instr.c:11-22), although handlers
\* use the thread's switch in between, and another thread sleeps with its own turned off.
SwitchRestored ==
  \A c \in ThreadIds :
    /\ context[c].step \in {"emit", "time", "write", "sleep", "asleep", "on"} /\ Emits(c).switches
         => ~instr[c]
    /\ context[c].step = "begin" /\ Running = c => instr[c] = initially[c]
=============================================================================
