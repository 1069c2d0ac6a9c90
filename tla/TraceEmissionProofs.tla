------------------------- MODULE TraceEmissionProofs -------------------------
(***************************************************************************)
(* Proofs about TraceEmission: for any number of interrupts and wakeups    *)
(* the events of stream 0 are in order, and every thread gets its          *)
(* instrumentation back as it was.  The inductive invariant says who may   *)
(* be interrupted where, and what the switch of a thread would be without  *)
(* the handler that happens to be over it.                                 *)
(***************************************************************************)
EXTENDS TraceEmission, SequenceTheorems, TLAPS

Steps == {"begin", "off", "emit", "time", "write", "sleep", "asleep", "on"}

\* The steps between turning the instrumentation off and on again
Inside == {"emit", "time", "write", "sleep", "asleep", "on"}

\* Who can have interrupted whom
Stacks == {<<"main">>, <<"main", "load">>, <<"main", "isr">>, <<"main", "load", "isr">>}

Types ==
  /\ build \in Builds /\ conf \subseteq Flags
  /\ initially \in [ThreadIds -> BOOLEAN] /\ instr \in [ThreadIds -> BOOLEAN]
  /\ stack \in Stacks
  /\ context \in [Contexts -> [call: Nat, step: Steps, time: Nat, was: BOOLEAN]]
  /\ locked \in BOOLEAN /\ clock \in Nat /\ trace \in [{0, 1} -> Nat]
  /\ \A c \in Contexts : context[c].time <= clock

\* A context is in one of its calls, or at the end of its script; one that does not run has
\* finished its call, or sleeps in it.
CallInv ==
  /\ \A c \in Contexts :
       /\ context[c].call \in 1..(Len(Script[c]) + 1)
       /\ context[c].step # "begin" => context[c].call <= Len(Script[c])
       /\ context[c].step = "begin" => ~context[c].was
       /\ context[c].step = "off" => Emits(c).switches
  /\ stack \in {<<"main">>, <<"main", "load">>} => context["isr"].step = "begin"
  /\ stack \in {<<"main">>, <<"main", "isr">>} => context["load"].step \in {"begin", "asleep"}

\* An event that is about to be written has the latest time, and nobody can come in between.
LockInv ==
  /\ trace[0] <= clock
  /\ \A c \in Contexts :
       /\ context[c].step = "time" => Emits(c).locks
       /\ context[c].step \in {"time", "write"} /\ Emits(c).locks => locked /\ Running = c
       /\ context[c].step = "write" /\ Emits(c).locks => trace[0] < context[c].time

\* Context c has turned off the instrumentation of the thread whose switch it uses.
Off(c) == context[c].step \in Inside /\ Emits(c).switches

\* What a handler that has turned the instrumentation off found
HandlerInv == Running = "isr" =>
  /\ context["isr"].step = "off" => context["isr"].was = instr[SwitchOf("isr")]
  /\ Off("isr") => ~instr[SwitchOf("isr")]
  /\ context["isr"].step \in Inside /\ ~Off("isr") => ~context["isr"].was

\* The switch of thread c as it is when the handler has returned
Own(c) ==
  IF Running = "isr" /\ SwitchOf("isr") = c /\ Off("isr") THEN context["isr"].was ELSE instr[c]

\* Thread c has its switch as it was at first, or has turned it off and remembers that.
Settled(c) ==
  /\ context[c].step \notin Inside => Own(c) = initially[c]
  /\ context[c].step = "off" => context[c].was = initially[c]
  /\ Off(c) => ~Own(c) /\ context[c].was = initially[c]
  /\ context[c].step \in Inside /\ ~Off(c) => Own(c) = initially[c] /\ ~context[c].was

IInv == Types /\ CallInv /\ LockInv /\ HandlerInv /\ \A c \in ThreadIds : Settled(c)

----------------------------------------------------------------------------
(* The calls and the stack *)

\* What an event is: those of stream 0 lock interrupts, and a profiler that turns the
\* instrumentation off does it before it looks at its flag.
EventShape(e) ==
  /\ e.first \in BOOLEAN /\ e.switches \in BOOLEAN /\ e.locks \in BOOLEAN
  /\ e.stream \in {0, 1} /\ (e.stream = 0 <=> e.locks)

LEMMA EventsShape ==
  /\ EventShape(zpl_code_scope_enter) /\ EventShape(zpl_code_scope_exit)
  /\ EventShape(zpl_inference_enter) /\ EventShape(zpl_inference_exit)
  /\ EventShape(zpl_emit_scope_event)
  /\ EventShape(zpl_emit_tflm_event) /\ EventShape(zpl_emit_tvm_event)
  /\ \A e \in {zpl_profile_cpu_load, zpl_profile_memory, zpl_profile_die_temp} :
       EventShape(e) /\ ~ (e.first /\ e.switches)
BY DEF EventShape, Event, zpl_code_scope_enter, zpl_code_scope_exit, zpl_emit_scope_event,
       zpl_inference_enter, zpl_inference_exit, zpl_emit_tflm_event, zpl_emit_tvm_event,
       zpl_profile_cpu_load, zpl_profile_memory, zpl_profile_die_temp

LEMMA ScriptShape ==
  ASSUME build \in Builds
  PROVE  /\ Len(Script["main"]) = 6 /\ Len(Script["isr"]) = 2 /\ Len(Script["load"]) = 1
         /\ \A c \in Contexts : \A n \in 1..Len(Script[c]) : EventShape(Script[c][n])
         /\ ~ (Script["load"][1].first /\ Script["load"][1].switches)
<1>1. /\ build.operators \in {zpl_emit_tflm_event, zpl_emit_tvm_event}
      /\ build.handler \in {interrupt_timer_handler, marking_handler}
      /\ build.profiler \in {zpl_profile_cpu_load, zpl_profile_memory, zpl_profile_die_temp}
  BY DEF Builds
<1>2. /\ Script["main"] = << zpl_code_scope_enter, zpl_inference_enter, build.operators,
                             build.operators, zpl_inference_exit, zpl_code_scope_exit >>
      /\ Script["isr"] = build.handler
      /\ Script["load"] = << build.profiler >>
  BY DEF Script
<1>3. Len(Script["main"]) = 6 /\ \A n \in 1..6 : EventShape(Script["main"][n])
  <2>1. EventShape(build.operators)
    BY <1>1, EventsShape
  <2>2. ASSUME NEW x1, NEW x2, NEW x3, NEW x4, NEW x5, NEW x6, NEW n \in 1..6
        PROVE  << x1, x2, x3, x4, x5, x6 >>[n] \in {x1, x2, x3, x4, x5, x6}
    OBVIOUS
  <2>3. \A n \in 1..6 : Script["main"][n] \in
          {zpl_code_scope_enter, zpl_inference_enter, build.operators, zpl_inference_exit,
           zpl_code_scope_exit}
    BY <1>2, <2>2
  <2>4. Len(Script["main"]) = 6
    BY <1>2
  <2> QED BY <2>1, <2>3, <2>4, EventsShape
<1>4. Len(Script["isr"]) = 2 /\ \A n \in 1..2 : EventShape(Script["isr"][n])
  <2>1. CASE build.handler = marking_handler
    BY <1>2, <2>1, EventsShape DEF marking_handler
  <2>2. CASE build.handler = interrupt_timer_handler
    BY <1>2, <2>2, EventsShape DEF interrupt_timer_handler
  <2> QED BY <1>1, <2>1, <2>2
<1>5. /\ Len(Script["load"]) = 1 /\ \A n \in 1..1 : EventShape(Script["load"][n])
      /\ ~ (Script["load"][1].first /\ Script["load"][1].switches)
  <2>1. Len(Script["load"]) = 1 /\ Script["load"][1] = build.profiler
    BY <1>2
  <2> QED BY <1>1, <2>1, EventsShape
<1> QED BY <1>3, <1>4, <1>5 DEF Contexts

LEMMA StackShape ==
  ASSUME stack \in Stacks
  PROVE  /\ Running \in Contexts
         /\ stack = <<"main">> <=> Running = "main"
         /\ stack = <<"main", "load">> <=> Running = "load"
         /\ Running = "isr" => SwitchOf("isr") \in ThreadIds
         /\ \A c \in ThreadIds : SwitchOf(c) = c
<1>1. CASE stack = <<"main">>
  BY <1>1 DEF Running, Contexts, SwitchOf, ThreadIds
<1>2. CASE stack = <<"main", "load">>
  BY <1>2 DEF Running, Contexts, SwitchOf, ThreadIds
<1>3. CASE stack = <<"main", "isr">>
  BY <1>3 DEF Running, Contexts, SwitchOf, ThreadIds
<1>4. CASE stack = <<"main", "load", "isr">>
  BY <1>4 DEF Running, Contexts, SwitchOf, ThreadIds
<1> QED BY <1>1, <1>2, <1>3, <1>4 DEF Stacks

\* Pushing to and popping from the tuples of Stacks
LEMMA SameTuple ==
  ASSUME NEW S, NEW s \in Seq(S), NEW t \in Seq(S), NEW n \in Nat, Len(s) = n, Len(t) = n,
         \A i \in 1..n : s[i] = t[i]
  PROVE  s = t
BY SeqEqual

LEMMA PushPop ==
  ASSUME NEW a, NEW b, NEW c
  PROVE  /\ Append(<<a>>, b) = <<a, b>> /\ Append(<<a, b>>, c) = <<a, b, c>>
         /\ SubSeq(<<a, b>>, 1, 1) = <<a>> /\ SubSeq(<<a, b, c>>, 1, 2) = <<a, b>>
<1> DEFINE S == {a, b, c}
<1>1. /\ <<a>> \in Seq(S) /\ Len(<<a>>) = 1
      /\ <<a, b>> \in Seq(S) /\ Len(<<a, b>>) = 2
      /\ <<a, b, c>> \in Seq(S) /\ Len(<<a, b, c>>) = 3
  OBVIOUS
<1>2. Append(<<a>>, b) = <<a, b>>
  <2>1. Append(<<a>>, b) \in Seq(S) /\ Len(Append(<<a>>, b)) = 2
    OBVIOUS
  <2>2. \A i \in 1..2 : Append(<<a>>, b)[i] = <<a, b>>[i]
    OBVIOUS
  <2> HIDE DEF S
  <2> QED BY <1>1, <2>1, <2>2, SameTuple
<1>3. Append(<<a, b>>, c) = <<a, b, c>>
  <2>1. Append(<<a, b>>, c) \in Seq(S) /\ Len(Append(<<a, b>>, c)) = 3
    OBVIOUS
  <2>2. \A i \in 1..3 : Append(<<a, b>>, c)[i] = <<a, b, c>>[i]
    OBVIOUS
  <2> HIDE DEF S
  <2> QED BY <1>1, <2>1, <2>2, SameTuple
<1>4. SubSeq(<<a, b>>, 1, 1) = <<a>>
  <2>1. SubSeq(<<a, b>>, 1, 1) \in Seq(S) /\ Len(SubSeq(<<a, b>>, 1, 1)) = 1
    OBVIOUS
  <2>2. \A i \in 1..1 : SubSeq(<<a, b>>, 1, 1)[i] = <<a>>[i]
    OBVIOUS
  <2> HIDE DEF S
  <2> QED BY <1>1, <2>1, <2>2, SameTuple
<1>5. SubSeq(<<a, b, c>>, 1, 2) = <<a, b>>
  <2>1. SubSeq(<<a, b, c>>, 1, 2) \in Seq(S) /\ Len(SubSeq(<<a, b, c>>, 1, 2)) = 2
    OBVIOUS
  <2>2. \A i \in 1..2 : SubSeq(<<a, b, c>>, 1, 2)[i] = <<a, b>>[i]
    OBVIOUS
  <2> HIDE DEF S
  <2> QED BY <1>1, <2>1, <2>2, SameTuple
<1> QED BY <1>2, <1>3, <1>4, <1>5

LEMMA StackMoves ==
  ASSUME stack \in Stacks
  PROVE  /\ Running = "main" => /\ Append(stack, "isr") = <<"main", "isr">>
                               /\ Append(stack, "load") = <<"main", "load">>
         /\ Running = "load" => /\ Append(stack, "isr") = <<"main", "load", "isr">>
                               /\ SubSeq(stack, 1, Len(stack) - 1) = <<"main">>
         /\ Running = "isr" =>
              \/ stack = <<"main", "isr">> /\ SubSeq(stack, 1, Len(stack) - 1) = <<"main">>
              \/ /\ stack = <<"main", "load", "isr">>
                 /\ SubSeq(stack, 1, Len(stack) - 1) = <<"main", "load">>
<1>1. CASE stack = <<"main">>
  <2>1. Running = "main"
    BY <1>1 DEF Running
  <2> QED BY <1>1, <2>1, PushPop
<1>2. CASE stack = <<"main", "load">>
  <2>1. Len(stack) - 1 = 1 /\ Running = "load"
    BY <1>2 DEF Running
  <2> QED BY <1>2, <2>1, PushPop
<1>3. CASE stack = <<"main", "isr">>
  <2>1. Len(stack) - 1 = 1 /\ Running = "isr"
    BY <1>3 DEF Running
  <2> QED BY <1>3, <2>1, PushPop
<1>4. CASE stack = <<"main", "load", "isr">>
  <2>1. Len(stack) - 1 = 2 /\ Running = "isr"
    BY <1>4 DEF Running
  <2> QED BY <1>4, <2>1, PushPop
<1> QED BY <1>1, <1>2, <1>3, <1>4 DEF Stacks

LEMMA InitIInv == EmissionInit => IInv
<1> SUFFICES ASSUME EmissionInit PROVE IInv
    OBVIOUS
<1> USE DEF EmissionInit
<1>0. \A c \in Contexts : /\ context[c].call = 1 /\ context[c].step = "begin"
                          /\ context[c].time = 0 /\ context[c].was = FALSE
  OBVIOUS
<1>1. Types
  <2>1. context \in [Contexts -> [call: Nat, step: Steps, time: Nat, was: BOOLEAN]]
    BY DEF Steps
  <2>2. conf \subseteq Flags
    BY DEF Flags
  <2>3. trace \in [{0, 1} -> Nat] /\ clock \in Nat /\ locked \in BOOLEAN
    OBVIOUS
  <2>4. stack \in Stacks
    BY DEF Stacks
  <2>5. \A c \in Contexts : context[c].time <= clock
    BY <1>0
  <2> QED BY <2>1, <2>2, <2>3, <2>4, <2>5 DEF Types
<1>2. CallInv
  <2>1. build \in Builds
    OBVIOUS
  <2>2. \A c \in Contexts : Len(Script[c]) \in {1, 2, 6}
    BY <2>1, ScriptShape DEF Contexts
  <2>3. \A c \in Contexts : 1 \in 1..(Len(Script[c]) + 1)
    BY <2>2
  <2>4. "isr" \in Contexts /\ "load" \in Contexts
    BY DEF Contexts
  <2> HIDE DEF EmissionInit
  <2> QED BY <1>0, <2>3, <2>4 DEF CallInv
<1>3. LockInv
  BY DEF LockInv
<1>4. HandlerInv
  BY DEF HandlerInv, Running
<1>5. ASSUME NEW c \in ThreadIds PROVE Settled(c)
  <2>1. Running = "main" /\ c \in Contexts
    BY DEF Running, ThreadIds, Contexts
  <2> QED BY <2>1 DEF Settled, Own, Off, Inside
<1> QED BY <1>1, <1>2, <1>3, <1>4, <1>5 DEF IInv

----------------------------------------------------------------------------
(* A step of a call *)

\* Context c does the step.
Stays(c) ==
  /\ Running = c /\ context[c].call <= Len(Script[c])
  /\ UNCHANGED <<setting, stack, wakeups>>
  /\ \A d \in Contexts : d # c => context'[d] = context[d]

\* ... and remains in its call, or finishes it.
Goes(c, t) ==
  Stays(c) /\ context'[c].step = t /\ t # "begin" /\ context'[c].call = context[c].call
Finishes(c) ==
  /\ Stays(c) /\ context'[c].call = context[c].call + 1
  /\ context'[c].step = "begin" /\ ~context'[c].was

\* What does not depend on the step
LEMMA Framed ==
  ASSUME IInv, NEW c \in Contexts, Stays(c)
  PROVE  /\ Script' = Script /\ Running' = Running /\ stack' = stack
         /\ build' = build /\ initially' = initially /\ conf' = conf
         /\ \A d : SwitchOf(d)' = SwitchOf(d)
         /\ \A d \in Contexts : d # c => Emits(d)' = Emits(d) /\ (Off(d)' <=> Off(d))
         /\ context'[c].call = context[c].call => Emits(c)' = Emits(c)
         /\ context[c].call \in 1..Len(Script[c]) /\ EventShape(Emits(c))
         /\ SwitchOf(c) \in ThreadIds
<1>1. /\ build' = build /\ initially' = initially /\ conf' = conf /\ stack' = stack
      /\ \A d \in Contexts : d # c => context'[d] = context[d]
  BY DEF Stays, setting
<1>2. Script' = Script
  BY <1>1 DEF Script
<1>3. Running' = Running /\ \A d : SwitchOf(d)' = SwitchOf(d)
  BY <1>1 DEF Running, SwitchOf
<1>4. \A d \in Contexts : d # c => Emits(d)' = Emits(d)
  BY <1>1, <1>2 DEF Emits
<1>5. \A d \in Contexts : d # c => (Off(d)' <=> Off(d))
  BY <1>1, <1>4 DEF Off
<1>6. context'[c].call = context[c].call => Emits(c)' = Emits(c)
  BY <1>2 DEF Emits
<1>7. context[c].call \in 1..Len(Script[c])
  <2>1. Len(Script[c]) \in Int
    BY ScriptShape DEF IInv, Types, Contexts
  <2>2. context[c].call \in 1..(Len(Script[c]) + 1) /\ context[c].call <= Len(Script[c])
    BY DEF IInv, CallInv, Stays
  <2> QED BY <2>1, <2>2
<1>8. EventShape(Emits(c))
  BY <1>7, ScriptShape DEF Emits, IInv, Types
<1>9. SwitchOf(c) \in ThreadIds
  BY StackShape DEF IInv, Types, Stays, SwitchOf, Contexts, ThreadIds
<1> QED BY <1>1, <1>2, <1>3, <1>4, <1>5, <1>6, <1>7, <1>8, <1>9

LEMMA CallInvKept ==
  ASSUME IInv, NEW c \in Contexts,
         \/ \E t : Goes(c, t) /\ (t = "off" => Emits(c).switches)
         \/ Finishes(c)
  PROVE  CallInv'
<1>1. Stays(c)
  BY DEF Goes, Finishes
<1>2. CallInv /\ Types
  BY DEF IInv
<1>3. /\ Script' = Script /\ Running = c /\ stack' = stack
      /\ \A d \in Contexts : d # c => context'[d] = context[d] /\ Emits(d)' = Emits(d)
      /\ context'[c].call = context[c].call => Emits(c)' = Emits(c)
      /\ context[c].call \in 1..Len(Script[c])
      /\ Len(Script[c]) \in Int
  BY <1>1, <1>2, Framed, ScriptShape DEF Stays, Types, Contexts
<1>4. /\ context'[c].call \in 1..(Len(Script[c]) + 1)
      /\ context'[c].step # "begin" => context'[c].call <= Len(Script[c])
      /\ context'[c].step = "begin" => ~context'[c].was
      /\ context'[c].step = "off" => Emits(c)'.switches
  <2>1. CASE Finishes(c)
    BY <1>3, <2>1 DEF Finishes
  <2>2. ASSUME NEW t, Goes(c, t), t = "off" => Emits(c).switches
        PROVE  /\ context'[c].call = context[c].call /\ context'[c].step # "begin"
               /\ context'[c].step = "off" => Emits(c)'.switches
    BY <1>3, <2>2 DEF Goes
  <2> QED BY <1>3, <2>1, <2>2
<1>5. /\ stack \in {<<"main">>, <<"main", "load">>} => c # "isr"
      /\ stack \in {<<"main">>, <<"main", "isr">>} => c # "load"
  <2>1. <<"main">> # <<"main", "load">> /\ <<"main", "isr">> # <<"main", "load">>
    OBVIOUS
  <2> QED BY <1>2, <1>3, <2>1, StackShape DEF Types
<1>6. \A d \in Contexts :
       /\ context'[d].call \in 1..(Len(Script[d]) + 1)
       /\ context'[d].step # "begin" => context'[d].call <= Len(Script[d])
       /\ context'[d].step = "begin" => ~context'[d].was
       /\ context'[d].step = "off" => Emits(d)'.switches
  BY <1>2, <1>3, <1>4 DEF CallInv
<1>7. /\ stack \in {<<"main">>, <<"main", "load">>} => context'["isr"].step = "begin"
      /\ stack \in {<<"main">>, <<"main", "isr">>} => context'["load"].step \in {"begin", "asleep"}
  BY <1>2, <1>3, <1>5 DEF CallInv, Contexts
<1> QED BY <1>3, <1>6, <1>7 DEF CallInv

\* The lock and the times of the others stay as they are.
LEMMA LockInvKept ==
  ASSUME IInv, NEW c \in Contexts, Stays(c), trace'[0] <= clock',
         context'[c].step = "time" => Emits(c)'.locks,
         context'[c].step \in {"time", "write"} /\ Emits(c)'.locks => locked',
         context'[c].step = "write" /\ Emits(c)'.locks => trace'[0] < context'[c].time
  PROVE  LockInv'
<1>1. LockInv /\ Running = c /\ Running' = c
  BY Framed DEF IInv, Stays
<1>2. ASSUME NEW d \in Contexts, d # c
      PROVE  /\ context'[d].step = "time" => Emits(d)'.locks
             /\ ~ (context'[d].step \in {"time", "write"} /\ Emits(d)'.locks)
  <2>1. context'[d] = context[d] /\ Emits(d)' = Emits(d)
    BY <1>2, Framed DEF Stays
  <2> QED BY <1>1, <1>2, <2>1 DEF LockInv
<1> QED BY <1>1, <1>2 DEF LockInv

\* While a thread does a step there is no handler, and the other thread is not concerned.
LEMMA ThreadStays ==
  ASSUME IInv, NEW c \in ThreadIds, Stays(c), \A d \in ThreadIds : d # c => instr'[d] = instr[d]
  PROVE  /\ HandlerInv' /\ \A d \in ThreadIds : d # c => Settled(d)'
         /\ Own(c) = instr[c] /\ Own(c)' = instr'[c]
<1>1. Running = c /\ Running' = c /\ c # "isr" /\ c \in Contexts /\ initially' = initially
  BY Framed DEF Stays, ThreadIds, Contexts
<1>2. \A d : Own(d) = instr[d] /\ Own(d)' = instr'[d]
  BY <1>1 DEF Own
<1>3. ASSUME NEW d \in ThreadIds, d # c PROVE Settled(d)'
  <2>1. d \in Contexts
    BY DEF ThreadIds, Contexts
  <2>2. context'[d] = context[d] /\ (Off(d)' <=> Off(d))
    BY <1>1, <1>3, <2>1, Framed DEF Stays
  <2>3. Own(d)' = Own(d)
    BY <1>2, <1>3
  <2> QED BY <1>1, <2>2, <2>3 DEF IInv, Settled
<1>4. HandlerInv'
  BY <1>1 DEF HandlerInv
<1> QED BY <1>2, <1>3, <1>4

\* While a handler does a step the threads do none.
LEMMA HandlerStays ==
  ASSUME IInv, Stays("isr"),
         \A d \in ThreadIds : d # SwitchOf("isr") => instr'[d] = instr[d],
         NEW u \in ThreadIds, u = SwitchOf("isr"), Own(u)' = Own(u)
  PROVE  \A d \in ThreadIds : Settled(d)'
<1>1. "isr" \in Contexts /\ \A d \in ThreadIds : d \in Contexts /\ d # "isr"
  BY DEF ThreadIds, Contexts
<1>2. initially' = initially /\ SwitchOf("isr")' = u
  BY <1>1, Framed
<1>3. ASSUME NEW d \in ThreadIds PROVE Settled(d)'
  <2>1. context'[d] = context[d] /\ (Off(d)' <=> Off(d))
    BY <1>1, Framed DEF Stays
  <2>2. Own(d)' = Own(d)
    <3>1. CASE d = u
      BY <3>1
    <3>2. CASE d # u
      BY <1>2, <3>2 DEF Own
    <3> QED BY <3>1, <3>2
  <2> QED BY <1>2, <2>1, <2>2 DEF IInv, Settled
<1> QED BY <1>3

----------------------------------------------------------------------------
(* The steps one by one *)

Contextual == [call: Nat, step: Steps, time: Nat, was: BOOLEAN]

\* A step writes the record of its context, and nothing that only wakeups and returns change.
LEMMA TypesKept ==
  ASSUME IInv, NEW c \in Contexts, NEW r \in Contextual, Stays(c),
         context' = [context EXCEPT ![c] = r], r.time <= clock',
         instr' \in [ThreadIds -> BOOLEAN], locked' \in BOOLEAN, clock' \in Nat, clock <= clock',
         trace' \in [{0, 1} -> Nat]
  PROVE  Types'
<1>1. Types
  BY DEF IInv
<1>2. context' \in [Contexts -> Contextual]
  BY <1>1 DEF Types, Contextual
<1>3. \A d \in Contexts : context'[d].time <= clock'
  <2> TAKE d \in Contexts
  <2>1. context[d].time \in Nat /\ context[d].time <= clock /\ clock \in Nat
    BY <1>1 DEF Types
  <2>2. context'[d] = IF d = c THEN r ELSE context[d]
    BY <1>1 DEF Types
  <2> QED BY <2>1, <2>2
<1> QED BY <1>1, <1>2, <1>3 DEF Types, Stays, setting, Contextual

\* The record of a context
LEMMA Record ==
  ASSUME IInv, NEW c \in Contexts, NEW s, AtStep(c, s)
  PROVE  /\ Running = c /\ context[c].step = s /\ context[c].call <= Len(Script[c])
         /\ context[c] \in Contextual /\ context[c].call \in Nat
         /\ context[c].time \in Nat /\ context[c].time <= clock /\ context[c].was \in BOOLEAN
         /\ clock \in Nat /\ trace \in [{0, 1} -> Nat]
         /\ instr \in [ThreadIds -> BOOLEAN] /\ locked \in BOOLEAN
         /\ SwitchOf(c) \in ThreadIds /\ EventShape(Emits(c))
         /\ trace[0] <= clock
<1>1. Running = c /\ context[c].step = s /\ context[c].call <= Len(Script[c])
  BY DEF AtStep
<1>2. context[c] \in Contextual
  BY DEF IInv, Types, Contextual
<1>3. SwitchOf(c) \in ThreadIds
  BY <1>1, StackShape DEF IInv, Types, SwitchOf, Contexts, ThreadIds
<1>4. EventShape(Emits(c))
  <2>1. Len(Script[c]) \in Int /\ context[c].call \in 1..(Len(Script[c]) + 1)
    BY ScriptShape DEF IInv, Types, CallInv, Contexts
  <2>2. context[c].call \in 1..Len(Script[c])
    BY <1>1, <2>1
  <2> QED BY <2>2, ScriptShape DEF IInv, Types, Emits
<1> QED BY <1>1, <1>2, <1>3, <1>4 DEF IInv, Types, LockInv, Contextual

\* The step writes record r.
LEMMA Writes ==
  ASSUME IInv, NEW c \in Contexts, NEW s, AtStep(c, s), NEW r, context' = [context EXCEPT ![c] = r]
  PROVE  Stays(c) /\ context'[c] = r
BY DEF IInv, Types, AtStep, Stays

\* Between off and on the switch does not move.
LEMMA InsideStep ==
  ASSUME IInv, NEW c \in Contexts, NEW t \in Inside, Goes(c, t), context[c].step \in Inside,
         context'[c].was = context[c].was, instr' = instr
  PROVE  HandlerInv' /\ \A d \in ThreadIds : Settled(d)'
<1>1. /\ Stays(c) /\ Running = c /\ Running' = c /\ SwitchOf("isr")' = SwitchOf("isr")
      /\ context'[c].step \in Inside /\ initially' = initially
      /\ SwitchOf(c) \in ThreadIds
      /\ context'[c].step # "off" /\ context[c].step # "off"
  BY Framed DEF Goes, Stays, Inside
<1>2. Off(c)' <=> Off(c)
  <2>1. Emits(c)' = Emits(c)
    BY <1>1, Framed DEF Goes
  <2> QED BY <1>1, <2>1 DEF Off
<1>3. CASE c \in ThreadIds
  <2>1. /\ HandlerInv' /\ \A d \in ThreadIds : d # c => Settled(d)'
        /\ Own(c) = instr[c] /\ Own(c)' = instr[c]
    BY <1>1, <1>3, ThreadStays
  <2>2. Settled(c)'
    BY <1>1, <1>2, <1>3, <2>1 DEF Settled, IInv
  <2> QED BY <2>1, <2>2
<1>4. CASE c = "isr"
  <2>1. PICK u \in ThreadIds : u = SwitchOf("isr") /\ u = SwitchOf("isr")'
    BY <1>1, <1>4
  <2>2. Own(u)' = Own(u)
    BY <1>1, <1>2, <1>4, <2>1 DEF Own
  <2>3. \A d \in ThreadIds : Settled(d)'
    BY <1>1, <1>4, <2>1, <2>2, HandlerStays
  <2>4. HandlerInv'
    BY <1>1, <1>2, <1>4, <2>1 DEF HandlerInv, IInv
  <2> QED BY <2>3, <2>4
<1> QED BY <1>3, <1>4 DEF Contexts, ThreadIds

LEMMA EmitUnlockedStep ==
  ASSUME IInv, NEW c \in Contexts, EmitUnlocked(c)
  PROVE  IInv'
<1>1. /\ AtStep(c, "emit") /\ UNCHANGED <<instr, locked, clock, trace>>
      /\ ~(IsOn(c) /\ Emits(c).locks)
  BY DEF EmitUnlocked
<1>t. PICK t \in {"write", "on", "sleep"} :
        /\ t = IF IsOn(c) THEN "write" ELSE AfterWrite(c)
        /\ context' = [context EXCEPT ![c].step = t]
  BY DEF EmitUnlocked, Goto, AfterWrite
<1>2. /\ context[c] \in Contextual /\ context[c].time <= clock
      /\ instr \in [ThreadIds -> BOOLEAN] /\ locked \in BOOLEAN /\ clock \in Nat
      /\ trace \in [{0, 1} -> Nat] /\ trace[0] <= clock /\ context[c].step = "emit"
  BY <1>1, Record
<1>r. PICK r \in Contextual : r = [context[c] EXCEPT !.step = t]
  BY <1>2 DEF Contextual, Steps
<1>3. /\ r.step = t /\ r.call = context[c].call /\ r.time = context[c].time
      /\ r.was = context[c].was
  BY <1>2, <1>r DEF Contextual
<1>4. context' = [context EXCEPT ![c] = r]
  BY <1>t, <1>r
<1>5. Stays(c) /\ context'[c] = r
  BY <1>1, <1>4, Writes
<1>6. Goes(c, t) /\ t \in Inside /\ t \notin {"begin", "off", "time"} /\ Emits(c)' = Emits(c)
  BY <1>3, <1>5, Framed DEF Goes, Inside
<1>7. Types'
  <2>1. /\ instr' \in [ThreadIds -> BOOLEAN] /\ locked' \in BOOLEAN /\ clock' \in Nat
        /\ clock <= clock' /\ trace' \in [{0, 1} -> Nat] /\ r.time <= clock'
    BY <1>1, <1>2, <1>3
  <2> QED BY <1>4, <1>5, <2>1, TypesKept
<1>8. CallInv'
  BY <1>6, CallInvKept
<1>9. LockInv'
  <2>1. t = "write" => ~Emits(c)'.locks
    BY <1>1, <1>6, <1>t DEF AfterWrite
  <2> QED BY <1>1, <1>2, <1>3, <1>5, <1>6, <2>1, LockInvKept
<1>10. HandlerInv' /\ \A d \in ThreadIds : Settled(d)'
  BY <1>1, <1>2, <1>3, <1>5, <1>6, InsideStep DEF Inside
<1> QED BY <1>7, <1>8, <1>9, <1>10 DEF IInv

LEMMA LockIrqStep ==
  ASSUME IInv, NEW c \in Contexts, LockIrq(c)
  PROVE  IInv'
<1>1. /\ AtStep(c, "emit") /\ UNCHANGED <<instr, clock, trace>> /\ locked' = TRUE
      /\ Emits(c).locks /\ context' = [context EXCEPT ![c].step = "time"]
  BY DEF LockIrq, Goto
<1>2. /\ context[c] \in Contextual /\ context[c].time <= clock
      /\ instr \in [ThreadIds -> BOOLEAN] /\ clock \in Nat
      /\ trace \in [{0, 1} -> Nat] /\ trace[0] <= clock /\ context[c].step = "emit"
  BY <1>1, Record
<1>r. PICK r \in Contextual : r = [context[c] EXCEPT !.step = "time"]
  BY <1>2 DEF Contextual, Steps
<1>3. /\ r.step = "time" /\ r.call = context[c].call /\ r.time = context[c].time
      /\ r.was = context[c].was
  BY <1>2, <1>r DEF Contextual
<1>4. context' = [context EXCEPT ![c] = r]
  BY <1>1, <1>r
<1>5. Stays(c) /\ context'[c] = r
  BY <1>1, <1>4, Writes
<1>6. Goes(c, "time") /\ "time" \in Inside /\ Emits(c)' = Emits(c)
  BY <1>3, <1>5, Framed DEF Goes, Inside
<1>7. Types'
  <2>1. /\ instr' \in [ThreadIds -> BOOLEAN] /\ locked' \in BOOLEAN /\ clock' \in Nat
        /\ clock <= clock' /\ trace' \in [{0, 1} -> Nat] /\ r.time <= clock'
    BY <1>1, <1>2, <1>3
  <2> QED BY <1>4, <1>5, <2>1, TypesKept
<1>8. CallInv'
  BY <1>6, CallInvKept
<1>9. LockInv'
  BY <1>1, <1>2, <1>3, <1>5, <1>6, LockInvKept
<1>10. HandlerInv' /\ \A d \in ThreadIds : Settled(d)'
  BY <1>1, <1>2, <1>3, <1>5, <1>6, InsideStep DEF Inside
<1> QED BY <1>7, <1>8, <1>9, <1>10 DEF IInv

\* The time is taken under the lock, and is later than any in the trace.
LEMMA TakeTimeStep ==
  ASSUME IInv, NEW c \in Contexts, TakeTime(c)
  PROVE  IInv'
<1>1. /\ AtStep(c, "time") /\ UNCHANGED <<instr, locked, trace>> /\ clock' = clock + 1
      /\ context' = [context EXCEPT ![c].step = "write", ![c].time = clock']
  BY DEF TakeTime, GotoWithTime
<1>2. /\ context[c] \in Contextual /\ context[c].step = "time"
      /\ instr \in [ThreadIds -> BOOLEAN] /\ clock \in Nat /\ locked \in BOOLEAN
      /\ trace \in [{0, 1} -> Nat] /\ trace[0] <= clock
  BY <1>1, Record
<1>a. clock <= clock' /\ clock' \in Nat /\ trace[0] < clock' /\ trace[0] <= clock'
  BY <1>1, <1>2
<1>r. PICK r \in Contextual : r = [context[c] EXCEPT !.step = "write", !.time = clock']
  <2>1. ASSUME NEW x \in Nat PROVE [context[c] EXCEPT !.step = "write", !.time = x] \in Contextual
    BY <1>2 DEF Contextual, Steps
  <2> QED BY <1>a, <2>1
<1>3. /\ r.step = "write" /\ r.call = context[c].call /\ r.time = clock'
      /\ r.was = context[c].was
  BY <1>2, <1>r DEF Contextual
<1>4. context' = [context EXCEPT ![c] = r]
  BY <1>1, <1>r
<1>5. Stays(c) /\ context'[c] = r
  BY <1>1, <1>4, Writes
<1>6. Goes(c, "write") /\ "write" \in Inside /\ Emits(c)' = Emits(c)
  BY <1>3, <1>5, Framed DEF Goes, Inside
<1>7. Types'
  <2>1. /\ instr' \in [ThreadIds -> BOOLEAN] /\ locked' \in BOOLEAN
        /\ trace' \in [{0, 1} -> Nat] /\ r.time <= clock'
    BY <1>1, <1>2, <1>3, <1>a
  <2> QED BY <1>4, <1>5, <1>a, <2>1, TypesKept
<1>8. CallInv'
  BY <1>6, CallInvKept
<1>9. LockInv'
  <2>1. locked'
    BY <1>1, <1>2 DEF IInv, LockInv
  <2>2. trace'[0] <= clock' /\ trace'[0] < context'[c].time /\ context'[c].step # "time"
    BY <1>1, <1>3, <1>5, <1>a
  <2> QED BY <1>5, <2>1, <2>2, LockInvKept
<1>10. HandlerInv' /\ \A d \in ThreadIds : Settled(d)'
  BY <1>1, <1>2, <1>3, <1>5, <1>6, InsideStep DEF Inside
<1> QED BY <1>7, <1>8, <1>9, <1>10 DEF IInv

LEMMA WriteEventStep ==
  ASSUME IInv, NEW c \in Contexts, WriteEvent(c)
  PROVE  IInv'
<1>t. PICK t \in {"on", "sleep"} : t = AfterWrite(c)
  BY DEF AfterWrite
<1>1. /\ AtStep(c, "write") /\ UNCHANGED <<instr, clock>> /\ locked' = FALSE
      /\ context' = [context EXCEPT ![c].step = t]
      /\ trace' = [trace EXCEPT ![Emits(c).stream] = context[c].time]
  BY <1>t DEF WriteEvent, Goto
<1>2. /\ context[c] \in Contextual /\ context[c].time <= clock /\ context[c].time \in Nat
      /\ instr \in [ThreadIds -> BOOLEAN] /\ clock \in Nat
      /\ trace \in [{0, 1} -> Nat] /\ trace[0] <= clock /\ context[c].step = "write"
      /\ Emits(c).stream \in {0, 1}
  BY <1>1, Record DEF EventShape
<1>r. PICK r \in Contextual : r = [context[c] EXCEPT !.step = t]
  BY <1>2 DEF Contextual, Steps
<1>3. /\ r.step = t /\ r.call = context[c].call /\ r.time = context[c].time
      /\ r.was = context[c].was
  BY <1>2, <1>r DEF Contextual
<1>4. context' = [context EXCEPT ![c] = r]
  BY <1>1, <1>r
<1>5. Stays(c) /\ context'[c] = r
  BY <1>1, <1>4, Writes
<1>6. Goes(c, t) /\ t \in Inside /\ t \notin {"off", "time", "write"}
  BY <1>3, <1>5 DEF Goes, Inside
<1>a. trace' \in [{0, 1} -> Nat] /\ trace'[0] <= clock'
  BY <1>1, <1>2
<1>7. Types'
  <2>1. instr' \in [ThreadIds -> BOOLEAN] /\ locked' \in BOOLEAN
    BY <1>1, <1>2
  <2>2. clock' = clock /\ clock' \in Nat
    BY <1>1, <1>2
  <2>3. clock <= clock' /\ r.time <= clock'
    BY <1>2, <1>3, <2>2
  <2> QED BY <1>4, <1>5, <1>a, <2>1, <2>2, <2>3, TypesKept
<1>8. CallInv'
  BY <1>6, CallInvKept
<1>9. LockInv'
  BY <1>3, <1>5, <1>6, <1>a, LockInvKept
<1>10. HandlerInv' /\ \A d \in ThreadIds : Settled(d)'
  BY <1>1, <1>2, <1>3, <1>5, <1>6, InsideStep DEF Inside
<1> QED BY <1>7, <1>8, <1>9, <1>10 DEF IInv

\* Looking at the switch
LEMMA LookAtSwitchStep ==
  ASSUME IInv, NEW c \in Contexts, LookAtSwitch(c)
  PROVE  IInv'
<1>u. PICK u \in ThreadIds : u = SwitchOf(c)
  BY Record DEF LookAtSwitch
<1>1. /\ AtStep(c, "begin") /\ UNCHANGED <<instr, locked, trace>> /\ Emits(c).switches
      /\ clock' = IF Emits(c).locks THEN clock ELSE clock + 1
      /\ context' = [context EXCEPT ![c].step = "off", ![c].was = instr[u],
                                    ![c].time = IF Emits(c).locks THEN 0 ELSE clock']
  BY <1>u DEF LookAtSwitch
<1>2. /\ context[c] \in Contextual /\ context[c].step = "begin"
      /\ instr \in [ThreadIds -> BOOLEAN] /\ clock \in Nat /\ locked \in BOOLEAN
      /\ trace \in [{0, 1} -> Nat] /\ trace[0] <= clock
  BY <1>1, Record
<1>a. /\ clock <= clock' /\ clock' \in Nat /\ trace[0] <= clock' /\ 0 <= clock'
  BY <1>1, <1>2
<1>x. PICK x \in Nat : x = (IF Emits(c).locks THEN 0 ELSE clock') /\ x <= clock'
  BY <1>a
<1>r. PICK r \in Contextual : r = [context[c] EXCEPT !.step = "off", !.was = instr[u], !.time = x]
  BY <1>2 DEF Contextual, Steps
<1>3. r.step = "off" /\ r.call = context[c].call /\ r.time = x /\ r.was = instr[u]
  BY <1>2, <1>r DEF Contextual
<1>4. context' = [context EXCEPT ![c] = r]
  BY <1>1, <1>r, <1>x
<1>5. Stays(c) /\ context'[c] = r
  BY <1>1, <1>4, Writes
<1>6. Goes(c, "off")
  BY <1>3, <1>5 DEF Goes
<1>7. Types'
  <2>1. instr' \in [ThreadIds -> BOOLEAN] /\ locked' \in BOOLEAN /\ trace' \in [{0, 1} -> Nat]
    BY <1>1, <1>2
  <2> QED BY <1>3, <1>4, <1>5, <1>a, <1>x, <2>1, TypesKept
<1>8. CallInv'
  BY <1>1, <1>6, CallInvKept
<1>9. LockInv'
  <2>1. trace'[0] <= clock' /\ context'[c].step = "off"
    BY <1>1, <1>3, <1>5, <1>a
  <2> QED BY <1>5, <2>1, LockInvKept
<1>10. HandlerInv' /\ \A d \in ThreadIds : Settled(d)'
  <2>1. /\ ~Off(c) /\ ~Off(c)' /\ context'[c].step = "off" /\ context'[c].was = instr[u]
        /\ instr' = instr /\ initially' = initially /\ Running' = Running /\ Running = c
        /\ SwitchOf(c)' = u
    BY <1>1, <1>2, <1>3, <1>5, <1>u, Framed DEF Off, Inside, Stays
  <2>2. CASE c \in ThreadIds
    <3>1. /\ HandlerInv' /\ \A d \in ThreadIds : d # c => Settled(d)'
          /\ Own(c) = instr[c] /\ Own(c)' = instr[c]
      BY <1>5, <2>1, <2>2, ThreadStays
    <3>2. u = c
      BY <1>u, <2>2 DEF SwitchOf, ThreadIds
    <3>3. instr[c] = initially[c]
      BY <1>2, <2>2, <3>1 DEF IInv, Settled, Inside
    <3>4. Settled(c)'
      BY <2>1, <3>1, <3>2, <3>3 DEF Settled, Inside
    <3> QED BY <3>1, <3>4
  <2>3. CASE c = "isr"
    <3>1. Own(u)' = Own(u)
      BY <2>1, <2>3 DEF Own
    <3>2. \A d \in ThreadIds : Settled(d)'
      BY <1>5, <1>u, <2>1, <2>3, <3>1, HandlerStays
    <3>3. HandlerInv'
      BY <1>u, <2>1, <2>3 DEF HandlerInv, Inside
    <3> QED BY <3>2, <3>3
  <2> QED BY <2>2, <2>3 DEF Contexts, ThreadIds
<1> QED BY <1>7, <1>8, <1>9, <1>10 DEF IInv

\* A call is over: whoever's switch was used has it as it is without the handler.
LEMMA Begun ==
  ASSUME IInv, NEW c \in Contexts, Finishes(c), NEW u \in ThreadIds, u = SwitchOf(c),
         \A d \in ThreadIds : d # u => instr'[d] = instr[d],
         c \in ThreadIds => instr'[u] = initially[u],
         c = "isr" => instr'[u] = Own(u)
  PROVE  HandlerInv' /\ \A d \in ThreadIds : Settled(d)'
<1>1. /\ Stays(c) /\ Running = c /\ Running' = c /\ SwitchOf(c)' = u
      /\ context'[c].step = "begin" /\ initially' = initially
  BY Framed DEF Finishes, Stays
<1>2. ~Off(c)'
  BY <1>1 DEF Off, Inside
<1>3. CASE c \in ThreadIds
  <2>1. u = c
    BY <1>3 DEF SwitchOf, ThreadIds
  <2>2. HandlerInv' /\ (\A d \in ThreadIds : d # c => Settled(d)') /\ Own(c)' = instr'[c]
    BY <1>1, <1>3, <2>1, ThreadStays
  <2>3. Settled(c)'
    BY <1>1, <1>2, <1>3, <2>1, <2>2 DEF Settled, Inside
  <2> QED BY <2>2, <2>3
<1>4. CASE c = "isr"
  <2>1. Own(u)' = Own(u)
    BY <1>1, <1>2, <1>4 DEF Own
  <2>2. \A d \in ThreadIds : Settled(d)'
    BY <1>1, <1>4, <2>1, HandlerStays
  <2>3. HandlerInv'
    BY <1>1, <1>2, <1>4 DEF HandlerInv, Inside
  <2> QED BY <2>2, <2>3
<1> QED BY <1>3, <1>4 DEF Contexts, ThreadIds

\* What a call that ends writes
Over(c) == [call |-> context[c].call + 1, step |-> "begin", time |-> 0, was |-> FALSE]

LEMMA FinishCallStep ==
  ASSUME IInv, NEW c \in Contexts, NEW s, AtStep(c, s), FinishCall(c),
         instr' \in [ThreadIds -> BOOLEAN], UNCHANGED <<locked, clock, trace>>
  PROVE  Finishes(c) /\ Types' /\ CallInv' /\ LockInv'
<1>1. /\ context[c] \in Contextual /\ context[c].call \in Nat /\ clock \in Nat
      /\ trace \in [{0, 1} -> Nat] /\ trace[0] <= clock /\ locked \in BOOLEAN
  BY Record
<1>r. PICK r \in Contextual : r = Over(c)
  <2>1. context[c].call + 1 \in Nat /\ "begin" \in Steps
    BY <1>1 DEF Steps
  <2>2. Over(c) \in Contextual
    BY <2>1 DEF Contextual, Over
  <2> QED BY <2>2
<1>2. r.step = "begin" /\ r.call = context[c].call + 1 /\ r.time = 0 /\ ~r.was
  BY <1>r DEF Over
<1>3. context' = [context EXCEPT ![c] = r]
  <2>1. c \in DOMAIN context
    BY DEF IInv, Types
  <2> QED BY <1>r, <2>1 DEF FinishCall, Over
<1>4. Stays(c) /\ context'[c] = r
  BY <1>3, Writes
<1>5. Finishes(c)
  BY <1>2, <1>4 DEF Finishes
<1>6. clock' = clock /\ clock' \in Nat /\ locked' \in BOOLEAN /\ trace' \in [{0, 1} -> Nat]
  BY <1>1
<1>7. clock <= clock' /\ r.time <= clock' /\ trace'[0] <= clock'
  BY <1>1, <1>2, <1>6
<1>8. Types'
  BY <1>3, <1>4, <1>6, <1>7, TypesKept
<1>9. CallInv'
  BY <1>5, CallInvKept
<1>10. LockInv'
  BY <1>2, <1>4, <1>7, LockInvKept
<1> QED BY <1>5, <1>8, <1>9, <1>10

\* A call that turns nothing off goes on.
LEMMA UnswitchedStep ==
  ASSUME IInv, NEW c \in Contexts, NEW t \in Inside, Goes(c, t), context[c].step = "begin",
         ~Emits(c).switches, context'[c].was = context[c].was, instr' = instr
  PROVE  HandlerInv' /\ \A d \in ThreadIds : Settled(d)'
<1>1. /\ Stays(c) /\ Running = c /\ Running' = c /\ SwitchOf(c)' = SwitchOf(c)
      /\ context'[c].step \in Inside /\ context'[c].step # "off" /\ ~context'[c].was
      /\ initially' = initially /\ SwitchOf(c) \in ThreadIds /\ Emits(c)' = Emits(c)
  BY Framed DEF Goes, Stays, Inside, IInv, CallInv
<1>2. ~Off(c) /\ ~Off(c)'
  BY <1>1 DEF Off
<1>3. CASE c \in ThreadIds
  <2>1. /\ HandlerInv' /\ \A d \in ThreadIds : d # c => Settled(d)'
        /\ Own(c) = instr[c] /\ Own(c)' = instr[c]
    BY <1>1, <1>3, ThreadStays
  <2>2. instr[c] = initially[c]
    BY <1>3, <2>1 DEF IInv, Settled, Inside
  <2>3. Settled(c)'
    BY <1>1, <1>2, <2>1, <2>2 DEF Settled, Inside
  <2> QED BY <2>1, <2>3
<1>4. CASE c = "isr"
  <2>1. PICK u \in ThreadIds : u = SwitchOf(c)
    BY <1>1
  <2>2. Own(u)' = Own(u)
    BY <1>1, <1>2, <1>4 DEF Own
  <2>3. \A d \in ThreadIds : Settled(d)'
    BY <1>1, <1>4, <2>1, <2>2, HandlerStays
  <2>4. HandlerInv'
    BY <1>1, <1>2, <1>4 DEF HandlerInv
  <2> QED BY <2>3, <2>4
<1> QED BY <1>3, <1>4 DEF Contexts, ThreadIds

LEMMA KeepSwitchStep ==
  ASSUME IInv, NEW c \in Contexts, KeepSwitch(c)
  PROVE  IInv'
<1>1. /\ AtStep(c, "begin") /\ UNCHANGED <<instr, locked, clock, trace>> /\ ~Emits(c).switches
      /\ context' = [context EXCEPT ![c].step = "emit"]
  BY DEF KeepSwitch, Goto
<1>2. /\ context[c] \in Contextual /\ context[c].step = "begin" /\ context[c].time <= clock
      /\ instr \in [ThreadIds -> BOOLEAN] /\ clock \in Nat /\ locked \in BOOLEAN
      /\ trace \in [{0, 1} -> Nat] /\ trace[0] <= clock /\ SwitchOf(c) \in ThreadIds
      /\ ~context[c].was
  BY <1>1, Record DEF IInv, CallInv
<1>r. PICK r \in Contextual : r = [context[c] EXCEPT !.step = "emit"]
  BY <1>2 DEF Contextual, Steps
<1>3. /\ r.step = "emit" /\ r.call = context[c].call /\ r.time = context[c].time
      /\ r.was = context[c].was
  BY <1>2, <1>r DEF Contextual
<1>4. context' = [context EXCEPT ![c] = r]
  BY <1>1, <1>r
<1>5. Stays(c) /\ context'[c] = r
  BY <1>1, <1>4, Writes
<1>6. Goes(c, "emit") /\ Emits(c)' = Emits(c)
  BY <1>3, <1>5, Framed DEF Goes
<1>7. Types'
  <2>1. /\ instr' \in [ThreadIds -> BOOLEAN] /\ locked' \in BOOLEAN /\ clock' \in Nat
        /\ clock <= clock' /\ trace' \in [{0, 1} -> Nat] /\ r.time <= clock'
    BY <1>1, <1>2, <1>3
  <2> QED BY <1>4, <1>5, <2>1, TypesKept
<1>8. CallInv'
  BY <1>6, CallInvKept
<1>9. LockInv'
  BY <1>1, <1>2, <1>3, <1>5, LockInvKept
<1>10. HandlerInv' /\ \A d \in ThreadIds : Settled(d)'
  BY <1>1, <1>2, <1>3, <1>5, <1>6, UnswitchedStep DEF Inside
<1> QED BY <1>7, <1>8, <1>9, <1>10 DEF IInv

LEMMA ReturnIfDisabledStep ==
  ASSUME IInv, NEW c \in Contexts, ReturnIfDisabled(c)
  PROVE  IInv'
<1>1. AtStep(c, "begin") /\ UNCHANGED <<instr, locked, clock, trace>> /\ Emits(c).first
  BY DEF ReturnIfDisabled
<1>2. /\ context[c] \in Contextual /\ context[c].step = "begin" /\ context[c].time <= clock
      /\ instr \in [ThreadIds -> BOOLEAN] /\ clock \in Nat /\ locked \in BOOLEAN
      /\ trace \in [{0, 1} -> Nat] /\ trace[0] <= clock /\ SwitchOf(c) \in ThreadIds
  BY <1>1, Record
<1>3. CASE c = "load"
  <2>1. context' = [context EXCEPT ![c].step = "sleep"]
    BY <1>3 DEF ReturnIfDisabled, Finish, Goto
  <2>r. PICK r \in Contextual : r = [context[c] EXCEPT !.step = "sleep"]
    BY <1>2 DEF Contextual, Steps
  <2>2. /\ r.step = "sleep" /\ r.call = context[c].call /\ r.time = context[c].time
        /\ r.was = context[c].was
    BY <1>2, <2>r DEF Contextual
  <2>3. context' = [context EXCEPT ![c] = r]
    BY <2>1, <2>r
  <2>4. Stays(c) /\ context'[c] = r
    BY <1>1, <2>3, Writes
  <2>5. Goes(c, "sleep")
    BY <2>2, <2>4 DEF Goes
  <2>6. Types'
    <3>1. /\ instr' \in [ThreadIds -> BOOLEAN] /\ locked' \in BOOLEAN /\ clock' \in Nat
          /\ clock <= clock' /\ trace' \in [{0, 1} -> Nat] /\ r.time <= clock'
      BY <1>1, <1>2, <2>2
    <3> QED BY <2>3, <2>4, <3>1, TypesKept
  <2>7. CallInv'
    BY <2>5, CallInvKept
  <2>8. LockInv'
    BY <1>1, <1>2, <2>2, <2>4, LockInvKept
  <2>9. ~Emits(c).switches
    <3>1. build \in Builds
      BY DEF IInv, Types
    <3>2. context[c].call = 1
      BY <1>3, <2>4, <3>1, Framed, ScriptShape
    <3> QED BY <1>1, <1>3, <3>1, <3>2, ScriptShape DEF Emits
  <2>10. HandlerInv' /\ \A d \in ThreadIds : Settled(d)'
    BY <1>1, <1>2, <2>2, <2>4, <2>5, <2>9, UnswitchedStep DEF Inside
  <2> QED BY <2>6, <2>7, <2>8, <2>10 DEF IInv
<1>4. CASE c # "load"
  <2>1. FinishCall(c)
    BY <1>4 DEF ReturnIfDisabled, Finish
  <2>2. instr' = instr /\ instr' \in [ThreadIds -> BOOLEAN]
    BY <1>1, <1>2
  <2>3. Finishes(c) /\ Types' /\ CallInv' /\ LockInv'
    BY <1>1, <2>1, <2>2, FinishCallStep
  <2>4. PICK u \in ThreadIds : u = SwitchOf(c)
    BY <1>2
  <2>5. ~Off(c) /\ Stays(c)
    BY <1>2, <2>3 DEF Off, Inside, Finishes
  <2>6. c \in ThreadIds => instr'[u] = initially[u]
    <3>1. SUFFICES ASSUME c \in ThreadIds PROVE instr[u] = initially[u]
      BY <2>2
    <3>2. u = c /\ Own(c) = instr[c]
      BY <2>2, <2>4, <2>5, <3>1, ThreadStays DEF SwitchOf, ThreadIds
    <3> QED BY <1>2, <3>1, <3>2 DEF IInv, Settled, Inside
  <2>7. c = "isr" => instr'[u] = Own(u)
    BY <2>2, <2>5 DEF Own
  <2>8. HandlerInv' /\ \A d \in ThreadIds : Settled(d)'
    BY <2>2, <2>3, <2>4, <2>6, <2>7, Begun
  <2> QED BY <2>3, <2>8 DEF IInv
<1> QED BY <1>3, <1>4

\* What the switch was is kept by who turned it off.
LEMMA TurnOffStep ==
  ASSUME IInv, NEW c \in Contexts, TurnOff(c)
  PROVE  IInv'
<1>u. PICK u \in ThreadIds : u = SwitchOf(c)
  BY Record DEF TurnOff
<1>1. /\ AtStep(c, "off") /\ UNCHANGED <<locked, clock, trace>>
      /\ context' = [context EXCEPT ![c].step = "emit"]
      /\ instr' = [instr EXCEPT ![u] = @ /\ ~context[c].was]
  BY <1>u DEF TurnOff, Goto
<1>2. /\ context[c] \in Contextual /\ context[c].step = "off" /\ context[c].time <= clock
      /\ instr \in [ThreadIds -> BOOLEAN] /\ clock \in Nat /\ locked \in BOOLEAN
      /\ trace \in [{0, 1} -> Nat] /\ trace[0] <= clock /\ context[c].was \in BOOLEAN
  BY <1>1, Record
<1>r. PICK r \in Contextual : r = [context[c] EXCEPT !.step = "emit"]
  BY <1>2 DEF Contextual, Steps
<1>3. /\ r.step = "emit" /\ r.call = context[c].call /\ r.time = context[c].time
      /\ r.was = context[c].was
  BY <1>2, <1>r DEF Contextual
<1>4. context' = [context EXCEPT ![c] = r]
  BY <1>1, <1>r
<1>5. Stays(c) /\ context'[c] = r
  BY <1>1, <1>4, Writes
<1>6. Goes(c, "emit") /\ Emits(c)' = Emits(c) /\ Emits(c).switches
  BY <1>2, <1>3, <1>5, Framed DEF Goes, IInv, CallInv
<1>i. /\ instr' \in [ThreadIds -> BOOLEAN] /\ (instr'[u] <=> instr[u] /\ ~context[c].was)
      /\ \A d \in ThreadIds : d # u => instr'[d] = instr[d]
  BY <1>1, <1>2
<1>7. Types'
  <2>1. /\ locked' \in BOOLEAN /\ clock' \in Nat
        /\ clock <= clock' /\ trace' \in [{0, 1} -> Nat] /\ r.time <= clock'
    BY <1>1, <1>2, <1>3
  <2> QED BY <1>4, <1>5, <1>i, <2>1, TypesKept
<1>8. CallInv'
  BY <1>6, CallInvKept
<1>9. LockInv'
  BY <1>1, <1>2, <1>3, <1>5, LockInvKept
<1>10. HandlerInv' /\ \A d \in ThreadIds : Settled(d)'
  <2>1. /\ ~Off(c) /\ Off(c)' /\ context'[c].step = "emit" /\ context'[c].was = context[c].was
        /\ initially' = initially /\ Running' = Running /\ Running = c /\ SwitchOf(c)' = u
    BY <1>2, <1>3, <1>5, <1>6, <1>u, Framed DEF Off, Inside, Stays
  <2>2. CASE c \in ThreadIds
    <3>0. u = c
      BY <1>u, <2>2 DEF SwitchOf, ThreadIds
    <3>1. /\ HandlerInv' /\ \A d \in ThreadIds : d # c => Settled(d)'
          /\ Own(c) = instr[c] /\ Own(c)' = instr'[c]
      BY <1>5, <1>i, <2>2, <3>0, ThreadStays
    <3>2. instr[c] = initially[c] /\ context[c].was = initially[c]
      BY <1>2, <2>2, <3>1 DEF IInv, Settled, Inside
    <3>3. ~instr'[c]
      BY <1>i, <3>0, <3>2
    <3>4. Settled(c)'
      BY <2>1, <3>1, <3>2, <3>3 DEF Settled, Inside
    <3> QED BY <3>1, <3>4
  <2>3. CASE c = "isr"
    <3>1. context[c].was = instr[u]
      BY <1>2, <1>u, <2>1, <2>3 DEF IInv, HandlerInv
    <3>2. ~instr'[u]
      BY <1>i, <3>1
    <3>3. Own(u)' = Own(u)
      BY <1>u, <2>1, <2>3, <3>1 DEF Own
    <3>4. \A d \in ThreadIds : Settled(d)'
      BY <1>5, <1>i, <1>u, <2>3, <3>3, HandlerStays
    <3>5. HandlerInv'
      BY <2>1, <2>3, <3>2 DEF HandlerInv
    <3> QED BY <3>4, <3>5
  <2> QED BY <2>2, <2>3 DEF Contexts, ThreadIds
<1> QED BY <1>7, <1>8, <1>9, <1>10 DEF IInv

LEMMA TurnOnStep ==
  ASSUME IInv, NEW c \in Contexts, TurnOn(c)
  PROVE  IInv'
<1>u. PICK u \in ThreadIds : u = SwitchOf(c)
  BY Record DEF TurnOn
<1>1. /\ AtStep(c, "on") /\ UNCHANGED <<locked, clock, trace>> /\ FinishCall(c)
      /\ instr' = [instr EXCEPT ![u] = @ \/ context[c].was]
  BY <1>u DEF TurnOn
<1>2. /\ context[c].step = "on" /\ instr \in [ThreadIds -> BOOLEAN]
      /\ context[c].was \in BOOLEAN /\ initially \in [ThreadIds -> BOOLEAN]
  BY <1>1, Record DEF IInv, Types
<1>i. /\ instr' \in [ThreadIds -> BOOLEAN] /\ instr'[u] = (instr[u] \/ context[c].was)
      /\ \A d \in ThreadIds : d # u => instr'[d] = instr[d]
  BY <1>1, <1>2
<1>3. Finishes(c) /\ Types' /\ CallInv' /\ LockInv'
  BY <1>1, <1>i, FinishCallStep
<1>4. Stays(c) /\ Running = c
  BY <1>3 DEF Finishes, Stays
<1>5. c \in ThreadIds => instr'[u] = initially[u]
  <2>1. SUFFICES ASSUME c \in ThreadIds PROVE instr'[u] = initially[u]
    OBVIOUS
  <2>2. u = c /\ Own(c) = instr[c]
    BY <1>i, <1>4, <1>u, <2>1, ThreadStays DEF SwitchOf, ThreadIds
  <2>3. Settled(c)
    BY <2>1 DEF IInv
  <2>4. initially[c] \in BOOLEAN /\ instr[c] \in BOOLEAN
    BY <1>2, <2>1
  <2>5. \/ ~instr[c] /\ context[c].was = initially[c]
        \/ instr[c] = initially[c] /\ ~context[c].was
    BY <1>2, <2>2, <2>3, <2>4 DEF Settled, Inside
  <2> QED BY <1>2, <1>i, <2>2, <2>4, <2>5
<1>6. c = "isr" => instr'[u] = Own(u)
  <2>1. SUFFICES ASSUME c = "isr" PROVE instr'[u] = Own(u)
    OBVIOUS
  <2>2. instr[u] \in BOOLEAN
    BY <1>2
  <2>3. CASE Off(c)
    <3>1. ~instr[u] /\ Own(u) = context[c].was
      BY <1>4, <1>u, <2>1, <2>3 DEF IInv, HandlerInv, Own
    <3> QED BY <1>2, <1>i, <3>1
  <2>4. CASE ~Off(c)
    <3>1. ~context[c].was /\ Own(u) = instr[u]
      BY <1>2, <1>4, <2>1, <2>4 DEF IInv, HandlerInv, Own, Inside
    <3> QED BY <1>i, <2>2, <3>1
  <2> QED BY <2>3, <2>4
<1>7. HandlerInv' /\ \A d \in ThreadIds : Settled(d)'
  BY <1>3, <1>5, <1>6, <1>i, <1>u, Begun
<1> QED BY <1>3, <1>7 DEF IInv

----------------------------------------------------------------------------
(* Interrupts and preemption *)

\* Nobody is between taking the time and writing an event that locks interrupts.
Unlocked == \A d \in Contexts : ~ (context[d].step \in {"time", "write"} /\ Emits(d).locks)

\* The CPU changes hands.  The contexts stay where they are, but that a profiler falls asleep or
\* wakes up in its call, and that a script starts again.
LEMMA Moved ==
  ASSUME IInv, Unlocked, UNCHANGED <<setting, instr, locked, clock, trace>>, stack' \in Stacks,
         NEW c \in {"isr", "load"}, NEW r \in Contextual, context' = [context EXCEPT ![c] = r],
         r.time = context[c].time, r.was = context[c].was,
         \/ r.step = context[c].step
         \/ context[c].step = "sleep" /\ r.step = "asleep"
         \/ context[c].step = "asleep" /\ r.step = "on",
         \/ r.call = context[c].call
         \/ r.step = "begin" /\ r.call = 1,
         context["isr"].step = "begin",
         stack' \in {<<"main">>, <<"main", "isr">>} => context'["load"].step \in {"begin", "asleep"}
  PROVE  IInv'
<1>1. /\ build' = build /\ conf' = conf /\ initially' = initially /\ Script' = Script
      /\ instr' = instr /\ locked' = locked /\ clock' = clock /\ trace' = trace
  BY DEF setting, Script
<1>2. /\ c \in Contexts /\ "isr" \in Contexts /\ "load" \in Contexts
      /\ context \in [Contexts -> Contextual]
      /\ \A d \in Contexts : d # c => context'[d] = context[d]
      /\ context'[c] = r
  BY DEF IInv, Types, Contexts, Contextual
<1>3. context'["isr"].step = "begin"
  BY <1>2
<1>4. \A d \in Contexts :
        /\ context'[d].time = context[d].time /\ context'[d].was = context[d].was
        /\ \/ context'[d].step = context[d].step
           \/ context[d].step = "sleep" /\ context'[d].step = "asleep"
           \/ context[d].step = "asleep" /\ context'[d].step = "on"
        /\ \/ context'[d].call = context[d].call
           \/ context'[d].step = "begin" /\ context'[d].call = 1
  BY <1>2
<1>5. \A d \in Contexts : context'[d].step # "begin" => Emits(d)' = Emits(d)
  BY <1>1, <1>4 DEF Emits
<1>6. \A d \in Contexts : Off(d)' <=> Off(d)
  BY <1>4, <1>5 DEF Off, Inside
<1>7. Types'
  <2>1. context' \in [Contexts -> Contextual]
    BY <1>2
  <2>2. \A d \in Contexts : context'[d].time <= clock'
    BY <1>1, <1>4 DEF IInv, Types
  <2> QED BY <1>1, <2>1, <2>2 DEF IInv, Types, Contextual
<1>8. CallInv'
  <2>1. \A d \in Contexts : 1 \in 1..(Len(Script[d]) + 1)
    BY ScriptShape DEF IInv, Types, Contexts
  <2>2. \A d \in Contexts : context'[d].call \in 1..(Len(Script[d]) + 1)
    BY <1>4, <2>1 DEF IInv, CallInv
  <2>3. \A d \in Contexts :
          /\ context'[d].step # "begin" => context'[d].call <= Len(Script[d])
          /\ context'[d].step = "begin" => ~context'[d].was
          /\ context'[d].step = "off" => Emits(d)'.switches
    BY <1>4, <1>5 DEF IInv, CallInv
  <2> QED BY <1>1, <1>3, <2>2, <2>3 DEF CallInv
<1>9. LockInv'
  <2>1. \A d \in Contexts : /\ context'[d].step = "time" => Emits(d)'.locks
                            /\ ~ (context'[d].step \in {"time", "write"} /\ Emits(d)'.locks)
    BY <1>4, <1>5 DEF IInv, LockInv, Unlocked
  <2> QED BY <1>1, <2>1 DEF IInv, LockInv
<1>10. HandlerInv' /\ \A d \in ThreadIds : Settled(d)'
  <2>1. ~Off("isr") /\ ~Off("isr")'
    BY <1>2, <1>3, <1>6 DEF Off, Inside
  <2>2. HandlerInv'
    BY <1>3, <2>1 DEF HandlerInv, Inside
  <2>3. \A d \in ThreadIds : Own(d)' = Own(d)
    BY <1>1, <2>1 DEF Own
  <2>4. ASSUME NEW d \in ThreadIds PROVE Settled(d)'
    <3>1. d \in Contexts /\ Settled(d)
      BY DEF IInv, ThreadIds, Contexts
    <3>2. /\ Own(d)' = Own(d) /\ initially' = initially /\ (Off(d)' <=> Off(d))
          /\ context'[d].was = context[d].was
          /\ context'[d].step \in Inside <=> context[d].step \in Inside
          /\ context'[d].step = "off" => context[d].step = "off"
      BY <1>1, <1>4, <1>6, <2>3, <3>1 DEF Inside
    <3> QED BY <3>1, <3>2 DEF Settled
  <2> QED BY <2>2, <2>4
<1> QED BY <1>7, <1>8, <1>9, <1>10 DEF IInv

\* What holds of a context that can be interrupted, or returns
LEMMA Handover ==
  ASSUME IInv
  PROVE  /\ Running \in Contexts /\ stack \in Stacks
         /\ \A c \in Contexts : /\ context[c] \in Contextual
                                /\ context[c].call > Len(Script[c]) => context[c].step = "begin"
         /\ ~locked => Unlocked
         /\ context[Running].step \notin {"time", "write"} => Unlocked
         /\ Running # "isr" => context["isr"].step = "begin"
         /\ stack \in {<<"main">>, <<"main", "isr">>} => context["load"].step \in {"begin", "asleep"}
         /\ Running = "main" => stack = <<"main">>
         /\ Running = "load" => stack = <<"main", "load">>
<1>1. stack \in Stacks /\ Running \in Contexts
  BY StackShape DEF IInv, Types
<1>2. \A c \in Contexts : /\ context[c] \in Contextual
                          /\ context[c].call > Len(Script[c]) => context[c].step = "begin"
  <2>1. \A c \in Contexts : Len(Script[c]) \in Int /\ context[c].call \in Nat
    BY ScriptShape DEF IInv, Types, Contexts
  <2> QED BY <2>1 DEF IInv, Types, CallInv, Contextual
<1>3. /\ ~locked => Unlocked
      /\ context[Running].step \notin {"time", "write"} => Unlocked
  BY DEF IInv, LockInv, Unlocked
<1>4. Running # "isr" => stack \in {<<"main">>, <<"main", "load">>}
  BY <1>1, StackShape DEF Contexts
<1> QED BY <1>1, <1>2, <1>3, <1>4, StackShape DEF IInv, CallInv

LEMMA TimerFiresStep ==
  ASSUME IInv, TimerFires
  PROVE  IInv'
<1>1. /\ Running # "isr" /\ ~locked /\ stack' = Append(stack, "isr")
      /\ context' = [context EXCEPT !["isr"].step = "begin", !["isr"].call = 1]
      /\ UNCHANGED <<setting, instr, locked, clock, trace>>
  BY DEF TimerFires, Enter
<1>2. /\ Unlocked /\ context["isr"].step = "begin" /\ context["isr"] \in Contextual
      /\ stack \in Stacks
      /\ \/ stack = <<"main">> /\ Running = "main"
         \/ stack = <<"main", "load">> /\ Running = "load"
  BY <1>1, Handover DEF Contexts
<1>r. PICK r \in Contextual : r = [context["isr"] EXCEPT !.step = "begin", !.call = 1]
  BY <1>2 DEF Contextual, Steps
<1>3. /\ r.step = "begin" /\ r.call = 1 /\ r.time = context["isr"].time
      /\ r.was = context["isr"].was
  BY <1>2, <1>r DEF Contextual
<1>4. context' = [context EXCEPT !["isr"] = r]
  BY <1>1, <1>r
<1>5. context'["load"] = context["load"]
  BY <1>4 DEF IInv, Types, Contexts
<1>6. /\ stack' \in Stacks
      /\ stack' \in {<<"main">>, <<"main", "isr">>} => stack = <<"main">>
  <2>1. CASE Running = "main"
    BY <1>1, <1>2, <2>1, StackMoves DEF Stacks
  <2>2. CASE Running = "load"
    <3>1. stack' = <<"main", "load", "isr">>
      BY <1>1, <1>2, <2>2, StackMoves
    <3> QED BY <3>1 DEF Stacks
  <2> QED BY <1>2, <2>1, <2>2
<1>7. stack' \in {<<"main">>, <<"main", "isr">>} => context'["load"].step \in {"begin", "asleep"}
  BY <1>5, <1>6, Handover
<1> QED BY <1>1, <1>2, <1>3, <1>4, <1>6, <1>7, Moved

LEMMA HandlerReturnsStep ==
  ASSUME IInv, HandlerReturns
  PROVE  IInv'
<1>1. /\ Running = "isr" /\ context["isr"].call > Len(Script["isr"])
      /\ stack' = SubSeq(stack, 1, Len(stack) - 1)
      /\ context' = [context EXCEPT !["isr"].step = "begin"]
      /\ UNCHANGED <<setting, instr, locked, clock, trace>>
  BY DEF HandlerReturns, Leave
<1>2. /\ Unlocked /\ context["isr"].step = "begin" /\ context["isr"] \in Contextual
      /\ stack \in Stacks
  BY <1>1, Handover DEF Contexts
<1>r. PICK r \in Contextual : r = [context["isr"] EXCEPT !.step = "begin"]
  BY <1>2 DEF Contextual, Steps
<1>3. /\ r.step = "begin" /\ r.call = context["isr"].call /\ r.time = context["isr"].time
      /\ r.was = context["isr"].was
  BY <1>2, <1>r DEF Contextual
<1>4. context' = [context EXCEPT !["isr"] = r]
  BY <1>1, <1>r
<1>5. context'["load"] = context["load"]
  BY <1>4 DEF IInv, Types, Contexts
<1>6. \/ stack = <<"main", "isr">> /\ stack' = <<"main">>
      \/ stack = <<"main", "load", "isr">> /\ stack' = <<"main", "load">>
  BY <1>1, <1>2, StackMoves
<1>7. /\ stack' \in Stacks
      /\ stack' \in {<<"main">>, <<"main", "isr">>} => stack = <<"main", "isr">>
  BY <1>6 DEF Stacks
<1>8. stack' \in {<<"main">>, <<"main", "isr">>} => context'["load"].step \in {"begin", "asleep"}
  BY <1>5, <1>7, Handover
<1> QED BY <1>1, <1>2, <1>3, <1>4, <1>7, <1>8, Moved

LEMMA LoadSleepsStep ==
  ASSUME IInv, LoadSleeps
  PROVE  IInv'
<1>1. /\ Running = "load" /\ context["load"].step = "sleep"
      /\ stack' = SubSeq(stack, 1, Len(stack) - 1)
      /\ context' = [context EXCEPT !["load"].step = "asleep"]
      /\ UNCHANGED <<setting, instr, locked, clock, trace>>
  BY DEF LoadSleeps, Leave
<1>2. /\ Unlocked /\ context["isr"].step = "begin" /\ context["load"] \in Contextual
      /\ stack \in Stacks
  BY <1>1, Handover DEF Contexts
<1>r. PICK r \in Contextual : r = [context["load"] EXCEPT !.step = "asleep"]
  BY <1>2 DEF Contextual, Steps
<1>3. /\ r.step = "asleep" /\ r.call = context["load"].call /\ r.time = context["load"].time
      /\ r.was = context["load"].was
  BY <1>2, <1>r DEF Contextual
<1>4. context' = [context EXCEPT !["load"] = r]
  BY <1>1, <1>r
<1>5. stack' \in Stacks
  BY <1>1, <1>2, StackMoves DEF Stacks
<1>6. context'["load"].step = "asleep"
  BY <1>3, <1>4 DEF IInv, Types, Contexts
<1> QED BY <1>1, <1>2, <1>3, <1>4, <1>5, <1>6, Moved

LEMMA LoadWakesStep ==
  ASSUME IInv, LoadWakes
  PROVE  IInv'
<1>t. PICK t \in {"on", "begin"} : t = IF context["load"].step = "asleep" THEN "on" ELSE "begin"
  OBVIOUS
<1>1. /\ Running = "main" /\ ~locked /\ stack' = Append(stack, "load")
      /\ context' = [context EXCEPT !["load"].step = t, !["load"].call = 1]
      /\ UNCHANGED <<setting, instr, locked, clock, trace>>
  BY <1>t DEF LoadWakes, Enter
<1>2. /\ Unlocked /\ context["isr"].step = "begin" /\ context["load"] \in Contextual
      /\ stack \in Stacks /\ context["load"].step \in {"begin", "asleep"}
  BY <1>1, Handover DEF Contexts
<1>r. PICK r \in Contextual : r = [context["load"] EXCEPT !.step = t, !.call = 1]
  BY <1>2 DEF Contextual, Steps
<1>3. /\ r.step = t /\ r.call = 1 /\ r.time = context["load"].time
      /\ r.was = context["load"].was
  BY <1>2, <1>r DEF Contextual
<1>4. context' = [context EXCEPT !["load"] = r]
  BY <1>1, <1>r
<1>5. t = "on" => context["load"].call = 1
  <2>1. Len(Script["load"]) = 1
    BY ScriptShape DEF IInv, Types
  <2>2. /\ "load" \in Contexts
        /\ context["load"].call \in 1..(Len(Script["load"]) + 1)
        /\ context["load"].step # "begin" => context["load"].call <= Len(Script["load"])
    BY DEF IInv, CallInv, Contexts
  <2>3. t = "on" => context["load"].step # "begin"
    BY <1>t
  <2> QED BY <2>1, <2>2, <2>3
<1>6. stack' = <<"main", "load">>
  BY <1>1, <1>2, StackMoves
<1>7. stack' \in Stacks /\ stack' \notin {<<"main">>, <<"main", "isr">>}
  BY <1>6 DEF Stacks
<1>8. /\ \/ r.step = context["load"].step
         \/ context["load"].step = "asleep" /\ r.step = "on"
      /\ \/ r.call = context["load"].call
         \/ r.step = "begin" /\ r.call = 1
  BY <1>2, <1>3, <1>5, <1>t
<1> QED BY <1>1, <1>2, <1>3, <1>4, <1>7, <1>8, Moved

LEMMA LoadRepeatsStep ==
  ASSUME IInv, LoadRepeats
  PROVE  IInv'
<1>1. /\ Running = "load" /\ context["load"].call > Len(Script["load"])
      /\ context' = [context EXCEPT !["load"].call = 1]
      /\ UNCHANGED <<setting, instr, locked, clock, trace>> /\ stack' = stack
  BY DEF LoadRepeats
<1>2. /\ Unlocked /\ context["isr"].step = "begin" /\ context["load"] \in Contextual
      /\ stack \in Stacks /\ context["load"].step = "begin"
  BY <1>1, Handover DEF Contexts
<1>r. PICK r \in Contextual : r = [context["load"] EXCEPT !.call = 1]
  BY <1>2 DEF Contextual, Steps
<1>3. /\ r.step = "begin" /\ r.call = 1 /\ r.time = context["load"].time
      /\ r.was = context["load"].was
  BY <1>2, <1>r DEF Contextual
<1>4. context' = [context EXCEPT !["load"] = r]
  BY <1>1, <1>r
<1>5. context'["load"].step = "begin"
  BY <1>3, <1>4 DEF IInv, Types, Contexts
<1> QED BY <1>1, <1>2, <1>3, <1>4, <1>5, Moved

----------------------------------------------------------------------------
LEMMA NextIInv == IInv /\ [EmissionNext]_emissionVars => IInv'
<1> SUFFICES ASSUME IInv, [EmissionNext]_emissionVars PROVE IInv'
    OBVIOUS
<1>1. CASE UNCHANGED emissionVars
  BY <1>1 DEF emissionVars, setting, IInv, Types, CallInv, LockInv, HandlerInv, Settled, Own, Off,
              Emits, Script, Running, SwitchOf
<1>2. ASSUME NEW c \in Contexts,
             \/ ReturnIfDisabled(c) \/ LookAtSwitch(c) \/ KeepSwitch(c)
             \/ TurnOff(c) \/ EmitUnlocked(c)
             \/ LockIrq(c) \/ TakeTime(c) \/ WriteEvent(c) \/ TurnOn(c)
      PROVE  IInv'
  BY <1>2, ReturnIfDisabledStep, LookAtSwitchStep, KeepSwitchStep, TurnOffStep, EmitUnlockedStep,
     LockIrqStep, TakeTimeStep, WriteEventStep, TurnOnStep
<1>3. CASE TimerFires \/ HandlerReturns \/ LoadSleeps \/ LoadWakes \/ LoadRepeats
  BY <1>3, TimerFiresStep, HandlerReturnsStep, LoadSleepsStep, LoadWakesStep, LoadRepeatsStep
<1> QED BY <1>1, <1>2, <1>3 DEF EmissionNext

LEMMA SpecIInv == EmissionSpec => []IInv
<1> QED BY InitIInv, NextIInv, PTL DEF EmissionSpec

\* Every event that is written carries a time that has been; the flags, the stack and the
\* switches are what they are declared as (zpl.h:57-60, scope_event.c:27-43).
THEOREM EmissionTypes == EmissionSpec => []EmissionTypeOK
<1>1. ASSUME IInv PROVE EmissionTypeOK
  <2>1. \A i \in 1..Len(stack) : stack[i] \in Contexts
    <3>1. stack \in Stacks
      BY <1>1 DEF IInv, Types
    <3>2. CASE stack = <<"main">>
      BY <3>2 DEF Contexts
    <3>3. CASE stack = <<"main", "load">>
      BY <3>3 DEF Contexts
    <3>4. CASE stack = <<"main", "isr">>
      BY <3>4 DEF Contexts
    <3>5. CASE stack = <<"main", "load", "isr">>
      BY <3>5 DEF Contexts
    <3> QED BY <3>1, <3>2, <3>3, <3>4, <3>5 DEF Stacks
  <2>2. \A c \in Contexts : context[c].time \in 0..clock
    <3> TAKE c \in Contexts
    <3>1. context[c].time \in Nat /\ context[c].time <= clock /\ clock \in Nat
      BY <1>1 DEF IInv, Types
    <3> QED BY <3>1
  <2> QED BY <1>1, <2>1, <2>2 DEF EmissionTypeOK, IInv, Types
<1> QED BY <1>1, SpecIInv, PTL

\* While the library works for a thread the instrumentation of that thread is off, and a thread
\* that is not in the library has its switch as it was at first, however often the timer's
\* handler and the profiler's thread come in between (zpl.h:57-60, instr.c:11-22).
THEOREM SwitchIsRestored == EmissionSpec => []SwitchRestored
<1>1. ASSUME IInv PROVE SwitchRestored
  <2> SUFFICES ASSUME NEW c \in ThreadIds
               PROVE  /\ Off(c) => ~instr[c]
                      /\ context[c].step = "begin" /\ Running = c => instr[c] = initially[c]
    BY DEF SwitchRestored, Off, Inside
  <2>1. Settled(c)
    BY <1>1 DEF IInv
  <2>2. Off(c) => ~instr[c]
    <3>1. CASE Running = "isr" /\ SwitchOf("isr") = c /\ Off("isr")
      BY <1>1, <3>1 DEF IInv, HandlerInv
    <3>2. CASE ~ (Running = "isr" /\ SwitchOf("isr") = c /\ Off("isr"))
      <4>1. Own(c) = instr[c]
        BY <3>2 DEF Own
      <4> QED BY <2>1, <4>1 DEF Settled
    <3> QED BY <3>1, <3>2
  <2>3. ASSUME context[c].step = "begin", Running = c PROVE instr[c] = initially[c]
    <3>1. Own(c) = instr[c]
      BY <2>3 DEF Own, ThreadIds
    <3> QED BY <2>1, <2>3, <3>1 DEF Settled, Inside
  <2> QED BY <2>2, <2>3
<1> QED BY <1>1, SpecIInv, PTL

\* The events of stream 0 are written in the order of their timestamps, whoever emits them and
\* whoever interrupts whom (scope_event.c:27-43, inference_event.c:22-36, cpu_load.c:24-36).
THEOREM Stream0IsInOrder == EmissionSpec => Stream0InOrder
<1>1. ASSUME IInv, [EmissionNext]_emissionVars, trace'[0] # trace[0]
      PROVE  trace'[0] > trace[0]
  <2>1. PICK c \in Contexts : WriteEvent(c)
    BY <1>1 DEF EmissionNext, emissionVars, ReturnIfDisabled, LookAtSwitch, KeepSwitch, TurnOff,
                EmitUnlocked, LockIrq, TakeTime, TurnOn, TimerFires, HandlerReturns, Enter, Leave,
                LoadSleeps, LoadWakes, LoadRepeats
  <2>2. /\ AtStep(c, "write") /\ trace' = [trace EXCEPT ![Emits(c).stream] = context[c].time]
    BY <2>1 DEF WriteEvent
  <2>3. /\ trace \in [{0, 1} -> Nat] /\ context[c].time \in Nat /\ EventShape(Emits(c))
        /\ context[c].step = "write"
    BY <1>1, <2>2, Record
  <2>4. Emits(c).stream = 0 /\ trace'[0] = context[c].time
    BY <1>1, <2>2, <2>3
  <2>5. trace[0] < context[c].time
    BY <1>1, <2>3, <2>4 DEF EventShape, IInv, LockInv
  <2> QED BY <2>3, <2>4, <2>5
<1>2. IInv /\ [EmissionNext]_emissionVars => [trace'[0] # trace[0] => trace'[0] > trace[0]]_trace
  BY <1>1
<1> QED BY <1>2, SpecIInv, PTL DEF EmissionSpec, Stream0InOrder
=============================================================================
