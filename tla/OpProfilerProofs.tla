-------------------------- MODULE OpProfilerProofs ---------------------------
(***************************************************************************)
(* Proofs about OpProfiler, for every size of the buffer, every depth of   *)
(* nesting and every width of op_idx.  The inductive invariant relates the *)
(* slots of the buffer and the emitted events to the runs they are about,  *)
(* and says which times of the buffer are still due.                       *)
(***************************************************************************)
EXTENDS OpProfiler, SequenceTheorems, TLAPS

OnStack(n)   == \E i \in DOMAIN stack : stack[i].run = n
InBuffer     == 0..(num_events - 1)
HasHandle(h) == \E i \in DOMAIN stack : stack[i].handle = h

\* Operators run only in an inference, and dumped counts only in a dump.
PhaseInv ==
  /\ pc # "running" => stack = <<>>
  /\ pc # "dump" => dumped = 0
  /\ dumped <= 2 * num_events
  /\ clock > 0
  /\ first \in 1..(Len(runs) + 1)

\* Operators end in the reverse of the order in which they began, and have their slots in it.
StackInv ==
  /\ \A i \in DOMAIN stack : stack[i].run \in DOMAIN runs /\ stack[i].handle < num_events
  /\ \A i, j \in DOMAIN stack : i < j => stack[i].run < stack[j].run
  /\ \A i \in DOMAIN stack : stack[i].handle \in 0..(num_events - 2) => stack[i].run < Len(runs)

RunInv == \A n \in DOMAIN runs :
  /\ 0 < runs[n].begin /\ runs[n].begin < clock /\ runs[n].end < clock
  /\ runs[n].end = 0 <=> OnStack(n)

\* Slot h is that of run n
SlotOf(h, n) == slots[h].op = OpIdxOf(runs[n].op) /\ slots[h].begin = runs[n].begin

\* A slot in the buffer is that of one run, which has its handle while it is on the stack; the
\* time in it is the run's own afterwards.
SlotInv == \A h \in InBuffer : \E n \in DOMAIN runs :
  /\ SlotOf(h, n)
  /\ \A i \in DOMAIN stack : stack[i].run = n <=> stack[i].handle = h
  /\ delayed /\ ~OnStack(n) => slots[h].end = runs[n].end

\* Event e is about run n
Tells(e, n) ==
  /\ e.op = OpIdxOf(runs[n].op)
  /\ e.kind = "enter" => e.at = runs[n].begin
  /\ e.kind = "exit" => e.at = runs[n].end /\ ~OnStack(n)

TraceInv == \A k \in DOMAIN trace :
  /\ trace[k].at < clock
  /\ \E n \in DOMAIN runs : Tells(trace[k], n)

\* The times of the buffer: k is 0 for the begin and 1 for the end of slot h
Ends         == {0, 1}
TimeOf(h, k) == IF k = 0 THEN slots[h].begin ELSE slots[h].end
\* A time that the next dump emits, or the rest of the one under way
Due(h, k)    == delayed /\ h \in InBuffer /\ dumped <= 2 * h + k /\ (k = 1 => ~HasHandle(h))

DueInv == \A h \in InBuffer, k \in Ends : Due(h, k) =>
  /\ TimeOf(h, k) < clock
  /\ \A n \in DOMAIN trace : trace[n].at # TimeOf(h, k)
  /\ \A g \in InBuffer, l \in Ends : Due(g, l) /\ TimeOf(g, l) = TimeOf(h, k) => g = h /\ l = k

Sorted == \A n \in DOMAIN trace : n > 1 => trace[n - 1].at < trace[n].at

\* The trace is in the order of time, and what is due comes after it, in the order of the dump.
OrderInv == ~delayed \/ NoNesting =>
  /\ Sorted
  /\ \A h \in InBuffer, k \in Ends : Due(h, k) =>
       /\ \A n \in DOMAIN trace : trace[n].at < TimeOf(h, k)
       /\ \A g \in InBuffer, l \in Ends :
            Due(g, l) /\ 2 * h + k < 2 * g + l => TimeOf(h, k) < TimeOf(g, l)

\* The runs InferenceIsComplete is about.  While the inference is under way run n has slot
\* h = n - first, and what of it is not due any more is in the trace.
Wanted(n) == first <= n /\ n < first + MaxEvents
Accounted(n, h) ==
  /\ pc # "idle" =>
       /\ SlotOf(h, n)
       /\ \A i \in DOMAIN stack : stack[i].run = n <=> stack[i].handle = h
       /\ delayed /\ ~OnStack(n) => slots[h].end = runs[n].end
  /\ ~delayed \/ pc = "idle" \/ 2 * h < dumped
       => Enter(OpIdxOf(runs[n].op), runs[n].begin) \in Traced
  /\ ~OnStack(n) /\ (~delayed \/ pc = "idle" \/ 2 * h + 1 < dumped)
       => Exit(OpIdxOf(runs[n].op), runs[n].end) \in Traced
WholeInv == whole =>
  /\ profiler /\ events
  /\ pc # "idle" => num_events = IF Len(runs) + 1 - first < MaxEvents
                                 THEN Len(runs) + 1 - first ELSE MaxEvents
  /\ \A n \in DOMAIN runs : Wanted(n) => Accounted(n, n - first)

IInv == /\ TypeOK /\ PhaseInv /\ StackInv /\ RunInv /\ SlotInv /\ TraceInv
        /\ DueInv /\ NoEventTwice /\ OrderInv /\ WholeInv

----------------------------------------------------------------------------
(* What the operators of the module do *)

LEMMA AppendView ==
  ASSUME NEW S, NEW s \in Seq(S), NEW e \in S
  PROVE  /\ Append(s, e) \in Seq(S) /\ Len(Append(s, e)) = Len(s) + 1
         /\ \A i \in 1..Len(s) : Append(s, e)[i] = s[i]
         /\ Append(s, e)[Len(s) + 1] = e
OBVIOUS

LEMMA Difference ==
  ASSUME NEW a \in Nat, NEW b \in Nat, NEW size \in Nat, b <= a, a < b + size
  PROVE  a - b \in Nat /\ a - b < size
OBVIOUS

LEMMA FrontView ==
  ASSUME NEW S, NEW s \in Seq(S), Len(s) > 0
  PROVE  LET f == SubSeq(s, 1, Len(s) - 1)
         IN  f \in Seq(S) /\ Len(f) = Len(s) - 1 /\ \A i \in 1..(Len(s) - 1) : f[i] = s[i]
<1> DEFINE n == Len(s) - 1
<1>1. n \in Int /\ n >= 0 /\ 1 \in Int
  BY LenProperties
<1>2. \A i \in 1..n : s[i] \in S
  BY LenProperties, ElementOfSeq
<1>3. /\ SubSeq(s, 1, n) \in Seq(S)
      /\ Len(SubSeq(s, 1, n)) = IF 1 <= n THEN n - 1 + 1 ELSE 0
      /\ \A i \in 1..(n - 1 + 1) : SubSeq(s, 1, n)[i] = s[1 + i - 1]
  <2> HIDE DEF n
  <2> QED BY <1>1, <1>2, SubSeqProperties
<1>4. Len(SubSeq(s, 1, n)) = n
  <2> HIDE DEF n
  <2>1. (IF 1 <= n THEN n - 1 + 1 ELSE 0) = n
    BY <1>1
  <2> QED BY <1>3, <2>1
<1>5. ASSUME NEW i \in 1..n PROVE SubSeq(s, 1, n)[i] = s[i]
  <2> HIDE DEF n
  <2>1. i \in 1..(n - 1 + 1) /\ 1 + i - 1 = i
    BY <1>1
  <2> QED BY <1>3, <2>1
<1> QED BY <1>3, <1>4, <1>5

LEMMA OpIdxType ==
  ASSUME NEW op \in Ops
  PROVE  OpIdxOf(op) \in OpIdx /\ (op \in OpIdx => OpIdxOf(op) = op)
<1>1. op \in Nat /\ IdxSize \in Nat /\ IdxSize > 0
  BY SizeAssumption
<1>2. op % IdxSize \in 0..(IdxSize - 1)
  BY <1>1
<1>3. op < IdxSize => op % IdxSize = op
  BY <1>1
<1> QED BY <1>1, <1>2, <1>3 DEF OpIdxOf, OpIdx

\* An event goes to the end of the trace, or nowhere.
LEMMA EmitView ==
  ASSUME TypeOK, NEW e \in Event, Emit(e)
  PROVE  /\ trace' \in Seq(Event)
         /\ \/ ~events /\ UNCHANGED trace
            \/ /\ events /\ Len(trace') = Len(trace) + 1
               /\ \A k \in 1..Len(trace) : trace'[k] = trace[k]
               /\ trace'[Len(trace) + 1] = e
BY DEF TypeOK, Emit

LEMMA EventType ==
  ASSUME NEW op \in OpIdx, NEW at \in Nat
  PROVE  Enter(op, at) \in Event /\ Exit(op, at) \in Event
BY DEF Enter, Exit, Event

\* What BeginEvent does, element by element
LEMMA BeginView ==
  ASSUME TypeOK, NEW op \in Ops, Begin(op)
  PROVE  LET n == Len(runs) + 1
             h == IF HasRoom THEN num_events ELSE -1
         IN  /\ runs' \in Seq(Run) /\ Len(runs') = n
             /\ \A m \in 1..Len(runs) : runs'[m] = runs[m]
             /\ runs'[n] = [op |-> op, begin |-> clock, end |-> 0]
             /\ stack' \in Seq([run: Nat, handle: Handle]) /\ Len(stack') = Len(stack) + 1
             /\ \A i \in 1..Len(stack) : stack'[i] = stack[i]
             /\ stack'[Len(stack) + 1] = [run |-> n, handle |-> h]
             /\ slots' \in [0..(MaxEvents - 1) -> Slot]
             /\ \A g \in 0..(MaxEvents - 1) : g # h => slots'[g] = slots[g]
             /\ HasRoom => slots'[h].op = OpIdxOf(op) /\ slots'[h].begin = clock
             /\ num_events' = IF HasRoom THEN num_events + 1 ELSE num_events
             /\ ~delayed /\ HasRoom => Emit(Enter(OpIdxOf(op), clock))
             /\ delayed \/ ~HasRoom => UNCHANGED trace
             /\ clock' = clock + 1
<1>1. OpIdxOf(op) \in OpIdx
  BY OpIdxType
<1>2. [op |-> op, begin |-> clock, end |-> 0] \in Run
  BY DEF TypeOK, Run
<1>3. num_events \in Handle \/ ~HasRoom
  BY SizeAssumption DEF TypeOK, HasRoom, Handle
<1>4. -1 \in Handle
  BY SizeAssumption DEF Handle
<1>5. HasRoom => num_events \in 0..(MaxEvents - 1)
  BY SizeAssumption DEF TypeOK, HasRoom
<1>6. /\ runs' \in Seq(Run) /\ Len(runs') = Len(runs) + 1
      /\ \A m \in 1..Len(runs) : runs'[m] = runs[m]
      /\ runs'[Len(runs) + 1] = [op |-> op, begin |-> clock, end |-> 0]
  BY <1>2 DEF Begin, TypeOK
<1>7. CASE HasRoom
  <2>1. [run |-> Len(runs) + 1, handle |-> num_events] \in [run: Nat, handle: Handle]
    BY <1>3, <1>7 DEF TypeOK
  <2>2. stack' = Append(stack, [run |-> Len(runs) + 1, handle |-> num_events])
    BY <1>7 DEF Begin
  <2>3. /\ stack' \in Seq([run: Nat, handle: Handle]) /\ Len(stack') = Len(stack) + 1
        /\ \A i \in 1..Len(stack) : stack'[i] = stack[i]
        /\ stack'[Len(stack) + 1] = [run |-> Len(runs) + 1, handle |-> num_events]
    BY <2>1, <2>2, AppendView DEF TypeOK
  <2>4. slots' = [slots EXCEPT ![num_events].op = OpIdxOf(op), ![num_events].begin = clock]
    BY <1>7 DEF Begin
  <2>5. /\ slots' \in [0..(MaxEvents - 1) -> Slot]
        /\ \A g \in 0..(MaxEvents - 1) : g # num_events => slots'[g] = slots[g]
        /\ slots'[num_events].op = OpIdxOf(op) /\ slots'[num_events].begin = clock
    BY <1>1, <1>5, <1>7, <2>4 DEF TypeOK, Slot
  <2> QED BY <1>6, <1>7, <2>3, <2>5 DEF Begin
<1>8. CASE ~HasRoom
  <2>1. [run |-> Len(runs) + 1, handle |-> -1] \in [run: Nat, handle: Handle]
    BY <1>4 DEF TypeOK
  <2>2. stack' = Append(stack, [run |-> Len(runs) + 1, handle |-> -1])
    BY <1>8 DEF Begin
  <2>3. /\ stack' \in Seq([run: Nat, handle: Handle]) /\ Len(stack') = Len(stack) + 1
        /\ \A i \in 1..Len(stack) : stack'[i] = stack[i]
        /\ stack'[Len(stack) + 1] = [run |-> Len(runs) + 1, handle |-> -1]
    BY <2>1, <2>2, AppendView DEF TypeOK
  <2> QED BY <1>6, <1>8, <2>3 DEF Begin, TypeOK
<1> QED BY <1>7, <1>8

\* What EndEvent does, element by element: n is the run that ends, h its handle
LEMMA EndView ==
  ASSUME TypeOK, StackInv, End
  PROVE  LET n == stack[Len(stack)].run
             h == stack[Len(stack)].handle
         IN  /\ Len(stack) \in DOMAIN stack /\ n \in 1..Len(runs) /\ h \in Handle /\ h < num_events
             /\ runs' \in Seq(Run) /\ Len(runs') = Len(runs)
             /\ \A m \in 1..Len(runs) : m # n => runs'[m] = runs[m]
             /\ runs'[n].op = runs[n].op /\ runs'[n].begin = runs[n].begin /\ runs'[n].end = clock
             /\ stack' \in Seq([run: Nat, handle: Handle]) /\ Len(stack') = Len(stack) - 1
             /\ \A i \in 1..(Len(stack) - 1) : stack'[i] = stack[i]
             /\ slots' \in [0..(MaxEvents - 1) -> Slot]
             /\ \A g \in 0..(MaxEvents - 1) : ~delayed \/ g # h => slots'[g] = slots[g]
             /\ delayed /\ h # -1 => /\ slots'[h].op = slots[h].op
                                     /\ slots'[h].begin = slots[h].begin /\ slots'[h].end = clock
             /\ ~delayed /\ h # -1 => Emit(Exit(slots[h].op, clock))
             /\ delayed \/ h = -1 => UNCHANGED trace
             /\ clock' = clock + 1
<1> DEFINE n == stack[Len(stack)].run
           h == stack[Len(stack)].handle
<1>1. Len(stack) \in DOMAIN stack /\ Len(stack) \in Nat /\ Len(stack) > 0
  BY DEF End, TypeOK
<1>2. n \in 1..Len(runs) /\ h \in Handle /\ h < num_events
  <2>1. stack \in Seq([run: Nat, handle: Handle]) /\ runs \in Seq(Run)
    BY DEF TypeOK
  <2>2. stack[Len(stack)] \in [run: Nat, handle: Handle]
    BY <1>1, <2>1, ElementOfSeq, LenProperties
  <2>3. \A i \in DOMAIN stack : stack[i].run \in DOMAIN runs /\ stack[i].handle < num_events
    BY DEF StackInv
  <2> QED BY <1>1, <2>1, <2>2, <2>3
<1>3. runs' = [runs EXCEPT ![n] = [runs[n] EXCEPT !.end = clock]]
  BY DEF End
<1>4. runs[n] \in Run /\ clock \in Nat /\ [runs[n] EXCEPT !.end = clock] \in Run
  <2>1. runs[n] \in Run /\ clock \in Nat
    BY <1>2, ElementOfSeq DEF TypeOK
  <2> QED BY <2>1 DEF Run
<1>5. stack' = SubSeq(stack, 1, Len(stack) - 1)
  BY DEF End
<1>6. /\ stack' \in Seq([run: Nat, handle: Handle]) /\ Len(stack') = Len(stack) - 1
      /\ \A i \in 1..(Len(stack) - 1) : stack'[i] = stack[i]
  BY <1>1, <1>5, FrontView DEF TypeOK
<1>7. h # -1 => h \in 0..(MaxEvents - 1)
  BY <1>2, SizeAssumption DEF Handle
<1>8. slots' = IF delayed /\ h # -1 THEN [slots EXCEPT ![h].end = clock] ELSE slots
  BY DEF End, TopHandle
<1>9. /\ slots' \in [0..(MaxEvents - 1) -> Slot]
      /\ \A g \in 0..(MaxEvents - 1) : ~delayed \/ g # h => slots'[g] = slots[g]
      /\ delayed /\ h # -1 => /\ slots'[h].op = slots[h].op
                              /\ slots'[h].begin = slots[h].begin /\ slots'[h].end = clock
  BY <1>7, <1>8 DEF TypeOK, Slot
<1>10. /\ runs' \in Seq(Run) /\ Len(runs') = Len(runs)
       /\ \A m \in 1..Len(runs) : m # n => runs'[m] = runs[m]
       /\ runs'[n].op = runs[n].op /\ runs'[n].begin = runs[n].begin /\ runs'[n].end = clock
  <2> HIDE DEF n, h
  <2>1. runs \in Seq(Run) /\ runs[n] \in Run
    BY <1>2 DEF TypeOK
  <2>2. /\ runs' \in Seq(Run) /\ Len(runs') = Len(runs)
        /\ \A m \in 1..Len(runs) :
             runs'[m] = IF m = n THEN [runs[n] EXCEPT !.end = clock] ELSE runs[m]
    BY <1>2, <1>3, <1>4, <2>1, ExceptSeq
  <2> QED BY <1>2, <2>1, <2>2 DEF Run
<1>11. /\ ~delayed /\ h # -1 => Emit(Exit(slots[h].op, clock))
       /\ delayed \/ h = -1 => UNCHANGED trace
  BY DEF End, TopHandle
<1> QED BY <1>1, <1>2, <1>6, <1>9, <1>10, <1>11 DEF End

\* What a dump emits next: k = 0 for the begin of slot h and k = 1 for its end
LEMMA DumpView ==
  ASSUME TypeOK, DumpNext
  PROVE  \E h \in InBuffer, k \in Ends :
           /\ dumped = 2 * h + k /\ h \in 0..(MaxEvents - 1)
           /\ Emit(IF k = 0 THEN Enter(slots[h].op, slots[h].begin)
                            ELSE Exit(slots[h].op, slots[h].end))
<1> DEFINE h == dumped \div 2
           k == dumped % 2
<1>1. dumped \in Nat /\ num_events \in Nat /\ num_events <= MaxEvents /\ dumped < 2 * num_events
  BY DEF TypeOK, DumpNext
<1>2. h \in Nat /\ k \in {0, 1} /\ dumped = 2 * h + k
  BY <1>1
<1>3. h \in InBuffer /\ h \in 0..(MaxEvents - 1)
  BY <1>1, <1>2, SizeAssumption DEF InBuffer
<1>4. Emit(IF k = 0 THEN Enter(slots[h].op, slots[h].begin) ELSE Exit(slots[h].op, slots[h].end))
  BY DEF DumpNext
<1> HIDE DEF h, k
<1> QED BY <1>2, <1>3, <1>4 DEF Ends

----------------------------------------------------------------------------
LEMMA InitIInv == Init => IInv
<1> SUFFICES ASSUME Init PROVE IInv
    OBVIOUS
<1>1. TypeOK
  BY SizeAssumption DEF Init, TypeOK, Slot, OpIdx
<1>2. PhaseInv /\ StackInv /\ RunInv /\ SlotInv /\ TraceInv
  BY DEF Init, PhaseInv, StackInv, RunInv, SlotInv, TraceInv, InBuffer
<1>3. DueInv /\ NoEventTwice /\ OrderInv
  BY DEF Init, DueInv, NoEventTwice, OrderInv, InBuffer, Sorted
<1>4. WholeInv
  BY DEF Init, WholeInv
<1> QED BY <1>1, <1>2, <1>3, <1>4 DEF IInv

\* Lengths, domains and elements of the variables, for the provers
LEMMA Domains ==
  ASSUME TypeOK
  PROVE  /\ DOMAIN stack = 1..Len(stack) /\ DOMAIN runs = 1..Len(runs) /\ DOMAIN trace = 1..Len(trace)
         /\ Len(stack) \in Nat /\ Len(runs) \in Nat /\ Len(trace) \in Nat
         /\ num_events \in Nat /\ MaxEvents \in Nat /\ num_events <= MaxEvents
         /\ clock \in Nat /\ dumped \in Nat /\ first \in Nat
         /\ \A i \in 1..Len(stack) : stack[i].run \in Nat /\ stack[i].handle \in Int
         /\ \A n \in 1..Len(runs) : runs[n].op \in Ops /\ runs[n].begin \in Nat /\ runs[n].end \in Nat
         /\ \A k \in 1..Len(trace) : trace[k].at \in Nat /\ trace[k].kind \in {"enter", "exit"}
         /\ \A h \in InBuffer : slots[h].op \in OpIdx /\ slots[h].begin \in Nat /\ slots[h].end \in Nat
<1>1. /\ stack \in Seq([run: Nat, handle: Handle]) /\ runs \in Seq(Run) /\ trace \in Seq(Event)
      /\ num_events \in 0..MaxEvents /\ slots \in [0..(MaxEvents - 1) -> Slot]
      /\ clock \in Nat /\ dumped \in 0..(2 * MaxEvents) /\ first \in Nat
  BY DEF TypeOK
<1>2. \A i \in 1..Len(stack) : stack[i] \in [run: Nat, handle: Handle]
  BY <1>1, ElementOfSeq
<1>3. \A n \in 1..Len(runs) : runs[n] \in Run
  BY <1>1, ElementOfSeq
<1>4. \A k \in 1..Len(trace) : trace[k] \in Event
  BY <1>1, ElementOfSeq
<1>5. MaxEvents \in Nat /\ num_events \in Nat /\ num_events <= MaxEvents /\ dumped \in Nat
  BY <1>1, SizeAssumption
<1>6. \A h \in InBuffer : slots[h] \in Slot
  BY <1>1, <1>5 DEF InBuffer
<1>7. \A i \in 1..Len(stack) : stack[i].run \in Nat /\ stack[i].handle \in Int
  BY <1>2, SizeAssumption DEF Handle
<1> QED BY <1>1, <1>3, <1>4, <1>5, <1>6, <1>7, LenProperties DEF Run, Event, Slot

----------------------------------------------------------------------------
(* The trace *)

\* Event e goes to the end of the trace.
Grows(e) ==
  /\ DOMAIN trace = 1..Len(trace) /\ DOMAIN trace' = 1..(Len(trace) + 1)
  /\ \A k \in 1..Len(trace) : trace'[k] = trace[k]
  /\ trace'[Len(trace) + 1] = e

LEMMA EmitGrows ==
  ASSUME TypeOK, NEW e \in Event, Emit(e)
  PROVE  /\ events => Grows(e)
         /\ ~events => UNCHANGED trace
<1>1. \/ ~events /\ UNCHANGED trace
      \/ /\ events /\ Len(trace') = Len(trace) + 1
         /\ \A k \in 1..Len(trace) : trace'[k] = trace[k]
         /\ trace'[Len(trace) + 1] = e
  BY EmitView
<1>2. trace' \in Seq(Event)
  BY EmitView
<1>3. DOMAIN trace' = 1..Len(trace') /\ DOMAIN trace = 1..Len(trace)
  BY <1>2, Domains, LenProperties
<1>4. CASE events /\ Len(trace') = Len(trace) + 1
  BY <1>1, <1>3, <1>4 DEF Grows
<1>5. CASE ~events /\ UNCHANGED trace
  BY <1>5
<1> QED BY <1>1, <1>4, <1>5

LEMMA GrowsIndex ==
  ASSUME TypeOK, NEW e, Grows(e)
  PROVE  /\ Len(trace) \in Nat
         /\ \A k \in DOMAIN trace' : \/ k \in DOMAIN trace /\ trace'[k] = trace[k]
                                     \/ k = Len(trace) + 1 /\ trace'[k] = e
<1>1. Len(trace) \in Nat
  BY Domains
<1>2. \A k \in 1..(Len(trace) + 1) : k \in 1..Len(trace) \/ k = Len(trace) + 1
  BY <1>1
<1> QED BY <1>1, <1>2 DEF Grows

LEMMA GrowsTraced ==
  ASSUME TypeOK, NEW e, Grows(e)
  PROVE  Traced' = Traced \union {e}
<1>1. \A k \in DOMAIN trace : k \in DOMAIN trace' /\ trace'[k] = trace[k]
  BY Domains DEF Grows
<1>2. Len(trace) + 1 \in DOMAIN trace' /\ trace'[Len(trace) + 1] = e
  BY Domains DEF Grows
<1> QED BY <1>1, <1>2, GrowsIndex DEF Traced

LEMMA GrowsDistinct ==
  ASSUME TypeOK, NoEventTwice, NEW e, Grows(e), \A k \in DOMAIN trace : trace[k].at # e.at
  PROVE  NoEventTwice'
BY GrowsIndex DEF NoEventTwice

LEMMA GrowsSorted ==
  ASSUME TypeOK, Sorted, NEW e, Grows(e), \A k \in DOMAIN trace : trace[k].at < e.at
  PROVE  Sorted'
<1> SUFFICES ASSUME NEW k \in DOMAIN trace', k > 1 PROVE trace'[k - 1].at < trace'[k].at
  BY DEF Sorted
<1>1. k \in Int /\ Len(trace) \in Nat /\ k - 1 \in DOMAIN trace /\ trace'[k - 1] = trace[k - 1]
  BY Domains DEF Grows
<1>2. CASE k \in DOMAIN trace /\ trace'[k] = trace[k]
  BY <1>1, <1>2 DEF Sorted
<1>3. CASE trace'[k] = e
  BY <1>1, <1>3
<1> QED BY <1>2, <1>3, GrowsIndex

\* Runs that keep what was emitted of them keep the events of the trace true.
LEMMA TraceInvKept ==
  ASSUME TypeOK, TraceInv, clock' \in Nat, clock <= clock',
         \A x \in Event, m \in DOMAIN runs : Tells(x, m) => m \in DOMAIN runs' /\ Tells(x, m)',
         \/ trace' = trace
         \/ \E e \in Event : /\ Grows(e) /\ e.at < clock'
                             /\ \E m \in DOMAIN runs' : Tells(e, m)'
  PROVE  TraceInv'
<1>1. ASSUME NEW x \in Event, NEW k \in DOMAIN trace, x = trace[k], trace'[k] = x
      PROVE  trace'[k].at < clock' /\ \E m \in DOMAIN runs' : Tells(trace[k], m)'
  <2>1. x.at < clock /\ x.at \in Nat /\ clock \in Nat
    BY <1>1, Domains DEF TraceInv
  <2>2. PICK m \in DOMAIN runs : Tells(x, m)
    BY <1>1 DEF TraceInv
  <2>3. m \in DOMAIN runs' /\ Tells(x, m)'
    BY <2>2
  <2>4. Tells(trace[k], m)'
    BY <1>1, <2>3 DEF Tells
  <2> QED BY <1>1, <2>1, <2>3, <2>4
<1>2. \A k \in DOMAIN trace : trace[k] \in Event
  BY Domains, ElementOfSeq DEF TypeOK
<1>3. CASE trace' = trace
  BY <1>1, <1>2, <1>3 DEF TraceInv
<1>4. ASSUME NEW e \in Event, Grows(e), e.at < clock', NEW m \in DOMAIN runs', Tells(e, m)'
      PROVE  TraceInv'
  <2> SUFFICES ASSUME NEW k \in DOMAIN trace'
               PROVE  trace'[k].at < clock' /\ \E r \in DOMAIN runs' : Tells(trace[k], r)'
    BY DEF TraceInv
  <2>1. CASE k \in DOMAIN trace /\ trace'[k] = trace[k]
    BY <1>1, <1>2, <2>1
  <2>2. CASE trace'[k] = e
    <3>1. Tells(trace[k], m)'
      BY <1>4, <2>2 DEF Tells
    <3> QED BY <1>4, <2>2, <3>1
  <2> QED BY <1>4, <2>1, <2>2, GrowsIndex
<1> QED BY <1>3, <1>4

\* So it is if the event that comes out is of the present time, from outside the buffer.
LEMMA PresentEvent ==
  ASSUME IInv, clock' = clock + 1, NEW e \in Event, e.at = clock,
         trace' = trace \/ (~delayed /\ Grows(e)),
         \A x \in Event, m \in DOMAIN runs : Tells(x, m) => m \in DOMAIN runs' /\ Tells(x, m)',
         \/ trace' = trace
         \/ \E m \in DOMAIN runs' : Tells(e, m)'
  PROVE  /\ TraceInv' /\ NoEventTwice'
         /\ delayed => trace' = trace
         /\ ~delayed /\ Sorted => Sorted'
         /\ Traced \subseteq Traced'
<1>1. TypeOK /\ TraceInv /\ NoEventTwice
  BY DEF IInv
<1>2. /\ clock \in Nat /\ clock' \in Nat /\ clock <= clock'
      /\ \A k \in DOMAIN trace : trace[k].at < e.at /\ trace[k].at # e.at
  BY <1>1, Domains DEF TraceInv
<1>3. TraceInv'
  <2>1. \/ trace' = trace
        \/ \E f \in Event : Grows(f) /\ f.at < clock' /\ \E m \in DOMAIN runs' : Tells(f, m)'
    <3>1. e.at < clock'
      BY <1>2
    <3> QED BY <3>1
  <2> QED BY <1>1, <1>2, <2>1, TraceInvKept
<1>4. NoEventTwice'
  BY <1>1, <1>2, GrowsDistinct DEF NoEventTwice
<1>5. Sorted => Sorted'
  BY <1>1, <1>2, GrowsSorted DEF Sorted
<1>6. Traced \subseteq Traced'
  BY <1>1, GrowsTraced DEF Traced
<1> QED BY <1>3, <1>4, <1>5, <1>6

----------------------------------------------------------------------------
(* An operator begins *)

\* BeginEvent of run n, which gets the handle h
Begun(op, n, h) ==
  /\ n = Len(runs) + 1 /\ DOMAIN runs = 1..(n - 1) /\ DOMAIN runs' = 1..n
  /\ \A m \in 1..(n - 1) : runs'[m] = runs[m]
  /\ runs'[n].op = op /\ runs'[n].begin = clock /\ runs'[n].end = 0
  /\ DOMAIN stack = 1..Len(stack) /\ DOMAIN stack' = 1..(Len(stack) + 1)
  /\ \A i \in 1..Len(stack) : stack'[i] = stack[i]
  /\ stack'[Len(stack) + 1].run = n /\ stack'[Len(stack) + 1].handle = h
  /\ \/ h = num_events /\ num_events < MaxEvents /\ num_events' = num_events + 1
     \/ h = -1 /\ num_events = MaxEvents /\ num_events' = num_events
  /\ \A g \in InBuffer : slots'[g] = slots[g]
  /\ h # -1 => slots'[h].op = OpIdxOf(op) /\ slots'[h].begin = clock
  /\ ~delayed /\ h # -1 => Emit(Enter(OpIdxOf(op), clock))
  /\ delayed \/ h = -1 => UNCHANGED trace
  /\ clock' = clock + 1
  /\ UNCHANGED <<delayed, profiler, events, pc, dumped, whole, first>> /\ pc = "running"

LEMMA BeginIsBegun ==
  ASSUME TypeOK, NEW op \in Ops, Begin(op)
  PROVE  TypeOK' /\ \E n \in Nat, h \in Int : Begun(op, n, h)
<1>n. PICK n \in Nat : n = Len(runs) + 1
  BY Domains
<1>h. PICK h \in Int : h = IF HasRoom THEN num_events ELSE -1
  <2>1. num_events \in Int /\ -1 \in Int
    BY Domains
  <2> QED BY <2>1
<1>1. /\ runs' \in Seq(Run) /\ Len(runs') = n
      /\ \A m \in 1..Len(runs) : runs'[m] = runs[m]
      /\ runs'[n] = [op |-> op, begin |-> clock, end |-> 0]
      /\ stack' \in Seq([run: Nat, handle: Handle]) /\ Len(stack') = Len(stack) + 1
      /\ \A i \in 1..Len(stack) : stack'[i] = stack[i]
      /\ stack'[Len(stack) + 1] = [run |-> n, handle |-> h]
      /\ slots' \in [0..(MaxEvents - 1) -> Slot]
      /\ \A g \in 0..(MaxEvents - 1) : g # h => slots'[g] = slots[g]
      /\ HasRoom => slots'[h].op = OpIdxOf(op) /\ slots'[h].begin = clock
      /\ num_events' = IF HasRoom THEN num_events + 1 ELSE num_events
      /\ ~delayed /\ HasRoom => Emit(Enter(OpIdxOf(op), clock))
      /\ delayed \/ ~HasRoom => UNCHANGED trace
      /\ clock' = clock + 1
  BY <1>n, <1>h, BeginView
<1>2. /\ Len(stack) \in Nat /\ Len(runs) \in Nat /\ clock \in Nat
      /\ num_events \in Nat /\ MaxEvents \in Nat /\ num_events <= MaxEvents
      /\ DOMAIN stack = 1..Len(stack) /\ DOMAIN runs = 1..Len(runs)
  BY Domains
<1>3. DOMAIN stack' = 1..(Len(stack) + 1) /\ DOMAIN runs' = 1..n /\ Len(runs) = n - 1
  BY <1>1, <1>2, <1>n, LenProperties
<1>4. UNCHANGED <<delayed, profiler, events, pc, dumped, whole, first>> /\ pc = "running"
  BY DEF Begin
<1>5. HasRoom <=> num_events < MaxEvents
  BY DEF HasRoom
<1>6. TypeOK'
  <2>1. trace' \in Seq(Event)
    <3>1. Enter(OpIdxOf(op), clock) \in Event
      BY OpIdxType, EventType DEF TypeOK
    <3> QED BY <1>1, <3>1, EmitView DEF TypeOK
  <2>2. num_events' \in 0..MaxEvents /\ clock' \in Nat
    BY <1>1, <1>2, <1>5
  <2> QED BY <1>1, <1>4, <2>1, <2>2 DEF TypeOK
<1>7. /\ \/ h = num_events /\ num_events < MaxEvents /\ num_events' = num_events + 1
         \/ h = -1 /\ num_events = MaxEvents /\ num_events' = num_events
      /\ h # -1 <=> HasRoom
  BY <1>1, <1>2, <1>5, <1>h
<1>8. \A g \in InBuffer : slots'[g] = slots[g]
  <2>1. \A g \in InBuffer : g \in 0..(MaxEvents - 1) /\ g # h
    BY <1>2, <1>7 DEF InBuffer
  <2> QED BY <1>1, <2>1
<1>9. /\ stack'[Len(stack) + 1].run = n /\ stack'[Len(stack) + 1].handle = h
      /\ runs'[n].op = op /\ runs'[n].begin = clock /\ runs'[n].end = 0
  BY <1>1
<1>10. Begun(op, n, h)
  BY <1>1, <1>2, <1>3, <1>4, <1>7, <1>8, <1>9, <1>n DEF Begun
<1> QED BY <1>6, <1>10

\* What is on the stack now was there before or is the new run.
LEMMA BegunStack ==
  ASSUME TypeOK, StackInv, NEW op, NEW n \in Nat, NEW h \in Int, Begun(op, n, h)
  PROVE  /\ \A i \in DOMAIN stack' :
              \/ i \in DOMAIN stack /\ stack'[i] = stack[i] /\ stack[i].run \in 1..(n - 1)
              \/ i = Len(stack) + 1 /\ stack'[i].run = n /\ stack'[i].handle = h
         /\ OnStack(n)'
         /\ \A m \in 1..(n - 1) : OnStack(m)' <=> OnStack(m)
<1>1. Len(stack) \in Nat /\ DOMAIN stack = 1..Len(stack) /\ DOMAIN stack' = 1..(Len(stack) + 1)
  BY Domains DEF Begun
<1>2. \A i \in DOMAIN stack' : i \in DOMAIN stack \/ i = Len(stack) + 1
  BY <1>1
<1>3. /\ \A i \in DOMAIN stack : stack'[i] = stack[i] /\ stack[i].run \in 1..(n - 1)
      /\ stack'[Len(stack) + 1].run = n /\ stack'[Len(stack) + 1].handle = h
  BY DEF Begun, StackInv
<1>4. OnStack(n)'
  <2>1. Len(stack) + 1 \in DOMAIN stack'
    BY <1>1
  <2> QED BY <1>3, <2>1 DEF OnStack
<1>5. ASSUME NEW m \in 1..(n - 1) PROVE OnStack(m)' <=> OnStack(m)
  <2>1. m # n /\ \A i \in DOMAIN stack : i \in DOMAIN stack'
    BY <1>1
  <2> QED BY <1>2, <1>3, <2>1 DEF OnStack
<1> QED BY <1>2, <1>3, <1>4, <1>5

LEMMA BeginStack ==
  ASSUME IInv, NEW op, NEW n \in Nat, NEW h \in Int, Begun(op, n, h)
  PROVE  PhaseInv' /\ StackInv' /\ RunInv'
<1>1. TypeOK /\ PhaseInv /\ StackInv /\ RunInv
  BY DEF IInv
<1>2. /\ Len(stack) \in Nat /\ n \in Nat /\ clock \in Nat /\ num_events \in Nat /\ dumped \in Nat
      /\ Len(runs) = n - 1 /\ n > 0 /\ Len(runs') = n
  BY <1>1, Domains DEF Begun
<1>6. /\ \A i \in DOMAIN stack' :
           \/ i \in DOMAIN stack /\ stack'[i] = stack[i] /\ stack[i].run \in 1..(n - 1)
           \/ i = Len(stack) + 1 /\ stack'[i].run = n /\ stack'[i].handle = h
      /\ OnStack(n)'
      /\ \A m \in 1..(n - 1) : OnStack(m)' <=> OnStack(m)
  BY <1>1, BegunStack
<1>3. PhaseInv'
  BY <1>1, <1>2 DEF PhaseInv, Begun
<1>4. StackInv'
  <2>1. \A i \in DOMAIN stack : stack[i].handle \in Int /\ stack[i].handle < num_events
    BY <1>1, Domains DEF StackInv
  <2>2. /\ h < num_events' /\ num_events <= num_events' /\ num_events' \in Nat
        /\ h \notin 0..(num_events' - 2) /\ n \in 1..n
    BY <1>2 DEF Begun
  <2>3. ASSUME NEW i \in DOMAIN stack'
        PROVE  /\ stack'[i].run \in 1..n /\ stack'[i].handle < num_events'
               /\ stack'[i].handle \in 0..(num_events' - 2) => stack'[i].run < n
    <3>1. CASE i \in DOMAIN stack /\ stack'[i] = stack[i] /\ stack[i].run \in 1..(n - 1)
      BY <1>2, <2>1, <2>2, <3>1
    <3>2. CASE stack'[i].run = n /\ stack'[i].handle = h
      BY <2>2, <3>2
    <3> QED BY <1>1, <3>1, <3>2, <1>6
  <2>4. ASSUME NEW i \in DOMAIN stack', NEW j \in DOMAIN stack', i < j
        PROVE  stack'[i].run < stack'[j].run
    <3>1. i \in DOMAIN stack /\ stack'[i] = stack[i] /\ stack[i].run \in 1..(n - 1)
      <4>1. i # Len(stack) + 1
        BY <1>2, <2>4 DEF Begun
      <4> QED BY <1>1, <4>1, <1>6
    <3>2. CASE j \in DOMAIN stack /\ stack'[j] = stack[j]
      BY <1>1, <2>4, <3>1, <3>2 DEF StackInv
    <3>3. CASE stack'[j].run = n
      BY <1>2, <3>1, <3>3
    <3> QED BY <1>1, <3>2, <3>3, <1>6
  <2> QED BY <1>2, <2>3, <2>4 DEF StackInv, Begun
<1>5. RunInv'
  <2> SUFFICES ASSUME NEW m \in 1..n
               PROVE  /\ 0 < runs'[m].begin /\ runs'[m].begin < clock' /\ runs'[m].end < clock'
                      /\ runs'[m].end = 0 <=> OnStack(m)'
    BY DEF RunInv, Begun
  <2>1. CASE m = n
    <3>1. runs'[m].begin = clock /\ runs'[m].end = 0 /\ clock' = clock + 1 /\ clock > 0
      BY <1>1, <2>1 DEF Begun, PhaseInv
    <3>2. 0 < clock' /\ clock < clock' /\ runs'[m].end < clock'
      BY <1>2, <3>1
    <3>3. OnStack(m)'
      BY <1>6, <2>1
    <3> QED BY <3>1, <3>2, <3>3
  <2>2. CASE m # n
    <3>1. m \in 1..(n - 1) /\ m \in DOMAIN runs /\ runs'[m] = runs[m] /\ clock' = clock + 1
      BY <1>2, <2>2 DEF Begun
    <3>2. runs[m].begin \in Nat /\ runs[m].end \in Nat
      BY <1>1, <3>1, Domains
    <3>3. 0 < runs[m].begin /\ runs[m].begin < clock /\ runs[m].end < clock
      BY <1>1, <3>1 DEF RunInv
    <3>4. runs[m].end = 0 <=> OnStack(m)
      BY <1>1, <3>1 DEF RunInv
    <3>5. runs[m].begin < clock' /\ runs[m].end < clock'
      BY <1>2, <3>1, <3>2, <3>3
    <3>6. OnStack(m)' <=> OnStack(m)
      BY <1>6, <3>1
    <3> QED BY <3>1, <3>3, <3>4, <3>5, <3>6
  <2> QED BY <2>1, <2>2
<1> QED BY <1>3, <1>4, <1>5

LEMMA BeginSlots ==
  ASSUME IInv, NEW op, NEW n \in Nat, NEW h \in Int, Begun(op, n, h)
  PROVE  SlotInv'
<1>1. TypeOK /\ StackInv /\ SlotInv
  BY DEF IInv
<1>2. /\ num_events \in Nat /\ DOMAIN runs = 1..(n - 1) /\ DOMAIN runs' = 1..n
      /\ \A i \in DOMAIN stack : stack[i].handle \in Int /\ stack[i].handle < num_events
  BY <1>1, Domains DEF Begun, StackInv
<1>3. /\ \A i \in DOMAIN stack' :
           \/ i \in DOMAIN stack /\ stack'[i] = stack[i] /\ stack[i].run \in 1..(n - 1)
           \/ i = Len(stack) + 1 /\ stack'[i].run = n /\ stack'[i].handle = h
      /\ OnStack(n)'
      /\ \A m \in 1..(n - 1) : OnStack(m)' <=> OnStack(m)
  BY <1>1, BegunStack
<1>4. delayed' = delayed
  BY DEF Begun
<1> SUFFICES ASSUME NEW g \in InBuffer'
             PROVE  \E m \in 1..n :
               /\ SlotOf(g, m)'
               /\ \A i \in DOMAIN stack' : stack'[i].run = m <=> stack'[i].handle = g
               /\ delayed /\ ~OnStack(m)' => slots'[g].end = runs'[m].end
  BY <1>2, <1>4 DEF SlotInv
<1>5. CASE g \in InBuffer
  <2>1. PICK m \in 1..(n - 1) :
          /\ SlotOf(g, m)
          /\ \A i \in DOMAIN stack : stack[i].run = m <=> stack[i].handle = g
          /\ delayed /\ ~OnStack(m) => slots[g].end = runs[m].end
    BY <1>1, <1>2, <1>5 DEF SlotInv
  <2>2. m \in 1..n /\ m # n /\ g # h
    BY <1>2, <1>5 DEF InBuffer, Begun
  <2>3. slots'[g] = slots[g] /\ runs'[m] = runs[m]
    BY <1>5 DEF Begun
  <2>4. SlotOf(g, m)'
    BY <2>1, <2>3 DEF SlotOf
  <2>5. \A i \in DOMAIN stack' : stack'[i].run = m <=> stack'[i].handle = g
    BY <1>3, <2>1, <2>2
  <2> QED BY <1>3, <2>1, <2>2, <2>3, <2>4, <2>5
<1>6. CASE g \notin InBuffer
  <2>1. h = num_events /\ g = h /\ h # -1
    BY <1>2, <1>6 DEF InBuffer, Begun
  <2>2. SlotOf(g, n)'
    BY <2>1 DEF SlotOf, Begun
  <2>3. ASSUME NEW i \in DOMAIN stack'
        PROVE  stack'[i].run = n <=> stack'[i].handle = g
    <3>1. CASE i \in DOMAIN stack /\ stack'[i] = stack[i] /\ stack[i].run \in 1..(n - 1)
      BY <1>2, <2>1, <3>1
    <3>2. CASE stack'[i].run = n /\ stack'[i].handle = h
      BY <2>1, <3>2
    <3> QED BY <1>3, <3>1, <3>2
  <2>4. n \in 1..n
    BY DEF Begun
  <2> QED BY <1>3, <2>2, <2>3, <2>4
<1> QED BY <1>5, <1>6

\* The trace grows by the event of the new run, if at all.
LEMMA BeginTrace ==
  ASSUME IInv, NEW op \in Ops, NEW n \in Nat, NEW h \in Int, Begun(op, n, h)
  PROVE  /\ TraceInv' /\ NoEventTwice'
         /\ delayed => trace' = trace
         /\ ~delayed /\ Sorted => Sorted'
         /\ Traced \subseteq Traced'
         /\ ~delayed /\ events /\ h # -1 => Enter(OpIdxOf(op), clock) \in Traced'
<1>1. TypeOK /\ StackInv
  BY DEF IInv
<1>2. /\ clock' = clock + 1 /\ clock \in Nat /\ n > 0
      /\ DOMAIN runs = 1..(n - 1) /\ DOMAIN runs' = 1..n /\ n \in 1..n
      /\ \A m \in 1..(n - 1) : m \in 1..n /\ runs'[m] = runs[m]
  BY <1>1, Domains DEF Begun
<1>e. PICK e \in Event : e = Enter(OpIdxOf(op), clock)
  BY <1>2, OpIdxType, EventType
<1>3. e.op = OpIdxOf(op) /\ e.at = clock /\ e.kind = "enter"
  BY <1>e DEF Enter
<1>4. ASSUME NEW x \in Event, NEW m \in DOMAIN runs, Tells(x, m)
      PROVE  m \in DOMAIN runs' /\ Tells(x, m)'
  <2>1. OnStack(m)' <=> OnStack(m)
    BY <1>1, <1>2, BegunStack
  <2> QED BY <1>2, <1>4, <2>1 DEF Tells
<1>5. trace' = trace \/ (~delayed /\ Grows(e))
  BY <1>1, <1>e, EmitGrows DEF Begun
<1>6. n \in DOMAIN runs' /\ Tells(e, n)'
  BY <1>2, <1>3 DEF Tells, Begun
<1>7. ~delayed /\ events /\ h # -1 => e \in Traced'
  BY <1>1, <1>e, EmitGrows, GrowsTraced DEF Begun
<1>8. /\ TraceInv' /\ NoEventTwice' /\ (delayed => trace' = trace)
      /\ (~delayed /\ Sorted => Sorted') /\ Traced \subseteq Traced'
  BY <1>2, <1>3, <1>4, <1>5, <1>6, PresentEvent
<1> QED BY <1>e, <1>7, <1>8

----------------------------------------------------------------------------
(* The times that are due *)

\* The times of the buffer are numbers, in the past if they are due.
LEMMA TimesType ==
  ASSUME TypeOK, NEW h \in InBuffer, NEW k \in Ends
  PROVE  TimeOf(h, k) \in Nat /\ h \in Int /\ k \in Int
BY Domains DEF InBuffer, Ends, TimeOf

\* A step that makes at most one time due, the present one, and emits only from an empty
\* buffer, keeps the due times distinct; it keeps their order if that time is the last.
LEMMA OneMoreDue ==
  ASSUME IInv, NEW G \in Int, NEW K \in Int, TypeOK', clock' = clock + 1, delayed' = delayed,
         delayed => trace' = trace,
         ~delayed /\ Sorted => Sorted',
         \A h \in InBuffer', k \in Ends : Due(h, k)' =>
           \/ h \in InBuffer /\ Due(h, k) /\ TimeOf(h, k)' = TimeOf(h, k)
           \/ h = G /\ k = K /\ TimeOf(h, k)' = clock,
         delayed /\ NoNesting' =>
           NoNesting /\ \A h \in InBuffer, k \in Ends : Due(h, k) => 2 * h + k < 2 * G + K
  PROVE  DueInv' /\ OrderInv'
<1>1. TypeOK /\ DueInv /\ OrderInv /\ TraceInv
  BY DEF IInv
<1>2. /\ clock \in Nat
      /\ \A n \in DOMAIN trace : trace[n].at \in Nat /\ trace[n].at < clock
      /\ \A h \in InBuffer, k \in Ends : TimeOf(h, k) \in Nat /\ h \in Int /\ k \in Int
      /\ \A h \in InBuffer', k \in Ends : h \in Int /\ k \in Int
  <2>1. \A h \in InBuffer', k \in Ends : h \in Int /\ k \in Int
    BY DEF InBuffer, Ends
  <2> QED BY <1>1, <2>1, Domains, TimesType DEF TraceInv
<1>3. \A h \in InBuffer, k \in Ends : Due(h, k) =>
        /\ TimeOf(h, k) < clock
        /\ \A n \in DOMAIN trace : trace[n].at # TimeOf(h, k)
        /\ \A g \in InBuffer, l \in Ends : Due(g, l) /\ TimeOf(g, l) = TimeOf(h, k) => g = h /\ l = k
  BY <1>1 DEF DueInv
<1>4. \A h, k : Due(h, k)' => delayed /\ trace' = trace
  BY DEF Due
<1>5. ASSUME NEW h \in InBuffer', NEW k \in Ends, Due(h, k)'
      PROVE  /\ TimeOf(h, k)' < clock'
             /\ \A n \in DOMAIN trace' : trace'[n].at # TimeOf(h, k)'
             /\ \A g \in InBuffer', l \in Ends :
                  Due(g, l)' /\ TimeOf(g, l)' = TimeOf(h, k)' => g = h /\ l = k
  <2>1. trace' = trace
    BY <1>4, <1>5
  <2>2. CASE h \in InBuffer /\ Due(h, k) /\ TimeOf(h, k)' = TimeOf(h, k)
    <3>1. TimeOf(h, k)' < clock' /\ TimeOf(h, k)' # clock
      BY <1>2, <1>3, <2>2
    <3>2. \A n \in DOMAIN trace' : trace'[n].at # TimeOf(h, k)'
      BY <1>3, <2>1, <2>2
    <3>3. ASSUME NEW g \in InBuffer', NEW l \in Ends, Due(g, l)', TimeOf(g, l)' = TimeOf(h, k)'
          PROVE  g = h /\ l = k
      <4>1. g \in InBuffer /\ Due(g, l) /\ TimeOf(g, l)' = TimeOf(g, l)
        BY <3>1, <3>3
      <4> QED BY <1>3, <2>2, <3>3, <4>1
    <3> QED BY <3>1, <3>2, <3>3
  <2>3. CASE h = G /\ k = K /\ TimeOf(h, k)' = clock
    <3>1. TimeOf(h, k)' < clock'
      BY <1>2, <2>3
    <3>2. \A n \in DOMAIN trace' : trace'[n].at # TimeOf(h, k)'
      BY <1>2, <2>1, <2>3
    <3>3. ASSUME NEW g \in InBuffer', NEW l \in Ends, Due(g, l)', TimeOf(g, l)' = clock
          PROVE  g = h /\ l = k
      <4>1. CASE g \in InBuffer /\ Due(g, l) /\ TimeOf(g, l)' = TimeOf(g, l)
        BY <1>2, <1>3, <3>3, <4>1
      <4>2. CASE g = G /\ l = K
        BY <2>3, <4>2
      <4> QED BY <3>3, <4>1, <4>2
    <3> QED BY <2>3, <3>1, <3>2, <3>3
  <2> QED BY <1>5, <2>2, <2>3
<1>6. DueInv'
  BY <1>5 DEF DueInv
<1>7. ASSUME ~delayed \/ NoNesting' PROVE Sorted'
  <2>1. CASE ~delayed
    BY <1>1, <2>1 DEF OrderInv
  <2>2. CASE delayed /\ NoNesting'
    <3>1. Sorted /\ trace' = trace
      BY <1>1, <2>2 DEF OrderInv
    <3> QED BY <3>1 DEF Sorted
  <2> QED BY <1>7, <2>1, <2>2
<1>8. ASSUME NoNesting', NEW h \in InBuffer', NEW k \in Ends, Due(h, k)'
      PROVE  /\ \A n \in DOMAIN trace' : trace'[n].at < TimeOf(h, k)'
             /\ \A g \in InBuffer', l \in Ends :
                  Due(g, l)' /\ 2 * h + k < 2 * g + l => TimeOf(h, k)' < TimeOf(g, l)'
  <2>1. delayed /\ trace' = trace
    BY <1>4, <1>8
  <2>2. \A x \in InBuffer, y \in Ends : Due(x, y) =>
          /\ \A n \in DOMAIN trace : trace[n].at < TimeOf(x, y)
          /\ \A g \in InBuffer, l \in Ends :
               Due(g, l) /\ 2 * x + y < 2 * g + l => TimeOf(x, y) < TimeOf(g, l)
    BY <1>1, <1>8, <2>1 DEF OrderInv
  <2>3. \A x \in InBuffer, y \in Ends : Due(x, y) => 2 * x + y < 2 * G + K
    BY <1>8, <2>1
  <2>4. CASE h \in InBuffer /\ Due(h, k) /\ TimeOf(h, k)' = TimeOf(h, k)
    <3>1. \A n \in DOMAIN trace' : trace'[n].at < TimeOf(h, k)'
      BY <2>1, <2>2, <2>4
    <3>2. ASSUME NEW g \in InBuffer', NEW l \in Ends, Due(g, l)', 2 * h + k < 2 * g + l
          PROVE  TimeOf(h, k)' < TimeOf(g, l)'
      <4>1. CASE g \in InBuffer /\ Due(g, l) /\ TimeOf(g, l)' = TimeOf(g, l)
        BY <2>2, <2>4, <3>2, <4>1
      <4>2. CASE TimeOf(g, l)' = clock
        BY <1>3, <2>4, <4>2
      <4> QED BY <3>2, <4>1, <4>2
    <3> QED BY <3>1, <3>2
  <2>5. CASE h = G /\ k = K /\ TimeOf(h, k)' = clock
    <3>1. \A n \in DOMAIN trace' : trace'[n].at < TimeOf(h, k)'
      BY <1>2, <2>1, <2>5
    <3>2. ASSUME NEW g \in InBuffer', NEW l \in Ends, Due(g, l)', 2 * h + k < 2 * g + l
          PROVE  TimeOf(h, k)' < TimeOf(g, l)'
      <4>1. g \in Int /\ l \in Int
        BY <1>2
      <4>2. ~ (2 * g + l < 2 * G + K) /\ ~ (g = G /\ l = K)
        BY <2>5, <3>2, <4>1
      <4>3. ~ (g \in InBuffer /\ Due(g, l))
        BY <2>3, <4>2
      <4> QED BY <3>2, <4>2, <4>3
    <3> QED BY <3>1, <3>2
  <2> QED BY <1>8, <2>4, <2>5
<1>9. OrderInv'
  <2>1. \A h \in InBuffer', k \in Ends : Due(h, k)' /\ (~delayed \/ NoNesting') => NoNesting'
    BY <1>4
  <2> QED BY <1>7, <1>8, <2>1 DEF OrderInv
<1> QED BY <1>6, <1>9

\* With the begin of its run the new slot becomes due.
LEMMA BeginDue ==
  ASSUME IInv, NEW op \in Ops, NEW n \in Nat, NEW h \in Int, TypeOK', Begun(op, n, h)
  PROVE  DueInv' /\ OrderInv'
<1>1. TypeOK /\ StackInv
  BY DEF IInv
<1>2. /\ num_events \in Int /\ clock' = clock + 1 /\ delayed' = delayed /\ dumped' = dumped
      /\ DOMAIN stack = 1..Len(stack) /\ Len(stack) \in Nat /\ DOMAIN stack' = 1..(Len(stack) + 1)
      /\ \A i \in DOMAIN stack : i \in DOMAIN stack' /\ stack'[i] = stack[i]
  BY <1>1, Domains DEF Begun
<1>3. ASSUME NEW g \in InBuffer', NEW k \in Ends, Due(g, k)'
      PROVE  \/ g \in InBuffer /\ Due(g, k) /\ TimeOf(g, k)' = TimeOf(g, k)
             \/ g = num_events /\ k = 0 /\ TimeOf(g, k)' = clock
  <2>1. CASE g \in InBuffer
    <3>1. slots'[g] = slots[g]
      BY <2>1 DEF Begun
    <3>2. HasHandle(g) => HasHandle(g)'
      BY <1>2 DEF HasHandle
    <3> QED BY <1>2, <1>3, <2>1, <3>1, <3>2 DEF Due, TimeOf
  <2>2. CASE g \notin InBuffer
    <3>1. g = num_events /\ g = h /\ h # -1
      BY <1>2, <2>2 DEF InBuffer, Begun
    <3>2. HasHandle(g)'
      <4>1. Len(stack) + 1 \in DOMAIN stack' /\ stack'[Len(stack) + 1].handle = g
        BY <1>2, <3>1 DEF Begun
      <4> QED BY <4>1 DEF HasHandle
    <3>3. k = 0
      BY <1>3, <3>2 DEF Due, Ends
    <3>4. slots'[g].begin = clock
      BY <3>1 DEF Begun
    <3> QED BY <3>1, <3>3, <3>4 DEF TimeOf
  <2> QED BY <2>1, <2>2
<1>4. delayed /\ NoNesting' =>
        NoNesting /\ \A g \in InBuffer, k \in Ends : Due(g, k) => 2 * g + k < 2 * num_events + 0
  <2>1. NoNesting' => NoNesting
    <3>1. /\ DOMAIN runs = 1..(n - 1) /\ DOMAIN runs' = 1..n
          /\ \A m \in 1..(n - 1) : runs'[m] = runs[m]
      BY DEF Begun
    <3>2. \A m \in 1..(n - 1) : m \in 1..n /\ (m > 1 => m - 1 \in 1..(n - 1))
      OBVIOUS
    <3> QED BY <3>1, <3>2 DEF NoNesting
  <2>2. \A g \in InBuffer, k \in Ends : 2 * g + k < 2 * num_events + 0
    BY <1>2 DEF InBuffer, Ends
  <2> QED BY <2>1, <2>2
<1>5. (delayed => trace' = trace) /\ (~delayed /\ Sorted => Sorted')
  BY BeginTrace
<1>6. num_events \in Int /\ 0 \in Int
  BY <1>2
<1> QED BY <1>2, <1>3, <1>4, <1>5, <1>6, OneMoreDue

\* The new run is accounted for, and the others as before.
LEMMA BeginWhole ==
  ASSUME IInv, NEW op \in Ops, NEW n \in Nat, NEW h \in Int, TypeOK', Begun(op, n, h)
  PROVE  WholeInv'
<1> SUFFICES ASSUME whole PROVE WholeInv'
    BY DEF WholeInv, Begun
<1>1. TypeOK /\ PhaseInv /\ StackInv /\ WholeInv
  BY DEF IInv
<1>f. PICK F \in Nat : F = first /\ F = first'
  BY <1>1, Domains DEF Begun
<1>2. /\ num_events \in Nat /\ MaxEvents \in Nat /\ clock \in Nat /\ F \in 1..n
      /\ Len(runs) = n - 1 /\ Len(runs') = n /\ DOMAIN runs = 1..(n - 1) /\ DOMAIN runs' = 1..n
      /\ pc = "running" /\ pc' = "running" /\ dumped = 0 /\ dumped' = 0
      /\ delayed' = delayed /\ delayed \in BOOLEAN
      /\ \A m \in 1..(n - 1) : runs'[m] = runs[m]
  <2>1. TypeOK /\ n \in Nat /\ Len(runs) = n - 1 /\ DOMAIN runs' = 1..n
    BY <1>1, Domains DEF Begun
  <2>2. Len(runs') \in Nat /\ DOMAIN runs' = 1..Len(runs')
    BY LenProperties DEF TypeOK
  <2>3. Len(runs') = n
    BY <2>1, <2>2
  <2> QED BY <1>1, <1>f, <2>1, <2>3, Domains DEF Begun, PhaseInv, TypeOK
<1>3. profiler /\ events /\ num_events = IF n - F < MaxEvents THEN n - F ELSE MaxEvents
  BY <1>1, <1>2, <1>f DEF WholeInv
<1>4. profiler' /\ events' /\ num_events' = IF n + 1 - F < MaxEvents THEN n + 1 - F ELSE MaxEvents
  <2>1. profiler' = profiler /\ events' = events
    BY DEF Begun
  <2>2. \/ num_events < MaxEvents /\ num_events' = num_events + 1
        \/ num_events = MaxEvents /\ num_events' = num_events
    BY DEF Begun
  <2>3. n \in Nat /\ F \in Nat /\ F <= n /\ MaxEvents \in Nat
    BY <1>2
  <2>4. num_events' = IF n + 1 - F < MaxEvents THEN n + 1 - F ELSE MaxEvents
    BY <1>3, <2>2, <2>3
  <2> QED BY <1>3, <2>1, <2>4
<1>5. /\ \A i \in DOMAIN stack' :
           \/ i \in DOMAIN stack /\ stack'[i] = stack[i] /\ stack[i].run \in 1..(n - 1)
           \/ i = Len(stack) + 1 /\ stack'[i].run = n /\ stack'[i].handle = h
      /\ OnStack(n)'
      /\ \A m \in 1..(n - 1) : OnStack(m)' <=> OnStack(m)
  BY <1>1, BegunStack
<1>6. /\ Traced \subseteq Traced'
      /\ ~delayed /\ events /\ h # -1 => Enter(OpIdxOf(op), clock) \in Traced'
  BY BeginTrace
<1> SUFFICES ASSUME NEW m \in 1..n, NEW g \in Nat, g = m - F, g < MaxEvents
             PROVE  Accounted(m, g)'
  <2>1. ASSUME NEW m \in 1..n, Wanted(m)' PROVE Accounted(m, m - F)'
    <3>1. first' <= m /\ m < first' + MaxEvents
      BY <2>1 DEF Wanted
    <3>2. m \in Nat
      OBVIOUS
    <3>3. F = first' /\ MaxEvents \in Nat
      BY <1>2, <1>f
    <3>4. m - F \in Nat /\ m - F < MaxEvents
      BY <3>1, <3>2, <3>3, Difference
    <3> QED BY <3>4
  <2> QED BY <1>2, <1>4, <1>f, <2>1 DEF WholeInv
<1> SUFFICES /\ SlotOf(g, m)'
             /\ \A i \in DOMAIN stack' : stack'[i].run = m <=> stack'[i].handle = g
             /\ delayed /\ ~OnStack(m)' => slots'[g].end = runs'[m].end
             /\ ~delayed => Enter(OpIdxOf(runs'[m].op), runs'[m].begin) \in Traced'
             /\ ~OnStack(m)' /\ ~delayed => Exit(OpIdxOf(runs'[m].op), runs'[m].end) \in Traced'
  <2>1. ~ (2 * g < dumped') /\ ~ (2 * g + 1 < dumped')
    BY <1>2
  <2> QED BY <1>2, <2>1 DEF Accounted
<1>7. CASE m < n
  <2>1. m \in 1..(n - 1) /\ g \in InBuffer /\ m # n
    BY <1>2, <1>3, <1>7 DEF InBuffer
  <2>2. /\ SlotOf(g, m)
        /\ \A i \in DOMAIN stack : stack[i].run = m <=> stack[i].handle = g
        /\ delayed /\ ~OnStack(m) => slots[g].end = runs[m].end
        /\ ~delayed => Enter(OpIdxOf(runs[m].op), runs[m].begin) \in Traced
        /\ ~OnStack(m) /\ ~delayed => Exit(OpIdxOf(runs[m].op), runs[m].end) \in Traced
    <3>1. Wanted(m)
      <4>1. m \in Int /\ F \in Int /\ MaxEvents \in Int /\ g \in Nat /\ g = m - F /\ g < MaxEvents
        BY <1>2
      <4>2. F <= m /\ m < F + MaxEvents
        BY <4>1
      <4> QED BY <1>f, <4>2 DEF Wanted
    <3>2. Accounted(m, g)
      BY <1>1, <1>2, <1>f, <2>1, <3>1 DEF WholeInv
    <3> QED BY <1>2, <3>2 DEF Accounted
  <2>3. slots'[g] = slots[g] /\ runs'[m] = runs[m]
    BY <1>2, <2>1 DEF Begun
  <2>4. SlotOf(g, m)'
    BY <2>2, <2>3 DEF SlotOf
  <2>5. \A i \in DOMAIN stack' : stack'[i].run = m <=> stack'[i].handle = g
    <3>1. g # h
      BY <1>2, <2>1 DEF Begun, InBuffer
    <3> QED BY <1>5, <2>1, <2>2, <3>1
  <2> QED BY <1>5, <1>6, <2>1, <2>2, <2>3, <2>4, <2>5
<1>8. CASE m = n
  <2>1. h = num_events /\ h = g /\ h # -1
    BY <1>2, <1>3, <1>8 DEF Begun
  <2>2. SlotOf(g, m)'
    BY <1>8, <2>1 DEF SlotOf, Begun
  <2>3. \A i \in DOMAIN stack' : stack'[i].run = m <=> stack'[i].handle = g
    <3>1. \A x \in 1..(n - 1) : x # m
      BY <1>8
    <3>2. \A i \in DOMAIN stack : stack[i].handle # g
      BY <1>1, <1>2, <2>1, Domains DEF StackInv
    <3> QED BY <1>5, <1>8, <2>1, <3>1, <3>2
  <2>4. runs'[m].op = op /\ runs'[m].begin = clock
    BY <1>8 DEF Begun
  <2> QED BY <1>3, <1>5, <1>6, <1>8, <2>1, <2>2, <2>3, <2>4
<1> QED BY <1>2, <1>7, <1>8

LEMMA BeginStep ==
  ASSUME IInv, NEW op \in Ops, Begin(op)
  PROVE  IInv'
<1>1. TypeOK /\ TypeOK'
  BY BeginIsBegun DEF IInv
<1>2. PICK n \in Nat, h \in Int : Begun(op, n, h)
  BY <1>1, BeginIsBegun
<1> QED BY <1>1, <1>2, BeginStack, BeginSlots, BeginTrace, BeginDue, BeginWhole DEF IInv

----------------------------------------------------------------------------
(* An operator ends *)

\* EndEvent of run n, which has the handle h
Ended(n, h) ==
  /\ n \in DOMAIN runs /\ DOMAIN runs' = DOMAIN runs /\ Len(runs') = Len(runs)
  /\ \A m \in DOMAIN runs : m # n => runs'[m] = runs[m]
  /\ runs'[n].op = runs[n].op /\ runs'[n].begin = runs[n].begin /\ runs'[n].end = clock
  /\ Len(stack) > 0 /\ stack[Len(stack)].run = n /\ stack[Len(stack)].handle = h
  /\ DOMAIN stack = 1..Len(stack) /\ DOMAIN stack' = 1..(Len(stack) - 1)
  /\ \A i \in 1..(Len(stack) - 1) : stack'[i] = stack[i]
  /\ h = -1 \/ h \in InBuffer
  /\ \A g \in InBuffer :
       /\ slots'[g].op = slots[g].op /\ slots'[g].begin = slots[g].begin
       /\ ~delayed \/ g # h => slots'[g].end = slots[g].end
       /\ delayed /\ g = h => slots'[g].end = clock
  /\ ~delayed /\ h # -1 => Emit(Exit(slots[h].op, clock))
  /\ delayed \/ h = -1 => UNCHANGED trace
  /\ clock' = clock + 1
  /\ UNCHANGED <<delayed, profiler, events, num_events, pc, dumped, whole, first>> /\ pc = "running"

LEMMA EndIsEnded ==
  ASSUME TypeOK, StackInv, End
  PROVE  TypeOK' /\ \E n \in Nat, h \in Int : Ended(n, h)
<1>1. /\ \A i \in 1..Len(stack) : stack[i].run \in Nat /\ stack[i].handle \in Int
      /\ Len(stack) \in DOMAIN stack /\ Len(stack) \in 1..Len(stack) /\ Len(stack) > 0
  BY EndView, Domains
<1>n. PICK n \in Nat : n = stack[Len(stack)].run
  BY <1>1
<1>h. PICK h \in Int : h = stack[Len(stack)].handle
  BY <1>1
<1>2. /\ n \in 1..Len(runs) /\ h \in Handle /\ h < num_events
      /\ runs' \in Seq(Run) /\ Len(runs') = Len(runs)
      /\ \A m \in 1..Len(runs) : m # n => runs'[m] = runs[m]
      /\ runs'[n].op = runs[n].op /\ runs'[n].begin = runs[n].begin /\ runs'[n].end = clock
      /\ stack' \in Seq([run: Nat, handle: Handle]) /\ Len(stack') = Len(stack) - 1
      /\ \A i \in 1..(Len(stack) - 1) : stack'[i] = stack[i]
      /\ slots' \in [0..(MaxEvents - 1) -> Slot]
      /\ \A g \in 0..(MaxEvents - 1) : ~delayed \/ g # h => slots'[g] = slots[g]
      /\ delayed /\ h # -1 => /\ slots'[h].op = slots[h].op
                              /\ slots'[h].begin = slots[h].begin /\ slots'[h].end = clock
      /\ ~delayed /\ h # -1 => Emit(Exit(slots[h].op, clock))
      /\ delayed \/ h = -1 => UNCHANGED trace
      /\ clock' = clock + 1
  BY <1>n, <1>h, EndView
<1>3. /\ num_events \in Nat /\ MaxEvents \in Nat /\ num_events <= MaxEvents /\ clock \in Nat
      /\ DOMAIN stack = 1..Len(stack) /\ DOMAIN runs = 1..Len(runs) /\ Len(stack) \in Nat
      /\ \A g \in InBuffer : slots[g].op \in OpIdx /\ g \in 0..(MaxEvents - 1)
  BY Domains DEF InBuffer
<1>4. DOMAIN runs' = DOMAIN runs /\ DOMAIN stack' = 1..(Len(stack) - 1)
  BY <1>2, <1>3, LenProperties
<1>5. h = -1 \/ h \in InBuffer
  BY <1>2, <1>3 DEF Handle, InBuffer
<1>6. UNCHANGED <<delayed, profiler, events, num_events, pc, dumped, whole, first>> /\ pc = "running"
  BY DEF End
<1>7. TypeOK'
  <2>1. trace' \in Seq(Event)
    <3>1. h # -1 => Exit(slots[h].op, clock) \in Event
      BY <1>3, <1>5, EventType
    <3> QED BY <1>2, <3>1, EmitView DEF TypeOK
  <2>2. clock' \in Nat
    BY <1>2, <1>3
  <2> QED BY <1>2, <1>6, <2>1, <2>2 DEF TypeOK
<1>8. \A g \in InBuffer :
        /\ slots'[g].op = slots[g].op /\ slots'[g].begin = slots[g].begin
        /\ ~delayed \/ g # h => slots'[g].end = slots[g].end
        /\ delayed /\ g = h => slots'[g].end = clock
  <2> TAKE g \in InBuffer
  <2>1. g # -1 /\ g \in 0..(MaxEvents - 1)
    BY <1>3 DEF InBuffer
  <2>2. CASE ~delayed \/ g # h
    BY <1>2, <2>1, <2>2
  <2>3. CASE delayed /\ g = h
    BY <1>2, <2>1, <2>3
  <2> QED BY <2>2, <2>3
<1>9. Ended(n, h)
  BY <1>1, <1>2, <1>3, <1>4, <1>5, <1>6, <1>8, <1>n, <1>h DEF Ended
<1> QED BY <1>7, <1>9

\* The run leaves the stack, and nothing else does.
LEMMA EndedStack ==
  ASSUME TypeOK, StackInv, NEW n \in Nat, NEW h \in Int, Ended(n, h)
  PROVE  /\ \A i \in DOMAIN stack' : /\ i \in DOMAIN stack /\ stack'[i] = stack[i]
                                     /\ stack[i].run # n
         /\ OnStack(n) /\ ~OnStack(n)'
         /\ \A m \in Nat : m # n => (OnStack(m)' <=> OnStack(m))
         /\ \A g \in InBuffer : HasHandle(g) /\ g # h => HasHandle(g)'
<1>1. /\ Len(stack) \in Nat /\ Len(stack) > 0 /\ DOMAIN stack = 1..Len(stack)
      /\ DOMAIN stack' = 1..(Len(stack) - 1)
      /\ \A i \in 1..(Len(stack) - 1) : stack'[i] = stack[i]
      /\ stack[Len(stack)].run = n /\ stack[Len(stack)].handle = h
  BY Domains DEF Ended
<1>2. /\ \A i \in DOMAIN stack' : i \in DOMAIN stack /\ i < Len(stack) /\ stack'[i] = stack[i]
      /\ \A i \in DOMAIN stack : i \in DOMAIN stack' \/ i = Len(stack)
      /\ Len(stack) \in DOMAIN stack
  BY <1>1
<1>3. \A i \in DOMAIN stack' : stack[i].run # n
  <2> TAKE i \in DOMAIN stack'
  <2>1. i \in DOMAIN stack /\ i < Len(stack) /\ i \in 1..Len(stack)
    BY <1>1, <1>2
  <2>2. stack[i].run < n
    BY <1>1, <1>2, <2>1 DEF StackInv
  <2>3. stack[i].run \in Int
    BY <2>1, Domains
  <2> QED BY <2>2, <2>3
<1>4. OnStack(n)
  BY <1>1, <1>2 DEF OnStack
<1>5. ~OnStack(n)'
  BY <1>2, <1>3 DEF OnStack
<1>6. ASSUME NEW m \in Nat, m # n PROVE OnStack(m)' <=> OnStack(m)
  BY <1>1, <1>2, <1>6 DEF OnStack
<1>7. ASSUME NEW g \in InBuffer, HasHandle(g), g # h PROVE HasHandle(g)'
  BY <1>1, <1>2, <1>7 DEF HasHandle
<1> QED BY <1>2, <1>3, <1>4, <1>5, <1>6, <1>7

LEMMA EndStack ==
  ASSUME IInv, NEW n \in Nat, NEW h \in Int, Ended(n, h)
  PROVE  PhaseInv' /\ StackInv' /\ RunInv'
<1>1. TypeOK /\ PhaseInv /\ StackInv /\ RunInv
  BY DEF IInv
<1>2. /\ \A i \in DOMAIN stack' : /\ i \in DOMAIN stack /\ stack'[i] = stack[i]
                                  /\ stack[i].run # n
      /\ ~OnStack(n)' /\ \A m \in Nat : m # n => (OnStack(m)' <=> OnStack(m))
  BY <1>1, EndedStack
<1>3. /\ clock \in Nat /\ clock > 0 /\ clock' = clock + 1 /\ num_events' = num_events
      /\ DOMAIN runs' = DOMAIN runs /\ Len(runs') = Len(runs) /\ DOMAIN runs = 1..Len(runs)
      /\ \A m \in DOMAIN runs : m \in Nat /\ runs[m].begin \in Nat /\ runs[m].end \in Nat
  <2>1. clock > 0 /\ clock \in Nat /\ DOMAIN runs = 1..Len(runs) /\ Len(runs) \in Nat
    BY <1>1, Domains DEF PhaseInv
  <2>2. \A m \in DOMAIN runs : m \in Nat /\ runs[m].begin \in Nat /\ runs[m].end \in Nat
    BY <1>1, <2>1, Domains
  <2> QED BY <2>1, <2>2 DEF Ended
<1>4. PhaseInv'
  BY <1>1, <1>3 DEF PhaseInv, Ended
<1>5. StackInv'
  BY <1>1, <1>2, <1>3 DEF StackInv
<1>6. RunInv'
  <2> SUFFICES ASSUME NEW m \in DOMAIN runs
               PROVE  /\ 0 < runs'[m].begin /\ runs'[m].begin < clock' /\ runs'[m].end < clock'
                      /\ runs'[m].end = 0 <=> OnStack(m)'
    BY <1>3 DEF RunInv
  <2>1. /\ 0 < runs[m].begin /\ runs[m].begin < clock /\ runs[m].end < clock
        /\ runs[m].end = 0 <=> OnStack(m)
    BY <1>1 DEF RunInv
  <2>2. CASE m = n
    <3>1. runs'[m].end = clock /\ runs'[m].begin = runs[m].begin
      BY <2>2 DEF Ended
    <3>2. clock # 0 /\ clock < clock' /\ runs[m].begin < clock'
      BY <1>3, <2>1
    <3> QED BY <1>2, <2>1, <2>2, <3>1, <3>2
  <2>3. CASE m # n
    <3>1. runs'[m] = runs[m]
      BY <2>3 DEF Ended
    <3>2. runs[m].begin < clock' /\ runs[m].end < clock'
      BY <1>3, <2>1
    <3>3. OnStack(m)' <=> OnStack(m)
      BY <1>2, <1>3, <2>3
    <3> QED BY <2>1, <3>1, <3>2, <3>3
  <2> QED BY <2>2, <2>3
<1> QED BY <1>4, <1>5, <1>6

\* The slot with the handle is the run's.
LEMMA EndedSlot ==
  ASSUME IInv, NEW n \in Nat, NEW h \in Int, Ended(n, h), h # -1
  PROVE  h \in InBuffer /\ SlotOf(h, n)
<1>1. h \in InBuffer
  BY DEF Ended
<1>2. PICK m \in DOMAIN runs :
        SlotOf(h, m) /\ \A i \in DOMAIN stack : stack[i].run = m <=> stack[i].handle = h
  BY <1>1 DEF IInv, SlotInv
<1>3. Len(stack) \in DOMAIN stack
  BY Domains DEF IInv, Ended
<1> QED BY <1>1, <1>2, <1>3 DEF Ended

LEMMA EndSlots ==
  ASSUME IInv, NEW n \in Nat, NEW h \in Int, Ended(n, h)
  PROVE  SlotInv'
<1>1. TypeOK /\ StackInv /\ SlotInv
  BY DEF IInv
<1>2. /\ \A i \in DOMAIN stack' : /\ i \in DOMAIN stack /\ stack'[i] = stack[i]
                                  /\ stack[i].run # n
      /\ ~OnStack(n)' /\ \A m \in Nat : m # n => (OnStack(m)' <=> OnStack(m))
  BY <1>1, EndedStack
<1>3. /\ InBuffer' = InBuffer /\ DOMAIN runs' = DOMAIN runs /\ delayed' = delayed
      /\ delayed \in BOOLEAN /\ Len(stack) \in DOMAIN stack /\ \A m \in DOMAIN runs : m \in Nat
      /\ stack[Len(stack)].run = n /\ stack[Len(stack)].handle = h
  BY <1>1, Domains DEF Ended, InBuffer, TypeOK
<1> SUFFICES ASSUME NEW g \in InBuffer
             PROVE  \E m \in DOMAIN runs :
               /\ SlotOf(g, m)'
               /\ \A i \in DOMAIN stack' : stack'[i].run = m <=> stack'[i].handle = g
               /\ delayed /\ ~OnStack(m)' => slots'[g].end = runs'[m].end
  BY <1>3 DEF SlotInv
<1>4. PICK m \in DOMAIN runs :
        /\ SlotOf(g, m)
        /\ \A i \in DOMAIN stack : stack[i].run = m <=> stack[i].handle = g
        /\ delayed /\ ~OnStack(m) => slots[g].end = runs[m].end
  BY <1>1 DEF SlotInv
<1>5. m = n <=> g = h
  BY <1>3, <1>4
<1>6. SlotOf(g, m)'
  <2>1. runs'[m].op = runs[m].op /\ runs'[m].begin = runs[m].begin
    BY DEF Ended
  <2>2. slots'[g].op = slots[g].op /\ slots'[g].begin = slots[g].begin
    BY DEF Ended
  <2> QED BY <1>4, <2>1, <2>2 DEF SlotOf
<1>7. \A i \in DOMAIN stack' : stack'[i].run = m <=> stack'[i].handle = g
  BY <1>2, <1>4
<1>8. ASSUME delayed, ~OnStack(m)' PROVE slots'[g].end = runs'[m].end
  <2>1. CASE m = n
    BY <1>5, <1>8, <2>1 DEF Ended
  <2>2. CASE m # n
    <3>1. ~OnStack(m) /\ runs'[m] = runs[m] /\ slots'[g].end = slots[g].end
      BY <1>2, <1>3, <1>5, <1>8, <2>2 DEF Ended
    <3> QED BY <1>4, <1>8, <3>1
  <2> QED BY <2>1, <2>2
<1> QED BY <1>6, <1>7, <1>8

LEMMA EndTrace ==
  ASSUME IInv, NEW n \in Nat, NEW h \in Int, Ended(n, h)
  PROVE  /\ TraceInv' /\ NoEventTwice'
         /\ delayed => trace' = trace
         /\ ~delayed /\ Sorted => Sorted'
         /\ Traced \subseteq Traced'
         /\ ~delayed /\ events /\ h # -1 => Exit(OpIdxOf(runs[n].op), clock) \in Traced'
<1>1. TypeOK /\ StackInv
  BY DEF IInv
<1>2. /\ clock' = clock + 1 /\ clock \in Nat /\ DOMAIN runs' = DOMAIN runs /\ n \in DOMAIN runs
      /\ runs[n].op \in Ops /\ runs'[n].op = runs[n].op /\ runs'[n].end = clock
      /\ ~OnStack(n)' /\ OnStack(n) /\ \A m \in Nat : m # n => (OnStack(m)' <=> OnStack(m))
      /\ \A m \in DOMAIN runs : m \in Nat
  <2>1. n \in DOMAIN runs /\ TypeOK
    BY <1>1 DEF Ended
  <2>2. runs[n].op \in Ops /\ clock \in Nat /\ \A m \in DOMAIN runs : m \in Nat
    BY <2>1, Domains
  <2> QED BY <1>1, <2>1, <2>2, EndedStack DEF Ended
<1>e. PICK e \in Event : e = Exit(OpIdxOf(runs[n].op), clock)
  BY <1>2, OpIdxType, EventType
<1>3. e.op = OpIdxOf(runs[n].op) /\ e.at = clock /\ e.kind = "exit"
  BY <1>e DEF Exit
<1>4. ASSUME NEW x \in Event, NEW m \in DOMAIN runs, Tells(x, m)
      PROVE  m \in DOMAIN runs' /\ Tells(x, m)'
  <2>1. CASE m = n
    <3>1. x.kind # "exit"
      BY <1>2, <1>4, <2>1 DEF Tells
    <3>2. runs'[m].op = runs[m].op /\ runs'[m].begin = runs[m].begin
      BY <2>1 DEF Ended
    <3> QED BY <1>2, <1>4, <3>1, <3>2 DEF Tells
  <2>2. CASE m # n
    <3>1. runs'[m] = runs[m] /\ (OnStack(m)' <=> OnStack(m))
      BY <1>2, <2>2 DEF Ended
    <3> QED BY <1>2, <1>4, <3>1 DEF Tells
  <2> QED BY <2>1, <2>2
<1>5. h # -1 => e = Exit(slots[h].op, clock)
  BY <1>e, EndedSlot DEF SlotOf
<1>6. trace' = trace \/ (~delayed /\ Grows(e))
  BY <1>1, <1>5, EmitGrows DEF Ended
<1>7. n \in DOMAIN runs' /\ Tells(e, n)'
  BY <1>2, <1>3 DEF Tells
<1>8. ~delayed /\ events /\ h # -1 => e \in Traced'
  BY <1>1, <1>5, EmitGrows, GrowsTraced DEF Ended
<1>9. /\ TraceInv' /\ NoEventTwice' /\ (delayed => trace' = trace)
      /\ (~delayed /\ Sorted => Sorted') /\ Traced \subseteq Traced'
  BY <1>2, <1>3, <1>4, <1>6, <1>7, PresentEvent
<1> QED BY <1>e, <1>8, <1>9

\* If the run's slot is the last one its end is the last of the times that are due.  It is the
\* last one unless operators nest.
LEMMA EndDue ==
  ASSUME IInv, NEW n \in Nat, NEW h \in Int, TypeOK', Ended(n, h)
  PROVE  DueInv' /\ OrderInv'
<1>1. TypeOK /\ StackInv /\ RunInv
  BY DEF IInv
<1>2. /\ num_events \in Int /\ clock' = clock + 1 /\ delayed' = delayed /\ dumped' = dumped
      /\ InBuffer' = InBuffer /\ Len(stack) \in DOMAIN stack /\ clock \in Nat
      /\ n \in 1..Len(runs) /\ DOMAIN runs = 1..Len(runs) /\ DOMAIN runs' = 1..Len(runs)
      /\ Len(runs) \in Nat
  BY <1>1, Domains DEF Ended, InBuffer
<1>0. clock \in Nat /\ Len(runs) \in Nat /\ 1 <= n /\ n <= Len(runs)
  <2>1. Len(runs) \in Nat /\ n \in 1..Len(runs) /\ clock \in Nat
    BY <1>1, Domains DEF Ended
  <2> QED BY <2>1
<1>G. PICK G \in Int : G = IF h = -1 THEN num_events ELSE h
  BY <1>2
<1>3. ASSUME NEW g \in InBuffer', NEW k \in Ends, Due(g, k)'
      PROVE  \/ g \in InBuffer /\ Due(g, k) /\ TimeOf(g, k)' = TimeOf(g, k)
             \/ g = G /\ k = 1 /\ TimeOf(g, k)' = clock
  <2>1. delayed /\ g \in InBuffer /\ g # -1 /\ slots'[g].begin = slots[g].begin
    <3>1. delayed /\ g \in InBuffer
      BY <1>2, <1>3 DEF Due
    <3>2. g # -1
      BY <3>1, Domains, <1>1 DEF InBuffer
    <3>3. slots'[g].begin = slots[g].begin
      BY <3>1 DEF Ended
    <3> QED BY <3>1, <3>2, <3>3
  <2>2. CASE g = h /\ k = 1
    BY <1>G, <2>1, <2>2 DEF Ended, TimeOf
  <2>3. CASE k = 0
    BY <1>2, <1>3, <2>1, <2>3 DEF Due, TimeOf
  <2>4. CASE g # h /\ k = 1
    <3>1. HasHandle(g) => HasHandle(g)'
      BY <1>1, <2>1, <2>4, EndedStack
    <3>2. slots'[g].end = slots[g].end
      BY <2>1, <2>4 DEF Ended
    <3> QED BY <1>2, <1>3, <2>1, <2>4, <3>1, <3>2 DEF Due, TimeOf
  <2> QED BY <2>2, <2>3, <2>4 DEF Ends
<1>4. ASSUME NoNesting' PROVE n = Len(runs) /\ NoNesting
  <2>1. n = Len(runs)
    <3> SUFFICES ASSUME n # Len(runs) PROVE FALSE
      OBVIOUS
    <3>0. n + 1 \in 1..Len(runs) /\ n + 1 > 1 /\ (n + 1) - 1 = n /\ n + 1 # n
      BY <1>0
    <3>1. runs'[n].end < runs'[n + 1].begin
      <4>1. n + 1 \in DOMAIN runs'
        BY <1>2, <3>0
      <4> QED BY <1>4, <3>0, <4>1 DEF NoNesting
    <3>2. runs'[n].end = clock /\ runs'[n + 1] = runs[n + 1]
      BY <1>2, <3>0 DEF Ended
    <3>3. runs[n + 1].begin < clock /\ runs[n + 1].begin \in Nat
      BY <1>1, <1>2, <3>0, Domains DEF RunInv
    <3> QED BY <1>0, <3>1, <3>2, <3>3
  <2>2. ASSUME NEW m \in DOMAIN runs, m > 1
        PROVE  runs[m - 1].end # 0 /\ runs[m - 1].end < runs[m].begin
    <3>1. m - 1 \in DOMAIN runs /\ m - 1 # n
      BY <1>2, <2>1, <2>2
    <3>2. runs'[m - 1] = runs[m - 1] /\ runs'[m].begin = runs[m].begin
      BY <3>1 DEF Ended
    <3> QED BY <1>2, <1>4, <2>2, <3>2 DEF NoNesting
  <2> QED BY <2>1, <2>2 DEF NoNesting
<1>5. ASSUME n = Len(runs), NEW g \in InBuffer, NEW k \in Ends, Due(g, k)
      PROVE  2 * g + k < 2 * G + 1
  <2>1. g \in Int /\ 0 <= g /\ g < num_events /\ k \in {0, 1}
    BY <1>2 DEF InBuffer, Ends
  <2>2. CASE h = -1
    BY <1>2, <1>G, <2>1, <2>2
  <2>3. CASE h \in InBuffer
    <3>1. h = num_events - 1 /\ G = h
      BY <1>1, <1>2, <1>5, <1>G, <2>3 DEF StackInv, InBuffer, Ended
    <3>2. g = h => HasHandle(g)
      BY <1>2 DEF HasHandle, Ended
    <3>3. g = h => k = 0
      BY <1>5, <2>1, <3>2 DEF Due
    <3> QED BY <1>2, <2>1, <3>1, <3>3
  <2> QED BY <2>2, <2>3 DEF Ended
<1>6. (delayed => trace' = trace) /\ (~delayed /\ Sorted => Sorted')
  BY EndTrace
<1>7. 1 \in Int
  OBVIOUS
<1> QED BY <1>2, <1>3, <1>4, <1>5, <1>6, <1>7, OneMoreDue

LEMMA EndWhole ==
  ASSUME IInv, NEW n \in Nat, NEW h \in Int, TypeOK', Ended(n, h)
  PROVE  WholeInv'
<1> SUFFICES ASSUME whole PROVE WholeInv'
    BY DEF WholeInv, Ended
<1>1. TypeOK /\ PhaseInv /\ StackInv /\ WholeInv
  BY DEF IInv
<1>f. PICK F \in Nat : F = first /\ F = first'
  BY <1>1, Domains DEF Ended
<1>2. /\ num_events \in Nat /\ MaxEvents \in Nat /\ num_events' = num_events
      /\ Len(runs) \in Nat /\ DOMAIN runs = 1..Len(runs)
      /\ DOMAIN runs' = DOMAIN runs /\ Len(runs') = Len(runs)
      /\ pc = "running" /\ pc' = "running" /\ dumped = 0 /\ dumped' = 0
      /\ delayed' = delayed /\ delayed \in BOOLEAN
      /\ Len(stack) \in DOMAIN stack
  <2>1. Len(stack) \in DOMAIN stack
    BY <1>1, Domains DEF Ended
  <2> QED BY <1>1, <2>1, Domains DEF Ended, PhaseInv, TypeOK
<1>3. /\ profiler /\ events /\ profiler' /\ events'
      /\ num_events = IF Len(runs) + 1 - F < MaxEvents THEN Len(runs) + 1 - F ELSE MaxEvents
  BY <1>1, <1>2, <1>f DEF WholeInv, Ended
<1>4. /\ \A i \in DOMAIN stack' : /\ i \in DOMAIN stack /\ stack'[i] = stack[i]
                                  /\ stack[i].run # n
      /\ OnStack(n) /\ ~OnStack(n)' /\ \A m \in Nat : m # n => (OnStack(m)' <=> OnStack(m))
  BY <1>1, EndedStack
<1>5. /\ Traced \subseteq Traced'
      /\ ~delayed /\ events /\ h # -1 => Exit(OpIdxOf(runs[n].op), clock) \in Traced'
  BY EndTrace
<1> SUFFICES ASSUME NEW m \in DOMAIN runs, Wanted(m), NEW g \in InBuffer, g = m - F, Accounted(m, g)
             PROVE  Accounted(m, g)'
  <2>1. ASSUME NEW m \in DOMAIN runs, Wanted(m)' PROVE Accounted(m, m - F)'
    <3>1. Wanted(m)
      BY <1>f, <2>1 DEF Wanted
    <3>2. m - F \in InBuffer
      BY <1>2, <1>3, <1>f, <3>1 DEF Wanted, InBuffer
    <3>3. Accounted(m, m - F)
      BY <1>1, <1>f, <3>1 DEF WholeInv
    <3> QED BY <3>1, <3>2, <3>3
  <2> QED BY <1>2, <1>3, <1>f, <2>1 DEF WholeInv
<1>6. /\ SlotOf(g, m)
      /\ \A i \in DOMAIN stack : stack[i].run = m <=> stack[i].handle = g
      /\ delayed /\ ~OnStack(m) => slots[g].end = runs[m].end
      /\ ~delayed => Enter(OpIdxOf(runs[m].op), runs[m].begin) \in Traced
      /\ ~OnStack(m) /\ ~delayed => Exit(OpIdxOf(runs[m].op), runs[m].end) \in Traced
  BY <1>2 DEF Accounted
<1>7. (m = n <=> g = h) /\ g # -1 /\ g \in Nat /\ m \in Nat
  BY <1>2, <1>6 DEF Ended, InBuffer
<1> SUFFICES /\ SlotOf(g, m)'
             /\ \A i \in DOMAIN stack' : stack'[i].run = m <=> stack'[i].handle = g
             /\ delayed /\ ~OnStack(m)' => slots'[g].end = runs'[m].end
             /\ ~delayed => Enter(OpIdxOf(runs'[m].op), runs'[m].begin) \in Traced'
             /\ ~OnStack(m)' /\ ~delayed => Exit(OpIdxOf(runs'[m].op), runs'[m].end) \in Traced'
  <2>1. ~ (2 * g < dumped') /\ ~ (2 * g + 1 < dumped')
    BY <1>2, <1>7
  <2> QED BY <1>2, <2>1 DEF Accounted
<1>8. runs'[m].op = runs[m].op /\ runs'[m].begin = runs[m].begin
  BY DEF Ended
<1>9. SlotOf(g, m)'
  <2>1. slots'[g].op = slots[g].op /\ slots'[g].begin = slots[g].begin
    BY DEF Ended
  <2> QED BY <1>6, <1>8, <2>1 DEF SlotOf
<1>10. \A i \in DOMAIN stack' : stack'[i].run = m <=> stack'[i].handle = g
  BY <1>4, <1>6
<1>11. ~delayed => Enter(OpIdxOf(runs'[m].op), runs'[m].begin) \in Traced'
  BY <1>5, <1>6, <1>8
<1>12. ASSUME ~OnStack(m)'
       PROVE  /\ delayed => slots'[g].end = runs'[m].end
              /\ ~delayed => Exit(OpIdxOf(runs'[m].op), runs'[m].end) \in Traced'
  <2>1. CASE m = n
    <3>1. runs'[m].end = clock /\ (delayed => slots'[g].end = clock)
      BY <1>7, <2>1 DEF Ended
    <3> QED BY <1>3, <1>5, <1>7, <1>8, <2>1, <3>1
  <2>2. CASE m # n
    <3>1. runs'[m] = runs[m] /\ slots'[g].end = slots[g].end
      BY <1>7, <2>2 DEF Ended
    <3>2. ~OnStack(m)
      BY <1>4, <1>7, <1>12, <2>2
    <3> QED BY <1>5, <1>6, <3>1, <3>2
  <2> QED BY <2>1, <2>2
<1> QED BY <1>9, <1>10, <1>11, <1>12

LEMMA EndStep ==
  ASSUME IInv, End
  PROVE  IInv'
<1>1. TypeOK /\ StackInv
  BY DEF IInv
<1>2. TypeOK' /\ \E n \in Nat, h \in Int : Ended(n, h)
  BY <1>1, EndIsEnded
<1> QED BY <1>2, EndStack, EndSlots, EndTrace, EndDue, EndWhole DEF IInv

----------------------------------------------------------------------------
(* The buffer is emitted *)

\* The dump emits event e, which is time k of slot h.
DumpedOne(h, k, e) ==
  /\ delayed /\ pc = "dump" /\ dumped = 2 * h + k /\ dumped' = dumped + 1 /\ stack = <<>>
  /\ e = IF k = 0 THEN Enter(slots[h].op, slots[h].begin) ELSE Exit(slots[h].op, slots[h].end)
  /\ e.op = slots[h].op /\ e.at = TimeOf(h, k) /\ Due(h, k)
  /\ e.kind = IF k = 0 THEN "enter" ELSE "exit"
  /\ \/ trace' = trace /\ ~events
     \/ Grows(e)
  /\ UNCHANGED <<delayed, profiler, events, num_events, slots, pc, stack, runs, clock, whole, first>>

LEMMA DumpNextIsDumpedOne ==
  ASSUME TypeOK, PhaseInv, DumpNext
  PROVE  TypeOK' /\ \E h \in InBuffer, k \in Ends, e \in Event : DumpedOne(h, k, e)
<1>1. PICK h \in InBuffer, k \in Ends :
        /\ dumped = 2 * h + k /\ h \in 0..(MaxEvents - 1)
        /\ Emit(IF k = 0 THEN Enter(slots[h].op, slots[h].begin)
                         ELSE Exit(slots[h].op, slots[h].end))
  BY DumpView
<1>2. /\ delayed /\ pc = "dump" /\ dumped < 2 * num_events /\ dumped' = dumped + 1 /\ stack = <<>>
      /\ UNCHANGED <<delayed, profiler, events, num_events, slots, pc, stack, runs, clock, whole, first>>
  BY DEF DumpNext, PhaseInv
<1>3. slots[h].op \in OpIdx /\ slots[h].begin \in Nat /\ slots[h].end \in Nat
  BY Domains
<1>e. PICK e \in Event :
        e = IF k = 0 THEN Enter(slots[h].op, slots[h].begin) ELSE Exit(slots[h].op, slots[h].end)
  BY <1>3, EventType
<1>4. /\ e.op = slots[h].op /\ e.at = TimeOf(h, k)
      /\ e.kind = IF k = 0 THEN "enter" ELSE "exit"
  BY <1>e DEF Enter, Exit, TimeOf
<1>5. Due(h, k)
  <2>1. ~HasHandle(h)
    BY <1>2 DEF HasHandle
  <2>2. dumped <= 2 * h + k
    BY <1>1, Domains
  <2> QED BY <1>2, <2>1, <2>2 DEF Due
<1>6. Emit(e)
  BY <1>1, <1>e
<1>7. (trace' = trace /\ ~events) \/ Grows(e)
  BY <1>6, EmitGrows
<1>8. TypeOK'
  <2>1. dumped' \in 0..(2 * MaxEvents)
    <3>1. dumped \in Nat /\ num_events \in Nat /\ MaxEvents \in Nat /\ num_events <= MaxEvents
      BY Domains
    <3> QED BY <1>2, <3>1
  <2>2. trace' \in Seq(Event)
    BY <1>6, EmitView
  <2> QED BY <1>2, <2>1, <2>2 DEF TypeOK
<1>9. DumpedOne(h, k, e)
  BY <1>1, <1>2, <1>4, <1>5, <1>7, <1>e DEF DumpedOne
<1> QED BY <1>8, <1>9

\* The event is about the slot's run, and its time was still due.
LEMMA DumpNextTrace ==
  ASSUME IInv, NEW h \in InBuffer, NEW k \in Ends, NEW e \in Event, DumpedOne(h, k, e)
  PROVE  TraceInv' /\ NoEventTwice' /\ Traced \subseteq Traced'
<1>1. TypeOK /\ TraceInv /\ NoEventTwice /\ SlotInv /\ DueInv
  BY DEF IInv
<1>2. stack' = stack /\ runs' = runs /\ clock' = clock /\ clock \in Nat /\ delayed
  BY <1>1, Domains DEF DumpedOne
<1>3. /\ e.at < clock
      /\ \A n \in DOMAIN trace : trace[n].at # e.at
  BY <1>1 DEF DumpedOne, DueInv
<1>4. PICK n \in DOMAIN runs : SlotOf(h, n) /\ (~OnStack(n) => slots[h].end = runs[n].end)
  BY <1>1, <1>2 DEF SlotInv
<1>5. ~OnStack(n)
  BY DEF OnStack, DumpedOne
<1>6. Tells(e, n)
  <2>1. e.op = slots[h].op
    BY DEF DumpedOne
  <2>2. CASE k = 0
    BY <1>4, <2>1, <2>2 DEF DumpedOne, Tells, SlotOf, TimeOf
  <2>3. CASE k = 1
    BY <1>4, <1>5, <2>1, <2>3 DEF DumpedOne, Tells, SlotOf, TimeOf
  <2> QED BY <2>2, <2>3 DEF Ends
<1>7. \A x \in Event, m \in DOMAIN runs : Tells(x, m) => m \in DOMAIN runs' /\ Tells(x, m)'
  BY <1>2 DEF Tells, OnStack
<1>8. TraceInv'
  <2>1. \/ trace' = trace
        \/ \E f \in Event : Grows(f) /\ f.at < clock' /\ \E m \in DOMAIN runs' : Tells(f, m)'
    <3>1. n \in DOMAIN runs' /\ Tells(e, n)' /\ e.at < clock'
      BY <1>2, <1>3, <1>6, <1>7
    <3> QED BY <3>1 DEF DumpedOne
  <2>2. clock' \in Nat /\ clock <= clock'
    BY <1>2
  <2> QED BY <1>1, <1>7, <2>1, <2>2, TraceInvKept
<1>9. NoEventTwice'
  BY <1>1, <1>3, GrowsDistinct DEF NoEventTwice, DumpedOne
<1>10. Traced \subseteq Traced'
  BY <1>1, GrowsTraced DEF Traced, DumpedOne
<1> QED BY <1>8, <1>9, <1>10

\* What is still due comes after the event.
LEMMA DumpNextDue ==
  ASSUME IInv, NEW h \in InBuffer, NEW k \in Ends, NEW e \in Event, DumpedOne(h, k, e)
  PROVE  DueInv' /\ OrderInv'
<1>1. TypeOK /\ DueInv /\ OrderInv
  BY DEF IInv
<1>2. /\ h \in Int /\ k \in Int /\ dumped = 2 * h + k /\ dumped' = dumped + 1 /\ Due(h, k)
      /\ InBuffer' = InBuffer /\ clock' = clock /\ e.at = TimeOf(h, k) /\ delayed /\ delayed'
      /\ (NoNesting' <=> NoNesting)
  BY <1>1, TimesType DEF DumpedOne, InBuffer, NoNesting
<1>3. ASSUME NEW g \in InBuffer, NEW l \in Ends
      PROVE  TimeOf(g, l)' = TimeOf(g, l)
  BY DEF TimeOf, DumpedOne
<1>4. ASSUME NEW g \in InBuffer, NEW l \in Ends, Due(g, l)'
      PROVE  Due(g, l) /\ 2 * h + k < 2 * g + l
  <2>1. g \in Int /\ l \in Int
    BY <1>1, TimesType
  <2>2. dumped' <= 2 * g + l
    BY <1>4 DEF Due
  <2>3. dumped <= 2 * g + l /\ 2 * h + k < 2 * g + l
    BY <1>2, <2>1, <2>2
  <2>4. HasHandle(g)' <=> HasHandle(g)
    BY DEF HasHandle, DumpedOne
  <2> QED BY <1>2, <1>4, <2>3, <2>4 DEF Due
<1>5. \A n \in DOMAIN trace' : \/ n \in DOMAIN trace /\ trace'[n] = trace[n]
                               \/ trace'[n] = e
  BY <1>1, GrowsIndex DEF DumpedOne
<1>6. DueInv'
  <2> SUFFICES ASSUME NEW g \in InBuffer, NEW l \in Ends, Due(g, l)'
               PROVE  /\ TimeOf(g, l)' < clock'
                      /\ \A n \in DOMAIN trace' : trace'[n].at # TimeOf(g, l)'
                      /\ \A f \in InBuffer, m \in Ends :
                           Due(f, m)' /\ TimeOf(f, m)' = TimeOf(g, l)' => f = g /\ m = l
    BY <1>2 DEF DueInv
  <2>1. /\ TimeOf(g, l) < clock
        /\ \A n \in DOMAIN trace : trace[n].at # TimeOf(g, l)
        /\ \A f \in InBuffer, m \in Ends :
             Due(f, m) /\ TimeOf(f, m) = TimeOf(g, l) => f = g /\ m = l
    BY <1>1, <1>4 DEF DueInv
  <2>2. TimeOf(g, l) # e.at
    <3>1. ~ (h = g /\ k = l)
      BY <1>2, <1>4
    <3> QED BY <1>2, <2>1, <3>1
  <2> QED BY <1>2, <1>3, <1>4, <1>5, <2>1, <2>2
<1>7. ASSUME NoNesting PROVE Sorted'
  <2>1. Sorted /\ \A n \in DOMAIN trace : trace[n].at < e.at
    BY <1>1, <1>2, <1>7 DEF OrderInv
  <2> QED BY <1>1, <2>1, GrowsSorted DEF Sorted, DumpedOne
<1>8. ASSUME NoNesting, NEW g \in InBuffer, NEW l \in Ends, Due(g, l)'
      PROVE  /\ \A n \in DOMAIN trace' : trace'[n].at < TimeOf(g, l)'
             /\ \A f \in InBuffer, m \in Ends :
                  Due(f, m)' /\ 2 * g + l < 2 * f + m => TimeOf(g, l)' < TimeOf(f, m)'
  <2>1. \A x \in InBuffer, y \in Ends : Due(x, y) =>
          /\ \A n \in DOMAIN trace : trace[n].at < TimeOf(x, y)
          /\ \A f \in InBuffer, m \in Ends :
               Due(f, m) /\ 2 * x + y < 2 * f + m => TimeOf(x, y) < TimeOf(f, m)
    BY <1>1, <1>8 DEF OrderInv
  <2>2. e.at < TimeOf(g, l)
    BY <1>2, <1>4, <1>8, <2>1
  <2> QED BY <1>3, <1>4, <1>5, <1>8, <2>1, <2>2
<1>9. OrderInv'
  BY <1>2, <1>7, <1>8 DEF OrderInv
<1> QED BY <1>6, <1>9

\* The event is the one its run, if it is wanted, still lacked.
LEMMA DumpNextWhole ==
  ASSUME IInv, NEW h \in InBuffer, NEW k \in Ends, NEW e \in Event, DumpedOne(h, k, e)
  PROVE  WholeInv'
<1> SUFFICES ASSUME whole PROVE WholeInv'
    BY DEF WholeInv, DumpedOne
<1>1. TypeOK /\ WholeInv
  BY DEF IInv
<1>2. /\ h \in Int /\ k \in {0, 1} /\ dumped = 2 * h + k /\ dumped' = dumped + 1
      /\ delayed /\ delayed' /\ pc = "dump" /\ pc' = "dump"
      /\ runs' = runs /\ first' = first /\ slots' = slots /\ stack' = stack
      /\ \A n \in DOMAIN runs : n \in Int
  BY <1>1, Domains DEF DumpedOne, InBuffer, Ends
<1>f. PICK F \in Nat : F = first
  BY <1>1, Domains
<1>3. /\ profiler /\ events
      /\ num_events = IF Len(runs) + 1 - first < MaxEvents THEN Len(runs) + 1 - first ELSE MaxEvents
  BY <1>1, <1>2 DEF WholeInv
<1>4. profiler' /\ events' /\ num_events' = num_events
  BY <1>3 DEF DumpedOne
<1>5. Traced \subseteq Traced' /\ e \in Traced'
  <2>1. Grows(e)
    BY <1>3 DEF DumpedOne
  <2> QED BY <1>1, <2>1, GrowsTraced
<1> SUFFICES ASSUME NEW m \in DOMAIN runs, NEW g \in Int, Accounted(m, g) PROVE Accounted(m, g)'
  <2>1. ASSUME NEW m \in DOMAIN runs, Wanted(m)' PROVE Accounted(m, m - F)'
    <3>1. Wanted(m) /\ m - F \in Int
      BY <1>2, <1>f, <2>1 DEF Wanted
    <3>2. Accounted(m, m - F)
      BY <1>1, <1>f, <3>1 DEF WholeInv
    <3> QED BY <3>1, <3>2
  <2> QED BY <1>2, <1>3, <1>4, <1>f, <2>1 DEF WholeInv
<1>6. /\ SlotOf(g, m)
      /\ \A i \in DOMAIN stack : stack[i].run = m <=> stack[i].handle = g
      /\ ~OnStack(m) => slots[g].end = runs[m].end
      /\ 2 * g < dumped => Enter(OpIdxOf(runs[m].op), runs[m].begin) \in Traced
      /\ ~OnStack(m) /\ 2 * g + 1 < dumped => Exit(OpIdxOf(runs[m].op), runs[m].end) \in Traced
  BY <1>2 DEF Accounted
<1>7. ASSUME 2 * g < dumped' PROVE Enter(OpIdxOf(runs[m].op), runs[m].begin) \in Traced'
  <2>1. 2 * g < dumped \/ (g = h /\ k = 0)
    BY <1>2, <1>7
  <2>2. g = h /\ k = 0 => e = Enter(OpIdxOf(runs[m].op), runs[m].begin)
    BY <1>6 DEF DumpedOne, SlotOf
  <2> QED BY <1>5, <1>6, <2>1, <2>2
<1>8. ASSUME 2 * g + 1 < dumped', ~OnStack(m)
      PROVE  Exit(OpIdxOf(runs[m].op), runs[m].end) \in Traced'
  <2>1. 2 * g + 1 < dumped \/ (g = h /\ k = 1)
    BY <1>2, <1>8
  <2>2. g = h /\ k = 1 => e = Exit(OpIdxOf(runs[m].op), runs[m].end)
    BY <1>6, <1>8 DEF DumpedOne, SlotOf
  <2> QED BY <1>5, <1>6, <1>8, <2>1, <2>2
<1>9. /\ SlotOf(g, m)' <=> SlotOf(g, m)
      /\ OnStack(m)' <=> OnStack(m)
  BY <1>2 DEF SlotOf, OnStack
<1> QED BY <1>2, <1>6, <1>7, <1>8, <1>9 DEF Accounted

LEMMA DumpNextStep ==
  ASSUME IInv, DumpNext
  PROVE  IInv'
<1>1. TypeOK /\ PhaseInv /\ StackInv /\ RunInv /\ SlotInv
  BY DEF IInv
<1>2. TypeOK' /\ \E h \in InBuffer, k \in Ends, e \in Event : DumpedOne(h, k, e)
  BY <1>1, DumpNextIsDumpedOne
<1>3. PICK h \in InBuffer, k \in Ends, e \in Event : DumpedOne(h, k, e)
  BY <1>2
<1>4. PhaseInv'
  <2>1. dumped' <= 2 * num_events
    BY <1>1, Domains DEF DumpNext
  <2> QED BY <1>1, <2>1 DEF PhaseInv, DumpNext
<1>5. StackInv' /\ RunInv' /\ SlotInv'
  BY <1>1 DEF StackInv, RunInv, SlotInv, SlotOf, OnStack, InBuffer, DumpNext
<1> QED BY <1>2, <1>3, <1>4, <1>5, DumpNextTrace, DumpNextDue, DumpNextWhole DEF IInv

\* All that is wanted is in the trace when the dump is over.
LEMMA DumpedStep ==
  ASSUME IInv, Dumped
  PROVE  IInv'
<1>1. TypeOK /\ PhaseInv /\ RunInv /\ TraceInv /\ NoEventTwice /\ OrderInv /\ WholeInv
  BY DEF IInv
<1>2. /\ pc = "dump" /\ pc' = "idle" /\ num_events' = 0 /\ dumped' = 0 /\ stack = <<>>
      /\ delayed => dumped = 2 * num_events
      /\ UNCHANGED <<delayed, profiler, events, slots, stack, runs, trace, clock, whole, first>>
  BY <1>1 DEF Dumped, PhaseInv
<1>3. InBuffer' = {}
  BY <1>2 DEF InBuffer
<1>4. TypeOK' /\ PhaseInv'
  BY <1>1, <1>2, Domains DEF TypeOK, PhaseInv
<1>5. StackInv' /\ RunInv' /\ SlotInv' /\ TraceInv' /\ NoEventTwice' /\ DueInv'
  BY <1>1, <1>2, <1>3
     DEF StackInv, RunInv, SlotInv, TraceInv, NoEventTwice, DueInv, Tells, OnStack
<1>6. OrderInv'
  BY <1>1, <1>2, <1>3 DEF OrderInv, Sorted, NoNesting
<1>7. WholeInv'
  <2> SUFFICES ASSUME whole, NEW m \in DOMAIN runs, Wanted(m) PROVE Accounted(m, m - first)'
    BY <1>1, <1>2 DEF WholeInv, Wanted
  <2>g. PICK g \in Int : g = m - first
    BY <1>1, Domains
  <2>1. Accounted(m, g)
    BY <1>1, <2>g DEF WholeInv
  <2>2. ~delayed \/ (2 * g < dumped /\ 2 * g + 1 < dumped)
    <3>1. g < num_events
      <4>1. num_events = IF Len(runs) + 1 - first < MaxEvents THEN Len(runs) + 1 - first
                                                              ELSE MaxEvents
        BY <1>1, <1>2 DEF WholeInv
      <4>2. /\ first \in Int /\ MaxEvents \in Int /\ Len(runs) \in Int /\ m \in Int
            /\ m <= Len(runs) /\ m < first + MaxEvents
        BY <1>1, Domains DEF Wanted
      <4> QED BY <2>g, <4>1, <4>2
    <3>2. num_events \in Int
      BY <1>1, Domains
    <3> QED BY <1>2, <3>1, <3>2
  <2>3. ~OnStack(m)
    BY <1>2 DEF OnStack
  <2>4. /\ Enter(OpIdxOf(runs[m].op), runs[m].begin) \in Traced
        /\ Exit(OpIdxOf(runs[m].op), runs[m].end) \in Traced
    BY <2>1, <2>2, <2>3 DEF Accounted
  <2>5. Accounted(m, g)'
    BY <1>2, <2>4 DEF Accounted, Traced
  <2> QED BY <1>2, <2>g, <2>5
<1> QED BY <1>4, <1>5, <1>6, <1>7 DEF IInv

----------------------------------------------------------------------------
(* The inference and the flags *)

\* Steps that leave the buffer, the runs and the trace alone
LEMMA Untouched ==
  ASSUME IInv, UNCHANGED <<delayed, num_events, slots, dumped, stack, runs, trace, clock>>
  PROVE  /\ StackInv' /\ RunInv' /\ SlotInv' /\ TraceInv' /\ DueInv' /\ NoEventTwice' /\ OrderInv'
         /\ \A n, h : Accounted(n, h) /\ pc # "idle" /\ pc' # "idle" => Accounted(n, h)'
<1>1. StackInv' /\ RunInv' /\ SlotInv' /\ TraceInv' /\ NoEventTwice'
  BY DEF IInv, StackInv, RunInv, SlotInv, TraceInv, NoEventTwice, SlotOf, Tells, OnStack, InBuffer
<1>2. DueInv' /\ OrderInv'
  BY DEF IInv, DueInv, OrderInv, Due, TimeOf, HasHandle, InBuffer, Sorted, NoNesting
<1>3. ASSUME NEW n, NEW h, Accounted(n, h), pc # "idle", pc' # "idle" PROVE Accounted(n, h)'
  BY <1>3 DEF Accounted, SlotOf, OnStack, Traced
<1> QED BY <1>1, <1>2, <1>3

LEMMA QuietStep ==
  ASSUME IInv, Invoke \/ Dump \/ Switch \/ UNCHANGED vars
  PROVE  IInv'
<1>1. TypeOK /\ PhaseInv /\ WholeInv
  BY DEF IInv
<1>2. UNCHANGED <<delayed, num_events, slots, dumped, stack, runs, trace, clock>>
  BY DEF Invoke, Dump, Switch, vars
<1>3. StackInv' /\ RunInv' /\ SlotInv' /\ TraceInv' /\ DueInv' /\ NoEventTwice' /\ OrderInv'
  BY <1>2, Untouched
<1>4. CASE Invoke
  <2>1. TypeOK' /\ PhaseInv'
    BY <1>1, <1>4, Domains DEF TypeOK, PhaseInv, Invoke
  <2>2. WholeInv'
    <3>1. \A n \in DOMAIN runs : ~Wanted(n)'
      BY <1>1, <1>4, Domains DEF Wanted, Invoke
    <3>2. whole' => num_events = 0 /\ Len(runs) + 1 - first' = 0 /\ 0 < MaxEvents
      <4>1. whole' => num_events = 0
        BY <1>4 DEF Invoke
      <4>2. Len(runs) + 1 - first' = 0 /\ 0 < MaxEvents
        BY <1>1, <1>4, Domains, SizeAssumption DEF Invoke
      <4> QED BY <4>1, <4>2
    <3>3. whole' => profiler' /\ events'
      BY <1>4 DEF Invoke
    <3> QED BY <1>2, <3>1, <3>2, <3>3 DEF WholeInv
  <2> QED BY <1>3, <2>1, <2>2 DEF IInv
<1>5. CASE Dump
  <2>1. TypeOK' /\ PhaseInv'
    BY <1>1, <1>5 DEF TypeOK, PhaseInv, Dump
  <2>2. WholeInv'
    <3> SUFFICES ASSUME whole PROVE WholeInv'
      BY <1>5 DEF Dump, WholeInv
    <3>1. pc # "idle" /\ pc' # "idle" /\ first' = first /\ UNCHANGED <<profiler, events, whole>>
      BY <1>1, <1>5 DEF Dump, WholeInv
    <3>2. \A n, h : Accounted(n, h) => Accounted(n, h)'
      BY <1>2, <3>1, Untouched
    <3> QED BY <1>1, <1>2, <3>1, <3>2 DEF WholeInv, Wanted
  <2> QED BY <1>3, <2>1, <2>2 DEF IInv
<1>6. CASE Switch
  <2>1. TypeOK' /\ PhaseInv' /\ WholeInv'
    BY <1>1, <1>6 DEF TypeOK, PhaseInv, WholeInv, Switch
  <2> QED BY <1>3, <2>1 DEF IInv
<1>7. CASE UNCHANGED vars
  <2>1. TypeOK' /\ PhaseInv'
    BY <1>1, <1>7 DEF TypeOK, PhaseInv, vars
  <2>2. WholeInv'
    BY <1>1, <1>7
       DEF WholeInv, Wanted, Accounted, SlotOf, OnStack, Traced, vars
  <2> QED BY <1>3, <2>1, <2>2 DEF IInv
<1> QED BY <1>4, <1>5, <1>6, <1>7

LEMMA NextIInv == IInv /\ [Next]_vars => IInv'
<1> SUFFICES ASSUME IInv, [Next]_vars PROVE IInv'
    OBVIOUS
<1>1. ASSUME NEW op \in Ops, Begin(op) PROVE IInv'
  BY <1>1, BeginStep
<1> QED BY <1>1, EndStep, DumpNextStep, DumpedStep, QuietStep DEF Next

LEMMA SpecIInv == Spec => []IInv
BY InitIInv, NextIInv, PTL DEF Spec

----------------------------------------------------------------------------
(* The theorems *)

\* The variables keep their types: BeginEvent takes no slot beyond MaxEvents
\* (tflm_profiler.cpp:26, tvm_profiler.c:69), and no dump reads beyond num_events.
THEOREM ProfilerTypes == Spec => []TypeOK
BY SpecIInv, PTL DEF IInv

LEMMA TellsTruth ==
  ASSUME TypeOK, TraceInv
  PROVE  EventsAreTrue
<1> SUFFICES ASSUME NEW k \in DOMAIN trace
             PROVE  \E n \in DOMAIN runs :
               /\ runs[n].op \in OpIdx => runs[n].op = trace[k].op
               /\ trace[k].at = IF trace[k].kind = "enter" THEN runs[n].begin ELSE runs[n].end
  BY DEF EventsAreTrue, Traced
<1>1. PICK n \in DOMAIN runs : Tells(trace[k], n)
  BY DEF TraceInv
<1>2. trace[k].kind \in {"enter", "exit"} /\ runs[n].op \in Ops
  BY Domains
<1>3. runs[n].op \in OpIdx => OpIdxOf(runs[n].op) = runs[n].op
  BY <1>2, OpIdxType
<1> QED BY <1>1, <1>2, <1>3 DEF Tells

\* Every emitted event tells when its operator began or ended, and if op_idx can hold the
\* index, which operator it was (tflm_profiler.cpp:25-125, tvm_profiler.c:69-134).
THEOREM EventsTrue == Spec => []EventsAreTrue
<1>1. IInv => EventsAreTrue
  BY TellsTruth DEF IInv
<1> QED BY <1>1, SpecIInv, PTL

\* No event is emitted twice, whenever the flags are switched between the dumps.
THEOREM EventsOnce == Spec => []NoEventTwice
BY SpecIInv, PTL DEF IInv

\* Events are emitted in the order of time, except for a delayed emission of nested operators.
THEOREM EventsOrdered == Spec => []StreamInOrder
<1>1. IInv => StreamInOrder
  BY DEF IInv, OrderInv, Sorted, StreamInOrder
<1> QED BY <1>1, SpecIInv, PTL

LEMMA AllAccounted ==
  ASSUME TypeOK, PhaseInv, WholeInv
  PROVE  InferenceIsComplete
<1> SUFFICES ASSUME pc = "idle", whole, NEW n \in DOMAIN runs, first <= n, n < first + MaxEvents
             PROVE  /\ Enter(OpIdxOf(runs[n].op), runs[n].begin) \in Traced
                    /\ Exit(OpIdxOf(runs[n].op), runs[n].end) \in Traced
  BY DEF InferenceIsComplete
<1>1. Accounted(n, n - first)
  BY DEF WholeInv, Wanted
<1>2. ~OnStack(n)
  BY DEF PhaseInv, OnStack
<1> QED BY <1>1, <1>2 DEF Accounted

\* An inference that found the buffer empty, and was observed from begin to end, leaves both
\* events of its first MaxEvents operators in the trace, for every buffer size.
THEOREM InferenceComplete == Spec => []InferenceIsComplete
<1>1. IInv => InferenceIsComplete
  BY AllAccounted DEF IInv
<1> QED BY <1>1, SpecIInv, PTL
=============================================================================
