---------------------------- MODULE SamplesProofs ----------------------------
(***************************************************************************)
(* Proofs about the sample programs, and about the boards they run on.     *)
(*                                                                         *)
(* The SMP TVM sample, for any number of workers and CPUs: its inductive   *)
(* invariant says that there is one token for every worker that main has   *)
(* started: one count of one of its semaphores, or main or the worker has  *)
(* it.                                                                     *)
(*                                                                         *)
(* The accelerometer demo, for every size of the buffer and every stride:  *)
(* the invariant says what the ring buffer holds at any time, also between *)
(* a write and the step of the index, and that main copies it only while   *)
(* neither moves.                                                          *)
(*                                                                         *)
(* The model samples, for any size of the buffer and of the first arena    *)
(* and any number of iterations: the arenas are disjoint, and no model is  *)
(* fed or run that is not loaded, or run on an old input where the sample  *)
(* computes one.  The second rests on what the samples do about failures:  *)
(* a failed load ends them, and a failed input skips the run behind it.    *)
(*                                                                         *)
(* The kernels, for every size of a layer: each loop nest computes the sum *)
(* that defines its layer, reads nothing outside its arrays and writes     *)
(* every output once.  The sums are sets of terms; the lemmas say which    *)
(* term the indices of a loop name.  That the kernels of a graph fit, in   *)
(* shapes and storages, is a lemma about its nodes; the invariant of an    *)
(* inference says that the output of the node before is there as a whole.  *)
(*                                                                         *)
(* The board: what holds of each program by itself holds of the image that *)
(* is flashed, for an image is its program and nothing else.               *)
(***************************************************************************)
EXTENDS MCSamples, TraceEmissionProofs, FrameLinkProofs

----------------------------------------------------------------------------
(* The SMP TVM sample *)

\* Main has started worker i, has taken its answer and not asked it yet
Launched(i) == main \in {"scan", "fill", "ask", "sleep"} \/ (main = "start" /\ i < at)
Held(i)  == main \in {"fill", "ask"} /\ at = i

\* Where the token of a worker can be: it has answered, main has it, it is asked, it has it.
Answered(i) == worker[i] = "wait" /\ tsem_start[i] = 0 /\ tsem_done[i] = 1 /\ ~Held(i)
Refilled(i) == worker[i] = "wait" /\ tsem_start[i] = 0 /\ tsem_done[i] = 0 /\ Held(i)
Asked(i)    == worker[i] = "wait" /\ tsem_start[i] = 1 /\ tsem_done[i] = 0 /\ ~Held(i)
Busy(i)     == /\ worker[i] \in {"load", "run", "done"}
               /\ tsem_start[i] = 0 /\ tsem_done[i] = 0 /\ ~Held(i)

OneToken(i) ==
  IF Launched(i) THEN Answered(i) \/ Refilled(i) \/ Asked(i) \/ Busy(i)
              ELSE worker[i] = "off" /\ tsem_start[i] = 0

SmpInv == SmpTypeOK /\ at \in Workers /\ \A i \in Workers : OneToken(i)

LEMMA SmpInvInit == SmpInit => SmpInv
BY SmpAssumption DEF SmpInit, SmpInv, SmpTypeOK, OneToken, Launched, Workers, Cpus

----------------------------------------------------------------------------
(* Steps *)

\* The index of a loop stays an index, and it moves within the phase or to the next one.
LEMMA OnwardStep ==
  ASSUME at \in Workers, NEW p, NEW q, Onward(p, q)
  PROVE  /\ at' \in Workers
         /\ \/ main' = p /\ at' = at + 1
            \/ main' = q /\ at' = 0 /\ at + 1 = ModelThreads
BY SmpAssumption DEF Onward, Workers

\* Steps of main before the workers are started leave them alone.
LEMMA EarlyStep ==
  ASSUME SmpInv, Alloc \/ Load PROVE SmpInv'
<1>1. CASE Alloc
  BY <1>1 DEF SmpInv, Alloc, SmpTypeOK, OneToken, Launched, Workers
<1>2. CASE Load
  <2>1. CASE Onward("load", "start")
    <3>1. at' \in Workers /\ (main' = "load" \/ (main' = "start" /\ at' = 0))
      BY <2>1, OnwardStep DEF SmpInv
    <3>2. \A i \in Workers : ~Launched(i) /\ ~Launched(i)'
      BY <1>2, <3>1 DEF Load, Launched, Workers
    <3> QED BY <1>2, <3>1, <3>2 DEF SmpInv, Load, SmpTypeOK, OneToken, Workers
  <2>2. CASE main' = "end" /\ UNCHANGED at
    BY <1>2, <2>2 DEF SmpInv, Load, SmpTypeOK, OneToken, Launched, Workers
  <2> QED BY <1>2, <2>1, <2>2 DEF Load
<1> QED BY <1>1, <1>2

LEMMA StartStep ==
  ASSUME SmpInv, Start PROVE SmpInv'
<1>1. /\ at' \in Workers
      /\ \/ main' = "start" /\ at' = at + 1
         \/ main' = "scan" /\ at' = 0 /\ at + 1 = ModelThreads
  BY OnwardStep DEF SmpInv, Start
<1>2. SmpTypeOK'
  BY <1>1 DEF SmpInv, Start, SmpTypeOK, Workers
<1>3. ASSUME NEW i \in Workers PROVE OneToken(i)'
  <2>1. Launched(i)' <=> (Launched(i) \/ i = at)
    BY <1>1 DEF SmpInv, Start, Launched, Workers
  <2>2. ~Held(i) /\ ~Held(i)' /\ ~Launched(at)
    BY <1>1 DEF SmpInv, Start, Launched, Held, Workers
  <2>3. CASE i = at
    BY <2>1, <2>2, <2>3 DEF SmpInv, Start, SmpTypeOK, OneToken, Answered
  <2>4. CASE i # at
    BY <2>1, <2>2, <2>4
       DEF SmpInv, Start, SmpTypeOK, OneToken, Answered, Refilled, Asked, Busy
  <2> QED BY <2>3, <2>4
<1> QED BY <1>1, <1>2, <1>3 DEF SmpInv

\* While main looks for workers, each of them has been started.
LEMMA ScanStep ==
  ASSUME SmpInv, NotDone \/ TakeDone \/ Fill \/ Ask \/ Wake PROVE SmpInv'
<1>1. /\ at' \in Workers
      /\ main \in {"scan", "fill", "ask", "sleep"} /\ main' \in {"scan", "fill", "ask", "sleep"}
      /\ main' \in {"fill", "ask", "sleep"} => at' = at
  BY OnwardStep DEF SmpInv, NotDone, TakeDone, Fill, Ask, Wake
<1>2. SmpTypeOK'
  BY <1>1 DEF SmpInv, SmpTypeOK, NotDone, TakeDone, Fill, Ask, Wake, Workers
<1>3. ASSUME NEW i \in Workers PROVE OneToken(i)'
  <2>1. Launched(i) /\ Launched(i)'
    BY <1>1 DEF Launched
  <2>2. CASE NotDone \/ Wake
    <3>1. ~Held(i) /\ ~Held(i)'
      BY <2>2, OnwardStep DEF SmpInv, NotDone, Wake, Held
    <3> QED BY <2>1, <2>2, <3>1
            DEF SmpInv, NotDone, Wake, OneToken, Answered, Refilled, Asked, Busy
  <2>3. CASE TakeDone
    BY <2>1, <2>3 DEF SmpInv, SmpTypeOK, TakeDone, Held, OneToken, Answered, Refilled, Asked, Busy
  <2>4. CASE Fill
    BY <2>1, <2>4 DEF SmpInv, Fill, Held, OneToken, Answered, Refilled, Asked, Busy
  <2>5. CASE Ask
    BY <2>1, <2>5 DEF SmpInv, SmpTypeOK, Ask, Held, OneToken, Answered, Refilled, Asked, Busy
  <2> QED BY <2>2, <2>3, <2>4, <2>5
<1> QED BY <1>1, <1>2, <1>3 DEF SmpInv

\* A worker moves its own token only.
LEMMA WorkerStep ==
  ASSUME SmpInv, NEW w \in Workers, Worker(w) PROVE SmpInv'
<1>1. UNCHANGED <<main, at, cpu>>
  BY DEF Worker, Begin, LoadInput, Run, GiveDone
<1>2. SmpTypeOK'
  BY <1>1 DEF SmpInv, SmpTypeOK, Worker, Begin, LoadInput, Run, GiveDone
<1>3. ASSUME NEW i \in Workers PROVE OneToken(i)'
  <2>1. (Launched(i)' <=> Launched(i)) /\ (Held(i)' <=> Held(i))
    BY <1>1 DEF Launched, Held
  <2>2. CASE i # w
    BY <2>1, <2>2 DEF SmpInv, SmpTypeOK, Worker, Begin, LoadInput, Run, GiveDone,
                      OneToken, Answered, Refilled, Asked, Busy
  <2>3. CASE i = w
    BY <2>1, <2>3 DEF SmpInv, SmpTypeOK, Worker, Begin, LoadInput, Run, GiveDone,
                      OneToken, Answered, Refilled, Asked, Busy
  <2> QED BY <2>2, <2>3
<1> QED BY <1>1, <1>2, <1>3 DEF SmpInv

LEMMA SmpInvNext == SmpInv /\ [SmpNext]_smpVars => SmpInv'
<1> SUFFICES ASSUME SmpInv, [SmpNext]_smpVars PROVE SmpInv'
    OBVIOUS
<1>1. CASE MainStep
  BY <1>1, EarlyStep, StartStep, ScanStep DEF MainStep
<1>2. ASSUME NEW w \in Workers, Worker(w) PROVE SmpInv'
  BY <1>2, WorkerStep
<1>3. CASE UNCHANGED smpVars
  BY <1>3 DEF smpVars, SmpInv, SmpTypeOK, OneToken, Launched, Held, Answered, Refilled, Asked,
     Busy
<1> QED BY <1>1, <1>2, <1>3 DEF SmpNext

LEMMA SmpSpecInv == SmpSpec => []SmpInv
BY SmpInvInit, SmpInvNext, PTL DEF SmpSpec

----------------------------------------------------------------------------
\* The variables keep their types (part of SamplesTypeOK), the index of main's loops included.
THEOREM WorkerTypes == SmpSpec => []SmpTypeOK
<1>1. SmpInv => SmpTypeOK
  BY DEF SmpInv
<1> QED BY <1>1, SmpSpecInv, PTL

\* Main never writes the input of a running inference and never asks a worker twice, for any
\* number of workers and CPUs (main.c:183-202): the token of a worker is with main then.
THEOREM InputsAreStable == SmpSpec => []InputStable
<1>1. SmpInv => InputStable
  BY DEF SmpInv, InputStable, OneToken, Launched, Held, Answered, Refilled, Asked, Busy
<1> QED BY <1>1, SmpSpecInv, PTL

----------------------------------------------------------------------------
(* The accelerometer demo *)

\* Sample n, with the zeros the buffer starts with before the first one
Sample(n) == IF n > 0 THEN n ELSE 0

\* Place i of a window of the InputShape samples up to the one with number last
WindowAt(last, i) == Sample(last - InputShape + i + 1)

After(k)      == IF k + 1 = InputShape THEN 0 ELSE k + 1
Distance(s, k) == IF k >= s THEN k - s ELSE k - s + InputShape
\* The ring holds the last samples, the oldest one at s
RingFrom(s) == \A k \in Slots : data_buffer[k] = WindowAt(taken, Distance(s, k))

RingInv == RingFrom(IF sensor = "step" THEN After(sample_idx) ELSE sample_idx)

\* Who has a sample coming has room for it.
RoomInv == sensor \in {"fetch", "lock"} => taken < MaxSamples

\* While main has the mutex the sensor thread is before its next write, and not between a
\* write and the step of the index: that is what its priority is for.
MutexInv ==
  /\ mutex = "main" <=> app \in {"tail", "head"}
  /\ mutex = "main" => sensor \in {"sleep", "fetch", "lock"} /\ asOf = taken

TailInv == app = "head" => \A i \in Slots :
  i < InputShape - sample_idx => model_input[i] = WindowAt(asOf, i)

DemoInv == DemoTypeOK /\ RingInv /\ RoomInv /\ MutexInv /\ TailInv /\ WindowIsLatest

----------------------------------------------------------------------------
\* The index of the buffer wraps around.
LEMMA Wraps ==
  ASSUME NEW k \in Slots
  PROVE  (k + 1) % InputShape = After(k) /\ After(k) \in Slots
<1>1. InputShape \in Nat /\ InputShape > 0 /\ k \in Nat /\ k + 1 <= InputShape
  BY DemoAssumption DEF Slots
<1>2. CASE k + 1 = InputShape
  BY <1>1, <1>2 DEF After, Slots
<1>3. CASE k + 1 < InputShape
  BY <1>1, <1>3 DEF After, Slots
<1> QED BY <1>1, <1>2, <1>3

\* A sample written at s is the newest, and the one after s the oldest: the window moves on.
LEMMA WindowMoves ==
  ASSUME NEW s \in Slots, NEW k \in Slots, taken \in Nat
  PROVE  k # s => WindowAt(taken + 1, Distance(After(s), k)) = WindowAt(taken, Distance(s, k))
<1> USE DemoAssumption DEF Slots, After, Distance, WindowAt, Sample
<1>1. CASE s + 1 = InputShape
  BY <1>1
<1>2. CASE s + 1 # InputShape
  BY <1>2
<1> QED BY <1>1, <1>2

LEMMA NewestAtEnd ==
  ASSUME NEW s \in Slots, taken \in Nat
  PROVE  WindowAt(taken + 1, Distance(After(s), s)) = taken + 1
BY DemoAssumption DEF Slots, After, Distance, WindowAt, Sample

LEMMA DemoInvInit == DemoInit => DemoInv
<1> SUFFICES ASSUME DemoInit PROVE DemoInv
    OBVIOUS
<1>1. DemoTypeOK
  BY DemoAssumption DEF DemoInit, DemoTypeOK, Slots
<1>2. RingInv
  BY DemoAssumption DEF DemoInit, RingInv, RingFrom, Slots, Distance, WindowAt, Sample
<1> QED BY <1>1, <1>2 DEF DemoInit, DemoInv, RoomInv, MutexInv, TailInv, WindowIsLatest

----------------------------------------------------------------------------
(* Steps of the sensor thread *)

LEMMA WriteStep ==
  ASSUME DemoInv, Write PROVE DemoInv'
<1> USE DEF DemoInv
<1>1. sample_idx \in Slots /\ taken \in Nat /\ taken < MaxSamples /\ taken + 1 \in 0..MaxSamples
  BY DemoAssumption DEF DemoTypeOK, RoomInv, Write
<1>2. DemoTypeOK'
  BY <1>1 DEF DemoTypeOK, Write
<1>3. RingInv'
  <2>1. ASSUME NEW k \in Slots
        PROVE  data_buffer'[k] = WindowAt(taken + 1, Distance(After(sample_idx), k))
    <3>1. data_buffer[k] = WindowAt(taken, Distance(sample_idx, k))
      BY DEF RingInv, RingFrom, Write
    <3>2. CASE k = sample_idx
      BY <1>1, <3>2, NewestAtEnd DEF DemoTypeOK, Write
    <3>3. CASE k # sample_idx
      BY <1>1, <3>1, <3>3, WindowMoves DEF DemoTypeOK, Write
    <3> QED BY <3>2, <3>3
  <2> QED BY <2>1 DEF RingInv, RingFrom, Write, WindowAt
<1>4. MutexInv' /\ RoomInv'
  BY DEF MutexInv, RoomInv, Write
<1>5. TailInv' /\ WindowIsLatest'
  BY DEF MutexInv, TailInv, WindowIsLatest, WindowAt, Write
<1> QED BY <1>2, <1>3, <1>4, <1>5

LEMMA StepStep ==
  ASSUME DemoInv, Step PROVE DemoInv'
<1> USE DEF DemoInv
<1>1. sample_idx' = After(sample_idx) /\ sample_idx' \in Slots
  BY Wraps DEF DemoTypeOK, Step
<1>2. DemoTypeOK' /\ RoomInv'
  BY <1>1 DEF DemoTypeOK, RoomInv, Step
<1>3. RingInv'
  BY <1>1 DEF RingInv, RingFrom, WindowAt, Step
<1>4. MutexInv' /\ TailInv' /\ WindowIsLatest'
  BY DEF MutexInv, TailInv, WindowIsLatest, Step
<1> QED BY <1>2, <1>3, <1>4

LEMMA SensorStep ==
  ASSUME DemoInv, EndSleep \/ Fetch \/ RequestInference PROVE DemoInv'
<1> USE DEF DemoInv
<1>1. UNCHANGED <<data_buffer, sample_idx, taken, mutex, app, model_input, asOf>>
  BY DEF EndSleep, Fetch, RequestInference
<1>2. DemoTypeOK' /\ RoomInv'
  BY <1>1 DEF DemoTypeOK, RoomInv, EndSleep, Fetch, RequestInference
<1>3. RingInv'
  BY <1>1 DEF RingInv, RingFrom, WindowAt, EndSleep, Fetch, RequestInference
<1>4. MutexInv' /\ TailInv' /\ WindowIsLatest'
  BY <1>1 DEF MutexInv, TailInv, WindowIsLatest, WindowAt, EndSleep, Fetch, RequestInference
<1> QED BY <1>2, <1>3, <1>4

----------------------------------------------------------------------------
(* Steps of main *)

LEMMA CopyTailStep ==
  ASSUME DemoInv, CopyTail PROVE DemoInv'
<1> USE DEF DemoInv
<1>1. sample_idx \in Slots /\ InputShape \in Nat /\ sensor # "step" /\ asOf = taken
  BY DemoAssumption DEF DemoTypeOK, MutexInv, CopyTail
<1>2. ASSUME NEW i \in Slots, i < InputShape - sample_idx
      PROVE  /\ sample_idx + i \in Slots
             /\ data_buffer[sample_idx + i] = WindowAt(asOf, i)
  <2>1. sample_idx + i \in Slots /\ Distance(sample_idx, sample_idx + i) = i
    BY <1>1, <1>2 DEF Slots, Distance
  <2> QED BY <1>1, <2>1 DEF RingInv, RingFrom
<1>3. DemoTypeOK'
  BY <1>2 DEF DemoTypeOK, CopyTail
<1>4. TailInv'
  BY <1>2 DEF TailInv, WindowAt, CopyTail
<1>5. RingInv' /\ RoomInv' /\ MutexInv' /\ WindowIsLatest'
  BY DEF RingInv, RingFrom, RoomInv, MutexInv, WindowIsLatest, WindowAt, CopyTail
<1> QED BY <1>3, <1>4, <1>5

LEMMA CopyHeadStep ==
  ASSUME DemoInv, CopyHead PROVE DemoInv'
<1> USE DEF DemoInv
<1>1. sample_idx \in Slots /\ InputShape \in Nat /\ sensor # "step" /\ asOf = taken
  BY DemoAssumption DEF DemoTypeOK, MutexInv, CopyHead
<1>2. ASSUME NEW i \in Slots, i >= InputShape - sample_idx
      PROVE  /\ i - (InputShape - sample_idx) \in Slots
             /\ data_buffer[i - (InputShape - sample_idx)] = WindowAt(asOf, i)
  <2> DEFINE k == i - (InputShape - sample_idx)
  <2>1. k \in Slots /\ Distance(sample_idx, k) = i
    BY <1>1, <1>2 DEF Slots, Distance
  <2> QED BY <1>1, <2>1 DEF RingInv, RingFrom
<1>3. DemoTypeOK'
  BY <1>2 DEF DemoTypeOK, CopyHead
<1>4. WindowIsLatest'
  <2>1. ASSUME NEW i \in Slots PROVE model_input'[i] = WindowAt(asOf, i)
    <3>1. CASE i >= InputShape - sample_idx
      BY <1>2, <3>1 DEF CopyHead
    <3>2. CASE ~(i >= InputShape - sample_idx)
      <4>1. i < InputShape - sample_idx
        BY <1>1, <3>2 DEF Slots
      <4> QED BY <3>2, <4>1 DEF TailInv, CopyHead
    <3> QED BY <3>1, <3>2
  <2> QED BY <2>1 DEF WindowIsLatest, WindowAt, Sample, CopyHead
<1>5. RingInv' /\ RoomInv' /\ MutexInv' /\ TailInv'
  BY DEF RingInv, RingFrom, RoomInv, MutexInv, TailInv, WindowAt, CopyHead
<1> QED BY <1>3, <1>4, <1>5

\* The other steps of main leave the ring and the copy alone; the mutex is taken only while
\* the sensor thread sleeps or fetches.
LEMMA AppStep ==
  ASSUME DemoInv, LoadModel \/ Poll \/ EndNap \/ LockBuffer \/ Infer PROVE DemoInv'
<1> USE DEF DemoInv
<1>1. UNCHANGED <<data_buffer, sample_idx, taken, sensor, model_input>>
  BY DEF LoadModel, Poll, EndNap, LockBuffer, Infer
<1>2. DemoTypeOK'
  BY <1>1 DEF DemoTypeOK, LoadModel, Poll, EndNap, LockBuffer, Infer
<1>3. RingInv' /\ RoomInv'
  BY <1>1 DEF RingInv, RingFrom, RoomInv, WindowAt
<1>4. MutexInv'
  BY <1>1 DEF MutexInv, MainRuns, LoadModel, Poll, EndNap, LockBuffer, Infer
<1>5. TailInv' /\ WindowIsLatest'
  BY DEF TailInv, WindowIsLatest, LoadModel, Poll, EndNap, LockBuffer, Infer
<1> QED BY <1>2, <1>3, <1>4, <1>5

LEMMA DemoInvNext == DemoInv /\ [DemoNext]_demoVars => DemoInv'
<1> SUFFICES ASSUME DemoInv, [DemoNext]_demoVars PROVE DemoInv'
    OBVIOUS
<1>1. CASE SensorThread
  BY <1>1, WriteStep, StepStep, SensorStep DEF SensorThread
<1>2. CASE MainThread
  BY <1>2, CopyTailStep, CopyHeadStep, AppStep DEF MainThread
<1>3. CASE UNCHANGED demoVars
  BY <1>3 DEF demoVars, DemoInv, DemoTypeOK, RingInv, RingFrom, RoomInv, MutexInv, TailInv,
              WindowIsLatest, WindowAt
<1> QED BY <1>1, <1>2, <1>3 DEF DemoNext

LEMMA DemoSpecInv == DemoSpec => []DemoInv
BY DemoInvInit, DemoInvNext, PTL DEF DemoSpec

----------------------------------------------------------------------------
\* The variables keep their types (part of SamplesTypeOK): every index of the two copies is
\* one of the buffer.
THEOREM DemoTypes == DemoSpec => []DemoTypeOK
<1>1. DemoInv => DemoTypeOK
  BY DEF DemoInv
<1> QED BY <1>1, DemoSpecInv, PTL

\* The model is given the last InputShape samples, oldest first, for every size of the buffer
\* (main.c:99-111, 173-182), although the index moves outside the mutex.
THEOREM WindowsAreLatest == DemoSpec => []WindowIsLatest
<1>1. DemoInv => WindowIsLatest
  BY DEF DemoInv
<1> QED BY <1>1, DemoSpecInv, PTL

----------------------------------------------------------------------------
(* The model samples *)

\* The models that the first n calls of the setup load are loaded.
LoadedTo(n) ==
  \A k \in 1..n : program.setup[k].op = "load" => interpreter[program.setup[k].model] = "live"

LoadedInv == ~Ended => IF group = 0 THEN LoadedTo(call - 1) ELSE LoadedTo(Len(program.setup))

\* The variables a sample computes, and what its model is run on
Computes(p) ==
  IF p \in {tflm_delayed_emission, tvm_delayed_emission} THEN {}
  ELSE IF p = tflm_tvm_models THEN {"model1_input_q"} ELSE Inputs

RunsOn(p, m) == IF OnOldInput(p, m) THEN "old" ELSE "new"

\* What the call before has computed or handed over is there.
InputInv ==
  /\ computed \subseteq Computes(program)
  /\ ~Ended /\ group # 0 /\ call # 1 =>
       LET last == Calls[call - 1] IN
       /\ last.op = "compute" => last.input \in computed
       /\ last.op = "input" => fed[last.model] = RunsOn(program, last.model)

\* Every arena is below the position, also that of a model whose load failed, which is empty.
ArenaInv ==
  \A m, n \in ModelNames : /\ arena[m] \subseteq 0..(buffer_pos - 1)
                           /\ m # n => arena[m] \intersect arena[n] = {}

SampleInv == SampleTypeOK /\ ArenaInv /\ LoadedInv /\ InputInv

----------------------------------------------------------------------------
(* The samples *)

\* The calls of a group: a model runs right after it was given an input, and the setup loads it.
\* What it is given is computed right before, or nowhere if the model runs on an old input.
GroupShape(p, calls) ==
  /\ Len(calls) \in Nat \ {0}
  /\ \A k \in 1..Len(calls) :
       /\ calls[k].op \in {"compute", "input", "run", "output"}
       /\ calls[k].op = "compute" => calls[k].input \in Computes(p)
       /\ calls[k].op # "compute" =>
            /\ calls[k].model \in ModelNames
            /\ \E j \in 1..Len(p.setup) :
                 p.setup[j].op = "load" /\ p.setup[j].model = calls[k].model
       /\ calls[k].op = "input" =>
            IF OnOldInput(p, calls[k].model) THEN calls[k].input \notin Computes(p)
            ELSE k # 1 /\ calls[k - 1].op = "compute" /\ calls[k - 1].input = calls[k].input
       /\ calls[k].op = "run" =>
            k # 1 /\ calls[k - 1].op = "input" /\ calls[k - 1].model = calls[k].model

SetupCalls ==
  [op: {"load", "init", "init unchecked"}, model: ModelNames, size: Nat]

SetupShape(calls) == Len(calls) \in Nat \ {0} /\ \A k \in 1..Len(calls) : calls[k] \in SetupCalls

ProgramShape(p) ==
  /\ SetupShape(p.setup)
  /\ Len(p.loop) \in Nat \ {0} /\ \A g \in 1..Len(p.loop) : GroupShape(p, p.loop[g])

\* Every group is made of computing an input, handing it over and a run, ...
LEMMA PairShape ==
  ASSUME NEW p, NEW m \in ModelNames, NEW n \in ModelNames, NEW x \in Computes(p),
         NEW y \in Computes(p), ~OnOldInput(p, m), ~OnOldInput(p, n),
         \E j \in 1..Len(p.setup) : p.setup[j].op = "load" /\ p.setup[j].model = m,
         \E j \in 1..Len(p.setup) : p.setup[j].op = "load" /\ p.setup[j].model = n
  PROVE  /\ GroupShape(p, <<Compute(x), InputM(m, x), RunM(m)>>)
         /\ GroupShape(p, <<Compute(x), InputM(m, x), RunM(m), OutputM(m)>>)
         /\ GroupShape(p, <<Compute(x), InputM(m, x), RunM(m), Compute(y), InputM(n, y), RunM(n)>>)
<1> DEFINE c == Compute(x)
           i == InputM(m, x)
           r == RunM(m)
           o == OutputM(m)
           d == Compute(y)
           j == InputM(n, y)
           q == RunM(n)
<1>1. /\ c.op = "compute" /\ c.input = x /\ d.op = "compute" /\ d.input = y
      /\ i.op = "input" /\ i.input = x /\ i.model = m /\ j.op = "input" /\ j.input = y
      /\ j.model = n /\ r.op = "run" /\ r.model = m /\ q.op = "run" /\ q.model = n
      /\ o.op = "output" /\ o.model = m
  BY DEF Compute, InputM, RunM, OutputM
<1> HIDE DEF c, i, r, o, d, j, q
<1>2. GroupShape(p, <<c, i, r>>)
  BY <1>1 DEF GroupShape
<1>3. GroupShape(p, <<c, i, r, o>>)
  BY <1>1 DEF GroupShape
<1>4. GroupShape(p, <<c, i, r, d, j, q>>)
  <2> DEFINE g == <<c, i, r, d, j, q>>
  <2>1. /\ Len(g) = 6 /\ g[1] = c /\ g[2] = i /\ g[3] = r
        /\ g[4] = d /\ g[5] = j /\ g[6] = q
    OBVIOUS
  <2> HIDE DEF g
  <2> SUFFICES GroupShape(p, g)
    BY DEF g
  <2> SUFFICES ASSUME NEW k \in 1..6
               PROVE  /\ g[k].op \in {"compute", "input", "run", "output"}
                      /\ g[k].op = "compute" => g[k].input \in Computes(p)
                      /\ g[k].op # "compute" =>
                           /\ g[k].model \in ModelNames
                           /\ \E l \in 1..Len(p.setup) :
                                p.setup[l].op = "load" /\ p.setup[l].model = g[k].model
                      /\ g[k].op = "input" =>
                           IF OnOldInput(p, g[k].model) THEN g[k].input \notin Computes(p)
                           ELSE /\ k # 1 /\ g[k - 1].op = "compute"
                                /\ g[k - 1].input = g[k].input
                      /\ g[k].op = "run" =>
                           k # 1 /\ g[k - 1].op = "input" /\ g[k - 1].model = g[k].model
    BY <2>1 DEF GroupShape
  <2>2. CASE k = 1
    BY <1>1, <2>1, <2>2
  <2>3. CASE k = 2
    BY <1>1, <2>1, <2>3
  <2>4. CASE k = 3
    BY <1>1, <2>1, <2>4
  <2>5. CASE k = 4
    BY <1>1, <2>1, <2>5
  <2>6. CASE k = 5
    BY <1>1, <2>1, <2>6
  <2>7. CASE k = 6
    BY <1>1, <2>1, <2>7
  <2> QED BY <2>2, <2>3, <2>4, <2>5, <2>6, <2>7
<1> QED BY <1>2, <1>3, <1>4 DEF c, i, r, o, d, j, q

\* ... but for models that run on an old input, of a variable that is not computed.
LEMMA OldShape ==
  ASSUME NEW p, NEW m \in ModelNames, NEW n \in ModelNames, NEW x, x \notin Computes(p),
         OnOldInput(p, m), OnOldInput(p, n),
         \E j \in 1..Len(p.setup) : p.setup[j].op = "load" /\ p.setup[j].model = m,
         \E j \in 1..Len(p.setup) : p.setup[j].op = "load" /\ p.setup[j].model = n
  PROVE  /\ GroupShape(p, <<InputM(m, x), RunM(m)>>)
         /\ \A y \in Computes(p) :
              GroupShape(p, <<Compute(y), InputM(m, x), RunM(m), Compute(y), InputM(n, x), RunM(n)>>)
<1> DEFINE i == InputM(m, x)
           r == RunM(m)
           j == InputM(n, x)
           q == RunM(n)
<1>1. /\ i.op = "input" /\ i.input = x /\ i.model = m /\ j.op = "input" /\ j.input = x
      /\ j.model = n /\ r.op = "run" /\ r.model = m /\ q.op = "run" /\ q.model = n
  BY DEF InputM, RunM
<1> HIDE DEF i, r, j, q
<1>2. GroupShape(p, <<i, r>>)
  BY <1>1 DEF GroupShape
<1>3. ASSUME NEW y \in Computes(p) PROVE GroupShape(p, <<Compute(y), i, r, Compute(y), j, q>>)
  <2> DEFINE c == Compute(y)
  <2>1. c.op = "compute" /\ c.input = y
    BY DEF Compute
  <2> HIDE DEF c
  <2>2. GroupShape(p, <<c, i, r, c, j, q>>)
    BY <1>1, <2>1 DEF GroupShape
  <2> QED BY <2>2 DEF c
<1> QED BY <1>2, <1>3 DEF i, r, j, q

\* The other programs compute what they hand over.
LEMMA Ordinary ==
  ASSUME NEW p \in {tflm_inference, tflm_instrumentation, tflm_multi_model, tvm_profiler,
                    tvm_multi_model}
  PROVE  Computes(p) = Inputs /\ \A m : ~OnOldInput(p, m)
<1>1. Len(p.loop) = 1 /\ p.loop[1][1].op = "compute"
  BY DEF tflm_inference, tflm_instrumentation, tflm_multi_model, tvm_profiler, tvm_multi_model,
     Compute
<1>2. \A q \in {tflm_delayed_emission, tvm_delayed_emission} : q.loop[1][1].op = "input"
  BY DEF tflm_delayed_emission, tvm_delayed_emission, InputM
<1>3. Len(tflm_tvm_models.loop) = 2
  BY DEF tflm_tvm_models
<1> QED BY <1>1, <1>2, <1>3 DEF Computes, OnOldInput

LEMMA SetupsShape ==
  ASSUME NEW l1 \in ModelNames, NEW l2 \in ModelNames, NEW l3 \in ModelNames, NEW l4 \in ModelNames,
         NEW size \in Nat
  PROVE  /\ SetupShape(<<LoadM(l1, 0)>>)
         /\ SetupShape(<<LoadM(l1, size), LoadM(l2, 0)>>)
         /\ SetupShape(<<InitTVM, LoadM(l1, 0)>>)
         /\ SetupShape(<<InitTVM, LoadM(l1, 0), LoadM(l2, 0)>>)
         /\ SetupShape(<<LoadM(l1, size), LoadM(l2, 0), InitTVMUnchecked, LoadM(l3, 0), LoadM(l4, 0)>>)
<1>1. InitTVM \in SetupCalls /\ InitTVMUnchecked \in SetupCalls
  BY DEF InitTVM, InitTVMUnchecked, SetupCalls, ModelNames, TvmModels
<1>2. \A m \in ModelNames : LoadM(m, 0) \in SetupCalls /\ LoadM(m, size) \in SetupCalls
  BY DEF LoadM, SetupCalls
<1> QED BY <1>1, <1>2 DEF SetupShape

\* Programs with one or two groups
LEMMA OneOrTwo ==
  ASSUME NEW p, SetupShape(p.setup),
         \/ Len(p.loop) = 1 /\ GroupShape(p, p.loop[1])
         \/ Len(p.loop) = 2 /\ GroupShape(p, p.loop[1]) /\ GroupShape(p, p.loop[2])
  PROVE  ProgramShape(p)
<1>1. CASE Len(p.loop) = 1
  BY <1>1 DEF ProgramShape
<1>2. CASE Len(p.loop) = 2
  BY <1>2 DEF ProgramShape
<1> QED BY <1>1, <1>2

LEMMA ProgramsShape == \A p \in Programs : ProgramShape(p)
<1> USE DEF ModelNames, TflmModels, TvmModels, Inputs
<1> USE SampleAssumption
<1>1. ProgramShape(tflm_inference)
  <2>1. SetupShape(tflm_inference.setup)
    BY SetupsShape DEF tflm_inference
  <2>2. \E j \in 1..Len(tflm_inference.setup) :
          tflm_inference.setup[j].op = "load" /\ tflm_inference.setup[j].model = "tflm0"
    BY DEF tflm_inference, LoadM
  <2>3. /\ Len(tflm_inference.loop) = 1
        /\ tflm_inference.loop[1] =
             <<Compute("model_input"), InputM("tflm0", "model_input"), RunM("tflm0")>>
    BY DEF tflm_inference
  <2>4. Computes(tflm_inference) = Inputs /\ \A m : ~OnOldInput(tflm_inference, m)
    BY Ordinary
  <2>5. GroupShape(tflm_inference, tflm_inference.loop[1])
    BY <2>2, <2>3, <2>4, PairShape
  <2> QED BY <2>1, <2>3, <2>5, OneOrTwo
<1>2. ProgramShape(tflm_instrumentation)
  <2>1. SetupShape(tflm_instrumentation.setup)
    BY SetupsShape DEF tflm_instrumentation
  <2>2. \E j \in 1..Len(tflm_instrumentation.setup) :
          tflm_instrumentation.setup[j].op = "load" /\ tflm_instrumentation.setup[j].model = "tflm0"
    BY DEF tflm_instrumentation, LoadM
  <2>3. /\ Len(tflm_instrumentation.loop) = 1
        /\ tflm_instrumentation.loop[1] =
             <<Compute("model_input_q"), InputM("tflm0", "model_input_q"), RunM("tflm0"),
               OutputM("tflm0")>>
    BY DEF tflm_instrumentation
  <2>4. Computes(tflm_instrumentation) = Inputs /\ \A m : ~OnOldInput(tflm_instrumentation, m)
    BY Ordinary
  <2>5. GroupShape(tflm_instrumentation, tflm_instrumentation.loop[1])
    BY <2>2, <2>3, <2>4, PairShape
  <2> QED BY <2>1, <2>3, <2>5, OneOrTwo
<1>3. ProgramShape(tflm_multi_model)
  <2>1. SetupShape(tflm_multi_model.setup)
    BY SetupsShape DEF tflm_multi_model
  <2>2. \A m \in {"tflm0", "tflm1"} : \E j \in 1..Len(tflm_multi_model.setup) :
          tflm_multi_model.setup[j].op = "load" /\ tflm_multi_model.setup[j].model = m
    BY DEF tflm_multi_model, LoadM
  <2>3. /\ Len(tflm_multi_model.loop) = 1
        /\ tflm_multi_model.loop[1] =
             <<Compute("model0_input"), InputM("tflm0", "model0_input"), RunM("tflm0"),
               Compute("model1_input_q"), InputM("tflm1", "model1_input_q"), RunM("tflm1")>>
    BY DEF tflm_multi_model
  <2>4. Computes(tflm_multi_model) = Inputs /\ \A m : ~OnOldInput(tflm_multi_model, m)
    BY Ordinary
  <2>5. GroupShape(tflm_multi_model, tflm_multi_model.loop[1])
    BY <2>2, <2>3, <2>4, PairShape
  <2> QED BY <2>1, <2>3, <2>5, OneOrTwo
<1>4. ProgramShape(tflm_tvm_models)
  <2>1. SetupShape(tflm_tvm_models.setup)
    BY SetupsShape DEF tflm_tvm_models
  <2>2. \A m \in {"tflm0", "tflm1", "tvm0", "tvm1"} : \E j \in 1..Len(tflm_tvm_models.setup) :
          tflm_tvm_models.setup[j].op = "load" /\ tflm_tvm_models.setup[j].model = m
    BY DEF tflm_tvm_models, LoadM
  <2>3. /\ Len(tflm_tvm_models.loop) = 2
        /\ tflm_tvm_models.loop[1] =
             <<Compute("model1_input_q"), InputM("tflm0", "model1_input_q"), RunM("tflm0"),
               Compute("model1_input_q"), InputM("tflm1", "model1_input_q"), RunM("tflm1")>>
        /\ tflm_tvm_models.loop[2] =
             <<Compute("model1_input_q"), InputM("tvm0", "model_int8_input"), RunM("tvm0"),
               Compute("model1_input_q"), InputM("tvm1", "model_int8_input"), RunM("tvm1")>>
    BY DEF tflm_tvm_models
  <2>4. tflm_tvm_models \notin {tflm_delayed_emission, tvm_delayed_emission}
    <3>1. Len(tflm_delayed_emission.loop) = 1 /\ Len(tvm_delayed_emission.loop) = 1
      BY DEF tflm_delayed_emission, tvm_delayed_emission
    <3> QED BY <2>3, <3>1
  <2>5. /\ Computes(tflm_tvm_models) = {"model1_input_q"}
        /\ \A m : OnOldInput(tflm_tvm_models, m) <=> m \in TvmModels
    BY <2>4 DEF Computes, OnOldInput
  <2>6. GroupShape(tflm_tvm_models, tflm_tvm_models.loop[1])
    <3>1. /\ ~OnOldInput(tflm_tvm_models, "tflm0") /\ ~OnOldInput(tflm_tvm_models, "tflm1")
          /\ "model1_input_q" \in Computes(tflm_tvm_models)
      BY <2>5
    <3>2. "tflm0" \in ModelNames /\ "tflm1" \in ModelNames
      OBVIOUS
    <3> HIDE DEF ModelNames, Inputs
    <3> QED BY <2>2, <2>3, <3>1, <3>2, PairShape
  <2>7. GroupShape(tflm_tvm_models, tflm_tvm_models.loop[2])
    <3>1. /\ OnOldInput(tflm_tvm_models, "tvm0") /\ OnOldInput(tflm_tvm_models, "tvm1")
          /\ "model1_input_q" \in Computes(tflm_tvm_models)
          /\ "model_int8_input" \notin Computes(tflm_tvm_models)
      BY <2>5
    <3>2. "tvm0" \in ModelNames /\ "tvm1" \in ModelNames
      OBVIOUS
    <3> HIDE DEF ModelNames, Inputs
    <3> QED BY <2>2, <2>3, <3>1, <3>2, OldShape
  <2> QED BY <2>1, <2>3, <2>6, <2>7, OneOrTwo
<1>5. ProgramShape(tvm_profiler)
  <2>1. SetupShape(tvm_profiler.setup)
    BY SetupsShape DEF tvm_profiler
  <2>2. \E j \in 1..Len(tvm_profiler.setup) :
          tvm_profiler.setup[j].op = "load" /\ tvm_profiler.setup[j].model = "tvm0"
    BY DEF tvm_profiler, LoadM
  <2>3. /\ Len(tvm_profiler.loop) = 1
        /\ tvm_profiler.loop[1] =
             <<Compute("model_input"), InputM("tvm0", "model_input"), RunM("tvm0")>>
    BY DEF tvm_profiler
  <2>4. Computes(tvm_profiler) = Inputs /\ \A m : ~OnOldInput(tvm_profiler, m)
    BY Ordinary
  <2>5. GroupShape(tvm_profiler, tvm_profiler.loop[1])
    BY <2>2, <2>3, <2>4, PairShape
  <2> QED BY <2>1, <2>3, <2>5, OneOrTwo
<1>6. ProgramShape(tvm_multi_model)
  <2>1. SetupShape(tvm_multi_model.setup)
    BY SetupsShape DEF tvm_multi_model
  <2>2. \A m \in {"tvm0", "tvm1"} : \E j \in 1..Len(tvm_multi_model.setup) :
          tvm_multi_model.setup[j].op = "load" /\ tvm_multi_model.setup[j].model = m
    BY DEF tvm_multi_model, LoadM
  <2>3. /\ Len(tvm_multi_model.loop) = 1
        /\ tvm_multi_model.loop[1] =
             <<Compute("model_input"), InputM("tvm0", "model_input"), RunM("tvm0"),
               Compute("model_int8_input"), InputM("tvm1", "model_int8_input"), RunM("tvm1")>>
    BY DEF tvm_multi_model
  <2>4. Computes(tvm_multi_model) = Inputs /\ \A m : ~OnOldInput(tvm_multi_model, m)
    BY Ordinary
  <2>5. GroupShape(tvm_multi_model, tvm_multi_model.loop[1])
    <3>1. /\ "model_input" \in Computes(tvm_multi_model)
          /\ "model_int8_input" \in Computes(tvm_multi_model)
          /\ "tvm0" \in ModelNames /\ "tvm1" \in ModelNames
      BY <2>4
    <3> HIDE DEF ModelNames, Inputs
    <3> QED BY <2>2, <2>3, <2>4, <3>1, PairShape
  <2> QED BY <2>1, <2>3, <2>5, OneOrTwo
<1>7. ProgramShape(tflm_delayed_emission)
  <2>1. SetupShape(tflm_delayed_emission.setup)
    BY SetupsShape DEF tflm_delayed_emission
  <2>2. \E j \in 1..Len(tflm_delayed_emission.setup) :
          tflm_delayed_emission.setup[j].op = "load" /\ tflm_delayed_emission.setup[j].model = "tflm0"
    BY DEF tflm_delayed_emission, LoadM
  <2>3. /\ Len(tflm_delayed_emission.loop) = 1
        /\ tflm_delayed_emission.loop[1] =
             <<InputM("tflm0", "model_input"), RunM("tflm0")>>
    BY DEF tflm_delayed_emission
  <2>4. Computes(tflm_delayed_emission) = {} /\ \A m : OnOldInput(tflm_delayed_emission, m)
    BY DEF Computes, OnOldInput
  <2>5. GroupShape(tflm_delayed_emission, tflm_delayed_emission.loop[1])
    BY <2>2, <2>3, <2>4, OldShape
  <2> QED BY <2>1, <2>3, <2>5, OneOrTwo
<1>8. ProgramShape(tvm_delayed_emission)
  <2>1. SetupShape(tvm_delayed_emission.setup)
    BY SetupsShape DEF tvm_delayed_emission
  <2>2. \E j \in 1..Len(tvm_delayed_emission.setup) :
          tvm_delayed_emission.setup[j].op = "load" /\ tvm_delayed_emission.setup[j].model = "tvm0"
    BY DEF tvm_delayed_emission, LoadM
  <2>3. /\ Len(tvm_delayed_emission.loop) = 1
        /\ tvm_delayed_emission.loop[1] =
             <<InputM("tvm0", "model_input"), RunM("tvm0")>>
    BY DEF tvm_delayed_emission
  <2>4. Computes(tvm_delayed_emission) = {} /\ \A m : OnOldInput(tvm_delayed_emission, m)
    BY DEF Computes, OnOldInput
  <2>5. GroupShape(tvm_delayed_emission, tvm_delayed_emission.loop[1])
    BY <2>2, <2>3, <2>4, OldShape
  <2> QED BY <2>1, <2>3, <2>5, OneOrTwo
<1> QED
  BY <1>1, <1>2, <1>3, <1>4, <1>5, <1>6, <1>7, <1>8
  DEF Programs, two_models_node_0, two_models_node_1, tvm_instrumentation

----------------------------------------------------------------------------
(* Steps *)

LEMMA SampleInvInit == SampleInit => SampleInv
<1> SUFFICES ASSUME SampleInit PROVE SampleInv
    OBVIOUS
<1>1. ProgramShape(program)
  BY ProgramsShape DEF SampleInit
<1>2. Len(program.setup) \in Nat \ {0} /\ Len(program.loop) \in Nat \ {0}
  BY <1>1 DEF ProgramShape, SetupShape
<1>3. Calls = program.setup
  BY DEF SampleInit, Calls
<1>4. SampleTypeOK
  BY <1>2, <1>3, SampleAssumption DEF SampleInit, SampleTypeOK
<1>5. ArenaInv
  BY DEF SampleInit, ArenaInv
<1>6. LoadedInv /\ InputInv
  BY DEF SampleInit, LoadedInv, LoadedTo, InputInv
<1> QED BY <1>4, <1>5, <1>6 DEF SampleInv

\* What a sample is doing
LEMMA Doing ==
  ASSUME SampleInv, ~Ended
  PROVE  /\ ProgramShape(program) /\ Len(program.loop) \in Nat \ {0} /\ group \in 0..Len(program.loop)
         /\ Len(Calls) \in Nat \ {0} /\ call \in 1..Len(Calls)
         /\ group = 0 => SetupShape(Calls) /\ Calls = program.setup
         /\ group # 0 => GroupShape(program, Calls) /\ Calls = program.loop[group]
         /\ Current.op # "compute" => Current.model \in ModelNames
<1>1. ProgramShape(program) /\ Len(program.loop) \in Nat \ {0} /\ group \in 0..Len(program.loop)
  BY ProgramsShape DEF SampleInv, SampleTypeOK, Ended, ProgramShape
<1>2. CASE group = 0
  <2>1. SetupShape(Calls) /\ Calls = program.setup
    BY <1>1, <1>2 DEF Calls, ProgramShape
  <2>2. Len(Calls) \in Nat \ {0} /\ call \in 1..Len(Calls)
    BY <2>1 DEF SetupShape, SampleInv, SampleTypeOK
  <2>3. Current \in SetupCalls
    BY <2>1, <2>2 DEF SetupShape, Current
  <2> QED BY <1>1, <1>2, <2>1, <2>2, <2>3 DEF SetupCalls
<1>3. CASE group # 0
  <2>1. GroupShape(program, Calls) /\ Calls = program.loop[group]
    BY <1>1, <1>3 DEF Calls, ProgramShape
  <2>2. Len(Calls) \in Nat \ {0} /\ call \in 1..Len(Calls)
    BY <2>1 DEF GroupShape, SampleInv, SampleTypeOK
  <2>3. Current.op # "compute" => Current.model \in ModelNames
    BY <2>1, <2>2 DEF GroupShape, Current
  <2> QED BY <1>1, <1>3, <2>1, <2>2, <2>3
<1> QED BY <1>2, <1>3

\* Where a sample goes on
LEMMA GoesOn ==
  ASSUME SampleInv, ~Ended, Succeed \/ Fail
  PROVE  /\ program' = program /\ iteration' \in 0..Iterations
         /\ \/ /\ ~Fail /\ call < Len(Calls) /\ call' = call + 1 /\ group' = group
               /\ Calls' = Calls
            \/ /\ call' = 1 /\ group' \in 1..(Len(program.loop) + 1)
               /\ \/ group' = Len(program.loop) + 1
                  \/ group # 0
                  \/ ~Fail /\ call = Len(Calls)
<1>1. /\ Len(program.loop) \in Nat \ {0} /\ group \in 0..Len(program.loop)
      /\ Len(Calls) \in Nat \ {0} /\ call \in 1..Len(Calls)
      /\ iteration \in 0..Iterations /\ Iterations \in Nat
  BY Doing, SampleAssumption DEF SampleInv, SampleTypeOK
<1>2. ASSUME NextGroup
      PROVE  call' = 1 /\ group' \in 1..(Len(program.loop) + 1) /\ iteration' \in 0..Iterations
  <2>1. CASE group \in 1..(Len(program.loop) - 1)
    BY <1>1, <1>2, <2>1 DEF NextGroup
  <2>2. CASE group \notin 1..(Len(program.loop) - 1)
    BY <1>1, <1>2, <2>2 DEF NextGroup
  <2> QED BY <2>1, <2>2
<1>3. ASSUME EndProgram
      PROVE  call' = 1 /\ group' = Len(program.loop) + 1 /\ iteration' \in 0..Iterations
  BY <1>1, <1>3 DEF EndProgram
<1>4. CASE Fail
  BY <1>1, <1>2, <1>3, <1>4 DEF Fail
<1>5. CASE ~Fail
  <2>1. CASE call < Len(Calls)
    BY <1>1, <1>5, <2>1 DEF Succeed, Calls
  <2>2. CASE ~ (call < Len(Calls))
    <3>1. call = Len(Calls) /\ NextGroup /\ program' = program
      BY <1>1, <1>5, <2>2 DEF Succeed
    <3> QED BY <1>2, <1>5, <3>1
  <2> QED BY <2>1, <2>2
<1> QED BY <1>4, <1>5

\* The program's place in its calls, and what it may rely on there, whatever the call does, if it
\* leaves loaded models loaded, and did what it reports.
LEMMA PlaceKept ==
  ASSUME SampleInv, ~Ended, Succeed \/ Fail,
         \A m \in ModelNames : interpreter[m] = "live" => interpreter'[m] = "live",
         ~Fail /\ Current.op = "load" => interpreter'[Current.model] = "live",
         computed' \subseteq Computes(program),
         ~Fail /\ Current.op = "compute" => Current.input \in computed',
         ~Fail /\ Current.op = "input" => fed'[Current.model] = RunsOn(program, Current.model)
  PROVE  /\ program' \in Programs /\ group' \in 0..(Len(program'.loop) + 1)
         /\ ~Ended' => call' \in 1..Len(Calls)'
         /\ iteration' \in 0..Iterations
         /\ LoadedInv' /\ InputInv'
<1>1. /\ ProgramShape(program) /\ Len(program.loop) \in Nat \ {0} /\ group \in 0..Len(program.loop)
      /\ Len(Calls) \in Nat \ {0} /\ call \in 1..Len(Calls)
      /\ group = 0 => Calls = program.setup
      /\ program \in Programs /\ program' = program /\ iteration' \in 0..Iterations
      /\ SetupShape(program.setup)
  BY Doing, GoesOn DEF SampleInv, SampleTypeOK, ProgramShape
<1>2. \A k \in 1..Len(program.setup) :
        interpreter[program.setup[k].model] = "live" => interpreter'[program.setup[k].model] = "live"
  BY <1>1 DEF SetupShape, SetupCalls
<1>3. CASE /\ ~Fail /\ call < Len(Calls) /\ call' = call + 1 /\ group' = group
           /\ Calls' = Calls
  <2>1. call' \in 1..Len(Calls)' /\ call' - 1 = call /\ call' # 1
    BY <1>1, <1>3
  <2>2. group' \in 0..(Len(program'.loop) + 1)
    BY <1>1, <1>3
  <2>3. LoadedInv'
    <3>1. CASE group = 0
      <4>1. LoadedTo(call - 1) /\ Calls = program.setup
        BY <1>1, <3>1 DEF SampleInv, LoadedInv
      <4>2. \A k \in 1..(call - 1) :
              program.setup[k].op = "load" => interpreter'[program.setup[k].model] = "live"
        <5>1. \A k \in 1..(call - 1) : k \in 1..Len(program.setup)
          BY <1>1, <4>1
        <5> QED BY <1>2, <4>1, <5>1 DEF LoadedTo
      <4>3. program.setup[call].op = "load" => interpreter'[program.setup[call].model] = "live"
        BY <1>3, <4>1 DEF Current
      <4>4. \A k \in 1..call : k \in 1..(call - 1) \/ k = call
        BY <1>1
      <4>5. \A k \in 1..call :
              program'.setup[k].op = "load" => interpreter'[program'.setup[k].model] = "live"
        BY <1>1, <4>2, <4>3, <4>4
      <4> QED BY <1>3, <2>1, <3>1, <4>5 DEF LoadedInv, LoadedTo
    <3>2. CASE group # 0
      <4>1. LoadedTo(Len(program.setup)) /\ Len(program.setup) \in Nat
        BY <1>1, <3>2 DEF SampleInv, LoadedInv, SetupShape
      <4> QED BY <1>1, <1>2, <1>3, <3>2, <4>1 DEF LoadedInv, LoadedTo
    <3> QED BY <3>1, <3>2
  <2>4. InputInv'
    <3>1. computed' \subseteq Computes(program')
      BY <1>1
    <3>2. Calls'[call' - 1] = Current
      BY <1>3, <2>1 DEF Current
    <3> QED BY <1>1, <1>3, <3>1, <3>2 DEF InputInv
  <2> QED BY <1>1, <2>1, <2>2, <2>3, <2>4
<1>4. CASE /\ call' = 1 /\ group' \in 1..(Len(program.loop) + 1)
           /\ \/ group' = Len(program.loop) + 1
              \/ group # 0
              \/ ~Fail /\ call = Len(Calls)
  <2>1. group' \in 0..(Len(program'.loop) + 1)
    BY <1>1, <1>4
  <2>2. ~Ended' => call' \in 1..Len(Calls)'
    <3>1. SUFFICES ASSUME ~Ended' PROVE call' \in 1..Len(Calls)'
      OBVIOUS
    <3>2. group' \in 1..Len(program.loop) /\ Calls' = program.loop[group']
      BY <1>1, <1>4, <3>1 DEF Ended, Calls
    <3>3. GroupShape(program, program.loop[group'])
      BY <1>1, <3>2 DEF ProgramShape
    <3> QED BY <1>4, <3>2, <3>3 DEF GroupShape
  <2>3. InputInv'
    BY <1>1, <1>4 DEF InputInv
  <2>4. LoadedInv'
    <3>1. SUFFICES ASSUME ~Ended' PROVE LoadedTo(Len(program.setup))'
      BY <1>1, <1>4 DEF LoadedInv
    <3>2. group' # Len(program.loop) + 1
      BY <1>1, <3>1 DEF Ended
    <3>3. Len(program.setup) \in Nat \ {0}
      BY <1>1 DEF SetupShape
    <3>4. CASE group # 0
      <4>1. LoadedTo(Len(program.setup))
        BY <3>4 DEF SampleInv, LoadedInv
      <4> QED BY <1>1, <1>2, <4>1 DEF LoadedTo
    <3>5. CASE group = 0
      <4>1. ~Fail /\ call = Len(program.setup) /\ LoadedTo(call - 1) /\ Calls = program.setup
        BY <1>1, <1>4, <3>2, <3>5 DEF SampleInv, LoadedInv
      <4>2. \A k \in 1..(call - 1) :
              program.setup[k].op = "load" => interpreter'[program.setup[k].model] = "live"
        <5>1. \A k \in 1..(call - 1) : k \in 1..Len(program.setup)
          BY <1>1, <4>1
        <5> QED BY <1>2, <4>1, <5>1 DEF LoadedTo
      <4>3. program.setup[call].op = "load" => interpreter'[program.setup[call].model] = "live"
        BY <4>1 DEF Current
      <4>4. \A k \in 1..call : k \in 1..(call - 1) \/ k = call
        BY <1>1
      <4>5. \A k \in 1..call :
              program'.setup[k].op = "load" => interpreter'[program'.setup[k].model] = "live"
        BY <1>1, <4>2, <4>3, <4>4
      <4> QED BY <1>1, <4>1, <4>5 DEF LoadedTo
    <3> QED BY <3>4, <3>5
  <2> QED BY <1>1, <2>1, <2>2, <2>3, <2>4
<1> QED BY <1>3, <1>4, GoesOn

\* A call that leaves the buffer alone
LEMMA CallStep ==
  ASSUME SampleInv, ~Ended, Succeed \/ Fail, UNCHANGED <<buffer_pos, arena>>,
         interpreter' \in [ModelNames -> {"null", "live", "dangling"}],
         fed' \in [ModelNames -> {"none", "old", "new"}], computed' \subseteq Computes(program),
         \A m \in ModelNames : interpreter[m] = "live" => interpreter'[m] = "live",
         ~Fail /\ Current.op = "load" => interpreter'[Current.model] = "live",
         ~Fail /\ Current.op = "compute" => Current.input \in computed',
         ~Fail /\ Current.op = "input" => fed'[Current.model] = RunsOn(program, Current.model)
  PROVE  SampleInv'
<1>1. /\ program' \in Programs /\ group' \in 0..(Len(program'.loop) + 1)
      /\ ~Ended' => call' \in 1..Len(Calls)'
      /\ iteration' \in 0..Iterations /\ LoadedInv' /\ InputInv'
  BY PlaceKept
<1>2. SampleTypeOK'
  <2>1. computed' \subseteq Inputs
    BY DEF Computes, Inputs
  <2> QED BY <1>1, <2>1 DEF SampleInv, SampleTypeOK
<1>3. ArenaInv'
  BY DEF SampleInv, ArenaInv
<1> QED BY <1>1, <1>2, <1>3 DEF SampleInv

\* A failed load changes nothing, or leaves a pointer to a deleted interpreter, but only where
\* there was none.
LEMMA LoadFailsStep ==
  ASSUME SampleInv, RefuseLoad \/ FailToAllocate
  PROVE  SampleInv'
<1>1. /\ ~Ended /\ Fail /\ Current.op = "load" /\ UNCHANGED <<buffer_pos, arena, computed, fed>>
      /\ \/ interpreter' = interpreter
         \/ /\ interpreter[Current.model] = "null"
            /\ interpreter' = [interpreter EXCEPT ![Current.model] = "dangling"]
  BY DEF RefuseLoad, FailToAllocate, CanCreate, Calling
<1>2. /\ interpreter' \in [ModelNames -> {"null", "live", "dangling"}]
      /\ \A m \in ModelNames : interpreter[m] = "live" => interpreter'[m] = "live"
  BY <1>1 DEF SampleInv, SampleTypeOK
<1> QED BY <1>1, <1>2, CallStep DEF SampleInv, SampleTypeOK, InputInv

LEMMA CreateInterpreterStep ==
  ASSUME SampleInv, CreateInterpreter
  PROVE  SampleInv'
<1>1. /\ ~Ended /\ Succeed /\ Current.op = "load" /\ UNCHANGED <<computed, fed>>
      /\ buffer_pos + ArenaSize <= BufferSize /\ Current.model \in ModelNames
      /\ interpreter' = [interpreter EXCEPT ![Current.model] = "live"]
      /\ arena' = [arena EXCEPT ![Current.model] = Arena]
      /\ buffer_pos' = buffer_pos + ArenaSize
  BY DEF CreateInterpreter, CanCreate, Calling, Advanced, ModelNames
<1>2. /\ interpreter \in [ModelNames -> {"null", "live", "dangling"}]
      /\ buffer_pos \in 0..BufferSize /\ BufferSize \in Nat
      /\ arena \in [ModelNames -> SUBSET (0..(BufferSize - 1))]
  BY SampleAssumption DEF SampleInv, SampleTypeOK
<1>3. ArenaSize \in Nat
  <2>1. Current.size \in Nat
    <3>1. group = 0
      BY <1>1, Doing DEF GroupShape, Current
    <3>2. Current \in SetupCalls
      BY <1>1, <3>1, Doing DEF SetupShape, Current
    <3> QED BY <3>2 DEF SetupCalls
  <2> QED BY <1>2, <2>1 DEF ArenaSize
<1>4. buffer_pos' \in 0..BufferSize /\ buffer_pos' >= buffer_pos
  BY <1>1, <1>2, <1>3
<1>5. Arena \subseteq buffer_pos..(buffer_pos' - 1) /\ Arena \subseteq 0..(BufferSize - 1)
  BY <1>1, <1>2, <1>3 DEF Arena
<1>6. /\ interpreter' \in [ModelNames -> {"null", "live", "dangling"}]
      /\ interpreter'[Current.model] = "live"
      /\ \A m \in ModelNames : interpreter[m] = "live" => interpreter'[m] = "live"
  BY <1>1, <1>2
<1>7. /\ program' \in Programs /\ group' \in 0..(Len(program'.loop) + 1)
      /\ ~Ended' => call' \in 1..Len(Calls)'
      /\ iteration' \in 0..Iterations /\ LoadedInv' /\ InputInv'
  BY <1>1, <1>6, PlaceKept DEF SampleInv, InputInv
<1>8. SampleTypeOK'
  <2>1. arena' \in [ModelNames -> SUBSET (0..(BufferSize - 1))]
    BY <1>1, <1>2, <1>5
  <2> QED BY <1>1, <1>4, <1>6, <1>7, <2>1 DEF SampleInv, SampleTypeOK
<1>9. ArenaInv'
  <2>1. ASSUME NEW m \in ModelNames PROVE arena'[m] \subseteq 0..(buffer_pos' - 1)
    <3>1. arena[m] \subseteq 0..(buffer_pos - 1)
      BY <2>1 DEF SampleInv, ArenaInv
    <3>2. 0..(buffer_pos - 1) \subseteq 0..(buffer_pos' - 1)
      <4>1. buffer_pos \in Int /\ buffer_pos' \in Int /\ buffer_pos <= buffer_pos'
        BY <1>2, <1>4
      <4>2. \A a, b \in Int : a <= b => 0..(a - 1) \subseteq 0..(b - 1)
        OBVIOUS
      <4> QED BY <4>1, <4>2
    <3>3. Arena \subseteq 0..(buffer_pos' - 1)
      BY <1>2, <1>5
    <3> QED BY <1>1, <1>2, <2>1, <3>1, <3>2, <3>3
  <2>2. ASSUME NEW m \in ModelNames PROVE arena[m] \intersect Arena = {}
    <3>1. arena[m] \subseteq 0..(buffer_pos - 1)
      BY <2>2 DEF SampleInv, ArenaInv
    <3> QED BY <1>2, <1>5, <3>1
  <2>3. ASSUME NEW m \in ModelNames, NEW n \in ModelNames, m # n
        PROVE  arena'[m] \intersect arena'[n] = {}
    <3>1. /\ arena'[m] = IF m = Current.model THEN Arena ELSE arena[m]
          /\ arena'[n] = IF n = Current.model THEN Arena ELSE arena[n]
      BY <1>1, <1>2
    <3>2. arena[m] \intersect arena[n] = {}
      BY <2>3 DEF SampleInv, ArenaInv
    <3> QED BY <2>2, <2>3, <3>1, <3>2
  <2> QED BY <2>1, <2>3 DEF ArenaInv
<1> QED BY <1>7, <1>8, <1>9 DEF SampleInv

\* The calls of the loop
LEMMA LoopStep ==
  ASSUME SampleInv,
         \/ ComputeInput \/ RefuseInput \/ CopyInput \/ FailToRun \/ Invoke \/ GetOutput
         \/ SetInput \/ RunExecutor
  PROVE  SampleInv'
<1>1. /\ ~Ended /\ UNCHANGED <<buffer_pos, interpreter, arena>> /\ (Succeed \/ Fail)
      /\ Current.op \in {"compute", "input", "run", "output"}
      /\ Current.op = "compute" => computed' = computed \union {Current.input} /\ fed' = fed
      /\ Current.op \in {"run", "output"} =>
           computed' = computed /\ (UseUp \/ fed' = fed)
      /\ Current.op = "input" => HandOver \/ (Fail /\ UNCHANGED <<computed, fed>>)
  BY DEF ComputeInput, RefuseInput, CopyInput, FailToRun, Invoke, GetOutput, SetInput, RunExecutor,
     Calling, UseUp
<1>2. /\ fed \in [ModelNames -> {"none", "old", "new"}] /\ computed \subseteq Computes(program)
      /\ interpreter' \in [ModelNames -> {"null", "live", "dangling"}]
  BY <1>1 DEF SampleInv, SampleTypeOK, InputInv
<1>3. GroupShape(program, Calls) /\ call \in 1..Len(Calls) /\ group # 0
  <2>1. group # 0
    <3>1. SetupShape(Calls) /\ call \in 1..Len(Calls) => Current \in SetupCalls
      BY DEF SetupShape, Current
    <3> QED BY <1>1, <3>1, Doing DEF SetupCalls
  <2> QED BY <1>1, <2>1, Doing
<1>4. CASE Current.op = "compute"
  <2>1. Current.input \in Computes(program)
    BY <1>3, <1>4 DEF GroupShape, Current
  <2> QED BY <1>1, <1>2, <1>4, <2>1, CallStep
<1>5. CASE Current.op \in {"run", "output"}
  <2>1. fed' \in [ModelNames -> {"none", "old", "new"}]
    BY <1>1, <1>2, <1>5 DEF UseUp
  <2> QED BY <1>1, <1>2, <1>5, <2>1, CallStep
<1>6. CASE Current.op = "input" /\ HandOver
  <2>1. Current.model \in ModelNames
    BY <1>1, <1>6, Doing
  <2>2. Current.input \in computed <=> ~OnOldInput(program, Current.model)
    <3>1. CASE OnOldInput(program, Current.model)
      BY <1>2, <1>3, <1>6, <3>1 DEF GroupShape, Current
    <3>2. CASE ~OnOldInput(program, Current.model)
      <4>1. call # 1 /\ Calls[call - 1].op = "compute" /\ Calls[call - 1].input = Current.input
        BY <1>3, <1>6, <3>2 DEF GroupShape, Current
      <4> QED BY <1>1, <1>3, <3>2, <4>1 DEF SampleInv, InputInv
    <3> QED BY <3>1, <3>2
  <2>3. fed'[Current.model] = RunsOn(program, Current.model)
    BY <1>2, <1>6, <2>1, <2>2 DEF HandOver, RunsOn
  <2>4. /\ fed' \in [ModelNames -> {"none", "old", "new"}]
        /\ computed' \subseteq Computes(program)
    BY <1>2, <1>6 DEF HandOver
  <2> QED BY <1>1, <1>2, <1>6, <2>3, <2>4, CallStep
<1>7. CASE Current.op = "input" /\ Fail /\ UNCHANGED <<computed, fed>>
  BY <1>1, <1>2, <1>7, CallStep
<1> QED BY <1>1, <1>4, <1>5, <1>6, <1>7

\* The calls of the setup that concern microTVM
LEMMA SetupStep ==
  ASSUME SampleInv, InitRuntime \/ LoadExecutor
  PROVE  SampleInv'
<1>1. /\ ~Ended /\ UNCHANGED <<buffer_pos, arena, computed, fed>> /\ (Succeed \/ Fail)
      /\ Current.op \notin {"compute", "input"}
      /\ \/ interpreter' = interpreter
         \/ interpreter' = [interpreter EXCEPT ![Current.model] = "live"]
      /\ ~Fail /\ Current.op = "load" =>
           interpreter' = [interpreter EXCEPT ![Current.model] = "live"]
  BY DEF InitRuntime, LoadExecutor, Calling
<1>2. Current.model \in ModelNames /\ interpreter \in [ModelNames -> {"null", "live", "dangling"}]
  BY <1>1, Doing DEF SampleInv, SampleTypeOK
<1>3. /\ interpreter' \in [ModelNames -> {"null", "live", "dangling"}]
      /\ \A m \in ModelNames : interpreter[m] = "live" => interpreter'[m] = "live"
      /\ ~Fail /\ Current.op = "load" => interpreter'[Current.model] = "live"
  BY <1>1, <1>2
<1> QED BY <1>1, <1>3, CallStep DEF SampleInv, SampleTypeOK, InputInv

LEMMA SampleInvNext == SampleInv /\ [SampleNext]_sampleVars => SampleInv'
<1> SUFFICES ASSUME SampleInv, [SampleNext]_sampleVars PROVE SampleInv'
    OBVIOUS
<1>1. CASE UNCHANGED sampleVars
  BY <1>1 DEF sampleVars, SampleInv, SampleTypeOK, ArenaInv, LoadedInv, LoadedTo, InputInv,
     Ended, Calls
<1>2. CASE SampleNext
  BY <1>2, LoadFailsStep, CreateInterpreterStep, LoopStep, SetupStep DEF SampleNext
<1> QED BY <1>1, <1>2

LEMMA SampleSpecInv == SampleSpec => []SampleInv
<1> QED BY SampleInvInit, SampleInvNext, PTL DEF SampleSpec

----------------------------------------------------------------------------
(* Theorems *)

\* The position stays in the buffer, every arena that is handed out lies in it, and a sample is
\* in one of its calls or at its end (tflm_model.cpp:61-94).
THEOREM SampleTypes == SampleSpec => []SampleTypeOK
<1>1. SampleInv => SampleTypeOK
  BY DEF SampleInv
<1> QED BY <1>1, SampleSpecInv, PTL

\* The arenas of loaded models are disjoint and below the position, whatever the size of the
\* buffer and of the first arena and whichever loads fail (tflm_model.cpp:65-73, 89).
THEOREM ArenasAreDisjoint == SampleSpec => []ArenasDisjoint
<1>1. SampleInv => ArenasDisjoint
  BY DEF SampleInv, ArenaInv, ArenasDisjoint
<1> QED BY <1>1, SampleSpecInv, PTL

\* No sample feeds, runs or reads a model that is not loaded, whichever calls fail, and every run
\* is on an input computed for it since the model ran last; but for the samples that OnOldInput
\* names, whose input nothing computes (tflm_model.cpp:84-87, 103, 122, 140; tflm_tvm_models
\* main.cpp:126-130).
THEOREM ModelsAreFed == SampleSpec => []OnlyFedModelsRun
<1>1. ASSUME SampleInv PROVE OnlyFedModelsRun
  <2> SUFFICES ASSUME ~Ended, Current.op \in {"input", "run", "output"}
               PROVE  /\ interpreter[Current.model] = "live"
                      /\ Current.op = "run" =>
                           fed[Current.model] = RunsOn(program, Current.model)
    BY DEF OnlyFedModelsRun, RunsOn
  <2>1. /\ group = 0 => SetupShape(Calls) /\ Calls = program.setup
        /\ group # 0 => GroupShape(program, Calls)
        /\ call \in 1..Len(Calls)
    BY <1>1, Doing
  <2>2. group # 0
    <3>1. SetupShape(Calls) => Current \in SetupCalls
      BY <2>1 DEF SetupShape, Current
    <3> QED BY <2>1, <3>1 DEF SetupCalls
  <2>3. interpreter[Current.model] = "live"
    <3>1. PICK j \in 1..Len(program.setup) :
            program.setup[j].op = "load" /\ program.setup[j].model = Current.model
      BY <2>1, <2>2 DEF GroupShape, Current
    <3>2. LoadedTo(Len(program.setup))
      BY <1>1, <2>2 DEF SampleInv, LoadedInv
    <3> QED BY <3>1, <3>2 DEF LoadedTo
  <2>4. ASSUME Current.op = "run" PROVE fed[Current.model] = RunsOn(program, Current.model)
    <3>1. call # 1 /\ Calls[call - 1].op = "input" /\ Calls[call - 1].model = Current.model
      BY <2>1, <2>2, <2>4 DEF GroupShape, Current
    <3> QED BY <1>1, <2>2, <3>1 DEF SampleInv, InputInv
  <2> QED BY <2>3, <2>4
<1> QED BY <1>1, SampleSpecInv, PTL

----------------------------------------------------------------------------
(* The SMP sample *)

RingSpec == RingInit /\ [][RingNext]_ringVars

\* A thread hands the turn to one of the ring, and a semaphore counts no further than 1 (part of
\* SamplesTypeOK).
THEOREM RingTypes == RingSpec => []RingTypeOK
<1> USE DEF THREADS_NUM, Threads
<1>1. RingInit => RingTypeOK
  BY DEF RingInit, RingTypeOK
<1>2. RingTypeOK /\ [RingNext]_ringVars => RingTypeOK'
  <2> SUFFICES ASSUME RingTypeOK, [RingNext]_ringVars PROVE RingTypeOK'
    OBVIOUS
  <2>1. CASE StartThread
    BY <2>1 DEF RingTypeOK, StartThread
  <2>2. ASSUME NEW i \in Threads, TakeTurn(i) PROVE RingTypeOK'
    BY <2>2 DEF RingTypeOK, TakeTurn
  <2>3. ASSUME NEW i \in Threads, PassTurn(i) PROVE RingTypeOK'
    <3>1. Other(i) \in Threads
      BY DEF Other
    <3> QED BY <2>3, <3>1 DEF RingTypeOK, PassTurn
  <2>4. CASE UNCHANGED ringVars
    BY <2>4 DEF RingTypeOK, ringVars
  <2> QED BY <2>1, <2>2, <2>3, <2>4 DEF RingNext
<1> QED BY <1>1, <1>2, PTL DEF RingSpec

----------------------------------------------------------------------------
(* The USB backend *)

UsbSpec == UsbInit /\ [][UsbNext]_usbVars

\* One more step done is one more element of what is to be done.
LEMMA OneMoreStep ==
  ASSUME NEW S, NEW s \in Seq(S), NEW k \in 1..Len(s)
  PROVE  Append(SubSeq(s, 1, k - 1), s[k]) = SubSeq(s, 1, (k + 1) - 1)
<1> DEFINE a == Append(SubSeq(s, 1, k - 1), s[k])
           b == SubSeq(s, 1, k)
<1>1. k \in Nat /\ Len(s) \in Nat /\ k >= 1 /\ k <= Len(s) /\ (k + 1) - 1 = k
  OBVIOUS
<1>2. SubSeq(s, 1, k - 1) \in Seq(S) /\ Len(SubSeq(s, 1, k - 1)) = k - 1 /\ s[k] \in S
  BY <1>1
<1>3. b \in Seq(S) /\ Len(b) = k
  BY <1>1
<1>4. a \in Seq(S) /\ Len(a) = k
  BY <1>1, <1>2
<1>5. ASSUME NEW i \in 1..k PROVE a[i] = b[i]
  <2>1. b[i] = s[i]
    BY <1>1
  <2>2. CASE i = k
    BY <1>2, <2>1, <2>2
  <2>3. CASE i # k
    <3>1. i \in 1..(k - 1)
      BY <1>1, <2>3
    <3>2. a[i] = SubSeq(s, 1, k - 1)[i]
      BY <1>2, <3>1
    <3> QED BY <1>1, <2>1, <3>1, <3>2
  <2> QED BY <2>2, <2>3
<1>6. a = b
  <2> HIDE DEF a, b
  <2> QED BY <1>3, <1>4, <1>5, SeqEqual
<1> QED BY <1>1, <1>6

StepNames ==
  {"manufacturer", "product", "bos descriptor", "full-speed bcdUSB", "high-speed configuration",
   "high-speed bcdUSB", "high-speed classes", "full-speed configuration", "full-speed classes",
   "code triple", "self powered", "init", "enable"}

LEMMA StepsAreNames == InitSteps \in Seq(StepNames)
<1>1. <<>> \in Seq(StepNames)
  OBVIOUS
<1>2. ASSUME NEW c, NEW s \in Seq(StepNames) PROVE If(c, s) \in Seq(StepNames)
  BY <1>1, Zenon DEF If
<1>3. ASSUME NEW S, NEW a \in S, NEW b \in S, NEW c \in S, NEW d \in S
      PROVE  << a >> \in Seq(S) /\ << a, b >> \in Seq(S) /\ << a, b, c, d >> \in Seq(S)
  OBVIOUS
<1>4. /\ << "manufacturer", "product" >> \in Seq(StepNames)
      /\ << "bos descriptor", "full-speed bcdUSB" >> \in Seq(StepNames)
      /\ << "high-speed configuration" >> \in Seq(StepNames)
      /\ << "high-speed bcdUSB" >> \in Seq(StepNames)
      /\ << "high-speed classes" >> \in Seq(StepNames)
      /\ << "init", "enable" >> \in Seq(StepNames)
      /\ << "full-speed configuration", "full-speed classes", "code triple", "self powered" >>
           \in Seq(StepNames)
  <2>1. \A n \in {"manufacturer", "product", "bos descriptor", "full-speed bcdUSB",
                  "high-speed configuration", "high-speed bcdUSB", "high-speed classes",
                  "full-speed configuration", "full-speed classes", "code triple",
                  "self powered", "init", "enable"} : n \in StepNames
    BY DEF StepNames
  <2> QED BY <1>3, <2>1, ZenonT(30)
<1>5. \A s, t \in Seq(StepNames) : s \o t \in Seq(StepNames)
  OBVIOUS
<1>6. /\ If(bos, << "bos descriptor", "full-speed bcdUSB" >>) \in Seq(StepNames)
      /\ If(high_speed, << "high-speed configuration" >>) \in Seq(StepNames)
      /\ If(high_speed /\ bos, << "high-speed bcdUSB" >>) \in Seq(StepNames)
      /\ If(high_speed, << "high-speed classes" >>) \in Seq(StepNames)
  BY <1>2, <1>4
<1>7. SetupSteps \in Seq(StepNames)
  BY <1>4, <1>5, <1>6 DEF SetupSteps
<1> QED BY <1>4, <1>5, <1>7 DEF InitSteps

\* What is registered is what the setup has come to, without a gap, also after a failure
\* (usb_backend.c:109-199, zpl.c:32-51; part of SamplesTypeOK).
THEOREM SetupLeavesNothingOut == UsbSpec => []UsbTypeOK
<1>1. UsbInit => UsbTypeOK
  <2> SUFFICES ASSUME UsbInit PROVE UsbTypeOK
    OBVIOUS
  <2>1. Len(InitSteps) \in Nat /\ InitSteps \in Seq(StepNames)
    BY StepsAreNames
  <2>2. SubSeq(InitSteps, 1, 0) = <<>>
    BY <2>1
  <2> QED BY <2>1, <2>2 DEF UsbInit, UsbTypeOK
<1>2. UsbTypeOK /\ [UsbNext]_usbVars => UsbTypeOK'
  <2> SUFFICES ASSUME UsbTypeOK, [UsbNext]_usbVars PROVE UsbTypeOK'
    OBVIOUS
  <2>1. Len(InitSteps) \in Nat /\ InitSteps \in Seq(StepNames)
    BY StepsAreNames
  <2>2. bos' = bos /\ high_speed' = high_speed
    BY DEF UsbNext, Register, FailToRegister, EmitThreadInfo, usbVars
  <2>3. InitSteps' = InitSteps
    BY <2>2 DEF InitSteps, SetupSteps
  <2>4. CASE Register
    <3>1. step \in 1..Len(InitSteps)
      BY <2>1, <2>4 DEF Register, UsbTypeOK
    <3>2. registered' = SubSeq(InitSteps, 1, step' - 1)
      BY <2>1, <2>4, <3>1, OneMoreStep DEF Register, UsbTypeOK
    <3> QED BY <2>1, <2>3, <2>4, <3>1, <3>2 DEF Register, UsbTypeOK
  <2>5. CASE FailToRegister
    BY <2>3, <2>5 DEF FailToRegister, UsbTypeOK
  <2>6. CASE EmitThreadInfo
    BY <2>3, <2>6 DEF EmitThreadInfo, UsbTypeOK
  <2>7. CASE UNCHANGED usbVars
    BY <2>3, <2>7 DEF usbVars, UsbTypeOK
  <2> QED BY <2>4, <2>5, <2>6, <2>7 DEF UsbNext
<1> QED BY <1>1, <1>2, PTL DEF UsbSpec

----------------------------------------------------------------------------
(* The microTVM kernels *)

KernelSpec == KernelInit /\ [][KernelNext]_kernelVars

LEMMA TimesMonotone ==
  ASSUME NEW a \in Nat, NEW b \in Nat, NEW c \in Nat, a <= b
  PROVE  a * c <= b * c
OBVIOUS

\* Quotient and remainder
LEMMA DivMod ==
  ASSUME NEW q \in Nat, NEW d \in Nat \ {0}, NEW r \in 0..(d - 1)
  PROVE  (q * d + r) \div d = q /\ (q * d + r) % d = r
OBVIOUS

LEMMA Divided ==
  ASSUME NEW o \in Nat, NEW d \in Nat \ {0}
  PROVE  o = (o \div d) * d + (o % d) /\ o \div d \in Nat /\ o % d \in 0..(d - 1)
OBVIOUS

\* Element b of row a, in rows of n
LEMMA Packed ==
  ASSUME NEW m \in Nat, NEW n \in Nat, NEW a \in 0..(m - 1), NEW b \in 0..(n - 1)
  PROVE  a * n + b \in 0..(m * n - 1)
<1>1. (a + 1) * n <= m * n
  BY TimesMonotone
<1>2. (a + 1) * n = a * n + n /\ a * n \in Nat /\ m * n \in Nat
  OBVIOUS
<1> QED BY <1>1, <1>2

\* The rows of a kernel are m blocks of n outputs.
Blocks(k, m, n) ==
  /\ Len(k.rows) = m /\ k.out = 0..(m * n - 1)
  /\ \A r \in 1..m : DOMAIN k.rows[r] = ((r - 1) * n)..((r - 1) * n + n - 1)

LEMMA BlockOf ==
  ASSUME NEW m \in Nat, NEW n \in Nat \ {0}, NEW b \in 0..(m - 1),
         NEW o \in (b * n)..(b * n + n - 1)
  PROVE  o \in 0..(m * n - 1) /\ o \div n = b /\ o % n = o - b * n /\ o - b * n \in 0..(n - 1)
<1> DEFINE x == o - b * n
           p == b * n
<1>1. p \in Nat /\ b \in Nat
  OBVIOUS
<1>2. o \in p..(p + n - 1)
  OBVIOUS
<1>3. x \in 0..(n - 1) /\ o = p + x
  <2> HIDE DEF p
  <2>1. o - p \in 0..(n - 1) /\ o = p + (o - p)
    BY <1>1, <1>2
  <2> QED BY <2>1 DEF p
<1>4. o = b * n + x
  BY <1>3
<1> HIDE DEF x, p
<1>5. b * n + x \in 0..(m * n - 1)
  BY <1>3, Packed
<1>6. (b * n + x) \div n = b /\ (b * n + x) % n = x
  BY <1>1, <1>3, DivMod
<1> QED BY <1>3, <1>4, <1>5, <1>6 DEF x

LEMMA InBlock ==
  ASSUME NEW m \in Nat, NEW n \in Nat \ {0}, NEW o \in 0..(m * n - 1)
  PROVE  o \div n \in 0..(m - 1) /\ o \in ((o \div n) * n)..((o \div n) * n + n - 1)
<1> DEFINE q == o \div n
           x == o % n
<1>1. o \in Nat /\ m * n \in Nat
  OBVIOUS
<1>2. o = q * n + x /\ q \in Nat /\ x \in 0..(n - 1)
  BY <1>1, Divided
<1> HIDE DEF q, x
<1>3. q * n \in Nat
  BY <1>2
<1>4. q < m
  <2> SUFFICES ASSUME m <= q PROVE FALSE
    BY <1>2
  <2>1. m * n <= q * n
    BY <1>2, TimesMonotone
  <2> QED BY <1>1, <1>2, <1>3, <2>1
<1>5. o \in (q * n)..(q * n + n - 1)
  BY <1>2, <1>3
<1> QED BY <1>2, <1>4, <1>5 DEF q

\* A kernel computes its layer: every row is what the definition says of its outputs, every
\* output is in one row, and only elements of the input, the weights and the bias are added up.
Tiles(k) ==
  /\ Len(k.rows) \in Nat
  /\ \A r \in 1..Len(k.rows) : DOMAIN k.rows[r] \subseteq k.out
  /\ \A o \in k.out : \E r \in 1..Len(k.rows) : o \in DOMAIN k.rows[r]
  /\ \A r, s \in 1..Len(k.rows) : r # s => DOMAIN k.rows[r] \intersect DOMAIN k.rows[s] = {}

Sums(k) == \A r \in 1..Len(k.rows) : \A o \in DOMAIN k.rows[r] : k.rows[r][o] = k.sum[o]

InBounds(k, t) ==
  /\ t[1] # NoIndex => t[1] \in k.in
  /\ (t[1] # NoIndex /\ t[2] # NoIndex) => t[2] \in k.weights
  /\ t[1] = NoIndex => t[2] \in k.biases

Reads(k) == \A o \in k.out : \A t \in k.sum[o] : InBounds(k, t)

Right(k) == Tiles(k) /\ Sums(k) /\ Reads(k)

LEMMA BlocksTile ==
  ASSUME NEW k, NEW m \in Nat, NEW n \in Nat \ {0}, Blocks(k, m, n)
  PROVE  Tiles(k)
<1>1. ASSUME NEW r \in 1..m, NEW o \in DOMAIN k.rows[r]
      PROVE  o \in k.out /\ o \div n = r - 1
  <2> DEFINE b == r - 1
  <2>1. b \in 0..(m - 1)
    OBVIOUS
  <2>2. o \in (b * n)..(b * n + n - 1)
    BY <1>1 DEF Blocks
  <2>3. o \in 0..(m * n - 1) /\ o \div n = b
    <3> HIDE DEF b
    <3> QED BY <2>1, <2>2, BlockOf
  <2> QED BY <2>3 DEF Blocks
<1>2. ASSUME NEW o \in k.out PROVE \E r \in 1..m : o \in DOMAIN k.rows[r]
  <2> DEFINE b == o \div n
  <2>1. b \in 0..(m - 1) /\ o \in (b * n)..(b * n + n - 1)
    BY <1>2, InBlock DEF Blocks
  <2> HIDE DEF b
  <2>2. b + 1 \in 1..m /\ (b + 1) - 1 = b
    BY <2>1
  <2>3. o \in DOMAIN k.rows[b + 1]
    BY <2>1, <2>2 DEF Blocks
  <2> QED BY <2>2, <2>3
<1>3. ASSUME NEW r \in 1..m, NEW s \in 1..m, r # s
      PROVE  DOMAIN k.rows[r] \intersect DOMAIN k.rows[s] = {}
  <2> SUFFICES ASSUME NEW o \in DOMAIN k.rows[r], o \in DOMAIN k.rows[s] PROVE FALSE
    OBVIOUS
  <2>1. o \div n = r - 1 /\ o \div n = s - 1
    BY <1>1
  <2> QED BY <1>3, <2>1
<1>4. Len(k.rows) = m
  BY DEF Blocks
<1> HIDE DEF Blocks
<1> QED BY <1>1, <1>2, <1>3, <1>4 DEF Tiles

----------------------------------------------------------------------------
\* The packed weights are the weights.
LEMMA PackedWeight ==
  ASSUME NEW k \in Nat, NEW bn \in Nat \ {0}, NEW b \in Nat, NEW x \in 0..(bn - 1),
         NEW y \in 0..(k - 1)
  PROVE  PackSource(k, bn, b * (bn * k) + y * bn + x) = (b * bn + x) * k + y
<1> DEFINE i == b * (bn * k) + y * bn + x
           w == y * bn + x
<1>1. y \in Nat /\ x \in Nat /\ k # 0
  OBVIOUS
<1>2. w \in 0..(k * bn - 1)
  BY Packed
<1>3. bn * k \in Nat \ {0} /\ bn * k = k * bn
  BY <1>1
<1>4. i = b * (bn * k) + w
  BY <1>1, <1>3
<1>5. i \div (bn * k) = b /\ i % (bn * k) = w
  <2> HIDE DEF i, w
  <2> QED BY <1>2, <1>3, <1>4, DivMod
<1>6. w \div bn = y
  BY <1>1, DivMod
<1>7. i % bn = x
  <2>1. i = (b * k + y) * bn + x
    <3>1. b * (bn * k) = (b * k) * bn
      OBVIOUS
    <3>2. (b * k + y) * bn = (b * k) * bn + y * bn
      BY <1>1
    <3> QED BY <1>1, <3>1, <3>2
  <2>2. b * k + y \in Nat
    BY <1>1
  <2> HIDE DEF i
  <2> QED BY <2>1, <2>2, DivMod
<1>8. b * (bn * k) + x * k + y = (b * bn + x) * k + y
  BY <1>1
<1>9. PackSource(k, bn, i)
        = (i \div (bn * k)) * (bn * k) + (i % bn) * k + ((i % (bn * k)) \div bn)
  BY DEF PackSource
<1> HIDE DEF i, w
<1>10. PackSource(k, bn, i) = b * (bn * k) + x * k + y
  BY <1>5, <1>6, <1>7, <1>9
<1> QED BY <1>8, <1>10 DEF i

LEMMA DenseRight ==
  ASSUME NEW k \in Nat, NEW bn \in Nat \ {0}, NEW blocks \in Nat, NEW n, n = blocks * bn,
         NEW heap
  PROVE  Right(Dense(k, n, bn, heap))
<1> DEFINE d == Dense(k, n, bn, heap)
           Sum(o) == {Mul(y, o * k + y) : y \in 0..(k - 1)} \union {Bias(o)}
<1>1. /\ d.rows = [b \in 1..blocks |-> DenseBlock(k, bn, b - 1)]
      /\ d.in = 0..(k - 1) /\ d.out = 0..(n - 1) /\ d.weights = 0..(k * n - 1)
      /\ d.biases = 0..(n - 1)
      /\ d.sum = [o \in 0..(n - 1) |-> Sum(o)]
  <2>1. n \div bn = blocks
    <3>1. (blocks * bn + 0) \div bn = blocks
      BY DivMod
    <3>2. blocks * bn + 0 = blocks * bn
      OBVIOUS
    <3> QED BY <3>1, <3>2
  <2> QED BY <2>1 DEF Dense
<1>2. Len(d.rows) = blocks
  BY <1>1
<1>3. Blocks(d, blocks, bn)
  <2>1. ASSUME NEW r \in 1..blocks
        PROVE  DOMAIN d.rows[r] = ((r - 1) * bn)..((r - 1) * bn + bn - 1)
    <3>1. d.rows[r] = DenseBlock(k, bn, r - 1)
      BY <1>1
    <3> QED BY <3>1 DEF DenseBlock
  <2> QED BY <1>1, <1>2, <2>1 DEF Blocks
<1> HIDE DEF d
<1>4. Tiles(d)
  BY <1>3, BlocksTile
<1>5. ASSUME NEW r \in 1..blocks, NEW o \in DOMAIN d.rows[r] PROVE d.rows[r][o] = d.sum[o]
  <2> DEFINE b == r - 1
             x == o - b * bn
  <2>1. b \in 0..(blocks - 1) /\ b \in Nat
    OBVIOUS
  <2>2. o \in (b * bn)..(b * bn + bn - 1)
    BY <1>3 DEF Blocks
  <2> HIDE DEF b
  <2>3. x \in 0..(bn - 1) /\ o \in 0..(n - 1)
    BY <2>1, <2>2, BlockOf
  <2>4. b * bn + x = o
    <3>1. b * bn \in Nat
      BY <2>1
    <3> QED BY <2>2, <3>1
  <2>5. d.rows[r][o] = {Mul(y, PackSource(k, bn, b * (bn * k) + y * bn + x)) : y \in 0..(k - 1)}
                         \union {Bias(o)}
    BY <1>1, <2>2 DEF DenseBlock, b
  <2> HIDE DEF x
  <2>6. \A y \in 0..(k - 1) : PackSource(k, bn, b * (bn * k) + y * bn + x) = o * k + y
    <3> SUFFICES ASSUME NEW y \in 0..(k - 1)
                 PROVE  PackSource(k, bn, b * (bn * k) + y * bn + x) = o * k + y
      OBVIOUS
    <3>1. PackSource(k, bn, b * (bn * k) + y * bn + x) = (b * bn + x) * k + y
      BY <2>1, <2>3, PackedWeight, ZenonT(30)
    <3> QED BY <2>4, <3>1
  <2>7. d.rows[r][o] = Sum(o)
    BY <2>5, <2>6
  <2>8. d.sum[o] = Sum(o)
    BY <1>1, <2>3
  <2> QED BY <2>7, <2>8
<1>6. Sums(d)
  BY <1>2, <1>5 DEF Sums
<1>7. ASSUME NEW o \in d.out, NEW t \in d.sum[o] PROVE InBounds(d, t)
  <2>1. n \in Nat /\ o \in 0..(n - 1) /\ t \in Sum(o)
    BY <1>1, <1>7
  <2>2. ASSUME NEW y \in 0..(k - 1), t = Mul(y, o * k + y) PROVE InBounds(d, t)
    <3>1. t[1] = y /\ t[2] = o * k + y
      BY <2>2 DEF Mul
    <3>2. o * k + y \in 0..(n * k - 1)
      BY <2>1, Packed
    <3>3. n * k = k * n
      BY <2>1
    <3> QED BY <1>1, <3>1, <3>2, <3>3 DEF InBounds, NoIndex
  <2>3. ASSUME t = Bias(o) PROVE InBounds(d, t)
    <3>1. t[1] = NoIndex /\ t[2] = o
      BY <2>3 DEF Bias
    <3> QED BY <1>1, <2>1, <3>1 DEF InBounds
  <2> QED BY <2>1, <2>2, <2>3
<1> QED BY <1>4, <1>6, <1>7 DEF Right, Reads, d

----------------------------------------------------------------------------
LEMMA ElementwiseRight ==
  ASSUME NEW rows \in Nat, NEW n \in Nat \ {0}
  PROVE  Right(Elementwise(rows, n))
<1> DEFINE d == Elementwise(rows, n)
<1>1. /\ d.rows = [r \in 1..rows |->
                     [o \in ((r - 1) * n)..(r * n - 1) |-> {Copy((r - 1) * n + (o % n))}]]
      /\ d.in = 0..(rows * n - 1) /\ d.out = 0..(rows * n - 1)
      /\ d.sum = [o \in 0..(rows * n - 1) |-> {Copy(o)}]
  BY DEF Elementwise
<1>2. Len(d.rows) = rows
  BY <1>1
<1>3. Blocks(d, rows, n)
  <2>1. ASSUME NEW r \in 1..rows PROVE DOMAIN d.rows[r] = ((r - 1) * n)..((r - 1) * n + n - 1)
    <3>1. r * n - 1 = (r - 1) * n + n - 1
      OBVIOUS
    <3> QED BY <1>1, <3>1
  <2> QED BY <1>1, <1>2, <2>1 DEF Blocks
<1> HIDE DEF d
<1>4. Tiles(d)
  BY <1>3, BlocksTile
<1>5. ASSUME NEW r \in 1..rows, NEW o \in DOMAIN d.rows[r] PROVE d.rows[r][o] = d.sum[o]
  <2> DEFINE b == r - 1
  <2>1. b \in 0..(rows - 1) /\ b \in Nat
    OBVIOUS
  <2>2. o \in (b * n)..(b * n + n - 1)
    BY <1>3 DEF Blocks
  <2>3. d.rows[r][o] = {Copy(b * n + (o % n))}
    BY <1>1
  <2> HIDE DEF b
  <2>4. o % n = o - b * n /\ o \in 0..(rows * n - 1)
    BY <2>1, <2>2, BlockOf, ZenonT(30)
  <2>5. b * n + (o % n) = o
    <3>1. b * n \in Nat
      BY <2>1
    <3> QED BY <2>2, <2>4, <3>1
  <2> QED BY <1>1, <2>3, <2>4, <2>5
<1>6. Sums(d)
  BY <1>2, <1>5 DEF Sums
<1>7. Reads(d)
  BY <1>1 DEF Reads, InBounds, Copy, NoIndex
<1> QED BY <1>4, <1>6, <1>7 DEF Right, d

\* What a window of the pool reads
Window(kh, b)               == (b * kh)..(b * kh + kh - 1)
WindowIndex(kw, ch, y, x, z) == (y * kw + x) * ch + z
RowIndex(kh, kw, ch, b, i, j, z) == b * (kh * kw * ch) + i * (kw * ch) + j * ch + z

WindowSum(kh, kw, ch, b, z) ==
  {Copy(WindowIndex(kw, ch, y, x, z)) : y \in Window(kh, b), x \in 0..(kw - 1)}

LEMMA PoolSumIsWindow ==
  ASSUME NEW kh, NEW kw, NEW ch, NEW o
  PROVE  PoolSum(kh, kw, ch, o) = WindowSum(kh, kw, ch, o \div ch, o % ch)
BY DEF PoolSum, WindowSum, Window, WindowIndex

LEMMA WindowElements ==
  ASSUME NEW kh, NEW kw, NEW ch, NEW b, NEW z, NEW t
  PROVE  t \in WindowSum(kh, kw, ch, b, z)
           <=> \E y \in Window(kh, b), x \in 0..(kw - 1) : t = Copy(WindowIndex(kw, ch, y, x, z))
BY DEF WindowSum

RowSum(kh, kw, ch, b, z) ==
  {Copy(RowIndex(kh, kw, ch, b, rv[1], rv[2], z)) : rv \in (0..(kh - 1)) \X (0..(kw - 1))}

LEMMA PoolRowIsRow ==
  ASSUME NEW kh, NEW kw, NEW ch, NEW b, NEW o \in (b * ch)..(b * ch + ch - 1)
  PROVE  PoolRow(kh, kw, ch, b)[o] = RowSum(kh, kw, ch, b, o - b * ch)
BY DEF PoolRow, RowSum, RowIndex

LEMMA RowElements ==
  ASSUME NEW kh, NEW kw, NEW ch, NEW b, NEW z, NEW t
  PROVE  t \in RowSum(kh, kw, ch, b, z)
           <=> \E i \in 0..(kh - 1), j \in 0..(kw - 1) :
                 t = Copy(RowIndex(kh, kw, ch, b, i, j, z))
<1>1. ASSUME NEW i \in 0..(kh - 1), NEW j \in 0..(kw - 1),
             t = Copy(RowIndex(kh, kw, ch, b, i, j, z))
      PROVE  t \in RowSum(kh, kw, ch, b, z)
  <2>1. << i, j >> \in (0..(kh - 1)) \X (0..(kw - 1)) /\ << i, j >>[1] = i /\ << i, j >>[2] = j
    OBVIOUS
  <2> QED BY <1>1, <2>1 DEF RowSum
<1>2. ASSUME t \in RowSum(kh, kw, ch, b, z)
      PROVE  \E i \in 0..(kh - 1), j \in 0..(kw - 1) : t = Copy(RowIndex(kh, kw, ch, b, i, j, z))
  BY <1>2 DEF RowSum
<1> QED BY <1>1, <1>2, Zenon

LEMMA PoolRight ==
  ASSUME NEW rows \in Nat, NEW kh \in Nat, NEW kw \in Nat, NEW ch \in Nat \ {0}, NEW h \in Nat,
         rows * kh <= h
  PROVE  Right(Pool(rows, kh, kw, ch, h))
<1> DEFINE d == Pool(rows, kh, kw, ch, h)
<1>1. /\ d.rows = [r \in 1..rows |-> PoolRow(kh, kw, ch, r - 1)]
      /\ d.in = 0..(h * kw * ch - 1) /\ d.out = 0..(rows * ch - 1)
      /\ d.sum = [o \in 0..(rows * ch - 1) |-> PoolSum(kh, kw, ch, o)]
  BY DEF Pool
<1>2. Len(d.rows) = rows
  BY <1>1
<1>3. Blocks(d, rows, ch)
  <2>1. ASSUME NEW r \in 1..rows
        PROVE  DOMAIN d.rows[r] = ((r - 1) * ch)..((r - 1) * ch + ch - 1)
    <3>1. d.rows[r] = PoolRow(kh, kw, ch, r - 1)
      BY <1>1
    <3> QED BY <3>1 DEF PoolRow
  <2> QED BY <1>1, <1>2, <2>1 DEF Blocks
<1> HIDE DEF d
<1>4. Tiles(d)
  BY <1>3, BlocksTile
<1>5. ASSUME NEW r \in 1..rows, NEW o \in DOMAIN d.rows[r] PROVE d.rows[r][o] = d.sum[o]
  <2> DEFINE b == r - 1
             z == o - b * ch
  <2>1. b \in 0..(rows - 1) /\ b \in Nat
    OBVIOUS
  <2>2. o \in (b * ch)..(b * ch + ch - 1) /\ d.rows[r] = PoolRow(kh, kw, ch, b)
    <3>1. o \in (b * ch)..(b * ch + ch - 1)
      BY <1>3 DEF Blocks
    <3>2. d.rows[r] = PoolRow(kh, kw, ch, b)
      BY <1>1
    <3> QED BY <3>1, <3>2
  <2> HIDE DEF b
  <2>3. /\ o \div ch = b
        /\ o % ch = o - b * ch
        /\ o \in 0..(rows * ch - 1)
    <3>1. o \in (b * ch)..(b * ch + ch - 1)
      BY <2>2
    <3>2. o \div ch = b
      BY <2>1, <3>1, BlockOf
    <3>3. o % ch = o - b * ch
      <4>1. o = b * ch + (o - b * ch) /\ o - b * ch \in 0..(ch - 1) /\ o \div ch = b
        BY <2>1, <3>1, <3>2
      <4>2. o \in Int /\ o % ch = o - ch * (o \div ch)
        BY <3>1
      <4> QED BY <2>1, <4>1, <4>2
    <3>4. o \in 0..(rows * ch - 1)
      BY <2>1, <3>1, BlockOf
    <3> QED BY <3>2, <3>3, <3>4
  <2>4. o % ch = z
    BY <2>3
  <2>5. o \in 0..(rows * ch - 1)
    BY <2>3
  <2>6. d.sum[o] = PoolSum(kh, kw, ch, o)
    BY <1>1, <2>5
  <2>7. b * ch \in Nat /\ b * kh \in Nat /\ z \in Int
    BY <2>1, <2>2
  <2>8. d.rows[r][o] = RowSum(kh, kw, ch, b, z)
    BY <2>2, PoolRowIsRow
  <2> HIDE DEF z
  <2>9. ASSUME NEW i \in 0..(kh - 1), NEW j \in 0..(kw - 1)
        PROVE  RowIndex(kh, kw, ch, b, i, j, z) = WindowIndex(kw, ch, b * kh + i, j, z)
    <3>1. i \in Int /\ j \in Int
      OBVIOUS
    <3> QED BY <2>1, <2>7, <3>1 DEF RowIndex, WindowIndex
  <2>10. d.sum[o] = WindowSum(kh, kw, ch, b, z)
    BY <2>3, <2>6, <2>4, PoolSumIsWindow
  <2>11. ASSUME NEW t PROVE t \in d.rows[r][o] <=> t \in d.sum[o]
    <3>1. ASSUME t \in d.rows[r][o] PROVE t \in d.sum[o]
      <4>1. PICK i \in 0..(kh - 1), j \in 0..(kw - 1) : t = Copy(RowIndex(kh, kw, ch, b, i, j, z))
        BY <2>8, <3>1, RowElements
      <4>2. b * kh + i \in Window(kh, b)
        BY <2>7 DEF Window
      <4>3. t = Copy(WindowIndex(kw, ch, b * kh + i, j, z))
        BY <2>9, <4>1
      <4>4. t \in WindowSum(kh, kw, ch, b, z)
        BY <4>2, <4>3, WindowElements
      <4> QED BY <2>10, <4>4
    <3>2. ASSUME t \in d.sum[o] PROVE t \in d.rows[r][o]
      <4>1. t \in WindowSum(kh, kw, ch, b, z)
        BY <2>10, <3>2
      <4>2. PICK y \in Window(kh, b), x \in 0..(kw - 1) : t = Copy(WindowIndex(kw, ch, y, x, z))
        BY <4>1, WindowElements
      <4> DEFINE i == y - b * kh
      <4>3. i \in 0..(kh - 1) /\ b * kh + i = y
        BY <2>7 DEF Window
      <4> HIDE DEF i
      <4>4. t = Copy(RowIndex(kh, kw, ch, b, i, x, z))
        BY <2>9, <4>2, <4>3
      <4>5. t \in RowSum(kh, kw, ch, b, z)
        BY <4>3, <4>4, RowElements
      <4> QED BY <2>8, <4>5
    <3> QED BY <3>1, <3>2
  <2> QED BY <2>11
<1>6. Sums(d)
  BY <1>2, <1>5 DEF Sums
<1>7. ASSUME NEW o \in d.out, NEW t \in d.sum[o] PROVE InBounds(d, t)
  <2> DEFINE b == o \div ch
             z == o % ch
  <2>1. o \in Nat /\ o \in 0..(rows * ch - 1) /\ b \in 0..(rows - 1) /\ z \in 0..(ch - 1)
    <3>1. o \in Nat /\ o \in 0..(rows * ch - 1)
      BY <1>1
    <3>2. b \in 0..(rows - 1)
      BY <3>1, InBlock
    <3> QED BY <3>1, <3>2, Divided
  <2>2. PICK y \in Window(kh, b), x \in 0..(kw - 1) : t = Copy(WindowIndex(kw, ch, y, x, z))
    <3>1. t \in PoolSum(kh, kw, ch, o)
      BY <1>1, <1>7
    <3>2. t \in WindowSum(kh, kw, ch, b, z)
      BY <3>1, PoolSumIsWindow
    <3> HIDE DEF b, z
    <3> QED BY <3>2, WindowElements
  <2> HIDE DEF b, z
  <2>3. y \in 0..(h - 1)
    <3>1. b * kh \in Nat /\ y - b * kh \in 0..(kh - 1) /\ b * kh + (y - b * kh) = y
      <4>1. b * kh \in Nat
        BY <2>1
      <4> QED BY <4>1 DEF Window
    <3>2. b * kh + (y - b * kh) \in 0..(rows * kh - 1)
      BY <2>1, <3>1, Packed
    <3>3. rows * kh \in Nat
      OBVIOUS
    <3> QED BY <3>1, <3>2, <3>3
  <2>4. y * kw + x \in 0..(h * kw - 1)
    BY <2>3, Packed
  <2>5. WindowIndex(kw, ch, y, x, z) \in 0..(h * kw * ch - 1)
    <3> DEFINE m == h * kw
               a == y * kw + x
    <3>1. m \in Nat /\ a \in 0..(m - 1)
      BY <2>4
    <3> HIDE DEF m, a
    <3>2. a * ch + z \in 0..(m * ch - 1)
      BY <2>1, <3>1, Packed
    <3> QED BY <3>2 DEF m, a, WindowIndex
  <2>6. t[1] = WindowIndex(kw, ch, y, x, z) /\ t[2] = NoIndex
    BY <2>2 DEF Copy
  <2> QED BY <1>1, <2>5, <2>6 DEF InBounds, NoIndex
<1> QED BY <1>4, <1>6, <1>7 DEF Right, Reads, d

LEMMA SoftmaxRight == Right(fused_nn_softmax)
<1> DEFINE d == fused_nn_softmax
           All == {Copy(i) : i \in 0..3}
<1>1. /\ d.rows = << [o \in 0..3 |-> All] >> /\ d.sum = [o \in 0..3 |-> All]
      /\ d.in = 0..3 /\ d.out = 0..3
  BY DEF fused_nn_softmax
<1> HIDE DEF d
<1>2. Len(d.rows) = 1 /\ d.rows[1] = [o \in 0..3 |-> All]
  BY <1>1
<1>3. Tiles(d)
  BY <1>1, <1>2 DEF Tiles
<1>4. Sums(d)
  BY <1>1, <1>2 DEF Sums
<1>5. Reads(d)
  BY <1>1 DEF Reads, InBounds, Copy, NoIndex
<1> QED BY <1>3, <1>4, <1>5 DEF Right, d

----------------------------------------------------------------------------
\* What a convolution reads, as the code counts it and as it is defined, for output row y,
\* column x and channel oci, at kernel row i, kernel column j and channel ch
CodeWeight(c, i, j, ch, oci) ==
  i * (c.kw * c.ic * c.oc) + j * (c.ic * c.oc) + ch * c.oc + oci
CodeTerm(c, y, x, oci, i, j, ch) == Mul(PadSource(c, y, x, i, j, ch), CodeWeight(c, i, j, ch, oci))

TermInput(c, y, x, i, j, ch) == ((y + i - 1) * c.w + (x + j - c.pw)) * c.ic + ch
TermWeight(c, i, j, ch, oci) == ((i * c.kw + j) * c.ic + ch) * c.oc + oci
Term(c, y, x, oci, i, j, ch) == Mul(TermInput(c, y, x, i, j, ch), TermWeight(c, i, j, ch, oci))

Pads(c, y, x) == {p \in (0..(c.kh - 1)) \X (0..(c.kw - 1)) : InImage(c, p[1] + y, p[2] + x)}
CodeSum(c, y, x, oci) ==
  {CodeTerm(c, y, x, oci, t[1][1], t[1][2], t[2]) : t \in Pads(c, y, x) \X (0..(c.ic - 1))}
    \union {Bias(oci)}

Inner(c, y, x, i, j) == (y + i - 1) \in 0..(c.h - 1) /\ (x + j - c.pw) \in 0..(c.w - 1)
TermSum(c, y, x, oci) ==
  {Term(c, y, x, oci, t[1], t[2], t[3]) :
     t \in {k \in (0..(c.kh - 1)) \X (0..(c.kw - 1)) \X (0..(c.ic - 1)) :
              Inner(c, y, x, k[1], k[2])}}
    \union {Bias(oci)}

LEMMA ConvRowIs ==
  ASSUME NEW c, NEW r, NEW o \in (r * (c.w * c.oc))..((r + 1) * (c.w * c.oc) - 1)
  PROVE  ConvRow(c, r)[o] = CodeSum(c, r, (o % (c.w * c.oc)) \div c.oc, o % c.oc)
BY DEF ConvRow, CodeSum, Pads, CodeTerm, CodeWeight

LEMMA ConvSumIs ==
  ASSUME NEW c, NEW o
  PROVE  ConvSum(c, o) = TermSum(c, o \div (c.w * c.oc), (o \div c.oc) % c.w, o % c.oc)
BY DEF ConvSum, TermSum, Term, TermInput, TermWeight, Inner

LEMMA CodeSumElements ==
  ASSUME NEW c, NEW y, NEW x, NEW oci, NEW t
  PROVE  t \in CodeSum(c, y, x, oci)
           <=> \/ t = Bias(oci)
               \/ \E i \in 0..(c.kh - 1), j \in 0..(c.kw - 1), ch \in 0..(c.ic - 1) :
                    InImage(c, i + y, j + x) /\ t = CodeTerm(c, y, x, oci, i, j, ch)
<1>1. ASSUME NEW i \in 0..(c.kh - 1), NEW j \in 0..(c.kw - 1), NEW ch \in 0..(c.ic - 1),
             InImage(c, i + y, j + x), t = CodeTerm(c, y, x, oci, i, j, ch)
      PROVE  t \in CodeSum(c, y, x, oci)
  <2>1. << i, j >> \in Pads(c, y, x)
    BY <1>1 DEF Pads
  <2> DEFINE k == << << i, j >>, ch >>
  <2>2. k \in Pads(c, y, x) \X (0..(c.ic - 1)) /\ k[1][1] = i /\ k[1][2] = j /\ k[2] = ch
    BY <2>1
  <2> HIDE DEF k
  <2> QED BY <1>1, <2>2 DEF CodeSum
<1>2. ASSUME t \in CodeSum(c, y, x, oci), t # Bias(oci)
      PROVE  \E i \in 0..(c.kh - 1), j \in 0..(c.kw - 1), ch \in 0..(c.ic - 1) :
               InImage(c, i + y, j + x) /\ t = CodeTerm(c, y, x, oci, i, j, ch)
  <2>1. PICK k \in Pads(c, y, x) \X (0..(c.ic - 1)) :
          t = CodeTerm(c, y, x, oci, k[1][1], k[1][2], k[2])
    BY <1>2 DEF CodeSum
  <2>2. k[1] \in Pads(c, y, x) /\ k[2] \in 0..(c.ic - 1)
    OBVIOUS
  <2>3. /\ k[1][1] \in 0..(c.kh - 1) /\ k[1][2] \in 0..(c.kw - 1)
        /\ InImage(c, k[1][1] + y, k[1][2] + x)
    BY <2>2 DEF Pads
  <2> QED BY <2>1, <2>2, <2>3
<1>3. Bias(oci) \in CodeSum(c, y, x, oci)
  BY DEF CodeSum
<1> QED BY <1>1, <1>2, <1>3, Zenon

LEMMA TermSumElements ==
  ASSUME NEW c, NEW y, NEW x, NEW oci, NEW t
  PROVE  t \in TermSum(c, y, x, oci)
           <=> \/ t = Bias(oci)
               \/ \E i \in 0..(c.kh - 1), j \in 0..(c.kw - 1), ch \in 0..(c.ic - 1) :
                    Inner(c, y, x, i, j) /\ t = Term(c, y, x, oci, i, j, ch)
<1> DEFINE S == (0..(c.kh - 1)) \X (0..(c.kw - 1)) \X (0..(c.ic - 1))
<1>1. ASSUME NEW i \in 0..(c.kh - 1), NEW j \in 0..(c.kw - 1), NEW ch \in 0..(c.ic - 1),
             Inner(c, y, x, i, j), t = Term(c, y, x, oci, i, j, ch)
      PROVE  t \in TermSum(c, y, x, oci)
  <2> DEFINE k == << i, j, ch >>
  <2>1. k \in S /\ k[1] = i /\ k[2] = j /\ k[3] = ch
    OBVIOUS
  <2> HIDE DEF k
  <2> QED BY <1>1, <2>1 DEF TermSum
<1>2. ASSUME t \in TermSum(c, y, x, oci), t # Bias(oci)
      PROVE  \E i \in 0..(c.kh - 1), j \in 0..(c.kw - 1), ch \in 0..(c.ic - 1) :
               Inner(c, y, x, i, j) /\ t = Term(c, y, x, oci, i, j, ch)
  <2>1. PICK k \in S : Inner(c, y, x, k[1], k[2]) /\ t = Term(c, y, x, oci, k[1], k[2], k[3])
    BY <1>2 DEF TermSum
  <2>2. k[1] \in 0..(c.kh - 1) /\ k[2] \in 0..(c.kw - 1) /\ k[3] \in 0..(c.ic - 1)
    OBVIOUS
  <2> QED BY <2>1, <2>2
<1>3. Bias(oci) \in TermSum(c, y, x, oci)
  BY DEF TermSum
<1> QED BY <1>1, <1>2, <1>3, Zenon

Sizes(c) ==
  /\ c.h \in Nat /\ c.w \in Nat \ {0} /\ c.ic \in Nat /\ c.oc \in Nat \ {0}
  /\ c.kh \in Nat /\ c.kw \in Nat /\ c.pw \in Nat

\* The code's way of counting is the definition's.
LEMMA SameTerm ==
  ASSUME NEW c, Sizes(c), NEW y \in Nat, NEW x \in Nat, NEW oci \in Nat,
         NEW i \in Nat, NEW j \in Nat, NEW ch \in Nat
  PROVE  /\ CodeTerm(c, y, x, oci, i, j, ch) = Term(c, y, x, oci, i, j, ch)
         /\ InImage(c, i + y, j + x) <=> Inner(c, y, x, i, j)
<1>1. PadSource(c, y, x, i, j, ch) = TermInput(c, y, x, i, j, ch)
  BY DEF PadSource, TermInput, Sizes
<1>2. CodeWeight(c, i, j, ch, oci) = TermWeight(c, i, j, ch, oci)
  BY DEF CodeWeight, TermWeight, Sizes
<1>3. CodeTerm(c, y, x, oci, i, j, ch) = Term(c, y, x, oci, i, j, ch)
  BY <1>1, <1>2 DEF CodeTerm, Term
<1>4. InImage(c, i + y, j + x) <=> Inner(c, y, x, i, j)
  BY DEF InImage, Inner, Sizes
<1> QED BY <1>3, <1>4

LEMMA SameSum ==
  ASSUME NEW c, Sizes(c), NEW y \in Nat, NEW x \in Nat, NEW oci \in Nat
  PROVE  CodeSum(c, y, x, oci) = TermSum(c, y, x, oci)
<1>1. \A i \in 0..(c.kh - 1), j \in 0..(c.kw - 1), ch \in 0..(c.ic - 1) :
        /\ CodeTerm(c, y, x, oci, i, j, ch) = Term(c, y, x, oci, i, j, ch)
        /\ InImage(c, i + y, j + x) <=> Inner(c, y, x, i, j)
  <2> SUFFICES ASSUME NEW i \in 0..(c.kh - 1), NEW j \in 0..(c.kw - 1), NEW ch \in 0..(c.ic - 1)
               PROVE  /\ CodeTerm(c, y, x, oci, i, j, ch) = Term(c, y, x, oci, i, j, ch)
                      /\ InImage(c, i + y, j + x) <=> Inner(c, y, x, i, j)
    OBVIOUS
  <2>1. i \in Nat /\ j \in Nat /\ ch \in Nat
    OBVIOUS
  <2>2. CodeTerm(c, y, x, oci, i, j, ch) = Term(c, y, x, oci, i, j, ch)
    BY <2>1, SameTerm
  <2>3. InImage(c, i + y, j + x) <=> Inner(c, y, x, i, j)
    BY <2>1, SameTerm
  <2> QED BY <2>2, <2>3
<1>2. ASSUME NEW t, t \in CodeSum(c, y, x, oci) PROVE t \in TermSum(c, y, x, oci)
  BY <1>1, <1>2, CodeSumElements, TermSumElements
<1>3. ASSUME NEW t, t \in TermSum(c, y, x, oci) PROVE t \in CodeSum(c, y, x, oci)
  BY <1>1, <1>3, CodeSumElements, TermSumElements
<1> QED BY <1>2, <1>3

\* The column and the channel of an output: the code counts within the row.
LEMMA Column ==
  ASSUME NEW w \in Nat \ {0}, NEW oc \in Nat \ {0}, NEW o \in Nat
  PROVE  /\ (o \div oc) % w = (o % (w * oc)) \div oc
         /\ (o % (w * oc)) \div oc \in Nat
<1> DEFINE m == w * oc
           q == o \div m
           r == o % m
           x == r \div oc
           z == r % oc
<1>1. m \in Nat \ {0}
  OBVIOUS
<1>2. o = q * m + r /\ q \in Nat /\ r \in 0..(m - 1)
  <2> HIDE DEF m
  <2> QED BY <1>1, Divided
<1>3. r \in Nat /\ r = x * oc + z /\ x \in Nat /\ z \in 0..(oc - 1)
  <2>1. r \in Nat
    BY <1>1, <1>2
  <2> HIDE DEF r
  <2> QED BY <2>1, Divided
<1>4. x \in 0..(w - 1)
  <2>1. r \in 0..(w * oc - 1)
    BY <1>2
  <2> HIDE DEF r
  <2> QED BY <2>1, InBlock
<1> HIDE DEF q, r, x, z
<1>5. o = (q * w + x) * oc + z /\ q * w + x \in Nat
  BY <1>2, <1>3
<1>6. o \div oc = q * w + x
  <2> DEFINE k == q * w + x
  <2>1. o = k * oc + z /\ k \in Nat
    BY <1>5
  <2> HIDE DEF k
  <2>2. (k * oc + z) \div oc = k
    BY <1>3, <2>1, DivMod
  <2> QED BY <2>1, <2>2 DEF k
<1>7. (q * w + x) % w = x
  BY <1>2, <1>4, DivMod
<1> QED BY <1>3, <1>6, <1>7 DEF r, x

LEMMA ConvRight == ASSUME NEW c, Sizes(c) PROVE Right(Conv(c))
<1> DEFINE d == Conv(c)
           m == c.w * c.oc
<1>1. /\ d.rows = [r \in 1..c.h |-> ConvRow(c, r - 1)]
      /\ d.in = 0..(c.h * c.w * c.ic - 1) /\ d.out = 0..(c.h * c.w * c.oc - 1)
      /\ d.weights = 0..(c.kh * c.kw * c.ic * c.oc - 1) /\ d.biases = 0..(c.oc - 1)
      /\ d.sum = [o \in 0..(c.h * c.w * c.oc - 1) |-> ConvSum(c, o)]
  BY DEF Conv
<1>2. Len(d.rows) = c.h /\ c.h \in Nat /\ m \in Nat \ {0} /\ c.h * m = c.h * c.w * c.oc
  <2>1. c.h \in Nat /\ c.w \in Nat \ {0} /\ c.oc \in Nat \ {0}
    BY DEF Sizes
  <2>2. m \in Nat \ {0} /\ c.h * m = c.h * c.w * c.oc
    BY <2>1
  <2>3. Len(d.rows) = c.h
    <3> HIDE DEF d, m
    <3> QED BY <1>1, <2>1
  <2> QED BY <2>1, <2>2, <2>3
<1>3. Blocks(d, c.h, m)
  <2>1. ASSUME NEW r \in 1..c.h PROVE DOMAIN d.rows[r] = ((r - 1) * m)..((r - 1) * m + m - 1)
    <3>1. DOMAIN d.rows[r] = ((r - 1) * m)..(((r - 1) + 1) * m - 1)
      BY <1>1 DEF ConvRow
    <3>2. ((r - 1) + 1) * m - 1 = (r - 1) * m + m - 1
      <4> HIDE DEF m
      <4> QED BY <1>2
    <3> QED BY <3>1, <3>2
  <2>2. d.out = 0..(c.h * m - 1)
    BY <1>1, <1>2
  <2>3. Len(d.rows) = c.h
    BY <1>2
  <2> HIDE DEF d, m
  <2> QED BY <2>1, <2>2, <2>3 DEF Blocks
<1> HIDE DEF d
<1>4. Tiles(d)
  <2> HIDE DEF m
  <2> QED BY <1>2, <1>3, BlocksTile
<1>5. ASSUME NEW r \in 1..c.h, NEW o \in DOMAIN d.rows[r] PROVE d.rows[r][o] = d.sum[o]
  <2> DEFINE b == r - 1
             x == (o % m) \div c.oc
  <2>1. b \in 0..(c.h - 1) /\ b \in Nat
    BY <1>2
  <2>2. d.rows[r] = ConvRow(c, b) /\ o \in (b * m)..((b + 1) * m - 1)
    BY <1>1 DEF ConvRow
  <2>3. o \in (b * m)..(b * m + m - 1)
    BY <1>3 DEF Blocks
  <2> HIDE DEF b
  <2>4. o \div m = b
    <3>1. c.h \in Nat /\ m \in Nat \ {0}
      BY <1>2
    <3> HIDE DEF m
    <3> QED BY <2>1, <2>3, <3>1, BlockOf
  <2>5. o \in 0..(c.h * m - 1) /\ o \in Nat
    <3> HIDE DEF m
    <3>1. o \in 0..(c.h * m - 1)
      BY <1>2, <2>1, <2>3, BlockOf
    <3> QED BY <3>1
  <2>6. c.w \in Nat \ {0} /\ c.oc \in Nat \ {0}
    BY DEF Sizes
  <2>7. (o \div c.oc) % c.w = x
    BY <2>5, <2>6, Column
  <2>8. x \in Nat
    BY <2>5, <2>6, Column
  <2>9. o % c.oc \in Nat
    BY <2>5, <2>6
  <2>10. d.rows[r][o] = CodeSum(c, b, x, o % c.oc)
    BY <2>2, ConvRowIs
  <2>11. ConvSum(c, o) = TermSum(c, b, x, o % c.oc)
    BY <2>4, <2>7, ConvSumIs
  <2>12. d.sum[o] = ConvSum(c, o)
    BY <1>1, <1>2, <2>5
  <2> HIDE DEF x, m
  <2>13. CodeSum(c, b, x, o % c.oc) = TermSum(c, b, x, o % c.oc)
    BY <2>1, <2>8, <2>9, SameSum
  <2> QED BY <2>10, <2>11, <2>12, <2>13
<1>6. Sums(d)
  BY <1>2, <1>5 DEF Sums
<1>7. ASSUME NEW o \in d.out, NEW t \in d.sum[o] PROVE InBounds(d, t)
  <2> DEFINE y == o \div m
             x == (o \div c.oc) % c.w
             oci == o % c.oc
  <2>1. o \in Nat /\ oci \in 0..(c.oc - 1)
    <3>1. o \in Nat
      BY <1>1
    <3> QED BY <3>1, Divided DEF Sizes
  <2>2. t \in TermSum(c, y, x, oci)
    BY <1>1, <1>7, ConvSumIs
  <2> HIDE DEF y, x, oci
  <2>3. ASSUME t = Bias(oci) PROVE InBounds(d, t)
    <3>1. t[1] = NoIndex /\ t[2] = oci
      BY <2>3 DEF Bias
    <3> QED BY <1>1, <2>1, <3>1 DEF InBounds
  <2>4. ASSUME t # Bias(oci) PROVE InBounds(d, t)
    <3>1. PICK i \in 0..(c.kh - 1), j \in 0..(c.kw - 1), ch \in 0..(c.ic - 1) :
            Inner(c, y, x, i, j) /\ t = Term(c, y, x, oci, i, j, ch)
      BY <2>2, <2>4, TermSumElements
    <3> DEFINE Y == y + i - 1
               X == x + j - c.pw
               a == Y * c.w + X
               e == i * c.kw + j
               g == e * c.ic + ch
    <3>2. /\ c.h \in Nat /\ c.w \in Nat /\ c.ic \in Nat /\ c.oc \in Nat /\ c.kh \in Nat
          /\ c.kw \in Nat /\ c.h * c.w \in Nat /\ c.kh * c.kw \in Nat
          /\ c.kh * c.kw * c.ic \in Nat
      BY DEF Sizes
    <3>3. Y \in 0..(c.h - 1) /\ X \in 0..(c.w - 1)
      BY <3>1 DEF Inner
    <3>4. t[1] = a * c.ic + ch /\ t[2] = g * c.oc + oci
      BY <3>1 DEF Term, Mul, TermInput, TermWeight
    <3>5. a \in 0..(c.h * c.w - 1)
      <4> HIDE DEF X, Y
      <4> QED BY <3>2, <3>3, Packed
    <3>6. a * c.ic + ch \in 0..(c.h * c.w * c.ic - 1)
      <4> HIDE DEF a
      <4> QED BY <3>2, <3>5, Packed
    <3>7. e \in 0..(c.kh * c.kw - 1)
      BY <3>2, Packed
    <3>8. g \in 0..(c.kh * c.kw * c.ic - 1)
      <4> HIDE DEF e
      <4> QED BY <3>2, <3>7, Packed
    <3>9. g * c.oc + oci \in 0..(c.kh * c.kw * c.ic * c.oc - 1)
      <4> HIDE DEF g
      <4> QED BY <2>1, <3>2, <3>8, Packed
    <3> HIDE DEF a, g
    <3> QED BY <1>1, <3>4, <3>6, <3>9 DEF InBounds, NoIndex
  <2> QED BY <2>3, <2>4
<1> QED BY <1>4, <1>6, <1>7 DEF Right, Reads, d

\* The node before the n-th of a graph, or the model's input; and where the kernels' data lies
Before(m, n) == IF n = 1 THEN 0 ELSE Graph[m][n - 1].id
Storages(m)    == {StorageOf(m, 0)} \union Written(m)

\* The n-th node calls a kernel that computes its layer, takes all of the output of the node
\* before it, from another storage than it writes to, and parameters that are all there ...
CallsKernel(m, n) ==
  LET k  == Graph[m][n].kernel
      id == Graph[m][n].id
      in == Graph[m][n].inputs
  IN /\ Right(k) /\ 0 \in k.out
     /\ k.in = Entry(m, Before(m, n)) /\ k.out = Entry(m, id)
     /\ StorageOf(m, id) # StorageOf(m, Before(m, n))
     /\ k.weights = {} \/ (k.weights = Entry(m, in[2]) /\ StorageOf(m, in[2]) \notin Storages(m))
     /\ k.biases = {} \/ (k.biases = Entry(m, in[3]) /\ StorageOf(m, in[3]) \notin Storages(m))

\* ... or it is a __nop, and its output lies where that of the node before it does.
PassesOn(m, n) ==
  /\ Graph[m][n].kernel = nop
  /\ StorageOf(m, Graph[m][n].id) = StorageOf(m, Before(m, n))
  /\ Entry(m, Graph[m][n].id) = Entry(m, Before(m, n))

Fits(m) ==
  /\ Len(Graph[m]) \in Nat \ {0} /\ DOMAIN Graph[m] = 1..Len(Graph[m]) /\ 0 \in Ids(m)
  /\ \A n \in 1..Len(Graph[m]) :
       /\ Graph[m][n].id \in Ids(m) \ {0} /\ Graph[m][n].inputs[1] = Before(m, n)
       /\ CallsKernel(m, n) \/ PassesOn(m, n)

LEMMA DenseKernel ==
  /\ \A k \in Nat : \A heap :
       Right(Dense(k, 16, 8, heap)) /\ Right(Dense(k, 1, 1, heap)) /\ Right(Dense(k, 4, 4, heap))
  /\ \A k, n, bn, heap :
       /\ Dense(k, n, bn, heap).in = 0..(k - 1) /\ Dense(k, n, bn, heap).out = 0..(n - 1)
       /\ Dense(k, n, bn, heap).weights = 0..(k * n - 1)
       /\ Dense(k, n, bn, heap).biases = 0..(n - 1)
<1>1. ASSUME NEW k \in Nat, NEW heap PROVE Right(Dense(k, 16, 8, heap))
  <2>1. 16 = 2 * 8 /\ 8 \in Nat \ {0} /\ 2 \in Nat
    OBVIOUS
  <2> QED BY <2>1, DenseRight
<1>2. ASSUME NEW k \in Nat, NEW heap PROVE Right(Dense(k, 1, 1, heap))
  <2>1. 1 = 1 * 1 /\ 1 \in Nat \ {0} /\ 1 \in Nat
    OBVIOUS
  <2> QED BY <2>1, DenseRight
<1>3. ASSUME NEW k \in Nat, NEW heap PROVE Right(Dense(k, 4, 4, heap))
  <2>1. 4 = 1 * 4 /\ 4 \in Nat \ {0} /\ 1 \in Nat
    OBVIOUS
  <2> QED BY <2>1, DenseRight
<1>4. \A k, n, bn, heap :
        /\ Dense(k, n, bn, heap).in = 0..(k - 1) /\ Dense(k, n, bn, heap).out = 0..(n - 1)
        /\ Dense(k, n, bn, heap).weights = 0..(k * n - 1)
        /\ Dense(k, n, bn, heap).biases = 0..(n - 1)
  BY DEF Dense
<1> QED BY <1>1, <1>2, <1>3, <1>4

\* Both sine models
Sine(m) ==
  /\ StorageId[m] = <<0, 1, 2, 3, 4, 5, 6, 2, 7, 8, 6, 2, 9, 10, 6>>
  /\ Shape[m] = <<1, 1, 1, 16, 16, 1, 16, 16, 256, 16, 16, 16, 16, 1, 1>>
  /\ Graph[m] =
       << Op(2, Elementwise(1, 1), <<0, 1>>), Op(6, Dense(1, 16, 8, FALSE), <<2, 3, 4, 5>>),
          Op(7, Elementwise(1, 16), <<6, 1>>), Op(10, Dense(16, 16, 8, FALSE), <<7, 8, 9, 5>>),
          Op(11, Elementwise(1, 16), <<10, 1>>), Op(14, Dense(16, 1, 1, FALSE), <<11, 12, 13>>) >>

LEMMA SineFits == ASSUME NEW m, Sine(m) PROVE Fits(m)
<1> DEFINE a == Elementwise(1, 1)
           b == Dense(1, 16, 8, FALSE)
           c == Elementwise(1, 16)
           d == Dense(16, 16, 8, FALSE)
           e == Dense(16, 1, 1, FALSE)
<1>1. Right(a) /\ Right(b) /\ Right(c) /\ Right(d) /\ Right(e)
  <2>1. 1 \in Nat \ {0} /\ 1 \in Nat /\ 16 \in Nat /\ 16 \in Nat \ {0}
    OBVIOUS
  <2>2. Right(a) /\ Right(c)
    BY <2>1, ElementwiseRight
  <2>3. Right(b) /\ Right(d) /\ Right(e)
    BY <2>1, DenseKernel
  <2> QED BY <2>2, <2>3
<1>2. /\ a.in = 0..0 /\ a.out = 0..0 /\ c.in = 0..15 /\ c.out = 0..15
      /\ b.in = 0..0 /\ b.out = 0..15 /\ d.in = 0..15 /\ d.out = 0..15
      /\ e.in = 0..15 /\ e.out = 0..0
      /\ a.weights = {} /\ a.biases = {} /\ c.weights = {} /\ c.biases = {}
      /\ b.weights = 0..15 /\ b.biases = 0..15 /\ d.weights = 0..255 /\ d.biases = 0..15
      /\ e.weights = 0..15 /\ e.biases = 0..0
  BY DEF Elementwise, Dense
<1>8. Graph[m] = << Op(2, a, <<0, 1>>), Op(6, b, <<2, 3, 4, 5>>), Op(7, c, <<6, 1>>),
                    Op(10, d, <<7, 8, 9, 5>>), Op(11, c, <<10, 1>>), Op(14, e, <<11, 12, 13>>) >>
  BY DEF Sine
<1> HIDE DEF a, b, c, d, e
<1>10. /\ StorageOf(m, 0) = 0 /\ StorageOf(m, 1) = 1 /\ StorageOf(m, 2) = 2
       /\ StorageOf(m, 3) = 3 /\ StorageOf(m, 4) = 4 /\ StorageOf(m, 6) = 6
       /\ StorageOf(m, 7) = 2 /\ StorageOf(m, 8) = 7 /\ StorageOf(m, 9) = 8
       /\ StorageOf(m, 10) = 6 /\ StorageOf(m, 11) = 2 /\ StorageOf(m, 12) = 9
       /\ StorageOf(m, 13) = 10 /\ StorageOf(m, 14) = 6
  BY DEF StorageOf, Sine
<1>11. /\ Entry(m, 0) = 0..0 /\ Entry(m, 1) = 0..0 /\ Entry(m, 2) = 0..0
       /\ Entry(m, 3) = 0..15 /\ Entry(m, 4) = 0..15 /\ Entry(m, 6) = 0..15
       /\ Entry(m, 7) = 0..15 /\ Entry(m, 8) = 0..255 /\ Entry(m, 9) = 0..15
       /\ Entry(m, 10) = 0..15 /\ Entry(m, 11) = 0..15 /\ Entry(m, 12) = 0..15
       /\ Entry(m, 13) = 0..0 /\ Entry(m, 14) = 0..0
  BY DEF Entry, Sine
<1>12. Ids(m) = 0..14
  BY DEF Ids, Sine
<1>13. /\ Len(Graph[m]) = 6 /\ Graph[m][1] = Op(2, a, <<0, 1>>)
       /\ Graph[m][2] = Op(6, b, <<2, 3, 4, 5>>) /\ Graph[m][3] = Op(7, c, <<6, 1>>)
       /\ Graph[m][4] = Op(10, d, <<7, 8, 9, 5>>) /\ Graph[m][5] = Op(11, c, <<10, 1>>)
       /\ Graph[m][6] = Op(14, e, <<11, 12, 13>>)
  BY <1>8
<1>14. DOMAIN Graph[m] = 1..6 /\ Len(Graph[m]) = 6
  <2>1. DOMAIN Graph[m] = 1..6
    BY <1>8
  <2> QED BY <1>13, <2>1
<1>15. Before(m, 1) = 0
  BY DEF Before
<1>16. /\ Before(m, 2) = 2 /\ Before(m, 3) = 6 /\ Before(m, 4) = 7 /\ Before(m, 5) = 10
       /\ Before(m, 6) = 11
  BY <1>13 DEF Before, Op
<1>17. Storages(m) = {0, 2, 6}
  <2>1. Written(m) = {StorageOf(m, Graph[m][n].id) : n \in 1..6}
    BY <1>14 DEF Written
  <2>2. /\ Graph[m][1].id = 2 /\ Graph[m][2].id = 6 /\ Graph[m][3].id = 7
        /\ Graph[m][4].id = 10 /\ Graph[m][5].id = 11 /\ Graph[m][6].id = 14
    BY <1>13 DEF Op
  <2>3. /\ StorageOf(m, Graph[m][1].id) = 2 /\ StorageOf(m, Graph[m][2].id) = 6
        /\ StorageOf(m, Graph[m][3].id) = 2 /\ StorageOf(m, Graph[m][4].id) = 6
        /\ StorageOf(m, Graph[m][5].id) = 2 /\ StorageOf(m, Graph[m][6].id) = 6
    BY <1>10, <2>2
  <2>4. 1..6 = {1, 2, 3, 4, 5, 6}
    OBVIOUS
  <2>5. Written(m) = {2, 6}
    BY <2>1, <2>3, <2>4
  <2> QED BY <1>10, <2>5 DEF Storages
<1>18. CallsKernel(m, 1)
  <2>1. /\ Graph[m][1].kernel = a /\ Graph[m][1].id = 2
        /\ Graph[m][1].inputs = <<0, 1>>
    BY <1>13 DEF Op
  <2>2. Right(a) /\ 0 \in a.out
    BY <1>1, <1>2
  <2>3. /\ a.in = Entry(m, 0) /\ a.out = Entry(m, 2)
        /\ StorageOf(m, 2) # StorageOf(m, 0)
    BY <1>2, <1>10, <1>11
  <2>4. a.weights = {} /\ a.biases = {}
    BY <1>2
  <2> QED BY <1>15, <2>1, <2>2, <2>3, <2>4 DEF CallsKernel
<1>19. CallsKernel(m, 2)
  <2>1. /\ Graph[m][2].kernel = b /\ Graph[m][2].id = 6
        /\ Graph[m][2].inputs = <<2, 3, 4, 5>>
    BY <1>13 DEF Op
  <2>2. Right(b) /\ 0 \in b.out
    BY <1>1, <1>2
  <2>3. /\ b.in = Entry(m, 2) /\ b.out = Entry(m, 6)
        /\ StorageOf(m, 6) # StorageOf(m, 2)
    BY <1>2, <1>10, <1>11
  <2>4. /\ Graph[m][2].inputs[2] = 3 /\ Graph[m][2].inputs[3] = 4
        /\ b.weights = Entry(m, 3) /\ StorageOf(m, 3) \notin Storages(m)
        /\ b.biases = Entry(m, 4) /\ StorageOf(m, 4) \notin Storages(m)
    BY <1>2, <1>10, <1>11, <1>17, <2>1
  <2> QED BY <1>16, <2>1, <2>2, <2>3, <2>4 DEF CallsKernel
<1>20. CallsKernel(m, 3)
  <2>1. /\ Graph[m][3].kernel = c /\ Graph[m][3].id = 7
        /\ Graph[m][3].inputs = <<6, 1>>
    BY <1>13 DEF Op
  <2>2. Right(c) /\ 0 \in c.out
    BY <1>1, <1>2
  <2>3. /\ c.in = Entry(m, 6) /\ c.out = Entry(m, 7)
        /\ StorageOf(m, 7) # StorageOf(m, 6)
    BY <1>2, <1>10, <1>11
  <2>4. c.weights = {} /\ c.biases = {}
    BY <1>2
  <2> QED BY <1>16, <2>1, <2>2, <2>3, <2>4 DEF CallsKernel
<1>21. CallsKernel(m, 4)
  <2>1. /\ Graph[m][4].kernel = d /\ Graph[m][4].id = 10
        /\ Graph[m][4].inputs = <<7, 8, 9, 5>>
    BY <1>13 DEF Op
  <2>2. Right(d) /\ 0 \in d.out
    BY <1>1, <1>2
  <2>3. /\ d.in = Entry(m, 7) /\ d.out = Entry(m, 10)
        /\ StorageOf(m, 10) # StorageOf(m, 7)
    BY <1>2, <1>10, <1>11
  <2>4. /\ Graph[m][4].inputs[2] = 8 /\ Graph[m][4].inputs[3] = 9
        /\ d.weights = Entry(m, 8) /\ StorageOf(m, 8) \notin Storages(m)
        /\ d.biases = Entry(m, 9) /\ StorageOf(m, 9) \notin Storages(m)
    BY <1>2, <1>10, <1>11, <1>17, <2>1
  <2> QED BY <1>16, <2>1, <2>2, <2>3, <2>4 DEF CallsKernel
<1>22. CallsKernel(m, 5)
  <2>1. /\ Graph[m][5].kernel = c /\ Graph[m][5].id = 11
        /\ Graph[m][5].inputs = <<10, 1>>
    BY <1>13 DEF Op
  <2>2. Right(c) /\ 0 \in c.out
    BY <1>1, <1>2
  <2>3. /\ c.in = Entry(m, 10) /\ c.out = Entry(m, 11)
        /\ StorageOf(m, 11) # StorageOf(m, 10)
    BY <1>2, <1>10, <1>11
  <2>4. c.weights = {} /\ c.biases = {}
    BY <1>2
  <2> QED BY <1>16, <2>1, <2>2, <2>3, <2>4 DEF CallsKernel
<1>23. CallsKernel(m, 6)
  <2>1. /\ Graph[m][6].kernel = e /\ Graph[m][6].id = 14
        /\ Graph[m][6].inputs = <<11, 12, 13>>
    BY <1>13 DEF Op
  <2>2. Right(e) /\ 0 \in e.out
    BY <1>1, <1>2
  <2>3. /\ e.in = Entry(m, 11) /\ e.out = Entry(m, 14)
        /\ StorageOf(m, 14) # StorageOf(m, 11)
    BY <1>2, <1>10, <1>11
  <2>4. /\ Graph[m][6].inputs[2] = 12 /\ Graph[m][6].inputs[3] = 13
        /\ e.weights = Entry(m, 12) /\ StorageOf(m, 12) \notin Storages(m)
        /\ e.biases = Entry(m, 13) /\ StorageOf(m, 13) \notin Storages(m)
    BY <1>2, <1>10, <1>11, <1>17, <2>1
  <2> QED BY <1>16, <2>1, <2>2, <2>3, <2>4 DEF CallsKernel
<1>24. ASSUME NEW n \in 1..6
       PROVE  /\ Graph[m][n].id \in Ids(m) \ {0} /\ Graph[m][n].inputs[1] = Before(m, n)
              /\ CallsKernel(m, n) \/ PassesOn(m, n)
  <2>1. n = 1 \/ n = 2 \/ n = 3 \/ n = 4 \/ n = 5 \/ n = 6
    OBVIOUS
  <2>2. CASE n = 1
    <3>1. Graph[m][1].id = 2 /\ Graph[m][1].inputs[1] = 0
      BY <1>13 DEF Op
    <3>2. 2 \in Ids(m) \ {0} /\ Before(m, 1) = 0
      BY <1>12, <1>15
    <3> QED BY <1>18, <2>2, <3>1, <3>2
  <2>3. CASE n = 2
    <3>1. Graph[m][2].id = 6 /\ Graph[m][2].inputs[1] = 2
      BY <1>13 DEF Op
    <3>2. 6 \in Ids(m) \ {0} /\ Before(m, 2) = 2
      BY <1>12, <1>16
    <3> QED BY <1>19, <2>3, <3>1, <3>2
  <2>4. CASE n = 3
    <3>1. Graph[m][3].id = 7 /\ Graph[m][3].inputs[1] = 6
      BY <1>13 DEF Op
    <3>2. 7 \in Ids(m) \ {0} /\ Before(m, 3) = 6
      BY <1>12, <1>16
    <3> QED BY <1>20, <2>4, <3>1, <3>2
  <2>5. CASE n = 4
    <3>1. Graph[m][4].id = 10 /\ Graph[m][4].inputs[1] = 7
      BY <1>13 DEF Op
    <3>2. 10 \in Ids(m) \ {0} /\ Before(m, 4) = 7
      BY <1>12, <1>16
    <3> QED BY <1>21, <2>5, <3>1, <3>2
  <2>6. CASE n = 5
    <3>1. Graph[m][5].id = 11 /\ Graph[m][5].inputs[1] = 10
      BY <1>13 DEF Op
    <3>2. 11 \in Ids(m) \ {0} /\ Before(m, 5) = 10
      BY <1>12, <1>16
    <3> QED BY <1>22, <2>6, <3>1, <3>2
  <2>7. CASE n = 6
    <3>1. Graph[m][6].id = 14 /\ Graph[m][6].inputs[1] = 11
      BY <1>13 DEF Op
    <3>2. 14 \in Ids(m) \ {0} /\ Before(m, 6) = 11
      BY <1>12, <1>16
    <3> QED BY <1>23, <2>7, <3>1, <3>2
  <2> QED BY <2>1, <2>2, <2>3, <2>4, <2>5, <2>6, <2>7
<1> QED BY <1>12, <1>14, <1>24 DEF Fits

MagicWand(m) ==
  /\ StorageId[m] = <<0, 1, 2, 3, 4, 5, 6, 3, 4, 4, 7, 8, 9, 10, 11, 12, 9>>
  /\ Shape[m] =
       <<384, 96, 8, 3072, 336, 512, 16, 672, 224, 224, 3584, 16, 16, 64, 4, 4, 4>>
  /\ Graph[m] =
       << Op(3, fused_nn_conv2d_add_nn_relu, <<0, 1, 2>>), Op(4, fused_nn_max_pool2d, <<3>>),
          Op(7, fused_nn_conv2d_add_nn_relu_1, <<4, 5, 6>>), Op(8, fused_nn_max_pool2d_1, <<7>>),
          Op(9, nop, <<8>>), Op(12, fused_nn_dense_add_nn_relu, <<9, 10, 11>>),
          Op(15, fused_nn_dense_add, <<12, 13, 14>>), Op(16, fused_nn_softmax, <<15>>) >>

LEMMA MagicWandFits == ASSUME NEW m, MagicWand(m) PROVE Fits(m)
<1> DEFINE p == [h |-> 128, w |-> 3, ic |-> 1, oc |-> 8, kh |-> 4, kw |-> 3, pw |-> 1]
           q == [h |-> 42, w |-> 1, ic |-> 8, oc |-> 16, kh |-> 4, kw |-> 1, pw |-> 0]
           a == Conv(p)
           b == Pool(42, 3, 3, 8, 128)
           c == Conv(q)
           d == Pool(14, 3, 1, 16, 42)
           f == Dense(224, 16, 8, TRUE)
           k == Dense(16, 4, 4, FALSE)
           s == fused_nn_softmax
<1>1. /\ p.h = 128 /\ p.w = 3 /\ p.ic = 1 /\ p.oc = 8 /\ p.kh = 4 /\ p.kw = 3 /\ p.pw = 1
      /\ q.h = 42 /\ q.w = 1 /\ q.ic = 8 /\ q.oc = 16 /\ q.kh = 4 /\ q.kw = 1 /\ q.pw = 0
  OBVIOUS
<1>2. Right(a) /\ Right(c)
  <2> HIDE DEF p, q
  <2>1. Sizes(p) /\ Sizes(q)
    BY <1>1 DEF Sizes
  <2> QED BY <2>1, ConvRight
<1>3. Right(b) /\ Right(d)
  <2>1. Right(b)
    <3>1. 42 * 3 <= 128 /\ 42 \in Nat /\ 3 \in Nat /\ 8 \in Nat \ {0} /\ 128 \in Nat
      OBVIOUS
    <3> QED BY <3>1, PoolRight
  <2>2. Right(d)
    <3>1. /\ 14 * 3 <= 42 /\ 14 \in Nat /\ 3 \in Nat /\ 1 \in Nat /\ 16 \in Nat \ {0}
          /\ 42 \in Nat
      OBVIOUS
    <3> QED BY <3>1, PoolRight
  <2> QED BY <2>1, <2>2
<1>4. Right(f) /\ Right(k) /\ Right(s)
  <2>1. 224 \in Nat /\ 16 \in Nat
    OBVIOUS
  <2>2. Right(f) /\ Right(k)
    BY <2>1, DenseKernel
  <2> QED BY <2>2, SoftmaxRight
<1>5. /\ a.in = 0..383 /\ a.out = 0..3071 /\ a.weights = 0..95 /\ a.biases = 0..7
      /\ c.in = 0..335 /\ c.out = 0..671 /\ c.weights = 0..511 /\ c.biases = 0..15
  <2> HIDE DEF p, q
  <2> QED BY <1>1 DEF Conv
<1>6. /\ b.in = 0..3071 /\ b.out = 0..335 /\ d.in = 0..671 /\ d.out = 0..223
      /\ f.in = 0..223 /\ f.out = 0..15 /\ k.in = 0..15 /\ k.out = 0..3
      /\ s.in = 0..3 /\ s.out = 0..3
      /\ b.weights = {} /\ b.biases = {} /\ d.weights = {} /\ d.biases = {}
      /\ s.weights = {} /\ s.biases = {}
      /\ f.weights = 0..3583 /\ f.biases = 0..15 /\ k.weights = 0..63 /\ k.biases = 0..3
  BY DEF Pool, Dense, fused_nn_softmax
<1>8. Graph[m] = << Op(3, a, <<0, 1, 2>>), Op(4, b, <<3>>), Op(7, c, <<4, 5, 6>>),
                    Op(8, d, <<7>>), Op(9, nop, <<8>>), Op(12, f, <<9, 10, 11>>),
                    Op(15, k, <<12, 13, 14>>), Op(16, s, <<15>>) >>
  BY DEF MagicWand, fused_nn_conv2d_add_nn_relu, fused_nn_max_pool2d,
         fused_nn_conv2d_add_nn_relu_1, fused_nn_max_pool2d_1, fused_nn_dense_add_nn_relu,
         fused_nn_dense_add
<1> HIDE DEF p, q, a, b, c, d, f, k, s
<1>10. /\ StorageOf(m, 0) = 0 /\ StorageOf(m, 1) = 1 /\ StorageOf(m, 2) = 2
       /\ StorageOf(m, 3) = 3 /\ StorageOf(m, 4) = 4 /\ StorageOf(m, 5) = 5
       /\ StorageOf(m, 6) = 6 /\ StorageOf(m, 7) = 3 /\ StorageOf(m, 8) = 4
       /\ StorageOf(m, 9) = 4 /\ StorageOf(m, 10) = 7 /\ StorageOf(m, 11) = 8
       /\ StorageOf(m, 12) = 9 /\ StorageOf(m, 13) = 10 /\ StorageOf(m, 14) = 11
       /\ StorageOf(m, 15) = 12 /\ StorageOf(m, 16) = 9
  BY DEF StorageOf, MagicWand
<1>11. /\ Entry(m, 0) = 0..383 /\ Entry(m, 1) = 0..95 /\ Entry(m, 2) = 0..7
       /\ Entry(m, 3) = 0..3071 /\ Entry(m, 4) = 0..335 /\ Entry(m, 5) = 0..511
       /\ Entry(m, 6) = 0..15 /\ Entry(m, 7) = 0..671 /\ Entry(m, 8) = 0..223
       /\ Entry(m, 9) = 0..223 /\ Entry(m, 10) = 0..3583 /\ Entry(m, 11) = 0..15
       /\ Entry(m, 12) = 0..15 /\ Entry(m, 13) = 0..63 /\ Entry(m, 14) = 0..3
       /\ Entry(m, 15) = 0..3 /\ Entry(m, 16) = 0..3
  BY DEF Entry, MagicWand
<1>12. Ids(m) = 0..16
  BY DEF Ids, MagicWand
<1>13. /\ Len(Graph[m]) = 8 /\ Graph[m][1] = Op(3, a, <<0, 1, 2>>)
       /\ Graph[m][2] = Op(4, b, <<3>>) /\ Graph[m][3] = Op(7, c, <<4, 5, 6>>)
       /\ Graph[m][4] = Op(8, d, <<7>>) /\ Graph[m][5] = Op(9, nop, <<8>>)
       /\ Graph[m][6] = Op(12, f, <<9, 10, 11>>) /\ Graph[m][7] = Op(15, k, <<12, 13, 14>>)
       /\ Graph[m][8] = Op(16, s, <<15>>)
  BY <1>8
<1>14. DOMAIN Graph[m] = 1..8 /\ Len(Graph[m]) = 8
  <2>1. DOMAIN Graph[m] = 1..8
    BY <1>8
  <2> QED BY <1>13, <2>1
<1>15. Before(m, 1) = 0
  BY DEF Before
<1>16. /\ Before(m, 2) = 3 /\ Before(m, 3) = 4 /\ Before(m, 4) = 7 /\ Before(m, 5) = 8
       /\ Before(m, 6) = 9 /\ Before(m, 7) = 12 /\ Before(m, 8) = 15
  BY <1>13 DEF Before, Op
<1>17. Storages(m) = {0, 3, 4, 9, 12}
  <2>1. Written(m) = {StorageOf(m, Graph[m][n].id) : n \in 1..8}
    BY <1>14 DEF Written
  <2>2. /\ Graph[m][1].id = 3 /\ Graph[m][2].id = 4 /\ Graph[m][3].id = 7
        /\ Graph[m][4].id = 8 /\ Graph[m][5].id = 9 /\ Graph[m][6].id = 12
        /\ Graph[m][7].id = 15 /\ Graph[m][8].id = 16
    BY <1>13 DEF Op
  <2>3. /\ StorageOf(m, Graph[m][1].id) = 3 /\ StorageOf(m, Graph[m][2].id) = 4
        /\ StorageOf(m, Graph[m][3].id) = 3 /\ StorageOf(m, Graph[m][4].id) = 4
        /\ StorageOf(m, Graph[m][5].id) = 4 /\ StorageOf(m, Graph[m][6].id) = 9
        /\ StorageOf(m, Graph[m][7].id) = 12 /\ StorageOf(m, Graph[m][8].id) = 9
    BY <1>10, <2>2
  <2>4. 1..8 = {1, 2, 3, 4, 5, 6, 7, 8}
    OBVIOUS
  <2>5. Written(m) = {3, 4, 9, 12}
    BY <2>1, <2>3, <2>4
  <2> QED BY <1>10, <2>5 DEF Storages
<1>18. CallsKernel(m, 1)
  <2>1. /\ Graph[m][1].kernel = a /\ Graph[m][1].id = 3
        /\ Graph[m][1].inputs = <<0, 1, 2>>
    BY <1>13 DEF Op
  <2>2. Right(a) /\ 0 \in a.out
    BY <1>2, <1>5
  <2>3. /\ a.in = Entry(m, 0) /\ a.out = Entry(m, 3)
        /\ StorageOf(m, 3) # StorageOf(m, 0)
    BY <1>5, <1>10, <1>11
  <2>4. /\ Graph[m][1].inputs[2] = 1 /\ Graph[m][1].inputs[3] = 2
        /\ a.weights = Entry(m, 1) /\ StorageOf(m, 1) \notin Storages(m)
        /\ a.biases = Entry(m, 2) /\ StorageOf(m, 2) \notin Storages(m)
    BY <1>5, <1>10, <1>11, <1>17, <2>1
  <2> QED BY <1>15, <2>1, <2>2, <2>3, <2>4 DEF CallsKernel
<1>19. CallsKernel(m, 2)
  <2>1. /\ Graph[m][2].kernel = b /\ Graph[m][2].id = 4
        /\ Graph[m][2].inputs = <<3>>
    BY <1>13 DEF Op
  <2>2. Right(b) /\ 0 \in b.out
    BY <1>3, <1>6
  <2>3. /\ b.in = Entry(m, 3) /\ b.out = Entry(m, 4)
        /\ StorageOf(m, 4) # StorageOf(m, 3)
    BY <1>6, <1>10, <1>11
  <2>4. b.weights = {} /\ b.biases = {}
    BY <1>6
  <2> QED BY <1>16, <2>1, <2>2, <2>3, <2>4 DEF CallsKernel
<1>20. CallsKernel(m, 3)
  <2>1. /\ Graph[m][3].kernel = c /\ Graph[m][3].id = 7
        /\ Graph[m][3].inputs = <<4, 5, 6>>
    BY <1>13 DEF Op
  <2>2. Right(c) /\ 0 \in c.out
    BY <1>2, <1>5
  <2>3. /\ c.in = Entry(m, 4) /\ c.out = Entry(m, 7)
        /\ StorageOf(m, 7) # StorageOf(m, 4)
    BY <1>5, <1>10, <1>11
  <2>4. /\ Graph[m][3].inputs[2] = 5 /\ Graph[m][3].inputs[3] = 6
        /\ c.weights = Entry(m, 5) /\ StorageOf(m, 5) \notin Storages(m)
        /\ c.biases = Entry(m, 6) /\ StorageOf(m, 6) \notin Storages(m)
    BY <1>5, <1>10, <1>11, <1>17, <2>1
  <2> QED BY <1>16, <2>1, <2>2, <2>3, <2>4 DEF CallsKernel
<1>21. CallsKernel(m, 4)
  <2>1. /\ Graph[m][4].kernel = d /\ Graph[m][4].id = 8
        /\ Graph[m][4].inputs = <<7>>
    BY <1>13 DEF Op
  <2>2. Right(d) /\ 0 \in d.out
    BY <1>3, <1>6
  <2>3. /\ d.in = Entry(m, 7) /\ d.out = Entry(m, 8)
        /\ StorageOf(m, 8) # StorageOf(m, 7)
    BY <1>6, <1>10, <1>11
  <2>4. d.weights = {} /\ d.biases = {}
    BY <1>6
  <2> QED BY <1>16, <2>1, <2>2, <2>3, <2>4 DEF CallsKernel
<1>22. PassesOn(m, 5)
  <2>1. /\ Graph[m][5].kernel = nop /\ Graph[m][5].id = 9
        /\ Graph[m][5].inputs = <<8>>
    BY <1>13 DEF Op
  <2>2. StorageOf(m, 9) = StorageOf(m, 8)
    BY <1>10
  <2>3. Entry(m, 9) = Entry(m, 8)
    <3>1. Entry(m, 9) = 0..223
      BY <1>11
    <3>2. Entry(m, 8) = 0..223
      BY <1>11
    <3> QED BY <3>1, <3>2, Zenon
  <2>4. Before(m, 5) = 8
    BY <1>16
  <2> QED BY <2>1, <2>2, <2>3, <2>4 DEF PassesOn
<1>23. CallsKernel(m, 6)
  <2>1. /\ Graph[m][6].kernel = f /\ Graph[m][6].id = 12
        /\ Graph[m][6].inputs = <<9, 10, 11>>
    BY <1>13 DEF Op
  <2>2. Right(f) /\ 0 \in f.out
    BY <1>4, <1>6
  <2>3. /\ f.in = Entry(m, 9) /\ f.out = Entry(m, 12)
        /\ StorageOf(m, 12) # StorageOf(m, 9)
    BY <1>6, <1>10, <1>11
  <2>4. /\ Graph[m][6].inputs[2] = 10 /\ Graph[m][6].inputs[3] = 11
        /\ f.weights = Entry(m, 10) /\ StorageOf(m, 10) \notin Storages(m)
        /\ f.biases = Entry(m, 11) /\ StorageOf(m, 11) \notin Storages(m)
    BY <1>6, <1>10, <1>11, <1>17, <2>1
  <2> QED BY <1>16, <2>1, <2>2, <2>3, <2>4 DEF CallsKernel
<1>24. CallsKernel(m, 7)
  <2>1. /\ Graph[m][7].kernel = k /\ Graph[m][7].id = 15
        /\ Graph[m][7].inputs = <<12, 13, 14>>
    BY <1>13 DEF Op
  <2>2. Right(k) /\ 0 \in k.out
    BY <1>4, <1>6
  <2>3. /\ k.in = Entry(m, 12) /\ k.out = Entry(m, 15)
        /\ StorageOf(m, 15) # StorageOf(m, 12)
    BY <1>6, <1>10, <1>11
  <2>4. /\ Graph[m][7].inputs[2] = 13 /\ Graph[m][7].inputs[3] = 14
        /\ k.weights = Entry(m, 13) /\ StorageOf(m, 13) \notin Storages(m)
        /\ k.biases = Entry(m, 14) /\ StorageOf(m, 14) \notin Storages(m)
    BY <1>6, <1>10, <1>11, <1>17, <2>1
  <2> QED BY <1>16, <2>1, <2>2, <2>3, <2>4 DEF CallsKernel
<1>25. CallsKernel(m, 8)
  <2>1. /\ Graph[m][8].kernel = s /\ Graph[m][8].id = 16
        /\ Graph[m][8].inputs = <<15>>
    BY <1>13 DEF Op
  <2>2. Right(s) /\ 0 \in s.out
    BY <1>4, <1>6
  <2>3. /\ s.in = Entry(m, 15) /\ s.out = Entry(m, 16)
        /\ StorageOf(m, 16) # StorageOf(m, 15)
    BY <1>6, <1>10, <1>11
  <2>4. s.weights = {} /\ s.biases = {}
    BY <1>6
  <2> QED BY <1>16, <2>1, <2>2, <2>3, <2>4 DEF CallsKernel
<1>26. ASSUME NEW n \in 1..8
       PROVE  /\ Graph[m][n].id \in Ids(m) \ {0} /\ Graph[m][n].inputs[1] = Before(m, n)
              /\ CallsKernel(m, n) \/ PassesOn(m, n)
  <2>1. n = 1 \/ n = 2 \/ n = 3 \/ n = 4 \/ n = 5 \/ n = 6 \/ n = 7 \/ n = 8
    OBVIOUS
  <2>2. CASE n = 1
    <3>1. Graph[m][1].id = 3 /\ Graph[m][1].inputs[1] = 0
      BY <1>13 DEF Op
    <3>2. 3 \in Ids(m) \ {0} /\ Before(m, 1) = 0
      BY <1>12, <1>15
    <3> QED BY <1>18, <2>2, <3>1, <3>2
  <2>3. CASE n = 2
    <3>1. Graph[m][2].id = 4 /\ Graph[m][2].inputs[1] = 3
      BY <1>13 DEF Op
    <3>2. 4 \in Ids(m) \ {0} /\ Before(m, 2) = 3
      BY <1>12, <1>16
    <3> QED BY <1>19, <2>3, <3>1, <3>2
  <2>4. CASE n = 3
    <3>1. Graph[m][3].id = 7 /\ Graph[m][3].inputs[1] = 4
      BY <1>13 DEF Op
    <3>2. 7 \in Ids(m) \ {0} /\ Before(m, 3) = 4
      BY <1>12, <1>16
    <3> QED BY <1>20, <2>4, <3>1, <3>2
  <2>5. CASE n = 4
    <3>1. Graph[m][4].id = 8 /\ Graph[m][4].inputs[1] = 7
      BY <1>13 DEF Op
    <3>2. 8 \in Ids(m) \ {0} /\ Before(m, 4) = 7
      BY <1>12, <1>16
    <3> QED BY <1>21, <2>5, <3>1, <3>2
  <2>6. CASE n = 5
    <3>1. Graph[m][5].id = 9 /\ Graph[m][5].inputs[1] = 8
      BY <1>13 DEF Op
    <3>2. 9 \in Ids(m) \ {0} /\ Before(m, 5) = 8
      BY <1>12, <1>16
    <3> QED BY <1>22, <2>6, <3>1, <3>2
  <2>7. CASE n = 6
    <3>1. Graph[m][6].id = 12 /\ Graph[m][6].inputs[1] = 9
      BY <1>13 DEF Op
    <3>2. 12 \in Ids(m) \ {0} /\ Before(m, 6) = 9
      BY <1>12, <1>16
    <3> QED BY <1>23, <2>7, <3>1, <3>2
  <2>8. CASE n = 7
    <3>1. Graph[m][7].id = 15 /\ Graph[m][7].inputs[1] = 12
      BY <1>13 DEF Op
    <3>2. 15 \in Ids(m) \ {0} /\ Before(m, 7) = 12
      BY <1>12, <1>16
    <3> QED BY <1>24, <2>8, <3>1, <3>2
  <2>9. CASE n = 8
    <3>1. Graph[m][8].id = 16 /\ Graph[m][8].inputs[1] = 15
      BY <1>13 DEF Op
    <3>2. 16 \in Ids(m) \ {0} /\ Before(m, 8) = 15
      BY <1>12, <1>16
    <3> QED BY <1>25, <2>9, <3>1, <3>2
  <2> QED BY <2>1, <2>2, <2>3, <2>4, <2>5, <2>6, <2>7, <2>8, <2>9
<1> QED BY <1>12, <1>14, <1>26 DEF Fits

LEMMA GraphsFit == ASSUME NEW m \in Models PROVE Fits(m)
<1>1. Fits("quantized")
  <2>1. Sine("quantized")
    BY DEF Sine, StorageId, Shape, Graph, fused_reshape_cast_subtract,
           fused_reshape_cast_subtract_1,
           fused_nn_dense_add_fixed_point_multiply_add_clip_cast,
           fused_nn_dense_add_fixed_point_multiply_add_clip_cast_1,
           fused_nn_dense_add_fixed_point_multiply_add_clip_cast_2
  <2> QED BY <2>1, SineFits
<1>2. Fits("sine2")
  <2>1. Sine("sine2")
    BY DEF Sine, StorageId, Shape, Graph, sine2_fused_reshape_cast_subtract,
           sine2_fused_reshape_cast_subtract_1,
           sine2_fused_nn_dense_add_fixed_point_multiply_add_clip_cast,
           sine2_fused_nn_dense_add_fixed_point_multiply_add_clip_cast_1,
           sine2_fused_nn_dense_add_fixed_point_multiply_add_clip_cast_2
  <2> QED BY <2>1, SineFits
<1>3. Fits("magic_wand")
  <2>1. MagicWand("magic_wand")
    BY DEF MagicWand, StorageId, Shape, Graph
  <2> QED BY <2>1, MagicWandFits
<1> QED BY <1>1, <1>2, <1>3, ModelAssumption

\* An output has room in its storage, and so has what the node before it has made.
LEMMA NodeFits ==
  ASSUME NEW m \in Models, NEW n \in 1..Len(Graph[m])
  PROVE  LET id == Graph[m][n].id IN
         /\ Before(m, n + 1) = id
         /\ StorageOf(m, id) \in Storages(m) /\ StorageOf(m, Before(m, n)) \in Storages(m)
         /\ Entry(m, id) \subseteq Room(m, StorageOf(m, id))
<1> DEFINE id == Graph[m][n].id
<1>1. Fits(m)
  BY GraphsFit
<1>2. n \in DOMAIN Graph[m] /\ id \in Ids(m)
  BY <1>1 DEF Fits
<1>3. StorageOf(m, id) \in Storages(m)
  BY <1>2 DEF Storages, Written
<1>4. Before(m, n + 1) = id
  <2>1. n + 1 # 1 /\ (n + 1) - 1 = n
    OBVIOUS
  <2> QED BY <2>1 DEF Before
<1>5. StorageOf(m, Before(m, n)) \in Storages(m)
  <2>1. CASE n = 1
    BY <2>1 DEF Before, Storages
  <2>2. CASE n # 1
    <3>1. n - 1 \in DOMAIN Graph[m] /\ Before(m, n) = Graph[m][n - 1].id
      BY <1>1, <2>2 DEF Before, Fits
    <3> QED BY <3>1 DEF Storages, Written
  <2> QED BY <2>1, <2>2
<1>6. Entry(m, id) \subseteq Room(m, StorageOf(m, id))
  BY <1>2 DEF Room
<1> QED BY <1>3, <1>4, <1>5, <1>6

\* A node either calls a kernel, which has rows, or is a __nop, which has none.
LEMMA NodeCalls ==
  ASSUME NEW m \in Models, NEW n \in 1..Len(Graph[m])
  PROVE  LET k == Graph[m][n].kernel IN
         /\ Graph[m][n].inputs[1] = Before(m, n)
         /\ Len(k.rows) \in Nat
         /\ k.rows # << >> => CallsKernel(m, n)
         /\ k.rows = << >> => PassesOn(m, n)
<1> DEFINE k == Graph[m][n].kernel
<1>1. Fits(m)
  BY GraphsFit
<1>2. Graph[m][n].inputs[1] = Before(m, n)
  BY <1>1 DEF Fits
<1>3. CASE CallsKernel(m, n)
  <2>1. Tiles(k) /\ 0 \in k.out
    BY <1>3 DEF CallsKernel, Right
  <2>2. PICK r \in 1..Len(k.rows) : 0 \in DOMAIN k.rows[r]
    BY <2>1 DEF Tiles
  <2>3. Len(k.rows) \in Nat
    BY <2>1 DEF Tiles
  <2>4. k.rows # << >>
    <3>1. Len(<< >>) = 0
      OBVIOUS
    <3>2. Len(k.rows) # 0
      BY <2>2, <2>3
    <3> QED BY <3>1, <3>2
  <2> QED BY <1>2, <1>3, <2>3, <2>4
<1>4. CASE PassesOn(m, n)
  <2>1. k.rows = << >>
    BY <1>4 DEF PassesOn, nop
  <2>2. Len(k.rows) \in Nat
    BY <2>1
  <2> QED BY <1>2, <1>4, <2>1, <2>2
<1> QED BY <1>1, <1>3, <1>4 DEF Fits

\* What an inference has done so far.  The kernel it has come to has written the rows it has
\* done, each for the first time, and they are in its storage.  Unless a kernel has failed,
\* the output of the node before, or the input, is there as a whole.
KernelCalled ==
  /\ row \in 0..Len(Kernel.rows) /\ (workspace => Kernel.heap)
  /\ got = <<>> \/ (row \in 1..Len(Kernel.rows) /\ got = Kernel.rows[row])
  /\ made = UNION {DOMAIN Kernel.rows[r] : r \in 1..row}
  /\ \A i \in made : Holds(Node.id, i)

\* The output of node id is in storage st as a whole.
HeldIn(st, m, id) == \A i \in Entry(m, id) : st[StorageOf(m, id)][i] = id

AllReturned == row = 0 /\ ~workspace /\ got = <<>> /\ made = {}

KernelInv ==
  /\ model \in Models /\ node \in 1..(Len(Graph[model]) + 1)
  /\ twice \in BOOLEAN /\ workspace \in BOOLEAN /\ failed \in BOOLEAN
  /\ DOMAIN storage = Storages(model)
  /\ \A s \in Storages(model) : DOMAIN storage[s] = Room(model, s)
  /\ Inferring => KernelCalled
  /\ ~Inferring => AllReturned
  /\ ~twice
  /\ failed \/ HeldIn(storage, model, Before(model, node))

LEMMA KernelInvInit == ASSUME KernelInit PROVE KernelInv
<1>1. model \in Models /\ node = 1 /\ row = 0 /\ made = {} /\ got = <<>>
      /\ twice = FALSE /\ workspace = FALSE /\ failed = FALSE
  BY DEF KernelInit
<1>2. Fits(model)
  BY <1>1, GraphsFit
<1>3. Len(Graph[model]) \in Nat \ {0} /\ 1 \in 1..Len(Graph[model]) /\ Inferring
  BY <1>1, <1>2 DEF Fits, Inferring
<1>4. Len(Kernel.rows) \in Nat
  BY <1>1, <1>3, NodeCalls DEF Kernel, Node
<1>5. KernelCalled
  <2>1. 1..0 = {}
    OBVIOUS
  <2>2. made = UNION {DOMAIN Kernel.rows[r] : r \in 1..row}
    BY <1>1, <2>1
  <2> QED BY <1>1, <1>4, <2>2 DEF KernelCalled
<1>6. /\ DOMAIN storage = Storages(model)
      /\ \A s \in Storages(model) : DOMAIN storage[s] = Room(model, s)
      /\ \A i \in Room(model, StorageOf(model, 0)) : storage[StorageOf(model, 0)][i] = 0
  BY DEF KernelInit, Storages
<1>7. Before(model, node) = 0
  BY <1>1 DEF Before
<1>8. HeldIn(storage, model, 0)
  <2>1. Entry(model, 0) \subseteq Room(model, StorageOf(model, 0))
    BY <1>2 DEF Fits, Room
  <2> QED BY <1>6, <2>1 DEF HeldIn
<1>9. HeldIn(storage, model, Before(model, node))
  BY <1>7, <1>8
<1>10. node \in 1..(Len(Graph[model]) + 1)
  BY <1>1, <1>3
<1> QED BY <1>1, <1>3, <1>5, <1>6, <1>9, <1>10, Zenon DEF KernelInv

LEMMA Advances ==
  ASSUME KernelInv, Inferring, Advance, workspace' = FALSE
  PROVE  /\ model' = model /\ node' \in 1..(Len(Graph[model]) + 1) /\ node' = node + 1
         /\ twice' \in BOOLEAN /\ ~twice'
         /\ Inferring' => KernelCalled'
         /\ ~Inferring' => AllReturned'
<1>1. /\ model' = model /\ node' = node + 1 /\ row' = 0 /\ made' = {} /\ got' = <<>>
      /\ twice' = twice
  BY Zenon DEF Advance
<1>2. Fits(model)
  BY GraphsFit DEF KernelInv
<1>3. node' \in 1..(Len(Graph[model]) + 1)
  BY <1>1, <1>2 DEF KernelInv, Inferring, Fits
<1>4. ASSUME Inferring' PROVE KernelCalled'
  <2>1. node' \in 1..Len(Graph[model])
    BY <1>1, <1>2, <1>3, <1>4 DEF Inferring, Fits
  <2>2. Len(Kernel'.rows) \in Nat
    BY <1>1, <2>1, NodeCalls DEF KernelInv, Kernel, Node
  <2>3. 1..0 = {}
    OBVIOUS
  <2>4. made' = UNION {DOMAIN Kernel'.rows[r] : r \in 1..row'}
    BY <1>1, <2>3
  <2>5. \A i \in made' : Holds(Node.id, i)'
    BY <1>1
  <2>6. row' \in 0..Len(Kernel'.rows)
    BY <1>1, <2>2
  <2> QED BY <1>1, <2>4, <2>5, <2>6 DEF KernelCalled
<1>5. AllReturned' \/ Inferring'
  BY <1>1 DEF AllReturned
<1>6. twice' \in BOOLEAN /\ ~twice'
  BY <1>1, Zenon DEF KernelInv
<1> QED BY <1>1, <1>3, <1>4, <1>5, <1>6

LEMMA IterateStep == ASSUME KernelInv, Iterate PROVE KernelInv'
<1> DEFINE id == Graph[model][node].id
           s  == StorageOf(model, id)
           k  == Graph[model][node].kernel
           b  == Before(model, node)
           new == k.rows[row + 1]
<1>1. /\ model \in Models /\ Fits(model) /\ Len(Graph[model]) \in Nat
      /\ node \in 1..Len(Graph[model]) /\ Inferring
  <2>1. model \in Models /\ Fits(model)
    BY GraphsFit DEF KernelInv
  <2> QED BY <2>1 DEF Iterate, KernelInv, Fits, Inferring
<1>2. /\ row' = row + 1 /\ got' = new /\ made' = made \union DOMAIN new
      /\ model' = model /\ node' = node /\ workspace' = workspace /\ failed' = failed
  <2>1. row' = row + 1 /\ got' = new
    BY DEF Iterate, Kernel, Node
  <2>2. made' = made \union DOMAIN got'
    BY Zenon DEF Iterate
  <2> QED BY <2>1, <2>2 DEF Iterate
<1>3. storage' = [storage EXCEPT ![s] =
                    [i \in DOMAIN storage[s] |-> IF i \in DOMAIN new THEN id ELSE storage[s][i]]]
  BY <1>2, Zenon DEF Iterate, Node
<1>4. row \in 0..Len(k.rows) /\ row < Len(k.rows) /\ KernelCalled
  BY <1>1 DEF KernelInv, Iterate, KernelCalled, Kernel, Node
<1>5. CallsKernel(model, node)
  <2>1. k.rows # << >>
    <3>1. Len(<< >>) = 0
      OBVIOUS
    <3>2. Len(k.rows) # 0
      BY <1>1, <1>4, NodeCalls
    <3> QED BY <3>1, <3>2
  <2> QED BY <1>1, <2>1, NodeCalls
<1>6. Tiles(k) /\ k.out = Entry(model, id) /\ s # StorageOf(model, b)
  BY <1>5 DEF CallsKernel, Right
<1>7. /\ s \in Storages(model) /\ StorageOf(model, b) \in Storages(model)
      /\ Entry(model, id) \subseteq Room(model, s)
  BY <1>1, NodeFits
<1>8. /\ DOMAIN storage = Storages(model)
      /\ \A p \in Storages(model) : DOMAIN storage[p] = Room(model, p)
  BY DEF KernelInv
<1> HIDE DEF id, s, k, b, new
<1>9. row + 1 \in 1..Len(k.rows) /\ row' \in 0..Len(k.rows) /\ row \in Nat
  BY <1>2, <1>4, <1>6 DEF Tiles
<1>10. DOMAIN new \subseteq Entry(model, id)
  BY <1>6, <1>9 DEF Tiles, new
<1>11. /\ DOMAIN storage' = Storages(model)
       /\ storage'[StorageOf(model, b)] = storage[StorageOf(model, b)]
       /\ DOMAIN storage'[s] = Room(model, s)
       /\ \A i \in Room(model, s) :
            storage'[s][i] = IF i \in DOMAIN new THEN id ELSE storage[s][i]
       /\ \A p \in Storages(model) : DOMAIN storage'[p] = Room(model, p)
  BY <1>3, <1>6, <1>7, <1>8
<1>12. Kernel = k /\ Node.id = id /\ Kernel' = k /\ Node'.id = id
  BY <1>2 DEF Kernel, Node, k, id
<1>13. KernelCalled'
  <2>1. made = UNION {DOMAIN k.rows[r] : r \in 1..row} /\ (workspace => k.heap)
    BY <1>4, <1>12 DEF KernelCalled
  <2>2. made' = UNION {DOMAIN k.rows[r] : r \in 1..row'}
    <3>1. 1..(row + 1) = (1..row) \union {row + 1}
      BY <1>9
    <3>2. made' = made \union DOMAIN k.rows[row + 1]
      BY <1>2 DEF new
    <3> QED BY <1>2, <2>1, <3>1, <3>2
  <2>3. ASSUME NEW i \in made' PROVE i \in Entry(model, id) /\ storage'[s][i] = id
    <3>1. CASE i \in DOMAIN new
      BY <1>7, <1>10, <1>11, <3>1
    <3>2. CASE i \notin DOMAIN new
      <4>1. i \in made
        BY <1>2, <2>3, <3>2
      <4>2. i \in Entry(model, id) /\ storage[s][i] = id
        BY <1>4, <1>12, <4>1 DEF KernelCalled, Holds, s
      <4> QED BY <1>7, <1>11, <3>2, <4>2
    <3> QED BY <3>1, <3>2
  <2>4. \A i \in made' : Holds(Node.id, i)'
    BY <1>2, <1>12, <2>3 DEF Holds, s
  <2>5. row' \in 1..Len(k.rows) /\ got' = k.rows[row']
    BY <1>2, <1>9 DEF new
  <2>6. row' \in 0..Len(k.rows) /\ (workspace' => k.heap)
    BY <1>2, <1>9, <2>1
  <2> QED BY <1>12, <2>2, <2>4, <2>5, <2>6 DEF KernelCalled
<1>14. twice' \in BOOLEAN /\ ~twice'
  <2>1. made \intersect DOMAIN new = {}
    <3> SUFFICES ASSUME NEW o \in made, o \in DOMAIN new PROVE FALSE
      OBVIOUS
    <3>1. PICK r \in 1..row : o \in DOMAIN k.rows[r]
      BY <1>4, <1>12 DEF KernelCalled
    <3>2. r \in 1..Len(k.rows) /\ r # row + 1
      BY <1>4, <1>9, <1>6 DEF Tiles
    <3>3. o \in DOMAIN k.rows[r] \intersect DOMAIN k.rows[row + 1]
      BY <3>1 DEF new
    <3> QED BY <1>6, <1>9, <3>2, <3>3 DEF Tiles
  <2>2. twice' = (twice \/ made \intersect DOMAIN got' # {})
    BY Zenon DEF Iterate
  <2> QED BY <1>2, <2>1, <2>2, Zenon DEF KernelInv
<1>15. failed' \/ HeldIn(storage', model, b)
  <2>1. CASE failed
    BY <1>2, <2>1, Zenon
  <2>2. CASE HeldIn(storage, model, b)
    BY <1>11, <2>2 DEF HeldIn
  <2> QED BY <2>1, <2>2 DEF KernelInv, b
<1>16. Before(model', node') = b
  BY <1>2 DEF b
<1>17. failed' \/ HeldIn(storage', model', Before(model', node'))
  BY <1>2, <1>15, <1>16, Zenon
<1>18. Inferring'
  BY <1>1, <1>2 DEF Inferring
<1>19. /\ model' \in Models /\ node' \in 1..(Len(Graph[model']) + 1)
       /\ workspace' \in BOOLEAN /\ failed' \in BOOLEAN
  BY <1>1, <1>2, Zenon DEF KernelInv
<1>20. /\ DOMAIN storage' = Storages(model')
       /\ \A p \in Storages(model') : DOMAIN storage'[p] = Room(model', p)
  BY <1>2, <1>11, Zenon
<1> QED BY <1>13, <1>14, <1>17, <1>18, <1>19, <1>20, Zenon DEF KernelInv

LEMMA ReturnStep == ASSUME KernelInv, Return PROVE KernelInv'
<1> DEFINE id == Graph[model][node].id
           k  == Graph[model][node].kernel
<1>1. model \in Models /\ node \in 1..Len(Graph[model]) /\ Inferring
  <2>1. model \in Models /\ Fits(model)
    BY GraphsFit DEF KernelInv
  <2> QED BY <2>1 DEF Return, KernelInv, Fits, Inferring
<1>2. Advance /\ workspace' = FALSE /\ storage' = storage /\ failed' = failed
  BY Zenon DEF Return
<1>3. /\ model' = model /\ node' \in 1..(Len(Graph[model]) + 1) /\ node' = node + 1
      /\ twice' \in BOOLEAN /\ ~twice'
      /\ Inferring' => KernelCalled'
      /\ ~Inferring' => AllReturned'
  BY <1>1, <1>2, Advances
<1>4. CallsKernel(model, node)
  <2>1. k.rows # << >>
    BY DEF Return, Kernel, Node
  <2> QED BY <1>1, <2>1, NodeCalls
<1>5. Tiles(k) /\ k.out = Entry(model, id)
  BY <1>4 DEF CallsKernel, Right
<1>6. KernelCalled /\ row = Len(k.rows) /\ Kernel = k /\ Node.id = id
  BY <1>1 DEF KernelInv, Return, Done, Kernel, Node
<1> HIDE DEF id, k
<1>7. made = UNION {DOMAIN k.rows[r] : r \in 1..Len(k.rows)} /\ \A i \in made : Holds(id, i)
  BY <1>6 DEF KernelCalled
<1>8. HeldIn(storage, model, id)
  <2>1. ASSUME NEW i \in Entry(model, id) PROVE storage[StorageOf(model, id)][i] = id
    <3>1. PICK r \in 1..Len(k.rows) : i \in DOMAIN k.rows[r]
      BY <1>5, <2>1 DEF Tiles
    <3>2. i \in made
      BY <1>7, <3>1
    <3> QED BY <1>7, <3>2 DEF Holds
  <2> QED BY <2>1 DEF HeldIn
<1>9. HeldIn(storage', model', Before(model', node'))
  <2>1. Before(model, node + 1) = id
    BY <1>1, NodeFits DEF id
  <2> QED BY <1>2, <1>3, <1>8, <2>1
<1>10. /\ DOMAIN storage' = Storages(model')
       /\ \A p \in Storages(model') : DOMAIN storage'[p] = Room(model', p)
  BY <1>2, <1>3, Zenon DEF KernelInv
<1>11. /\ model' \in Models /\ node' \in 1..(Len(Graph[model']) + 1)
       /\ workspace' \in BOOLEAN /\ failed' \in BOOLEAN
  BY <1>1, <1>2, <1>3, Zenon DEF KernelInv
<1> QED BY <1>3, <1>9, <1>10, <1>11, Zenon DEF KernelInv

LEMMA SkipStep == ASSUME KernelInv, Skip PROVE KernelInv'
<1> DEFINE id == Graph[model][node].id
           s  == StorageOf(model, id)
           b  == Before(model, node)
<1>1. model \in Models /\ node \in 1..Len(Graph[model]) /\ Inferring
  <2>1. model \in Models /\ Fits(model)
    BY GraphsFit DEF KernelInv
  <2> QED BY <2>1 DEF Skip, KernelInv, Fits, Inferring
<1>2. PassesOn(model, node) /\ Graph[model][node].inputs[1] = b
  <2>1. Graph[model][node].kernel.rows = << >>
    BY DEF Skip, Kernel, Node
  <2> QED BY <1>1, <2>1, NodeCalls
<1>3. workspace = FALSE
  <2>1. Kernel.heap = FALSE
    BY <1>2 DEF PassesOn, nop, Kernel, Node
  <2>2. workspace => Kernel.heap
    BY <1>1 DEF KernelInv, KernelCalled
  <2> QED BY <2>1, <2>2, Zenon DEF KernelInv
<1>4. Advance /\ workspace' = FALSE /\ failed' = failed
  BY <1>3, Zenon DEF Skip
<1>5. /\ model' = model /\ node' \in 1..(Len(Graph[model]) + 1) /\ node' = node + 1
      /\ twice' \in BOOLEAN /\ ~twice'
      /\ Inferring' => KernelCalled'
      /\ ~Inferring' => AllReturned'
  BY <1>1, <1>4, Advances
<1>6. storage' = [storage EXCEPT ![s] =
                    [i \in DOMAIN storage[s] |-> IF storage[s][i] = b THEN id ELSE storage[s][i]]]
  BY <1>2, Zenon DEF Skip, Node
<1>7. /\ s \in Storages(model) /\ Entry(model, id) \subseteq Room(model, s)
      /\ Before(model, node + 1) = id
  BY <1>1, NodeFits
<1>8. s = StorageOf(model, b) /\ Entry(model, id) = Entry(model, b)
  BY <1>2 DEF PassesOn
<1>9. /\ DOMAIN storage = Storages(model)
      /\ \A p \in Storages(model) : DOMAIN storage[p] = Room(model, p)
      /\ failed \/ HeldIn(storage, model, b)
  BY DEF KernelInv
<1> HIDE DEF id, s, b
<1>10. /\ DOMAIN storage' = Storages(model)
       /\ \A p \in Storages(model) : DOMAIN storage'[p] = Room(model, p)
       /\ \A i \in Room(model, s) :
            storage'[s][i] = IF storage[s][i] = b THEN id ELSE storage[s][i]
  BY <1>6, <1>7, <1>9
<1>11. ASSUME HeldIn(storage, model, b) PROVE HeldIn(storage', model, id)
  <2>1. ASSUME NEW i \in Entry(model, id) PROVE storage'[s][i] = id
    <3>1. storage[s][i] = b
      BY <1>8, <1>11 DEF HeldIn
    <3> QED BY <1>7, <1>10, <3>1
  <2> QED BY <2>1 DEF HeldIn, s
<1>12. failed' \/ HeldIn(storage', model', Before(model', node'))
  BY <1>4, <1>5, <1>7, <1>9, <1>11, Zenon
<1>13. /\ model' \in Models /\ node' \in 1..(Len(Graph[model']) + 1)
       /\ workspace' \in BOOLEAN /\ failed' \in BOOLEAN
  BY <1>1, <1>4, <1>5, Zenon DEF KernelInv
<1>14. /\ DOMAIN storage' = Storages(model')
       /\ \A p \in Storages(model') : DOMAIN storage'[p] = Room(model', p)
  BY <1>5, <1>10, Zenon
<1> QED BY <1>5, <1>12, <1>13, <1>14, Zenon DEF KernelInv

LEMMA WorkspaceStep == ASSUME KernelInv, TakeWorkspace \/ NoWorkspace PROVE KernelInv'
<1>1. CASE TakeWorkspace
  <2>1. /\ workspace' = TRUE /\ Kernel.heap /\ Inferring
        /\ UNCHANGED <<model, node, row, storage, made, twice, got, failed>>
    BY <1>1, Zenon DEF TakeWorkspace
  <2>2. KernelCalled
    BY <2>1, Zenon DEF KernelInv
  <2>3. KernelCalled'
    BY <2>1, <2>2 DEF KernelCalled, Kernel, Node, Holds
  <2>4. Inferring'
    BY <2>1 DEF Inferring
  <2>5. /\ DOMAIN storage' = Storages(model')
        /\ \A p \in Storages(model') : DOMAIN storage'[p] = Room(model', p)
        /\ failed' \/ HeldIn(storage', model', Before(model', node'))
        /\ model' \in Models /\ node' \in 1..(Len(Graph[model']) + 1)
        /\ twice' \in BOOLEAN /\ ~twice' /\ failed' \in BOOLEAN
    BY <2>1, Zenon DEF KernelInv
  <2> QED BY <2>1, <2>3, <2>4, <2>5, Zenon DEF KernelInv
<1>2. CASE NoWorkspace
  <2>1. Inferring /\ Advance /\ failed' = TRUE /\ workspace' = workspace /\ storage' = storage
    BY <1>2, Zenon DEF NoWorkspace
  <2>2. workspace' = FALSE
    BY <1>2, <2>1, Zenon DEF NoWorkspace, KernelInv
  <2>3. /\ model' = model /\ node' \in 1..(Len(Graph[model]) + 1)
        /\ twice' \in BOOLEAN /\ ~twice'
        /\ Inferring' => KernelCalled'
        /\ ~Inferring' => AllReturned'
    BY <2>1, <2>2, Advances
  <2>4. /\ DOMAIN storage' = Storages(model')
        /\ \A p \in Storages(model') : DOMAIN storage'[p] = Room(model', p)
    BY <2>1, <2>3, Zenon DEF KernelInv
  <2>5. model' \in Models /\ node' \in 1..(Len(Graph[model']) + 1)
    BY <2>3, Zenon DEF KernelInv
  <2> QED BY <2>1, <2>2, <2>3, <2>4, <2>5, Zenon DEF KernelInv
<1> QED BY <1>1, <1>2

LEMMA LoadInputStep == ASSUME KernelInv, LoadInputAndRun PROVE KernelInv'
<1>1. /\ node' = 1 /\ failed' = FALSE /\ ~Inferring
      /\ UNCHANGED <<model, row, made, twice, got, workspace>>
  BY Zenon DEF LoadInputAndRun
<1>2. model \in Models /\ Fits(model) /\ AllReturned
  BY <1>1, GraphsFit DEF KernelInv
<1>3. Len(Graph[model]) \in Nat \ {0} /\ 1 \in 1..Len(Graph[model])
      /\ 1 \in 1..(Len(Graph[model]) + 1) /\ Inferring'
  BY <1>1, <1>2 DEF Fits, Inferring
<1>4. KernelCalled'
  <2>1. Len(Kernel'.rows) \in Nat
    BY <1>1, <1>2, <1>3, NodeCalls DEF Kernel, Node
  <2>2. 1..0 = {}
    OBVIOUS
  <2>3. row' = 0 /\ ~workspace' /\ got' = <<>> /\ made' = {}
    BY <1>1, <1>2, Zenon DEF AllReturned
  <2>4. made' = UNION {DOMAIN Kernel'.rows[r] : r \in 1..row'}
    BY <2>2, <2>3
  <2>5. row' \in 0..Len(Kernel'.rows)
    BY <2>1, <2>3
  <2>6. \A i \in made' : Holds(Node.id, i)'
    BY <2>3
  <2> QED BY <2>3, <2>4, <2>5, <2>6 DEF KernelCalled
<1>5. /\ DOMAIN storage = Storages(model)
      /\ \A s \in Storages(model) : DOMAIN storage[s] = Room(model, s)
  BY DEF KernelInv
<1>6. StorageOf(model, 0) \in Storages(model)
  BY DEF Storages
<1>7. /\ DOMAIN storage' = Storages(model)
      /\ \A s \in Storages(model) : DOMAIN storage'[s] = Room(model, s)
      /\ \A i \in Room(model, StorageOf(model, 0)) : storage'[StorageOf(model, 0)][i] = 0
  BY <1>5, <1>6 DEF LoadInputAndRun
<1>8. HeldIn(storage', model, 0)
  <2>1. Entry(model, 0) \subseteq Room(model, StorageOf(model, 0))
    BY <1>2 DEF Fits, Room
  <2> QED BY <1>7, <2>1 DEF HeldIn
<1>9. HeldIn(storage', model', Before(model', node'))
  <2>1. Before(model', node') = 0
    BY <1>1 DEF Before
  <2> QED BY <1>1, <1>8, <2>1
<1>10. /\ model' \in Models /\ node' \in 1..(Len(Graph[model']) + 1)
       /\ twice' \in BOOLEAN /\ ~twice' /\ workspace' \in BOOLEAN /\ failed' \in BOOLEAN
  BY <1>1, <1>2, <1>3, Zenon DEF KernelInv
<1>11. /\ DOMAIN storage' = Storages(model')
       /\ \A p \in Storages(model') : DOMAIN storage'[p] = Room(model', p)
  BY <1>1, <1>7, Zenon
<1> QED BY <1>3, <1>4, <1>9, <1>10, <1>11, Zenon DEF KernelInv

\* An untaken step keeps KernelInv, and so does every step of the kernels.
LEMMA KernelStep == KernelInv /\ [KernelNext]_kernelVars => KernelInv'
<1> SUFFICES ASSUME KernelInv, [KernelNext]_kernelVars PROVE KernelInv'
  OBVIOUS
<1>1. CASE KernelNext
  BY <1>1, IterateStep, ReturnStep, SkipStep, WorkspaceStep, LoadInputStep DEF KernelNext
<1>2. CASE UNCHANGED kernelVars
  <2>1. /\ model' = model /\ node' = node /\ row' = row /\ storage' = storage
        /\ made' = made /\ twice' = twice /\ got' = got /\ workspace' = workspace
        /\ failed' = failed
    BY <1>2 DEF kernelVars
  <2>2. (Inferring' <=> Inferring) /\ (KernelCalled' <=> KernelCalled)
        /\ (AllReturned' <=> AllReturned)
    BY <2>1 DEF Inferring, KernelCalled, AllReturned, Kernel, Node, Holds
  <2> QED BY <2>1, <2>2, Zenon DEF KernelInv
<1> QED BY <1>1, <1>2

\* What the kernel the inference has come to has written lies in its output, and is all of it
\* once the kernel has done its rows.
LEMMA MadeFits ==
  ASSUME KernelInv, Inferring
  PROVE  /\ model \in Models /\ node \in 1..Len(Graph[model])
         /\ made \subseteq Entry(model, Node.id)
         /\ Entry(model, Node.id) \subseteq DOMAIN storage[StorageOf(model, Node.id)]
         /\ Done => made = Kernel.out
<1>1. model \in Models /\ node \in 1..Len(Graph[model]) /\ KernelCalled
  <2>1. model \in Models /\ Fits(model)
    BY GraphsFit DEF KernelInv
  <2> QED BY <2>1 DEF KernelInv, Fits, Inferring
<1>2. Entry(model, Node.id) \subseteq DOMAIN storage[StorageOf(model, Node.id)]
  BY <1>1, NodeFits DEF KernelInv, Node
<1>3. made = UNION {DOMAIN Kernel.rows[r] : r \in 1..row} /\ row \in 0..Len(Kernel.rows)
  BY <1>1 DEF KernelCalled
<1>4. CASE Kernel.rows # << >>
  <2>1. CallsKernel(model, node)
    BY <1>1, <1>4, NodeCalls DEF Kernel, Node
  <2>2. Tiles(Kernel) /\ Kernel.out = Entry(model, Node.id)
    BY <2>1 DEF CallsKernel, Right, Kernel, Node
  <2>3. made \subseteq Kernel.out
    BY <1>3, <2>2 DEF Tiles
  <2>4. Done => made = Kernel.out
    BY <1>3, <2>2, <2>3 DEF Tiles, Done
  <2> QED BY <1>1, <1>2, <2>2, <2>3, <2>4
<1>5. CASE Kernel.rows = << >>
  <2>1. Kernel = nop
    BY <1>1, <1>5, NodeCalls DEF Kernel, Node, PassesOn
  <2>2. Len(Kernel.rows) = 0 /\ Kernel.out = {}
    BY <2>1 DEF nop
  <2>3. made = {}
    BY <1>3, <2>2
  <2> QED BY <1>1, <1>2, <2>2, <2>3
<1> QED BY <1>4, <1>5

\* Whichever of the models are run, every variable keeps to its type: a kernel writes no further
\* than its output, and its output has room in the storage the graph gives it, whose size is that
\* of the largest output that lies in it (magic-wand-graph.json:18-225, sine.c, magic_wand.c).
THEOREM KernelTypes == KernelSpec => []KernelTypeOK
<1>1. ASSUME KernelInv PROVE KernelTypeOK
  <2>1. CASE Inferring
    <3>1. KernelCalled
      BY <1>1, <2>1, Zenon DEF KernelInv
    <3>2. row \in 0..Len(Kernel.rows) /\ (workspace => Kernel.heap)
      BY <3>1 DEF KernelCalled
    <3>3. /\ made \subseteq Entry(model, Node.id)
          /\ Entry(model, Node.id) \subseteq DOMAIN storage[StorageOf(model, Node.id)]
      BY <1>1, <2>1, MadeFits
    <3> QED BY <1>1, <2>1, <3>2, <3>3, Zenon DEF KernelInv, KernelTypeOK
  <2>2. CASE ~Inferring
    BY <1>1, <2>2, Zenon DEF KernelInv, AllReturned, KernelTypeOK
  <2> QED BY <2>1, <2>2
<1> QED BY <1>1, KernelInvInit, KernelStep, PTL DEF KernelSpec

\* What an iteration reads lies in the storage of the node before, written in this inference, or
\* in that of the kernel's parameters.
LEMMA ReadsHold ==
  ASSUME KernelInv, Inferring, NEW o \in DOMAIN got
  PROVE  /\ got[o] = Kernel.sum[o]
         /\ ~failed => \A t \in got[o] :
              /\ t[1] # NoIndex => Holds(Node.inputs[1], t[1])
              /\ (t[1] # NoIndex /\ t[2] # NoIndex) => Loaded(Node.inputs[2], t[2])
              /\ t[1] = NoIndex => Loaded(Node.inputs[3], t[2])
<1>1. model \in Models /\ node \in 1..Len(Graph[model]) /\ KernelCalled
  BY MadeFits DEF KernelInv
<1>2. row \in 1..Len(Kernel.rows) /\ got = Kernel.rows[row]
  <2>1. got # <<>>
    <3>1. DOMAIN <<>> = {}
      OBVIOUS
    <3> QED BY <3>1
  <2> QED BY <1>1, <2>1 DEF KernelCalled
<1>3. CallsKernel(model, node) /\ Node.inputs[1] = Before(model, node)
  <2>1. Kernel.rows # << >>
    <3>1. Len(<< >>) = 0
      OBVIOUS
    <3>2. Len(Kernel.rows) # 0
      BY <1>1, <1>2, NodeCalls DEF Kernel, Node
    <3> QED BY <3>1, <3>2
  <2> QED BY <1>1, <2>1, NodeCalls DEF Kernel, Node
<1>4. Right(Kernel)
  BY <1>3 DEF CallsKernel, Kernel, Node
<1>5. o \in Kernel.out /\ got[o] = Kernel.sum[o]
  BY <1>2, <1>4 DEF Right, Tiles, Sums
<1>6. DOMAIN storage = Storages(model)
  BY DEF KernelInv
<1>7. ASSUME ~failed, NEW t \in got[o]
      PROVE  /\ t[1] # NoIndex => Holds(Node.inputs[1], t[1])
             /\ (t[1] # NoIndex /\ t[2] # NoIndex) => Loaded(Node.inputs[2], t[2])
             /\ t[1] = NoIndex => Loaded(Node.inputs[3], t[2])
  <2>1. InBounds(Kernel, t)
    BY <1>4, <1>5, <1>7 DEF Right, Reads
  <2>2. t[1] # NoIndex => Holds(Node.inputs[1], t[1])
    <3>1. Kernel.in = Entry(model, Before(model, node))
      BY <1>3 DEF CallsKernel, Kernel, Node
    <3>2. HeldIn(storage, model, Before(model, node))
      BY <1>7, Zenon DEF KernelInv
    <3> QED BY <1>3, <2>1, <3>1, <3>2 DEF InBounds, HeldIn, Holds
  <2>3. (t[1] # NoIndex /\ t[2] # NoIndex) => Loaded(Node.inputs[2], t[2])
    <3>1. \/ Kernel.weights = {}
          \/ /\ Kernel.weights = Entry(model, Node.inputs[2])
             /\ StorageOf(model, Node.inputs[2]) \notin Storages(model)
      BY <1>3 DEF CallsKernel, Kernel, Node
    <3> QED BY <1>6, <2>1, <3>1 DEF InBounds, Loaded
  <2>4. t[1] = NoIndex => Loaded(Node.inputs[3], t[2])
    <3>1. \/ Kernel.biases = {}
          \/ /\ Kernel.biases = Entry(model, Node.inputs[3])
             /\ StorageOf(model, Node.inputs[3]) \notin Storages(model)
      BY <1>3 DEF CallsKernel, Kernel, Node
    <3> QED BY <1>6, <2>1, <3>1 DEF InBounds, Loaded
  <2> QED BY <2>2, <2>3, <2>4
<1> QED BY <1>5, <1>7

\* The kernels compute their layers, whichever of the models are run: every output is what its
\* definition asks for, and is written once; unless a kernel has failed, they read what this
\* inference has written and what was loaded, though nodes share storage, a __nop is not called
\* and the inference before may have failed (sine.c:67-98, magic_wand.c:133-177, 349-381,
\* magic-wand-graph.json:18-225).  That each kernel does its part rests on the lemmas DenseRight,
\* ConvRight, PoolRight, ElementwiseRight and SoftmaxRight, which hold for every size of a layer.
THEOREM KernelsAreRight == KernelSpec => []KernelsComputeTheLayer
<1>1. ASSUME KernelInv PROVE KernelsComputeTheLayer
  <2>1. ASSUME NEW o \in DOMAIN got
        PROVE  /\ got[o] = Kernel.sum[o]
               /\ ~failed => \A t \in got[o] :
                    /\ t[1] # NoIndex => Holds(Node.inputs[1], t[1])
                    /\ (t[1] # NoIndex /\ t[2] # NoIndex) => Loaded(Node.inputs[2], t[2])
                    /\ t[1] = NoIndex => Loaded(Node.inputs[3], t[2])
    <3>1. Inferring
      <4>1. DOMAIN <<>> = {}
        OBVIOUS
      <4>2. got # <<>>
        BY <2>1, <4>1
      <4> QED BY <1>1, <4>2, Zenon DEF KernelInv, AllReturned
    <3> QED BY <1>1, <3>1, ReadsHold
  <2>2. (Inferring /\ Done) => made = Kernel.out
    BY <1>1, MadeFits
  <2>3. ASSUME ~failed, ~Inferring,
               NEW i \in Entry(model, Graph[model][Len(Graph[model])].id)
        PROVE  Holds(Graph[model][Len(Graph[model])].id, i)
    <3>1. Fits(model) /\ model \in Models /\ HeldIn(storage, model, Before(model, node))
      BY <1>1, <2>3, GraphsFit, Zenon DEF KernelInv
    <3>2. Len(Graph[model]) \in Nat \ {0} /\ node = Len(Graph[model]) + 1
      BY <1>1, <2>3, <3>1 DEF KernelInv, Inferring, Fits
    <3>3. Before(model, node) = Graph[model][Len(Graph[model])].id
      BY <3>1, <3>2, NodeFits
    <3> QED BY <2>3, <3>1, <3>3 DEF HeldIn, Holds
  <2>4. ~twice
    BY <1>1, Zenon DEF KernelInv
  <2> QED BY <2>1, <2>2, <2>3, <2>4, Zenon DEF KernelsComputeTheLayer
<1> QED BY <1>1, KernelInvInit, KernelStep, PTL DEF KernelSpec

----------------------------------------------------------------------------
(* The board *)

\* A step of the board is one of the image that is flashed, and leaves the other programs alone.
LEMMA ImageStep ==
  ASSUME [Next]_vars
  PROVE  /\ [KernelNext]_kernelVars
         /\ [RingNext]_ringVars
         /\ [SmpNext]_smpVars
         /\ [DemoNext]_demoVars
         /\ [LinkNext]_linkVars
         /\ [SampleNext]_sampleVars
         /\ [EmissionNext]_emissionVars
         /\ [UsbNext]_usbVars
<1> USE DEF Flashed
<1>1. CASE Flashed("kernels") /\ KernelNext
  BY <1>1
<1>2. CASE Flashed("smp") /\ RingNext
  BY <1>2
<1>3. CASE Flashed("smp_tvm") /\ SmpNext
  BY <1>3
<1>4. CASE Flashed("demo") /\ DemoNext
  BY <1>4
<1>5. CASE Flashed("micro_speech") /\ LinkNext
  BY <1>5
<1>6. CASE Flashed("models") /\ SampleNext
  BY <1>6
<1>7. CASE Flashed("emission") /\ EmissionNext
  BY <1>7
<1>8. CASE Flashed("usb") /\ UsbNext
  BY <1>8
<1>9. CASE UNCHANGED vars
  BY <1>9 DEF vars
<1> QED BY <1>1, <1>2, <1>3, <1>4, <1>5, <1>6, <1>7, <1>8, <1>9 DEF Next

\* The board runs every program as its specification says, be it flashed or not.
LEMMA BoardRunsPrograms ==
  Spec => /\ KernelSpec
          /\ RingSpec
          /\ SmpSpec
          /\ DemoSpec
          /\ LinkSpec
          /\ SampleSpec
          /\ EmissionSpec
          /\ UsbSpec
<1>1. Init => KernelInit /\ RingInit /\ SmpInit /\ DemoInit
               /\ LinkInit /\ SampleInit /\ EmissionInit /\ UsbInit
  BY DEF Init
<1>2. [Next]_vars => /\ [KernelNext]_kernelVars
                     /\ [RingNext]_ringVars
                     /\ [SmpNext]_smpVars
                     /\ [DemoNext]_demoVars
                     /\ [LinkNext]_linkVars
                     /\ [SampleNext]_sampleVars
                     /\ [EmissionNext]_emissionVars
                     /\ [UsbNext]_usbVars
  BY ImageStep
<1> QED BY <1>1, <1>2, PTL
        DEF Spec, KernelSpec, RingSpec, SmpSpec, DemoSpec, LinkSpec, SampleSpec, EmissionSpec,
            UsbSpec

\* Whatever is flashed, and for all sizes of it, every variable of the programs keeps to its
\* type; a kernel writes no further than its output, and the setup of the USB backend leaves
\* nothing out (the main functions of src/samples, usb_backend.c:109-199, zpl.c:32-51).
THEOREM BoardTypes == Spec => []SamplesTypeOK
<1>1. Spec => /\ []KernelTypeOK /\ []RingTypeOK /\ []SmpTypeOK /\ []DemoTypeOK
              /\ []LinkTypeOK /\ []SampleTypeOK /\ []EmissionTypeOK /\ []UsbTypeOK
  BY BoardRunsPrograms, KernelTypes, RingTypes, WorkerTypes, DemoTypes, LinkSpecType,
     SampleTypes, EmissionTypes, SetupLeavesNothingOut
<1>2. (/\ KernelTypeOK /\ RingTypeOK /\ SmpTypeOK /\ DemoTypeOK
       /\ LinkTypeOK /\ SampleTypeOK /\ EmissionTypeOK /\ UsbTypeOK) => SamplesTypeOK
  BY DEF SamplesTypeOK
<1> QED BY <1>1, <1>2, PTL

\* What was proved of each program holds of the board that runs one of them: the worker's input
\* is stable, the window the latest, the arenas disjoint, the switch restored, no model is run
\* that is not loaded and fed, the kernels compute their layers, the link loses what was lost
\* and no more, and the events of the profiler are in order (the main functions of src/samples,
\* src/zpl).
THEOREM BoardIsSafe ==
  Spec => /\ []KernelsComputeTheLayer /\ []InputStable /\ []WindowIsLatest /\ []ArenasDisjoint
          /\ []OnlyFedModelsRun /\ []SwitchRestored
          /\ LinkImplementsPipe /\ Stream0InOrder
BY BoardRunsPrograms, KernelsAreRight, InputsAreStable, WindowsAreLatest, ArenasAreDisjoint,
   ModelsAreFed, SwitchIsRestored, LinkIsAPipe, Stream0IsInOrder
=============================================================================
