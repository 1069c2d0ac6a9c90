---------------------------- MODULE ModelSamples -----------------------------
(***************************************************************************)
(* The samples that run models in a loop, and the helpers they use to load *)
(* and run them: tflm_model.cpp for TensorFlow Lite Micro, which cuts the  *)
(* arenas of all models out of one buffer, and tvm_model.c for microTVM.   *)
(* Every call reports a status, and what a sample does about a failure     *)
(* differs: Programs lists the calls of each, and where an iteration       *)
(* computes the input that a later call hands over.                        *)
(*                                                                         *)
(* Sizes are in units of the smallest arena that matters: the buffer has   *)
(* room for an arena of the size the samples ask for (15500 bytes) and a   *)
(* little more.                                                            *)
(***************************************************************************)
EXTENDS Integers, Sequences

CONSTANTS
  BufferSize,   \* CONFIG_ZPL_SAMPLE_TFLM_BUFFER_SIZE * 1024
  FirstArena,   \* the 15500 bytes the first of two models gets
  Iterations    \* iterations of the samples' loops

ASSUME SampleAssumption == BufferSize \in Nat /\ FirstArena \in Nat /\ Iterations \in Nat

LoadM(m, size) == [op |-> "load", model |-> m, size |-> size]   \* size 0: all that is left
Compute(x)     == [op |-> "compute", input |-> x]
InputM(m, x)   == [op |-> "input", model |-> m, input |-> x]     \* x is the variable passed
RunM(m)        == [op |-> "run", model |-> m]
OutputM(m)     == [op |-> "output", model |-> m]
InitTVM        == [op |-> "init", model |-> "tvm0", size |-> 0]
InitTVMUnchecked == [op |-> "init unchecked", model |-> "tvm0", size |-> 0]

----------------------------------------------------------------------------
(* The samples: what they do once (a failure ends them), the groups of calls of an          *)
(* iteration, and whether a failure there leaves the loop or only its group                 *)

tflm_inference ==
  [setup |-> <<LoadM("tflm0", 0)>>,
   loop |-> << <<Compute("model_input"), InputM("tflm0", "model_input"), RunM("tflm0")>> >>,
   leaves |-> "loop"]
two_models_node_0 == tflm_inference
two_models_node_1 == tflm_inference

\* The input is all zeros in every iteration.
tflm_delayed_emission ==
  [setup |-> <<LoadM("tflm0", 0)>>,
   loop |-> << <<InputM("tflm0", "model_input"), RunM("tflm0")>> >>, leaves |-> "loop"]

\* main calls loop(), which returns on a failure; main goes on with the next iteration.
tflm_instrumentation ==
  [setup |-> <<LoadM("tflm0", 0)>>,
   loop |-> << <<Compute("model_input_q"), InputM("tflm0", "model_input_q"), RunM("tflm0"),
                 OutputM("tflm0")>> >>,
   leaves |-> "group"]

tflm_multi_model ==
  [setup |-> <<LoadM("tflm0", FirstArena), LoadM("tflm1", 0)>>,
   loop |-> << <<Compute("model0_input"), InputM("tflm0", "model0_input"), RunM("tflm0"),
                 Compute("model1_input_q"), InputM("tflm1", "model1_input_q"), RunM("tflm1")>> >>,
   leaves |-> "loop"]

\* The break is that of an inner loop over the models of one kind.  The loop over the microTVM
\* models computes one variable and hands over another.
tflm_tvm_models ==
  LET computed == "model1_input_q"
      passed   == "model_int8_input"
  IN [setup |-> <<LoadM("tflm0", FirstArena), LoadM("tflm1", 0), InitTVMUnchecked,
                  LoadM("tvm0", 0), LoadM("tvm1", 0)>>,
      loop |-> << <<Compute(computed), InputM("tflm0", computed), RunM("tflm0"),
                    Compute(computed), InputM("tflm1", computed), RunM("tflm1")>>,
                  <<Compute(computed), InputM("tvm0", passed), RunM("tvm0"),
                    Compute(computed), InputM("tvm1", passed), RunM("tvm1")>> >>,
      leaves |-> "group"]

tvm_profiler ==
  [setup |-> <<InitTVM, LoadM("tvm0", 0)>>,
   loop |-> << <<Compute("model_input"), InputM("tvm0", "model_input"), RunM("tvm0")>> >>,
   leaves |-> "loop"]
tvm_instrumentation == tvm_profiler

tvm_delayed_emission ==
  [setup |-> <<InitTVM, LoadM("tvm0", 0)>>,
   loop |-> << <<InputM("tvm0", "model_input"), RunM("tvm0")>> >>, leaves |-> "loop"]

tvm_multi_model ==
  [setup |-> <<InitTVM, LoadM("tvm0", 0), LoadM("tvm1", 0)>>,
   loop |-> << <<Compute("model_input"), InputM("tvm0", "model_input"), RunM("tvm0"),
                 Compute("model_int8_input"), InputM("tvm1", "model_int8_input"),
                 RunM("tvm1")>> >>,
   leaves |-> "loop"]

Programs == {tflm_inference, tflm_delayed_emission, two_models_node_0, two_models_node_1,
             tflm_instrumentation, tflm_multi_model, tflm_tvm_models,
             tvm_profiler, tvm_delayed_emission, tvm_instrumentation, tvm_multi_model}

TflmModels  == {"tflm0", "tflm1"}
TvmModels   == {"tvm0", "tvm1"}
ModelNames  == TflmModels \union TvmModels
Inputs      == {"model_input", "model_input_q", "model0_input", "model1_input_q",
                "model_int8_input"}

VARIABLES
  program,      \* the sample that runs
  group,        \* the group of calls it is in: 0 for the setup, and after the last, its end
  call,         \* the next call of the group
  iteration,    \* the number of it: 0 in the setup
  buffer_pos,   \* bytes of the buffer that belong to loaded models
  interpreter,  \* every model: "null", "live", "dangling" (a pointer to a deleted one)
  arena,        \* the positions of the buffer the interpreter of a model was given
  computed,     \* the variables with a value that no model has been given yet
  fed           \* what a model has been given since it ran last: "none", "old" or "new"

sampleVars ==
  <<program, group, call, iteration, buffer_pos, interpreter, arena, computed, fed>>

SampleInit ==
  /\ program \in Programs
  /\ group = 0 /\ call = 1 /\ iteration = 0
  /\ buffer_pos = 0 /\ computed = {}
  /\ interpreter = [m \in ModelNames |-> "null"]
  /\ arena = [m \in ModelNames |-> {}]
  /\ fed = [m \in ModelNames |-> "none"]

Ended     == group > Len(program.loop)
Calls     == IF group = 0 THEN program.setup ELSE program.loop[group]
Current   == Calls[call]
Calling(op, kind) == ~Ended /\ Current.op = op /\ Current.model \in kind

\* The next group, the first of the next iteration, or the end
NextGroup ==
  /\ call' = 1
  /\ IF group \in 1..(Len(program.loop) - 1) THEN group' = group + 1 /\ UNCHANGED iteration
     ELSE IF iteration < Iterations THEN group' = 1 /\ iteration' = iteration + 1
     ELSE group' = Len(program.loop) + 1 /\ UNCHANGED iteration

EndProgram == group' = Len(program.loop) + 1 /\ call' = 1 /\ UNCHANGED iteration

\* The call returned 0
Succeed ==
  /\ IF call < Len(Calls) THEN call' = call + 1 /\ UNCHANGED <<group, iteration>> ELSE NextGroup
  /\ UNCHANGED program

\* The call returned something else
Fail ==
  /\ IF group = 0 \/ program.leaves = "loop" THEN EndProgram ELSE NextGroup
  /\ UNCHANGED program

\* The sample computes the value of a variable.
ComputeInput ==
  /\ ~Ended /\ Current.op = "compute"
  /\ Succeed
  /\ computed' = computed \union {Current.input}
  /\ UNCHANGED <<buffer_pos, interpreter, arena, fed>>

\* The model gets what is in the variable, be it new or not; and what it has got is used up.
HandOver ==
  /\ fed' = [fed EXCEPT ![Current.model] = IF Current.input \in computed THEN "new" ELSE "old"]
  /\ computed' = computed \ {Current.input}
UseUp ==
  /\ fed' = [fed EXCEPT ![Current.model] = "none"]
  /\ UNCHANGED computed

----------------------------------------------------------------------------
(* tflm_model.cpp *)

\* tensor_arena_size: 0 asks for the rest of the buffer
ArenaSize == IF Current.size = 0 THEN BufferSize - buffer_pos ELSE Current.size
Arena     == buffer_pos..(buffer_pos + ArenaSize - 1)

AdvancedNot(size) == buffer_pos                  \* mutant: the position stays
Advanced(size)    == buffer_pos + size

\* The interpreter exists already, the arena is too large, or the model has another version
RefuseLoad ==
  /\ Calling("load", TflmModels)
  /\ Fail
  /\ UNCHANGED <<buffer_pos, interpreter, arena, computed, fed>>

CanCreate ==
  /\ Calling("load", TflmModels)
  /\ interpreter[Current.model] = "null"
  /\ buffer_pos + ArenaSize <= BufferSize

FailUnnoticed ==                      \* mutant: a failed allocation is not reported
  /\ CanCreate
  /\ Succeed
  /\ interpreter' = [interpreter EXCEPT ![Current.model] = "dangling"]
  /\ UNCHANGED <<buffer_pos, arena, computed, fed>>
\* AllocateTensors fails: the interpreter is deleted, but the pointer to it stays.
FailToAllocate ==
  /\ CanCreate
  /\ Fail
  /\ interpreter' = [interpreter EXCEPT ![Current.model] = "dangling"]
  /\ UNCHANGED <<buffer_pos, arena, computed, fed>>

CreateInterpreter ==
  /\ CanCreate
  /\ Succeed
  /\ interpreter' = [interpreter EXCEPT ![Current.model] = "live"]
  /\ arena' = [arena EXCEPT ![Current.model] = Arena]
  /\ buffer_pos' = Advanced(ArenaSize)
  /\ UNCHANGED <<computed, fed>>

\* No interpreter, or a tensor of another size
RefuseInput ==
  /\ Calling("input", TflmModels)
  /\ Fail
  /\ UNCHANGED <<buffer_pos, interpreter, arena, computed, fed>>

CopyInput ==
  /\ Calling("input", TflmModels) /\ interpreter[Current.model] # "null"
  /\ Succeed
  /\ HandOver
  /\ UNCHANGED <<buffer_pos, interpreter, arena>>

\* No interpreter, or Invoke fails
FailToRun ==
  /\ Calling("run", TflmModels)
  /\ Fail
  /\ UseUp
  /\ UNCHANGED <<buffer_pos, interpreter, arena>>

Invoke ==
  /\ Calling("run", TflmModels) /\ interpreter[Current.model] # "null"
  /\ Succeed
  /\ UseUp
  /\ UNCHANGED <<buffer_pos, interpreter, arena>>

GetOutput ==
  /\ Calling("output", TflmModels)
  /\ Fail \/ (interpreter[Current.model] # "null" /\ Succeed)
  /\ UNCHANGED <<buffer_pos, interpreter, arena, computed, fed>>

----------------------------------------------------------------------------
(* tvm_model.c *)

InitRuntime ==
  /\ ~Ended /\ Current.op \in {"init", "init unchecked"}
  /\ Succeed \/ (Current.op = "init" /\ Fail)
  /\ UNCHANGED <<buffer_pos, interpreter, arena, computed, fed>>

\* One of the three calls of model_load fails, or none
LoadExecutor ==
  /\ Calling("load", TvmModels)
  /\ \/ Succeed /\ interpreter' = [interpreter EXCEPT ![Current.model] = "live"]
     \/ Fail /\ UNCHANGED interpreter
  /\ UNCHANGED <<buffer_pos, arena, computed, fed>>

\* model_load_input and model_run return 0 whatever TVM says.
SetInput ==
  /\ Calling("input", TvmModels)
  /\ Succeed
  /\ HandOver
  /\ UNCHANGED <<buffer_pos, interpreter, arena>>

RunExecutor ==
  /\ Calling("run", TvmModels)
  /\ Succeed
  /\ UseUp
  /\ UNCHANGED <<buffer_pos, interpreter, arena>>

SampleNext ==
  \/ ComputeInput
  \/ RefuseLoad \/ FailToAllocate \/ CreateInterpreter
  \/ RefuseInput \/ CopyInput \/ FailToRun \/ Invoke \/ GetOutput
  \/ InitRuntime \/ LoadExecutor \/ SetInput \/ RunExecutor

SampleSpec == SampleInit /\ [][SampleNext]_sampleVars

----------------------------------------------------------------------------
SampleTypeOK ==
  /\ program \in Programs /\ group \in 0..(Len(program.loop) + 1)
  /\ ~Ended => call \in 1..Len(Calls)
  /\ iteration \in 0..Iterations /\ buffer_pos \in 0..BufferSize
  /\ interpreter \in [ModelNames -> {"null", "live", "dangling"}]
  /\ arena \in [ModelNames -> SUBSET (0..(BufferSize - 1))]
  /\ computed \subseteq Inputs /\ fed \in [ModelNames -> {"none", "old", "new"}]

\* Models that are loaded together have arenas of their own, all of them in the buffer, also
\* when the last one asks for whatever is left (tflm_model.cpp:65-73, 89).
ArenasDisjoint ==
  \A m, n \in ModelNames :
    interpreter[m] = "live" /\ interpreter[n] = "live" =>
      /\ m # n => arena[m] \intersect arena[n] = {}
      /\ arena[m] \subseteq 0..(buffer_pos - 1)

\* The samples whose models run on the same input every time: the delayed emission samples on
\* zeros, and the microTVM models of tflm_tvm_models on a variable that nothing writes.
OnOldInput(p, m) ==
  \/ p \in {tflm_delayed_emission, tvm_delayed_emission}
  \/ p = tflm_tvm_models /\ m \in TvmModels

\* A failed load leaves a pointer to a deleted interpreter behind, which the null checks of
\* the other helpers do not recognise (tflm_model.cpp:84-87, 103, 122, 140).  What keeps the
\* samples from using it is what they do about failures: they never feed, run or read a model
\* that is not loaded.  Nor does one run a model on what an iteration before has computed for
\* it, or on what it was given before it ran last, also when calls have failed in between;
\* but some compute no input at all, or not the one they pass (tflm_tvm_models main.cpp:59,
\* 126-130, tflm_delayed_emission main.cpp:34, 44).
OnlyFedModelsRun ==
  ~Ended =>
    /\ Current.op \in {"input", "run", "output"} => interpreter[Current.model] = "live"
    /\ Current.op = "run" =>
         fed[Current.model] = IF OnOldInput(program, Current.model) THEN "old" ELSE "new"
=============================================================================
