----------------------------- MODULE SensorDemo ------------------------------
(***************************************************************************)
(* The accelerometer demo (src/samples/demo/src/main.c): a thread writes   *)
(* samples into a ring buffer and asks for an inference now and then; main *)
(* polls for the request and copies the ring, oldest sample first, into    *)
(* the input of the model.                                                 *)
(*                                                                         *)
(* The buffer is written under a mutex, but its index moves after the      *)
(* mutex is free.  What protects it is the priority of the sensor thread:  *)
(* -1 is cooperative and above main's, and the board has one CPU.          *)
(*                                                                         *)
(* A sample is its number, counted from 1; 0 is what the buffer starts as. *)
(* A read that fails counts as a sample too (of zeros).                    *)
(***************************************************************************)
EXTENDS Integers

CONSTANTS
  InputShape,   \* samples in the buffer (INPUT_SHAPE_0, 128)
  Stride,       \* samples between two requests (16)
  MaxSamples    \* bound: samples taken in a run

ASSUME DemoAssumption == InputShape \in Nat \ {0} /\ Stride \in Nat \ {0} /\ MaxSamples \in Nat

VARIABLES
  data_buffer, sample_idx,
  taken,           \* samples written so far
  mutex,           \* who holds data_buffer_mutex: "none", "main" or "sensor"
  run_inference,   \* the semaphore, limit 1
  sensor,          \* the sensor thread: "fetch", "lock", "step", "ask", "sleep"
  app,             \* main: "load", "poll", "nap", "read", "tail", "head", "infer", "end"
  model_input,
  asOf             \* samples taken when main locked the mutex

demoVars == <<data_buffer, sample_idx, taken, mutex, run_inference, sensor, app, model_input, asOf>>

Slots == 0..(InputShape - 1)

DemoInit ==
  /\ data_buffer = [i \in Slots |-> 0] /\ sample_idx = 0 /\ taken = 0
  /\ mutex = "none" /\ run_inference = 0
  /\ sensor = "sleep" /\ app = "load"
  /\ model_input = [i \in Slots |-> 0] /\ asOf = 0

----------------------------------------------------------------------------
(* read_accel_data_fun.  While the driver fetches a sample the thread may block; from then on *)
(* it only blocks on the mutex *)

EndSleep ==
  /\ sensor = "sleep" /\ taken < MaxSamples
  /\ sensor' = "fetch"
  /\ UNCHANGED <<data_buffer, sample_idx, taken, mutex, run_inference, app, model_input, asOf>>

Fetch ==
  /\ sensor = "fetch"
  /\ sensor' = "lock"
  /\ UNCHANGED <<data_buffer, sample_idx, taken, mutex, run_inference, app, model_input, asOf>>

\* Lock, write the three values, unlock: nothing can come in between
Write ==
  /\ sensor = "lock" /\ mutex = "none"
  /\ data_buffer' = [data_buffer EXCEPT ![sample_idx] = taken + 1]
  /\ taken' = taken + 1
  /\ sensor' = "step"
  /\ UNCHANGED <<sample_idx, mutex, run_inference, app, model_input, asOf>>

\* ++sample_idx, outside the mutex
Step ==
  /\ sensor = "step"
  /\ sample_idx' = (sample_idx + 1) % InputShape
  /\ sensor' = "ask"
  /\ UNCHANGED <<data_buffer, taken, mutex, run_inference, app, model_input, asOf>>

\* Every Stride samples, when the accelerometer has moved, give the semaphore; then sleep
RequestInference ==
  /\ sensor = "ask"
  /\ \E moving \in BOOLEAN :
       run_inference' = IF moving /\ sample_idx % Stride = 0 THEN 1 ELSE run_inference
  /\ sensor' = "sleep"
  /\ UNCHANGED <<data_buffer, sample_idx, taken, mutex, app, model_input, asOf>>

----------------------------------------------------------------------------
(* main *)

MainRunsPreemptible == TRUE                       \* mutant: the sensor thread is preemptible
\* Main has the CPU only while the sensor thread sleeps or blocks.
MainRuns == sensor \in {"sleep", "fetch"} \/ (sensor = "lock" /\ mutex = "main")

\* model_init and model_load; main returns when one of them fails
LoadModel ==
  /\ app = "load" /\ MainRuns
  /\ app' \in {"poll", "end"}
  /\ UNCHANGED <<data_buffer, sample_idx, taken, mutex, run_inference, sensor, model_input, asOf>>

\* k_sem_take(&run_inference, K_NO_WAIT): nap for 10 ms when there is no request
Poll ==
  /\ app = "poll" /\ MainRuns
  /\ app' = IF run_inference > 0 THEN "read" ELSE "nap"
  /\ run_inference' = 0
  /\ UNCHANGED <<data_buffer, sample_idx, taken, mutex, sensor, model_input, asOf>>

EndNap ==
  /\ app = "nap" /\ MainRuns
  /\ app' = "poll"
  /\ UNCHANGED <<data_buffer, sample_idx, taken, mutex, run_inference, sensor, model_input, asOf>>

\* read_input
LockBuffer ==
  /\ app = "read" /\ MainRuns /\ mutex = "none"
  /\ mutex' = "main" /\ asOf' = taken
  /\ app' = "tail"
  /\ UNCHANGED <<data_buffer, sample_idx, taken, run_inference, sensor, model_input>>

\* The first memcpy: from sample_idx to the end of the buffer
CopyTail ==
  /\ app = "tail" /\ MainRuns
  /\ model_input' = [i \in Slots |-> IF i < InputShape - sample_idx
                                     THEN data_buffer[sample_idx + i] ELSE model_input[i]]
  /\ app' = "head"
  /\ UNCHANGED <<data_buffer, sample_idx, taken, mutex, run_inference, sensor, asOf>>

\* The second: the samples before sample_idx; unlock
CopyHead ==
  /\ app = "head" /\ MainRuns
  /\ model_input' = [i \in Slots |-> IF i >= InputShape - sample_idx
                                     THEN data_buffer[i - (InputShape - sample_idx)]
                                     ELSE model_input[i]]
  /\ mutex' = "none"
  /\ app' = "infer"
  /\ UNCHANGED <<data_buffer, sample_idx, taken, run_inference, sensor, asOf>>

\* model_load_input, model_run, model_get_output: the last may fail and end main
Infer ==
  /\ app = "infer" /\ MainRuns
  /\ app' \in {"poll", "end"}
  /\ UNCHANGED <<data_buffer, sample_idx, taken, mutex, run_inference, sensor, model_input, asOf>>

SensorThread == EndSleep \/ Fetch \/ Write \/ Step \/ RequestInference
MainThread   == LoadModel \/ Poll \/ EndNap \/ LockBuffer \/ CopyTail \/ CopyHead \/ Infer
DemoNext     == SensorThread \/ MainThread

DemoSpec == DemoInit /\ [][DemoNext]_demoVars

----------------------------------------------------------------------------
DemoTypeOK ==
  /\ data_buffer \in [Slots -> 0..MaxSamples] /\ model_input \in [Slots -> 0..MaxSamples]
  /\ sample_idx \in Slots /\ taken \in 0..MaxSamples /\ asOf \in 0..taken
  /\ mutex \in {"none", "main"} /\ run_inference \in 0..1
  /\ sensor \in {"fetch", "lock", "step", "ask", "sleep"}
  /\ app \in {"load", "poll", "nap", "read", "tail", "head", "infer", "end"}

\* What the model is given is the last InputShape samples, oldest first, with zeros before
\* the first one (read_input and read_accel_data_fun, main.c:99-111 and 173-182), although
\* the index of the next sample is not protected by the mutex its buffer is.
WindowIsLatest ==
  app = "infer" => \A i \in Slots :
    LET n == asOf - InputShape + i + 1 IN model_input[i] = IF n > 0 THEN n ELSE 0
=============================================================================
