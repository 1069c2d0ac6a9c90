------------------------------- MODULE SmpTvm --------------------------------
(***************************************************************************)
(* The SMP TVM sample (src/samples/profiling/smp_tvm/src/main.c): main     *)
(* loads a model for every worker thread, then looks in turn for workers   *)
(* that are done, writes new input into the buffer of one, asks it to run, *)
(* and sleeps.  TVM's SetInput does not copy: the worker reads the buffer  *)
(* main writes until its inference is over.                                *)
(*                                                                         *)
(* Main has priority 0 and the workers 9: while main is awake the workers  *)
(* pinned to its CPU wait, and when no worker is done main does not sleep. *)
(***************************************************************************)
EXTENDS Integers

CONSTANTS
  ModelThreads,   \* worker threads (THREADS_NUM), 3 in the code
  NumCpus         \* arch_num_cpus()

\* The pin takes a remainder by arch_num_cpus() - 1.
ASSUME SmpAssumption == ModelThreads \in Nat \ {0} /\ NumCpus \in Nat \ {0, 1}

Workers == 0..(ModelThreads - 1)
Cpus    == 0..(NumCpus - 1)

PinTogether(i) == 1                            \* mutant: all workers on one CPU
\* k_thread_cpu_pin: never CPU 0
Pin(i) == (i % (NumCpus - 1)) + 1

VARIABLES
  main,       \* what main does: "alloc", "load", "start", "scan", "fill", "ask", "sleep", "end"
  at,         \* main's loop index
  cpu,        \* the CPU main runs on while it is awake
  tsem_start, \* the semaphores of every worker, limit 1
  tsem_done,
  worker      \* what every worker does: "off", "wait", "load", "run", "done"

smpVars == <<main, at, cpu, tsem_start, tsem_done, worker>>

SmpInit ==
  /\ main = "alloc" /\ at = 0 /\ cpu = 0
  /\ tsem_start = [i \in Workers |-> 0]
  /\ tsem_done  = [i \in Workers |-> 0]
  /\ worker = [i \in Workers |-> "off"]

\* The index of a for loop moves on; after the last worker the next phase begins with the first
Onward(phase, next) ==
  IF at + 1 \in Workers THEN main' = phase /\ at' = at + 1 ELSE main' = next /\ at' = 0

\* Wait for the USB backend, after which main runs on any CPU; allocate the inputs
Alloc ==
  /\ main = "alloc"
  /\ main' = "load"
  /\ cpu' \in Cpus
  /\ UNCHANGED <<at, tsem_start, tsem_done, worker>>

\* Load the next model; when that fails main returns
Load ==
  /\ main = "load" /\ at \in Workers
  /\ \/ Onward("load", "start")
     \/ main' = "end" /\ UNCHANGED at
  /\ UNCHANGED <<cpu, tsem_start, tsem_done, worker>>

\* Initialise the semaphores of the next worker, create it, pin it and start it
Start ==
  /\ main = "start" /\ at \in Workers
  /\ tsem_start' = [tsem_start EXCEPT ![at] = 0]
  /\ tsem_done'  = [tsem_done EXCEPT ![at] = 1]
  /\ worker' = [worker EXCEPT ![at] = "wait"]
  /\ Onward("start", "scan")
  /\ UNCHANGED cpu

\* k_sem_take(&tsem_done[i], K_NO_WAIT) fails: continue with the next worker
NotDone ==
  /\ main = "scan" /\ at \in Workers /\ tsem_done[at] = 0
  /\ Onward("scan", "scan")
  /\ UNCHANGED <<cpu, tsem_start, tsem_done, worker>>

TakeDone ==
  /\ main = "scan" /\ at \in Workers /\ tsem_done[at] > 0
  /\ tsem_done' = [tsem_done EXCEPT ![at] = @ - 1]
  /\ main' = "fill"
  /\ UNCHANGED <<at, cpu, tsem_start, worker>>

\* rand_input0, rand_input1: all of the input has been written
Fill ==
  /\ main = "fill"
  /\ main' = "ask"
  /\ UNCHANGED <<at, cpu, tsem_start, tsem_done, worker>>

\* k_sem_give(&tsem_start[i]), k_msleep(50)
Ask ==
  /\ main = "ask"
  /\ tsem_start' = [tsem_start EXCEPT ![at] = 1]
  /\ main' = "sleep"
  /\ UNCHANGED <<at, cpu, tsem_done, worker>>

\* The sleep is over: main takes whichever CPU looks at the queue first, also a worker's
Wake ==
  /\ main = "sleep"
  /\ cpu' \in Cpus
  /\ Onward("scan", "scan")
  /\ UNCHANGED <<tsem_start, tsem_done, worker>>

----------------------------------------------------------------------------
(* thread_run_model.  model_load_input and model_run always return 0, so the loop never ends *)

MainAwake == main \notin {"sleep", "end"}
CanRun(i) == ~(MainAwake /\ cpu = Pin(i))

Begin(i) ==
  /\ worker[i] = "wait" /\ tsem_start[i] > 0 /\ CanRun(i)
  /\ tsem_start' = [tsem_start EXCEPT ![i] = @ - 1]
  /\ worker' = [worker EXCEPT ![i] = "load"]
  /\ UNCHANGED <<main, at, cpu, tsem_done>>

LoadInputGivesDone(i) ==                       \* mutant: done before the inference
  /\ worker[i] = "load" /\ CanRun(i)
  /\ worker' = [worker EXCEPT ![i] = "run"]
  /\ tsem_done' = [tsem_done EXCEPT ![i] = 1]
  /\ UNCHANGED <<main, at, cpu, tsem_start>>
\* model_load_input: the executor now refers to the buffer
LoadInput(i) ==
  /\ worker[i] = "load" /\ CanRun(i)
  /\ worker' = [worker EXCEPT ![i] = "run"]
  /\ UNCHANGED <<main, at, cpu, tsem_start, tsem_done>>

\* model_run returns
Run(i) ==
  /\ worker[i] = "run" /\ CanRun(i)
  /\ worker' = [worker EXCEPT ![i] = "done"]
  /\ UNCHANGED <<main, at, cpu, tsem_start, tsem_done>>

GiveDone(i) ==
  /\ worker[i] = "done" /\ CanRun(i)
  /\ tsem_done' = [tsem_done EXCEPT ![i] = 1]
  /\ worker' = [worker EXCEPT ![i] = "wait"]
  /\ UNCHANGED <<main, at, cpu, tsem_start>>

MainStep   == Alloc \/ Load \/ Start \/ NotDone \/ TakeDone \/ Fill \/ Ask \/ Wake
Worker(i)  == Begin(i) \/ LoadInput(i) \/ Run(i) \/ GiveDone(i)
SmpNext    == MainStep \/ \E i \in Workers : Worker(i)

SmpSpec == SmpInit /\ [][SmpNext]_smpVars

----------------------------------------------------------------------------
SmpTypeOK ==
  /\ main \in {"alloc", "load", "start", "scan", "fill", "ask", "sleep", "end"}
  /\ at \in Nat /\ cpu \in Cpus
  /\ tsem_start \in [Workers -> 0..1] /\ tsem_done \in [Workers -> 0..1]
  /\ worker \in [Workers -> {"off", "wait", "load", "run", "done"}]

\* Main never writes an input that an inference is reading, and never asks a worker that has
\* not answered the last request: the second give would find the semaphore at its limit and
\* be lost (main.c:183-202 and thread_run_model, 80-101; the buffer is shared because
\* model_load_input only hands TVM its address, tvm_model.c:96-102).
InputStable ==
  /\ \A i \in Workers : worker[i] \in {"load", "run"} => ~(main \in {"fill", "ask"} /\ at = i)
  /\ main = "ask" => tsem_start[at] = 0

\* Once main looks for workers each of them runs again and again, although main does not
\* sleep while no worker is done, and keeps the workers pinned to its CPU from running
\* (main.c:178, 183-201): one that is pinned elsewhere finishes, and main sleeps.
InferencesGoOn == \A i \in Workers : (main = "scan") ~> (worker[i] = "run")
=============================================================================
