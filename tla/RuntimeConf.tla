----------------------------- MODULE RuntimeConf -----------------------------
(***************************************************************************)
(* Runtime configuration on the board: the flags of                        *)
(* src/zpl/conf/configuration.c, the profiler threads that wait for them   *)
(* (src/zpl/profilers/cpu, src/zpl/profilers/memory), and the three ways   *)
(* to write a flag: ZPL_CONF_SET from the application or from the shell,   *)
(* and a debugger that writes debug_configs (west zpl-debug-config).       *)
(*                                                                         *)
(* Threads are preempted between any two steps.  A profiler p has a flag   *)
(* (cpu_load_profiler, ...), with a mutex and a condition variable if the  *)
(* flag is built with threading, and an event flag (cpu_load, ...) without.*)
(* What a round samples is left out; it has Stages[p] guarded parts.       *)
(***************************************************************************)
EXTENDS Naturals

CONSTANTS
  Profilers,   \* the profiler threads
  Setters,     \* threads that run ZPL_CONF_SET: shell, application
  Threadings,  \* builds: which profilers' flags have threading support
  Rechecks,    \* profilers that check their flag again before every stage
  Stages,      \* stages of a round
  NOBODY       \* owner of a free mutex, target of an idle setter

ASSUME ProfilerAssumption ==
  /\ Profilers \cap Setters = {} /\ NOBODY \notin Profilers \cup Setters
  /\ Rechecks \subseteq Profilers /\ Threadings \subseteq SUBSET Profilers
  /\ Stages \in [Profilers -> Nat \ {0}]
\* Only the memory profiler has more stages than one, and only its flag can do
\* without threading: it checks the flag before every stage.
ASSUME RecheckAssumption ==
  \A p \in Profilers \ Rechecks : Stages[p] = 1 /\ \A t \in Threadings : p \in t

VARIABLES
  threading,      \* the build
  debug_configs,  \* the profilers' flags
  event_configs,  \* the flags checked when an event is emitted
  owner,          \* per flag: who holds its mutex
  pc, stage,      \* the profilers
  late,           \* stages emitted since the flag was last written, while it is off
  spc, target     \* the setters, and the flag each is writing, NOBODY if none

vars == <<threading, debug_configs, event_configs, owner, pc, stage, late, spc, target>>

TypeOK ==
  /\ threading \in Threadings
  /\ debug_configs \in [Profilers -> BOOLEAN] /\ event_configs \in [Profilers -> BOOLEAN]
  /\ owner \in [Profilers -> Profilers \cup Setters \cup {NOBODY}]
  /\ pc \in [Profilers -> {"top", "test", "block", "wait", "woken", "stage", "emit", "sleep"}]
  /\ stage \in [Profilers -> Nat] /\ \A p \in Profilers : stage[p] \in 1..Stages[p]
  /\ late \in [Profilers -> Nat]
  /\ spc \in [Setters -> {"idle", "storeOn", "storeOff", "signal"}]
  /\ target \in [Setters -> Profilers \cup {NOBODY}]

\* All flags are set at boot, and every thread starts at the top of its loop.
Init ==
  /\ threading \in Threadings
  /\ debug_configs = [p \in Profilers |-> TRUE] /\ event_configs = [p \in Profilers |-> TRUE]
  /\ owner = [p \in Profilers |-> NOBODY]
  /\ pc = [p \in Profilers |-> "top"] /\ stage = [p \in Profilers |-> 1]
  /\ late = [p \in Profilers |-> 0]
  /\ spc = [s \in Setters |-> "idle"] /\ target = [s \in Setters |-> NOBODY]

----------------------------------------------------------------------------
(* A profiler's thread *)

At(p, here) == pc[p] = here
Goto(p, there) == pc' = [pc EXCEPT ![p] = there]
Free(p) == owner[p] = NOBODY

\* ZPL_CONF_WAIT: without threading it is empty, else it takes the mutex first
Lock(p) ==
  /\ At(p, "top")
  /\ \/ /\ p \notin threading
        /\ Goto(p, "stage") /\ UNCHANGED owner
     \/ /\ p \in threading /\ Free(p)
        /\ Goto(p, "test") /\ owner' = [owner EXCEPT ![p] = p]
  /\ UNCHANGED <<threading, debug_configs, event_configs, stage, late, spc, target>>

\* if (!debug_configs.name), with the mutex, which is released if the flag is set
Test(p) ==
  /\ At(p, "test")
  /\ IF debug_configs[p]
     THEN Goto(p, "stage") /\ owner' = [owner EXCEPT ![p] = NOBODY]
     ELSE Goto(p, "block") /\ UNCHANGED owner
  /\ UNCHANGED <<threading, debug_configs, event_configs, stage, late, spc, target>>

\* k_condvar_wait: the mutex is given up in the step that makes the thread a waiter
Block(p) ==
  /\ At(p, "block")
  /\ Goto(p, "wait") /\ owner' = [owner EXCEPT ![p] = NOBODY]
  /\ UNCHANGED <<threading, debug_configs, event_configs, stage, late, spc, target>>

\* k_condvar_wait returns with the mutex; the flag is not looked at again
Woken(p) ==
  /\ At(p, "woken") /\ Free(p)
  /\ Goto(p, "stage")
  /\ UNCHANGED <<threading, debug_configs, event_configs, owner, stage, late, spc, target>>

NextStageOffByOne(p) ==                         \* mutant
  IF stage[p] <= Stages[p]
  THEN Goto(p, "stage") /\ stage' = [stage EXCEPT ![p] = @ + 1]
  ELSE Goto(p, "sleep") /\ UNCHANGED stage

NextStage(p) ==
  IF stage[p] < Stages[p]
  THEN Goto(p, "stage") /\ stage' = [stage EXCEPT ![p] = @ + 1]
  ELSE Goto(p, "sleep") /\ UNCHANGED stage

CheckOnlyOnce(p) ==                             \* mutant: only the first stage checks
  /\ At(p, "stage")
  /\ \/ /\ p \notin Rechecks \/ stage[p] > 1 \/ debug_configs[p]
        /\ Goto(p, "emit") /\ UNCHANGED stage
     \/ /\ p \in Rechecks /\ stage[p] = 1 /\ ~debug_configs[p]
        /\ NextStage(p)
  /\ UNCHANGED <<threading, debug_configs, event_configs, owner, late, spc, target>>

\* ZPL_CONF_RETURN_IF_DISABLED at the top of a stage, if the profiler has it there
Check(p) ==
  /\ At(p, "stage")
  /\ \/ /\ p \notin Rechecks \/ (debug_configs[p] /\ (p \in threading => Free(p)))
        /\ Goto(p, "emit") /\ UNCHANGED stage
     \/ /\ p \in Rechecks /\ ~debug_configs[p] /\ (p \in threading => Free(p))
        /\ NextStage(p)
  /\ UNCHANGED <<threading, debug_configs, event_configs, owner, late, spc, target>>

\* The stage's events go out, if their own flag is set, with interrupts locked.
Emit(p) ==
  /\ At(p, "emit")
  /\ NextStage(p)
  /\ late' = IF event_configs[p] /\ ~debug_configs[p] THEN [late EXCEPT ![p] = @ + 1] ELSE late
  /\ UNCHANGED <<threading, debug_configs, event_configs, owner, spc, target>>

\* k_msleep ends
Sleep(p) ==
  /\ At(p, "sleep")
  /\ Goto(p, "top")
  /\ stage' = [stage EXCEPT ![p] = 1]
  /\ UNCHANGED <<threading, debug_configs, event_configs, owner, late, spc, target>>

----------------------------------------------------------------------------
(* ZPL_CONF_SET *)

Write(p, state) ==
  /\ debug_configs' = [debug_configs EXCEPT ![p] = state]
  /\ late' = [late EXCEPT ![p] = 0]

SetLockFree(s) ==                               \* mutant: the flag is written without the mutex
  \E p \in threading, there \in {"storeOn", "storeOff"} :
    /\ spc[s] = "idle"
    /\ spc' = [spc EXCEPT ![s] = there] /\ target' = [target EXCEPT ![s] = p]
    /\ UNCHANGED <<threading, debug_configs, event_configs, owner, pc, stage, late>>

SetLock(s) ==
  \E p \in threading, there \in {"storeOn", "storeOff"} :
    /\ spc[s] = "idle" /\ Free(p)
    /\ spc' = [spc EXCEPT ![s] = there] /\ target' = [target EXCEPT ![s] = p]
    /\ owner' = [owner EXCEPT ![p] = s]
    /\ UNCHANGED <<threading, debug_configs, event_configs, pc, stage, late>>

SetStore(s) ==
  /\ spc[s] \in {"storeOn", "storeOff"}
  /\ Write(target[s], spc[s] = "storeOn")
  /\ spc' = [spc EXCEPT ![s] = "signal"]
  /\ UNCHANGED <<threading, event_configs, owner, pc, stage, target>>

SetSignalMissing(s) ==                          \* mutant: like the flags without threading
  /\ spc[s] = "signal"
  /\ spc' = [spc EXCEPT ![s] = "idle"] /\ target' = [target EXCEPT ![s] = NOBODY]
  /\ owner' = [owner EXCEPT ![target[s]] = NOBODY]
  /\ UNCHANGED <<threading, debug_configs, event_configs, pc, stage, late>>

SetSignalAlways(s) ==                           \* mutant: the waiter is woken by a disable too
  LET p == target[s] IN
  /\ spc[s] = "signal"
  /\ IF At(p, "wait") THEN Goto(p, "woken") ELSE UNCHANGED pc
  /\ spc' = [spc EXCEPT ![s] = "idle"] /\ target' = [target EXCEPT ![s] = NOBODY]
  /\ owner' = [owner EXCEPT ![p] = NOBODY]
  /\ UNCHANGED <<threading, debug_configs, event_configs, stage, late>>

\* The flag is read again, its waiter woken if it is set, and the mutex released.
SetSignal(s) ==
  LET p == target[s] IN
  /\ spc[s] = "signal"
  /\ IF debug_configs[p] /\ At(p, "wait") THEN Goto(p, "woken") ELSE UNCHANGED pc
  /\ spc' = [spc EXCEPT ![s] = "idle"] /\ target' = [target EXCEPT ![s] = NOBODY]
  /\ owner' = [owner EXCEPT ![p] = NOBODY]
  /\ UNCHANGED <<threading, debug_configs, event_configs, stage, late>>

\* Flags without threading are just stored.
SetPlain(p) ==
  /\ \/ /\ p \notin threading
        /\ \E state \in BOOLEAN : Write(p, state)
        /\ UNCHANGED event_configs
     \/ /\ \E state \in BOOLEAN : event_configs' = [event_configs EXCEPT ![p] = state]
        /\ UNCHANGED <<debug_configs, late>>
  /\ UNCHANGED <<threading, owner, pc, stage, spc, target>>

\* set var debug_configs.<config> = <value>, with the board halted
Debug(p) ==
  /\ \E state \in BOOLEAN : Write(p, state)
  /\ UNCHANGED <<threading, event_configs, owner, pc, stage, spc, target>>

Profile(p) == Lock(p) \/ Test(p) \/ Block(p) \/ Woken(p) \/ Check(p) \/ Emit(p) \/ Sleep(p)
Set(s) == SetLock(s) \/ SetStore(s) \/ SetSignal(s)
Next ==
  \/ \E p \in Profilers : Profile(p) \/ SetPlain(p)
  \/ \E s \in Setters : Set(s)

Spec == Init /\ [][Next]_vars

\* Every thread gets the CPU: profilers sleep most of the time, and the shell waits
\* for input.  k_mutex_unlock hands a mutex to the first that waits for it, so nobody
\* who asks for it again and again keeps another thread from it.  Nobody must call
\* ZPL_CONF_SET, but who has begun goes on.
Fairness ==
  /\ \A p \in Profilers :
       /\ WF_vars(Test(p)) /\ WF_vars(Block(p)) /\ WF_vars(Emit(p)) /\ WF_vars(Sleep(p))
       /\ SF_vars(Lock(p)) /\ SF_vars(Woken(p)) /\ SF_vars(Check(p))
  /\ \A s \in Setters : WF_vars(SetStore(s)) /\ WF_vars(SetSignal(s))
FairSpec == Spec /\ Fairness

\* The same board with a debugger attached.
DebuggedNext == Next \/ \E p \in Profilers : Debug(p)
DebuggedSpec == Init /\ [][DebuggedNext]_vars /\ Fairness

----------------------------------------------------------------------------
(* Properties *)

\* A profiler that waits on the condition variable of a flag that is set is about to
\* be woken: no wake-up falls between the thread's test and its wait, or between the
\* setter's store and its signal (configuration.c:18-22 against 49-54).
NoLostWakeup ==
  \A p \in Profilers :
    At(p, "wait") /\ debug_configs[p] => \E s \in Setters : spc[s] = "signal" /\ target[s] = p

\* After a flag is switched off at most one more stage of its profiler comes out, also
\* if it is switched on and off faster than the profiler wakes up, which then does not
\* test the flag again (configuration.c:19 is no loop, memory_profiler.c:21-76 is).
StopsAfterDisable == \A p \in Profilers : late[p] <= 1

\* A profiler whose flags stay set emits again and again
\* ("the thread is woken up and continues execution", configuration.md:38).
EnabledIsSampled ==
  \A p \in Profilers :
    <>[](debug_configs[p] /\ event_configs[p]) => []<><<Emit(p)>>_vars

\* A profiler whose flag stays off ends up waiting, and no more takes the CPU every
\* interval ("stops the thread and waits for a signal", configuration.md:37).
DisabledThreadStops ==
  \A p \in Profilers : <>[](p \in threading /\ ~debug_configs[p]) => <>[](At(p, "wait"))
=============================================================================
