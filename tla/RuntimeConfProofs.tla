-------------------------- MODULE RuntimeConfProofs --------------------------
(***************************************************************************)
(* Proofs about RuntimeConf, for any number of profilers and setters, any  *)
(* build and any number of stages.  The inductive invariant adds to types  *)
(* who holds which mutex, that a thread that is about to wait has a flag   *)
(* that is off, and where a thread can be that was late once.              *)
(***************************************************************************)
EXTENDS RuntimeConf, TLAPS

\* Only flags with threading support have anybody waiting for them or locking them,
\* and whoever is between locking and unlocking has the mutex.
MutexHeld ==
  /\ \A p \in Profilers :
       /\ pc[p] \in {"test", "block", "wait", "woken"} => p \in threading
       /\ pc[p] \in {"test", "block"} => owner[p] = p
  /\ \A s \in Setters :
       spc[s] # "idle" => target[s] \in Profilers /\ owner[target[s]] = s

\* A thread that has found its flag off and still holds the mutex finds it off.
BlocksOnlyIfOff == \A p \in Profilers : pc[p] = "block" => ~debug_configs[p]

\* The second late stage: a thread that was late once is past its last chance.
LateOnce ==
  \A p \in Profilers :
    /\ late[p] \in {0, 1}
    /\ late[p] = 1 => /\ ~debug_configs[p] /\ pc[p] \notin {"woken", "emit"}
                      /\ pc[p] = "stage" => p \in Rechecks

IInv == TypeOK /\ MutexHeld /\ BlocksOnlyIfOff /\ NoLostWakeup /\ LateOnce

LEMMA InitIInv == Init => IInv
BY ProfilerAssumption
   DEF Init, IInv, TypeOK, MutexHeld, BlocksOnlyIfOff, NoLostWakeup, LateOnce, At

----------------------------------------------------------------------------
(* Types *)

LEMMA NextStageType ==
  ASSUME TypeOK, NEW p \in Profilers, NextStage(p)
  PROVE  /\ pc' = [pc EXCEPT ![p] = pc'[p]] /\ pc'[p] \in {"stage", "sleep"}
         /\ pc'[p] = "stage" => Stages[p] # 1
         /\ stage' \in [Profilers -> Nat]
         /\ \A q \in Profilers : stage'[q] \in 1..Stages[q]
<1>1. CASE stage[p] < Stages[p]
  <2>1. stage[p] \in Nat /\ Stages[p] \in Nat /\ stage[p] + 1 \in 1..Stages[p]
    BY <1>1, ProfilerAssumption DEF TypeOK
  <2>2. stage' = [stage EXCEPT ![p] = stage[p] + 1] /\ pc' = [pc EXCEPT ![p] = "stage"]
    BY <1>1 DEF NextStage, Goto
  <2> QED BY <1>1, <2>1, <2>2 DEF TypeOK
<1>2. CASE ~(stage[p] < Stages[p])
  BY <1>2, ProfilerAssumption DEF NextStage, Goto, TypeOK
<1> QED BY <1>1, <1>2

LEMMA NextType == TypeOK /\ [Next]_vars => TypeOK'
<1> SUFFICES ASSUME TypeOK, [Next]_vars PROVE TypeOK'
    OBVIOUS
<1>1. ASSUME NEW p \in Profilers, Lock(p) \/ Test(p) \/ Block(p) \/ Woken(p) PROVE TypeOK'
  BY <1>1 DEF TypeOK, Lock, Test, Block, Woken, Goto, At
<1>2. ASSUME NEW p \in Profilers, Check(p) PROVE TypeOK'
  <2>1. CASE Goto(p, "emit") /\ UNCHANGED stage
    BY <1>2, <2>1 DEF TypeOK, Check, Goto
  <2>2. CASE NextStage(p)
    BY <1>2, <2>2, NextStageType DEF TypeOK, Check
  <2> QED BY <1>2, <2>1, <2>2 DEF Check
<1>3. ASSUME NEW p \in Profilers, Emit(p) PROVE TypeOK'
  BY <1>3, NextStageType DEF TypeOK, Emit
<1>4. ASSUME NEW p \in Profilers, Sleep(p) PROVE TypeOK'
  <2>1. 1 \in 1..Stages[p]
    BY ProfilerAssumption
  <2> QED BY <1>4, <2>1 DEF TypeOK, Sleep, Goto
<1>5. ASSUME NEW p \in Profilers, SetPlain(p) PROVE TypeOK'
  BY <1>5 DEF TypeOK, SetPlain, Write
<1>6. ASSUME NEW s \in Setters, SetLock(s) PROVE TypeOK'
  BY <1>6, ProfilerAssumption DEF TypeOK, SetLock
<1>7. ASSUME NEW s \in Setters, SetStore(s) PROVE TypeOK'
  BY <1>7 DEF TypeOK, SetStore, Write
<1>8. ASSUME NEW s \in Setters, SetSignal(s) PROVE TypeOK'
  BY <1>8 DEF TypeOK, SetSignal, Goto
<1>9. CASE UNCHANGED vars
  BY <1>9 DEF TypeOK, vars
<1> QED BY <1>1, <1>2, <1>3, <1>4, <1>5, <1>6, <1>7, <1>8, <1>9 DEF Next, Profile, Set

\* Every variable of the configuration and its threads keeps its type.
THEOREM TypeCorrect == Spec => []TypeOK
<1>1. Init => TypeOK
  BY InitIInv DEF IInv
<1> QED BY <1>1, NextType, PTL DEF Spec

----------------------------------------------------------------------------
(* The invariant is inductive *)

\* No step of a profiler breaks it: it waits only with the mutex and its flag off.
LEMMA ProfilerStep ==
  ASSUME IInv, [Next]_vars, NEW p \in Profilers, Profile(p)
  PROVE  MutexHeld' /\ BlocksOnlyIfOff' /\ NoLostWakeup' /\ LateOnce'
<1> USE DEF IInv
<1>0. TypeOK'
  BY NextType
<1>1. CASE Lock(p)
  BY <1>0, <1>1, RecheckAssumption, ProfilerAssumption
     DEF TypeOK, MutexHeld, BlocksOnlyIfOff, NoLostWakeup, LateOnce, Lock, Goto, At, Free
<1>2. CASE Test(p)
  BY <1>0, <1>2, ProfilerAssumption
     DEF TypeOK, MutexHeld, BlocksOnlyIfOff, NoLostWakeup, LateOnce, Test, Goto, At
<1>3. CASE Block(p)
  BY <1>0, <1>3, ProfilerAssumption
     DEF TypeOK, MutexHeld, BlocksOnlyIfOff, NoLostWakeup, LateOnce, Block, Goto, At
<1>4. CASE Woken(p)
  BY <1>0, <1>4, ProfilerAssumption
     DEF TypeOK, MutexHeld, BlocksOnlyIfOff, NoLostWakeup, LateOnce, Woken, Goto, At
<1>5. CASE Check(p)
  <2>1. CASE /\ p \notin Rechecks \/ debug_configs[p]
             /\ Goto(p, "emit")
    BY <1>0, <1>5, <2>1
       DEF TypeOK, MutexHeld, BlocksOnlyIfOff, NoLostWakeup, LateOnce, Check, Goto, At
  <2>2. CASE p \in Rechecks /\ NextStage(p)
    BY <1>0, <1>5, <2>2, NextStageType
       DEF TypeOK, MutexHeld, BlocksOnlyIfOff, NoLostWakeup, LateOnce, Check, At
  <2> QED BY <1>5, <2>1, <2>2 DEF Check
<1>6. CASE Emit(p)
  <2>1. /\ pc' = [pc EXCEPT ![p] = pc'[p]] /\ pc'[p] \in {"stage", "sleep"}
        /\ pc'[p] = "stage" => p \in Rechecks
    BY <1>6, NextStageType, RecheckAssumption DEF Emit, TypeOK
  <2>2. late[p] = 0 /\ late'[p] \in {0, 1} /\ (late'[p] = 1 => ~debug_configs[p])
    BY <1>6 DEF Emit, LateOnce, TypeOK, At
  <2>3. MutexHeld' /\ BlocksOnlyIfOff' /\ NoLostWakeup'
    BY <1>6, <2>1 DEF Emit, TypeOK, MutexHeld, BlocksOnlyIfOff, NoLostWakeup, At
  <2>4. LateOnce'
    BY <1>6, <2>1, <2>2 DEF Emit, TypeOK, LateOnce
  <2> QED BY <2>3, <2>4
<1>7. CASE Sleep(p)
  BY <1>0, <1>7
     DEF TypeOK, MutexHeld, BlocksOnlyIfOff, NoLostWakeup, LateOnce, Sleep, Goto, At
<1> QED BY <1>1, <1>2, <1>3, <1>4, <1>5, <1>6, <1>7 DEF Profile

\* Nor one of a setter, which writes and signals with the mutex.
LEMMA SetterStep ==
  ASSUME IInv, [Next]_vars, NEW s \in Setters, Set(s)
  PROVE  MutexHeld' /\ BlocksOnlyIfOff' /\ NoLostWakeup' /\ LateOnce'
<1> USE DEF IInv
<1>0. TypeOK'
  BY NextType
<1>1. CASE SetLock(s)
  BY <1>0, <1>1, ProfilerAssumption
     DEF TypeOK, MutexHeld, BlocksOnlyIfOff, NoLostWakeup, LateOnce, SetLock, At, Free
<1>2. CASE SetStore(s)
  <2> DEFINE p == target[s]
  <2>1. p \in Profilers /\ owner[p] = s /\ pc[p] \notin {"test", "block"}
    BY <1>2, ProfilerAssumption DEF SetStore, MutexHeld
  <2>2. MutexHeld' /\ BlocksOnlyIfOff'
    BY <1>2, <2>1 DEF SetStore, Write, TypeOK, MutexHeld, BlocksOnlyIfOff
  <2>3. NoLostWakeup'
    BY <1>2, <2>1 DEF SetStore, Write, TypeOK, NoLostWakeup, At
  <2>4. LateOnce'
    BY <1>2, <2>1 DEF SetStore, Write, TypeOK, LateOnce
  <2> QED BY <2>2, <2>3, <2>4
<1>3. CASE SetSignal(s)
  <2> DEFINE p == target[s]
  <2>1. p \in Profilers /\ owner[p] = s /\ pc[p] \notin {"test", "block"}
    BY <1>3, ProfilerAssumption DEF SetSignal, MutexHeld
  <2>2. MutexHeld' /\ BlocksOnlyIfOff'
    BY <1>3, <2>1, ProfilerAssumption
       DEF SetSignal, TypeOK, MutexHeld, BlocksOnlyIfOff, Goto, At
  <2>3. NoLostWakeup'
    BY <1>3, <2>1 DEF SetSignal, TypeOK, NoLostWakeup, Goto, At
  <2>4. LateOnce'
    BY <1>3, <2>1 DEF SetSignal, TypeOK, LateOnce, Goto, At
  <2> QED BY <2>2, <2>3, <2>4
<1> QED BY <1>1, <1>2, <1>3 DEF Set

LEMMA NextIInv == IInv /\ [Next]_vars => IInv'
<1> SUFFICES ASSUME IInv, [Next]_vars PROVE IInv'
    OBVIOUS
<1>0. TypeOK'
  BY NextType DEF IInv
<1>1. ASSUME NEW p \in Profilers, Profile(p) PROVE IInv'
  BY <1>0, <1>1, ProfilerStep DEF IInv
<1>2. ASSUME NEW p \in Profilers, SetPlain(p) PROVE IInv'
  <2>1. CASE p \notin threading
    BY <1>0, <1>2, <2>1
       DEF IInv, TypeOK, MutexHeld, BlocksOnlyIfOff, NoLostWakeup, LateOnce, SetPlain, Write, At
  <2>2. CASE UNCHANGED <<debug_configs, late>>
    BY <1>0, <1>2, <2>2
       DEF IInv, MutexHeld, BlocksOnlyIfOff, NoLostWakeup, LateOnce, SetPlain, At
  <2> QED BY <1>2, <2>1, <2>2 DEF SetPlain
<1>3. ASSUME NEW s \in Setters, Set(s) PROVE IInv'
  BY <1>0, <1>3, SetterStep DEF IInv
<1>4. CASE UNCHANGED vars
  BY <1>0, <1>4 DEF IInv, MutexHeld, BlocksOnlyIfOff, NoLostWakeup, LateOnce, vars, At
<1> QED BY <1>1, <1>2, <1>3, <1>4 DEF Next

LEMMA AlwaysIInv == Spec => []IInv
BY InitIInv, NextIInv, PTL DEF Spec

\* No wake-up is lost between a profiler's test of its flag and its wait, whatever
\* other threads set and clear the flag meanwhile through ZPL_CONF_SET.
THEOREM WakeupsArrive == Spec => []NoLostWakeup
<1>1. IInv => NoLostWakeup
  BY DEF IInv
<1> QED BY <1>1, AlwaysIInv, PTL

\* A disabled profiler gets out at most one more stage, however fast the flag toggles.
THEOREM DisableIsPrompt == Spec => []StopsAfterDisable
<1>1. IInv => StopsAfterDisable
  <2> SUFFICES ASSUME IInv, NEW p \in Profilers PROVE late[p] <= 1
    BY DEF StopsAfterDisable
  <2>1. late[p] = 0 \/ late[p] = 1
    BY DEF IInv, LateOnce
  <2> QED BY <2>1, SMT
<1> QED BY <1>1, AlwaysIInv, PTL
=============================================================================
