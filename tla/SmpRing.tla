------------------------------- MODULE SmpRing -------------------------------
(***************************************************************************)
(* The SMP sample (src/samples/profiling/smp/src/main.c): four threads     *)
(* hand one turn around a ring of binary semaphores, each thread pinned to *)
(* a CPU of its own as far as there are enough.                            *)
(***************************************************************************)
EXTENDS Integers

THREADS_NUM == 4
Threads == 0..(THREADS_NUM - 1)

VARIABLES
  tsem,      \* the count of every thread's semaphore (limit 1)
  turn,      \* every thread: not started, waiting for its semaphore, or having its turn
  starting   \* how many threads main has started

ringVars == <<tsem, turn, starting>>

Following(i) == (i + 2) % THREADS_NUM           \* mutant: skips a thread
\* The thread whose semaphore thread i gives
Other(i) == (i + 1) % THREADS_NUM

RingInit ==
  /\ tsem = [i \in Threads |-> IF i = 0 THEN 1 ELSE 0]
  /\ turn = [i \in Threads |-> "new"]
  /\ starting = 0

\* main: create, name, pin and start the next thread
StartThread ==
  /\ starting < THREADS_NUM
  /\ turn' = [turn EXCEPT ![starting] = "wait"]
  /\ starting' = starting + 1
  /\ UNCHANGED tsem

\* thread_loop: take the own semaphore, announce the turn, wait a while ...
TakeTurn(i) ==
  /\ turn[i] = "wait" /\ tsem[i] > 0
  /\ tsem' = [tsem EXCEPT ![i] = @ - 1]
  /\ turn' = [turn EXCEPT ![i] = "turn"]
  /\ UNCHANGED starting

\* ... and give the other one (a give at the limit is lost)
PassTurn(i) ==
  /\ turn[i] = "turn"
  /\ tsem' = [tsem EXCEPT ![Other(i)] = 1]
  /\ turn' = [turn EXCEPT ![i] = "wait"]
  /\ UNCHANGED starting

RingNext == StartThread \/ \E i \in Threads : TakeTurn(i) \/ PassTurn(i)

----------------------------------------------------------------------------
RingTypeOK ==
  /\ tsem \in [Threads -> 0..1]
  /\ turn \in [Threads -> {"new", "wait", "turn"}]
  /\ starting \in 0..THREADS_NUM

\* Every thread main has started has its turn again and again (thread_loop, main.c:28-42): a
\* turn passed on before its thread exists waits for it, and no turn is lost or passed over.
EveryThreadTurns == \A i \in Threads : (starting > i) ~> (turn[i] = "turn")
=============================================================================
