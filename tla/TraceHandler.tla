---------------------------- MODULE TraceHandler ----------------------------
(***************************************************************************)
(* The life cycle of src/server/handlers/trace_handler.py: what            *)
(* trace.connect, trace.disconnect, trace.reset, trace.collect and the     *)
(* Socket.IO disconnect handler do to the three background tasks of a live *)
(* trace (converter, TEF consumer, emitter) and to the bt2 thread.         *)
(*                                                                         *)
(* Scheduling.  Everything except the bt2 thread runs on one asyncio loop. *)
(* A coroutine keeps the loop from one await that suspends to the next:    *)
(* "loop" names the caller that has it, FREE when the next ready coroutine *)
(* may be picked.  Which ready coroutine comes next is left open.          *)
(*                                                                         *)
(* Data.  A message or event is reduced to its age: "new" if babeltrace2   *)
(* delivered it after the most recent reset wiped the buffers, "old"       *)
(* otherwise.  A buffer is the set of ages it contains; of the pending     *)
(* events and the emit queues only whether they hold events is kept.       *)
(* Status notifications, which hold no lock, and metadata are left out.    *)
(***************************************************************************)
EXTENDS Naturals, Sequences

CONSTANTS
  Callers,       \* coroutines that call the handler's methods
  Calls,         \* the methods they call
  MaxConv,       \* converters that may exist at a time
  MaxTef,        \* _parse_and_emit_diff tasks that may exist at a time
  MaxEmit,       \* _emit_loop tasks (and their queues) that may exist at a time
  MaxIn,         \* batches async_q may hold in the model
  FREE,          \* the value of "loop" when nobody holds the event loop
  SwallowCancel, \* wait_for may swallow a cancellation (Python <= 3.11, used by the CI)
  MayFail,       \* parsing, the bt2 thread and start_server may raise
  EarlyReset     \* trace.reset may be called while nothing is connected

ASSUME BoundsAssumption ==
  /\ MaxConv \in Nat \ {0} /\ MaxTef \in Nat \ {0}
  /\ MaxEmit \in Nat \ {0} /\ MaxIn \in Nat \ {0}
ASSUME ModeAssumption ==
  /\ SwallowCancel \in BOOLEAN /\ MayFail \in BOOLEAN /\ EarlyReset \in BOOLEAN
ASSUME CallerAssumption ==
  /\ FREE \notin Callers
  /\ Calls \subseteq {"connect", "cleanup", "reset", "leave", "collect", "stream"}

Convs == 1..MaxConv
Tefs  == 1..MaxTef
Emits == 1..MaxEmit
Ages  == {"old", "new"}

Ops == {"none", "connect", "cleanup", "reset", "leave", "collect"}
PCs == {"idle", "startServer", "waitClosed", "joinServe", "stopBt2", "joinBt2",
        "joinedBt2", "cancelConv", "joinConv", "cancelTef", "joinTef",
        "cancelEmit", "joinEmit", "tasksStopped", "notify"}
Threads  == {"none", "running", "exited"}
ConvSts  == {"none", "run", "stopping", "done", "dead"}
TefSts   == {"none", "new", "wait", "aborting", "stopping", "done", "dead"}
EmitSts  == {"none", "new", "wait", "send", "stopping", "done", "dead"}
Gone     == {"none", "done", "dead"}
Finished == {"done", "dead"}

VARIABLES
  loop, stuck,          \* who has the loop; it is blocked for ever on trace_lock
  pc, op, waits,        \* per caller: position, operation, task it awaits
  bt2_thread, bt2_thread_stop,
  interceptor_server, interceptor_task,
  async_q,              \* .live is self.async_q (None while ~.made), .left the one it replaced
  ctf_tef, ctf_tef_task, convSt, convSrc, convBatch, convOut,
  tef_task, tefSt, tefConv,
  emit_task, emit_queue, emitSt, emitSrc, emitQ, trace_lock,
  pending_events, trace_events, continuous_streaming

callerVars == <<loop, stuck, pc, op, waits>>
bt2Vars    == <<bt2_thread, bt2_thread_stop>>
servVars   == <<interceptor_server, interceptor_task>>
convVars   == <<ctf_tef, ctf_tef_task, convSt, convSrc, convBatch, convOut>>
tefVars    == <<tef_task, tefSt, tefConv>>
emitVars   == <<emit_task, emit_queue, emitSt, emitSrc, emitQ, trace_lock>>
dataVars   == <<pending_events, trace_events, continuous_streaming>>
vars == <<callerVars, bt2Vars, servVars, async_q, convVars, tefVars, emitVars, dataVars>>

CallerOK ==
  /\ loop \in Callers \cup {FREE} /\ stuck \in BOOLEAN
  /\ pc \in [Callers -> PCs] /\ op \in [Callers -> Ops] /\ waits \in [Callers -> Nat]
Bt2OK  == bt2_thread \in Threads /\ bt2_thread_stop \in BOOLEAN
ServOK == interceptor_server \in BOOLEAN /\ interceptor_task \in BOOLEAN
QueueOK == async_q \in [made: BOOLEAN, live: Seq(Ages), left: Seq(Ages)]
ConvOK ==
  /\ ctf_tef \in 0..MaxConv /\ ctf_tef_task \in 0..MaxConv
  /\ convSt \in [Convs -> ConvSts] /\ convSrc \in [Convs -> {"none", "live", "left"}]
  /\ convBatch \in [Convs -> SUBSET Ages] /\ convOut \in [Convs -> SUBSET Ages]
TefOK ==
  /\ tef_task \in 0..MaxTef /\ tefSt \in [Tefs -> TefSts] /\ tefConv \in [Tefs -> 0..MaxConv]
  /\ \A j \in Tefs : tefSt[j] = "wait" => tefConv[j] \in Convs
EmitOK ==
  /\ emit_task \in 0..MaxEmit /\ emit_queue \in 0..MaxEmit /\ trace_lock \in 0..MaxEmit
  /\ emitSt \in [Emits -> EmitSts] /\ emitSrc \in [Emits -> 0..MaxEmit]
  /\ emitQ \in [Emits -> BOOLEAN]
DataOK ==
  pending_events \in BOOLEAN /\ trace_events \subseteq Ages /\ continuous_streaming \in BOOLEAN

TypeOK == CallerOK /\ Bt2OK /\ ServOK /\ QueueOK /\ ConvOK /\ TefOK /\ EmitOK /\ DataOK

Init ==
  /\ loop = FREE /\ stuck = FALSE
  /\ pc = [c \in Callers |-> "idle"] /\ op = [c \in Callers |-> "none"]
  /\ waits = [c \in Callers |-> 0]
  /\ bt2_thread = "none" /\ bt2_thread_stop = FALSE
  /\ interceptor_server = FALSE /\ interceptor_task = FALSE
  /\ async_q = [made |-> FALSE, live |-> <<>>, left |-> <<>>]
  /\ ctf_tef = 0 /\ ctf_tef_task = 0
  /\ convSt = [i \in Convs |-> "none"] /\ convSrc = [i \in Convs |-> "none"]
  /\ convBatch = [i \in Convs |-> {}] /\ convOut = [i \in Convs |-> {}]
  /\ tef_task = 0 /\ tefSt = [j \in Tefs |-> "none"] /\ tefConv = [j \in Tefs |-> 0]
  /\ emit_task = 0 /\ emit_queue = 0 /\ trace_lock = 0
  /\ emitSt = [k \in Emits |-> "none"] /\ emitSrc = [k \in Emits |-> 0]
  /\ emitQ = [k \in Emits |-> FALSE]
  /\ pending_events = FALSE /\ trace_events = {} /\ continuous_streaming = FALSE

----------------------------------------------------------------------------
(* Scheduling and task slots *)

LoopFree == loop = FREE /\ ~stuck
\* c runs on without giving up the loop, or is picked when what it awaited is ready.
Runs(c, at)    == loop = c /\ ~stuck /\ pc[c] = at
Resumes(c, at) == loop \in {c, FREE} /\ ~stuck /\ pc[c] = at

Goto(c, to) == pc' = [pc EXCEPT ![c] = to] /\ loop' = c /\ UNCHANGED <<stuck, op, waits>>
\* c awaits something of the environment
Park(c, to) == pc' = [pc EXCEPT ![c] = to] /\ loop' = FREE /\ UNCHANGED <<stuck, op, waits>>
\* c awaits task t; awaiting a finished task does not give up the loop
Await(c, t, finished, to) ==
  /\ pc' = [pc EXCEPT ![c] = to] /\ waits' = [waits EXCEPT ![c] = t]
  /\ loop' = IF finished THEN c ELSE FREE
  /\ UNCHANGED <<stuck, op>>
\* the operation of c ends, by a return or by an exception nobody catches
Return(c) ==
  /\ pc' = [pc EXCEPT ![c] = "idle"] /\ op' = [op EXCEPT ![c] = "none"]
  /\ waits' = [waits EXCEPT ![c] = 0]
  /\ loop' = FREE /\ UNCHANGED stuck

AnyOf(S) == CHOOSE x \in S : TRUE
Awaited(at) == {waits[c] : c \in {d \in Callers : pc[d] = at}}

\* Slots of tasks that are over and that nothing refers to any more.
SpareConvs == {i \in Convs \ (Awaited("joinConv") \cup {ctf_tef, ctf_tef_task}) :
                 convSt[i] \in Gone /\ \A j \in Tefs : tefSt[j] = "wait" => tefConv[j] # i}
SpareTefs  == {j \in Tefs \ (Awaited("joinTef") \cup {tef_task}) : tefSt[j] \in Gone}
SpareEmits == {k \in Emits \ (Awaited("joinEmit") \cup {emit_task, emit_queue, trace_lock}) :
                 emitSt[k] \in Gone /\ \A m \in Emits : emitSt[m] \in Gone \/ emitSrc[m] # k}

InitEmitForgotten == UNCHANGED emitVars         \* mutant

\* _init_emit: nothing to do if there is a queue, else a queue and its task
InitEmit ==
  IF emit_queue # 0
  THEN UNCHANGED emitVars
  ELSE /\ SpareEmits # {}
       /\ LET k == AnyOf(SpareEmits) IN
          /\ emit_queue' = k /\ emit_task' = k
          /\ emitSt' = [m \in Emits |-> IF m = k THEN "new"
                                       ELSE IF m \in SpareEmits THEN "none" ELSE emitSt[m]]
          /\ emitQ' = [m \in Emits |-> emitQ[m] /\ m \notin SpareEmits]
       /\ UNCHANGED <<emitSrc, trace_lock>>

CreateTefForgotten == UNCHANGED tefVars         \* mutant

\* self.tef_task = asyncio.create_task(self._parse_and_emit_diff())
CreateTef ==
  /\ SpareTefs # {}
  /\ LET j == AnyOf(SpareTefs) IN
     /\ tef_task' = j
     /\ tefSt' = [t \in Tefs |-> IF t = j THEN "new"
                                ELSE IF t \in SpareTefs THEN "none" ELSE tefSt[t]]
     /\ tefConv' = [tefConv EXCEPT ![j] = 0]

----------------------------------------------------------------------------
(* _cancel_all_tasks *)

Stopped(st) == IF st = "run" THEN "stopping" ELSE st
CancelledTef(st) ==
  CASE st = "new" -> "aborting" [] st = "wait" -> "stopping" [] OTHER -> st
CancelledEmit(st) == IF st \in {"new", "wait", "send"} THEN "stopping" ELSE st

\* The converter is stopped through its object and through its task.
ConvsToStopTaskOnly == {ctf_tef_task}           \* mutant: stop() is not called
ConvsToStop == {ctf_tef, ctf_tef_task}

\* ctf_tef.stop(), drop the handle, cancel the converter's task and await it
CancelConv(c) ==
  /\ Runs(c, "cancelConv")
  /\ convSt' = [i \in Convs |-> IF i \in ConvsToStop THEN Stopped(convSt[i])
                                ELSE convSt[i]]
  /\ ctf_tef' = 0
  /\ IF ctf_tef_task # 0
     THEN Await(c, ctf_tef_task, convSt[ctf_tef_task] \in Finished, "joinConv")
     ELSE Goto(c, "cancelTef")
  /\ UNCHANGED <<ctf_tef_task, convSrc, convBatch, convOut, bt2Vars, servVars, async_q,
                 tefVars, emitVars, dataVars>>

\* mutant: the converter's handle is dropped after the await instead of before it
JoinConvDropsBoth(c) ==
  /\ Resumes(c, "joinConv") /\ convSt[waits[c]] = "done"
  /\ ctf_tef' = 0 /\ ctf_tef_task' = 0 /\ Goto(c, "cancelTef")
  /\ UNCHANGED <<convSt, convSrc, convBatch, convOut, bt2Vars, servVars, async_q, tefVars,
                 emitVars, dataVars>>

\* mutant: a loop until there is no converter, that does not drop the handle
JoinConvRetries(c) ==
  /\ Resumes(c, "joinConv") /\ convSt[waits[c]] = "done"
  /\ Goto(c, "cancelConv")
  /\ UNCHANGED <<bt2Vars, servVars, async_q, convVars, tefVars, emitVars, dataVars>>

\* The await returns: the handle is dropped whatever it names by now.  A converter
\* that died of an exception raises it again here, and the method ends.
JoinConv(c) ==
  /\ Resumes(c, "joinConv")
  /\ \/ /\ convSt[waits[c]] = "done"
        /\ ctf_tef_task' = 0 /\ Goto(c, "cancelTef")
     \/ /\ convSt[waits[c]] = "dead"
        /\ Return(c) /\ UNCHANGED ctf_tef_task
  /\ UNCHANGED <<ctf_tef, convSt, convSrc, convBatch, convOut, bt2Vars, servVars, async_q,
                 tefVars, emitVars, dataVars>>

\* mutant: tef_task is left running
CancelTefForgotten(c) ==
  /\ Runs(c, "cancelTef") /\ Goto(c, "cancelEmit")
  /\ UNCHANGED <<bt2Vars, servVars, async_q, convVars, tefVars, emitVars, dataVars>>

CancelTef(c) ==
  /\ Runs(c, "cancelTef")
  /\ IF tef_task # 0
     THEN /\ tefSt' = [tefSt EXCEPT ![tef_task] = CancelledTef(@)]
          /\ Await(c, tef_task, tefSt[tef_task] \in Finished, "joinTef")
     ELSE Goto(c, "cancelEmit") /\ UNCHANGED tefSt
  /\ UNCHANGED <<tef_task, tefConv, bt2Vars, servVars, async_q, convVars, emitVars, dataVars>>

JoinTef(c) ==
  /\ Resumes(c, "joinTef")
  /\ \/ /\ tefSt[waits[c]] = "done"
        /\ tef_task' = 0 /\ Goto(c, "cancelEmit")
     \/ /\ tefSt[waits[c]] = "dead"
        /\ Return(c) /\ UNCHANGED tef_task
  /\ UNCHANGED <<tefSt, tefConv, bt2Vars, servVars, async_q, convVars, emitVars, dataVars>>

CancelEmit(c) ==
  /\ Runs(c, "cancelEmit")
  /\ IF emit_task # 0
     THEN /\ emitSt' = [emitSt EXCEPT ![emit_task] = CancelledEmit(@)]
          /\ Await(c, emit_task, emitSt[emit_task] \in Finished, "joinEmit")
     ELSE Goto(c, "tasksStopped") /\ UNCHANGED emitSt
  /\ UNCHANGED <<emit_task, emit_queue, emitSrc, emitQ, trace_lock, bt2Vars, servVars,
                 async_q, convVars, tefVars, dataVars>>

\* mutant: the queue of the finished emitter is kept
JoinEmitKeepsQueue(c) ==
  /\ Resumes(c, "joinEmit") /\ emitSt[waits[c]] = "done"
  /\ emit_task' = 0 /\ Goto(c, "tasksStopped")
  /\ UNCHANGED <<emit_queue, emitSt, emitSrc, emitQ, trace_lock, bt2Vars, servVars, async_q,
                 convVars, tefVars, dataVars>>

JoinEmit(c) ==
  /\ Resumes(c, "joinEmit")
  /\ \/ /\ emitSt[waits[c]] = "done"
        /\ emit_task' = 0 /\ emit_queue' = 0 /\ Goto(c, "tasksStopped")
     \/ /\ emitSt[waits[c]] = "dead"
        /\ Return(c) /\ UNCHANGED <<emit_task, emit_queue>>
  /\ UNCHANGED <<emitSt, emitSrc, emitQ, trace_lock, bt2Vars, servVars, async_q,
                 convVars, tefVars, dataVars>>

----------------------------------------------------------------------------
(* trace.reset, and the Socket.IO disconnect handler ("leave") *)

\* _execute_reset called by a client or by the interceptor on a start tag
Reset(c) ==
  /\ LoopFree /\ pc[c] = "idle"
  /\ EarlyReset \/ bt2_thread # "none"
  /\ op' = [op EXCEPT ![c] = "reset"] /\ pc' = [pc EXCEPT ![c] = "cancelConv"]
  /\ loop' = c
  /\ UNCHANGED <<stuck, waits, bt2Vars, servVars, async_q, convVars, tefVars, emitVars, dataVars>>

\* the browser goes away or reloads: a reset only if a trace is live
Leave(c) ==
  /\ LoopFree /\ pc[c] = "idle"
  /\ bt2_thread # "none"
  /\ op' = [op EXCEPT ![c] = "leave"] /\ pc' = [pc EXCEPT ![c] = "cancelConv"]
  /\ loop' = c
  /\ UNCHANGED <<stuck, waits, bt2Vars, servVars, async_q, convVars, tefVars, emitVars, dataVars>>

AgedUnknown(ages) == {"wiped"}                  \* mutant
Aged(ages) == IF ages = {} THEN {} ELSE {"old"}
AgedSeq(s) == [n \in DOMAIN s |-> "old"]

\* The rest of _execute_reset up to the notification: new tasks, then the wipe under
\* trace_lock.  The lock is a threading.Lock: waiting for it blocks the whole loop.
Restart(c) ==
  /\ Runs(c, "tasksStopped") /\ op[c] \in {"reset", "leave"}
  /\ InitEmit /\ CreateTef
  /\ IF trace_lock # 0
     THEN /\ stuck' = TRUE
          /\ UNCHANGED <<loop, pc, op, waits, async_q, convVars, dataVars>>
     ELSE /\ Park(c, "notify")
          /\ trace_events' = {} /\ pending_events' = FALSE
          /\ async_q' = [async_q EXCEPT !.live = <<>>, !.left = AgedSeq(@)]
          /\ convBatch' = [i \in Convs |-> Aged(convBatch[i])]
          /\ convOut' = [i \in Convs |-> IF i \in SpareConvs THEN {} ELSE Aged(convOut[i])]
          /\ convSt' = [i \in Convs |-> IF i \in SpareConvs THEN "none" ELSE convSt[i]]
          /\ UNCHANGED <<ctf_tef, ctf_tef_task, convSrc, continuous_streaming>>
  /\ UNCHANGED <<bt2Vars, servVars>>

\* The notification is out.  Leave then turns streaming off, collect and reset return.
Notified(c) ==
  /\ Resumes(c, "notify")
  /\ Return(c)
  /\ continuous_streaming' = (continuous_streaming /\ op[c] # "leave")
  /\ UNCHANGED <<pending_events, trace_events, bt2Vars, servVars, async_q, convVars,
                 tefVars, emitVars>>

----------------------------------------------------------------------------
(* trace.connect *)

\* Nothing if there is a thread already.  Otherwise a new queue, the thread, the
\* emitter and the consumer, then start_server is awaited.
Connect(c) ==
  /\ LoopFree /\ pc[c] = "idle" /\ bt2_thread = "none"
  /\ op' = [op EXCEPT ![c] = "connect"] /\ pc' = [pc EXCEPT ![c] = "startServer"]
  /\ async_q' = [made |-> TRUE, live |-> <<>>,
                 left |-> IF \E i \in Convs : convSrc[i] = "live" THEN async_q.live ELSE <<>>]
  /\ convSrc' = [i \in Convs |-> IF convSrc[i] = "live" THEN "left" ELSE convSrc[i]]
  /\ bt2_thread' = "running"
  /\ InitEmit /\ CreateTef
  /\ UNCHANGED <<loop, stuck, waits, bt2_thread_stop, servVars, ctf_tef, ctf_tef_task,
                 convSt, convBatch, convOut, dataVars>>

Listening(c) ==
  /\ Resumes(c, "startServer")
  /\ \/ interceptor_server' = TRUE /\ interceptor_task' = TRUE
     \/ MayFail /\ UNCHANGED servVars      \* OSError: the port is taken
  /\ Return(c)
  /\ UNCHANGED <<bt2Vars, async_q, convVars, tefVars, emitVars, dataVars>>

----------------------------------------------------------------------------
(* trace.disconnect and the shutdown of the server: _live_trace_cleanup *)

Cleanup(c) ==
  /\ LoopFree /\ pc[c] = "idle"
  /\ op' = [op EXCEPT ![c] = "cleanup"]
  /\ IF interceptor_server
     THEN pc' = [pc EXCEPT ![c] = "waitClosed"] /\ loop' = FREE
     ELSE pc' = [pc EXCEPT ![c] = "joinServe"] /\ loop' = c
  /\ UNCHANGED <<stuck, waits, bt2Vars, servVars, async_q, convVars, tefVars, emitVars, dataVars>>

\* mutant: the handle of the closed server is kept
ClosedKeepsServer(c) ==
  /\ Resumes(c, "waitClosed") /\ Goto(c, "joinServe")
  /\ UNCHANGED <<servVars, bt2Vars, async_q, convVars, tefVars, emitVars, dataVars>>

\* wait_closed returned or its 5 s are over
Closed(c) ==
  /\ Resumes(c, "waitClosed")
  /\ interceptor_server' = FALSE
  /\ Goto(c, "joinServe")
  /\ UNCHANGED <<interceptor_task, bt2Vars, async_q, convVars, tefVars, emitVars, dataVars>>

\* cancel serve_forever and await it, if it was started
JoinServe(c) ==
  /\ Runs(c, "joinServe")
  /\ IF interceptor_task THEN Park(c, "stopBt2") ELSE Goto(c, "stopBt2")
  /\ UNCHANGED <<servVars, bt2Vars, async_q, convVars, tefVars, emitVars, dataVars>>

\* Without a thread the cleanup ends here, else the thread is told to stop and joined.
StopBt2(c) ==
  /\ Resumes(c, "stopBt2")
  /\ interceptor_task' = FALSE
  /\ IF bt2_thread # "none"
     THEN /\ bt2_thread_stop' = TRUE
          /\ Park(c, IF bt2_thread = "exited" THEN "joinedBt2" ELSE "joinBt2")
     ELSE Return(c) /\ UNCHANGED bt2_thread_stop
  /\ UNCHANGED <<interceptor_server, bt2_thread, async_q, convVars, tefVars, emitVars, dataVars>>

JoinedBt2(c) ==
  /\ Resumes(c, "joinedBt2")
  /\ Goto(c, "cancelConv")
  /\ UNCHANGED <<bt2Vars, servVars, async_q, convVars, tefVars, emitVars, dataVars>>

\* mutant: the handle of the joined thread is kept
FinishCleanupKeepsThread(c) ==
  /\ Runs(c, "tasksStopped") /\ op[c] = "cleanup"
  /\ pending_events' = FALSE /\ trace_events' = {} /\ continuous_streaming' = FALSE
  /\ bt2_thread_stop' = FALSE /\ Return(c)
  /\ UNCHANGED <<bt2_thread, servVars, async_q, convVars, tefVars, emitVars>>

FinishCleanup(c) ==
  /\ Runs(c, "tasksStopped") /\ op[c] = "cleanup"
  /\ pending_events' = FALSE /\ trace_events' = {} /\ continuous_streaming' = FALSE
  /\ bt2_thread' = "none" /\ bt2_thread_stop' = FALSE
  /\ Return(c)
  /\ convOut' = [i \in Convs |-> IF i \in SpareConvs THEN {} ELSE convOut[i]]
  /\ convSt' = [i \in Convs |-> IF i \in SpareConvs THEN "none" ELSE convSt[i]]
  /\ UNCHANGED <<servVars, async_q, ctf_tef, ctf_tef_task, convSrc, convBatch, tefVars,
                 emitVars>>

----------------------------------------------------------------------------
(* trace.stream_start, trace.stream_stop, trace.collect *)

SetStreaming(on) ==
  /\ LoopFree /\ "stream" \in Calls
  /\ continuous_streaming' = on
  /\ UNCHANGED <<callerVars, bt2Vars, servVars, async_q, convVars, tefVars, emitVars,
                 pending_events, trace_events>>

\* Returns an error, without effect, if nothing is pending or while streaming.
Collect(c) ==
  /\ LoopFree /\ pc[c] = "idle"
  /\ pending_events /\ ~continuous_streaming
  /\ pending_events' = FALSE
  /\ op' = [op EXCEPT ![c] = "collect"] /\ pc' = [pc EXCEPT ![c] = "notify"]
  /\ UNCHANGED <<loop, stuck, waits, trace_events, continuous_streaming, bt2Vars, servVars,
                 async_q, convVars, tefVars, emitVars>>

----------------------------------------------------------------------------
(* The bt2 thread: do_stream *)

\* A batch crosses to the loop, which must be free to run async_q.put.
Bt2Put ==
  /\ LoopFree /\ bt2_thread = "running"
  /\ Len(async_q.live) < MaxIn
  /\ async_q' = [async_q EXCEPT !.live = Append(@, "new")]
  /\ UNCHANGED <<callerVars, bt2Vars, servVars, convVars, tefVars, emitVars, dataVars>>

\* The thread sees bt2_thread_stop, or dies of an exception that is not TryAgain.
Bt2Exit ==
  /\ bt2_thread = "running"
  /\ bt2_thread_stop \/ MayFail
  /\ bt2_thread' = "exited"
  /\ pc' = [c \in Callers |-> IF pc[c] = "joinBt2" THEN "joinedBt2" ELSE pc[c]]
  /\ UNCHANGED <<loop, stuck, op, waits, bt2_thread_stop, servVars, async_q, convVars,
                 tefVars, emitVars, dataVars>>

----------------------------------------------------------------------------
(* The converter: StreamingCTFToTEF._run *)

\* one batch of messages out of the input queue
ConvGet(i) ==
  /\ LoopFree /\ convSt[i] = "run" /\ convSrc[i] # "none"
  /\ LET q == convSrc[i] IN
     /\ async_q[q] # <<>>
     /\ convBatch' = [convBatch EXCEPT ![i] = @ \cup {Head(async_q[q])}]
     /\ async_q' = [async_q EXCEPT ![q] = Tail(@)]
  /\ UNCHANGED <<callerVars, bt2Vars, servVars, ctf_tef, ctf_tef_task, convSt, convSrc,
                 convOut, tefVars, emitVars, dataVars>>

\* A full batch, or one that waited for the flush interval, is parsed and put out.
ConvFlush(i) ==
  /\ LoopFree /\ convSt[i] = "run" /\ convBatch[i] # {}
  /\ convOut' = [convOut EXCEPT ![i] = @ \cup convBatch[i]]
  /\ convBatch' = [convBatch EXCEPT ![i] = {}]
  /\ UNCHANGED <<callerVars, bt2Vars, servVars, async_q, ctf_tef, ctf_tef_task, convSt,
                 convSrc, tefVars, emitVars, dataVars>>

\* Parsing raises, or there is no input queue (None.get()): the task ends unnoticed.
ConvDie(i) ==
  /\ LoopFree
  /\ \/ convSt[i] = "run" /\ convSrc[i] = "none"
     \/ convSt[i] \in {"run", "stopping"} /\ convBatch[i] # {} /\ MayFail
  /\ convSt' = [convSt EXCEPT ![i] = "dead"]
  /\ convSrc' = [convSrc EXCEPT ![i] = "none"] /\ convBatch' = [convBatch EXCEPT ![i] = {}]
  /\ UNCHANGED <<callerVars, bt2Vars, servVars, async_q, ctf_tef, ctf_tef_task, convOut,
                 tefVars, emitVars, dataVars>>

\* CancelledError: what is left is parsed and put out
ConvStop(i) ==
  /\ LoopFree /\ convSt[i] = "stopping"
  /\ convSt' = [convSt EXCEPT ![i] = "done"] /\ convSrc' = [convSrc EXCEPT ![i] = "none"]
  /\ convOut' = [convOut EXCEPT ![i] = @ \cup convBatch[i]]
  /\ convBatch' = [convBatch EXCEPT ![i] = {}]
  /\ UNCHANGED <<callerVars, bt2Vars, servVars, async_q, ctf_tef, ctf_tef_task, tefVars,
                 emitVars, dataVars>>

\* External: when the inner get() finished in the same turn as the cancellation,
\* asyncio.wait_for of Python <= 3.11 returns its result and the cancellation is lost.
ConvSwallow(i) ==
  /\ SwallowCancel
  /\ LoopFree /\ convSt[i] = "stopping" /\ convSrc[i] # "none"
  /\ LET q == convSrc[i] IN
     /\ async_q[q] # <<>>
     /\ convBatch' = [convBatch EXCEPT ![i] = @ \cup {Head(async_q[q])}]
     /\ async_q' = [async_q EXCEPT ![q] = Tail(@)]
  /\ convSt' = [convSt EXCEPT ![i] = "run"]
  /\ UNCHANGED <<callerVars, bt2Vars, servVars, ctf_tef, ctf_tef_task, convSrc, convOut,
                 tefVars, emitVars, dataVars>>

----------------------------------------------------------------------------
(* The TEF consumer: _parse_and_emit_diff and _extract_trace_increment *)

\* The top of the loop, "out" being convOut so far in this step: leave if told to stop,
\* else wait for the output of the converter, which is created if there is none.
TefTop(j, out) ==
  \/ /\ bt2_thread_stop
     /\ tefSt' = [tefSt EXCEPT ![j] = "done"] /\ convOut' = out
     /\ tefConv' = [tefConv EXCEPT ![j] = 0]
     /\ UNCHANGED <<ctf_tef, ctf_tef_task, convSt, convSrc, convBatch>>
  \/ /\ ~bt2_thread_stop /\ ctf_tef # 0
     /\ tefSt' = [tefSt EXCEPT ![j] = "wait"] /\ convOut' = out
     /\ tefConv' = [tefConv EXCEPT ![j] = ctf_tef]
     /\ UNCHANGED <<ctf_tef, ctf_tef_task, convSt, convSrc, convBatch>>
  \/ /\ ~bt2_thread_stop /\ ctf_tef = 0
     /\ SpareConvs # {}
     /\ LET i == AnyOf(SpareConvs) IN
        /\ ctf_tef' = i /\ ctf_tef_task' = i
        /\ convSt' = [convSt EXCEPT ![i] = "run"]
        /\ convSrc' = [convSrc EXCEPT ![i] = IF async_q.made THEN "live" ELSE "none"]
        /\ convBatch' = [convBatch EXCEPT ![i] = {}]
        /\ convOut' = [out EXCEPT ![i] = {}]
        /\ tefSt' = [tefSt EXCEPT ![j] = "wait"]
        /\ tefConv' = [tefConv EXCEPT ![j] = i]

TefStart(j) ==
  /\ LoopFree /\ tefSt[j] = "new"
  /\ pending_events' = FALSE
  /\ TefTop(j, convOut)
  /\ UNCHANGED <<callerVars, bt2Vars, servVars, async_q, tef_task, emitVars, trace_events,
                 continuous_streaming>>

\* One result of the converter.  While streaming, and outside the cooldown, the first
\* half of what is pending is sent ("some" events, after which there may be more),
\* else nothing.  put() on the queue None raises outside the inner try block, and the
\* task dies.
TefGet(j) ==
  /\ LoopFree /\ tefSt[j] = "wait" /\ convOut[tefConv[j]] # {}
  /\ LET got == convOut[tefConv[j]] IN
     /\ trace_events' = trace_events \cup got
     /\ \E send, more \in BOOLEAN :
          /\ IF send THEN continuous_streaming ELSE more
          /\ pending_events' = more
          /\ IF emit_queue # 0
             THEN /\ emitQ' = [emitQ EXCEPT ![emit_queue] = @ \/ send]
                  /\ TefTop(j, [convOut EXCEPT ![tefConv[j]] = {}])
             ELSE /\ tefSt' = [tefSt EXCEPT ![j] = "dead"]
                  /\ convOut' = [convOut EXCEPT ![tefConv[j]] = {}]
                  /\ tefConv' = [tefConv EXCEPT ![j] = 0]
                  /\ UNCHANGED <<emitQ, ctf_tef, ctf_tef_task, convSt, convSrc,
                                 convBatch>>
  /\ UNCHANGED <<callerVars, bt2Vars, servVars, async_q, tef_task, emit_task, emit_queue,
                 emitSt, emitSrc, trace_lock, continuous_streaming>>

\* CancelledError at the get: what is pending goes to the emit queue, if there is one
TefStop(j) ==
  /\ LoopFree /\ tefSt[j] = "stopping"
  /\ tefSt' = [tefSt EXCEPT ![j] = "done"] /\ tefConv' = [tefConv EXCEPT ![j] = 0]
  /\ pending_events' = FALSE
  /\ emitQ' = IF emit_queue # 0 THEN [emitQ EXCEPT ![emit_queue] = @ \/ pending_events]
              ELSE emitQ
  /\ UNCHANGED <<callerVars, bt2Vars, servVars, async_q, convVars, tef_task, emit_task,
                 emit_queue, emitSt, emitSrc, trace_lock, trace_events,
                 continuous_streaming>>

\* cancelled before its first step: the body never runs
TefAbort(j) ==
  /\ LoopFree /\ tefSt[j] = "aborting"
  /\ tefSt' = [tefSt EXCEPT ![j] = "done"]
  /\ UNCHANGED <<callerVars, bt2Vars, servVars, async_q, convVars, tef_task, tefConv,
                 emitVars, dataVars>>

----------------------------------------------------------------------------
(* The emitter: _emit_loop *)

\* The top of the loop: self._emit_queue is read anew, None.get() raises.
EmitTop(k) ==
  /\ emitSt' = [emitSt EXCEPT ![k] = IF emit_queue # 0 THEN "wait" ELSE "dead"]
  /\ emitSrc' = [emitSrc EXCEPT ![k] = emit_queue]

EmitStart(k) ==
  /\ LoopFree /\ emitSt[k] = "new"
  /\ EmitTop(k)
  /\ UNCHANGED <<callerVars, bt2Vars, servVars, async_q, convVars, tefVars, emit_task,
                 emit_queue, emitQ, trace_lock, dataVars>>

\* An events message: take trace_lock, and hold it while the emit is awaited.
EmitTake(k) ==
  /\ LoopFree /\ emitSt[k] = "wait" /\ emitQ[emitSrc[k]]
  /\ emitQ' = [emitQ EXCEPT ![emitSrc[k]] = FALSE]
  /\ IF trace_lock # 0
     THEN stuck' = TRUE /\ UNCHANGED <<emitSt, trace_lock>>
     ELSE /\ emitSt' = [emitSt EXCEPT ![k] = "send"] /\ trace_lock' = k
          /\ UNCHANGED stuck
  /\ UNCHANGED <<loop, pc, op, waits, bt2Vars, servVars, async_q, convVars, tefVars,
                 emit_task, emit_queue, emitSrc, dataVars>>

EmitSent(k) ==
  /\ LoopFree /\ emitSt[k] = "send"
  /\ trace_lock' = 0 /\ EmitTop(k)
  /\ UNCHANGED <<callerVars, bt2Vars, servVars, async_q, convVars, tefVars, emit_task,
                 emit_queue, emitQ, dataVars>>

\* mutant: acquire and release instead of a with block
EmitStopKeepsLock(k) ==
  /\ LoopFree /\ emitSt[k] = "stopping"
  /\ emitSt' = [emitSt EXCEPT ![k] = "done"] /\ emitSrc' = [emitSrc EXCEPT ![k] = 0]
  /\ UNCHANGED <<callerVars, bt2Vars, servVars, async_q, convVars, tefVars, emit_task,
                 emit_queue, emitQ, trace_lock, dataVars>>

\* CancelledError: leaving the with block releases the lock
EmitStop(k) ==
  /\ LoopFree /\ emitSt[k] = "stopping"
  /\ emitSt' = [emitSt EXCEPT ![k] = "done"] /\ emitSrc' = [emitSrc EXCEPT ![k] = 0]
  /\ trace_lock' = IF trace_lock = k THEN 0 ELSE trace_lock
  /\ UNCHANGED <<callerVars, bt2Vars, servVars, async_q, convVars, tefVars, emit_task,
                 emit_queue, emitQ, dataVars>>

----------------------------------------------------------------------------
Call(c) ==
  \/ "connect" \in Calls /\ Connect(c)
  \/ "cleanup" \in Calls /\ Cleanup(c)
  \/ "reset" \in Calls /\ Reset(c)
  \/ "leave" \in Calls /\ Leave(c)
  \/ "collect" \in Calls /\ Collect(c)
Continue(c) ==
  \/ CancelConv(c) \/ JoinConv(c) \/ CancelTef(c) \/ JoinTef(c) \/ CancelEmit(c) \/ JoinEmit(c)
  \/ Restart(c) \/ Notified(c) \/ Listening(c) \/ Closed(c) \/ JoinServe(c)
  \/ StopBt2(c) \/ JoinedBt2(c) \/ FinishCleanup(c)
Conv(i) == ConvGet(i) \/ ConvFlush(i) \/ ConvDie(i) \/ ConvStop(i) \/ ConvSwallow(i)
Tef(j)  == TefStart(j) \/ TefGet(j) \/ TefStop(j) \/ TefAbort(j)
Emit(k) == EmitStart(k) \/ EmitTake(k) \/ EmitSent(k) \/ EmitStop(k)

Next ==
  \/ \E c \in Callers : Call(c) \/ Continue(c)
  \/ \E on \in BOOLEAN : SetStreaming(on)
  \/ Bt2Put \/ Bt2Exit
  \/ \E i \in Convs : Conv(i)
  \/ \E j \in Tefs : Tef(j)
  \/ \E k \in Emits : Emit(k)

Spec == Init /\ [][Next]_vars

\* asyncio runs ready coroutines first come, first served, so one that is ready again
\* and again whenever the loop is free does get its turn (strong fairness); the bt2
\* thread notices the stop flag.  Nobody has to call anything.
Fairness ==
  /\ \A c \in Callers : SF_vars(Continue(c))
  /\ WF_vars(bt2_thread_stop /\ Bt2Exit)
  /\ \A i \in Convs : SF_vars(Conv(i))
  /\ \A j \in Tefs : SF_vars(Tef(j))
  /\ \A k \in Emits : SF_vars(Emit(k))
FairSpec == Spec /\ Fairness

----------------------------------------------------------------------------
(* Properties *)

LiveConvs == {i \in Convs : convSt[i] = "run"}
LiveTefs  == {j \in Tefs : tefSt[j] \in {"new", "wait"}}
LiveEmits == {k \in Emits : emitSt[k] \in {"new", "wait", "send"}}
AllIdle   == loop = FREE /\ \A c \in Callers : pc[c] = "idle"

\* trace_lock is held exactly by the emitter that is inside an events emit, also when
\* that emitter is cancelled in the middle of it or a reset gave up its handle.
LockHeldBySender ==
  /\ trace_lock # 0 => emitSt[trace_lock] \in {"send", "stopping"}
  /\ \A k \in Emits : emitSt[k] = "send" => trace_lock = k

\* The emit queue and the task that empties it are made and dropped together,
\* whoever resets or disconnects in the meantime.
QueueHasEmitter == emit_queue = emit_task

\* A running consumer is tef_task and a running emitter is emit_task: no operation
\* overwrites the handle of a task that still runs, which nobody could cancel then.
NoStrayTask == LiveTefs \subseteq {tef_task} /\ LiveEmits \subseteq {emit_task}

\* No background task dies of an operation on a handle that another coroutine set to
\* None while the task was waiting.
NoTaskDies ==
  /\ \A j \in Tefs : tefSt[j] # "dead"
  /\ \A k \in Emits : emitSt[k] # "dead"

\* The event loop never waits for trace_lock, whose holder needs the loop to go on.
LoopNeverBlocks == ~stuck

\* Once trace.disconnect is through, none of the background tasks runs on.
CleanShutdown ==
  bt2_thread = "none" => LiveConvs = {} /\ LiveTefs = {} /\ LiveEmits = {}

\* When no operation is under way, the consumer waits on the one converter that runs
\* and that the next reset or disconnect will stop.
ConsumerFed ==
  AllIdle => /\ LiveConvs \subseteq {ctf_tef}
             /\ \A j \in Tefs : tefSt[j] = "wait" =>
                  tefConv[j] = ctf_tef /\ convSt[tefConv[j]] = "run"

\* Between operations a bt2 thread is there exactly if the interceptor listens, so
\* that "already listening" is a true answer to trace.connect.
ListeningIfConnected ==
  AllIdle => (bt2_thread # "none" <=> interceptor_server)

\* trace.disconnect never returns with the bt2 thread or the server still there.
DisconnectTearsDown ==
  [][\A c \in Callers : op[c] = "cleanup" /\ op'[c] = "none" =>
        bt2_thread' = "none" /\ ~interceptor_server']_vars

\* After a reset no event reaches the trace that was already queued when it came.
NoStaleEvents == "old" \notin trace_events

\* A reset or a disconnect that began is over at some time.
OperationsEnd == \A c \in Callers : (op[c] # "none") ~> (op[c] = "none")

\* What the bt2 thread handed over is consumed, or wiped by a reset.
QueueDrains == (async_q.live # <<>> /\ bt2_thread = "running") ~>
               (async_q.live = <<>> \/ bt2_thread # "running")
=============================================================================
