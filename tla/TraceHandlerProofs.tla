------------------------- MODULE TraceHandlerProofs -------------------------
(***************************************************************************)
(* Type correctness of TraceHandler, and the discipline of trace_lock and  *)
(* of the emit queue, for any number of callers and tasks and with every   *)
(* failure the module knows.  Then, for operations that do not overlap,    *)
(* that every handle names the task it should and what follows from it.    *)
(***************************************************************************)
EXTENDS TraceHandler, TLAPS

LEMMA AnyOfIn ==
  ASSUME NEW S, S # {}
  PROVE  AnyOf(S) \in S
BY DEF AnyOf

LEMMA AgedSeqType ==
  ASSUME NEW s \in Seq(Ages)
  PROVE  AgedSeq(s) \in Seq(Ages)
BY DEF AgedSeq, Ages

LEMMA SpareTypes ==
  /\ SpareConvs \subseteq Convs /\ SpareTefs \subseteq Tefs /\ SpareEmits \subseteq Emits
BY DEF SpareConvs, SpareTefs, SpareEmits

LEMMA InitType == Init => TypeOK
<1> SUFFICES ASSUME Init PROVE TypeOK
  OBVIOUS
<1>1. CallerOK
  BY DEF Init, CallerOK, PCs, Ops
<1>2. Bt2OK /\ ServOK /\ DataOK
  BY DEF Init, Bt2OK, ServOK, DataOK, Threads
<1>3. QueueOK
  <2>1. <<>> \in Seq(Ages)
    OBVIOUS
  <2>2. QED
    BY <2>1 DEF Init, QueueOK
<1>4. ConvOK
  BY BoundsAssumption DEF Init, ConvOK, ConvSts
<1>5. TefOK
  BY BoundsAssumption DEF Init, TefOK, TefSts
<1>6. EmitOK
  BY BoundsAssumption DEF Init, EmitOK, EmitSts
<1>7. QED
  BY <1>1, <1>2, <1>3, <1>4, <1>5, <1>6 DEF TypeOK

----------------------------------------------------------------------------
(* What the helpers of the callers do to the control state *)

LEMMA GotoType ==
  ASSUME CallerOK, NEW c \in Callers, NEW to \in PCs, Goto(c, to) \/ Park(c, to)
  PROVE  CallerOK'
BY DEF CallerOK, Goto, Park

LEMMA AwaitType ==
  ASSUME CallerOK, NEW c \in Callers, NEW to \in PCs, NEW t \in Nat, NEW f, Await(c, t, f, to)
  PROVE  CallerOK'
BY DEF CallerOK, Await

LEMMA ReturnType ==
  ASSUME CallerOK, NEW c \in Callers, Return(c)
  PROVE  CallerOK'
BY DEF CallerOK, Return, PCs, Ops

LEMMA InitEmitType ==
  ASSUME EmitOK, InitEmit
  PROVE  EmitOK'
<1>1. CASE emit_queue # 0
  BY <1>1 DEF EmitOK, InitEmit, emitVars
<1>2. CASE emit_queue = 0
  <2>1. SpareEmits # {}
    BY <1>2 DEF InitEmit
  <2>2. PICK k \in Emits : k = AnyOf(SpareEmits)
    BY <2>1, AnyOfIn, SpareTypes
  <2>3. k \in 0..MaxEmit
    BY <2>2, BoundsAssumption DEF Emits
  <2>4. emit_task' = k /\ emit_queue' = k /\ UNCHANGED <<emitSrc, trace_lock>>
    BY <1>2, <2>2 DEF InitEmit
  <2>5. emitSt' \in [Emits -> EmitSts] /\ emitQ' \in [Emits -> BOOLEAN]
    BY <1>2 DEF InitEmit, EmitOK, EmitSts
  <2>6. QED
    BY <2>3, <2>4, <2>5 DEF EmitOK
<1>3. QED
  BY <1>1, <1>2

LEMMA CreateTefType ==
  ASSUME TefOK, CreateTef
  PROVE  TefOK'
<1>1. SpareTefs # {}
  BY DEF CreateTef
<1>2. PICK j \in Tefs : j = AnyOf(SpareTefs)
  BY <1>1, AnyOfIn, SpareTypes
<1>3. j \in 0..MaxTef /\ 0 \in 0..MaxConv
  BY <1>2, BoundsAssumption DEF Tefs
<1>4. tef_task' = j /\ tefConv' = [tefConv EXCEPT ![j] = 0]
  BY <1>2 DEF CreateTef
<1>5. tefSt' \in [Tefs -> TefSts]
  BY DEF CreateTef, TefOK, TefSts
<1>6. \A t \in Tefs : tefSt'[t] = "wait" => t # j /\ tefSt[t] = "wait"
  BY <1>2 DEF CreateTef
<1>7. QED
  BY <1>2, <1>3, <1>4, <1>5, <1>6 DEF TefOK

\* A group of variables that a step leaves alone keeps its type.
LEMMA Frame ==
  ASSUME TypeOK
  PROVE  /\ UNCHANGED callerVars => CallerOK'
         /\ UNCHANGED bt2Vars => Bt2OK'
         /\ UNCHANGED servVars => ServOK'
         /\ UNCHANGED async_q => QueueOK'
         /\ UNCHANGED convVars => ConvOK'
         /\ UNCHANGED tefVars => TefOK'
         /\ UNCHANGED emitVars => EmitOK'
         /\ UNCHANGED dataVars => DataOK'
<1>1. UNCHANGED callerVars => CallerOK'
  BY DEF TypeOK, callerVars, CallerOK
<1>2. UNCHANGED bt2Vars => Bt2OK'
  BY DEF TypeOK, bt2Vars, Bt2OK
<1>3. UNCHANGED servVars => ServOK'
  BY DEF TypeOK, servVars, ServOK
<1>4. UNCHANGED async_q => QueueOK'
  BY DEF TypeOK, QueueOK
<1>5. UNCHANGED convVars => ConvOK'
  BY DEF TypeOK, convVars, ConvOK
<1>6. UNCHANGED tefVars => TefOK'
  BY DEF TypeOK, tefVars, TefOK
<1>7. UNCHANGED emitVars => EmitOK'
  BY DEF TypeOK, emitVars, EmitOK
<1>8. UNCHANGED dataVars => DataOK'
  BY DEF TypeOK, dataVars, DataOK
<1>9. QED
  BY <1>1, <1>2, <1>3, <1>4, <1>5, <1>6, <1>7, <1>8

----------------------------------------------------------------------------
(* One lemma per action: the groups of variables the action changes *)

LEMMA CancelConvType ==
  ASSUME TypeOK, NEW c \in Callers, CancelConv(c)
  PROVE  TypeOK'
<1>1. CallerOK'
  <2>1. ctf_tef_task \in Nat
    BY BoundsAssumption DEF TypeOK, ConvOK
  <2>2. QED
    BY <2>1, AwaitType, GotoType DEF CancelConv, PCs, TypeOK
<1>2. ConvOK'
  BY BoundsAssumption DEF CancelConv, TypeOK, ConvOK, ConvSts, Stopped
<1>3. QED
  BY <1>1, <1>2, Frame DEF CancelConv, TypeOK

LEMMA JoinConvType ==
  ASSUME TypeOK, NEW c \in Callers, JoinConv(c)
  PROVE  TypeOK'
<1>1. CallerOK'
  BY GotoType, ReturnType DEF JoinConv, PCs, TypeOK
<1>2. ConvOK'
  BY BoundsAssumption DEF JoinConv, TypeOK, ConvOK
<1>3. QED
  BY <1>1, <1>2, Frame DEF JoinConv, TypeOK

LEMMA CancelTefType ==
  ASSUME TypeOK, NEW c \in Callers, CancelTef(c)
  PROVE  TypeOK'
<1>1. CallerOK'
  <2>1. tef_task \in Nat
    BY BoundsAssumption DEF TypeOK, TefOK
  <2>2. QED
    BY <2>1, AwaitType, GotoType DEF CancelTef, PCs, TypeOK
<1>2. TefOK'
  BY DEF CancelTef, TypeOK, TefOK, TefSts, CancelledTef
<1>3. QED
  BY <1>1, <1>2, Frame DEF CancelTef, TypeOK

LEMMA JoinTefType ==
  ASSUME TypeOK, NEW c \in Callers, JoinTef(c)
  PROVE  TypeOK'
<1>1. CallerOK'
  BY GotoType, ReturnType DEF JoinTef, PCs, TypeOK
<1>2. TefOK'
  BY BoundsAssumption DEF JoinTef, TypeOK, TefOK
<1>3. QED
  BY <1>1, <1>2, Frame DEF JoinTef, TypeOK

LEMMA CancelEmitType ==
  ASSUME TypeOK, NEW c \in Callers, CancelEmit(c)
  PROVE  TypeOK'
<1>1. CallerOK'
  <2>1. emit_task \in Nat
    BY BoundsAssumption DEF TypeOK, EmitOK
  <2>2. QED
    BY <2>1, AwaitType, GotoType DEF CancelEmit, PCs, TypeOK
<1>2. EmitOK'
  BY DEF CancelEmit, TypeOK, EmitOK, EmitSts, CancelledEmit
<1>3. QED
  BY <1>1, <1>2, Frame DEF CancelEmit, TypeOK

LEMMA JoinEmitType ==
  ASSUME TypeOK, NEW c \in Callers, JoinEmit(c)
  PROVE  TypeOK'
<1>1. CallerOK'
  BY GotoType, ReturnType DEF JoinEmit, PCs, TypeOK
<1>2. EmitOK'
  BY BoundsAssumption DEF JoinEmit, TypeOK, EmitOK
<1>3. QED
  BY <1>1, <1>2, Frame DEF JoinEmit, TypeOK

\* reset, leave and collect only take the caller to its first step
LEMMA CallType ==
  ASSUME TypeOK, NEW c \in Callers, Reset(c) \/ Leave(c) \/ Collect(c) \/ Cleanup(c)
  PROVE  TypeOK'
<1>1. CallerOK'
  BY DEF Reset, Leave, Collect, Cleanup, TypeOK, CallerOK, Ops, PCs
<1>2. DataOK'
  BY Frame DEF Reset, Leave, Collect, Cleanup, TypeOK, DataOK
<1>3. QED
  BY <1>1, <1>2, Frame DEF Reset, Leave, Collect, Cleanup, TypeOK

LEMMA RestartType ==
  ASSUME TypeOK, NEW c \in Callers, Restart(c)
  PROVE  TypeOK'
<1>1. EmitOK' /\ TefOK'
  BY InitEmitType, CreateTefType DEF Restart, TypeOK
<1>2. CASE trace_lock # 0
  <2>1. CallerOK'
    BY <1>2 DEF Restart, TypeOK, CallerOK
  <2>2. QED
    BY <1>1, <1>2, <2>1, Frame DEF Restart, TypeOK
<1>3. CASE trace_lock = 0
  <2>1. CallerOK'
    BY <1>3, GotoType DEF Restart, TypeOK, PCs
  <2>2. QueueOK'
    <3>1. async_q.live \in Seq(Ages)
      BY DEF TypeOK, QueueOK
    <3>2. AgedSeq(async_q.left) \in Seq(Ages) /\ AgedSeq(async_q.live) \in Seq(Ages)
      BY AgedSeqType DEF TypeOK, QueueOK
    <3>3. <<>> \in Seq(Ages)
      OBVIOUS
    <3>4. QED
      BY <1>3, <3>2, <3>3 DEF Restart, TypeOK, QueueOK
  <2>3. ConvOK'
    BY <1>3 DEF Restart, TypeOK, ConvOK, ConvSts, Aged, Ages
  <2>4. DataOK'
    BY <1>3 DEF Restart, TypeOK, DataOK
  <2>5. QED
    BY <1>1, <2>1, <2>2, <2>3, <2>4, Frame DEF Restart, TypeOK
<1>4. QED
  BY <1>2, <1>3

LEMMA NotifiedType ==
  ASSUME TypeOK, NEW c \in Callers, Notified(c)
  PROVE  TypeOK'
<1>1. CallerOK'
  BY ReturnType DEF Notified, TypeOK
<1>2. DataOK'
  BY DEF Notified, TypeOK, DataOK
<1>3. QED
  BY <1>1, <1>2, Frame DEF Notified, TypeOK

LEMMA ConnectType ==
  ASSUME TypeOK, NEW c \in Callers, Connect(c)
  PROVE  TypeOK'
<1>1. EmitOK' /\ TefOK'
  BY InitEmitType, CreateTefType DEF Connect, TypeOK
<1>2. CallerOK' /\ Bt2OK'
  BY DEF Connect, TypeOK, CallerOK, Bt2OK, Ops, PCs, Threads
<1>3. QueueOK'
  <2>1. <<>> \in Seq(Ages)
    OBVIOUS
  <2>2. QED
    BY <2>1 DEF Connect, TypeOK, QueueOK
<1>4. ConvOK'
  BY DEF Connect, TypeOK, ConvOK
<1>5. QED
  BY <1>1, <1>2, <1>3, <1>4, Frame DEF Connect, TypeOK

LEMMA ListeningType ==
  ASSUME TypeOK, NEW c \in Callers, Listening(c)
  PROVE  TypeOK'
<1>1. CallerOK'
  BY ReturnType DEF Listening, TypeOK
<1>2. ServOK'
  BY Frame DEF Listening, ServOK
<1>3. QED
  BY <1>1, <1>2, Frame DEF Listening, TypeOK

\* the steps of _live_trace_cleanup before and after _cancel_all_tasks
LEMMA CleanupType ==
  ASSUME TypeOK, NEW c \in Callers,
         Closed(c) \/ JoinServe(c) \/ StopBt2(c) \/ JoinedBt2(c) \/ FinishCleanup(c)
  PROVE  TypeOK'
<1>1. CASE Closed(c)
  <2>1. CallerOK' /\ ServOK'
    BY <1>1, GotoType DEF Closed, TypeOK, PCs, ServOK
  <2>2. QED
    BY <1>1, <2>1, Frame DEF Closed, TypeOK
<1>2. CASE JoinServe(c)
  <2>1. CallerOK'
    BY <1>2, GotoType DEF JoinServe, TypeOK, PCs
  <2>2. QED
    BY <1>2, <2>1, Frame DEF JoinServe, TypeOK
<1>3. CASE StopBt2(c)
  <2>1. CallerOK'
    BY <1>3, GotoType, ReturnType DEF StopBt2, TypeOK, PCs
  <2>2. ServOK' /\ Bt2OK'
    BY <1>3 DEF StopBt2, TypeOK, ServOK, Bt2OK
  <2>3. QED
    BY <1>3, <2>1, <2>2, Frame DEF StopBt2, TypeOK
<1>4. CASE JoinedBt2(c)
  <2>1. CallerOK'
    BY <1>4, GotoType DEF JoinedBt2, TypeOK, PCs
  <2>2. QED
    BY <1>4, <2>1, Frame DEF JoinedBt2, TypeOK
<1>5. CASE FinishCleanup(c)
  <2>1. CallerOK'
    BY <1>5, ReturnType DEF FinishCleanup, TypeOK
  <2>2. Bt2OK' /\ DataOK'
    BY <1>5 DEF FinishCleanup, TypeOK, Bt2OK, DataOK, Threads
  <2>3. ConvOK'
    BY <1>5 DEF FinishCleanup, TypeOK, ConvOK, ConvSts
  <2>4. QED
    BY <1>5, <2>1, <2>2, <2>3, Frame DEF FinishCleanup, TypeOK
<1>6. QED
  BY <1>1, <1>2, <1>3, <1>4, <1>5

LEMMA StreamingType ==
  ASSUME TypeOK, NEW on \in BOOLEAN, SetStreaming(on)
  PROVE  TypeOK'
<1>1. DataOK'
  BY DEF SetStreaming, TypeOK, DataOK
<1>2. QED
  BY <1>1, Frame DEF SetStreaming, TypeOK

LEMMA Bt2PutType ==
  ASSUME TypeOK, Bt2Put
  PROVE  TypeOK'
<1>1. Append(async_q.live, "new") \in Seq(Ages)
  BY DEF TypeOK, QueueOK, Ages
<1>2. QueueOK'
  BY <1>1 DEF Bt2Put, TypeOK, QueueOK
<1>3. QED
  BY <1>2, Frame DEF Bt2Put, TypeOK

LEMMA Bt2ExitType ==
  ASSUME TypeOK, Bt2Exit
  PROVE  TypeOK'
<1>1. CallerOK' /\ Bt2OK'
  BY DEF Bt2Exit, TypeOK, CallerOK, PCs, Bt2OK, Threads
<1>2. QED
  BY <1>1, Frame DEF Bt2Exit, TypeOK

----------------------------------------------------------------------------
(* The background tasks *)

\* what a converter takes out of its queue
LEMMA TakeType ==
  ASSUME TypeOK, NEW i \in Convs, convSrc[i] # "none", async_q[convSrc[i]] # <<>>,
         async_q' = [async_q EXCEPT ![convSrc[i]] = Tail(@)]
  PROVE  Head(async_q[convSrc[i]]) \in Ages /\ QueueOK'
<1>1. convSrc[i] \in {"live", "left"}
  BY DEF TypeOK, ConvOK
<1>2. async_q[convSrc[i]] \in Seq(Ages)
  BY <1>1 DEF TypeOK, QueueOK
<1>3. Head(async_q[convSrc[i]]) \in Ages /\ Tail(async_q[convSrc[i]]) \in Seq(Ages)
  BY <1>2
<1>4. CASE convSrc[i] = "live"
  BY <1>3, <1>4 DEF TypeOK, QueueOK
<1>5. CASE convSrc[i] = "left"
  BY <1>3, <1>5 DEF TypeOK, QueueOK
<1>6. QED
  BY <1>1, <1>3, <1>4, <1>5

LEMMA ConvType ==
  ASSUME TypeOK, NEW i \in Convs, Conv(i)
  PROVE  TypeOK'
<1>1. CASE ConvGet(i)
  <2>1. Head(async_q[convSrc[i]]) \in Ages /\ QueueOK'
    BY <1>1, TakeType DEF ConvGet
  <2>2. ConvOK'
    BY <1>1, <2>1 DEF ConvGet, TypeOK, ConvOK
  <2>3. QED
    BY <1>1, <2>1, <2>2, Frame DEF ConvGet, TypeOK
<1>2. CASE ConvFlush(i)
  <2>1. ConvOK'
    BY <1>2 DEF ConvFlush, TypeOK, ConvOK
  <2>2. QED
    BY <1>2, <2>1, Frame DEF ConvFlush, TypeOK
<1>3. CASE ConvDie(i)
  <2>1. ConvOK'
    BY <1>3 DEF ConvDie, TypeOK, ConvOK, ConvSts
  <2>2. QED
    BY <1>3, <2>1, Frame DEF ConvDie, TypeOK
<1>4. CASE ConvStop(i)
  <2>1. ConvOK'
    BY <1>4 DEF ConvStop, TypeOK, ConvOK, ConvSts
  <2>2. QED
    BY <1>4, <2>1, Frame DEF ConvStop, TypeOK
<1>5. CASE ConvSwallow(i)
  <2>1. Head(async_q[convSrc[i]]) \in Ages /\ QueueOK'
    BY <1>5, TakeType DEF ConvSwallow
  <2>2. ConvOK'
    BY <1>5, <2>1 DEF ConvSwallow, TypeOK, ConvOK, ConvSts
  <2>3. QED
    BY <1>5, <2>1, <2>2, Frame DEF ConvSwallow, TypeOK
<1>6. QED
  BY <1>1, <1>2, <1>3, <1>4, <1>5 DEF Conv

\* The top of the consumer's loop, with "out" for what the converters have put out.
LEMMA TefTopType ==
  ASSUME TypeOK, NEW j \in Tefs, NEW out \in [Convs -> SUBSET Ages], TefTop(j, out),
         UNCHANGED tef_task
  PROVE  TefOK' /\ ConvOK'
<1>1. CASE tefSt' = [tefSt EXCEPT ![j] = "done"] /\ tefConv' = [tefConv EXCEPT ![j] = 0]
           /\ convOut' = out
           /\ UNCHANGED <<ctf_tef, ctf_tef_task, convSt, convSrc, convBatch>>
  <2>1. TefOK'
    BY <1>1, BoundsAssumption DEF TypeOK, TefOK, TefSts
  <2>2. ConvOK'
    BY <1>1 DEF TypeOK, ConvOK
  <2>3. QED
    BY <2>1, <2>2
<1>2. CASE tefSt' = [tefSt EXCEPT ![j] = "wait"] /\ tefConv' = [tefConv EXCEPT ![j] = ctf_tef]
           /\ ctf_tef # 0 /\ convOut' = out
           /\ UNCHANGED <<ctf_tef, ctf_tef_task, convSt, convSrc, convBatch>>
  <2>1. ctf_tef \in Convs /\ ctf_tef \in 0..MaxConv
    BY <1>2, BoundsAssumption DEF TypeOK, ConvOK, Convs
  <2>2. TefOK'
    BY <1>2, <2>1 DEF TypeOK, TefOK, TefSts
  <2>3. ConvOK'
    BY <1>2 DEF TypeOK, ConvOK
  <2>4. QED
    BY <2>2, <2>3
<1>3. CASE SpareConvs # {}
           /\ \E i \in Convs :
                /\ ctf_tef' = i /\ ctf_tef_task' = i
                /\ convSt' = [convSt EXCEPT ![i] = "run"]
                /\ convSrc' = [convSrc EXCEPT ![i] = IF async_q.made THEN "live" ELSE "none"]
                /\ convBatch' = [convBatch EXCEPT ![i] = {}]
                /\ convOut' = [out EXCEPT ![i] = {}]
                /\ tefSt' = [tefSt EXCEPT ![j] = "wait"]
                /\ tefConv' = [tefConv EXCEPT ![j] = i]
  <2>1. PICK i \in Convs :
                /\ ctf_tef' = i /\ ctf_tef_task' = i
                /\ convSt' = [convSt EXCEPT ![i] = "run"]
                /\ convSrc' = [convSrc EXCEPT ![i] = IF async_q.made THEN "live" ELSE "none"]
                /\ convBatch' = [convBatch EXCEPT ![i] = {}]
                /\ convOut' = [out EXCEPT ![i] = {}]
                /\ tefSt' = [tefSt EXCEPT ![j] = "wait"]
                /\ tefConv' = [tefConv EXCEPT ![j] = i]
    BY <1>3
  <2>2. i \in 0..MaxConv
    BY BoundsAssumption DEF Convs
  <2>3. TefOK'
    BY <2>1, <2>2 DEF TypeOK, TefOK, TefSts
  <2>4. ConvOK'
    BY <2>1, <2>2 DEF TypeOK, ConvOK, ConvSts
  <2>5. QED
    BY <2>3, <2>4
<1>4. QED
  <2>1. SpareConvs # {} => AnyOf(SpareConvs) \in Convs
    BY AnyOfIn, SpareTypes
  <2>2. QED
    BY <1>1, <1>2, <1>3, <2>1 DEF TefTop

LEMMA TefGetType ==
  ASSUME TypeOK, NEW j \in Tefs, TefGet(j)
  PROVE  TypeOK'
<1>1. tefConv[j] \in Convs
  BY DEF TefGet, TypeOK, TefOK
<1>2. [convOut EXCEPT ![tefConv[j]] = {}] \in [Convs -> SUBSET Ages]
  BY DEF TypeOK, ConvOK
<1>3. DataOK'
  BY <1>1 DEF TefGet, TypeOK, DataOK, ConvOK
<1>4. EmitOK'
  BY DEF TefGet, TypeOK, EmitOK
<1>5. TefOK' /\ ConvOK'
  <2>1. CASE emit_queue # 0
    <3>1. TefTop(j, [convOut EXCEPT ![tefConv[j]] = {}])
      BY <2>1 DEF TefGet
    <3>2. UNCHANGED tef_task
      BY DEF TefGet
    <3>3. QED
      BY <1>2, <3>1, <3>2, TefTopType
  <2>2. CASE emit_queue = 0
    <3>1. /\ tefSt' = [tefSt EXCEPT ![j] = "dead"]
          /\ convOut' = [convOut EXCEPT ![tefConv[j]] = {}]
          /\ tefConv' = [tefConv EXCEPT ![j] = 0]
          /\ UNCHANGED <<tef_task, ctf_tef, ctf_tef_task, convSt, convSrc, convBatch>>
      BY <2>2 DEF TefGet
    <3>2. TefOK'
      BY <3>1, BoundsAssumption DEF TypeOK, TefOK, TefSts
    <3>3. ConvOK'
      BY <1>2, <3>1 DEF TypeOK, ConvOK
    <3>4. QED
      BY <3>2, <3>3
  <2>3. QED
    BY <2>1, <2>2
<1>6. QED
  BY <1>3, <1>4, <1>5, Frame DEF TefGet, TypeOK

LEMMA TefType ==
  ASSUME TypeOK, NEW j \in Tefs, Tef(j)
  PROVE  TypeOK'
<1>1. CASE TefStart(j)
  <2>1. convOut \in [Convs -> SUBSET Ages]
    BY DEF TypeOK, ConvOK
  <2>2. TefOK' /\ ConvOK'
    BY <1>1, <2>1, TefTopType DEF TefStart
  <2>3. DataOK'
    BY <1>1 DEF TefStart, TypeOK, DataOK
  <2>4. QED
    BY <1>1, <2>2, <2>3, Frame DEF TefStart, TypeOK
<1>2. CASE TefGet(j)
  BY <1>2, TefGetType
<1>3. CASE TefStop(j)
  <2>1. TefOK'
    BY <1>3, BoundsAssumption DEF TefStop, TypeOK, TefOK, TefSts
  <2>2. EmitOK' /\ DataOK'
    BY <1>3 DEF TefStop, TypeOK, EmitOK, DataOK
  <2>3. QED
    BY <1>3, <2>1, <2>2, Frame DEF TefStop, TypeOK
<1>4. CASE TefAbort(j)
  <2>1. TefOK'
    BY <1>4 DEF TefAbort, TypeOK, TefOK, TefSts
  <2>2. QED
    BY <1>4, <2>1, Frame DEF TefAbort, TypeOK
<1>5. QED
  BY <1>1, <1>2, <1>3, <1>4 DEF Tef

LEMMA EmitType ==
  ASSUME TypeOK, NEW k \in Emits, Emit(k)
  PROVE  TypeOK'
<1>0. k \in 0..MaxEmit /\ 0 \in 0..MaxEmit
  BY BoundsAssumption DEF Emits
<1>1. CASE EmitStart(k)
  <2>1. EmitOK'
    BY <1>1 DEF EmitStart, EmitTop, TypeOK, EmitOK, EmitSts
  <2>2. QED
    BY <1>1, <2>1, Frame DEF EmitStart, TypeOK
<1>2. CASE EmitTake(k)
  <2>1. EmitOK'
    BY <1>0, <1>2 DEF EmitTake, TypeOK, EmitOK, EmitSts
  <2>2. CallerOK'
    BY <1>2 DEF EmitTake, TypeOK, CallerOK
  <2>3. QED
    BY <1>2, <2>1, <2>2, Frame DEF EmitTake, TypeOK
<1>3. CASE EmitSent(k)
  <2>1. EmitOK'
    BY <1>0, <1>3 DEF EmitSent, EmitTop, TypeOK, EmitOK, EmitSts
  <2>2. QED
    BY <1>3, <2>1, Frame DEF EmitSent, TypeOK
<1>4. CASE EmitStop(k)
  <2>1. EmitOK'
    BY <1>0, <1>4 DEF EmitStop, TypeOK, EmitOK, EmitSts
  <2>2. QED
    BY <1>4, <2>1, Frame DEF EmitStop, TypeOK
<1>5. QED
  BY <1>1, <1>2, <1>3, <1>4 DEF Emit

----------------------------------------------------------------------------
\* The variables of the handler keep their types through every operation, in any
\* interleaving, for any number of callers and tasks and with every failure.
THEOREM TypeCorrect == Spec => []TypeOK
<1>1. Init => TypeOK
  BY InitType
<1>2. TypeOK /\ [Next]_vars => TypeOK'
  <2> SUFFICES ASSUME TypeOK, [Next]_vars PROVE TypeOK'
    OBVIOUS
  <2>1. ASSUME NEW c \in Callers, Call(c) PROVE TypeOK'
    BY <2>1, CallType, ConnectType DEF Call
  <2>2. ASSUME NEW c \in Callers, Continue(c) PROVE TypeOK'
    BY <2>2, CancelConvType, JoinConvType, CancelTefType, JoinTefType, CancelEmitType,
       JoinEmitType, RestartType, NotifiedType, ListeningType, CleanupType DEF Continue
  <2>3. ASSUME NEW on \in BOOLEAN, SetStreaming(on) PROVE TypeOK'
    BY <2>3, StreamingType
  <2>4. CASE Bt2Put \/ Bt2Exit
    BY <2>4, Bt2PutType, Bt2ExitType
  <2>5. ASSUME NEW i \in Convs, Conv(i) PROVE TypeOK'
    BY <2>5, ConvType
  <2>6. ASSUME NEW j \in Tefs, Tef(j) PROVE TypeOK'
    BY <2>6, TefType
  <2>7. ASSUME NEW k \in Emits, Emit(k) PROVE TypeOK'
    BY <2>7, EmitType
  <2>8. CASE UNCHANGED vars
    BY <2>8, Frame DEF vars, TypeOK
  <2>9. QED
    BY <2>1, <2>2, <2>3, <2>4, <2>5, <2>6, <2>7, <2>8 DEF Next
<1>3. QED
  BY <1>1, <1>2, PTL DEF Spec

----------------------------------------------------------------------------
(* The emit queue *)

\* _init_emit makes the queue and its task together, _cancel_all_tasks drops them
\* together, and no interleaving of resets and connects comes between the two.
THEOREM QueueDiscipline == Spec => []QueueHasEmitter
<1>1. Init => QueueHasEmitter
  BY DEF Init, QueueHasEmitter
<1>2. QueueHasEmitter /\ [Next]_vars => QueueHasEmitter'
  <2> SUFFICES ASSUME QueueHasEmitter, [Next]_vars PROVE QueueHasEmitter'
    OBVIOUS
  <2>1. ASSUME InitEmit PROVE QueueHasEmitter'
    BY <2>1 DEF InitEmit, QueueHasEmitter, emitVars
  <2>2. ASSUME NEW c \in Callers, Call(c) PROVE QueueHasEmitter'
    BY <2>1, <2>2 DEF Call, Connect, Cleanup, Reset, Leave, Collect, emitVars, QueueHasEmitter
  <2>3. ASSUME NEW c \in Callers, Continue(c) PROVE QueueHasEmitter'
    <3>1. CASE JoinEmit(c)
      BY <3>1 DEF JoinEmit, QueueHasEmitter
    <3>2. CASE Restart(c)
      BY <2>1, <3>2 DEF Restart
    <3>3. CASE CancelEmit(c)
      BY <3>3 DEF CancelEmit, QueueHasEmitter
    <3>4. CASE CancelConv(c) \/ JoinConv(c) \/ CancelTef(c) \/ JoinTef(c) \/ Notified(c)
      BY <3>4 DEF CancelConv, JoinConv, CancelTef, JoinTef, Notified, emitVars,
                  QueueHasEmitter
    <3>5. CASE Listening(c) \/ Closed(c) \/ JoinServe(c) \/ StopBt2(c) \/ JoinedBt2(c)
               \/ FinishCleanup(c)
      BY <3>5 DEF Listening, Closed, JoinServe, StopBt2, JoinedBt2, FinishCleanup, emitVars,
                  QueueHasEmitter
    <3>6. QED
      BY <2>3, <3>1, <3>2, <3>3, <3>4, <3>5 DEF Continue
  <2>4. ASSUME NEW on \in BOOLEAN, SetStreaming(on) PROVE QueueHasEmitter'
    BY <2>4 DEF SetStreaming, emitVars, QueueHasEmitter
  <2>5. CASE Bt2Put \/ Bt2Exit
    BY <2>5 DEF Bt2Put, Bt2Exit, emitVars, QueueHasEmitter
  <2>6. ASSUME NEW i \in Convs, Conv(i) PROVE QueueHasEmitter'
    BY <2>6 DEF Conv, ConvGet, ConvFlush, ConvDie, ConvStop, ConvSwallow, emitVars,
                QueueHasEmitter
  <2>7. ASSUME NEW j \in Tefs, Tef(j) PROVE QueueHasEmitter'
    BY <2>7 DEF Tef, TefStart, TefGet, TefStop, TefAbort, emitVars, QueueHasEmitter
  <2>8. ASSUME NEW k \in Emits, Emit(k) PROVE QueueHasEmitter'
    BY <2>8 DEF Emit, EmitStart, EmitTake, EmitSent, EmitStop, QueueHasEmitter
  <2>9. CASE UNCHANGED vars
    BY <2>9 DEF vars, emitVars, QueueHasEmitter
  <2>10. QED
    BY <2>2, <2>3, <2>4, <2>5, <2>6, <2>7, <2>8, <2>9 DEF Next
<1>3. QED
  BY <1>1, <1>2, PTL DEF Spec

----------------------------------------------------------------------------
(* trace_lock *)

LEMMA InitEmitLock ==
  ASSUME TypeOK, LockHeldBySender, InitEmit
  PROVE  LockHeldBySender'
<1>1. CASE emit_queue # 0
  BY <1>1 DEF InitEmit, LockHeldBySender, emitVars
<1>2. CASE emit_queue = 0
  <2>1. PICK k \in SpareEmits :
          emitSt' = [m \in Emits |-> IF m = k THEN "new"
                                    ELSE IF m \in SpareEmits THEN "none" ELSE emitSt[m]]
    BY <1>2, AnyOfIn DEF InitEmit
  <2>2. trace_lock' = trace_lock /\ trace_lock \notin SpareEmits
    BY <1>2 DEF InitEmit, SpareEmits
  <2>3. trace_lock # 0 => trace_lock \in Emits
    BY BoundsAssumption DEF TypeOK, EmitOK, Emits
  <2>4. QED
    BY <2>1, <2>2, <2>3 DEF LockHeldBySender
<1>3. QED
  BY <1>1, <1>2

\* an emitter goes to state st while the lock goes to "held"
LEMMA LockStep ==
  ASSUME TypeOK, NEW k \in Emits, NEW st, NEW held,
         emitSt' = [emitSt EXCEPT ![k] = st], trace_lock' = held,
         held # 0 => /\ held \in Emits
                     /\ (IF held = k THEN st ELSE emitSt[held]) \in {"send", "stopping"},
         \A m \in Emits : (IF m = k THEN st ELSE emitSt[m]) = "send" => held = m
  PROVE  LockHeldBySender'
<1>1. \A m \in Emits : emitSt'[m] = IF m = k THEN st ELSE emitSt[m]
  BY DEF TypeOK, EmitOK
<1>2. QED
  BY <1>1 DEF LockHeldBySender

\* The lock is taken before an events emit and given back when it is over, cancelled
\* or not, even by an emitter whose handle a second reset has overwritten.
THEOREM LockDiscipline == Spec => []LockHeldBySender
<1>1. Init => LockHeldBySender
  BY DEF Init, LockHeldBySender
<1>2. TypeOK /\ LockHeldBySender /\ [Next]_vars => LockHeldBySender'
  <2> SUFFICES ASSUME TypeOK, LockHeldBySender, [Next]_vars PROVE LockHeldBySender'
    OBVIOUS
  <2>1. UNCHANGED <<emitSt, trace_lock>> => LockHeldBySender'
    BY DEF LockHeldBySender
  <2>2. ASSUME NEW c \in Callers, Call(c) PROVE LockHeldBySender'
    BY <2>1, <2>2, InitEmitLock DEF Call, Connect, Cleanup, Reset, Leave, Collect, emitVars
  <2>3. ASSUME NEW c \in Callers, Continue(c) PROVE LockHeldBySender'
    <3>1. CASE CancelEmit(c)
      <4>1. CASE emit_task = 0
        BY <2>1, <3>1, <4>1 DEF CancelEmit
      <4>2. CASE emit_task # 0
        <5>1. emit_task \in Emits /\ (trace_lock # 0 => trace_lock \in Emits)
          BY <4>2, BoundsAssumption DEF TypeOK, EmitOK, Emits
        <5>2. /\ emitSt' = [emitSt EXCEPT ![emit_task] = CancelledEmit(emitSt[emit_task])]
              /\ trace_lock' = trace_lock
          BY <3>1, <4>2 DEF CancelEmit
        <5>3. /\ CancelledEmit(emitSt[emit_task]) # "send"
              /\ emitSt[emit_task] \in {"send", "stopping"} =>
                   CancelledEmit(emitSt[emit_task]) = "stopping"
          BY DEF CancelledEmit
        <5>4. QED
          BY <5>1, <5>2, <5>3 DEF LockHeldBySender, TypeOK, EmitOK
      <4>3. QED
        BY <4>1, <4>2
    <3>2. CASE Restart(c)
      BY <3>2, InitEmitLock DEF Restart
    <3>3. CASE CancelConv(c) \/ JoinConv(c) \/ CancelTef(c) \/ JoinTef(c) \/ Notified(c)
               \/ JoinEmit(c)
      BY <2>1, <3>3 DEF CancelConv, JoinConv, CancelTef, JoinTef, Notified, JoinEmit, emitVars
    <3>4. CASE Listening(c) \/ Closed(c) \/ JoinServe(c) \/ StopBt2(c) \/ JoinedBt2(c)
               \/ FinishCleanup(c)
      BY <2>1, <3>4 DEF Listening, Closed, JoinServe, StopBt2, JoinedBt2, FinishCleanup,
                        emitVars
    <3>5. QED
      BY <2>3, <3>1, <3>2, <3>3, <3>4 DEF Continue
  <2>4. ASSUME NEW on \in BOOLEAN, SetStreaming(on) PROVE LockHeldBySender'
    BY <2>1, <2>4 DEF SetStreaming, emitVars
  <2>5. CASE Bt2Put \/ Bt2Exit
    BY <2>1, <2>5 DEF Bt2Put, Bt2Exit, emitVars
  <2>6. ASSUME NEW i \in Convs, Conv(i) PROVE LockHeldBySender'
    BY <2>1, <2>6 DEF Conv, ConvGet, ConvFlush, ConvDie, ConvStop, ConvSwallow, emitVars
  <2>7. ASSUME NEW j \in Tefs, Tef(j) PROVE LockHeldBySender'
    BY <2>1, <2>7 DEF Tef, TefStart, TefGet, TefStop, TefAbort, emitVars
  <2>8. ASSUME NEW k \in Emits, Emit(k) PROVE LockHeldBySender'
    <3>0. k # 0 /\ (trace_lock # 0 => trace_lock \in Emits)
      BY BoundsAssumption DEF TypeOK, EmitOK, Emits
    <3>1. CASE EmitStart(k)
      <4>1. PICK st \in {"wait", "dead"} :
              /\ emitSt' = [emitSt EXCEPT ![k] = st]
              /\ trace_lock' = trace_lock /\ emitSt[k] = "new"
        BY <3>1 DEF EmitStart, EmitTop
      <4>2. QED
        BY <3>0, <4>1, LockStep DEF LockHeldBySender
    <3>2. CASE EmitTake(k)
      <4>1. CASE trace_lock # 0
        BY <2>1, <3>2, <4>1 DEF EmitTake
      <4>2. CASE trace_lock = 0
        <5>1. emitSt' = [emitSt EXCEPT ![k] = "send"] /\ trace_lock' = k
          BY <3>2, <4>2 DEF EmitTake
        <5>2. \A m \in Emits : emitSt[m] # "send"
          BY <4>2 DEF LockHeldBySender, Emits
        <5>3. QED
          BY <3>0, <5>1, <5>2, LockStep
      <4>3. QED
        BY <4>1, <4>2
    <3>3. CASE EmitSent(k)
      <4>1. PICK st \in {"wait", "dead"} :
              /\ emitSt' = [emitSt EXCEPT ![k] = st]
              /\ trace_lock' = 0 /\ emitSt[k] = "send"
        BY <3>3 DEF EmitSent, EmitTop
      <4>2. QED
        BY <3>0, <4>1, LockStep DEF LockHeldBySender
    <3>4. CASE EmitStop(k)
      <4>1. /\ emitSt' = [emitSt EXCEPT ![k] = "done"]
            /\ trace_lock' = IF trace_lock = k THEN 0 ELSE trace_lock
            /\ emitSt[k] = "stopping"
        BY <3>4 DEF EmitStop
      <4>2. CASE trace_lock = k
        BY <3>0, <4>1, <4>2, LockStep DEF LockHeldBySender
      <4>3. CASE trace_lock # k
        BY <3>0, <4>1, <4>3, LockStep DEF LockHeldBySender
      <4>4. QED
        BY <4>2, <4>3
    <3>5. QED
      BY <2>8, <3>1, <3>2, <3>3, <3>4 DEF Emit
  <2>9. CASE UNCHANGED vars
    BY <2>1, <2>9 DEF vars, emitVars
  <2>10. QED
    BY <2>2, <2>3, <2>4, <2>5, <2>6, <2>7, <2>8, <2>9 DEF Next
<1>3. QED
  BY <1>1, <1>2, TypeCorrect, PTL DEF Spec

----------------------------------------------------------------------------
(* Operations that do not overlap.                                         *)
(*                                                                         *)
(* Two resets at the same time can strand a task and block the loop, as    *)
(* MCTraceHandlerStuck.cfg shows.  What follows is the converse: for any   *)
(* number of callers, in every behaviour in which one operation is over    *)
(* before the next one begins, none of that happens.  The invariants say   *)
(* which task every handle names at every await of an operation.           *)

\* At most one caller is inside an operation.  The theorems below have it as a hypothesis
\* about the behaviour; the background tasks and the bt2 thread run as they like.
NoOverlap == \A c, d \in Callers : pc[c] # "idle" /\ pc[d] # "idle" => c = d

\* Every emitter that is not over is emit_task, none died, and the operation that awaits
\* the emitter awaits that one.
EmitterKnown ==
  /\ \A k \in Emits : /\ emitSt[k] \notin Gone => k = emit_task
                      /\ emitSt[k] # "dead"
  /\ \A c \in Callers : /\ pc[c] = "joinEmit" => emit_task # 0 /\ waits[c] = emit_task
                        /\ pc[c] = "tasksStopped" => emit_task = 0
  /\ ~stuck

\* where the callers are after c alone moved, to "to"
At(c, to) == \A d \in Callers : pc'[d] = IF d = c THEN to ELSE pc[d]

LEMMA Slots ==
  ASSUME TypeOK
  PROVE  /\ 0 \notin Emits /\ 0 \notin Tefs /\ 0 \notin Convs
         /\ emit_task # 0 => emit_task \in Emits
         /\ trace_lock # 0 => trace_lock \in Emits
         /\ tef_task # 0 => tef_task \in Tefs
         /\ ctf_tef # 0 => ctf_tef \in Convs
         /\ ctf_tef_task # 0 => ctf_tef_task \in Convs
<1>1. 0 \notin Emits /\ 0 \notin Tefs /\ 0 \notin Convs
  BY BoundsAssumption DEF Emits, Tefs, Convs
<1>2. emit_task \in 0..MaxEmit /\ trace_lock \in 0..MaxEmit /\ tef_task \in 0..MaxTef
  BY DEF TypeOK, EmitOK, TefOK
<1>3. ctf_tef \in 0..MaxConv /\ ctf_tef_task \in 0..MaxConv
  BY DEF TypeOK, ConvOK
<1>4. \A n, m \in Nat : n \in 0..m /\ n # 0 => n \in 1..m
  OBVIOUS
<1> QED
  BY <1>1, <1>2, <1>3, <1>4, BoundsAssumption DEF Emits, Tefs, Convs

LEMMA GotoMoves ==
  ASSUME TypeOK, NEW c \in Callers, NEW to, Goto(c, to) \/ Park(c, to)
  PROVE  At(c, to) /\ UNCHANGED <<stuck, op, waits>>
BY DEF TypeOK, CallerOK, Goto, Park, At

LEMMA AwaitMoves ==
  ASSUME TypeOK, NEW c \in Callers, NEW t, NEW f, NEW to, Await(c, t, f, to)
  PROVE  /\ At(c, to) /\ UNCHANGED <<stuck, op>>
         /\ \A d \in Callers : waits'[d] = IF d = c THEN t ELSE waits[d]
BY DEF TypeOK, CallerOK, Await, At

LEMMA ReturnMoves ==
  ASSUME TypeOK, NEW c \in Callers, Return(c)
  PROVE  /\ At(c, "idle") /\ UNCHANGED stuck
         /\ \A d \in Callers : op'[d] = IF d = c THEN "none" ELSE op[d]
         /\ \A d \in Callers : waits'[d] = IF d = c THEN 0 ELSE waits[d]
BY DEF TypeOK, CallerOK, Return, At

\* The operation that c begins or goes on with is the only one.
LEMMA OthersIdle ==
  ASSUME NoOverlap, NEW c \in Callers, pc[c] # "idle"
  PROVE  \A d \in Callers : d # c => pc[d] = "idle"
BY DEF NoOverlap

LEMMA OthersStayIdle ==
  ASSUME NoOverlap', NEW c \in Callers, NEW to, At(c, to), to # "idle"
  PROVE  \A d \in Callers : d # c => pc[d] = "idle"
BY DEF NoOverlap, At

----------------------------------------------------------------------------
(* The emitter *)

\* a step that leaves the emitters alone, and no caller reaches one of the two places
LEMMA EmitterFrame ==
  ASSUME EmitterKnown, UNCHANGED <<emitSt, emit_task, stuck>>,
         \A d \in Callers :
           /\ pc'[d] = "joinEmit" => pc[d] = "joinEmit" /\ waits'[d] = waits[d]
           /\ pc'[d] = "tasksStopped" => pc[d] = "tasksStopped"
  PROVE  EmitterKnown'
BY DEF EmitterKnown

LEMMA InitEmitKnown ==
  ASSUME TypeOK, QueueHasEmitter, EmitterKnown, InitEmit
  PROVE  /\ emit_task' # 0
         /\ \A k \in Emits : /\ emitSt'[k] \notin Gone => k = emit_task'
                             /\ emitSt'[k] # "dead"
<1>1. CASE emit_queue # 0
  BY <1>1 DEF InitEmit, emitVars, QueueHasEmitter, EmitterKnown
<1>2. CASE emit_queue = 0
  <2>1. PICK k \in SpareEmits :
          /\ emit_task' = k
          /\ emitSt' = [m \in Emits |-> IF m = k THEN "new"
                                       ELSE IF m \in SpareEmits THEN "none" ELSE emitSt[m]]
    BY <1>2, AnyOfIn DEF InitEmit
  <2>2. k \in Emits /\ k # 0
    BY <2>1, SpareTypes, Slots
  <2>3. \A m \in Emits : emitSt[m] \in Gone
    BY <1>2, Slots DEF QueueHasEmitter, EmitterKnown
  <2>4. \A m \in Emits : m # k => emitSt'[m] \in {"none", emitSt[m]}
    BY <2>1
  <2>5. emitSt'[k] = "new"
    BY <2>1, <2>2
  <2> QED
    BY <2>1, <2>2, <2>3, <2>4, <2>5 DEF EmitterKnown, Gone
<1> QED
  BY <1>1, <1>2

LEMMA EmitterCall ==
  ASSUME TypeOK, QueueHasEmitter, EmitterKnown, NoOverlap', NEW c \in Callers, Call(c)
  PROVE  EmitterKnown'
<1>1. CASE Connect(c)
  <2>1. At(c, "startServer") /\ UNCHANGED <<stuck, waits>>
    BY <1>1 DEF Connect, At, TypeOK, CallerOK
  <2>2. \A d \in Callers : pc'[d] \in {"idle", "startServer"}
    BY <2>1, OthersStayIdle DEF At
  <2>3. InitEmit
    BY <1>1 DEF Connect
  <2> QED
    BY <2>1, <2>2, <2>3, InitEmitKnown DEF EmitterKnown
<1>2. CASE Cleanup(c) \/ Reset(c) \/ Leave(c) \/ Collect(c)
  <2>1. PICK to \in {"waitClosed", "joinServe", "cancelConv", "notify"} : At(c, to)
    BY <1>2 DEF Cleanup, Reset, Leave, Collect, At, TypeOK, CallerOK
  <2>2. UNCHANGED <<emitSt, emit_task, stuck, waits>>
    BY <1>2 DEF Cleanup, Reset, Leave, Collect, emitVars
  <2> QED
    BY <2>1, <2>2, EmitterFrame DEF At
<1> QED
  BY <1>1, <1>2 DEF Call

\* When the tasks are stopped no emitter is left that could hold the lock.
LEMMA LockFree ==
  ASSUME TypeOK, LockHeldBySender, EmitterKnown, NEW c \in Callers, pc[c] = "tasksStopped"
  PROVE  trace_lock = 0
<1>1. \A k \in Emits : emitSt[k] \in Gone
  BY Slots DEF EmitterKnown
<1> QED
  BY <1>1, Slots DEF LockHeldBySender, Gone

LEMMA EmitterContinue ==
  ASSUME TypeOK, LockHeldBySender, QueueHasEmitter, EmitterKnown, NoOverlap,
         NEW c \in Callers, Continue(c)
  PROVE  EmitterKnown'
<1>1. CASE CancelEmit(c)
  <2>1. CASE emit_task = 0
    <3>1. At(c, "tasksStopped") /\ UNCHANGED <<stuck, waits, emitSt, emit_task>>
      BY <1>1, <2>1, GotoMoves DEF CancelEmit
    <3> QED
      BY <2>1, <3>1 DEF At, EmitterKnown
  <2>2. CASE emit_task # 0
    <3>1. /\ At(c, "joinEmit") /\ UNCHANGED <<stuck, emit_task>>
          /\ \A d \in Callers : waits'[d] = IF d = c THEN emit_task ELSE waits[d]
      BY <1>1, <2>2, AwaitMoves DEF CancelEmit
    <3>2. \A k \in Emits : \/ emitSt'[k] = emitSt[k]
                           \/ k = emit_task /\ emitSt'[k] = "stopping"
      BY <1>1, <2>2, Slots DEF CancelEmit, CancelledEmit, TypeOK, EmitOK
    <3> QED
      BY <2>2, <3>1, <3>2 DEF At, EmitterKnown
  <2> QED
    BY <2>1, <2>2
<1>2. CASE JoinEmit(c)
  <2>1. pc[c] = "joinEmit"
    BY <1>2 DEF JoinEmit, Resumes
  <2>2. waits[c] = emit_task /\ emit_task \in Emits
    BY <2>1, Slots DEF EmitterKnown
  <2>3. emitSt[emit_task] = "done" /\ emit_task' = 0 /\ emitSt' = emitSt
        /\ Goto(c, "tasksStopped")
    BY <1>2, <2>2 DEF JoinEmit, EmitterKnown
  <2>4. At(c, "tasksStopped") /\ UNCHANGED stuck
    BY <2>3, GotoMoves
  <2>5. \A d \in Callers : d # c => pc[d] = "idle"
    BY <2>1, OthersIdle
  <2>6. \A k \in Emits : emitSt[k] \in Gone
    BY <2>3 DEF EmitterKnown, Gone
  <2> QED
    BY <2>3, <2>4, <2>5, <2>6 DEF At, EmitterKnown
<1>3. CASE Restart(c)
  <2>1. pc[c] = "tasksStopped" /\ InitEmit
    BY <1>3 DEF Restart, Runs
  <2>2. trace_lock = 0
    BY <2>1, LockFree
  <2>3. At(c, "notify") /\ UNCHANGED stuck
    BY <1>3, <2>2, GotoMoves DEF Restart
  <2>4. \A d \in Callers : pc'[d] \in {"idle", "notify"}
    BY <2>1, <2>3, OthersIdle DEF At
  <2> QED
    BY <2>1, <2>3, <2>4, InitEmitKnown DEF EmitterKnown
<1>4. CASE CancelConv(c) \/ CancelTef(c)
  <2>1. UNCHANGED <<emitSt, emit_task>>
    BY <1>4 DEF CancelConv, CancelTef, emitVars
  <2>2. UNCHANGED stuck /\ \E to \in {"joinConv", "cancelTef", "joinTef", "cancelEmit"} :
          /\ At(c, to)
          /\ \A d \in Callers : d # c => waits'[d] = waits[d]
    BY <1>4, GotoMoves, AwaitMoves DEF CancelConv, CancelTef
  <2> QED
    BY <2>1, <2>2, EmitterFrame DEF At
<1>5. CASE JoinConv(c) \/ JoinTef(c) \/ Notified(c)
  <2>1. UNCHANGED <<emitSt, emit_task>>
    BY <1>5 DEF JoinConv, JoinTef, Notified, emitVars
  <2>2. UNCHANGED stuck /\ \E to \in {"idle", "cancelTef", "cancelEmit"} :
          /\ At(c, to)
          /\ \A d \in Callers : d # c => waits'[d] = waits[d]
    BY <1>5, GotoMoves, ReturnMoves DEF JoinConv, JoinTef, Notified
  <2> QED
    BY <2>1, <2>2, EmitterFrame DEF At
<1>6. CASE \/ Listening(c) \/ Closed(c) \/ JoinServe(c) \/ StopBt2(c) \/ JoinedBt2(c)
           \/ FinishCleanup(c)
  <2>1. UNCHANGED <<emitSt, emit_task>>
    BY <1>6 DEF Listening, Closed, JoinServe, StopBt2, JoinedBt2, FinishCleanup, emitVars
  <2>2. UNCHANGED stuck /\ \E to \in {"idle", "joinServe", "stopBt2", "joinBt2", "joinedBt2",
                                      "cancelConv"} :
          /\ At(c, to)
          /\ \A d \in Callers : d # c => waits'[d] = waits[d]
    BY <1>6, GotoMoves, ReturnMoves
       DEF Listening, Closed, JoinServe, StopBt2, JoinedBt2, FinishCleanup
  <2> QED
    BY <2>1, <2>2, EmitterFrame DEF At
<1> QED
  BY <1>1, <1>2, <1>3, <1>4, <1>5, <1>6 DEF Continue

\* The queue is there as long as the emitter runs, and the lock is free when it asks.
LEMMA EmitterRuns ==
  ASSUME TypeOK, LockHeldBySender, QueueHasEmitter, EmitterKnown, NEW k \in Emits, Emit(k)
  PROVE  EmitterKnown'
<1>1. emitSt[k] \in {"new", "wait", "send", "stopping"}
  BY DEF Emit, EmitStart, EmitTake, EmitSent, EmitStop
<1>2. k = emit_task /\ emit_queue # 0
  BY <1>1, Slots DEF EmitterKnown, QueueHasEmitter, Gone
<1>3. UNCHANGED <<pc, waits, emit_task>>
  BY DEF Emit, EmitStart, EmitTake, EmitSent, EmitStop, callerVars
<1>4. UNCHANGED stuck
  <2>1. emitSt[k] = "wait" => trace_lock = 0
    BY <1>2, Slots DEF EmitterKnown, LockHeldBySender, Gone
  <2> QED
    BY <2>1 DEF Emit, EmitStart, EmitTake, EmitSent, EmitStop, callerVars
<1>5. \A m \in Emits : m # k => emitSt'[m] = emitSt[m]
  BY DEF Emit, EmitStart, EmitTake, EmitSent, EmitStop, EmitTop, TypeOK, EmitOK
<1>6. emitSt'[k] # "dead"
  BY <1>2 DEF Emit, EmitStart, EmitTake, EmitSent, EmitStop, EmitTop, TypeOK, EmitOK,
              EmitterKnown
<1> QED
  BY <1>2, <1>3, <1>4, <1>5, <1>6 DEF EmitterKnown

LEMMA EmitterStep ==
  ASSUME TypeOK, LockHeldBySender, QueueHasEmitter, EmitterKnown, NoOverlap, NoOverlap',
         [Next]_vars
  PROVE  EmitterKnown'
<1>1. UNCHANGED <<callerVars, emitSt, emit_task>> => EmitterKnown'
  BY EmitterFrame DEF callerVars
<1>2. ASSUME NEW on \in BOOLEAN, SetStreaming(on) PROVE EmitterKnown'
  BY <1>1, <1>2 DEF SetStreaming, emitVars
<1>3. CASE Bt2Put
  BY <1>1, <1>3 DEF Bt2Put, emitVars
<1>4. CASE Bt2Exit
  <2>1. UNCHANGED <<stuck, waits, emitSt, emit_task>>
    BY <1>4 DEF Bt2Exit, emitVars
  <2>2. \A d \in Callers : pc'[d] \in {pc[d], "joinedBt2"}
    BY <1>4 DEF Bt2Exit
  <2> QED
    BY <2>1, <2>2, EmitterFrame
<1>5. ASSUME NEW i \in Convs, Conv(i) PROVE EmitterKnown'
  BY <1>1, <1>5 DEF Conv, ConvGet, ConvFlush, ConvDie, ConvStop, ConvSwallow, emitVars
<1>6. ASSUME NEW j \in Tefs, Tef(j) PROVE EmitterKnown'
  BY <1>1, <1>6 DEF Tef, TefStart, TefGet, TefStop, TefAbort, emitVars
<1>7. CASE UNCHANGED vars
  BY <1>1, <1>7 DEF vars, emitVars
<1> QED
  BY <1>2, <1>3, <1>4, <1>5, <1>6, <1>7, EmitterCall, EmitterContinue, EmitterRuns DEF Next

LEMMA InitEmitter == Init => EmitterKnown
BY DEF Init, EmitterKnown, Gone

LEMMA EmitterInvariant == Spec /\ []NoOverlap => []EmitterKnown
<1>1. TypeOK /\ LockHeldBySender /\ QueueHasEmitter /\ EmitterKnown /\ NoOverlap /\ NoOverlap'
      /\ [Next]_vars => EmitterKnown'
  BY EmitterStep
<1> QED
  BY <1>1, InitEmitter, TypeCorrect, LockDiscipline, QueueDiscipline, PTL DEF Spec

\* The threading.Lock that _emit_loop holds over an await (trace_handler.py 725-737) and
\* that _execute_reset takes on the same loop (805) never blocks the loop when operations
\* do not overlap: the reset has awaited the end of the only emitter before.  With every
\* failure the module knows, and whether or not a trace is connected.
THEOREM LockNeverBlocks == Spec /\ []NoOverlap => []LoopNeverBlocks
<1>1. EmitterKnown => LoopNeverBlocks
  BY DEF EmitterKnown, LoopNeverBlocks
<1> QED
  BY <1>1, EmitterInvariant, PTL

----------------------------------------------------------------------------
(* The consumer, when a reset comes only while something is connected *)

\* the awaits of _cancel_all_tasks, and its end
Cancelling == {"cancelConv", "joinConv", "cancelTef", "joinTef", "cancelEmit", "joinEmit",
               "tasksStopped"}

\* Every consumer that is not over is tef_task, none died; there is an emitter as long as
\* there is a consumer, and neither without a bt2 thread.
ConsumerKnown ==
  /\ \A j \in Tefs : /\ tefSt[j] \notin Gone => j = tef_task
                     /\ tefSt[j] # "dead"
  /\ tef_task # 0 => emit_task # 0
  /\ bt2_thread = "none" => tef_task = 0 /\ emit_task = 0
  /\ \A c \in Callers :
       /\ pc[c] = "joinTef" => tef_task # 0 /\ waits[c] = tef_task
       /\ pc[c] \in {"cancelEmit", "joinEmit", "tasksStopped"} => tef_task = 0
       /\ pc[c] \in Cancelling \cup {"joinBt2", "joinedBt2"} => bt2_thread # "none"

\* a step that leaves the consumers alone, and no caller reaches a place it was not at
LEMMA ConsumerFrame ==
  ASSUME ConsumerKnown, UNCHANGED <<tefSt, tef_task>>, emit_task' = emit_task,
         bt2_thread' = "none" <=> bt2_thread = "none",
         \A d \in Callers :
           /\ pc'[d] = "joinTef" => pc[d] = "joinTef" /\ waits'[d] = waits[d]
           /\ pc'[d] \in {"cancelEmit", "joinEmit", "tasksStopped"} => tef_task = 0
           /\ pc'[d] \in Cancelling \cup {"joinBt2", "joinedBt2"} => bt2_thread # "none"
  PROVE  ConsumerKnown'
BY DEF ConsumerKnown

LEMMA CreateTefKnown ==
  ASSUME TypeOK, ConsumerKnown, tef_task = 0, CreateTef
  PROVE  /\ tef_task' # 0
         /\ \A j \in Tefs : /\ tefSt'[j] \notin Gone => j = tef_task'
                            /\ tefSt'[j] # "dead"
<1>1. PICK j \in SpareTefs :
        /\ tef_task' = j
        /\ tefSt' = [t \in Tefs |-> IF t = j THEN "new"
                                   ELSE IF t \in SpareTefs THEN "none" ELSE tefSt[t]]
  BY AnyOfIn DEF CreateTef
<1>2. j \in Tefs /\ j # 0
  BY <1>1, SpareTypes, Slots
<1>3. \A t \in Tefs : tefSt[t] \in Gone
  BY Slots DEF ConsumerKnown
<1>4. \A t \in Tefs : t # j => tefSt'[t] \in {"none", tefSt[t]}
  BY <1>1
<1>5. tefSt'[j] = "new"
  BY <1>1, <1>2
<1> QED
  BY <1>1, <1>2, <1>3, <1>4, <1>5 DEF ConsumerKnown, Gone

LEMMA ConsumerCall ==
  ASSUME ~EarlyReset, TypeOK, QueueHasEmitter, EmitterKnown, ConsumerKnown, NoOverlap',
         NEW c \in Callers, Call(c)
  PROVE  ConsumerKnown'
<1>1. CASE Connect(c)
  <2>1. At(c, "startServer") /\ bt2_thread' = "running" /\ bt2_thread = "none"
    BY <1>1 DEF Connect, At, TypeOK, CallerOK
  <2>2. \A d \in Callers : pc'[d] \in {"idle", "startServer"}
    BY <2>1, OthersStayIdle DEF At
  <2>3. InitEmit /\ CreateTef /\ tef_task = 0
    BY <1>1, <2>1 DEF Connect, ConsumerKnown
  <2>4. emit_task' # 0
    BY <2>3, InitEmitKnown
  <2> QED
    BY <2>1, <2>2, <2>3, <2>4, CreateTefKnown DEF ConsumerKnown, Cancelling
<1>2. CASE Cleanup(c) \/ Reset(c) \/ Leave(c) \/ Collect(c)
  <2>1. PICK to \in {"waitClosed", "joinServe", "cancelConv", "notify"} :
          At(c, to) /\ (to = "cancelConv" => bt2_thread # "none")
    BY <1>2 DEF Cleanup, Reset, Leave, Collect, At, TypeOK, CallerOK
  <2>2. UNCHANGED <<tefSt, tef_task, emit_task, bt2_thread, waits>>
    BY <1>2 DEF Cleanup, Reset, Leave, Collect, emitVars, tefVars, bt2Vars
  <2>3. \A d \in Callers : d # c => pc'[d] = pc[d]
    BY <2>1 DEF At
  <2>4. pc'[c] = to
    BY <2>1 DEF At
  <2> QED
    BY <2>1, <2>2, <2>3, <2>4, ConsumerFrame DEF ConsumerKnown, Cancelling
<1> QED
  BY <1>1, <1>2 DEF Call

\* the operations that only move their caller
LEMMA ConsumerMove ==
  ASSUME ConsumerKnown, NEW c \in Callers, NEW to, At(c, to), UNCHANGED <<tefSt, tef_task>>,
         UNCHANGED <<emit_task, bt2_thread>>,
         \A d \in Callers : d # c => waits'[d] = waits[d],
         to # "joinTef",
         to \in {"cancelEmit", "joinEmit", "tasksStopped"} => tef_task = 0,
         to \in Cancelling \cup {"joinBt2", "joinedBt2"} => bt2_thread # "none"
  PROVE  ConsumerKnown'
<1>1. \A d \in Callers : d # c => pc'[d] = pc[d]
  BY DEF At
<1>2. pc'[c] = to
  BY DEF At
<1> QED
  BY <1>1, <1>2, ConsumerFrame DEF ConsumerKnown

LEMMA ConsumerContinue ==
  ASSUME TypeOK, LockHeldBySender, QueueHasEmitter, EmitterKnown, ConsumerKnown, NoOverlap,
         NEW c \in Callers, Continue(c)
  PROVE  ConsumerKnown'
<1>1. CASE CancelTef(c)
  <2>1. pc[c] = "cancelTef" /\ bt2_thread # "none"
    BY <1>1 DEF CancelTef, Runs, ConsumerKnown, Cancelling
  <2>2. UNCHANGED <<emit_task, bt2_thread, tef_task>>
    BY <1>1 DEF CancelTef, emitVars, bt2Vars
  <2>3. CASE tef_task = 0
    <3>1. At(c, "cancelEmit") /\ UNCHANGED <<waits, tefSt>>
      BY <1>1, <2>3, GotoMoves DEF CancelTef
    <3> QED
      BY <2>1, <2>2, <2>3, <3>1, ConsumerMove
  <2>4. CASE tef_task # 0
    <3>1. /\ At(c, "joinTef")
          /\ \A d \in Callers : waits'[d] = IF d = c THEN tef_task ELSE waits[d]
      BY <1>1, <2>4, AwaitMoves DEF CancelTef
    <3>2. \A j \in Tefs : \/ tefSt'[j] = tefSt[j]
                          \/ j = tef_task /\ tefSt'[j] \in {"aborting", "stopping"}
      BY <1>1, <2>4, Slots DEF CancelTef, CancelledTef, TypeOK, TefOK
    <3>3. \A d \in Callers : d # c => pc'[d] = "idle"
      BY <2>1, <3>1, OthersIdle DEF At
    <3>4. pc'[c] = "joinTef" /\ waits'[c] = tef_task
      BY <3>1 DEF At
    <3> QED
      BY <2>1, <2>2, <2>4, <3>2, <3>3, <3>4 DEF ConsumerKnown, Cancelling
  <2> QED
    BY <2>3, <2>4
<1>2. CASE JoinTef(c)
  <2>1. pc[c] = "joinTef" /\ bt2_thread # "none"
    BY <1>2 DEF JoinTef, Resumes, ConsumerKnown, Cancelling
  <2>2. waits[c] = tef_task /\ tef_task \in Tefs
    BY <2>1, Slots DEF ConsumerKnown
  <2>3. tefSt[tef_task] = "done" /\ tef_task' = 0 /\ tefSt' = tefSt /\ Goto(c, "cancelEmit")
        /\ UNCHANGED <<emit_task, bt2_thread>>
    BY <1>2, <2>2 DEF JoinTef, ConsumerKnown, emitVars, bt2Vars
  <2>4. At(c, "cancelEmit")
    BY <2>3, GotoMoves
  <2>5. \A d \in Callers : pc'[d] \in {"idle", "cancelEmit"}
    BY <2>1, <2>4, OthersIdle DEF At
  <2>6. \A j \in Tefs : tefSt[j] \in Gone
    BY <2>3 DEF ConsumerKnown, Gone
  <2> QED
    BY <2>1, <2>3, <2>5, <2>6 DEF ConsumerKnown, Cancelling
<1>3. CASE Restart(c)
  <2>1. pc[c] = "tasksStopped" /\ InitEmit /\ CreateTef /\ bt2_thread' = bt2_thread
    BY <1>3 DEF Restart, Runs, bt2Vars
  <2>2. bt2_thread # "none" /\ tef_task = 0
    BY <2>1 DEF ConsumerKnown, Cancelling
  <2>3. At(c, "notify")
    BY <1>3, <2>1, LockFree, GotoMoves DEF Restart
  <2>4. \A d \in Callers : pc'[d] \in {"idle", "notify"}
    BY <2>1, <2>3, OthersIdle DEF At
  <2>5. emit_task' # 0
    BY <2>1, InitEmitKnown
  <2> QED
    BY <2>1, <2>2, <2>4, <2>5, CreateTefKnown DEF ConsumerKnown, Cancelling
<1>4. CASE CancelEmit(c)
  <2>1. tef_task = 0 /\ bt2_thread # "none"
    BY <1>4 DEF CancelEmit, Runs, ConsumerKnown, Cancelling
  <2>2. UNCHANGED <<tefSt, tef_task, emit_task, bt2_thread>>
    BY <1>4 DEF CancelEmit, tefVars, bt2Vars
  <2>3. PICK to \in {"joinEmit", "tasksStopped"} :
          At(c, to) /\ \A d \in Callers : d # c => waits'[d] = waits[d]
    BY <1>4, GotoMoves, AwaitMoves DEF CancelEmit
  <2> QED
    BY <2>1, <2>2, <2>3, ConsumerMove
<1>5. CASE JoinEmit(c)
  <2>1. pc[c] = "joinEmit" /\ tef_task = 0 /\ bt2_thread # "none"
    BY <1>5 DEF JoinEmit, Resumes, ConsumerKnown, Cancelling
  <2>2. UNCHANGED <<tefSt, tef_task, bt2_thread>>
    BY <1>5 DEF JoinEmit, tefVars, bt2Vars
  <2>3. \A d \in Callers : pc'[d] \in {"idle", "tasksStopped"}
    BY <1>5, <2>1, GotoMoves, ReturnMoves, OthersIdle DEF JoinEmit, At
  <2> QED
    BY <2>1, <2>2, <2>3 DEF ConsumerKnown, Cancelling
<1>6. CASE FinishCleanup(c)
  <2>1. pc[c] = "tasksStopped"
    BY <1>6 DEF FinishCleanup, Runs
  <2>2. tef_task = 0 /\ emit_task = 0
    BY <2>1 DEF ConsumerKnown, EmitterKnown
  <2>3. UNCHANGED <<tefSt, tef_task, emit_task>> /\ bt2_thread' = "none"
    BY <1>6 DEF FinishCleanup, tefVars, emitVars
  <2>4. \A d \in Callers : pc'[d] = "idle"
    BY <1>6, <2>1, ReturnMoves, OthersIdle DEF FinishCleanup, At
  <2> QED
    BY <2>2, <2>3, <2>4 DEF ConsumerKnown, Cancelling
<1>7. CASE \/ CancelConv(c) \/ JoinConv(c) \/ Notified(c) \/ Listening(c) \/ Closed(c)
           \/ JoinServe(c) \/ StopBt2(c) \/ JoinedBt2(c)
  <2>1. UNCHANGED <<tefSt, tef_task, emit_task, bt2_thread>>
    BY <1>7 DEF CancelConv, JoinConv, Notified, Listening, Closed, JoinServe, StopBt2,
                JoinedBt2, emitVars, tefVars, bt2Vars
  <2>2. PICK to \in {"joinConv", "cancelTef", "idle", "joinServe", "stopBt2", "joinBt2",
                     "joinedBt2", "cancelConv"} :
          /\ At(c, to) /\ \A d \in Callers : d # c => waits'[d] = waits[d]
          /\ to \in Cancelling \cup {"joinBt2", "joinedBt2"} => bt2_thread # "none"
    <3>1. CASE CancelConv(c)
      BY <3>1, GotoMoves, AwaitMoves DEF CancelConv, Runs, ConsumerKnown, Cancelling
    <3>2. CASE JoinConv(c)
      BY <3>2, GotoMoves, ReturnMoves DEF JoinConv, Resumes, ConsumerKnown, Cancelling
    <3>3. CASE Notified(c) \/ Listening(c)
      BY <3>3, ReturnMoves DEF Notified, Listening, Cancelling
    <3>4. CASE Closed(c) \/ JoinServe(c)
      BY <3>4, GotoMoves DEF Closed, JoinServe, Cancelling
    <3>5. CASE StopBt2(c)
      BY <3>5, GotoMoves, ReturnMoves DEF StopBt2, Cancelling
    <3>6. CASE JoinedBt2(c)
      BY <3>6, GotoMoves DEF JoinedBt2, Resumes, ConsumerKnown, Cancelling
    <3> QED
      BY <1>7, <3>1, <3>2, <3>3, <3>4, <3>5, <3>6
  <2> QED
    BY <2>1, <2>2, ConsumerMove
<1> QED
  BY <1>1, <1>2, <1>3, <1>4, <1>5, <1>6, <1>7 DEF Continue

\* A consumer that runs is tef_task, and the emit queue it puts to is there.
LEMMA ConsumerRuns ==
  ASSUME TypeOK, QueueHasEmitter, ConsumerKnown, NEW j \in Tefs, Tef(j)
  PROVE  ConsumerKnown'
<1>1. tefSt[j] \in {"new", "wait", "stopping", "aborting"}
  BY DEF Tef, TefStart, TefGet, TefStop, TefAbort
<1>2. j = tef_task /\ emit_queue # 0
  BY <1>1, Slots DEF ConsumerKnown, QueueHasEmitter, Gone
<1>3. UNCHANGED <<pc, waits, tef_task, emit_task, bt2_thread>>
  BY DEF Tef, TefStart, TefGet, TefStop, TefAbort, callerVars, emitVars, bt2Vars
<1>4. \E st \in {"wait", "done"} : tefSt' = [tefSt EXCEPT ![j] = st]
  BY <1>2 DEF Tef, TefStart, TefGet, TefStop, TefAbort, TefTop
<1>5. \A i \in Tefs : i # j => tefSt'[i] = tefSt[i]
  BY <1>4 DEF TypeOK, TefOK
<1>6. tefSt'[j] # "dead"
  BY <1>4 DEF TypeOK, TefOK
<1> QED
  BY <1>2, <1>3, <1>5, <1>6 DEF ConsumerKnown

LEMMA ConsumerStep ==
  ASSUME ~EarlyReset, TypeOK, LockHeldBySender, QueueHasEmitter, EmitterKnown, ConsumerKnown,
         NoOverlap, NoOverlap', [Next]_vars
  PROVE  ConsumerKnown'
<1>1. UNCHANGED <<callerVars, tefSt, tef_task, emit_task, bt2_thread>> => ConsumerKnown'
  BY DEF callerVars, ConsumerKnown
<1>2. ASSUME NEW on \in BOOLEAN, SetStreaming(on) PROVE ConsumerKnown'
  BY <1>1, <1>2 DEF SetStreaming, emitVars, tefVars, bt2Vars
<1>3. CASE Bt2Put
  BY <1>1, <1>3 DEF Bt2Put, emitVars, tefVars, bt2Vars
<1>4. CASE Bt2Exit
  <2>1. UNCHANGED <<waits, tefSt, tef_task, emit_task>> /\ bt2_thread' = "exited"
        /\ bt2_thread = "running"
    BY <1>4 DEF Bt2Exit, emitVars, tefVars
  <2>2. \A d \in Callers : \/ pc'[d] = pc[d]
                           \/ pc'[d] = "joinedBt2"
    BY <1>4 DEF Bt2Exit
  <2> QED
    BY <2>1, <2>2, ConsumerFrame DEF ConsumerKnown, Cancelling
<1>5. ASSUME NEW i \in Convs, Conv(i) PROVE ConsumerKnown'
  BY <1>1, <1>5 DEF Conv, ConvGet, ConvFlush, ConvDie, ConvStop, ConvSwallow, emitVars,
                    tefVars, bt2Vars
<1>6. ASSUME NEW k \in Emits, Emit(k) PROVE ConsumerKnown'
  <2>1. UNCHANGED <<pc, waits, tefSt, tef_task, emit_task, bt2_thread>>
    BY <1>6 DEF Emit, EmitStart, EmitTake, EmitSent, EmitStop, callerVars, tefVars, bt2Vars
  <2> QED
    BY <2>1 DEF ConsumerKnown
<1>7. CASE UNCHANGED vars
  BY <1>1, <1>7 DEF vars, emitVars, tefVars, bt2Vars
<1> QED
  BY <1>2, <1>3, <1>4, <1>5, <1>6, <1>7, ConsumerCall, ConsumerContinue, ConsumerRuns DEF Next

LEMMA InitConsumer == Init => ConsumerKnown
BY DEF Init, ConsumerKnown, Gone, Cancelling

LEMMA ConsumerInvariant ==
  ASSUME ~EarlyReset
  PROVE  Spec /\ []NoOverlap => []ConsumerKnown
<1>1. TypeOK /\ LockHeldBySender /\ QueueHasEmitter /\ EmitterKnown /\ ConsumerKnown
      /\ NoOverlap /\ NoOverlap' /\ [Next]_vars => ConsumerKnown'
  BY ConsumerStep
<1> QED
  BY <1>1, InitConsumer, EmitterInvariant, TypeCorrect, LockDiscipline, QueueDiscipline, PTL
     DEF Spec

\* connect, reset and disconnect (trace_handler.py 307-309, 529-561, 800-803) never
\* overwrite the handle of a consumer or an emitter that still runs: whoever cancels the
\* handle stops the task.  For operations that do not overlap, and resets that come only
\* while something is connected; tasks and thread may fail, cancellations may be lost.
THEOREM HandlesNameTheTasks ==
  ASSUME ~EarlyReset
  PROVE  Spec /\ []NoOverlap => []NoStrayTask
<1>1. EmitterKnown /\ ConsumerKnown => NoStrayTask
  BY DEF EmitterKnown, ConsumerKnown, NoStrayTask, LiveTefs, LiveEmits, Gone
<1> QED
  BY <1>1, EmitterInvariant, ConsumerInvariant, PTL

\* Under the same conditions no task calls get or put on the emit queue after it was set
\* to None (trace_handler.py 699, 722): the queue outlives the consumer and the emitter.
THEOREM TasksSurvive ==
  ASSUME ~EarlyReset
  PROVE  Spec /\ []NoOverlap => []NoTaskDies
<1>1. EmitterKnown /\ ConsumerKnown => NoTaskDies
  BY DEF EmitterKnown, ConsumerKnown, NoTaskDies
<1> QED
  BY <1>1, EmitterInvariant, ConsumerInvariant, PTL

----------------------------------------------------------------------------
(* The converter *)

\* the places of an operation from the join of the thread on
Joining == Cancelling \cup {"joinBt2", "joinedBt2"}

\* A converter that runs is ctf_tef.  There is none without a bt2 thread; a disconnect
\* keeps the stop flag up from the join of the thread on, so that the consumer makes no
\* converter any more, and has none left once it has stopped the one it found.
ConverterKnown ==
  /\ \A i \in Convs : convSt[i] = "run" => i = ctf_tef
  /\ bt2_thread = "none" => ctf_tef = 0
  /\ \A c \in Callers : op[c] = "cleanup" =>
       /\ pc[c] \in Joining => bt2_thread_stop
       /\ pc[c] \in Cancelling \ {"cancelConv"} => ctf_tef = 0

\* a step that lets no converter run that did not, and keeps ctf_tef
LEMMA ConverterFrame ==
  ASSUME ConverterKnown, ctf_tef' = ctf_tef,
         \A i \in Convs : convSt'[i] = "run" => convSt[i] = "run",
         bt2_thread' = "none" => bt2_thread = "none" \/ ctf_tef = 0,
         \A d \in Callers : op'[d] = "cleanup" =>
           /\ pc'[d] \in Joining => bt2_thread_stop'
           /\ pc'[d] \in Cancelling \ {"cancelConv"} => ctf_tef = 0
  PROVE  ConverterKnown'
BY DEF ConverterKnown

LEMMA ConverterCall ==
  ASSUME TypeOK, ConverterKnown, NoOverlap', NEW c \in Callers, Call(c)
  PROVE  ConverterKnown'
<1>1. UNCHANGED <<convSt, ctf_tef, bt2_thread_stop>>
  BY DEF Call, Connect, Cleanup, Reset, Leave, Collect, convVars, bt2Vars
<1>2. bt2_thread' = "none" => bt2_thread = "none"
  BY DEF Call, Connect, Cleanup, Reset, Leave, Collect, bt2Vars
<1>3. PICK to \in {"startServer", "waitClosed", "joinServe", "cancelConv", "notify"} :
        /\ At(c, to)
        /\ op'[c] = "cleanup" => to \in {"waitClosed", "joinServe"}
  BY DEF Call, Connect, Cleanup, Reset, Leave, Collect, At, TypeOK, CallerOK
<1>4. \A d \in Callers : d # c => pc'[d] = "idle"
  BY <1>3, OthersStayIdle DEF At
<1>5. pc'[c] = to
  BY <1>3 DEF At
<1> QED
  BY <1>1, <1>2, <1>3, <1>4, <1>5, ConverterFrame DEF Joining, Cancelling

LEMMA ConverterContinue ==
  ASSUME TypeOK, LockHeldBySender, EmitterKnown, ConverterKnown, NoOverlap,
         NEW c \in Callers, Continue(c)
  PROVE  ConverterKnown'
<1>0. pc[c] # "idle"
  BY DEF Continue, CancelConv, JoinConv, CancelTef, JoinTef, CancelEmit, JoinEmit, Restart,
         Notified, Listening, Closed, JoinServe, StopBt2, JoinedBt2, FinishCleanup, Runs,
         Resumes
<1>i. \A d \in Callers : d # c => pc[d] = "idle"
  BY <1>0, OthersIdle
<1>m. ASSUME NEW to, At(c, to), UNCHANGED ctf_tef,
             \A i \in Convs : convSt'[i] = "run" => convSt[i] = "run",
             bt2_thread' = "none" => bt2_thread = "none" \/ ctf_tef = 0,
             op'[c] = "cleanup" /\ to \in Joining => bt2_thread_stop',
             op'[c] = "cleanup" /\ to \in Cancelling \ {"cancelConv"} => ctf_tef = 0
      PROVE  ConverterKnown'
  <2>1. \A d \in Callers : d # c => pc'[d] = "idle"
    BY <1>i, <1>m DEF At
  <2>2. pc'[c] = to
    BY <1>m DEF At
  <2> QED
    BY <1>m, <2>1, <2>2, ConverterFrame DEF Joining, Cancelling
<1>1. CASE CancelConv(c)
  <2>1. ctf_tef' = 0 /\ UNCHANGED <<op, bt2_thread, bt2_thread_stop>>
    BY <1>1, GotoMoves, AwaitMoves DEF CancelConv, bt2Vars
  <2>2. \A i \in Convs : convSt'[i] # "run"
    <3>1. \A i \in Convs : convSt'[i] = IF i \in ConvsToStop THEN Stopped(convSt[i])
                                       ELSE convSt[i]
      BY <1>1 DEF CancelConv
    <3>2. \A i \in Convs : convSt[i] = "run" => i \in ConvsToStop
      BY DEF ConverterKnown, ConvsToStop
    <3> QED
      BY <3>1, <3>2 DEF Stopped
  <2>3. \E to \in {"joinConv", "cancelTef"} : At(c, to)
    BY <1>1, GotoMoves, AwaitMoves DEF CancelConv
  <2>4. \A d \in Callers : d # c => pc'[d] = "idle"
    BY <1>i, <2>3 DEF At
  <2>5. op[c] = "cleanup" => bt2_thread_stop
    BY <1>1 DEF CancelConv, Runs, ConverterKnown, Joining, Cancelling
  <2> QED
    BY <2>1, <2>2, <2>4, <2>5 DEF ConverterKnown, Joining, Cancelling
<1>2. CASE JoinConv(c) \/ CancelTef(c) \/ JoinTef(c) \/ CancelEmit(c) \/ JoinEmit(c)
  <2>1. UNCHANGED <<ctf_tef, convSt, bt2_thread, bt2_thread_stop>>
    BY <1>2 DEF JoinConv, CancelTef, JoinTef, CancelEmit, JoinEmit, convVars, bt2Vars
  <2>2. PICK to \in Cancelling \cup {"idle"} : At(c, to)
    BY <1>2, GotoMoves, AwaitMoves, ReturnMoves
       DEF JoinConv, CancelTef, JoinTef, CancelEmit, JoinEmit, Cancelling
  <2>3. op'[c] \in {op[c], "none"}
    BY <1>2, GotoMoves, AwaitMoves, ReturnMoves
       DEF JoinConv, CancelTef, JoinTef, CancelEmit, JoinEmit
  <2>4. pc[c] \in Cancelling \ {"cancelConv"}
    BY <1>2 DEF JoinConv, CancelTef, JoinTef, CancelEmit, JoinEmit, Runs, Resumes, Cancelling
  <2>5. op[c] = "cleanup" => bt2_thread_stop /\ ctf_tef = 0
    BY <2>4 DEF ConverterKnown, Joining
  <2> QED
    BY <1>m, <2>1, <2>2, <2>3, <2>5
<1>3. CASE Restart(c)
  <2>1. pc[c] = "tasksStopped" /\ op[c] # "cleanup"
    BY <1>3 DEF Restart, Runs
  <2>2. /\ At(c, "notify") /\ UNCHANGED <<ctf_tef, op>> /\ bt2_thread' = bt2_thread
        /\ \A i \in Convs : convSt'[i] \in {"none", convSt[i]}
    BY <1>3, <2>1, LockFree, GotoMoves DEF Restart, bt2Vars
  <2> QED
    BY <1>m, <2>1, <2>2 DEF Joining, Cancelling
<1>4. CASE Notified(c) \/ Listening(c)
  <2>1. At(c, "idle") /\ UNCHANGED <<ctf_tef, convSt, bt2_thread>>
    BY <1>4, ReturnMoves DEF Notified, Listening, convVars, bt2Vars
  <2> QED
    BY <1>m, <2>1 DEF Joining, Cancelling
<1>5. CASE Closed(c) \/ JoinServe(c)
  <2>1. UNCHANGED <<ctf_tef, convSt, bt2_thread>>
    BY <1>5 DEF Closed, JoinServe, convVars, bt2Vars
  <2>2. At(c, "joinServe") \/ At(c, "stopBt2")
    BY <1>5, GotoMoves DEF Closed, JoinServe
  <2> QED
    BY <1>m, <2>1, <2>2 DEF Joining, Cancelling
<1>6. CASE StopBt2(c)
  <2>1. UNCHANGED <<ctf_tef, convSt, bt2_thread>>
    BY <1>6 DEF StopBt2, convVars
  <2>2. \/ At(c, "idle")
        \/ bt2_thread_stop' /\ (At(c, "joinBt2") \/ At(c, "joinedBt2"))
    BY <1>6, GotoMoves, ReturnMoves DEF StopBt2
  <2> QED
    BY <1>m, <2>1, <2>2 DEF Joining, Cancelling
<1>7. CASE JoinedBt2(c)
  <2>1. UNCHANGED <<ctf_tef, convSt, bt2_thread, bt2_thread_stop, op>> /\ At(c, "cancelConv")
    BY <1>7, GotoMoves DEF JoinedBt2, convVars, bt2Vars
  <2>2. op[c] = "cleanup" => bt2_thread_stop
    BY <1>7 DEF JoinedBt2, Resumes, ConverterKnown, Joining
  <2> QED
    BY <1>m, <2>1, <2>2
<1>8. CASE FinishCleanup(c)
  <2>1. pc[c] = "tasksStopped" /\ op[c] = "cleanup"
    BY <1>8 DEF FinishCleanup, Runs
  <2>2. ctf_tef = 0
    BY <2>1 DEF ConverterKnown, Cancelling
  <2>3. /\ At(c, "idle") /\ UNCHANGED ctf_tef
        /\ \A i \in Convs : convSt'[i] \in {"none", convSt[i]}
    BY <1>8, ReturnMoves DEF FinishCleanup
  <2> QED
    BY <1>m, <2>2, <2>3 DEF Joining, Cancelling
<1> QED
  BY <1>1, <1>2, <1>3, <1>4, <1>5, <1>6, <1>7, <1>8 DEF Continue

\* The consumer makes a converter only if it has none and the stop flag is down.
LEMMA ConverterMade ==
  ASSUME TypeOK, ConsumerKnown, ConverterKnown, NEW j \in Tefs, Tef(j)
  PROVE  ConverterKnown'
<1>1. tefSt[j] \in {"new", "wait", "stopping", "aborting"}
  BY DEF Tef, TefStart, TefGet, TefStop, TefAbort
<1>2. bt2_thread # "none"
  BY <1>1, Slots DEF ConsumerKnown, Gone
<1>3. UNCHANGED <<pc, op, bt2_thread, bt2_thread_stop>>
  BY DEF Tef, TefStart, TefGet, TefStop, TefAbort, callerVars, bt2Vars
<1>4. \/ UNCHANGED <<ctf_tef, convSt>>
      \/ /\ ctf_tef = 0 /\ ~bt2_thread_stop
         /\ \E i \in Convs : ctf_tef' = i /\ convSt' = [convSt EXCEPT ![i] = "run"]
  <2>1. SpareConvs # {} => AnyOf(SpareConvs) \in Convs
    BY AnyOfIn, SpareTypes
  <2>2. ASSUME NEW out, TefTop(j, out)
        PROVE  \/ UNCHANGED <<ctf_tef, convSt>>
               \/ /\ ctf_tef = 0 /\ ~bt2_thread_stop
                  /\ \E i \in Convs : ctf_tef' = i /\ convSt' = [convSt EXCEPT ![i] = "run"]
    BY <2>1, <2>2 DEF TefTop
  <2>3. CASE TefStop(j) \/ TefAbort(j)
    BY <2>3 DEF TefStop, TefAbort, convVars
  <2>4. CASE TefStart(j)
    BY <2>2, <2>4 DEF TefStart
  <2>5. CASE TefGet(j)
    BY <2>2, <2>5 DEF TefGet
  <2> QED
    BY <2>3, <2>4, <2>5 DEF Tef
<1>5. CASE UNCHANGED <<ctf_tef, convSt>>
  BY <1>3, <1>5 DEF ConverterKnown
<1>6. CASE ctf_tef = 0 /\ ~bt2_thread_stop
  <2>1. SUFFICES ASSUME NEW i \in Convs, ctf_tef' = i,
                        convSt' = [convSt EXCEPT ![i] = "run"]
                 PROVE  ConverterKnown'
    BY <1>4, <1>5
  <2>2. \A m \in Convs : convSt[m] # "run"
    BY <1>6, Slots DEF ConverterKnown
  <2>3. \A m \in Convs : m # i => convSt'[m] = convSt[m]
    BY <2>1
  <2> QED
    BY <1>2, <1>3, <1>6, <2>1, <2>2, <2>3 DEF ConverterKnown, Joining
<1> QED
  BY <1>4, <1>5, <1>6

LEMMA ConverterStep ==
  ASSUME ~SwallowCancel, TypeOK, LockHeldBySender, EmitterKnown, ConsumerKnown,
         ConverterKnown, NoOverlap, NoOverlap', [Next]_vars
  PROVE  ConverterKnown'
<1>1. UNCHANGED <<pc, op, convSt, ctf_tef, bt2_thread, bt2_thread_stop>> => ConverterKnown'
  BY DEF ConverterKnown
<1>2. ASSUME NEW on \in BOOLEAN, SetStreaming(on) PROVE ConverterKnown'
  BY <1>1, <1>2 DEF SetStreaming, callerVars, convVars, bt2Vars
<1>3. CASE Bt2Put
  BY <1>1, <1>3 DEF Bt2Put, callerVars, convVars, bt2Vars
<1>4. CASE Bt2Exit
  <2>1. UNCHANGED <<op, convSt, ctf_tef, bt2_thread_stop>> /\ bt2_thread' = "exited"
    BY <1>4 DEF Bt2Exit, convVars
  <2>2. \A d \in Callers : \/ pc'[d] = pc[d]
                           \/ pc[d] = "joinBt2" /\ pc'[d] = "joinedBt2"
    BY <1>4 DEF Bt2Exit
  <2> QED
    BY <2>1, <2>2 DEF ConverterKnown, Joining, Cancelling
<1>5. ASSUME NEW i \in Convs, Conv(i) PROVE ConverterKnown'
  <2>1. UNCHANGED <<pc, op, ctf_tef, bt2_thread, bt2_thread_stop>>
    BY <1>5 DEF Conv, ConvGet, ConvFlush, ConvDie, ConvStop, ConvSwallow, callerVars, bt2Vars
  <2>2. \A m \in Convs : convSt'[m] = "run" => convSt[m] = "run"
    BY <1>5 DEF Conv, ConvGet, ConvFlush, ConvDie, ConvStop, ConvSwallow, TypeOK, ConvOK
  <2> QED
    BY <2>1, <2>2 DEF ConverterKnown
<1>6. ASSUME NEW k \in Emits, Emit(k) PROVE ConverterKnown'
  <2>1. UNCHANGED <<pc, op, convSt, ctf_tef, bt2_thread, bt2_thread_stop>>
    BY <1>6 DEF Emit, EmitStart, EmitTake, EmitSent, EmitStop, callerVars, convVars, bt2Vars
  <2> QED
    BY <1>1, <2>1
<1>7. CASE UNCHANGED vars
  BY <1>1, <1>7 DEF vars, callerVars, convVars, bt2Vars
<1> QED
  BY <1>2, <1>3, <1>4, <1>5, <1>6, <1>7, ConverterCall, ConverterContinue, ConverterMade
     DEF Next

LEMMA InitConverter == Init => ConverterKnown
BY DEF Init, ConverterKnown, Joining, Cancelling

LEMMA ConverterInvariant ==
  ASSUME ~EarlyReset, ~SwallowCancel
  PROVE  Spec /\ []NoOverlap => []ConverterKnown
<1>1. TypeOK /\ LockHeldBySender /\ EmitterKnown /\ ConsumerKnown /\ ConverterKnown
      /\ NoOverlap /\ NoOverlap' /\ [Next]_vars => ConverterKnown'
  BY ConverterStep
<1> QED
  BY <1>1, InitConverter, EmitterInvariant, ConsumerInvariant, TypeCorrect, LockDiscipline,
     PTL DEF Spec

\* Once _live_trace_cleanup is through (trace_handler.py 592-609) no converter, consumer
\* or emitter is left running, even if some of them failed on the way: the stop flag is up
\* while the tasks are cancelled, so that none of them starts a converter anew.  For
\* operations that do not overlap, resets that come only while something is connected, and
\* a wait_for that does not swallow the cancellation of the converter.
THEOREM ShutdownIsClean ==
  ASSUME ~EarlyReset, ~SwallowCancel
  PROVE  Spec /\ []NoOverlap => []CleanShutdown
<1>1. TypeOK /\ EmitterKnown /\ ConsumerKnown /\ ConverterKnown => CleanShutdown
  BY Slots DEF EmitterKnown, ConsumerKnown, ConverterKnown, CleanShutdown, LiveConvs,
     LiveTefs, LiveEmits, Gone
<1> QED
  BY <1>1, TypeCorrect, EmitterInvariant, ConsumerInvariant, ConverterInvariant, PTL

----------------------------------------------------------------------------
(* When nothing fails: no converter dies, the interceptor, and the feed of the consumer *)

\* Every converter that runs has its input queue, and the task that is awaited is one.
ConvertersLive ==
  /\ \A i \in Convs : convSt[i] # "dead" /\ (convSt[i] = "run" => convSrc[i] # "none")
  /\ bt2_thread # "none" => async_q.made
  /\ \A c \in Callers : pc[c] = "joinConv" => waits[c] \in Convs

LEMMA MadeKept ==
  ASSUME TypeOK, Next
  PROVE  async_q.made => async_q'.made
<1>1. ASSUME NEW q, async_q' = [async_q EXCEPT ![q] = Tail(@)], q \in {"live", "left"}
      PROVE  async_q'.made = async_q.made
  BY <1>1 DEF TypeOK, QueueOK
<1>2. ASSUME NEW c \in Callers, Call(c) PROVE async_q.made => async_q'.made
  BY <1>2 DEF Call, Connect, Cleanup, Reset, Leave, Collect
<1>3. ASSUME NEW c \in Callers, Continue(c) PROVE async_q'.made = async_q.made
  <2>1. CASE Restart(c)
    BY <2>1 DEF Restart, TypeOK, QueueOK
  <2>2. CASE CancelConv(c) \/ JoinConv(c) \/ CancelTef(c) \/ JoinTef(c) \/ CancelEmit(c)
             \/ JoinEmit(c)
    BY <2>2 DEF CancelConv, JoinConv, CancelTef, JoinTef, CancelEmit, JoinEmit
  <2>3. CASE \/ Notified(c) \/ Listening(c) \/ Closed(c) \/ JoinServe(c) \/ StopBt2(c)
             \/ JoinedBt2(c) \/ FinishCleanup(c)
    BY <2>3 DEF Notified, Listening, Closed, JoinServe, StopBt2, JoinedBt2, FinishCleanup
  <2> QED
    BY <1>3, <2>1, <2>2, <2>3 DEF Continue
<1>4. CASE Bt2Put
  BY <1>4 DEF Bt2Put, TypeOK, QueueOK
<1>5. ASSUME NEW i \in Convs, Conv(i) PROVE async_q'.made = async_q.made
  <2>1. convSrc[i] # "none" => convSrc[i] \in {"live", "left"}
    BY DEF TypeOK, ConvOK
  <2> QED
    BY <1>1, <1>5, <2>1 DEF Conv, ConvGet, ConvFlush, ConvDie, ConvStop, ConvSwallow
<1>6. CASE Bt2Exit \/ \E on \in BOOLEAN : SetStreaming(on)
  BY <1>6 DEF Bt2Exit, SetStreaming
<1>7. ASSUME NEW j \in Tefs, Tef(j) PROVE async_q'.made = async_q.made
  BY <1>7 DEF Tef, TefStart, TefGet, TefStop, TefAbort
<1>8. ASSUME NEW k \in Emits, Emit(k) PROVE async_q'.made = async_q.made
  BY <1>8 DEF Emit, EmitStart, EmitTake, EmitSent, EmitStop
<1> QED
  BY <1>2, <1>3, <1>4, <1>5, <1>6, <1>7, <1>8 DEF Next

LEMMA LiveFrame ==
  ASSUME ConvertersLive,
         \A i \in Convs : /\ convSt'[i] = "dead" => convSt[i] = "dead"
                          /\ convSt'[i] = "run" => convSt[i] = "run"
                          /\ convSt'[i] = "run" /\ convSrc[i] # "none" => convSrc'[i] # "none",
         bt2_thread' # "none" => async_q'.made,
         \A d \in Callers : pc'[d] = "joinConv" => waits'[d] \in Convs
  PROVE  ConvertersLive'
BY DEF ConvertersLive

LEMMA LiveCall ==
  ASSUME TypeOK, ConvertersLive, Next, NEW c \in Callers, Call(c)
  PROVE  ConvertersLive'
<1>1. UNCHANGED <<convSt, waits>>
  BY DEF Call, Connect, Cleanup, Reset, Leave, Collect, convVars
<1>2. \A i \in Convs : convSrc[i] # "none" => convSrc'[i] # "none"
  BY DEF Call, Connect, Cleanup, Reset, Leave, Collect, convVars, TypeOK, ConvOK
<1>3. bt2_thread' # "none" => async_q'.made
  BY MadeKept DEF Call, Connect, Cleanup, Reset, Leave, Collect, bt2Vars, ConvertersLive
<1>4. \A d \in Callers : pc'[d] = "joinConv" => pc[d] = "joinConv"
  BY DEF Call, Connect, Cleanup, Reset, Leave, Collect, TypeOK, CallerOK
<1> QED
  BY <1>1, <1>2, <1>3, <1>4, LiveFrame DEF ConvertersLive

LEMMA LiveContinue ==
  ASSUME TypeOK, ConvertersLive, Next, NEW c \in Callers, Continue(c)
  PROVE  ConvertersLive'
<1>1. UNCHANGED convSrc
  BY DEF Continue, CancelConv, JoinConv, CancelTef, JoinTef, CancelEmit, JoinEmit, Restart,
         Notified, Listening, Closed, JoinServe, StopBt2, JoinedBt2, FinishCleanup, convVars
<1>2. bt2_thread' # "none" => async_q'.made
  <2>1. bt2_thread' # "none" => bt2_thread # "none"
    BY DEF Continue, CancelConv, JoinConv, CancelTef, JoinTef, CancelEmit, JoinEmit, Restart,
           Notified, Listening, Closed, JoinServe, StopBt2, JoinedBt2, FinishCleanup, bt2Vars
  <2> QED
    BY <2>1, MadeKept DEF ConvertersLive
<1>3. \A i \in Convs : convSt'[i] \in {convSt[i], "none", "stopping"}
  <2>1. CASE CancelConv(c)
    BY <2>1 DEF CancelConv, Stopped
  <2>2. CASE Restart(c)
    BY <2>2 DEF Restart, convVars
  <2>3. CASE FinishCleanup(c)
    BY <2>3 DEF FinishCleanup
  <2>4. CASE JoinConv(c) \/ CancelTef(c) \/ JoinTef(c) \/ CancelEmit(c) \/ JoinEmit(c)
             \/ Notified(c)
    BY <2>4 DEF JoinConv, CancelTef, JoinTef, CancelEmit, JoinEmit, Notified, convVars
  <2>5. CASE Listening(c) \/ Closed(c) \/ JoinServe(c) \/ StopBt2(c) \/ JoinedBt2(c)
    BY <2>5 DEF Listening, Closed, JoinServe, StopBt2, JoinedBt2, convVars
  <2> QED
    BY <2>1, <2>2, <2>3, <2>4, <2>5 DEF Continue
<1>4. ASSUME NEW d \in Callers, pc'[d] = "joinConv" PROVE waits'[d] \in Convs
  <2>1. CASE CancelConv(c)
    BY <1>4, <2>1, GotoMoves, AwaitMoves, Slots DEF CancelConv, At, ConvertersLive
  <2>2. CASE Restart(c)
    BY <1>4, <2>2, GotoMoves DEF Restart, At, ConvertersLive
  <2>3. CASE JoinConv(c) \/ CancelTef(c) \/ JoinTef(c) \/ CancelEmit(c) \/ JoinEmit(c)
             \/ Notified(c)
    BY <1>4, <2>3, GotoMoves, AwaitMoves, ReturnMoves
       DEF JoinConv, CancelTef, JoinTef, CancelEmit, JoinEmit, Notified, At, ConvertersLive
  <2>4. CASE \/ Listening(c) \/ Closed(c) \/ JoinServe(c) \/ StopBt2(c) \/ JoinedBt2(c)
             \/ FinishCleanup(c)
    BY <1>4, <2>4, GotoMoves, ReturnMoves
       DEF Listening, Closed, JoinServe, StopBt2, JoinedBt2, FinishCleanup, At,
           ConvertersLive
  <2> QED
    BY <2>1, <2>2, <2>3, <2>4 DEF Continue
<1> QED
  BY <1>1, <1>2, <1>3, <1>4, LiveFrame

\* what the consumer does to the converters: nothing, or one more that runs
LEMMA TefMakes ==
  ASSUME TypeOK, NEW j \in Tefs, Tef(j)
  PROVE  \/ UNCHANGED <<ctf_tef, convSt, convSrc>>
         \/ /\ ctf_tef = 0
            /\ \E i \in Convs :
                 /\ ctf_tef' = i /\ convSt' = [convSt EXCEPT ![i] = "run"]
                 /\ convSrc' = [convSrc EXCEPT ![i] = IF async_q.made THEN "live" ELSE "none"]
<1>1. SpareConvs # {} => AnyOf(SpareConvs) \in Convs
  BY AnyOfIn, SpareTypes
<1>2. ASSUME NEW out, TefTop(j, out)
      PROVE  \/ UNCHANGED <<ctf_tef, convSt, convSrc>>
             \/ /\ ctf_tef = 0
                /\ \E i \in Convs :
                     /\ ctf_tef' = i /\ convSt' = [convSt EXCEPT ![i] = "run"]
                     /\ convSrc' = [convSrc EXCEPT ![i] =
                                      IF async_q.made THEN "live" ELSE "none"]
  BY <1>1, <1>2 DEF TefTop
<1>3. CASE TefStop(j) \/ TefAbort(j)
  BY <1>3 DEF TefStop, TefAbort, convVars
<1>4. CASE TefStart(j)
  BY <1>2, <1>4 DEF TefStart
<1>5. CASE TefGet(j)
  BY <1>2, <1>5 DEF TefGet
<1> QED
  BY <1>3, <1>4, <1>5 DEF Tef

LEMMA LiveStep ==
  ASSUME ~MayFail, TypeOK, ConsumerKnown, ConvertersLive, [Next]_vars
  PROVE  ConvertersLive'
<1>1. CASE UNCHANGED vars
  BY <1>1 DEF vars, callerVars, convVars, bt2Vars, ConvertersLive
<1>2. CASE Next
  <2>0. bt2_thread' # "none" /\ bt2_thread # "none" => async_q'.made
    BY <1>2, MadeKept DEF ConvertersLive
  <2>1. UNCHANGED <<callerVars, convSt, convSrc, bt2_thread>> => ConvertersLive'
    BY <2>0 DEF callerVars, ConvertersLive
  <2>2. ASSUME NEW on \in BOOLEAN, SetStreaming(on) PROVE ConvertersLive'
    BY <2>1, <2>2 DEF SetStreaming, convVars, bt2Vars
  <2>3. CASE Bt2Put
    BY <2>1, <2>3 DEF Bt2Put, convVars, bt2Vars
  <2>4. CASE Bt2Exit
    <3>1. UNCHANGED <<waits, convSt, convSrc>> /\ bt2_thread # "none"
          /\ \A d \in Callers : pc'[d] = "joinConv" => pc[d] = "joinConv"
      BY <2>4 DEF Bt2Exit, convVars
    <3> QED
      BY <2>0, <3>1 DEF ConvertersLive
  <2>5. ASSUME NEW i \in Convs, Conv(i) PROVE ConvertersLive'
    <3>1. UNCHANGED <<callerVars, bt2_thread>>
      BY <2>5 DEF Conv, ConvGet, ConvFlush, ConvDie, ConvStop, ConvSwallow, bt2Vars
    <3>2. \A m \in Convs : m # i => convSt'[m] = convSt[m] /\ convSrc'[m] = convSrc[m]
      BY <2>5 DEF Conv, ConvGet, ConvFlush, ConvDie, ConvStop, ConvSwallow, TypeOK, ConvOK
    <3>3. convSt'[i] # "dead" /\ (convSt'[i] = "run" => convSrc'[i] # "none")
      BY <2>5 DEF Conv, ConvGet, ConvFlush, ConvDie, ConvStop, ConvSwallow, TypeOK, ConvOK,
                  ConvertersLive
    <3> QED
      BY <2>0, <3>1, <3>2, <3>3 DEF ConvertersLive, callerVars
  <2>6. ASSUME NEW j \in Tefs, Tef(j) PROVE ConvertersLive'
    <3>1. UNCHANGED <<callerVars, bt2_thread>>
      BY <2>6 DEF Tef, TefStart, TefGet, TefStop, TefAbort, bt2Vars
    <3>2. bt2_thread # "none"
      <4>1. tefSt[j] \in {"new", "wait", "stopping", "aborting"}
        BY <2>6 DEF Tef, TefStart, TefGet, TefStop, TefAbort
      <4> QED
        BY <4>1, Slots DEF ConsumerKnown, Gone
    <3>3. CASE UNCHANGED <<convSt, convSrc>>
      BY <2>1, <3>1, <3>3
    <3>4. ASSUME NEW i \in Convs, convSt' = [convSt EXCEPT ![i] = "run"],
                 convSrc' = [convSrc EXCEPT ![i] = IF async_q.made THEN "live" ELSE "none"]
          PROVE  ConvertersLive'
      <4>1. async_q.made
        BY <3>2 DEF ConvertersLive
      <4>2. \A m \in Convs : /\ convSt'[m] = IF m = i THEN "run" ELSE convSt[m]
                             /\ convSrc'[m] = IF m = i THEN "live" ELSE convSrc[m]
        BY <3>4, <4>1 DEF TypeOK, ConvOK
      <4> QED
        BY <2>0, <3>1, <4>2 DEF ConvertersLive, callerVars
    <3> QED
      BY <2>6, <3>3, <3>4, TefMakes
  <2>7. ASSUME NEW k \in Emits, Emit(k) PROVE ConvertersLive'
    <3>1. UNCHANGED <<pc, waits, convSt, convSrc, bt2_thread>>
      BY <2>7 DEF Emit, EmitStart, EmitTake, EmitSent, EmitStop, callerVars, convVars, bt2Vars
    <3> QED
      BY <2>0, <3>1 DEF ConvertersLive
  <2> QED
    BY <1>2, <2>2, <2>3, <2>4, <2>5, <2>6, <2>7, LiveCall, LiveContinue DEF Next
<1> QED
  BY <1>1, <1>2

LEMMA InitLive == Init => ConvertersLive
BY DEF Init, ConvertersLive

LEMMA LiveInvariant ==
  ASSUME ~EarlyReset, ~MayFail
  PROVE  Spec /\ []NoOverlap => []ConvertersLive
<1>1. TypeOK /\ ConsumerKnown /\ ConvertersLive /\ [Next]_vars => ConvertersLive'
  BY LiveStep
<1> QED
  BY <1>1, InitLive, ConsumerInvariant, TypeCorrect, PTL DEF Spec

----------------------------------------------------------------------------
(* The interceptor *)

\* c is between operations, or in one that leaves the thread and the server as they are
Quiet(c) == pc[c] = "waitClosed" \/ (pc[c] # "startServer" /\ op[c] # "cleanup")

ServerAt(c) ==
  /\ pc[c] = "idle" => op[c] = "none"
  /\ pc[c] \in {"startServer", "notify"} => op[c] # "cleanup"
  /\ pc[c] = "startServer" => bt2_thread # "none"
  /\ pc[c] \in {"waitClosed", "joinServe", "stopBt2"} => op[c] = "cleanup"
  /\ op[c] = "cleanup" /\ pc[c] # "waitClosed" => ~interceptor_server

\* Thread and server are both there or both not, except while a connect has the thread
\* and not yet the server, or a disconnect has closed the server and not yet the thread.
ServerKnown ==
  /\ (\A c \in Callers : Quiet(c)) => (bt2_thread # "none" <=> interceptor_server)
  /\ \A c \in Callers : ServerAt(c)

LEMMA ServerMove ==
  ASSUME ServerKnown, NEW c \in Callers,
         \A d \in Callers : d # c => pc[d] = "idle" /\ pc'[d] = "idle" /\ op'[d] = op[d],
         Quiet(c)' => (bt2_thread' # "none" <=> interceptor_server'), ServerAt(c)'
  PROVE  ServerKnown'
<1>1. \A d \in Callers : d # c => ServerAt(d)'
  BY DEF ServerKnown, ServerAt
<1> QED
  BY <1>1 DEF ServerKnown

LEMMA ServerCall ==
  ASSUME TypeOK, ServerKnown, NoOverlap', NEW c \in Callers, Call(c)
  PROVE  ServerKnown'
<1>1. pc[c] = "idle" /\ UNCHANGED interceptor_server
  BY DEF Call, Connect, Cleanup, Reset, Leave, Collect, servVars
<1>2. PICK to \in {"startServer", "waitClosed", "joinServe", "cancelConv", "notify"} :
        At(c, to)
  BY DEF Call, Connect, Cleanup, Reset, Leave, Collect, At, TypeOK, CallerOK
<1>3. \A d \in Callers : d # c => pc[d] = "idle" /\ pc'[d] = "idle" /\ op'[d] = op[d]
  <2>1. \A d \in Callers : d # c => op'[d] = op[d]
    BY DEF Call, Connect, Cleanup, Reset, Leave, Collect, TypeOK, CallerOK
  <2> QED
    BY <1>2, <2>1, OthersStayIdle DEF At
<1>4. bt2_thread # "none" <=> interceptor_server
  BY <1>1, <1>3 DEF ServerKnown, ServerAt, Quiet
<1>5. CASE Connect(c)
  <2>1. pc'[c] = "startServer" /\ op'[c] = "connect" /\ bt2_thread' = "running"
    BY <1>5 DEF Connect, TypeOK, CallerOK
  <2> QED
    BY <1>3, <2>1, ServerMove DEF Quiet, ServerAt
<1>6. CASE Cleanup(c)
  <2>1. /\ op'[c] = "cleanup" /\ UNCHANGED bt2_thread
        /\ pc'[c] = IF interceptor_server THEN "waitClosed" ELSE "joinServe"
    BY <1>6 DEF Cleanup, TypeOK, CallerOK, bt2Vars
  <2> QED
    BY <1>1, <1>3, <1>4, <2>1, ServerMove DEF Quiet, ServerAt
<1>7. CASE Reset(c) \/ Leave(c) \/ Collect(c)
  <2>1. /\ op'[c] \in {"reset", "leave", "collect"} /\ UNCHANGED bt2_thread
        /\ pc'[c] \in {"cancelConv", "notify"}
    BY <1>7 DEF Reset, Leave, Collect, TypeOK, CallerOK, bt2Vars
  <2> QED
    BY <1>1, <1>3, <1>4, <2>1, ServerMove DEF Quiet, ServerAt
<1> QED
  BY <1>5, <1>6, <1>7 DEF Call

\* No operation ends early by the exception of a task it awaited.
LEMMA NoEarlyReturn ==
  ASSUME TypeOK, EmitterKnown, ConsumerKnown, ConvertersLive, NEW c \in Callers,
         JoinConv(c) \/ JoinTef(c) \/ JoinEmit(c)
  PROVE  /\ \E to \in {"cancelTef", "cancelEmit", "tasksStopped"} : At(c, to)
         /\ UNCHANGED op
<1>1. CASE JoinConv(c)
  <2>1. waits[c] \in Convs
    BY <1>1 DEF JoinConv, Resumes, ConvertersLive
  <2> QED
    BY <1>1, <2>1, GotoMoves DEF JoinConv, ConvertersLive
<1>2. CASE JoinTef(c)
  <2>1. waits[c] \in Tefs
    BY <1>2, Slots DEF JoinTef, Resumes, ConsumerKnown
  <2> QED
    BY <1>2, <2>1, GotoMoves DEF JoinTef, ConsumerKnown
<1>3. CASE JoinEmit(c)
  <2>1. waits[c] \in Emits
    BY <1>3, Slots DEF JoinEmit, Resumes, EmitterKnown
  <2> QED
    BY <1>3, <2>1, GotoMoves DEF JoinEmit, EmitterKnown
<1> QED
  BY <1>1, <1>2, <1>3

LEMMA ServerContinue ==
  ASSUME ~MayFail, TypeOK, LockHeldBySender, EmitterKnown, ConsumerKnown, ConvertersLive,
         ServerKnown, NoOverlap, NEW c \in Callers, Continue(c)
  PROVE  ServerKnown'
<1>0. pc[c] # "idle"
  BY DEF Continue, CancelConv, JoinConv, CancelTef, JoinTef, CancelEmit, JoinEmit, Restart,
         Notified, Listening, Closed, JoinServe, StopBt2, JoinedBt2, FinishCleanup, Runs,
         Resumes
<1>i. \A d \in Callers : d # c => pc[d] = "idle"
  BY <1>0, OthersIdle
<1>q. ServerAt(c) /\ (Quiet(c) => (bt2_thread # "none" <=> interceptor_server))
  <2>1. \A d \in Callers : d # c => Quiet(d)
    BY <1>i DEF ServerKnown, ServerAt, Quiet
  <2> QED
    BY <2>1 DEF ServerKnown
<1>m. ASSUME NEW to, At(c, to), \A d \in Callers : d # c => op'[d] = op[d],
             Quiet(c)' => (bt2_thread' # "none" <=> interceptor_server'), ServerAt(c)'
      PROVE  ServerKnown'
  <2>1. \A d \in Callers : d # c => pc'[d] = "idle"
    BY <1>i, <1>m DEF At
  <2> QED
    BY <1>i, <1>m, <2>1, ServerMove
<1>1. CASE \/ CancelConv(c) \/ JoinConv(c) \/ CancelTef(c) \/ JoinTef(c) \/ CancelEmit(c)
           \/ JoinEmit(c) \/ JoinedBt2(c)
  <2>1. UNCHANGED <<bt2_thread, interceptor_server>>
    BY <1>1 DEF CancelConv, JoinConv, CancelTef, JoinTef, CancelEmit, JoinEmit, JoinedBt2,
                bt2Vars, servVars
  <2>2. PICK to \in Cancelling : At(c, to) /\ UNCHANGED op
    BY <1>1, GotoMoves, AwaitMoves, NoEarlyReturn
       DEF CancelConv, CancelTef, CancelEmit, JoinedBt2, Cancelling
  <2>3. pc[c] \in Joining
    BY <1>1 DEF CancelConv, JoinConv, CancelTef, JoinTef, CancelEmit, JoinEmit, JoinedBt2,
                Runs, Resumes, Joining, Cancelling
  <2>4. pc'[c] = to
    BY <2>2 DEF At
  <2> QED
    BY <1>q, <1>m, <2>1, <2>2, <2>3, <2>4 DEF Quiet, ServerAt, Joining, Cancelling
<1>2. CASE Restart(c)
  <2>1. pc[c] = "tasksStopped" /\ op[c] # "cleanup"
    BY <1>2 DEF Restart, Runs
  <2>2. /\ At(c, "notify") /\ UNCHANGED <<op, bt2_thread, interceptor_server>>
    BY <1>2, <2>1, LockFree, GotoMoves DEF Restart, bt2Vars, servVars
  <2>3. pc'[c] = "notify"
    BY <2>2 DEF At
  <2> QED
    BY <1>q, <1>m, <2>1, <2>2, <2>3 DEF Quiet, ServerAt
<1>3. CASE Notified(c)
  <2>1. pc[c] = "notify" /\ At(c, "idle") /\ UNCHANGED <<bt2_thread, interceptor_server>>
    BY <1>3, ReturnMoves DEF Notified, Resumes, bt2Vars, servVars
  <2>2. \A d \in Callers : op'[d] = IF d = c THEN "none" ELSE op[d]
    BY <1>3, ReturnMoves DEF Notified
  <2>3. pc'[c] = "idle"
    BY <2>1 DEF At
  <2> QED
    BY <1>q, <1>m, <2>1, <2>2, <2>3 DEF Quiet, ServerAt
<1>4. CASE Listening(c)
  <2>1. pc[c] = "startServer" /\ At(c, "idle") /\ UNCHANGED bt2_thread /\ interceptor_server'
    BY <1>4, ReturnMoves DEF Listening, Resumes, bt2Vars
  <2>2. \A d \in Callers : op'[d] = IF d = c THEN "none" ELSE op[d]
    BY <1>4, ReturnMoves DEF Listening
  <2>3. pc'[c] = "idle"
    BY <2>1 DEF At
  <2> QED
    BY <1>q, <1>m, <2>1, <2>2, <2>3 DEF Quiet, ServerAt
<1>5. CASE Closed(c)
  <2>1. pc[c] = "waitClosed" /\ At(c, "joinServe") /\ UNCHANGED op /\ ~interceptor_server'
    BY <1>5, GotoMoves DEF Closed, Resumes
  <2>2. pc'[c] = "joinServe"
    BY <2>1 DEF At
  <2> QED
    BY <1>q, <1>m, <2>1, <2>2 DEF Quiet, ServerAt
<1>6. CASE JoinServe(c)
  <2>1. pc[c] = "joinServe" /\ At(c, "stopBt2") /\ UNCHANGED <<op, interceptor_server>>
    BY <1>6, GotoMoves DEF JoinServe, Runs, servVars
  <2>2. pc'[c] = "stopBt2"
    BY <2>1 DEF At
  <2> QED
    BY <1>q, <1>m, <2>1, <2>2 DEF Quiet, ServerAt
<1>7. CASE StopBt2(c)
  <2>1. pc[c] = "stopBt2" /\ UNCHANGED <<bt2_thread, interceptor_server>>
    BY <1>7 DEF StopBt2, Resumes
  <2>2. ~interceptor_server /\ op[c] = "cleanup"
    BY <1>q, <2>1 DEF ServerAt
  <2>3. CASE bt2_thread = "none"
    <3>1. At(c, "idle") /\ \A d \in Callers : op'[d] = IF d = c THEN "none" ELSE op[d]
      BY <1>7, <2>3, ReturnMoves DEF StopBt2
    <3>2. pc'[c] = "idle"
      BY <3>1 DEF At
    <3> QED
      BY <1>m, <2>1, <2>2, <2>3, <3>1, <3>2 DEF Quiet, ServerAt
  <2>4. CASE bt2_thread # "none"
    <3>1. PICK to \in {"joinBt2", "joinedBt2"} : At(c, to) /\ UNCHANGED op
      BY <1>7, <2>4, GotoMoves DEF StopBt2
    <3>2. pc'[c] = to
      BY <3>1 DEF At
    <3> QED
      BY <1>m, <2>1, <2>2, <3>1, <3>2 DEF Quiet, ServerAt
  <2> QED
    BY <2>3, <2>4
<1>8. CASE FinishCleanup(c)
  <2>1. /\ pc[c] = "tasksStopped" /\ op[c] = "cleanup"
        /\ UNCHANGED interceptor_server /\ bt2_thread' = "none"
    BY <1>8 DEF FinishCleanup, Runs, servVars
  <2>2. At(c, "idle") /\ \A d \in Callers : op'[d] = IF d = c THEN "none" ELSE op[d]
    BY <1>8, ReturnMoves DEF FinishCleanup
  <2>3. pc'[c] = "idle"
    BY <2>2 DEF At
  <2> QED
    BY <1>q, <1>m, <2>1, <2>2, <2>3 DEF Quiet, ServerAt
<1> QED
  BY <1>1, <1>2, <1>3, <1>4, <1>5, <1>6, <1>7, <1>8 DEF Continue

\* The background steps: only the thread changes, and then not whether it is there.
LEMMA ServerFrame ==
  ASSUME ServerKnown, UNCHANGED <<op, interceptor_server>>,
         bt2_thread' # "none" <=> bt2_thread # "none",
         \A d \in Callers : pc'[d] = pc[d] \/ (pc[d] = "joinBt2" /\ pc'[d] = "joinedBt2")
  PROVE  ServerKnown'
<1>1. \A d \in Callers : (Quiet(d)' <=> Quiet(d)) /\ ServerAt(d)'
  BY DEF ServerKnown, ServerAt, Quiet
<1> QED
  BY <1>1 DEF ServerKnown

LEMMA BackgroundFrame ==
  ASSUME \/ \E on \in BOOLEAN : SetStreaming(on)
         \/ Bt2Put \/ Bt2Exit \/ UNCHANGED vars
         \/ \E i \in Convs : Conv(i)
         \/ \E j \in Tefs : Tef(j)
         \/ \E k \in Emits : Emit(k)
  PROVE  /\ UNCHANGED <<op, interceptor_server>>
         /\ bt2_thread' # "none" <=> bt2_thread # "none"
         /\ \A d \in Callers : pc'[d] = pc[d] \/ (pc[d] = "joinBt2" /\ pc'[d] = "joinedBt2")
<1>1. CASE Bt2Put \/ UNCHANGED vars \/ \E on \in BOOLEAN : SetStreaming(on)
  BY <1>1 DEF vars, SetStreaming, Bt2Put, callerVars, servVars, bt2Vars
<1>2. CASE Bt2Exit
  BY <1>2 DEF Bt2Exit, servVars
<1>3. ASSUME NEW i \in Convs, Conv(i) PROVE UNCHANGED <<op, interceptor_server, bt2_thread, pc>>
  BY <1>3 DEF Conv, ConvGet, ConvFlush, ConvDie, ConvStop, ConvSwallow, callerVars, servVars,
              bt2Vars
<1>4. ASSUME NEW j \in Tefs, Tef(j) PROVE UNCHANGED <<op, interceptor_server, bt2_thread, pc>>
  BY <1>4 DEF Tef, TefStart, TefGet, TefStop, TefAbort, callerVars, servVars, bt2Vars
<1>5. ASSUME NEW k \in Emits, Emit(k) PROVE UNCHANGED <<op, interceptor_server, bt2_thread, pc>>
  BY <1>5 DEF Emit, EmitStart, EmitTake, EmitSent, EmitStop, callerVars, servVars, bt2Vars
<1> QED
  BY <1>1, <1>2, <1>3, <1>4, <1>5

LEMMA ServerStep ==
  ASSUME ~MayFail, TypeOK, LockHeldBySender, EmitterKnown, ConsumerKnown, ConvertersLive,
         ServerKnown, NoOverlap, NoOverlap', [Next]_vars
  PROVE  ServerKnown'
BY ServerCall, ServerContinue, ServerFrame, BackgroundFrame DEF Next

LEMMA InitServer == Init => ServerKnown
BY DEF Init, ServerKnown, ServerAt, Quiet

LEMMA ServerInvariant ==
  ASSUME ~EarlyReset, ~MayFail
  PROVE  Spec /\ []NoOverlap => []ServerKnown
<1>1. TypeOK /\ LockHeldBySender /\ EmitterKnown /\ ConsumerKnown /\ ConvertersLive
      /\ ServerKnown /\ NoOverlap /\ NoOverlap' /\ [Next]_vars => ServerKnown'
  BY ServerStep
<1> QED
  BY <1>1, InitServer, EmitterInvariant, ConsumerInvariant, LiveInvariant, TypeCorrect,
     LockDiscipline, PTL DEF Spec

\* "Already listening", the answer of trace.connect when there is a thread
\* (trace_handler.py 240-246), is true whenever no operation is under way: no sequence of
\* connects, resets, disconnects and reloads that do not overlap leaves a thread without
\* its server or the other way round, as long as start_server and the tasks do not raise.
THEOREM ListeningIsTrue ==
  ASSUME ~EarlyReset, ~MayFail
  PROVE  Spec /\ []NoOverlap => []ListeningIfConnected
<1>1. ServerKnown => ListeningIfConnected
  BY DEF ServerKnown, ServerAt, Quiet, ListeningIfConnected, AllIdle
<1> QED
  BY <1>1, ServerInvariant, PTL

\* trace.disconnect returns only when the server is closed and the thread joined
\* (trace_handler.py 563-609), under the same conditions: no await in between, and no task
\* it awaits, makes it leave early with one of the two still there.
THEOREM DisconnectIsComplete ==
  ASSUME ~EarlyReset, ~MayFail
  PROVE  Spec /\ []NoOverlap => DisconnectTearsDown
<1> DEFINE Complete == \A c \in Callers : op[c] = "cleanup" /\ op'[c] = "none" =>
                         bt2_thread' = "none" /\ ~interceptor_server'
<1>1. TypeOK /\ EmitterKnown /\ ConsumerKnown /\ ConvertersLive /\ ServerKnown
      /\ [Next]_vars => [Complete]_vars
  <2> SUFFICES ASSUME TypeOK, EmitterKnown, ConsumerKnown, ConvertersLive, ServerKnown, Next,
                      NEW c \in Callers, op[c] = "cleanup", op'[c] = "none"
               PROVE  bt2_thread' = "none" /\ ~interceptor_server'
    OBVIOUS
  <2>1. PICK d \in Callers : Call(d) \/ Continue(d)
    BY BackgroundFrame DEF Next
  <2>2. ~Call(d)
    BY DEF Call, Connect, Cleanup, Reset, Leave, Collect, ServerKnown, ServerAt, TypeOK,
           CallerOK
  <2>3. CASE StopBt2(d)
    <3>1. c = d /\ bt2_thread' = "none" /\ interceptor_server' = interceptor_server
      BY <2>3, GotoMoves, ReturnMoves DEF StopBt2
    <3> QED
      BY <2>3, <3>1 DEF StopBt2, Resumes, ServerKnown, ServerAt
  <2>4. CASE FinishCleanup(d)
    <3>1. c = d /\ bt2_thread' = "none" /\ interceptor_server' = interceptor_server
      BY <2>4, ReturnMoves DEF FinishCleanup, servVars
    <3> QED
      BY <2>4, <3>1 DEF FinishCleanup, Runs, ServerKnown, ServerAt
  <2>5. CASE Notified(d) \/ Listening(d)
    <3>1. c = d
      BY <2>5, ReturnMoves DEF Notified, Listening
    <3> QED
      BY <2>5, <3>1 DEF Notified, Listening, Resumes, ServerKnown, ServerAt
  <2>6. CASE JoinConv(d) \/ JoinTef(d) \/ JoinEmit(d)
    BY <2>6, NoEarlyReturn
  <2>7. CASE CancelConv(d) \/ CancelTef(d) \/ CancelEmit(d) \/ Restart(d)
    BY <2>7, GotoMoves, AwaitMoves DEF CancelConv, CancelTef, CancelEmit, Restart
  <2>8. CASE Closed(d) \/ JoinServe(d) \/ JoinedBt2(d)
    BY <2>8, GotoMoves DEF Closed, JoinServe, JoinedBt2
  <2> QED
    BY <2>1, <2>2, <2>3, <2>4, <2>5, <2>6, <2>7, <2>8 DEF Continue
<1> QED
  BY <1>1, TypeCorrect, EmitterInvariant, ConsumerInvariant, LiveInvariant, ServerInvariant,
     PTL DEF Spec, DisconnectTearsDown

----------------------------------------------------------------------------
(* What the consumer waits on *)

\* ctf_tef runs, and a consumer that waits does so on ctf_tef, except between the cancel
\* of the converter and that of the consumer, where it may wait on the one just stopped.
FedKnown ==
  /\ ctf_tef # 0 => convSt[ctf_tef] = "run"
  /\ (\A c \in Callers : pc[c] \notin {"joinConv", "cancelTef"}) =>
       \A j \in Tefs : tefSt[j] = "wait" => tefConv[j] = ctf_tef

\* a step that starts no wait and leaves the converter that is named alone
LEMMA FedFrame ==
  ASSUME FedKnown, UNCHANGED ctf_tef, ctf_tef # 0 => convSt'[ctf_tef] = "run",
         \/ \A j \in Tefs : tefSt'[j] # "wait"
         \/ /\ UNCHANGED tefConv /\ \A j \in Tefs : tefSt'[j] = "wait" => tefSt[j] = "wait"
            /\ (\A c \in Callers : pc'[c] \notin {"joinConv", "cancelTef"}) =>
                 \A c \in Callers : pc[c] \notin {"joinConv", "cancelTef"}
  PROVE  FedKnown'
BY DEF FedKnown

\* With no consumer before, a new one does not wait yet.
LEMMA CreateTefWaits ==
  ASSUME ConsumerKnown, tef_task = 0, CreateTef, NEW j \in Tefs
  PROVE  tefSt'[j] # "wait"
<1>1. tefSt[j] \in Gone
  BY Slots, BoundsAssumption DEF ConsumerKnown, Tefs
<1>2. tefSt'[j] \in {"new", "none", tefSt[j]}
  BY DEF CreateTef
<1> QED
  BY <1>1, <1>2 DEF Gone

LEMMA FedCall ==
  ASSUME TypeOK, ConsumerKnown, FedKnown, NoOverlap', NEW c \in Callers, Call(c)
  PROVE  FedKnown'
<1>1. UNCHANGED <<ctf_tef, convSt>>
  BY DEF Call, Connect, Cleanup, Reset, Leave, Collect, convVars
<1>2. PICK to \in {"startServer", "waitClosed", "joinServe", "cancelConv", "notify"} :
        At(c, to) /\ pc[c] = "idle"
  BY DEF Call, Connect, Cleanup, Reset, Leave, Collect, At, TypeOK, CallerOK
<1>3. \A d \in Callers : pc[d] = "idle"
  BY <1>2, OthersStayIdle
<1>4. CASE Connect(c)
  <2>1. CreateTef /\ tef_task = 0
    BY <1>4 DEF Connect, ConsumerKnown
  <2> QED
    BY <1>1, <2>1, CreateTefWaits, FedFrame DEF FedKnown
<1>5. CASE Cleanup(c) \/ Reset(c) \/ Leave(c) \/ Collect(c)
  <2>1. UNCHANGED <<tefSt, tefConv>>
    BY <1>5 DEF Cleanup, Reset, Leave, Collect, tefVars
  <2> QED
    BY <1>1, <1>3, <2>1, FedFrame DEF FedKnown
<1> QED
  BY <1>4, <1>5 DEF Call

LEMMA FedContinue ==
  ASSUME TypeOK, LockHeldBySender, EmitterKnown, ConsumerKnown, ConvertersLive, FedKnown,
         NoOverlap, NEW c \in Callers, Continue(c)
  PROVE  FedKnown'
<1>0. pc[c] # "idle"
  BY DEF Continue, CancelConv, JoinConv, CancelTef, JoinTef, CancelEmit, JoinEmit, Restart,
         Notified, Listening, Closed, JoinServe, StopBt2, JoinedBt2, FinishCleanup, Runs,
         Resumes
<1>i. \A d \in Callers : d # c => pc[d] = "idle"
  BY <1>0, OthersIdle
<1>n. tef_task = 0 => \A j \in Tefs : tefSt[j] # "wait"
  BY Slots DEF ConsumerKnown, Gone
<1>1. CASE CancelConv(c)
  <2>1. ctf_tef' = 0
    BY <1>1 DEF CancelConv
  <2>2. pc'[c] \in {"joinConv", "cancelTef"}
    BY <1>1, GotoMoves, AwaitMoves DEF CancelConv, At
  <2> QED
    BY <2>1, <2>2 DEF FedKnown
<1>2. CASE JoinConv(c)
  <2>1. pc'[c] = "cancelTef" /\ UNCHANGED <<ctf_tef, convSt>>
    <3>1. waits[c] \in Convs
      BY <1>2 DEF JoinConv, Resumes, ConvertersLive
    <3> QED
      BY <1>2, <3>1, GotoMoves DEF JoinConv, ConvertersLive, At
  <2> QED
    BY <2>1 DEF FedKnown
<1>3. CASE CancelTef(c)
  <2>1. UNCHANGED <<ctf_tef, convSt>>
    BY <1>3 DEF CancelTef, convVars
  <2>2. \A j \in Tefs : tefSt'[j] # "wait"
    <3>1. CASE tef_task = 0
      BY <1>n, <1>3, <3>1 DEF CancelTef
    <3>2. CASE tef_task # 0
      <4>1. \A j \in Tefs : tefSt'[j] = IF j = tef_task THEN CancelledTef(tefSt[j])
                                       ELSE tefSt[j]
        BY <1>3, <3>2 DEF CancelTef, TypeOK, TefOK
      <4>2. \A j \in Tefs : j # tef_task => tefSt[j] # "wait"
        BY DEF ConsumerKnown, Gone
      <4>3. \A st \in TefSts : CancelledTef(st) # "wait"
        BY DEF CancelledTef, TefSts
      <4>4. \A j \in Tefs : tefSt[j] \in TefSts
        BY DEF TypeOK, TefOK
      <4> QED
        BY <4>1, <4>2, <4>3, <4>4
    <3> QED
      BY <3>1, <3>2
  <2> QED
    BY <2>1, <2>2, FedFrame DEF FedKnown
<1>4. CASE Restart(c)
  <2>1. pc[c] = "tasksStopped" /\ CreateTef /\ tef_task = 0
    BY <1>4 DEF Restart, Runs, ConsumerKnown
  <2>2. UNCHANGED ctf_tef /\ \A i \in Convs : i \notin SpareConvs => convSt'[i] = convSt[i]
    BY <1>4, <2>1, LockFree DEF Restart
  <2>3. ctf_tef # 0 => ctf_tef \in Convs /\ ctf_tef \notin SpareConvs
    BY Slots DEF SpareConvs
  <2> QED
    BY <2>1, <2>2, <2>3, CreateTefWaits, FedFrame DEF FedKnown
<1>5. CASE FinishCleanup(c)
  <2>1. pc[c] = "tasksStopped" /\ tef_task = 0 /\ UNCHANGED tefSt
    BY <1>5 DEF FinishCleanup, Runs, ConsumerKnown, tefVars
  <2>2. UNCHANGED ctf_tef /\ \A i \in Convs : i \notin SpareConvs => convSt'[i] = convSt[i]
    BY <1>5 DEF FinishCleanup
  <2>3. ctf_tef # 0 => ctf_tef \in Convs /\ ctf_tef \notin SpareConvs
    BY Slots DEF SpareConvs
  <2> QED
    BY <1>n, <2>1, <2>2, <2>3, FedFrame DEF FedKnown
<1>6. CASE \/ JoinTef(c) \/ CancelEmit(c) \/ JoinEmit(c) \/ Notified(c) \/ Listening(c)
           \/ Closed(c) \/ JoinServe(c) \/ StopBt2(c) \/ JoinedBt2(c)
  <2>1. UNCHANGED <<ctf_tef, convSt, tefSt, tefConv>>
    BY <1>6 DEF JoinTef, CancelEmit, JoinEmit, Notified, Listening, Closed, JoinServe,
                StopBt2, JoinedBt2, convVars, tefVars
  <2>2. \A d \in Callers : pc[d] \notin {"joinConv", "cancelTef"}
    BY <1>i, <1>6 DEF JoinTef, CancelEmit, JoinEmit, Notified, Listening, Closed, JoinServe,
                      StopBt2, JoinedBt2, Runs, Resumes
  <2> QED
    BY <2>1, <2>2, FedFrame DEF FedKnown
<1> QED
  BY <1>1, <1>2, <1>3, <1>4, <1>5, <1>6 DEF Continue

\* At the top of its loop the consumer takes the converter that is named, or names one.
LEMMA FedConsumer ==
  ASSUME TypeOK, QueueHasEmitter, ConsumerKnown, FedKnown, NEW j \in Tefs, Tef(j)
  PROVE  FedKnown'
<1>1. tefSt[j] \in {"new", "wait", "stopping", "aborting"}
  BY DEF Tef, TefStart, TefGet, TefStop, TefAbort
<1>2. j = tef_task /\ emit_queue # 0
  BY <1>1, Slots DEF ConsumerKnown, QueueHasEmitter, Gone
<1>3. ASSUME NEW out, TefTop(j, out) PROVE tefSt'[j] = "wait" => tefConv'[j] = ctf_tef'
  BY <1>3 DEF TefTop, TypeOK, TefOK
<1>4. tefSt'[j] = "wait" => tefConv'[j] = ctf_tef'
  <2>1. CASE TefStart(j)
    BY <1>3, <2>1 DEF TefStart
  <2>2. CASE TefGet(j)
    BY <1>2, <1>3, <2>2 DEF TefGet
  <2>3. CASE TefStop(j) \/ TefAbort(j)
    BY <2>3 DEF TefStop, TefAbort, TypeOK, TefOK
  <2> QED
    BY <2>1, <2>2, <2>3 DEF Tef
<1>5. \A i \in Tefs : i # j => tefSt'[i] # "wait"
  <2>1. \A i \in Tefs : i # j => tefSt'[i] = tefSt[i]
    BY <1>2 DEF Tef, TefStart, TefGet, TefStop, TefAbort, TefTop, TypeOK, TefOK
  <2>2. \A i \in Tefs : i # j => tefSt[i] # "wait"
    BY <1>2 DEF ConsumerKnown, Gone
  <2> QED
    BY <2>1, <2>2
<1>6. ctf_tef' # 0 => convSt'[ctf_tef'] = "run"
  BY TefMakes DEF FedKnown, TypeOK, ConvOK
<1> QED
  BY <1>4, <1>5, <1>6 DEF FedKnown

LEMMA FedStep ==
  ASSUME ~SwallowCancel, ~MayFail, TypeOK, LockHeldBySender, QueueHasEmitter, EmitterKnown,
         ConsumerKnown, ConvertersLive, FedKnown, NoOverlap, NoOverlap', [Next]_vars
  PROVE  FedKnown'
<1>1. UNCHANGED <<pc, ctf_tef, convSt, tefSt, tefConv>> => FedKnown'
  BY DEF FedKnown
<1>2. ASSUME NEW on \in BOOLEAN, SetStreaming(on) PROVE FedKnown'
  BY <1>1, <1>2 DEF SetStreaming, callerVars, convVars, tefVars
<1>3. CASE Bt2Put
  BY <1>1, <1>3 DEF Bt2Put, callerVars, convVars, tefVars
<1>4. CASE Bt2Exit
  <2>1. UNCHANGED <<ctf_tef, convSt, tefSt, tefConv>>
    BY <1>4 DEF Bt2Exit, convVars, tefVars
  <2>2. \A d \in Callers : pc'[d] \notin {"joinConv", "cancelTef"} =>
                           pc[d] \notin {"joinConv", "cancelTef"}
    BY <1>4 DEF Bt2Exit
  <2> QED
    BY <2>1, <2>2, FedFrame DEF FedKnown
<1>5. ASSUME NEW i \in Convs, Conv(i) PROVE FedKnown'
  <2>1. UNCHANGED <<pc, ctf_tef, tefSt, tefConv>>
    BY <1>5 DEF Conv, ConvGet, ConvFlush, ConvDie, ConvStop, ConvSwallow, callerVars, tefVars
  <2>2. \A m \in Convs : convSt[m] = "run" => convSt'[m] = "run"
    BY <1>5 DEF Conv, ConvGet, ConvFlush, ConvDie, ConvStop, ConvSwallow, TypeOK, ConvOK,
                ConvertersLive
  <2>3. ctf_tef # 0 => convSt'[ctf_tef] = "run"
    BY <2>2, Slots DEF FedKnown
  <2> QED
    BY <2>1, <2>3, FedFrame
<1>6. ASSUME NEW k \in Emits, Emit(k) PROVE FedKnown'
  <2>1. UNCHANGED <<pc, ctf_tef, convSt, tefSt, tefConv>>
    BY <1>6 DEF Emit, EmitStart, EmitTake, EmitSent, EmitStop, callerVars, convVars, tefVars
  <2> QED
    BY <1>1, <2>1
<1>7. CASE UNCHANGED vars
  BY <1>1, <1>7 DEF vars, callerVars, convVars, tefVars
<1> QED
  BY <1>2, <1>3, <1>4, <1>5, <1>6, <1>7, FedCall, FedContinue, FedConsumer DEF Next

LEMMA InitFed == Init => FedKnown
BY DEF Init, FedKnown

LEMMA FedInvariant ==
  ASSUME ~EarlyReset, ~SwallowCancel, ~MayFail
  PROVE  Spec /\ []NoOverlap => []FedKnown
<1>1. TypeOK /\ LockHeldBySender /\ QueueHasEmitter /\ EmitterKnown /\ ConsumerKnown
      /\ ConvertersLive /\ FedKnown /\ NoOverlap /\ NoOverlap' /\ [Next]_vars => FedKnown'
  BY FedStep
<1> QED
  BY <1>1, InitFed, EmitterInvariant, ConsumerInvariant, LiveInvariant, TypeCorrect,
     LockDiscipline, QueueDiscipline, PTL DEF Spec

\* Between operations the consumer waits on the output of the one converter that runs
\* (trace_handler.py 529-547, 620-633), although the consumer may start a new converter
\* while the reset awaits the end of the old one: it is never left waiting on a converter
\* that was stopped.  For operations that do not overlap and when nothing fails.
THEOREM ConsumerIsFed ==
  ASSUME ~EarlyReset, ~SwallowCancel, ~MayFail
  PROVE  Spec /\ []NoOverlap => []ConsumerFed
<1>1. TypeOK /\ ConverterKnown /\ FedKnown => ConsumerFed
  <2> SUFFICES ASSUME TypeOK, ConverterKnown, FedKnown, AllIdle PROVE ConsumerFed
    BY DEF ConsumerFed
  <2>1. LiveConvs \subseteq {ctf_tef}
    BY DEF ConverterKnown, LiveConvs
  <2>2. ASSUME NEW j \in Tefs, tefSt[j] = "wait"
        PROVE  tefConv[j] = ctf_tef /\ convSt[tefConv[j]] = "run"
    <3>1. tefConv[j] = ctf_tef
      BY <2>2 DEF FedKnown, AllIdle
    <3>2. ctf_tef # 0
      BY <2>2, <3>1, Slots DEF TypeOK, TefOK
    <3> QED
      BY <3>1, <3>2 DEF FedKnown
  <2> QED
    BY <2>1, <2>2 DEF ConsumerFed
<1> QED
  BY <1>1, TypeCorrect, ConverterInvariant, FedInvariant, PTL
=============================================================================
