# A formal model of the Zephelin trace pipeline

Zephelin (the Zephyr Profiling Library, ZPL) instruments a Zephyr application on a board, moves the
trace to a host, and converts and shows it there.  This directory holds TLA+ models of the parts of it
that are hard to test, TLC configurations that check them on small instances, and TLAPS proofs of what
matters most for instances of any size.

    tlc -workers 2 -config MCTraceHandler.cfg MCTraceHandler     # check one configuration
    tlapm TraceHandlerProofs.tla                                 # check one module's proofs

`PROJECT.json` maps every definition to the lines it models, and lists runs, mutants, findings, hazards
and theorems.  A definition whose comment says `mutant` is a plausible bug in place of the definition
below it; it belongs to no specification and only shows that a property can fail.

## The system

    board                                       host
    operator profilers ─┐                  ┌─ capture file ── prepare_trace ── ctf2tef ── .tef file
    CPU, memory, ... ───┼─ tracing backend ┤
    code scopes ────────┘  UART USB RAM    └─ live server: framing → bt2 thread → converter →
         ▲                                      consumer → emitter ── Socket.IO ── browser
         └── runtime configuration: shell, application, debugger

| Part | State it keeps | Operations | Who it works with | What is hard | Correct if |
|---|---|---|---|---|---|
| Runtime configuration `zpl/conf` | a flag per profiler and event, a mutex and a condition variable for flags with threading | wait, is-enabled, set, debugger write | read by all profilers | lost wake-ups, stale tests | an enabled profiler samples, a disabled one stops |
| Profiler threads `zpl/profilers/cpu`, `memory` | position in their loop | wait, sample in stages, emit, sleep | runtime configuration | the flag changes within a round | at most one stage comes out late |
| Operator profilers `zpl/profilers/tflm`, `tvm` | a buffer of `MAX_EVENTS` slots | begin, end, dump | called by the inference engine, two flags | full buffer, flags switched meanwhile, nesting | what comes out is true, once, in order, and complete |
| Event emission, code scopes `zpl/scopes`, `zpl/profilers/inference`, `zpl/instr.c` | the instrumentation switch of every thread, the interrupt lock | emit a record, enter and leave a scope, turn instrumentation off and on | called by threads and handlers, writes to Zephyr's tracing | handlers and preemption at any step | stream 0 is in order of time, the switch comes back |
| Tracing backends `zpl/backends`, `zpl.c` | the USB device being set up; two transfer buffers (Zephyr patch 0041) | set up, enable, send | Zephyr's tracing | any step of the setup fails | ready means set up completely |
| Samples `samples/` | models, arenas, executors, sensor ring, serial parser, semaphores | load, feed and run models; sample; send and parse frames | inference engines, the library | shared buffers, lost bytes, failed loads, CPUs and priorities | every inference runs on the input meant for it |
| microTVM kernels `samples/common/tvm/src/sine.c`, `magic_wand.c` | workspace on a heap | one kernel after the other | graph executor | blocks, packed weights, padding, no memory, shared storage | each kernel computes its layer, from this inference's data |
| Capture commands `west/west-zpl.py`, `scripts/run_renode.py` | read position, sliding window, current file | read, save, forward, stop at Ctrl-C | the board, the live server | tags cut by chunk boundaries, Ctrl-C anywhere, failing sockets | each boot in its own file, no byte lost or doubled |
| Stream framing `trace_handler.py: StreamParserProxy` | buffer, expected size, synced or not | process_data | between the capture socket and the bt2 thread | reads of any length, corrupt headers | packets of one boot, in order |
| Live trace handler `trace_handler.py: TraceHandler` | handles of three tasks, a thread and a server; queues; a lock; pending events | connect, disconnect, reset, collect, stream_start, stream_stop, disconnect event | browsers (RPC), the capture socket, converter | every await is a place where another coroutine runs | see below |
| Converter `scripts/ctf2tef.py: StreamingCTFToTEF` | batch, open events | take, flush, stop | fed by the bt2 thread, read by the consumer | time-outs against cancellation | nothing lost at a flush |
| Trace preparation `scripts/prepare_trace.py` | none; passes over a list | pair, mend, trim, merge | run after the capture | unpaired, nested, equal-time events | well-nested result |
| Server shell `rpc_dispatcher.py`, `frontend.py`, `run_backend.py`, `socket_mock.py` | method table; mock: one replay task | dispatch, start, stop | browsers | little | every request is answered |
| Extraction scripts, instrumentation command, benchmarks, build | - | single passes | - | formats of other projects | - |

## Modules

| Module | Models | State and actions against the code |
|---|---|---|
| `TraceHandler` | the life cycle in `trace_handler.py` and the task of `StreamingCTFToTEF` | one variable per attribute of the handler, with the attribute's name; per task slot its status, source and buffers. One action per stretch of code between two awaits that suspend (`CancelConv`, `JoinConv`, ... are the pieces of `_cancel_all_tasks`) |
| `TraceHandlerProofs` | - | proofs about `TraceHandler` |
| `TraceStream` | what framing and capture files have in common: start tags in a byte stream | pure operators |
| `StreamParserProxy` | `StreamParserProxy` | the three attributes; an action per path through the loop of `process_data` |
| `StreamParserProxyProofs` | - | proofs about `StreamParserProxy` |
| `CtfFileHandler` | `CtfFileHandler` in `west-zpl.py` | `save_chunk` and `close`, with `_save_integral_chunk` as `SaveIntegral`; history variables say where the chunks end and which tags were taken |
| `CtfFileHandlerProofs` | - | proofs about `CtfFileHandler` |
| `RuntimeConf` | `configuration.c`, the loops of the CPU load, die temperature and memory profilers, `west zpl-debug-config` | `Lock`, `Test`, `Block`, `Woken` are the steps of `ZPL_CONF_WAIT` at which another thread may run; `SetLock`, `SetStore`, `SetSignal` those of `ZPL_CONF_SET` |
| `RuntimeConfProofs` | - | proofs about `RuntimeConf` |
| `TraceEmission` | `scope_marking.c`, `scope_event.c`, `inference_event.c`, `tflm_event.c`, `tvm_event.c`, the emission of the three profilers, `instr.c`, `time.c` | an event is a record of what its function does around the write; a context (thread or handler) goes through it step by step, and `stack` says whom it interrupted |
| `TraceEmissionProofs` | - | proofs about `TraceEmission` |
| `UsbBackend` | `usb_backend.c` and `zpl_init` | one step per registration, any of which fails |
| `TvmKernels` | `sine.c`, `magic_wand.c`, `platform.c`, the graphs in `common/tvm/model` | per output element the products its loops add up, and per storage of the graph which node wrote each element; an action runs one iteration of a kernel's outermost loop |
| `ModelSamples` | `tflm_model.cpp`, `tvm_model.c` and eleven samples | a sample is its calls, the variables they pass and what it does about a failure; an action per call and outcome |
| `SmpRing` | the `smp` sample | a semaphore per thread |
| `SmpTvm` | the `smp_tvm` sample | main's loop and the workers', with the CPU that main is on |
| `SensorDemo` | the `demo` sample | one action per stretch in which neither thread can be preempted |
| `FeaturePipe` | what the link of the micro speech sample promises | abstract: frames sent, bytes lost of them, frames arrived, collected |
| `FrameLink` | the two nodes of the micro speech sample | sender, ring buffer, parser and inference, byte by byte; implements `FeaturePipe` |
| `FrameLinkProofs` | - | proof that `FrameLink` implements `FeaturePipe` |
| `OpProfiler` | `tflm_profiler.cpp`, `tvm_profiler.c` and the graph executor that calls them | the buffer; `Begin`, `End`, and `Dump`, which is one action per emitted event because flags may change between two |
| `OpProfilerProofs` | - | proofs about `OpProfiler` |
| `MC...` | - | constants for TLC; `MCTraceStream` joins the two readers of the stream, `MCSamples` the modules of what runs on a board, one image at a time |
| `SamplesProofs` | - | proofs about the samples, the kernels, the USB backend, and about the board as `MCSamples` composes it |

### TraceHandler

Everything but the bt2 thread runs on one asyncio loop.  `loop` is the caller that has it, or `FREE`; a
background task's step needs it free and gives it back in the same action.  Awaiting a task that is over
does not suspend, and the model follows that (`Await`).  Which ready coroutine comes next is left open,
which is weaker than asyncio's first-come order: safety holds for more schedules than can occur.  The
violating runs therefore deserve a second look; both behaviours need no order that asyncio forbids, and
both were reproduced with the Python code itself.

`convSt`, `tefSt` and `emitSt` are indexed by slots.  A slot is used again once its task is over and
nothing refers to it (`SpareConvs` ...), so that a handle overwritten while its task runs leaves a task
nobody can cancel, as in Python.  `MaxConv`, `MaxTef`, `MaxEmit` bound the tasks that exist at a time:
creating one more is disabled.  `trace_lock` is a `threading.Lock`: a coroutine that asks for it while
another one of the same loop holds it blocks the thread, and `stuck` is TRUE for good.

Data is reduced to its age: whether the board's data was delivered after the last reset wiped the
buffers.  Which part of the pending events a diff sends is a choice.  Metadata, thread names and
status notifications are left out; they touch none of the state above and take no lock.

### StreamParserProxy and CtfFileHandler

The real tag has 16 bytes and begins and ends with `_`; the model's has three bytes and also begins and
ends with the same one, so tags can overlap in a chunk boundary by one byte but no further, as in the
code.  A header has two bytes instead of four.  Packets are chosen so that one ends with the beginning of
a tag.

The server and the capture commands both look for tags in the same stream but share no state;
`MCTraceStream` runs either.  `BootsOf`, the reference of the framing, finds the packets of a boot by the
positions of items; `MCStreamParserProxy` defines it once more as a fold that reads item by item, and TLC
evaluates the assumption `ReferencesAgree`: the two agree on all streams of up to six items.

A chunk given to `CtfFileHandler` is whatever `read_all` found, from one byte on, and nothing is assumed
of the stream.  Three properties say what then holds.  `EveryByteOnce`: whatever tags are taken, the
files are the pieces between them, at any moment.  `BootsSeparated`: a tag is missed only if two chunk
boundaries cut it (`CutTwice`), or if another tag is within `Reach` of it (`Crowded`): one chunk and the
window may then hold parts of both, and `save_chunk` looks for one.  `ErrorIffNoTag`: the missing-tag
error is right, but for a stream all of whose tags are cut twice.  The first excuse is not in the
docstrings, which promise that tags may be split; `file_cut` states that promise and is violated.  The
second needs two boots within two successive reads.

The parser looks for a tag first and for a packet afterwards, so a header it reads may be the beginning of
a tag that has not arrived completely.  With the real tag that is harmless: its third and fourth byte,
`pl`, read as a size give 3470 bytes, more than the tag has, and the parser waits.  `TagAsHeader` assumes
just that of the tag, and `WellTagged` that no tag comes about by chance.

### RuntimeConf

Threads are preempted between any two steps, the flags are `volatile`, and `k_condvar_wait` gives up the
mutex in the step in which the thread becomes a waiter.  `late` counts the stages emitted since the flag
was last written, while it is off.  `Rechecks` are the profilers that test their flag before every stage
(memory), the others rely on the wait alone (CPU load, die temperature).

### OpProfiler

The inference runs in one thread; the shell switches flags at any point, also between two events of a
dump.  `runs` is a history variable: what ran when.  Timestamps are a clock that ticks with every begin
and end, so that no two are equal.

### TraceEmission

Interrupts come at any step while they are not locked, the profiler's thread has a higher priority than
main, and its sleep lies inside `ZPL_DISABLE_INSTRUMENTATION`, as in `cpu_load.c`.  A handler uses the
switch of the thread it interrupts (`SwitchOf`), because the switch is thread-local (`_instr_enabled` in
Zephyr patch 0025).  Looking
at the switch and turning it off are two steps.  Stream 0 carries what locks interrupts between taking
the time and the write, stream 1 the operator events, which get their time from the caller.

### TvmKernels

The kernels are generated code with constants folded into their index expressions; the model keeps these
expressions, with their real sizes, and leaves out the values.  `sum` is the layer as it is defined,
`rows` what the code's loops do.  An iteration that reads padding adds nothing.

The graphs are those of the JSON files, node by node with their inputs, shapes and storages.  Several
nodes share one storage, and nothing is cleared between inferences: `storage` says of each element which
node of this inference wrote it, or `Stale`.  Node 9 of `magic_wand` is a reshape with the function
`__nop`; the patched executor calls nothing for it (`Skip`), and what its input has left in their common
storage counts as its output. When the largest layer gets no workspace its kernel returns -1, which the
executor does not look at: the rest of that inference may read what an earlier one left, as the code
does.  `KernelsComputeTheLayer` says that every other inference, also the next one, reads only what it
has written itself.

### ModelSamples

Records such as `tflm_multi_model` hold the calls of a sample in order.  `leaves` says whether a failure
ends the loop, as a `break` or `return` in the loop does, or only the group of calls it is in, as the
`return` of a helper or the `break` of an inner loop does.  A `Compute` assigns a variable, an `InputM`
hands one over; `computed` are the variables assigned since they were handed over last, and `fed` says
whether what a model has been given since it ran last is `"new"` or `"old"`.

`OnlyFedModelsRun` demands a new input of every run but for the models that `OnOldInput` names.  The
delayed emission samples run on zeros, by their own choice.  The microTVM models of `tflm_tvm_models` are
given `model_int8_input`, which nothing writes, while the sample computes `model1_input_q`
(`src/main.cpp:126-130`): of these the property says that every run is on the old input.

### SmpTvm, SensorDemo and FrameLink

In `smp_tvm` main has a higher priority than the workers and may wake up on the CPU one of them is pinned
to; a worker makes no step while main is awake there.  In `demo` the sensor thread is cooperative and the
board has one CPU: main has it only while that thread sleeps, fetches a sample or waits for the mutex
(`MainRuns`).  The property about the window depends on that and not on the mutex alone.

`FrameLink` refines `FeaturePipe` under the mapping at its end: a frame is sent when its first byte is
about to go out, arrives when its footer is accepted, and the input is the payloads collected, each
mapped to the frame all its bytes belong to, or to -1 if there is no such frame (`Garble`).  A payload
holds any bytes, those of a header and of a footer included, for the sender escapes nothing; and any
bytes may be lost, also several in a row, as when `ring_buf_put` finds no room. So the promise has two
excuses. `Spell(g)` is frame `g` and the frames just before it, back to the last one without fault, that
is without a lost byte and without a header in its payload; after a frame without fault the parser is in
step again.  A frame may be missed for a byte lost in its spell (`Excused`).  And bytes of several frames
may be used for one if two bytes were lost in it, or one was and a payload of it holds a header
(`Trouble`).  Both do happen: nothing in the format tells, and nothing in the repository promises that it
does.

## Runs

| Run | Checks | Instance | States |
|---|---|---|---|
| `th_serial` | seven properties of the life cycle: no stray task, no dying task, clean shutdown, consumer fed, listening iff connected, disconnect tears down, types | one caller that makes any call, two slots of each task | 380 k |
| `th_live` | every operation ends, what arrives is consumed | one caller, fair scheduling | 53 k |
| `th_faults` | lock and queue discipline, loop never blocks | one caller; parsing, the bt2 thread and `start_server` may fail, resets come before the first connect, cancellations get lost | 48 k |
| `th_stale` | violated: `NoStaleEvents` | one caller | - |
| `th_stuck` | violated: `LoopNeverBlocks` | two callers that reset | - |
| `trace_stream` | the server: framing against the reference `Wanted`; the capture: what is in the files, which tags are missed, the error | four items, noise before the first tag, corrupt headers, reads of 1 to 5 bytes; all streams of up to 9 bytes over two values, all chunks of 1 to 3 bytes | @TS@ |
| `proxy_resync` | violated: `ResyncsAtTag` | a corrupt header before a tag | - |
| `file_cut` | violated: `SplitTagsFound` | the streams and chunks of `trace_stream` | - |
| `conf_threads` | no lost wake-up, prompt disable, liveness both ways | CPU load and memory profiler, both builds, two setters | 44 k |
| `conf_debugger` | violated: `EnabledIsSampled` | one profiler, a debugger | - |
| `op_profiler` | events true, once, in order, complete | two slots, nesting, four operators over all inferences, one index too large | 2.3 M |
| `samples` | seven invariants, two liveness properties, an action property and the refinement `LinkImplementsPipe`, for everything that runs on a board | see below | 119 k |

In `samples` an image is chosen at the start and only its variables change, so that the state space is
the sum of the parts.  `SamplesTypeOK` holds their types, and that the setup of the USB device has left
nothing out when the library is ready; `KernelsComputeTheLayer` is about kernels, `EveryThreadTurns`
about `smp`, `InputStable` and `InferencesGoOn` about `smp_tvm`, `WindowIsLatest` about `demo`,
`LinkImplementsPipe` about micro speech, `ArenasDisjoint` and `OnlyFedModelsRun` about the samples with
models, `Stream0InOrder` and `SwitchRestored` about emission.

Why the bounds are enough.  *Tasks*: a second task of a kind comes about only if a handle is dropped
while its task runs; two slots show that, and two callers need three before they can block each other
(`th_stuck`).  *Queue*: one waiting batch distinguishes empty from not empty, all the code tests.
*Streams*: a tag of three bytes can be cut once or twice and lie in one chunk of three; nine bytes hold
three tags, or two of them near to or far from each other, at every offset to the chunk boundaries; four
items hold a boot with packets, a corrupt header and a second boot. *Buffer*: two slots are enough to
have the buffer empty, partly full, full and overrun, and four operators to fill it in one inference and
to find its remains in the next.  *Profilers*: flags do not share anything; two profilers stand for the
two kinds, two setters contend for a mutex.

*Samples*: all three TVM models with their real sizes; four threads in the ring, as in the code; three
workers and three CPUs, fewer than the board's five, so that two workers share a CPU; a window of four
samples and seven taken, so that it wraps around and is full; payloads of two bytes, each that of a
header's first or second or of a footer, two in an input, three frames and two lost bytes, the least with
which a payload is torn; a ring of one byte, so that the receiver is at most that late.  A buffer of
three units with a first arena of two, so that the last model gets the rest; two iterations, so that a
failure has a successor.  One interrupt, which may come at any step, and two rounds of the profiler's
thread, so that it wakes up inside its own switch.

`CHECK_DEADLOCK FALSE` is set where the system may stop: a closed capture, a board that sends no more,
programs that end (`samples`), and in `th_faults` a reset whose converter has lost its cancellation and
waits for data for ever.

### Fairness

`TraceHandler`: asyncio runs ready callbacks first come, first served; a task that becomes ready again
and again while others use the loop gets its turn, hence strong fairness per task and per caller.  The
bt2 thread looks at its stop flag in every round, hence weak fairness of leaving once it is set.  No call
is ever assumed to be made.

`RuntimeConf`: profilers sleep and the shell waits for input, so Zephyr's priorities starve nobody;
`k_mutex_unlock` hands the mutex to a waiter, hence strong fairness of taking it.  Setters are not
assumed to begin, only to finish.

`MCSamples`: Zephyr's scheduler runs every ready thread of `smp` in the end, each has its CPU or shares it
with a thread of the same priority that sleeps and waits (weak fairness).  In `smp_tvm` main is always
ready or asleep (weak fairness); a worker is ready only while main is not awake on its CPU, again and
again, for the 50 ms that main sleeps after each request (strong fairness).  All else is safety.

## Proofs

TLAPS checks, for every value of the constants that satisfies the named assumptions:

* `TraceHandlerProofs!TypeCorrect`, from `BoundsAssumption`, `ModeAssumption` and `CallerAssumption`. One
  lemma per action; `Frame` collects what actions leave alone.
* `TraceHandlerProofs!QueueDiscipline`: the emit queue exists exactly if its task does
  (`QueueHasEmitter`).  Inductive as it stands, together with `TypeOK`.
* `TraceHandlerProofs!LockDiscipline`: `trace_lock` is held by exactly the emitter that sends
  (`LockHeldBySender`).  Needs that a slot whose lock is held is never spare, which is in `SpareEmits`.
* Seven more of `TraceHandlerProofs` have the form `Spec /\ []NoOverlap => []P`: `P` holds in every
  behaviour in which, at any moment, at most one operation is under way, for any number of callers and
  slots.  Without that hypothesis two overlapping resets are enough to block the loop (`th_stuck`);
  nothing in the code ensures it, browsers that take turns do.  The argument is the same for all: every
  handle names the task it should, at every await of every operation.  `EmitterKnown`, `ConsumerKnown`,
  `ConverterKnown`, `ServerKnown` and `FedKnown` say, per operation and place in it, which task the
  handle names, which others can still be alive and what each of them can still do; `ConvertersLive` says
  that a converter which runs has its input queue.  None is inductive without the ones before it, and the
  later need fewer failures:

  | Theorem | Property | The code may also |
  |---|---|---|
  | `LockNeverBlocks` | `LoopNeverBlocks` | reset before the first connect, raise, lose cancellations |
  | `HandlesNameTheTasks`, `TasksSurvive` | `NoStrayTask`, `NoTaskDies` | raise, lose cancellations |
  | `ShutdownIsClean` | `CleanShutdown` | raise |
  | `ListeningIsTrue`, `DisconnectIsComplete` | `ListeningIfConnected`, `DisconnectTearsDown` | lose cancellations |
  | `ConsumerIsFed` | `ConsumerFed` | - |

* `RuntimeConfProofs!TypeCorrect`, from `ProfilerAssumption` and `RecheckAssumption`.
* `RuntimeConfProofs!WakeupsArrive` and `DisableIsPrompt` (`NoLostWakeup`, `StopsAfterDisable`), from the
  inductive invariant `IInv`.  `NoLostWakeup` alone is not inductive: a thread in `block` is about to
  wait, and a setter might store between its test and its wait.  `IInv` adds that whoever is between
  taking and releasing a mutex is its owner (`MutexHeld`), so nobody can; that a thread blocks only if
  the flag is off (`BlocksOnlyIfOff`); and where a profiler with one late stage stands (`LateOnce`), from
  which it cannot reach another before it looks at its flag.
* `OpProfilerProofs!ProfilerTypes`, `EventsTrue`, `EventsOnce`, `EventsOrdered` and `InferenceComplete`,
  for every size of the buffer, depth of nesting and width of an index.  `EventsAreTrue` speaks of the
  trace, but what enters it comes from slots written long before: `IInv` says which run each slot is
  about (`SlotInv`), that open operators have their slots in the order in which they began (`StackInv`),
  that every event of the trace is about a run (`TraceInv`), and which times in the buffer are still due:
  each once, none of them emitted (`DueInv`), and all later than what has been (`OrderInv`).  `WholeInv`
  follows an inference observed from its begin on: its first `MaxEvents` runs have the slots in order,
  and what of them is not due any more is in the trace.
* `TraceEmissionProofs!EmissionTypes`, `SwitchIsRestored` and `Stream0IsInOrder`, for any number of
  interrupts and wakeups.  In `SwitchRestored` a handler that interrupted a thread has the thread's
  switch in its hands; `Settled` says what the switch would be without it.  `Stream0InOrder` needs that
  nobody else runs between taking the time and the write (`LockInv`) and where a handler can be entered
  (`CallInv`, `HandlerInv`).
* `CtfFileHandlerProofs!FileTypes`, `EveryByteIsSaved`, `BootsAreSeparated` and `ErrorIsRight`
  (`FileTypeOK`, `EveryByteOnce`, `BootsSeparated`, `ErrorIffNoTag`), from `TagAssumption` and
  `ChunkAssumption` alone, for any tag, streams and chunks of any length.  `SplitInto` says that the
  files are the pieces into which the tags taken divide what has left the window; the lemma that carries
  it, `SplitGrows`, that saving a piece, with a tag or without one, keeps that true.  `IInv` adds where
  the window may begin and how long it may be (`WindowInv`), and that every tag which begins before it
  was taken or has one of its two excuses (`TagsInv`).
* `StreamParserProxyProofs!ProxyTypes`, `PacketsAreReal` and `FramesRight` (`TypeOK`, `OnlyRealPackets`,
  `FramedRight`), from `TagAssumption`, `StreamAssumption` and `TagAsHeader`, for any tag, packets and
  corrupt headers, and for streams and reads of any length.  The parser keeps no position in the stream;
  the inductive invariant gives it one.  `BootsInv`: what was yielded after a reset are the packets
  behind one tag, and while the parser is synced the buffer begins where the last of them ends.
  `TagsInv`: unless a header is corrupt, the buffer never begins inside a tag, so every tag is found,
  once.  `DoneInv`: between two reads nothing more can be cut off the buffer.  The lemmas before say
  where an item lies in the concatenation of all, and that the first tag in a buffer which begins at an
  item is an item.
* `FrameLinkProofs!LinkIsAPipe` (`LinkImplementsPipe`), from `LinkAssumption`, for any payloads, inputs,
  rings and losses.  The parser does not know where in a frame it is.  `LinkInv` looks at the byte it
  takes next, the first of the ring or the next to be sent: its place, and what is lost or misleading
  around it, determine what the parser may be doing.  Either it is in step and everything before was
  accepted or is excused; or it is out of step, and then a byte was lost in the spell of the frame it
  takes from.  The lemmas about spells say that an excuse of a frame lasts until a frame without fault.
* `SamplesProofs` is about all that runs on a board, each program first by itself:
  * `smp_tvm`: `InputsAreStable` (`InputStable`) and `WorkerTypes`, from `SmpAssumption`, for any number
    of workers and CPUs.  `InputStable` alone is not inductive: that no worker is asked twice needs that
    its semaphores cannot both be up.  The invariant says that every started worker has exactly one
    token: a count of its done or of its start semaphore, main between taking and giving, or the worker
    while busy.
  * `demo`: `DemoTypes` and `WindowsAreLatest`, for any size and stride of the window.  The invariant
    says what each slot of the ring holds, also between a write and the step of the index (`RingInv`),
    that the sensor thread never is between these two while main has the mutex (`MutexInv`), and that the
    part main has copied is still right when it copies the rest (`TailInv`).
  * samples with models: `SampleTypes`, `ArenasAreDisjoint` and `ModelsAreFed`, for any size of the
    buffer and of the first arena and any number of iterations.  `OnlyFedModelsRun` is about the next
    call alone: `LoadedInv` adds that the setup has loaded everything up to where it is, and `InputInv`
    what the variables hold and the model has been given between a computation and the run behind it.
    `ProgramsShape`, proved once from the programs, is all they need of the samples.
  * kernels: `KernelTypes` and `KernelsAreRight` (`KernelsComputeTheLayer`).  TLC runs the graphs with
    their real sizes; the lemmas `DenseRight`, `ConvRight`, `PoolRight`, `ElementwiseRight` and
    `SoftmaxRight` show for a layer of any size that its loops name the terms of its sum, stay inside its
    arrays and write each output once.  `GraphsFit` says of the graphs that each node reads the one just before it, all of it and from another storage than it
    writes to, or is a `__nop` on the same storage; the theorem puts them together: what a kernel reads
    was written as a whole, in this inference.
  * `smp` and the USB backend: `RingTypes`, and `SetupLeavesNothingOut`, whichever step of the setup
    fails.
  * The board: `BoardTypes` (`SamplesTypeOK`) and `BoardIsSafe`.  A step of the composition is a step of
    the image that is flashed and a stutter of the others (`ImageStep`), so `Spec` implies the
    specification of every program, and with it all that was proved of it, including the refinement and
    the order of stream 0.

Every invariant of a passing run and every safety property among its PROPERTYs is thereby a theorem,
those of the life cycle under `NoOverlap`.  Only model-checked: liveness (`th_live`, `conf_threads`,
`EveryThreadTurns`, `InferencesGoOn`), for fairness and ENABLED are beyond the prover; and the agreement
of the reference `BootsOf` with the fold that reads item by item, which would be an induction over data.
The invariants of the violated runs are false.

## Findings

1. `th_stale`: events of before a reset reach the new trace.  `_execute_reset` cancels the tasks first
   and drains `async_q` afterwards; while it awaits the old converter, the consumer is woken by that
   converter's last flush, finds no converter, starts a new one, and this one reads the queue.
2. `th_stuck`: two overlapping resets can leave two emitters.  One holds `trace_lock` over an await, the
   other asks for it: the event loop stops for good.
3. `proxy_resync`: a corrupt header clears the buffer with the first half of a start tag in it.  That tag
   is never seen and its boot is dropped.
4. `file_cut`: a start tag that comes in three chunks is saved as data, and its boot ends up in the file
   of the boot before it, or is dropped before the first.  `save_chunk` holds back one chunk only, while
   `read_all` returns whatever the port has; its docstring (`west-zpl.py:108`) says tags may be split.
5. `conf_debugger`: `west zpl-debug-config` writes a flag without the signal a waiting profiler needs, so
   enabling a profiler from the debugger has no effect if it already waits.

Further disagreements seen while modelling, which no run of their own states:

* The converter that the consumer started during a reset stays unknown to `_cancel_all_tasks`, whose
  docstring (`trace_handler.py:531`) promises otherwise; `ConsumerFed` holds because it is reached
  through `ctf_tef`.
* `trace.reset` before `trace.connect` starts a consumer without a queue, and a later disconnect meets
  the exception of its converter (`trace_handler.py:325`, modelled with `EarlyReset`).
* If `start_server` fails, thread and tasks stay, and the next connect answers "Already listening"
  (`trace_handler.py:241-247`, modelled with `MayFail`).
* `asyncio.wait_for` up to Python 3.11 may swallow the cancellation at `ctf2tef.py:390`
  (`SwallowCancel`).
* While `tflm_profiler` or `tvm_profiler` is off nothing empties the buffer.  Events of that time come
  out when it is on again (still true, as `EventsAreTrue` says); without delayed emission the buffer
  fills up and everything after is dropped until then.
* The index of a TVM operator is cut to eight bits (`tvm_event.h:31`).
* `tflm_tvm_models` computes an input for its TVM models and passes another variable, never written
  (`samples/profiling/tflm_tvm_models/src/main.cpp:126-130`, see ModelSamples above);
  `tvm_instrumentation` passes the first byte of a float as the quantized input (`src/main.c:56`).
* `tflm_tvm_models` and `smp_tvm` ignore the result of `model_init`; `model_load_input` and `model_run`
  for microTVM always report success (`tvm_model.c:103-114`).
* A failed `AllocateTensors` leaves a dangling interpreter, which only the reaction of the samples keeps
  from being used (`tflm_model.cpp:84-87`, `OnlyFedModelsRun`).
* The second micro speech node returns inside `ZPL_MARK_CODE_SCOPE`, and a failed inference leaves the
  scope without its exit event (`micro_speech/src/main.cpp:104`).
* Clocks are set without a lock (`time.c:44-52`): an event of an interrupt in between takes cycles from
  one clock and converts them with the other.  The samples set theirs before anything else runs.

## Not modelled, and plan

Ten hazards in `PROJECT.json` have no property; each says why.  Two are in code that is only planned.  The
others are in modelled code: some the models reach, but the repository promises nothing there that could
fail (what a failed connect, a reset before the first connect or a dead converter leaves, nested operators with
delayed emission, an index beyond eight bits); two they do not reach (calls that overlap, apart from
`th_stuck`, and a bt2 thread that waits for the loop while the loop joins it).

Not modelled because there is no state or no concurrency in it: RPC dispatch, web server start-up,
extraction of model data, the polling UART backend, the samples that only call one function after the
other, build and patches, benchmarks.  Not modelled because the other side is not in the repository: the
instrumentation command's protocol.  Left out of modelled parts: values of tensors (scaling, clipping,
softmax), which audio samples the preprocessor takes, the contents of descriptors and events, the names
of scopes, the plain text format, and changing the clock.

Planned, in this order:

1. `Capture`: the loops of `zpl-uart-capture` and `zpl-gdb-capture` around `CtfFileHandler`, with Ctrl-C
   anywhere, failing remote sockets and the socket pass-through of `SerialWrapper`.  Abstract
   specification: every byte the board sent is saved once, in order.  Two of its hazards are listed; a
   chunk can be saved twice, or not at all, as the code is.
2. `RenodeCapture`: `_handle_traces`, and `merge_renode_split_files` after it, against `Boots`.  Its
   hazard: if sending the tag fails the buffer is not cut, and the same tag opens another file in every
   later round (`run_renode.py:285`).
3. `PrepareTrace`: `remove_events_without_beginning`, `fix_timestamps`, `trim_metadata` as operators,
   checked on all short traces against what "well nested" means; two begins may share one end, whose
   index is then removed twice (`prepare_trace.py:541`).
4. `UsbDoubleBuffer`: patch 0041, refining a queue of bounded length; semaphore count plus buffers in
   flight is constant, as a theorem.
5. The data side of `StreamingCTFToTEF`: open events, batches, and the refinement of a plain queue of
   events; `TraceHandler` with metadata and thread names; `MockServer`.
