# BeyondKVTransfer in TLA+

This directory models the tracing framework of this repository: the probes that
`bkvt` puts into vLLM and SGLang, the emitter that carries their records to disk,
and the files they end up in. TLC checks the modules on small instances; TLAPS
proves the main results for all values of the constants. References such as
`emitter.py:90` are to files under `bkvt/` unless another directory is named.

A trace is worth something only if it is true and complete enough to be paired:
every record has one fate, a transfer that is opened is closed once and not before
its bytes are there, a request's records tell what happened to it. And the engine
under observation must not wait for any of it. That is what the properties say.

## 1. The system

| Component | State it keeps | Operations | Talks to |
|---|---|---|---|
| Record pipeline (`emitter.py:65-91, 166-477`) | one ring buffer per engine thread, list of buffers, byte count, flush trigger, ids of open transfers, counter of dropped records, stop event | `event`, `transfer_start`, `transfer_end`, `metadata`; flusher loop: wait, drain, serialise, write; `shutdown` | called by every probe, on the probe's thread; hands batches to the trace files |
| Trace files (`emitter.py:94-162`) | open file, its number, bytes written to it, buffered bytes; on disk `.NNNN.jsonl` and `.NNNN.jsonl.gz` | `write_batch`, `_rotate`, `close`, `_gzip_file` on a thread of its own | called by the flusher; read by validator and analysis |
| Emitter singleton (`emitter.py:513-545`) | `_emitter`, its lock | create on first use, shut down, create again | every probe fetches it on every call |
| vLLM connector wrapper (`integrations/vllm/connector_wrapper.py`) | loads per layer, list of saves, first look-up per request | the connector's methods, each wrapped | opens and closes transfers in the emitter; calls the wrapped connector |
| vLLM request probes (`integrations/vllm/scheduler_probe.py`, `runner_probe.py`) | `RequestStateTracker`: what is known of each request | wrappers of `process_inputs`, `schedule`, `execute_model`, `process_outputs`, the finish call | several engine and client threads meet in the tracker |
| vLLM and SGLang cache probes (`block_pool_probe.py`, `radix_probe.py`, block records of `hicache_probe.py` and of the connector wrapper) | none, they read arguments and results of a call | alloc, free, evict, reference counts, prefix look-up, insertion, movements between tiers | records only, which `analysis/lib/reuse.py` reads |
| SGLang request probes (`integrations/sglang/scheduler_probe.py`) | a tracker like vLLM's | arrival, `run_batch`, finish | infers decisions from the running set |
| SGLang transfer probes (`disagg_probe.py`, `hicache_probe.py`) | the id of the call under way | a start and an end around the wrapped call | emitter |
| Weight and collective probes (`weight_probe_common.py`) | thread-local payload context | load, offload, swap, update, expert dispatch; collectives tagged from the context | emitter; wrappers nest |
| Patching (`vllm/patch.py`, `vllm/factory.py`, `sglang/patch.py`) | result of `apply()`, flags per module, the classes of the engine themselves | `apply`, `reset`, `tracing_factory` | installs all wrappers |
| Collectors (`collectors/`) | offset into the NCCL log, last sample | a thread that samples and emits | emitter; stopped by its shutdown |
| Sampler, configuration, identifiers, clock, manifest | set at start | draw, read | emitter |
| Validator (`scripts/validate_traces.py`), analysis (`analysis/`) | tables in memory | pair transfers and requests, attribute time | read the files |

What is hard in it:

* *Interleaving.* Probes fire on any engine thread, the flusher drains their buffers
  without a lock, threads race to end one transfer, clients abort requests while the
  engine is in the middle of a step, gzip threads work on files next to the writer.
* *Ordering.* Wrappers run after or around the call they observe. Which one runs
  first when one wrapped call contains another decides what a record says.
* *Failure.* The wrapped call raises or is interrupted; the serialiser or the write
  fails, and the flusher dies while everything else goes on; a compression fails
  half-way; the process dies between two steps of a rotation.
* *Inference.* Several probes do not see a decision but infer it from what ran before
  and after a call.

What makes each component correct:

* pipeline: bounded buffers, one fate per record, file order per thread, no lost
  wake-up, ends paired with starts, probes never wait, the stop event ends the
  flusher after a last pass;
* files: nothing readable is lost by rotation, compression or death; a death costs the
  newest records only; `close()` leaves everything on disk;
* connector: every open transfer is held in one place and closed once, not before its
  bytes have arrived, and eventually;
* request records: the finish record says all that the engine lets the probes see,
  admissions, resumptions and preemptions tell who runs, the first token is recorded once,
  nothing leaks in the tracker;
* wrapped calls: a collective carries the context of the innermost call around it, a
  transfer opened around a call is open exactly as long as the call, a call that raised
  leaves no weight record;
* SGLang request records: whatever the probe guesses from two looks at the running set,
  status and queueing time in the analysis are right;
* cache records: residency intervals in device memory claim only time a block is there,
  and the trace tells when two hits of a block are of different contents (the analysis
  does not look);
* emitter singleton: one flusher at a time writes the worker's files, and a probe outside
  a shutdown gets an emitter whose flusher runs, unless a failed write has ended it;
* patching: one wrapper per method, whatever threads call `apply` however often it fails;
  concurrent factories leave no connector bare and restore what they change in the end,
  although they defeat each other's guard meanwhile;
* readers: orphans reported are exactly the transfers whose end was not written, and each
  transfer makes one row.

`PROJECT.json` lists the hazards line by line, with the property that covers each or
the reason why none does.

## 2. Modules

| Module | Models | Instance | Proofs |
|---|---|---|---|
| `Emitter` | record pipeline | `MCEmitter` | `EmitterProofs` |
| `TraceLog` | what the pipeline promises (abstract) | through `Emitter` | `EmitterProofs` |
| `OutputFile` | trace files | `MCOutputFile` | `OutputFileProofs` |
| `TraceReaders` (extends `OutputFile`) | validator and loader over these files | `MCOutputFile` | `OutputFileProofs` |
| `EmitterSingleton` | creation, shutdown and re-creation of the emitter, its two threads | through `Patching` | `PatchingProofs` |
| `Patching` (extends `EmitterSingleton`) | `apply`, `reset`, the connector factory | `MCPatching` | `PatchingProofs` |
| `ConnectorTransfers` | connector wrapper | `MCConnectorTransfers` | `ConnectorProofs` |
| `RequestLifecycle` | vLLM request probes | `MCRequestLifecycle` | `LifecycleProofs` |
| `SglangRequests` | SGLang request probes, with the rows the analysis makes of their records | `MCSglangRequests` | `SglangProofs` |
| `CacheProbes` | vLLM, SGLang and HiCache block records, with residency and reuse in the analysis | `MCCacheProbes` | `CacheProofs` |
| `ProbedCalls` | weight, adapter and collective probes; SGLang transfer probes | `MCProbedCalls` | `ProbedCallsProofs` |

An operator whose name ends in `_Bug...` is the operator below it with a plausible
programming error. No specification refers to it; it shows that a property notices.

### Steps and atomicity

A step is a stretch of Python in which CPython's interpreter lock changes hands only
at its end. The interpreter looks for a switch when a function is entered, after a
call and on a jump backwards, not in the middle of `x += 1`. Therefore:

* `put()` is two steps (the length check, the `append`), `drain()` is two (`list(...)`,
  then the new deque), charging the bytes is one, setting the trigger another;
* a critical section that holds one statement is one step: `_buf_lock`,
  `_live_transfers_lock`, a call of `RequestStateTracker`;
* `ConnectorTransfers` and `RequestLifecycle` take `transfer_start()`, `transfer_end()`
  and `event()` as one step, since `Emitter` opens them up and they share no other
  state; between two of them another thread may run;
* a call of the engine (the wrapped method) begins in one step and ends in another
  where another thread could see the difference. `process_inputs()` is one step: the
  engine does not know a request before the call returns.

### Emitter and TraceLog

`ring[t]` is the deque of thread `t`'s `_RingBuffer`, `buffers` the list `_buffers`,
`pending` the byte count in units of the 256 bytes charged per record, `live` the keys
of `_live_transfers`; `pc[t]` and `rec[t]` are thread `t`'s place in a probe call and
its record. A probe call is `Enter` (from `Event`, `TransferStart`, `TransferEnd`),
`GetBuf`, `PutRefuse` or `PutFits` and `PutAppend`, `Account`, `Signal`, and `GoLive`
for a start. The flusher is `FlusherLoop`, `FlusherWake` (the trigger or the timeout),
`FlusherClear`, `FlusherReset`, `FlushSnapshot`, and per buffer `DrainCopy`,
`DrainSwap` and `Serialise`, then `FlushWrite` or `FlushWriteFails`. Records of kind
`"bad"` are those the serialiser raises on. `handed` keeps the model to callers that
end only transfers whose `transfer_start()` has returned.

`TraceLog` knows no threads and no buffers: a record is offered, and is later
delivered, turned away and counted, or vanishes, once, and each thread's records are
delivered in order. `Emitter` implements it with `log` as `file`, `dropped` as
`refused` and `vanished` as `lost`.

### OutputFile

`jsonl[s]` and `gz[s]` are the two forms of file number `s`; a line is two pieces so
that a line can be cut; `buf` is what the buffered file object holds back, which
decides itself how much it passes on at each write. `write_batch()` is `WriteBatch` or
`WriteFails`; `_rotate()` is `RotateFlush` and `RotateOpen` or `RotateFails`; the gzip
thread is `ZipBegin`, `ZipCopy`, `ZipRemove`, with `ZipFails` anywhere. An exception in the
middle of the copy leaves the `with` block at `emitter.py:157`, which closes the compressed
file: what `ZipFails` leaves is then a valid `.gz` with any front part of the file in it,
its last line perhaps cut, beside the file itself (`Whole(SubSeq(...))`). If closing fails
too, or the process is killed, it is a stump (`Partial`). `ProcessEnds`
is a kill or an exit at any point: gzip threads are daemons and end with it, and a file
object that was not closed may or may not be flushed. `Start` is the next process on
the same path, which happens when `BKVT_TRACE_ID` names the trace.

### TraceReaders

Operators over the files `OutputFile` leaves behind, at any moment: `Errors` and `Orphans`
are what `validate_files()` counts, `LoadRaises`, `Loaded` and `Rows` what `iter_records()`
and `_transfer_pairs()` do. Record `2k - 1` is the start of transfer `k` and record `2k` its
end, so that with files of two or three records a transfer's halves fall into different
files. The validator takes a cut-off `.gz` for empty and a bad line for one error; the
analysis raises at either, and reads both forms of a file when both are there.
`HalfCompressed(f)` is a `.gz` a failed compression has left: if it ends inside a line, the
validator counts one error for it (`validate_traces.py:147`) and `load_trace()` raises,
although nothing is lost, for the uncompressed file is still there. `ClosedTraceValidates`
says that a first process leaves no other errors.

### EmitterSingleton and Patching

`current` is `_emitter`, `lock` and `applyLock` the two locks. Calls nest here: `apply()` calls
`get_emitter()` six times over, `tracing_factory()` calls `apply()` and is called by the
factory it calls. Therefore `stack[t]` is a stack of frames, each a function and a place in
it, and a step is the topmost frame's; `ret[t]` and `raised[t]` are what the last call left for
its caller. `Get...` are the steps of `_get_or_create_emitter()`: the look at `_emitter` without
the lock, the look with it, `Emitter(cfg)` (which may raise), `write_manifest()` (which may raise
behind it, so that the emitter stays and the caller gets an exception), and the second read
of `_emitter` that is returned. `Shutdown...`, `JoinCollector` and `JoinFlusher` are
`_shutdown_emitter()`: each join ends when its thread has or after five seconds. Of records
only those are kept that arrive after a flusher's last pass (`late`).

A module of probes has one site in `Patching`: `layers[m]` counts the wrappers around it,
`done` holds the modules whose `_PATCHES_APPLIED` is true. `ApplyModule` is one
`apply_patches()`: it fails when it gets no emitter, and what was patched before stays.
`tracing_factory()` is `FactoryDecide` (the look at the guard), `FactoryLook` and `FactoryPop`
(`os.environ.pop()` is Python code: it looks the variable up, then deletes it, and raises
`KeyError` when another thread was faster), `FactoryGuard`, `FactoryOriginal`,
`FactoryUnguard` and `FactoryRestore`, each a step of its own; the place in the frame says
whether this thread has taken the variable. `build` says which sites exist and whether the
engine's `create_connector_v1()` calls what `VLLM_KV_CONNECTOR_FACTORY` names. With the
guard up and the variable set at once such calls recurse; from a stack of `RecursionLimit`
frames a further call gets no connector, which is `RecursionError` swallowed on the way.

A flusher ends in order (`FlusherEnds`) or is ended by an exception of `write_batch()`
(`FlusherDies`, `emitter.py:477`), at any time: `_emitter` stays, the collector goes on
sampling, and what the probes give that emitter is never written. `OneWriter` and
`LiveOutsideShutdown` say of such an emitter only that it is the one case in which they
promise nothing.

### ConnectorTransfers

`loads`, `saves` are `_loads_by_layer` and `_saves`; `hand[t]` are the ids a call has in
its local variables. A call is `StartLoadKV` or `SaveKVLayer`, then `InnerStarts` and
`AddLoad`/`AddSave`, or `InnerStartRaises` and `End` with cancel, or
`InnerStartInterrupted` (an exception `except Exception` does not catch); a wait is
`WaitForLayerLoad` or `WaitForSave`, then `InnerWaitReturns` and `PopAfterWait`, or
`WaitRaises`, and `End` for each popped id. The wrapped connector is external: it moves
one layer of one transfer at a time (`Arrive`), and its wait returns when what it waits
for has arrived. A load that names no layer moves every layer. A wait pops the loads of
its own layer, or, when it has none, those without a layer (`KeyOf`): the end record of
such a load therefore says that its first awaited layer has arrived, not all of it.

### RequestLifecycle

`tracked` and `state` are `RequestStateTracker._states`. The engine's decisions are
external and free: whom `schedule()` admits, resumes and preempts, whom
`execute_model()` runs and for whom it samples a token, who finishes. `build` says what
kind of engine the probes found:

* `lists`, what `SchedulerOutput` names of the new, the cached, the preempted and the resumed
  requests. The admit loop goes over the new and over those cached that did not run
  before; preempt records are written for those named and no others; the resumed are
  those named, whatever was admitted, and those that run now, did not before and were not
  admitted (`Resumed`);
* `outputs`, whether the result of `execute_model()` has outputs with token lists, outputs
  without, so that the scheduled tokens are counted in their place, those of a prompt
  included (`NewCounts`, up to `Chunk` of them), or no outputs, so that nothing is counted
  and no first token marked;
* `hook`, whether the second first-token hook has a method to sit on, and `aborts`, whether
  clients abort.

A call's number stands for its time. `Admit`, `ReadCount`, `WriteCount`, `MarkFirst` and
`Hook` are single turns of the wrappers' loops, so an abort on another thread can come
between any two of them. The scheduler has a `running` list. What this means for the records:

* without output lists the finish record has the tokens wrong, too many where scheduled
  tokens stand in and none where there are no outputs, and no first token in the latter
  case: `FinishIsComplete` says which engines it promises what for;
* without a list of the new requests it lacks the time of scheduling;
* a request that is listed as cached and as resumed gets an admit and a resume record for
  one resumption, and one that is preempted and not named gets none:
  `RecordsTellWhoRuns` counts exactly in the other engines, and in all of them says
  that who runs was said to begin to run more often than to stop.

### SglangRequests

SGLang's probe does not see admissions, preemptions and resumptions: it compares the
running set before and after `run_batch()`, unless the result names them. `build` says what
a scheduler's results name, whether `cur_batch` is stale when it is looked at, whether
requests are finished inside `run_batch()`, whether it raises; all 64 combinations are
checked. `trace[r]` is the sequence of records of request `r`, and `Status`, `FirstSchedule`
what `analysis/lib/critical_path.py` makes of it.

### CacheProbes

The caches are external: `users[b]` holds block `b`, `cached` are the blocks a look-up may
find, whether held or not, and the pool hands out those that are neither. `content[b]` is the
number of times `b` has been handed out. An operation of the cache with its wrapper, and
with the operations nested in it, is one step. `build` says whose cache it is, which of the
wrapped methods the probes find and can read block ids from (`seen`: the vLLM probe goes on
without an alloc or a free method, `block_pool_probe.py:622, 631`; the SGLang probe patches
`BaseTokenToKVPoolAllocator` alone, while DESIGN.md:516 names its paged subclasses, which
may have methods of their own), whether it has a HiCache, and whether the engine passes
one-shot iterators.

Instead of the trace there is `told[b]`, what `analysis/lib/reuse.py` makes of the records of
`b`: `After` is one more record in the loops of `tier_residency()` and `reuse_distance()`, the
tier of the interval that is open, the newest hit, the last row of reuse distances and
whether a record without a tier has come since. So any number of records is covered. `Moved`
writes a record for each block of a call, `Logged` one whose tier follows from its kind.
`Copy`, `Load`, `LoadRaises` and `Evict` with `tiers` are the movements of `hicache_probe.py`;
their records name any blocks, since the probe takes numbers among the arguments for block
ids (`hicache_probe.py:139`); `done` marks those that are true. `UpdateStateAfterAlloc` is the
`tier_promote` record of vLLM's connector wrapper.

`Spent` is a vLLM wrapper that lists its argument before the engine sees it: an iterator is
then empty, the pool frees nothing, `lost` keeps what it should have freed. vLLM passes
`reversed(blocks)` in some versions, so this is the engine's affair.

What the properties say, and what they do not:

* `ResidencyIsTrue` - where releases are wrapped (in vLLM evictions too), an interval in
  device memory covers only time the block is held or cached. Intervals in other tiers are
  not judged, since the probes do not see copies in host memory or a store disappear: such
  an interval ends with the next record of the block.
* It leaves out intervals that a load has opened which raised, went to host memory
  (`load_to_host` is taken for a load into the device, `hicache_probe.py:172`) or named
  blocks it did not fill. For these the records are wrong.
* `HitsOfOneStay` - `reuse_distance()` pairs hits by block id and cuts nowhere, so a reuse
  distance may lie between hits of different contents, and between workers, which it does
  not tell apart. What is checked is that the trace holds what would be needed: where
  evictions (vLLM) or releases (SGLang) are wrapped, hits with no record between them that
  leaves the block without a tier are of one stay in the cache. An `allocate` record in
  between is not needed, and is not there where the method was not found.
* The records of a block have different times, in the order of the calls; all are written
  (`sample_metadata` 1); calls that raise change nothing and, HiCache's aside, leave no record.

### ProbedCalls

The wrappers of `weight_probe_common.py`, `hicache_probe.py` and `disagg_probe.py` have one
shape: look at the arguments, perhaps set a payload context or open a transfer, call the
wrapped method, undo the one and end the other, write records. `stack[t]` holds a frame per
wrapper under way on thread `t`; `payload[t]` is `_TLS.payload`. Kinds of call: `load`,
`update`, `lora` and `moe` set a context and record weights after they returned; `offload`
only records; `gather` and `alltoall` are `make_collective_wrapper()` without and with a
default kind; `move` is a HiCache controller's method, `tier` a HiRadixCache's, `disagg` a
disaggregation backend's. `Call` pushes a frame, `Return` and `Raise` take the call out of
it (the `with` and `finally` clauses), `Record` writes one weight or block record after
the other while its own frame stays. A caller goes on after an exception inside it, or
raises itself: both are steps of `Next`. Which method calls which is the engine's affair,
the constant `Inside`.

What the code does and no document speaks of, so that no property forbids it:

* an update whose weights travel through a wrapped collective is recorded by the
  collective and once more per parameter;
* a controller's movement that raises is closed with cancel, and its blocks are recorded
  as moved all the same (`hicache_probe.py:235`, inside the `finally`);
* a load inside a load (a worker's around a model loader's) records the weights at both
  levels.

## 3. Runs

| Run | Shows | Bounds |
|---|---|---|
| `emitter_buffers` | type correctness, `RingBounded`, `FileOrder`, `SizeTrigger`, `RecordConservation`, and that `Emitter` implements `TraceLog` | two threads with 3 and 1 records, buffers of 2, flush at 2, failing writes and records |
| `emitter_live` | `AtMostOneEnd`, `NoEndForSampledTransfer`, `ProbeReturns`, `BuffersDrain`, `FlusherTerminates` | two threads with 2 and 1 records about one transfer, which may be sampled away, buffers of 1 |
| `output_file` | `StaysReadable`, `OnlyNewestAreLost`, `ClosedTraceValidates` (with `CloseKeepsAll`), `PairsOnceWhenSettled` | three processes in turn, 5 records, rotation at 2, batches of 1 or 2 |
| `connector_places` | type correctness, `OnePlace` | two threads, one layer, three transfers, failures and interrupts |
| `connector_one_thread` | `EndsAfterArrival`, `TransfersClosed` | one thread, two layers, two transfers, failures |
| `lifecycle_records` | `FinishIsComplete`, `RecordsTellWhoRuns`, `TrackerFollowsEngine` | two requests, three rounds of the engine, up to two scheduled tokens where they stand in for lists (`Chunk`), 27 kinds of engine |
| `probed_calls` | type correctness, `ContextIsInnermost`, `KindTellsCaller`, `TransfersFollowCalls`, `RecordsNeedReturn` | two threads, four calls between them, nested up to three deep, one item, `EngineCalls` as the nesting relation |
| `sglang_requests` | type correctness, `LastRecordTells`, `RowIsRight`, `TrackerFollowsEngine` | two requests, three `run_batch()` calls, all 64 kinds of scheduler |
| `cache_probes` | type correctness, `ResidencyIsTrue`, `HitsOfOneStay` | two blocks and two requests, each block handed out up to three times (`MaxStays`), any number of calls, all 128 kinds of cache |
| `installation` | types and locks, `OneWriter`, `LiveOutsideShutdown`, `WrappedOnce`, `FactoriesCoexist`, `EveryCallReturns` | two threads, three calls between them, two emitters, one `reset()`, recursion down to three frames (`RecursionLimit`); a vLLM build whose factory calls back, an SGLang build |

Why these bounds are enough to meet the cases: a buffer overflows when one thread has
one record more than its capacity (3 for 2, 2 for 1); two threads are needed for a race
between charging and signalling, and to end one transfer twice; two processes are needed
for one to append behind the other, three for a second rotation of a first file; a layer
with loads of its own beside a load without a layer needs two transfers, and a popped
list of two needs a third; a request is admitted, preempted, resumed (and finished)
in three rounds, and a second request shows that none touches the other; a context that is set inside another and
has a collective inside it is three calls deep, and the fourth call is another thread's or a
second one after an exception; an SGLang request is admitted, retracted and resumed in three
batches; a block that is hit, evicted, handed out again, cached and hit takes two stays in
the cache, the third is there for what a load leaves behind, and nothing else is counted; a
shutdown between two
calls that create an emitter, and a thread in `apply()` or the factory beside it, are three
calls, and nested calls are not counted; a guard that is defeated takes three calls of the
factory on two threads, and a recursion of one level below the outer call shows what
happens at the limit. In `lifecycle_records` what `SchedulerOutput` names (16 ways) and what
`execute_model()` returns (3 ways, with and without hook and aborts) are varied in turn, since
they meet in different records; the proofs cover every combination. Every action fires in
some passing run.

Deadlock is not checked where the model stops by its bounds: records, rounds and
processes are numbered up to a limit (`MaxRecords`, `MaxSteps`, `MaxLives`, `MaxCalls`), and
in `CacheProbes` an empty cache whose blocks have been handed out `MaxStays` times is at rest. The
connector runs check it.

### Where code and documentation disagree

Two runs end in a counterexample. Each checks one statement of a document, a comment or a
test against the code; `PROJECT.json` quotes them.

* `emitter_silent_loss` - `drain()` (`emitter.py:90`) copies the deque and then replaces it.
  A record appended in between goes with the old deque: it is neither written nor
  counted as dropped. `RecordConservation` accounts for these records under `lost`.
* `emitter_orphan_end` - `transfer_start()` does not look whether its record was refused
  by a full buffer, so an end can be written without its start.

Others came up while modelling and have no run of their own; the models contain them:

* `get_finished()` (`connector_wrapper.py:422`) writes one metadata record and closes nothing,
  while DESIGN.md:427 calls it the reaper that "emits `transfer.end` records for async
  transfers that completed since last call": a transfer nobody waits for stays open.
* The second first-token hook "only emits if the primary hook missed it"
  (`runner_probe.py:276`). It runs after the finish wrapper has forgotten the request
  (`Hook` after `Finish`), finds no first token and records one again.
* A request resumed after a preemption is recorded as admitted a second time, and not as
  resumed, where the scheduler output lists cached requests (`AdmittedIds`), while the
  comment at `scheduler_probe.py:281` speaks of those "admitted for the first time". If the
  output names it as resumed too, it gets both records.
* A comment in the factory says it will "temporarily remove this env var to avoid recursively
  calling ourselves" (`factory.py:61-63`). Another call that comes between the removal and
  the guard, or between the guard and the restoration, leaves guard and variable set at once,
  and calls recurse until the stack is full; the engine gets no connector then. The model
  has these steps; `FactoriesCoexist` says what is still true.
* DESIGN.md:516 counts the paged allocators among the patched; `radix_probe.py:514` patches
  the base class alone, and what a subclass overrides is not seen (`seen` in `CacheProbes`).
* A HiCache movement into the device that raised is recorded as a block in device memory
  (`hicache_probe.py:235`), and `load_to_host` likewise (`:172`).
* An exception of the flusher's write ends the thread and is told to nobody (`FlusherDies`,
  `FlushWriteFails`): records are still accepted, until the buffers are full, and dropped.
* `get_emitter()` "return[s] the process-wide emitter" (`emitter.py:544`). It reads `_emitter`
  twice, the second time to return it, and returns None when a `shutdown()` comes between;
  the probe's `em.enabled` then raises in the engine's call. `LiveOutsideShutdown` says that
  it takes a shutdown at the same time.
* When a join times out, `_shutdown_emitter()` forgets an emitter that still runs, and the
  next one writes the same path (`OneWriter` speaks of the case that none does).
* A `.jsonl` beside a cut-off or complete `.gz` of the same number, which a process that ends
  during a compression leaves behind, or a compression that fails, makes `load_trace()` raise
  or read records twice; the validator copes, but for one error where the compressed file
  ends inside a line.
* With `--sample` below 1 the validator skips lines before it pairs them, so that its orphans
  mean nothing.

The passing runs say what holds all the same: at most one end per transfer and none
without an issued start, every transfer closed in the end, one first-token record as long
as the engine has the request, one admit or resume record each time a request begins to
run where preempted requests are named and none is listed as cached and as resumed both,
and live emitters and one writer outside of shutdowns and as long as no write fails.

### Fairness

* `ProbeSpec`: weak fairness of a probe call already begun, on each thread. Its thread is
  runnable, since no step of it waits. Nothing is assumed of the flusher, so
  `ProbeReturns` is the statement that the engine never waits for the trace.
* `FlusherRuns`: weak fairness of the flusher, a runnable daemon thread whose `wait()` has
  a timeout of 100 ms. `BuffersDrain` and `FlusherTerminates` assume it and say so in
  their formula.
* `ConnectorTransfers.FairSpec`: weak fairness of a wrapped call's return and of each
  byte's arrival (assumptions on the wrapped connector), strong fairness of a wait for
  each layer and for the saves, as the engine goes through its layers in every forward
  pass. Strong, because a thread in another call cannot wait. Only finitely many
  transfers are drawn; with an endless supply of loads for a layer, a load without a
  layer could be passed over for ever.
* `Patching.FairSpec`: weak fairness of each thread that is in a call. Nothing is assumed of
  the emitter's own threads, since a join that waits for one gives up. The calls are
  finitely many; a lock that others take again and again could be missed for ever by a
  thread that wants it.

## 4. Proofs

Every safety property the passing runs check, the two action properties among them
(`StaysReadable`, and the refinement `KeepsLogPromise`), is also a theorem: it holds for any
threads, records, requests, blocks, engines and bounds. `tlapm` checks the eight modules
of proofs to the last leaf. They assume what is assumed of the constants and no more:
`ConstantsAssumption` (capacity and flush size above 0), `OutputFileAssumption` (batch and
rotation size above 0), `SingletonAssumption` and `PatchingAssumption` (`Nobody` is no
thread), `ConnectorAssumption` (`NoLayer` is no layer), `LifecycleAssumption` (`Chunk` above 0),
`SglangAssumption`, `CacheAssumption` (the engines are among those described) and
`ProbedCallsAssumption`. TLC evaluates each of them in some run. Sets of threads, requests,
blocks, items and transfers may be infinite; what is counted is proved finite.

Each inductive invariant was checked by TLC on the bounds of section 3 before it was
proved. What it adds to the property, and why that is needed, is told here.

`EmitterProofs`:

* `TypeCorrect`, `RingsAreBounded` - the type invariant and the bound need each other's
  neighbours: a thread past the check still has room because only it appends and the
  flusher only empties. The inductive invariant says so for each place in a call.
* `EndsAreUnique`, `EndsHaveStarts` - from `Paired`: an id is started once, what is live has
  been started, what has been ended is not live.
* `FileIsOrdered` - from `Sorted`: along file, batch, drained copy and ring buffer each
  thread's records grow, all are older than the thread's counter, and the copy is the
  front of the deque from which it was taken while `drain()` is half done. Without that
  last part the order would not be inductive: records appended in that window vanish,
  which keeps the order but not the records.
* `RecordsAreConserved` - `Conserved`: what was issued is the union of what is kept (hands,
  buffers, flusher, file), refused and lost, which do not meet, and the drop counter is
  the size of the second. That no record is at two places at once is not assumed but
  follows from `Sorted` (`PlacesApart`). Each step is one of four things that can happen to
  records (`Fate`): nothing leaves its place, one is issued, one refused, some are written
  and some lost at once.
* `ImplementsTraceLog` - the step from `Fate` to a step or stutter of `TraceLog` needs that
  nothing issued before the stop is still in a buffer when the flusher is through
  (`LastInv`): only registered threads have records in their buffers, the flusher holds
  records only while it flushes, and from the snapshot of the last flush on a record put
  before the stop is in a buffer still to be drained, if in any.
* `NoWakeUpIsLost` - the count of bytes is not the number of records in the buffers: it is
  set to 0 before they are drained, and charged after they are put. `ChargedIn`: it covers
  the charged records of the buffers that are not about to be drained (`Due`), unless a
  signal is under way or the flusher is awake.

`OutputFileProofs`:

* The writer's records are one stream of pieces, two for each. `Stream`: there is a number
  of them that has gone to the files, the buffer holds those that follow, the file in use
  ends where the buffer begins, and no file holds what is further on. `AppendStep` is what
  every step of the writer does with the stream; what the gzip threads do is in `Zipping`:
  each works on a file the writer has left and removes it when its copy is complete.
* `ReadableForGood` - from `Zipping` alone: a whole line stays whole in what is appended to,
  and a copy replaces its original only when complete.
* `OnlyTheNewestAreLost` - `Orderly`, from `Landed` in `Stream`: of the pieces that have gone to
  the files every record of this process can be read. `CloseKeepsAll` is the same with an
  empty buffer.
* `ValidatorGetsItRight` - `CloseKeepsAll` for the orphans; for the errors `FirstLife`: in the
  files of a trace's first process fronts and ends of lines alternate, and all files but
  the one in use end with a whole line. What a failed compression has left
  alternates too but may end inside a line, which makes one error, and the file it was made
  of is still there (`Compressed`).
* `TransfersPairOnce` - `Unique`: no piece lies in two files, except in the two forms of one.

`PatchingProofs`:

* A thread's stack is a call inside a call inside a call. `Shape` says what may call what,
  and `Within` that one of a thread's frames is in a given set of places; all that follows is
  stated of these sets, to any depth.
* `TypesAndLocks` - `Held`: each lock has exactly the thread with a frame inside its block.
* `OneFlusherWrites` - `Stopping` and `InTurn`: the current emitter has been told to stop only
  while a `shutdown()` is inside its block, every other has, and the collector ends before
  the flusher is told. A flusher that a failed write ends may come before all that: the
  invariant speaks of those that run or have come to their orderly end.
* `ProbesGetLiveEmitters` - `Undisturbed`: a call that no `shutdown()` has overlapped finds
  `_emitter` set between its two reads of it.
* `SitesWrappedOnce` - `Layers` counts wrappers against the resets so far.
* `FactoriesRestore` - `Restored`: the guard is set, or the variable gone, only on behalf of a
  call on some stack that puts it back, whoever else has cleared or restored it
  meanwhile; several calls can have the variable to put back. It holds for every
  `RecursionLimit`. `Wrapping`: as long as the connector's site is bare
  no call has got beyond its `apply()`, unless that raised.

`ConnectorProofs`:

* `TypeCorrect` and `TransfersHaveOnePlace` - `OnePlace` together with the types and the
  fact that a thread outside a call holds nothing (`EmptyHanded`) is inductive; the proof
  shows for each action how the holders of each transfer change.
* `EndsAreTrue` - for one thread, `EndsAfterArrival` from `Served`: what is booked is booked
  under its own layer, was accepted by the wrapped connector, and what was popped after a
  successful wait has arrived.

`LifecycleProofs`:

* One invariant, `LifeInv`, for all three theorems and all engines, with lists, outputs, hook and
  aborts in any combination. `RequestOK` relates, for each request, its
  entry in the tracker and its records to what the engine has done with it, with the
  exceptions the loops make: the step has scheduled it and its turn in the loop is to come
  (`ScheduleKnown`, `Unrecorded`), the model has sampled a token that is not yet counted
  (`Owed`), a preempt record is still to be written (`Unput`). Where records cannot be exact
  (`CountsExact`) it says by which amount at least they tell. `Loops` says what the loops' local variables hold; `TrackerExact` that the tracker has
  neither more nor less than the engine when no client aborts and no second hook runs.
* `LifecycleFinishIsComplete` is `FinishRight` with `ArrivalKnown`, so aborts of other requests
  on other threads are covered; `LifecycleTrackerFollowsEngine` is `TrackerExact`;
  `LifecycleRecordsTellWhoRuns` is `RunRecorded`.

`ProbedCallsProofs`:

* `TypeCorrect`, `ContextsNest`, `CollectivesAreTagged` - a thread's context being the
  innermost one is not inductive: when a call ends, what it puts back must be the
  innermost of what is left. `Nested` says of every frame that it remembers the innermost
  context below it. `AllTold` ties each collective's record to the frames below it; it
  needs that transfers keep their kind (`OpenGrows`, `CloseGrows`). The proof holds for any
  relation `Inside`.
* `TransfersAreClosed` - on top of that invariant, from the two lemmas that say which frames
  carry a transfer after a push and after a frame is left.
* `RecordsAreBacked` - records written and records still to be written by calls that have
  returned are together no more than the returns (`RecordsBacked`); the second are counted
  over all stacks, since any number of threads may be between return and record.

`SglangProofs`:

* `SglangTypes`, `SglangTrackerFollowsEngine` - the tracker is right during a `run_batch()`
  too (`TrackedInStep`), because whom the probe may take for admitted is running
  (`BatchIsAsDecided`, `AdmittedInEngine`). This fails, and the property says nothing, in
  schedulers that finish requests inside `run_batch()` and keep a stale `cur_batch` or name
  admitted requests: there the probe can enter a finished request in the tracker again,
  where it stays for good (`scheduler_probe.py:264`).
* `SglangRowIsRight` - a row rests on what the trace has so far, the tracker and the scheduler
  together. `EndRecorded`: the trace has an end exactly if the request has. `EngineTimes`: who
  was admitted by the call under way was not running before it. `AdmitRecorded`: the first
  admit record names the first admission, and it is there for whoever runs, unless the call
  under way has just admitted it; so a wrong guess can only add a later admit record.
  `EntryRight` and `EndRight` carry that time into the finish record. That there is a first
  record of a kind is part of the invariant (`FirstIs`), which spares an induction over traces.
* `SglangLastRecordTells` - during a `run_batch()` the newest record is that of the time before
  for whoever the call has decided nothing about (`LastRight`), and `Moved` says how the
  scheduler's decisions fit to what ran before the call. A scheduler that names admitted
  requests but not resumed ones is excepted, as in the property.

`CacheProofs`:

* One invariant, `CacheInv`, of one predicate for each block, `Fits`: what has been made of its
  records fits who holds it, whether it is cached, and its content. `RecordRight` and
  `SilenceRight` say when a call may leave a record of a block and when it need not;
  `CallFits` carries `Fits` over a call that keeps to them, and each operation is shown to.
  An eviction in SGLang and a load are two such calls, one nested in the other.
* `ResidencyHolds` needs the fact that an SGLang block has several holders only through the
  tree (`OneHolder`): without it a free could be recorded while another request holds the
  block.
* `HitsAreOfOneStay` - a hit that nothing has cut off yet is of what the block holds now, and
  the block is still cached; so no later hit can be of other content before it has left the
  cache, which is recorded.

Only model-checked: liveness (`ProbeReturns`, `BuffersDrain`, `FlusherTerminates`,
`TransfersClosed`, `EveryCallReturns`), which needs `ENABLED` and induction and is out of this
prover's reach. The two counterexamples are TLC's as well.

Proving changed two definitions. `Loaded` and `Errors` in `TraceReaders` count pairs of a file and a
line, where a sum over the files could be evaluated but not reasoned about; and the value
that a call leaves for its caller is any number in `SingletonTypeOK`, as a factory's results
are not numbers of emitters. `EndsAfterArrival` is proved, as it is checked, for one engine
thread: with two, a transfer that one books while the other's wait is on its way out is ended
with the others.

## 5. Not modelled

* Contents of records, schemas, clocks, identifiers, sampling rates: data that no property
  here is about. Transfer ids are drawn once, as UUIDs are.
* In `OutputFile`: two processes with the path open at once, and the gzip threads of an
  emitter that was shut down beside those of its successor in the same process.
* In `EmitterSingleton` and `Patching`: the cause of a failing write and what of its batch is
  on disk (`Emitter` and `OutputFile` have that); the exact depth at which Python stops a
  recursion; tracing switched off; `get_config()`, which has the
  same second read as `get_emitter()` but is reset by tests only; a `reset()` while calls are
  under way; a connector handed to the factory in place of its configuration.
* In `SglangRequests` and `CacheProbes`: lengths, priorities, pool sizes, the metadata
  records; the block table wrappers, which keep no state; blocks without an id, which are
  all recorded as -1; several workers in one trace, which `reuse.py` does not tell apart;
  sampling of block records.
* In `TraceReaders`: schemas, envelope fields, manifests, `--sample`; the `.gz` of a process
  killed while it compressed is empty to a reader, though some lines of it could be read
  before it ends: they are in the `.jsonl` beside it.
* The NCCL log tailer: a regular expression over a growing file; what it misreads is a wrong
  sample, on which nothing else rests.
* The analysis beyond pairing, status, queueing, reuse and residency: arithmetic on columns.
* In `ConnectorTransfers`: first look-up times per request and the wrapping of NIXL agents.
* In `RequestLifecycle`: token sampling, kernel timestamps, installation of the wrappers, a
  scheduler without a `running` list (`_get_running_ids()` is empty then), outputs whose
  token list has no length, which are counted as one token (`runner_probe.py:171-174`).
* In `ProbedCalls`: which methods are patched; how names, bytes, blocks and adapters are read
  from arguments, and that this reading may raise (the truth value of a tensor of several
  elements at `weight_probe_common.py:153` does); metadata records; tracing switched off.
* Hardware counters, manifest, configuration, launch script: they read or write once and
  keep no state that a step could break.

## 6. Plan

Every module keeps its parameters as constants with named assumptions, one action per
operation and no recursive operator, so that it can be proved about. What is left:

1. The connector wrapper's first look-ups and NIXL agents.
2. Two emitters of one process on one path after a join has timed out: `EmitterSingleton`
   composed with `OutputFile`.
