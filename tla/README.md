# TLA+ models of file.d

This directory holds TLA+ models of the file.d event plane (`src/pipeline/pipeline.go`),
of its admin sample/info handlers, of the file output plugin
(`src/plugin/output/file/file.go`) and of the splunk output plugin
(`src/plugin/output/splunk/splunk.go`), with the TLC
configurations that check them. `PROJECT.json` lists the components, the runs, the
mutants that show each property can fail, the map from every modelled definition to
the source lines it translates, the findings and the hazards.

## The system and how its parts interact

An input plugin calls `Pipeline.In` with a source id, a source name and a line of bytes.
`In` first applies the empty-input and antispam checks. It then takes an event from a
bounded pool (`eventPool.get`, which blocks while the pool is empty), chooses a decoder
and decodes the line. Next it attaches metadata and calls `streamEvent`, which derives a
stream key and appends the event to that stream (`streamer.putEvent`).

A fixed set of processors each attach to a ready stream, take its events one at a time
and run the action chain. An action may pass, discard or hold an event. Discarding
commits the event back to the input. A held event leaves the chain and comes back later
through `Propagate` (at the next action) or through an action's `Commit`. After the last
action the event goes to the output plugin's `Out`. The output eventually calls
`Pipeline.Commit`, which tells the input the offset is safe (`finalize`) and returns the
event to the pool.

The file output batches events. Each batch is written under a read lock into the
current file. A ticker seals the file every `retention_interval`:

- rename it to `name_<idx>_<ts>.ext`;
- take the write lock;
- create a fresh current file;
- close the old handle and announce it through `SealUpCallback`.

The splunk output hands events to a batcher (spec 4.7; the batcher is not under `src/`).
W workers collect batches and flush them on size or timeout. Each worker calls `out`,
which retries `send` forever, sleeping one second between tries. When `out` returns, the
worker commits the batch's events.

The admin endpoint of an action (`serveActionSample`) starts one watcher goroutine per
processor. It answers with the first sample or with a timeout. Meanwhile `growProcs` may
append processors.

## Modules

| Module | Models | State (code counterpart) |
|---|---|---|
| `Pipeline` | `In`, `streamEvent`, `finalize`, `Commit` (code), streams, processors and action chain (spec 4.2-4.3; that code is not under `src/`) | `free` (eventPool), `ev[slot]` (event record, stream key, action index), `queue`/`owner`/`ready` (streamer), `attached`/`cur` (processors), `held`/`async` (held and propagated events), `outq` (events handed to the output), `committed` (input offsets), `halted` (process died: `logger.Fatalf`) |
| `MCPipeline` | instantiates `Pipeline` with model values for slots and workers | - |
| `StreamDelivery` | the abstract per-stream delivery contract of the event plane (spec 4.2, 4.3, invariants 1 and 3) | `pending` (records of each stream, head first), `loose` (records an action took out of stream order), `out` (records passed to the output), `committed` |
| `FileOutput` | `Start`, `out`, `write`, `fileSealUpTicker`, `setNextSealUpTime`, `sealUp`, `rename`, `createNew`, `getStartIdx`; crash-restart of the process | `name[inode]` (directory entries), `data[inode]` (batches written), `file`/`idx`/`due` (plugin fields), `tpc` (where the ticker goroutine is in `sealUp`), `readers`/`locked` (`mu` RWMutex), `wbatch`/`wfile` (writer in `write`), `pending`/`acked` (batches awaiting `out`, and committed by the batcher after `out` returned), `closed`, `announced` (SealUpCallback) |
| `Lifecycle` | `Start`, `Stop`, `initProcs`, `growProcs`/`expandProcs`, the exit check of `maintenance` | `ctl` (where the main goroutine is in Start/Stop), `procs` (`p.Procs`), `busy` (processors counted in `activeProcs`), `procCount`, `shouldStop`, `stopN`/`stopI` (Stop's range over a snapshot of `p.Procs`), `grow`/`expandTo`/`left` (growProcs and its expandProcs loop), `maint`, `satPrev` (history: previous growth sample) |
| `MCFileOutput` | instantiates `FileOutput` with 2 writers, 3 batches, 7 inodes and the sealed files 0..8 of an earlier run | - |
| `OutputContract` | the abstract output plugin contract (spec 5, 4.7): events accepted by `Out`, stored by the sink (possibly again), committed once after being stored | `accepted`, `stored` (set), `committed` (sequence) |
| `SplunkOutput` | splunk `Start`, `Out`, `out` (its retry loop) and `send`, on the spec's batcher (flush, commit) | `nextOut` (next event passed to `Out`), `batch`/`wstate` (each worker's `batch.Events` and whether it collects, is inside `out`, or commits), `stored` (the collector's log, with repeats), `late` (timed-out requests still on the wire), `failures`, `committed` |
| `AdminSample` | `serveActionSample`, its watcher goroutines, `serveActionInfo`, `writeErr`, and concurrent `expandProcs` appends | `hpc` (handler position), `procsLen` (`len(p.Procs)`), `capac` (the samples channel's capacity), `watching`/`blocked`/`chanq` (watchers inside `watch`, blocked sending, samples buffered), `status`/`body` (what the client receives), `spawned`/`madeLen` (history) |

Each operation of the code is one action, covering the whole handler. `In` models the
whole of `Pipeline.In`: the pool take, the decoder choice, the decode outcome with its
`Fatalf`/`return 0` branches, and the `putEvent`. `Finalize` models the input commit of
`finalize` and the pool return. It leaves out `event.stream.commit` (the streamer is not
under `src/` and no property reads it), the early return for timeout events (nothing in
`src/` creates them) and the debug event log. The seal of a file is split
into one action per step that another goroutine can observe between:

- `SealRename` is the rename, before the lock.
- `SealLock` is `mu.Lock`, which waits for the readers.
- `SealSwap` is `createNew` and the unlock.
- `SealClose` is the close and the callback.

`Send` is one iteration of `out`'s loop, with the outcome of `send`:

- `"ok"`: code 0 in the response.
- `"rejected"`: there was no request, or the collector refused it.
- `"timeout"`: the client gave up after writing the request. The request may still
  arrive (`LateArrive`).
- `"readFail"`: the collector answered, but the body could not be read. The batch is
  stored and `send` still fails.
- `"uncoded"` (only when the constant `UncodedAnswers` is TRUE): the answer is JSON
  without a `code`. Nothing is stored, and `send` returns nil.

The HTTP response in `AdminSample` is modelled by what `net/http` does with it. The first
`Write` sends status 200, and a later `WriteHeader` is ignored.

Messages, names and payloads are abstracted as follows. A record is its sequence number.
A payload is `"wellformed"` or `"malformed"`. A source name is a model value. A file name
is a record `<<kind, idx>>`; the timestamp part of sealed names is left out, because
`getStartIdx` reads only the index. The order in which `filepath.Glob` returns sealed
names is kept: names sort by the decimal digits of the index and then by `_`, which sorts
after every digit, so `name_10_...` comes before `name_9_...` (`Digits`, `GlobBefore`,
`GlobOrder`). The loop of `getStartIdx` is the recursive operator `ScanIdx`.

## Runs

| Run | Checks | Result |
|---|---|---|
| `pipeline_core` (`MCPipeline.cfg`) | `TypeOK`, `EventAccounting`, `RegistryConsistent`, `ImplementsDelivery`, `EventuallyCommitted`, with `UseSpread`, an auto-selected CRI decoder, strict mode and malformed input | pass |
| `pipeline_decode_leak` (`MCPipelineDecodeLeak.cfg`) | `EventAccounting` with a JSON decoder in non-strict mode | violation: the pool leak below |
| `file_output` (`MCFileOutput.cfg`) | `TypeOK`, `WriterSeesOpenFile`, `AckedDurable`, `NextSealNameFree`, `EventuallySealed`, with a crash-restart on a directory that already holds sealed files | pass |
| `file_empty_seal` (`MCFileOutputEmptySeal.cfg`) | `TickerWaitsForDeadline` | violation: the busy ticker below |
| `lifecycle` (`MCLifecycle.cfg`) | `TypeOK` (including: only running processors are active), `FleetConsistent`, `LoopsExit` | pass |
| `lifecycle_stop_race` (`MCLifecycleStopRace.cfg`) | `NoProcessorAfterStop` | violation: processors started during Stop |
| `lifecycle_growth` (`MCLifecycleGrowth.cfg`) | `GrowOnlyWhenSustained` | violation: growth after one sample |
| `splunk` (`MCSplunkOutput.cfg`) | `TypeOK`, `ImplementsContract`, `EventuallyDelivered`, with 2 workers and up to 2 failed sends | pass |
| `splunk_uncoded_answer` (`MCSplunkUncoded.cfg`) | `ImplementsContract` when an answer may lack a `code` | violation: events committed but not stored |
| `admin_sample` (`MCAdminSample.cfg`) | `TypeOK` (including: the channel never holds more than its capacity), `WatchersFinishWhenSized` | pass |
| `admin_watcher_leak` (`MCAdminSampleLeak.cfg`) | `WatchersFinish` | violation: leaked watcher goroutine |
| `admin_error_status` (`MCAdminErrorStatus.cfg`) | `ErrorHasErrorStatus` | violation: error answers carry status 200 |

What the properties say:

- `EventAccounting`: every pool slot is in exactly one place. The places are free,
  queued in a stream, current in a processor, held, propagated, or in the output.
- `RegistryConsistent`: a stream has events and no owner exactly when it is ready.
  Owner and processor agree on which stream the processor is attached to.
- `ImplementsDelivery`: the event plane refines `StreamDelivery`. Records enter a stream
  in `In` order, and only the head of a stream is passed on, discarded or held. A held
  record comes back through `Propagate` or `Commit`, in any order. Every record is
  committed at most once. This implies per-stream `In`-to-`Out` order for records no
  action held.
- `EventuallyCommitted`: every record `In` accepted is eventually committed, unless the
  process died.
- `WriterSeesOpenFile`: a writer under RLock always writes to the current, open file.
- `AckedDurable`: no file that holds a committed batch loses its name. This is not
  true if a rename replaced a sealed file. A batch may be in two files, because a crash
  after `out` returned and before the batcher committed makes the input deliver it again.
- `NextSealNameFree`: `p.idx` is above the index of every sealed file in the directory,
  the earlier run's included, also after a restart rebuilt it with `getStartIdx`. The
  mutant that keeps the last index the loop sees, instead of the largest, breaks it,
  because glob order puts `name_10_...` before `name_9_...`.
- `EventuallySealed`: every acknowledged batch is eventually in a sealed file.
- `FleetConsistent`: `len(p.Procs) = procCount` outside `expandProcs`, and inside it the
  appended processors plus those still to append make `to`.
- `LoopsExit`: after `Stop` returns, `growProcs` and `maintenance` both return.
- `NoProcessorAfterStop` (spec, shutdown): once `Stop` has returned no processor runs.
- `GrowOnlyWhenSustained` (spec 4.4): the fleet doubles only after two consecutive
  saturated samples.
- `ImplementsContract`: the splunk output on the batcher refines `OutputContract`. The
  refinement mapping maps `accepted` to the events before `nextOut`, `stored` to the set
  of the collector's log, and `committed` to itself. So an event is committed once, and
  only after the collector stored it, whatever the outcomes of the sends and the late
  requests.
- `EventuallyDelivered`: the contract's liveness. Every event handed to `Out` is
  eventually committed.
- `WatchersFinishWhenSized`: if `p.Procs` did not grow between `make` and `range`, every
  watcher goroutine eventually returns.
- `WatchersFinish`: every watcher goroutine eventually returns (no condition).
- `ErrorHasErrorStatus` (spec 7): an error answer reaches the client with status 400/500.
- `TickerWaitsForDeadline`: the ticker never goes back to waiting with a deadline that
  has already passed.

## Findings

1. **Pool leak on JSON decode errors** (`pipeline.go:291`). In non-strict mode a
   malformed JSON line is logged and dropped, but the event taken from the pool at line
   270 is never returned. Each such line costs one slot for good. After `Capacity` of
   them, `In` blocks forever. TLC's trace: a malformed line, then `EventAccounting` fails
   because a slot is in no place.
2. **Busy ticker on an empty file** (`file.go:226`). `sealUp` returns early for an empty
   file before `setNextSealUpTime`. The ticker then computes a duration that is already
   past and calls `sealUp` again immediately. The goroutine spins on `Stat` until
   something is written.
3. **Processors started after Stop** (`pipeline.go:239`, divergence from the spec).
   `Stop` sets `shouldStop` last, after the processor loop, which ranges over a
   snapshot of `p.Procs`. A `growProcs` iteration that wakes during `Stop` still sees the
   flag false, so `expandProcs` appends and starts processors that are never stopped.
4. **Growth after one sample** (`pipeline.go:447`, divergence from the spec). `t` is reset
   only by an unsaturated sample, and the loop sleeps the full interval before comparing.
   So `now - t > interval` already holds at the first saturated sample. The spec asks for
   saturation "continuously for over 100 ms".
5. **Leaked sample watcher** (`pipeline.go:622-623`). The samples channel is made with
   capacity `len(p.Procs)`, and then `range p.Procs` reads the slice again. If
   `expandProcs` appended in between, there are more watchers than buffer slots. Once
   the handler has taken its one sample or timed out, the extra senders block forever.
   TLC's trace: `Grow` between `SampleBegin` and `SampleSpawn`, three watchers for a
   two-slot channel, a timeout, and one goroutine blocked for good.
6. **Admin errors answered with status 200** (`pipeline.go:615`, `:636`, `:568`).
   `writeErr` writes the body first, which sends status 200. The following
   `WriteHeader(400/500)` is ignored by `net/http`, so clients see success.
7. **Splunk commits events nobody stored** (`splunk.go:180`). `send` judges the answer
   by its body alone. `root.Dig("code").AsInt()` is 0 when the field is missing, and the
   HTTP status is never checked. So a JSON error body from something in front of the
   collector (a gateway's 429 `{"message": ...}`) makes `send` return nil. `out`
   returns, and the batcher commits the events. TLC's trace: one event, `Send` with an
   uncoded answer, `CommitNext`; the contract's `Commit` requires the event to be stored.

The model also exposes a contradiction in the spec. The batcher it describes has W
workers that flush and commit independently. So two batches of one stream can be
committed in either order, against invariant 4 (per-stream commit order). The batcher
is not under `src/`, so this is recorded as a hazard (`splunk.go:98`) and not checked as
a finding of the code.

## Bounds and why they are enough

- `pipeline_core`:
  - 2 slots against 3 records, so the pool runs empty and `In` has to wait for a commit.
  - 2 processors, so two processors can contend for one stream.
  - `UseSpread` with 2 processors, so records 1 and 3 share a stream and record 2 is on
    another. Malformed lines under strict mode, so a fatal decode can interrupt anything.
  - Two actions, so a record resumed by `Propagate` runs an action again in the
    action's goroutine, and may be held or discarded there.
  - No symmetry, because the run also checks the liveness property
    `EventuallyCommitted`.
- `file_output`:
  - 3 batches and 2 writers, so a write overlaps a seal.
  - 1 crash, which can land at each step of a seal and between a write and the
    batcher's commit. A second crash makes the run explode, because every batch a crash
    re-delivers can be written again into a new file.
  - 7 inodes: the first file, one per write and one per restart.
  - The earlier run's sealed files 0..8, so this run seals index 9, 10 and more, and
    the restart's `getStartIdx` meets a directory where name order and index order
    differ.

- `lifecycle`: `GOMAXPROCS = 1`, so 2 processors at start, and growth is explored up to
  8 processors (`MaxProcs`). That is two full expansions (2 to 4 to 8), each of which can
  overlap every step of `Stop`.

- `splunk`:
  - 2 workers, batch size 2 and 4 events, so one stream's events are split over two
    concurrent full batches, and a batch can also flush partly filled.
  - Up to 2 failed sends, so a batch can be retried after a timeout whose request then
    arrives late. That is the duplicate case of the contract.
- `admin_sample`: 3 processors and one growth.
- The admin violation runs: 2 processors and one growth, which is enough for a watcher
  to have no buffer slot.

## Refinement

`Pipeline` refines `StreamDelivery` (`Delivery == INSTANCE StreamDelivery WITH ...`,
checked as `PROPERTY ImplementsDelivery`). The refinement mapping is built as follows:

- A stream's `pending` is the record its processor is running, followed by the queued
  records.
- `loose` is the held and propagated records.
- `out` is the history `outLog`, and `committed` maps to the input's committed offsets.

Attach, detach, `stream.get`, `Propagate` and a failed decode are stutter steps of the
contract.

`SplunkOutput` refines `OutputContract` (`Contract == INSTANCE OutputContract WITH ...`,
checked as `PROPERTY ImplementsContract`). The abstract `committed` is a sequence, not a
set, so that committing an event twice is a step the contract forbids and not a
stutter.

## Fairness

- Pipeline: processors and the output are goroutines that run whenever they have work,
  so their steps are weakly fair. Holding actions are assumed to eventually
  propagate or commit (weak fairness per event). Inputs are not fair: a source may stop
  sending.
- Lifecycle: a `Stop` that has begun runs to its end, and `growProcs` and `maintenance`
  keep being scheduled. Nobody has to call `Start` or `Stop`, and processors do not have
  to take work.
- FileOutput: the writers, the batcher's commit, the ticker and the clock (`Tick`) are
  weakly fair. Crashes are not.
- SplunkOutput:
  - The pipeline keeps calling `Out`.
  - The flush timer fires, and the workers are scheduled.
  - After `MaxFailures` failed sends the collector accepts. `out` retries forever, so
    without that assumption nothing can be delivered.
  - The network owes nothing to late requests.
- AdminSample: the goroutines are scheduled, and both 5 s timers (`watch`'s and the
  handler's `time.After`) fire.

## Not modelled, and the plan for later

- `maintenance`'s work (antispam and metrics ticks, statistics) is not modelled in
  `Lifecycle`; only its exit on `shouldStop` is.
- `Antispam`: spec 4.5 does not say when a ban is lifted, and `pipeline.go` only calls
  into an antispammer that is not under `src/`. A model would invent its rules.
- The batcher's own code is not under `src/`. Its flush and commit are modelled from
  spec 4.7 (`Flush`, `CommitNext`, marked spec-modelled).
- splunk `Stop` is empty, so its batcher keeps running after the pipeline stopped. Stop
  is not composed with the output. The HTTP client and its connections are I/O.
- `servePipeline` and the metrics holder: formatting and counters, with no delivery
  property.
- `FileOutput`'s `Stop` (`cancelFunc`, `batcher.Stop`): after it the process exits. The
  crash model already covers that: the ticker stops wherever it is, and the current
  file stays unsealed until the next `Start` reuses it.
- `FileOutput`'s directory holds only names the plugin wrote, with a fixed-width
  `Layout` such as the default. With a foreign `name_x_y.ext`, or a `Layout` whose
  formatted width differs from its length (`Z07:00` prints `Z`), `getStartIdx` breaks
  out of its loop early or panics on a slice whose end is below its start. `ScanIdx`
  keeps the `break`, but no modelled name takes it.
- `FileOutput` leaves the timestamp out of sealed names. A sealed file that replaces an
  earlier one therefore assumes both names collide, for example with a coarse `Layout`.
- Not modelled at all, because they are I/O or formatting and carry no delivery
  property:
  - decoders' parsing;
  - the data races on diagnostic samples.
