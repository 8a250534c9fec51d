# rsac in TLA+

`rsac` is a Rust library that captures audio (system, application, process tree,
device) on Windows, Linux, macOS, Android and iOS and hands it to the
application by reads, iterators, async streams, subscriptions, callbacks and
sinks. The platform backends push buffers from an OS audio callback or capture
thread into a lock-free ring; everything above the ring is shared code; three
language bindings share a capture between the threads of their hosts. The
concurrency of the shared code, of the backends that add some of their own, and
of the bindings is what this project specifies.

All paths below are relative to the repository (`src/...` is the crate).

## 1. Inventory

| Component (code) | State | Operations | Talks to | Hard behaviour | What makes it correct |
|---|---|---|---|---|---|
| Ring bridge, data plane (`src/bridge/ring_buffer.rs`) | SPSC ring, free list of sample blocks, `scratch`, consumer-side spare pool, `buffers_*` counters, `consecutive_drops`, stream position | `push`, `push_or_drop`, `push_samples_or_drop*`, `push_samples_guarded`, `pop` | OS callback thread on one side, readers on the other | each side is a sequence of atomic steps; the consumer may pop between the producer's ring push and its counter; a waker may unwind inside the callback | counters agree with the ring; no period vanishes uncounted; stamps keep the time of dropped periods; the real-time thread allocates only when the consumer lags |
| Lifecycle word (`src/bridge/state.rs`) | one atomic byte | `transition` (compare-exchange), `is_*` | everybody | several writers | terminal states are never left |
| `BridgeStream` (`src/bridge/stream.rs`, `pop_blocking`, `ConsumerWake`) | state word, consumer mutex, platform mutex, wake generation + condvar | `read_chunk`, `try_read_chunk`, `stop`, `signal_done`, `signal_error` | readers, stoppers, the backend's producer | lost wake-ups, two stoppers, natural end racing stop, death during stop, blocking readers holding a mutex | lifecycle; nothing pushed after Stopped (backends that join); readers and stoppers always come back |
| `AsyncAudioStream` (`src/bridge/async_stream.rs`) | one `AtomicWaker` slot, self-wake budget | `poll_next` | executor, producer, `stop_capture` | register/notify race, backends that never wake | no lost wake-up; bounded self-wakes; the end arrives |
| Push delivery (`src/api.rs`: `subscribe`, `subscribe_with_errors`, `drain_to`) | bounded channels, `subscriber_dropped`, coalescing state, stop flag, sink | the three thread loops, `DrainHandle::shutdown`/`Drop` | stream, receivers, sinks | stalled receivers, dropped receivers, error storms, sink failures, shutdown anywhere in the loop | buffers delivered or counted; the end reported last; sinks finalized |
| `AudioCapture` handle (`src/api.rs`) | stream slot, callback slot, callback pump, uptime anchor | `start`, `stop`, `request_stop`, `set_callback`, `clear_callback`, `Drop` | pump thread, re-entrant callbacks | the callback may call the handle back; restart by recreation | one pump per stream; nothing delivered after `stop` |
| Composition (`src/compose/*`) | per-source FIFO, resampler, anchors; engine thread; composed `BridgeStream` | ingest, tick, trim, flush; composed read, stop | several captures, one composed reader | lane alignment over gaps, fallback cadence, the tail at the natural end | no captured frame unaccounted; the composed stream ends only after its tail was read |
| Sinks (`src/sink/*`) | file or channel | `write`, `flush`, `close` | the drain thread | failing close | header finalized |
| Linux backend, capture thread (`src/audio/linux/thread.rs`) | command channel, PipeWire loop, stream and listener of the session, bridge | create (5 s handshake), stop (timed), queries, `Drop` | main loop thread, PipeWire daemon, readers | a handshake that gives up while its command is queued; teardown order of stream and listener; the daemon dying unasked | a clean stop never looks like a death; answers are true; nothing is left behind; whichever way it ends, the word is told |
| Linux backend, registry (`src/audio/linux/thread.rs`) | mirror of the daemon's objects, metadata proxy, pending roundtrips | every enumeration, target resolution, device watcher | daemon, callers, watcher handlers | objects come and go during a roundtrip; a roundtrip that gave up leaves a late `done` | a settled answer is recent and matches the query; the watcher is not left with a wrong picture |
| Callback backends: AAudio and playback capture on Android, AUHAL on macOS, AVAudioEngine on iOS (`src/audio/{android,macos,ios}`, `mobile/android`) | native stream, leaked callback contexts, session registry, listeners | create, stop, `Drop`, data callback, death notice | OS callback threads, JNI | callbacks in flight while their context is torn down; a death that races a stop or a drop | contexts outlive callbacks; a stop is final; a teardown is never taken for a death; a death is seen |
| iOS broadcast ring (`src/audio/ios/broadcast.rs`, `mobile/ios/.../RingProducer.swift`) | memory-mapped file shared by two processes, heartbeat, drop counter; drain thread | init, write, refuse; open, drain, poll, stop | the extension process, the host's bridge | the extension is killed at any store and starts again over the leftover file | frames in order and complete; every frame refused from the baseline on counted once; a stream over a dead producer ends |
| Language bindings (`bindings/rsac-{python,napi,go,ffi}`) | GIL and `RwLock`, pump flag and generation, mutex and `WaitGroup` | reads, getters, `start`, `stop`, `close`, `onData`, `offData` | threads of the host language, event loop | two locks taken in both orders; check-then-store; a handle freed while reads drain | no handle freed under a read; calls return; a subscription keeps its pump |
| Windows backend (`src/audio/windows`) | capture thread, stop flag | capture loop, stop | WASAPI | as any polling producer of `BridgeStream` | as `BridgeStream` |
| Core types, builder validation, CLI, permissions, WAV layout, mock, Tauri plugin | - | - | - | values and I/O | - |

The hazards of this code, each at its line and with the properties that would
catch it, are listed in `PROJECT.json` under `hazards`.

## 2. Modules

```
StreamLifecycle  (abstract)   the state word: every legal transition
   ^ implemented by
BridgeStream  <-------- ComposeStream   EXTENDS it: the engine thread is its producer,
                                        Composition::stop its stopper

ProducerTerminal (abstract)   ADR-0010: one producer, whose last act is a terminal signal
   ^ implemented by
PipeWireThread          the Linux capture thread and its command channel
BroadcastRing           the two-process ring of iOS and its drain thread

AsyncStream             poll_next and its waker
Pumps                   subscribe, subscribe_with_errors, drain_to
CaptureHandle           AudioCapture: stream slot, callback pump
BridgeRing              the SPSC data plane underneath, with its heap blocks
ComposeEngine           the tick loop that produces what ComposeStream delivers
PipeWireRegistry        discovery and the device watcher (MCPipeWireRegistry: symmetry)
CallbackCapture         the four backends whose producer is a platform callback
Bindings                one capture shared by Python, Node or Go threads

BridgeRing_proofs (BridgeRing)                 Pumps_proofs (Pumps)
Streams_proofs (BridgeStream, ComposeStream,   Consumers_proofs (AsyncStream, CaptureHandle)
                ComposeEngine)                 PipeWire_proofs (PipeWireThread, PipeWireRegistry)
BroadcastRing_proofs (BroadcastRing)           CallbackCapture_proofs (CallbackCapture)
Bindings_proofs (Bindings)
```

What one module takes from another without extending it is a state or a phase:
a stream is its word and the length of its ring wherever the readers around it
are not the question. `BridgeRing` and `BridgeStream` look at the same ring at
two grains: in the first every atomic step of a push and of a pop is an action
and there is one consumer, because consumers take turns under `BridgeStream`'s
mutex; in the second a push and a pop are one step each.

### How each module corresponds to the code

`PROJECT.json` (`map`) gives the lines of every definition. In outline:

- **BridgeRing** (`src/bridge/ring_buffer.rs`). One `pc` for the producer thread,
  one for the consumer. `OfferSamples`/`OfferBuffer` are the entries of
  `push_samples_guarded` and `push`; `Enqueue` and `Reject` the two outcomes of
  the SPSC push; then one step per counter, the free-list refill of `scratch`,
  the recycling of a popped block, and the unwinding of an async waker
  (`OnPushPanic`). A block is its capacity; a buffer is its offer number,
  stamp, duration and length.
- **StreamLifecycle**, **ProducerTerminal** (`src/bridge/state.rs`, ADR-0010). The
  word with the transitions its callers take; and the word together with the
  life of its one producer: it pushes only while it lives, and when it is over
  the word is no longer `Created` or `Running`. A push that is caught unwinding
  tells the word before that (`Poison`, `on_push_panic`), and pushes may follow.
- **BridgeStream** (`src/bridge/stream.rs`, `pop_blocking`, `ConsumerWake`,
  `signal_done`, `signal_error`). The consumer mutex, the generation counter, the
  recheck under the condvar mutex and the hairline between recheck and wait
  (`parking` / `parked`) are steps. A stopper runs `stop()`: exchange, platform
  mutex, `stop_capture` (flag, optional wait for the producer, optional
  failure), final store, notify. The stop that waits is that of the iOS broadcast
  (`stop_thread`); those of WASAPI and of the compositor only set the flag, and
  `WindowsCaptureThread::stop_and_join` has no caller. The proofs cover both.
- **AsyncStream** (`src/bridge/async_stream.rs`, plus the stop and wake of each
  kind of backend). Each of the three looks at the ring in `poll_next` is a gate
  and a pop. `backend` is one of the three ways the crate's platforms behave.
- **Pumps** (`src/api.rs`). The three loops share their read step; a channel is a
  sequence of at most `Room` items; time is counted in forward intervals. A
  shutdown joins the drain thread, or, called by the sink on that thread,
  flags it and returns (`ShutdownSelf`).
- **CaptureHandle** (`src/api.rs`). An operation of `AudioCapture` holds the
  handle from its first step to its last; a pump inside its callback may begin
  one too. `slot`, `pending` and `stream` are the three fields of the struct.
- **ComposeStream** (`src/compose/stream.rs`, `Engine::run`). `view` is where a
  reader is in `ComposedStreamView`; its inner calls are `BridgeStream`'s.
- **ComposeEngine** (`src/compose/engine.rs`). A frame is its position on the
  timeline of its capture, so the lane of a source (what left last, its FIFO,
  its resampler) can be compared with what was received. A rate is only a name:
  what a resampler does to the lane is to keep an incomplete chunk until more
  arrives or it is flushed.
- **PipeWireThread** (`src/audio/linux/thread.rs`, `mod.rs`). The caller's side of
  a handshake (send, wait, give up), the receiver on the loop with one command
  per step, the stream and its listener as two objects that are dropped one
  after the other, `state_changed` as a step the daemon may take whenever the
  listener lives, and the ways the loop ends. `Process` is the guarded push: it delivers, or it is
  caught unwinding and poisons the word while the node goes on.
- **PipeWireRegistry** (same file). The daemon's objects change at any time; each
  change is an event on its way to the mirror. A roundtrip is a request that
  comes back behind the events before it, or that the caller gives up on and
  that comes back all the same. `window` remembers what existed since the
  question was asked, so an answer can be called recent.
- **BroadcastRing** (`src/audio/ios/broadcast.rs`, `RingProducer.swift`). `file` is
  the mapped file; every store of either process to it is a step, and the
  extension may be killed at each of them and start again with another
  geometry. A frame is its generation and number. The drain thread takes its
  baseline of the drop counter in its own first step (`Baseline`), which other
  steps may precede once `create_stream` has returned.
- **CallbackCapture** (`src/audio/android`, `macos`, `ios`, `mobile/android`).
  `backend` is chosen at the start. What the four have in common is one action
  with the lines of one of them in `map`; where they differ (the session
  registry, the listener, the quiesce of AAudio, who frees the context) they
  have actions of their own. The push of all four is the guarded one
  (`DataOut`, with `panicked`). The roll-back of a playback capture whose
  `CaptureBridge.start()` throws never stops the bridge: its record is
  `abandoned`, not closed.
- **Bindings** (`bindings/`). `host` is the lock the language brings: the GIL, the
  event loop, Go's `c.mu`. `guards` are the shared guards of the `RwLock` (in Go,
  the reads counted in the `WaitGroup`), `queued` the writers that wait; the
  lock admits no new reader while one does, as `std` implements it. Below it is
  the consumer mutex of the bridge: a `parked` read holds it, up to its deadline
  (`default_timeout`, 1 s), and even a `tryRead` waits for it (`ConsumerFree`). The
  `Composition` wrappers repeat the pattern over a stream that cannot be started
  twice, which is a subset of the behaviours here.

Names with an underscore (`Promote_Resampled`) are *faults*: the operator of the
name's first half as a plausible bug would leave it. No specification uses
them; each property has one that breaks it, listed under `mutants`.

## 3. Runs

| Run | Question | Bounds and why they are enough |
|---|---|---|
| `ring` | Do counters, stamps and blocks agree at every step of either thread? | 5 offers over a ring of 2 (one wrap and a half: refusals, recycling and recovery all happen), two durations, threshold 2, both entry points, unwinding waker. The seed is 1 so that the free list can run dry. |
| `stream` | Is the lifecycle implemented, is a stopped stream quiet, is a parked reader told, does every call return? | A blocking and a polling reader, 2 stoppers, a ring of 1: two racing stops, a reader that queues behind another. The producer notifies, may die, and the stop waits for it. |
| `async` | Are wake-ups lost, is the task ever left asleep or spinning? | 4 deliveries, ring of 2, budget of 3, all three kinds of backend. The window between two looks at the ring holds at most one race with each of producer and stop. |
| `pumps` | Where is every buffer, error and end? | One pump of each kind, channel and ring of 1 (every send can meet a full channel), 2 buffers, 2 errors, 1 interval. |
| `handle` | Can callbacks, restarts and teardowns be interleaved freely? | 2 application threads, 3 streams: stopped, restarted and restarted again, with a re-entrant teardown in each. |
| `compose_stream` | Does the natural end lose the tail, and does everybody learn of the end? | A blocking and a polling reader, one stopper, ring of 1, 1 delivery, the engine may panic. The engine notifies after each push (`engine.rs:797-804`); the run leaves that out, which is the harder case: the backstop and the deadline must do. |
| `compose_engine` | Does each lane stay on its timeline, within its latency? | 2 sources, the master and a candidate, quantum 2, FIFO 2, chunk 2, 2 reads per pass, positions up to 5: a hole longer than a FIFO fits (1, then 5), and so do a rate change and an end with a chunk in the resampler. |
| `pipewire` | Are clean stops clean, answers true, leftovers none, ends told? | One thread over its whole life, 2 pushes; every command is sent at most once, as the callers do, and each handshake may give up at any point. |
| `registry` | Is discovery true while the daemon changes? | 2 names, 1 process, a dump of 2 objects, 3 objects in all, 2 changes: an object that replaces another of the same name or the same process, during either roundtrip. |
| `broadcast` | Is a shared-memory ring sound over crashes of its writer? | Capacities 1 and 2 (so a restart may change the geometry either way), chunks of 1, 3 frames, 2 lives of the extension, 1 refused frame per life, a drain of 1 frame a pass (`Chunk`): a wrap and a restart within one mapping, and a backlog that takes several passes. |
| `callbacks` | Do contexts outlive callbacks, and is a teardown told from a death? | One stream on each of four platforms, 2 pushes (either may be caught unwinding), one death; a callback of each kind may be in flight at every step of create, stop and drop. |
| `bindings` | Can threads of a host language share a capture? | 3 threads (the circle of waiting below needs a reader, a stopper and a getter), calls without bound, 4 pump generations: a pump, its cancellation, its successor, and one more cancellation. In napi one of the threads is a worker. |

All runs hold. The ones that check only safety use `Spec`; `registry`,
`pipewire` and `callbacks` check deadlock as well. Elsewhere
`CHECK_DEADLOCK FALSE` is set because the system comes to rest: offers,
deliveries and calls run out, streams end, threads exit; and in `bindings`
because Python threads really can wait for each other for ever (section 6). That
nobody else is left waiting in such a rest is what the liveness properties and
`ParkedHasReason`, `NoLostWakeup` say. `TypeOK` of each module was checked with the
same bounds and is proved where the module has a proof module.

What the runs show, in the order of the hazards they answer:

- *Data plane.* `CountersAgree`, `Timeline`: what statistics readers and consumers
  can see against what was offered. `BlocksCirculate`, `AllocatesOnlyWhenLagging`
  are ADR-0001: blocks are not lost, and the real-time thread allocates only
  while the consumer lags.
- *Stop, end and death of a stream.* `LifecycleRefined`, `StoppedIsQuiet`,
  `CallsReturn`, `ParkedHasReason`.
- *Waking.* `NoLostWakeup`, `TaskProgresses`.
- *Delivery.* `BuffersAccounted`, `EndsTidily`, `ErrorsCoalesced`, `PumpsEnd`.
- *Handle.* `OnePumpPerStream`, `LostPumpsAreOver`, `NothingHangs`.
- *Composition.* `EndIsLast`, `CompositionEnds`; `LanesOnTime`,
  `NaturalEndDrains`, `EngineProgresses`.
- *Linux.* `CleanStopIsGraceful`, `AnswersAreTrue`, `NothingLeft`,
  `TerminalSignalled`, `NobodyHangs`; `DiscoveryIsTrue`, `WatchFollows`.
- *iOS broadcast.* `RingIsSound`, `LossCounted`, `TerminalSignalled`,
  `EndsWithProducer`.
- *Callback backends.* `ContextsOutliveCallbacks`, `TeardownIsClean`,
  `StopIsFinal`, `DeathIsSeen`.
- *Bindings.* `HandleOutlivesCalls`, `TeardownsReturn`, `Served`.

### Fairness

A thread inside a call goes on unless it blocks (weak fairness on its steps; the
operating system schedules it). Strong fairness is used for what is not a
thread's own step, or is a lock that keeps coming free: that a read's deadline
passes (`DeadlinePassed`, in `compose_stream`, where the view calls again after
each timeout), that time passes at all (`TimePasses`, in `compose_engine`, where
the engine looks at the clock in one place of its loop; `GoesStale`, in
`broadcast`, for the heartbeat of a dead extension), that `create_stream` of the
broadcast gives up polling, that a callback returns after finitely many calls of
the handle (`CallbackReturns`), and that a thread of `bindings` gets the GIL, Go's
mutex, the `RwLock` or the consumer mutex if they keep coming free. A read that
is parked in `bindings` comes back with a buffer, the end, an error or, at the
latest, `Timeout` (`ring_buffer.rs:1388-1394`); the read of a composition retries a
`Timeout`, but its engine ticks at least every `stall_timeout` while the stream
runs (`engine.rs:389-405`). Nothing forces a device to
deliver, to end or to die, a subscriber to receive, an application to call or to
stop: the liveness properties hold over streams that stay silent for ever,
except where their left-hand side says that the stream ended or a stop was
requested. The readers of the composed stream are the exception: they are loops
(pumps, iterators), and call again.

## 4. Theorems

TLAPS proves, for every value of the constants that satisfies the named
assumptions (sizes are positive, switches are Boolean, "free" is no thread),
what `PROJECT.json` lists under `theorems`. The arguments, by module:

- `BridgeRing_proofs`. Each invariant is a conjunct of an inductive one. *Counts*
  adds the exact relation of `consecutive_drops` to the run of refusals at each
  step (`StreakExact`), because the counter is reset two steps after the push
  was accepted. *Blocks* adds the size of the block in flight (`BlocksSized`),
  and gives the whole of `BlocksCirculate`: a ledger of the sample blocks, and
  that a producer whose consumer keeps up finds one to recycle. *Ordered* adds
  where the buffer in hand and the ones in the ring stand relative to `position`
  (`Behind`), from which the next stamp is taken.
- `Streams_proofs`, first about `BridgeStream`, for any number of readers and
  stoppers. The refinement needs that the producer has not begun while the
  stream is `Created`. `EndIsFinal` rests on "an ended reader has seen a terminal
  state", `StoppedQuiet` on "a stopper past its wait leaves the producer halted"
  (`Brought`), `OnlyHairlineLost` on "a reader about to wait sees a newer
  generation than its snapshot, or the bump is still to come" (`Awake`).
- `Streams_proofs` about `ComposeStream`. The composition calls the same actions
  of `BridgeStream`, but under its own reader, owner and engine, and sets
  `stop_flag` without the producer's step: the invariants of the stream that
  survive this (`Inside`) are proved again over the composed steps, and with them
  that the word still implements `StreamLifecycle`. `LastWord` adds what an
  answer of a reader, a signal of the engine and a return of the owner say of
  the word and the ring, from which the four parts of `EndIsLast` follow.
- `Streams_proofs` about `ComposeEngine`, for any number of sources, any rates,
  quantum, chunk size and bound of a FIFO. A lane (`OnTimeline`) is the frame that
  left last, the FIFO and the resampler, in this order; the lemmas say what a
  flush, a buffer behind a hole, a rate change (`LaneReceives`) and frames that
  leave (`DenseLeaves`) do to such a sequence. Before the first buffer the lane is
  empty; after it the anchor is the clock of the capture and the lane is dense
  behind its newest frame. `NaturalEndDrains` needs that a source that ended has
  an empty resampler, and that `Deepest` exists: the FIFOs are bounded after a
  trim, so there is a least bound of their depths, and one of them has it.
- `Consumers_proofs` about `AsyncStream`. `NoLostWakeup` speaks of a parked task
  and is not inductive. It is strengthened to every step from the registration
  on: the waker is in the slot or the task was scheduled since, and whoever made
  the ring non-empty or ended the stream has its wake still before it.
- `Consumers_proofs` about `CaptureHandle`. A pump is spawned only over the newest
  stream and into an empty slot; and every pump that still runs is in the slot,
  is being joined, or discarded its own handle, and then it is flagged and its
  stream no longer runs once that operation is done (`DetachedEnds`).
- `Pumps_proofs`, for any set of pumps. A ledger: every buffer is in exactly one
  place, and every step moves one from a place to another, or drops one and
  counts it. For the coalescing, `last_recoverable` is the last error that was
  sent, and the time of the last one is not before it.
- `PipeWire_proofs` about `PipeWireThread`. A ledger of what exists (session,
  stream, listener, queued commands, the caller's view of each) at each point of
  the thread and of its caller. An `Error` before the death of the node has a
  caught push behind it (`panicked`). `ImplementsContract` is the refinement of
  `ProducerTerminal`.
- `PipeWire_proofs` about `PipeWireRegistry`, for any names, process ids and numbers
  of objects and changes. The invariant says what the events on their way make
  up for, by their places in the sequence (`Adds`, `Removes`, `Sets`, `Dones`): an
  object is mirrored, or its announcement is still coming; what is mirrored and
  gone has its removal coming (`Mirroring`); the last value on the way to a bound
  proxy is the daemon's (`DefaultHeard`). `DiscoveryIsTrue` follows from where the
  answer to the latest sync stands among them: the sync is asked for once and
  answered once (`Roundtrips`), what was there all along is announced in front of
  that answer and what was never there since is withdrawn in front of it
  (`WindowFits`), and the metadata object of the start is announced before any
  answer at all (`OriginalFound`), so that the second roundtrip has its proxy
  (`DefaultRecent`). `WatchFollows` needs of the default that every other device of
  that name is withdrawn before the watcher hears the name (`HeirFollows`): names
  are unique at one time, not over time. The proof uses `RegistryAssumption`: the
  bounds are natural numbers and `None` is no name.
- `BroadcastRing_proofs`. While nobody re-initialised the file under a mapping,
  the published part of the ring holds exactly the frames between the cursors.
  A copy lies behind them and never spans more than the capacity, so no slot is
  read while it is filled (`SlotsDiffer`); a restart keeps the published word at
  zero while it rewrites the header. `LossKept` counts from the baseline of the
  drain thread. `ImplementsContract` as above.
- `CallbackCapture_proofs`. The state of the native stream decides who may be
  inside a callback, so the proof follows it from step to step of a teardown:
  a context is freed only behind the step that made its callbacks impossible, and
  a native stream is open, closed or abandoned according to how far it got.
- `Bindings_proofs`, for any threads and pumps, each binding with its own locks.
  `HandleOutlivesCalls` rests on `HInv`: who holds the handle's lock, in which
  mode, follows from where each thread stands, and the `WaitGroup` of Go counts
  the reads between its `Add` and its `Done`. `Served` rests on `PInv`, which says
  of every pump whether it is the newest, whether it has stored the flag since,
  and what the two halves of `onData` have done so far.

Two components share a proof module where their names are disjoint; the
operators of `CaptureHandle`, `ComposeEngine` and `PipeWireRegistry` that every
specification has (`HandleSpec`, `EngineSpec`, `RegistrySpec`, ...) carry a prefix
for this.

Checked by TLC only: all liveness, which is out of the prover's reach together
with `ENABLED`. Every other property of the runs is a theorem.

## 5. Not modelled, and abstractions to know of

- Sample contents, mixing gains, layouts and clamping; WAV files; formats and
  their negotiation; the arithmetic of the resampler.
- The drop window (`ring_buffer.rs:479`: two callers of the report share one
  swap) and the timing histograms of the ring; `calculate_capacity`.
- Memory ordering: an atomic operation, or a store to the mapped file, is one
  step of an interleaving, seen by all in program order. The code uses
  release/acquire pairs where the models rely on it.
- `AudioCapture` operations exclude each other, as `&mut self` makes them. An
  application that shares the handle behind a mutex must let the callback only
  *try* that mutex; otherwise `stop()`, which joins the pump, and the callback
  wait for each other. `CaptureHandle` assumes it.
- `ComposeEngine` leaves out buffers without a stamp (their lane has no
  timeline), holes below `GAP_EPSILON`, and a delivered rate for which no
  resampler can be made (the buffer is dropped).
- Panics are followed where the code contains them: the guarded push, the
  callback pump, the engine. A panic of a sink (`Pumps`) ends the drain thread
  with the sink unclosed, and one of a waker under the unguarded push of a
  thread of the crate (`broadcast.rs:773`, the WASAPI loop) unwinds that thread
  without a terminal signal; the models assume that neither panics.
- How long a call takes is not measured. A stop that forgot to signal a parked
  reader would in `Bindings` only wait out the deadline of the read; that a stop
  reaches its readers is `CallsReturn` and `ParkedHasReason` of `BridgeStream`.
- `PipeWireThread` leaves out what no caller can reach: a second `StartCapture`
  on one thread, and the `Disconnected` arm of the receiver, whose sender lives
  as long as the thread's owner.
- `BroadcastRing` has one host stream; two `create_stream` over one ring are not
  modelled. A drain pass is shorter than the heartbeat limit of 2 s. A writer
  that re-initialises the file while the host opens it is followed, but what
  the host reads then is not constrained (`churned`).
- `CallbackCapture` leaves out the consent flow and the token of a projection,
  the permission probes, the silence watchdog and the process taps.
- `Bindings` leaves out the conversion of values, a poisoned lock, Go's callback
  handle and the channels of Go's `Stream`. In Go, `Start` and `Stop` take effect
  at once even if a read is inside C (section 6); the read comes back with an
  error.
- WASAPI, device enumeration on Windows, macOS and Android, the core value types,
  the builder, the command-line tools, the Tauri plugin and the mock backend: no
  state machine beyond those above, or foreign interfaces only.

The definitions cover about a tenth of the lines of the repository. The rest is
for the most part tests inside the source files, conversions at foreign
interfaces, value types and their validation, where there is no order of events
to check.

## 6. Divergences seen while modelling

Where a document or a comment says something else than the code does. The
models follow the code; where a property speaks of such a place it names the
exception.

Bindings:

- Python, `bindings/rsac-python/src/lib.rs:934-964`: the two locks are said to be
  safe because teardown runs without the GIL. Getters (`is_running`, 1072;
  `stream_stats`; `format`; `__repr__`), `try_read`, `read` and `__next__` ask for the
  shared guard *with* the GIL. A writer that waits makes them wait; a reader that
  comes back needs the GIL before it drops its guard: reader, `stop()` and getter
  wait for each other (`GilCircle`, three threads, nine steps).
- Python, 1030: the write guard of `start()` is said to be "only briefly
  contended". Two `start()` calls that both saw the stream stopped, or a `stop()`
  overtaken by `stop()`, `start()` and `read()`, leave a writer behind a reader
  that is parked on a silent stream, and every later `stop()` behind the writer,
  until that read's deadline: at most 1 s for a capture, and a tick of the
  engine for a composition. Nobody stays (`TeardownsReturn`).
- napi, `bindings/rsac-napi/src/lib.rs:1055`: a stale pump "must not kill the
  successor pump's flag". The look at the generation and the store are two
  steps; a pump whose stream ended by itself can be overtaken by `stop()` and
  `start()` in between, and then does (`Clobbered`): the capture runs, the
  callback is registered, nobody delivers. A stale pump may also hand one late
  buffer to the callback, against 303-308.
- Go, `bindings/rsac-go/rsac.go:836`: safe for concurrent use; but `Stop` and `Start`
  call into C under the mutex while a read is inside C without it, and
  `bindings/rsac-ffi/src/lib.rs:16-24` lets only `request_stop` overlap a read. A Go
  callback that calls a method of its capture waits for the mutex that `Stop`
  holds while it joins the callback's thread.
- Tauri plugin, `session.rs:95`: the map's lock is said to be held only for map
  operations; in `if let Some(..) = map.lock()....remove(..)` it lives to the end
  of the block and covers `stop()`.

Platforms:

- macOS, `coreaudio.rs:876`: a death that races an explicit stop is said to
  resolve in favor of the stop; `stop_audio_unit` does not set `tearing_down`, and
  the listener then stores `Error` without looking at the word. `StopIsFinal`
  excepts macOS. A failing `AudioOutputUnitStop` leaves `is_active` set, and a
  `Drop` then leaves the word `Running`.
- Android: before API 30 the quiesce of AAudio gives up after 500 ms and the
  context is freed under a callback that still runs (`hurried`).
  `CaptureBridge.kt` says that `stop` waits for the loop; it gives up too, which is
  harmless because the session is unregistered. `registerBridge` may race
  `onDestroy` and leave a bridge that nobody stops. A `CaptureBridge.start()` that
  throws is rolled back by `unregisterBridge` alone (`jni.rs:1283-1304`): nobody calls
  `bridge.stop()`, and the `AudioRecord` is left to the garbage collector.
- iOS: the microphone has no notice of a death; a dead input stays `Running`.
- Linux, `thread.rs:784`: `Ok(None)` is said to mean that no such application
  exists; two applications of one process share an entry, and the hidden name is
  not found. The metadata proxy is bound once: after the session manager
  restarted, a watcher hears of no default any more.
- iOS broadcast, `broadcast.rs:354`: a writer that re-initialises the file while the
  host opens it is not noticed if both headers are valid. `broadcast.rs:785-786`: the count is said
  to reflect "all loss"; frames that the extension refuses between the return of
  `create_stream` and the baseline of the drain thread (815) never reach it.

Shared code:

- `ring_buffer.rs:1286`: pre-sizing is said to let the producer reuse the
  capacity; `Vec::reserve` counts from the length, which is 0, so the block stays
  short of periods above `RT_BUFFER_SAMPLE_CAPACITY`.
- `interface.rs:273`: data is drained before the terminal signal; true of a
  natural end only, `stop()` makes the stream `Stopped` and the gate refuses the
  tail (`stream.rs:203`).
- `async_stream.rs:164`: "truly empty", no more data coming; a push and the end
  signal fit between the double check and the look at the state.
- `api.rs:2199`: the thread exits when the receiver is dropped; only a send
  notices (1051), over a silent stream the thread stays.
- `stop()` after a natural end takes its early return and leaves the stream
  `Stopping` (`stream.rs:234`), where `compose/stream.rs:606` says that the
  stream lands in `Stopped`; a second concurrent `stop()` returns `Ok` before
  the first has stopped anything.
- A push refused by a full ring puts its block into `scratch` over the one
  already there, which is freed on the real-time thread (`ring_buffer.rs:753`).
- `ring_buffer.rs:1080`: a caught push panic poisons the stream so that readers do
  not spin "on a dead callback"; the callback is not dead, and nothing in the push
  path looks at the word: it goes on pushing into a stream that is in `Error`,
  and a clean stop of a healthy device then meets `Error`
  (`CleanStopIsGraceful`, `TeardownIsClean` name this exception).
- `DrainHandle::shutdown` joins "so the finalize has completed by the time this
  returns" (`api.rs:1219`); called by a sink on the drain thread it returns before
  (1234-1240, which its next sentence says), and as `shutdown` consumes the
  handle, nobody is left to join: the sink is flushed and closed some time later
  (`ShutdownFinalizes`).
- A push that unwinds after its buffer entered the ring is counted as pushed
  and as dropped (`ring_buffer.rs:1075`).
- A failing spawn of the callback pump leaves the stream running and the
  callback consumed; the next `start()` answers `Ok` (`api.rs:1743`).
- `CallbackPump::shutdown` keeps the handle of a pump that tears down from its
  own callback "so a later stop()/Drop from another thread can still join it"
  (`api.rs:1528`); `stop()` and `Drop` then discard it, only `clear_callback`
  puts it back. `LostPumpsAreOver` excepts these pumps.
- The silence for a hole is capped because "anything larger would be trimmed
  straight back out by trim_all" (`engine.rs:562`); `trim_all` does not count what the
  resampler holds, so behind a longer hole frames from before it can stay.
  `LanesContinuous` speaks of the newest frames for that reason.
- Two recoverable errors of different variants that alternate are all
  forwarded: only the last variant is remembered (`api.rs:1158`).

## 7. Plan

Done, in this order: `BridgeRing`; `StreamLifecycle` and `BridgeStream`;
`AsyncStream`; `Pumps`; `CaptureHandle`; `ComposeStream`; `ComposeEngine`;
`PipeWireThread` and `ProducerTerminal`; `PipeWireRegistry`; `BroadcastRing`;
`CallbackCapture`; `Bindings`; and the proofs of all of them.

Left, in order of worth:

1. `DropWindow` (`ring_buffer.rs:58-85`, `479-530`), and `Resampler`
   (`compose/resample.rs`): the frame accounting that makes the trim of `flush`
   exact, over bounded inputs.
2. The projection consent flow of Android (`RsacProjection.kt`).
