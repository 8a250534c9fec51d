---------------------------- MODULE BridgeStream ----------------------------
(***************************************************************************)
(* The control plane of a capture stream: BridgeStream                     *)
(* (src/bridge/stream.rs) over the lifecycle word (src/bridge/state.rs)    *)
(* and the consumer wake-up of src/bridge/ring_buffer.rs.  Any number of   *)
(* threads may read (read_chunk, try_read_chunk) and stop the stream while *)
(* the producer thread pushes, ends by itself or dies.  The ring is its    *)
(* length: what goes through it is the business of BridgeRing.             *)
(*                                                                         *)
(* A step is one access to shared memory, one lock operation or one wait.  *)
(***************************************************************************)
EXTENDS Integers

CONSTANTS
  Readers,    \* threads that read
  Stoppers,   \* threads that call stop(), once each
  Blocking,   \* the readers that call read_chunk
  Polling,    \* the readers that call try_read_chunk
  Capacity,   \* slots of the ring
  MaxPush,    \* bound of the model: buffers the device delivers
  Notifies,   \* TRUE if the producer notifies after a push (WASAPI, iOS broadcast, compositor)
  SyncStop,   \* TRUE if stop_capture waits for the producer (iOS broadcast; not: WASAPI, mock, compositor)
  StopMayFail,\* TRUE if stop_capture may give up with an error
  MayFail     \* TRUE if the producer may die (signal_error)

ASSUME StreamAssumption ==
  /\ "free" \notin Readers \union Stoppers
  /\ Capacity \in Nat \ {0} /\ MaxPush \in Nat
  /\ Blocking \subseteq Readers /\ Polling \subseteq Readers
  /\ Notifies \in BOOLEAN /\ SyncStop \in BOOLEAN
  /\ StopMayFail \in BOOLEAN /\ MayFail \in BOOLEAN

VARIABLES
  state,      \* AtomicStreamState
  ring,       \* buffers in the ring
  generation, \* ConsumerWake::generation
  consumer,   \* the reader that holds the consumer mutex, or "free"
  platform,   \* the stopper that holds the platform mutex, or "free"
  stopFlag,   \* stop_capture has asked the producer to stop
  rpc,        \* where each reader is
  mode,       \* the call each reader makes
  since,      \* pop_blocking's snapshot of the generation
  missed,     \* history: a notify_all fell between the reader's check and its wait
  result,     \* what each reader's last call returned
  spc,        \* where each stopper is
  outcome,    \* what stop() returned to each stopper
  ppc,        \* where the producer is
  delivered   \* history: buffers the device has delivered

shared == <<state, ring, generation, stopFlag>>
readerVars == <<consumer, rpc, mode, since, missed, result>>
stopperVars == <<platform, spc, outcome>>
producerVars == <<ppc, delivered>>
vars == <<shared, readerVars, stopperVars, producerVars>>

Lifecycle == INSTANCE StreamLifecycle WITH state <- state

Free == "free"
Terminal == Lifecycle!Terminal     \* is_terminal
Readable == Lifecycle!Readable     \* is_readable

Init ==
  /\ state = "Created" /\ ring = 0 /\ generation = 0
  /\ consumer = Free /\ platform = Free /\ stopFlag = FALSE
  /\ rpc = [r \in Readers |-> "idle"]
  /\ mode = [r \in Readers |-> "block"]
  /\ since = [r \in Readers |-> 0]
  /\ missed = [r \in Readers |-> FALSE]
  /\ result = [r \in Readers |-> "none"]
  /\ spc = [s \in Stoppers |-> "idle"]
  /\ outcome = [s \in Stoppers |-> "none"]
  /\ ppc = "new" /\ delivered = 0

(* AtomicStreamState::transition: the state moves only if it is `from`.    *)
Transition(from, to) == state' = IF state = from THEN to ELSE state

(* Every backend moves the stream to Running before its producer starts    *)
(* and before anyone holds a handle to it.                                 *)
OpenStream ==
  /\ ppc = "new"
  /\ Transition("Created", "Running")
  /\ ppc' = "loop"
  /\ UNCHANGED <<ring, generation, stopFlag, readerVars, stopperVars, delivered>>

Opened == ppc # "new"

-----------------------------------------------------------------------------
(* Readers.                                                                *)

Goto(r, pc) == rpc' = [rpc EXCEPT ![r] = pc]

Return(r, what) ==
  /\ Goto(r, "idle")
  /\ result' = [result EXCEPT ![r] = what]
  /\ since' = [since EXCEPT ![r] = 0]

(* The gate of read_chunk and try_read_chunk, is_readable().               *)
EnterRead(r, m) ==
  /\ Opened /\ rpc[r] = "idle"
  /\ mode' = [mode EXCEPT ![r] = m]
  /\ Goto(r, IF state \in Readable THEN "lock" ELSE "classify")
  /\ UNCHANGED <<shared, consumer, since, missed, result, stopperVars, producerVars>>

(* A refused read looks at the state a second time to name its error.      *)
Classify(r) ==
  /\ rpc[r] = "classify"
  /\ Return(r, IF state \in Terminal THEN "ended" ELSE "notRunning")
  /\ UNCHANGED <<shared, consumer, mode, missed, stopperVars, producerVars>>

LockConsumer(r) ==
  /\ rpc[r] = "lock" /\ consumer = Free
  /\ consumer' = r
  /\ Goto(r, IF mode[r] = "block" THEN "snapshot" ELSE "pop")
  /\ UNCHANGED <<shared, mode, since, missed, result, stopperVars, producerVars>>

Snapshot(r) ==
  /\ rpc[r] = "snapshot"
  /\ since' = [since EXCEPT ![r] = generation]
  /\ missed' = [missed EXCEPT ![r] = FALSE]
  /\ Goto(r, "pop")
  /\ UNCHANGED <<shared, consumer, mode, result, stopperVars, producerVars>>

PopData(r) ==
  /\ rpc[r] = "pop" /\ ring > 0
  /\ ring' = ring - 1
  /\ consumer' = Free
  /\ Return(r, "data")
  /\ UNCHANGED <<state, generation, stopFlag, mode, missed, stopperVars, producerVars>>

PopEmpty(r) ==
  /\ rpc[r] = "pop" /\ ring = 0
  /\ IF mode[r] = "block"
     THEN Goto(r, "terminal") /\ UNCHANGED <<consumer, since, result>>
     ELSE Return(r, "empty") /\ consumer' = Free
  /\ UNCHANGED <<shared, mode, missed, stopperVars, producerVars>>

(* is_terminal(), after an empty ring.                                     *)
CheckTerminal(r) ==
  /\ rpc[r] = "terminal"
  /\ IF state \in Terminal
     THEN Return(r, "ended") /\ consumer' = Free
     ELSE Goto(r, "deadline") /\ UNCHANGED <<consumer, since, result>>
  /\ UNCHANGED <<shared, mode, missed, stopperVars, producerVars>>

DeadlinePassed(r) ==
  /\ rpc[r] = "deadline"
  /\ consumer' = Free
  /\ Return(r, "timeout")
  /\ UNCHANGED <<shared, mode, missed, stopperVars, producerVars>>

DeadlineAhead(r) ==
  /\ rpc[r] = "deadline"
  /\ Goto(r, "wait")
  /\ UNCHANGED <<shared, consumer, mode, since, missed, result, stopperVars, producerVars>>

(* Fault: the wait does not look at the generation again.                  *)
Wait_NoRecheck(r) ==
  /\ rpc[r] = "wait"
  /\ Goto(r, "parking")
  /\ UNCHANGED <<shared, consumer, mode, since, missed, result, stopperVars, producerVars>>

(* ConsumerWake::wait: a notify since the snapshot means not to park.      *)
Wait(r) ==
  /\ rpc[r] = "wait"
  /\ Goto(r, IF generation # since[r] THEN "snapshot" ELSE "parking")
  /\ UNCHANGED <<shared, consumer, mode, since, missed, result, stopperVars, producerVars>>

(* The hairline: between the generation check and the kernel's wait.       *)
Park(r) ==
  /\ rpc[r] = "parking"
  /\ Goto(r, "parked")
  /\ UNCHANGED <<shared, consumer, mode, since, missed, result, stopperVars, producerVars>>

(* WAKE_BACKSTOP_POLL elapses, or the condition variable wakes spuriously. *)
SliceElapsed(r) ==
  /\ rpc[r] = "parked"
  /\ Goto(r, "snapshot")
  /\ UNCHANGED <<shared, consumer, mode, since, missed, result, stopperVars, producerVars>>

Modes(r) == {m \in {"block", "poll"} : r \in IF m = "block" THEN Blocking ELSE Polling}

Reader(r) ==
  \/ \E m \in Modes(r) : EnterRead(r, m)
  \/ Classify(r) \/ LockConsumer(r) \/ Snapshot(r) \/ PopData(r) \/ PopEmpty(r)
  \/ CheckTerminal(r) \/ DeadlinePassed(r) \/ DeadlineAhead(r) \/ Wait(r)
  \/ Park(r) \/ SliceElapsed(r)

-----------------------------------------------------------------------------
(* ConsumerWake::notify, two steps: the generation, then notify_all, which *)
(* reaches the readers that are parked at that moment.                     *)

Bump == generation' = generation + 1
WakeAll ==
  /\ rpc' = [r \in Readers |-> IF rpc[r] = "parked" THEN "snapshot" ELSE rpc[r]]
  /\ missed' = [r \in Readers |-> missed[r] \/ rpc[r] = "parking"]

-----------------------------------------------------------------------------
(* stop().                                                                 *)

StopperAt(s, from, to) == spc[s] = from /\ spc' = [spc EXCEPT ![s] = to]

StopRead(s) ==
  /\ Opened
  /\ StopperAt(s, "idle", IF state = "Running" THEN "request" ELSE "returned")
  /\ outcome' = [outcome EXCEPT ![s] =
                   CASE state = "Running" -> "none"
                     [] state \in {"Stopping", "Stopped"} -> "ok"
                     [] OTHER -> "err"]
  /\ UNCHANGED <<shared, platform, readerVars, producerVars>>

(* Running -> Stopping.  The result is ignored: whoever changed the state  *)
(* since it was read, the stop goes on.                                    *)
StopRequest(s) ==
  /\ StopperAt(s, "request", "lock")
  /\ Transition("Running", "Stopping")
  /\ UNCHANGED <<ring, generation, stopFlag, platform, outcome, readerVars, producerVars>>

LockPlatform(s) ==
  /\ platform = Free
  /\ StopperAt(s, "lock", "capture")
  /\ platform' = s
  /\ UNCHANGED <<shared, outcome, readerVars, producerVars>>

(* Fault: stop_capture does not reach the producer.                        *)
StopCapture_NoFlag(s) ==
  /\ StopperAt(s, "capture", "await")
  /\ UNCHANGED <<shared, platform, outcome, readerVars, producerVars>>

StopCapture(s) ==
  /\ StopperAt(s, "capture", "await")
  /\ stopFlag' = TRUE
  /\ UNCHANGED <<state, ring, generation, platform, outcome, readerVars, producerVars>>

(* Fault: a synchronous stop_capture does not wait for the producer.       *)
StopAwait_NoWait(s) ==
  /\ StopperAt(s, "await", "finish")
  /\ outcome' = [outcome EXCEPT ![s] = "ok"]
  /\ UNCHANGED <<shared, platform, readerVars, producerVars>>

StopAwait(s) ==
  /\ StopperAt(s, "await", "finish")
  /\ \/ /\ SyncStop => ppc = "halted"
        /\ outcome' = [outcome EXCEPT ![s] = "ok"]
     \/ /\ StopMayFail
        /\ outcome' = [outcome EXCEPT ![s] = "err"]
  /\ UNCHANGED <<shared, platform, readerVars, producerVars>>

(* Fault: the end of the stop is stored, not exchanged.                    *)
StopFinish_Stored(s) ==
  /\ StopperAt(s, "finish", "bump")
  /\ state' = "Stopped"
  /\ UNCHANGED <<ring, generation, stopFlag, platform, outcome, readerVars, producerVars>>

(* Stopping -> Stopped whatever the platform said.                         *)
StopFinish(s) ==
  /\ StopperAt(s, "finish", "bump")
  /\ Transition("Stopping", "Stopped")
  /\ UNCHANGED <<ring, generation, stopFlag, platform, outcome, readerVars, producerVars>>

StopBump(s) ==
  /\ StopperAt(s, "bump", "wake")
  /\ Bump
  /\ UNCHANGED <<state, ring, stopFlag, platform, outcome, readerVars, producerVars>>

(* notify_all; the platform mutex is released as stop() returns.           *)
StopWake(s) ==
  /\ StopperAt(s, "wake", "returned")
  /\ WakeAll
  /\ platform' = Free
  /\ UNCHANGED <<shared, outcome, consumer, mode, since, result, producerVars>>

Stopper(s) ==
  \/ StopRead(s) \/ StopRequest(s) \/ LockPlatform(s) \/ StopCapture(s)
  \/ StopAwait(s) \/ StopFinish(s) \/ StopBump(s) \/ StopWake(s)

-----------------------------------------------------------------------------
(* The producer thread: it looks for the stop flag, waits for the device   *)
(* and pushes what it delivered.                                           *)

ProducerAt(from, to) == ppc = from /\ ppc' = to

ProducerLoop ==
  /\ ProducerAt("loop", IF stopFlag THEN "done" ELSE "device")
  /\ UNCHANGED <<shared, delivered, readerVars, stopperVars>>

(* A full ring drops the buffer.                                           *)
Push ==
  /\ ProducerAt("device", IF Notifies THEN "bump" ELSE "loop")
  /\ delivered < MaxPush
  /\ delivered' = delivered + 1
  /\ ring' = IF ring < Capacity THEN ring + 1 ELSE ring
  /\ UNCHANGED <<state, generation, stopFlag, readerVars, stopperVars>>

NoData ==
  /\ ProducerAt("device", "loop")
  /\ UNCHANGED <<shared, delivered, readerVars, stopperVars>>

(* The source ends by itself: every source of a compositor is over.        *)
SourceEnds ==
  /\ ProducerAt("device", "done")
  /\ UNCHANGED <<shared, delivered, readerVars, stopperVars>>

SourceDies ==
  /\ MayFail
  /\ ProducerAt("device", "error")
  /\ UNCHANGED <<shared, delivered, readerVars, stopperVars>>

SignalDone ==
  /\ ProducerAt("done", "lastBump")
  /\ Transition("Running", "Stopping")
  /\ UNCHANGED <<ring, generation, stopFlag, delivered, readerVars, stopperVars>>

SignalError ==
  /\ ProducerAt("error", "lastBump")
  /\ state' = "Error"
  /\ UNCHANGED <<ring, generation, stopFlag, delivered, readerVars, stopperVars>>

ProducerBump ==
  /\ ProducerAt("bump", "wake") \/ ProducerAt("lastBump", "lastWake")
  /\ Bump
  /\ UNCHANGED <<state, ring, stopFlag, delivered, readerVars, stopperVars>>

ProducerWake ==
  /\ ProducerAt("wake", "loop") \/ ProducerAt("lastWake", "halted")
  /\ WakeAll
  /\ UNCHANGED <<shared, delivered, consumer, mode, since, result, stopperVars>>

Producer ==
  \/ ProducerLoop \/ Push \/ NoData \/ SourceEnds \/ SourceDies
  \/ SignalDone \/ SignalError \/ ProducerBump \/ ProducerWake

Next ==
  \/ OpenStream
  \/ \E r \in Readers : Reader(r)
  \/ \E s \in Stoppers : Stopper(s)
  \/ Producer

Spec == Init /\ [][Next]_vars

(* The steps of a thread inside a call are taken unless they block.        *)
(* Nothing forces a thread to call, a deadline to pass, or a device to     *)
(* deliver, end or die.                                                    *)
ReaderRuns(r) ==
  \/ Classify(r) \/ LockConsumer(r) \/ Snapshot(r) \/ PopData(r) \/ PopEmpty(r)
  \/ CheckTerminal(r) \/ DeadlineAhead(r) \/ Wait(r) \/ Park(r) \/ SliceElapsed(r)
StopperRuns(s) ==
  \/ StopRequest(s) \/ LockPlatform(s) \/ StopCapture(s) \/ StopAwait(s)
  \/ StopFinish(s) \/ StopBump(s) \/ StopWake(s)
ProducerRuns ==
  \/ ProducerLoop \/ NoData \/ SignalDone \/ SignalError \/ ProducerBump \/ ProducerWake

FairSpec ==
  /\ Spec
  /\ \A r \in Readers : WF_vars(ReaderRuns(r))
  /\ \A s \in Stoppers : WF_vars(StopperRuns(s))
  /\ WF_vars(ProducerRuns)
-----------------------------------------------------------------------------
(* Type invariant.                                                         *)
TypeOK ==
  /\ state \in Lifecycle!States
  /\ ring \in 0 .. Capacity /\ generation \in Nat /\ delivered \in 0 .. MaxPush
  /\ consumer \in Readers \union {Free} /\ platform \in Stoppers \union {Free}
  /\ stopFlag \in BOOLEAN
  /\ rpc \in [Readers -> {"idle", "classify", "lock", "snapshot", "pop", "terminal",
                           "deadline", "wait", "parking", "parked"}]
  /\ mode \in [Readers -> {"block", "poll"}]
  /\ since \in [Readers -> Nat] /\ missed \in [Readers -> BOOLEAN]
  /\ result \in [Readers -> {"none", "data", "empty", "ended", "notRunning", "timeout"}]
  /\ spc \in [Stoppers -> {"idle", "request", "lock", "capture", "await", "finish",
                            "bump", "wake", "returned"}]
  /\ outcome \in [Stoppers -> {"none", "ok", "err"}]
  /\ ppc \in {"new", "loop", "device", "done", "error", "bump", "wake", "lastBump",
               "lastWake", "halted"}

(* The threads together never take the lifecycle word anywhere but along   *)
(* the machine that state.rs documents, although no single store checks    *)
(* it: in particular a terminal state is never left for a readable one.    *)
LifecycleRefined == Lifecycle!Spec

(* A reader that was told the stream ended is never given anything else.   *)
EndedIsFinal ==
  [][\A r \in Readers : result[r] = "ended" => result'[r] = "ended"]_vars

(* Stopped is reported only when the OS capture is over: a stop that       *)
(* waits for the producer leaves no producer step to come, unless the      *)
(* platform gave up on it.                                                 *)
StoppedIsQuiet ==
  state = "Stopped" /\ SyncStop /\ (\A s \in Stoppers : outcome[s] # "err") => ppc = "halted"

(* The one wake-up a parked reader can lose is the documented one.  A      *)
(* reader that is parked, or past its last check, while the stream is      *)
(* terminal or a notifying producer has left a buffer in the ring, will be *)
(* woken by a notify still under way, unless a notify_all fell exactly     *)
(* between its check of the generation and its wait.                       *)
EndNotifyPending ==
  (\E s \in Stoppers : spc[s] \in {"bump", "wake"}) \/ ppc \in {"lastBump", "lastWake"}
DataNotifyPending == ppc \in {"bump", "wake"}
ParkedHasReason ==
  \A r \in Readers : rpc[r] \in {"parking", "parked"} =>
    /\ state \in Terminal => missed[r] \/ EndNotifyPending
    /\ ring > 0 /\ Notifies => missed[r] \/ DataNotifyPending

(* Every call of stop() returns.                                           *)
StopReturns ==
  \A s \in Stoppers : spc[s] = "request" ~> spc[s] = "returned"

(* A terminal state frees every reader, also one blocked in read_chunk     *)
(* or queueing for the consumer behind one that is.                        *)
TerminalFreesReaders ==
  \A r \in Readers : state \in Terminal ~> rpc[r] = "idle"

(* Neither a stop() nor, once the stream is over, a read hangs.            *)
CallsReturn == StopReturns /\ TerminalFreesReaders

=============================================================================
