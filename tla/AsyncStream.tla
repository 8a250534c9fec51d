----------------------------- MODULE AsyncStream -----------------------------
(***************************************************************************)
(* The async reader: AsyncAudioStream::poll_next                           *)
(* (src/bridge/async_stream.rs) over the one AtomicWaker slot of           *)
(* BridgeShared, with the wake-ups of the producer and of the stop path.   *)
(* One task polls; the executor polls it again only after a wake.          *)
(***************************************************************************)
EXTENDS Integers

CONSTANTS
  Capacity,   \* slots of the ring
  MaxPush,    \* bound of the model: buffers the device delivers
  Budget,     \* NON_WAKING_SELF_WAKE_BUDGET
  Backends,   \* "flag": stop_capture sets a flag the producer thread reads;
              \* "callback": it halts the callbacks itself and wakes the task;
              \* "silent": as "flag", but register_waker returns false
  MayStop     \* TRUE if somebody may stop the stream

ASSUME AsyncAssumption ==
  /\ Capacity \in Nat \ {0} /\ MaxPush \in Nat /\ Budget \in Nat
  /\ MayStop \in BOOLEAN
  /\ Backends \subseteq {"flag", "callback", "silent"}

VARIABLES
  backend,    \* the kind of backend behind the stream
  state,      \* AtomicStreamState
  ring,       \* buffers in the ring
  slot,       \* TRUE if the AtomicWaker holds the task's waker
  scheduled,  \* TRUE if the task has been woken since its last poll
  pc,         \* where the task is
  budget,     \* self_wake_budget
  ppc,        \* where the producer is
  delivered,  \* history: buffers the device has delivered
  stopFlag,   \* stop_capture has asked the producer thread to stop
  spc         \* where stop() is

taskVars == <<pc, budget>>
producerVars == <<ppc, delivered>>
stopVars == <<backend, stopFlag, spc>>
vars == <<state, ring, slot, scheduled, taskVars, producerVars, stopVars>>

Readable == {"Running", "Stopping"}   \* is_readable
Producing == {"Created", "Running"}   \* is_stream_producing
Waking == backend # "silent"          \* register_waker

(* The stream is constructed in Running; the task is polled once unasked.  *)
Init ==
  /\ backend \in Backends
  /\ state = "Running" /\ ring = 0
  /\ slot = FALSE /\ scheduled = TRUE
  /\ pc = "parked" /\ budget = Budget
  /\ ppc = "loop" /\ delivered = 0
  /\ stopFlag = FALSE /\ spc = "idle"

(* AtomicWaker::wake: takes the waker out of the slot and wakes the task.  *)
Wake ==
  /\ scheduled' = (scheduled \/ slot)
  /\ slot' = FALSE

Transition(from, to) == state' = IF state = from THEN to ELSE state

-----------------------------------------------------------------------------
(* poll_next.  Each try_read_chunk is two steps: its gate and its pop.     *)

TaskAt(from, to) == pc = from /\ pc' = to

(* The executor polls a task that was woken; a consumer that was handed a  *)
(* buffer polls again by itself.                                           *)
Poll ==
  /\ \/ pc = "parked" /\ scheduled
     \/ pc = "ready"
  /\ pc' = "gate1"
  /\ scheduled' = FALSE
  /\ UNCHANGED <<state, ring, slot, budget, producerVars, stopVars>>

Gate1 ==
  /\ TaskAt("gate1", IF state \in Readable THEN "pop1" ELSE "refused")
  /\ UNCHANGED <<state, ring, slot, scheduled, budget, producerVars, stopVars>>

(* The final drain and the double check have the same gate.  A refusal in  *)
(* the final drain ends the stream whatever the state is.                  *)
Gate2 ==
  /\ TaskAt("gate2", IF state \in Readable THEN "pop2" ELSE "ended")
  /\ UNCHANGED <<state, ring, slot, scheduled, budget, producerVars, stopVars>>

Gate3 ==
  /\ TaskAt("gate3", IF state \in Readable THEN "pop3" ELSE "refused")
  /\ UNCHANGED <<state, ring, slot, scheduled, budget, producerVars, stopVars>>

(* try_read_chunk failed: end of stream if the producer is done.           *)
Refused ==
  /\ TaskAt("refused", IF state \in Producing THEN "failed" ELSE "ended")
  /\ UNCHANGED <<state, ring, slot, scheduled, budget, producerVars, stopVars>>

PopData ==
  /\ pc \in {"pop1", "pop2", "pop3"} /\ ring > 0
  /\ ring' = ring - 1
  /\ pc' = "ready"
  /\ budget' = Budget
  /\ UNCHANGED <<state, slot, scheduled, producerVars, stopVars>>

PopEmpty ==
  /\ ring = 0
  /\ TaskAt("pop1", "active1") \/ TaskAt("pop2", "ended") \/ TaskAt("pop3", "active3")
  /\ UNCHANGED <<state, ring, slot, scheduled, budget, producerVars, stopVars>>

CheckActive1 ==
  /\ TaskAt("active1", IF state \in Producing THEN "register" ELSE "gate2")
  /\ UNCHANGED <<state, ring, slot, scheduled, budget, producerVars, stopVars>>

(* Fault: the ring is not looked at again after registering.               *)
Register_NoDoubleCheck ==
  /\ TaskAt("register", "active3")
  /\ slot' = Waking
  /\ UNCHANGED <<state, ring, scheduled, budget, producerVars, stopVars>>

Register ==
  /\ TaskAt("register", "gate3")
  /\ slot' = Waking
  /\ UNCHANGED <<state, ring, scheduled, budget, producerVars, stopVars>>

(* Still empty.  The stream ends if the producer is done; the task parks   *)
(* if its waker was taken.                                                 *)
CheckActive3 ==
  /\ ~ (~Waking /\ state \in Producing)
  /\ TaskAt("active3", IF state \in Producing THEN "parked" ELSE "ended")
  /\ UNCHANGED <<state, ring, slot, scheduled, budget, producerVars, stopVars>>

(* Nobody will wake the task: it wakes itself, within its budget.          *)
SelfWake ==
  /\ ~Waking /\ state \in Producing /\ budget > 0
  /\ TaskAt("active3", "parked")
  /\ budget' = budget - 1
  /\ scheduled' = TRUE
  /\ UNCHANGED <<state, ring, slot, producerVars, stopVars>>

(* Fault: a spent budget parks the task.                                   *)
Stalled_Parks ==
  /\ ~Waking /\ state \in Producing /\ budget = 0
  /\ TaskAt("active3", "parked")
  /\ UNCHANGED <<state, ring, slot, scheduled, budget, producerVars, stopVars>>

Stalled ==
  /\ ~Waking /\ state \in Producing /\ budget = 0
  /\ TaskAt("active3", "failed")
  /\ UNCHANGED <<state, ring, slot, scheduled, budget, producerVars, stopVars>>

Task ==
  \/ Poll \/ Gate1 \/ Gate2 \/ Gate3 \/ Refused \/ PopData \/ PopEmpty
  \/ CheckActive1 \/ Register \/ CheckActive3 \/ SelfWake \/ Stalled

-----------------------------------------------------------------------------
(* The producer: push then wake; signal_done and signal_error then wake.   *)

ProducerAt(from, to) == ppc = from /\ ppc' = to

ProducerLoop ==
  /\ ProducerAt("loop", IF stopFlag THEN "done" ELSE "device")
  /\ UNCHANGED <<state, ring, slot, scheduled, delivered, taskVars, stopVars>>

(* A buffer that the full ring refuses wakes nobody.                       *)
Push ==
  /\ delivered < MaxPush
  /\ ProducerAt("device", IF ring < Capacity THEN "wake" ELSE "loop")
  /\ ring' = IF ring < Capacity THEN ring + 1 ELSE ring
  /\ delivered' = delivered + 1
  /\ UNCHANGED <<state, slot, scheduled, taskVars, stopVars>>

NoData ==
  /\ ProducerAt("device", "loop")
  /\ UNCHANGED <<state, ring, slot, scheduled, delivered, taskVars, stopVars>>

SourceEnds ==
  /\ ProducerAt("device", "done") \/ ProducerAt("device", "error")
  /\ UNCHANGED <<state, ring, slot, scheduled, delivered, taskVars, stopVars>>

Signal ==
  /\ \/ ProducerAt("done", "lastWake") /\ Transition("Running", "Stopping")
     \/ ProducerAt("error", "lastWake") /\ state' = "Error"
  /\ UNCHANGED <<ring, slot, scheduled, delivered, taskVars, stopVars>>

(* Fault: the end of the stream wakes nobody.                              *)
ProducerWake_DataOnly ==
  /\ \/ ProducerAt("wake", "loop") /\ Wake
     \/ ProducerAt("lastWake", "halted") /\ UNCHANGED <<slot, scheduled>>
  /\ UNCHANGED <<state, ring, delivered, taskVars, stopVars>>

ProducerWake ==
  /\ ProducerAt("wake", "loop") \/ ProducerAt("lastWake", "halted")
  /\ Wake
  /\ UNCHANGED <<state, ring, delivered, taskVars, stopVars>>

Producer == ProducerLoop \/ Push \/ NoData \/ SourceEnds \/ Signal \/ ProducerWake

-----------------------------------------------------------------------------
(* stop().  It does not wake the task itself: its stop_capture does, or    *)
(* the producer thread it sends home.                                      *)

StopAt(from, to) == spc = from /\ spc' = to

StopRequest ==
  /\ MayStop /\ state = "Running"
  /\ StopAt("idle", "capture")
  /\ Transition("Running", "Stopping")
  /\ UNCHANGED <<backend, ring, slot, scheduled, stopFlag, taskVars, producerVars>>

StopThread ==
  /\ backend # "callback"
  /\ StopAt("capture", "finish")
  /\ stopFlag' = TRUE
  /\ UNCHANGED <<backend, state, ring, slot, scheduled, taskVars, producerVars>>

(* Stopping the audio unit waits for a callback that is running.           *)
StopCallbacks ==
  /\ backend = "callback"
  /\ ppc \in {"loop", "device", "halted"}
  /\ ppc' = "halted"
  /\ StopAt("capture", "signal")
  /\ UNCHANGED <<backend, state, ring, slot, scheduled, stopFlag, delivered, taskVars>>

StopSignal ==
  /\ StopAt("signal", "wake")
  /\ Transition("Running", "Stopping")
  /\ UNCHANGED <<backend, ring, slot, scheduled, stopFlag, taskVars, producerVars>>

StopWake ==
  /\ StopAt("wake", "finish")
  /\ Wake
  /\ UNCHANGED <<backend, state, ring, stopFlag, taskVars, producerVars>>

StopFinish ==
  /\ StopAt("finish", "returned")
  /\ Transition("Stopping", "Stopped")
  /\ UNCHANGED <<backend, ring, slot, scheduled, stopFlag, taskVars, producerVars>>

Stop == StopRequest \/ StopThread \/ StopCallbacks \/ StopSignal \/ StopWake \/ StopFinish

Next == Task \/ Producer \/ Stop

Spec == Init /\ [][Next]_vars

(* The executor runs a woken task, a running thread goes on.  The device   *)
(* need not deliver, end or die; nobody need stop the stream.              *)
ProducerRuns == ProducerLoop \/ NoData \/ Signal \/ ProducerWake
StopRuns == StopThread \/ StopCallbacks \/ StopSignal \/ StopWake \/ StopFinish
FairSpec == Spec /\ WF_vars(Task) /\ WF_vars(ProducerRuns) /\ WF_vars(StopRuns)

-----------------------------------------------------------------------------
(* Type invariant.                                                         *)
TypeOK ==
  /\ backend \in Backends /\ state \in {"Running", "Stopping", "Stopped", "Error"}
  /\ ring \in 0 .. Capacity /\ delivered \in 0 .. MaxPush
  /\ slot \in BOOLEAN /\ scheduled \in BOOLEAN /\ stopFlag \in BOOLEAN
  /\ pc \in {"parked", "gate1", "pop1", "active1", "gate2", "pop2", "register", "gate3",
              "pop3", "active3", "refused", "ready", "ended", "failed"}
  /\ budget \in 0 .. Budget
  /\ ppc \in {"loop", "device", "wake", "done", "error", "lastWake", "halted"}
  /\ spc \in {"idle", "capture", "signal", "wake", "finish", "returned"}

(* No wake-up is lost: a task that parked although there is a buffer, or   *)
(* although the stream stopped producing, left its waker in the slot, and  *)
(* somebody who has seen to that change is still on the way to wake it.    *)
Parked == pc = "parked" /\ ~scheduled
EndWakePending ==
  \/ ppc = "lastWake" \/ spc \in {"capture", "signal", "wake"}
  \/ stopFlag /\ ppc # "halted"
NoLostWakeup ==
  Parked =>
    /\ ring > 0 => slot /\ (ppc = "wake" \/ EndWakePending)
    /\ state \notin Producing => slot /\ EndWakePending

(* A stream that stopped producing ends for the task that reads it.        *)
AsyncEnds == state \notin Producing ~> pc \in {"ended", "failed"}

(* Over a backend that never wakes the task, every poll comes to a result, *)
(* with the self-wakes it takes and no more than its budget.               *)
PollsProgress == ~Waking /\ pc = "gate1" ~> pc \in {"ready", "ended", "failed"}

(* The task gets on: with every poll that cannot wait, and at the end.     *)
TaskProgresses == AsyncEnds /\ PollsProgress

=============================================================================
