---------------------------- MODULE CaptureHandle ----------------------------
(***************************************************************************)
(* AudioCapture (src/api.rs): its stream, its callback and the thread that *)
(* pumps buffers from the one to the other.  The operations need exclusive *)
(* access to the handle (&mut self), which an application that shares it   *)
(* between threads gets from a mutex; a callback that calls the handle     *)
(* back must only try that mutex, or a stop() that joins the pump and the  *)
(* callback wait for each other.                                           *)
(*                                                                         *)
(* A stream is what its readers can tell: Running, Stopping (ended by      *)
(* itself, still readable) or Ended.  BridgeStream has the rest.           *)
(***************************************************************************)
EXTENDS Integers

CONSTANTS
  Apps,       \* threads of the application
  MaxStreams  \* bound of the model: streams that are created

ASSUME HandleAssumption ==
  MaxStreams \in Nat /\ Apps \intersect (0 .. MaxStreams) = {}

Streams == 1 .. MaxStreams
Pumps == 1 .. MaxStreams   \* numbered as they are spawned
Threads == Apps \union Pumps
Free == 0

VARIABLES
  holder,        \* the thread inside an operation of the handle, or Free
  step,          \* where it is: "none", "spawn", "join" or "finish"
  job,           \* the teardown it runs: "stop", "clear" or "drop"
  target,        \* the pump it joins
  gone,          \* the handle has been dropped
  stream,        \* AudioCapture::stream, 0 if none
  phase,         \* the state of each stream
  created,       \* history: streams created
  pending,       \* TRUE if AudioCapture::callback holds a callback
  callbackPump,  \* AudioCapture::callback_pump, 0 if none
  spawned,       \* history: pumps spawned
  source,        \* the stream each pump reads
  pumpPc,        \* where each pump is
  flag,          \* CallbackPump::stop_flag of each pump
  detached       \* history: pumps whose own callback discarded their JoinHandle

opVars == <<holder, step, job, target, gone>>
streamVars == <<stream, phase, created>>
pumpVars == <<spawned, source, pumpPc, flag>>
handleVars == <<opVars, streamVars, pending, callbackPump, pumpVars, detached>>

HandleInit ==
  /\ holder = Free /\ step = "none" /\ job = "stop" /\ target = 0 /\ gone = FALSE
  /\ stream = 0 /\ phase = [g \in Streams |-> "none"] /\ created = 0
  /\ pending = FALSE /\ callbackPump = 0
  /\ spawned = 0 /\ source = [p \in Pumps |-> 0]
  /\ pumpPc = [p \in Pumps |-> "none"] /\ flag = [p \in Pumps |-> FALSE]
  /\ detached = {}

(* Who may begin an operation: a thread of the application, or a pump from *)
(* within its callback.                                                    *)
MayCall(t) ==
  /\ holder = Free /\ ~gone
  /\ t \in Apps \/ (t \in Pumps /\ pumpPc[t] = "call")

Enter(t, where) == holder' = t /\ step' = where
Leave == holder' = Free /\ step' = "none" /\ target' = 0 /\ UNCHANGED <<job, gone>>

IsRunning == stream # 0 /\ phase[stream] = "Running"
EndStream(g) == phase' = [phase EXCEPT ![g] = IF @ = "Running" THEN "Ended" ELSE @]

-----------------------------------------------------------------------------
(* start().                                                                *)

Spawn ==
  /\ callbackPump' = spawned + 1
  /\ spawned' = spawned + 1
  /\ source' = [source EXCEPT ![spawned + 1] = stream]
  /\ pumpPc' = [pumpPc EXCEPT ![spawned + 1] = "top"]

(* Fault: a stream that is there but not running falls through to the pump.*)
StartAgain_FallsThrough(t) ==
  /\ MayCall(t) /\ stream # 0
  /\ ~IsRunning /\ pending
  /\ pending' = FALSE
  /\ Spawn
  /\ UNCHANGED <<opVars, streamVars, flag, detached>>

(* A stream that is there is not started again: Ok if it runs, else an     *)
(* error.                                                                  *)
StartAgain(t) == MayCall(t) /\ stream # 0 /\ UNCHANGED handleVars

(* A failing create_stream leaves the handle as it was.                    *)
StartCreate(t) ==
  /\ MayCall(t) /\ stream = 0 /\ created < MaxStreams
  /\ created' = created + 1
  /\ stream' = created + 1
  /\ phase' = [phase EXCEPT ![created + 1] = "Running"]
  /\ Enter(t, "spawn")
  /\ UNCHANGED <<job, target, gone, pending, callbackPump, pumpVars, detached>>

(* The callback moves into a pump.  If the thread cannot be spawned the    *)
(* callback is lost and the stream stays.                                  *)
StartSpawn ==
  /\ step = "spawn"
  /\ Leave
  /\ IF pending /\ callbackPump = 0
     THEN pending' = FALSE /\ (Spawn \/ UNCHANGED <<callbackPump, spawned, source, pumpPc>>)
     ELSE UNCHANGED <<pending, callbackPump, spawned, source, pumpPc>>
  /\ UNCHANGED <<streamVars, flag, detached>>

-----------------------------------------------------------------------------
(* stop(), clear_callback() and Drop: CallbackPump::shutdown, then the     *)
(* rest of the operation.                                                  *)

Shut(t, j) ==
  /\ MayCall(t)
  /\ job' = j /\ gone' = (j = "drop")
  /\ flag' = IF callbackPump = 0 THEN flag ELSE [flag EXCEPT ![callbackPump] = TRUE]
  /\ UNCHANGED <<streamVars, pending, spawned, source, pumpPc>>

(* Fault: a pump joins itself.                                             *)
TakePump_SelfJoin(t, j) ==
  /\ Shut(t, j)
  /\ Enter(t, IF callbackPump = 0 THEN "finish" ELSE "join")
  /\ target' = callbackPump /\ callbackPump' = 0
  /\ UNCHANGED detached

(* Fault: clear_callback does not put a pump back that it could not join.  *)
TakePump_ClearForgets(t, j) ==
  /\ Shut(t, j)
  /\ callbackPump' = 0
  /\ IF callbackPump \in {0, t}
     THEN Enter(t, "finish") /\ target' = 0
     ELSE Enter(t, "join") /\ target' = callbackPump
  /\ detached' = IF callbackPump = t /\ j # "clear" THEN detached \union {t} ELSE detached

(* The pump is taken out of its slot, flagged and joined, unless it is the *)
(* caller: then clear_callback puts it back, and stop and Drop discard its *)
(* handle.                                                                 *)
TakePump(t, j) ==
  /\ Shut(t, j)
  /\ callbackPump' = IF callbackPump = t /\ j = "clear" THEN callbackPump ELSE 0
  /\ IF callbackPump \in {0, t}
     THEN Enter(t, "finish") /\ target' = 0
     ELSE Enter(t, "join") /\ target' = callbackPump
  /\ detached' = IF callbackPump = t /\ j # "clear" THEN detached \union {t} ELSE detached

Join ==
  /\ step = "join" /\ pumpPc[target] = "exited"
  /\ Enter(holder, "finish")
  /\ UNCHANGED <<job, target, gone, streamVars, pending, callbackPump, pumpVars, detached>>

(* stop() ends the stream, whatever it answers, and releases it; Drop too. *)
FinishStop ==
  /\ step = "finish" /\ job # "clear"
  /\ Leave
  /\ IF stream = 0 THEN UNCHANGED phase ELSE EndStream(stream)
  /\ stream' = 0
  /\ UNCHANGED <<created, pending, callbackPump, pumpVars, detached>>

FinishClear ==
  /\ step = "finish" /\ job = "clear"
  /\ Leave
  /\ pending' = FALSE
  /\ UNCHANGED <<streamVars, callbackPump, pumpVars, detached>>

SetCallback(t) ==
  /\ MayCall(t) /\ ~IsRunning
  /\ pending' = TRUE
  /\ UNCHANGED <<opVars, streamVars, callbackPump, pumpVars, detached>>

(* request_stop() ends the stream and leaves everything else.              *)
RequestStop(t) ==
  /\ MayCall(t) /\ stream # 0
  /\ EndStream(stream)
  /\ UNCHANGED <<opVars, stream, created, pending, callbackPump, pumpVars, detached>>

-----------------------------------------------------------------------------
(* The pump thread.                                                        *)

Goto(p, place) ==
  /\ pumpPc' = [pumpPc EXCEPT ![p] = place]
  /\ UNCHANGED <<opVars, streamVars, pending, callbackPump, spawned, source, flag, detached>>

PumpTop(p) == pumpPc[p] = "top" /\ Goto(p, IF flag[p] THEN "exited" ELSE "read")

PumpEnded(p) == pumpPc[p] = "read" /\ phase[source[p]] = "Ended" /\ Goto(p, "exited")

(* A buffer goes to the callback; an empty ring or a recoverable error     *)
(* means a nap.                                                            *)
PumpReads(p) ==
  /\ pumpPc[p] = "read" /\ phase[source[p]] # "Ended"
  /\ \E place \in {"call", "top"} : Goto(p, place)

CallbackReturns(p) == pumpPc[p] = "call" /\ holder # p /\ Goto(p, "top")

(* A panic ends the thread.                                                *)
CallbackPanics(p) == pumpPc[p] = "call" /\ holder # p /\ Goto(p, "exited")

Pump(p) == PumpTop(p) \/ PumpEnded(p) \/ PumpReads(p) \/ CallbackReturns(p)

(* The stream ends by itself, gracefully or not.                           *)
StreamEnds(g) ==
  /\ phase[g] = "Running"
  /\ \E end \in {"Stopping", "Ended"} : phase' = [phase EXCEPT ![g] = end]
  /\ UNCHANGED <<opVars, stream, created, pending, callbackPump, pumpVars, detached>>

-----------------------------------------------------------------------------
Operation == StartSpawn \/ Join \/ FinishStop \/ FinishClear

HandleNext ==
  \/ \E t \in Threads :
       \/ StartAgain(t) \/ StartCreate(t) \/ SetCallback(t) \/ RequestStop(t)
       \/ \E j \in {"stop", "clear", "drop"} : TakePump(t, j)
  \/ Operation
  \/ \E p \in Pumps : Pump(p) \/ CallbackPanics(p)
  \/ \E g \in Streams : StreamEnds(g)

HandleSpec == HandleInit /\ [][HandleNext]_handleVars

(* Operations and pump threads run, and a callback returns after finitely  *)
(* many calls of the handle; nobody need call it.                          *)
HandleFair ==
  /\ HandleSpec /\ WF_handleVars(Operation)
  /\ \A p \in Pumps : WF_handleVars(Pump(p)) /\ SF_handleVars(CallbackReturns(p))
-----------------------------------------------------------------------------
(* Type invariant.                                                         *)
HandleTypeOK ==
  /\ holder \in Threads \union {Free} /\ gone \in BOOLEAN
  /\ step \in {"none", "spawn", "join", "finish"} /\ job \in {"stop", "clear", "drop"}
  /\ target \in 0 .. spawned /\ callbackPump \in 0 .. spawned
  /\ created \in 0 .. MaxStreams /\ stream \in {0, created}
  /\ phase \in [Streams -> {"none", "Running", "Stopping", "Ended"}]
  /\ pending \in BOOLEAN /\ spawned \in 0 .. created
  /\ source \in [Pumps -> 0 .. created]
  /\ pumpPc \in [Pumps -> {"none", "top", "read", "call", "exited"}]
  /\ flag \in [Pumps -> BOOLEAN] /\ detached \subseteq Pumps

Alive(p) == pumpPc[p] \in {"top", "read", "call"}

(* Two pumps never compete for one ring, not even one that is on its way   *)
(* out, and the pump of the handle reads the stream of the handle.         *)
OnePumpPerStream ==
  /\ \A p, q \in Pumps : Alive(p) /\ Alive(q) /\ p # q => source[p] # source[q]
  /\ holder = Free /\ callbackPump # 0 => source[callbackPump] = stream

(* When stop(), clear_callback() or Drop has returned, the callback is not *)
(* running and will not run again: the handle has lost sight of a pump     *)
(* only after its thread ended.  The exception is a pump that stopped or   *)
(* dropped the handle from within its own callback; it has been told to    *)
(* end and its stream no longer runs.                                      *)
LostPumpsAreOver ==
  holder = Free =>
    \A p \in Pumps :
      Alive(p) =>
        p = callbackPump \/ (p \in detached /\ flag[p] /\ phase[source[p]] # "Running")

(* Every operation returns, also one that a callback makes on the handle   *)
(* whose pump it runs on.                                                  *)
OperationsReturn == holder # Free ~> holder = Free

(* A pump ends with its stream, and once it was told to.                   *)
PumpsEnd ==
  \A p \in Pumps :
    Alive(p) /\ (flag[p] \/ phase[source[p]] = "Ended") ~> pumpPc[p] = "exited"

(* No operation and no pump thread hangs.                                  *)
NothingHangs == OperationsReturn /\ PumpsEnd
=============================================================================
