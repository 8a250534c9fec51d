--------------------------- MODULE Consumers_proofs ---------------------------
(***************************************************************************)
(* Theorems about two consumers of a stream that are woken or run for the  *)
(* application: the task of AsyncStream, for every ring, budget and amount *)
(* of data; and the callback pumps of CaptureHandle, for any number of     *)
(* threads and streams.                                                    *)
(*                                                                         *)
(* Why no wake-up is lost: from the moment the task has registered, either *)
(* its waker is in the slot or it has been woken since; and whoever makes  *)
(* the ring non-empty or ends the stream is, until it wakes, at a place    *)
(* from which it must still reach the wake.  Looking at the ring again     *)
(* after registering is what joins the two.                                *)
(*                                                                         *)
(* Why a stream has one pump: a pump is spawned only for the newest        *)
(* stream, before which no pump can have read it, and only into an empty   *)
(* callback_pump.  From then on a pump that runs is in there, or is being  *)
(* joined, or discarded its own handle; and callback_pump is empty when    *)
(* the handle has no stream, so the pump in it reads the handle's stream.  *)
(***************************************************************************)
EXTENDS AsyncStream, CaptureHandle, TLAPS

Watching ==
  /\ pc = "parked" => slot \/ scheduled
  /\ Waking /\ pc \in {"gate3", "pop3", "active3"} => slot \/ scheduled

(* Somebody whose wake has to do with the end of the stream is under way.  *)
(* EndWakePending alone is not inductive: a stop() that is about to ask a  *)
(* producer thread wakes nobody if that thread is gone.                    *)
EndWake ==
  \/ ppc = "lastWake" \/ spc \in {"signal", "wake"}
  \/ spc = "capture" /\ (backend = "callback" \/ ppc # "halted")
  \/ stopFlag /\ ppc # "halted"

DataIsAnnounced ==
  pc = "parked" \/ (Waking /\ pc = "active3") =>
    scheduled \/ ring = 0 \/ ppc = "wake" \/ EndWake

EndIsAnnounced ==
  pc = "parked" => scheduled \/ state \in Producing \/ EndWake

(* A stream that runs has a producer that has said no last word, and no    *)
(* stop() has begun.                                                       *)
RunningHasProducer ==
  state = "Running" => ppc \notin {"lastWake", "halted"} /\ spc = "idle"

IInv ==
  /\ TypeOK /\ Watching /\ DataIsAnnounced /\ EndIsAnnounced /\ RunningHasProducer

-----------------------------------------------------------------------------
LEMMA InitOK == Init => IInv
<1> USE AsyncAssumption
<1>1. Init => slot \in BOOLEAN /\ scheduled \in BOOLEAN /\ stopFlag \in BOOLEAN
  BY ZenonT(20) DEF Init
<1>2. Init => ring \in 0 .. Capacity /\ delivered \in 0 .. MaxPush /\ budget \in 0 .. Budget
  BY DEF AsyncAssumption, Init
<1>3. Init => TypeOK
  BY <1>1, <1>2 DEF Init, TypeOK
<1>4. Init => Watching /\ DataIsAnnounced /\ EndIsAnnounced /\ RunningHasProducer
  BY DEF Init, Watching, DataIsAnnounced, EndIsAnnounced, RunningHasProducer, Producing
<1> QED
  BY <1>3, <1>4 DEF IInv

-----------------------------------------------------------------------------
(* Every action keeps the types.                                           *)
LEMMA TypeStep == TypeOK /\ [Next]_vars => TypeOK'
<1> SUFFICES ASSUME TypeOK, [Next]_vars PROVE TypeOK'
  OBVIOUS
<1> USE AsyncAssumption DEF TypeOK, TaskAt, ProducerAt, StopAt, Transition, Wake, taskVars, producerVars, stopVars, Readable, Producing, Waking
<1>1. CASE Poll
  BY <1>1 DEF Poll
<1>2. CASE Gate1
  BY <1>2 DEF Gate1
<1>3. CASE Gate2
  BY <1>3 DEF Gate2
<1>4. CASE Gate3
  BY <1>4 DEF Gate3
<1>5. CASE Refused
  BY <1>5 DEF Refused
<1>6. CASE PopData
  BY <1>6 DEF PopData
<1>7. CASE PopEmpty
  BY <1>7 DEF PopEmpty
<1>8. CASE CheckActive1
  BY <1>8 DEF CheckActive1
<1>9. CASE Register
  BY <1>9 DEF Register
<1>10. CASE CheckActive3
  BY <1>10 DEF CheckActive3
<1>11. CASE SelfWake
  BY <1>11 DEF SelfWake
<1>12. CASE Stalled
  BY <1>12 DEF Stalled
<1>13. CASE ProducerLoop
  BY <1>13 DEF ProducerLoop
<1>14. CASE Push
  BY <1>14 DEF Push
<1>15. CASE NoData
  BY <1>15 DEF NoData
<1>16. CASE SourceEnds
  BY <1>16 DEF SourceEnds
<1>17. CASE Signal
  BY <1>17 DEF Signal
<1>18. CASE ProducerWake
  <2>1. scheduled' \in BOOLEAN /\ slot' \in BOOLEAN
    BY <1>18 DEF ProducerWake
  <2>2. ppc' \in {"loop", "halted"}
    BY <1>18 DEF ProducerWake
  <2>3. UNCHANGED <<state, ring, delivered, taskVars, stopVars>>
    BY <1>18 DEF ProducerWake
  <2> QED
    BY <2>1, <2>2, <2>3
<1>19. CASE StopRequest
  BY <1>19 DEF StopRequest
<1>20. CASE StopThread
  BY <1>20 DEF StopThread
<1>21. CASE StopCallbacks
  BY <1>21 DEF StopCallbacks
<1>22. CASE StopSignal
  BY <1>22 DEF StopSignal
<1>23. CASE StopWake
  BY <1>23 DEF StopWake
<1>24. CASE StopFinish
  BY <1>24 DEF StopFinish
<1>25. CASE UNCHANGED vars
  BY <1>25 DEF vars
<1> QED
  BY <1>1, <1>2, <1>3, <1>4, <1>5, <1>6, <1>7, <1>8, <1>9, <1>10, <1>11, <1>12, <1>13, <1>14, <1>15, <1>16, <1>17, <1>18, <1>19, <1>20, <1>21, <1>22, <1>23, <1>24, <1>25 DEF Next, Task, Producer, Stop

(* Every action keeps the rest.                                            *)
LEMMA WatchStep == IInv /\ [Next]_vars => (Watching /\ DataIsAnnounced /\ EndIsAnnounced /\ RunningHasProducer)'
<1> SUFFICES ASSUME IInv, [Next]_vars PROVE (Watching /\ DataIsAnnounced /\ EndIsAnnounced /\ RunningHasProducer)'
  OBVIOUS
<1> USE AsyncAssumption DEF IInv, TypeOK, Watching, DataIsAnnounced, EndIsAnnounced,
    RunningHasProducer, EndWake, TaskAt, ProducerAt, StopAt, Transition, Wake, taskVars, producerVars, stopVars, Readable, Producing, Waking
<1>1. CASE Poll
  BY <1>1 DEF Poll
<1>2. CASE Gate1
  BY <1>2 DEF Gate1
<1>3. CASE Gate2
  BY <1>3 DEF Gate2
<1>4. CASE Gate3
  BY <1>4 DEF Gate3
<1>5. CASE Refused
  BY <1>5 DEF Refused
<1>6. CASE PopData
  BY <1>6 DEF PopData
<1>7. CASE PopEmpty
  BY <1>7 DEF PopEmpty
<1>8. CASE CheckActive1
  BY <1>8 DEF CheckActive1
<1>9. CASE Register
  BY <1>9 DEF Register
<1>10. CASE CheckActive3
  BY <1>10 DEF CheckActive3
<1>11. CASE SelfWake
  BY <1>11 DEF SelfWake
<1>12. CASE Stalled
  BY <1>12 DEF Stalled
<1>13. CASE ProducerLoop
  BY <1>13 DEF ProducerLoop
<1>14. CASE Push
  BY <1>14 DEF Push
<1>15. CASE NoData
  BY <1>15 DEF NoData
<1>16. CASE SourceEnds
  BY <1>16 DEF SourceEnds
<1>17. CASE Signal
  BY <1>17 DEF Signal
<1>18. CASE ProducerWake
  BY <1>18 DEF ProducerWake
<1>19. CASE StopRequest
  BY <1>19 DEF StopRequest
<1>20. CASE StopThread
  BY <1>20 DEF StopThread
<1>21. CASE StopCallbacks
  BY <1>21 DEF StopCallbacks
<1>22. CASE StopSignal
  BY <1>22 DEF StopSignal
<1>23. CASE StopWake
  BY <1>23 DEF StopWake
<1>24. CASE StopFinish
  BY <1>24 DEF StopFinish
<1>25. CASE UNCHANGED vars
  BY <1>25 DEF vars
<1> QED
  BY <1>1, <1>2, <1>3, <1>4, <1>5, <1>6, <1>7, <1>8, <1>9, <1>10, <1>11, <1>12, <1>13, <1>14, <1>15, <1>16, <1>17, <1>18, <1>19, <1>20, <1>21, <1>22, <1>23, <1>24, <1>25 DEF Next, Task, Producer, Stop

-----------------------------------------------------------------------------
(* The inductive invariant holds of every behaviour: no waker is lost      *)
(* between registering and parking, and nobody who owes a wake is gone.    *)
THEOREM Announced == Spec => []IInv
<1>1. IInv /\ [Next]_vars => IInv'
  BY TypeStep, WatchStep DEF IInv
<1> QED
  BY InitOK, <1>1, PTL DEF Spec

(* Every variable keeps its type: the ring never holds more than it has    *)
(* slots and the self-wake budget never goes below zero.                   *)
THEOREM TypeCorrect == Spec => []TypeOK
<1>1. IInv => TypeOK
  BY DEF IInv
<1> QED
  BY Announced, <1>1, PTL

(* A task that parked although there is a buffer, or although the stream   *)
(* has stopped producing, left its waker in the slot, and whoever saw to   *)
(* that change is still on the way to wake it.                             *)
THEOREM NeverLost == Spec => []NoLostWakeup
<1>1. IInv => NoLostWakeup
  BY DEF IInv, TypeOK, Watching, DataIsAnnounced, EndIsAnnounced, EndWake,
         NoLostWakeup, Parked, EndWakePending
<1> QED
  BY Announced, <1>1, PTL

-----------------------------------------------------------------------------
(***************************************************************************)
(* The pumps of the handle.                                                *)
(***************************************************************************)

InOperation ==
  /\ holder = Free <=> step = "none"
  /\ step = "join" => target \in Pumps
  /\ step \in {"join", "finish"} /\ job # "clear" => callbackPump = 0

(* A stream is new until its pump is spawned.                              *)
NewStream ==
  step = "spawn" =>
    /\ stream = created /\ stream # 0 /\ spawned < created
    /\ \A p \in Pumps : source[p] # stream

SpawnedPumps ==
  /\ \A p \in 1 .. spawned : source[p] # 0
  /\ \A p \in Pumps : p > spawned => pumpPc[p] = "none"

SlotReadsStream == callbackPump # 0 => source[callbackPump] = stream

OneReader ==
  \A p, q \in Pumps : Alive(p) /\ Alive(q) /\ p # q => source[p] # source[q]

Sighted ==
  \A p \in Pumps :
    Alive(p) => p = callbackPump \/ p \in detached \/ (step = "join" /\ p = target)

(* A pump whose handle its own callback discarded was told to end, and its *)
(* stream is over, or about to be ended by the operation under way.        *)
DetachedEnds ==
  \A p \in detached :
    /\ p \in 1 .. spawned /\ source[p] \in Streams /\ flag[p]
    /\ \/ phase[source[p]] # "Running"
       \/ step = "finish" /\ job # "clear" /\ source[p] = stream

HandleInv ==
  /\ HandleTypeOK /\ InOperation /\ NewStream /\ SpawnedPumps /\ SlotReadsStream
  /\ OneReader /\ Sighted /\ DetachedEnds

-----------------------------------------------------------------------------
LEMMA HandleInitOK == HandleInit => HandleInv
<1> USE HandleAssumption DEF HandleInit, Streams, Pumps, Threads, Free
<1>1. HandleInit => HandleTypeOK
  <2> SUFFICES ASSUME HandleInit PROVE HandleTypeOK
    OBVIOUS
  <2>1. gone \in BOOLEAN /\ pending \in BOOLEAN /\ flag \in [Pumps -> BOOLEAN]
    OBVIOUS
  <2>2. created \in 0 .. MaxStreams /\ spawned \in 0 .. created
    BY DEF HandleAssumption
  <2>3. phase \in [Streams -> {"none", "Running", "Stopping", "Ended"}]
    OBVIOUS
  <2>4. source \in [Pumps -> 0 .. created]
    OBVIOUS
  <2>5. pumpPc \in [Pumps -> {"none", "top", "read", "call", "exited"}]
    OBVIOUS
  <2> QED
    BY <2>1, <2>2, <2>3, <2>4, <2>5 DEF HandleTypeOK
<1>2. HandleInit => InOperation /\ NewStream /\ SpawnedPumps /\ SlotReadsStream /\ OneReader /\ Sighted /\ DetachedEnds
  BY DEF InOperation, NewStream, SpawnedPumps, SlotReadsStream, OneReader, Sighted, DetachedEnds, Alive
<1> QED
  BY <1>1, <1>2 DEF HandleInv

-----------------------------------------------------------------------------
(* Every action keeps the types. *)
LEMMA HandleTypeStep == HandleInv /\ [HandleNext]_handleVars => HandleTypeOK'
<1> SUFFICES ASSUME HandleInv, [HandleNext]_handleVars PROVE HandleTypeOK'
  OBVIOUS
<1> USE HandleAssumption DEF HandleAssumption, Streams, Pumps, Threads, Free, MayCall, Enter, Leave, IsRunning, EndStream, Goto, Shut, Spawn, opVars, streamVars, pumpVars, handleVars,
    HandleInv, HandleTypeOK, InOperation, NewStream, SpawnedPumps
<1>1. ASSUME NEW t \in Threads, StartAgain(t) PROVE HandleTypeOK'
  BY <1>1 DEF StartAgain
<1>2. ASSUME NEW t \in Threads, StartCreate(t) PROVE HandleTypeOK'
  BY <1>2 DEF StartCreate
<1>3. ASSUME NEW t \in Threads, SetCallback(t) PROVE HandleTypeOK'
  BY <1>3 DEF SetCallback
<1>4. ASSUME NEW t \in Threads, RequestStop(t) PROVE HandleTypeOK'
  BY <1>4 DEF RequestStop
<1>5. ASSUME NEW t \in Threads, NEW j \in {"stop", "clear", "drop"}, TakePump(t, j) PROVE HandleTypeOK'
  BY <1>5 DEF TakePump
<1>6. CASE StartSpawn
  <2>1. CASE callbackPump = 0 /\ pending' = FALSE /\ Spawn
    <3>1. spawned + 1 \in Pumps /\ spawned \in Nat /\ created \in Nat /\ stream = created
      BY <1>6, <2>1 DEF StartSpawn
    <3>2. pending' \in BOOLEAN
      BY <2>1
    <3>3. gone' = gone /\ job' = job /\ flag' = flag /\ phase' = phase /\ detached' = detached
      BY <1>6 DEF StartSpawn
    <3>4. source' \in [Pumps -> 0 .. created]
      BY <2>1, <3>1
    <3>5. pumpPc' \in [Pumps -> {"none", "top", "read", "call", "exited"}]
      BY <2>1, <3>1
    <3> QED
      BY <1>6, <2>1, <3>1, <3>2, <3>3, <3>4, <3>5 DEF StartSpawn
  <2>2. CASE pending' \in BOOLEAN /\ UNCHANGED <<callbackPump, spawned, source, pumpPc>>
    BY <1>6, <2>2 DEF StartSpawn
  <2>3. pending' = FALSE \/ pending' = pending
    BY <1>6 DEF StartSpawn
  <2> QED
    BY <1>6, <2>1, <2>2, <2>3 DEF StartSpawn
<1>7. CASE Join
  BY <1>7 DEF Join
<1>8. CASE FinishStop
  BY <1>8 DEF FinishStop
<1>9. CASE FinishClear
  <2>1. pending' \in BOOLEAN
    BY <1>9 DEF FinishClear
  <2> QED
    BY <1>9, <2>1 DEF FinishClear
<1>10. ASSUME NEW p \in Pumps, PumpTop(p) PROVE HandleTypeOK'
  BY <1>10 DEF PumpTop
<1>11. ASSUME NEW p \in Pumps, PumpEnded(p) PROVE HandleTypeOK'
  BY <1>11 DEF PumpEnded
<1>12. ASSUME NEW p \in Pumps, PumpReads(p) PROVE HandleTypeOK'
  BY <1>12 DEF PumpReads
<1>13. ASSUME NEW p \in Pumps, CallbackReturns(p) PROVE HandleTypeOK'
  BY <1>13 DEF CallbackReturns
<1>14. ASSUME NEW p \in Pumps, CallbackPanics(p) PROVE HandleTypeOK'
  BY <1>14 DEF CallbackPanics
<1>15. ASSUME NEW g \in Streams, StreamEnds(g) PROVE HandleTypeOK'
  BY <1>15 DEF StreamEnds
<1>16. CASE UNCHANGED handleVars
  BY <1>16
<1> QED
  BY <1>1, <1>2, <1>3, <1>4, <1>5, <1>6, <1>7, <1>8, <1>9, <1>10, <1>11, <1>12, <1>13, <1>14, <1>15, <1>16 DEF HandleNext, Operation, Pump

(* Every action keeps what is known of the operation under way. *)
LEMMA OperationStep == HandleInv /\ [HandleNext]_handleVars => InOperation' /\ NewStream'
<1> SUFFICES ASSUME HandleInv, [HandleNext]_handleVars PROVE InOperation' /\ NewStream'
  OBVIOUS
<1> USE HandleAssumption DEF HandleAssumption, Streams, Pumps, Threads, Free, MayCall, Enter, Leave, IsRunning, EndStream, Goto, Shut, Spawn, opVars, streamVars, pumpVars, handleVars,
    HandleInv, HandleTypeOK, InOperation, NewStream, SpawnedPumps
<1>1. ASSUME NEW t \in Threads, StartAgain(t) PROVE InOperation' /\ NewStream'
  BY <1>1 DEF StartAgain
<1>2. ASSUME NEW t \in Threads, StartCreate(t) PROVE InOperation' /\ NewStream'
  BY <1>2 DEF StartCreate
<1>3. ASSUME NEW t \in Threads, SetCallback(t) PROVE InOperation' /\ NewStream'
  BY <1>3 DEF SetCallback
<1>4. ASSUME NEW t \in Threads, RequestStop(t) PROVE InOperation' /\ NewStream'
  BY <1>4 DEF RequestStop
<1>5. ASSUME NEW t \in Threads, NEW j \in {"stop", "clear", "drop"}, TakePump(t, j) PROVE InOperation' /\ NewStream'
  BY <1>5 DEF TakePump
<1>6. CASE StartSpawn
  <2>1. CASE callbackPump = 0 /\ pending' = FALSE /\ Spawn
    <3>1. spawned + 1 \in Pumps /\ spawned \in Nat /\ created \in Nat /\ stream = created
      BY <1>6, <2>1 DEF StartSpawn
    <3>2. source' = [source EXCEPT ![spawned + 1] = stream] /\ pumpPc' = [pumpPc EXCEPT ![spawned + 1] = "top"]
      BY <2>1
    <3>3. source'[spawned + 1] = stream /\ pumpPc'[spawned + 1] = "top"
      BY <3>1, <3>2
    <3>4. \A p \in Pumps : p # spawned + 1 => source'[p] = source[p] /\ pumpPc'[p] = pumpPc[p]
      BY <3>2
    <3>5. spawned' = spawned + 1 /\ callbackPump' = spawned + 1 /\ stream' = stream /\ detached' = detached
      BY <1>6, <2>1 DEF StartSpawn
    <3> QED
      BY <1>6, <2>1, <3>1, <3>3, <3>4, <3>5 DEF StartSpawn
  <2>2. CASE pending' \in BOOLEAN /\ UNCHANGED <<callbackPump, spawned, source, pumpPc>>
    BY <1>6, <2>2 DEF StartSpawn
  <2>3. pending' = FALSE \/ pending' = pending
    BY <1>6 DEF StartSpawn
  <2> QED
    BY <1>6, <2>1, <2>2, <2>3 DEF StartSpawn
<1>7. CASE Join
  BY <1>7 DEF Join
<1>8. CASE FinishStop
  BY <1>8 DEF FinishStop
<1>9. CASE FinishClear
  BY <1>9 DEF FinishClear
<1>10. ASSUME NEW p \in Pumps, PumpTop(p) PROVE InOperation' /\ NewStream'
  BY <1>10 DEF PumpTop
<1>11. ASSUME NEW p \in Pumps, PumpEnded(p) PROVE InOperation' /\ NewStream'
  BY <1>11 DEF PumpEnded
<1>12. ASSUME NEW p \in Pumps, PumpReads(p) PROVE InOperation' /\ NewStream'
  BY <1>12 DEF PumpReads
<1>13. ASSUME NEW p \in Pumps, CallbackReturns(p) PROVE InOperation' /\ NewStream'
  BY <1>13 DEF CallbackReturns
<1>14. ASSUME NEW p \in Pumps, CallbackPanics(p) PROVE InOperation' /\ NewStream'
  BY <1>14 DEF CallbackPanics
<1>15. ASSUME NEW g \in Streams, StreamEnds(g) PROVE InOperation' /\ NewStream'
  BY <1>15 DEF StreamEnds
<1>16. CASE UNCHANGED handleVars
  BY <1>16
<1> QED
  BY <1>1, <1>2, <1>3, <1>4, <1>5, <1>6, <1>7, <1>8, <1>9, <1>10, <1>11, <1>12, <1>13, <1>14, <1>15, <1>16 DEF HandleNext, Operation, Pump

(* Every action keeps what is known of the pump in the slot. *)
LEMMA PumpStep == HandleInv /\ [HandleNext]_handleVars => SpawnedPumps' /\ SlotReadsStream'
<1> SUFFICES ASSUME HandleInv, [HandleNext]_handleVars PROVE SpawnedPumps' /\ SlotReadsStream'
  OBVIOUS
<1> USE HandleAssumption DEF HandleAssumption, Streams, Pumps, Threads, Free, MayCall, Enter, Leave, IsRunning, EndStream, Goto, Shut, Spawn, opVars, streamVars, pumpVars, handleVars,
    HandleInv, HandleTypeOK, InOperation, NewStream, SpawnedPumps, SlotReadsStream
<1>1. ASSUME NEW t \in Threads, StartAgain(t) PROVE SpawnedPumps' /\ SlotReadsStream'
  BY <1>1 DEF StartAgain
<1>2. ASSUME NEW t \in Threads, StartCreate(t) PROVE SpawnedPumps' /\ SlotReadsStream'
  BY <1>2 DEF StartCreate
<1>3. ASSUME NEW t \in Threads, SetCallback(t) PROVE SpawnedPumps' /\ SlotReadsStream'
  BY <1>3 DEF SetCallback
<1>4. ASSUME NEW t \in Threads, RequestStop(t) PROVE SpawnedPumps' /\ SlotReadsStream'
  BY <1>4 DEF RequestStop
<1>5. ASSUME NEW t \in Threads, NEW j \in {"stop", "clear", "drop"}, TakePump(t, j) PROVE SpawnedPumps' /\ SlotReadsStream'
  BY <1>5 DEF TakePump
<1>6. CASE StartSpawn
  <2>1. CASE callbackPump = 0 /\ pending' = FALSE /\ Spawn
    <3>1. spawned + 1 \in Pumps /\ spawned \in Nat /\ created \in Nat /\ stream = created
      BY <1>6, <2>1 DEF StartSpawn
    <3>2. source' = [source EXCEPT ![spawned + 1] = stream] /\ pumpPc' = [pumpPc EXCEPT ![spawned + 1] = "top"]
      BY <2>1
    <3>3. source'[spawned + 1] = stream /\ pumpPc'[spawned + 1] = "top"
      BY <3>1, <3>2
    <3>4. \A p \in Pumps : p # spawned + 1 => source'[p] = source[p] /\ pumpPc'[p] = pumpPc[p]
      BY <3>2
    <3>5. spawned' = spawned + 1 /\ callbackPump' = spawned + 1 /\ stream' = stream /\ detached' = detached
      BY <1>6, <2>1 DEF StartSpawn
    <3> QED
      BY <1>6, <2>1, <3>1, <3>3, <3>4, <3>5 DEF StartSpawn
  <2>2. CASE pending' \in BOOLEAN /\ UNCHANGED <<callbackPump, spawned, source, pumpPc>>
    BY <1>6, <2>2 DEF StartSpawn
  <2>3. pending' = FALSE \/ pending' = pending
    BY <1>6 DEF StartSpawn
  <2> QED
    BY <1>6, <2>1, <2>2, <2>3 DEF StartSpawn
<1>7. CASE Join
  BY <1>7 DEF Join
<1>8. CASE FinishStop
  BY <1>8 DEF FinishStop
<1>9. CASE FinishClear
  BY <1>9 DEF FinishClear
<1>10. ASSUME NEW p \in Pumps, PumpTop(p) PROVE SpawnedPumps' /\ SlotReadsStream'
  BY <1>10 DEF PumpTop
<1>11. ASSUME NEW p \in Pumps, PumpEnded(p) PROVE SpawnedPumps' /\ SlotReadsStream'
  BY <1>11 DEF PumpEnded
<1>12. ASSUME NEW p \in Pumps, PumpReads(p) PROVE SpawnedPumps' /\ SlotReadsStream'
  BY <1>12 DEF PumpReads
<1>13. ASSUME NEW p \in Pumps, CallbackReturns(p) PROVE SpawnedPumps' /\ SlotReadsStream'
  BY <1>13 DEF CallbackReturns
<1>14. ASSUME NEW p \in Pumps, CallbackPanics(p) PROVE SpawnedPumps' /\ SlotReadsStream'
  BY <1>14 DEF CallbackPanics
<1>15. ASSUME NEW g \in Streams, StreamEnds(g) PROVE SpawnedPumps' /\ SlotReadsStream'
  BY <1>15 DEF StreamEnds
<1>16. CASE UNCHANGED handleVars
  BY <1>16
<1> QED
  BY <1>1, <1>2, <1>3, <1>4, <1>5, <1>6, <1>7, <1>8, <1>9, <1>10, <1>11, <1>12, <1>13, <1>14, <1>15, <1>16 DEF HandleNext, Operation, Pump

(* Every action keeps the readers apart. *)
LEMMA ReaderStep == HandleInv /\ [HandleNext]_handleVars => OneReader'
<1> SUFFICES ASSUME HandleInv, [HandleNext]_handleVars PROVE OneReader'
  OBVIOUS
<1> USE HandleAssumption DEF HandleAssumption, Streams, Pumps, Threads, Free, MayCall, Enter, Leave, IsRunning, EndStream, Goto, Shut, Spawn, opVars, streamVars, pumpVars, handleVars,
    HandleInv, HandleTypeOK, InOperation, NewStream, SpawnedPumps, OneReader, Alive
<1>1. ASSUME NEW t \in Threads, StartAgain(t) PROVE OneReader'
  BY <1>1 DEF StartAgain
<1>2. ASSUME NEW t \in Threads, StartCreate(t) PROVE OneReader'
  BY <1>2 DEF StartCreate
<1>3. ASSUME NEW t \in Threads, SetCallback(t) PROVE OneReader'
  BY <1>3 DEF SetCallback
<1>4. ASSUME NEW t \in Threads, RequestStop(t) PROVE OneReader'
  BY <1>4 DEF RequestStop
<1>5. ASSUME NEW t \in Threads, NEW j \in {"stop", "clear", "drop"}, TakePump(t, j) PROVE OneReader'
  BY <1>5 DEF TakePump
<1>6. CASE StartSpawn
  <2>1. CASE callbackPump = 0 /\ pending' = FALSE /\ Spawn
    <3>1. spawned + 1 \in Pumps /\ spawned \in Nat /\ created \in Nat /\ stream = created
      BY <1>6, <2>1 DEF StartSpawn
    <3>2. source' = [source EXCEPT ![spawned + 1] = stream] /\ pumpPc' = [pumpPc EXCEPT ![spawned + 1] = "top"]
      BY <2>1
    <3>3. source'[spawned + 1] = stream /\ pumpPc'[spawned + 1] = "top"
      BY <3>1, <3>2
    <3>4. \A p \in Pumps : p # spawned + 1 => source'[p] = source[p] /\ pumpPc'[p] = pumpPc[p]
      BY <3>2
    <3>5. spawned' = spawned + 1 /\ callbackPump' = spawned + 1 /\ stream' = stream /\ detached' = detached
      BY <1>6, <2>1 DEF StartSpawn
    <3> QED
      BY <1>6, <2>1, <3>1, <3>3, <3>4, <3>5 DEF StartSpawn
  <2>2. CASE pending' \in BOOLEAN /\ UNCHANGED <<callbackPump, spawned, source, pumpPc>>
    BY <1>6, <2>2 DEF StartSpawn
  <2>3. pending' = FALSE \/ pending' = pending
    BY <1>6 DEF StartSpawn
  <2> QED
    BY <1>6, <2>1, <2>2, <2>3 DEF StartSpawn
<1>7. CASE Join
  BY <1>7 DEF Join
<1>8. CASE FinishStop
  BY <1>8 DEF FinishStop
<1>9. CASE FinishClear
  BY <1>9 DEF FinishClear
<1>10. ASSUME NEW p \in Pumps, PumpTop(p) PROVE OneReader'
  BY <1>10 DEF PumpTop
<1>11. ASSUME NEW p \in Pumps, PumpEnded(p) PROVE OneReader'
  BY <1>11 DEF PumpEnded
<1>12. ASSUME NEW p \in Pumps, PumpReads(p) PROVE OneReader'
  BY <1>12 DEF PumpReads
<1>13. ASSUME NEW p \in Pumps, CallbackReturns(p) PROVE OneReader'
  BY <1>13 DEF CallbackReturns
<1>14. ASSUME NEW p \in Pumps, CallbackPanics(p) PROVE OneReader'
  BY <1>14 DEF CallbackPanics
<1>15. ASSUME NEW g \in Streams, StreamEnds(g) PROVE OneReader'
  BY <1>15 DEF StreamEnds
<1>16. CASE UNCHANGED handleVars
  BY <1>16
<1> QED
  BY <1>1, <1>2, <1>3, <1>4, <1>5, <1>6, <1>7, <1>8, <1>9, <1>10, <1>11, <1>12, <1>13, <1>14, <1>15, <1>16 DEF HandleNext, Operation, Pump

(* No action loses sight of a pump that runs. *)
LEMMA SightStep == HandleInv /\ [HandleNext]_handleVars => Sighted'
<1> SUFFICES ASSUME HandleInv, [HandleNext]_handleVars PROVE Sighted'
  OBVIOUS
<1> USE HandleAssumption DEF HandleAssumption, Streams, Pumps, Threads, Free, MayCall, Enter, Leave, IsRunning, EndStream, Goto, Shut, Spawn, opVars, streamVars, pumpVars, handleVars,
    HandleInv, HandleTypeOK, InOperation, NewStream, SpawnedPumps, Sighted, Alive
<1>1. ASSUME NEW t \in Threads, StartAgain(t) PROVE Sighted'
  BY <1>1 DEF StartAgain
<1>2. ASSUME NEW t \in Threads, StartCreate(t) PROVE Sighted'
  BY <1>2 DEF StartCreate
<1>3. ASSUME NEW t \in Threads, SetCallback(t) PROVE Sighted'
  BY <1>3 DEF SetCallback
<1>4. ASSUME NEW t \in Threads, RequestStop(t) PROVE Sighted'
  BY <1>4 DEF RequestStop
<1>5. ASSUME NEW t \in Threads, NEW j \in {"stop", "clear", "drop"}, TakePump(t, j) PROVE Sighted'
  BY <1>5 DEF TakePump
<1>6. CASE StartSpawn
  <2>1. CASE callbackPump = 0 /\ pending' = FALSE /\ Spawn
    <3>1. spawned + 1 \in Pumps /\ spawned \in Nat /\ created \in Nat /\ stream = created
      BY <1>6, <2>1 DEF StartSpawn
    <3>2. source' = [source EXCEPT ![spawned + 1] = stream] /\ pumpPc' = [pumpPc EXCEPT ![spawned + 1] = "top"]
      BY <2>1
    <3>3. source'[spawned + 1] = stream /\ pumpPc'[spawned + 1] = "top"
      BY <3>1, <3>2
    <3>4. \A p \in Pumps : p # spawned + 1 => source'[p] = source[p] /\ pumpPc'[p] = pumpPc[p]
      BY <3>2
    <3>5. spawned' = spawned + 1 /\ callbackPump' = spawned + 1 /\ stream' = stream /\ detached' = detached
      BY <1>6, <2>1 DEF StartSpawn
    <3> QED
      BY <1>6, <2>1, <3>1, <3>3, <3>4, <3>5 DEF StartSpawn
  <2>2. CASE pending' \in BOOLEAN /\ UNCHANGED <<callbackPump, spawned, source, pumpPc>>
    BY <1>6, <2>2 DEF StartSpawn
  <2>3. pending' = FALSE \/ pending' = pending
    BY <1>6 DEF StartSpawn
  <2> QED
    BY <1>6, <2>1, <2>2, <2>3 DEF StartSpawn
<1>7. CASE Join
  BY <1>7 DEF Join
<1>8. CASE FinishStop
  BY <1>8 DEF FinishStop
<1>9. CASE FinishClear
  BY <1>9 DEF FinishClear
<1>10. ASSUME NEW p \in Pumps, PumpTop(p) PROVE Sighted'
  BY <1>10 DEF PumpTop
<1>11. ASSUME NEW p \in Pumps, PumpEnded(p) PROVE Sighted'
  BY <1>11 DEF PumpEnded
<1>12. ASSUME NEW p \in Pumps, PumpReads(p) PROVE Sighted'
  BY <1>12 DEF PumpReads
<1>13. ASSUME NEW p \in Pumps, CallbackReturns(p) PROVE Sighted'
  BY <1>13 DEF CallbackReturns
<1>14. ASSUME NEW p \in Pumps, CallbackPanics(p) PROVE Sighted'
  BY <1>14 DEF CallbackPanics
<1>15. ASSUME NEW g \in Streams, StreamEnds(g) PROVE Sighted'
  BY <1>15 DEF StreamEnds
<1>16. CASE UNCHANGED handleVars
  BY <1>16
<1> QED
  BY <1>1, <1>2, <1>3, <1>4, <1>5, <1>6, <1>7, <1>8, <1>9, <1>10, <1>11, <1>12, <1>13, <1>14, <1>15, <1>16 DEF HandleNext, Operation, Pump

(* A discarded pump stays flagged, and the operation that it called ends   *)
(* its stream.                                                             *)
LEMMA DetachedStep == HandleInv /\ [HandleNext]_handleVars => DetachedEnds'
<1> SUFFICES ASSUME HandleInv, [HandleNext]_handleVars PROVE DetachedEnds'
  OBVIOUS
<1> USE HandleAssumption DEF HandleAssumption, Streams, Pumps, Threads, Free, MayCall, Enter, Leave, IsRunning, EndStream, Goto, Shut, Spawn, opVars, streamVars, pumpVars, handleVars,
    HandleInv, HandleTypeOK, InOperation, NewStream, SpawnedPumps, SlotReadsStream, DetachedEnds
<1>1. ASSUME NEW t \in Threads, StartAgain(t) PROVE DetachedEnds'
  BY <1>1 DEF StartAgain
<1>2. ASSUME NEW t \in Threads, StartCreate(t) PROVE DetachedEnds'
  BY <1>2 DEF StartCreate
<1>3. ASSUME NEW t \in Threads, SetCallback(t) PROVE DetachedEnds'
  BY <1>3 DEF SetCallback
<1>4. ASSUME NEW t \in Threads, RequestStop(t) PROVE DetachedEnds'
  BY <1>4 DEF RequestStop
<1>5. ASSUME NEW t \in Threads, NEW j \in {"stop", "clear", "drop"}, TakePump(t, j) PROVE DetachedEnds'
  BY <1>5 DEF TakePump
<1>6. CASE StartSpawn
  <2>1. CASE callbackPump = 0 /\ pending' = FALSE /\ Spawn
    <3>1. spawned + 1 \in Pumps /\ spawned \in Nat /\ created \in Nat /\ stream = created
      BY <1>6, <2>1 DEF StartSpawn
    <3>2. source' = [source EXCEPT ![spawned + 1] = stream] /\ pumpPc' = [pumpPc EXCEPT ![spawned + 1] = "top"]
      BY <2>1
    <3>3. source'[spawned + 1] = stream /\ pumpPc'[spawned + 1] = "top"
      BY <3>1, <3>2
    <3>4. \A p \in Pumps : p # spawned + 1 => source'[p] = source[p] /\ pumpPc'[p] = pumpPc[p]
      BY <3>2
    <3>5. spawned' = spawned + 1 /\ callbackPump' = spawned + 1 /\ stream' = stream /\ detached' = detached
      BY <1>6, <2>1 DEF StartSpawn
    <3> QED
      BY <1>6, <2>1, <3>1, <3>3, <3>4, <3>5 DEF StartSpawn
  <2>2. CASE pending' \in BOOLEAN /\ UNCHANGED <<callbackPump, spawned, source, pumpPc>>
    BY <1>6, <2>2 DEF StartSpawn
  <2>3. pending' = FALSE \/ pending' = pending
    BY <1>6 DEF StartSpawn
  <2> QED
    BY <1>6, <2>1, <2>2, <2>3 DEF StartSpawn
<1>7. CASE Join
  BY <1>7 DEF Join
<1>8. CASE FinishStop
  BY <1>8 DEF FinishStop
<1>9. CASE FinishClear
  BY <1>9 DEF FinishClear
<1>10. ASSUME NEW p \in Pumps, PumpTop(p) PROVE DetachedEnds'
  BY <1>10 DEF PumpTop
<1>11. ASSUME NEW p \in Pumps, PumpEnded(p) PROVE DetachedEnds'
  BY <1>11 DEF PumpEnded
<1>12. ASSUME NEW p \in Pumps, PumpReads(p) PROVE DetachedEnds'
  BY <1>12 DEF PumpReads
<1>13. ASSUME NEW p \in Pumps, CallbackReturns(p) PROVE DetachedEnds'
  BY <1>13 DEF CallbackReturns
<1>14. ASSUME NEW p \in Pumps, CallbackPanics(p) PROVE DetachedEnds'
  BY <1>14 DEF CallbackPanics
<1>15. ASSUME NEW g \in Streams, StreamEnds(g) PROVE DetachedEnds'
  BY <1>15 DEF StreamEnds
<1>16. CASE UNCHANGED handleVars
  BY <1>16
<1> QED
  BY <1>1, <1>2, <1>3, <1>4, <1>5, <1>6, <1>7, <1>8, <1>9, <1>10, <1>11, <1>12, <1>13, <1>14, <1>15, <1>16 DEF HandleNext, Operation, Pump

-----------------------------------------------------------------------------
(* The inductive invariant holds of every behaviour: the handle knows      *)
(* every pump that runs, and one that it starts has a stream of its own.   *)
THEOREM PumpsAccounted == HandleSpec => []HandleInv
<1>1. HandleInv /\ [HandleNext]_handleVars => HandleInv'
  BY HandleTypeStep, OperationStep, PumpStep, ReaderStep, SightStep, DetachedStep DEF HandleInv
<1> QED
  BY HandleInitOK, <1>1, PTL DEF HandleSpec

(* Every variable keeps its type: in particular there are never more pumps *)
(* than streams.                                                           *)
THEOREM HandleTypeCorrect == HandleSpec => []HandleTypeOK
<1>1. HandleInv => HandleTypeOK
  BY DEF HandleInv
<1> QED
  BY PumpsAccounted, <1>1, PTL

(* Two pumps never compete for one ring, whatever the application and the  *)
(* callbacks call and in whatever order, and the pump in the slot reads    *)
(* the stream of the handle.                                               *)
THEOREM SingleReader == HandleSpec => []OnePumpPerStream
<1>1. HandleInv => OnePumpPerStream
  BY DEF HandleInv, OneReader, SlotReadsStream, OnePumpPerStream
<1> QED
  BY PumpsAccounted, <1>1, PTL

(* When stop(), clear_callback() or Drop has returned, the callback is not *)
(* running and will not run again, unless it made that call itself: such a *)
(* pump has been told to end, and its stream no longer runs.               *)
THEOREM NoOrphans == HandleSpec => []LostPumpsAreOver
<1>1. HandleInv => LostPumpsAreOver
  BY DEF HandleInv, InOperation, Sighted, DetachedEnds, LostPumpsAreOver
<1> QED
  BY PumpsAccounted, <1>1, PTL
=============================================================================
