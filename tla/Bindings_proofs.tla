-------------------------- MODULE Bindings_proofs --------------------------
(***************************************************************************)
(* The safety of one capture object under the threads of a host language.  *)
(* The invariant has two halves.  HInv says who may still be inside the    *)
(* capture, in the three bindings alike; it carries HandleOutlivesCalls.   *)
(* PInv is about napi alone: what a raised, or a lowered, pump_active says *)
(* of the pumps that were ever spawned; it carries Served.                 *)
(***************************************************************************)
EXTENDS Bindings, TLAPS

(***************************************************************************)
(* The capture and its readers.  The pins below say who may still be       *)
(* inside the capture; they hold in each binding for a reason of its own:  *)
(* the exclusive guard in Python and napi, the WaitGroup in Go.            *)
(***************************************************************************)

(* A call of one binding never takes a step of another's.                  *)
Separate ==
  /\ \A t \in Threads : pc[t] \in {"recheck", "drain", "free"} => binding = "go"
  /\ \A t \in Threads : pc[t] \in {"check", "signal", "queue", "write"} => binding # "go"
  /\ slot = "closing" => binding = "go"
  /\ pc[JS] \in {"unflag", "pump", "flag", "spawn"} => binding = "napi"
  /\ \A t \in Threads : call[t] \in {"onData", "offData"} => binding = "napi"

Pinned ==
  /\ \A t \in Threads : pc[t] \in {"recheck", "native", "parked", "unwind"} => t \in guards
  /\ slot = "freed" => guards = {}
  /\ \A t \in Threads : pc[t] \in {"drain", "free"} => slot = "closing"
  /\ \A t \in Threads : pc[t] = "free" => guards = {}
  /\ \A t, u \in Threads : pc[t] \in {"drain", "free"} /\ pc[u] \in {"drain", "free"} => t = u

HInv == TypeOK /\ Separate /\ Pinned

-----------------------------------------------------------------------------
(***************************************************************************)
(* The pumps of napi.                                                      *)
(***************************************************************************)

(* The event loop: what it calls where, and that it has a generation left  *)
(* to take.  Workers only read, and nobody frees the capture.              *)
EventLoop ==
  /\ slot = "open"
  /\ \A t \in Threads \ {JS} :
       /\ call[t] \in {"none", "read", "tryRead"}
       /\ pc[t] \in {"idle", "enter", "native", "parked"}
  /\ pc[JS] = "idle" <=> call[JS] = "none"
  /\ pc[JS] = "enter" => call[JS] \in {"get", "read", "start", "stop", "onData", "offData"}
  /\ pc[JS] \in {"native", "parked", "unwind"} => call[JS] = "read"
  /\ pc[JS] = "unflag" => call[JS] \in {"stop", "offData"}
  /\ pc[JS] = "signal" => call[JS] = "stop"
  /\ pc[JS] = "check" => call[JS] \in {"start", "onData"}
  /\ pc[JS] \in {"queue", "write"} => call[JS] \in {"start", "stop"}
  /\ pc[JS] \in {"pump", "flag", "spawn"} => call[JS] \in {"start", "onData"}
  /\ pc[JS] \notin {"return", "recheck", "drain", "free"}
  /\ call[JS] \in {"start", "onData"} => generation < MaxGeneration
  /\ pc[JS] = "enter" /\ call[JS] \in {"stop", "offData"} => generation < MaxGeneration

(* A generation has at most one pump, and none before its time.            *)
Numbered ==
  /\ \A g \in 1 .. MaxGeneration : g > generation => pump[g] = "none"
  /\ pc[JS] = "unflag" => generation > 0 /\ pump[generation] = "none"

(* The flag follows the stream: it is down while there is none, and from   *)
(* the moment stop() lowered it.                                           *)
FlagFollows ==
  /\ stream = "none" => ~active
  /\ pc[JS] \in {"pump", "flag", "spawn"} => stream # "none"
  /\ call[JS] = "stop" /\ pc[JS] \in {"signal", "queue", "write"} => ~active

Alive == {"loop", "gate", "read"}

(* A raised flag over a running stream has an owner, except while a        *)
(* generation is taken away or spawned.                                    *)
FlagOwned ==
  active /\ stream = "running" /\ pc[JS] \notin {"unflag", "spawn"} =>
    generation > 0 /\ pump[generation] \in Alive

(* A pump whose stream ended by itself has stored its flag, and is not, or *)
(* at the next spawn will not be, the newest.                              *)
Overtaken(limit) == \E g \in fatal : g < limit /\ pump[g] = "done"

(* A flag that is down under the newest pump, or under one about to be     *)
(* spawned, was lowered by a late store; and a pump that is about to store *)
(* either has lost its stream or has itself met such a flag.               *)
LateStore ==
  /\ generation > 0 /\ pump[generation] \in Alive /\ ~active => Overtaken(generation)
  /\ pc[JS] = "spawn" /\ ~active => Overtaken(generation + 1)
  /\ \A g \in 1 .. MaxGeneration :
       pump[g] = "clear" \/ (pump[g] = "exit" /\ g = generation) =>
         g \in fatal \/ Overtaken(generation)

(* Where the event loop has not changed the subscription or the stream     *)
(* without having seen to the pump yet.                                    *)
Settled ==
  /\ pc[JS] \notin {"unflag", "signal", "pump", "flag", "spawn"}
  /\ call[JS] = "stop" => pc[JS] = "enter"
  /\ call[JS] = "onData" => pc[JS] = "enter"

Explained ==
  Settled /\ stream = "running" /\ subscribed /\ ~active =>
    generation > 0 /\ (pump[generation] = "refused" \/ Overtaken(generation))

Delivery ==
  EventLoop /\ Numbered /\ FlagFollows /\ FlagOwned /\ LateStore /\ Explained

PInv == binding = "napi" => Delivery

IInv == HInv /\ PInv

CallNames == Reads \union Mutators \union {"none", "get", "onData", "offData"}

(* What a thread may call has a name.                                       *)
LEMMA CallsNamed == \A t \in Threads : \A c \in CallsOf(t) : c \in CallNames \ {"none"}
BY DEF CallsOf, CallNames, Reads, Mutators

(* Where a look at the capture, and a turn under its exclusive guard, lead.*)
LEMMA CheckGoes ==
  ASSUME NEW t \in Threads, Check(t), binding \in {"python", "napi"},
         call[t] = "onData" => binding = "napi"
  PROVE  \/ Goto(t, "idle") \/ Goto(t, "queue") \/ Goto(t, "return")
         \/ binding = "napi" /\ Goto(t, "pump")
BY DEF Check, Finish, Leave

LEMMA WriteGoes ==
  ASSUME NEW t \in Threads, Write(t), binding \in {"python", "napi"}
  PROVE  \/ Goto(t, "idle") \/ Goto(t, "return")
         \/ binding = "napi" /\ Goto(t, "pump")
BY DEF Write, Finish, Leave

(* The initial states.                                                      *)
LEMMA InitH == Init => HInv
<1> SUFFICES ASSUME Init PROVE HInv
  OBVIOUS
<1> USE BindingsAssumption
<1>1. generation \in 0 .. MaxGeneration /\ fatal \subseteq 1 .. MaxGeneration
  BY DEF Init
<1>2. active \in BOOLEAN /\ subscribed \in BOOLEAN
  BY DEF Init
<1>3. call \in [Threads -> Reads \union Mutators \union {"none", "get", "onData", "offData"}]
  BY DEF Init
<1>4. TypeOK
  BY <1>1, <1>2, <1>3 DEF Init, TypeOK
<1>5. Separate /\ Pinned
  BY DEF Init, Separate, Pinned
<1> QED
  BY <1>4, <1>5 DEF HInv

(* Every step keeps the types.                                              *)
LEMMA TypeStep == IInv /\ [Next]_vars => TypeOK'
<1> SUFFICES ASSUME IInv, [Next]_vars PROVE TypeOK'
  OBVIOUS
<1> USE BindingsAssumption DEF IInv, HInv, TypeOK, napiVars, Reads, Mutators
<1>1. ASSUME NEW t \in Threads, NEW c \in CallsOf(t), Begin(t, c) PROVE TypeOK'
  <2>1. c \in CallNames \ {"none"}
    BY CallsNamed
  <2>2. call' \in [Threads -> Reads \union Mutators \union {"none", "get", "onData", "offData"}]
    BY <1>1, <2>1 DEF Begin, CallNames
  <2>3. pc' = [pc EXCEPT ![t] = "enter"] /\ host' \in Threads \union {NoOne}
    BY <1>1 DEF Begin, Goto
  <2>4. UNCHANGED <<binding, stream, slot, guards, queued, active, generation, subscribed, pump, fatal>>
    BY <1>1 DEF Begin
  <2> QED
    BY <2>2, <2>3, <2>4
<1>2. ASSUME NEW t \in Threads, EnterShared(t) PROVE TypeOK'
  BY <1>2 DEF EnterShared, Admits, Leave, Goto
<1>3. ASSUME NEW t \in Threads, GoEnter(t) PROVE TypeOK'
  BY <1>3 DEF GoEnter, Leave, Goto
<1>4. ASSUME NEW t \in Threads, GoRecheck(t) PROVE TypeOK'
  BY <1>4 DEF GoRecheck, Goto, Stay, Leave
<1>5. ASSUME NEW t \in Threads, NativeReturns(t) PROVE TypeOK'
  BY <1>5 DEF NativeReturns, ComeBack, Leave, Goto, Stay
<1>6. ASSUME NEW t \in Threads, ParkedReturns(t) PROVE TypeOK'
  BY <1>6 DEF ParkedReturns, ComeBack, Leave, Goto, Stay
<1>60. ASSUME NEW t \in Threads, Park(t) PROVE TypeOK'
  BY <1>60 DEF Park, Goto, Stay
<1>7. ASSUME NEW t \in Threads, Unwind(t) PROVE TypeOK'
  BY <1>7 DEF Unwind, Leave, Goto
<1>8. ASSUME NEW t \in Threads, Detach(t) PROVE TypeOK'
  BY <1>8 DEF Detach, Goto
<1>9. ASSUME NEW t \in Threads, Check(t) PROVE TypeOK'
  BY <1>9 DEF Check, Admits, Goto, Stay, Leave, Finish
<1>10. ASSUME NEW t \in Threads, Signal(t) PROVE TypeOK'
  BY <1>10 DEF Signal, Admits, RequestStop, Goto
<1>11. ASSUME NEW t \in Threads, Queue(t) PROVE TypeOK'
  BY <1>11 DEF Queue, Goto
<1>12. ASSUME NEW t \in Threads, Write(t) PROVE TypeOK'
  BY <1>12 DEF Write, Finish, Goto, Stay, Leave, CoreStart
<1>13. ASSUME NEW t \in Threads, Return(t) PROVE TypeOK'
  BY <1>13 DEF Return, Leave, Goto
<1>14. ASSUME NEW t \in Threads, GoStart(t) PROVE TypeOK'
  BY <1>14 DEF GoStart, CoreStart, Leave, Goto
<1>15. ASSUME NEW t \in Threads, GoStop(t) PROVE TypeOK'
  BY <1>15 DEF GoStop, Leave, Goto
<1>16. ASSUME NEW t \in Threads, GoClose(t) PROVE TypeOK'
  BY <1>16 DEF GoClose, Leave, Goto, RequestStop
<1>17. ASSUME NEW t \in Threads, GoDrain(t) PROVE TypeOK'
  BY <1>17 DEF GoDrain, Goto
<1>18. ASSUME NEW t \in Threads, GoFree(t) PROVE TypeOK'
  BY <1>18 DEF GoFree, Leave, Goto
<1>19. CASE Cancel
  <2>1. generation < MaxGeneration
    BY <1>19 DEF Cancel, IInv, PInv, Delivery, EventLoop
  <2> QED
    BY <1>19, <2>1 DEF Cancel, Goto
<1>20. CASE Unflag
  BY <1>20 DEF Unflag, Goto, Stay, Leave
<1>21. CASE Subscribe
  BY <1>21 DEF Subscribe, Goto
<1>22. CASE WantPump
  BY <1>22 DEF WantPump, Goto, Stay, Leave
<1>23. CASE RaiseFlag
  BY <1>23 DEF RaiseFlag, Goto
<1>24. CASE Spawn
  <2>1. generation < MaxGeneration
    BY <1>24 DEF Spawn, Separate, PInv, Delivery, EventLoop
  <2>2. generation' = generation + 1 /\ (active' = active \/ active' = FALSE)
    BY <1>24 DEF Spawn
  <2>4. generation' \in 0 .. MaxGeneration
    BY <2>1, <2>2
  <2>5. active' \in BOOLEAN
    BY <2>2, Zenon
  <2>3. pump' \in [1 .. MaxGeneration -> {"none", "loop", "gate", "read", "exit", "clear", "done", "refused"}]
    BY <1>24 DEF Spawn
  <2> QED
    BY <1>24, <2>3, <2>4, <2>5 DEF Spawn, Leave, Goto
<1>25. ASSUME NEW g \in 1 .. MaxGeneration, PumpLoop(g) PROVE TypeOK'
  BY <1>25 DEF PumpLoop, PumpGoto
<1>26. ASSUME NEW g \in 1 .. MaxGeneration, PumpGate(g) PROVE TypeOK'
  BY <1>26 DEF PumpGate, PumpGoto
<1>27. ASSUME NEW g \in 1 .. MaxGeneration, PumpRead(g) PROVE TypeOK'
  BY <1>27 DEF PumpRead, Admits, PumpGoto
<1>28. ASSUME NEW g \in 1 .. MaxGeneration, PumpExit(g) PROVE TypeOK'
  BY <1>28 DEF PumpExit, PumpGoto
<1>29. ASSUME NEW g \in 1 .. MaxGeneration, PumpClear(g) PROVE TypeOK'
  BY <1>29 DEF PumpClear, PumpGoto
<1>30. CASE NaturalEnd
  BY <1>30 DEF NaturalEnd
<1>31. CASE UNCHANGED vars
  BY <1>31 DEF vars
<1> QED
  BY <1>1, <1>2, <1>3, <1>4, <1>5, <1>6, <1>60, <1>7, <1>8, <1>9, <1>10, <1>11, <1>12, <1>13, <1>14, <1>15, <1>16, <1>17, <1>18, <1>19, <1>20, <1>21, <1>22, <1>23, <1>24, <1>25, <1>26, <1>27, <1>28, <1>29, <1>30, <1>31
     DEF Next, ReadStep, MutateStep, DeliveryStep, Pump

(* Every step keeps the pins.                                               *)
LEMMA PinStep == HInv /\ [Next]_vars => (Separate /\ Pinned)'
<1> SUFFICES ASSUME HInv, [Next]_vars PROVE (Separate /\ Pinned)'
  OBVIOUS
<1> USE BindingsAssumption DEF HInv, TypeOK, Separate, Pinned, napiVars, Reads, Mutators
<1>1. ASSUME NEW t \in Threads, NEW c \in CallsOf(t), Begin(t, c) PROVE (Separate /\ Pinned)'
  <2>1. c \in {"onData", "offData"} => binding = "napi"
    BY DEF CallsOf
  <2>2. pc' = [pc EXCEPT ![t] = "enter"] /\ call' = [call EXCEPT ![t] = c]
    BY <1>1 DEF Begin, Goto
  <2>3. UNCHANGED <<binding, slot, guards>>
    BY <1>1 DEF Begin
  <2> QED
    BY <2>1, <2>2, <2>3
<1>2. ASSUME NEW t \in Threads, EnterShared(t) PROVE (Separate /\ Pinned)'
  BY <1>2 DEF EnterShared, Admits, Leave, Goto
<1>3. ASSUME NEW t \in Threads, GoEnter(t) PROVE (Separate /\ Pinned)'
  BY <1>3 DEF GoEnter, Leave, Goto
<1>4. ASSUME NEW t \in Threads, GoRecheck(t) PROVE (Separate /\ Pinned)'
  BY <1>4 DEF GoRecheck, Goto, Stay, Leave
<1>5. ASSUME NEW t \in Threads, NativeReturns(t) PROVE (Separate /\ Pinned)'
  BY <1>5 DEF NativeReturns, ComeBack, Leave, Goto, Stay
<1>6. ASSUME NEW t \in Threads, ParkedReturns(t) PROVE (Separate /\ Pinned)'
  BY <1>6 DEF ParkedReturns, ComeBack, Leave, Goto, Stay
<1>60. ASSUME NEW t \in Threads, Park(t) PROVE (Separate /\ Pinned)'
  BY <1>60 DEF Park, Goto, Stay
<1>7. ASSUME NEW t \in Threads, Unwind(t) PROVE (Separate /\ Pinned)'
  BY <1>7 DEF Unwind, Leave, Goto
<1>8. ASSUME NEW t \in Threads, Detach(t) PROVE (Separate /\ Pinned)'
  BY <1>8 DEF Detach, Goto
<1>9. ASSUME NEW t \in Threads, Check(t) PROVE (Separate /\ Pinned)'
  <2>1. UNCHANGED <<binding, slot, guards>> /\ binding # "go"
    BY <1>9 DEF Check
  <2>4. binding \in {"python", "napi"} /\ (call[t] = "onData" => binding = "napi")
    BY <2>1
  <2>2. \/ Goto(t, "idle")
        \/ Goto(t, "queue")
        \/ Goto(t, "return")
        \/ binding = "napi" /\ Goto(t, "pump")
    BY <1>9, <2>4, CheckGoes
  <2>3. call' = call \/ call' = [call EXCEPT ![t] = "none"]
    BY <1>9 DEF Check, Finish, Goto, Leave, Stay
  <2> QED
    BY <2>1, <2>2, <2>3 DEF Goto
<1>10. ASSUME NEW t \in Threads, Signal(t) PROVE (Separate /\ Pinned)'
  BY <1>10 DEF Signal, Admits, RequestStop, Goto
<1>11. ASSUME NEW t \in Threads, Queue(t) PROVE (Separate /\ Pinned)'
  BY <1>11 DEF Queue, Goto
<1>12. ASSUME NEW t \in Threads, Write(t) PROVE (Separate /\ Pinned)'
  <2>1. UNCHANGED <<binding, guards>> /\ binding # "go" /\ guards = {}
    BY <1>12 DEF Write
  <2>2. slot' = slot \/ slot' = "freed"
    BY <1>12 DEF Write
  <2>5. binding \in {"python", "napi"}
    BY <2>1
  <2>3. \/ Goto(t, "idle")
        \/ Goto(t, "return")
        \/ binding = "napi" /\ Goto(t, "pump")
    BY <1>12, <2>5, WriteGoes
  <2>4. call' = call \/ call' = [call EXCEPT ![t] = "none"]
    BY <1>12 DEF Write, Finish, Goto, Leave, Stay
  <2> QED
    BY <2>1, <2>2, <2>3, <2>4 DEF Goto
<1>13. ASSUME NEW t \in Threads, Return(t) PROVE (Separate /\ Pinned)'
  BY <1>13 DEF Return, Leave, Goto
<1>14. ASSUME NEW t \in Threads, GoStart(t) PROVE (Separate /\ Pinned)'
  BY <1>14 DEF GoStart, CoreStart, Leave, Goto
<1>15. ASSUME NEW t \in Threads, GoStop(t) PROVE (Separate /\ Pinned)'
  BY <1>15 DEF GoStop, Leave, Goto
<1>16. ASSUME NEW t \in Threads, GoClose(t) PROVE (Separate /\ Pinned)'
  BY <1>16 DEF GoClose, Leave, Goto, RequestStop
<1>17. ASSUME NEW t \in Threads, GoDrain(t) PROVE (Separate /\ Pinned)'
  BY <1>17 DEF GoDrain, Goto
<1>18. ASSUME NEW t \in Threads, GoFree(t) PROVE (Separate /\ Pinned)'
  BY <1>18 DEF GoFree, Leave, Goto
<1>19. CASE Cancel
  BY <1>19 DEF Cancel, Goto
<1>20. CASE Unflag
  <2>1. pc'[JS] \in {"signal", "idle"} /\ UNCHANGED <<binding, slot, guards>>
    BY <1>20 DEF Unflag, Goto, Stay, Leave
  <2>2. \A t \in Threads \ {JS} : pc'[t] = pc[t]
    BY <1>20 DEF Unflag, Goto, Stay, Leave
  <2>4. call' = call \/ call' = [call EXCEPT ![JS] = "none"]
    BY <1>20 DEF Unflag, Goto, Stay, Leave
  <2>5. binding = "napi"
    BY <1>20 DEF Unflag
    <2> QED
    BY <1>20, <2>1, <2>2, <2>4, <2>5
<1>21. CASE Subscribe
  BY <1>21 DEF Subscribe, Goto
<1>22. CASE WantPump
  BY <1>22 DEF WantPump, Goto, Stay, Leave
<1>23. CASE RaiseFlag
  BY <1>23 DEF RaiseFlag, Goto
<1>24. CASE Spawn
  BY <1>24 DEF Spawn, Leave, Goto
<1>25. ASSUME NEW g \in 1 .. MaxGeneration, PumpLoop(g) PROVE (Separate /\ Pinned)'
  BY <1>25 DEF PumpLoop, PumpGoto
<1>26. ASSUME NEW g \in 1 .. MaxGeneration, PumpGate(g) PROVE (Separate /\ Pinned)'
  BY <1>26 DEF PumpGate, PumpGoto
<1>27. ASSUME NEW g \in 1 .. MaxGeneration, PumpRead(g) PROVE (Separate /\ Pinned)'
  BY <1>27 DEF PumpRead, Admits, PumpGoto
<1>28. ASSUME NEW g \in 1 .. MaxGeneration, PumpExit(g) PROVE (Separate /\ Pinned)'
  BY <1>28 DEF PumpExit, PumpGoto
<1>29. ASSUME NEW g \in 1 .. MaxGeneration, PumpClear(g) PROVE (Separate /\ Pinned)'
  BY <1>29 DEF PumpClear, PumpGoto
<1>30. CASE NaturalEnd
  BY <1>30 DEF NaturalEnd
<1>31. CASE UNCHANGED vars
  BY <1>31 DEF vars
<1> QED
  BY <1>1, <1>2, <1>3, <1>4, <1>5, <1>6, <1>60, <1>7, <1>8, <1>9, <1>10, <1>11, <1>12, <1>13, <1>14, <1>15, <1>16, <1>17, <1>18, <1>19, <1>20, <1>21, <1>22, <1>23, <1>24, <1>25, <1>26, <1>27, <1>28, <1>29, <1>30, <1>31
     DEF Next, ReadStep, MutateStep, DeliveryStep, Pump

LEMMA InitP == Init => PInv
<1> SUFFICES ASSUME Init PROVE Delivery
  BY DEF PInv
<1> USE BindingsAssumption
<1>1. EventLoop
  BY DEF Init, EventLoop
<1>2. Numbered
  BY DEF Init, Numbered
<1>3. FlagFollows /\ FlagOwned
  BY DEF Init, FlagFollows, FlagOwned
<1>4. LateStore /\ Explained
  BY DEF Init, LateStore, Explained, Settled
<1> QED
  BY <1>1, <1>2, <1>3, <1>4 DEF Delivery

(* The event loop is in one call at a time, and the workers in a read.      *)
LEMMA EventLoopStep == IInv /\ binding = "napi" /\ [Next]_vars => EventLoop'
<1> SUFFICES ASSUME IInv /\ binding = "napi", [Next]_vars PROVE EventLoop'
  OBVIOUS
<1> USE BindingsAssumption DEF IInv, HInv, TypeOK, PInv, Delivery, EventLoop, napiVars, Reads, Mutators, Parks
<1>1. ASSUME NEW t \in Threads, NEW c \in CallsOf(t), Begin(t, c) PROVE EventLoop'
  <2>1. IF t = JS THEN c \in {"get", "read", "start", "stop", "onData", "offData"}
        ELSE c \in {"read", "tryRead"}
    BY DEF CallsOf
  <2>2. pc' = [pc EXCEPT ![t] = "enter"] /\ call' = [call EXCEPT ![t] = c] /\ pc[t] = "idle"
    BY <1>1 DEF Begin, Goto
  <2>3. c \in {"start", "stop", "onData", "offData"} => generation < MaxGeneration
    BY <1>1 DEF Begin
  <2>4. UNCHANGED <<stream, slot, active, generation, subscribed, pump, fatal>>
    BY <1>1 DEF Begin
  <2> QED
    BY <2>1, <2>2, <2>3, <2>4
<1>2. ASSUME NEW t \in Threads, EnterShared(t) PROVE EventLoop'
  BY <1>2 DEF EnterShared, Admits, Leave, Goto
<1>3. ASSUME NEW t \in Threads, GoEnter(t) PROVE EventLoop'
  BY <1>3 DEF GoEnter, Leave, Goto
<1>4. ASSUME NEW t \in Threads, GoRecheck(t) PROVE EventLoop'
  BY <1>4 DEF GoRecheck, Goto, Stay, Leave
<1>5. ASSUME NEW t \in Threads, NativeReturns(t) PROVE EventLoop'
  BY <1>5 DEF NativeReturns, ComeBack, Leave, Goto, Stay
<1>6. ASSUME NEW t \in Threads, ParkedReturns(t) PROVE EventLoop'
  BY <1>6 DEF ParkedReturns, ComeBack, Leave, Goto, Stay
<1>60. ASSUME NEW t \in Threads, Park(t) PROVE EventLoop'
  BY <1>60 DEF Park, Goto, Stay
<1>7. ASSUME NEW t \in Threads, Unwind(t) PROVE EventLoop'
  BY <1>7 DEF Unwind, Leave, Goto
<1>8. ASSUME NEW t \in Threads, Detach(t) PROVE EventLoop'
  BY <1>8 DEF Detach, Goto
<1>9. ASSUME NEW t \in Threads, Check(t) PROVE EventLoop'
  BY <1>9 DEF Check, Admits, Goto, Stay, Leave, Finish
<1>10. ASSUME NEW t \in Threads, Signal(t) PROVE EventLoop'
  BY <1>10 DEF Signal, Admits, RequestStop, Goto
<1>11. ASSUME NEW t \in Threads, Queue(t) PROVE EventLoop'
  BY <1>11 DEF Queue, Goto
<1>12. ASSUME NEW t \in Threads, Write(t) PROVE EventLoop'
  BY <1>12 DEF Write, Finish, Goto, Stay, Leave, CoreStart
<1>13. ASSUME NEW t \in Threads, Return(t) PROVE EventLoop'
  BY <1>13 DEF Return, Leave, Goto
<1>14. ASSUME NEW t \in Threads, GoStart(t) PROVE EventLoop'
  BY <1>14 DEF GoStart, CoreStart, Leave, Goto
<1>15. ASSUME NEW t \in Threads, GoStop(t) PROVE EventLoop'
  BY <1>15 DEF GoStop, Leave, Goto
<1>16. ASSUME NEW t \in Threads, GoClose(t) PROVE EventLoop'
  BY <1>16 DEF GoClose, Leave, Goto, RequestStop
<1>17. ASSUME NEW t \in Threads, GoDrain(t) PROVE EventLoop'
  BY <1>17 DEF GoDrain, Goto
<1>18. ASSUME NEW t \in Threads, GoFree(t) PROVE EventLoop'
  BY <1>18 DEF GoFree, Leave, Goto
<1>19. CASE Cancel
  BY <1>19 DEF Cancel, Goto
<1>20. CASE Unflag
  BY <1>20 DEF Unflag, Goto, Stay, Leave
<1>21. CASE Subscribe
  BY <1>21 DEF Subscribe, Goto
<1>22. CASE WantPump
  BY <1>22 DEF WantPump, Goto, Stay, Leave
<1>23. CASE RaiseFlag
  BY <1>23 DEF RaiseFlag, Goto
<1>24. CASE Spawn
  BY <1>24 DEF Spawn, Leave, Goto
<1>25. ASSUME NEW g \in 1 .. MaxGeneration, PumpLoop(g) PROVE EventLoop'
  BY <1>25 DEF PumpLoop, PumpGoto
<1>26. ASSUME NEW g \in 1 .. MaxGeneration, PumpGate(g) PROVE EventLoop'
  BY <1>26 DEF PumpGate, PumpGoto
<1>27. ASSUME NEW g \in 1 .. MaxGeneration, PumpRead(g) PROVE EventLoop'
  BY <1>27 DEF PumpRead, Admits, PumpGoto
<1>28. ASSUME NEW g \in 1 .. MaxGeneration, PumpExit(g) PROVE EventLoop'
  BY <1>28 DEF PumpExit, PumpGoto
<1>29. ASSUME NEW g \in 1 .. MaxGeneration, PumpClear(g) PROVE EventLoop'
  BY <1>29 DEF PumpClear, PumpGoto
<1>30. CASE NaturalEnd
  BY <1>30 DEF NaturalEnd
<1>31. CASE UNCHANGED vars
  BY <1>31 DEF vars
<1> QED
  BY <1>1, <1>2, <1>3, <1>4, <1>5, <1>6, <1>60, <1>7, <1>8, <1>9, <1>10, <1>11, <1>12, <1>13, <1>14, <1>15, <1>16, <1>17, <1>18, <1>19, <1>20, <1>21, <1>22, <1>23, <1>24, <1>25, <1>26, <1>27, <1>28, <1>29, <1>30, <1>31
     DEF Next, ReadStep, MutateStep, DeliveryStep, Pump

(* Generations are handed out in order.                                     *)
LEMMA NumberedStep == IInv /\ binding = "napi" /\ [Next]_vars => Numbered'
<1> SUFFICES ASSUME IInv /\ binding = "napi", [Next]_vars PROVE Numbered'
  OBVIOUS
<1> USE BindingsAssumption DEF IInv, HInv, TypeOK, PInv, Delivery, EventLoop, Numbered, napiVars, Reads, Mutators, Parks
<1>1. ASSUME NEW t \in Threads, NEW c \in CallsOf(t), Begin(t, c) PROVE Numbered'
  <2>1. IF t = JS THEN c \in {"get", "read", "start", "stop", "onData", "offData"}
        ELSE c \in {"read", "tryRead"}
    BY DEF CallsOf
  <2>2. pc' = [pc EXCEPT ![t] = "enter"] /\ call' = [call EXCEPT ![t] = c] /\ pc[t] = "idle"
    BY <1>1 DEF Begin, Goto
  <2>3. c \in {"start", "stop", "onData", "offData"} => generation < MaxGeneration
    BY <1>1 DEF Begin
  <2>4. UNCHANGED <<stream, slot, active, generation, subscribed, pump, fatal>>
    BY <1>1 DEF Begin
  <2> QED
    BY <2>1, <2>2, <2>3, <2>4
<1>2. ASSUME NEW t \in Threads, EnterShared(t) PROVE Numbered'
  BY <1>2 DEF EnterShared, Admits, Leave, Goto
<1>3. ASSUME NEW t \in Threads, GoEnter(t) PROVE Numbered'
  BY <1>3 DEF GoEnter, Leave, Goto
<1>4. ASSUME NEW t \in Threads, GoRecheck(t) PROVE Numbered'
  BY <1>4 DEF GoRecheck, Goto, Stay, Leave
<1>5. ASSUME NEW t \in Threads, NativeReturns(t) PROVE Numbered'
  BY <1>5 DEF NativeReturns, ComeBack, Leave, Goto, Stay
<1>6. ASSUME NEW t \in Threads, ParkedReturns(t) PROVE Numbered'
  BY <1>6 DEF ParkedReturns, ComeBack, Leave, Goto, Stay
<1>60. ASSUME NEW t \in Threads, Park(t) PROVE Numbered'
  BY <1>60 DEF Park, Goto, Stay
<1>7. ASSUME NEW t \in Threads, Unwind(t) PROVE Numbered'
  BY <1>7 DEF Unwind, Leave, Goto
<1>8. ASSUME NEW t \in Threads, Detach(t) PROVE Numbered'
  BY <1>8 DEF Detach, Goto
<1>9. ASSUME NEW t \in Threads, Check(t) PROVE Numbered'
  BY <1>9 DEF Check, Admits, Goto, Stay, Leave, Finish
<1>10. ASSUME NEW t \in Threads, Signal(t) PROVE Numbered'
  BY <1>10 DEF Signal, Admits, RequestStop, Goto
<1>11. ASSUME NEW t \in Threads, Queue(t) PROVE Numbered'
  BY <1>11 DEF Queue, Goto
<1>12. ASSUME NEW t \in Threads, Write(t) PROVE Numbered'
  BY <1>12 DEF Write, Finish, Goto, Stay, Leave, CoreStart
<1>13. ASSUME NEW t \in Threads, Return(t) PROVE Numbered'
  BY <1>13 DEF Return, Leave, Goto
<1>14. ASSUME NEW t \in Threads, GoStart(t) PROVE Numbered'
  BY <1>14 DEF GoStart, CoreStart, Leave, Goto
<1>15. ASSUME NEW t \in Threads, GoStop(t) PROVE Numbered'
  BY <1>15 DEF GoStop, Leave, Goto
<1>16. ASSUME NEW t \in Threads, GoClose(t) PROVE Numbered'
  BY <1>16 DEF GoClose, Leave, Goto, RequestStop
<1>17. ASSUME NEW t \in Threads, GoDrain(t) PROVE Numbered'
  BY <1>17 DEF GoDrain, Goto
<1>18. ASSUME NEW t \in Threads, GoFree(t) PROVE Numbered'
  BY <1>18 DEF GoFree, Leave, Goto
<1>19. CASE Cancel
  BY <1>19 DEF Cancel, Goto
<1>20. CASE Unflag
  BY <1>20 DEF Unflag, Goto, Stay, Leave
<1>21. CASE Subscribe
  BY <1>21 DEF Subscribe, Goto
<1>22. CASE WantPump
  BY <1>22 DEF WantPump, Goto, Stay, Leave
<1>23. CASE RaiseFlag
  BY <1>23 DEF RaiseFlag, Goto
<1>24. CASE Spawn
  BY <1>24 DEF Spawn, Leave, Goto
<1>25. ASSUME NEW g \in 1 .. MaxGeneration, PumpLoop(g) PROVE Numbered'
  BY <1>25 DEF PumpLoop, PumpGoto
<1>26. ASSUME NEW g \in 1 .. MaxGeneration, PumpGate(g) PROVE Numbered'
  BY <1>26 DEF PumpGate, PumpGoto
<1>27. ASSUME NEW g \in 1 .. MaxGeneration, PumpRead(g) PROVE Numbered'
  BY <1>27 DEF PumpRead, Admits, PumpGoto
<1>28. ASSUME NEW g \in 1 .. MaxGeneration, PumpExit(g) PROVE Numbered'
  BY <1>28 DEF PumpExit, PumpGoto
<1>29. ASSUME NEW g \in 1 .. MaxGeneration, PumpClear(g) PROVE Numbered'
  BY <1>29 DEF PumpClear, PumpGoto
<1>30. CASE NaturalEnd
  BY <1>30 DEF NaturalEnd
<1>31. CASE UNCHANGED vars
  BY <1>31 DEF vars
<1> QED
  BY <1>1, <1>2, <1>3, <1>4, <1>5, <1>6, <1>60, <1>7, <1>8, <1>9, <1>10, <1>11, <1>12, <1>13, <1>14, <1>15, <1>16, <1>17, <1>18, <1>19, <1>20, <1>21, <1>22, <1>23, <1>24, <1>25, <1>26, <1>27, <1>28, <1>29, <1>30, <1>31
     DEF Next, ReadStep, MutateStep, DeliveryStep, Pump

(* A lowered stream lowers the flag.                                        *)
LEMMA FlagFollowsStep == IInv /\ binding = "napi" /\ [Next]_vars => FlagFollows'
<1> SUFFICES ASSUME IInv /\ binding = "napi", [Next]_vars PROVE FlagFollows'
  OBVIOUS
<1> USE BindingsAssumption DEF IInv, HInv, TypeOK, PInv, Delivery, EventLoop, Numbered, FlagFollows, napiVars, Reads, Mutators, Parks
<1>1. ASSUME NEW t \in Threads, NEW c \in CallsOf(t), Begin(t, c) PROVE FlagFollows'
  <2>1. IF t = JS THEN c \in {"get", "read", "start", "stop", "onData", "offData"}
        ELSE c \in {"read", "tryRead"}
    BY DEF CallsOf
  <2>2. pc' = [pc EXCEPT ![t] = "enter"] /\ call' = [call EXCEPT ![t] = c] /\ pc[t] = "idle"
    BY <1>1 DEF Begin, Goto
  <2>3. c \in {"start", "stop", "onData", "offData"} => generation < MaxGeneration
    BY <1>1 DEF Begin
  <2>4. UNCHANGED <<stream, slot, active, generation, subscribed, pump, fatal>>
    BY <1>1 DEF Begin
  <2> QED
    BY <2>1, <2>2, <2>3, <2>4
<1>2. ASSUME NEW t \in Threads, EnterShared(t) PROVE FlagFollows'
  BY <1>2 DEF EnterShared, Admits, Leave, Goto
<1>3. ASSUME NEW t \in Threads, GoEnter(t) PROVE FlagFollows'
  BY <1>3 DEF GoEnter, Leave, Goto
<1>4. ASSUME NEW t \in Threads, GoRecheck(t) PROVE FlagFollows'
  BY <1>4 DEF GoRecheck, Goto, Stay, Leave
<1>5. ASSUME NEW t \in Threads, NativeReturns(t) PROVE FlagFollows'
  BY <1>5 DEF NativeReturns, ComeBack, Leave, Goto, Stay
<1>6. ASSUME NEW t \in Threads, ParkedReturns(t) PROVE FlagFollows'
  BY <1>6 DEF ParkedReturns, ComeBack, Leave, Goto, Stay
<1>60. ASSUME NEW t \in Threads, Park(t) PROVE FlagFollows'
  BY <1>60 DEF Park, Goto, Stay
<1>7. ASSUME NEW t \in Threads, Unwind(t) PROVE FlagFollows'
  BY <1>7 DEF Unwind, Leave, Goto
<1>8. ASSUME NEW t \in Threads, Detach(t) PROVE FlagFollows'
  BY <1>8 DEF Detach, Goto
<1>9. ASSUME NEW t \in Threads, Check(t) PROVE FlagFollows'
  BY <1>9 DEF Check, Admits, Goto, Stay, Leave, Finish
<1>10. ASSUME NEW t \in Threads, Signal(t) PROVE FlagFollows'
  BY <1>10 DEF Signal, Admits, RequestStop, Goto
<1>11. ASSUME NEW t \in Threads, Queue(t) PROVE FlagFollows'
  BY <1>11 DEF Queue, Goto
<1>12. ASSUME NEW t \in Threads, Write(t) PROVE FlagFollows'
  BY <1>12 DEF Write, Finish, Goto, Stay, Leave, CoreStart
<1>13. ASSUME NEW t \in Threads, Return(t) PROVE FlagFollows'
  BY <1>13 DEF Return, Leave, Goto
<1>14. ASSUME NEW t \in Threads, GoStart(t) PROVE FlagFollows'
  BY <1>14 DEF GoStart, CoreStart, Leave, Goto
<1>15. ASSUME NEW t \in Threads, GoStop(t) PROVE FlagFollows'
  BY <1>15 DEF GoStop, Leave, Goto
<1>16. ASSUME NEW t \in Threads, GoClose(t) PROVE FlagFollows'
  BY <1>16 DEF GoClose, Leave, Goto, RequestStop
<1>17. ASSUME NEW t \in Threads, GoDrain(t) PROVE FlagFollows'
  BY <1>17 DEF GoDrain, Goto
<1>18. ASSUME NEW t \in Threads, GoFree(t) PROVE FlagFollows'
  BY <1>18 DEF GoFree, Leave, Goto
<1>19. CASE Cancel
  BY <1>19 DEF Cancel, Goto
<1>20. CASE Unflag
  BY <1>20 DEF Unflag, Goto, Stay, Leave
<1>21. CASE Subscribe
  BY <1>21 DEF Subscribe, Goto
<1>22. CASE WantPump
  BY <1>22 DEF WantPump, Goto, Stay, Leave
<1>23. CASE RaiseFlag
  BY <1>23 DEF RaiseFlag, Goto
<1>24. CASE Spawn
  BY <1>24 DEF Spawn, Leave, Goto
<1>25. ASSUME NEW g \in 1 .. MaxGeneration, PumpLoop(g) PROVE FlagFollows'
  BY <1>25 DEF PumpLoop, PumpGoto
<1>26. ASSUME NEW g \in 1 .. MaxGeneration, PumpGate(g) PROVE FlagFollows'
  BY <1>26 DEF PumpGate, PumpGoto
<1>27. ASSUME NEW g \in 1 .. MaxGeneration, PumpRead(g) PROVE FlagFollows'
  BY <1>27 DEF PumpRead, Admits, PumpGoto
<1>28. ASSUME NEW g \in 1 .. MaxGeneration, PumpExit(g) PROVE FlagFollows'
  BY <1>28 DEF PumpExit, PumpGoto
<1>29. ASSUME NEW g \in 1 .. MaxGeneration, PumpClear(g) PROVE FlagFollows'
  BY <1>29 DEF PumpClear, PumpGoto
<1>30. CASE NaturalEnd
  BY <1>30 DEF NaturalEnd
<1>31. CASE UNCHANGED vars
  BY <1>31 DEF vars
<1> QED
  BY <1>1, <1>2, <1>3, <1>4, <1>5, <1>6, <1>60, <1>7, <1>8, <1>9, <1>10, <1>11, <1>12, <1>13, <1>14, <1>15, <1>16, <1>17, <1>18, <1>19, <1>20, <1>21, <1>22, <1>23, <1>24, <1>25, <1>26, <1>27, <1>28, <1>29, <1>30, <1>31
     DEF Next, ReadStep, MutateStep, DeliveryStep, Pump

(* A raised flag keeps its owner.                                           *)
LEMMA FlagOwnedStep == IInv /\ binding = "napi" /\ [Next]_vars => FlagOwned'
<1> SUFFICES ASSUME IInv /\ binding = "napi", [Next]_vars PROVE FlagOwned'
  OBVIOUS
<1> USE BindingsAssumption DEF IInv, HInv, TypeOK, PInv, Delivery, EventLoop, Numbered, FlagFollows, FlagOwned, Alive, napiVars, Reads, Mutators, Parks
<1>1. ASSUME NEW t \in Threads, NEW c \in CallsOf(t), Begin(t, c) PROVE FlagOwned'
  <2>1. IF t = JS THEN c \in {"get", "read", "start", "stop", "onData", "offData"}
        ELSE c \in {"read", "tryRead"}
    BY DEF CallsOf
  <2>2. pc' = [pc EXCEPT ![t] = "enter"] /\ call' = [call EXCEPT ![t] = c] /\ pc[t] = "idle"
    BY <1>1 DEF Begin, Goto
  <2>3. c \in {"start", "stop", "onData", "offData"} => generation < MaxGeneration
    BY <1>1 DEF Begin
  <2>4. UNCHANGED <<stream, slot, active, generation, subscribed, pump, fatal>>
    BY <1>1 DEF Begin
  <2> QED
    BY <2>1, <2>2, <2>3, <2>4
<1>2. ASSUME NEW t \in Threads, EnterShared(t) PROVE FlagOwned'
  BY <1>2 DEF EnterShared, Admits, Leave, Goto
<1>3. ASSUME NEW t \in Threads, GoEnter(t) PROVE FlagOwned'
  BY <1>3 DEF GoEnter, Leave, Goto
<1>4. ASSUME NEW t \in Threads, GoRecheck(t) PROVE FlagOwned'
  BY <1>4 DEF GoRecheck, Goto, Stay, Leave
<1>5. ASSUME NEW t \in Threads, NativeReturns(t) PROVE FlagOwned'
  BY <1>5 DEF NativeReturns, ComeBack, Leave, Goto, Stay
<1>6. ASSUME NEW t \in Threads, ParkedReturns(t) PROVE FlagOwned'
  BY <1>6 DEF ParkedReturns, ComeBack, Leave, Goto, Stay
<1>60. ASSUME NEW t \in Threads, Park(t) PROVE FlagOwned'
  BY <1>60 DEF Park, Goto, Stay
<1>7. ASSUME NEW t \in Threads, Unwind(t) PROVE FlagOwned'
  BY <1>7 DEF Unwind, Leave, Goto
<1>8. ASSUME NEW t \in Threads, Detach(t) PROVE FlagOwned'
  BY <1>8 DEF Detach, Goto
<1>9. ASSUME NEW t \in Threads, Check(t) PROVE FlagOwned'
  BY <1>9 DEF Check, Admits, Goto, Stay, Leave, Finish
<1>10. ASSUME NEW t \in Threads, Signal(t) PROVE FlagOwned'
  BY <1>10 DEF Signal, Admits, RequestStop, Goto
<1>11. ASSUME NEW t \in Threads, Queue(t) PROVE FlagOwned'
  BY <1>11 DEF Queue, Goto
<1>12. ASSUME NEW t \in Threads, Write(t) PROVE FlagOwned'
  BY <1>12 DEF Write, Finish, Goto, Stay, Leave, CoreStart
<1>13. ASSUME NEW t \in Threads, Return(t) PROVE FlagOwned'
  BY <1>13 DEF Return, Leave, Goto
<1>14. ASSUME NEW t \in Threads, GoStart(t) PROVE FlagOwned'
  BY <1>14 DEF GoStart, CoreStart, Leave, Goto
<1>15. ASSUME NEW t \in Threads, GoStop(t) PROVE FlagOwned'
  BY <1>15 DEF GoStop, Leave, Goto
<1>16. ASSUME NEW t \in Threads, GoClose(t) PROVE FlagOwned'
  BY <1>16 DEF GoClose, Leave, Goto, RequestStop
<1>17. ASSUME NEW t \in Threads, GoDrain(t) PROVE FlagOwned'
  BY <1>17 DEF GoDrain, Goto
<1>18. ASSUME NEW t \in Threads, GoFree(t) PROVE FlagOwned'
  BY <1>18 DEF GoFree, Leave, Goto
<1>19. CASE Cancel
  BY <1>19 DEF Cancel, Goto
<1>20. CASE Unflag
  BY <1>20 DEF Unflag, Goto, Stay, Leave
<1>21. CASE Subscribe
  BY <1>21 DEF Subscribe, Goto
<1>22. CASE WantPump
  BY <1>22 DEF WantPump, Goto, Stay, Leave
<1>23. CASE RaiseFlag
  BY <1>23 DEF RaiseFlag, Goto
<1>24. CASE Spawn
  BY <1>24 DEF Spawn, Leave, Goto
<1>25. ASSUME NEW g \in 1 .. MaxGeneration, PumpLoop(g) PROVE FlagOwned'
  BY <1>25 DEF PumpLoop, PumpGoto
<1>26. ASSUME NEW g \in 1 .. MaxGeneration, PumpGate(g) PROVE FlagOwned'
  BY <1>26 DEF PumpGate, PumpGoto
<1>27. ASSUME NEW g \in 1 .. MaxGeneration, PumpRead(g) PROVE FlagOwned'
  <2>1. UNCHANGED <<stream, active, generation, pc>> /\ pump[g] = "read"
    BY <1>27 DEF PumpRead, PumpGoto
  <2>2. CASE stream # "running"
    BY <2>1, <2>2
  <2>3. CASE stream = "running"
    <3>1. pump' = [pump EXCEPT ![g] = "loop"]
      BY <1>27, <2>3 DEF PumpRead, PumpGoto
    <3> QED
      BY <2>1, <3>1
  <2> QED
    BY <2>2, <2>3
<1>28. ASSUME NEW g \in 1 .. MaxGeneration, PumpExit(g) PROVE FlagOwned'
  BY <1>28 DEF PumpExit, PumpGoto
<1>29. ASSUME NEW g \in 1 .. MaxGeneration, PumpClear(g) PROVE FlagOwned'
  BY <1>29 DEF PumpClear, PumpGoto
<1>30. CASE NaturalEnd
  BY <1>30 DEF NaturalEnd
<1>31. CASE UNCHANGED vars
  BY <1>31 DEF vars
<1> QED
  BY <1>1, <1>2, <1>3, <1>4, <1>5, <1>6, <1>60, <1>7, <1>8, <1>9, <1>10, <1>11, <1>12, <1>13, <1>14, <1>15, <1>16, <1>17, <1>18, <1>19, <1>20, <1>21, <1>22, <1>23, <1>24, <1>25, <1>26, <1>27, <1>28, <1>29, <1>30, <1>31
     DEF Next, ReadStep, MutateStep, DeliveryStep, Pump

(* A flag lowered under its owner leaves a trace of the late store.         *)
LEMMA LateStoreStep == IInv /\ binding = "napi" /\ [Next]_vars => LateStore'
<1> SUFFICES ASSUME IInv /\ binding = "napi", [Next]_vars PROVE LateStore'
  OBVIOUS
<1> USE BindingsAssumption DEF IInv, HInv, TypeOK, PInv, Delivery, EventLoop, Numbered, FlagFollows, LateStore, Overtaken, Alive, napiVars, Reads, Mutators, Parks
<1>1. ASSUME NEW t \in Threads, NEW c \in CallsOf(t), Begin(t, c) PROVE LateStore'
  <2>1. IF t = JS THEN c \in {"get", "read", "start", "stop", "onData", "offData"}
        ELSE c \in {"read", "tryRead"}
    BY DEF CallsOf
  <2>2. pc' = [pc EXCEPT ![t] = "enter"] /\ call' = [call EXCEPT ![t] = c] /\ pc[t] = "idle"
    BY <1>1 DEF Begin, Goto
  <2>3. c \in {"start", "stop", "onData", "offData"} => generation < MaxGeneration
    BY <1>1 DEF Begin
  <2>4. UNCHANGED <<stream, slot, active, generation, subscribed, pump, fatal>>
    BY <1>1 DEF Begin
  <2> QED
    BY <2>1, <2>2, <2>3, <2>4
<1>2. ASSUME NEW t \in Threads, EnterShared(t) PROVE LateStore'
  BY <1>2 DEF EnterShared, Admits, Leave, Goto
<1>3. ASSUME NEW t \in Threads, GoEnter(t) PROVE LateStore'
  BY <1>3 DEF GoEnter, Leave, Goto
<1>4. ASSUME NEW t \in Threads, GoRecheck(t) PROVE LateStore'
  BY <1>4 DEF GoRecheck, Goto, Stay, Leave
<1>5. ASSUME NEW t \in Threads, NativeReturns(t) PROVE LateStore'
  BY <1>5 DEF NativeReturns, ComeBack, Leave, Goto, Stay
<1>6. ASSUME NEW t \in Threads, ParkedReturns(t) PROVE LateStore'
  BY <1>6 DEF ParkedReturns, ComeBack, Leave, Goto, Stay
<1>60. ASSUME NEW t \in Threads, Park(t) PROVE LateStore'
  BY <1>60 DEF Park, Goto, Stay
<1>7. ASSUME NEW t \in Threads, Unwind(t) PROVE LateStore'
  BY <1>7 DEF Unwind, Leave, Goto
<1>8. ASSUME NEW t \in Threads, Detach(t) PROVE LateStore'
  BY <1>8 DEF Detach, Goto
<1>9. ASSUME NEW t \in Threads, Check(t) PROVE LateStore'
  BY <1>9 DEF Check, Admits, Goto, Stay, Leave, Finish
<1>10. ASSUME NEW t \in Threads, Signal(t) PROVE LateStore'
  BY <1>10 DEF Signal, Admits, RequestStop, Goto
<1>11. ASSUME NEW t \in Threads, Queue(t) PROVE LateStore'
  BY <1>11 DEF Queue, Goto
<1>12. ASSUME NEW t \in Threads, Write(t) PROVE LateStore'
  BY <1>12 DEF Write, Finish, Goto, Stay, Leave, CoreStart
<1>13. ASSUME NEW t \in Threads, Return(t) PROVE LateStore'
  BY <1>13 DEF Return, Leave, Goto
<1>14. ASSUME NEW t \in Threads, GoStart(t) PROVE LateStore'
  BY <1>14 DEF GoStart, CoreStart, Leave, Goto
<1>15. ASSUME NEW t \in Threads, GoStop(t) PROVE LateStore'
  BY <1>15 DEF GoStop, Leave, Goto
<1>16. ASSUME NEW t \in Threads, GoClose(t) PROVE LateStore'
  BY <1>16 DEF GoClose, Leave, Goto, RequestStop
<1>17. ASSUME NEW t \in Threads, GoDrain(t) PROVE LateStore'
  BY <1>17 DEF GoDrain, Goto
<1>18. ASSUME NEW t \in Threads, GoFree(t) PROVE LateStore'
  BY <1>18 DEF GoFree, Leave, Goto
<1>19. CASE Cancel
  BY <1>19 DEF Cancel, Goto
<1>20. CASE Unflag
  BY <1>20 DEF Unflag, Goto, Stay, Leave
<1>21. CASE Subscribe
  BY <1>21 DEF Subscribe, Goto
<1>22. CASE WantPump
  BY <1>22 DEF WantPump, Goto, Stay, Leave
<1>23. CASE RaiseFlag
  BY <1>23 DEF RaiseFlag, Goto
<1>24. CASE Spawn
  BY <1>24 DEF Spawn, Leave, Goto
<1>25. ASSUME NEW g \in 1 .. MaxGeneration, PumpLoop(g) PROVE LateStore'
  BY <1>25 DEF PumpLoop, PumpGoto
<1>26. ASSUME NEW g \in 1 .. MaxGeneration, PumpGate(g) PROVE LateStore'
  BY <1>26 DEF PumpGate, PumpGoto
<1>27. ASSUME NEW g \in 1 .. MaxGeneration, PumpRead(g) PROVE LateStore'
  BY <1>27 DEF PumpRead, Admits, PumpGoto
<1>28. ASSUME NEW g \in 1 .. MaxGeneration, PumpExit(g) PROVE LateStore'
  BY <1>28 DEF PumpExit, PumpGoto
<1>29. ASSUME NEW g \in 1 .. MaxGeneration, PumpClear(g) PROVE LateStore'
  BY <1>29 DEF PumpClear, PumpGoto
<1>30. CASE NaturalEnd
  BY <1>30 DEF NaturalEnd
<1>31. CASE UNCHANGED vars
  BY <1>31 DEF vars
<1> QED
  BY <1>1, <1>2, <1>3, <1>4, <1>5, <1>6, <1>60, <1>7, <1>8, <1>9, <1>10, <1>11, <1>12, <1>13, <1>14, <1>15, <1>16, <1>17, <1>18, <1>19, <1>20, <1>21, <1>22, <1>23, <1>24, <1>25, <1>26, <1>27, <1>28, <1>29, <1>30, <1>31
     DEF Next, ReadStep, MutateStep, DeliveryStep, Pump

(* Between two calls, a lowered flag is accounted for.                      *)
LEMMA ExplainedStep == IInv /\ binding = "napi" /\ [Next]_vars => Explained'
<1> SUFFICES ASSUME IInv /\ binding = "napi", [Next]_vars PROVE Explained'
  OBVIOUS
<1> USE BindingsAssumption DEF IInv, HInv, TypeOK, PInv, Delivery, EventLoop, Numbered, FlagFollows, FlagOwned, LateStore, Overtaken, Settled, Explained, Alive, napiVars, Reads, Mutators, Parks
<1>1. ASSUME NEW t \in Threads, NEW c \in CallsOf(t), Begin(t, c) PROVE Explained'
  <2>1. IF t = JS THEN c \in {"get", "read", "start", "stop", "onData", "offData"}
        ELSE c \in {"read", "tryRead"}
    BY DEF CallsOf
  <2>2. pc' = [pc EXCEPT ![t] = "enter"] /\ call' = [call EXCEPT ![t] = c] /\ pc[t] = "idle"
    BY <1>1 DEF Begin, Goto
  <2>3. c \in {"start", "stop", "onData", "offData"} => generation < MaxGeneration
    BY <1>1 DEF Begin
  <2>4. UNCHANGED <<stream, slot, active, generation, subscribed, pump, fatal>>
    BY <1>1 DEF Begin
  <2> QED
    BY <2>1, <2>2, <2>3, <2>4
<1>2. ASSUME NEW t \in Threads, EnterShared(t) PROVE Explained'
  BY <1>2 DEF EnterShared, Admits, Leave, Goto
<1>3. ASSUME NEW t \in Threads, GoEnter(t) PROVE Explained'
  BY <1>3 DEF GoEnter, Leave, Goto
<1>4. ASSUME NEW t \in Threads, GoRecheck(t) PROVE Explained'
  BY <1>4 DEF GoRecheck, Goto, Stay, Leave
<1>5. ASSUME NEW t \in Threads, NativeReturns(t) PROVE Explained'
  BY <1>5 DEF NativeReturns, ComeBack, Leave, Goto, Stay
<1>6. ASSUME NEW t \in Threads, ParkedReturns(t) PROVE Explained'
  BY <1>6 DEF ParkedReturns, ComeBack, Leave, Goto, Stay
<1>60. ASSUME NEW t \in Threads, Park(t) PROVE Explained'
  BY <1>60 DEF Park, Goto, Stay
<1>7. ASSUME NEW t \in Threads, Unwind(t) PROVE Explained'
  BY <1>7 DEF Unwind, Leave, Goto
<1>8. ASSUME NEW t \in Threads, Detach(t) PROVE Explained'
  BY <1>8 DEF Detach, Goto
<1>9. ASSUME NEW t \in Threads, Check(t) PROVE Explained'
  BY <1>9 DEF Check, Admits, Goto, Stay, Leave, Finish
<1>10. ASSUME NEW t \in Threads, Signal(t) PROVE Explained'
  BY <1>10 DEF Signal, Admits, RequestStop, Goto
<1>11. ASSUME NEW t \in Threads, Queue(t) PROVE Explained'
  BY <1>11 DEF Queue, Goto
<1>12. ASSUME NEW t \in Threads, Write(t) PROVE Explained'
  BY <1>12 DEF Write, Finish, Goto, Stay, Leave, CoreStart
<1>13. ASSUME NEW t \in Threads, Return(t) PROVE Explained'
  BY <1>13 DEF Return, Leave, Goto
<1>14. ASSUME NEW t \in Threads, GoStart(t) PROVE Explained'
  BY <1>14 DEF GoStart, CoreStart, Leave, Goto
<1>15. ASSUME NEW t \in Threads, GoStop(t) PROVE Explained'
  BY <1>15 DEF GoStop, Leave, Goto
<1>16. ASSUME NEW t \in Threads, GoClose(t) PROVE Explained'
  BY <1>16 DEF GoClose, Leave, Goto, RequestStop
<1>17. ASSUME NEW t \in Threads, GoDrain(t) PROVE Explained'
  BY <1>17 DEF GoDrain, Goto
<1>18. ASSUME NEW t \in Threads, GoFree(t) PROVE Explained'
  BY <1>18 DEF GoFree, Leave, Goto
<1>19. CASE Cancel
  BY <1>19 DEF Cancel, Goto
<1>20. CASE Unflag
  BY <1>20 DEF Unflag, Goto, Stay, Leave
<1>21. CASE Subscribe
  BY <1>21 DEF Subscribe, Goto
<1>22. CASE WantPump
  BY <1>22 DEF WantPump, Goto, Stay, Leave
<1>23. CASE RaiseFlag
  BY <1>23 DEF RaiseFlag, Goto
<1>24. CASE Spawn
  BY <1>24 DEF Spawn, Leave, Goto
<1>25. ASSUME NEW g \in 1 .. MaxGeneration, PumpLoop(g) PROVE Explained'
  BY <1>25 DEF PumpLoop, PumpGoto
<1>26. ASSUME NEW g \in 1 .. MaxGeneration, PumpGate(g) PROVE Explained'
  BY <1>26 DEF PumpGate, PumpGoto
<1>27. ASSUME NEW g \in 1 .. MaxGeneration, PumpRead(g) PROVE Explained'
  <2>1. UNCHANGED <<stream, active, generation, subscribed, pc, call>> /\ pump[g] = "read"
    BY <1>27 DEF PumpRead, PumpGoto
  <2>2. CASE stream # "running"
    BY <2>1, <2>2
  <2>3. CASE stream = "running"
    <3>1. pump' = [pump EXCEPT ![g] = "loop"]
      BY <1>27, <2>3 DEF PumpRead, PumpGoto
    <3>2. fatal \subseteq fatal'
      BY <1>27 DEF PumpRead
    <3>3. Overtaken(generation) => Overtaken(generation)'
      BY <2>1, <3>1, <3>2
    <3>4. generation > 0 /\ pump[generation] = "refused" => pump'[generation] = "refused"
      BY <2>1, <3>1
    <3> QED
      BY <2>1, <3>3, <3>4
  <2> QED
    BY <2>2, <2>3
<1>28. ASSUME NEW g \in 1 .. MaxGeneration, PumpExit(g) PROVE Explained'
  BY <1>28 DEF PumpExit, PumpGoto
<1>29. ASSUME NEW g \in 1 .. MaxGeneration, PumpClear(g) PROVE Explained'
  BY <1>29 DEF PumpClear, PumpGoto
<1>30. CASE NaturalEnd
  BY <1>30 DEF NaturalEnd
<1>31. CASE UNCHANGED vars
  BY <1>31 DEF vars
<1> QED
  BY <1>1, <1>2, <1>3, <1>4, <1>5, <1>6, <1>60, <1>7, <1>8, <1>9, <1>10, <1>11, <1>12, <1>13, <1>14, <1>15, <1>16, <1>17, <1>18, <1>19, <1>20, <1>21, <1>22, <1>23, <1>24, <1>25, <1>26, <1>27, <1>28, <1>29, <1>30, <1>31
     DEF Next, ReadStep, MutateStep, DeliveryStep, Pump

(* No step makes one binding another.                                       *)
LEMMA SameBinding == [Next]_vars => UNCHANGED binding
<1> SUFFICES ASSUME [Next]_vars PROVE UNCHANGED binding
  OBVIOUS
<1>1. ASSUME NEW t \in Threads, NEW c \in CallsOf(t), Begin(t, c) PROVE UNCHANGED binding
  BY <1>1 DEF Begin
<1>2. ASSUME NEW t \in Threads, EnterShared(t) PROVE UNCHANGED binding
  BY <1>2 DEF EnterShared, Admits, Leave, Goto
<1>3. ASSUME NEW t \in Threads, GoEnter(t) PROVE UNCHANGED binding
  BY <1>3 DEF GoEnter, Leave, Goto
<1>4. ASSUME NEW t \in Threads, GoRecheck(t) PROVE UNCHANGED binding
  BY <1>4 DEF GoRecheck, Goto, Stay, Leave
<1>5. ASSUME NEW t \in Threads, NativeReturns(t) PROVE UNCHANGED binding
  BY <1>5 DEF NativeReturns, ComeBack, Leave, Goto, Stay
<1>6. ASSUME NEW t \in Threads, ParkedReturns(t) PROVE UNCHANGED binding
  BY <1>6 DEF ParkedReturns, ComeBack, Leave, Goto, Stay
<1>60. ASSUME NEW t \in Threads, Park(t) PROVE UNCHANGED binding
  BY <1>60 DEF Park, Goto, Stay
<1>7. ASSUME NEW t \in Threads, Unwind(t) PROVE UNCHANGED binding
  BY <1>7 DEF Unwind, Leave, Goto
<1>8. ASSUME NEW t \in Threads, Detach(t) PROVE UNCHANGED binding
  BY <1>8 DEF Detach, Goto
<1>9. ASSUME NEW t \in Threads, Check(t) PROVE UNCHANGED binding
  BY <1>9 DEF Check, Admits, Goto, Stay, Leave, Finish
<1>10. ASSUME NEW t \in Threads, Signal(t) PROVE UNCHANGED binding
  BY <1>10 DEF Signal, Admits, RequestStop, Goto
<1>11. ASSUME NEW t \in Threads, Queue(t) PROVE UNCHANGED binding
  BY <1>11 DEF Queue, Goto
<1>12. ASSUME NEW t \in Threads, Write(t) PROVE UNCHANGED binding
  BY <1>12 DEF Write, Finish, Goto, Stay, Leave, CoreStart
<1>13. ASSUME NEW t \in Threads, Return(t) PROVE UNCHANGED binding
  BY <1>13 DEF Return, Leave, Goto
<1>14. ASSUME NEW t \in Threads, GoStart(t) PROVE UNCHANGED binding
  BY <1>14 DEF GoStart, CoreStart, Leave, Goto
<1>15. ASSUME NEW t \in Threads, GoStop(t) PROVE UNCHANGED binding
  BY <1>15 DEF GoStop, Leave, Goto
<1>16. ASSUME NEW t \in Threads, GoClose(t) PROVE UNCHANGED binding
  BY <1>16 DEF GoClose, Leave, Goto, RequestStop
<1>17. ASSUME NEW t \in Threads, GoDrain(t) PROVE UNCHANGED binding
  BY <1>17 DEF GoDrain, Goto
<1>18. ASSUME NEW t \in Threads, GoFree(t) PROVE UNCHANGED binding
  BY <1>18 DEF GoFree, Leave, Goto
<1>19. CASE Cancel
  BY <1>19 DEF Cancel, Goto
<1>20. CASE Unflag
  BY <1>20 DEF Unflag, Goto, Stay, Leave
<1>21. CASE Subscribe
  BY <1>21 DEF Subscribe, Goto
<1>22. CASE WantPump
  BY <1>22 DEF WantPump, Goto, Stay, Leave
<1>23. CASE RaiseFlag
  BY <1>23 DEF RaiseFlag, Goto
<1>24. CASE Spawn
  BY <1>24 DEF Spawn, Leave, Goto
<1>25. ASSUME NEW g \in 1 .. MaxGeneration, PumpLoop(g) PROVE UNCHANGED binding
  BY <1>25 DEF PumpLoop, PumpGoto
<1>26. ASSUME NEW g \in 1 .. MaxGeneration, PumpGate(g) PROVE UNCHANGED binding
  BY <1>26 DEF PumpGate, PumpGoto
<1>27. ASSUME NEW g \in 1 .. MaxGeneration, PumpRead(g) PROVE UNCHANGED binding
  BY <1>27 DEF PumpRead, Admits, PumpGoto
<1>28. ASSUME NEW g \in 1 .. MaxGeneration, PumpExit(g) PROVE UNCHANGED binding
  BY <1>28 DEF PumpExit, PumpGoto
<1>29. ASSUME NEW g \in 1 .. MaxGeneration, PumpClear(g) PROVE UNCHANGED binding
  BY <1>29 DEF PumpClear, PumpGoto
<1>30. CASE NaturalEnd
  BY <1>30 DEF NaturalEnd
<1>31. CASE UNCHANGED vars
  BY <1>31 DEF vars
<1> QED
  BY <1>1, <1>2, <1>3, <1>4, <1>5, <1>6, <1>60, <1>7, <1>8, <1>9, <1>10, <1>11, <1>12, <1>13, <1>14, <1>15, <1>16, <1>17, <1>18, <1>19, <1>20, <1>21, <1>22, <1>23, <1>24, <1>25, <1>26, <1>27, <1>28, <1>29, <1>30, <1>31
     DEF Next, ReadStep, MutateStep, DeliveryStep, Pump

LEMMA Inductive == IInv /\ [Next]_vars => IInv'
<1> SUFFICES ASSUME IInv, [Next]_vars PROVE IInv'
  OBVIOUS
<1>1. HInv'
  BY TypeStep, PinStep DEF IInv, HInv
<1>2. PInv'
  <2> SUFFICES ASSUME binding' = "napi" PROVE Delivery'
    BY DEF PInv
  <2>1. binding = "napi"
    BY SameBinding
  <2> QED
    BY <2>1, EventLoopStep, NumberedStep, FlagFollowsStep, FlagOwnedStep, LateStoreStep, ExplainedStep
       DEF Delivery
<1> QED
  BY <1>1, <1>2 DEF IInv

-----------------------------------------------------------------------------
(* The invariant that the theorems below read off.                          *)
THEOREM Invariance == Spec => []IInv
<1>1. Init => IInv
  BY InitH, InitP DEF IInv
<1> QED
  BY <1>1, Inductive, PTL DEF Spec

(* Type correctness, for any threads, workers and number of generations.    *)
THEOREM TypeCorrect == Spec => []TypeOK
<1>1. IInv => TypeOK
  BY DEF IInv, HInv
<1> QED
  BY <1>1, Invariance, PTL

(* Python's guard, napi's RwLock and Go's WaitGroup each keep close() from  *)
(* freeing a capture under a read, and a later read from entering it.       *)
THEOREM HandleSafe == Spec => []HandleOutlivesCalls
<1>1. IInv => HandleOutlivesCalls
  BY DEF IInv, HInv, TypeOK, Pinned, HandleOutlivesCalls
<1> QED
  BY <1>1, Invariance, PTL

(* napi: between two calls of the event loop a callback on a running stream *)
(* is served by the newest pump, or the loss has one of the two causes that *)
(* Served names.                                                            *)
THEOREM CallbackServed == Spec => []Served
<1>1. IInv => Served
  <2> SUFFICES ASSUME IInv, binding = "napi", call[JS] = "none", stream = "running", subscribed
               PROVE  \/ Owner
                      \/ generation > 0 /\ pump[generation] = "refused"
                      \/ ~active /\ Clobbered
    BY DEF Served
  <2>1. pc[JS] = "idle" /\ FlagOwned /\ Explained
    BY DEF IInv, PInv, Delivery, EventLoop
  <2>2. CASE active
    BY <2>1, <2>2 DEF FlagOwned, Alive, Owner
  <2>3. CASE ~active
    BY <2>1, <2>3 DEF Explained, Settled, Overtaken, Clobbered
  <2> QED
    BY <2>2, <2>3
<1> QED
  BY <1>1, Invariance, PTL
=============================================================================
