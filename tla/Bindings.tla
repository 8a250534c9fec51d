------------------------------ MODULE Bindings ------------------------------
(***************************************************************************)
(* One capture object as the three language bindings share it between      *)
(* threads of the host language.                                           *)
(*                                                                         *)
(*   python  an RwLock around the capture, below the GIL: a reader keeps   *)
(*           its shared guard while it waits for the GIL to come back;     *)
(*   napi    the same RwLock; synchronous calls occupy the event loop, the *)
(*           async readers run on workers, and a pump thread serves onData *)
(*           for as long as it owns the newest generation;                 *)
(*   go      a mutex, a WaitGroup of the reads inside C, and a handle that *)
(*           Close frees once they have drained.                           *)
(*                                                                         *)
(* What they have in common is a host lock (the GIL, the event loop, c.mu) *)
(* and a set of readers that hold the capture without it.                  *)
(***************************************************************************)
EXTENDS Naturals, FiniteSets

CONSTANTS
  Threads,        \* threads (goroutines, workers) that call the binding
  JS,             \* the one of them that runs the event loop of napi
  Workers,        \* those of them that run napi's async readers
  NoOne,          \* the holder of a free host lock
  MaxGeneration   \* bound on the pump generations of napi

ASSUME BindingsAssumption ==
  /\ JS \in Threads /\ Workers \subseteq Threads \ {JS} /\ NoOne \notin Threads /\ MaxGeneration \in Nat

VARIABLES
  binding,
  stream,       \* the core stream: "none", "running", "ended" (Stopping or later)
  slot,         \* the capture: "open", "closing" (Go), "freed"
  host,         \* who holds the host lock
  guards,       \* who holds a shared guard; in Go, who is counted in c.reads
  queued,       \* who waits in RwLock::write
  call, pc,     \* what each thread calls and how far it is
  active, generation, subscribed,   \* pump_active, pump_generation, callback
  pump,         \* what each generation's pump does
  fatal         \* the pumps whose end_reason is a terminal error

napiVars == <<active, generation, subscribed, pump, fatal>>
vars == <<binding, stream, slot, host, guards, queued, call, pc, napiVars>>

Reads == {"read", "tryRead", "next"}
Parks == {"read", "next"}
Mutators == {"start", "stop", "close"}
CallsOf(t) ==
  CASE binding = "python" -> Reads \union Mutators \union {"get"}
    [] binding = "go" -> (Reads \ {"next"}) \union Mutators \union {"get"}
    [] binding = "napi" /\ t = JS -> {"get", "read", "start", "stop", "onData", "offData"}
    [] OTHER -> IF t \in Workers THEN {"read", "tryRead"} ELSE {}

Init ==
  /\ binding \in {"python", "napi", "go"}
  /\ stream = "none" /\ slot = "open" /\ host = NoOne
  /\ guards = {} /\ queued = {}
  /\ call = [t \in Threads |-> "none"] /\ pc = [t \in Threads |-> "idle"]
  /\ active = FALSE /\ generation = 0 /\ subscribed = FALSE
  /\ pump = [g \in 1 .. MaxGeneration |-> "none"] /\ fatal = {}

-----------------------------------------------------------------------------
(* std's RwLock admits no new reader while a writer waits.                 *)
Admits == queued = {}

Goto(t, label) == pc' = [pc EXCEPT ![t] = label]
(* The call returns; if the thread still holds the host lock, it lets go.  *)
Leave(t) ==
  /\ Goto(t, "idle") /\ call' = [call EXCEPT ![t] = "none"]
  /\ host' = IF host = t THEN NoOne ELSE host
Stay == UNCHANGED <<host, call>>

Hosted(t) == binding # "napi" \/ t = JS
Begin(t, c) ==
  /\ pc[t] = "idle" /\ c \in CallsOf(t)
  /\ Hosted(t) => host = NoOne
  /\ c \in {"start", "stop", "onData", "offData"} => generation < MaxGeneration
  /\ host' = IF Hosted(t) THEN t ELSE host
  /\ call' = [call EXCEPT ![t] = c] /\ Goto(t, "enter")
  /\ UNCHANGED <<binding, stream, slot, guards, queued, napiVars>>

-----------------------------------------------------------------------------
(* Readers of the two RwLock bindings. Python asks for the guard with the  *)
(* GIL held, and gives the GIL up only once it has it.                     *)
EnterShared(t) ==
  /\ binding # "go" /\ pc[t] = "enter" /\ call[t] \in Reads \union {"get"}
  /\ Admits
  /\ \/ /\ \/ call[t] = "get"
           \/ slot = "freed"
           \/ call[t] = "next" /\ stream # "running"
        /\ Leave(t) /\ UNCHANGED guards
     \/ /\ call[t] \in Reads /\ slot = "open"
        /\ call[t] = "next" => stream = "running"
        /\ guards' = guards \union {t} /\ Goto(t, "native")
        /\ host' = IF binding = "python" THEN NoOne ELSE host
        /\ UNCHANGED call
  /\ UNCHANGED <<binding, stream, slot, queued, napiVars>>

(* Go: every method looks at closed under c.mu; a read joins the WaitGroup *)
(* there and then goes on without the mutex.                               *)
GoEnter(t) ==
  /\ binding = "go" /\ pc[t] = "enter" /\ call[t] \in Reads \union {"get"}
  /\ \/ /\ call[t] = "get" \/ slot # "open"
        /\ Leave(t) /\ UNCHANGED guards
     \/ /\ call[t] \in Reads /\ slot = "open"
        /\ guards' = guards \union {t} /\ Goto(t, "recheck")
        /\ host' = NoOne /\ UNCHANGED call
  /\ UNCHANGED <<binding, stream, slot, queued, napiVars>>

GoRecheck(t) ==
  /\ pc[t] = "recheck"
  /\ \/ slot = "open" /\ Goto(t, "native") /\ Stay /\ UNCHANGED guards
     \/ slot # "open" /\ guards' = guards \ {t} /\ Leave(t)
  /\ UNCHANGED <<binding, stream, slot, queued, napiVars>>

(* The core read is over. napi drops its guard, and so does a Go read that *)
(* succeeded; Python needs the GIL first, and a failed Go read looks at    *)
(* closed under c.mu.                                                      *)
ComeBack(t, ok) ==
  /\ IF binding = "napi" \/ (binding = "go" /\ ok)
       THEN guards' = guards \ {t} /\ Leave(t)
       ELSE Goto(t, "unwind") /\ Stay /\ UNCHANGED guards
  /\ UNCHANGED <<binding, stream, slot, queued, napiVars>>

(* The bridge's consumer mutex, which a parked read holds.                 *)
ConsumerFree == \A t \in Threads : pc[t] # "parked"

(* A read that need not wait for data, but still for the mutex: a          *)
(* non-blocking one, or one on a stream that is over (its buffered tail    *)
(* first).                                                                 *)
NativeReturns(t) ==
  /\ pc[t] = "native" /\ (call[t] = "tryRead" \/ stream # "running")
  /\ ConsumerFree
  /\ \E ok \in BOOLEAN : ComeBack(t, ok)

Park(t) ==
  /\ pc[t] = "native" /\ call[t] \in Parks /\ stream = "running"
  /\ ConsumerFree
  /\ Goto(t, "parked") /\ Stay
  /\ UNCHANGED <<binding, stream, slot, guards, queued, napiVars>>

(* A buffer or an error for the parked read, the end of the stream, or its *)
(* deadline, with a recoverable Timeout. A composition's reader retries a  *)
(* Timeout, but its engine ticks for as long as the stream runs.           *)
ParkedReturns(t) ==
  /\ pc[t] = "parked"
  /\ \E ok \in BOOLEAN : ComeBack(t, ok)

Unwind(t) ==
  /\ pc[t] = "unwind" /\ host = NoOne
  /\ guards' = guards \ {t}
  /\ \/ Leave(t)
     \/ call[t] = "next" /\ host' = t /\ Goto(t, "enter") /\ UNCHANGED call
  /\ UNCHANGED <<binding, stream, slot, queued, napiVars>>

-----------------------------------------------------------------------------
(* Mutators of the RwLock bindings: a look or a signal under the shared    *)
(* guard, then the exclusive one. Python runs all of it without the GIL.   *)
Detach_KeepsGil(t) ==
  /\ pc[t] = "enter"
  /\ \/ binding = "python" /\ call[t] \in Mutators
     \/ binding = "napi" /\ call[t] = "start"
  /\ Goto(t, IF call[t] = "start" THEN "check" ELSE "signal")
  /\ UNCHANGED <<binding, stream, slot, host, guards, queued, call, napiVars>>
Detach(t) ==
  /\ pc[t] = "enter"
  /\ \/ binding = "python" /\ call[t] \in Mutators /\ host' = NoOne
     \/ binding = "napi" /\ call[t] = "start" /\ UNCHANGED host
  /\ Goto(t, IF call[t] = "start" THEN "check" ELSE "signal")
  /\ UNCHANGED <<binding, stream, slot, guards, queued, call, napiVars>>

(* Python's way out of allow_threads; in napi, a start goes on to the pump.*)
Finish(t) ==
  \/ binding = "python" /\ Goto(t, "return") /\ Stay
  \/ binding # "python" /\ call[t] = "start" /\ Goto(t, "pump") /\ Stay
  \/ binding # "python" /\ call[t] # "start" /\ Leave(t)

Check(t) ==
  /\ pc[t] = "check" /\ Admits
  /\ \/ /\ slot = "open" /\ stream # "running" /\ call[t] = "start"
        /\ Goto(t, "queue") /\ Stay
     \/ stream # "running" /\ call[t] = "onData" /\ Leave(t)
     \/ slot = "freed" /\ Finish(t)
     \/ slot = "open" /\ stream = "running" /\ call[t] = "start" /\ Finish(t)
     \/ stream = "running" /\ call[t] = "onData" /\ Goto(t, "pump") /\ Stay
  /\ UNCHANGED <<binding, stream, slot, guards, queued, napiVars>>

RequestStop == stream' = IF stream = "running" THEN "ended" ELSE stream

Signal(t) ==
  /\ pc[t] = "signal" /\ Admits
  /\ RequestStop /\ Goto(t, "queue")
  /\ UNCHANGED <<binding, slot, host, guards, queued, call, napiVars>>

Queue(t) ==
  /\ pc[t] = "queue"
  /\ queued' = queued \union {t} /\ Goto(t, "write")
  /\ UNCHANGED <<binding, stream, slot, host, guards, call, napiVars>>

(* AudioCapture::start: a fresh stream where there is none, nothing on a   *)
(* running one; on one that is over, or when the device fails, an error.   *)
CoreStart(started) ==
  IF stream = "none" /\ started THEN stream' = "running" ELSE UNCHANGED stream

Write(t) ==
  /\ pc[t] = "write" /\ guards = {}
  /\ queued' = queued \ {t}
  /\ \/ slot = "freed" /\ Finish(t) /\ UNCHANGED <<stream, slot>>
     \/ /\ slot = "open" /\ call[t] = "start"
        /\ \E started \in BOOLEAN : CoreStart(started)
        /\ IF stream' = "running" THEN Finish(t)
           ELSE IF binding = "napi" THEN Leave(t) ELSE Goto(t, "return") /\ Stay
        /\ UNCHANGED slot
     \/ /\ slot = "open" /\ call[t] \in {"stop", "close"}
        /\ stream' = "none"
        /\ slot' = IF call[t] = "close" THEN "freed" ELSE slot
        /\ Finish(t)
  /\ UNCHANGED <<binding, guards, napiVars>>

Return(t) ==
  /\ pc[t] = "return" /\ host = NoOne
  /\ Leave(t)
  /\ UNCHANGED <<binding, stream, slot, guards, queued, napiVars>>

-----------------------------------------------------------------------------
(* Mutators of Go, under c.mu. Stop drops the stream even while a read is  *)
(* inside C: the read comes back with an error.                            *)
GoStart(t) ==
  /\ binding = "go" /\ pc[t] = "enter" /\ call[t] = "start"
  /\ IF slot = "open" THEN \E started \in BOOLEAN : CoreStart(started)
     ELSE UNCHANGED stream
  /\ Leave(t)
  /\ UNCHANGED <<binding, slot, guards, queued, napiVars>>

GoStop(t) ==
  /\ binding = "go" /\ pc[t] = "enter" /\ call[t] = "stop"
  /\ stream' = IF slot = "open" THEN "none" ELSE stream
  /\ Leave(t)
  /\ UNCHANGED <<binding, slot, guards, queued, napiVars>>

(* closeLocked: closing and closed first, the signal, then the mutex is    *)
(* given up for the drain and taken back for the free.                     *)
GoClose(t) ==
  /\ binding = "go" /\ pc[t] = "enter" /\ call[t] = "close"
  /\ \/ slot # "open" /\ Leave(t) /\ UNCHANGED <<stream, slot>>
     \/ /\ slot = "open" /\ slot' = "closing" /\ RequestStop
        /\ host' = NoOne /\ Goto(t, "drain") /\ UNCHANGED call
  /\ UNCHANGED <<binding, guards, queued, napiVars>>

GoDrain_NoWait(t) ==
  /\ pc[t] = "drain"
  /\ Goto(t, "free")
  /\ UNCHANGED <<binding, stream, slot, host, guards, queued, call, napiVars>>
GoDrain(t) ==
  /\ pc[t] = "drain" /\ guards = {}
  /\ Goto(t, "free")
  /\ UNCHANGED <<binding, stream, slot, host, guards, queued, call, napiVars>>

GoFree(t) ==
  /\ pc[t] = "free" /\ host = NoOne
  /\ slot' = "freed" /\ stream' = "none"
  /\ Leave(t)
  /\ UNCHANGED <<binding, guards, queued, napiVars>>

-----------------------------------------------------------------------------
(* The push delivery of napi. stop and offData take the generation away    *)
(* first and lower the flag after; onData and start raise the flag first   *)
(* and take a generation after.                                            *)
Cancel ==
  /\ binding = "napi" /\ pc[JS] = "enter" /\ call[JS] \in {"stop", "offData"}
  /\ generation' = generation + 1 /\ Goto(JS, "unflag")
  /\ UNCHANGED <<binding, stream, slot, host, guards, queued, call,
                 active, subscribed, pump, fatal>>

Unflag ==
  /\ pc[JS] = "unflag"
  /\ active' = FALSE
  /\ \/ call[JS] = "stop" /\ Goto(JS, "signal") /\ Stay /\ UNCHANGED subscribed
     \/ call[JS] = "offData" /\ subscribed' = FALSE /\ Leave(JS)
  /\ UNCHANGED <<binding, stream, slot, guards, queued, generation, pump, fatal>>

Subscribe ==
  /\ binding = "napi" /\ pc[JS] = "enter" /\ call[JS] = "onData"
  /\ subscribed' = TRUE /\ Goto(JS, "check")
  /\ UNCHANGED <<binding, stream, slot, host, guards, queued, call,
                 active, generation, pump, fatal>>

WantPump ==
  /\ pc[JS] = "pump"
  /\ IF subscribed /\ ~active THEN Goto(JS, "flag") /\ Stay ELSE Leave(JS)
  /\ UNCHANGED <<binding, stream, slot, guards, queued, napiVars>>

RaiseFlag ==
  /\ pc[JS] = "flag"
  /\ active' = TRUE /\ Goto(JS, "spawn")
  /\ UNCHANGED <<binding, stream, slot, host, guards, queued, call,
                 generation, subscribed, pump, fatal>>

(* A thread that cannot be spawned takes the flag back.                    *)
Spawn ==
  /\ pc[JS] = "spawn"
  /\ generation' = generation + 1
  /\ \/ pump' = [pump EXCEPT ![generation'] = "loop"] /\ UNCHANGED active
     \/ pump' = [pump EXCEPT ![generation'] = "refused"] /\ active' = FALSE
  /\ Leave(JS)
  /\ UNCHANGED <<binding, stream, slot, guards, queued, subscribed, fatal>>

PumpGoto(g, label) ==
  /\ pump' = [pump EXCEPT ![g] = label]
  /\ UNCHANGED <<binding, stream, slot, host, guards, queued, call, pc,
                 generation, subscribed>>

PumpLoop(g) ==
  /\ pump[g] = "loop"
  /\ PumpGoto(g, IF active THEN "gate" ELSE "exit") /\ UNCHANGED <<active, fatal>>
PumpGate(g) ==
  /\ pump[g] = "gate"
  /\ PumpGoto(g, IF generation = g THEN "read" ELSE "exit")
  /\ UNCHANGED <<active, fatal>>
(* One non-blocking read under a guard of its own. Only the terminal error *)
(* ends the loop: a stream that is gone answers with a recoverable one.    *)
PumpRead(g) ==
  /\ pump[g] = "read" /\ Admits
  /\ \/ PumpGoto(g, "loop") /\ UNCHANGED <<active, fatal>>
     \/ /\ stream = "ended" /\ PumpGoto(g, "exit")
        /\ fatal' = fatal \union {g} /\ UNCHANGED active
(* The flag is lowered by its owner only; but the look at the generation   *)
(* and the store are two steps.                                            *)
PumpExit_Blind(g) ==
  /\ pump[g] = "exit"
  /\ PumpGoto(g, "clear") /\ UNCHANGED <<active, fatal>>
PumpExit(g) ==
  /\ pump[g] = "exit"
  /\ PumpGoto(g, IF generation = g THEN "clear" ELSE "done")
  /\ UNCHANGED <<active, fatal>>
PumpClear(g) ==
  /\ pump[g] = "clear" /\ active' = FALSE
  /\ PumpGoto(g, "done") /\ UNCHANGED fatal

-----------------------------------------------------------------------------
(* The device goes away, the composition runs dry.                         *)
NaturalEnd ==
  /\ stream = "running" /\ stream' = "ended"
  /\ UNCHANGED <<binding, slot, host, guards, queued, call, pc, napiVars>>

ReadStep(t) == EnterShared(t) \/ GoEnter(t) \/ GoRecheck(t) \/ NativeReturns(t)
               \/ Park(t) \/ ParkedReturns(t) \/ Unwind(t)
MutateStep(t) ==
  \/ Detach(t) \/ Check(t) \/ Signal(t) \/ Queue(t) \/ Write(t) \/ Return(t)
  \/ GoStart(t) \/ GoStop(t) \/ GoClose(t) \/ GoDrain(t) \/ GoFree(t)
DeliveryStep == Cancel \/ Unflag \/ Subscribe \/ WantPump \/ RaiseFlag \/ Spawn
Pump(g) == PumpLoop(g) \/ PumpGate(g) \/ PumpRead(g) \/ PumpExit(g) \/ PumpClear(g)

Next ==
  \/ \E t \in Threads : \/ \E c \in CallsOf(t) : Begin(t, c)
                        \/ ReadStep(t) \/ MutateStep(t)
  \/ DeliveryStep
  \/ \E g \in 1 .. MaxGeneration : Pump(g)
  \/ NaturalEnd

Spec == Init /\ [][Next]_vars

(* A thread inside a call goes on, and gets a lock that keeps coming free  *)
(* (the GIL's switch interval, Go's starvation mode, writers before new    *)
(* readers), and a parked read comes to its deadline. Nothing makes a      *)
(* running stream deliver, or end.                                         *)
FairSpec ==
  /\ Spec
  /\ \A t \in Threads : SF_vars(ReadStep(t) \/ MutateStep(t))
  /\ WF_vars(DeliveryStep)

-----------------------------------------------------------------------------
TypeOK ==
  /\ binding \in {"python", "napi", "go"} /\ stream \in {"none", "running", "ended"}
  /\ slot \in {"open", "closing", "freed"} /\ host \in Threads \union {NoOne}
  /\ guards \subseteq Threads /\ queued \subseteq Threads
  /\ call \in [Threads -> Reads \union Mutators \union {"none", "get", "onData", "offData"}]
  /\ pc \in [Threads -> {"idle", "enter", "recheck", "native", "parked", "unwind", "check", "signal", "queue",
                         "write", "return", "drain", "free", "unflag", "pump", "flag", "spawn"}]
  /\ active \in BOOLEAN /\ subscribed \in BOOLEAN /\ generation \in 0 .. MaxGeneration
  /\ pump \in [1 .. MaxGeneration -> {"none", "loop", "gate", "read", "exit", "clear", "done", "refused"}]
  /\ fatal \subseteq 1 .. MaxGeneration

(* Nobody frees the capture, or its handle, under a thread that is inside  *)
(* a read of it, and nobody enters one afterwards.                         *)
HandleOutlivesCalls ==
  \A t \in Threads : pc[t] \in {"native", "parked"} => slot # "freed" /\ t \in guards

(* Python only. A thread that asks for a shared guard with the GIL held    *)
(* waits behind a writer, who waits for a reader, who waits for the GIL.   *)
GilCircle ==
  /\ queued # {} /\ host # NoOne /\ pc[host] = "enter"
  /\ \E r \in guards : pc[r] = "unwind"
Wedged == binding = "python" /\ GilCircle

(* Every call returns, whoever is parked in a read: stop and close wait    *)
(* for the readers inside, who leave when woken or at their deadline, and  *)
(* then get in before any reader that comes later. Only Python's iterator  *)
(* goes on waiting, with no guard between two attempts.                    *)
TeardownsReturn ==
  \A t \in Threads : []<>(call[t] \in {"next", "none"}) \/ <>[]Wedged

(* Between two calls of the event loop, a running capture with a callback  *)
(* has a pump that owns the newest generation and the flag, whatever pumps *)
(* of earlier generations still do. It may have lost it only to a pump     *)
(* whose stream ended by itself and whose last store came late, or because *)
(* start() or onData() reported that no thread could be spawned.           *)
Owner == generation > 0 /\ pump[generation] \in {"loop", "gate", "read"} /\ active
Clobbered == \E g \in fatal : g < generation /\ pump[g] = "done"
Served ==
  binding = "napi" /\ call[JS] = "none" /\ stream = "running" /\ subscribed =>
    \/ Owner
    \/ generation > 0 /\ pump[generation] = "refused"
    \/ ~active /\ Clobbered
=============================================================================
