---------------------------- MODULE CallbackCapture ----------------------------
(***************************************************************************)
(* The backends without a thread of their own, whose samples arrive on a   *)
(* platform callback that owns the BridgeProducer:                         *)
(*   "aaudio"   Android microphone   audio/android/thread.rs               *)
(*   "playback" Android playback     audio/android/{playback,jni}.rs and   *)
(*                                   CaptureBridge.kt, RsacCaptureService.kt *)
(*   "auhal"    macOS                audio/macos/{thread,coreaudio}.rs     *)
(*   "avaudio"  iOS microphone       audio/ios/{thread,avaudio}.rs         *)
(* One stream: create_stream, stop and drop on the caller's side; the data *)
(* callback and the notice of the device's death on the platform's.        *)
(*                                                                         *)
(* The platforms are the environment, as the code relies on them:          *)
(* AudioOutputUnitStop, AudioComponentInstanceDispose and removeTapOnBus   *)
(* wait for the data callback they run; AAudioStream_close waits for both  *)
(* callbacks, before API 30 not for the data callback.                     *)
(***************************************************************************)
EXTENDS Naturals

CONSTANTS
  Backends,   \* the backends under test
  MaxPush     \* bound of the model: periods delivered to the ring

AllBackends == {"aaudio", "playback", "auhal", "avaudio"}
ASSUME CallbackAssumption == Backends \subseteq AllBackends /\ MaxPush \in Nat

VARIABLES
  backend,
  legacy,    \* AAudio before API 30
  word,      \* AtomicStreamState
  pushed,    \* history: periods given to the bridge
  client,    \* where the caller is
  after,     \* where the teardown in progress leads
  handle,    \* create_stream has returned a stream
  outcome,   \* what stop_capture returned
  source,    \* the native stream: "none", "open", "running", "halting", "quiet", "closed",
             \* "abandoned" to the garbage collector
  context,   \* what the callbacks reach: "none", "live", "freed"
  active,    \* is_active
  listening, \* the death notice: registered, not tearing_down; the ingest session
  data,      \* the data callback: "out", "in" past its checks
  notice,    \* the death notice: "out", "in" past its checks, "done"
  released,  \* CaptureBridge.released
  device,    \* the device, the projection, the capture service: "up", "dead"
  hurried,   \* history: a teardown went on over a callback that was still in
  panicked   \* history: BridgeShared.push_panicked, a push was caught unwinding

clientVars == <<client, after, handle, outcome>>
ownedVars == <<context, active, listening>>
callbackVars == <<data, notice>>
fixed == <<backend, legacy>>
vars == <<fixed, word, pushed, clientVars, source, ownedVars, callbackVars, released, device, hurried, panicked>>

Init ==
  /\ backend \in Backends
  /\ legacy \in BOOLEAN /\ (legacy => backend = "aaudio")
  /\ word = "Created" /\ pushed = 0
  /\ client = "idle" /\ after = "none" /\ handle = FALSE /\ outcome = "none"
  /\ source = "none" /\ context = "none" /\ active = FALSE /\ listening = FALSE
  /\ data = "out" /\ notice = "out"
  /\ released = FALSE /\ device = "up" /\ hurried = FALSE /\ panicked = FALSE

Transition(from, to) == word' = IF word = from THEN to ELSE word
ClientAt(from, to) == client = from /\ client' = to /\ UNCHANGED <<fixed, device>>
SameTeardown == UNCHANGED <<after, handle, outcome>>
SamePlatform == UNCHANGED <<pushed, panicked, callbackVars>>

-----------------------------------------------------------------------------
(* create_stream.                                                          *)

(* The bridge moves to Running; the contexts are leaked, or the session    *)
(* registered, before the platform hears of them.                          *)
Create ==
  /\ ClientAt("idle", "setup")
  /\ Transition("Created", "Running")
  /\ context' = "live"
  /\ listening' = (backend \in {"aaudio", "playback"})
  /\ active' = TRUE
  /\ SameTeardown /\ SamePlatform /\ UNCHANGED <<source, released, hurried>>

(* The builder, both open attempts, the Kotlin constructor or the unit's   *)
(* configuration fails: nothing can have called back.                      *)
SetupFails ==
  /\ ClientAt("setup", "failed")
  /\ context' = "freed" /\ listening' = FALSE
  /\ SameTeardown /\ SamePlatform /\ UNCHANGED <<word, source, active, released, hurried>>

Opened ==
  /\ ClientAt("setup", "opened")
  /\ source' = "open"
  /\ SameTeardown /\ SamePlatform /\ UNCHANGED <<word, ownedVars, released, hurried>>

(* An unusable configuration, or a start that fails: close_and_reclaim,    *)
(* removeTapOnBus, the unit's drop, the roll-back of registerBridge and of *)
(* CaptureBridge.start().                                                  *)
StartFails ==
  /\ ClientAt("opened", "close")
  /\ after' = "failed"
  /\ notice' = IF backend = "playback" THEN "done" ELSE notice   \* no thread to exit
  /\ UNCHANGED <<word, pushed, handle, outcome, source, ownedVars, data, released, hurried, panicked>>

Start ==
  /\ ~released   \* CaptureBridge.start() refuses a bridge the service has stopped
  /\ ClientAt("opened", IF backend \in {"auhal", "playback"} THEN "started" ELSE "open")
  /\ source' = "running"
  /\ handle' = (backend \notin {"auhal", "playback"})
  /\ SamePlatform
  /\ UNCHANGED <<word, after, outcome, ownedVars, released, hurried>>

(* register_device_alive_listener is best effort.                          *)
Listen ==
  /\ backend = "auhal"
  /\ ClientAt("started", "open")
  /\ listening' \in BOOLEAN
  /\ handle' = TRUE
  /\ SamePlatform /\ UNCHANGED <<word, after, outcome, source, context, active, released, hurried>>

(* NewGlobalRef; when it fails the started bridge is stopped first and the *)
(* session unregistered afterwards.                                        *)
Promote ==
  /\ backend = "playback"
  /\ ClientAt("started", "open")
  /\ handle' = TRUE
  /\ SamePlatform /\ UNCHANGED <<word, after, outcome, source, ownedVars, released, hurried>>

PromoteFails ==
  /\ backend = "playback"
  /\ ClientAt("started", "halt")
  /\ after' = "failed"
  /\ SamePlatform /\ UNCHANGED <<word, handle, outcome, source, ownedVars, released, hurried>>

-----------------------------------------------------------------------------
(* stop() and drop.                                                        *)

(* BridgeStream::stop goes to the platform only from Running.              *)
Stop ==
  /\ word = "Running"
  /\ ClientAt("open", "enter")
  /\ Transition("Running", "Stopping")
  /\ after' = "finish"
  /\ SamePlatform /\ UNCHANGED <<handle, outcome, source, ownedVars, released, hurried>>

Drop ==
  /\ ClientAt("open", IF backend = "auhal" THEN "unlisten" ELSE "enter")
  /\ after' = "closed"
  /\ SamePlatform /\ UNCHANGED <<word, handle, outcome, source, ownedVars, released, hurried>>

(* The handles mutex and its null check; on iOS is_active.swap(false),     *)
(* which is before the engine has stopped.                                 *)
First == IF backend = "playback" THEN "unregister" ELSE "halt"
Enter ==
  /\ ClientAt("enter", IF source \in {"closed", "none"} THEN "return" ELSE First)
  /\ active' = (active /\ backend # "avaudio")
  /\ SameTeardown /\ SamePlatform
  /\ UNCHANGED <<word, source, context, listening, released, hurried>>

(* Fault: the session stays registered.                                    *)
Unregister_Skipped ==
  /\ ClientAt("unregister", "halt")
  /\ SameTeardown /\ SamePlatform
  /\ UNCHANGED <<word, source, ownedVars, released, hurried>>

Unregister ==
  /\ ClientAt("unregister", "halt")
  /\ listening' = FALSE
  /\ SameTeardown /\ SamePlatform
  /\ UNCHANGED <<word, source, context, active, released, hurried>>

(* macOS Drop, before anything else: tearing_down, then the listener goes; *)
(* a stream that is stopped already is not stopped again.                  *)

(* Fault: the listener outlives the tap it listens to.                     *)
Unlisten_Kept ==
  /\ ClientAt("unlisten", IF active THEN "halt" ELSE "close")
  /\ SameTeardown /\ SamePlatform
  /\ UNCHANGED <<word, source, ownedVars, released, hurried>>

Unlisten ==
  /\ ClientAt("unlisten", IF active THEN "halt" ELSE "close")
  /\ listening' = FALSE
  /\ SameTeardown /\ SamePlatform
  /\ UNCHANGED <<word, source, context, active, released, hurried>>

(* requestStop, whose failure is only logged; running.set(false) and       *)
(* audioRecord.stop() by the first to release the CaptureBridge.           *)

(* Fault: the contexts are reclaimed before the stream is closed.          *)
RequestHalt_Reclaims ==
  /\ backend \in {"aaudio", "playback"}
  /\ ClientAt("halt", "quiesce")
  /\ source' = IF source = "running" THEN "halting" ELSE source
  /\ context' = IF backend = "aaudio" THEN "freed" ELSE context
  /\ SameTeardown /\ SamePlatform
  /\ UNCHANGED <<word, active, listening, released, hurried>>

RequestHalt ==
  /\ backend \in {"aaudio", "playback"}
  /\ ClientAt("halt", "quiesce")
  /\ source' = IF source = "running" THEN "halting" ELSE source
  /\ SameTeardown /\ SamePlatform
  /\ UNCHANGED <<word, ownedVars, released, hurried>>

(* AudioOutputUnitStop and removeTapOnBus are synchronous.                 *)
Halt ==
  /\ backend \in {"auhal", "avaudio"}
  /\ ClientAt("halt", "signal")
  /\ data = "out"
  /\ source' = IF backend = "auhal" THEN "quiet" ELSE "closed"
  /\ context' = IF backend = "auhal" THEN context ELSE "freed"
  /\ SameTeardown /\ SamePlatform
  /\ UNCHANGED <<word, active, listening, released, hurried>>

(* au.stop() fails: stop_audio_unit returns before it has signalled.       *)
HaltFails ==
  /\ backend = "auhal"
  /\ ClientAt("halt", IF after = "closed" THEN "close" ELSE "return")
  /\ outcome' = IF after = "finish" THEN "err" ELSE outcome
  /\ SamePlatform
  /\ UNCHANGED <<word, after, handle, source, ownedVars, released, hurried>>

(* wait_until_quiescent; CaptureBridge.stop's join of its thread.          *)
Quiesced ==
  /\ ClientAt("quiesce", "close")
  /\ IF backend = "playback" THEN notice = "done" ELSE data = "out"
  /\ released' = (backend = "playback")
  /\ source' = "quiet"
  /\ SameTeardown /\ SamePlatform
  /\ UNCHANGED <<word, ownedVars, hurried>>

(* 500 ms, or 2 s, have passed; or the service had stopped the bridge, so  *)
(* that stop() returned at once.                                           *)
GivesUp ==
  /\ ClientAt("quiesce", "close")
  /\ released' = (backend = "playback")
  /\ hurried' = (hurried \/ (backend = "playback" /\ "in" \in {data, notice}))
  /\ SameTeardown /\ SamePlatform
  /\ UNCHANGED <<word, source, ownedVars>>

(* A bridge whose start() failed is unregistered and let go of, not        *)
(* stopped: nobody releases its AudioRecord but the service, if it had.    *)
Abandons == backend = "playback" /\ source = "open" /\ ~released

(* AAudioStream_close; audioRecord.release() and unregisterBridge; the     *)
(* drop of the AudioUnit and of the process tap; removeTapOnBus.           *)
Close ==
  /\ ClientAt("close", IF backend \in {"aaudio", "playback"} THEN "reclaim" ELSE "return")
  /\ backend \in {"auhal", "avaudio"} => data = "out"
  /\ backend = "aaudio" => notice # "in" /\ (data = "out" \/ legacy)
  /\ hurried' = (hurried \/ (backend = "aaudio" /\ data = "in"))
  /\ source' = IF Abandons THEN "abandoned" ELSE "closed"
  /\ context' = IF backend \in {"aaudio", "playback"} THEN context ELSE "freed"
  /\ SameTeardown /\ SamePlatform
  /\ UNCHANGED <<word, active, listening, released>>

(* Both boxes, or the projection's GlobalRef and the session, if it is     *)
(* still registered.                                                       *)
Reclaim ==
  /\ ClientAt("reclaim", IF after = "failed" THEN "return" ELSE "signal")
  /\ context' = "freed"
  /\ listening' = FALSE
  /\ SameTeardown /\ SamePlatform
  /\ UNCHANGED <<word, source, active, released, hurried>>

Signal ==
  /\ ClientAt("signal", IF backend = "auhal" /\ after = "closed" THEN "close" ELSE "return")
  /\ active' = FALSE
  /\ Transition("Running", "Stopping")
  /\ SameTeardown /\ SamePlatform
  /\ UNCHANGED <<source, context, listening, released, hurried>>

Return ==
  /\ ClientAt("return", after)
  /\ outcome' = IF after = "finish" /\ outcome = "none" THEN "ok" ELSE outcome
  /\ SamePlatform
  /\ UNCHANGED <<word, after, handle, source, ownedVars, released, hurried>>

(* Stopping -> Stopped whatever the platform said.                         *)
Finish ==
  /\ ClientAt("finish", "open")
  /\ Transition("Stopping", "Stopped")
  /\ SameTeardown /\ SamePlatform
  /\ UNCHANGED <<source, ownedVars, released, hurried>>

Client ==
  \/ SetupFails \/ Opened \/ StartFails \/ Start \/ Listen \/ Promote \/ PromoteFails
  \/ Enter \/ Unregister \/ Unlisten \/ RequestHalt \/ Halt \/ HaltFails \/ Quiesced
  \/ GivesUp \/ Close \/ Reclaim \/ Signal \/ Return \/ Finish

-----------------------------------------------------------------------------
(* The data callback.                                                      *)

Delivering ==
  \/ source \in {"running", "halting"}
  \/ backend = "playback" /\ source \in {"quiet", "closed"}   \* a read that had returned

(* AAudio's looks at the word; nativePush looks its session up, which then *)
(* outlives the call.                                                      *)
DataIn ==
  /\ Delivering /\ device = "up"
  /\ data = "out" /\ data' = "in"
  /\ backend = "aaudio" => word \notin {"Stopped", "Error"}
  /\ backend = "playback" => listening /\ notice = "out"
  /\ UNCHANGED <<fixed, word, pushed, clientVars, source, ownedVars, notice, released, device, hurried, panicked>>

(* AAUDIO_CALLBACK_RESULT_STOP.                                            *)
CallbackStops ==
  /\ backend = "aaudio" /\ Delivering
  /\ data = "out" /\ word \in {"Stopped", "Error"}
  /\ source' = "quiet"
  /\ UNCHANGED <<fixed, word, pushed, clientVars, ownedVars, callbackVars, released, device, hurried, panicked>>

(* push_samples_guarded_stamped; or a period that is degenerate or too     *)
(* large for the scratch.  A panic of the push, of a reader's waker say,   *)
(* is caught and poisons the stream: on_push_panic.                        *)
DataOut ==
  /\ data = "in" /\ data' = "out"
  /\ pushed' \in {pushed, pushed + 1}
  /\ pushed' <= MaxPush
  /\ \/ UNCHANGED <<word, panicked>>
     \/ word' = "Error" /\ panicked' = TRUE
  /\ UNCHANGED <<fixed, clientVars, source, ownedVars, notice, released, device, hurried>>

-----------------------------------------------------------------------------
(* The notice that the device is gone.                                     *)

(* AAudio's error callback asks nothing.  The DeviceIsAlive proc leaves a  *)
(* stream that is being torn down alone; the death it sees may be that of  *)
(* the aggregate device the drop destroys.                                 *)
NoticeIn ==
  /\ notice = "out" /\ notice' = "in"
  /\ \/ backend = "aaudio" /\ device = "dead" /\ source \notin {"none", "closed"}
     \/ backend = "auhal" /\ listening /\ (device = "dead" \/ source = "closed")
  /\ UNCHANGED <<fixed, word, pushed, clientVars, source, ownedVars, data, released, device, hurried, panicked>>

(* The read loop ends when the record fails or running is cleared, with    *)
(* nativeSessionEnded, which takes a session that is still registered.     *)
LoopExits ==
  /\ backend = "playback" /\ source \notin {"none", "open"}
  /\ source # "running" \/ device = "dead"
  /\ data = "out" /\ notice = "out"
  /\ notice' = IF listening THEN "in" ELSE "done"
  /\ listening' = FALSE
  /\ UNCHANGED <<fixed, word, pushed, clientVars, source, context, active, data, released, device, hurried, panicked>>

(* Fault: the death only clears the liveness flag.                         *)
ForceError_FlagOnly ==
  /\ notice = "in" /\ notice' = "done"
  /\ active' = (active /\ backend = "auhal")
  /\ UNCHANGED <<fixed, word, pushed, clientVars, source, context, listening, data, released, device, hurried, panicked>>

(* force_set(Error), which asks nothing either.                            *)
ForceError ==
  /\ notice = "in" /\ notice' = "done"
  /\ active' = (active /\ backend = "auhal")
  /\ word' = "Error"
  /\ UNCHANGED <<fixed, pushed, clientVars, source, context, listening, data, released, device, hurried, panicked>>

Platform == CallbackStops \/ DataOut \/ NoticeIn \/ LoopExits \/ ForceError

DeviceDies ==
  /\ device = "up" /\ device' = "dead"
  /\ UNCHANGED <<fixed, word, pushed, clientVars, source, ownedVars, callbackVars, released, hurried, panicked>>

(* RsacCaptureService.onDestroy stops the bridges anchored to it.          *)
ServiceStops ==
  /\ backend = "playback" /\ source \in {"open", "running"} /\ ~released
  /\ released' = TRUE /\ device' = "dead"
  /\ source' = IF source = "running" THEN "halting" ELSE source
  /\ UNCHANGED <<fixed, word, pushed, clientVars, ownedVars, callbackVars, hurried, panicked>>

Done == client \in {"closed", "failed"} /\ UNCHANGED vars

Next == Create \/ Stop \/ Drop \/ Client \/ DataIn \/ Platform \/ DeviceDies \/ ServiceStops \/ Done

Spec == Init /\ [][Next]_vars

(* A call runs to its end; a callback that is in returns; the platform     *)
(* delivers the notice of a death.  Nothing makes a caller stop or drop.   *)
FairSpec == Spec /\ WF_vars(Client) /\ WF_vars(Platform)
-----------------------------------------------------------------------------
(* Type invariant.                                                         *)
TypeOK ==
  /\ backend \in Backends /\ legacy \in BOOLEAN
  /\ word \in {"Created", "Running", "Stopping", "Stopped", "Error"}
  /\ pushed \in 0 .. MaxPush
  /\ client \in {"idle", "setup", "opened", "started", "open", "enter", "unregister", "unlisten",
                 "halt", "quiesce", "close", "reclaim", "signal", "return", "finish",
                 "closed", "failed"}
  /\ after \in {"none", "finish", "closed", "failed"}
  /\ handle \in BOOLEAN /\ outcome \in {"none", "ok", "err"}
  /\ source \in {"none", "open", "running", "halting", "quiet", "closed", "abandoned"}
  /\ context \in {"none", "live", "freed"}
  /\ active \in BOOLEAN /\ listening \in BOOLEAN
  /\ data \in {"out", "in"} /\ notice \in {"out", "in", "done"}
  /\ released \in BOOLEAN /\ device \in {"up", "dead"} /\ hurried \in BOOLEAN
  /\ panicked \in BOOLEAN

(* No callback runs over contexts that were reclaimed, on any way out of   *)
(* create_stream, stop or drop: the session outlives a nativePush, the     *)
(* error context its callback, and the data context too unless AAudio is   *)
(* older than API 30 and the 500 ms were not enough.                       *)
ContextsOutliveCallbacks ==
  context = "freed" /\ backend # "playback" =>
    /\ data = "out" \/ hurried
    /\ backend = "aaudio" => notice # "in"

(* A stream whose platform has been stopped is at its end: nothing enters  *)
(* the ring of a Stopped stream and, but on macOS, no late notice turns it *)
(* into a failed one.                                                      *)
StopIsFinal ==
  [][word = "Stopped" /\ outcome = "ok" /\ ~hurried =>
       /\ pushed' = pushed
       /\ backend # "auhal" => word' = "Stopped"]_vars

(* A stop or a drop is never taken for a death, a stream with a handle     *)
(* being failed by its device or by a push that panicked only; and it      *)
(* leaves nothing behind: not a context, not a session or a listener that  *)
(* could still find the bridge, and not the native stream, but for the     *)
(* record of a playback capture that never started.                        *)
TeardownIsClean ==
  /\ handle /\ word = "Error" => device = "dead" \/ panicked
  /\ client \in {"closed", "failed"} =>
       /\ source \in {"none", "closed"} \/ (source = "abandoned" /\ ~handle /\ notice = "done")
       /\ context = "freed" /\ ~listening

(* Where the platform tells of it, the death of the device behind a stream *)
(* reaches the word its readers look at, unless they have let go of it.    *)
Told == backend \in {"aaudio", "playback"} \/ (backend = "auhal" /\ listening)
DeathIsSeen == handle /\ device = "dead" /\ Told ~> word # "Running" \/ client = "closed"

=============================================================================
