---------------------------- MODULE PipeWireThread ----------------------------
(***************************************************************************)
(* The Linux backend's control plane: the dedicated PipeWire thread of     *)
(* src/audio/linux/thread.rs, the commands it is sent, and its two users:  *)
(* create_stream with the stream handle it returns, and a discovery call   *)
(* of src/audio/linux/mod.rs.  Every handshake has a time limit, so a      *)
(* caller may be gone when its command is carried out; the last one, the   *)
(* join in Drop, has none.                                                 *)
(*                                                                         *)
(* libpipewire and the daemon are the environment: calls into it fail or   *)
(* succeed, the captured node dies once.  What the registry holds is the   *)
(* business of PipeWireRegistry.                                           *)
(***************************************************************************)
EXTENDS Naturals, Sequences

CONSTANT MaxPush   \* bound of the model: buffers the node delivers

ASSUME PushAssumption == MaxPush \in Nat

VARIABLES
  word,       \* AtomicStreamState of the session's bridge
  pushed,     \* history: buffers the process callback offered
  panicked,   \* push_panicked: a push has unwound
  role,       \* "capture" (create_stream) or "query" (a discovery call)
  client,     \* where the caller is
  handle,     \* create_stream has returned a stream
  outcome,    \* what stop_capture returned to BridgeStream::stop
  commands,   \* the command channel
  awaiting,   \* whose one-shot receiver exists: "init", "start", "stop", "query", "none"
  reply,      \* what it holds
  thread,     \* where the PipeWire thread is; is_running is its not having exited
  stream,     \* capture_stream: "none", "linked", "unconnected"
  listener,   \* capture_listener, which owns the BridgeProducer
  session,    \* active_shared is Some
  node        \* the captured node, or the daemon: "up", "dead"

pushVars == <<pushed, panicked>>
clientVars == <<role, client, handle, outcome>>
channelVars == <<commands, awaiting, reply>>
threadVars == <<thread, stream, listener, session>>
vars == <<word, pushVars, clientVars, channelVars, threadVars, node>>

Init ==
  /\ word = "Created" /\ pushed = 0 /\ panicked = FALSE
  /\ role \in {"capture", "query"} /\ client = "idle"
  /\ handle = FALSE /\ outcome = "none"
  /\ commands = <<>> /\ awaiting = "none" /\ reply = "none"
  /\ thread = "unborn"
  /\ stream = "none" /\ listener = FALSE /\ session = FALSE
  /\ node = "up"

Transition(from, to) == word' = IF word = from THEN to ELSE word

-----------------------------------------------------------------------------
(* The caller.                                                             *)

ClientAt(from, to) == client = from /\ client' = to

(* spawn() blocks on the init channel without a limit; create_stream moves *)
(* the bridge to Running first.                                            *)
Spawn ==
  /\ ClientAt("idle", "waiting")
  /\ IF role = "capture" THEN Transition("Created", "Running") ELSE UNCHANGED word
  /\ thread' = "init"
  /\ awaiting' = "init" /\ reply' = "none"
  /\ UNCHANGED <<pushVars, role, handle, outcome, commands, stream, listener, session, node>>

Send(command) ==
  /\ commands' = Append(commands, command)
  /\ awaiting' = command /\ reply' = "none"

(* resolve_capture_target runs on the caller's thread, between the two.    *)
Initialized ==
  /\ client = "waiting" /\ awaiting = "init" /\ reply # "none"
  /\ \/ reply = "err" /\ client' = "closed"
        /\ awaiting' = "none" /\ reply' = "none" /\ UNCHANGED commands
     \/ reply = "ok" /\ role = "capture" /\ client' = "drop"    \* target not found
        /\ awaiting' = "none" /\ reply' = "none" /\ UNCHANGED commands
     \/ reply = "ok" /\ client' = "waiting"
        /\ Send(IF role = "capture" THEN "start" ELSE "query")
  /\ UNCHANGED <<word, pushVars, role, handle, outcome, threadVars, node>>

(* recv_timeout returns the answer, or gives up; either way the receiver   *)
(* is gone.                                                                *)
Handshake(command, answer) ==
  /\ client = "waiting" /\ awaiting = command
  /\ answer # "none" /\ answer \in {reply, "timeout"}
  /\ awaiting' = "none" /\ reply' = "none"
  /\ UNCHANGED <<word, pushVars, role, commands, threadVars, node>>

(* A failed start drops the PipeWireThread before the error is returned.   *)
Started(answer) ==
  /\ Handshake("start", answer)
  /\ handle' = (answer = "ok")
  /\ client' = IF answer = "ok" THEN "open" ELSE "drop"
  /\ UNCHANGED outcome

Queried(answer) ==
  /\ Handshake("query", answer)
  /\ client' = "drop"
  /\ UNCHANGED <<handle, outcome>>

(* BridgeStream::stop goes to the platform only from Running.              *)
Stop ==
  /\ client = "open" /\ word = "Running"
  /\ Transition("Running", "Stopping")
  /\ client' = "waiting"
  /\ Send("stop")
  /\ UNCHANGED <<pushVars, role, handle, outcome, threadVars, node>>

StopAnswered(answer) ==
  /\ Handshake("stop", answer)
  /\ outcome' = IF answer = "ok" THEN "ok" ELSE "err"
  /\ client' = "finish"
  /\ UNCHANGED handle

(* Stopping -> Stopped whatever the platform said.                         *)
StopFinish ==
  /\ ClientAt("finish", "open")
  /\ Transition("Stopping", "Stopped")
  /\ UNCHANGED <<pushVars, role, handle, outcome, channelVars, threadVars, node>>

(* The last owner lets go of the stream, stopped or not.                   *)
DropStream ==
  /\ ClientAt("open", "drop")
  /\ UNCHANGED <<word, pushVars, role, handle, outcome, channelVars, threadVars, node>>

(* Fault: Drop leaves the thread to itself.                                *)
DropThread_NoJoin ==
  /\ ClientAt("drop", "closed")
  /\ commands' = Append(commands, "shutdown")
  /\ UNCHANGED <<word, pushVars, role, handle, outcome, awaiting, reply, threadVars, node>>

(* Fault: Drop only lets go of the channel, which it does after the join.  *)
DropThread_NoShutdown ==
  /\ ClientAt("drop", "join")
  /\ UNCHANGED <<word, pushVars, role, handle, outcome, channelVars, threadVars, node>>

DropThread ==
  /\ ClientAt("drop", "join")
  /\ commands' = Append(commands, "shutdown")
  /\ UNCHANGED <<word, pushVars, role, handle, outcome, awaiting, reply, threadVars, node>>

Join ==
  /\ ClientAt("join", "closed")
  /\ thread = "exited"
  /\ UNCHANGED <<word, pushVars, role, handle, outcome, channelVars, threadVars, node>>

Answers == {"ok", "err", "timeout"}
Client ==
  \/ Spawn \/ Initialized \/ Stop \/ StopFinish \/ DropStream \/ DropThread \/ Join
  \/ \E a \in Answers : Started(a) \/ Queried(a) \/ StopAnswered(a)

-----------------------------------------------------------------------------
(* The PipeWire thread.                                                    *)

ThreadAt(from, to) == thread = from /\ thread' = to

(* The sender does not care whether anybody still listens.                 *)
Answer(command, answer) ==
  /\ reply' = IF awaiting = command THEN answer ELSE reply
  /\ UNCHANGED <<commands, awaiting>>

InitOk ==
  /\ ThreadAt("init", "iterate")
  /\ Answer("init", "ok")
  /\ UNCHANGED <<word, pushVars, clientVars, stream, listener, session, node>>

(* MainLoop, Context, connect or get_registry fails.                       *)
InitFails ==
  /\ ThreadAt("init", "exit")
  /\ Answer("init", "err")
  /\ UNCHANGED <<word, pushVars, clientVars, stream, listener, session, node>>

Hears == listener /\ stream = "linked"
DeathPending == Hears /\ node = "dead"

IterateQuiet ==
  /\ ThreadAt("iterate", "receive")
  /\ ~DeathPending
  /\ UNCHANGED <<word, pushVars, clientVars, channelVars, stream, listener, session, node>>

(* The process callback: push_samples_guarded_stamped.  A push that        *)
(* unwinds, for a waker that panics, is caught and poisons the word        *)
(* (on_push_panic); the node lives on, and its later buffers are pushed    *)
(* into the ring whatever the word says.                                   *)
Process ==
  /\ ThreadAt("iterate", "receive")
  /\ Hears /\ node = "up"
  /\ pushed < MaxPush
  /\ pushed' = pushed + 1
  /\ \/ UNCHANGED <<word, panicked>>
     \/ word' = "Error" /\ panicked' = TRUE
  /\ UNCHANGED <<clientVars, channelVars, stream, listener, session, node>>

(* The state_changed callback on Error or Unconnected: signal_error.       *)
StateChanged ==
  /\ ThreadAt("iterate", "receive")
  /\ DeathPending
  /\ stream' = "unconnected"
  /\ word' = "Error"
  /\ UNCHANGED <<pushVars, clientVars, channelVars, listener, session, node>>

(* try_recv.                                                               *)
NoCommand ==
  /\ ThreadAt("receive", "iterate")
  /\ commands = <<>>
  /\ UNCHANGED <<word, pushVars, clientVars, channelVars, stream, listener, session, node>>

(* Fault: the stop is acknowledged as soon as it is received.              *)
Receive_AcksEarly ==
  /\ thread = "receive" /\ commands # <<>>
  /\ thread' = Head(commands)
  /\ commands' = Tail(commands)
  /\ reply' = IF Head(commands) = "stop" /\ awaiting = "stop" THEN "ok" ELSE reply
  /\ UNCHANGED <<word, pushVars, clientVars, awaiting, stream, listener, session, node>>

Receive ==
  /\ thread = "receive" /\ commands # <<>>
  /\ thread' = Head(commands)
  /\ commands' = Tail(commands)
  /\ UNCHANGED <<word, pushVars, clientVars, awaiting, reply, stream, listener, session, node>>

(* StartCapture.  The stream and the listener with the producer are made   *)
(* before the connection; whatever fails drops them, and the producer is   *)
(* gone without a signal.                                                  *)
StreamFails ==
  /\ ThreadAt("start", "iterate")
  /\ Answer("start", "err")
  /\ UNCHANGED <<word, pushVars, clientVars, stream, listener, session, node>>

ListenerMade ==
  /\ ThreadAt("start", "connect")
  /\ stream' = "linked" /\ listener' = TRUE
  /\ UNCHANGED <<word, pushVars, clientVars, channelVars, session, node>>

(* pw_stream_connect may report the error to the listener first.           *)
ConnectFails ==
  /\ ThreadAt("connect", "iterate")
  /\ word' \in {word, "Error"}
  /\ stream' = "none" /\ listener' = FALSE
  /\ Answer("start", "err")
  /\ UNCHANGED <<pushVars, clientVars, session, node>>

Connected ==
  /\ ThreadAt("connect", "iterate")
  /\ session' = TRUE
  /\ Answer("start", "ok")
  /\ UNCHANGED <<word, pushVars, clientVars, stream, listener, node>>

(* Teardown, in the arms of StopCapture and Shutdown.  Destroying a stream *)
(* that still has its listener delivers Unconnected to it.                 *)

(* Fault: the stream goes before the listener.                             *)
DropListener_StreamFirst(from, to) ==
  /\ ThreadAt(from, to)
  /\ word' = IF Hears THEN "Error" ELSE word
  /\ listener' = FALSE
  /\ UNCHANGED <<pushVars, clientVars, channelVars, stream, session, node>>

DropListener(from, to) ==
  /\ ThreadAt(from, to)
  /\ listener' = FALSE
  /\ UNCHANGED <<word, pushVars, clientVars, channelVars, stream, session, node>>

(* disconnect, four pumps and the drop of a stream nobody listens to; or,  *)
(* on Shutdown, the drop alone.                                            *)
DropCaptureStream(from, to) ==
  /\ ThreadAt(from, to)
  /\ stream' = "none"
  /\ UNCHANGED <<word, pushVars, clientVars, channelVars, listener, session, node>>

(* Fault: the session ends without its signal.                             *)
GracefulEnd_Silent(from, to) ==
  /\ ThreadAt(from, to)
  /\ session' = FALSE
  /\ UNCHANGED <<word, pushVars, clientVars, channelVars, stream, listener, node>>

(* signal_session_graceful_end(active_shared.take()).                      *)
GracefulEnd(from, to) ==
  /\ ThreadAt(from, to)
  /\ IF session THEN Transition("Running", "Stopping") ELSE UNCHANGED word
  /\ session' = FALSE
  /\ UNCHANGED <<pushVars, clientVars, channelVars, stream, listener, node>>

StopAck ==
  /\ ThreadAt("stopAck", "iterate")
  /\ Answer("stop", "ok")
  /\ UNCHANGED <<word, pushVars, clientVars, stream, listener, session, node>>

(* A roundtrip gives up by itself, so a query is always answered.          *)
QueryDone ==
  /\ ThreadAt("query", "iterate")
  /\ Answer("query", "ok")
  /\ UNCHANGED <<word, pushVars, clientVars, stream, listener, session, node>>

Exit ==
  /\ ThreadAt("exit", "exited")
  /\ UNCHANGED <<word, pushVars, clientVars, channelVars, stream, listener, session, node>>

ThreadRuns ==
  \/ InitOk \/ InitFails \/ IterateQuiet \/ StateChanged \/ NoCommand \/ Receive
  \/ StreamFails \/ ListenerMade \/ ConnectFails \/ Connected
  \/ DropListener("stop", "stopStream") \/ DropListener("shutdown", "downStream")
  \/ DropCaptureStream("stopStream", "stopEnd") \/ DropCaptureStream("downStream", "downEnd")
  \/ GracefulEnd("stopEnd", "stopAck") \/ GracefulEnd("downEnd", "exit")
  \/ StopAck \/ QueryDone \/ Exit

(* The daemon dies, or the node is removed or unplugged.                   *)
NodeDies ==
  /\ node = "up" /\ node' = "dead"
  /\ UNCHANGED <<word, pushVars, clientVars, channelVars, threadVars>>

Done == client = "closed" /\ thread = "exited" /\ UNCHANGED vars

Next == Client \/ Process \/ ThreadRuns \/ NodeDies \/ Done

Spec == Init /\ [][Next]_vars

(* The caller is inside a call until it holds the stream or has let go of  *)
(* it; recv_timeout gives up by itself.  The thread goes round its loop,   *)
(* and what libpipewire is asked for returns.  Nothing makes a caller stop *)
(* or drop a stream, or a node deliver or die.                             *)
ClientRuns ==
  \/ Initialized \/ StopFinish \/ DropThread \/ Join
  \/ \E a \in Answers : Started(a) \/ Queried(a) \/ StopAnswered(a)

FairSpec == Spec /\ WF_vars(ClientRuns) /\ WF_vars(ThreadRuns)
-----------------------------------------------------------------------------
(* Type invariant.                                                         *)
TypeOK ==
  /\ word \in {"Created", "Running", "Stopping", "Stopped", "Error"}
  /\ pushed \in 0 .. MaxPush /\ panicked \in BOOLEAN
  /\ role \in {"capture", "query"}
  /\ client \in {"idle", "waiting", "open", "finish", "drop", "join", "closed"}
  /\ handle \in BOOLEAN /\ outcome \in {"none", "ok", "err"}
  /\ commands \in Seq({"start", "stop", "query", "shutdown"})
  /\ awaiting \in {"none", "init", "start", "stop", "query"}
  /\ reply \in {"none", "ok", "err"}
  /\ thread \in {"unborn", "init", "iterate", "receive", "start", "connect", "query",
                 "stop", "stopStream", "stopEnd", "stopAck",
                 "shutdown", "downStream", "downEnd", "exit", "exited"}
  /\ listener \in BOOLEAN /\ session \in BOOLEAN
  /\ stream \in {"none", "linked", "unconnected"} /\ node \in {"up", "dead"}

(* ADR-0010 for Linux: through late commands, deaths, poisoned words and   *)
(* teardowns the session's bridge sees one producer, which is live from    *)
(* the connection to its signal or, if a panic has put the signal first,   *)
(* to the end of its callbacks; it pushes only while it is live and never  *)
(* errs after a graceful end.                                              *)
Producer ==
  CASE word = "Error" -> IF Hears THEN "live" ELSE "over"
    [] word # "Error" /\ session -> "live"
    [] word \in {"Created", "Running"} /\ ~session -> "none"
    [] OTHER -> "over"

Contract == INSTANCE ProducerTerminal WITH word <- word, producer <- Producer, pushed <- pushed % 2
TerminalSignalled == Contract!Spec

(* A stream in a caller's hands turns to Error only if its node did die or *)
(* a push has panicked: a stop, a drop or a shutdown is never reported as  *)
(* a failure.                                                              *)
CleanStopIsGraceful == handle /\ word = "Error" => node = "dead" \/ panicked

(* What an Ok answer says is so, although it was given by another thread:  *)
(* a started stream captures until it is asked to stop, and after an       *)
(* acknowledged stop nothing can push or signal any more.                  *)
AnswersAreTrue ==
  /\ client = "open" /\ outcome = "none" => session /\ listener
  /\ outcome = "ok" => ~session /\ ~listener /\ stream = "none"

(* Once create_stream has failed, a query has returned or the stream was   *)
(* dropped, nothing of it is left: not the thread, not a capture started   *)
(* late by a command whose sender had given up.                            *)
NothingLeft ==
  client = "closed" =>
    /\ ~listener /\ ~session /\ stream = "none" /\ commands = <<>>
    /\ thread \in {"exit", "exited"}

(* No call blocks for ever: not the ones with a time limit, not spawn()    *)
(* and not the join of Drop, which have none.                              *)
CallsReturn == client \notin {"idle", "open", "closed"} ~> client \in {"open", "closed"}

(* The death of the node behind a stream reaches the word its readers and  *)
(* its async task look at.                                                 *)
DeathIsSeen == handle /\ node = "dead" ~> word # "Running"

(* Nobody waits for ever: no caller of the handle, no reader of a stream   *)
(* whose node is gone.                                                     *)
NobodyHangs == CallsReturn /\ DeathIsSeen
=============================================================================
