---------------------------- MODULE ComposeStream ----------------------------
(***************************************************************************)
(* The composed stream (src/compose/stream.rs): the stream of BridgeStream *)
(* read through ComposedStreamView, with the engine thread                 *)
(* (Engine::run, src/compose/engine.rs) as its producer and                *)
(* Composition::stop as its stopper.                                       *)
(*                                                                         *)
(* The engine's loop and its final signal are the Producer steps of        *)
(* BridgeStream: SourceEnds is the way out of run_loop once every source   *)
(* is over and its tail was pushed, SourceDies a panic in it.  What        *)
(* the engine does to captured frames is in ComposeEngine.                 *)
(***************************************************************************)
EXTENDS BridgeStream

VARIABLES
  active,   \* engine_active
  view,     \* where each reader is in the view's read_chunk or try_read_chunk
  sampled,  \* inactive_before_read
  answer,   \* what the view's last call returned
  owner     \* Composition::stop: "stream", "joining" or "returned"

viewVars == <<view, sampled, answer>>
allVars == <<vars, active, viewVars, owner>>

(* The engine is the one stop target, and its stop_capture only sets a     *)
(* flag.                                                                   *)
ASSUME ComposeAssumption ==
  /\ Blocking = Readers \ Polling
  /\ ~SyncStop /\ ~StopMayFail

ComposeInit ==
  /\ Init
  /\ active = TRUE
  /\ view = [r \in Readers |-> "idle"]
  /\ sampled = [r \in Readers |-> FALSE]
  /\ answer = [r \in Readers |-> "none"]
  /\ owner = [s \in Stoppers |-> "stream"]

ViewAt(r, from, to) == view[r] = from /\ view' = [view EXCEPT ![r] = to]

-----------------------------------------------------------------------------
(* The view's reads.                                                       *)

(* Each round begins with a look at the engine, before the ring is read.   *)
Sample(r) ==
  /\ sampled' = [sampled EXCEPT ![r] = ~active]
  /\ ViewAt(r, view[r], "try")
  /\ UNCHANGED <<vars, active, answer, owner>>

Call(r) == Opened /\ view[r] = "idle" /\ Sample(r)

(* The inner stream's try_read_chunk.                                      *)
Try(r) ==
  /\ ViewAt(r, "try", "trying")
  /\ EnterRead(r, "poll")
  /\ UNCHANGED <<active, sampled, answer, owner>>

Back(r, from) == view[r] = from /\ rpc[r] = "idle"
Answer(r, from, what) ==
  /\ ViewAt(r, from, "idle")
  /\ answer' = [answer EXCEPT ![r] = what]
  /\ sampled' = [sampled EXCEPT ![r] = FALSE]
  /\ UNCHANGED <<active, owner>>

(* Data, and the end of the inner stream, are passed on.                   *)
PassOn(r) ==
  /\ rpc[r] = "idle" /\ view[r] \in {"trying", "blocking"}
  /\ result[r] \in {"data", "ended"}
  /\ Answer(r, view[r], result[r])
  /\ UNCHANGED vars

(* Fault: the engine is looked at after the ring was read.                 *)
Promote_Resampled(r) ==
  /\ Back(r, "trying") /\ result[r] = "empty" /\ ~active
  /\ Transition("Stopping", "Stopped")
  /\ Answer(r, "trying", "ended")
  /\ UNCHANGED <<ring, generation, stopFlag, readerVars, stopperVars, producerVars>>

(* Fault: the view is the plain stream, which stays Stopping.              *)
Promote_Never(r) ==
  /\ Back(r, "trying") /\ result[r] = "empty" /\ sampled[r]
  /\ Answer(r, "trying", "empty")
  /\ UNCHANGED vars

(* The engine was gone before the ring was found empty: nothing can come.  *)
Promote(r) ==
  /\ Back(r, "trying") /\ result[r] = "empty" /\ sampled[r]
  /\ Transition("Stopping", "Stopped")
  /\ Answer(r, "trying", "ended")
  /\ UNCHANGED <<ring, generation, stopFlag, readerVars, stopperVars, producerVars>>

Empty(r) ==
  /\ Back(r, "trying") /\ result[r] = "empty" /\ ~sampled[r]
  /\ r \in Polling
  /\ Answer(r, "trying", "empty")
  /\ UNCHANGED vars

(* read_chunk parks in the inner read_chunk, and after its timeout begins  *)
(* a new round.                                                            *)
Block(r) ==
  /\ Back(r, "trying") /\ result[r] = "empty" /\ ~sampled[r]
  /\ r \in Blocking
  /\ ViewAt(r, "trying", "blocking")
  /\ EnterRead(r, "block")
  /\ UNCHANGED <<active, sampled, answer, owner>>

Again(r) == Back(r, "blocking") /\ result[r] = "timeout" /\ Sample(r)

(* The steps of the inner reads.                                           *)
Inner(r) ==
  /\ ReaderRuns(r) \/ DeadlinePassed(r)
  /\ UNCHANGED <<active, viewVars, owner>>

ViewRuns(r) ==
  Try(r) \/ PassOn(r) \/ Promote(r) \/ Empty(r) \/ Block(r) \/ Again(r) \/ Inner(r)

-----------------------------------------------------------------------------
(* The engine thread and Composition::stop.                                *)

Engine == Producer /\ UNCHANGED <<active, viewVars, owner>>

(* Fault: the engine reports its exit before its last pushes.              *)
EngineExit_BeforeSignal ==
  /\ ppc = "device" /\ active
  /\ active' = FALSE
  /\ UNCHANGED <<vars, viewVars, owner>>

(* The flag falls after the final signal.                                  *)
EngineExit ==
  /\ ppc = "halted" /\ active
  /\ active' = FALSE
  /\ UNCHANGED <<vars, viewVars, owner>>

StreamStop(s) == owner[s] = "stream" /\ Stopper(s) /\ UNCHANGED <<active, viewVars, owner>>

(* Composition::stop sets the flag itself too: the stream's stop does not  *)
(* reach stop_capture if the stream has ended by itself.                   *)
StopEngine(s) ==
  /\ owner[s] = "stream" /\ spc[s] = "returned"
  /\ stopFlag' = TRUE
  /\ owner' = [owner EXCEPT ![s] = "joining"]
  /\ UNCHANGED <<state, ring, generation, readerVars, stopperVars, producerVars, active, viewVars>>

Join(s) ==
  /\ owner[s] = "joining" /\ ~active
  /\ owner' = [owner EXCEPT ![s] = "returned"]
  /\ UNCHANGED <<vars, active, viewVars>>

-----------------------------------------------------------------------------
ComposeNext ==
  \/ OpenStream /\ UNCHANGED <<active, viewVars, owner>>
  \/ \E r \in Readers : Call(r) \/ ViewRuns(r)
  \/ Engine \/ EngineExit
  \/ \E s \in Stoppers : StreamStop(s) \/ StopEngine(s) \/ Join(s)

ComposeSpec == ComposeInit /\ [][ComposeNext]_allVars

(* Threads inside a call run, and a read's timeout passes.  The readers    *)
(* are pumps (subscribe, drain_to, a read loop), which call again.  The    *)
(* engine's loop goes round; nothing forces a source to end, nor a stop.   *)
ComposeFair ==
  /\ ComposeSpec
  /\ \A r \in Readers :
       /\ WF_allVars(Call(r) \/ ViewRuns(r))
       /\ SF_allVars(DeadlinePassed(r) /\ UNCHANGED <<active, viewVars, owner>>)
  /\ WF_allVars((ProducerRuns /\ UNCHANGED <<active, viewVars, owner>>) \/ EngineExit)
  /\ \A s \in Stoppers :
       WF_allVars((StopperRuns(s) /\ UNCHANGED <<active, viewVars, owner>>)
                    \/ StopEngine(s) \/ Join(s))
-----------------------------------------------------------------------------
(* Type invariant.                                                         *)
ComposeTypeOK ==
  /\ TypeOK
  /\ active \in BOOLEAN
  /\ view \in [Readers -> {"idle", "try", "trying", "blocking"}]
  /\ sampled \in [Readers -> BOOLEAN]
  /\ answer \in [Readers -> {"none", "data", "empty", "ended"}]
  /\ owner \in [Stoppers -> {"stream", "joining", "returned"}]

(* The natural end strands nothing: only stop() may make the stream        *)
(* Stopped over buffers that were not read or an engine that still runs;   *)
(* the promotion by a reader comes after the last buffer was read.         *)
TailBeforeEnd ==
  [][state # "Stopped" /\ state' = "Stopped" /\ UNCHANGED spc
       => ring = 0 /\ ppc = "halted"]_allVars

(* A reader is told that the composition ended only when the stream is     *)
(* terminal for every reader, whichever way it ended, and is never given   *)
(* anything else afterwards.                                               *)
EndedIsOver ==
  [][\A r \in Readers : answer'[r] = "ended" => state' \in Terminal]_allVars

(* Nothing enters the ring once Composition::stop has returned.            *)
JoinedIsQuiet ==
  [][\A s \in Stoppers : owner[s] = "returned" => ring' <= ring]_allVars

(* What comes after the end: nothing, for the readers and for the ring.    *)
NothingAfterEnd == EndedIsOver /\ JoinedIsQuiet

(* The end is the last thing a composition gives, whoever looks for it.    *)
EndIsLast == TailBeforeEnd /\ NothingAfterEnd

(* Every read loop ends by itself after the engine exited, be it in a      *)
(* blocked read, in a poll, or behind another reader; and                  *)
(* Composition::stop returns.                                              *)
CompositionEnds ==
  /\ \A r \in Readers : ~active ~> answer[r] = "ended"
  /\ \A s \in Stoppers : spc[s] = "request" ~> owner[s] = "returned"
=============================================================================
