---------------------------- MODULE ComposeEngine ----------------------------
(***************************************************************************)
(* The tick loop of the compositor (Engine::run_loop and what it calls,    *)
(* src/compose/engine.rs): it drains every capture into a FIFO of its own, *)
(* keeps each FIFO on its capture's timeline, and mixes a quantum from all *)
(* of them when the master has one, or when the wall clock says so.        *)
(*                                                                         *)
(* Audio is counted in frames, a frame being a fixed span of time at any   *)
(* rate, and a frame is its position on the timeline of its capture.  A    *)
(* buffer holds one frame.  What a capture delivers, loses and when it     *)
(* ends is up to the environment.  The composed ring is ComposeStream's,   *)
(* the mix itself (gain, layout, clamp) is left out.                       *)
(***************************************************************************)
EXTENDS Integers, Sequences

CONSTANTS
  N,           \* sources, 1 .. N in declaration order
  Master,      \* master_index
  Candidates,  \* sources with clock_candidate
  Quantum,     \* quantum_frames
  MaxFifo,     \* max_fifo_frames
  Rates,       \* delivered rates; 0 is the session rate
  Chunk,       \* CHUNK_FRAMES of the resampler
  MaxDrain,    \* MAX_DRAIN_PER_POLL
  MaxClock     \* bound of the model: frames on a capture's timeline

Sources == 1 .. N

ASSUME EngineAssumption ==
  /\ N \in Nat \ {0} /\ Master \in Sources /\ Candidates \subseteq Sources
  /\ Quantum \in Nat \ {0} /\ MaxFifo \in Nat /\ MaxFifo >= Quantum /\ Chunk \in Nat \ {0}
  /\ MaxDrain \in Nat \ {0} /\ MaxClock \in Nat /\ Rates \subseteq Nat

VARIABLES
  pc,        \* "top", "ingest", "tick", "trim", "flush" or "done"
  cursor,    \* the source that is being drained
  drained,   \* reads made of it in this pass
  emitted,   \* a tick was emitted in this pass
  engaged,   \* fallback_engaged
  elapsed,   \* since last_tick: 0, 1 (a quantum) or 2 (stall_timeout)
  engineStop,
  fifo,      \* the frames in each FIFO
  held,      \* the frames inside each resampler
  rate,      \* resampler_in_rate
  anchor,    \* expected_next, 0 until the first buffer
  ended,
  last,      \* history: the last frame that left each FIFO, 0 if none
  clock,     \* the capture's next frame
  over       \* the capture has ended

control == <<pc, cursor, drained, emitted, engaged, engineStop>>
lanes == <<fifo, held, rate, anchor, ended, clock>>
engineVars == <<control, elapsed, lanes, last, over>>

EngineInit ==
  /\ pc = "top" /\ cursor = 1 /\ drained = 0 /\ emitted = FALSE /\ engaged = FALSE
  /\ elapsed = 0 /\ engineStop = FALSE
  /\ fifo = [s \in Sources |-> <<>>] /\ held = [s \in Sources |-> <<>>]
  /\ rate = [s \in Sources |-> 0] /\ anchor = [s \in Sources |-> 0]
  /\ ended = [s \in Sources |-> FALSE] /\ last = [s \in Sources |-> 0]
  /\ clock = [s \in Sources |-> 1] /\ over = [s \in Sources |-> FALSE]

Lesser(a, b) == IF a < b THEN a ELSE b

-----------------------------------------------------------------------------
(* The environment.  Each of these happens at any time; the model takes    *)
(* them where the engine next looks.                                       *)

TimePasses ==
  /\ pc = "tick" /\ elapsed < 2
  /\ elapsed' = elapsed + 1
  /\ UNCHANGED <<control, lanes, last, over>>

CaptureEnds(s) ==
  /\ pc = "ingest" /\ cursor = s /\ ~over[s]
  /\ over' = [over EXCEPT ![s] = TRUE]
  /\ UNCHANGED <<control, elapsed, lanes, last>>

(* The composed stream's stop_capture.                                     *)
Stop ==
  /\ pc = "top" /\ ~engineStop
  /\ engineStop' = TRUE
  /\ UNCHANGED <<pc, cursor, drained, emitted, engaged, elapsed, lanes, last, over>>

-----------------------------------------------------------------------------
(* run_loop.                                                               *)

(* A stop leaves the tail where it is.                                     *)
Top ==
  /\ pc = "top"
  /\ pc' = IF engineStop THEN "done" ELSE "ingest"
  /\ cursor' = 1 /\ drained' = 0 /\ emitted' = FALSE
  /\ UNCHANGED <<engaged, engineStop, elapsed, lanes, last, over>>

NextSource ==
  /\ pc' = IF cursor = N THEN "tick" ELSE "ingest"
  /\ cursor' = IF cursor = N THEN 1 ELSE cursor + 1
  /\ drained' = 0
  /\ UNCHANGED <<emitted, engaged, engineStop>>

(* The frames from..to of a timeline.                                      *)
Span(from, to) == [i \in 1 .. to - from + 1 |-> from + i - 1]

(* A buffer that begins after the expected position follows a hole: as     *)
(* much silence as a FIFO can hold goes in ahead of it.                    *)
Hole(s, at) ==
  IF anchor[s] = 0 THEN 0 ELSE Lesser(at - anchor[s], MaxFifo)

(* Fault: a switch to the session rate leaves the resampler unflushed.     *)
Lane_Strands(s, frames, r) ==
  LET tail == IF r = rate[s] \/ r = 0 THEN <<>> ELSE held[s]
      in == (IF r = rate[s] THEN held[s] ELSE <<>>) \o frames
      out == IF r = 0 THEN Len(in) ELSE Len(in) - (Len(in) % Chunk)
  IN  [fifo |-> fifo[s] \o tail \o SubSeq(in, 1, out),
       held |-> SubSeq(in, out + 1, Len(in))]

(* Frames arriving at a rate: a resampler for another rate is flushed into *)
(* the FIFO first, and the one in use keeps an incomplete chunk.           *)
Lane(s, frames, r) ==
  LET tail == IF r = rate[s] THEN <<>> ELSE held[s]
      in == (IF r = rate[s] THEN held[s] ELSE <<>>) \o frames
      out == IF r = 0 THEN Len(in) ELSE Len(in) - (Len(in) % Chunk)
  IN  [fifo |-> fifo[s] \o tail \o SubSeq(in, 1, out),
       held |-> SubSeq(in, out + 1, Len(in))]

(* ingest_buffer for a buffer that starts at a position.                   *)
Ingest(s, at, r) ==
  LET gap == Hole(s, at)
      lane == Lane(s, Span(at - gap, at), r)
  IN  /\ fifo' = [fifo EXCEPT ![s] = lane.fifo]
      /\ held' = [held EXCEPT ![s] = lane.held]
      /\ rate' = [rate EXCEPT ![s] = r]
      /\ anchor' = [anchor EXCEPT ![s] = at + 1]

(* The capture delivers its next frame, or a later one after it lost some. *)
ReadBuffer(at, r) ==
  LET s == cursor IN
  /\ pc = "ingest" /\ ~ended[s] /\ ~over[s] /\ drained < MaxDrain
  /\ at >= clock[s]
  /\ Ingest(s, at, r)
  /\ clock' = [clock EXCEPT ![s] = at + 1]
  /\ drained' = drained + 1
  /\ UNCHANGED <<pc, cursor, emitted, engaged, engineStop, elapsed, ended, last, over>>

(* No data, a transient error, or enough reads for this pass.              *)
ReadNothing ==
  /\ pc = "ingest"
  /\ ended[cursor] \/ ~over[cursor] \/ drained = MaxDrain
  /\ NextSource
  /\ UNCHANGED <<elapsed, lanes, last, over>>

(* Fault: the resampler is not flushed when its capture ends.              *)
ReadEnded_NoFlush ==
  LET s == cursor IN
  /\ pc = "ingest" /\ ~ended[s] /\ over[s] /\ drained < MaxDrain
  /\ ended' = [ended EXCEPT ![s] = TRUE]
  /\ NextSource
  /\ UNCHANGED <<elapsed, fifo, held, rate, anchor, clock, last, over>>

ReadEnded ==
  LET s == cursor IN
  /\ pc = "ingest" /\ ~ended[s] /\ over[s] /\ drained < MaxDrain
  /\ fifo' = [fifo EXCEPT ![s] = @ \o held[s]]
  /\ held' = [held EXCEPT ![s] = <<>>]
  /\ ended' = [ended EXCEPT ![s] = TRUE]
  /\ NextSource
  /\ UNCHANGED <<elapsed, rate, anchor, clock, last, over>>

-----------------------------------------------------------------------------
(* Ticks.                                                                  *)

Depth(s) == Len(fifo[s])
First(S) == CHOOSE s \in S : \A t \in S : s <= t

(* The configured master while it lives, else the first live candidate,    *)
(* else the first live source.                                             *)
MasterDepth ==
  LET live == {s \in Sources : ~ended[s]}
  IN  IF live = {} THEN 0
      ELSE Depth(IF Master \in live THEN Master
                 ELSE IF live \intersect Candidates # {} THEN First(live \intersect Candidates)
                 ELSE First(live))

(* The first n[s] frames leave each FIFO.                                  *)
Leave(n) ==
  /\ fifo' = [s \in Sources |-> SubSeq(fifo[s], n[s] + 1, Depth(s))]
  /\ last' = [s \in Sources |-> IF n[s] = 0 THEN last[s] ELSE fifo[s][n[s]]]

(* emit_tick: a FIFO that has less is padded.                              *)
EmitTick(frames) ==
  LET take == [s \in Sources |-> Lesser(Depth(s), frames)]
  IN  /\ Leave(take)
      /\ elapsed' = 0
      /\ UNCHANGED <<held, rate, anchor, ended, clock, over>>

MasterTick ==
  /\ pc = "tick" /\ MasterDepth >= Quantum
  /\ EmitTick(Quantum)
  /\ emitted' = TRUE /\ engaged' = FALSE
  /\ UNCHANGED <<pc, cursor, drained, engineStop>>

Due == elapsed >= (IF engaged THEN 1 ELSE 2)

(* Fault: the session waits for its master.                                *)
FallbackTick_Never == FALSE /\ pc = "tick" /\ UNCHANGED engineVars

(* Entering the fallback takes a stall, staying in it a quantum.           *)
FallbackTick ==
  /\ pc = "tick" /\ MasterDepth < Quantum /\ ~emitted /\ Due
  /\ EmitTick(Quantum)
  /\ pc' = "trim" /\ emitted' = TRUE /\ engaged' = TRUE
  /\ UNCHANGED <<cursor, drained, engineStop>>

NoTick ==
  /\ pc = "tick" /\ MasterDepth < Quantum /\ (emitted \/ ~Due)
  /\ pc' = "trim"
  /\ UNCHANGED <<cursor, drained, emitted, engaged, engineStop, elapsed, lanes, last, over>>

AfterTrim == IF \A s \in Sources : ended[s] THEN "flush" ELSE "top"

(* trim_all: the oldest frames of a FIFO that is too long are dropped.     *)
TrimAll ==
  LET excess == [s \in Sources |-> IF Depth(s) > MaxFifo THEN Depth(s) - MaxFifo ELSE 0]
  IN  /\ pc = "trim" /\ pc' = AfterTrim
      /\ Leave(excess)
      /\ UNCHANGED <<cursor, drained, emitted, engaged, engineStop, elapsed, held, rate,
                     anchor, ended, clock, over>>

(* flush_tail, after every source ended: ticks until every FIFO is empty.  *)
Deepest == CHOOSE n \in {Depth(s) : s \in Sources} : \A s \in Sources : Depth(s) <= n

FlushTick ==
  /\ pc = "flush" /\ Deepest > 0
  /\ EmitTick(Lesser(Deepest, Quantum))
  /\ UNCHANGED control

FlushDone ==
  /\ pc = "flush" /\ Deepest = 0
  /\ pc' = "done"
  /\ UNCHANGED <<cursor, drained, emitted, engaged, engineStop, elapsed, lanes, last, over>>

-----------------------------------------------------------------------------
EngineStep ==
  \/ Top \/ ReadNothing \/ ReadEnded
  \/ MasterTick \/ FallbackTick \/ NoTick \/ TrimAll \/ FlushTick \/ FlushDone

EngineNext ==
  \/ TimePasses \/ Stop \/ \E s \in Sources : CaptureEnds(s)
  \/ \E at \in 1 .. MaxClock, r \in Rates : ReadBuffer(at, r)
  \/ EngineStep

EngineSpec == EngineInit /\ [][EngineNext]_engineVars

(* The engine thread runs and time passes.  No capture need deliver, or    *)
(* end, and nobody need stop the composition.                              *)
EngineFair == EngineSpec /\ WF_engineVars(EngineStep) /\ SF_engineVars(TimePasses)
-----------------------------------------------------------------------------
(* Type invariant.                                                         *)
EngineTypeOK ==
  /\ pc \in {"top", "ingest", "tick", "trim", "flush", "done"}
  /\ cursor \in Sources /\ drained \in 0 .. MaxDrain
  /\ emitted \in BOOLEAN /\ engaged \in BOOLEAN /\ engineStop \in BOOLEAN
  /\ elapsed \in 0 .. 2
  /\ fifo \in [Sources -> Seq(Int)] /\ held \in [Sources -> Seq(Int)]
  /\ \A s \in Sources : Len(held[s]) < Chunk
  /\ rate \in [Sources -> Rates \union {0}]
  /\ anchor \in [Sources -> 0 .. MaxClock + 1] /\ clock \in [Sources -> 1 .. MaxClock + 1]
  /\ ended \in [Sources -> BOOLEAN] /\ over \in [Sources -> BOOLEAN]
  /\ last \in [Sources -> Int]

Pending(s) == fifo[s] \o held[s]

(* A lane lies on the timeline of its capture: the frame that left it      *)
(* last, those in its FIFO and those in its resampler end with the last    *)
(* frame received, and follow one another without a hole, a loss or a      *)
(* repetition, whatever the capture lost and however its rate changed.     *)
(* Only a hole longer than a FIFO is shortened, behind the newest frames.  *)
LanesContinuous ==
  \A s \in Sources : anchor[s] # 0 =>
    LET lane == (IF last[s] = 0 THEN <<>> ELSE <<last[s]>>) \o Pending(s)
        len == Len(lane)
    IN  /\ len > 0 /\ lane[len] = clock[s] - 1
        /\ \A i \in 1 .. len - 1 :
             i >= len - MaxFifo => lane[i + 1] = lane[i] + 1

(* No FIFO delays its lane by more than max_fifo_frames after a pass.      *)
LatencyBounded == pc \in {"top", "flush"} => \A s \in Sources : Depth(s) <= MaxFifo

(* The lanes are on time, neither torn nor late.                           *)
LanesOnTime == LanesContinuous /\ LatencyBounded

(* A composition that ends by itself has mixed everything it received,     *)
(* except what it had to trim.                                             *)
NaturalEndDrains ==
  pc = "done" /\ ~engineStop => \A s \in Sources : Pending(s) = <<>>

(* A stalled or dead master does not freeze the session: whatever is in a  *)
(* FIFO leaves it, unless the composition is stopped.                      *)
FramesLeave ==
  \A s \in Sources : Depth(s) > 0 ~> Depth(s) = 0 \/ engineStop

(* Once every capture has ended, or on a stop, the engine exits.           *)
EngineExits == ((\A s \in Sources : over[s]) \/ engineStop) ~> pc = "done"

(* The engine neither freezes nor outlives its captures.                   *)
EngineProgresses == FramesLeave /\ EngineExits
=============================================================================
