---------------------------- MODULE Streams_proofs ----------------------------
(***************************************************************************)
(* Theorems about BridgeStream, for any number of reading and stopping     *)
(* threads, with and without notifying producers and waiting stops, and    *)
(* about ComposeStream, which puts a view, an owner and an engine thread   *)
(* around it; and about ComposeEngine, what that thread does, for any      *)
(* number of sources, rates, quantum and FIFO bound.                       *)
(***************************************************************************)
EXTENDS ComposeStream, ComposeEngine, SequenceTheorems, WellFoundedInduction, TLAPS

-----------------------------------------------------------------------------
(* Type correctness.                                                       *)

LEMMA InitType == Init => TypeOK
<1> SUFFICES ASSUME Init PROVE TypeOK
  OBVIOUS
<1>1. ring \in 0 .. Capacity /\ generation \in Nat /\ delivered \in 0 .. MaxPush
  BY StreamAssumption DEF Init
<1>2. state \in Lifecycle!States /\ stopFlag \in BOOLEAN
      /\ consumer \in Readers \union {Free} /\ platform \in Stoppers \union {Free}
  BY DEF Init, Lifecycle!States
<1> QED
  BY <1>1, <1>2 DEF Init, TypeOK

LEMMA ReaderType ==
  ASSUME TypeOK, NEW r \in Readers, Reader(r)
  PROVE  TypeOK'
<1> USE DEF TypeOK, shared, stopperVars, producerVars, Goto, Return, Free, Lifecycle!States
<1>1. ASSUME NEW m \in Modes(r), EnterRead(r, m) PROVE TypeOK'
  BY <1>1, StreamAssumption DEF EnterRead, Modes
<1>2. CASE Classify(r)
  BY <1>2 DEF Classify
<1>3. CASE LockConsumer(r)
  BY <1>3 DEF LockConsumer
<1>4. CASE Snapshot(r)
  BY <1>4 DEF Snapshot
<1>5. CASE PopData(r)
  BY <1>5, StreamAssumption DEF PopData
<1>6. CASE PopEmpty(r)
  BY <1>6 DEF PopEmpty
<1>7. CASE CheckTerminal(r)
  BY <1>7 DEF CheckTerminal
<1>8. CASE DeadlinePassed(r)
  BY <1>8 DEF DeadlinePassed
<1>9. CASE DeadlineAhead(r)
  BY <1>9 DEF DeadlineAhead
<1>10. CASE Wait(r)
  BY <1>10 DEF Wait
<1>11. CASE Park(r)
  BY <1>11 DEF Park
<1>12. CASE SliceElapsed(r)
  BY <1>12 DEF SliceElapsed
<1> QED
  BY <1>1, <1>2, <1>3, <1>4, <1>5, <1>6, <1>7, <1>8, <1>9, <1>10, <1>11, <1>12 DEF Reader

LEMMA StopperType ==
  ASSUME TypeOK, NEW s \in Stoppers, Stopper(s)
  PROVE  TypeOK'
<1> USE DEF TypeOK, shared, readerVars, producerVars, StopperAt, Transition, Free, Lifecycle!States
<1>1. CASE StopRead(s)
  BY <1>1 DEF StopRead
<1>2. CASE StopRequest(s)
  BY <1>2 DEF StopRequest
<1>3. CASE LockPlatform(s)
  BY <1>3 DEF LockPlatform
<1>4. CASE StopCapture(s)
  BY <1>4 DEF StopCapture
<1>5. CASE StopAwait(s)
  BY <1>5 DEF StopAwait
<1>6. CASE StopFinish(s)
  BY <1>6 DEF StopFinish
<1>7. CASE StopBump(s)
  BY <1>7 DEF StopBump, Bump
<1>8. CASE StopWake(s)
  BY <1>8 DEF StopWake, WakeAll
<1> QED
  BY <1>1, <1>2, <1>3, <1>4, <1>5, <1>6, <1>7, <1>8 DEF Stopper

LEMMA ProducerType ==
  ASSUME TypeOK, Producer \/ OpenStream
  PROVE  TypeOK'
<1> USE DEF TypeOK, shared, readerVars, stopperVars, ProducerAt, Transition, Free, Lifecycle!States
<1>1. CASE OpenStream
  BY <1>1 DEF OpenStream
<1>2. CASE ProducerLoop \/ NoData \/ SourceEnds \/ SourceDies
  BY <1>2 DEF ProducerLoop, NoData, SourceEnds, SourceDies
<1>3. CASE Push
  BY <1>3, StreamAssumption DEF Push
<1>4. CASE SignalDone \/ SignalError
  BY <1>4 DEF SignalDone, SignalError
<1>5. CASE ProducerBump
  BY <1>5 DEF ProducerBump, Bump
<1>6. CASE ProducerWake
  BY <1>6 DEF ProducerWake, WakeAll
<1> QED
  BY <1>1, <1>2, <1>3, <1>4, <1>5, <1>6 DEF Producer

LEMMA NextType == TypeOK /\ [Next]_vars => TypeOK'
<1> SUFFICES ASSUME TypeOK, [Next]_vars PROVE TypeOK'
  OBVIOUS
<1>1. CASE UNCHANGED vars
  BY <1>1 DEF vars, shared, readerVars, stopperVars, producerVars, TypeOK
<1> QED
  BY <1>1, ReaderType, StopperType, ProducerType DEF Next

(* The stream, its readers, its stoppers and its producer keep their types *)
(* for any number of threads.                                              *)
THEOREM TypeCorrect == Spec => []TypeOK
BY InitType, NextType, PTL DEF Spec

-----------------------------------------------------------------------------
(* The lifecycle.                                                          *)

NotBeforeOpen ==
  /\ state = "Created" => ppc = "new"
  /\ ppc = "error" => MayFail

LEMMA InitLifecycle == Init => Lifecycle!Init /\ NotBeforeOpen
BY DEF Init, Lifecycle!Init, NotBeforeOpen

(* No reader changes the lifecycle word; a stopper and the producer change *)
(* it along the machine or not at all.                                     *)
LEMMA NextLifecycle ==
  NotBeforeOpen /\ [Next]_vars => [Lifecycle!Next]_state /\ NotBeforeOpen'
<1> SUFFICES ASSUME NotBeforeOpen, [Next]_vars
             PROVE  [Lifecycle!Next]_state /\ NotBeforeOpen'
  OBVIOUS
<1> USE DEF NotBeforeOpen, shared, readerVars, stopperVars, producerVars, Transition,
            StopperAt, ProducerAt, Lifecycle!Next, Lifecycle!Advance
<1>1. CASE OpenStream
  BY <1>1 DEF OpenStream
<1>2. ASSUME NEW r \in Readers, Reader(r) PROVE UNCHANGED <<state, ppc>>
  BY <1>2 DEF Reader, EnterRead, Classify, LockConsumer, Snapshot, PopData, PopEmpty,
     CheckTerminal, DeadlinePassed, DeadlineAhead, Wait, Park, SliceElapsed
<1>3. ASSUME NEW s \in Stoppers, Stopper(s) PROVE [Lifecycle!Next]_state /\ NotBeforeOpen'
  BY <1>3 DEF Stopper, StopRead, StopRequest, LockPlatform, StopCapture, StopAwait,
     StopFinish, StopBump, StopWake
<1>4. CASE Producer
  BY <1>4 DEF Producer, ProducerLoop, Push, NoData, SourceEnds, SourceDies, SignalDone,
     SignalError, ProducerBump, ProducerWake
<1>5. CASE UNCHANGED vars
  BY <1>5 DEF vars
<1> QED
  BY <1>1, <1>2, <1>3, <1>4, <1>5 DEF Next

(* BridgeStream implements the state machine of state.rs: whatever the     *)
(* readers, the stoppers and the producer do in whatever order, the        *)
(* lifecycle word only ever moves along it.                                *)
THEOREM LifecycleCorrect == Spec => LifecycleRefined
BY InitLifecycle, NextLifecycle, PTL DEF Spec, LifecycleRefined, Lifecycle!Spec

(* In particular a terminal state is never left for a readable one.        *)
LEMMA TerminalStable ==
  [Lifecycle!Next]_state /\ state \in Terminal => state' \in Terminal
BY DEF Lifecycle!Next, Lifecycle!Advance, Terminal, Lifecycle!Terminal

-----------------------------------------------------------------------------
(* The end of the stream, as one reader sees it.                           *)

EndSeen ==
  \A r \in Readers : result[r] = "ended" => state \in Terminal /\ rpc[r] \in {"idle", "classify"}

LEMMA InitEndSeen == Init => EndSeen
BY DEF Init, EndSeen

LEMMA EndedStep ==
  TypeOK /\ NotBeforeOpen /\ EndSeen /\ [Next]_vars =>
    EndSeen' /\ \A r \in Readers : result[r] = "ended" => result'[r] = "ended"
<1> SUFFICES ASSUME TypeOK, NotBeforeOpen, EndSeen, [Next]_vars
             PROVE  EndSeen' /\ \A r \in Readers : result[r] = "ended" => result'[r] = "ended"
  OBVIOUS
<1>a. state \in Terminal => state' \in Terminal
  BY NextLifecycle, TerminalStable
<1>b. state \in Terminal => state \notin Readable
  BY DEF Terminal, Readable, Lifecycle!Terminal, Lifecycle!Readable
<1> USE DEF shared, readerVars, stopperVars, producerVars
<1>1. ASSUME NEW q \in Readers, Reader(q)
      PROVE  EndSeen' /\ \A r \in Readers : result[r] = "ended" => result'[r] = "ended"
  <2> USE DEF EndSeen, TypeOK, Goto, Return
  <2>1. ASSUME NEW m \in Modes(q), EnterRead(q, m)
        PROVE  EndSeen' /\ \A r \in Readers : result[r] = "ended" => result'[r] = "ended"
    BY <1>b, <2>1 DEF EnterRead
  <2>2. CASE Classify(q)
    BY <2>2 DEF Classify
  <2>3. CASE CheckTerminal(q)
    BY <2>3 DEF CheckTerminal
  <2>4. CASE PopData(q) \/ PopEmpty(q) \/ DeadlinePassed(q)
    BY <2>4 DEF PopData, PopEmpty, DeadlinePassed
  <2>5. CASE LockConsumer(q) \/ Snapshot(q) \/ DeadlineAhead(q) \/ Wait(q) \/ Park(q) \/ SliceElapsed(q)
    BY <2>5 DEF LockConsumer, Snapshot, DeadlineAhead, Wait, Park, SliceElapsed
  <2> QED
    BY <1>1, <2>1, <2>2, <2>3, <2>4, <2>5 DEF Reader
<1>2. ASSUME UNCHANGED result, \/ UNCHANGED rpc
                               \/ WakeAll
      PROVE  EndSeen' /\ \A r \in Readers : result[r] = "ended" => result'[r] = "ended"
  BY <1>a, <1>2 DEF EndSeen, WakeAll, TypeOK
<1>3. ASSUME NEW s \in Stoppers, Stopper(s) PROVE UNCHANGED result /\ (UNCHANGED rpc \/ WakeAll)
  BY <1>3 DEF Stopper, StopRead, StopRequest, LockPlatform, StopCapture, StopAwait,
     StopFinish, StopBump, StopWake
<1>4. CASE OpenStream \/ Producer
  <2>1. UNCHANGED result /\ (UNCHANGED rpc \/ WakeAll)
    BY <1>4 DEF OpenStream, Producer, ProducerLoop, Push, NoData, SourceEnds, SourceDies,
       SignalDone, SignalError, ProducerBump, ProducerWake
  <2> QED
    BY <1>2, <2>1
<1>5. CASE UNCHANGED vars
  BY <1>2, <1>5 DEF vars
<1> QED
  BY <1>1, <1>2, <1>3, <1>4, <1>5 DEF Next

(* A reader that was told StreamEnded is told nothing else afterwards.     *)
THEOREM EndIsFinal == Spec => EndedIsFinal
<1>1. Init => TypeOK /\ NotBeforeOpen /\ EndSeen
  BY InitType, InitLifecycle, InitEndSeen
<1>2. TypeOK /\ NotBeforeOpen /\ EndSeen /\ [Next]_vars => (TypeOK /\ NotBeforeOpen /\ EndSeen)'
  BY NextType, NextLifecycle, EndedStep
<1>3. TypeOK /\ NotBeforeOpen /\ EndSeen /\ [Next]_vars =>
        [\A r \in Readers : result[r] = "ended" => result'[r] = "ended"]_vars
  BY EndedStep
<1> QED
  BY <1>1, <1>2, <1>3, PTL DEF Spec, EndedIsFinal

-----------------------------------------------------------------------------
(* Stopped means quiet.  What a stopper brings back from stop_capture is   *)
(* carried to the state change by its place in stop().                     *)

Brought ==
  \A s \in Stoppers :
    /\ spc[s] \in {"idle", "request", "lock", "capture", "await"} => outcome[s] = "none"
    /\ spc[s] \in {"finish", "bump", "wake"} => outcome[s] \in {"ok", "err"}
    /\ spc[s] \in {"finish", "bump", "wake"} /\ outcome[s] = "ok" /\ SyncStop => ppc = "halted"

Quiet == Brought /\ StoppedIsQuiet

LEMMA InitQuiet == Init => Quiet
BY DEF Init, Quiet, Brought, StoppedIsQuiet

LEMMA NextQuiet == TypeOK /\ Quiet /\ [Next]_vars => Quiet'
<1> SUFFICES ASSUME TypeOK, Quiet, [Next]_vars PROVE Quiet'
  OBVIOUS
<1> USE DEF Quiet, Brought, StoppedIsQuiet, shared, readerVars, stopperVars, producerVars
<1>1. ASSUME NEW s \in Stoppers, Stopper(s) PROVE Quiet'
  <2> USE DEF TypeOK, StopperAt, Transition
  <2>1. CASE StopRead(s)
    BY <2>1 DEF StopRead
  <2>2. CASE StopRequest(s) \/ LockPlatform(s) \/ StopCapture(s)
    BY <2>2 DEF StopRequest, LockPlatform, StopCapture
  <2>3. CASE StopAwait(s)
    BY <2>3 DEF StopAwait
  <2>4. CASE StopFinish(s)
    BY <2>4 DEF StopFinish
  <2>5. CASE StopBump(s) \/ StopWake(s)
    BY <2>5 DEF StopBump, StopWake
  <2> QED
    BY <1>1, <2>1, <2>2, <2>3, <2>4, <2>5 DEF Stopper
<1>2. CASE OpenStream \/ Producer
  <2>1. /\ ppc # "halted"
        /\ state' = "Stopped" => state = "Stopped"
        /\ UNCHANGED <<spc, outcome>>
    BY <1>2 DEF OpenStream, Producer, ProducerLoop, Push, NoData, SourceEnds, SourceDies,
       SignalDone, SignalError, ProducerBump, ProducerWake, ProducerAt, Transition
  <2> QED
    BY <2>1
<1>3. ASSUME NEW r \in Readers, Reader(r) PROVE Quiet'
  <2>1. UNCHANGED <<state, spc, outcome, ppc>>
    BY <1>3 DEF Reader, EnterRead, Classify, LockConsumer, Snapshot, PopData, PopEmpty,
       CheckTerminal, DeadlinePassed, DeadlineAhead, Wait, Park, SliceElapsed
  <2> QED
    BY <2>1
<1>4. CASE UNCHANGED vars
  BY <1>4 DEF vars
<1> QED
  BY <1>1, <1>2, <1>3, <1>4 DEF Next

(* If stop_capture waits for the producer and did not give up, a stream    *)
(* that says Stopped has no producer step left, for any number of threads  *)
(* calling stop().                                                         *)
THEOREM StoppedQuiet == Spec => []StoppedIsQuiet
<1>1. Init => TypeOK /\ Quiet
  BY InitType, InitQuiet
<1>2. TypeOK /\ Quiet /\ [Next]_vars => (TypeOK /\ Quiet)'
  BY NextType, NextQuiet
<1>3. TypeOK /\ Quiet => StoppedIsQuiet
  BY DEF Quiet
<1> QED
  BY <1>1, <1>2, <1>3, PTL DEF Spec

-----------------------------------------------------------------------------
(* The wake-up.  Before its last check a reader that saw an empty ring (or *)
(* a live stream) and would miss a change finds that the notify is either  *)
(* still to be counted or already counted past its snapshot.               *)

EndBumpPending == (\E s \in Stoppers : spc[s] = "bump") \/ ppc = "lastBump"

Awake ==
  \A r \in Readers :
    /\ since[r] <= generation
    /\ rpc[r] \in {"deadline", "wait"} /\ state \in Terminal =>
         EndBumpPending \/ generation # since[r]
    /\ rpc[r] \in {"terminal", "deadline", "wait"} /\ ring > 0 /\ Notifies =>
         ppc = "bump" \/ generation # since[r]

Wakeful == Awake /\ ParkedHasReason

LEMMA InitWakeful == Init => Wakeful
BY DEF Init, Wakeful, Awake, ParkedHasReason

LEMMA ReaderWakeful ==
  ASSUME TypeOK, Wakeful, NEW q \in Readers, Reader(q)
  PROVE  Wakeful'
<1> USE DEF Wakeful, Awake, ParkedHasReason, EndBumpPending, EndNotifyPending,
            DataNotifyPending, TypeOK, shared, stopperVars, producerVars, Goto, Return
<1>1. ASSUME NEW m \in Modes(q), EnterRead(q, m) PROVE Wakeful'
  BY <1>1 DEF EnterRead
<1>2. CASE Classify(q)
  BY <1>2 DEF Classify
<1>3. CASE LockConsumer(q)
  BY <1>3 DEF LockConsumer
<1>4. CASE Snapshot(q)
  BY <1>4 DEF Snapshot
<1>5. CASE PopData(q)
  BY <1>5, StreamAssumption DEF PopData
<1>6. CASE PopEmpty(q)
  BY <1>6 DEF PopEmpty
<1>7. CASE CheckTerminal(q)
  BY <1>7 DEF CheckTerminal
<1>8. CASE DeadlinePassed(q)
  BY <1>8 DEF DeadlinePassed
<1>9. CASE DeadlineAhead(q)
  BY <1>9 DEF DeadlineAhead
<1>10. CASE Wait(q)
  BY <1>10 DEF Wait
<1>11. CASE Park(q)
  BY <1>11 DEF Park
<1>12. CASE SliceElapsed(q)
  BY <1>12 DEF SliceElapsed
<1> QED
  BY <1>1, <1>2, <1>3, <1>4, <1>5, <1>6, <1>7, <1>8, <1>9, <1>10, <1>11, <1>12 DEF Reader

LEMMA StopperWakeful ==
  ASSUME TypeOK, Wakeful, NEW s \in Stoppers, Stopper(s)
  PROVE  Wakeful'
<1> USE DEF Wakeful, Awake, ParkedHasReason, EndBumpPending, EndNotifyPending,
            DataNotifyPending, TypeOK, shared, readerVars, producerVars, StopperAt, Transition
<1>1. CASE StopRead(s)
  BY <1>1 DEF StopRead
<1>2. CASE StopRequest(s)
  BY <1>2 DEF StopRequest, Terminal, Lifecycle!Terminal
<1>3. CASE LockPlatform(s) \/ StopCapture(s) \/ StopAwait(s)
  BY <1>3 DEF LockPlatform, StopCapture, StopAwait
<1>4. CASE StopFinish(s)
  BY <1>4 DEF StopFinish
<1>5. CASE StopBump(s)
  BY <1>5 DEF StopBump, Bump
<1>6. CASE StopWake(s)
  BY <1>6 DEF StopWake, WakeAll
<1> QED
  BY <1>1, <1>2, <1>3, <1>4, <1>5, <1>6 DEF Stopper

LEMMA ProducerWakeful ==
  ASSUME TypeOK, Wakeful, Producer \/ OpenStream
  PROVE  Wakeful'
<1> USE DEF Wakeful, Awake, ParkedHasReason, EndBumpPending, EndNotifyPending,
            DataNotifyPending, TypeOK, shared, readerVars, stopperVars, ProducerAt, Transition
<1>1. CASE OpenStream
  BY <1>1 DEF OpenStream, Terminal, Lifecycle!Terminal
<1>2. CASE ProducerLoop \/ NoData \/ SourceEnds \/ SourceDies
  BY <1>2 DEF ProducerLoop, NoData, SourceEnds, SourceDies
<1>3. CASE Push
  BY <1>3, StreamAssumption DEF Push
<1>4. CASE SignalDone
  BY <1>4 DEF SignalDone, Terminal, Lifecycle!Terminal
<1>5. CASE SignalError
  BY <1>5 DEF SignalError
<1>6. CASE ProducerBump
  BY <1>6 DEF ProducerBump, Bump
<1>7. CASE ProducerWake
  BY <1>7 DEF ProducerWake, WakeAll
<1> QED
  BY <1>1, <1>2, <1>3, <1>4, <1>5, <1>6, <1>7 DEF Producer

(* The only wake-up a blocked reader can lose is the one that falls in the *)
(* hairline between its check of the generation and its wait, for any      *)
(* number of readers and of concurrent notifiers.                          *)
THEOREM OnlyHairlineLost == Spec => []ParkedHasReason
<1>1. Init => TypeOK /\ Wakeful
  BY InitType, InitWakeful
<1>2. TypeOK /\ Wakeful /\ [Next]_vars => (TypeOK /\ Wakeful)'
  <2> SUFFICES ASSUME TypeOK, Wakeful, [Next]_vars PROVE Wakeful'
    BY NextType
  <2>1. CASE UNCHANGED vars
    BY <2>1 DEF vars, shared, readerVars, stopperVars, producerVars, Wakeful, Awake,
       ParkedHasReason, EndBumpPending, EndNotifyPending, DataNotifyPending
  <2> QED
    BY <2>1, ReaderWakeful, StopperWakeful, ProducerWakeful DEF Next
<1>3. TypeOK /\ Wakeful => ParkedHasReason
  BY DEF Wakeful
<1> QED
  BY <1>1, <1>2, <1>3, PTL DEF Spec
-----------------------------------------------------------------------------
(* The composed stream.  Its steps are steps of the inner stream, except   *)
(* for the promotion by a reader, the flag that Composition::stop sets     *)
(* itself, and the poll with which every read of the view begins, also     *)
(* that of a blocking reader.                                              *)

Inside == TypeOK /\ NotBeforeOpen /\ EndSeen

LEMMA InitInside == Init => Inside
BY InitType, InitLifecycle, InitEndSeen DEF Inside

LEMMA NextInside == Inside /\ [Next]_vars => Inside' /\ [Lifecycle!Next]_state
BY NextType, NextLifecycle, EndedStep DEF Inside

LEMMA EnterInside ==
  ASSUME Inside, NEW r \in Readers, NEW m \in {"block", "poll"}, EnterRead(r, m)
  PROVE  Inside' /\ UNCHANGED state
<1> USE DEF EnterRead, shared, stopperVars, producerVars, Goto, TypeOK
<1>1. TypeOK'
  BY DEF Inside
<1>2. NotBeforeOpen'
  BY DEF Inside, NotBeforeOpen
<1>3. EndSeen'
  BY DEF Inside, EndSeen, Terminal, Readable, Lifecycle!Terminal, Lifecycle!Readable
<1> QED
  BY <1>1, <1>2, <1>3 DEF Inside

LEMMA PromoteInside ==
  ASSUME Inside, NEW r \in Readers, Promote(r)
  PROVE  Inside' /\ [Lifecycle!Next]_state
<1> USE DEF Promote, Transition, readerVars, stopperVars, producerVars
<1>1. TypeOK'
  BY DEF Inside, TypeOK, Lifecycle!States
<1>2. NotBeforeOpen'
  BY DEF Inside, NotBeforeOpen
<1>3. EndSeen'
  BY DEF Inside, EndSeen, Terminal, Lifecycle!Terminal
<1>4. [Lifecycle!Next]_state
  BY DEF Lifecycle!Next, Lifecycle!Advance
<1> QED
  BY <1>1, <1>2, <1>3, <1>4 DEF Inside

(* Every step of the composition by what it is for the inner stream.       *)
InnerEnter == \E r \in Readers, m \in {"block", "poll"} : EnterRead(r, m)
InnerPromote == \E r \in Readers : Promote(r)
InnerFlag == stopFlag' = TRUE /\ UNCHANGED <<state, ring, generation, readerVars, stopperVars, producerVars>>

LEMMA InnerStep ==
  [ComposeNext]_allVars => [Next]_vars \/ InnerEnter \/ InnerPromote \/ InnerFlag
<1> SUFFICES ASSUME [ComposeNext]_allVars
             PROVE  [Next]_vars \/ InnerEnter \/ InnerPromote \/ InnerFlag
  OBVIOUS
<1>1. ASSUME NEW r \in Readers, Call(r) \/ ViewRuns(r)
      PROVE  [Next]_vars \/ InnerEnter \/ InnerPromote \/ InnerFlag
  <2>1. CASE Call(r) \/ PassOn(r) \/ Empty(r) \/ Again(r)
    BY <2>1 DEF Call, Sample, PassOn, Empty, Again
  <2>2. CASE Try(r) \/ Block(r)
    BY <2>2 DEF Try, Block, InnerEnter
  <2>3. CASE Promote(r)
    BY <2>3 DEF InnerPromote
  <2>4. CASE Inner(r)
    BY <2>4 DEF Inner, ReaderRuns, Reader, Next
  <2> QED
    BY <1>1, <2>1, <2>2, <2>3, <2>4 DEF ViewRuns
<1>2. ASSUME NEW s \in Stoppers, StreamStop(s) \/ StopEngine(s) \/ Join(s)
      PROVE  [Next]_vars \/ InnerEnter \/ InnerPromote \/ InnerFlag
  BY <1>2 DEF StreamStop, StopEngine, Join, Next, InnerFlag
<1>3. CASE OpenStream \/ Engine \/ EngineExit
  BY <1>3 DEF Engine, EngineExit, Next
<1>4. CASE UNCHANGED allVars
  BY <1>4 DEF allVars
<1> QED
  BY <1>1, <1>2, <1>3, <1>4 DEF ComposeNext

LEMMA ComposeInside ==
  Inside /\ [ComposeNext]_allVars => Inside' /\ [Lifecycle!Next]_state
<1> SUFFICES ASSUME Inside, [ComposeNext]_allVars PROVE Inside' /\ [Lifecycle!Next]_state
  OBVIOUS
<1>1. CASE InnerEnter
  BY <1>1, EnterInside DEF InnerEnter
<1>2. CASE InnerPromote
  BY <1>2, PromoteInside DEF InnerPromote
<1>3. CASE InnerFlag
  BY <1>3 DEF InnerFlag, Inside, TypeOK, NotBeforeOpen, EndSeen, readerVars, stopperVars, producerVars
<1> QED
  BY <1>1, <1>2, <1>3, InnerStep, NextInside

(* The composed stream keeps the promise of the lifecycle word too: the    *)
(* promotion, which no other thread takes part in, is a step of the machine.*)
THEOREM ComposedLifecycle == ComposeSpec => LifecycleRefined
<1>1. ComposeInit => Inside /\ Lifecycle!Init
  BY InitInside, InitLifecycle DEF ComposeInit
<1> QED
  BY <1>1, ComposeInside, PTL DEF ComposeSpec, LifecycleRefined, Lifecycle!Spec

-----------------------------------------------------------------------------
(* The end of a composition.                                               *)

(* The engine has given its last signal.                                   *)
Signalled == ppc \in {"lastBump", "lastWake", "halted"}

(* What a reader that looked at an engine gone before it read may conclude *)
(* from an empty ring, and what the owner may from having joined it.       *)
LastWord ==
  /\ Signalled => state \notin {"Created", "Running"}
  /\ ~active => ppc = "halted"
  /\ \A r \in Readers :
       /\ sampled[r] => ~active
       /\ sampled[r] /\ view[r] = "trying" /\ rpc[r] = "idle" /\ result[r] = "empty" => ring = 0
       /\ answer[r] = "ended" => state \in Terminal
  /\ \A s \in Stoppers : owner[s] = "returned" => ~active

ViewTypes ==
  /\ active \in BOOLEAN
  /\ view \in [Readers -> {"idle", "try", "trying", "blocking"}]
  /\ sampled \in [Readers -> BOOLEAN]
  /\ answer \in [Readers -> {"none", "data", "empty", "ended"}]
  /\ owner \in [Stoppers -> {"stream", "joining", "returned"}]

CInv == Inside /\ ViewTypes /\ LastWord

LEMMA InitCInv == ComposeInit => CInv
<1> SUFFICES ASSUME ComposeInit PROVE CInv
  OBVIOUS
<1>1. ViewTypes
  BY DEF ComposeInit, ViewTypes
<1>2. LastWord
  BY DEF ComposeInit, Init, LastWord, Signalled
<1> QED
  BY <1>1, <1>2, InitInside DEF ComposeInit, CInv

LEMMA ViewTypesStep == ViewTypes /\ Inside /\ [ComposeNext]_allVars => ViewTypes'
<1> SUFFICES ASSUME ViewTypes, Inside, [ComposeNext]_allVars PROVE ViewTypes'
  OBVIOUS
<1> USE DEF ViewTypes, viewVars
<1>1. ASSUME NEW r \in Readers, Call(r) \/ ViewRuns(r) PROVE ViewTypes'
  <2> USE DEF ViewAt, Answer, Sample
  <2>1. CASE Call(r) \/ Again(r)
    BY <2>1 DEF Call, Again
  <2>2. CASE PassOn(r)
    BY <2>2 DEF PassOn
  <2>3. CASE Promote(r) \/ Empty(r)
    BY <2>3 DEF Promote, Empty
  <2>4. CASE Try(r) \/ Block(r)
    BY <2>4 DEF Try, Block
  <2>5. CASE Inner(r)
    BY <2>5 DEF Inner
  <2> QED
    BY <1>1, <2>1, <2>2, <2>3, <2>4, <2>5 DEF ViewRuns
<1>2. ASSUME NEW s \in Stoppers, StreamStop(s) \/ StopEngine(s) \/ Join(s) PROVE ViewTypes'
  BY <1>2 DEF StreamStop, StopEngine, Join
<1>3. CASE OpenStream /\ UNCHANGED <<active, viewVars, owner>>
  BY <1>3
<1>4. CASE Engine \/ EngineExit
  BY <1>4 DEF Engine, EngineExit
<1>5. CASE UNCHANGED allVars
  BY <1>5 DEF allVars
<1> QED
  BY <1>1, <1>2, <1>3, <1>4, <1>5 DEF ComposeNext

(* What the steps of the inner stream leave alone.                         *)
LEMMA InnerReader ==
  ASSUME TypeOK, NEW r \in Readers, Inner(r)
  PROVE  /\ UNCHANGED <<state, ppc, spc, active, viewVars, owner>>
         /\ ring' \in Nat /\ ring' <= ring
         /\ \A q \in Readers \ {r} : rpc'[q] = rpc[q] /\ result'[q] = result[q]
         /\ rpc'[r] = "idle" /\ result'[r] = "empty" => ring' = 0
<1> USE DEF TypeOK, shared, readerVars, stopperVars, producerVars, Goto, Return
<1>1. UNCHANGED <<state, ppc, spc, active, viewVars, owner>>
  BY DEF Inner, ReaderRuns, Classify, LockConsumer, Snapshot, PopData, PopEmpty,
     CheckTerminal, DeadlinePassed, DeadlineAhead, Wait, Park, SliceElapsed
<1>2. CASE PopData(r)
  BY <1>1, <1>2, StreamAssumption DEF PopData
<1>3. CASE PopEmpty(r)
  BY <1>1, <1>3, StreamAssumption DEF PopEmpty
<1>4. CASE Classify(r) \/ CheckTerminal(r) \/ DeadlinePassed(r)
  BY <1>1, <1>4, StreamAssumption DEF Classify, CheckTerminal, DeadlinePassed
<1>5. CASE LockConsumer(r) \/ Snapshot(r) \/ DeadlineAhead(r) \/ Wait(r) \/ Park(r) \/ SliceElapsed(r)
  BY <1>1, <1>5, StreamAssumption DEF LockConsumer, Snapshot, DeadlineAhead, Wait, Park, SliceElapsed
<1> QED
  BY <1>1, <1>2, <1>3, <1>4, <1>5 DEF Inner, ReaderRuns

LEMMA InnerStopper ==
  ASSUME TypeOK, NEW s \in Stoppers, Stopper(s)
  PROVE  /\ UNCHANGED <<ring, ppc, result>>
         /\ \A r \in Readers : rpc'[r] = "idle" => rpc[r] = "idle"
         /\ state' # state => spc' # spc /\ state' \in {"Stopping", "Stopped"}
         /\ state \in Terminal => state' = state
<1> USE DEF TypeOK, shared, readerVars, producerVars, StopperAt, Transition, Terminal, Lifecycle!Terminal
<1>1. CASE StopRead(s) \/ LockPlatform(s) \/ StopCapture(s) \/ StopAwait(s) \/ StopBump(s)
  BY <1>1 DEF StopRead, LockPlatform, StopCapture, StopAwait, StopBump
<1>2. CASE StopRequest(s) \/ StopFinish(s)
  BY <1>2 DEF StopRequest, StopFinish
<1>3. CASE StopWake(s)
  BY <1>3 DEF StopWake, WakeAll
<1> QED
  BY <1>1, <1>2, <1>3 DEF Stopper

LEMMA InnerProducer ==
  ASSUME TypeOK, Producer
  PROVE  /\ ppc \notin {"halted", "new"} /\ UNCHANGED <<result, spc>>
         /\ \A r \in Readers : rpc'[r] = "idle" => rpc[r] = "idle"
         /\ state' # state => state' \in {"Stopping", "Error"}
         /\ state \in Terminal => state' \in Terminal
         /\ Signalled' => Signalled \/ state' \notin {"Running"}
<1> USE DEF TypeOK, shared, readerVars, stopperVars, ProducerAt, Transition, Terminal,
        Lifecycle!Terminal, Signalled
<1>1. CASE ProducerLoop \/ Push \/ NoData \/ SourceEnds \/ SourceDies
  BY <1>1 DEF ProducerLoop, Push, NoData, SourceEnds, SourceDies
<1>2. CASE SignalDone \/ SignalError
  BY <1>2 DEF SignalDone, SignalError
<1>3. CASE ProducerBump \/ ProducerWake
  BY <1>3 DEF ProducerBump, ProducerWake, WakeAll
<1> QED
  BY <1>1, <1>2, <1>3 DEF Producer

LEMMA OwnerStep ==
  ASSUME CInv, NEW s \in Stoppers, StreamStop(s) \/ StopEngine(s) \/ Join(s)
  PROVE  LastWord'
<1> USE DEF CInv, Inside, ViewTypes, LastWord, Signalled, viewVars
<1>1. CASE StreamStop(s)
  BY <1>1, InnerStopper DEF StreamStop, NotBeforeOpen
<1>2. CASE StopEngine(s)
  BY <1>2 DEF StopEngine, readerVars, stopperVars, producerVars
<1>3. CASE Join(s)
  BY <1>3 DEF Join, vars, shared, readerVars, stopperVars, producerVars
<1> QED
  BY <1>1, <1>2, <1>3

LEMMA ExitStep ==
  ASSUME CInv, \/ Engine \/ EngineExit
               \/ OpenStream /\ UNCHANGED <<active, viewVars, owner>>
  PROVE  LastWord'
<1> USE DEF CInv, Inside, ViewTypes, LastWord, Signalled, viewVars
<1>1. CASE Engine
  <2>1. active
    BY <1>1, InnerProducer DEF Engine
  <2>2. Signalled' => state' \notin {"Created", "Running"}
    BY <1>1, InnerProducer DEF Engine, NotBeforeOpen
  <2> QED
    BY <1>1, <2>1, <2>2, InnerProducer DEF Engine
<1>2. CASE EngineExit
  BY <1>2 DEF EngineExit, vars, shared, readerVars, stopperVars, producerVars
<1>3. CASE OpenStream /\ UNCHANGED <<active, viewVars, owner>>
  BY <1>3 DEF OpenStream, Transition, readerVars, stopperVars, Terminal, Lifecycle!Terminal
<1> QED
  BY <1>1, <1>2, <1>3

LEMMA ViewStep ==
  ASSUME CInv, NEW r \in Readers, Call(r) \/ ViewRuns(r)
  PROVE  LastWord'
<1> USE DEF CInv, Inside, ViewTypes, LastWord, Signalled, ViewAt, Answer
<1>1. CASE Call(r) \/ Again(r)
  BY <1>1 DEF Call, Again, Sample, Back, vars, shared, readerVars, stopperVars, producerVars
<1>2. CASE Try(r)
  BY <1>2 DEF Try, EnterRead, Goto, TypeOK, shared, stopperVars, producerVars
<1>3. CASE PassOn(r)
  BY <1>3 DEF PassOn, EndSeen, vars, shared, readerVars, stopperVars, producerVars
<1>4. CASE Promote(r)
  <2>1. state' \in Terminal
    BY <1>4 DEF Promote, Transition, TypeOK, Terminal, Lifecycle!Terminal, Lifecycle!States
  <2> QED
    BY <1>4, <2>1 DEF Promote, Transition, readerVars, stopperVars, producerVars, Terminal, Lifecycle!Terminal
<1>5. CASE Empty(r)
  BY <1>5 DEF Empty, vars, shared, readerVars, stopperVars, producerVars
<1>6. CASE Block(r)
  BY <1>6 DEF Block, EnterRead, Goto, TypeOK, shared, stopperVars, producerVars
<1>7. CASE Inner(r)
  <2>1. ring = 0 => ring' = 0
    BY <1>7, InnerReader
  <2>2. UNCHANGED <<state, ppc, active, view, sampled, answer, owner>>
    BY <1>7, InnerReader DEF viewVars
  <2> QED
    BY <1>7, <2>1, <2>2, InnerReader
<1> QED
  BY <1>1, <1>2, <1>3, <1>4, <1>5, <1>6, <1>7 DEF ViewRuns

LEMMA NextCInv == CInv /\ [ComposeNext]_allVars => CInv'
<1> SUFFICES ASSUME CInv, [ComposeNext]_allVars PROVE CInv'
  OBVIOUS
<1>1. Inside' /\ ViewTypes'
  BY ComposeInside, ViewTypesStep DEF CInv
<1>2. LastWord'
  <2>1. CASE UNCHANGED allVars
    BY <2>1 DEF allVars, viewVars, vars, shared, readerVars, stopperVars, producerVars,
       CInv, LastWord, Signalled
  <2> QED
    BY <2>1, OwnerStep, ExitStep, ViewStep DEF ComposeNext
<1> QED
  BY <1>1, <1>2 DEF CInv

THEOREM Composed == ComposeSpec => []CInv
BY InitCInv, NextCInv, PTL DEF ComposeSpec

(* The composed stream, its view and its owner keep their types.           *)
THEOREM ComposeTypeCorrect == ComposeSpec => []ComposeTypeOK
<1>1. CInv => ComposeTypeOK
  BY DEF CInv, Inside, ViewTypes, ComposeTypeOK
<1> QED
  BY Composed, <1>1, PTL

LEMMA TailStep ==
  CInv /\ [ComposeNext]_allVars =>
    (state # "Stopped" /\ state' = "Stopped" /\ UNCHANGED spc => ring = 0 /\ ppc = "halted")
<1> SUFFICES ASSUME CInv, [ComposeNext]_allVars,
                    state # "Stopped", state' = "Stopped", UNCHANGED spc
             PROVE  ring = 0 /\ ppc = "halted"
  OBVIOUS
<1> USE DEF CInv, Inside
<1>1. ASSUME NEW r \in Readers, Call(r) \/ ViewRuns(r) PROVE ring = 0 /\ ppc = "halted"
  <2>1. Promote(r)
    BY <1>1, InnerReader DEF ViewRuns, Call, Again, Sample, Try, PassOn, Empty, Block,
       EnterRead, vars, shared
  <2> QED
    BY <2>1 DEF Promote, Back, LastWord
<1>2. ASSUME NEW s \in Stoppers, StreamStop(s) \/ StopEngine(s) \/ Join(s) PROVE FALSE
  BY <1>2, InnerStopper DEF StreamStop, StopEngine, Join, vars, shared
<1>3. CASE Engine \/ EngineExit
  BY <1>3, InnerProducer DEF Engine, EngineExit, vars, shared
<1>4. CASE OpenStream
  BY <1>4 DEF OpenStream, Transition
<1>5. CASE UNCHANGED allVars
  BY <1>5 DEF allVars, vars, shared
<1> QED
  BY <1>1, <1>2, <1>3, <1>4, <1>5 DEF ComposeNext

LEMMA QuietStep ==
  CInv /\ [ComposeNext]_allVars => \A s \in Stoppers : owner[s] = "returned" => ring' <= ring
<1> SUFFICES ASSUME CInv, [ComposeNext]_allVars, NEW s \in Stoppers, owner[s] = "returned"
             PROVE  ring' <= ring
  OBVIOUS
<1> USE DEF CInv, Inside
<1>1. ppc = "halted" /\ ring \in Int
  BY StreamAssumption DEF LastWord, TypeOK
<1>2. ASSUME NEW r \in Readers, Call(r) \/ ViewRuns(r) PROVE ring' <= ring
  BY <1>1, <1>2, InnerReader DEF ViewRuns, Call, Again, Sample, Try, PassOn, Promote, Empty, Block,
       EnterRead, vars, shared
<1>3. ASSUME NEW q \in Stoppers, StreamStop(q) \/ StopEngine(q) \/ Join(q) PROVE ring' <= ring
  BY <1>1, <1>3, InnerStopper DEF StreamStop, StopEngine, Join, vars, shared
<1>4. CASE Engine \/ EngineExit
  BY <1>1, <1>4, InnerProducer DEF Engine, EngineExit, vars, shared
<1>5. CASE OpenStream
  BY <1>1, <1>5 DEF OpenStream
<1>6. CASE UNCHANGED allVars
  BY <1>1, <1>6 DEF allVars, vars, shared
<1> QED
  BY <1>2, <1>3, <1>4, <1>5, <1>6 DEF ComposeNext

(* The end is the last thing a composition gives: for any number of        *)
(* readers and of threads that stop it, the stream becomes Stopped by      *)
(* itself only over an empty ring and an engine that is done, a reader is  *)
(* told so only when it is true for all, and once Composition::stop has    *)
(* returned nothing enters the ring.                                       *)
THEOREM CompositionEndsLast == ComposeSpec => EndIsLast
<1>1. CInv /\ [ComposeNext]_allVars =>
        [state # "Stopped" /\ state' = "Stopped" /\ UNCHANGED spc => ring = 0 /\ ppc = "halted"]_allVars
  BY TailStep
<1>2. CInv /\ [ComposeNext]_allVars =>
        [\A r \in Readers : answer'[r] = "ended" => state' \in Terminal]_allVars
  BY NextCInv DEF CInv, LastWord
<1>3. CInv /\ [ComposeNext]_allVars =>
        [\A s \in Stoppers : owner[s] = "returned" => ring' <= ring]_allVars
  BY QuietStep
<1> QED
  BY Composed, <1>1, <1>2, <1>3, PTL
     DEF ComposeSpec, EndIsLast, TailBeforeEnd, NothingAfterEnd, EndedIsOver, JoinedIsQuiet

-----------------------------------------------------------------------------
(* Facts about numbers and sequences.                                      *)

LEMMA ModBound ==
  ASSUME NEW n \in Nat, NEW c \in Nat \ {0}
  PROVE  n % c \in 0 .. c - 1 /\ n - (n % c) \in 0 .. n
OBVIOUS

(* The least element of a set of natural numbers.                          *)
LEMMA Least ==
  ASSUME NEW U \in SUBSET Nat, U # {}
  PROVE  \E m \in U : \A k \in U : m <= k
<1>1. PICK m \in U : \A k \in U : ~ (<<k, m>> \in OpToRel(<, Nat))
  BY NatLessThanWellFounded, WFMin
<1>2. \A k \in U : ~ (k < m)
  BY <1>1 DEF OpToRel
<1> QED
  BY <1>2

Frames == Nat \ {0}

(* What LanesContinuous says of a lane that ends with a frame.             *)
Dense(lane, end) ==
  /\ lane \in Seq(Frames) /\ Len(lane) > 0
  /\ lane[Len(lane)] = end
  /\ \A i \in 1 .. Len(lane) - 1 : i >= Len(lane) - MaxFifo => lane[i + 1] = lane[i] + 1

(* What is left of a lane is as dense as the lane.                         *)
LEMMA DenseSuffix ==
  ASSUME NEW lane, NEW end, Dense(lane, end),
         NEW short \in Seq(Frames), NEW k \in Nat,
         Len(short) > 0, Len(lane) = Len(short) + k,
         \A i \in 1 .. Len(short) : short[i] = lane[i + k]
  PROVE  Dense(short, end)
<1> USE EngineAssumption
<1>1. Len(short) \in Nat /\ Len(lane) \in Nat /\ MaxFifo \in Nat
  BY DEF Dense
<1>2. short[Len(short)] = end
  BY <1>1 DEF Dense
<1>3. ASSUME NEW i \in 1 .. Len(short) - 1, i >= Len(short) - MaxFifo
      PROVE  short[i + 1] = short[i] + 1
  <2>1. i + k \in 1 .. Len(lane) - 1 /\ i + k >= Len(lane) - MaxFifo
    BY <1>1, <1>3
  <2>2. lane[i + k + 1] = lane[i + k] + 1
    BY <2>1 DEF Dense
  <2>3. short[i] = lane[i + k] /\ short[i + 1] = lane[i + 1 + k]
    BY <1>1
  <2>4. i + 1 + k = i + k + 1
    BY <1>1
  <2> QED
    BY <2>2, <2>3, <2>4
<1> QED
  BY <1>2, <1>3 DEF Dense

(* A lane grows by consecutive frames, which follow its last one or fill   *)
(* more than a FIFO.                                                       *)
LEMMA DenseGrows ==
  ASSUME NEW lane, NEW end, Dense(lane, end), NEW new \in Seq(Frames), Len(new) > 0,
         \A i \in 1 .. Len(new) - 1 : new[i + 1] = new[i] + 1,
         new[1] = end + 1 \/ Len(new) > MaxFifo
  PROVE  Dense(lane \o new, new[Len(new)])
<1> USE EngineAssumption
<1>1. Len(new) \in Nat /\ Len(lane) \in Nat /\ MaxFifo \in Nat /\ lane \in Seq(Frames)
  BY DEF Dense
<1>2. /\ lane \o new \in Seq(Frames)
      /\ Len(lane \o new) = Len(lane) + Len(new)
      /\ \A i \in 1 .. Len(lane) + Len(new) :
           (lane \o new)[i] = IF i <= Len(lane) THEN lane[i] ELSE new[i - Len(lane)]
  BY <1>1, ConcatProperties
<1>3. (lane \o new)[Len(lane \o new)] = new[Len(new)]
  BY <1>1, <1>2
<1>4. ASSUME NEW i \in 1 .. Len(lane) + Len(new) - 1, i >= Len(lane) + Len(new) - MaxFifo
      PROVE  (lane \o new)[i + 1] = (lane \o new)[i] + 1
  <2>1. CASE i < Len(lane)
    <3>1. i \in 1 .. Len(lane) - 1 /\ i >= Len(lane) - MaxFifo
      BY <1>1, <1>4, <2>1
    <3>2. lane[i + 1] = lane[i] + 1
      BY <3>1 DEF Dense
    <3> QED
      BY <1>1, <1>2, <2>1, <3>2
  <2>2. CASE i = Len(lane)
    <3>1. new[1] = end + 1
      BY <1>1, <1>4, <2>2
    <3>2. (lane \o new)[i] = end
      BY <1>1, <1>2, <2>2 DEF Dense
    <3>3. (lane \o new)[i + 1] = new[1]
      BY <1>1, <1>2, <2>2
    <3> QED
      BY <3>1, <3>2, <3>3
  <2>3. CASE i > Len(lane)
    <3>1. i - Len(lane) \in 1 .. Len(new) - 1
      BY <1>1, <1>4, <2>3
    <3>2. new[i - Len(lane) + 1] = new[i - Len(lane)] + 1
      BY <3>1
    <3>3. (lane \o new)[i] = new[i - Len(lane)]
      BY <1>1, <1>2, <2>3
    <3>4. (lane \o new)[i + 1] = new[i + 1 - Len(lane)]
      BY <1>1, <1>2, <2>3
    <3>5. i + 1 - Len(lane) = i - Len(lane) + 1
      BY <1>1
    <3> QED
      BY <3>2, <3>3, <3>4, <3>5
  <2> QED
    BY <1>1, <2>1, <2>2, <2>3
<1> QED
  BY <1>1, <1>2, <1>3, <1>4 DEF Dense

(* Consecutive frames by themselves.                                       *)
LEMMA DenseAlone ==
  ASSUME NEW new \in Seq(Frames), Len(new) > 0,
         \A i \in 1 .. Len(new) - 1 : new[i + 1] = new[i] + 1
  PROVE  Dense(new, new[Len(new)])
BY DEF Dense

(* The frame that left last, before those that have not left.              *)
Behind(x) == IF x = 0 THEN <<>> ELSE <<x>>

LEMMA BehindSeq ==
  ASSUME NEW x \in Nat
  PROVE  /\ Behind(x) \in Seq(Frames)
         /\ Len(Behind(x)) = IF x = 0 THEN 0 ELSE 1
         /\ x # 0 => Behind(x)[1] = x
<1>1. CASE x = 0
  BY <1>1, EmptySeq DEF Behind
<1>2. CASE x # 0
  <2>1. <<x>> \in Seq(Frames) /\ Len(<<x>>) = 1 /\ <<x>>[1] = x
    BY <1>2 DEF Frames
  <2> QED
    BY <1>2, <2>1 DEF Behind
<1> QED
  BY <1>1, <1>2

(* The first n frames leave a FIFO.                                        *)
LEMMA DenseLeaves ==
  ASSUME NEW f \in Seq(Frames), NEW h \in Seq(Frames), NEW x \in Nat, NEW end,
         NEW n \in 0 .. Len(f), Dense(Behind(x) \o (f \o h), end)
  PROVE  Dense(Behind(IF n = 0 THEN x ELSE f[n]) \o (SubSeq(f, n + 1, Len(f)) \o h), end)
<1>1. CASE n = 0
  <2>1. SubSeq(f, n + 1, Len(f)) = f
    BY <1>1, SubSeqFull
  <2> QED
    BY <1>1, <2>1
<1>2. CASE n > 0
  <2> DEFINE g == SubSeq(f, n + 1, Len(f))
             y == f[n]
             lane == Behind(x) \o (f \o h)
             short == Behind(y) \o (g \o h)
             k == Len(Behind(x)) + n - 1
  <2>1. Len(f) \in Nat /\ Len(h) \in Nat /\ n \in 1 .. Len(f) /\ y \in Frames
    BY <1>2
  <2>2. /\ g \in Seq(Frames) /\ Len(g) = Len(f) - n
        /\ \A i \in 1 .. Len(f) - n : g[i] = f[n + i]
    <3>1. \A i \in n + 1 .. Len(f) : f[i] \in Frames
      BY <2>1
    <3>2. /\ g \in Seq(Frames)
          /\ Len(g) = IF n + 1 <= Len(f) THEN Len(f) - (n + 1) + 1 ELSE 0
          /\ \A i \in 1 .. Len(f) - (n + 1) + 1 : g[i] = f[n + 1 + i - 1]
      BY <2>1, <3>1, SubSeqProperties
    <3> QED
      BY <2>1, <3>2
  <2>3. /\ f \o h \in Seq(Frames) /\ Len(f \o h) = Len(f) + Len(h)
        /\ \A i \in 1 .. Len(f) + Len(h) : (f \o h)[i] = IF i <= Len(f) THEN f[i] ELSE h[i - Len(f)]
    BY ConcatProperties
  <2>4. /\ g \o h \in Seq(Frames) /\ Len(g \o h) = Len(g) + Len(h)
        /\ \A i \in 1 .. Len(g) + Len(h) : (g \o h)[i] = IF i <= Len(g) THEN g[i] ELSE h[i - Len(g)]
    BY <2>2, ConcatProperties
  <2>5. Behind(x) \in Seq(Frames) /\ Len(Behind(x)) \in {0, 1}
    BY BehindSeq
  <2>6. Behind(y) \in Seq(Frames) /\ Len(Behind(y)) = 1 /\ Behind(y)[1] = y
    BY <2>1, BehindSeq DEF Frames
  <2>7. /\ Len(lane) = Len(Behind(x)) + Len(f) + Len(h)
        /\ \A i \in 1 .. Len(f) + Len(h) : lane[Len(Behind(x)) + i] = (f \o h)[i]
    <3>1. /\ Len(lane) = Len(Behind(x)) + Len(f \o h)
          /\ \A i \in 1 .. Len(Behind(x)) + Len(f \o h) :
               lane[i] = IF i <= Len(Behind(x)) THEN Behind(x)[i] ELSE (f \o h)[i - Len(Behind(x))]
      BY <2>3, <2>5, ConcatProperties
    <3> QED
      BY <2>1, <2>3, <2>5, <3>1
  <2>8. /\ short \in Seq(Frames) /\ Len(short) = 1 + Len(g) + Len(h)
        /\ short[1] = y
        /\ \A i \in 1 .. Len(g) + Len(h) : short[1 + i] = (g \o h)[i]
    <3>1. /\ short \in Seq(Frames) /\ Len(short) = Len(Behind(y)) + Len(g \o h)
          /\ \A i \in 1 .. Len(Behind(y)) + Len(g \o h) :
               short[i] = IF i <= Len(Behind(y)) THEN Behind(y)[i] ELSE (g \o h)[i - Len(Behind(y))]
      BY <2>4, <2>6, ConcatProperties
    <3>2. Len(Behind(y)) + Len(g \o h) = 1 + Len(g) + Len(h)
      BY <2>2, <2>4, <2>6
    <3>3. Len(g) \in Nat
      BY <2>2
    <3> HIDE DEF short, g, y
    <3>4. short[1] = y
      BY <2>1, <2>6, <3>1, <3>2, <3>3
    <3>5. ASSUME NEW i \in 1 .. Len(g) + Len(h) PROVE short[1 + i] = (g \o h)[i]
      <4>1. 1 + i \in 1 .. Len(Behind(y)) + Len(g \o h) /\ ~(1 + i <= 1) /\ 1 + i - 1 = i
        BY <2>1, <3>2, <3>3
      <4> QED
        BY <2>6, <3>1, <4>1
    <3> QED
      BY <3>1, <3>2, <3>4, <3>5
  <2>9. Len(Behind(x)) \in Nat /\ n \in Nat /\ Len(g) = Len(f) - n
    BY <2>1, <2>2, <2>5
  <2>10. Len(Behind(x)) \in {0, 1} /\ Len(g) = Len(f) - n /\ Len(g) \in Nat
    BY <2>1, <2>2, <2>5
  <2> HIDE DEF g, y, lane, short
  <2>12. k \in Nat /\ Len(short) > 0 /\ Len(lane) = Len(short) + k
    BY <2>1, <2>7, <2>8, <2>10
  <2>13. ASSUME NEW i \in 1 .. Len(short) PROVE short[i] = lane[i + k]
    <3>1. i + n - 1 \in 1 .. Len(f) + Len(h) /\ i + k = Len(Behind(x)) + (i + n - 1)
      BY <2>1, <2>8, <2>10
    <3>2. lane[i + k] = (f \o h)[i + n - 1]
      BY <2>7, <3>1
    <3>3. CASE i = 1
      <4>1. i + n - 1 = n
        BY <2>1, <3>3
      <4> QED
        BY <2>1, <2>3, <2>8, <3>1, <3>2, <3>3, <4>1 DEF y
    <3>4. CASE i > 1
      <4>1. i - 1 \in 1 .. Len(g) + Len(h) /\ 1 + (i - 1) = i
        BY <2>1, <2>8, <2>10, <3>4
      <4>2. short[i] = (g \o h)[i - 1]
        BY <2>8, <4>1
      <4>3. CASE i - 1 <= Len(g)
        <5>1. i - 1 \in 1 .. Len(f) - n /\ n + (i - 1) = i + n - 1 /\ i + n - 1 <= Len(f)
          BY <2>1, <2>10, <4>1, <4>3
        <5>2. (g \o h)[i - 1] = f[i + n - 1]
          BY <2>2, <2>4, <4>1, <4>3, <5>1
        <5> QED
          BY <2>3, <3>1, <3>2, <4>2, <5>1, <5>2
      <4>4. CASE ~ (i - 1 <= Len(g))
        <5>1. i - 1 - Len(g) = i + n - 1 - Len(f) /\ ~ (i + n - 1 <= Len(f))
          BY <2>1, <2>10, <4>1, <4>4
        <5> QED
          <6>1. (g \o h)[i - 1] = h[i - 1 - Len(g)]
            BY <2>4, <4>1, <4>4
          <6>2. (f \o h)[i + n - 1] = h[i + n - 1 - Len(f)]
            BY <2>3, <3>1, <5>1
          <6> QED
            BY <3>2, <4>2, <5>1, <6>1, <6>2
      <4> QED
        BY <4>3, <4>4
    <3> QED
      BY <2>1, <2>8, <2>10, <3>3, <3>4
  <2>11. Dense(short, end)
    BY <2>8, <2>12, <2>13, DenseSuffix DEF lane
  <2> QED
    BY <1>2, <2>11 DEF short, g, y
<1> QED
  BY <1>1, <1>2

-----------------------------------------------------------------------------
(* Lanes.  What is said of a source: f are the frames in its FIFO, h those *)
(* in its resampler, x the last one that left, a its anchor, c its clock.  *)
OnTimeline(f, h, x, a, c) ==
  /\ f \in Seq(Frames) /\ h \in Seq(Frames) /\ x \in Nat
  /\ IF a = 0 THEN f = <<>> /\ h = <<>> /\ x = 0
     ELSE a = c /\ Dense(Behind(x) \o (f \o h), c - 1)

LEMMA FramesAreInts ==
  ASSUME NEW f \in Seq(Frames)
  PROVE  f \in Seq(Int) /\ \A i \in 1 .. Len(f) : f[i] \in Nat
BY SeqDef DEF Frames

LEMMA LaneLeaves ==
  ASSUME NEW f, NEW h, NEW x, NEW a, NEW c, OnTimeline(f, h, x, a, c),
         NEW n \in 0 .. Len(f)
  PROVE  OnTimeline(SubSeq(f, n + 1, Len(f)), h, IF n = 0 THEN x ELSE f[n], a, c)
<1>1. /\ f \in Seq(Frames) /\ h \in Seq(Frames) /\ x \in Nat /\ Len(f) \in Nat
  BY DEF OnTimeline
<1>2. SubSeq(f, n + 1, Len(f)) \in Seq(Frames)
  <2>1. \A i \in n + 1 .. Len(f) : f[i] \in Frames
    BY <1>1
  <2> QED
    BY <1>1, <2>1, SubSeqProperties
<1>3. (IF n = 0 THEN x ELSE f[n]) \in Nat
  BY <1>1 DEF Frames
<1>4. CASE a = 0
  <2>1. f = <<>> /\ h = <<>> /\ x = 0 /\ n = 0
    BY <1>1, <1>4 DEF OnTimeline
  <2>2. SubSeq(f, n + 1, Len(f)) = f
    BY <1>1, <2>1, SubSeqFull
  <2> QED
    BY <1>1, <1>4, <2>1, <2>2 DEF OnTimeline
<1>5. CASE a # 0
  <2>1. a = c /\ Dense(Behind(x) \o (f \o h), c - 1)
    BY <1>5 DEF OnTimeline
  <2>2. Dense(Behind(IF n = 0 THEN x ELSE f[n]) \o (SubSeq(f, n + 1, Len(f)) \o h), c - 1)
    BY <1>1, <2>1, DenseLeaves
  <2> QED
    BY <1>1, <1>2, <1>3, <1>5, <2>1, <2>2 DEF OnTimeline
<1> QED
  BY <1>4, <1>5

LEMMA LaneFlushes ==
  ASSUME NEW f, NEW h, NEW x, NEW a, NEW c, OnTimeline(f, h, x, a, c)
  PROVE  OnTimeline(f \o h, <<>>, x, a, c)
<1>1. /\ f \in Seq(Frames) /\ h \in Seq(Frames) /\ x \in Nat
      /\ f \o h \in Seq(Frames) /\ <<>> \in Seq(Frames)
  BY ConcatProperties, EmptySeq DEF OnTimeline
<1>2. (f \o h) \o <<>> = f \o h
  BY <1>1, ConcatEmptySeq
<1>3. CASE a = 0
  <2>1. f \o h = <<>>
    BY <1>1, <1>3, ConcatEmptySeq DEF OnTimeline
  <2> QED
    BY <1>1, <1>3, <2>1 DEF OnTimeline
<1>4. CASE a # 0
  BY <1>1, <1>2, <1>4 DEF OnTimeline
<1> QED
  BY <1>3, <1>4

LEMMA SpanConsecutive ==
  ASSUME NEW from \in Frames, NEW to \in Frames, from <= to
  PROVE  /\ Span(from, to) \in Seq(Frames) /\ Len(Span(from, to)) = to - from + 1
         /\ Span(from, to)[1] = from /\ Span(from, to)[to - from + 1] = to
         /\ \A i \in 1 .. to - from : Span(from, to)[i + 1] = Span(from, to)[i] + 1
<1> DEFINE n == to - from + 1
<1>1. from \in Nat /\ to \in Nat /\ n \in Nat /\ n > 0 /\ from > 0
  BY DEF Frames
<1>2. \A i \in 1 .. n : from + i - 1 \in Frames
  BY <1>1 DEF Frames
<1>3. Span(from, to) = [i \in 1 .. n |-> from + i - 1]
  BY DEF Span
<1>4. Span(from, to) \in [1 .. n -> Frames]
  BY <1>2, <1>3
<1>5. Span(from, to) \in Seq(Frames)
  BY <1>1, <1>4, SeqDef
<1>6. Len(Span(from, to)) = n
  BY <1>1, <1>4, <1>5
<1>7. \A i \in 1 .. n : Span(from, to)[i] = from + i - 1
  BY <1>3
<1> HIDE DEF n
<1>8. Span(from, to)[1] = from /\ Span(from, to)[n] = to
  BY <1>1, <1>7 DEF n
<1>9. \A i \in 1 .. to - from : Span(from, to)[i + 1] = Span(from, to)[i] + 1
  BY <1>1, <1>7 DEF n
<1> QED
  BY <1>5, <1>6, <1>8, <1>9 DEF n

(* A buffer at a position, the silence of a hole ahead of it.              *)
LEMMA LaneGrows ==
  ASSUME NEW f, NEW h, NEW x, NEW a \in Nat, NEW c \in Frames, OnTimeline(f, h, x, a, c),
         NEW at \in Nat, at >= c,
         NEW gap, gap = IF a = 0 THEN 0 ELSE Lesser(at - a, MaxFifo),
         NEW f2 \in Seq(Frames), NEW h2 \in Seq(Frames),
         f2 \o h2 = (f \o h) \o Span(at - gap, at)
  PROVE  OnTimeline(f2, h2, x, at + 1, at + 1)
<1> DEFINE from == at - gap
           new == Span(from, at)
<1> USE EngineAssumption
<1>1. /\ f \in Seq(Frames) /\ h \in Seq(Frames) /\ x \in Nat
      /\ f \o h \in Seq(Frames) /\ Behind(x) \in Seq(Frames)
      /\ c \in Nat /\ c > 0 /\ MaxFifo \in Nat
      /\ at + 1 # 0 /\ at + 1 - 1 = at
  <2>1. f \in Seq(Frames) /\ h \in Seq(Frames) /\ x \in Nat
    BY DEF OnTimeline
  <2>2. f \o h \in Seq(Frames)
    BY <2>1, ConcatProperties
  <2>3. Behind(x) \in Seq(Frames)
    BY <2>1, BehindSeq
  <2>4. c \in Nat /\ c > 0 /\ MaxFifo \in Nat /\ at + 1 # 0 /\ at + 1 - 1 = at
    BY DEF Frames
  <2> QED
    BY <2>1, <2>2, <2>3, <2>4
<1>2. a # 0 => a = c
  BY DEF OnTimeline
<1>3. gap \in Nat /\ from \in Frames /\ at \in Frames /\ from <= at /\ at - from = gap
  BY <1>1, <1>2 DEF Lesser, Frames
<1> HIDE DEF from
<1>4. /\ new \in Seq(Frames) /\ Len(new) = gap + 1
      /\ new[1] = from /\ new[gap + 1] = at
      /\ \A i \in 1 .. gap : new[i + 1] = new[i] + 1
  <2>1. /\ new \in Seq(Frames) /\ Len(new) = at - from + 1
        /\ new[1] = from /\ new[at - from + 1] = at
        /\ \A i \in 1 .. at - from : new[i + 1] = new[i] + 1
    BY <1>3, SpanConsecutive
  <2> QED
    BY <1>3, <2>1
<1> HIDE DEF new
<1>5. f2 \o h2 = (f \o h) \o new
  BY DEF new, from
<1>8. /\ Len(new) = gap + 1 /\ Len(new) > 0 /\ new[Len(new)] = at
      /\ \A i \in 1 .. Len(new) - 1 : new[i + 1] = new[i] + 1
  BY <1>1, <1>3, <1>4
<1>6. CASE a = 0
  <2>1. f \o h = <<>> /\ x = 0
    BY <1>1, <1>6, ConcatEmptySeq DEF OnTimeline
  <2>2. f2 \o h2 = new /\ Behind(x) \o new = new
    BY <1>4, <1>5, <2>1, ConcatEmptySeq DEF Behind
  <2>3. Dense(new, at)
    BY <1>4, <1>8, DenseAlone
  <2>4. Dense(Behind(x) \o (f2 \o h2), at + 1 - 1)
    BY <1>1, <2>2, <2>3
  <2> QED
    BY <1>1, <2>4 DEF OnTimeline
<1>7. CASE a # 0
  <2>1. Dense(Behind(x) \o (f \o h), c - 1)
    BY <1>7 DEF OnTimeline
  <2>2. new[1] = (c - 1) + 1 \/ Len(new) > MaxFifo
    BY <1>1, <1>2, <1>3, <1>4, <1>8, <1>7 DEF Lesser, from
  <2>3. Dense((Behind(x) \o (f \o h)) \o new, at)
    <3> DEFINE lane == Behind(x) \o (f \o h)
    <3>1. Dense(lane, c - 1)
      BY <2>1
    <3> HIDE DEF lane
    <3>2. Dense(lane \o new, new[Len(new)])
      BY <1>4, <1>8, <2>2, <3>1, DenseGrows
    <3> QED
      BY <1>8, <3>2 DEF lane
  <2>4. (Behind(x) \o (f \o h)) \o new = Behind(x) \o (f2 \o h2)
    <3> DEFINE p == f \o h
               q == Behind(x)
    <3>1. p \in Seq(Frames) /\ q \in Seq(Frames) /\ new \in Seq(Frames)
      BY <1>1, <1>4
    <3> HIDE DEF p, q
    <3>2. (q \o p) \o new = q \o (p \o new)
      BY ONLY <3>1, ConcatAssociative
    <3> QED
      BY <1>5, <3>2 DEF p, q
  <2> QED
    BY <1>1, <2>3, <2>4 DEF OnTimeline
<1> QED
  BY <1>6, <1>7

(* Frames that arrive come after those that are pending, at any rate.      *)
LEMMA LaneReceives ==
  ASSUME NEW s \in Sources, fifo[s] \in Seq(Frames), held[s] \in Seq(Frames),
         NEW frames \in Seq(Frames), NEW r
  PROVE  /\ Lane(s, frames, r).fifo \in Seq(Frames)
         /\ Lane(s, frames, r).held \in Seq(Frames)
         /\ Lane(s, frames, r).fifo \o Lane(s, frames, r).held = (fifo[s] \o held[s]) \o frames
         /\ Len(Lane(s, frames, r).held) < Chunk
<1> DEFINE f == fifo[s]
           h == held[s]
           tail == IF r = rate[s] THEN <<>> ELSE h
           in == (IF r = rate[s] THEN h ELSE <<>>) \o frames
           out == IF r = 0 THEN Len(in) ELSE Len(in) - (Len(in) % Chunk)
           a == SubSeq(in, 1, out)
           b == SubSeq(in, out + 1, Len(in))
<1> USE EngineAssumption
<1>1. Lane(s, frames, r).fifo = (f \o tail) \o a /\ Lane(s, frames, r).held = b
  BY DEF Lane
<1>2. /\ f \in Seq(Frames) /\ tail \in Seq(Frames) /\ in \in Seq(Frames)
      /\ tail \o in = h \o frames
  <2>1. h \o frames \in Seq(Frames) /\ h \in Seq(Frames) /\ f \in Seq(Frames)
    BY ConcatProperties
  <2>2. CASE r = rate[s]
    BY <2>1, <2>2, ConcatEmptySeq, EmptySeq
  <2>3. CASE r # rate[s]
    BY <2>1, <2>3, ConcatEmptySeq, EmptySeq
  <2> QED
    BY <2>2, <2>3
<1> HIDE DEF f, tail, in
<1>3. Len(in) \in Nat /\ Chunk \in Nat \ {0}
  BY <1>2
<1>4. out \in 0 .. Len(in) /\ Len(in) - out < Chunk
  <2>1. Len(in) % Chunk \in 0 .. Chunk - 1 /\ Len(in) - (Len(in) % Chunk) \in 0 .. Len(in)
    BY <1>3, ModBound
  <2> QED
    BY <1>3, <2>1
<1> HIDE DEF out
<1>5. \A i \in 1 .. Len(in) : in[i] \in Frames
  BY <1>2
<1>6. a \in Seq(Frames)
  BY <1>3, <1>4, <1>5, SubSeqProperties
<1>7. b \in Seq(Frames) /\ Len(b) < Chunk
  <2>1. /\ b \in Seq(Frames)
        /\ Len(b) = IF out + 1 <= Len(in) THEN Len(in) - (out + 1) + 1 ELSE 0
    <3>1. \A i \in out + 1 .. Len(in) : in[i] \in Frames
      BY <1>3, <1>4, <1>5
    <3> QED
      BY <1>3, <1>4, <3>1, SubSeqProperties
  <2> QED
    BY <1>3, <1>4, <2>1
<1>8. a \o b = in
  <2>1. 1 \in 1 .. Len(in) + 1 /\ out \in 1 - 1 .. Len(in) /\ Len(in) \in out .. Len(in)
    BY <1>3, <1>4
  <2>2. a \o b = SubSeq(in, 1, Len(in))
    BY <1>2, <2>1, ConcatAdjacentSubSeq
  <2> QED
    BY <1>2, <2>2, SubSeqFull
<1> HIDE DEF a, b
<1>9. f \o tail \in Seq(Frames) /\ (f \o tail) \o a \in Seq(Frames)
  BY <1>2, <1>6, ConcatProperties
<1>10. ((f \o tail) \o a) \o b = (f \o h) \o frames
  <2> DEFINE p == f \o tail
  <2>1. p \in Seq(Frames)
    BY <1>9
  <2>2. h \in Seq(Frames)
    OBVIOUS
  <2> HIDE DEF p, h
  <2>3. (p \o a) \o b = p \o (a \o b)
    BY ONLY <1>6, <1>7, <2>1, ConcatAssociative
  <2>6. f \in Seq(Frames) /\ tail \in Seq(Frames) /\ in \in Seq(Frames)
    BY <1>2
  <2>4. (f \o tail) \o in = f \o (tail \o in)
    BY ONLY <2>6, ConcatAssociative
  <2>5. (f \o h) \o frames = f \o (h \o frames)
    BY ONLY <1>2, <2>2, frames \in Seq(Frames), ConcatAssociative
  <2> QED
    BY <1>2, <1>8, <2>3, <2>4, <2>5 DEF p
<1>11. (f \o h) \o frames = (fifo[s] \o held[s]) \o frames
  BY DEF f
<1> HIDE DEF h
<1> QED
  BY <1>1, <1>7, <1>9, <1>10, <1>11

-----------------------------------------------------------------------------
(* The invariant.                                                          *)
OnTime ==
  \A s \in Sources : OnTimeline(fifo[s], held[s], last[s], anchor[s], clock[s])

(* A source that ended has flushed its resampler, the tail is flushed when *)
(* they all have.                                                          *)
EndsFlushed ==
  /\ \A s \in Sources : ended[s] => held[s] = <<>>
  /\ pc = "flush" => \A s \in Sources : ended[s]
  /\ NaturalEndDrains

EngineInv == EngineTypeOK /\ OnTime /\ LatencyBounded /\ EndsFlushed

LEMMA EngineInvSays == EngineInv => LanesOnTime
<1> SUFFICES ASSUME EngineInv, NEW s \in Sources, anchor[s] # 0
    PROVE  LET lane == (IF last[s] = 0 THEN <<>> ELSE <<last[s]>>) \o Pending(s)
               len == Len(lane)
           IN  /\ len > 0 /\ lane[len] = clock[s] - 1
               /\ \A i \in 1 .. len - 1 : i >= len - MaxFifo => lane[i + 1] = lane[i] + 1
  BY DEF EngineInv, LanesOnTime, LanesContinuous
<1>1. OnTimeline(fifo[s], held[s], last[s], anchor[s], clock[s])
  BY DEF EngineInv, OnTime
<1>2. Dense(Behind(last[s]) \o (fifo[s] \o held[s]), clock[s] - 1)
  BY <1>1 DEF OnTimeline
<1> QED
  BY <1>2 DEF Dense, Behind, Pending

LEMMA EngineStarts == EngineInit => EngineInv
<1> SUFFICES ASSUME EngineInit PROVE EngineInv
  OBVIOUS
<1> USE EngineAssumption
<1>1. EngineTypeOK
  <2>1. <<>> \in Seq(Int) /\ Len(<<>>) = 0 /\ Chunk \in Nat /\ Chunk > 0
    BY EmptySeq
  <2>2. 1 \in Sources /\ MaxClock + 1 \in Nat /\ 1 \in 1 .. MaxClock + 1 /\ 0 \in 0 .. MaxClock + 1
    BY DEF Sources
  <2>3. \A s \in Sources : Len(held[s]) < Chunk
    BY <2>1 DEF EngineInit
  <2>4. fifo \in [Sources -> Seq(Int)] /\ held \in [Sources -> Seq(Int)]
    BY <2>1 DEF EngineInit
  <2>5. /\ rate \in [Sources -> Rates \union {0}] /\ last \in [Sources -> Int]
        /\ anchor \in [Sources -> 0 .. MaxClock + 1] /\ clock \in [Sources -> 1 .. MaxClock + 1]
    BY <2>2 DEF EngineInit
  <2>6. ended \in [Sources -> BOOLEAN] /\ over \in [Sources -> BOOLEAN]
    BY DEF EngineInit
  <2>7. drained \in 0 .. MaxDrain /\ elapsed \in 0 .. 2
    BY DEF EngineInit
  <2> QED
    BY <2>2, <2>3, <2>4, <2>5, <2>6, <2>7 DEF EngineInit, EngineTypeOK
<1>2. OnTime
  BY EmptySeq DEF EngineInit, OnTime, OnTimeline
<1>3. LatencyBounded
  BY DEF EngineInit, LatencyBounded, Depth
<1>4. EndsFlushed
  BY DEF EngineInit, EndsFlushed, NaturalEndDrains
<1> QED
  BY <1>1, <1>2, <1>3, <1>4 DEF EngineInv

(* Frames leave the FIFOs.                                                 *)
LEMMA LeaveKeeps ==
  ASSUME EngineInv, NEW n, \A s \in Sources : n[s] \in 0 .. Depth(s),
         Leave(n), UNCHANGED <<held, anchor, clock>>
  PROVE  /\ fifo' \in [Sources -> Seq(Int)] /\ last' \in [Sources -> Int] /\ OnTime'
         /\ \A s \in Sources : Depth(s)' = Depth(s) - n[s] /\ Depth(s) \in Nat
<1>1. ASSUME NEW s \in Sources
      PROVE  /\ OnTimeline(fifo[s], held[s], last[s], anchor[s], clock[s])'
             /\ Depth(s)' = Depth(s) - n[s] /\ Depth(s) \in Nat
             /\ fifo'[s] \in Seq(Int) /\ last'[s] \in Int
  <2>1. OnTimeline(fifo[s], held[s], last[s], anchor[s], clock[s])
    BY DEF EngineInv, OnTime
  <2>2. fifo[s] \in Seq(Frames) /\ n[s] \in 0 .. Len(fifo[s]) /\ Depth(s) = Len(fifo[s])
    BY <2>1 DEF OnTimeline, Depth
  <2>3. /\ fifo'[s] = SubSeq(fifo[s], n[s] + 1, Len(fifo[s]))
        /\ last'[s] = IF n[s] = 0 THEN last[s] ELSE fifo[s][n[s]]
    BY DEF Leave, Depth
  <2>4. OnTimeline(fifo'[s], held[s], last'[s], anchor[s], clock[s])
    BY <2>1, <2>2, <2>3, LaneLeaves
  <2>5. Len(fifo'[s]) = Len(fifo[s]) - n[s] /\ Len(fifo[s]) \in Nat
    <3>1. \A i \in n[s] + 1 .. Len(fifo[s]) : fifo[s][i] \in Frames
      BY <2>2
    <3>2. Len(fifo'[s]) = IF n[s] + 1 <= Len(fifo[s]) THEN Len(fifo[s]) - (n[s] + 1) + 1 ELSE 0
      BY <2>2, <2>3, <3>1, SubSeqProperties
    <3> QED
      BY <2>2, <3>2
  <2>6. fifo'[s] \in Seq(Int) /\ last'[s] \in Int
    BY <2>4, FramesAreInts DEF OnTimeline
  <2> QED
    BY <2>2, <2>4, <2>5, <2>6 DEF Depth
<1>2. /\ fifo' = [s \in Sources |-> fifo'[s]]
      /\ last' = [s \in Sources |-> last'[s]]
  BY DEF Leave
<1>3. fifo' \in [Sources -> Seq(Int)] /\ last' \in [Sources -> Int]
  BY <1>1, <1>2
<1> QED
  BY <1>1, <1>3 DEF OnTime

(* The depth of the deepest FIFO, which exists if there is a bound.        *)
LEMMA DeepestIs ==
  ASSUME \A s \in Sources : Depth(s) \in Nat, \A s \in Sources : Depth(s) <= MaxFifo
  PROVE  Deepest \in Nat /\ \A s \in Sources : Depth(s) <= Deepest
<1> USE EngineAssumption
<1> DEFINE U == {m \in Nat : \A s \in Sources : Depth(s) <= m}
<1>1. MaxFifo \in U
  OBVIOUS
<1>2. PICK m \in U : \A k \in U : m <= k
  <2>1. U \in SUBSET Nat /\ U # {}
    BY <1>1
  <2> HIDE DEF U
  <2> QED
    BY <2>1, Least
<1>3. \E s \in Sources : Depth(s) = m
  <2>1. SUFFICES ASSUME \A s \in Sources : Depth(s) # m PROVE FALSE
    OBVIOUS
  <2>2. 1 \in Sources
    BY DEF Sources
  <2>3. m \in Nat /\ m > 0
    BY <1>2, <2>1, <2>2
  <2>4. m - 1 \in U
    BY <1>2, <2>1, <2>3
  <2> QED
    BY <1>2, <2>3, <2>4
<1>4. \E n \in {Depth(s) : s \in Sources} : \A s \in Sources : Depth(s) <= n
  BY <1>2, <1>3
<1>5. /\ Deepest \in {Depth(s) : s \in Sources}
      /\ \A s \in Sources : Depth(s) <= Deepest
  BY <1>4 DEF Deepest
<1> QED
  BY <1>5

(* A tick takes at most its quantum from each FIFO.                        *)
LEMMA TickKeeps ==
  ASSUME EngineInv, NEW frames \in Nat, EmitTick(frames)
  PROVE  /\ fifo' \in [Sources -> Seq(Int)] /\ last' \in [Sources -> Int] /\ OnTime'
         /\ elapsed' = 0 /\ UNCHANGED <<held, rate, anchor, ended, clock, over>>
         /\ \A s \in Sources : /\ Depth(s)' <= Depth(s) /\ Depth(s) \in Nat /\ Depth(s)' \in Nat
                               /\ Depth(s) <= frames => Depth(s)' = 0
<1> DEFINE take == [s \in Sources |-> Lesser(Depth(s), frames)]
<1>1. Leave(take) /\ elapsed' = 0 /\ UNCHANGED <<held, rate, anchor, ended, clock, over>>
  BY DEF EmitTick
<1>2. \A s \in Sources : Depth(s) \in Nat
  BY DEF EngineInv, OnTime, OnTimeline, Depth
<1>3. \A s \in Sources : /\ take[s] \in 0 .. Depth(s)
                         /\ Depth(s) <= frames => take[s] = Depth(s)
  BY <1>2 DEF Lesser
<1> HIDE DEF take
<1>4. /\ fifo' \in [Sources -> Seq(Int)] /\ last' \in [Sources -> Int] /\ OnTime'
      /\ \A s \in Sources : Depth(s)' = Depth(s) - take[s] /\ Depth(s) \in Nat
  BY <1>1, <1>3, LeaveKeeps
<1>5. ASSUME NEW s \in Sources
      PROVE  /\ Depth(s)' <= Depth(s) /\ Depth(s) \in Nat /\ Depth(s)' \in Nat
             /\ Depth(s) <= frames => Depth(s)' = 0
  <2>1. Depth(s)' = Depth(s) - take[s] /\ Depth(s) \in Nat /\ take[s] \in 0 .. Depth(s)
    BY <1>3, <1>4
  <2>2. Depth(s) <= frames => take[s] = Depth(s)
    BY <1>3
  <2> QED
    BY <2>1, <2>2
<1> QED
  BY <1>1, <1>4, <1>5

LEMMA NextSourceSays ==
  ASSUME EngineTypeOK, NextSource
  PROVE  /\ pc' \in {"ingest", "tick"} /\ cursor' \in Sources /\ drained' = 0
         /\ UNCHANGED <<emitted, engaged, engineStop>>
<1> USE EngineAssumption
<1>1. cursor \in Sources /\ 1 \in Sources
  BY DEF EngineTypeOK, Sources
<1>2. cursor # N => cursor + 1 \in Sources
  BY <1>1 DEF Sources
<1> QED
  BY <1>1, <1>2 DEF NextSource

LEMMA BufferKeeps ==
  ASSUME EngineInv, NEW at \in 1 .. MaxClock, NEW r \in Rates, ReadBuffer(at, r)
  PROVE  EngineInv'
<1> USE EngineAssumption
<1> DEFINE s == cursor
           gap == Hole(s, at)
           from == at - gap
           lane == Lane(s, Span(from, at), r)
<1>1. /\ pc = "ingest" /\ ~ended[s] /\ drained < MaxDrain /\ at >= clock[s]
      /\ fifo' = [fifo EXCEPT ![s] = lane.fifo]
      /\ held' = [held EXCEPT ![s] = lane.held]
      /\ rate' = [rate EXCEPT ![s] = r]
      /\ anchor' = [anchor EXCEPT ![s] = at + 1]
      /\ clock' = [clock EXCEPT ![s] = at + 1]
      /\ drained' = drained + 1
      /\ UNCHANGED <<pc, cursor, emitted, engaged, engineStop, elapsed, ended, last, over>>
  BY DEF ReadBuffer, Ingest
<1>2. EngineTypeOK /\ s \in Sources /\ r \in Nat /\ at \in Nat
  BY DEF EngineInv, EngineTypeOK
<1>3. /\ fifo \in [Sources -> Seq(Int)] /\ held \in [Sources -> Seq(Int)]
      /\ last \in [Sources -> Int] /\ rate \in [Sources -> Rates \union {0}]
      /\ anchor \in [Sources -> 0 .. MaxClock + 1] /\ clock \in [Sources -> 1 .. MaxClock + 1]
      /\ drained \in 0 .. MaxDrain /\ MaxClock \in Nat
  BY <1>2 DEF EngineTypeOK
<1>4. /\ OnTimeline(fifo[s], held[s], last[s], anchor[s], clock[s])
      /\ fifo[s] \in Seq(Frames) /\ held[s] \in Seq(Frames)
  BY <1>2 DEF EngineInv, OnTime, OnTimeline
<1>5. anchor[s] \in Nat /\ clock[s] \in Frames
  BY <1>2, <1>3 DEF Frames
<1>6. from \in Frames /\ at \in Frames /\ from <= at
  BY <1>1, <1>2, <1>4, <1>5 DEF Hole, Lesser, Frames, OnTimeline
<1>7. Span(from, at) \in Seq(Frames)
  BY <1>6, SpanConsecutive
<1> HIDE DEF s
<1>8. /\ lane.fifo \in Seq(Frames) /\ lane.held \in Seq(Frames)
      /\ lane.fifo \o lane.held = (fifo[s] \o held[s]) \o Span(from, at)
      /\ Len(lane.held) < Chunk
  BY <1>2, <1>4, <1>7, LaneReceives
<1> HIDE DEF lane
<1>9. OnTimeline(lane.fifo, lane.held, last[s], at + 1, at + 1)
  <2>1. gap = IF anchor[s] = 0 THEN 0 ELSE Lesser(at - anchor[s], MaxFifo)
    BY DEF Hole
  <2> HIDE DEF gap
  <2> QED
    BY <1>1, <1>2, <1>4, <1>5, <1>8, <2>1, LaneGrows
<1> HIDE DEF gap
<1>10. OnTime'
  <2> SUFFICES ASSUME NEW t \in Sources
               PROVE  OnTimeline(fifo[t], held[t], last[t], anchor[t], clock[t])'
    BY DEF OnTime
  <2>1. CASE t = s
    BY <1>1, <1>2, <1>3, <1>9, <2>1
  <2>2. CASE t # s
    <3>1. OnTimeline(fifo[t], held[t], last[t], anchor[t], clock[t])
      BY DEF EngineInv, OnTime
    <3> QED
      BY <1>1, <1>2, <1>3, <2>2, <3>1
  <2> QED
    BY <2>1, <2>2
<1>11. EngineTypeOK'
  <2>1. lane.fifo \in Seq(Int) /\ lane.held \in Seq(Int)
    BY <1>8, FramesAreInts
  <2>2. fifo' \in [Sources -> Seq(Int)] /\ held' \in [Sources -> Seq(Int)]
    BY <1>1, <1>2, <1>3, <2>1
  <2>3. \A t \in Sources : Len(held'[t]) < Chunk
    BY <1>1, <1>2, <1>3, <1>8 DEF EngineTypeOK
  <2>4. /\ rate' \in [Sources -> Rates \union {0}] /\ anchor' \in [Sources -> 0 .. MaxClock + 1]
        /\ clock' \in [Sources -> 1 .. MaxClock + 1]
    BY <1>1, <1>2, <1>3
  <2>5. drained' \in 0 .. MaxDrain
    BY <1>1, <1>3
  <2> QED
    BY <1>1, <1>2, <2>2, <2>3, <2>4, <2>5 DEF EngineTypeOK
<1>12. LatencyBounded'
  BY <1>1 DEF LatencyBounded
<1>13. EndsFlushed'
  <2>1. \A t \in Sources : ended[t] => held'[t] = <<>>
    BY <1>1, <1>3 DEF EngineInv, EndsFlushed
  <2> QED
    BY <1>1, <2>1 DEF EndsFlushed, NaturalEndDrains
<1> QED
  BY <1>10, <1>11, <1>12, <1>13 DEF EngineInv

LEMMA EndKeeps ==
  ASSUME EngineInv, ReadEnded
  PROVE  EngineInv'
<1> USE EngineAssumption
<1> DEFINE s == cursor
<1>1. /\ pc = "ingest" /\ ~ended[s]
      /\ fifo' = [fifo EXCEPT ![s] = fifo[s] \o held[s]]
      /\ held' = [held EXCEPT ![s] = <<>>]
      /\ ended' = [ended EXCEPT ![s] = TRUE]
      /\ NextSource
      /\ UNCHANGED <<elapsed, rate, anchor, clock, last, over>>
  BY DEF ReadEnded
<1>2. EngineTypeOK /\ s \in Sources
  BY DEF EngineInv, EngineTypeOK
<1>3. /\ fifo \in [Sources -> Seq(Int)] /\ held \in [Sources -> Seq(Int)]
      /\ ended \in [Sources -> BOOLEAN]
  BY <1>2 DEF EngineTypeOK
<1> HIDE DEF s
<1>4. /\ pc' \in {"ingest", "tick"} /\ cursor' \in Sources /\ drained' = 0
      /\ UNCHANGED <<emitted, engaged, engineStop>>
  BY <1>1, <1>2, NextSourceSays
<1>5. OnTimeline(fifo[s], held[s], last[s], anchor[s], clock[s])
  BY <1>2 DEF EngineInv, OnTime
<1>6. OnTimeline(fifo[s] \o held[s], <<>>, last[s], anchor[s], clock[s])
  BY <1>5, LaneFlushes
<1>7. OnTime'
  <2> SUFFICES ASSUME NEW t \in Sources
               PROVE  OnTimeline(fifo[t], held[t], last[t], anchor[t], clock[t])'
    BY DEF OnTime
  <2>1. CASE t = s
    <3>1. fifo'[t] = fifo[s] \o held[s] /\ held'[t] = <<>>
      BY <1>1, <1>2, <1>3, <2>1
    <3>2. last'[t] = last[s] /\ anchor'[t] = anchor[s] /\ clock'[t] = clock[s]
      BY <1>1, <2>1
    <3> QED
      BY <1>6, <3>1, <3>2
  <2>2. CASE t # s
    <3>1. OnTimeline(fifo[t], held[t], last[t], anchor[t], clock[t])
      BY DEF EngineInv, OnTime
    <3> QED
      BY <1>1, <1>2, <1>3, <2>2, <3>1
  <2> QED
    BY <2>1, <2>2
<1>8. EngineTypeOK'
  <2>1. fifo[s] \o held[s] \in Seq(Int)
    BY <1>6, FramesAreInts DEF OnTimeline
  <2>2. <<>> \in Seq(Int) /\ Len(<<>>) = 0 /\ Chunk \in Nat /\ Chunk > 0
    BY EmptySeq
  <2>3. fifo' \in [Sources -> Seq(Int)]
    BY <1>1, <1>2, <1>3, <2>1
  <2>4. held' \in [Sources -> Seq(Int)]
    BY <1>1, <1>2, <1>3, <2>2
  <2>5. \A t \in Sources : Len(held'[t]) < Chunk
    BY <1>1, <1>2, <1>3, <2>2 DEF EngineTypeOK
  <2>6. ended' \in [Sources -> BOOLEAN]
    BY <1>1, <1>3
  <2>7. drained' \in 0 .. MaxDrain
    BY <1>4
  <2> QED
    BY <1>1, <1>2, <1>4, <2>3, <2>4, <2>5, <2>6, <2>7 DEF EngineTypeOK
<1>9. LatencyBounded'
  BY <1>4 DEF LatencyBounded
<1>10. EndsFlushed'
  <2>1. ASSUME NEW t \in Sources, ended'[t] PROVE held'[t] = <<>>
    BY <1>1, <1>2, <1>3, <2>1 DEF EngineInv, EndsFlushed
  <2> QED
    BY <1>4, <2>1 DEF EndsFlushed, NaturalEndDrains
<1> QED
  BY <1>7, <1>8, <1>9, <1>10 DEF EngineInv

LEMMA TrimKeeps ==
  ASSUME EngineInv, TrimAll
  PROVE  EngineInv'
<1> USE EngineAssumption
<1> DEFINE excess == [s \in Sources |-> IF Depth(s) > MaxFifo THEN Depth(s) - MaxFifo ELSE 0]
<1>1. /\ pc = "trim" /\ pc' = AfterTrim /\ Leave(excess)
      /\ UNCHANGED <<cursor, drained, emitted, engaged, engineStop, elapsed, held, rate,
                     anchor, ended, clock, over>>
  BY DEF TrimAll
<1>2. \A s \in Sources : Depth(s) \in Nat
  BY DEF EngineInv, OnTime, OnTimeline, Depth
<1>3. \A s \in Sources : excess[s] \in 0 .. Depth(s) /\ Depth(s) - excess[s] <= MaxFifo
  BY <1>2
<1> HIDE DEF excess
<1>4. /\ fifo' \in [Sources -> Seq(Int)] /\ last' \in [Sources -> Int] /\ OnTime'
      /\ \A s \in Sources : Depth(s)' = Depth(s) - excess[s]
  BY <1>1, <1>3, LeaveKeeps
<1>5. /\ pc' \in {"top", "flush"}
      /\ pc' = "flush" => \A s \in Sources : ended[s]
  BY <1>1 DEF AfterTrim
<1>6. EngineTypeOK'
  BY <1>1, <1>4, <1>5 DEF EngineInv, EngineTypeOK
<1>7. LatencyBounded'
  BY <1>3, <1>4 DEF LatencyBounded
<1>8. EndsFlushed'
  BY <1>1, <1>5 DEF EngineInv, EndsFlushed, NaturalEndDrains
<1> QED
  BY <1>4, <1>6, <1>7, <1>8 DEF EngineInv

LEMMA FlushKeeps ==
  ASSUME EngineInv, FlushTick \/ FlushDone
  PROVE  EngineInv'
<1> USE EngineAssumption
<1>1. \A s \in Sources : Depth(s) \in Nat /\ Depth(s) <= MaxFifo
  BY DEF EngineInv, OnTime, OnTimeline, Depth, LatencyBounded, FlushTick, FlushDone
<1>2. Deepest \in Nat /\ \A s \in Sources : Depth(s) <= Deepest
  BY <1>1, DeepestIs
<1>3. CASE FlushTick
  <2>1. Lesser(Deepest, Quantum) \in Nat
    BY <1>2 DEF Lesser
  <2>2. /\ pc = "flush" /\ EmitTick(Lesser(Deepest, Quantum)) /\ UNCHANGED control
    BY <1>3 DEF FlushTick
  <2>3. /\ fifo' \in [Sources -> Seq(Int)] /\ last' \in [Sources -> Int] /\ OnTime'
        /\ elapsed' = 0 /\ UNCHANGED <<held, rate, anchor, ended, clock, over>>
        /\ \A s \in Sources : Depth(s)' <= Depth(s) /\ Depth(s) \in Nat /\ Depth(s)' \in Nat
    BY <2>1, <2>2, TickKeeps
  <2>4. EngineTypeOK'
    <3>1. EngineTypeOK /\ elapsed' \in 0 .. 2
      BY <2>3 DEF EngineInv
    <3> QED
      BY <2>2, <2>3, <3>1 DEF EngineTypeOK, control
  <2>5. LatencyBounded'
    BY <1>1, <2>3 DEF LatencyBounded
  <2>6. EndsFlushed'
    BY <2>2, <2>3 DEF EngineInv, EndsFlushed, NaturalEndDrains, control
  <2> QED
    BY <2>3, <2>4, <2>5, <2>6 DEF EngineInv
<1>4. CASE FlushDone
  <2>1. /\ pc = "flush" /\ Deepest = 0 /\ pc' = "done"
        /\ UNCHANGED <<cursor, drained, emitted, engaged, engineStop, elapsed, lanes, last, over>>
    BY <1>4 DEF FlushDone
  <2>2. ASSUME NEW s \in Sources PROVE Pending(s) = <<>>
    <3>1. Len(fifo[s]) = 0 /\ fifo[s] \in Seq(Frames)
      BY <1>1, <1>2, <2>1 DEF Depth, EngineInv, OnTime, OnTimeline
    <3>2. fifo[s] = <<>> /\ held[s] = <<>>
      BY <2>1, <3>1 DEF EngineInv, EndsFlushed
    <3> QED
      BY <3>1, <3>2, ConcatEmptySeq DEF Pending
  <2>3. EngineTypeOK' /\ OnTime'
    BY <2>1 DEF EngineInv, EngineTypeOK, OnTime, lanes
  <2>4. LatencyBounded'
    BY <2>1 DEF LatencyBounded
  <2>5. EndsFlushed'
    BY <2>1, <2>2 DEF EngineInv, EndsFlushed, NaturalEndDrains, Pending, lanes
  <2> QED
    BY <2>3, <2>4, <2>5 DEF EngineInv
<1> QED
  BY <1>3, <1>4

LEMMA MixKeeps ==
  ASSUME EngineInv, MasterTick \/ FallbackTick
  PROVE  EngineInv'
<1> USE EngineAssumption
<1>1. /\ EmitTick(Quantum) /\ pc' \in {"tick", "trim"}
      /\ emitted' \in BOOLEAN /\ engaged' \in BOOLEAN
      /\ UNCHANGED <<cursor, drained, engineStop>>
  BY DEF MasterTick, FallbackTick
<1>2. /\ fifo' \in [Sources -> Seq(Int)] /\ last' \in [Sources -> Int] /\ OnTime'
      /\ elapsed' = 0 /\ UNCHANGED <<held, rate, anchor, ended, clock, over>>
  BY <1>1, TickKeeps
<1>3. EngineTypeOK'
  <2>1. EngineTypeOK /\ elapsed' \in 0 .. 2
    BY <1>2 DEF EngineInv
  <2> QED
    BY <1>1, <1>2, <2>1 DEF EngineTypeOK
<1>4. LatencyBounded'
  BY <1>1 DEF LatencyBounded
<1>5. EndsFlushed'
  BY <1>1, <1>2 DEF EngineInv, EndsFlushed, NaturalEndDrains
<1> QED
  BY <1>2, <1>3, <1>4, <1>5 DEF EngineInv

(* The steps that move no frame.                                           *)
LEMMA ControlKeeps ==
  ASSUME EngineInv, UNCHANGED <<lanes, last>>, EngineTypeOK',
         pc' = "top" => pc = "top", pc' = "flush" => pc = "flush",
         pc' = "done" => pc = "done" \/ engineStop', engineStop => engineStop'
  PROVE  EngineInv'
<1>1. OnTime'
  BY DEF EngineInv, OnTime, lanes
<1>2. LatencyBounded'
  BY DEF EngineInv, LatencyBounded, Depth, lanes
<1>3. EndsFlushed'
  BY DEF EngineInv, EndsFlushed, NaturalEndDrains, Pending, lanes
<1> QED
  BY <1>1, <1>2, <1>3 DEF EngineInv

LEMMA EngineKeeps == EngineInv /\ [EngineNext]_engineVars => EngineInv'
<1> SUFFICES ASSUME EngineInv, [EngineNext]_engineVars
             PROVE  EngineInv'
  OBVIOUS
<1> USE EngineAssumption
<1>0. EngineTypeOK
  BY DEF EngineInv
<1>1. CASE TimePasses
  <2>1. EngineTypeOK'
    BY <1>0, <1>1 DEF TimePasses, EngineTypeOK, control, lanes
  <2> QED
    BY <1>1, <2>1, ControlKeeps DEF TimePasses, control
<1>2. CASE Stop
  <2>1. EngineTypeOK'
    BY <1>0, <1>2 DEF Stop, EngineTypeOK, lanes
  <2> QED
    BY <1>2, <2>1, ControlKeeps DEF Stop
<1>3. ASSUME NEW s \in Sources, CaptureEnds(s) PROVE EngineInv'
  <2>1. EngineTypeOK'
    BY <1>0, <1>3 DEF CaptureEnds, EngineTypeOK, control, lanes
  <2> QED
    BY <1>3, <2>1, ControlKeeps DEF CaptureEnds, control
<1>4. CASE Top
  <2>1. 1 \in Sources /\ 0 \in 0 .. MaxDrain
    BY DEF Sources
  <2>2. EngineTypeOK'
    BY <1>0, <1>4, <2>1 DEF Top, EngineTypeOK, lanes
  <2> QED
    BY <1>4, <2>2, ControlKeeps DEF Top
<1>5. CASE ReadNothing
  <2>1. /\ pc' \in {"ingest", "tick"} /\ cursor' \in Sources /\ drained' = 0
        /\ UNCHANGED <<emitted, engaged, engineStop>>
    BY <1>0, <1>5, NextSourceSays DEF ReadNothing
  <2>2. drained' \in 0 .. MaxDrain
    BY <2>1
  <2>3. EngineTypeOK'
    BY <1>0, <1>5, <2>1, <2>2 DEF ReadNothing, EngineTypeOK, lanes
  <2> QED
    BY <1>5, <2>1, <2>3, ControlKeeps DEF ReadNothing
<1>6. CASE NoTick
  <2>1. EngineTypeOK'
    BY <1>0, <1>6 DEF NoTick, EngineTypeOK, lanes
  <2> QED
    BY <1>6, <2>1, ControlKeeps DEF NoTick
<1>7. CASE UNCHANGED engineVars
  <2>1. EngineTypeOK'
    BY <1>0, <1>7 DEF engineVars, EngineTypeOK, control, lanes
  <2> QED
    BY <1>7, <2>1, ControlKeeps DEF engineVars, control
<1> QED
  BY <1>1, <1>2, <1>3, <1>4, <1>5, <1>6, <1>7, BufferKeeps, EndKeeps, MixKeeps, TrimKeeps,
     FlushKeeps DEF EngineNext, EngineStep

(* The engine keeps its invariant: every lane is on the timeline of its    *)
(* capture, bounded after a pass, and flushed at its end.                  *)
THEOREM EngineInvariance == EngineSpec => []EngineInv
<1>1. EngineInit => EngineInv
  BY EngineStarts
<1>2. EngineInv /\ [EngineNext]_engineVars => EngineInv'
  BY EngineKeeps
<1> QED
  BY <1>1, <1>2, PTL DEF EngineSpec

(* Every reachable state of the engine is well typed; a resampler holds    *)
(* less than a chunk.                                                      *)
THEOREM EngineTypeCorrect == EngineSpec => []EngineTypeOK
<1>1. EngineInv => EngineTypeOK
  BY DEF EngineInv
<1> QED
  BY <1>1, EngineInvariance, PTL

(* Whatever the captures lose, and however their rates change, a lane has  *)
(* no hole, loss or repetition within a FIFO's length of its newest frame, *)
(* and a pass of the loop leaves no FIFO longer than max_fifo_frames.      *)
THEOREM LanesStayOnTime == EngineSpec => []LanesOnTime
<1>1. EngineInv => LanesOnTime
  BY EngineInvSays
<1> QED
  BY <1>1, EngineInvariance, PTL

(* An engine that exits without a stop has mixed all it received, what the *)
(* resamplers held included.                                               *)
THEOREM EngineDrains == EngineSpec => []NaturalEndDrains
<1>1. EngineInv => NaturalEndDrains
  BY DEF EngineInv, EndsFlushed
<1> QED
  BY <1>1, EngineInvariance, PTL
=============================================================================
