--------------------------- MODULE PipeWire_proofs ---------------------------
(***************************************************************************)
(* Theorems about the two modules of the Linux backend.                    *)
(*                                                                         *)
(* PipeWireThread, for any number of delivered buffers: what the run       *)
(* checks of answers, ends and leftovers, and that the thread implements   *)
(* ADR-0010.  The argument is a ledger of the one command a caller sends   *)
(* besides Shutdown.  While it is owed, in the channel or in the thread's  *)
(* hands, its effects have not happened and its sender has no answer; and  *)
(* since the channel is in order, nothing is owed once Shutdown is         *)
(* carried out.                                                            *)
(*                                                                         *)
(* PipeWireRegistry, for any names, process ids, numbers of objects and of *)
(* changes: what discovery answers is recent and true, and a watcher is    *)
(* not left with a wrong picture.  The argument is what the events on      *)
(* their way make up for: the mirror and they together are the daemon's    *)
(* objects, the last default among them is the daemon's, and what is in    *)
(* front of the answer to the latest sync is what happened before it.      *)
(***************************************************************************)
EXTENDS PipeWireThread, PipeWireRegistry, SequenceTheorems, WellFoundedInduction, TLAPS

(***************************************************************************)
(* The capture thread.                                                     *)
(***************************************************************************)
Work == {"start", "stop", "query"}

Shaped ==
  \/ commands = <<>> \/ commands = <<"shutdown">>
  \/ \E c \in Work : commands = <<c>> \/ commands = <<c, "shutdown">>

Owed(c) == commands = <<c>> \/ commands = <<c, "shutdown">>
Ending == commands = <<"shutdown">> \/ \E c \in Work : commands = <<c, "shutdown">>

Quiet == ~listener /\ ~session /\ stream = "none"

StopSteps == {"stop", "stopStream", "stopEnd", "stopAck"}
DownSteps == {"shutdown", "downStream", "downEnd"}
Busy(c) ==
  CASE c = "start" -> thread \in {"start", "connect"}
    [] c = "stop" -> thread \in StopSteps
    [] c = "query" -> thread = "query"
Pending(c) == Owed(c) \/ Busy(c)

-----------------------------------------------------------------------------
(* The inductive invariant.                                                *)

Unborn ==
  (client = "idle" \/ thread = "unborn") =>
    /\ client = "idle" /\ thread = "unborn" /\ word = "Created"
    /\ commands = <<>> /\ Quiet /\ ~handle /\ outcome = "none" /\ pushed = 0 /\ ~panicked

(* The receiver of a one-shot channel lives as long as its call.           *)
Waiting ==
  /\ client = "waiting" <=> awaiting # "none"
  /\ awaiting = "none" => reply = "none"
  /\ client \in {"waiting", "drop"} /\ handle => outcome = "none" \/ awaiting = "none"
  /\ client \in {"open", "finish"} => handle
  /\ handle => role = "capture"
  /\ role = "capture" /\ client # "idle" => word # "Created"
  /\ awaiting = "query" => role = "query"
  /\ awaiting \in {"start", "stop"} => role = "capture"
  /\ ~handle => outcome = "none"

(* Until init has answered there is nothing else.                          *)
Starting ==
  /\ thread = "init" => awaiting = "init" /\ reply = "none"
  /\ awaiting = "init" =>
       /\ thread = "init" \/ (thread \in {"iterate", "receive"} /\ reply = "ok")
                          \/ (thread \in {"exit", "exited"} /\ reply = "err")
       /\ commands = <<>> /\ Quiet /\ ~handle
       /\ word = IF role = "capture" THEN "Running" ELSE "Created"

(* Shutdown is the last command, and carried out with nothing before it.   *)
Closing ==
  /\ Ending <=> client = "join" /\ thread \notin DownSteps \union {"exit", "exited"}
  /\ thread \in DownSteps => client = "join" /\ commands = <<>>
  /\ thread \in {"exit", "exited"} =>
       /\ commands = <<>> /\ Quiet
       /\ client \in {"join", "closed"} \/ (client = "waiting" /\ awaiting = "init" /\ reply = "err")
  /\ client = "closed" => thread \in {"exit", "exited"}

StartOwed ==
  Pending("start") =>
    /\ role = "capture" /\ ~handle /\ word = "Running" /\ outcome = "none"
    /\ client \in {"waiting", "drop", "join"}
    /\ client = "waiting" => awaiting = "start" /\ reply = "none"
    /\ IF thread = "connect" THEN ~session /\ listener /\ stream = "linked" ELSE Quiet
    /\ Busy("start") => ~Owed("start")

StopOwed ==
  Pending("stop") =>
    /\ handle /\ word \in {"Stopping", "Stopped", "Error"} /\ outcome # "ok"
    /\ client \in {"waiting", "finish", "open", "drop", "join"}
    /\ client = "waiting" => awaiting = "stop" /\ reply = "none"
    /\ Busy("stop") => ~Owed("stop")

QueryOwed ==
  /\ Pending("query") => role = "query" /\ (Busy("query") => ~Owed("query"))
  /\ role = "query" =>
       Quiet /\ ~handle /\ word = "Created" /\ ~Pending("start") /\ ~Pending("stop")

(* One piece of work per caller.                                           *)
OneOwed ==
  \A c, d \in Work : Owed(c) /\ Busy(d) => FALSE

(* A caller that was told, or will read, that its capture has started; one *)
(* that was told that it has stopped.                                      *)
Capturing ==
  (awaiting = "start" /\ reply = "ok") \/ (client = "open" /\ outcome = "none") =>
    /\ thread \in {"iterate", "receive"} /\ commands = <<>>
    /\ session /\ listener /\ word # "Created"
Halted ==
  outcome = "ok" \/ (awaiting = "stop" /\ reply = "ok") \/ thread = "stopAck" =>
    Quiet /\ ~Pending("start") /\ handle
Asked ==
  /\ awaiting = "stop" \/ client = "finish" => word \in {"Stopping", "Stopped", "Error"} /\ handle
  /\ client \in {"open", "drop", "join"} /\ handle /\ outcome # "none" => word \in {"Stopped", "Error"}
  /\ awaiting = "stop" => outcome = "none"
  /\ client = "finish" => outcome # "none"

TornDown ==
  /\ listener => session \/ thread = "connect"
  /\ thread \in {"stopStream", "downStream"} => ~listener
  /\ thread \in {"stopEnd", "downEnd"} => ~listener /\ stream = "none"

DiedOfNode ==
  /\ (session \/ handle \/ stream = "unconnected") /\ word = "Error" => node = "dead" \/ panicked
  /\ stream = "unconnected" => word = "Error"

IInv ==
  /\ TypeOK /\ Shaped
  /\ Unborn /\ Waiting /\ Starting /\ Closing /\ StartOwed /\ StopOwed /\ QueryOwed /\ OneOwed
  /\ Capturing /\ Halted /\ Asked /\ TornDown /\ DiedOfNode

-----------------------------------------------------------------------------
(* The channel.                                                            *)

LEMMA AppendToOne ==
  ASSUME NEW a, NEW b
  PROVE  Append(<<a>>, b) = <<a, b>>
<1> DEFINE S == {a, b}
<1>1. <<a>> \in Seq(S) /\ b \in S /\ <<a, b>> \in Seq(S) /\ Len(<<a>>) = 1 /\ Len(<<a, b>>) = 2
  OBVIOUS
<1>2. /\ Append(<<a>>, b) \in Seq(S) /\ Len(Append(<<a>>, b)) = 2
      /\ Append(<<a>>, b)[1] = a /\ Append(<<a>>, b)[2] = b
  BY <1>1, AppendProperties
<1>3. \A i \in 1 .. 2 : Append(<<a>>, b)[i] = <<a, b>>[i]
  BY <1>2
<1> HIDE DEF S
<1> QED
  BY <1>1, <1>2, <1>3, SeqEqual

LEMMA Tuples ==
  ASSUME NEW a, NEW b
  PROVE  /\ <<a>> # <<>> /\ <<a, b>> # <<>>
         /\ Head(<<a>>) = a /\ Tail(<<a>>) = <<>>
         /\ Head(<<a, b>>) = a /\ Tail(<<a, b>>) = <<b>>
         /\ Append(<<>>, a) = <<a>> /\ Append(<<a>>, b) = <<a, b>>
<1>1. <<a>> # <<>> /\ <<a, b>> # <<>>
  OBVIOUS
<1>2. Head(<<a>>) = a /\ Head(<<a, b>>) = a
  OBVIOUS
<1>3. Tail(<<a>>) = <<>>
  OBVIOUS
<1>4. Tail(<<a, b>>) = <<b>>
  OBVIOUS
<1>5. Append(<<>>, a) = <<a>>
  OBVIOUS
<1> QED
  BY <1>1, <1>2, <1>3, <1>4, <1>5, AppendToOne

LEMMA TuplesDiffer ==
  ASSUME NEW a, NEW b, NEW c, NEW d
  PROVE  /\ <<c>> # <<a, b>>
         /\ <<c>> = <<a>> => c = a
         /\ <<c, d>> = <<a, b>> => c = a /\ d = b
<1>1. <<c>> # <<a, b>>
  OBVIOUS
<1>2. <<c>> = <<a>> => c = a
  OBVIOUS
<1>3. <<c, d>> = <<a, b>> => c = a /\ d = b
  OBVIOUS
<1> QED
  BY <1>1, <1>2, <1>3

LEMMA TupleInSeq ==
  ASSUME NEW S, NEW a \in S, NEW b \in S
  PROVE  <<a>> \in Seq(S) /\ <<a, b>> \in Seq(S)
OBVIOUS

LEMMA OwedIs ==
  ASSUME NEW c, NEW d, commands = <<c>> \/ commands = <<c, "shutdown">>
  PROVE  Owed(d) <=> d = c
<1>1. CASE commands = <<c>>
  BY <1>1, TuplesDiffer DEF Owed
<1>2. CASE commands = <<c, "shutdown">>
  BY <1>2, TuplesDiffer DEF Owed
<1> QED
  BY <1>1, <1>2

LEMMA OwedWillBe ==
  ASSUME NEW c, NEW d, commands' = <<c>> \/ commands' = <<c, "shutdown">>
  PROVE  Owed(d)' <=> d = c
<1>1. CASE commands' = <<c>>
  BY <1>1, TuplesDiffer DEF Owed
<1>2. CASE commands' = <<c, "shutdown">>
  BY <1>2, TuplesDiffer DEF Owed
<1> QED
  BY <1>1, <1>2

LEMMA SameChannel ==
  ASSUME commands' = commands
  PROVE  (Shaped <=> Shaped') /\ (Ending <=> Ending') /\ \A c : Owed(c) <=> Owed(c)'
BY DEF Shaped, Ending, Owed

LEMMA EmptyChannel ==
  commands = <<>> => ~Ending /\ \A c : ~Owed(c)
BY Tuples DEF Ending, Owed

LEMMA NothingOwed ==
  ASSUME Shaped, ~Ending, \A c \in Work : ~Owed(c)
  PROVE  commands = <<>>
BY DEF Shaped, Ending, Owed

LEMMA Sending ==
  ASSUME NEW c \in Work, commands = <<>>, commands' = Append(commands, c)
  PROVE  /\ commands' \in Seq({"start", "stop", "query", "shutdown"})
         /\ Shaped' /\ ~Ending' /\ \A d : Owed(d)' <=> d = c
<1>1. commands' = <<c>>
  BY Tuples
<1> QED
  BY <1>1, Tuples, TuplesDiffer DEF Work, Shaped, Ending, Owed

LEMMA Shutting ==
  ASSUME Shaped, ~Ending, commands' = Append(commands, "shutdown")
  PROVE  /\ commands' \in Seq({"start", "stop", "query", "shutdown"})
         /\ Shaped' /\ Ending' /\ \A d \in Work : Owed(d)' <=> Owed(d)
<1>1. CASE commands = <<>>
  <2>1. commands' = <<"shutdown">>
    BY <1>1, Tuples
  <2> QED
    BY <1>1, <2>1, Tuples, TuplesDiffer DEF Work, Shaped, Ending, Owed
<1>2. CASE commands # <<>>
  <2>1. PICK c \in Work : commands = <<c>>
    BY <1>2 DEF Shaped, Ending
  <2>2. commands' = <<c, "shutdown">>
    BY <2>1, Tuples
  <2>3. commands' \in Seq({"start", "stop", "query", "shutdown"})
    <3>1. c \in {"start", "stop", "query", "shutdown"}
      BY DEF Work
    <3> QED
      BY <2>2, <3>1, TupleInSeq
  <2>4. Shaped' /\ Ending'
    BY <2>2 DEF Shaped, Ending
  <2>5. ASSUME NEW d \in Work PROVE Owed(d)' <=> Owed(d)
    <3>1. Owed(d)' <=> d = c
      BY <2>2, OwedWillBe
    <3>2. Owed(d) <=> d = c
      BY <2>1, OwedIs
    <3> QED
      BY <3>1, <3>2
  <2> QED
    BY <2>3, <2>4, <2>5
<1> QED
  BY <1>1, <1>2

LEMMA Receiving ==
  ASSUME Shaped, commands # <<>>, thread' = Head(commands), commands' = Tail(commands)
  PROVE  /\ commands' \in Seq({"start", "stop", "query", "shutdown"})
         /\ Shaped' /\ \A d \in Work : ~Owed(d)'
         /\ \/ thread' = "shutdown" /\ Ending /\ ~Ending' /\ commands' = <<>>
               /\ \A d \in Work : ~Owed(d)
            \/ thread' \in Work /\ (Ending' <=> Ending) /\ (\A d \in Work : Owed(d) <=> d = thread')
               /\ (commands' = <<>> <=> ~Ending)
<1>1. CASE commands = <<"shutdown">>
  <2>1. thread' = "shutdown" /\ commands' = <<>>
    BY <1>1, Tuples
  <2>2. \A d \in Work : ~Owed(d)
    BY <1>1, Tuples, TuplesDiffer DEF Owed, Work
  <2> QED
    BY <1>1, <2>1, <2>2, Tuples, TuplesDiffer DEF Shaped, Owed, Ending
<1>2. ASSUME NEW c \in Work, commands = <<c>>
      PROVE  /\ thread' = c /\ commands' = <<>> /\ ~Ending /\ ~Ending'
             /\ \A d \in Work : Owed(d) <=> d = c
  <2>1. thread' = c /\ commands' = <<>>
    BY <1>2, Tuples
  <2> QED
    BY <1>2, <2>1, Tuples, TuplesDiffer DEF Work, Owed, Ending
<1>3. ASSUME NEW c \in Work, commands = <<c, "shutdown">>
      PROVE  /\ thread' = c /\ commands' = <<"shutdown">> /\ Ending /\ Ending'
             /\ \A d \in Work : Owed(d) <=> d = c
  <2>1. thread' = c /\ commands' = <<"shutdown">>
    BY <1>3, Tuples
  <2> QED
    BY <1>3, <2>1, Tuples, TuplesDiffer DEF Work, Owed, Ending
<1>4. ASSUME commands' = <<>> \/ commands' = <<"shutdown">>
      PROVE  /\ commands' \in Seq({"start", "stop", "query", "shutdown"})
             /\ Shaped' /\ \A d \in Work : ~Owed(d)'
             /\ commands' = <<>> <=> ~Ending'
  <2>1. commands' \in Seq({"start", "stop", "query", "shutdown"})
    <3>1. "shutdown" \in {"start", "stop", "query", "shutdown"}
      OBVIOUS
    <3>2. <<>> \in Seq({"start", "stop", "query", "shutdown"})
      OBVIOUS
    <3> QED
      BY <1>4, <3>1, <3>2, TupleInSeq
  <2>2. Shaped' /\ (commands' = <<>> <=> ~Ending')
    <3>1. commands' = <<>> => ~Ending'
      BY Tuples DEF Ending
    <3> QED
      BY <1>4, <3>1, Tuples DEF Shaped, Ending
  <2>3. "shutdown" \notin Work
    BY DEF Work
  <2>4. ASSUME NEW d \in Work PROVE ~Owed(d)'
    <3>1. CASE commands' = <<>>
      BY <3>1, Tuples DEF Owed
    <3>2. CASE commands' = <<"shutdown">>
      BY <3>2, <2>3, OwedWillBe
    <3> QED
      BY <1>4, <3>1, <3>2
  <2> QED
    BY <2>1, <2>2, <2>4
<1> QED
  BY <1>1, <1>2, <1>3, <1>4 DEF Shaped

-----------------------------------------------------------------------------
(* The invariant is inductive.                                             *)

LEMMA InitInv == Init => IInv
<1> USE DEF IInv, TypeOK, Unborn, Waiting, Starting, Closing, StartOwed, StopOwed, QueryOwed,
            OneOwed, Capturing, Halted, Asked, TornDown, DiedOfNode,
            Quiet, Pending, Busy, StopSteps, DownSteps, Work,
            pushVars, clientVars, channelVars, threadVars, ClientAt, ThreadAt, Transition
<1> SUFFICES ASSUME Init PROVE IInv
  OBVIOUS
<1>1. Shaped /\ commands \in Seq({"start", "stop", "query", "shutdown"})
  BY DEF Init, Shaped
<1>2. pushed \in 0 .. MaxPush
  BY PushAssumption DEF Init
<1> QED
  BY <1>1, <1>2, EmptyChannel DEF Init

(* Steps that leave the channel alone.                                     *)
LEMMA ClientInv ==
  ASSUME IInv, Spawn \/ StopFinish \/ DropStream \/ Join
               \/ \E a \in Answers : Started(a) \/ Queried(a) \/ StopAnswered(a)
  PROVE  IInv'
<1> USE DEF IInv, TypeOK, Unborn, Waiting, Starting, Closing, StartOwed, StopOwed, QueryOwed,
            OneOwed, Capturing, Halted, Asked, TornDown, DiedOfNode,
            Quiet, Pending, Busy, StopSteps, DownSteps, Work,
            pushVars, clientVars, channelVars, threadVars, ClientAt, ThreadAt, Transition
<1>0. commands' = commands
  BY DEF Spawn, StopFinish, DropStream, Join, Started, Queried, StopAnswered, Handshake
<1>a. (Shaped <=> Shaped') /\ (Ending <=> Ending') /\ \A c : Owed(c) <=> Owed(c)'
  BY <1>0, SameChannel
<1>1. CASE Spawn
  BY <1>0, <1>a, <1>1, EmptyChannel DEF Spawn
<1>2. CASE StopFinish
  BY <1>0, <1>a, <1>2, EmptyChannel DEF StopFinish
<1>3. CASE DropStream
  BY <1>0, <1>a, <1>3, EmptyChannel DEF DropStream
<1>4. CASE Join
  BY <1>0, <1>a, <1>4, EmptyChannel DEF Join
<1>5. ASSUME NEW a \in Answers, Started(a) PROVE IInv'
  BY <1>0, <1>a, <1>5, EmptyChannel DEF Started, Handshake, Answers
<1>6. ASSUME NEW a \in Answers, Queried(a) PROVE IInv'
  BY <1>0, <1>a, <1>6, EmptyChannel DEF Queried, Handshake, Answers
<1>7. ASSUME NEW a \in Answers, StopAnswered(a) PROVE IInv'
  BY <1>0, <1>a, <1>7, EmptyChannel DEF StopAnswered, Handshake, Answers
<1> QED
  BY <1>1, <1>2, <1>3, <1>4, <1>5, <1>6, <1>7

LEMMA ThreadInv ==
  ASSUME IInv, ThreadRuns \/ Process \/ NodeDies, ~Receive
  PROVE  IInv'
<1> USE DEF IInv, TypeOK, Unborn, Waiting, Starting, Closing, StartOwed, StopOwed, QueryOwed,
            OneOwed, Capturing, Halted, Asked, TornDown, DiedOfNode,
            Quiet, Pending, Busy, StopSteps, DownSteps, Work,
            pushVars, clientVars, channelVars, threadVars, ClientAt, ThreadAt, Transition
<1>0. commands' = commands
  BY DEF ThreadRuns, Answer, DropListener, DropCaptureStream, GracefulEnd, InitOk, InitFails, IterateQuiet, Process, StateChanged, NoCommand, StreamFails, ListenerMade, ConnectFails, Connected, StopAck, QueryDone, Exit, NodeDies
<1>a. (Shaped <=> Shaped') /\ (Ending <=> Ending') /\ \A c : Owed(c) <=> Owed(c)'
  BY <1>0, SameChannel
<1>1. CASE InitOk
  BY <1>0, <1>a, <1>1, EmptyChannel DEF InitOk, Answer
<1>2. CASE InitFails
  BY <1>0, <1>a, <1>2, EmptyChannel DEF InitFails, Answer
<1>3. CASE IterateQuiet
  BY <1>0, <1>a, <1>3, EmptyChannel DEF IterateQuiet, Answer, Hears, DeathPending
<1>4. CASE Process
  <2>1. TypeOK'
    <3>1. pushed' \in 0 .. MaxPush /\ thread' = "receive" /\ word' \in {word, "Error"}
      BY <1>4, PushAssumption DEF Process
    <3>2. panicked \in BOOLEAN /\ panicked' \in {panicked, TRUE}
      BY <1>4, Zenon DEF Process
    <3>3. panicked' \in BOOLEAN
      BY <3>2, Zenon
    <3> QED
      BY <1>0, <1>4, <3>1, <3>3 DEF Process
  <2>2. Shaped'
    BY <1>0, <1>a, <1>4, EmptyChannel, PushAssumption DEF Process, Hears, DeathPending
  <2>3. Unborn'
    BY <1>0, <1>a, <1>4, EmptyChannel, PushAssumption DEF Process, Hears, DeathPending
  <2>4. Waiting'
    BY <1>0, <1>a, <1>4, EmptyChannel, PushAssumption DEF Process, Hears, DeathPending
  <2>5. Starting'
    BY <1>0, <1>a, <1>4, EmptyChannel, PushAssumption DEF Process, Hears, DeathPending
  <2>6. Closing'
    BY <1>0, <1>a, <1>4, EmptyChannel, PushAssumption DEF Process, Hears, DeathPending
  <2>7. StartOwed'
    BY <1>0, <1>a, <1>4, EmptyChannel, PushAssumption DEF Process, Hears, DeathPending
  <2>8. StopOwed'
    BY <1>0, <1>a, <1>4, EmptyChannel, PushAssumption DEF Process, Hears, DeathPending
  <2>9. QueryOwed'
    BY <1>0, <1>a, <1>4, EmptyChannel, PushAssumption DEF Process, Hears, DeathPending
  <2>10. OneOwed'
    BY <1>0, <1>a, <1>4, EmptyChannel, PushAssumption DEF Process, Hears, DeathPending
  <2>11. Capturing'
    BY <1>0, <1>a, <1>4, EmptyChannel, PushAssumption DEF Process, Hears, DeathPending
  <2>12. Halted'
    BY <1>0, <1>a, <1>4, EmptyChannel, PushAssumption DEF Process, Hears, DeathPending
  <2>13. Asked'
    BY <1>0, <1>a, <1>4, EmptyChannel, PushAssumption DEF Process, Hears, DeathPending
  <2>14. TornDown'
    BY <1>0, <1>a, <1>4, EmptyChannel, PushAssumption DEF Process, Hears, DeathPending
  <2>15. DiedOfNode'
    BY <1>0, <1>a, <1>4, EmptyChannel, PushAssumption DEF Process, Hears, DeathPending
  <2> QED
    BY <2>1, <2>2, <2>3, <2>4, <2>5, <2>6, <2>7, <2>8, <2>9, <2>10, <2>11, <2>12, <2>13, <2>14, <2>15
<1>5. CASE StateChanged
  BY <1>0, <1>a, <1>5, EmptyChannel DEF StateChanged, Answer, Hears, DeathPending
<1>6. CASE NoCommand
  BY <1>0, <1>a, <1>6, EmptyChannel DEF NoCommand, Answer
<1>7. CASE StreamFails
  BY <1>0, <1>a, <1>7, EmptyChannel DEF StreamFails, Answer
<1>8. CASE ListenerMade
  BY <1>0, <1>a, <1>8, EmptyChannel DEF ListenerMade, Answer
<1>9. CASE ConnectFails
  BY <1>0, <1>a, <1>9, EmptyChannel DEF ConnectFails, Answer
<1>10. CASE Connected
  <2>1. TypeOK'
    BY <1>0, <1>a, <1>10, EmptyChannel DEF Connected, Answer
  <2>2. Shaped'
    BY <1>0, <1>a, <1>10, EmptyChannel DEF Connected, Answer
  <2>3. Unborn'
    BY <1>0, <1>a, <1>10, EmptyChannel DEF Connected, Answer
  <2>4. Waiting'
    BY <1>0, <1>a, <1>10, EmptyChannel DEF Connected, Answer
  <2>5. Starting'
    BY <1>0, <1>a, <1>10, EmptyChannel DEF Connected, Answer
  <2>6. Closing'
    BY <1>0, <1>a, <1>10, EmptyChannel DEF Connected, Answer
  <2>7. StartOwed'
    BY <1>0, <1>a, <1>10, EmptyChannel DEF Connected, Answer
  <2>8. StopOwed'
    BY <1>0, <1>a, <1>10, EmptyChannel DEF Connected, Answer
  <2>9. QueryOwed'
    BY <1>0, <1>a, <1>10, EmptyChannel DEF Connected, Answer
  <2>10. OneOwed'
    BY <1>0, <1>a, <1>10, EmptyChannel DEF Connected, Answer
  <2>11. Capturing'
    <3>1. thread = "connect" /\ Busy("start") /\ Pending("start")
      BY <1>10 DEF Connected
    <3>2. \A c \in Work : ~Owed(c)
      BY <3>1
    <3>3. awaiting = "start" => ~Ending
      BY <3>1
    <3>4. awaiting = "start" => commands = <<>>
      BY <3>2, <3>3, NothingOwed
    <3> QED
      BY <1>10, <3>1, <3>4 DEF Connected, Answer
  <2>12. Halted'
    BY <1>0, <1>a, <1>10, EmptyChannel DEF Connected, Answer
  <2>13. Asked'
    BY <1>0, <1>a, <1>10, EmptyChannel DEF Connected, Answer
  <2>14. TornDown'
    BY <1>0, <1>a, <1>10, EmptyChannel DEF Connected, Answer
  <2>15. DiedOfNode'
    BY <1>0, <1>a, <1>10, EmptyChannel DEF Connected, Answer
  <2> QED
    BY <2>1, <2>2, <2>3, <2>4, <2>5, <2>6, <2>7, <2>8, <2>9, <2>10, <2>11, <2>12, <2>13, <2>14, <2>15
<1>11. CASE StopAck
  BY <1>0, <1>a, <1>11, EmptyChannel DEF StopAck, Answer
<1>12. CASE QueryDone
  BY <1>0, <1>a, <1>12, EmptyChannel DEF QueryDone, Answer
<1>13. CASE Exit
  BY <1>0, <1>a, <1>13, EmptyChannel DEF Exit, Answer
<1>14. CASE NodeDies
  BY <1>0, <1>a, <1>14, EmptyChannel DEF NodeDies, Answer
<1>15. CASE DropListener("stop", "stopStream")
  <2>1. TypeOK'
    BY <1>0, <1>a, <1>15, EmptyChannel DEF DropListener
  <2>2. Shaped'
    BY <1>0, <1>a, <1>15, EmptyChannel DEF DropListener
  <2>3. Unborn'
    BY <1>0, <1>a, <1>15, EmptyChannel DEF DropListener
  <2>4. Waiting'
    BY <1>0, <1>a, <1>15, EmptyChannel DEF DropListener
  <2>5. Starting'
    BY <1>0, <1>a, <1>15, EmptyChannel DEF DropListener
  <2>6. Closing'
    BY <1>0, <1>a, <1>15, EmptyChannel DEF DropListener
  <2>7. StartOwed'
    BY <1>0, <1>a, <1>15, EmptyChannel DEF DropListener
  <2>8. StopOwed'
    BY <1>0, <1>a, <1>15, EmptyChannel DEF DropListener
  <2>9. QueryOwed'
    BY <1>0, <1>a, <1>15, EmptyChannel DEF DropListener
  <2>10. OneOwed'
    BY <1>0, <1>a, <1>15, EmptyChannel DEF DropListener
  <2>11. Capturing'
    BY <1>0, <1>a, <1>15, EmptyChannel DEF DropListener
  <2>12. Halted'
    BY <1>0, <1>a, <1>15, EmptyChannel DEF DropListener
  <2>13. Asked'
    BY <1>0, <1>a, <1>15, EmptyChannel DEF DropListener
  <2>14. TornDown'
    BY <1>0, <1>a, <1>15, EmptyChannel DEF DropListener
  <2>15. DiedOfNode'
    BY <1>0, <1>a, <1>15, EmptyChannel DEF DropListener
  <2> QED
    BY <2>1, <2>2, <2>3, <2>4, <2>5, <2>6, <2>7, <2>8, <2>9, <2>10, <2>11, <2>12, <2>13, <2>14, <2>15
<1>16. CASE DropListener("shutdown", "downStream")
  <2>1. TypeOK'
    BY <1>0, <1>a, <1>16, EmptyChannel DEF DropListener
  <2>2. Shaped'
    BY <1>0, <1>a, <1>16, EmptyChannel DEF DropListener
  <2>3. Unborn'
    BY <1>0, <1>a, <1>16, EmptyChannel DEF DropListener
  <2>4. Waiting'
    BY <1>0, <1>a, <1>16, EmptyChannel DEF DropListener
  <2>5. Starting'
    BY <1>0, <1>a, <1>16, EmptyChannel DEF DropListener
  <2>6. Closing'
    BY <1>0, <1>a, <1>16, EmptyChannel DEF DropListener
  <2>7. StartOwed'
    BY <1>0, <1>a, <1>16, EmptyChannel DEF DropListener
  <2>8. StopOwed'
    BY <1>0, <1>a, <1>16, EmptyChannel DEF DropListener
  <2>9. QueryOwed'
    BY <1>0, <1>a, <1>16, EmptyChannel DEF DropListener
  <2>10. OneOwed'
    BY <1>0, <1>a, <1>16, EmptyChannel DEF DropListener
  <2>11. Capturing'
    BY <1>0, <1>a, <1>16, EmptyChannel DEF DropListener
  <2>12. Halted'
    BY <1>0, <1>a, <1>16, EmptyChannel DEF DropListener
  <2>13. Asked'
    BY <1>0, <1>a, <1>16, EmptyChannel DEF DropListener
  <2>14. TornDown'
    BY <1>0, <1>a, <1>16, EmptyChannel DEF DropListener
  <2>15. DiedOfNode'
    BY <1>0, <1>a, <1>16, EmptyChannel DEF DropListener
  <2> QED
    BY <2>1, <2>2, <2>3, <2>4, <2>5, <2>6, <2>7, <2>8, <2>9, <2>10, <2>11, <2>12, <2>13, <2>14, <2>15
<1>17. CASE DropCaptureStream("stopStream", "stopEnd")
  BY <1>0, <1>a, <1>17, EmptyChannel DEF DropCaptureStream
<1>18. CASE DropCaptureStream("downStream", "downEnd")
  BY <1>0, <1>a, <1>18, EmptyChannel DEF DropCaptureStream
<1>19. CASE GracefulEnd("stopEnd", "stopAck")
  <2>1. TypeOK'
    BY <1>0, <1>a, <1>19, EmptyChannel DEF GracefulEnd
  <2>2. Shaped'
    BY <1>0, <1>a, <1>19, EmptyChannel DEF GracefulEnd
  <2>3. Unborn'
    BY <1>0, <1>a, <1>19, EmptyChannel DEF GracefulEnd
  <2>4. Waiting'
    BY <1>0, <1>a, <1>19, EmptyChannel DEF GracefulEnd
  <2>5. Starting'
    BY <1>0, <1>a, <1>19, EmptyChannel DEF GracefulEnd
  <2>6. Closing'
    BY <1>0, <1>a, <1>19, EmptyChannel DEF GracefulEnd
  <2>7. StartOwed'
    BY <1>0, <1>a, <1>19, EmptyChannel DEF GracefulEnd
  <2>8. StopOwed'
    BY <1>0, <1>a, <1>19, EmptyChannel DEF GracefulEnd
  <2>9. QueryOwed'
    BY <1>0, <1>a, <1>19, EmptyChannel DEF GracefulEnd
  <2>10. OneOwed'
    BY <1>0, <1>a, <1>19, EmptyChannel DEF GracefulEnd
  <2>11. Capturing'
    BY <1>0, <1>a, <1>19, EmptyChannel DEF GracefulEnd
  <2>12. Halted'
    BY <1>0, <1>a, <1>19, EmptyChannel DEF GracefulEnd
  <2>13. Asked'
    BY <1>0, <1>a, <1>19, EmptyChannel DEF GracefulEnd
  <2>14. TornDown'
    BY <1>0, <1>a, <1>19, EmptyChannel DEF GracefulEnd
  <2>15. DiedOfNode'
    BY <1>0, <1>a, <1>19, EmptyChannel DEF GracefulEnd
  <2> QED
    BY <2>1, <2>2, <2>3, <2>4, <2>5, <2>6, <2>7, <2>8, <2>9, <2>10, <2>11, <2>12, <2>13, <2>14, <2>15
<1>20. CASE GracefulEnd("downEnd", "exit")
  <2>1. TypeOK'
    BY <1>0, <1>a, <1>20, EmptyChannel DEF GracefulEnd
  <2>2. Shaped'
    BY <1>0, <1>a, <1>20, EmptyChannel DEF GracefulEnd
  <2>3. Unborn'
    BY <1>0, <1>a, <1>20, EmptyChannel DEF GracefulEnd
  <2>4. Waiting'
    BY <1>0, <1>a, <1>20, EmptyChannel DEF GracefulEnd
  <2>5. Starting'
    BY <1>0, <1>a, <1>20, EmptyChannel DEF GracefulEnd
  <2>6. Closing'
    BY <1>0, <1>a, <1>20, EmptyChannel DEF GracefulEnd
  <2>7. StartOwed'
    BY <1>0, <1>a, <1>20, EmptyChannel DEF GracefulEnd
  <2>8. StopOwed'
    BY <1>0, <1>a, <1>20, EmptyChannel DEF GracefulEnd
  <2>9. QueryOwed'
    BY <1>0, <1>a, <1>20, EmptyChannel DEF GracefulEnd
  <2>10. OneOwed'
    BY <1>0, <1>a, <1>20, EmptyChannel DEF GracefulEnd
  <2>11. Capturing'
    BY <1>0, <1>a, <1>20, EmptyChannel DEF GracefulEnd
  <2>12. Halted'
    BY <1>0, <1>a, <1>20, EmptyChannel DEF GracefulEnd
  <2>13. Asked'
    BY <1>0, <1>a, <1>20, EmptyChannel DEF GracefulEnd
  <2>14. TornDown'
    BY <1>0, <1>a, <1>20, EmptyChannel DEF GracefulEnd
  <2>15. DiedOfNode'
    BY <1>0, <1>a, <1>20, EmptyChannel DEF GracefulEnd
  <2> QED
    BY <2>1, <2>2, <2>3, <2>4, <2>5, <2>6, <2>7, <2>8, <2>9, <2>10, <2>11, <2>12, <2>13, <2>14, <2>15
<1> QED
  BY <1>1, <1>2, <1>3, <1>4, <1>5, <1>6, <1>7, <1>8, <1>9, <1>10, <1>11, <1>12, <1>13, <1>14, <1>15, <1>16, <1>17, <1>18, <1>19, <1>20 DEF ThreadRuns

(* Steps that send or receive.                                             *)
LEMMA InitializedInv ==
  ASSUME IInv, Initialized
  PROVE  IInv'
<1> USE DEF IInv, TypeOK, Unborn, Waiting, Starting, Closing, StartOwed, StopOwed, QueryOwed,
            OneOwed, Capturing, Halted, Asked, TornDown, DiedOfNode,
            Quiet, Pending, Busy, StopSteps, DownSteps, Work,
            pushVars, clientVars, channelVars, threadVars, ClientAt, ThreadAt, Transition
<1>1. CASE commands' = commands
  <2>1. (Shaped <=> Shaped') /\ (Ending <=> Ending') /\ \A c : Owed(c) <=> Owed(c)'
    BY <1>1, SameChannel
  <2> QED
    BY <1>1, <2>1, EmptyChannel DEF Initialized, Send
<1>2. CASE commands' # commands
  <2>1. PICK c \in Work : c # "stop" /\ Send(c)
    BY <1>2 DEF Initialized
  <2>2. commands = <<>> /\ commands' = Append(commands, c)
    BY <2>1 DEF Initialized, Send
  <2>3. /\ commands' \in Seq({"start", "stop", "query", "shutdown"})
        /\ Shaped' /\ ~Ending' /\ \A d : Owed(d)' <=> d = c
    BY <2>2, Sending
  <2> QED
    BY <2>1, <2>2, <2>3, EmptyChannel DEF Initialized, Send
<1> QED
  BY <1>1, <1>2

LEMMA StopInv ==
  ASSUME IInv, Stop
  PROVE  IInv'
<1> USE DEF IInv, TypeOK, Unborn, Waiting, Starting, Closing, StartOwed, StopOwed, QueryOwed,
            OneOwed, Capturing, Halted, Asked, TornDown, DiedOfNode,
            Quiet, Pending, Busy, StopSteps, DownSteps, Work,
            pushVars, clientVars, channelVars, threadVars, ClientAt, ThreadAt, Transition
<1>1. commands = <<>> /\ "stop" \in Work /\ commands' = Append(commands, "stop")
  BY DEF Stop, Send
<1>2. /\ commands' \in Seq({"start", "stop", "query", "shutdown"})
      /\ Shaped' /\ ~Ending' /\ \A d : Owed(d)' <=> d = "stop"
  BY <1>1, Sending
<1> QED
  BY <1>1, <1>2, EmptyChannel DEF Stop, Send

LEMMA DropInv ==
  ASSUME IInv, DropThread
  PROVE  IInv'
<1> USE DEF IInv, TypeOK, Unborn, Waiting, Starting, Closing, StartOwed, StopOwed, QueryOwed,
            OneOwed, Capturing, Halted, Asked, TornDown, DiedOfNode,
            Quiet, Pending, Busy, StopSteps, DownSteps, Work,
            pushVars, clientVars, channelVars, threadVars, ClientAt, ThreadAt, Transition
<1>1. ~Ending
  BY DEF DropThread
<1>2. /\ commands' \in Seq({"start", "stop", "query", "shutdown"})
      /\ Shaped' /\ Ending' /\ \A d \in Work : Owed(d)' <=> Owed(d)
  BY <1>1, Shutting DEF DropThread
<1> QED
  BY <1>1, <1>2, EmptyChannel DEF DropThread

LEMMA ReceiveInv ==
  ASSUME IInv, Receive
  PROVE  IInv'
<1> USE DEF IInv, TypeOK, Unborn, Waiting, Starting, Closing, StartOwed, StopOwed, QueryOwed,
            OneOwed, Capturing, Halted, Asked, TornDown, DiedOfNode,
            Quiet, Pending, Busy, StopSteps, DownSteps, Work,
            pushVars, clientVars, channelVars, threadVars, ClientAt, ThreadAt, Transition
<1>1. /\ commands' \in Seq({"start", "stop", "query", "shutdown"})
      /\ Shaped' /\ \A d \in Work : ~Owed(d)'
  BY Receiving DEF Receive
<1>2. CASE /\ thread' = "shutdown" /\ Ending /\ ~Ending' /\ commands' = <<>>
           /\ \A d \in Work : ~Owed(d)
  BY <1>1, <1>2, EmptyChannel DEF Receive
<1>3. CASE /\ thread' \in Work /\ (Ending' <=> Ending) /\ \A d \in Work : Owed(d) <=> d = thread'
           /\ commands' = <<>> <=> ~Ending
  BY <1>1, <1>3, EmptyChannel DEF Receive
<1> QED
  BY <1>2, <1>3, Receiving DEF Receive

LEMMA StepInv == IInv /\ [Next]_vars => IInv'
<1> SUFFICES ASSUME IInv, [Next]_vars PROVE IInv'
  OBVIOUS
<1>1. CASE Client
  <2>1. CASE Initialized \/ Stop
    BY <2>1, InitializedInv, StopInv
  <2>2. CASE DropThread
    BY <2>2, DropInv
  <2> QED
    BY <1>1, <2>1, <2>2, ClientInv DEF Client
<1>2. CASE Process \/ ThreadRuns \/ NodeDies
  <2>1. CASE Receive
    BY <2>1, ReceiveInv
  <2> QED
    BY <1>2, <2>1, ThreadInv
<1>3. CASE UNCHANGED vars
  <2>1. commands' = commands
    BY <1>3 DEF vars, channelVars
  <2>2. (Shaped <=> Shaped') /\ (Ending <=> Ending') /\ \A c : Owed(c) <=> Owed(c)'
    BY <2>1, SameChannel
  <2> QED
    BY <1>3, <2>2, SMTT(60) DEF vars, pushVars, clientVars, channelVars, threadVars, IInv, TypeOK, Unborn, Waiting,
       Starting, Work, Closing, StartOwed, StopOwed, QueryOwed, OneOwed, Capturing, Halted, Asked, TornDown,
       DiedOfNode, Quiet, Pending, Busy, StopSteps, DownSteps
<1> QED
  BY <1>1, <1>2, <1>3 DEF Next, Done

(* The ledger holds in every reachable state.                              *)
THEOREM Ledger == Spec => []IInv
BY InitInv, StepInv, PTL DEF Spec

(* Every reachable state is well typed.                                    *)
THEOREM TypeCorrect == Spec => []TypeOK
<1>1. IInv => TypeOK
  BY DEF IInv
<1> QED
  BY <1>1, Ledger, PTL

(* A stream in a caller's hands is in error only if its node died, or a    *)
(* push panicked.                                                          *)
THEOREM CleanStops == Spec => []CleanStopIsGraceful
<1>1. IInv => CleanStopIsGraceful
  BY DEF IInv, DiedOfNode, CleanStopIsGraceful
<1> QED
  BY <1>1, Ledger, PTL

(* Acknowledgements are true when they are read, however late.             *)
THEOREM Answered == Spec => []AnswersAreTrue
<1>1. IInv => AnswersAreTrue
  BY DEF IInv, Capturing, Halted, Quiet, AnswersAreTrue
<1> QED
  BY <1>1, Ledger, PTL

(* Whatever timed out or failed, a closed handle leaves no thread, no      *)
(* capture and no command behind.                                          *)
THEOREM NoLeftovers == Spec => []NothingLeft
<1>1. IInv => NothingLeft
  BY DEF IInv, Closing, Quiet, NothingLeft
<1> QED
  BY <1>1, Ledger, PTL

-----------------------------------------------------------------------------
(* ADR-0010: the thread implements ProducerTerminal.                       *)

(* Who may push or signal, on the thread.                                  *)
LEMMA InState ==
  ASSUME IInv
  PROVE  /\ pushed \in Nat
         /\ word \in {"Created", "Running", "Stopping", "Stopped", "Error"}
         /\ client = "idle" => Producer = "none" /\ word = "Created"
         /\ thread \in {"iterate", "receive"} /\ listener => session
         /\ session => word # "Created"
         /\ thread = "connect" => word = "Running" /\ ~session
         /\ client = "open" /\ word = "Running" => session
         /\ Hears => word # "Created" /\ (session \/ thread = "connect")
         /\ thread = "start" => word = "Running"
         /\ thread \in {"stopStream", "downStream", "stopEnd", "downEnd"} => ~Hears
<1>1. role = "query" => ~session
  BY DEF IInv, QueryOwed, Quiet
<1>2. client = "idle" => ~session /\ word = "Created"
  BY DEF IInv, Unborn, Quiet
<1>3. session => word # "Created"
  BY <1>1, <1>2 DEF IInv, TypeOK, Waiting
<1>4. thread = "connect" => word = "Running" /\ ~session
  BY DEF IInv, StartOwed, Pending, Busy
<1>5. client = "open" /\ word = "Running" => session
  BY DEF IInv, Waiting, Asked, Capturing
<1>6. pushed \in Nat /\ word \in {"Created", "Running", "Stopping", "Stopped", "Error"}
  BY PushAssumption DEF IInv, TypeOK
<1>7. Hears => word # "Created" /\ (session \/ thread = "connect")
  BY <1>3, <1>4 DEF IInv, TornDown, Hears
<1>8. thread = "start" => word = "Running"
  BY DEF IInv, StartOwed, Pending, Busy
<1>9. thread \in {"stopStream", "downStream", "stopEnd", "downEnd"} => ~Hears
  BY DEF IInv, TornDown, Hears
<1>10. thread \in {"iterate", "receive"} /\ listener => session
  BY DEF IInv, TornDown
<1>11. client = "idle" => Producer = "none"
  BY <1>2 DEF Producer
<1> QED
  BY <1>2, <1>3, <1>4, <1>5, <1>6, <1>7, <1>8, <1>9, <1>10, <1>11

LEMMA ContractStep ==
  ASSUME IInv, [Next]_vars
  PROVE  [Contract!Next]_(Contract!vars)
<1> USE InState DEF Producer, Hears, pushVars, Transition, ClientAt, ThreadAt, Contract!Next, Contract!vars
<1>0. ASSUME word' = word, session' = session, pushed' = pushed, word = "Error" => (Hears <=> Hears')
      PROVE  UNCHANGED Contract!vars
  BY <1>0
<1>1. CASE Spawn
  BY <1>1 DEF Spawn, Contract!Open
<1>2. CASE Stop
  BY <1>2 DEF Stop, threadVars, Contract!AskStop
<1>3. CASE StopFinish
  <2>1. session' = session /\ pushed' = pushed /\ (Hears <=> Hears')
    BY <1>3 DEF StopFinish, threadVars
  <2>2. word # "Stopping" => word' = word
    BY <1>3 DEF StopFinish
  <2>3. CASE word = "Stopping"
    BY <1>3, <2>1, <2>3 DEF StopFinish, Contract!FinishStop
  <2>4. CASE word # "Stopping"
    BY <1>0, <2>1, <2>2, <2>4
  <2> QED
    BY <2>3, <2>4
<1>4. CASE Process
  <2>1. pushed' % 2 = 1 - (pushed % 2)
    BY <1>4 DEF Process
  <2>2. Producer = "live" /\ Producer' = "live"
    BY <1>4 DEF Process
  <2> QED
    BY <1>4, <2>1, <2>2 DEF Process, Contract!Push, Contract!Poison
<1>5. CASE StateChanged
  BY <1>5 DEF StateChanged, DeathPending, Hears, Contract!Die
<1>6. CASE ConnectFails
  BY <1>6 DEF ConnectFails, Contract!Die
<1>7. CASE Connected
  BY <1>7 DEF Connected, Contract!Begin
<1>8. ASSUME NEW from, NEW to, GracefulEnd(from, to)
      PROVE  [Contract!Next]_(Contract!vars)
  BY <1>8 DEF GracefulEnd, Contract!End
<1>9. CASE Client /\ ~Spawn /\ ~Stop /\ ~StopFinish
  BY <1>0, <1>9 DEF Client, Initialized, Started, Queried, StopAnswered, Handshake, DropStream,
     DropThread, Join, threadVars
<1>10. CASE \/ InitOk \/ InitFails \/ IterateQuiet \/ NoCommand \/ Receive \/ StreamFails
            \/ ListenerMade \/ StopAck \/ QueryDone \/ Exit \/ NodeDies
            \/ DropCaptureStream("stopStream", "stopEnd") \/ DropCaptureStream("downStream", "downEnd")
  BY <1>0, <1>10 DEF InitOk, InitFails, IterateQuiet, NoCommand, Receive, StreamFails, ListenerMade,
     StopAck, QueryDone, Exit, NodeDies, DropCaptureStream, threadVars
<1>11. CASE UNCHANGED vars
  BY <1>0, <1>11 DEF vars, threadVars
<1>12. ASSUME NEW from, NEW to, DropListener(from, to)
       PROVE  [Contract!Next]_(Contract!vars)
  <2>1. word' = word /\ session' = session /\ pushed' = pushed /\ ~Hears'
    BY <1>12 DEF DropListener
  <2>2. CASE word = "Error" /\ Hears
    BY <2>1, <2>2 DEF Contract!End
  <2>3. CASE ~(word = "Error" /\ Hears)
    BY <1>0, <2>1, <2>3
  <2> QED
    BY <2>2, <2>3
<1> QED
  BY <1>1, <1>2, <1>3, <1>4, <1>5, <1>6, <1>7, <1>8, <1>9, <1>10, <1>11, <1>12 DEF Next, ThreadRuns, Done

(* The session's bridge sees the producer that ADR-0010 promises.          *)
THEOREM ImplementsContract == Spec => TerminalSignalled
<1>1. Init => Contract!Init
  BY DEF Init, Producer, Contract!Init
<1> QED
  BY <1>1, Ledger, ContractStep, PTL DEF Spec, TerminalSignalled, Contract!Spec

(***************************************************************************)
(* The registry and the device watcher.                                    *)
(***************************************************************************)

(* What the i-th event on its way to the thread says.                      *)
Adds(q, i, g) == i \in DOMAIN q /\ q[i].kind = "global" /\ q[i].id = g
Removes(q, i, g) == i \in DOMAIN q /\ q[i].kind = "remove" /\ q[i].id = g
Sets(q, i) == i \in DOMAIN q /\ q[i].kind = "property"
Dones(q, i, n) == i \in DOMAIN q /\ q[i].kind = "done" /\ q[i].seq = n

Ids == 1 .. MaxGlobal
Events ==
  [kind : {"global"}, id : Ids, object : Objects] \union [kind : {"remove"}, id : Ids]
    \union [kind : {"property"}, name : Names] \union [kind : {"done"}, seq : Nat]
Requests == [kind : {"sync"}, seq : Nat] \union [kind : {"bind"}, id : Ids]

LEMMA EventShapes ==
  /\ \A e \in Events :
       /\ e.kind \in {"global", "remove", "property", "done"}
       /\ e.kind = "global" => e.id \in Ids /\ e.object \in Objects
       /\ e.kind = "remove" => e.id \in Ids
       /\ e.kind = "property" => e.name \in Names
       /\ e.kind = "done" => e.seq \in Nat
  /\ \A r \in Requests :
       /\ r.kind \in {"sync", "bind"}
       /\ r.kind = "sync" => r.seq \in Nat
       /\ r.kind = "bind" => r.id \in Ids
BY DEF Events, Requests

LEMMA EventsMade ==
  /\ \A g \in Ids, o \in Objects : [kind |-> "global", id |-> g, object |-> o] \in Events
  /\ \A g \in Ids : [kind |-> "remove", id |-> g] \in Events
  /\ \A n \in Names : Property(n) \in Events
  /\ \A n \in Nat : [kind |-> "done", seq |-> n] \in Events
  /\ \A n \in Nat : [kind |-> "sync", seq |-> n] \in Requests
  /\ \A g \in Ids : [kind |-> "bind", id |-> g] \in Requests
BY DEF Events, Requests, Property

LEMMA ObjectShapes ==
  /\ \A n \in Names : Device(n) \in Objects
  /\ Metadata \in Objects
  /\ \A o \in Objects : /\ o.class \in {"device", "app", "meta"}
                        /\ o.class = "device" => o.name \in Names /\ o = Device(o.name)
                        /\ o.class = "meta" => o = Metadata
BY DEF Objects, Device, App, Metadata

(* An event, or a request, is added at the end.                            *)
LEMMA Grown ==
  ASSUME NEW S, NEW q \in Seq(S), NEW e \in S
  PROVE  /\ q \o <<e>> \in Seq(S) /\ Len(q) \in Nat
         /\ DOMAIN q = 1 .. Len(q) /\ DOMAIN (q \o <<e>>) = 1 .. Len(q) + 1
         /\ Len(q \o <<e>>) = Len(q) + 1
         /\ \A i \in 1 .. Len(q) : (q \o <<e>>)[i] = q[i]
         /\ (q \o <<e>>)[Len(q) + 1] = e
<1>1. <<e>> \in Seq(S) /\ Len(<<e>>) = 1 /\ <<e>>[1] = e
  OBVIOUS
<1>2. /\ q \o <<e>> \in Seq(S) /\ Len(q \o <<e>>) = Len(q) + 1
      /\ \A i \in 1 .. Len(q) + 1 :
           (q \o <<e>>)[i] = IF i <= Len(q) THEN q[i] ELSE <<e>>[i - Len(q)]
  BY <1>1, ConcatProperties
<1>3. Len(q) \in Nat /\ DOMAIN q = 1 .. Len(q)
  OBVIOUS
<1>4. (q \o <<e>>)[Len(q) + 1] = e
  BY <1>1, <1>2, <1>3
<1>5. DOMAIN (q \o <<e>>) = 1 .. Len(q) + 1
  BY <1>2
<1> QED
  BY <1>2, <1>3, <1>4, <1>5

(* The first one is taken.                                                 *)
LEMMA Shrunk ==
  ASSUME NEW S, NEW q \in Seq(S), q # <<>>
  PROVE  /\ Tail(q) \in Seq(S) /\ Len(q) \in Nat \ {0} /\ Head(q) = q[1] /\ q[1] \in S
         /\ DOMAIN q = 1 .. Len(q) /\ DOMAIN Tail(q) = 1 .. Len(q) - 1
         /\ Len(Tail(q)) = Len(q) - 1
         /\ \A i \in 1 .. Len(q) - 1 : Tail(q)[i] = q[i + 1]
<1>1. Len(q) \in Nat \ {0} /\ DOMAIN q = 1 .. Len(q)
  BY EmptySeq
<1>2. /\ Tail(q) \in Seq(S) /\ Len(Tail(q)) = Len(q) - 1
      /\ \A i \in 1 .. Len(q) - 1 : Tail(q)[i] = q[i + 1]
      /\ Head(q) = q[1] /\ q[1] \in S
  BY <1>1, HeadTailProperties
<1> QED
  BY <1>1, <1>2

LEMMA EventsGrow ==
  ASSUME NEW q \in Seq(Events), NEW e \in Events, NEW r, r = q \o <<e>>
  PROVE  /\ \A i, g : Adds(r, i, g) <=> Adds(q, i, g) \/ (i = Len(q) + 1 /\ e.kind = "global" /\ e.id = g)
         /\ \A i, g : Removes(r, i, g) <=> Removes(q, i, g) \/ (i = Len(q) + 1 /\ e.kind = "remove" /\ e.id = g)
         /\ \A i : Sets(r, i) <=> Sets(q, i) \/ (i = Len(q) + 1 /\ e.kind = "property")
         /\ \A i, n : Dones(r, i, n) <=> Dones(q, i, n) \/ (i = Len(q) + 1 /\ e.kind = "done" /\ e.seq = n)
<1>1. /\ Len(q) \in Nat /\ DOMAIN q = 1 .. Len(q) /\ DOMAIN r = 1 .. Len(q) + 1
      /\ \A i \in 1 .. Len(q) : r[i] = q[i]
      /\ r[Len(q) + 1] = e
  BY Grown
<1>2. \A i : i \in DOMAIN r <=> i \in DOMAIN q \/ i = Len(q) + 1
  BY <1>1
<1>3. Len(q) + 1 \notin DOMAIN q /\ \A i \in DOMAIN q : r[i] = q[i]
  BY <1>1
<1> QED
  BY <1>1, <1>2, <1>3 DEF Adds, Removes, Sets, Dones

LEMMA EventsShrink ==
  ASSUME NEW q \in Seq(Events), q # <<>>, NEW r, r = Tail(q)
  PROVE  /\ \A i, g : Adds(r, i, g) => i \in Nat \ {0} /\ Adds(q, i + 1, g)
         /\ \A i, g : Removes(r, i, g) => i \in Nat \ {0} /\ Removes(q, i + 1, g)
         /\ \A i : Sets(r, i) => i \in Nat \ {0} /\ Sets(q, i + 1)
         /\ \A i, n : Dones(r, i, n) => i \in Nat \ {0} /\ Dones(q, i + 1, n)
         /\ \A i, g : Adds(q, i, g) => i \in Nat \ {0} /\ (i # 1 => Adds(r, i - 1, g))
         /\ \A i, g : Removes(q, i, g) => i \in Nat \ {0} /\ (i # 1 => Removes(r, i - 1, g))
         /\ \A i : Sets(q, i) => i \in Nat \ {0} /\ (i # 1 => Sets(r, i - 1))
         /\ \A i, n : Dones(q, i, n) => i \in Nat \ {0} /\ (i # 1 => Dones(r, i - 1, n))
<1>1. /\ Len(q) \in Nat \ {0} /\ DOMAIN q = 1 .. Len(q) /\ DOMAIN r = 1 .. Len(q) - 1
      /\ \A i \in 1 .. Len(q) - 1 : r[i] = q[i + 1]
  BY Shrunk
<1>2. \A i \in DOMAIN r : i \in Nat \ {0} /\ i + 1 \in DOMAIN q /\ r[i] = q[i + 1]
  BY <1>1
<1>3. \A i \in DOMAIN q : i \in Nat \ {0} /\ (i # 1 => i - 1 \in DOMAIN r /\ r[i - 1] = q[i])
  BY <1>1
<1> QED
  BY <1>2, <1>3 DEF Adds, Removes, Sets, Dones

-----------------------------------------------------------------------------
(* Types.                                                                  *)
Points == {"sync1", "pump1", "bind", "sync2", "pump2", "answer", "live", "over"}

Typed ==
  /\ used \in 0 .. MaxGlobal /\ Known \subseteq 1 .. used
  /\ \A g \in Known : live[g] \in Objects
  /\ default \in Names \union {None} /\ defaultName \in Names \union {None}
  /\ metaId \in 0 .. MaxGlobal /\ bound \in 0 .. MaxGlobal
  /\ awaited \in Nat /\ events \in Seq(Events) /\ requests \in Seq(Requests)
  /\ task \in Tasks /\ pc \in Points /\ gaveUp \subseteq {"pump1", "pump2"}

(* Each step, with its effect on the events and the requests spelled out.  *)
Emits(e) == events' = events \o <<e>>
Asks(r) == requests' = requests \o <<r>>

ServesSync ==
  /\ requests # <<>> /\ requests[1].kind = "sync" /\ requests' = Tail(requests)
  /\ Emits([kind |-> "done", seq |-> requests[1].seq])
  /\ window' = [window EXCEPT !.always = Known, !.ever = Known, !.names = {default}]
  /\ UNCHANGED <<live, default, used, hears, heir, pc, mirrorVars, awaited, done, queryVars, gaveUp>>

ServesBind ==
  /\ requests # <<>> /\ requests[1].kind = "bind" /\ requests' = Tail(requests)
  /\ hears' = IF requests[1].id \in Known THEN requests[1].id ELSE NoId
  /\ \/ requests[1].id \in Known /\ default # None /\ Emits(Property(default))
     \/ ~ (requests[1].id \in Known /\ default # None) /\ UNCHANGED events
  /\ UNCHANGED <<live, default, used, window, heir, pc, mirrorVars, awaited, done, queryVars, gaveUp>>

LEMMA ServeCases ==
  ASSUME Typed, Serve
  PROVE  ServesSync \/ ServesBind
<1>1. events \o <<>> = events /\ Head(requests) = requests[1]
  BY ConcatEmptySeq, Shrunk DEF Typed, Serve
<1>2. CASE Head(requests).kind = "sync"
  BY <1>1, <1>2 DEF Serve, ServesSync, Emit, Emits
<1>3. CASE Head(requests).kind = "bind"
  <2>1. CASE requests[1].id \in Known /\ default # None
    BY <1>1, <1>3, <2>1 DEF Serve, ServesBind, Emit, Emits
  <2>2. CASE ~ (requests[1].id \in Known /\ default # None)
    BY <1>1, <1>3, <2>2 DEF Serve, ServesBind, Emit, Emits
  <2> QED
    BY <2>1, <2>2
<1> QED
  BY <1>2, <1>3 DEF Serve

DeliversAdd ==
  /\ events # <<>> /\ events[1].kind = "global" /\ Global(events[1]) /\ UNCHANGED done
DeliversRemove ==
  /\ events # <<>> /\ events[1].kind = "remove" /\ GlobalRemove(events[1]) /\ UNCHANGED done
DeliversProperty ==
  /\ events # <<>> /\ events[1].kind = "property" /\ PropertyChanged(events[1]) /\ UNCHANGED done
DeliversDone == events # <<>> /\ events[1].kind = "done" /\ SyncDone(events[1])
Delivers == DeliversAdd \/ DeliversRemove \/ DeliversProperty \/ DeliversDone

LEMMA DeliverCases ==
  ASSUME Typed, Deliver
  PROVE  /\ Pumping /\ events # <<>> /\ events' = Tail(events) /\ Delivers
         /\ UNCHANGED <<daemonVars, requests, pc, awaited, queryVars, gaveUp>>
<1>1. Head(events) = events[1]
  BY Shrunk DEF Typed, Deliver
<1> QED
  BY <1>1 DEF Deliver, Delivers, DeliversAdd, DeliversRemove, DeliversProperty, DeliversDone

SetsDefault(n) ==
  /\ InClass(live, "meta") # {} /\ default # n /\ default' = n
  /\ window' = [window EXCEPT !.names = @ \union {n}]
  /\ heir' = DevicesNamed(n)
  /\ \/ hears # NoId /\ Emits(Property(n))
     \/ hears = NoId /\ UNCHANGED events
  /\ UNCHANGED <<live, used, hears, clientSide>>

LEMMA SetDefaultCases ==
  ASSUME Typed, NEW n, SetDefault(n)
  PROVE  SetsDefault(n)
<1>1. events \o <<>> = events
  BY ConcatEmptySeq DEF Typed
<1> QED
  BY <1>1 DEF SetDefault, SetsDefault, Emit, Emits

(* The steps by which a query goes on.                                     *)
Syncs == Sync("sync1", "pump1") \/ Sync("sync2", "pump2")
Returns ==
  \/ Pumped("pump1", "bind") \/ GiveUp("pump1", "bind")
  \/ Pumped("pump2", "answer") \/ GiveUp("pump2", "answer")
Leaves == PickDefault \/ AnswerQuery \/ WatchLive \/ WatchDropped \/ UNCHANGED registryVars

LEMMA StepCases ==
  ASSUME [RegistryNext]_registryVars, Typed
  PROVE  \/ \E g \in 1 .. MaxGlobal, o \in Objects : Announce(g, o)
         \/ \E g \in Known : Withdraw(g)
         \/ \E n \in Names : SetsDefault(n)
         \/ ServesSync \/ ServesBind \/ Deliver
         \/ Syncs \/ Returns \/ Bind \/ Leaves
BY ServeCases, SetDefaultCases
   DEF RegistryNext, Daemon, Thread, Ended, Syncs, Returns, Leaves

LEMMA AnnounceTyped ==
  ASSUME Typed, NEW g \in 1 .. MaxGlobal, NEW o \in Objects, Announce(g, o)
  PROVE  /\ Typed' /\ g = used + 1 /\ used' = g
         /\ Known' = Known \union {g} /\ g \notin Known /\ live'[g] = o
         /\ \A h \in Known : live'[h] = live[h]
<1> USE RegistryAssumption
<1>1. /\ g = used + 1 /\ used' = g /\ live' = With(live, g, o)
      /\ events' = events \o <<[kind |-> "global", id |-> g, object |-> o]>>
      /\ UNCHANGED <<default, hears, heir, clientSide>>
  BY DEF Announce, Emit
<1>2. used \in Nat /\ MaxGlobal \in Nat /\ g \notin Known
  BY <1>1 DEF Typed
<1>3. Known' = Known \union {g} /\ live'[g] = o /\ \A h \in Known : live'[h] = live[h]
  BY <1>1, <1>2 DEF With, Known
<1>4. events' \in Seq(Events)
  <2>1. [kind |-> "global", id |-> g, object |-> o] \in Events
    BY EventsMade DEF Ids
  <2> QED
    BY <1>1, <2>1, Grown DEF Typed
<1>5. used' \in 0 .. MaxGlobal /\ Known' \subseteq 1 .. used'
  BY <1>1, <1>2, <1>3 DEF Typed
<1>6. \A h \in Known' : live'[h] \in Objects
  BY <1>3 DEF Typed
<1> QED
  BY <1>1, <1>2, <1>3, <1>4, <1>5, <1>6 DEF Typed, clientSide, mirrorVars, queryVars

LEMMA WithdrawTyped ==
  ASSUME Typed, NEW g \in Known, Withdraw(g)
  PROVE  /\ Typed' /\ used' = used /\ Known' = Known \ {g}
         /\ \A h \in Known' : live'[h] = live[h]
<1>1. /\ live' = [h \in Known \ {g} |-> live[h]]
      /\ events' = events \o <<[kind |-> "remove", id |-> g]>>
      /\ UNCHANGED <<default, used, clientSide>>
  BY DEF Withdraw, Emit
<1>2. Known' = Known \ {g} /\ \A h \in Known' : live'[h] = live[h]
  BY <1>1 DEF Known
<1>3. events' \in Seq(Events)
  <2>1. g \in Ids
    BY RegistryAssumption DEF Typed, Ids
  <2>2. [kind |-> "remove", id |-> g] \in Events
    BY <2>1, EventsMade
  <2> QED
    BY <1>1, <2>2, Grown DEF Typed
<1> QED
  BY <1>1, <1>2, <1>3 DEF Typed, clientSide, mirrorVars, queryVars

LEMMA AskedFor ==
  ASSUME Typed
  PROVE  /\ \A from, to : Sync(from, to) => Asks([kind |-> "sync", seq |-> awaited + 1])
         /\ Bind /\ bound = NoId /\ metaId # NoId =>
              bound' = metaId /\ Asks([kind |-> "bind", id |-> metaId])
<1> USE RegistryAssumption
<1>1. requests \in Seq(Requests)
  BY DEF Typed
<1>2. ASSUME NEW r \in Requests PROVE Append(requests, r) = requests \o <<r>>
  BY <1>1, AppendIsConcat
<1>3. [kind |-> "sync", seq |-> awaited + 1] \in Requests
  BY EventsMade DEF Typed
<1>4. metaId # NoId => [kind |-> "bind", id |-> metaId] \in Requests
  BY EventsMade DEF Typed, NoId, Ids
<1> QED
  BY <1>2, <1>3, <1>4 DEF Sync, Bind, BindTo, Asks

LEMMA AskTyped ==
  ASSUME Typed, NEW r \in Requests, Asks(r)
  PROVE  requests' \in Seq(Requests)
BY Grown DEF Typed, Asks

LEMMA TypedStep == Typed /\ [RegistryNext]_registryVars => Typed'
<1> SUFFICES ASSUME Typed, [RegistryNext]_registryVars PROVE Typed'
  OBVIOUS
<1> USE RegistryAssumption
<1>1. ASSUME NEW g \in 1 .. MaxGlobal, NEW o \in Objects, Announce(g, o) PROVE Typed'
  BY <1>1, AnnounceTyped
<1>2. ASSUME NEW g \in Known, Withdraw(g) PROVE Typed'
  BY <1>2, WithdrawTyped
<1>3. ASSUME NEW n \in Names, SetsDefault(n) PROVE Typed'
  <2>1. events' \in Seq(Events)
    <3>1. CASE UNCHANGED events
      BY <3>1 DEF Typed
    <3>2. CASE Emits(Property(n))
      <4>1. Property(n) \in Events
        BY EventsMade
      <4> QED
        BY <3>2, <4>1, Grown DEF Emits, Typed
    <3> QED
      BY <1>3, <3>1, <3>2 DEF SetsDefault
  <2> QED
    BY <1>3, <2>1 DEF SetsDefault, Typed, clientSide, mirrorVars, queryVars, Known
<1>4. CASE ServesSync
  <2>1. requests' \in Seq(Requests) /\ requests[1] \in Requests
    BY <1>4, Shrunk DEF ServesSync, Typed
  <2>2. [kind |-> "done", seq |-> requests[1].seq] \in Events
    BY <1>4, <2>1, EventShapes, EventsMade DEF ServesSync
  <2>3. events' \in Seq(Events)
    BY <1>4, <2>2, Grown DEF ServesSync, Emits, Typed
  <2> QED
    BY <1>4, <2>1, <2>3 DEF ServesSync, Typed, mirrorVars, queryVars, Known
<1>5. CASE ServesBind
  <2>1. requests' \in Seq(Requests)
    BY <1>5, Shrunk DEF ServesBind, Typed
  <2>2. events' \in Seq(Events)
    <3>1. CASE UNCHANGED events
      BY <3>1 DEF Typed
    <3>2. CASE default # None /\ Emits(Property(default))
      <4>1. Property(default) \in Events
        BY <3>2, EventsMade DEF Typed
      <4> QED
        BY <3>2, <4>1, Grown DEF Emits, Typed
    <3> QED
      BY <1>5, <3>1, <3>2 DEF ServesBind
  <2> QED
    BY <1>5, <2>1, <2>2 DEF ServesBind, Typed, mirrorVars, queryVars, Known
<1>6. CASE Deliver
  <2>1. /\ events' = Tail(events) /\ Delivers
        /\ UNCHANGED <<daemonVars, requests, pc, awaited, queryVars, gaveUp>>
    BY <1>6, DeliverCases
  <2>2. events' \in Seq(Events) /\ events[1] \in Events
    BY <1>6, <2>1, Shrunk DEF Deliver, Typed
  <2>3. defaultName' \in Names \union {None} /\ metaId' \in 0 .. MaxGlobal /\ bound' = bound
    <3>1. CASE DeliversAdd
      BY <2>2, <3>1, EventShapes DEF DeliversAdd, Global, Typed, Ids
    <3>2. CASE DeliversRemove
      BY <3>2 DEF DeliversRemove, GlobalRemove, Typed
    <3>3. CASE DeliversProperty
      BY <2>2, <3>3, EventShapes DEF DeliversProperty, PropertyChanged, Typed
    <3>4. CASE DeliversDone
      BY <3>4 DEF DeliversDone, SyncDone, mirrorVars, Typed
    <3> QED
      BY <2>1, <3>1, <3>2, <3>3, <3>4 DEF Delivers
  <2> QED
    BY <2>1, <2>2, <2>3 DEF Typed, daemonVars, queryVars, Known
<1>7. CASE Syncs
  <2>1. awaited' \in Nat /\ [kind |-> "sync", seq |-> awaited + 1] \in Requests
    BY <1>7, EventsMade DEF Syncs, Sync, Typed
  <2>2. requests' \in Seq(Requests)
    <3>1. Asks([kind |-> "sync", seq |-> awaited + 1])
      BY <1>7, AskedFor DEF Syncs
    <3> QED
      BY <2>1, <3>1, AskTyped
  <2>3. pc' \in Points
    BY <1>7 DEF Syncs, Sync, Points
  <2> QED
    BY <1>7, <2>1, <2>2, <2>3 DEF Syncs, Sync, Typed, daemonVars, mirrorVars, queryVars, Known
<1>8. CASE Returns
  <2>1. pc' \in Points /\ gaveUp' \subseteq {"pump1", "pump2"}
    BY <1>8 DEF Returns, Pumped, GiveUp, Points, Typed
  <2> QED
    BY <1>8, <2>1 DEF Returns, Pumped, GiveUp, Typed, daemonVars, mirrorVars, queryVars, Known
<1>9. CASE Bind
  <2>1. bound' \in 0 .. MaxGlobal /\ requests' \in Seq(Requests)
    <3>1. CASE bound = NoId /\ metaId # NoId
      <4>1. [kind |-> "bind", id |-> metaId] \in Requests
        BY <3>1, EventsMade DEF Typed, NoId, Ids
      <4> QED
        BY <1>9, <3>1, <4>1, AskedFor, AskTyped DEF Bind, BindTo, Typed
    <3>2. CASE ~ (bound = NoId /\ metaId # NoId)
      BY <1>9, <3>2 DEF Bind, BindTo, Typed
    <3> QED
      BY <3>1, <3>2
  <2> QED
    BY <1>9, <2>1 DEF Bind, Typed, Points, daemonVars, queryVars, Known
<1>10. CASE Leaves
  <2>1. pc' \in Points
    BY <1>10 DEF Leaves, PickDefault, AnswerQuery, WatchLive, WatchDropped, Points, registryVars, Typed
  <2> QED
    BY <1>10, <2>1 DEF Leaves, PickDefault, AnswerQuery, WatchLive, WatchDropped, registryVars,
                       Typed, daemonVars, mirrorVars, queryVars, Known
<1> QED
  BY <1>1, <1>2, <1>3, <1>4, <1>5, <1>6, <1>7, <1>8, <1>9, <1>10, StepCases

LEMMA TypedInit == RegistryInit => Typed
<1> SUFFICES ASSUME RegistryInit PROVE Typed
  OBVIOUS
<1> USE RegistryAssumption
<1>1. used \in 0 .. MaxDump /\ live \in [1 .. used -> Objects] /\ events = Dump(live)
  BY DEF RegistryInit
<1>2. events = [i \in 1 .. used |-> [kind |-> "global", id |-> i, object |-> live[i]]]
  BY <1>1 DEF Dump
<1>3. \A i \in 1 .. used : [kind |-> "global", id |-> i, object |-> live[i]] \in Events
  BY <1>1, EventsMade DEF Ids
<1>4. events \in [1 .. used -> Events]
  BY <1>2, <1>3
<1>5. events \in Seq(Events)
  BY <1>1, <1>4, SeqDef
<1>6. requests \in Seq(Requests)
  BY EmptySeq DEF RegistryInit
<1>7. used \in 0 .. MaxGlobal /\ Known \subseteq 1 .. used /\ \A g \in Known : live[g] \in Objects
  BY <1>1 DEF Known
<1>8. 0 \in 0 .. MaxGlobal
  OBVIOUS
<1> QED
  BY <1>5, <1>6, <1>7, <1>8 DEF RegistryInit, Typed, NoId, Points

-----------------------------------------------------------------------------
(* The mirror and what is on its way to it.                                *)
IsDevice(g) == g \in Known /\ live[g].class = "device"
IsApp(g) == g \in Known /\ live[g].class = "app"
IsMeta(g) == g \in Known /\ live[g].class = "meta"

Unique == \A g, h \in Known : live[g] = live[h] /\ live[g].class # "app" => g = h

(* An id is announced once, before it is withdrawn, and its announcement   *)
(* is on its way or has been seen.                                         *)
AnnouncedOnce ==
  /\ \A g, i : Adds(events, i, g) \/ Removes(events, i, g) => g \in 1 .. used
  /\ \A g, i : Removes(events, i, g) => g \notin Known
  /\ \A g, i, j : Adds(events, i, g) /\ Adds(events, j, g) => i = j
  /\ \A g, i, j : Removes(events, i, g) /\ Adds(events, j, g) => j < i
  /\ \A g, i : Adds(events, i, g) =>
       \/ (g \in Known /\ live[g] = events[i].object)
       \/ \E j : Removes(events, j, g)
  /\ \A g, i : Adds(events, i, g) => g \notin DOMAIN devices \union DOMAIN apps \union told

Mirrored ==
  /\ DOMAIN devices \union DOMAIN apps \union told \subseteq 1 .. used
  /\ \A g : IsDevice(g) => \/ (g \in DOMAIN devices /\ devices[g] = live[g])
                           \/ \E i : Adds(events, i, g)
  /\ \A g : IsApp(g) => g \in DOMAIN apps \/ \E i : Adds(events, i, g)
  /\ \A g \in DOMAIN devices : devices[g] \in Objects /\ devices[g].class = "device"
  /\ \A g \in DOMAIN devices : (g \in Known /\ live[g] = devices[g]) \/ \E i : Removes(events, i, g)
  /\ \A g \in DOMAIN apps : g \in Known \/ \E i : Removes(events, i, g)

(* What the handler of a watcher was told.                                 *)
Reported ==
  task.by = "watch" =>
    /\ \A g : IsDevice(g) => g \in told \/ \E i : Adds(events, i, g)
    /\ \A g \in told : IsDevice(g) \/ \E i : Removes(events, i, g)

Mirroring == Unique /\ AnnouncedOnce /\ Mirrored /\ Reported

(* A step that neither changes the objects nor delivers.                   *)
LEMMA MirrorStands ==
  ASSUME Mirroring, UNCHANGED <<live, used, devices, apps, told, task>>,
         \A i, g : Adds(events', i, g) <=> Adds(events, i, g),
         \A i, g : Removes(events', i, g) <=> Removes(events, i, g),
         \A i, g : Adds(events, i, g) => events'[i] = events[i]
  PROVE  Mirroring'
<1>1. Unique'
  BY DEF Mirroring, Unique, Known
<1>2. AnnouncedOnce'
  BY DEF Mirroring, AnnouncedOnce, Known
<1>3. Mirrored'
  BY DEF Mirroring, Mirrored, IsDevice, IsApp, Known
<1>4. Reported'
  BY DEF Mirroring, Reported, IsDevice, Known
<1> QED
  BY <1>1, <1>2, <1>3, <1>4 DEF Mirroring

LEMMA EventsStand ==
  ASSUME Typed, NEW e \in Events, e.kind \notin {"global", "remove"},
         Emits(e) \/ UNCHANGED events
  PROVE  /\ \A i, g : Adds(events', i, g) <=> Adds(events, i, g)
         /\ \A i, g : Removes(events', i, g) <=> Removes(events, i, g)
         /\ \A i, g : Adds(events, i, g) => events'[i] = events[i]
<1>1. CASE UNCHANGED events
  BY <1>1
<1>2. CASE Emits(e)
  <2>1. events' = events \o <<e>> /\ events \in Seq(Events)
    BY <1>2 DEF Emits, Typed
  <2>2. \A i \in DOMAIN events : events'[i] = events[i]
    BY <2>1, Grown
  <2>3. /\ \A i, g : Adds(events', i, g) <=> Adds(events, i, g)
        /\ \A i, g : Removes(events', i, g) <=> Removes(events, i, g)
    BY <2>1, EventsGrow
  <2>4. \A i, g : Adds(events, i, g) => events'[i] = events[i]
    BY <2>2 DEF Adds
  <2> QED
    BY <2>3, <2>4
<1> QED
  BY <1>1, <1>2

LEMMA AnnounceMirrors ==
  ASSUME Typed, Mirroring, NEW g \in 1 .. MaxGlobal, NEW o \in Objects, Announce(g, o)
  PROVE  Mirroring'
<1> DEFINE e == [kind |-> "global", id |-> g, object |-> o]
<1> USE RegistryAssumption
<1>1. /\ g = used + 1 /\ used' = g /\ Known' = Known \union {g} /\ g \notin Known
      /\ live'[g] = o /\ \A h \in Known : live'[h] = live[h]
  BY AnnounceTyped
<1>2. /\ events' = events \o <<e>> /\ used \in Nat /\ e \in Events /\ events \in Seq(Events)
      /\ UNCHANGED <<devices, apps, told, task>>
      /\ o = Metadata => InClass(live, "meta") = {}
      /\ \A h \in Known : o.class = "device" => live[h] # o
  BY EventsMade DEF Announce, Emit, Typed, clientSide, mirrorVars, queryVars, Ids
<1>11. e.kind = "global" /\ e.id = g
  OBVIOUS
<1> HIDE DEF e
<1>3. /\ \A i, h : Adds(events', i, h) <=> Adds(events, i, h) \/ (i = Len(events) + 1 /\ h = g)
      /\ \A i, h : Removes(events', i, h) <=> Removes(events, i, h)
      /\ \A i, h : Adds(events, i, h) => events'[i] = events[i] /\ i \in Nat /\ i < Len(events) + 1
      /\ \A i, h : Removes(events, i, h) => i \in Nat /\ i < Len(events) + 1
      /\ events'[Len(events) + 1] = e
  <2>1. /\ Len(events) \in Nat /\ DOMAIN events = 1 .. Len(events)
        /\ \A i \in 1 .. Len(events) : events'[i] = events[i]
        /\ events'[Len(events) + 1] = e
    BY <1>2, Grown
  <2>2. /\ \A i, h : Adds(events', i, h) <=> Adds(events, i, h) \/ (i = Len(events) + 1 /\ e.kind = "global" /\ e.id = h)
        /\ \A i, h : Removes(events', i, h) <=> Removes(events, i, h) \/ (i = Len(events) + 1 /\ e.kind = "remove" /\ e.id = h)
    BY <1>2, EventsGrow
  <2>3. /\ \A i, h : Adds(events, i, h) => i \in DOMAIN events
        /\ \A i, h : Removes(events, i, h) => i \in DOMAIN events
    BY DEF Adds, Removes
  <2> QED
    BY <1>11, <2>1, <2>2, <2>3
<1>4. \A i : ~ Adds(events, i, g) /\ ~ Removes(events, i, g)
  BY <1>1, <1>2 DEF Mirroring, AnnouncedOnce
<1>5. g \notin DOMAIN devices \union DOMAIN apps \union told /\ 1 .. used \subseteq 1 .. used' /\ g \in 1 .. used'
  BY <1>1, <1>2 DEF Mirroring, Mirrored
<1>6. Unique'
  <2> SUFFICES ASSUME NEW h \in Known', NEW k \in Known',
                      live'[h] = live'[k], live'[h].class # "app"
               PROVE  h = k
    BY DEF Unique
  <2>1. CASE h \in Known /\ k \in Known
    BY <1>1, <2>1 DEF Mirroring, Unique
  <2>2. ASSUME NEW m \in Known, live[m] = o, o.class # "app" PROVE FALSE
    <3>1. CASE o.class = "device"
      BY <1>2, <2>2, <3>1
    <3>2. CASE o.class = "meta"
      BY <1>2, <2>2, <3>2, ObjectShapes DEF InClass, Known
    <3> QED
      BY <2>2, <3>1, <3>2, ObjectShapes
  <2> QED
    BY <1>1, <2>1, <2>2
<1>7. AnnouncedOnce'
  <2>1. \A h, i : Adds(events', i, h) \/ Removes(events', i, h) => h \in 1 .. used'
    BY <1>3, <1>5 DEF Mirroring, AnnouncedOnce
  <2>2. \A h, i : Removes(events', i, h) => h \notin Known'
    BY <1>1, <1>3, <1>4 DEF Mirroring, AnnouncedOnce
  <2>3. \A h, i, j : Adds(events', i, h) /\ Adds(events', j, h) => i = j
    BY <1>3, <1>4 DEF Mirroring, AnnouncedOnce
  <2>4. \A h, i, j : Removes(events', i, h) /\ Adds(events', j, h) => j < i
    BY <1>3, <1>4 DEF Mirroring, AnnouncedOnce
  <2>5. \A h, i : Adds(events', i, h) =>
          \/ (h \in Known' /\ live'[h] = events'[i].object)
          \/ \E j : Removes(events', j, h)
    <3> SUFFICES ASSUME NEW h, NEW i, Adds(events', i, h)
                 PROVE  \/ (h \in Known' /\ live'[h] = events'[i].object)
                        \/ \E j : Removes(events', j, h)
      OBVIOUS
    <3>1. CASE i = Len(events) + 1 /\ h = g
      BY <1>1, <1>3, <3>1 DEF e
    <3>2. CASE Adds(events, i, h)
      BY <1>1, <1>3, <3>2 DEF Mirroring, AnnouncedOnce
    <3> QED
      BY <1>3, <3>1, <3>2
  <2>6. \A h, i : Adds(events', i, h) => h \notin DOMAIN devices' \union DOMAIN apps' \union told'
    BY <1>2, <1>3, <1>5 DEF Mirroring, AnnouncedOnce
  <2> QED
    BY <2>1, <2>2, <2>3, <2>4, <2>5, <2>6 DEF AnnouncedOnce
<1>8. Adds(events', Len(events) + 1, g)
  BY <1>3
<1>9. Mirrored'
  <2>1. DOMAIN devices' \union DOMAIN apps' \union told' \subseteq 1 .. used'
    BY <1>2, <1>5 DEF Mirroring, Mirrored
  <2>2. ASSUME NEW h, IsDevice(h)'
        PROVE  (h \in DOMAIN devices /\ devices[h] = live'[h]) \/ \E i : Adds(events', i, h)
    BY <1>1, <1>3, <1>8, <2>2 DEF Mirroring, Mirrored, IsDevice
  <2>3. ASSUME NEW h, IsApp(h)'
        PROVE  h \in DOMAIN apps \/ \E i : Adds(events', i, h)
    BY <1>1, <1>3, <1>8, <2>3 DEF Mirroring, Mirrored, IsApp
  <2>4. \A h \in DOMAIN devices : (h \in Known' /\ live'[h] = devices[h]) \/ \E i : Removes(events', i, h)
    BY <1>1, <1>3 DEF Mirroring, Mirrored
  <2>5. \A h \in DOMAIN apps : h \in Known' \/ \E i : Removes(events', i, h)
    BY <1>1, <1>3 DEF Mirroring, Mirrored
  <2> QED
    BY <1>2, <2>1, <2>2, <2>3, <2>4, <2>5 DEF Mirroring, Mirrored
<1>10. Reported'
  <2>1. ASSUME task.by = "watch", NEW h, IsDevice(h)'
        PROVE  h \in told \/ \E i : Adds(events', i, h)
    BY <1>1, <1>3, <1>8, <2>1 DEF Mirroring, Reported, IsDevice
  <2>2. ASSUME task.by = "watch", NEW h \in told
        PROVE  IsDevice(h)' \/ \E i : Removes(events', i, h)
    BY <1>1, <1>3, <2>2 DEF Mirroring, Reported, IsDevice
  <2> QED
    BY <1>2, <2>1, <2>2 DEF Reported
<1> QED
  BY <1>6, <1>7, <1>9, <1>10 DEF Mirroring

LEMMA WithdrawMirrors ==
  ASSUME Typed, Mirroring, NEW g \in Known, Withdraw(g)
  PROVE  Mirroring'
<1> DEFINE e == [kind |-> "remove", id |-> g]
<1> USE RegistryAssumption
<1>1. used' = used /\ Known' = Known \ {g} /\ \A h \in Known' : live'[h] = live[h]
  BY WithdrawTyped
<1>2. /\ events' = events \o <<e>> /\ g \in 1 .. used /\ used \in Nat /\ e \in Events
      /\ events \in Seq(Events) /\ UNCHANGED <<devices, apps, told, task>>
  BY EventsMade DEF Withdraw, Emit, Typed, clientSide, mirrorVars, queryVars, Ids
<1>11. e.kind = "remove" /\ e.id = g
  OBVIOUS
<1> HIDE DEF e
<1>3. /\ \A i, h : Removes(events', i, h) <=> Removes(events, i, h) \/ (i = Len(events) + 1 /\ h = g)
      /\ \A i, h : Adds(events', i, h) <=> Adds(events, i, h)
      /\ \A i, h : Adds(events, i, h) => events'[i] = events[i] /\ i \in Nat /\ i < Len(events) + 1
  <2>1. /\ Len(events) \in Nat /\ DOMAIN events = 1 .. Len(events)
        /\ \A i \in 1 .. Len(events) : events'[i] = events[i]
    BY <1>2, Grown
  <2>2. /\ \A i, h : Adds(events', i, h) <=> Adds(events, i, h) \/ (i = Len(events) + 1 /\ e.kind = "global" /\ e.id = h)
        /\ \A i, h : Removes(events', i, h) <=> Removes(events, i, h) \/ (i = Len(events) + 1 /\ e.kind = "remove" /\ e.id = h)
    BY <1>2, EventsGrow
  <2>3. \A i, h : Adds(events, i, h) => i \in DOMAIN events
    BY DEF Adds
  <2> QED
    BY <1>11, <2>1, <2>2, <2>3
<1>4. \A h : (\E i : Removes(events, i, h)) => \E i : Removes(events', i, h)
  BY <1>3
<1>5. \E i : Removes(events', i, g)
  BY <1>3
<1>6. Unique'
  BY <1>1 DEF Mirroring, Unique
<1>7. AnnouncedOnce'
  <2>1. \A h, i : Adds(events', i, h) \/ Removes(events', i, h) => h \in 1 .. used'
    BY <1>1, <1>2, <1>3 DEF Mirroring, AnnouncedOnce
  <2>2. \A h, i : Removes(events', i, h) => h \notin Known'
    BY <1>1, <1>3 DEF Mirroring, AnnouncedOnce
  <2>3. \A h, i, j : Adds(events', i, h) /\ Adds(events', j, h) => i = j
    BY <1>3 DEF Mirroring, AnnouncedOnce
  <2>4. \A h, i, j : Removes(events', i, h) /\ Adds(events', j, h) => j < i
    BY <1>3 DEF Mirroring, AnnouncedOnce
  <2>5. \A h, i : Adds(events', i, h) =>
          \/ (h \in Known' /\ live'[h] = events'[i].object)
          \/ \E j : Removes(events', j, h)
    BY <1>1, <1>3, <1>4, <1>5 DEF Mirroring, AnnouncedOnce
  <2>6. \A h, i : Adds(events', i, h) => h \notin DOMAIN devices' \union DOMAIN apps' \union told'
    BY <1>2, <1>3 DEF Mirroring, AnnouncedOnce
  <2> QED
    BY <2>1, <2>2, <2>3, <2>4, <2>5, <2>6 DEF AnnouncedOnce
<1>8. Mirrored'
  <2>1. ASSUME NEW h, IsDevice(h)'
        PROVE  (h \in DOMAIN devices /\ devices[h] = live'[h]) \/ \E i : Adds(events', i, h)
    BY <1>1, <1>3, <2>1 DEF Mirroring, Mirrored, IsDevice
  <2>2. ASSUME NEW h, IsApp(h)'
        PROVE  h \in DOMAIN apps \/ \E i : Adds(events', i, h)
    BY <1>1, <1>3, <2>2 DEF Mirroring, Mirrored, IsApp
  <2>3. \A h \in DOMAIN devices : (h \in Known' /\ live'[h] = devices[h]) \/ \E i : Removes(events', i, h)
    BY <1>1, <1>4, <1>5 DEF Mirroring, Mirrored
  <2>4. \A h \in DOMAIN apps : h \in Known' \/ \E i : Removes(events', i, h)
    BY <1>1, <1>4, <1>5 DEF Mirroring, Mirrored
  <2> QED
    BY <1>1, <1>2, <2>1, <2>2, <2>3, <2>4 DEF Mirroring, Mirrored
<1>9. Reported'
  <2>1. ASSUME task.by = "watch", NEW h, IsDevice(h)'
        PROVE  h \in told \/ \E i : Adds(events', i, h)
    BY <1>1, <1>3, <2>1 DEF Mirroring, Reported, IsDevice
  <2>2. ASSUME task.by = "watch", NEW h \in told
        PROVE  IsDevice(h)' \/ \E i : Removes(events', i, h)
    BY <1>1, <1>4, <1>5, <2>2 DEF Mirroring, Reported, IsDevice
  <2> QED
    BY <1>2, <2>1, <2>2 DEF Reported
<1> QED
  BY <1>6, <1>7, <1>8, <1>9 DEF Mirroring

(* The places of the events when the first one was delivered.              *)
Advanced ==
  /\ \A i, g : Adds(events', i, g) => i \in Nat \ {0} /\ Adds(events, i + 1, g) /\ events'[i] = events[i + 1]
  /\ \A i, g : Removes(events', i, g) => i \in Nat \ {0} /\ Removes(events, i + 1, g)
  /\ \A i, g : Adds(events, i, g) => i \in Nat \ {0} /\ (i # 1 => Adds(events', i - 1, g))
  /\ \A i, g : Removes(events, i, g) => i \in Nat \ {0} /\ (i # 1 => Removes(events', i - 1, g))
  /\ \A g : Adds(events, 1, g) <=> events[1].kind = "global" /\ events[1].id = g
  /\ \A g : Removes(events, 1, g) <=> events[1].kind = "remove" /\ events[1].id = g

LEMMA DeliverAdvances ==
  ASSUME Typed, Deliver
  PROVE  /\ Advanced /\ Delivers /\ events[1] \in Events /\ Pumping
         /\ UNCHANGED <<daemonVars, requests, pc, awaited, queryVars, gaveUp>>
<1>1. /\ Pumping /\ events # <<>> /\ events' = Tail(events) /\ Delivers
      /\ UNCHANGED <<daemonVars, requests, pc, awaited, queryVars, gaveUp>>
  BY DeliverCases
<1>2. /\ Len(events) \in Nat \ {0} /\ DOMAIN events = 1 .. Len(events)
      /\ DOMAIN events' = 1 .. Len(events) - 1 /\ events[1] \in Events
      /\ \A i \in 1 .. Len(events) - 1 : events'[i] = events[i + 1]
  BY <1>1, Shrunk DEF Typed
<1>3. /\ \A i, g : Adds(events', i, g) => i \in Nat \ {0} /\ Adds(events, i + 1, g)
      /\ \A i, g : Removes(events', i, g) => i \in Nat \ {0} /\ Removes(events, i + 1, g)
      /\ \A i, g : Adds(events, i, g) => i \in Nat \ {0} /\ (i # 1 => Adds(events', i - 1, g))
      /\ \A i, g : Removes(events, i, g) => i \in Nat \ {0} /\ (i # 1 => Removes(events', i - 1, g))
  BY <1>1, EventsShrink DEF Typed
<1>4. \A i, g : Adds(events', i, g) => events'[i] = events[i + 1]
  BY <1>2 DEF Adds
<1>5. 1 \in DOMAIN events
  BY <1>2
<1>6. /\ \A g : Adds(events, 1, g) <=> events[1].kind = "global" /\ events[1].id = g
      /\ \A g : Removes(events, 1, g) <=> events[1].kind = "remove" /\ events[1].id = g
  BY <1>5 DEF Adds, Removes
<1> QED
  BY <1>1, <1>2, <1>3, <1>4, <1>6 DEF Advanced

LEMMA OthersMirror ==
  ASSUME Typed, Mirroring, Advanced, events[1].kind \in {"property", "done"},
         UNCHANGED <<live, used, devices, apps, told, task>>
  PROVE  Mirroring'
<1>1. Unique'
  BY DEF Mirroring, Unique, Known
<1>2. \A h : (\E i : Adds(events, i, h)) => \E i : Adds(events', i, h)
  BY DEF Advanced
<1>3. \A h : (\E i : Removes(events, i, h)) => \E i : Removes(events', i, h)
  BY DEF Advanced
<1>4. AnnouncedOnce'
  <2>1. \A h, i : Adds(events', i, h) \/ Removes(events', i, h) => h \in 1 .. used'
    BY DEF Mirroring, AnnouncedOnce, Advanced
  <2>2. \A h, i : Removes(events', i, h) => h \notin Known'
    BY DEF Mirroring, AnnouncedOnce, Advanced, Known
  <2>3. \A h, i, j : Adds(events', i, h) /\ Adds(events', j, h) => i = j
    <3> SUFFICES ASSUME NEW h, NEW i, NEW j, Adds(events', i, h), Adds(events', j, h) PROVE i = j
      OBVIOUS
    <3>1. i \in Nat /\ j \in Nat /\ i + 1 = j + 1
      BY DEF Mirroring, AnnouncedOnce, Advanced
    <3> QED
      BY <3>1
  <2>4. \A h, i, j : Removes(events', i, h) /\ Adds(events', j, h) => j < i
    <3> SUFFICES ASSUME NEW h, NEW i, NEW j, Removes(events', i, h), Adds(events', j, h) PROVE j < i
      OBVIOUS
    <3>1. i \in Nat /\ j \in Nat /\ j + 1 < i + 1
      BY DEF Mirroring, AnnouncedOnce, Advanced
    <3> QED
      BY <3>1
  <2>5. \A h, i : Adds(events', i, h) =>
          \/ (h \in Known' /\ live'[h] = events'[i].object)
          \/ \E j : Removes(events', j, h)
    BY <1>3 DEF Mirroring, AnnouncedOnce, Advanced, Known
  <2>6. \A h, i : Adds(events', i, h) => h \notin DOMAIN devices' \union DOMAIN apps' \union told'
    BY DEF Mirroring, AnnouncedOnce, Advanced
  <2> QED
    BY <2>1, <2>2, <2>3, <2>4, <2>5, <2>6 DEF AnnouncedOnce
<1>5. Mirrored'
  BY <1>2, <1>3 DEF Mirroring, Mirrored, IsDevice, IsApp, Known
<1>6. Reported'
  BY <1>2, <1>3 DEF Mirroring, Reported, IsDevice, Known
<1> QED
  BY <1>1, <1>4, <1>5, <1>6 DEF Mirroring

LEMMA AddMirrors ==
  ASSUME Typed, Mirroring, Advanced, DeliversAdd, events[1] \in Events,
         UNCHANGED <<live, used, task>>
  PROVE  Mirroring'
<1> DEFINE g == events[1].id
           o == events[1].object
<1>1. /\ devices' = IF o.class = "device" THEN With(devices, g, o) ELSE devices
      /\ apps' = IF o.class = "app" THEN With(apps, g, o) ELSE apps
      /\ told' = IF task.by = "watch" /\ o.class = "device" THEN told \union {g} ELSE told
      /\ events[1].kind = "global" /\ o \in Objects
  BY EventShapes DEF DeliversAdd, Global
<1>2. Adds(events, 1, g)
  BY <1>1 DEF Advanced
<1>3. Known' = Known /\ live' = live /\ used' = used /\ task' = task
  BY DEF Known
<1> HIDE DEF g
<1>4. /\ g \in 1 .. used /\ g \notin DOMAIN devices \union DOMAIN apps \union told
      /\ \A i : ~ Adds(events', i, g)
      /\ (g \in Known /\ live[g] = o) \/ \E j : Removes(events, j, g)
  <2>1. g \in 1 .. used /\ g \notin DOMAIN devices \union DOMAIN apps \union told
    BY <1>2 DEF Mirroring, AnnouncedOnce
  <2>2. ASSUME NEW i, Adds(events', i, g) PROVE FALSE
    <3>1. i \in Nat \ {0} /\ i + 1 = 1
      BY <1>2, <2>2 DEF Mirroring, AnnouncedOnce, Advanced
    <3> QED
      BY <3>1
  <2>3. (g \in Known /\ live[g] = o) \/ \E j : Removes(events, j, g)
    BY <1>2 DEF Mirroring, AnnouncedOnce
  <2> QED
    BY <2>1, <2>2, <2>3
<1>5. \A h : h # g /\ (\E i : Adds(events, i, h)) => \E i : Adds(events', i, h)
  BY DEF Advanced, g
<1>6. \A h : (\E i : Removes(events, i, h)) => \E i : Removes(events', i, h)
  BY <1>1 DEF Advanced
<1>7. /\ DOMAIN devices' = IF o.class = "device" THEN DOMAIN devices \union {g} ELSE DOMAIN devices
      /\ \A h \in DOMAIN devices : devices'[h] = devices[h]
      /\ o.class = "device" => devices'[g] = o
      /\ DOMAIN apps' = IF o.class = "app" THEN DOMAIN apps \union {g} ELSE DOMAIN apps
  BY <1>1, <1>4 DEF With
<1>8. g \in Known => live[g] = o
  BY <1>4 DEF Mirroring, AnnouncedOnce
<1> HIDE DEF o
<1>9. AnnouncedOnce'
  <2>1. \A h, i : Adds(events', i, h) \/ Removes(events', i, h) => h \in 1 .. used'
    BY <1>3 DEF Mirroring, AnnouncedOnce, Advanced
  <2>2. \A h, i : Removes(events', i, h) => h \notin Known'
    BY <1>3 DEF Mirroring, AnnouncedOnce, Advanced
  <2>3. \A h, i, j : Adds(events', i, h) /\ Adds(events', j, h) => i = j
    <3> SUFFICES ASSUME NEW h, NEW i, NEW j, Adds(events', i, h), Adds(events', j, h) PROVE i = j
      OBVIOUS
    <3>1. i \in Nat /\ j \in Nat /\ i + 1 = j + 1
      BY DEF Mirroring, AnnouncedOnce, Advanced
    <3> QED
      BY <3>1
  <2>4. \A h, i, j : Removes(events', i, h) /\ Adds(events', j, h) => j < i
    <3> SUFFICES ASSUME NEW h, NEW i, NEW j, Removes(events', i, h), Adds(events', j, h) PROVE j < i
      OBVIOUS
    <3>1. i \in Nat /\ j \in Nat /\ j + 1 < i + 1
      BY DEF Mirroring, AnnouncedOnce, Advanced
    <3> QED
      BY <3>1
  <2>5. \A h, i : Adds(events', i, h) =>
          \/ (h \in Known' /\ live'[h] = events'[i].object)
          \/ \E j : Removes(events', j, h)
    BY <1>3, <1>6 DEF Mirroring, AnnouncedOnce, Advanced
  <2>6. \A h, i : Adds(events', i, h) => h \notin DOMAIN devices' \union DOMAIN apps' \union told'
    <3> SUFFICES ASSUME NEW h, NEW i, Adds(events', i, h)
                 PROVE  h \notin DOMAIN devices' \union DOMAIN apps' \union told'
      OBVIOUS
    <3>1. h # g /\ h \notin DOMAIN devices \union DOMAIN apps \union told
      BY <1>4 DEF Mirroring, AnnouncedOnce, Advanced
    <3> QED
      BY <1>1, <1>7, <3>1
  <2> QED
    BY <2>1, <2>2, <2>3, <2>4, <2>5, <2>6 DEF AnnouncedOnce
<1>10. Mirrored'
  <2>1. DOMAIN devices' \union DOMAIN apps' \union told' \subseteq 1 .. used'
    BY <1>1, <1>3, <1>4, <1>7 DEF Mirroring, Mirrored
  <2>2. ASSUME NEW h, IsDevice(h)
        PROVE  (h \in DOMAIN devices' /\ devices'[h] = live[h]) \/ \E i : Adds(events', i, h)
    <3>1. CASE h = g
      BY <1>7, <1>8, <2>2, <3>1 DEF IsDevice
    <3>2. CASE h # g
      BY <1>5, <1>7, <2>2, <3>2 DEF Mirroring, Mirrored
    <3> QED
      BY <3>1, <3>2
  <2>3. ASSUME NEW h, IsApp(h)
        PROVE  h \in DOMAIN apps' \/ \E i : Adds(events', i, h)
    <3>1. CASE h = g
      BY <1>7, <1>8, <2>3, <3>1 DEF IsApp
    <3>2. CASE h # g
      BY <1>5, <1>7, <2>3, <3>2 DEF Mirroring, Mirrored
    <3> QED
      BY <3>1, <3>2
  <2>4. ASSUME NEW h \in DOMAIN devices'
        PROVE  /\ devices'[h] \in Objects /\ devices'[h].class = "device"
               /\ (h \in Known /\ live[h] = devices'[h]) \/ \E i : Removes(events', i, h)
    <3>1. CASE h = g
      BY <1>1, <1>4, <1>6, <1>7, <2>4, <3>1
    <3>2. CASE h # g
      BY <1>6, <1>7, <2>4, <3>2 DEF Mirroring, Mirrored
    <3> QED
      BY <3>1, <3>2
  <2>5. ASSUME NEW h \in DOMAIN apps' PROVE h \in Known \/ \E i : Removes(events', i, h)
    <3>1. CASE h = g
      BY <1>4, <1>6, <3>1
    <3>2. CASE h # g
      BY <1>6, <1>7, <2>5, <3>2 DEF Mirroring, Mirrored
    <3> QED
      BY <3>1, <3>2
  <2> QED
    BY <1>3, <2>1, <2>2, <2>3, <2>4, <2>5 DEF Mirrored, IsDevice, IsApp
<1>11. Reported'
  <2>1. ASSUME task.by = "watch", NEW h, IsDevice(h)
        PROVE  h \in told' \/ \E i : Adds(events', i, h)
    <3>1. CASE h = g
      BY <1>1, <1>8, <2>1, <3>1 DEF IsDevice
    <3>2. CASE h # g
      BY <1>1, <1>5, <2>1, <3>2 DEF Mirroring, Reported
    <3> QED
      BY <3>1, <3>2
  <2>2. ASSUME task.by = "watch", NEW h \in told'
        PROVE  IsDevice(h) \/ \E i : Removes(events', i, h)
    <3>1. CASE h \in told
      BY <1>6, <2>2, <3>1 DEF Mirroring, Reported
    <3>2. CASE h = g /\ o.class = "device"
      BY <1>4, <1>6, <3>2 DEF IsDevice
    <3> QED
      BY <1>1, <2>2, <3>1, <3>2
  <2> QED
    BY <1>3, <2>1, <2>2 DEF Reported, IsDevice
<1>12. Unique'
  BY <1>3 DEF Mirroring, Unique
<1> QED
  BY <1>9, <1>10, <1>11, <1>12 DEF Mirroring

LEMMA RemoveMirrors ==
  ASSUME Typed, Mirroring, Advanced, DeliversRemove, UNCHANGED <<live, used, task>>
  PROVE  Mirroring'
<1> DEFINE g == events[1].id
<1>1. /\ devices' = [h \in DOMAIN devices \ {g} |-> devices[h]]
      /\ apps' = [h \in DOMAIN apps \ {g} |-> apps[h]]
      /\ told' = told \ {g} /\ events[1].kind = "remove"
  BY DEF DeliversRemove, GlobalRemove
<1>2. Removes(events, 1, g)
  BY <1>1 DEF Advanced
<1>3. Known' = Known /\ live' = live /\ used' = used /\ task' = task
  BY DEF Known
<1>4. g \notin Known
  BY <1>2 DEF Mirroring, AnnouncedOnce
<1>5. \A h : (\E i : Adds(events, i, h)) => \E i : Adds(events', i, h)
  BY <1>1 DEF Advanced
<1>6. \A h : h # g /\ (\E i : Removes(events, i, h)) => \E i : Removes(events', i, h)
  BY DEF Advanced
<1>7. \A i : ~ Adds(events', i, g)
  <2> SUFFICES ASSUME NEW i, Adds(events', i, g) PROVE FALSE
    OBVIOUS
  <2>1. i \in Nat \ {0} /\ i + 1 < 1
    BY <1>2 DEF Mirroring, AnnouncedOnce, Advanced
  <2> QED
    BY <2>1
<1>8. /\ DOMAIN devices' = DOMAIN devices \ {g} /\ DOMAIN apps' = DOMAIN apps \ {g}
      /\ \A h \in DOMAIN devices' : devices'[h] = devices[h]
  BY <1>1
<1> HIDE DEF g
<1>9. AnnouncedOnce'
  <2>1. \A h, i : Adds(events', i, h) \/ Removes(events', i, h) => h \in 1 .. used'
    BY <1>3 DEF Mirroring, AnnouncedOnce, Advanced
  <2>2. \A h, i : Removes(events', i, h) => h \notin Known'
    BY <1>3 DEF Mirroring, AnnouncedOnce, Advanced
  <2>3. \A h, i, j : Adds(events', i, h) /\ Adds(events', j, h) => i = j
    <3> SUFFICES ASSUME NEW h, NEW i, NEW j, Adds(events', i, h), Adds(events', j, h) PROVE i = j
      OBVIOUS
    <3>1. i \in Nat /\ j \in Nat /\ i + 1 = j + 1
      BY DEF Mirroring, AnnouncedOnce, Advanced
    <3> QED
      BY <3>1
  <2>4. \A h, i, j : Removes(events', i, h) /\ Adds(events', j, h) => j < i
    <3> SUFFICES ASSUME NEW h, NEW i, NEW j, Removes(events', i, h), Adds(events', j, h) PROVE j < i
      OBVIOUS
    <3>1. i \in Nat /\ j \in Nat /\ j + 1 < i + 1
      BY DEF Mirroring, AnnouncedOnce, Advanced
    <3> QED
      BY <3>1
  <2>5. \A h, i : Adds(events', i, h) =>
          \/ (h \in Known' /\ live'[h] = events'[i].object)
          \/ \E j : Removes(events', j, h)
    <3> SUFFICES ASSUME NEW h, NEW i, Adds(events', i, h)
                 PROVE  \/ (h \in Known' /\ live'[h] = events'[i].object)
                        \/ \E j : Removes(events', j, h)
      OBVIOUS
    <3>1. h # g
      BY <1>7
    <3>2. \/ (h \in Known /\ live[h] = events'[i].object)
          \/ \E j : Removes(events, j, h)
      BY DEF Mirroring, AnnouncedOnce, Advanced
    <3> QED
      BY <1>3, <1>6, <3>1, <3>2
  <2>6. \A h, i : Adds(events', i, h) => h \notin DOMAIN devices' \union DOMAIN apps' \union told'
    BY <1>1, <1>8 DEF Mirroring, AnnouncedOnce, Advanced
  <2> QED
    BY <2>1, <2>2, <2>3, <2>4, <2>5, <2>6 DEF AnnouncedOnce
<1>10. Mirrored'
  <2>1. DOMAIN devices' \union DOMAIN apps' \union told' \subseteq 1 .. used'
    BY <1>1, <1>3, <1>8 DEF Mirroring, Mirrored
  <2>2. ASSUME NEW h, IsDevice(h)
        PROVE  (h \in DOMAIN devices' /\ devices'[h] = live[h]) \/ \E i : Adds(events', i, h)
    BY <1>4, <1>5, <1>8, <2>2 DEF Mirroring, Mirrored, IsDevice
  <2>3. ASSUME NEW h, IsApp(h)
        PROVE  h \in DOMAIN apps' \/ \E i : Adds(events', i, h)
    BY <1>4, <1>5, <1>8, <2>3 DEF Mirroring, Mirrored, IsApp
  <2>4. ASSUME NEW h \in DOMAIN devices'
        PROVE  /\ devices'[h] \in Objects /\ devices'[h].class = "device"
               /\ (h \in Known /\ live[h] = devices'[h]) \/ \E i : Removes(events', i, h)
    BY <1>6, <1>8, <2>4 DEF Mirroring, Mirrored
  <2>5. ASSUME NEW h \in DOMAIN apps' PROVE h \in Known \/ \E i : Removes(events', i, h)
    BY <1>6, <1>8, <2>5 DEF Mirroring, Mirrored
  <2> QED
    BY <1>3, <2>1, <2>2, <2>3, <2>4, <2>5 DEF Mirrored, IsDevice, IsApp
<1>11. Reported'
  <2>1. ASSUME task.by = "watch", NEW h, IsDevice(h)
        PROVE  h \in told' \/ \E i : Adds(events', i, h)
    BY <1>1, <1>4, <1>5, <2>1 DEF Mirroring, Reported, IsDevice
  <2>2. ASSUME task.by = "watch", NEW h \in told'
        PROVE  IsDevice(h) \/ \E i : Removes(events', i, h)
    BY <1>1, <1>6, <2>2 DEF Mirroring, Reported
  <2> QED
    BY <1>3, <2>1, <2>2 DEF Reported, IsDevice
<1>12. Unique'
  BY <1>3 DEF Mirroring, Unique
<1> QED
  BY <1>9, <1>10, <1>11, <1>12 DEF Mirroring

LEMMA MirroringStep == Typed /\ Mirroring /\ [RegistryNext]_registryVars => Mirroring'
<1> SUFFICES ASSUME Typed, Mirroring, [RegistryNext]_registryVars PROVE Mirroring'
  OBVIOUS
<1>1. ASSUME NEW g \in 1 .. MaxGlobal, NEW o \in Objects, Announce(g, o) PROVE Mirroring'
  BY <1>1, AnnounceMirrors
<1>2. ASSUME NEW g \in Known, Withdraw(g) PROVE Mirroring'
  BY <1>2, WithdrawMirrors
<1>3. ASSUME NEW n \in Names, SetsDefault(n) PROVE Mirroring'
  <2>1. Property(n) \in Events /\ Property(n).kind = "property"
    BY EventsMade DEF Property
  <2>2. Emits(Property(n)) \/ UNCHANGED events
    BY <1>3 DEF SetsDefault
  <2>3. UNCHANGED <<live, used, devices, apps, told, task>>
    BY <1>3 DEF SetsDefault, clientSide, mirrorVars, queryVars
  <2> QED
    BY <2>1, <2>2, <2>3, EventsStand, MirrorStands
<1>4. CASE ServesSync
  <2> DEFINE e == [kind |-> "done", seq |-> requests[1].seq]
  <2>1. e \in Events /\ e.kind = "done"
    BY <1>4, Shrunk, EventShapes, EventsMade DEF ServesSync, Typed
  <2>2. Emits(e)
    BY <1>4 DEF ServesSync
  <2>3. UNCHANGED <<live, used, devices, apps, told, task>>
    BY <1>4 DEF ServesSync, mirrorVars, queryVars
  <2> HIDE DEF e
  <2> QED
    BY <2>1, <2>2, <2>3, EventsStand, MirrorStands
<1>5. CASE ServesBind
  <2>1. UNCHANGED <<live, used, devices, apps, told, task>>
    BY <1>5 DEF ServesBind, mirrorVars, queryVars
  <2>2. CASE UNCHANGED events
    BY <2>1, <2>2, MirrorStands
  <2>3. CASE default # None /\ Emits(Property(default))
    <3>1. Property(default) \in Events /\ Property(default).kind = "property"
      BY <2>3, EventsMade DEF Property, Typed
    <3> QED
      BY <2>1, <2>3, <3>1, EventsStand, MirrorStands
  <2> QED
    BY <1>5, <2>2, <2>3 DEF ServesBind
<1>6. CASE Deliver
  <2>1. /\ Advanced /\ Delivers /\ events[1] \in Events /\ UNCHANGED <<live, used, task>>
    BY <1>6, DeliverAdvances DEF daemonVars, queryVars
  <2>2. CASE DeliversAdd
    BY <2>1, <2>2, AddMirrors
  <2>3. CASE DeliversRemove
    BY <2>1, <2>3, RemoveMirrors
  <2>4. CASE DeliversProperty \/ DeliversDone
    <3>1. events[1].kind \in {"property", "done"} /\ UNCHANGED <<devices, apps, told>>
      BY <2>4 DEF DeliversProperty, DeliversDone, PropertyChanged, SyncDone, mirrorVars
    <3> QED
      BY <2>1, <3>1, OthersMirror
  <2> QED
    BY <2>1, <2>2, <2>3, <2>4 DEF Delivers
<1>7. CASE Syncs \/ Returns \/ Bind \/ Leaves
  <2>1. UNCHANGED <<live, used, devices, apps, told, task, events>>
    BY <1>7 DEF Syncs, Sync, Returns, Pumped, GiveUp, Bind, Leaves, PickDefault, AnswerQuery,
                WatchLive, WatchDropped, registryVars, daemonVars, mirrorVars, queryVars
  <2> QED
    BY <2>1, MirrorStands
<1> QED
  BY <1>1, <1>2, <1>3, <1>4, <1>5, <1>6, <1>7, StepCases

(* At the start the events are the dump of the daemon's objects.           *)
LEMMA Dumped ==
  ASSUME RegistryInit
  PROVE  /\ used \in Nat /\ Known = 1 .. used /\ live \in [1 .. used -> Objects]
         /\ \A i, g : Adds(events, i, g) <=> i \in 1 .. used /\ g = i
         /\ \A i \in 1 .. used : events[i].object = live[i]
         /\ \A i, g : ~ Removes(events, i, g)
         /\ \A i : ~ Sets(events, i)
         /\ \A i, n : ~ Dones(events, i, n)
<1>1. /\ used \in 0 .. MaxDump /\ MaxDump \in Nat
      /\ live \in [1 .. used -> Objects] /\ events = Dump(live)
  BY RegistryAssumption DEF RegistryInit
<1>2. events = [i \in 1 .. used |-> [kind |-> "global", id |-> i, object |-> live[i]]]
  BY <1>1 DEF Dump
<1> QED
  BY <1>1, <1>2 DEF Adds, Removes, Sets, Dones, Known

LEMMA MirroringInit == RegistryInit => Mirroring
<1> SUFFICES ASSUME RegistryInit PROVE Mirroring
  OBVIOUS
<1>1. /\ used \in Nat /\ Known = 1 .. used /\ live \in [1 .. used -> Objects]
      /\ \A i, g : Adds(events, i, g) <=> i \in 1 .. used /\ g = i
      /\ \A i \in 1 .. used : events[i].object = live[i]
      /\ \A i, g : ~ Removes(events, i, g)
  BY Dumped
<1>2. DOMAIN devices = {} /\ DOMAIN apps = {} /\ told = {}
  BY DEF RegistryInit
<1>3. Unique
  BY DEF RegistryInit, Unique
<1>4. AnnouncedOnce
  BY <1>1, <1>2 DEF AnnouncedOnce
<1>5. Mirrored /\ Reported
  BY <1>1, <1>2 DEF Mirrored, Reported, IsDevice, IsApp
<1> QED
  BY <1>3, <1>4, <1>5 DEF Mirroring

-----------------------------------------------------------------------------
(* The places of the events when one was added, or the first one taken.    *)
Added(e, N) ==
  /\ N \in Nat
  /\ \A i, g : Adds(events', i, g) <=> Adds(events, i, g) \/ (i = N /\ e.kind = "global" /\ e.id = g)
  /\ \A i, g : Removes(events', i, g) <=> Removes(events, i, g) \/ (i = N /\ e.kind = "remove" /\ e.id = g)
  /\ \A i : Sets(events', i) <=> Sets(events, i) \/ (i = N /\ e.kind = "property")
  /\ \A i, n : Dones(events', i, n) <=> Dones(events, i, n) \/ (i = N /\ e.kind = "done" /\ e.seq = n)
  /\ \A i, g : Adds(events, i, g) => i \in Nat /\ i < N /\ events'[i] = events[i]
  /\ \A i, g : Removes(events, i, g) => i \in Nat /\ i < N
  /\ \A i : Sets(events, i) => i \in Nat /\ i < N /\ events'[i] = events[i]
  /\ \A i, n : Dones(events, i, n) => i \in Nat /\ i < N
  /\ events'[N] = e

LEMMA EmitsAdds ==
  ASSUME Typed, NEW e \in Events, Emits(e)
  PROVE  \E N : Added(e, N)
<1>1. events \in Seq(Events) /\ events' = events \o <<e>>
  BY DEF Typed, Emits
<1>2. /\ Len(events) \in Nat /\ DOMAIN events = 1 .. Len(events)
      /\ \A i \in 1 .. Len(events) : events'[i] = events[i]
      /\ events'[Len(events) + 1] = e
  BY <1>1, Grown
<1>3. /\ \A i, g : Adds(events, i, g) => i \in DOMAIN events
      /\ \A i, g : Removes(events, i, g) => i \in DOMAIN events
      /\ \A i : Sets(events, i) => i \in DOMAIN events
      /\ \A i, n : Dones(events, i, n) => i \in DOMAIN events
  BY DEF Adds, Removes, Sets, Dones
<1>4. \A i \in DOMAIN events : i \in Nat /\ i < Len(events) + 1 /\ events'[i] = events[i]
  BY <1>2
<1>5. Len(events) + 1 \in Nat
  BY <1>2
<1>6. /\ \A i, g : Adds(events', i, g) <=> Adds(events, i, g) \/ (i = Len(events) + 1 /\ e.kind = "global" /\ e.id = g)
      /\ \A i, g : Removes(events', i, g) <=> Removes(events, i, g) \/ (i = Len(events) + 1 /\ e.kind = "remove" /\ e.id = g)
      /\ \A i : Sets(events', i) <=> Sets(events, i) \/ (i = Len(events) + 1 /\ e.kind = "property")
      /\ \A i, n : Dones(events', i, n) <=> Dones(events, i, n) \/ (i = Len(events) + 1 /\ e.kind = "done" /\ e.seq = n)
  BY <1>1, EventsGrow
<1>7. Added(e, Len(events) + 1)
  BY ONLY <1>2, <1>3, <1>4, <1>5, <1>6 DEF Added
<1> QED
  BY <1>7

(* Of the property changes and the answers, too.                           *)
Shifted ==
  /\ \A i : Sets(events', i) => i \in Nat \ {0} /\ Sets(events, i + 1) /\ events'[i] = events[i + 1]
  /\ \A i : Sets(events, i) => i \in Nat \ {0} /\ (i # 1 => Sets(events', i - 1) /\ events'[i - 1] = events[i])
  /\ \A i, n : Dones(events', i, n) => i \in Nat \ {0} /\ Dones(events, i + 1, n)
  /\ \A i, n : Dones(events, i, n) => i \in Nat \ {0} /\ (i # 1 => Dones(events', i - 1, n))
  /\ Sets(events, 1) <=> events[1].kind = "property"
  /\ \A n : Dones(events, 1, n) <=> events[1].kind = "done" /\ events[1].seq = n

LEMMA DeliverShifts ==
  ASSUME Typed, Deliver
  PROVE  Shifted
<1>1. events # <<>> /\ events' = Tail(events)
  BY DeliverCases
<1>2. /\ Len(events) \in Nat \ {0} /\ DOMAIN events = 1 .. Len(events)
      /\ DOMAIN events' = 1 .. Len(events) - 1
      /\ \A i \in 1 .. Len(events) - 1 : events'[i] = events[i + 1]
  BY <1>1, Shrunk DEF Typed
<1>3. /\ \A i : Sets(events', i) => i \in Nat \ {0} /\ Sets(events, i + 1)
      /\ \A i, n : Dones(events', i, n) => i \in Nat \ {0} /\ Dones(events, i + 1, n)
      /\ \A i : Sets(events, i) => i \in Nat \ {0} /\ (i # 1 => Sets(events', i - 1))
      /\ \A i, n : Dones(events, i, n) => i \in Nat \ {0} /\ (i # 1 => Dones(events', i - 1, n))
  BY <1>1, EventsShrink DEF Typed
<1>4. \A i : Sets(events', i) => events'[i] = events[i + 1]
  BY <1>2 DEF Sets
<1>5. \A i : Sets(events, i) /\ i # 1 => events'[i - 1] = events[i]
  BY <1>2 DEF Sets
<1>6. 1 \in DOMAIN events
  BY <1>2
<1>7. /\ Sets(events, 1) <=> events[1].kind = "property"
      /\ \A n : Dones(events, 1, n) <=> events[1].kind = "done" /\ events[1].seq = n
  BY <1>6 DEF Sets, Dones
<1> QED
  BY ONLY <1>3, <1>4, <1>5, <1>7 DEF Shifted

-----------------------------------------------------------------------------
(* What the i-th request asks for.                                         *)
Sends(q, i, n) == i \in DOMAIN q /\ q[i].kind = "sync" /\ q[i].seq = n
Binds(q, i, g) == i \in DOMAIN q /\ q[i].kind = "bind" /\ q[i].id = g

Queued(r, N) ==
  /\ N \in Nat
  /\ \A i, n : Sends(requests', i, n) <=> Sends(requests, i, n) \/ (i = N /\ r.kind = "sync" /\ r.seq = n)
  /\ \A i, g : Binds(requests', i, g) <=> Binds(requests, i, g) \/ (i = N /\ r.kind = "bind" /\ r.id = g)
  /\ \A i, n : Sends(requests, i, n) => i \in Nat /\ i < N
  /\ requests' # <<>> /\ Len(requests') = N /\ requests'[N] = r

LEMMA AsksQueues ==
  ASSUME Typed, NEW r \in Requests, Asks(r)
  PROVE  \E N : Queued(r, N)
<1>1. requests \in Seq(Requests) /\ requests' = requests \o <<r>>
  BY DEF Typed, Asks
<1>2. /\ Len(requests) \in Nat /\ DOMAIN requests = 1 .. Len(requests)
      /\ DOMAIN requests' = 1 .. Len(requests) + 1 /\ Len(requests') = Len(requests) + 1
      /\ \A i \in 1 .. Len(requests) : requests'[i] = requests[i]
      /\ requests'[Len(requests) + 1] = r /\ requests' \in Seq(Requests)
  BY <1>1, Grown
<1>3. \A i : i \in DOMAIN requests' <=> i \in DOMAIN requests \/ i = Len(requests) + 1
  BY <1>2
<1>4. Len(requests) + 1 \notin DOMAIN requests /\ Len(requests) + 1 \in Nat
  BY <1>2
<1>5. \A i \in DOMAIN requests : requests'[i] = requests[i] /\ i \in Nat /\ i < Len(requests) + 1
  BY <1>2
<1>6. requests' # <<>>
  BY <1>2
<1>7. Queued(r, Len(requests) + 1)
  BY ONLY <1>2, <1>3, <1>4, <1>5, <1>6 DEF Queued, Sends, Binds
<1> QED
  BY <1>7

Served ==
  /\ \A i, n : Sends(requests', i, n) => i \in Nat \ {0} /\ Sends(requests, i + 1, n)
  /\ \A i, g : Binds(requests', i, g) => i \in Nat \ {0} /\ Binds(requests, i + 1, g)
  /\ \A i, g : Binds(requests, i, g) => i \in Nat \ {0} /\ (i # 1 => Binds(requests', i - 1, g))
  /\ \A n : Sends(requests, 1, n) <=> requests[1].kind = "sync" /\ requests[1].seq = n
  /\ \A g : Binds(requests, 1, g) <=> requests[1].kind = "bind" /\ requests[1].id = g
  /\ requests[1] \in Requests /\ Len(requests) \in Nat \ {0}
  /\ requests' = <<>> <=> Len(requests) = 1
  /\ requests' # <<>> => requests'[Len(requests')] = requests[Len(requests)]

LEMMA ServingServes ==
  ASSUME Typed, requests # <<>>, requests' = Tail(requests)
  PROVE  Served
<1>1. /\ Tail(requests) \in Seq(Requests) /\ requests[1] \in Requests
      /\ Len(requests) \in Nat \ {0} /\ DOMAIN requests = 1 .. Len(requests)
      /\ DOMAIN requests' = 1 .. Len(requests) - 1
      /\ Len(requests') = Len(requests) - 1
      /\ \A i \in 1 .. Len(requests) - 1 : requests'[i] = requests[i + 1]
  BY Shrunk DEF Typed
<1>2. \A i \in DOMAIN requests' : i \in Nat \ {0} /\ i + 1 \in DOMAIN requests /\ requests'[i] = requests[i + 1]
  BY <1>1
<1>3. \A i \in DOMAIN requests : i \in Nat \ {0} /\ (i # 1 => i - 1 \in DOMAIN requests' /\ requests'[i - 1] = requests[i])
  BY <1>1
<1>4. 1 \in DOMAIN requests
  BY <1>1
<1>5. requests' = <<>> <=> Len(requests) = 1
  BY <1>1, EmptySeq
<1>6. requests' # <<>> => requests'[Len(requests')] = requests[Len(requests)]
  <2>1. CASE Len(requests) = 1
    BY <1>5, <2>1
  <2>2. CASE Len(requests) # 1
    BY <1>1, <2>2
  <2> QED
    BY <2>1, <2>2
<1> QED
  BY ONLY <1>1, <1>2, <1>3, <1>4, <1>5, <1>6 DEF Served, Sends, Binds

(* The proxy of the metadata: it is bound once, and the daemon holds that  *)
(* binding unless the request is on its way or the object is gone.         *)
Proxied ==
  /\ metaId \in 0 .. used /\ bound \in 0 .. used
  /\ \A i, g : Binds(requests, i, g) => bound = g
  /\ hears # NoId => hears = bound /\ hears \in Known
  /\ bound \in Known => hears = bound \/ \E i, g : Binds(requests, i, g)

LEMMA ProxiedInit == RegistryInit => Proxied
<1> SUFFICES ASSUME RegistryInit PROVE Proxied
  OBVIOUS
<1>1. used \in Nat /\ Known = 1 .. used
  BY Dumped
<1>2. \A i, g : ~ Binds(requests, i, g)
  BY DEF RegistryInit, Binds
<1> QED
  BY <1>1, <1>2 DEF RegistryInit, Proxied, NoId

LEMMA ProxiedStep ==
  Typed /\ Mirroring /\ Proxied /\ [RegistryNext]_registryVars => Proxied'
<1> SUFFICES ASSUME Typed, Mirroring, Proxied, [RegistryNext]_registryVars PROVE Proxied'
  OBVIOUS
<1> USE RegistryAssumption
<1>0. used \in Nat /\ Known \subseteq 1 .. used
  BY DEF Typed
<1>1. ASSUME NEW g \in 1 .. MaxGlobal, NEW o \in Objects, Announce(g, o) PROVE Proxied'
  <2>1. g = used + 1 /\ used' = g /\ Known' = Known \union {g}
    BY <1>1, AnnounceTyped
  <2>2. UNCHANGED <<metaId, bound, hears, requests>>
    BY <1>1 DEF Announce, clientSide, mirrorVars
  <2> QED
    BY <1>0, <2>1, <2>2 DEF Proxied
<1>2. ASSUME NEW g \in Known, Withdraw(g) PROVE Proxied'
  <2>1. used' = used /\ Known' = Known \ {g}
    BY <1>2, WithdrawTyped
  <2>2. UNCHANGED <<metaId, bound, requests>> /\ hears' = IF hears = g THEN NoId ELSE hears
    BY <1>2 DEF Withdraw, clientSide, mirrorVars
  <2> QED
    BY <1>0, <2>1, <2>2 DEF Proxied, NoId
<1>3. ASSUME NEW n \in Names, SetsDefault(n) PROVE Proxied'
  BY <1>3 DEF SetsDefault, Proxied, clientSide, mirrorVars, Known
<1>4. CASE ServesSync
  <2>1. Served
    BY <1>4, ServingServes DEF ServesSync
  <2>2. UNCHANGED <<metaId, bound, hears, live, used>> /\ requests[1].kind = "sync"
    BY <1>4 DEF ServesSync, mirrorVars
  <2> QED
    BY <2>1, <2>2 DEF Served, Proxied, Known
<1>5. CASE ServesBind
  <2>1. Served
    BY <1>5, ServingServes DEF ServesBind
  <2>2. /\ UNCHANGED <<metaId, bound, live, used>> /\ requests[1].kind = "bind"
        /\ hears' = IF requests[1].id \in Known THEN requests[1].id ELSE NoId
    BY <1>5 DEF ServesBind, mirrorVars
  <2>3. bound = requests[1].id
    BY <2>1, <2>2 DEF Served, Proxied
  <2> QED
    BY <2>1, <2>2, <2>3 DEF Served, Proxied, Known
<1>6. CASE Deliver
  <2>1. Advanced /\ Delivers /\ events[1] \in Events /\ UNCHANGED <<live, used, hears, requests>>
    BY <1>6, DeliverAdvances DEF daemonVars
  <2>2. bound' = bound /\ metaId' \in 0 .. used
    <3>1. CASE DeliversAdd
      <4>1. events[1].id \in 1 .. used
        BY <2>1, <3>1 DEF DeliversAdd, Advanced, Mirroring, AnnouncedOnce
      <4> QED
        BY <3>1, <4>1 DEF DeliversAdd, Global, Proxied
    <3>2. CASE DeliversRemove \/ DeliversProperty \/ DeliversDone
      BY <3>2 DEF DeliversRemove, DeliversProperty, DeliversDone, GlobalRemove, PropertyChanged,
                  SyncDone, mirrorVars, Proxied
    <3> QED
      BY <2>1, <3>1, <3>2 DEF Delivers
  <2> QED
    BY <2>1, <2>2 DEF Proxied, Known
<1>7. CASE Syncs
  <2>1. UNCHANGED <<metaId, bound, live, used, hears>>
    BY <1>7 DEF Syncs, Sync, daemonVars, mirrorVars
  <2>2. \E r \in Requests : \E N : r.kind = "sync" /\ Queued(r, N)
    <3>1. [kind |-> "sync", seq |-> awaited + 1] \in Requests
      BY EventsMade DEF Typed
    <3>2. Asks([kind |-> "sync", seq |-> awaited + 1])
      BY <1>7, AskedFor DEF Syncs
    <3> QED
      BY <3>1, <3>2, AsksQueues
  <2> QED
    BY <2>1, <2>2 DEF Queued, Proxied, Known
<1>8. CASE Bind
  <2>1. UNCHANGED <<metaId, live, used, hears>>
    BY <1>8 DEF Bind, daemonVars
  <2>2. CASE bound = NoId /\ metaId # NoId
    <3>1. [kind |-> "bind", id |-> metaId] \in Requests
      BY <2>2, EventsMade DEF Typed, NoId, Ids
    <3>2. bound' = metaId /\ Asks([kind |-> "bind", id |-> metaId])
      BY <1>8, <2>2, AskedFor
    <3>3. PICK N : Queued([kind |-> "bind", id |-> metaId], N)
      BY <3>1, <3>2, AsksQueues
    <3>4. \A i, g : ~ Binds(requests, i, g)
      <4> SUFFICES ASSUME NEW i, NEW g, Binds(requests, i, g) PROVE FALSE
        OBVIOUS
      <4>1. requests[i] \in Requests /\ requests[i].kind = "bind" /\ requests[i].id = g
        BY DEF Binds, Typed
      <4>2. g \in Ids /\ bound = g
        BY <4>1, EventShapes DEF Proxied
      <4> QED
        BY <2>2, <4>2 DEF NoId, Ids
    <3>5. hears = NoId
      BY <2>2 DEF Proxied
    <3> QED
      BY <2>1, <3>2, <3>3, <3>4, <3>5 DEF Queued, Proxied, Known
  <2>3. CASE ~ (bound = NoId /\ metaId # NoId)
    BY <1>8, <2>1, <2>3 DEF Bind, BindTo, Proxied, Known
  <2> QED
    BY <2>2, <2>3
<1>9. CASE Returns \/ Leaves
  BY <1>9 DEF Returns, Pumped, GiveUp, Leaves, PickDefault, AnswerQuery, WatchLive, WatchDropped,
              registryVars, daemonVars, mirrorVars, queryVars, Proxied, Known
<1> QED
  BY <1>1, <1>2, <1>3, <1>4, <1>5, <1>6, <1>7, <1>8, <1>9, StepCases

-----------------------------------------------------------------------------
(* A client that hears of the default: the last value on the way to it is  *)
(* the daemon's.                                                           *)
DefaultHeard ==
  /\ default = None => defaultName = None /\ \A i : ~ Sets(events, i)
  /\ hears # NoId =>
       /\ defaultName = default \/ \E i : Sets(events, i)
       /\ \A i : Sets(events, i) => events[i].name = default \/ \E j : j > i /\ Sets(events, j)

LEMMA DefaultHeardInit == RegistryInit => DefaultHeard
BY Dumped DEF RegistryInit, DefaultHeard

LEMMA DefaultStands ==
  ASSUME DefaultHeard, UNCHANGED <<default, defaultName>>, hears' \in {hears, NoId},
         \A i : Sets(events', i) <=> Sets(events, i),
         \A i : Sets(events, i) => events'[i] = events[i]
  PROVE  DefaultHeard'
BY DEF DefaultHeard

LEMMA DefaultSent ==
  ASSUME Typed, NEW n \in Names, Emits(Property(n)), default' = n
  PROVE  DefaultHeard'
<1>1. Property(n) \in Events /\ Property(n).kind = "property" /\ Property(n).name = n
  BY EventsMade DEF Property
<1>2. PICK N : Added(Property(n), N)
  BY <1>1, EmitsAdds
<1>3. n # None
  BY RegistryAssumption
<1> QED
  BY <1>1, <1>2, <1>3 DEF Added, DefaultHeard

LEMMA DefaultHeardStep ==
  Typed /\ DefaultHeard /\ [RegistryNext]_registryVars => DefaultHeard'
<1> SUFFICES ASSUME Typed, DefaultHeard, [RegistryNext]_registryVars PROVE DefaultHeard'
  OBVIOUS
<1> USE RegistryAssumption
<1>1. ASSUME NEW e \in Events, e.kind # "property", Emits(e),
             UNCHANGED <<default, defaultName>>, hears' \in {hears, NoId}
      PROVE  DefaultHeard'
  <2>1. PICK N : Added(e, N)
    BY <1>1, EmitsAdds
  <2> QED
    BY <1>1, <2>1, DefaultStands DEF Added
<1>2. ASSUME NEW g \in 1 .. MaxGlobal, NEW o \in Objects, Announce(g, o) PROVE DefaultHeard'
  <2> DEFINE e == [kind |-> "global", id |-> g, object |-> o]
  <2>1. e \in Events /\ e.kind = "global"
    BY EventsMade DEF Ids
  <2>2. Emits(e) /\ UNCHANGED <<default, defaultName, hears>>
    BY <1>2 DEF Announce, Emit, Emits, clientSide, mirrorVars
  <2> HIDE DEF e
  <2> QED
    BY <1>1, <2>1, <2>2
<1>3. ASSUME NEW g \in Known, Withdraw(g) PROVE DefaultHeard'
  <2> DEFINE e == [kind |-> "remove", id |-> g]
  <2>1. e \in Events /\ e.kind = "remove"
    BY EventsMade DEF Ids, Typed
  <2>2. Emits(e) /\ UNCHANGED <<default, defaultName>> /\ hears' \in {hears, NoId}
    BY <1>3 DEF Withdraw, Emit, Emits, clientSide, mirrorVars
  <2> HIDE DEF e
  <2> QED
    BY <1>1, <2>1, <2>2
<1>4. ASSUME NEW n \in Names, SetsDefault(n) PROVE DefaultHeard'
  <2>1. default' = n /\ n # None
    BY <1>4 DEF SetsDefault
  <2>2. CASE Emits(Property(n))
    BY <2>1, <2>2, DefaultSent
  <2>3. CASE hears = NoId /\ UNCHANGED events
    BY <1>4, <2>1, <2>3 DEF SetsDefault, DefaultHeard
  <2> QED
    BY <1>4, <2>2, <2>3 DEF SetsDefault
<1>5. CASE ServesSync
  <2> DEFINE e == [kind |-> "done", seq |-> requests[1].seq]
  <2>1. e \in Events /\ e.kind = "done"
    BY <1>5, Shrunk, EventShapes, EventsMade DEF ServesSync, Typed
  <2>2. Emits(e) /\ UNCHANGED <<default, defaultName, hears>>
    BY <1>5 DEF ServesSync, mirrorVars
  <2> HIDE DEF e
  <2> QED
    BY <1>1, <2>1, <2>2
<1>6. CASE ServesBind
  <2>1. CASE default # None /\ Emits(Property(default))
    BY <1>6, <2>1, DefaultSent DEF ServesBind, Typed
  <2>2. CASE ~ (requests[1].id \in Known /\ default # None) /\ UNCHANGED events
    BY <1>6, <2>2 DEF ServesBind, mirrorVars, DefaultHeard
  <2> QED
    BY <1>6, <2>1, <2>2 DEF ServesBind
<1>7. CASE Deliver
  <2>1. Shifted /\ Delivers /\ UNCHANGED <<default, hears>>
    BY <1>7, DeliverAdvances, DeliverShifts DEF daemonVars
  <2>2. CASE DeliversProperty
    <3>1. defaultName' = events[1].name /\ Sets(events, 1)
      BY <2>1, <2>2 DEF DeliversProperty, PropertyChanged, Shifted
    <3>2. default # None
      BY <3>1 DEF DefaultHeard
    <3>3. ASSUME NEW j, Sets(events, j), j > 1 PROVE Sets(events', j - 1) /\ j - 1 \in Nat
      BY <2>1, <3>3 DEF Shifted
    <3>4. hears # NoId => defaultName' = default \/ \E i : Sets(events', i)
      BY <3>1, <3>3 DEF DefaultHeard
    <3>5. ASSUME hears # NoId, NEW i, Sets(events', i)
          PROVE  events'[i].name = default \/ \E j : j > i /\ Sets(events', j)
      <4>1. i \in Nat \ {0} /\ Sets(events, i + 1) /\ events'[i] = events[i + 1]
        BY <2>1, <3>5 DEF Shifted
      <4>2. ASSUME NEW j, j > i + 1, Sets(events, j) PROVE j - 1 > i /\ Sets(events', j - 1)
        BY <2>1, <4>1, <4>2 DEF Shifted
      <4> QED
        BY <3>5, <4>1, <4>2 DEF DefaultHeard
    <3> QED
      BY <2>1, <3>2, <3>4, <3>5 DEF DefaultHeard
  <2>3. CASE ~ DeliversProperty
    <3>1. defaultName' = defaultName /\ ~ Sets(events, 1)
      BY <2>1, <2>3 DEF Delivers, DeliversAdd, DeliversRemove, DeliversDone, Global, GlobalRemove,
                        SyncDone, mirrorVars, Shifted
    <3>2. ASSUME NEW i, Sets(events, i)
          PROVE  i \in Nat \ {0} /\ Sets(events', i - 1) /\ events'[i - 1] = events[i]
      BY <2>1, <3>1, <3>2 DEF Shifted
    <3>3. ASSUME hears # NoId, NEW i, Sets(events', i)
          PROVE  events'[i].name = default \/ \E j : j > i /\ Sets(events', j)
      <4>1. i \in Nat \ {0} /\ Sets(events, i + 1) /\ events'[i] = events[i + 1]
        BY <2>1, <3>3 DEF Shifted
      <4>2. ASSUME NEW j, j > i + 1, Sets(events, j) PROVE j - 1 > i /\ Sets(events', j - 1)
        BY <3>2, <4>1, <4>2
      <4> QED
        BY <3>3, <4>1, <4>2 DEF DefaultHeard
    <3>4. \A i : Sets(events', i) => \E j : Sets(events, j)
      BY <2>1 DEF Shifted
    <3> QED
      BY <2>1, <3>1, <3>2, <3>3, <3>4 DEF DefaultHeard
  <2> QED
    BY <2>2, <2>3
<1>8. CASE Syncs \/ Returns \/ Bind \/ Leaves
  <2>1. UNCHANGED <<default, defaultName, hears, events>>
    BY <1>8 DEF Syncs, Sync, Returns, Pumped, GiveUp, Bind, Leaves, PickDefault, AnswerQuery,
                WatchLive, WatchDropped, registryVars, daemonVars, mirrorVars
  <2> QED
    BY <2>1, DefaultStands
<1> QED
  BY <1>2, <1>3, <1>4, <1>5, <1>6, <1>7, <1>8, StepCases

(* The device of the default's name, and the other ones of that name: they *)
(* are withdrawn before the handler hears of the default.                  *)
Latest(q, k) == Sets(q, k) /\ \A j : Sets(q, j) => j <= k
Bears(h, k) ==
  \/ h \in DOMAIN devices /\ devices[h].name = default
  \/ \E i : i < k /\ Adds(events, i, h) /\ events[i].object = Device(default)

HeirIsDefault == \A g \in heir : IsDevice(g) /\ live[g] = Device(default)
HeirAlone ==
  task.by = "watch" /\ hears # NoId => \A g \in heir :
    /\ toldDefault = g \/ \E i : Sets(events, i)
    /\ \A k : Latest(events, k) =>
         /\ \A i : Adds(events, i, g) => i < k
         /\ \A h : h # g /\ Bears(h, k) => \E j : j < k /\ Removes(events, j, h)
HeirFollows == HeirIsDefault /\ HeirAlone

LEMMA HeirInit == RegistryInit => HeirFollows
<1> SUFFICES ASSUME RegistryInit PROVE HeirFollows
  OBVIOUS
<1>1. HeirIsDefault
  BY DEF RegistryInit, HeirIsDefault, DevicesNamed, IsDevice, Device
<1>2. HeirAlone
  BY DEF RegistryInit, HeirAlone
<1> QED
  BY <1>1, <1>2 DEF HeirFollows

(* The default is announced to a client that hears of it.                  *)
LEMMA HeirTold ==
  ASSUME Typed, Mirroring, NEW n \in Names, Emits(Property(n)), default' = n,
         UNCHANGED <<live, used, devices, toldDefault, task>>,
         \A g \in heir' : g \in Known /\ live[g] = Device(n)
  PROVE  HeirFollows'
<1>1. Property(n) \in Events /\ Property(n).kind = "property" /\ Property(n).name = n
  BY EventsMade DEF Property
<1>2. PICK N : Added(Property(n), N)
  BY <1>1, EmitsAdds
<1>3. Known' = Known
  BY DEF Known
<1>4. HeirIsDefault'
  BY <1>3 DEF HeirIsDefault, IsDevice, Device
<1>5. Sets(events', N) /\ \A k : Latest(events', k) => k = N
  <2>1. Sets(events', N)
    BY <1>1, <1>2 DEF Added
  <2>2. ASSUME NEW k, Latest(events', k) PROVE k = N
    <3>1. N <= k /\ Sets(events', k)
      BY <2>1, <2>2 DEF Latest
    <3>2. (k \in Nat /\ k < N) \/ k = N
      BY <1>2, <3>1 DEF Added
    <3> QED
      BY <1>2, <3>1, <3>2 DEF Added
  <2> QED
    BY <2>1, <2>2
<1>6. /\ \A i, g : Adds(events', i, g) => Adds(events, i, g) /\ i < N /\ events'[i] = events[i]
      /\ \A i, g : Removes(events, i, g) => Removes(events', i, g) /\ i < N
  BY <1>1, <1>2 DEF Added
<1>7. ASSUME NEW g \in heir', NEW h, h # g, Bears(h, N)'
      PROVE  \E j : j < N /\ Removes(events', j, h)
  <2>1. \E j : Removes(events, j, h)
    <3>1. g \in Known /\ live[g] = Device(n) /\ Device(n).class # "app"
      BY DEF Device
    <3>2. h \in Known => live[h] # Device(n)
      BY <1>7, <3>1 DEF Mirroring, Unique
    <3>3. CASE h \in DOMAIN devices /\ devices[h].name = n
      <4>1. devices[h] = Device(n)
        BY <3>3, ObjectShapes DEF Mirroring, Mirrored
      <4> QED
        BY <3>2, <3>3, <4>1 DEF Mirroring, Mirrored
    <3>4. CASE \E i : Adds(events, i, h) /\ events[i].object = Device(n)
      BY <3>2, <3>4 DEF Mirroring, AnnouncedOnce
    <3> QED
      BY <1>6, <1>7, <3>3, <3>4 DEF Bears
  <2> QED
    BY <1>6, <2>1
<1>8. HeirAlone'
  BY <1>5, <1>6, <1>7 DEF HeirAlone
<1> QED
  BY <1>4, <1>8 DEF HeirFollows

(* A step after which no other device of the name has come up, and none    *)
(* that was withdrawn comes back.                                          *)
LEMMA HeirStands ==
  ASSUME HeirFollows, heir' \subseteq heir, hears' \in {hears, NoId},
         UNCHANGED <<default, devices, toldDefault, task>>,
         \A g \in heir' : g \in Known' /\ live'[g] = live[g],
         \A i : Sets(events', i) <=> Sets(events, i),
         \A i, g : Removes(events, i, g) => Removes(events', i, g),
         \A i, g, k : Adds(events', i, g) /\ i < k /\ Sets(events, k) =>
                      Adds(events, i, g) /\ events'[i] = events[i],
         \A i, g : g \in heir' /\ Adds(events', i, g) => Adds(events, i, g)
  PROVE  HeirFollows'
<1>1. HeirIsDefault'
  BY DEF HeirFollows, HeirIsDefault, IsDevice
<1>2. \A k : Latest(events', k) <=> Latest(events, k)
  BY DEF Latest
<1>3. \A h, k : Latest(events, k) /\ Bears(h, k)' => Bears(h, k)
  BY DEF Bears, Latest
<1>4. HeirAlone'
  BY <1>2, <1>3 DEF HeirFollows, HeirAlone
<1> QED
  BY <1>1, <1>4 DEF HeirFollows

-----------------------------------------------------------------------------
(* The callbacks.                                                          *)
LEMMA LatestMoves ==
  ASSUME Shifted, NEW k, Latest(events', k)
  PROVE  k \in Nat \ {0} /\ Latest(events, k + 1)
<1>1. k \in Nat \ {0} /\ Sets(events, k + 1)
  BY DEF Latest, Shifted
<1>2. ASSUME NEW j, Sets(events, j) PROVE j <= k + 1
  <2>1. CASE j = 1
    BY <1>1, <2>1
  <2>2. CASE j # 1
    <3>1. j \in Nat /\ Sets(events', j - 1)
      BY <1>2, <2>2 DEF Shifted
    <3>2. j - 1 <= k
      BY <3>1 DEF Latest
    <3> QED
      BY <1>1, <3>1, <3>2
  <2> QED
    BY <2>1, <2>2
<1> QED
  BY <1>1, <1>2 DEF Latest

(* What bore the name is withdrawn as before, or was withdrawn just now.   *)
LEMMA HeirDelivered ==
  ASSUME Mirroring, Mirroring', HeirFollows, Advanced, Shifted,
         UNCHANGED <<live, default, hears, heir, task>>,
         \A g \in heir : task.by = "watch" /\ hears # NoId =>
           toldDefault' = g \/ \E i : Sets(events', i),
         \A h \in DOMAIN devices' :
           \/ h \in DOMAIN devices /\ devices'[h] = devices[h] /\ ~ Removes(events, 1, h)
           \/ Adds(events, 1, h) /\ devices'[h] = events[1].object
  PROVE  HeirFollows'
<1>1. HeirIsDefault'
  BY DEF HeirFollows, HeirIsDefault, IsDevice, Known
<1>3. \A h \in DOMAIN devices' : devices'[h] \in Objects /\ devices'[h].class = "device"
  BY DEF Mirroring, Mirrored
<1>2. ASSUME task.by = "watch", hears # NoId, NEW g \in heir, NEW k, Latest(events', k)
      PROVE  /\ \A i : Adds(events', i, g) => i < k
             /\ \A h : h # g /\ Bears(h, k)' => \E j : j < k /\ Removes(events', j, h)
  <2>1. k \in Nat \ {0} /\ Latest(events, k + 1)
    BY <1>2, LatestMoves
  <2>2. /\ \A i : Adds(events, i, g) => i < k + 1
        /\ \A h : h # g /\ Bears(h, k + 1) => \E j : j < k + 1 /\ Removes(events, j, h)
    BY <1>2, <2>1 DEF HeirFollows, HeirAlone
  <2>3. ASSUME NEW i, Adds(events', i, g) PROVE i < k
    <3>1. i \in Nat /\ i + 1 < k + 1
      BY <2>2, <2>3 DEF Advanced
    <3> QED
      BY <2>1, <3>1
  <2>4. ASSUME NEW h, h # g, Bears(h, k)' PROVE \E j : j < k /\ Removes(events', j, h)
    <3>1. Bears(h, k + 1) /\ ~ Removes(events, 1, h)
      <4>1. CASE h \in DOMAIN devices' /\ devices'[h].name = default
        <5>1. CASE h \in DOMAIN devices /\ devices'[h] = devices[h] /\ ~ Removes(events, 1, h)
          BY <4>1, <5>1 DEF Bears
        <5>2. CASE Adds(events, 1, h) /\ devices'[h] = events[1].object
          <6>1. devices'[h] = Device(default)
            <7>1. devices'[h] \in Objects /\ devices'[h].class = "device"
              BY <1>3, <4>1
            <7> QED
              BY <4>1, <7>1, ObjectShapes
          <6>2. 1 < k + 1
            BY <2>1
          <6>3. ~ Removes(events, 1, h)
            BY <5>2 DEF Advanced
          <6> QED
            BY <5>2, <6>1, <6>2, <6>3 DEF Bears
        <5> QED
          BY <4>1, <5>1, <5>2
      <4>2. CASE \E i : i < k /\ Adds(events', i, h) /\ events'[i].object = Device(default)
        <5>1. PICK i : i < k /\ Adds(events', i, h) /\ events'[i].object = Device(default)
          BY <4>2
        <5>2. i \in Nat \ {0} /\ Adds(events, i + 1, h) /\ events[i + 1].object = Device(default)
          BY <5>1 DEF Advanced
        <5>3. ~ Removes(events, 1, h)
          <6> SUFFICES ASSUME Removes(events, 1, h) PROVE FALSE
            OBVIOUS
          <6>1. i + 1 < 1
            BY <5>2 DEF Mirroring, AnnouncedOnce
          <6> QED
            BY <5>2, <6>1
        <5> QED
          BY <2>1, <5>1, <5>2, <5>3 DEF Bears
      <4> QED
        BY <2>4, <4>1, <4>2 DEF Bears
    <3>2. PICK j : j < k + 1 /\ Removes(events, j, h)
      BY <2>2, <2>4, <3>1
    <3>3. j \in Nat /\ Removes(events', j - 1, h)
      BY <3>1, <3>2 DEF Advanced
    <3>4. j - 1 < k
      BY <2>1, <3>2, <3>3
    <3> QED
      BY <3>3, <3>4
  <2> QED
    BY <2>3, <2>4
<1>4. HeirAlone'
  BY <1>2 DEF HeirAlone
<1> QED
  BY <1>1, <1>4 DEF HeirFollows

LEMMA Singleton == \A g \in Nat : Min({g}) = g
BY DEF Min

(* The watcher resolves the last value on the way to the heir.             *)
LEMMA HeirResolved ==
  ASSUME Typed, Mirroring, DefaultHeard, HeirFollows, Advanced, Shifted,
         task.by = "watch", hears # NoId, NEW g \in heir,
         Sets(events, 1), \A i : ~ Sets(events', i)
  PROVE  Named(events[1].name) = {g} /\ Min({g}) = g
<1>1. Latest(events, 1)
  BY DEF Latest, Shifted
<1>2. events[1].name = default
  <2>1. ASSUME NEW j, j > 1, Sets(events, j) PROVE FALSE
    BY <2>1 DEF Shifted
  <2> QED
    BY <2>1 DEF DefaultHeard
<1>3. IsDevice(g) /\ live[g] = Device(default)
  BY DEF HeirFollows, HeirIsDefault
<1>4. \A i : ~ Adds(events, i, g)
  <2> SUFFICES ASSUME NEW i, Adds(events, i, g) PROVE FALSE
    OBVIOUS
  <2>1. i \in Nat \ {0} /\ i < 1
    BY <1>1 DEF HeirFollows, HeirAlone, Advanced
  <2> QED
    BY <2>1
<1>5. g \in DOMAIN devices /\ devices[g].name = default
  BY <1>3, <1>4 DEF Mirroring, Mirrored, Device
<1>6. ASSUME NEW h \in DOMAIN devices, devices[h].name = default PROVE h = g
  <2> SUFFICES ASSUME h # g PROVE FALSE
    OBVIOUS
  <2>1. PICK j : j < 1 /\ Removes(events, j, h)
    BY <1>1, <1>6 DEF HeirFollows, HeirAlone, Bears
  <2> QED
    BY <2>1 DEF Advanced
<1>7. Named(events[1].name) = {g}
  BY <1>2, <1>5, <1>6 DEF Named
<1>8. g \in Nat
  BY <1>3 DEF Typed, IsDevice
<1> QED
  BY <1>7, <1>8, Singleton

(* The steps that send an event other than a default.                      *)
LEMMA HeirEmits ==
  ASSUME Typed, HeirFollows, NEW e \in Events, Emits(e), e.kind # "property",
         heir' \subseteq heir, hears' \in {hears, NoId},
         UNCHANGED <<default, devices, toldDefault, task>>,
         \A g \in heir' : g \in Known' /\ live'[g] = live[g],
         e.kind = "global" => e.id \notin heir'
  PROVE  HeirFollows'
<1>1. PICK N : Added(e, N)
  BY EmitsAdds
<1>2. /\ \A i : Sets(events', i) <=> Sets(events, i)
      /\ \A i, g : Removes(events, i, g) => Removes(events', i, g)
  BY <1>1 DEF Added
<1>3. \A i, g, k : Adds(events', i, g) /\ i < k /\ Sets(events, k) =>
                   Adds(events, i, g) /\ events'[i] = events[i]
  <2> SUFFICES ASSUME NEW i, NEW g, NEW k, Adds(events', i, g), i < k, Sets(events, k)
               PROVE  Adds(events, i, g) /\ events'[i] = events[i]
    OBVIOUS
  <2>1. k \in Nat /\ k < N /\ N \in Nat
    BY <1>1 DEF Added
  <2>2. i # N
    BY <2>1
  <2> QED
    BY <1>1, <2>2 DEF Added
<1>4. \A i, g : g \in heir' /\ Adds(events', i, g) => Adds(events, i, g)
  BY <1>1 DEF Added
<1> QED
  BY <1>2, <1>3, <1>4, HeirStands

LEMMA HeirDeliver ==
  ASSUME Typed, Mirroring, Mirroring', DefaultHeard, HeirFollows, Deliver
  PROVE  HeirFollows'
<1>1. /\ Advanced /\ Shifted /\ Delivers /\ events[1] \in Events
      /\ UNCHANGED <<live, default, hears, heir, task>>
  BY DeliverAdvances, DeliverShifts DEF daemonVars, queryVars
<1>2. \A h \in DOMAIN devices' :
        \/ h \in DOMAIN devices /\ devices'[h] = devices[h] /\ ~ Removes(events, 1, h)
        \/ Adds(events, 1, h) /\ devices'[h] = events[1].object
  <2>1. CASE DeliversAdd
    BY <1>1, <2>1 DEF DeliversAdd, Global, With, Advanced
  <2>2. CASE DeliversRemove
    BY <1>1, <2>2 DEF DeliversRemove, GlobalRemove, Advanced
  <2>3. CASE DeliversProperty
    BY <1>1, <2>3 DEF DeliversProperty, PropertyChanged, Advanced
  <2>4. CASE DeliversDone
    BY <1>1, <2>4 DEF DeliversDone, SyncDone, mirrorVars, Advanced
  <2> QED
    BY <1>1, <2>1, <2>2, <2>3, <2>4 DEF Delivers
<1>3. ASSUME NEW g \in heir, task.by = "watch", hears # NoId
      PROVE  toldDefault' = g \/ \E i : Sets(events', i)
  <2>1. CASE \E i : Sets(events', i)
    BY <2>1
  <2>2. CASE (\A i : ~ Sets(events', i)) /\ Sets(events, 1)
    <3>1. DeliversProperty
      BY <1>1, <2>2 DEF Delivers, DeliversAdd, DeliversRemove, DeliversDone, Shifted
    <3>2. Named(events[1].name) = {g} /\ Min({g}) = g
      BY <1>1, <1>3, <2>2, HeirResolved
    <3> QED
      BY <1>3, <3>1, <3>2 DEF DeliversProperty, PropertyChanged
  <2>3. CASE (\A i : ~ Sets(events', i)) /\ ~ Sets(events, 1)
    <3>1. \A i : ~ Sets(events, i)
      BY <1>1, <2>3 DEF Shifted
    <3>2. toldDefault = g
      BY <1>3, <3>1 DEF HeirFollows, HeirAlone
    <3>3. toldDefault' = toldDefault
      BY <1>1, <2>3 DEF Delivers, DeliversAdd, DeliversRemove, DeliversProperty, DeliversDone,
                        Global, GlobalRemove, SyncDone, mirrorVars, Shifted
    <3> QED
      BY <3>2, <3>3
  <2> QED
    BY <2>1, <2>2, <2>3
<1> QED
  BY <1>1, <1>2, <1>3, HeirDelivered

LEMMA HeirStep ==
  Typed /\ Mirroring /\ DefaultHeard /\ HeirFollows /\ [RegistryNext]_registryVars
    => HeirFollows'
<1> SUFFICES ASSUME Typed, Mirroring, DefaultHeard, HeirFollows, [RegistryNext]_registryVars
             PROVE  HeirFollows'
  OBVIOUS
<1> USE RegistryAssumption
<1>0. \A g \in heir : g \in Known /\ live[g] = Device(default)
  BY DEF HeirFollows, HeirIsDefault, IsDevice
<1>1. ASSUME NEW g \in 1 .. MaxGlobal, NEW o \in Objects, Announce(g, o) PROVE HeirFollows'
  <2> DEFINE e == [kind |-> "global", id |-> g, object |-> o]
  <2>1. e \in Events /\ e.kind = "global" /\ e.id = g
    BY EventsMade DEF Ids
  <2>2. /\ Known' = Known \union {g} /\ g \notin Known
        /\ \A h \in Known : live'[h] = live[h]
    BY <1>1, AnnounceTyped
  <2>3. Emits(e) /\ UNCHANGED <<default, devices, toldDefault, task, hears, heir>>
    BY <1>1 DEF Announce, Emit, Emits, clientSide, mirrorVars, queryVars
  <2> HIDE DEF e
  <2> QED
    BY <1>0, <2>1, <2>2, <2>3, HeirEmits
<1>2. ASSUME NEW g \in Known, Withdraw(g) PROVE HeirFollows'
  <2> DEFINE e == [kind |-> "remove", id |-> g]
  <2>1. e \in Events /\ e.kind = "remove"
    BY EventsMade DEF Ids, Typed
  <2>2. Known' = Known \ {g} /\ \A h \in Known' : live'[h] = live[h]
    BY <1>2, WithdrawTyped
  <2>3. /\ Emits(e) /\ UNCHANGED <<default, devices, toldDefault, task>>
        /\ hears' \in {hears, NoId} /\ heir' = heir \ {g}
    BY <1>2 DEF Withdraw, Emit, Emits, clientSide, mirrorVars, queryVars
  <2> HIDE DEF e
  <2> QED
    BY <1>0, <2>1, <2>2, <2>3, HeirEmits
<1>3. ASSUME NEW n \in Names, SetsDefault(n) PROVE HeirFollows'
  <2>1. /\ default' = n /\ UNCHANGED <<live, used, devices, toldDefault, task, hears>>
        /\ \A g \in heir' : g \in Known /\ live[g] = Device(n)
    BY <1>3 DEF SetsDefault, DevicesNamed, clientSide, mirrorVars, queryVars
  <2>2. CASE Emits(Property(n))
    BY <2>1, <2>2, HeirTold
  <2>3. CASE hears = NoId
    BY <2>1, <2>3 DEF HeirFollows, HeirIsDefault, HeirAlone, IsDevice, Device, Known
  <2> QED
    BY <1>3, <2>2, <2>3 DEF SetsDefault
<1>4. CASE ServesSync
  <2> DEFINE e == [kind |-> "done", seq |-> requests[1].seq]
  <2>1. e \in Events /\ e.kind = "done"
    BY <1>4, Shrunk, EventShapes, EventsMade DEF ServesSync, Typed
  <2>2. Emits(e) /\ UNCHANGED <<default, devices, toldDefault, task, hears, heir, live>>
    BY <1>4 DEF ServesSync, mirrorVars, queryVars
  <2>3. Known' = Known
    BY <2>2 DEF Known
  <2> HIDE DEF e
  <2> QED
    BY <1>0, <2>1, <2>2, <2>3, HeirEmits
<1>5. CASE ServesBind
  <2>1. UNCHANGED <<default, devices, toldDefault, task, heir, live, used>>
    BY <1>5 DEF ServesBind, mirrorVars, queryVars
  <2>2. CASE default # None /\ Emits(Property(default))
    <3>1. default \in Names
      BY <2>2 DEF Typed
    <3> QED
      BY <1>0, <2>1, <2>2, <3>1, HeirTold
  <2>3. CASE ~ (requests[1].id \in Known /\ default # None) /\ UNCHANGED events
    <3>1. hears' = NoId \/ heir = {}
      <4>1. CASE default # None
        BY <1>5, <2>3, <4>1 DEF ServesBind
      <4>2. ASSUME default = None, NEW g \in heir PROVE FALSE
        <5>1. g \in Known /\ live[g] = Device(None)
          BY <1>0, <4>2
        <5>2. live[g] \in Objects
          BY <5>1 DEF Typed
        <5>3. Device(None).class = "device" /\ Device(None).name = None
          BY DEF Device
        <5> QED
          BY <5>1, <5>2, <5>3, ObjectShapes
      <4> QED
        BY <4>1, <4>2
    <3> QED
      BY <2>1, <3>1 DEF HeirFollows, HeirIsDefault, HeirAlone, IsDevice, Known
  <2> QED
    BY <1>5, <2>2, <2>3 DEF ServesBind
<1>6. CASE Deliver
  BY <1>6, HeirDeliver, MirroringStep
<1>7. CASE Syncs \/ Returns \/ Bind \/ Leaves
  <2>1. UNCHANGED <<default, devices, toldDefault, task, hears, heir, live, events>>
    BY <1>7 DEF Syncs, Sync, Returns, Pumped, GiveUp, Bind, Leaves, PickDefault, AnswerQuery,
                WatchLive, WatchDropped, registryVars, daemonVars, mirrorVars, queryVars
  <2>2. Known' = Known
    BY <2>1 DEF Known
  <2> QED
    BY <1>0, <2>1, <2>2, HeirStands
<1> QED
  BY <1>1, <1>2, <1>3, <1>4, <1>5, <1>6, <1>7, StepCases

(* The roundtrips: the latest sync is asked for once, answered once, and   *)
(* nothing is asked for behind it before the thread goes on.               *)
Waits == {"pump1", "pump2", "answer"}

Numbers ==
  /\ done \in BOOLEAN
  /\ \A i, n : Sends(requests, i, n) => n <= awaited
  /\ \A i, n : Dones(events, i, n) => n <= awaited
AskedOnce ==
  /\ \A i, j : Sends(requests, i, awaited) /\ Sends(requests, j, awaited) => i = j
  /\ \A i, j : Dones(events, i, awaited) /\ Dones(events, j, awaited) => i = j
  /\ \A i, k : Sends(requests, i, awaited) => ~ done /\ ~ Dones(events, k, awaited)
  /\ \A k : done => ~ Dones(events, k, awaited)
AnswerComes ==
  /\ pc \in Waits /\ requests # <<>> => Sends(requests, Len(requests), awaited)
  /\ pc \in Waits /\ requests = <<>> => done \/ \E k : Dones(events, k, awaited)
  /\ pc = "answer" /\ "pump2" \notin gaveUp => done
Roundtrips == Numbers /\ AskedOnce /\ AnswerComes

LEMMA RoundtripsInit == RegistryInit => Roundtrips
<1> SUFFICES ASSUME RegistryInit PROVE Roundtrips
  OBVIOUS
<1>1. \A i, n : ~ Sends(requests, i, n)
  BY DEF RegistryInit, Sends
<1>2. \A i, n : ~ Dones(events, i, n)
  BY Dumped
<1> QED
  BY <1>1, <1>2 DEF RegistryInit, Roundtrips, Numbers, AskedOnce, AnswerComes, Waits

LEMMA RoundtripsStand ==
  ASSUME Roundtrips, UNCHANGED <<requests, awaited, done, pc, gaveUp>>,
         \A i, n : Dones(events', i, n) <=> Dones(events, i, n)
  PROVE  Roundtrips'
BY DEF Roundtrips, Numbers, AskedOnce, AnswerComes

LEMMA RoundtripsEmit ==
  ASSUME Typed, Roundtrips, NEW e \in Events, Emits(e), e.kind # "done",
         UNCHANGED <<requests, awaited, done, pc, gaveUp>>
  PROVE  Roundtrips'
<1>1. PICK N : Added(e, N)
  BY EmitsAdds
<1> QED
  BY <1>1, RoundtripsStand DEF Added

LEMMA RoundtripsServe ==
  ASSUME Typed, Roundtrips, ServesSync
  PROVE  Roundtrips'
<1> DEFINE e == [kind |-> "done", seq |-> requests[1].seq]
           n == requests[1].seq
<1>1. e \in Events /\ e.kind = "done" /\ e.seq = n
  BY Shrunk, EventShapes, EventsMade DEF ServesSync, Typed
<1>2. Emits(e) /\ UNCHANGED <<awaited, done, pc, gaveUp>> /\ requests[1].kind = "sync"
  BY DEF ServesSync
<1>3. PICK N : Added(e, N)
  BY <1>1, <1>2, EmitsAdds
<1>4. Served
  BY ServingServes DEF ServesSync
<1>5. Sends(requests, 1, n)
  BY <1>2, <1>4 DEF Served
<1> HIDE DEF e, n
<1>6. \A i, m : Dones(events', i, m) <=> Dones(events, i, m) \/ (i = N /\ m = n)
  BY <1>1, <1>3 DEF Added
<1>7. Numbers'
  BY <1>2, <1>4, <1>5, <1>6 DEF Served, Roundtrips, Numbers
<1>8. ASSUME NEW i, Sends(requests', i, awaited) PROVE n # awaited
  <2>1. i \in Nat \ {0} /\ Sends(requests, i + 1, awaited)
    BY <1>4, <1>8 DEF Served
  <2>2. n = awaited => i + 1 = 1
    BY <1>5, <2>1 DEF Roundtrips, AskedOnce
  <2> QED
    BY <2>1, <2>2
<1>9. AskedOnce'
  <2>1. \A i, j : Sends(requests', i, awaited) /\ Sends(requests', j, awaited) => i = j
    <3> SUFFICES ASSUME NEW i, NEW j, Sends(requests', i, awaited), Sends(requests', j, awaited)
                 PROVE  i = j
      OBVIOUS
    <3>1. i \in Nat /\ j \in Nat /\ i + 1 = j + 1
      BY <1>4 DEF Served, Roundtrips, AskedOnce
    <3> QED
      BY <3>1
  <2>2. \A i, j : Dones(events', i, awaited) /\ Dones(events', j, awaited) => i = j
    BY <1>5, <1>6 DEF Roundtrips, AskedOnce
  <2>3. \A i, k : Sends(requests', i, awaited) => ~ done /\ ~ Dones(events', k, awaited)
    BY <1>4, <1>6, <1>8 DEF Served, Roundtrips, AskedOnce
  <2>4. \A k : done => ~ Dones(events', k, awaited)
    BY <1>5, <1>6 DEF Roundtrips, AskedOnce
  <2> QED
    BY <1>2, <2>1, <2>2, <2>3, <2>4 DEF AskedOnce
<1>10. AnswerComes'
  <2>1. ASSUME pc \in Waits, requests' # <<>> PROVE Sends(requests', Len(requests'), awaited)
    <3>1. /\ requests # <<>> /\ requests'[Len(requests')] = requests[Len(requests)]
          /\ Sends(requests, Len(requests), awaited)
      BY <1>4, <2>1 DEF Served, Roundtrips, AnswerComes, ServesSync
    <3>2. Len(requests') \in DOMAIN requests'
      <4>1. requests' \in Seq(Requests)
        BY Shrunk DEF Typed, ServesSync
      <4> QED
        BY <2>1, <4>1, EmptySeq
    <3> QED
      BY <3>1, <3>2 DEF Sends
  <2>2. ASSUME pc \in Waits, requests' = <<>> PROVE \E k : Dones(events', k, awaited)
    <3>1. Len(requests) = 1 /\ Sends(requests, Len(requests), awaited)
      BY <1>4, <2>2 DEF Served, Roundtrips, AnswerComes, ServesSync
    <3>2. n = awaited
      BY <3>1 DEF Sends, n
    <3> QED
      BY <1>6, <3>2
  <2> QED
    BY <1>2, <2>1, <2>2 DEF Roundtrips, AnswerComes
<1> QED
  BY <1>7, <1>9, <1>10 DEF Roundtrips

LEMMA RoundtripsBind ==
  ASSUME Typed, Roundtrips, ServesBind
  PROVE  Roundtrips'
<1>1. UNCHANGED <<awaited, done, pc, gaveUp>> /\ requests[1].kind = "bind"
  BY DEF ServesBind
<1>2. Served
  BY ServingServes DEF ServesBind
<1>3. \A i, m : Dones(events', i, m) <=> Dones(events, i, m)
  <2>1. CASE UNCHANGED events
    BY <2>1
  <2>2. CASE default # None /\ Emits(Property(default))
    <3>1. Property(default) \in Events /\ Property(default).kind = "property"
      BY <2>2, EventsMade DEF Property, Typed
    <3>2. PICK N : Added(Property(default), N)
      BY <2>2, <3>1, EmitsAdds
    <3> QED
      BY <3>1, <3>2 DEF Added
  <2> QED
    BY <2>1, <2>2 DEF ServesBind
<1>4. Numbers'
  BY <1>1, <1>2, <1>3 DEF Served, Roundtrips, Numbers
<1>5. AskedOnce'
  <2>1. \A i, j : Sends(requests', i, awaited) /\ Sends(requests', j, awaited) => i = j
    <3> SUFFICES ASSUME NEW i, NEW j, Sends(requests', i, awaited), Sends(requests', j, awaited)
                 PROVE  i = j
      OBVIOUS
    <3>1. i \in Nat /\ j \in Nat /\ i + 1 = j + 1
      BY <1>2 DEF Served, Roundtrips, AskedOnce
    <3> QED
      BY <3>1
  <2> QED
    BY <1>1, <1>2, <1>3, <2>1 DEF Served, Roundtrips, AskedOnce
<1>6. AnswerComes'
  <2>1. ASSUME pc \in Waits, requests' # <<>> PROVE Sends(requests', Len(requests'), awaited)
    <3>1. /\ requests # <<>> /\ requests'[Len(requests')] = requests[Len(requests)]
          /\ Sends(requests, Len(requests), awaited)
      BY <1>2, <2>1 DEF Served, Roundtrips, AnswerComes, ServesBind
    <3>2. Len(requests') \in DOMAIN requests'
      <4>1. requests' \in Seq(Requests)
        BY Shrunk DEF Typed, ServesBind
      <4> QED
        BY <2>1, <4>1, EmptySeq
    <3> QED
      BY <3>1, <3>2 DEF Sends
  <2>2. ASSUME pc \in Waits, requests' = <<>> PROVE FALSE
    <3>1. Len(requests) = 1 /\ Sends(requests, Len(requests), awaited)
      BY <1>2, <2>2 DEF Served, Roundtrips, AnswerComes, ServesBind
    <3> QED
      BY <1>1, <3>1 DEF Sends
  <2> QED
    BY <1>1, <2>1, <2>2 DEF Roundtrips, AnswerComes
<1> QED
  BY <1>4, <1>5, <1>6 DEF Roundtrips

LEMMA RoundtripsDeliver ==
  ASSUME Typed, Roundtrips, Deliver
  PROVE  Roundtrips'
<1>1. /\ Shifted /\ Delivers /\ Pumping /\ events[1] \in Events
      /\ UNCHANGED <<requests, pc, awaited, gaveUp>>
  BY DeliverAdvances, DeliverShifts
<1>2. \A i, n : Dones(events', i, n) => i \in Nat \ {0} /\ Dones(events, i + 1, n)
  BY <1>1 DEF Shifted
<1>3. /\ done' \in BOOLEAN /\ (done => done')
      /\ Dones(events, 1, awaited) => done'
      /\ done' => done \/ Dones(events, 1, awaited)
  <2>1. CASE DeliversDone
    <3>1. done' = (done \/ events[1].seq >= awaited) /\ events[1].kind = "done"
      BY <2>1 DEF DeliversDone, SyncDone
    <3>2. Dones(events, 1, events[1].seq) /\ events[1].seq \in Nat /\ awaited \in Nat
      BY <1>1, <3>1, EventShapes DEF Shifted, Typed
    <3>3. events[1].seq <= awaited
      BY <3>2 DEF Roundtrips, Numbers
    <3>4. events[1].seq >= awaited <=> Dones(events, 1, awaited)
      BY <1>1, <3>1, <3>2, <3>3 DEF Shifted
    <3> QED
      BY <3>1, <3>4 DEF Roundtrips, Numbers
  <2>2. CASE ~ DeliversDone
    BY <1>1, <2>2 DEF Delivers, DeliversAdd, DeliversRemove, DeliversProperty, Shifted,
                      Roundtrips, Numbers
  <2> QED
    BY <2>1, <2>2
<1>4. Numbers'
  BY <1>1, <1>2, <1>3 DEF Roundtrips, Numbers
<1>5. AskedOnce'
  <2>1. \A i, j : Dones(events', i, awaited) /\ Dones(events', j, awaited) => i = j
    <3> SUFFICES ASSUME NEW i, NEW j, Dones(events', i, awaited), Dones(events', j, awaited)
                 PROVE  i = j
      OBVIOUS
    <3>1. i \in Nat /\ j \in Nat /\ i + 1 = j + 1
      BY <1>2 DEF Roundtrips, AskedOnce
    <3> QED
      BY <3>1
  <2>2. \A i, k : Sends(requests, i, awaited) => ~ done' /\ ~ Dones(events', k, awaited)
    BY <1>2, <1>3 DEF Roundtrips, AskedOnce
  <2>3. ASSUME NEW k, done', Dones(events', k, awaited) PROVE FALSE
    <3>1. k \in Nat \ {0} /\ Dones(events, k + 1, awaited)
      BY <1>2, <2>3
    <3>2. Dones(events, 1, awaited)
      BY <1>3, <2>3, <3>1 DEF Roundtrips, AskedOnce
    <3>3. k + 1 = 1
      BY <3>1, <3>2 DEF Roundtrips, AskedOnce
    <3> QED
      BY <3>1, <3>3
  <2> QED
    BY <1>1, <2>1, <2>2, <2>3 DEF Roundtrips, AskedOnce
<1>6. AnswerComes'
  <2>1. ASSUME pc \in Waits, requests = <<>> PROVE done' \/ \E k : Dones(events', k, awaited)
    <3>1. done \/ \E k : Dones(events, k, awaited)
      BY <2>1 DEF Roundtrips, AnswerComes
    <3>2. ASSUME NEW k, Dones(events, k, awaited) PROVE done' \/ \E l : Dones(events', l, awaited)
      BY <1>1, <1>3, <3>2 DEF Shifted
    <3> QED
      BY <1>3, <3>1, <3>2
  <2> QED
    BY <1>1, <2>1 DEF Roundtrips, AnswerComes, Pumping
<1> QED
  BY <1>4, <1>5, <1>6 DEF Roundtrips

LEMMA RoundtripsSync ==
  ASSUME Typed, Roundtrips, Syncs
  PROVE  Roundtrips'
<1> DEFINE r == [kind |-> "sync", seq |-> awaited + 1]
<1>1. r \in Requests /\ r.kind = "sync" /\ r.seq = awaited + 1 /\ awaited \in Nat
  BY EventsMade DEF Typed
<1>2. Asks(r)
  BY AskedFor DEF Syncs
<1>3. PICK N : Queued(r, N)
  BY <1>1, <1>2, AsksQueues
<1>4. /\ awaited' = awaited + 1 /\ done' = FALSE /\ events' = events
      /\ pc' \in {"pump1", "pump2"}
  BY DEF Syncs, Sync
<1> HIDE DEF r
<1>5. \A i, n : Sends(requests', i, n) <=> Sends(requests, i, n) \/ (i = N /\ n = awaited')
  BY <1>1, <1>3, <1>4 DEF Queued
<1>6. /\ \A i, n : Sends(requests, i, n) => n \in Nat /\ n < awaited'
      /\ \A i, n : Dones(events, i, n) => n \in Nat /\ n < awaited'
  <2>1. ASSUME NEW i, NEW n, Sends(requests, i, n) PROVE n \in Nat /\ n < awaited'
    <3>1. requests[i] \in Requests /\ requests[i].kind = "sync" /\ requests[i].seq = n
      BY <2>1 DEF Sends, Typed
    <3>2. n \in Nat /\ n <= awaited
      BY <2>1, <3>1, EventShapes DEF Roundtrips, Numbers
    <3> QED
      BY <1>1, <1>4, <3>2
  <2>2. ASSUME NEW i, NEW n, Dones(events, i, n) PROVE n \in Nat /\ n < awaited'
    <3>1. events[i] \in Events /\ events[i].kind = "done" /\ events[i].seq = n
      BY <2>2 DEF Dones, Typed
    <3>2. n \in Nat /\ n <= awaited
      BY <2>2, <3>1, EventShapes DEF Roundtrips, Numbers
    <3> QED
      BY <1>1, <1>4, <3>2
  <2> QED
    BY <2>1, <2>2
<1>7. awaited' \in Nat
  BY <1>1, <1>4
<1>8. Numbers'
  <2>1. \A i, n : Sends(requests', i, n) => n <= awaited'
    BY <1>5, <1>6, <1>7
  <2>2. \A i, n : Dones(events', i, n) => n <= awaited'
    BY <1>4, <1>6, <1>7
  <2> QED
    BY <1>4, <2>1, <2>2 DEF Numbers
<1>9. AskedOnce'
  BY <1>4, <1>5, <1>6, <1>7 DEF AskedOnce
<1>10. AnswerComes'
  BY <1>1, <1>3, <1>4, <1>5 DEF AnswerComes, Queued
<1> QED
  BY <1>8, <1>9, <1>10 DEF Roundtrips

LEMMA RoundtripsStep ==
  Typed /\ Roundtrips /\ [RegistryNext]_registryVars => Roundtrips'
<1> SUFFICES ASSUME Typed, Roundtrips, [RegistryNext]_registryVars PROVE Roundtrips'
  OBVIOUS
<1> USE RegistryAssumption
<1>1. ASSUME NEW g \in 1 .. MaxGlobal, NEW o \in Objects, Announce(g, o) PROVE Roundtrips'
  <2> DEFINE e == [kind |-> "global", id |-> g, object |-> o]
  <2>1. e \in Events /\ e.kind # "done"
    BY EventsMade DEF Ids
  <2>2. Emits(e) /\ UNCHANGED <<requests, awaited, done, pc, gaveUp>>
    BY <1>1 DEF Announce, Emit, Emits, clientSide
  <2> HIDE DEF e
  <2> QED
    BY <2>1, <2>2, RoundtripsEmit
<1>2. ASSUME NEW g \in Known, Withdraw(g) PROVE Roundtrips'
  <2> DEFINE e == [kind |-> "remove", id |-> g]
  <2>1. e \in Events /\ e.kind # "done"
    BY EventsMade DEF Ids, Typed
  <2>2. Emits(e) /\ UNCHANGED <<requests, awaited, done, pc, gaveUp>>
    BY <1>2 DEF Withdraw, Emit, Emits, clientSide
  <2> HIDE DEF e
  <2> QED
    BY <2>1, <2>2, RoundtripsEmit
<1>3. ASSUME NEW n \in Names, SetsDefault(n) PROVE Roundtrips'
  <2>1. Property(n) \in Events /\ Property(n).kind # "done"
    BY EventsMade DEF Property
  <2>2. UNCHANGED <<requests, awaited, done, pc, gaveUp>>
    BY <1>3 DEF SetsDefault, clientSide
  <2> QED
    BY <1>3, <2>1, <2>2, RoundtripsEmit, RoundtripsStand DEF SetsDefault
<1>4. CASE Returns
  BY <1>4 DEF Returns, Pumped, GiveUp, Roundtrips, Numbers, AskedOnce, AnswerComes, Waits
<1>5. CASE Bind
  <2>1. UNCHANGED <<awaited, done, events, gaveUp>> /\ pc' = "sync2"
    BY <1>5 DEF Bind
  <2>2. \A i, n : Sends(requests', i, n) <=> Sends(requests, i, n)
    <3>1. CASE bound = NoId /\ metaId # NoId
      <4> DEFINE r == [kind |-> "bind", id |-> metaId]
      <4>1. r \in Requests /\ r.kind # "sync"
        BY <3>1, EventsMade DEF Typed, NoId, Ids
      <4>2. Asks(r)
        BY <1>5, <3>1, AskedFor
      <4> HIDE DEF r
      <4>3. PICK N : Queued(r, N)
        BY <4>1, <4>2, AsksQueues
      <4> QED
        BY <4>1, <4>3 DEF Queued
    <3>2. CASE ~ (bound = NoId /\ metaId # NoId)
      BY <1>5, <3>2 DEF Bind, BindTo
    <3> QED
      BY <3>1, <3>2
  <2> QED
    BY <2>1, <2>2 DEF Roundtrips, Numbers, AskedOnce, AnswerComes, Waits
<1>6. CASE Leaves
  <2>1. /\ UNCHANGED <<awaited, done, events, requests, gaveUp>>
        /\ pc' \in {"sync1", "over", "live"} \/ pc' = pc
    BY <1>6 DEF Leaves, PickDefault, AnswerQuery, WatchLive, WatchDropped, registryVars
  <2> QED
    BY <2>1 DEF Roundtrips, Numbers, AskedOnce, AnswerComes, Waits
<1> QED
  BY <1>1, <1>2, <1>3, <1>4, <1>5, <1>6, RoundtripsServe, RoundtripsBind, RoundtripsDeliver,
     RoundtripsSync, StepCases

(* The window of the latest sync, as seen from the client: what was there  *)
(* all the time has been announced before the answer, and what is mirrored *)
(* was there at some time or is withdrawn before the answer.               *)
Before(i) == \E k : Dones(events, k, awaited) /\ i < k
Settled == pc \in Waits /\ requests = <<>>
Recorded(g) == g \in DOMAIN devices \union DOMAIN apps \/ \E i : Adds(events, i, g)

Windows ==
  [always : SUBSET Nat, ever : SUBSET Nat, names : SUBSET (Names \union {None}), first : SUBSET Nat]
Windowed ==
  /\ window \in Windows
  /\ window.always \subseteq Known /\ window.first \subseteq Known
WindowSeen ==
  Settled =>
    /\ \A g \in window.always : \A i : Adds(events, i, g) => Before(i)
    /\ \A g : Recorded(g) => g \in window.ever \/ \E j : Removes(events, j, g) /\ Before(j)
WindowFits == Windowed /\ WindowSeen

LEMMA WindowInit == RegistryInit => WindowFits
<1> SUFFICES ASSUME RegistryInit PROVE WindowFits
  OBVIOUS
<1>1. used \in Nat /\ Known = 1 .. used
  BY Dumped
<1>2. window \in Windows
  BY <1>1 DEF RegistryInit, Windows
<1>3. window.always = {} /\ window.first = Known /\ ~ Settled
  BY DEF RegistryInit, Settled, Waits
<1> QED
  BY <1>2, <1>3 DEF WindowFits, Windowed, WindowSeen

LEMMA KnownNat == Typed => Known \subseteq Nat /\ Known \in SUBSET Nat
BY RegistryAssumption DEF Typed

(* The daemon's objects change.                                            *)
LEMMA WindowGrows ==
  ASSUME WindowFits, Windowed', UNCHANGED <<requests, pc, awaited, devices, apps>>,
         window'.always \subseteq window.always, window.ever \subseteq window'.ever,
         \A i, n : Dones(events, i, n) => Dones(events', i, n),
         \A i, g : Removes(events, i, g) => Removes(events', i, g),
         \A i, g : Adds(events', i, g) =>
                     Adds(events, i, g) \/ (g \notin window'.always /\ g \in window'.ever)
  PROVE  WindowFits'
<1>1. \A i : Before(i) => Before(i)'
  BY DEF Before
<1>2. Settled' <=> Settled
  BY DEF Settled
<1>3. ASSUME Settled, NEW g \in window'.always, NEW i, Adds(events', i, g) PROVE Before(i)'
  BY <1>1, <1>3 DEF WindowFits, WindowSeen
<1>4. ASSUME Settled, NEW g, Recorded(g)'
      PROVE  g \in window'.ever \/ \E j : Removes(events', j, g) /\ Before(j)'
  <2>1. Recorded(g) \/ g \in window'.ever
    BY <1>4 DEF Recorded
  <2> QED
    BY <1>1, <1>4, <2>1 DEF WindowFits, WindowSeen
<1> QED
  BY <1>2, <1>3, <1>4 DEF WindowFits, WindowSeen

LEMMA WindowServed ==
  ASSUME Typed, Mirroring, Roundtrips, WindowFits, ServesSync
  PROVE  WindowFits'
<1> DEFINE e == [kind |-> "done", seq |-> requests[1].seq]
           n == requests[1].seq
<1>1. e \in Events /\ e.kind = "done" /\ e.seq = n
  BY Shrunk, EventShapes, EventsMade DEF ServesSync, Typed
<1>2. /\ Emits(e) /\ UNCHANGED <<live, awaited, devices, apps, pc>> /\ requests[1].kind = "sync"
      /\ window' = [window EXCEPT !.always = Known, !.ever = Known, !.names = {default}]
  BY DEF ServesSync, mirrorVars
<1>3. PICK N : Added(e, N)
  BY <1>1, <1>2, EmitsAdds
<1>4. Served
  BY ServingServes DEF ServesSync
<1> HIDE DEF e, n
<1>5. /\ N \in Nat
      /\ \A i, m : Dones(events', i, m) <=> Dones(events, i, m) \/ (i = N /\ m = n)
      /\ \A i, g : Adds(events', i, g) <=> Adds(events, i, g)
      /\ \A i, g : Adds(events, i, g) => i \in Nat /\ i < N
      /\ \A i, g : Removes(events', i, g) <=> Removes(events, i, g)
      /\ \A i, g : Removes(events, i, g) => i \in Nat /\ i < N
  BY <1>1, <1>3 DEF Added
<1>6. Known' = Known
  BY <1>2 DEF Known
<1>7. Windowed' /\ window'.always = Known /\ window'.ever = Known
  <2>1. /\ window' \in Windows /\ window'.always = Known /\ window'.ever = Known
        /\ window'.first = window.first
    BY <1>2, KnownNat DEF WindowFits, Windowed, Windows, Typed
  <2> QED
    BY <1>6, <2>1 DEF WindowFits, Windowed
<1>8. CASE Settled'
  <2>1. n = awaited
    <3>1. pc \in Waits /\ requests' = <<>>
      BY <1>2, <1>8 DEF Settled
    <3>2. Len(requests) = 1 /\ Sends(requests, Len(requests), awaited)
      BY <1>4, <3>1 DEF Served, Roundtrips, AnswerComes, ServesSync
    <3> QED
      BY <3>2 DEF Sends, n
  <2>2. \A i, g : Adds(events', i, g) \/ Removes(events', i, g) => Before(i)'
    BY <1>2, <1>5, <2>1 DEF Before
  <2>3. ASSUME NEW g, Recorded(g)' PROVE g \in Known \/ \E j : Removes(events', j, g)
    <3>1. Recorded(g)
      BY <1>2, <1>5, <2>3 DEF Recorded
    <3>2. g \in Known \/ \E j : Removes(events, j, g)
      BY <3>1 DEF Recorded, Mirroring, Mirrored, AnnouncedOnce
    <3> QED
      BY <1>5, <3>2
  <2> QED
    BY <1>7, <2>2, <2>3 DEF WindowFits, WindowSeen
<1> QED
  BY <1>7, <1>8 DEF WindowFits, WindowSeen

LEMMA WindowDelivered ==
  ASSUME Typed, Mirroring, Mirroring', WindowFits, Deliver
  PROVE  WindowFits'
<1>1. /\ Advanced /\ Shifted /\ Delivers /\ events[1] \in Events
      /\ UNCHANGED <<live, window, requests, pc, awaited>>
  BY DeliverAdvances, DeliverShifts DEF daemonVars
<1>2. Known' = Known /\ (Settled' <=> Settled) /\ Windowed'
  BY <1>1 DEF Known, Settled, WindowFits, Windowed
<1>3. ASSUME NEW i \in Nat \ {0}, Before(i + 1) PROVE Before(i)'
  <2>1. PICK k : Dones(events, k, awaited) /\ i + 1 < k
    BY <1>3 DEF Before
  <2>2. k \in Nat /\ k # 1 /\ Dones(events', k - 1, awaited) /\ i < k - 1
    BY <1>1, <2>1 DEF Shifted
  <2> QED
    BY <1>1, <2>2 DEF Before
<1>4. ASSUME Settled, NEW g \in window.always, NEW i, Adds(events', i, g) PROVE Before(i)'
  <2>1. i \in Nat \ {0} /\ Adds(events, i + 1, g)
    BY <1>1, <1>4 DEF Advanced
  <2>2. Before(i + 1)
    BY <1>4, <2>1 DEF WindowFits, WindowSeen
  <2> QED
    BY <1>3, <2>1, <2>2
<1>5. ASSUME NEW g, Recorded(g)' PROVE Recorded(g) /\ ~ Removes(events, 1, g)
  <2>1. CASE \E i : Adds(events', i, g)
    <3>1. PICK i : Adds(events', i, g)
      BY <2>1
    <3>2. i \in Nat \ {0} /\ Adds(events, i + 1, g)
      BY <1>1, <3>1 DEF Advanced
    <3>3. Removes(events, 1, g) => i + 1 < 1
      BY <3>2 DEF Mirroring, AnnouncedOnce
    <3> QED
      BY <3>2, <3>3 DEF Recorded
  <2>2. CASE g \in DOMAIN devices' \union DOMAIN apps'
    <3>1. CASE DeliversAdd
      BY <1>1, <2>2, <3>1 DEF DeliversAdd, Global, With, Advanced, Recorded
    <3>2. CASE DeliversRemove
      BY <1>1, <2>2, <3>2 DEF DeliversRemove, GlobalRemove, Advanced, Recorded
    <3>3. CASE DeliversProperty \/ DeliversDone
      BY <1>1, <2>2, <3>3 DEF DeliversProperty, DeliversDone, PropertyChanged, SyncDone, mirrorVars,
                              Advanced, Recorded
    <3> QED
      BY <1>1, <3>1, <3>2, <3>3 DEF Delivers
  <2> QED
    BY <1>5, <2>1, <2>2 DEF Recorded
<1>6. ASSUME Settled, NEW g, Recorded(g)'
      PROVE  g \in window.ever \/ \E j : Removes(events', j, g) /\ Before(j)'
  <2>1. Recorded(g) /\ ~ Removes(events, 1, g)
    BY <1>5, <1>6
  <2>2. ASSUME NEW j, Removes(events, j, g), Before(j)
        PROVE  \E m : Removes(events', m, g) /\ Before(m)'
    <3>1. j \in Nat \ {0} /\ j # 1 /\ Removes(events', j - 1, g)
      BY <1>1, <2>1, <2>2 DEF Advanced
    <3>2. j - 1 \in Nat \ {0} /\ (j - 1) + 1 = j
      BY <3>1
    <3>3. Before(j - 1)'
      BY <1>3, <2>2, <3>2
    <3> QED
      BY <3>1, <3>3
  <2> QED
    BY <1>6, <2>1, <2>2 DEF WindowFits, WindowSeen
<1> QED
  BY <1>1, <1>2, <1>4, <1>6 DEF WindowFits, WindowSeen

LEMMA WindowStep ==
  Typed /\ Mirroring /\ Roundtrips /\ WindowFits /\ [RegistryNext]_registryVars => WindowFits'
<1> SUFFICES ASSUME Typed, Mirroring, Roundtrips, WindowFits, [RegistryNext]_registryVars
             PROVE  WindowFits'
  OBVIOUS
<1> USE RegistryAssumption
<1>1. ASSUME NEW g \in 1 .. MaxGlobal, NEW o \in Objects, Announce(g, o) PROVE WindowFits'
  <2> DEFINE e == [kind |-> "global", id |-> g, object |-> o]
  <2>1. e \in Events /\ e.kind = "global" /\ e.id = g
    BY EventsMade DEF Ids
  <2>2. /\ Emits(e) /\ UNCHANGED <<requests, pc, awaited, devices, apps>>
        /\ window' = [window EXCEPT !.ever = @ \union {g}]
    BY <1>1 DEF Announce, Emit, Emits, clientSide, mirrorVars
  <2>3. Known' = Known \union {g} /\ g \notin Known
    BY <1>1, AnnounceTyped
  <2> HIDE DEF e
  <2>4. /\ window' \in Windows /\ window'.always = window.always
        /\ window'.ever = window.ever \union {g} /\ window'.first = window.first
    BY <2>2 DEF WindowFits, Windowed, Windows
  <2>5. Windowed'
    BY <2>3, <2>4 DEF WindowFits, Windowed
  <2>6. PICK N : Added(e, N)
    BY <2>1, <2>2, EmitsAdds
  <2>7. g \notin window'.always
    BY <2>3, <2>4 DEF WindowFits, Windowed
  <2>8. /\ \A i, n : Dones(events, i, n) => Dones(events', i, n)
        /\ \A i, h : Removes(events, i, h) => Removes(events', i, h)
        /\ \A i, h : Adds(events', i, h) => Adds(events, i, h) \/ h = g
    BY <2>1, <2>6 DEF Added
  <2> QED
    BY <2>2, <2>4, <2>5, <2>7, <2>8, WindowGrows
<1>2. ASSUME NEW g \in Known, Withdraw(g) PROVE WindowFits'
  <2> DEFINE e == [kind |-> "remove", id |-> g]
  <2>1. e \in Events /\ e.kind = "remove"
    BY EventsMade DEF Ids, Typed
  <2>2. /\ Emits(e) /\ UNCHANGED <<requests, pc, awaited, devices, apps>>
        /\ window' = [window EXCEPT !.always = @ \ {g}, !.first = @ \ {g}]
    BY <1>2 DEF Withdraw, Emit, Emits, clientSide, mirrorVars
  <2>3. Known' = Known \ {g}
    BY <1>2, WithdrawTyped
  <2> HIDE DEF e
  <2>4. /\ window' \in Windows /\ window'.always = window.always \ {g}
        /\ window'.ever = window.ever /\ window'.first = window.first \ {g}
    BY <2>2 DEF WindowFits, Windowed, Windows
  <2>5. Windowed'
    BY <2>3, <2>4 DEF WindowFits, Windowed
  <2>6. PICK N : Added(e, N)
    BY <2>1, <2>2, EmitsAdds
  <2>7. /\ \A i, n : Dones(events, i, n) => Dones(events', i, n)
        /\ \A i, h : Removes(events, i, h) => Removes(events', i, h)
        /\ \A i, h : Adds(events', i, h) => Adds(events, i, h)
    BY <2>1, <2>6 DEF Added
  <2> QED
    BY <2>2, <2>4, <2>5, <2>7, WindowGrows
<1>3. ASSUME NEW n \in Names, SetsDefault(n) PROVE WindowFits'
  <2>1. /\ UNCHANGED <<live, requests, pc, awaited, devices, apps>>
        /\ window' = [window EXCEPT !.names = @ \union {n}]
    BY <1>3 DEF SetsDefault, clientSide, mirrorVars
  <2>2. /\ window' \in Windows /\ window'.always = window.always
        /\ window'.ever = window.ever /\ window'.first = window.first
    BY <2>1 DEF WindowFits, Windowed, Windows
  <2>3. Windowed'
    BY <2>1, <2>2 DEF WindowFits, Windowed, Known
  <2>4. CASE Emits(Property(n))
    <3>1. Property(n) \in Events /\ Property(n).kind = "property"
      BY EventsMade DEF Property
    <3>2. PICK N : Added(Property(n), N)
      BY <2>4, <3>1, EmitsAdds
    <3>3. /\ \A i, m : Dones(events, i, m) => Dones(events', i, m)
          /\ \A i, h : Removes(events, i, h) => Removes(events', i, h)
          /\ \A i, h : Adds(events', i, h) => Adds(events, i, h)
      BY <3>1, <3>2 DEF Added
    <3> QED
      BY <2>1, <2>2, <2>3, <3>3, WindowGrows
  <2>5. CASE UNCHANGED events
    BY <2>1, <2>2, <2>3, <2>5, WindowGrows
  <2> QED
    BY <1>3, <2>4, <2>5 DEF SetsDefault
<1>4. CASE ServesBind
  <2>1. UNCHANGED <<live, window, pc>> /\ requests # <<>> /\ requests[1].kind = "bind"
    BY <1>4 DEF ServesBind
  <2>2. Served
    BY <1>4, ServingServes DEF ServesBind
  <2>3. ~ Settled'
    <3> SUFFICES ASSUME pc \in Waits, requests' = <<>> PROVE FALSE
      BY <2>1 DEF Settled
    <3>1. Len(requests) = 1 /\ Sends(requests, Len(requests), awaited)
      BY <2>1, <2>2 DEF Served, Roundtrips, AnswerComes
    <3> QED
      BY <2>1, <3>1 DEF Sends
  <2> QED
    BY <2>1, <2>3 DEF WindowFits, Windowed, WindowSeen, Known
<1>5. CASE Deliver
  BY <1>5, WindowDelivered, MirroringStep
<1>6. CASE Syncs
  <2>1. UNCHANGED <<live, window>>
    BY <1>6 DEF Syncs, Sync, daemonVars
  <2>2. requests' # <<>>
    <3> DEFINE r == [kind |-> "sync", seq |-> awaited + 1]
    <3>1. r \in Requests
      BY EventsMade DEF Typed
    <3>2. Asks(r)
      BY <1>6, AskedFor DEF Syncs
    <3> HIDE DEF r
    <3> QED
      BY <3>1, <3>2, AsksQueues DEF Queued
  <2> QED
    BY <2>1, <2>2 DEF WindowFits, Windowed, WindowSeen, Known, Settled
<1>7. CASE Bind
  BY <1>7 DEF Bind, daemonVars, WindowFits, Windowed, WindowSeen, Known, Settled, Waits
<1>8. CASE Returns \/ Leaves
  <2>1. /\ UNCHANGED <<live, window, events, requests, awaited, devices, apps>>
        /\ pc' \in Waits => pc \in Waits
    BY <1>8 DEF Returns, Pumped, GiveUp, Leaves, PickDefault, AnswerQuery, WatchLive, WatchDropped,
                registryVars, daemonVars, mirrorVars, Waits
  <2> QED
    BY <2>1 DEF WindowFits, Windowed, WindowSeen, Known, Settled, Recorded, Before
<1> QED
  BY <1>1, <1>2, <1>3, <1>4, <1>5, <1>6, <1>7, <1>8, WindowServed, StepCases

(* A metadata object that was there from the start is the only one the     *)
(* client hears of, and it hears of it before any answer.                  *)
Original(g) == g \in window.first /\ IsMeta(g)
OriginalSeen(g) ==
  /\ \A i, h : Adds(events, i, h) /\ events[i].object.class = "meta" => h = g
  /\ metaId = g \/ (metaId = NoId /\ \E i : Adds(events, i, g))
  /\ bound \in {NoId, g}
  /\ \A i : Adds(events, i, g) => ~ done /\ \A k, n : Dones(events, k, n) => i < k
  /\ pc = "bind" /\ "pump1" \notin gaveUp => metaId = g
  /\ pc \in {"sync2", "pump2", "answer"} /\ "pump1" \notin gaveUp => bound = g
OriginalFound == \A g : Original(g) => OriginalSeen(g)

LEMMA OriginalInit == RegistryInit => OriginalFound
<1> SUFFICES ASSUME RegistryInit, NEW g, Original(g) PROVE OriginalSeen(g)
  BY DEF OriginalFound
<1>1. /\ used \in Nat /\ Known = 1 .. used /\ live \in [1 .. used -> Objects]
      /\ \A i, h : Adds(events, i, h) <=> i \in 1 .. used /\ h = i
      /\ \A i \in 1 .. used : events[i].object = live[i]
      /\ \A i, n : ~ Dones(events, i, n)
  BY Dumped
<1>2. g \in Known /\ live[g].class = "meta"
  BY DEF Original, IsMeta
<1>3. ASSUME NEW i, NEW h, Adds(events, i, h), events[i].object.class = "meta" PROVE h = g
  <2>1. h \in Known /\ live[h].class = "meta"
    BY <1>1, <1>3
  <2>2. live[h] = live[g]
    BY <1>1, <1>2, <2>1, ObjectShapes
  <2> QED
    BY <1>2, <2>1, <2>2 DEF RegistryInit
<1> QED
  BY <1>1, <1>2, <1>3 DEF RegistryInit, OriginalSeen

(* The daemon emits, and no metadata object comes up.                      *)
LEMMA OriginalEmits ==
  ASSUME Typed, OriginalFound, NEW e \in Events, Emits(e), NEW g, Original(g),
         UNCHANGED <<metaId, bound, done, pc, gaveUp>>,
         e.kind = "global" => e.id # g /\ e.object.class # "meta"
  PROVE  OriginalSeen(g)'
<1>1. PICK N : Added(e, N)
  BY EmitsAdds
<1>2. /\ N \in Nat
      /\ \A i, h : Adds(events', i, h) => Adds(events, i, h) \/ (i = N /\ e.kind = "global" /\ e.id = h)
      /\ \A i, h : Adds(events, i, h) => Adds(events', i, h) /\ i < N /\ events'[i] = events[i]
      /\ events'[N] = e
      /\ \A k, n : Dones(events', k, n) => Dones(events, k, n) \/ k = N
  BY <1>1 DEF Added
<1>3. OriginalSeen(g)
  BY DEF OriginalFound
<1>4. \A i, h : Adds(events', i, h) /\ events'[i].object.class = "meta" => h = g
  BY <1>2, <1>3 DEF OriginalSeen
<1>5. \A i : Adds(events', i, g) => Adds(events, i, g) /\ i < N
  BY <1>2
<1>6. \A i : Adds(events', i, g) => ~ done /\ \A k, n : Dones(events', k, n) => i < k
  BY <1>2, <1>3, <1>5 DEF OriginalSeen
<1> QED
  BY <1>2, <1>3, <1>4, <1>6 DEF OriginalSeen

LEMMA OriginalDelivered ==
  ASSUME Typed, Mirroring, Roundtrips, OriginalFound, Deliver, NEW g, Original(g)
  PROVE  OriginalSeen(g)'
<1>1. /\ Advanced /\ Shifted /\ Delivers /\ events[1] \in Events /\ Pumping
      /\ UNCHANGED <<pc, gaveUp>>
  BY DeliverAdvances, DeliverShifts
<1>2. OriginalSeen(g) /\ g \in Known /\ live[g].class = "meta"
  BY DEF OriginalFound, Original, IsMeta
<1>3. \A i, h : Adds(events', i, h) /\ events'[i].object.class = "meta" => h = g
  BY <1>1, <1>2 DEF OriginalSeen, Advanced
<1>4. bound' = bound
  BY <1>1 DEF Delivers, DeliversAdd, DeliversRemove, DeliversProperty, DeliversDone, Global,
              GlobalRemove, PropertyChanged, SyncDone, mirrorVars
<1>5. metaId' = g \/ (metaId' = NoId /\ \E i : Adds(events', i, g))
  <2>1. CASE DeliversAdd
    <3>1. Adds(events, 1, events[1].id)
      BY <1>1, <2>1 DEF DeliversAdd, Advanced
    <3>2. metaId' = IF events[1].object.class = "meta" THEN events[1].id ELSE metaId
      BY <2>1 DEF DeliversAdd, Global
    <3>3. CASE events[1].object.class = "meta"
      BY <1>2, <3>1, <3>2, <3>3 DEF OriginalSeen
    <3>4. CASE events[1].object.class # "meta"
      <4>1. ~ Adds(events, 1, g)
        BY <1>2, <3>4 DEF Mirroring, AnnouncedOnce
      <4> QED
        BY <1>1, <1>2, <3>2, <3>4, <4>1 DEF OriginalSeen, Advanced
    <3> QED
      BY <3>3, <3>4
  <2>2. CASE DeliversRemove \/ DeliversProperty \/ DeliversDone
    <3>1. metaId' = metaId /\ events[1].kind # "global"
      BY <2>2 DEF DeliversRemove, DeliversProperty, DeliversDone, GlobalRemove, PropertyChanged,
                  SyncDone, mirrorVars
    <3> QED
      BY <1>1, <1>2, <3>1 DEF OriginalSeen, Advanced
  <2> QED
    BY <1>1, <2>1, <2>2 DEF Delivers
<1>6. ASSUME NEW i, Adds(events', i, g)
      PROVE  ~ done' /\ \A k, n : Dones(events', k, n) => i < k
  <2>1. i \in Nat \ {0} /\ Adds(events, i + 1, g)
    BY <1>1, <1>6 DEF Advanced
  <2>2. ~ done /\ \A k, n : Dones(events, k, n) => i + 1 < k
    BY <1>2, <2>1 DEF OriginalSeen
  <2>3. events[1].kind # "done"
    <3> SUFFICES ASSUME events[1].kind = "done" PROVE FALSE
      OBVIOUS
    <3>1. Dones(events, 1, events[1].seq)
      BY <1>1 DEF Shifted
    <3>2. i + 1 < 1
      BY <2>2, <3>1
    <3> QED
      BY <2>1, <3>2
  <2>4. done' = done
    BY <1>1, <2>3 DEF Delivers, DeliversAdd, DeliversRemove, DeliversProperty, DeliversDone
  <2>5. ASSUME NEW k, NEW n, Dones(events', k, n) PROVE i < k
    <3>1. k \in Nat /\ Dones(events, k + 1, n)
      BY <1>1, <2>5 DEF Shifted
    <3>2. i + 1 < k + 1
      BY <2>2, <3>1
    <3> QED
      BY <2>1, <3>1, <3>2
  <2> QED
    BY <2>2, <2>4, <2>5
<1>7. pc # "bind"
  BY <1>1 DEF Pumping
<1> QED
  BY <1>1, <1>2, <1>3, <1>4, <1>5, <1>6, <1>7 DEF OriginalSeen

(* It was there before the step, too.                                      *)
LEMMA OriginalWas ==
  ASSUME Typed, WindowFits, [RegistryNext]_registryVars, NEW g, Original(g)'
  PROVE  Original(g) /\ g # NoId
<1> USE RegistryAssumption
<1>0. Original(g) => g # NoId
  BY DEF Original, IsMeta, Typed, NoId
<1> SUFFICES Original(g)
  BY <1>0
<1>1. ASSUME NEW h \in 1 .. MaxGlobal, NEW o \in Objects, Announce(h, o) PROVE Original(g)
  <2>1. window'.first = window.first
    BY <1>1 DEF Announce, WindowFits, Windowed, Windows
  <2>2. g \in Known /\ \A k \in Known : live'[k] = live[k]
    BY <1>1, <2>1, AnnounceTyped DEF Original, WindowFits, Windowed
  <2> QED
    BY <2>1, <2>2 DEF Original, IsMeta
<1>2. ASSUME NEW h \in Known, Withdraw(h) PROVE Original(g)
  <2>1. window'.first = window.first \ {h}
    BY <1>2 DEF Withdraw, WindowFits, Windowed, Windows
  <2>2. Known' = Known \ {h} /\ \A k \in Known' : live'[k] = live[k]
    BY <1>2, WithdrawTyped
  <2> QED
    BY <2>1, <2>2 DEF Original, IsMeta
<1>3. CASE UNCHANGED live /\ window'.first = window.first
  BY <1>3 DEF Original, IsMeta, Known
<1>4. ASSUME NEW n \in Names, SetsDefault(n) PROVE UNCHANGED live /\ window'.first = window.first
  BY <1>4 DEF SetsDefault, WindowFits, Windowed, Windows
<1>5. CASE ServesSync
  <2>1. UNCHANGED live /\ window'.first = window.first
    BY <1>5 DEF ServesSync, WindowFits, Windowed, Windows
  <2> QED
    BY <1>3, <2>1
<1>6. CASE ServesBind \/ Syncs \/ Returns \/ Bind \/ Leaves
  <2>1. UNCHANGED <<live, window>>
    BY <1>6 DEF ServesBind, Syncs, Sync, Returns, Pumped, GiveUp, Bind, Leaves, PickDefault,
                AnswerQuery, WatchLive, WatchDropped, registryVars, daemonVars
  <2> QED
    BY <1>3, <2>1
<1>7. CASE Deliver
  BY <1>3, <1>7, DeliverCases DEF daemonVars
<1> QED
  BY <1>1, <1>2, <1>3, <1>4, <1>5, <1>6, <1>7, StepCases

LEMMA OriginalStep ==
  Typed /\ Mirroring /\ Roundtrips /\ WindowFits /\ OriginalFound /\ [RegistryNext]_registryVars
    => OriginalFound'
<1> SUFFICES ASSUME Typed, Mirroring, Roundtrips, WindowFits, OriginalFound,
                    [RegistryNext]_registryVars, NEW g, Original(g)'
             PROVE  OriginalSeen(g)'
  BY DEF OriginalFound
<1> USE RegistryAssumption
<1>0. Original(g) /\ g # NoId /\ OriginalSeen(g) /\ g \in Known /\ live[g].class = "meta"
  BY OriginalWas DEF OriginalFound, Original, IsMeta
<1>1. ASSUME NEW h \in 1 .. MaxGlobal, NEW o \in Objects, Announce(h, o) PROVE OriginalSeen(g)'
  <2> DEFINE e == [kind |-> "global", id |-> h, object |-> o]
  <2>1. e \in Events /\ e.id = h /\ e.object = o
    BY EventsMade DEF Ids
  <2>2. Emits(e) /\ UNCHANGED <<metaId, bound, done, pc, gaveUp>>
    BY <1>1 DEF Announce, Emit, Emits, clientSide, mirrorVars
  <2>3. h # g
    BY <1>0, <1>1, AnnounceTyped
  <2>4. o.class # "meta"
    BY <1>0, <1>1, ObjectShapes DEF Announce, InClass, Known
  <2> HIDE DEF e
  <2> QED
    BY <1>0, <2>1, <2>2, <2>3, <2>4, OriginalEmits
<1>2. ASSUME NEW h \in Known, Withdraw(h) PROVE OriginalSeen(g)'
  <2> DEFINE e == [kind |-> "remove", id |-> h]
  <2>1. e \in Events /\ e.kind = "remove"
    BY EventsMade DEF Ids, Typed
  <2>2. Emits(e) /\ UNCHANGED <<metaId, bound, done, pc, gaveUp>>
    BY <1>2 DEF Withdraw, Emit, Emits, clientSide, mirrorVars
  <2> HIDE DEF e
  <2> QED
    BY <1>0, <2>1, <2>2, OriginalEmits
<1>3. CASE UNCHANGED <<events, metaId, bound, done, pc, gaveUp>>
  BY <1>0, <1>3 DEF OriginalSeen
<1>4. ASSUME NEW n \in Names, Emits(Property(n)), UNCHANGED <<metaId, bound, done, pc, gaveUp>>
      PROVE  OriginalSeen(g)'
  <2>1. Property(n) \in Events /\ Property(n).kind = "property"
    BY EventsMade DEF Property
  <2> QED
    BY <1>0, <1>4, <2>1, OriginalEmits
<1>5. ASSUME NEW n \in Names, SetsDefault(n) PROVE OriginalSeen(g)'
  <2>1. UNCHANGED <<metaId, bound, done, pc, gaveUp>>
    BY <1>5 DEF SetsDefault, clientSide, mirrorVars
  <2> QED
    BY <1>3, <1>4, <1>5, <2>1 DEF SetsDefault
<1>6. CASE ServesSync
  <2> DEFINE e == [kind |-> "done", seq |-> requests[1].seq]
  <2>1. e \in Events /\ e.kind = "done"
    BY <1>6, Shrunk, EventShapes, EventsMade DEF ServesSync, Typed
  <2>2. Emits(e) /\ UNCHANGED <<metaId, bound, done, pc, gaveUp>>
    BY <1>6 DEF ServesSync, mirrorVars
  <2> HIDE DEF e
  <2> QED
    BY <1>0, <2>1, <2>2, OriginalEmits
<1>7. CASE ServesBind
  <2>1. UNCHANGED <<metaId, bound, done, pc, gaveUp>>
    BY <1>7 DEF ServesBind, mirrorVars
  <2>2. default # None => default \in Names
    BY DEF Typed
  <2> QED
    BY <1>3, <1>4, <1>7, <2>1, <2>2 DEF ServesBind
<1>8. CASE Deliver
  BY <1>0, <1>8, OriginalDelivered
<1>9. CASE Syncs
  BY <1>0, <1>9 DEF Syncs, Sync, mirrorVars, OriginalSeen
<1>10. CASE Returns
  <2>1. UNCHANGED <<events, metaId, bound, done>>
    BY <1>10 DEF Returns, Pumped, GiveUp, mirrorVars
  <2>2. /\ pc' = "bind" /\ "pump1" \notin gaveUp' => done
        /\ pc' \in {"sync2", "pump2", "answer"} => pc = "pump2"
        /\ pc' \in {"sync2", "pump2", "answer"} /\ "pump1" \notin gaveUp' => "pump1" \notin gaveUp
    BY <1>10 DEF Returns, Pumped, GiveUp
  <2>3. done => metaId = g
    BY <1>0 DEF OriginalSeen
  <2> QED
    BY <1>0, <2>1, <2>2, <2>3 DEF OriginalSeen
<1>11. CASE Bind
  <2>1. UNCHANGED <<events, metaId, done, gaveUp>> /\ pc' = "sync2" /\ pc = "bind"
    BY <1>11 DEF Bind
  <2>2. bound' = IF bound = NoId /\ metaId # NoId THEN metaId ELSE bound
    BY <1>11 DEF Bind, BindTo
  <2> QED
    BY <1>0, <2>1, <2>2 DEF OriginalSeen
<1>12. CASE Leaves
  <2>1. /\ UNCHANGED <<events, metaId, bound, done, gaveUp>>
        /\ pc' \in {"sync1", "over", "live"} \/ pc' = pc
    BY <1>12 DEF Leaves, PickDefault, AnswerQuery, WatchLive, WatchDropped, registryVars, mirrorVars
  <2> QED
    BY <1>0, <2>1 DEF OriginalSeen
<1> QED
  BY <1>1, <1>2, <1>5, <1>6, <1>7, <1>8, <1>9, <1>10, <1>11, <1>12, StepCases

-----------------------------------------------------------------------------
(* After the second roundtrip the default is one of the window's, or such  *)
(* a value is on the way before the answer.                                *)
Overrides(i) == \E j : j > i /\ Sets(events, j) /\ Before(j)
Recent ==
  /\ defaultName \in window.names \/ \E j : Sets(events, j) /\ Before(j)
  /\ \A i : Sets(events, i) => events[i].name \in window.names \/ Overrides(i)
Second ==
  /\ pc \in {"pump2", "answer"} /\ "pump1" \notin gaveUp /\ requests = <<>>
  /\ \E g : Original(g)
DefaultRecent == Second => Recent

LEMMA DefaultRecentInit == RegistryInit => DefaultRecent
BY DEF RegistryInit, DefaultRecent, Second

(* Nothing but the daemon's objects or its default changes.                *)
LEMMA RecentGrows ==
  ASSUME Typed, Recent, NEW e \in Events, Emits(e), UNCHANGED <<defaultName, awaited>>,
         window.names \subseteq window'.names,
         e.kind = "property" => e.name \in window'.names
  PROVE  Recent'
<1>1. PICK N : Added(e, N)
  BY EmitsAdds
<1>2. /\ \A i : Sets(events, i) => Sets(events', i) /\ events'[i] = events[i]
      /\ \A i : Sets(events', i) => Sets(events, i) \/ (i = N /\ e.kind = "property")
      /\ events'[N] = e
      /\ \A k, n : Dones(events, k, n) => Dones(events', k, n)
  BY <1>1 DEF Added
<1>3. \A i : Before(i) => Before(i)'
  BY <1>2 DEF Before
<1>4. \A i : Overrides(i) => Overrides(i)'
  BY <1>2, <1>3 DEF Overrides
<1> QED
  BY <1>2, <1>3, <1>4 DEF Recent

LEMMA RecentServed ==
  ASSUME Typed, Proxied, DefaultHeard, Roundtrips, WindowFits, OriginalFound, ServesSync, Second'
  PROVE  Recent'
<1> DEFINE e == [kind |-> "done", seq |-> requests[1].seq]
           n == requests[1].seq
<1>1. e \in Events /\ e.kind = "done" /\ e.seq = n
  BY Shrunk, EventShapes, EventsMade DEF ServesSync, Typed
<1>2. /\ Emits(e) /\ UNCHANGED <<live, awaited, defaultName, pc, gaveUp>> /\ requests[1].kind = "sync"
      /\ window' = [window EXCEPT !.always = Known, !.ever = Known, !.names = {default}]
  BY DEF ServesSync, mirrorVars
<1>3. PICK N : Added(e, N)
  BY <1>1, <1>2, EmitsAdds
<1>4. Served
  BY ServingServes DEF ServesSync
<1> HIDE DEF e, n
<1>5. window'.names = {default} /\ window'.first = window.first
  BY <1>2 DEF WindowFits, Windowed, Windows
<1>6. PICK g : Original(g)
  BY <1>2, <1>5 DEF Second, Original, IsMeta, Known
<1>7. bound = g /\ g \in Known /\ g # NoId
  BY <1>2, <1>6 DEF Second, OriginalFound, OriginalSeen, Original, IsMeta, Typed, NoId
<1>8. Len(requests) = 1 /\ Sends(requests, Len(requests), awaited)
  BY <1>2, <1>4 DEF Second, Served, Roundtrips, AnswerComes, Waits, ServesSync
<1>9. n = awaited
  BY <1>8 DEF Sends, n
<1>10. hears # NoId
  <2>1. \A i, h : ~ Binds(requests, i, h)
    <3> SUFFICES ASSUME NEW i, NEW h, Binds(requests, i, h) PROVE FALSE
      OBVIOUS
    <3>1. i \in Nat \ {0} /\ i \in DOMAIN requests /\ requests[i].kind = "bind"
      BY <1>4 DEF Served, Binds
    <3>2. DOMAIN requests = 1 .. Len(requests)
      BY DEF Typed
    <3>3. i = 1
      BY <1>8, <3>1, <3>2
    <3> QED
      BY <1>2, <3>1, <3>3
  <2> QED
    BY <1>7, <2>1 DEF Proxied
<1>11. /\ \A i : Sets(events', i) <=> Sets(events, i)
       /\ \A i : Sets(events, i) => i < N /\ events'[i] = events[i]
       /\ Dones(events', N, awaited)
  BY <1>1, <1>3, <1>9 DEF Added
<1>12. \A i : Sets(events', i) => Before(i)'
  BY <1>2, <1>11 DEF Before
<1>13. defaultName' \in window'.names \/ \E j : Sets(events', j) /\ Before(j)'
  BY <1>2, <1>5, <1>10, <1>11, <1>12 DEF DefaultHeard
<1>14. \A i : Sets(events', i) => events'[i].name \in window'.names \/ Overrides(i)'
  BY <1>5, <1>10, <1>11, <1>12 DEF DefaultHeard, Overrides
<1> QED
  BY <1>13, <1>14 DEF Recent

LEMMA RecentDelivered ==
  ASSUME Typed, Recent, Deliver
  PROVE  Recent'
<1>1. Shifted /\ Delivers /\ UNCHANGED <<window, awaited>>
  BY DeliverAdvances, DeliverShifts DEF daemonVars
<1>2. ASSUME NEW i, Sets(events, i), Before(i), i # 1
      PROVE  i \in Nat /\ Sets(events', i - 1) /\ Before(i - 1)'
  <2>1. i \in Nat \ {0} /\ Sets(events', i - 1)
    BY <1>1, <1>2 DEF Shifted
  <2>2. PICK k : Dones(events, k, awaited) /\ i < k
    BY <1>2 DEF Before
  <2>3. k \in Nat /\ k # 1 /\ Dones(events', k - 1, awaited)
    BY <1>1, <2>1, <2>2 DEF Shifted
  <2>4. i - 1 < k - 1
    BY <2>1, <2>2, <2>3
  <2> QED
    BY <1>1, <2>1, <2>3, <2>4 DEF Before
<1>3. ASSUME NEW i, Sets(events', i) PROVE events'[i].name \in window.names \/ Overrides(i)'
  <2>1. i \in Nat \ {0} /\ Sets(events, i + 1) /\ events'[i] = events[i + 1]
    BY <1>1, <1>3 DEF Shifted
  <2>2. ASSUME NEW j, j > i + 1, Sets(events, j), Before(j) PROVE Overrides(i)'
    <3>1. j \in Nat /\ Sets(events', j - 1) /\ Before(j - 1)'
      BY <1>1, <1>2, <2>1, <2>2 DEF Shifted
    <3>2. j - 1 > i
      BY <2>1, <2>2, <3>1
    <3> QED
      BY <3>1, <3>2 DEF Overrides
  <2> QED
    BY <2>1, <2>2 DEF Recent, Overrides
<1>4. defaultName' \in window.names \/ \E j : Sets(events', j) /\ Before(j)'
  <2>1. CASE DeliversProperty
    <3>1. defaultName' = events[1].name /\ Sets(events, 1)
      BY <1>1, <2>1 DEF DeliversProperty, PropertyChanged, Shifted
    <3> QED
      BY <1>2, <3>1 DEF Recent, Overrides
  <2>2. CASE ~ DeliversProperty
    <3>1. defaultName' = defaultName /\ ~ Sets(events, 1)
      BY <1>1, <2>2 DEF Delivers, DeliversAdd, DeliversRemove, DeliversDone, Global, GlobalRemove,
                        SyncDone, mirrorVars, Shifted
    <3> QED
      BY <1>2, <3>1 DEF Recent
  <2> QED
    BY <2>1, <2>2
<1> QED
  BY <1>1, <1>3, <1>4 DEF Recent

LEMMA DefaultRecentStep ==
  ASSUME Typed, Proxied, DefaultHeard, Roundtrips, WindowFits, OriginalFound, DefaultRecent,
         [RegistryNext]_registryVars
  PROVE  DefaultRecent'
<1> SUFFICES ASSUME Second' PROVE Recent'
  BY DEF DefaultRecent
<1> USE RegistryAssumption
<1>0. \E g : Original(g)
  BY OriginalWas DEF Second
<1>1. ASSUME UNCHANGED <<requests, pc, gaveUp>> PROVE Recent
  BY <1>0, <1>1 DEF Second, DefaultRecent
<1>2. ASSUME NEW g \in 1 .. MaxGlobal, NEW o \in Objects, Announce(g, o) PROVE Recent'
  <2> DEFINE e == [kind |-> "global", id |-> g, object |-> o]
  <2>1. e \in Events /\ e.kind = "global"
    BY EventsMade DEF Ids
  <2>2. Emits(e) /\ UNCHANGED <<requests, pc, gaveUp, defaultName, awaited>>
    BY <1>2 DEF Announce, Emit, Emits, clientSide, mirrorVars
  <2>3. window'.names = window.names
    BY <1>2 DEF Announce, WindowFits, Windowed, Windows
  <2> HIDE DEF e
  <2> QED
    BY <1>1, <2>1, <2>2, <2>3, RecentGrows
<1>3. ASSUME NEW g \in Known, Withdraw(g) PROVE Recent'
  <2> DEFINE e == [kind |-> "remove", id |-> g]
  <2>0. g \in Ids
    BY DEF Typed, Ids
  <2>1. e \in Events /\ e.kind = "remove"
    BY <2>0, EventsMade
  <2>2. Emits(e) /\ UNCHANGED <<requests, pc, gaveUp, defaultName, awaited>>
    BY <1>3 DEF Withdraw, Emit, Emits, clientSide, mirrorVars
  <2>3. window'.names = window.names
    BY <1>3 DEF Withdraw, WindowFits, Windowed, Windows
  <2> HIDE DEF e
  <2> QED
    BY <1>1, <2>1, <2>2, <2>3, RecentGrows
<1>4. ASSUME NEW n \in Names, SetsDefault(n) PROVE Recent'
  <2>1. UNCHANGED <<requests, pc, gaveUp, defaultName, awaited>>
    BY <1>4 DEF SetsDefault, clientSide, mirrorVars
  <2>2. window'.names = window.names \union {n}
    BY <1>4 DEF SetsDefault, WindowFits, Windowed, Windows
  <2>3. CASE Emits(Property(n))
    <3>1. Property(n) \in Events /\ Property(n).name = n
      BY EventsMade DEF Property
    <3> QED
      BY <1>1, <2>1, <2>2, <2>3, <3>1, RecentGrows
  <2>4. CASE UNCHANGED events
    BY <1>1, <2>1, <2>2, <2>4 DEF Recent, Overrides, Before
  <2> QED
    BY <1>4, <2>3, <2>4 DEF SetsDefault
<1>5. CASE ServesSync
  BY <1>5, RecentServed
<1>6. CASE ServesBind
  <2>1. UNCHANGED <<pc, gaveUp>> /\ requests # <<>> /\ requests[1].kind = "bind"
    BY <1>6 DEF ServesBind
  <2>2. Served
    BY <1>6, ServingServes DEF ServesBind
  <2>3. Len(requests) = 1 /\ Sends(requests, Len(requests), awaited)
    BY <2>1, <2>2 DEF Second, Served, Roundtrips, AnswerComes, Waits
  <2> QED
    BY <2>1, <2>3 DEF Sends
<1>7. CASE Deliver
  <2>1. UNCHANGED <<requests, pc, gaveUp>>
    BY <1>7, DeliverCases
  <2> QED
    BY <1>1, <1>7, <2>1, RecentDelivered
<1>8. CASE Syncs
  <2> DEFINE r == [kind |-> "sync", seq |-> awaited + 1]
  <2>1. r \in Requests
    BY EventsMade DEF Typed
  <2>2. Asks(r)
    BY <1>8, AskedFor DEF Syncs
  <2> HIDE DEF r
  <2>3. requests' # <<>>
    BY <2>1, <2>2, AsksQueues DEF Queued
  <2> QED
    BY <2>3 DEF Second
<1>9. CASE Bind
  BY <1>9 DEF Bind, Second
<1>10. CASE Returns \/ Leaves
  <2>1. UNCHANGED <<window, events, requests, awaited, defaultName>>
    BY <1>10 DEF Returns, Pumped, GiveUp, Leaves, PickDefault, AnswerQuery, WatchLive, WatchDropped,
                 registryVars, daemonVars, mirrorVars
  <2>2. pc \in {"pump2", "answer"} /\ "pump1" \notin gaveUp
    BY <1>10 DEF Second, Returns, Pumped, GiveUp, Leaves, PickDefault, AnswerQuery, WatchLive,
                 WatchDropped, registryVars
  <2>3. Recent
    BY <1>0, <2>1, <2>2 DEF Second, DefaultRecent
  <2> QED
    BY <2>1, <2>3 DEF Recent, Overrides, Before
<1> QED
  BY <1>2, <1>3, <1>4, <1>5, <1>6, <1>7, <1>8, <1>9, <1>10, StepCases

-----------------------------------------------------------------------------
(* The answers.                                                            *)

(* The least element of a set of ids.                                      *)
LEMMA LeastId ==
  ASSUME NEW S \in SUBSET Nat, S # {}
  PROVE  Min(S) \in S /\ \A x \in S : Min(S) <= x
<1>1. PICK m \in S : \A x \in S : ~ (<<x, m>> \in OpToRel(<, Nat))
  BY NatLessThanWellFounded, WFMin
<1>2. \A x \in S : ~ (x < m)
  BY <1>1 DEF OpToRel
<1>3. \A x \in S : m <= x
  BY <1>2
<1> QED
  BY <1>3 DEF Min

LEMMA FirstOf ==
  ASSUME NEW S \in SUBSET (Nat \ {0})
  PROVE  IF S = {} THEN First(S) = NoId ELSE First(S) \in S /\ First(S) # NoId
BY LeastId DEF First, NoId

(* A process that has a node at all has one that stands for it.            *)
LEMMA ProcessKept ==
  ASSUME DOMAIN apps \subseteq Nat, NEW g \in DOMAIN apps
  PROVE  \E h \in Deduplicated : apps[h].pid = apps[g].pid
<1> DEFINE S == {h \in DOMAIN apps : apps[h].pid = apps[g].pid}
<1>1. S \in SUBSET Nat /\ S # {}
  OBVIOUS
<1>2. Min(S) \in S /\ \A x \in S : Min(S) <= x
  BY <1>1, LeastId
<1> QED
  BY <1>2 DEF Deduplicated

Resolving == (pc = "live" => task.by = "watch") /\ Resolves

LEMMA QueryAnswered ==
  ASSUME Typed, Mirroring, AnswerQuery
  PROVE  Resolves'
<1> SUFFICES ASSUME task \in Resolve
             PROVE  IF answer' = NoId
                    THEN task.by = "name" \/ \A g \in Candidates(task) : ~ Matches(g, task)
                    ELSE answer' \in Candidates(task) /\ Matches(answer', task)
  BY DEF AnswerQuery, Resolves, mirrorVars, Candidates, Matches
<1>1. DOMAIN devices \in SUBSET (Nat \ {0}) /\ DOMAIN apps \in SUBSET (Nat \ {0})
  BY DEF Mirroring, Mirrored, Typed
<1>2. task.by \in {"device", "pid", "name"}
  BY DEF Resolve
<1>3. answer' = Resolved(task)
  BY <1>2 DEF AnswerQuery
<1>4. CASE task.by = "device"
  <2>1. answer' = First(Named(task.key)) /\ Named(task.key) \in SUBSET (Nat \ {0})
    BY <1>1, <1>3, <1>4 DEF Resolved, Named
  <2> QED
    BY <1>4, <2>1, FirstOf DEF Named, Candidates, Matches
<1>5. CASE task.by = "pid"
  <2> DEFINE S == {g \in Deduplicated : apps[g].pid = task.key}
  <2>1. answer' = First(S) /\ S \in SUBSET (Nat \ {0})
    BY <1>1, <1>3, <1>5 DEF Resolved, Deduplicated
  <2>2. S = {} => \A g \in DOMAIN apps : apps[g].pid # task.key
    BY <1>1, ProcessKept
  <2>3. \A g \in S : g \in DOMAIN apps /\ apps[g].pid = task.key
    BY DEF Deduplicated
  <2> HIDE DEF S
  <2> QED
    BY <1>5, <2>1, <2>2, <2>3, FirstOf DEF Candidates, Matches
<1>6. CASE task.by = "name"
  <2> DEFINE S == {g \in Deduplicated : apps[g].name = task.key}
  <2>1. answer' = First(S) /\ S \in SUBSET (Nat \ {0})
    BY <1>1, <1>3, <1>6 DEF Resolved, Deduplicated
  <2>2. \A g \in S : g \in DOMAIN apps /\ apps[g].name = task.key
    BY DEF Deduplicated
  <2> HIDE DEF S
  <2> QED
    BY <1>6, <2>1, <2>2, FirstOf DEF Candidates, Matches
<1> QED
  BY <1>2, <1>4, <1>5, <1>6

LEMMA ResolvingInit == RegistryInit => Resolving
BY DEF RegistryInit, Resolving, Resolves

LEMMA ResolvingStep ==
  Typed /\ Mirroring /\ Resolving /\ [RegistryNext]_registryVars => Resolving'
<1> SUFFICES ASSUME Typed, Mirroring, Resolving, [RegistryNext]_registryVars PROVE Resolving'
  OBVIOUS
<1>1. CASE AnswerQuery
  BY <1>1, QueryAnswered DEF Resolving, AnswerQuery
<1>2. CASE UNCHANGED <<pc, task, answer, devices, apps>>
  BY <1>2 DEF Resolving, Resolves, Candidates, Matches
<1>3. ASSUME UNCHANGED task, pc' # "over", pc' = "live" => task.by = "watch" \/ pc = "live"
      PROVE  Resolving'
  BY <1>3 DEF Resolving, Resolves
<1>4. CASE Deliver
  <2>1. UNCHANGED <<pc, task>> /\ pc # "over"
    BY <1>4 DEF Deliver, Pumping, queryVars
  <2> QED
    BY <1>3, <2>1
<1>5. ASSUME NEW g \in 1 .. MaxGlobal, NEW o \in Objects, Announce(g, o) PROVE Resolving'
  BY <1>2, <1>5 DEF Announce, clientSide, mirrorVars, queryVars
<1>6. ASSUME NEW g \in Known, Withdraw(g) PROVE Resolving'
  BY <1>2, <1>6 DEF Withdraw, clientSide, mirrorVars, queryVars
<1>7. ASSUME NEW n \in Names, SetsDefault(n) PROVE Resolving'
  BY <1>2, <1>7 DEF SetsDefault, clientSide, mirrorVars, queryVars
<1>8. CASE ServesSync \/ ServesBind
  BY <1>2, <1>8 DEF ServesSync, ServesBind, mirrorVars, queryVars
<1>9. CASE Syncs \/ Returns \/ Bind \/ PickDefault
  BY <1>3, <1>9 DEF Syncs, Sync, Returns, Pumped, GiveUp, Bind, PickDefault, queryVars
<1>10. CASE WatchLive
  BY <1>3, <1>10 DEF WatchLive, queryVars
<1>11. CASE WatchDropped
  <2>1. pc = "live" /\ pc' = "over" /\ task' = task
    BY <1>11 DEF WatchDropped, queryVars
  <2>2. task.by = "watch"
    BY <2>1 DEF Resolving
  <2> QED
    BY <2>1, <2>2 DEF Resolving, Resolves, Resolve
<1>12. CASE UNCHANGED registryVars
  BY <1>2, <1>12 DEF registryVars, mirrorVars, queryVars
<1> QED
  BY <1>1, <1>4, <1>5, <1>6, <1>7, <1>8, <1>9, <1>10, <1>11, <1>12, StepCases DEF Leaves

-----------------------------------------------------------------------------
(* The inductive invariant.                                                *)
RegistryInvariant ==
  /\ Typed /\ Mirroring /\ Proxied /\ DefaultHeard /\ HeirFollows
  /\ Roundtrips /\ WindowFits /\ OriginalFound /\ DefaultRecent /\ Resolving

(* What the client knows and what is on its way agree with the daemon, in   *)
(* every reachable state.                                                  *)
THEOREM RegistryInvariance == RegistrySpec => []RegistryInvariant
<1>1. RegistryInit => RegistryInvariant
  BY TypedInit, MirroringInit, ProxiedInit, DefaultHeardInit, HeirInit, RoundtripsInit, WindowInit,
     OriginalInit, DefaultRecentInit, ResolvingInit DEF RegistryInvariant
<1>2. RegistryInvariant /\ [RegistryNext]_registryVars => RegistryInvariant'
  BY TypedStep, MirroringStep, ProxiedStep, DefaultHeardStep, HeirStep, RoundtripsStep, WindowStep,
     OriginalStep, DefaultRecentStep, ResolvingStep DEF RegistryInvariant
<1> QED
  BY <1>1, <1>2, PTL DEF RegistrySpec

(* Every reachable state of the daemon, the events and the mirror is well  *)
(* typed.                                                                  *)
THEOREM RegistryTypeCorrect == RegistrySpec => []RegistryTypeOK
<1>1. RegistryInvariant => RegistryTypeOK
  <2> SUFFICES ASSUME RegistryInvariant PROVE RegistryTypeOK
    OBVIOUS
  <2> USE RegistryAssumption
  <2>1. Typed /\ 1 .. used \subseteq 1 .. MaxGlobal
    BY DEF RegistryInvariant, Typed
  <2>2. DOMAIN devices \subseteq 1 .. MaxGlobal /\ DOMAIN apps \subseteq 1 .. MaxGlobal
    BY <2>1 DEF RegistryInvariant, Mirroring, Mirrored
  <2>3. Range(live) \subseteq Objects
    BY <2>1 DEF Typed, Range, Known
  <2> QED
    BY <2>1, <2>2, <2>3 DEF Typed, Points, RegistryTypeOK
<1> QED
  BY <1>1, RegistryInvariance, PTL

(* A roundtrip that did not give up has its answer, and nothing is on its  *)
(* way from before it.                                                     *)
LEMMA NothingBefore ==
  ASSUME RegistryInvariant, pc = "answer", "pump2" \notin gaveUp
  PROVE  requests = <<>> /\ Settled /\ \A i : ~ Before(i)
<1>1. done /\ \A k : ~ Dones(events, k, awaited)
  BY DEF RegistryInvariant, Roundtrips, AnswerComes, AskedOnce
<1>2. requests = <<>>
  BY <1>1 DEF RegistryInvariant, Roundtrips, AnswerComes, AskedOnce, Waits
<1> QED
  BY <1>1, <1>2 DEF Settled, Waits, Before

(* What discovery reads after a roundtrip that did not give up holds what  *)
(* was there since the daemon served it and nothing that was gone by then, *)
(* and what a query resolves to matches what it asked for.                 *)
THEOREM DiscoveryTrue == RegistrySpec => []DiscoveryIsTrue
<1>1. RegistryInvariant => DiscoveryIsTrue
  <2> SUFFICES ASSUME RegistryInvariant PROVE SnapshotIsRecent
    BY DEF RegistryInvariant, Resolving, DiscoveryIsTrue
  <2> SUFFICES ASSUME pc = "answer", "pump2" \notin gaveUp
               PROVE  /\ window.always \ InClass(live, "meta") \subseteq DOMAIN devices \union DOMAIN apps
                      /\ DOMAIN devices \union DOMAIN apps \subseteq window.ever
                      /\ gaveUp = {} /\ InClass(live, "meta") \intersect window.first # {} =>
                           defaultName \in window.names
    BY DEF SnapshotIsRecent
  <2>1. requests = <<>> /\ Settled /\ \A i : ~ Before(i)
    BY NothingBefore
  <2>2. ASSUME NEW g \in window.always, g \notin InClass(live, "meta")
        PROVE  g \in DOMAIN devices \union DOMAIN apps
    <3>1. g \in Known /\ live[g].class # "meta" /\ live[g] \in Objects
      BY <2>2 DEF RegistryInvariant, WindowFits, Windowed, InClass, Typed, Known
    <3>2. IsDevice(g) \/ IsApp(g)
      BY <3>1, ObjectShapes DEF IsDevice, IsApp
    <3>3. \A i : ~ Adds(events, i, g)
      BY <2>1, <2>2 DEF RegistryInvariant, WindowFits, WindowSeen
    <3> QED
      BY <3>2, <3>3 DEF RegistryInvariant, Mirroring, Mirrored
  <2>3. DOMAIN devices \union DOMAIN apps \subseteq window.ever
    BY <2>1 DEF RegistryInvariant, WindowFits, WindowSeen, Recorded
  <2>4. ASSUME gaveUp = {}, NEW g \in InClass(live, "meta") \intersect window.first
        PROVE  defaultName \in window.names
    <3>1. Original(g)
      BY <2>4 DEF Original, IsMeta, InClass, Known
    <3>2. Second
      BY <2>1, <2>4, <3>1 DEF Second
    <3> QED
      BY <2>1, <3>2 DEF RegistryInvariant, DefaultRecent, Recent
  <2> QED
    BY <2>2, <2>3, <2>4
<1> QED
  BY <1>1, RegistryInvariance, PTL

(* Once every event was delivered, the handler of a watcher was told of    *)
(* the daemon's devices, and of its default.                               *)
THEOREM WatchTrue == RegistrySpec => []WatchFollows
<1>1. RegistryInvariant => WatchFollows
  <2> SUFFICES ASSUME RegistryInvariant, pc = "live", events = <<>>, requests = <<>>
               PROVE  /\ told = InClass(live, "device")
                      /\ bound \in Known /\ heir # {} => toldDefault \in heir
    BY DEF WatchFollows
  <2>1. /\ \A i, g : ~ Adds(events, i, g) /\ ~ Removes(events, i, g)
        /\ \A i : ~ Sets(events, i)
        /\ \A i, g : ~ Binds(requests, i, g)
    BY DEF Adds, Removes, Sets, Binds
  <2>2. task.by = "watch"
    BY DEF RegistryInvariant, Resolving
  <2>3. \A g : g \in told <=> IsDevice(g)
    BY <2>1, <2>2 DEF RegistryInvariant, Mirroring, Reported
  <2>4. told = InClass(live, "device")
    BY <2>3 DEF IsDevice, InClass, Known
  <2>5. ASSUME bound \in Known, NEW g \in heir PROVE toldDefault = g
    <3>1. hears # NoId
      BY <2>1, <2>5 DEF RegistryInvariant, Proxied, Typed, NoId
    <3> QED
      BY <2>1, <2>2, <2>5, <3>1 DEF RegistryInvariant, HeirFollows, HeirAlone
  <2> QED
    BY <2>4, <2>5
<1> QED
  BY <1>1, RegistryInvariance, PTL
=============================================================================
