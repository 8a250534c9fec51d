------------------------ MODULE CallbackCapture_proofs ------------------------
(***************************************************************************)
(* Theorems about CallbackCapture for every choice of backends and any     *)
(* number of periods: contexts outlive their callbacks, a teardown leaves  *)
(* nothing, a stop is final.                                               *)
(*                                                                         *)
(* The argument follows the native stream.  Once it is closed no callback  *)
(* is entered but the playback backend's, and those find no session; so    *)
(* what a teardown reclaims after the close is out of reach.               *)
(***************************************************************************)
EXTENDS CallbackCapture, TLAPS

Ended == {"closed", "abandoned"}
Gone == source = "none" \/ source \in Ended
Contexts == backend \in {"aaudio", "playback"}   \* backends whose contexts are reclaimed

-----------------------------------------------------------------------------
(* The inductive invariant.                                                *)

(* Where a call stands tells what it has done so far.                      *)
Progress ==
  /\ client = "idle" <=> context = "none"
  /\ client \in {"idle", "setup"} =>
       source = "none" /\ data = "out" /\ notice = "out" /\ ~hurried /\ word \in {"Created", "Running"}
  /\ source = "none" => client \in {"idle", "setup", "failed"}
  /\ client = "opened" => source = "open"
  /\ client \in {"idle", "setup", "opened", "started"} =>
       after = "none" /\ ~handle /\ outcome = "none" /\ (client # "idle" => context = "live")
  /\ client = "started" => backend \in {"auhal", "playback"} /\ ~Gone
  /\ client \in {"open", "enter", "unregister", "unlisten", "finish", "closed"} => handle
  /\ client \in {"enter", "unregister", "unlisten", "halt", "quiesce", "close",
                 "reclaim", "signal", "return"} => after # "none"
  /\ handle <=> after # "failed" /\ client \notin {"idle", "setup", "opened", "started", "failed"}
  /\ client = "finish" => after = "finish"
  /\ word = "Created" => client = "idle"

(* The order of a teardown: each backend has its own steps.                *)
Teardown ==
  /\ client = "unregister" => backend = "playback" /\ ~Gone
  /\ client = "unlisten" => backend = "auhal" /\ after = "closed"
  /\ client = "enter" /\ after = "closed" => backend # "auhal"
  /\ client = "halt" /\ after = "failed" => backend = "playback"
  /\ client = "quiesce" => Contexts
  /\ client \in {"halt", "quiesce", "close"} => ~Gone
  /\ client = "close" => Contexts \/ after = "failed" \/ (backend = "auhal" /\ after = "closed")
  /\ client = "reclaim" => Contexts /\ source \in Ended
  /\ client = "signal" => after # "failed"
  /\ client = "signal" => IF backend = "auhal" THEN source = "quiet" ELSE source = "closed"
  /\ client = "unlisten" => ~Gone

(* A closed stream has been reclaimed, or is about to be.                  *)
Reclaimed ==
  /\ context = "freed" => Gone
  /\ source \in Ended /\ client # "reclaim" => context = "freed" /\ ~listening
  /\ client = "return" /\ after \in {"closed", "failed"} => source \in Ended
  /\ backend = "auhal" /\ source = "closed" =>
       client \in {"closed", "failed"} \/ (client = "return" /\ after # "finish")
  /\ client \in {"closed", "failed"} => Gone /\ context = "freed" /\ ~listening

(* What is abandoned has never run: what is open has not been started.     *)
Abandoned ==
  /\ source = "open" => client \in {"opened", "close"}
  /\ source = "open" /\ client = "close" =>
       after = "failed" /\ (backend = "playback" => notice = "done")
  /\ source = "abandoned" =>
       backend = "playback" /\ after = "failed" /\ ~handle /\ notice = "done"

(* Nothing enters once there is nothing to enter.                          *)
CallbacksOut ==
  /\ source = "none" => data = "out" /\ notice = "out"
  /\ source = "open" => data = "out"
  /\ backend # "playback" /\ source = "closed" => data = "out" \/ hurried
  /\ backend # "playback" /\ source = "quiet" => data = "out"
  /\ backend = "aaudio" /\ source = "closed" => notice # "in"
  /\ backend = "avaudio" => notice = "out" /\ ~listening
  /\ backend # "aaudio" /\ backend # "playback" => ~hurried
  /\ backend = "auhal" /\ (Gone \/ ~handle \/ (after = "closed" /\ client # "unlisten")) => ~listening

(* A playback session that was stopped can not be found again.             *)
SessionOver ==
  backend = "playback" =>
    /\ notice # "out" => data = "out"
    /\ client \in {"halt", "quiesce", "close", "reclaim", "signal"} /\ after # "failed" => ~listening
    /\ (client \in {"close", "reclaim"} \/ source = "closed") /\ after # "failed" /\ ~hurried =>
         data = "out" /\ notice # "in"
    /\ listening /\ source \notin {"none", "open", "running"} => device = "dead" \/ after = "failed"
    /\ client \in {"opened", "started"} /\ source \notin {"open", "running"} => device = "dead"

(* Who has written Error.                                                  *)
Died ==
  word = "Error" \/ notice = "in" =>
    device = "dead" \/ (word = "Error" /\ panicked) \/ (backend = "playback" /\ after = "failed")

(* An acknowledged stop.                                                   *)
Acknowledged ==
  /\ outcome = "ok" \/ (client = "return" /\ after = "finish" /\ outcome = "none") =>
       IF backend = "auhal" THEN ~active /\ source \in {"quiet", "closed"} ELSE source = "closed"
  /\ outcome = "ok" => after # "failed"

IInv ==
  /\ TypeOK
  /\ Progress /\ Teardown /\ Reclaimed /\ Abandoned /\ CallbacksOut /\ SessionOver /\ Died /\ Acknowledged

-----------------------------------------------------------------------------
(* The invariant is inductive.                                             *)

LEMMA Values ==
  ASSUME TypeOK
  PROVE  /\ backend \in AllBackends
         /\ client \in {"idle", "setup", "opened", "started", "open", "enter", "unregister",
                       "unlisten", "halt", "quiesce", "close", "reclaim", "signal", "return",
                       "finish", "closed", "failed"}
         /\ after \in {"none", "finish", "closed", "failed"}
         /\ source \in {"none", "open", "running", "halting", "quiet", "closed", "abandoned"}
         /\ context \in {"none", "live", "freed"} /\ outcome \in {"none", "ok", "err"}
         /\ data \in {"out", "in"} /\ notice \in {"out", "in", "done"} /\ device \in {"up", "dead"}
BY CallbackAssumption DEF TypeOK

LEMMA InitInv == Init => IInv
<1> USE DEF IInv, Progress, Teardown, Reclaimed, Abandoned, CallbacksOut, SessionOver, Died,
            Acknowledged, Ended, Gone, Contexts, AllBackends, clientVars, ownedVars, callbackVars, fixed,
            ClientAt, SameTeardown, SamePlatform, Transition
<1> SUFFICES ASSUME Init PROVE IInv
  OBVIOUS
<1>1. TypeOK
  <2>1. backend \in Backends /\ legacy \in BOOLEAN
    BY DEF Init
  <2>2. pushed \in 0 .. MaxPush
    BY CallbackAssumption DEF Init
  <2> QED
    BY <2>1, <2>2 DEF Init, TypeOK
<1>2. Progress /\ Teardown /\ Reclaimed /\ Abandoned
  BY DEF Init
<1>3. CallbacksOut /\ SessionOver /\ Died /\ Acknowledged
  BY DEF Init
<1> QED
  BY <1>1, <1>2, <1>3

(* Preserved by every step: the types.                                     *)
LEMMA TypeInv ==
  ASSUME TypeOK, Progress, [Next]_vars
  PROVE  TypeOK'
<1> USE DEF TypeOK, clientVars, ownedVars, callbackVars, fixed, ClientAt, SameTeardown, SamePlatform,
            Transition
<1>1. CASE Create
  BY <1>1 DEF Create
<1>2. CASE SetupFails
  <2>1. /\ active' \in BOOLEAN /\ listening' \in BOOLEAN /\ handle' \in BOOLEAN
        /\ released' \in BOOLEAN /\ hurried' \in BOOLEAN /\ legacy' \in BOOLEAN
    BY <1>2 DEF SetupFails
  <2> QED
    BY <1>2, <2>1 DEF SetupFails
<1>3. CASE Opened
  BY <1>3 DEF Opened
<1>4. CASE StartFails
  BY <1>4 DEF StartFails
<1>5. CASE Start
  BY <1>5 DEF Start
<1>6. CASE Listen
  BY <1>6 DEF Listen
<1>7. CASE Promote
  BY <1>7 DEF Promote
<1>8. CASE PromoteFails
  BY <1>8 DEF PromoteFails
<1>9. CASE Stop
  BY <1>9 DEF Stop
<1>10. CASE Drop
  BY <1>10 DEF Drop
<1>11. CASE Enter
  BY <1>11 DEF Enter, First
<1>12. CASE Unregister
  <2>1. /\ active' \in BOOLEAN /\ listening' \in BOOLEAN /\ handle' \in BOOLEAN
        /\ released' \in BOOLEAN /\ hurried' \in BOOLEAN /\ legacy' \in BOOLEAN
    BY <1>12 DEF Unregister
  <2> QED
    BY <1>12, <2>1 DEF Unregister
<1>13. CASE Unlisten
  <2>1. /\ active' \in BOOLEAN /\ listening' \in BOOLEAN /\ handle' \in BOOLEAN
        /\ released' \in BOOLEAN /\ hurried' \in BOOLEAN /\ legacy' \in BOOLEAN
    BY <1>13 DEF Unlisten
  <2> QED
    BY <1>13, <2>1 DEF Unlisten
<1>14. CASE RequestHalt
  BY <1>14 DEF RequestHalt
<1>15. CASE Halt
  BY <1>15 DEF Halt
<1>16. CASE HaltFails
  BY <1>16 DEF HaltFails
<1>17. CASE Quiesced
  BY <1>17 DEF Quiesced
<1>18. CASE GivesUp
  BY <1>18 DEF GivesUp
<1>19. CASE Close
  BY <1>19 DEF Close, Abandons
<1>20. CASE Reclaim
  <2>1. /\ active' \in BOOLEAN /\ listening' \in BOOLEAN /\ handle' \in BOOLEAN
        /\ released' \in BOOLEAN /\ hurried' \in BOOLEAN /\ legacy' \in BOOLEAN
    BY <1>20 DEF Reclaim
  <2> QED
    BY <1>20, <2>1 DEF Reclaim
<1>21. CASE Signal
  <2>1. /\ active' \in BOOLEAN /\ listening' \in BOOLEAN /\ handle' \in BOOLEAN
        /\ released' \in BOOLEAN /\ hurried' \in BOOLEAN /\ legacy' \in BOOLEAN
    BY <1>21 DEF Signal
  <2> QED
    BY <1>21, <2>1 DEF Signal
<1>22. CASE Return
  <2>1. /\ active' \in BOOLEAN /\ listening' \in BOOLEAN /\ handle' \in BOOLEAN
        /\ released' \in BOOLEAN /\ hurried' \in BOOLEAN /\ legacy' \in BOOLEAN
    BY <1>22 DEF Return
  <2> QED
    BY <1>22, <2>1 DEF Return, Progress
<1>23. CASE Finish
  BY <1>23 DEF Finish
<1>24. CASE DataIn
  BY <1>24 DEF DataIn, Delivering
<1>25. CASE CallbackStops
  BY <1>25 DEF CallbackStops, Delivering
<1>26. CASE DataOut
  <2>1. panicked' \in BOOLEAN
    BY <1>26, Zenon DEF DataOut
  <2>2. word' \in {"Created", "Running", "Stopping", "Stopped", "Error"}
    BY <1>26 DEF DataOut
  <2>3. pushed' \in 0 .. MaxPush
    BY <1>26 DEF DataOut
  <2>4. data' \in {"out", "in"} /\ UNCHANGED <<fixed, clientVars, source, ownedVars, notice, released, device, hurried>>
    BY <1>26 DEF DataOut
  <2> QED
    BY <2>1, <2>2, <2>3, <2>4
<1>27. CASE NoticeIn
  BY <1>27 DEF NoticeIn
<1>28. CASE LoopExits
  <2>1. /\ active' \in BOOLEAN /\ listening' \in BOOLEAN /\ handle' \in BOOLEAN
        /\ released' \in BOOLEAN /\ hurried' \in BOOLEAN /\ legacy' \in BOOLEAN
    BY <1>28 DEF LoopExits
  <2> QED
    BY <1>28, <2>1 DEF LoopExits
<1>29. CASE ForceError
  BY <1>29 DEF ForceError
<1>30. CASE DeviceDies
  BY <1>30 DEF DeviceDies
<1>31. CASE ServiceStops
  BY <1>31 DEF ServiceStops
<1>32. CASE UNCHANGED vars
  BY <1>32 DEF vars
<1> QED
  BY <1>1, <1>2, <1>3, <1>4, <1>5, <1>6, <1>7, <1>8, <1>9, <1>10, <1>11, <1>12, <1>13, <1>14,
     <1>15, <1>16, <1>17, <1>18, <1>19, <1>20, <1>21, <1>22, <1>23, <1>24, <1>25, <1>26, <1>27,
     <1>28, <1>29, <1>30, <1>31, <1>32 DEF Next, Client, Platform, Done

(* Preserved by the steps of create_stream.                              *)
LEMMA CreateInv ==
  ASSUME IInv, TypeOK', Create \/ SetupFails \/ Opened \/ StartFails \/ Start \/ Listen
               \/ Promote \/ PromoteFails
  PROVE  IInv'
<1> USE Values DEF IInv, Progress, Teardown, Reclaimed, Abandoned, CallbacksOut, SessionOver, Died,
            Acknowledged, Ended, Gone, Contexts, AllBackends, clientVars, ownedVars, callbackVars, fixed,
            ClientAt, SameTeardown, SamePlatform, Transition
<1>1. CASE Create
  BY <1>1, CallbackAssumption DEF Create
<1>2. CASE SetupFails
  BY <1>2, CallbackAssumption DEF SetupFails
<1>3. CASE Opened
  BY <1>3, CallbackAssumption DEF Opened
<1>4. CASE StartFails
  BY <1>4, CallbackAssumption DEF StartFails
<1>5. CASE Start
  <2>1. Progress'
    BY <1>5, CallbackAssumption DEF Start
  <2>2. Teardown'
    BY <1>5, CallbackAssumption DEF Start
  <2>3. Reclaimed'
    BY <1>5, CallbackAssumption DEF Start
  <2>4. CallbacksOut'
    BY <1>5, CallbackAssumption DEF Start
  <2>5. SessionOver'
    BY <1>5, CallbackAssumption DEF Start
  <2>6. Died'
    BY <1>5, CallbackAssumption DEF Start
  <2>7. Acknowledged'
    BY <1>5, CallbackAssumption DEF Start
  <2>8. Abandoned'
    BY <1>5, CallbackAssumption DEF Start
  <2> QED
    BY <2>1, <2>2, <2>3, <2>4, <2>5, <2>6, <2>7, <2>8
<1>6. CASE Listen
  BY <1>6, CallbackAssumption DEF Listen
<1>7. CASE Promote
  BY <1>7, CallbackAssumption DEF Promote
<1>8. CASE PromoteFails
  BY <1>8, CallbackAssumption DEF PromoteFails
<1> QED
  BY <1>1, <1>2, <1>3, <1>4, <1>5, <1>6, <1>7, <1>8

(* Preserved by the steps of stop() and drop.                            *)
LEMMA TeardownInv ==
  ASSUME IInv, TypeOK', Stop \/ Drop \/ Enter \/ Unregister \/ Unlisten \/ RequestHalt
               \/ Halt \/ HaltFails \/ Quiesced \/ GivesUp \/ Close \/ Reclaim
               \/ Signal \/ Return \/ Finish
  PROVE  IInv'
<1> USE Values DEF IInv, Progress, Teardown, Reclaimed, Abandoned, CallbacksOut, SessionOver, Died,
            Acknowledged, Ended, Gone, Contexts, AllBackends, clientVars, ownedVars, callbackVars, fixed,
            ClientAt, SameTeardown, SamePlatform, Transition
<1>1. CASE Stop
  BY <1>1, CallbackAssumption DEF Stop
<1>2. CASE Drop
  BY <1>2, CallbackAssumption DEF Drop
<1>3. CASE Enter
  <2>1. Progress'
    BY <1>3, CallbackAssumption DEF Enter, First
  <2>2. Teardown'
    BY <1>3, CallbackAssumption DEF Enter, First
  <2>3. Reclaimed'
    BY <1>3, CallbackAssumption DEF Enter, First
  <2>4. CallbacksOut'
    BY <1>3, CallbackAssumption DEF Enter, First
  <2>5. SessionOver'
    BY <1>3, CallbackAssumption DEF Enter, First
  <2>6. Died'
    BY <1>3, CallbackAssumption DEF Enter, First
  <2>7. Acknowledged'
    BY <1>3, CallbackAssumption DEF Enter, First
  <2>8. Abandoned'
    BY <1>3, CallbackAssumption DEF Enter, First
  <2> QED
    BY <2>1, <2>2, <2>3, <2>4, <2>5, <2>6, <2>7, <2>8
<1>4. CASE Unregister
  BY <1>4, CallbackAssumption DEF Unregister
<1>5. CASE Unlisten
  BY <1>5, CallbackAssumption DEF Unlisten
<1>6. CASE RequestHalt
  BY <1>6, CallbackAssumption DEF RequestHalt
<1>7. CASE Halt
  BY <1>7, CallbackAssumption DEF Halt
<1>8. CASE HaltFails
  BY <1>8, CallbackAssumption DEF HaltFails
<1>9. CASE Quiesced
  BY <1>9, CallbackAssumption DEF Quiesced
<1>10. CASE GivesUp
  BY <1>10, CallbackAssumption DEF GivesUp
<1>11. CASE Close
  <2>1. Progress'
    BY <1>11, CallbackAssumption DEF Close, Abandons
  <2>2. Teardown'
    BY <1>11, CallbackAssumption DEF Close, Abandons
  <2>3. Reclaimed'
    BY <1>11, CallbackAssumption DEF Close, Abandons
  <2>4. CallbacksOut'
    BY <1>11, CallbackAssumption DEF Close, Abandons
  <2>5. SessionOver'
    BY <1>11, CallbackAssumption DEF Close, Abandons
  <2>6. Died'
    BY <1>11, CallbackAssumption DEF Close, Abandons
  <2>7. Acknowledged'
    BY <1>11, CallbackAssumption DEF Close, Abandons
  <2>8. Abandoned'
    BY <1>11, CallbackAssumption DEF Close, Abandons
  <2> QED
    BY <2>1, <2>2, <2>3, <2>4, <2>5, <2>6, <2>7, <2>8
<1>12. CASE Reclaim
  BY <1>12, CallbackAssumption DEF Reclaim
<1>13. CASE Signal
  BY <1>13, CallbackAssumption DEF Signal
<1>14. CASE Return
  BY <1>14, CallbackAssumption DEF Return
<1>15. CASE Finish
  BY <1>15, CallbackAssumption DEF Finish
<1> QED
  BY <1>1, <1>2, <1>3, <1>4, <1>5, <1>6, <1>7, <1>8, <1>9, <1>10, <1>11, <1>12, <1>13, <1>14, <1>15

(* Preserved by the callbacks and the environment.                       *)
LEMMA PlatformInv ==
  ASSUME IInv, TypeOK', DataIn \/ CallbackStops \/ DataOut \/ NoticeIn \/ LoopExits \/ ForceError
               \/ DeviceDies \/ ServiceStops
  PROVE  IInv'
<1> USE Values DEF IInv, Progress, Teardown, Reclaimed, Abandoned, CallbacksOut, SessionOver, Died,
            Acknowledged, Ended, Gone, Contexts, AllBackends, clientVars, ownedVars, callbackVars, fixed,
            ClientAt, SameTeardown, SamePlatform, Transition
<1>1. CASE DataIn
  BY <1>1, CallbackAssumption DEF DataIn, Delivering
<1>2. CASE CallbackStops
  BY <1>2, CallbackAssumption DEF CallbackStops, Delivering
<1>3. CASE DataOut
  BY <1>3, CallbackAssumption DEF DataOut
<1>4. CASE NoticeIn
  BY <1>4, CallbackAssumption DEF NoticeIn
<1>5. CASE LoopExits
  BY <1>5, CallbackAssumption DEF LoopExits
<1>6. CASE ForceError
  <2>1. Progress'
    BY <1>6, CallbackAssumption DEF ForceError
  <2>2. Teardown'
    BY <1>6, CallbackAssumption DEF ForceError
  <2>3. Reclaimed'
    BY <1>6, CallbackAssumption DEF ForceError
  <2>4. CallbacksOut'
    BY <1>6, CallbackAssumption DEF ForceError
  <2>5. SessionOver'
    BY <1>6, CallbackAssumption DEF ForceError
  <2>6. Died'
    BY <1>6, CallbackAssumption DEF ForceError
  <2>7. Acknowledged'
    BY <1>6, CallbackAssumption DEF ForceError
  <2>8. Abandoned'
    BY <1>6, CallbackAssumption DEF ForceError
  <2> QED
    BY <2>1, <2>2, <2>3, <2>4, <2>5, <2>6, <2>7, <2>8
<1>7. CASE DeviceDies
  BY <1>7, CallbackAssumption DEF DeviceDies
<1>8. CASE ServiceStops
  BY <1>8, CallbackAssumption DEF ServiceStops
<1> QED
  BY <1>1, <1>2, <1>3, <1>4, <1>5, <1>6, <1>7, <1>8

LEMMA StepInv == IInv /\ [Next]_vars => IInv'
<1> SUFFICES ASSUME IInv, [Next]_vars PROVE IInv'
  OBVIOUS
<1>1. CASE UNCHANGED vars
  BY <1>1 DEF vars, clientVars, ownedVars, callbackVars, fixed, IInv, TypeOK, Progress, Teardown,
     Reclaimed, Abandoned, CallbacksOut, SessionOver, Died, Acknowledged, Ended, Gone, Contexts
<1>2. CASE ~UNCHANGED vars
  <2>1. TypeOK'
    BY TypeInv DEF IInv
  <2> QED
    BY <1>2, <2>1, CreateInv, TeardownInv, PlatformInv DEF Next, Client, Platform, Done
<1> QED
  BY <1>1, <1>2

THEOREM Correct == Spec => []IInv
BY InitInv, StepInv, PTL DEF Spec

(* Every reachable state is well typed.                                    *)
THEOREM TypeCorrect == Spec => []TypeOK
<1>1. IInv => TypeOK
  BY DEF IInv
<1> QED
  BY <1>1, Correct, PTL

(* No callback runs over reclaimed contexts.                               *)
THEOREM ContextsSafe == Spec => []ContextsOutliveCallbacks
<1>1. IInv => ContextsOutliveCallbacks
  BY DEF IInv, TypeOK, Reclaimed, Abandoned, CallbacksOut, Ended, Gone, ContextsOutliveCallbacks
<1> QED
  BY <1>1, Correct, PTL

(* A teardown is never taken for a death and leaves nothing behind.        *)
THEOREM TeardownClean == Spec => []TeardownIsClean
<1>1. IInv => TeardownIsClean
  BY DEF IInv, Progress, Reclaimed, Abandoned, Died, Ended, Gone, TeardownIsClean
<1> QED
  BY <1>1, Correct, PTL

(* An acknowledged stop is the end of the stream.                          *)
THEOREM StopFinal == Spec => StopIsFinal
<1>1. ASSUME IInv, [Next]_vars, word = "Stopped", outcome = "ok", ~hurried
      PROVE  pushed' = pushed /\ (backend # "auhal" => word' = "Stopped")
  <2>1. /\ data = "out" /\ client \notin {"idle", "setup", "opened"}
        /\ backend # "auhal" => notice # "in"
    BY <1>1, Values DEF IInv, AllBackends, Acknowledged, CallbacksOut, SessionOver, Progress, Ended, Gone
  <2>2. pushed' = pushed
    BY <1>1, <2>1 DEF Next, Client, Platform, Done, vars, SamePlatform, Create, SetupFails, Opened,
       StartFails, Start, Listen, Promote, PromoteFails, Stop, Drop, Enter, Unregister, Unlisten,
       RequestHalt, Halt, HaltFails, Quiesced, GivesUp, Close, Reclaim, Signal, Return, Finish,
       DataIn, CallbackStops, DataOut, NoticeIn, LoopExits, ForceError, DeviceDies, ServiceStops
  <2>3. backend # "auhal" => word' = "Stopped"
    BY <1>1, <2>1 DEF Next, Client, Platform, Done, vars, Transition, ClientAt, Create, SetupFails,
       Opened, StartFails, Start, Listen, Promote, PromoteFails, Stop, Drop, Enter, Unregister,
       Unlisten, RequestHalt, Halt, HaltFails, Quiesced, GivesUp, Close, Reclaim, Signal, Return,
       Finish, DataIn, CallbackStops, DataOut, NoticeIn, LoopExits, ForceError, DeviceDies, ServiceStops
  <2> QED
    BY <2>2, <2>3
<1>2. IInv /\ [Next]_vars =>
        [word = "Stopped" /\ outcome = "ok" /\ ~hurried =>
           /\ pushed' = pushed
           /\ backend # "auhal" => word' = "Stopped"]_vars
  BY <1>1
<1> QED
  BY <1>2, Correct, PTL DEF Spec, StopIsFinal
=============================================================================
