------------------------- MODULE BroadcastRing_proofs -------------------------
(***************************************************************************)
(* Theorems about BroadcastRing, for every set of ring capacities, drain   *)
(* chunk and number of frames.                                             *)
(*                                                                         *)
(* The argument for the frames: as long as no broadcast has begun under    *)
(* the reader, the published part of the file holds exactly the frames     *)
(* between the two cursors; the writer's copy lies behind them, and since  *)
(* it never spans more than the capacity, no two frames involved share a   *)
(* slot.  The publish word is what ties the reader's view to the file: it  *)
(* is zero whenever the geometry or the cursors are being rewritten.       *)
(***************************************************************************)
EXTENDS BroadcastRing, TLAPS

Opening == {"probe", "publish", "geometry", "fresh", "spawn"}
Looping == {"begin", "top", "load", "cursors", "copy", "store", "beat"}
Mapped == {"fresh", "spawn"} \union Looping
Writing == {"idle", "copy", "commit"}
Resetting == {"geometry", "zeroWrite", "zeroRead", "publish"}

FrameIds == [gen : Nat, n : Nat]
Slots == 0 .. MaxCapacity - 1

Files ==
  [published : Nat, size : Nat, capacity : Nat, write : Nat, read : Nat, drops : Nat,
   data : [Slots -> FrameIds]]

TypesOK ==
  /\ file \in Files
  /\ gen \in Nat /\ writer \in [capacity : Nat, write : Nat, count : Nat]
  /\ ring \in [size : Nat, capacity : Nat] /\ pass \in [write : Nat, read : Nat]
  /\ expect \in FrameIds /\ lastSeen \in Nat /\ uncounted \in Int

PlacesOK ==
  /\ ext \in {"off", "dead", "unpublish"} \union Resetting \union Writing
  /\ pc \in Opening \union Looping \union {"gone"}
  /\ client \in {"polling", "open", "stopping", "dropping", "closed"}
  /\ client = "polling" <=> pc \in Opening
  /\ client = "closed" => pc = "gone"
  /\ churned \in {"no", "opening", "attached"}

(* The extension.  The publish word is zero while the header is rewritten. *)
ExtensionOK ==
  /\ file.capacity \in Capacities \union {0} /\ file.capacity <= file.size
  /\ file.published # NoGen => file.capacity # 0
  /\ ext # "off" => gen # NoGen
  /\ ext \in {"unpublish"} \union Resetting \union Writing =>
       writer.capacity \in Capacities /\ writer.capacity <= file.size
  /\ ext \in {"zeroWrite", "zeroRead", "publish"} \union Writing => file.capacity = writer.capacity
  /\ ext \in Resetting => file.published = NoGen
  /\ ext \in {"zeroRead", "publish"} => file.write = 0
  /\ ext \in Writing => file.published = gen

(* The host.                                                               *)
HostOK ==
  /\ pc \in {"geometry"} \union Mapped => file.capacity # 0
  /\ ring.size <= file.size
  /\ pc \in Mapped => ring.capacity # 0 /\ ring.capacity <= ring.size
  /\ pc \in {"copy", "store"} =>
       pass.read < pass.write /\ pass.write - pass.read <= ring.capacity
  /\ client = "polling" \/ pc = "begin" => uncounted = 0

(* What the reader knows of the file stays true until a broadcast begins.  *)
Trusted ==
  churned = "no" =>
    /\ pc \in {"geometry"} \union Mapped => Published /\ expect.gen = file.published
    /\ pc \in Mapped => ring.capacity = file.capacity

Holds(first, end, g) ==
  \A n \in Nat :
    first <= n /\ n < end => file.data[n % file.capacity] = [gen |-> g, n |-> n]

Undisturbed == churned = "no" \/ client = "polling"
CursorsOK ==
  Undisturbed =>
    /\ ext = "publish" => file.read = 0
    /\ Published => file.read <= file.write /\ file.write - file.read <= file.capacity
    /\ ext \in {"copy", "commit"} =>
         /\ writer.write = file.write
         /\ writer.write + writer.count - file.read <= file.capacity
ContentOK ==
  Undisturbed =>
    /\ Published => Holds(file.read, file.write, file.published)
    /\ ext = "commit" => Holds(writer.write, writer.write + writer.count, gen)

(* The reader's cursors.                                                   *)
ReaderOK ==
  churned = "no" =>
    /\ pc \in Looping \ {"store"} => expect.n = file.read
    /\ pc = "cursors" => file.read <= pass.write /\ pass.write <= file.write
    /\ pc \in {"copy", "store"} => pass.read = file.read /\ pass.write <= file.write
    /\ pc = "store" => expect.n = file.read + Take

WordOK ==
  /\ pc \in Opening \ {"spawn"} => word = "Created"
  /\ pc = "spawn" => word = "Running"
  /\ pc \in Looping => word \in {"Running", "Stopping"}
  /\ client \in {"open", "stopping", "dropping"} /\ pc = "gone" =>
       word \in {"Stopping", "Stopped", "Error"}

IInv ==
  /\ TypesOK /\ PlacesOK /\ ExtensionOK /\ HostOK /\ Trusted
  /\ CursorsOK /\ ContentOK /\ ReaderOK /\ WordOK /\ LossCounted

-----------------------------------------------------------------------------
(* Arithmetic: two frames closer than the capacity have different slots.   *)
LEMMA MaxOfTwo ==
  ASSUME NEW a \in Int, NEW b \in Int PROVE Max({a, b}) = IF a >= b THEN a ELSE b
  BY DEF Max

LEMMA MinOfTwo ==
  ASSUME NEW a \in Int, NEW b \in Int PROVE Min({a, b}) = IF a <= b THEN a ELSE b
  BY DEF Min

LEMMA ModRange ==
  ASSUME NEW c \in Nat \ {0}, NEW a \in Nat PROVE a % c \in 0 .. c - 1
  OBVIOUS

LEMMA DivMod ==
  ASSUME NEW c \in Nat \ {0}, NEW a \in Nat
  PROVE  a = c * (a \div c) + (a % c) /\ a \div c \in Nat
  OBVIOUS

LEMMA SmallMultiple ==
  ASSUME NEW c \in Nat \ {0}, NEW q \in Int, 0 <= c * q, c * q < c PROVE q = 0
<1>1. CASE q >= 1
  <2>1. c * q >= c
    BY <1>1
  <2> QED
    BY <2>1
<1>2. CASE q <= -1
  <2>1. c * q <= -c
    BY <1>2
  <2> QED
    BY <2>1
<1> QED
  BY <1>1, <1>2

LEMMA SlotsDiffer ==
  ASSUME NEW c \in Nat \ {0}, NEW a \in Nat, NEW b \in Nat, a <= b, b - a < c, a % c = b % c
  PROVE  a = b
<1> DEFINE q == (b \div c) - (a \div c)
<1>1. q \in Int /\ b - a = c * (b \div c) - c * (a \div c)
  BY DivMod
<1>2. c * (b \div c) - c * (a \div c) = c * q
  BY DivMod
<1>3. q = 0
  <2> HIDE DEF q
  <2> QED
    BY <1>1, <1>2, SmallMultiple
<1> QED
  BY <1>1, <1>2, <1>3

LEMMA LargestCapacity ==
  /\ MaxCapacity \in Capacities
  /\ \A c \in Capacities : c \in Nat \ {0} /\ c <= MaxCapacity
  BY BroadcastAssumption DEF BroadcastAssumption, MaxCapacity, Max

LEMMA Geometry ==
  ASSUME TypesOK, ExtensionOK, file.capacity # 0
  PROVE  /\ file.capacity \in Nat \ {0}
         /\ \A n \in Nat : n % file.capacity \in Slots
<1>1. file.capacity \in Nat \ {0} /\ file.capacity <= MaxCapacity /\ MaxCapacity \in Nat
  BY LargestCapacity DEF ExtensionOK
<1>2. ASSUME NEW n \in Nat PROVE n % file.capacity \in Slots
  <2> DEFINE c == file.capacity
  <2>1. n % c \in 0 .. c - 1
    <3> HIDE DEF c
    <3> QED
      BY <1>1, ModRange DEF c
  <2> QED
    BY <1>1, <2>1 DEF Slots
<1> QED
  BY <1>1, <1>2

-----------------------------------------------------------------------------
LEMMA TakeOK ==
  ASSUME TypesOK, HostOK, pc \in {"copy", "store"}
  PROVE  /\ Take \in Nat \ {0} /\ Take <= pass.write - pass.read
         /\ pass.read \in Nat /\ pass.write \in Nat
<1>1. pass.read \in Nat /\ pass.write \in Nat /\ pass.read < pass.write
  BY DEF TypesOK, Files, HostOK
<1>2. Chunk \in Nat \ {0}
  BY BroadcastAssumption DEF BroadcastAssumption
<1> QED
  BY <1>1, <1>2, MinOfTwo DEF Take

(* The write under way, slot by slot.                                      *)
Which(s) == CHOOSE i \in 0 .. writer.count - 1 : (writer.write + i) % writer.capacity = s
NewData ==
  [s \in DOMAIN file.data |->
     IF \E i \in 0 .. writer.count - 1 : (writer.write + i) % writer.capacity = s
     THEN Frame(writer.write + Which(s))
     ELSE file.data[s]]

LEMMA WhichOK ==
  ASSUME NEW s, \E i \in 0 .. writer.count - 1 : (writer.write + i) % writer.capacity = s
  PROVE  /\ Which(s) \in 0 .. writer.count - 1
         /\ (writer.write + Which(s)) % writer.capacity = s
  BY Zenon DEF Which

(* Where everything is.                                                    *)
LEMMA PlacesStep == PlacesOK /\ [Next]_vars => PlacesOK'
<1> SUFFICES ASSUME PlacesOK, [Next]_vars PROVE PlacesOK'
  OBVIOUS
<1> USE DEF PlacesOK, Opening, Looping, Mapped, Writing, Resetting, Trusting, ExtAt, HostAt, ClientAt, SignalDone, vars, fileVars, extVars, hostVars, streamVars, bufferVars
<1>1. ASSUME NEW c \in Capacities, Create(c) PROVE PlacesOK'
  BY <1>1 DEF Create
<1>2. CASE Unpublish
  BY <1>2 DEF Unpublish
<1>3. CASE WriteGeometry
  BY <1>3 DEF WriteGeometry
<1>4. CASE ZeroWrite
  BY <1>4 DEF ZeroWrite
<1>5. CASE ZeroRead
  BY <1>5 DEF ZeroRead
<1>6. CASE Publish
  BY <1>6 DEF Publish
<1>7. CASE CopyIn
  BY <1>7 DEF CopyIn
<1>8. CASE Commit
  BY <1>8 DEF Commit
<1>9. CASE WriteTraps
  BY <1>9 DEF WriteTraps
<1>10. CASE Die
  BY <1>10 DEF Die
<1>11. ASSUME NEW n \in 1 .. MaxBuffer, Refuse(n) PROVE PlacesOK'
  BY <1>11 DEF Refuse
<1>12. ASSUME NEW n \in 1 .. MaxBuffer, BeginWrite(n) PROVE PlacesOK'
  BY <1>12 DEF BeginWrite
<1>13. CASE GoesStale
  BY <1>13 DEF GoesStale
<1>14. CASE Probe
  BY <1>14 DEF Probe
<1>15. CASE CheckPublish
  BY <1>15 DEF CheckPublish
<1>16. CASE ReadGeometry
  BY <1>16 DEF ReadGeometry
<1>17. CASE StaleRing
  BY <1>17 DEF StaleRing
<1>18. CASE Attach
  BY <1>18 DEF Attach
<1>19. CASE Spawn
  BY <1>19 DEF Spawn
<1>20. ASSUME NEW at \in {"probe", "geometry", "spawn"}, CreateFails(at) PROVE PlacesOK'
  BY <1>20 DEF CreateFails
<1>21. CASE Stopped
  BY <1>21 DEF Stopped
<1>22. CASE ForwardDrops
  BY <1>22 DEF ForwardDrops
<1>23. CASE LoadWrite
  BY <1>23 DEF LoadWrite
<1>24. CASE LoadRead
  BY <1>24 DEF LoadRead
<1>25. CASE Corrupt
  BY <1>25 DEF Corrupt
<1>26. CASE Drain
  BY <1>26 DEF Drain
<1>27. CASE StoreRead
  BY <1>27 DEF StoreRead
<1>28. CASE Alive
  BY <1>28 DEF Alive
<1>29. CASE Dead
  BY <1>29 DEF Dead
<1>30. CASE AskStop
  BY <1>30 DEF AskStop
<1>31. CASE DropStream
  BY <1>31 DEF DropStream
<1>32. CASE Join
  BY <1>32 DEF Join
<1>33. CASE UNCHANGED vars
  BY <1>33
<1>34. CASE Baseline
  BY <1>34 DEF Baseline
<1> QED
  BY <1>1, <1>2, <1>3, <1>4, <1>5, <1>6, <1>7, <1>8, <1>9, <1>10, <1>11, <1>12, <1>13, <1>14, <1>15, <1>16, <1>17, <1>18, <1>19, <1>20, <1>21, <1>22, <1>23, <1>24, <1>25, <1>26, <1>27, <1>28, <1>29, <1>30, <1>31, <1>32, <1>33, <1>34 DEF Next, Extension, ExtensionRuns, Creating, DrainLoop, Client

(* The types.                                                              *)
LEMMA TypesStep == TypesOK /\ ExtensionOK /\ HostOK /\ [Next]_vars => TypesOK'
<1> SUFFICES ASSUME TypesOK /\ ExtensionOK /\ HostOK, [Next]_vars PROVE TypesOK'
  OBVIOUS
<1> USE BroadcastAssumption, LargestCapacity DEF TypesOK, Files, FrameIds, HostOK, NoGen, NoWriter, NoPass, NoFrame, ExtAt, HostAt, ClientAt, SignalDone,
     vars, fileVars, extVars, hostVars, streamVars, bufferVars
<1>1. ASSUME NEW c \in Capacities, Create(c) PROVE TypesOK'
  <2>1. c \in Nat
    BY <1>1, LargestCapacity
  <2>2. file' \in Files
    BY <1>1, <2>1 DEF Create
  <2>3. gen' \in Nat /\ writer' \in [capacity : Nat, write : Nat, count : Nat]
    BY <1>1, <2>1 DEF Create
  <2> QED
    BY <1>1, <2>2, <2>3 DEF Create
<1>2. CASE Unpublish
  BY <1>2 DEF Unpublish
<1>3. CASE WriteGeometry
  BY <1>3 DEF WriteGeometry
<1>4. CASE ZeroWrite
  BY <1>4 DEF ZeroWrite
<1>5. CASE ZeroRead
  BY <1>5 DEF ZeroRead
<1>6. CASE Publish
  BY <1>6 DEF Publish
<1>7. CASE CopyIn
  <2>1. ASSUME NEW s \in Slots PROVE NewData[s] \in FrameIds
    <3>1. CASE ~ \E i \in 0 .. writer.count - 1 : (writer.write + i) % writer.capacity = s
      BY <3>1 DEF NewData
    <3>2. CASE \E i \in 0 .. writer.count - 1 : (writer.write + i) % writer.capacity = s
      <4>1. writer.write + Which(s) \in Nat
        BY <3>2, WhichOK
      <4>2. NewData[s] = Frame(writer.write + Which(s))
        BY <3>2 DEF NewData
      <4> QED
        BY <4>1, <4>2 DEF Frame
    <3> QED
      BY <3>1, <3>2
  <2>2. NewData \in [Slots -> FrameIds]
    BY <2>1 DEF NewData
  <2>3. file' = [file EXCEPT !.data = NewData]
    BY <1>7 DEF CopyIn, NewData, Which
  <2>4. file' \in Files
    BY <2>2, <2>3
  <2>5. UNCHANGED <<gen, writer, uncounted, hostVars>>
    BY <1>7 DEF CopyIn
  <2> QED
    BY <2>4, <2>5
<1>8. CASE Commit
  <2>1. writer.write + writer.count \in Nat
    OBVIOUS
  <2>2. file' \in Files
    BY <1>8, <2>1 DEF Commit
  <2>3. writer' \in [capacity : Nat, write : Nat, count : Nat]
    BY <1>8 DEF Commit
  <2> QED
    BY <1>8, <2>2, <2>3 DEF Commit
<1>9. CASE WriteTraps
  BY <1>9 DEF WriteTraps
<1>10. CASE Die
  BY <1>10 DEF Die
<1>11. ASSUME NEW n \in 1 .. MaxBuffer, Refuse(n) PROVE TypesOK'
  <2>1. file' \in Files
    BY <1>11 DEF Refuse
  <2>2. uncounted' \in Int
    BY <1>11 DEF Refuse
  <2> QED
    BY <1>11, <2>1, <2>2 DEF Refuse
<1>12. ASSUME NEW n \in 1 .. MaxBuffer, BeginWrite(n) PROVE TypesOK'
  <2>1. n \in Nat
    BY BroadcastAssumption DEF BroadcastAssumption
  <2>2. writer' \in [capacity : Nat, write : Nat, count : Nat]
    BY <1>12, <2>1 DEF BeginWrite
  <2> QED
    BY <1>12, <2>2 DEF BeginWrite
<1>13. CASE GoesStale
  BY <1>13 DEF GoesStale
<1>14. CASE Probe
  BY <1>14 DEF Probe
<1>15. CASE CheckPublish
  BY <1>15 DEF CheckPublish
<1>16. CASE ReadGeometry
  BY <1>16 DEF ReadGeometry
<1>17. CASE StaleRing
  BY <1>17 DEF StaleRing
<1>18. CASE Attach
  BY <1>18 DEF Attach
<1>19. CASE Spawn
  BY <1>19 DEF Spawn
<1>20. ASSUME NEW at \in {"probe", "geometry", "spawn"}, CreateFails(at) PROVE TypesOK'
  BY <1>20 DEF CreateFails
<1>21. CASE Stopped
  BY <1>21 DEF Stopped
<1>22. CASE ForwardDrops
  <2>1. file.drops \in Nat /\ lastSeen \in Nat
    OBVIOUS
  <2>2. Max({lastSeen, file.drops}) \in Nat
    BY <2>1, MaxOfTwo
  <2>3. (IF file.drops > lastSeen THEN uncounted - (file.drops - lastSeen) ELSE uncounted) \in Int
    BY <2>1
  <2>4. lastSeen' \in Nat /\ uncounted' \in Int
    BY <1>22, <2>2, <2>3 DEF ForwardDrops
  <2> QED
    BY <1>22, <2>4 DEF ForwardDrops
<1>23. CASE LoadWrite
  BY <1>23 DEF LoadWrite
<1>24. CASE LoadRead
  BY <1>24 DEF LoadRead
<1>25. CASE Corrupt
  BY <1>25 DEF Corrupt
<1>26. CASE Drain
  <2>1. Take \in Nat
    BY <1>26, TakeOK DEF Drain
  <2>2. [expect EXCEPT !.n = @ + Take] \in FrameIds
    BY <2>1
  <2>3. expect' \in FrameIds
    BY <1>26, <2>2 DEF Drain
  <2> QED
    BY <1>26, <2>3 DEF Drain
<1>27. CASE StoreRead
  <2>1. Take \in Nat
    BY <1>27, TakeOK DEF StoreRead
  <2>2. pass.read + Take \in Nat
    BY <2>1
  <2>3. file' \in Files
    BY <1>27, <2>2 DEF StoreRead
  <2> QED
    BY <1>27, <2>3 DEF StoreRead
<1>28. CASE Alive
  BY <1>28 DEF Alive
<1>29. CASE Dead
  BY <1>29 DEF Dead
<1>30. CASE AskStop
  BY <1>30 DEF AskStop
<1>31. CASE DropStream
  BY <1>31 DEF DropStream
<1>32. CASE Join
  BY <1>32 DEF Join
<1>33. CASE UNCHANGED vars
  BY <1>33
<1>34. CASE Baseline
  BY <1>34 DEF Baseline
<1> QED
  BY <1>1, <1>2, <1>3, <1>4, <1>5, <1>6, <1>7, <1>8, <1>9, <1>10, <1>11, <1>12, <1>13, <1>14, <1>15, <1>16, <1>17, <1>18, <1>19, <1>20, <1>21, <1>22, <1>23, <1>24, <1>25, <1>26, <1>27, <1>28, <1>29, <1>30, <1>31, <1>32, <1>33, <1>34 DEF Next, Extension, ExtensionRuns, Creating, DrainLoop, Client

(* The extension.                                                          *)
LEMMA ExtensionStep == TypesOK /\ PlacesOK /\ ExtensionOK /\ [Next]_vars => ExtensionOK'
<1> SUFFICES ASSUME TypesOK /\ PlacesOK /\ ExtensionOK, [Next]_vars PROVE ExtensionOK'
  OBVIOUS
<1> USE BroadcastAssumption, LargestCapacity DEF TypesOK, Files, PlacesOK, ExtensionOK, Writing, Resetting, NoGen, ExtAt, HostAt, ClientAt, SignalDone, vars, fileVars, extVars, hostVars, streamVars, bufferVars
<1>1. ASSUME NEW c \in Capacities, Create(c) PROVE ExtensionOK'
  BY <1>1 DEF Create
<1>2. CASE Unpublish
  BY <1>2 DEF Unpublish
<1>3. CASE WriteGeometry
  BY <1>3 DEF WriteGeometry
<1>4. CASE ZeroWrite
  BY <1>4 DEF ZeroWrite
<1>5. CASE ZeroRead
  BY <1>5 DEF ZeroRead
<1>6. CASE Publish
  BY <1>6 DEF Publish
<1>7. CASE CopyIn
  BY <1>7 DEF CopyIn
<1>8. CASE Commit
  BY <1>8 DEF Commit
<1>9. CASE WriteTraps
  BY <1>9 DEF WriteTraps
<1>10. CASE Die
  BY <1>10 DEF Die
<1>11. ASSUME NEW n \in 1 .. MaxBuffer, Refuse(n) PROVE ExtensionOK'
  BY <1>11 DEF Refuse
<1>12. ASSUME NEW n \in 1 .. MaxBuffer, BeginWrite(n) PROVE ExtensionOK'
  BY <1>12 DEF BeginWrite
<1>13. CASE GoesStale
  BY <1>13 DEF GoesStale
<1>14. CASE Probe
  BY <1>14 DEF Probe
<1>15. CASE CheckPublish
  BY <1>15 DEF CheckPublish
<1>16. CASE ReadGeometry
  BY <1>16 DEF ReadGeometry
<1>17. CASE StaleRing
  BY <1>17 DEF StaleRing
<1>18. CASE Attach
  BY <1>18 DEF Attach
<1>19. CASE Spawn
  BY <1>19 DEF Spawn
<1>20. ASSUME NEW at \in {"probe", "geometry", "spawn"}, CreateFails(at) PROVE ExtensionOK'
  BY <1>20 DEF CreateFails
<1>21. CASE Stopped
  BY <1>21 DEF Stopped
<1>22. CASE ForwardDrops
  BY <1>22 DEF ForwardDrops
<1>23. CASE LoadWrite
  BY <1>23 DEF LoadWrite
<1>24. CASE LoadRead
  BY <1>24 DEF LoadRead
<1>25. CASE Corrupt
  BY <1>25 DEF Corrupt
<1>26. CASE Drain
  BY <1>26 DEF Drain
<1>27. CASE StoreRead
  BY <1>27 DEF StoreRead
<1>28. CASE Alive
  BY <1>28 DEF Alive
<1>29. CASE Dead
  BY <1>29 DEF Dead
<1>30. CASE AskStop
  BY <1>30 DEF AskStop
<1>31. CASE DropStream
  BY <1>31 DEF DropStream
<1>32. CASE Join
  BY <1>32 DEF Join
<1>33. CASE UNCHANGED vars
  BY <1>33
<1>34. CASE Baseline
  BY <1>34 DEF Baseline
<1> QED
  BY <1>1, <1>2, <1>3, <1>4, <1>5, <1>6, <1>7, <1>8, <1>9, <1>10, <1>11, <1>12, <1>13, <1>14, <1>15, <1>16, <1>17, <1>18, <1>19, <1>20, <1>21, <1>22, <1>23, <1>24, <1>25, <1>26, <1>27, <1>28, <1>29, <1>30, <1>31, <1>32, <1>33, <1>34 DEF Next, Extension, ExtensionRuns, Creating, DrainLoop, Client

(* The host.                                                               *)
LEMMA HostStep == TypesOK /\ PlacesOK /\ ExtensionOK /\ HostOK /\ [Next]_vars => HostOK'
<1> SUFFICES ASSUME TypesOK /\ PlacesOK /\ ExtensionOK /\ HostOK, [Next]_vars PROVE HostOK'
  OBVIOUS
<1> USE BroadcastAssumption, LargestCapacity DEF TypesOK, Files, PlacesOK, ExtensionOK, HostOK, Opening, Looping, Mapped, Writing, Resetting, NoGen,
     Published, Consistent, ExtAt, HostAt, ClientAt, SignalDone, vars, fileVars, extVars, hostVars, streamVars, bufferVars
<1>1. ASSUME NEW c \in Capacities, Create(c) PROVE HostOK'
  BY <1>1 DEF Create
<1>2. CASE Unpublish
  BY <1>2 DEF Unpublish
<1>3. CASE WriteGeometry
  BY <1>3 DEF WriteGeometry
<1>4. CASE ZeroWrite
  BY <1>4 DEF ZeroWrite
<1>5. CASE ZeroRead
  BY <1>5 DEF ZeroRead
<1>6. CASE Publish
  BY <1>6 DEF Publish
<1>7. CASE CopyIn
  BY <1>7 DEF CopyIn
<1>8. CASE Commit
  BY <1>8 DEF Commit
<1>9. CASE WriteTraps
  BY <1>9 DEF WriteTraps
<1>10. CASE Die
  BY <1>10 DEF Die
<1>11. ASSUME NEW n \in 1 .. MaxBuffer, Refuse(n) PROVE HostOK'
  BY <1>11 DEF Refuse
<1>12. ASSUME NEW n \in 1 .. MaxBuffer, BeginWrite(n) PROVE HostOK'
  BY <1>12 DEF BeginWrite
<1>13. CASE GoesStale
  BY <1>13 DEF GoesStale
<1>14. CASE Probe
  BY <1>14 DEF Probe
<1>15. CASE CheckPublish
  BY <1>15 DEF CheckPublish
<1>16. CASE ReadGeometry
  BY <1>16 DEF ReadGeometry
<1>17. CASE StaleRing
  BY <1>17 DEF StaleRing
<1>18. CASE Attach
  BY <1>18 DEF Attach
<1>19. CASE Spawn
  BY <1>19 DEF Spawn
<1>20. ASSUME NEW at \in {"probe", "geometry", "spawn"}, CreateFails(at) PROVE HostOK'
  BY <1>20 DEF CreateFails
<1>21. CASE Stopped
  BY <1>21 DEF Stopped
<1>22. CASE ForwardDrops
  BY <1>22 DEF ForwardDrops
<1>23. CASE LoadWrite
  BY <1>23 DEF LoadWrite
<1>24. CASE LoadRead
  BY <1>24 DEF LoadRead
<1>25. CASE Corrupt
  BY <1>25 DEF Corrupt
<1>26. CASE Drain
  BY <1>26 DEF Drain
<1>27. CASE StoreRead
  BY <1>27 DEF StoreRead
<1>28. CASE Alive
  BY <1>28 DEF Alive
<1>29. CASE Dead
  BY <1>29 DEF Dead
<1>30. CASE AskStop
  BY <1>30 DEF AskStop
<1>31. CASE DropStream
  BY <1>31 DEF DropStream
<1>32. CASE Join
  BY <1>32 DEF Join
<1>33. CASE UNCHANGED vars
  BY <1>33
<1>34. CASE Baseline
  BY <1>34 DEF Baseline
<1> QED
  BY <1>1, <1>2, <1>3, <1>4, <1>5, <1>6, <1>7, <1>8, <1>9, <1>10, <1>11, <1>12, <1>13, <1>14, <1>15, <1>16, <1>17, <1>18, <1>19, <1>20, <1>21, <1>22, <1>23, <1>24, <1>25, <1>26, <1>27, <1>28, <1>29, <1>30, <1>31, <1>32, <1>33, <1>34 DEF Next, Extension, ExtensionRuns, Creating, DrainLoop, Client

(* What the reader trusts.                                                 *)
LEMMA TrustStep == TypesOK /\ PlacesOK /\ ExtensionOK /\ Trusted /\ [Next]_vars => Trusted'
<1> SUFFICES ASSUME TypesOK /\ PlacesOK /\ ExtensionOK /\ Trusted, [Next]_vars PROVE Trusted'
  OBVIOUS
<1> USE DEF TypesOK, Files, PlacesOK, ExtensionOK, Trusted, Opening, Looping, Mapped, Writing, Resetting, NoGen,
     Published, Attached, Trusting, FrameIds, ExtAt, HostAt, ClientAt, SignalDone, vars, fileVars, extVars, hostVars, streamVars, bufferVars
<1>1. ASSUME NEW c \in Capacities, Create(c) PROVE Trusted'
  BY <1>1 DEF Create
<1>2. CASE Unpublish
  BY <1>2 DEF Unpublish
<1>3. CASE WriteGeometry
  BY <1>3 DEF WriteGeometry
<1>4. CASE ZeroWrite
  BY <1>4 DEF ZeroWrite
<1>5. CASE ZeroRead
  BY <1>5 DEF ZeroRead
<1>6. CASE Publish
  BY <1>6 DEF Publish
<1>7. CASE CopyIn
  BY <1>7 DEF CopyIn
<1>8. CASE Commit
  BY <1>8 DEF Commit
<1>9. CASE WriteTraps
  BY <1>9 DEF WriteTraps
<1>10. CASE Die
  BY <1>10 DEF Die
<1>11. ASSUME NEW n \in 1 .. MaxBuffer, Refuse(n) PROVE Trusted'
  BY <1>11 DEF Refuse
<1>12. ASSUME NEW n \in 1 .. MaxBuffer, BeginWrite(n) PROVE Trusted'
  BY <1>12 DEF BeginWrite
<1>13. CASE GoesStale
  BY <1>13 DEF GoesStale
<1>14. CASE Probe
  BY <1>14 DEF Probe
<1>15. CASE CheckPublish
  BY <1>15 DEF CheckPublish
<1>16. CASE ReadGeometry
  BY <1>16 DEF ReadGeometry
<1>17. CASE StaleRing
  BY <1>17 DEF StaleRing
<1>18. CASE Attach
  BY <1>18 DEF Attach
<1>19. CASE Spawn
  BY <1>19 DEF Spawn
<1>20. ASSUME NEW at \in {"probe", "geometry", "spawn"}, CreateFails(at) PROVE Trusted'
  BY <1>20 DEF CreateFails
<1>21. CASE Stopped
  BY <1>21 DEF Stopped
<1>22. CASE ForwardDrops
  BY <1>22 DEF ForwardDrops
<1>23. CASE LoadWrite
  BY <1>23 DEF LoadWrite
<1>24. CASE LoadRead
  BY <1>24 DEF LoadRead
<1>25. CASE Corrupt
  BY <1>25 DEF Corrupt
<1>26. CASE Drain
  BY <1>26 DEF Drain
<1>27. CASE StoreRead
  BY <1>27 DEF StoreRead
<1>28. CASE Alive
  BY <1>28 DEF Alive
<1>29. CASE Dead
  BY <1>29 DEF Dead
<1>30. CASE AskStop
  BY <1>30 DEF AskStop
<1>31. CASE DropStream
  BY <1>31 DEF DropStream
<1>32. CASE Join
  BY <1>32 DEF Join
<1>33. CASE UNCHANGED vars
  BY <1>33
<1>34. CASE Baseline
  BY <1>34 DEF Baseline
<1> QED
  BY <1>1, <1>2, <1>3, <1>4, <1>5, <1>6, <1>7, <1>8, <1>9, <1>10, <1>11, <1>12, <1>13, <1>14, <1>15, <1>16, <1>17, <1>18, <1>19, <1>20, <1>21, <1>22, <1>23, <1>24, <1>25, <1>26, <1>27, <1>28, <1>29, <1>30, <1>31, <1>32, <1>33, <1>34 DEF Next, Extension, ExtensionRuns, Creating, DrainLoop, Client

(* The lifecycle word.                                                     *)
LEMMA WordStep == PlacesOK /\ WordOK /\ [Next]_vars => WordOK'
<1> SUFFICES ASSUME PlacesOK /\ WordOK, [Next]_vars PROVE WordOK'
  OBVIOUS
<1> USE DEF PlacesOK, WordOK, Opening, Looping, ExtAt, HostAt, ClientAt, SignalDone, vars, fileVars, extVars, hostVars, streamVars, bufferVars
<1>1. ASSUME NEW c \in Capacities, Create(c) PROVE WordOK'
  BY <1>1 DEF Create
<1>2. CASE Unpublish
  BY <1>2 DEF Unpublish
<1>3. CASE WriteGeometry
  BY <1>3 DEF WriteGeometry
<1>4. CASE ZeroWrite
  BY <1>4 DEF ZeroWrite
<1>5. CASE ZeroRead
  BY <1>5 DEF ZeroRead
<1>6. CASE Publish
  BY <1>6 DEF Publish
<1>7. CASE CopyIn
  BY <1>7 DEF CopyIn
<1>8. CASE Commit
  BY <1>8 DEF Commit
<1>9. CASE WriteTraps
  BY <1>9 DEF WriteTraps
<1>10. CASE Die
  BY <1>10 DEF Die
<1>11. ASSUME NEW n \in 1 .. MaxBuffer, Refuse(n) PROVE WordOK'
  BY <1>11 DEF Refuse
<1>12. ASSUME NEW n \in 1 .. MaxBuffer, BeginWrite(n) PROVE WordOK'
  BY <1>12 DEF BeginWrite
<1>13. CASE GoesStale
  BY <1>13 DEF GoesStale
<1>14. CASE Probe
  BY <1>14 DEF Probe
<1>15. CASE CheckPublish
  BY <1>15 DEF CheckPublish
<1>16. CASE ReadGeometry
  BY <1>16 DEF ReadGeometry
<1>17. CASE StaleRing
  BY <1>17 DEF StaleRing
<1>18. CASE Attach
  BY <1>18 DEF Attach
<1>19. CASE Spawn
  BY <1>19 DEF Spawn
<1>20. ASSUME NEW at \in {"probe", "geometry", "spawn"}, CreateFails(at) PROVE WordOK'
  BY <1>20 DEF CreateFails
<1>21. CASE Stopped
  BY <1>21 DEF Stopped
<1>22. CASE ForwardDrops
  BY <1>22 DEF ForwardDrops
<1>23. CASE LoadWrite
  BY <1>23 DEF LoadWrite
<1>24. CASE LoadRead
  BY <1>24 DEF LoadRead
<1>25. CASE Corrupt
  BY <1>25 DEF Corrupt
<1>26. CASE Drain
  BY <1>26 DEF Drain
<1>27. CASE StoreRead
  BY <1>27 DEF StoreRead
<1>28. CASE Alive
  BY <1>28 DEF Alive
<1>29. CASE Dead
  BY <1>29 DEF Dead
<1>30. CASE AskStop
  BY <1>30 DEF AskStop
<1>31. CASE DropStream
  BY <1>31 DEF DropStream
<1>32. CASE Join
  BY <1>32 DEF Join
<1>33. CASE UNCHANGED vars
  BY <1>33
<1>34. CASE Baseline
  BY <1>34 DEF Baseline
<1> QED
  BY <1>1, <1>2, <1>3, <1>4, <1>5, <1>6, <1>7, <1>8, <1>9, <1>10, <1>11, <1>12, <1>13, <1>14, <1>15, <1>16, <1>17, <1>18, <1>19, <1>20, <1>21, <1>22, <1>23, <1>24, <1>25, <1>26, <1>27, <1>28, <1>29, <1>30, <1>31, <1>32, <1>33, <1>34 DEF Next, Extension, ExtensionRuns, Creating, DrainLoop, Client

Hosted == TypesOK /\ PlacesOK /\ ExtensionOK /\ HostOK /\ Trusted

(* Nothing calms down but by a new probe, before the stream is there.      *)
LEMMA CalmStep == PlacesOK /\ [Next]_vars => (Undisturbed' => Undisturbed)
<1> SUFFICES ASSUME PlacesOK, [Next]_vars PROVE Undisturbed' => Undisturbed
  OBVIOUS
<1> USE DEF PlacesOK, Undisturbed, Opening, Looping, ExtAt, HostAt, ClientAt, SignalDone, vars, fileVars, extVars, hostVars, streamVars, bufferVars
<1>1. ASSUME NEW c \in Capacities, Create(c) PROVE Undisturbed' => Undisturbed
  BY <1>1 DEF Create
<1>2. CASE Unpublish
  BY <1>2 DEF Unpublish
<1>3. CASE WriteGeometry
  BY <1>3 DEF WriteGeometry
<1>4. CASE ZeroWrite
  BY <1>4 DEF ZeroWrite
<1>5. CASE ZeroRead
  BY <1>5 DEF ZeroRead
<1>6. CASE Publish
  BY <1>6 DEF Publish
<1>7. CASE CopyIn
  BY <1>7 DEF CopyIn
<1>8. CASE Commit
  BY <1>8 DEF Commit
<1>9. CASE WriteTraps
  BY <1>9 DEF WriteTraps
<1>10. CASE Die
  BY <1>10 DEF Die
<1>11. ASSUME NEW n \in 1 .. MaxBuffer, Refuse(n) PROVE Undisturbed' => Undisturbed
  BY <1>11 DEF Refuse
<1>12. ASSUME NEW n \in 1 .. MaxBuffer, BeginWrite(n) PROVE Undisturbed' => Undisturbed
  BY <1>12 DEF BeginWrite
<1>13. CASE GoesStale
  BY <1>13 DEF GoesStale
<1>14. CASE Probe
  BY <1>14 DEF Probe
<1>15. CASE CheckPublish
  BY <1>15 DEF CheckPublish
<1>16. CASE ReadGeometry
  BY <1>16 DEF ReadGeometry
<1>17. CASE StaleRing
  BY <1>17 DEF StaleRing
<1>18. CASE Attach
  BY <1>18 DEF Attach
<1>19. CASE Spawn
  BY <1>19 DEF Spawn
<1>20. ASSUME NEW at \in {"probe", "geometry", "spawn"}, CreateFails(at) PROVE Undisturbed' => Undisturbed
  BY <1>20 DEF CreateFails
<1>21. CASE Stopped
  BY <1>21 DEF Stopped
<1>22. CASE ForwardDrops
  BY <1>22 DEF ForwardDrops
<1>23. CASE LoadWrite
  BY <1>23 DEF LoadWrite
<1>24. CASE LoadRead
  BY <1>24 DEF LoadRead
<1>25. CASE Corrupt
  BY <1>25 DEF Corrupt
<1>26. CASE Drain
  BY <1>26 DEF Drain
<1>27. CASE StoreRead
  BY <1>27 DEF StoreRead
<1>28. CASE Alive
  BY <1>28 DEF Alive
<1>29. CASE Dead
  BY <1>29 DEF Dead
<1>30. CASE AskStop
  BY <1>30 DEF AskStop
<1>31. CASE DropStream
  BY <1>31 DEF DropStream
<1>32. CASE Join
  BY <1>32 DEF Join
<1>33. CASE UNCHANGED vars
  BY <1>33
<1>34. CASE Baseline
  BY <1>34 DEF Baseline
<1> QED
  BY <1>1, <1>2, <1>3, <1>4, <1>5, <1>6, <1>7, <1>8, <1>9, <1>10, <1>11, <1>12, <1>13, <1>14, <1>15, <1>16, <1>17, <1>18, <1>19, <1>20, <1>21, <1>22, <1>23, <1>24, <1>25, <1>26, <1>27, <1>28, <1>29, <1>30, <1>31, <1>32, <1>33, <1>34 DEF Next, Extension, ExtensionRuns, Creating, DrainLoop, Client

(* The cursors.                                                            *)
LEMMA CursorsStep == Hosted /\ CursorsOK /\ ReaderOK /\ [Next]_vars => CursorsOK'
<1> SUFFICES ASSUME Hosted /\ CursorsOK /\ ReaderOK, [Next]_vars PROVE CursorsOK'
  OBVIOUS
<1> USE BroadcastAssumption, LargestCapacity, CalmStep, TakeOK DEF Hosted, CursorsOK, ReaderOK, Undisturbed, TypesOK, Files, PlacesOK, ExtensionOK, HostOK, Trusted, Opening, Looping, Mapped, Writing, Resetting,
     NoGen, Published, FrameIds, ExtAt, HostAt, ClientAt, SignalDone, vars, fileVars, extVars, hostVars, streamVars, bufferVars, Fill
<1>1. ASSUME NEW c \in Capacities, Create(c) PROVE CursorsOK'
  BY <1>1 DEF Create
<1>2. CASE Unpublish
  BY <1>2 DEF Unpublish
<1>3. CASE WriteGeometry
  BY <1>3 DEF WriteGeometry
<1>4. CASE ZeroWrite
  BY <1>4 DEF ZeroWrite
<1>5. CASE ZeroRead
  BY <1>5 DEF ZeroRead
<1>6. CASE Publish
  BY <1>6 DEF Publish
<1>7. CASE CopyIn
  BY <1>7 DEF CopyIn
<1>8. CASE Commit
  BY <1>8 DEF Commit
<1>9. CASE WriteTraps
  BY <1>9 DEF WriteTraps
<1>10. CASE Die
  BY <1>10 DEF Die
<1>11. ASSUME NEW n \in 1 .. MaxBuffer, Refuse(n) PROVE CursorsOK'
  BY <1>11 DEF Refuse
<1>12. ASSUME NEW n \in 1 .. MaxBuffer, BeginWrite(n) PROVE CursorsOK'
  BY <1>12 DEF BeginWrite
<1>13. CASE GoesStale
  BY <1>13 DEF GoesStale
<1>14. CASE Probe
  BY <1>14 DEF Probe
<1>15. CASE CheckPublish
  BY <1>15 DEF CheckPublish
<1>16. CASE ReadGeometry
  BY <1>16 DEF ReadGeometry
<1>17. CASE StaleRing
  BY <1>17 DEF StaleRing
<1>18. CASE Attach
  BY <1>18 DEF Attach
<1>19. CASE Spawn
  BY <1>19 DEF Spawn
<1>20. ASSUME NEW at \in {"probe", "geometry", "spawn"}, CreateFails(at) PROVE CursorsOK'
  BY <1>20 DEF CreateFails
<1>21. CASE Stopped
  BY <1>21 DEF Stopped
<1>22. CASE ForwardDrops
  BY <1>22 DEF ForwardDrops
<1>23. CASE LoadWrite
  BY <1>23 DEF LoadWrite
<1>24. CASE LoadRead
  BY <1>24 DEF LoadRead
<1>25. CASE Corrupt
  BY <1>25 DEF Corrupt
<1>26. CASE Drain
  BY <1>26 DEF Drain
<1>27. CASE StoreRead
  BY <1>27 DEF StoreRead
<1>28. CASE Alive
  BY <1>28 DEF Alive
<1>29. CASE Dead
  BY <1>29 DEF Dead
<1>30. CASE AskStop
  BY <1>30 DEF AskStop
<1>31. CASE DropStream
  BY <1>31 DEF DropStream
<1>32. CASE Join
  BY <1>32 DEF Join
<1>33. CASE UNCHANGED vars
  BY <1>33
<1>34. CASE Baseline
  BY <1>34 DEF Baseline
<1> QED
  BY <1>1, <1>2, <1>3, <1>4, <1>5, <1>6, <1>7, <1>8, <1>9, <1>10, <1>11, <1>12, <1>13, <1>14, <1>15, <1>16, <1>17, <1>18, <1>19, <1>20, <1>21, <1>22, <1>23, <1>24, <1>25, <1>26, <1>27, <1>28, <1>29, <1>30, <1>31, <1>32, <1>33, <1>34 DEF Next, Extension, ExtensionRuns, Creating, DrainLoop, Client

(* The reader.                                                             *)
LEMMA ReaderStep == Hosted /\ CursorsOK /\ ReaderOK /\ [Next]_vars => ReaderOK'
<1> SUFFICES ASSUME Hosted /\ CursorsOK /\ ReaderOK, [Next]_vars PROVE ReaderOK'
  OBVIOUS
<1>0. pass' = pass => Take' = Take
  BY DEF Take
<1> USE TakeOK, <1>0 DEF Hosted, CursorsOK, ReaderOK, Undisturbed, TypesOK, Files, PlacesOK, ExtensionOK, HostOK, Trusted, Opening, Looping, Mapped, Writing, Resetting,
     NoGen, Published, FrameIds, ExtAt, HostAt, ClientAt, SignalDone, vars, fileVars, extVars, hostVars, streamVars, bufferVars
<1>1. ASSUME NEW c \in Capacities, Create(c) PROVE ReaderOK'
  BY <1>1 DEF Create
<1>2. CASE Unpublish
  BY <1>2 DEF Unpublish
<1>3. CASE WriteGeometry
  BY <1>3 DEF WriteGeometry
<1>4. CASE ZeroWrite
  BY <1>4 DEF ZeroWrite
<1>5. CASE ZeroRead
  BY <1>5 DEF ZeroRead
<1>6. CASE Publish
  BY <1>6 DEF Publish
<1>7. CASE CopyIn
  BY <1>7 DEF CopyIn
<1>8. CASE Commit
  BY <1>8 DEF Commit
<1>9. CASE WriteTraps
  BY <1>9 DEF WriteTraps
<1>10. CASE Die
  BY <1>10 DEF Die
<1>11. ASSUME NEW n \in 1 .. MaxBuffer, Refuse(n) PROVE ReaderOK'
  BY <1>11 DEF Refuse
<1>12. ASSUME NEW n \in 1 .. MaxBuffer, BeginWrite(n) PROVE ReaderOK'
  BY <1>12 DEF BeginWrite
<1>13. CASE GoesStale
  BY <1>13 DEF GoesStale
<1>14. CASE Probe
  BY <1>14 DEF Probe
<1>15. CASE CheckPublish
  BY <1>15 DEF CheckPublish
<1>16. CASE ReadGeometry
  BY <1>16 DEF ReadGeometry
<1>17. CASE StaleRing
  BY <1>17 DEF StaleRing
<1>18. CASE Attach
  BY <1>18 DEF Attach
<1>19. CASE Spawn
  BY <1>19 DEF Spawn
<1>20. ASSUME NEW at \in {"probe", "geometry", "spawn"}, CreateFails(at) PROVE ReaderOK'
  BY <1>20 DEF CreateFails
<1>21. CASE Stopped
  BY <1>21 DEF Stopped
<1>22. CASE ForwardDrops
  BY <1>22 DEF ForwardDrops
<1>23. CASE LoadWrite
  BY <1>23 DEF LoadWrite
<1>24. CASE LoadRead
  BY <1>24 DEF LoadRead
<1>25. CASE Corrupt
  BY <1>25 DEF Corrupt
<1>26. CASE Drain
  BY <1>26 DEF Drain
<1>27. CASE StoreRead
  BY <1>27 DEF StoreRead
<1>28. CASE Alive
  BY <1>28 DEF Alive
<1>29. CASE Dead
  BY <1>29 DEF Dead
<1>30. CASE AskStop
  BY <1>30 DEF AskStop
<1>31. CASE DropStream
  BY <1>31 DEF DropStream
<1>32. CASE Join
  BY <1>32 DEF Join
<1>33. CASE UNCHANGED vars
  BY <1>33
<1>34. CASE Baseline
  BY <1>34 DEF Baseline
<1> QED
  BY <1>1, <1>2, <1>3, <1>4, <1>5, <1>6, <1>7, <1>8, <1>9, <1>10, <1>11, <1>12, <1>13, <1>14, <1>15, <1>16, <1>17, <1>18, <1>19, <1>20, <1>21, <1>22, <1>23, <1>24, <1>25, <1>26, <1>27, <1>28, <1>29, <1>30, <1>31, <1>32, <1>33, <1>34 DEF Next, Extension, ExtensionRuns, Creating, DrainLoop, Client

(* The ledger of refused buffers.                                          *)
LEMMA LossStep == Hosted /\ LossCounted /\ [Next]_vars => LossCounted'
<1> SUFFICES ASSUME Hosted /\ LossCounted, [Next]_vars PROVE LossCounted'
  OBVIOUS
<1> USE DEF Hosted, LossCounted, TypesOK, Files, PlacesOK, ExtensionOK, HostOK, Trusted, Opening, Looping, Mapped, Writing, Resetting,
     NoGen, Published, FrameIds, ExtAt, HostAt, ClientAt, SignalDone, vars, fileVars, extVars, hostVars, streamVars, bufferVars
<1>1. ASSUME NEW c \in Capacities, Create(c) PROVE LossCounted'
  BY <1>1 DEF Create
<1>2. CASE Unpublish
  BY <1>2 DEF Unpublish
<1>3. CASE WriteGeometry
  BY <1>3 DEF WriteGeometry
<1>4. CASE ZeroWrite
  BY <1>4 DEF ZeroWrite
<1>5. CASE ZeroRead
  BY <1>5 DEF ZeroRead
<1>6. CASE Publish
  BY <1>6 DEF Publish
<1>7. CASE CopyIn
  BY <1>7 DEF CopyIn
<1>8. CASE Commit
  BY <1>8 DEF Commit
<1>9. CASE WriteTraps
  BY <1>9 DEF WriteTraps
<1>10. CASE Die
  BY <1>10 DEF Die
<1>11. ASSUME NEW n \in 1 .. MaxBuffer, Refuse(n) PROVE LossCounted'
  BY <1>11 DEF Refuse
<1>12. ASSUME NEW n \in 1 .. MaxBuffer, BeginWrite(n) PROVE LossCounted'
  BY <1>12 DEF BeginWrite
<1>13. CASE GoesStale
  BY <1>13 DEF GoesStale
<1>14. CASE Probe
  BY <1>14 DEF Probe
<1>15. CASE CheckPublish
  BY <1>15 DEF CheckPublish
<1>16. CASE ReadGeometry
  BY <1>16 DEF ReadGeometry
<1>17. CASE StaleRing
  BY <1>17 DEF StaleRing
<1>18. CASE Attach
  BY <1>18 DEF Attach
<1>19. CASE Spawn
  BY <1>19 DEF Spawn
<1>20. ASSUME NEW at \in {"probe", "geometry", "spawn"}, CreateFails(at) PROVE LossCounted'
  BY <1>20 DEF CreateFails
<1>21. CASE Stopped
  BY <1>21 DEF Stopped
<1>22. CASE ForwardDrops
  BY <1>22, MaxOfTwo DEF ForwardDrops
<1>23. CASE LoadWrite
  BY <1>23 DEF LoadWrite
<1>24. CASE LoadRead
  BY <1>24 DEF LoadRead
<1>25. CASE Corrupt
  BY <1>25 DEF Corrupt
<1>26. CASE Drain
  BY <1>26 DEF Drain
<1>27. CASE StoreRead
  BY <1>27 DEF StoreRead
<1>28. CASE Alive
  BY <1>28 DEF Alive
<1>29. CASE Dead
  BY <1>29 DEF Dead
<1>30. CASE AskStop
  BY <1>30 DEF AskStop
<1>31. CASE DropStream
  BY <1>31 DEF DropStream
<1>32. CASE Join
  BY <1>32 DEF Join
<1>33. CASE UNCHANGED vars
  BY <1>33
<1>34. CASE Baseline
  BY <1>34 DEF Baseline
<1> QED
  BY <1>1, <1>2, <1>3, <1>4, <1>5, <1>6, <1>7, <1>8, <1>9, <1>10, <1>11, <1>12, <1>13, <1>14, <1>15, <1>16, <1>17, <1>18, <1>19, <1>20, <1>21, <1>22, <1>23, <1>24, <1>25, <1>26, <1>27, <1>28, <1>29, <1>30, <1>31, <1>32, <1>33, <1>34 DEF Next, Extension, ExtensionRuns, Creating, DrainLoop, Client

(* The copy leaves the frames between the cursors alone and puts every     *)
(* frame of the buffer into the slot of its number.                        *)
LEMMA CopyOK ==
  ASSUME Hosted, CursorsOK, Undisturbed, ext = "copy"
  PROVE  /\ writer.write = file.write /\ writer.capacity = file.capacity /\ file.published = gen
         /\ \A n \in Nat : file.read <= n /\ n < file.write =>
              NewData[n % file.capacity] = file.data[n % file.capacity]
         /\ \A n \in Nat : writer.write <= n /\ n < writer.write + writer.count =>
              NewData[n % file.capacity] = [gen |-> gen, n |-> n]
<1> DEFINE c == file.capacity
           w == writer.write
           k == writer.count
           r == file.read
<1>1. /\ c \in Nat \ {0} /\ w \in Nat /\ k \in Nat /\ r \in Nat /\ w = file.write
      /\ r <= w /\ w + k - r <= c /\ writer.capacity = c /\ file.published = gen
  BY LargestCapacity DEF Hosted, TypesOK, Files, ExtensionOK, CursorsOK, Writing, Published
<1>2. ASSUME NEW n \in Nat PROVE n % c \in DOMAIN file.data
  BY Geometry, <1>1 DEF Hosted, TypesOK, Files
<1>3. ASSUME NEW n \in Nat, r <= n, n < w PROVE NewData[n % c] = file.data[n % c]
  <2>1. ASSUME NEW i \in 0 .. k - 1, (w + i) % c = n % c PROVE FALSE
    <3> DEFINE m == w + i
    <3>1. m \in Nat /\ n <= m /\ m - n < c /\ n # m /\ m % c = n % c
      BY <1>1, <1>3, <2>1
    <3> HIDE DEF c, w, k, r, m
    <3> QED
      BY <1>1, <3>1, SlotsDiffer
  <2> QED
    BY <2>1, <1>1, <1>2 DEF NewData
<1>4. ASSUME NEW n \in Nat, w <= n, n < w + k PROVE NewData[n % c] = [gen |-> gen, n |-> n]
  <2>1. n - w \in 0 .. k - 1 /\ w + (n - w) = n
    BY <1>1, <1>4
  <2>2. \E i \in 0 .. writer.count - 1 : (writer.write + i) % writer.capacity = n % c
    BY <1>1, <2>1
  <2>3. Which(n % c) \in 0 .. k - 1 /\ (w + Which(n % c)) % c = n % c
    BY <1>1, <2>2, WhichOK
  <2>4. w + Which(n % c) = n
    <3> DEFINE m == w + Which(n % c)
    <3>1. m \in Nat /\ m - n < c /\ n - m < c /\ m % c = n % c
      BY <1>1, <1>4, <2>3
    <3> HIDE DEF c, w, k, r, m
    <3>2. m <= n => m = n
      BY <1>1, <3>1, SlotsDiffer
    <3>3. n <= m => m = n
      BY <1>1, <3>1, SlotsDiffer
    <3> QED
      BY <3>1, <3>2, <3>3 DEF m
  <2> QED
    BY <2>2, <2>4, <1>2 DEF NewData, Frame
<1> QED
  BY <1>1, <1>3, <1>4

(* The frames.                                                             *)
LEMMA ContentStep == Hosted /\ CursorsOK /\ ReaderOK /\ ContentOK /\ [Next]_vars => ContentOK'
<1> SUFFICES ASSUME Hosted /\ CursorsOK /\ ReaderOK /\ ContentOK, [Next]_vars PROVE ContentOK'
  OBVIOUS
<1> USE BroadcastAssumption, LargestCapacity, CalmStep, TakeOK DEF Hosted, CursorsOK, ReaderOK, ContentOK, Holds, Undisturbed, TypesOK, Files, PlacesOK, ExtensionOK, HostOK, Trusted, Opening, Looping, Mapped, Writing, Resetting,
     NoGen, Published, FrameIds, ExtAt, HostAt, ClientAt, SignalDone, vars, fileVars, extVars, hostVars, streamVars, bufferVars
<1>1. ASSUME NEW c \in Capacities, Create(c) PROVE ContentOK'
  BY <1>1 DEF Create
<1>2. CASE Unpublish
  BY <1>2 DEF Unpublish
<1>3. CASE WriteGeometry
  BY <1>3 DEF WriteGeometry
<1>4. CASE ZeroWrite
  BY <1>4 DEF ZeroWrite
<1>5. CASE ZeroRead
  BY <1>5 DEF ZeroRead
<1>6. CASE Publish
  BY <1>6 DEF Publish
<1>7. CASE CopyIn
  <2>1. ext = "copy" /\ ext' = "commit" /\ file' = [file EXCEPT !.data = NewData]
    BY <1>7 DEF CopyIn, NewData, Which
  <2>2. UNCHANGED <<gen, writer, churned, client>>
    BY <1>7 DEF CopyIn
  <2>3. /\ file'.data = NewData /\ file'.capacity = file.capacity /\ file'.read = file.read
        /\ file'.write = file.write /\ file'.published = file.published
    BY <2>1
  <2> QED
    BY <2>1, <2>2, <2>3, CopyOK
<1>8. CASE Commit
  BY <1>8 DEF Commit
<1>9. CASE WriteTraps
  BY <1>9 DEF WriteTraps
<1>10. CASE Die
  BY <1>10 DEF Die
<1>11. ASSUME NEW n \in 1 .. MaxBuffer, Refuse(n) PROVE ContentOK'
  BY <1>11 DEF Refuse
<1>12. ASSUME NEW n \in 1 .. MaxBuffer, BeginWrite(n) PROVE ContentOK'
  BY <1>12 DEF BeginWrite
<1>13. CASE GoesStale
  BY <1>13 DEF GoesStale
<1>14. CASE Probe
  BY <1>14 DEF Probe
<1>15. CASE CheckPublish
  BY <1>15 DEF CheckPublish
<1>16. CASE ReadGeometry
  BY <1>16 DEF ReadGeometry
<1>17. CASE StaleRing
  BY <1>17 DEF StaleRing
<1>18. CASE Attach
  BY <1>18 DEF Attach
<1>19. CASE Spawn
  BY <1>19 DEF Spawn
<1>20. ASSUME NEW at \in {"probe", "geometry", "spawn"}, CreateFails(at) PROVE ContentOK'
  BY <1>20 DEF CreateFails
<1>21. CASE Stopped
  BY <1>21 DEF Stopped
<1>22. CASE ForwardDrops
  BY <1>22 DEF ForwardDrops
<1>23. CASE LoadWrite
  BY <1>23 DEF LoadWrite
<1>24. CASE LoadRead
  BY <1>24 DEF LoadRead
<1>25. CASE Corrupt
  BY <1>25 DEF Corrupt
<1>26. CASE Drain
  BY <1>26 DEF Drain
<1>27. CASE StoreRead
  BY <1>27 DEF StoreRead
<1>28. CASE Alive
  BY <1>28 DEF Alive
<1>29. CASE Dead
  BY <1>29 DEF Dead
<1>30. CASE AskStop
  BY <1>30 DEF AskStop
<1>31. CASE DropStream
  BY <1>31 DEF DropStream
<1>32. CASE Join
  BY <1>32 DEF Join
<1>33. CASE UNCHANGED vars
  BY <1>33
<1>34. CASE Baseline
  BY <1>34 DEF Baseline
<1> QED
  BY <1>1, <1>2, <1>3, <1>4, <1>5, <1>6, <1>7, <1>8, <1>9, <1>10, <1>11, <1>12, <1>13, <1>14, <1>15, <1>16, <1>17, <1>18, <1>19, <1>20, <1>21, <1>22, <1>23, <1>24, <1>25, <1>26, <1>27, <1>28, <1>29, <1>30, <1>31, <1>32, <1>33, <1>34 DEF Next, Extension, ExtensionRuns, Creating, DrainLoop, Client

-----------------------------------------------------------------------------
(* A file that a broadcast has left behind is sound to begin with.         *)
LEMMA LeftoverOK ==
  ASSUME NEW c \in Capacities, NEW w \in 0 .. c, NEW r \in 0 .. w, file = Leftover(c, r, w)
  PROVE  /\ file \in Files
         /\ file.capacity = c /\ file.size = c /\ file.published = 1
         /\ file.read = r /\ file.write = w /\ c \in Nat \ {0}
         /\ Holds(file.read, file.write, file.published)
<1> DEFINE d == [s \in 0 .. MaxCapacity - 1 |-> IF s < c /\ s < w THEN [gen |-> 1, n |-> s] ELSE NoFrame]
<1>1. c \in Nat \ {0} /\ c <= MaxCapacity /\ MaxCapacity \in Nat /\ w \in Nat /\ r \in Nat /\ w <= c
  BY LargestCapacity
<1>2. d \in [Slots -> FrameIds]
  BY <1>1 DEF Slots, FrameIds, NoFrame, NoGen
<1>3. file = [published |-> 1, size |-> c, capacity |-> c, write |-> w, read |-> r, drops |-> 0, data |-> d]
  BY DEF Leftover
<1>4. file \in Files
  <2> HIDE DEF d
  <2> QED
    BY <1>1, <1>2, <1>3 DEF Files
<1>5. ASSUME NEW n \in Nat, r <= n, n < w PROVE file.data[n % file.capacity] = [gen |-> 1, n |-> n]
  <2>1. n % c = n
    BY <1>1, <1>5
  <2>2. d[n] = [gen |-> 1, n |-> n]
    BY <1>1, <1>5
  <2> QED
    BY <1>3, <2>1, <2>2
<1> QED
  BY <1>1, <1>3, <1>4, <1>5 DEF Holds

LEMMA InitOK == Init => IInv
<1> SUFFICES ASSUME Init PROVE IInv
  OBVIOUS
<1> USE DEF NoGen, NoFrame, NoPass, NoWriter
<1>1. CASE file = NoFile /\ gen = 0
  <2>1. MaxCapacity \in Nat
    BY LargestCapacity
  <2>2. file \in Files
    BY <1>1, <2>1 DEF NoFile, Files, FrameIds, Slots
  <2>3. file.capacity = 0 /\ file.size = 0 /\ file.published = 0
    BY <1>1 DEF NoFile
  <2>4. TypesOK
    BY <1>1, <2>2 DEF Init, TypesOK, FrameIds
  <2> QED
    BY <2>3, <2>4, <1>1 DEF Init, IInv, PlacesOK, ExtensionOK, HostOK, Trusted, CursorsOK, ContentOK,
       ReaderOK, WordOK, LossCounted, Published, Opening, Looping, Mapped, Writing, Resetting
<1>2. ASSUME NEW c \in Capacities, NEW w \in 0 .. c, NEW r \in 0 .. w, file = Leftover(c, r, w), gen = 1
      PROVE  IInv
  <2>1. /\ file \in Files /\ file.capacity = c /\ file.size = c /\ file.published = 1
        /\ file.read = r /\ file.write = w /\ c \in Nat \ {0}
        /\ Holds(file.read, file.write, file.published)
    BY <1>2, LeftoverOK
  <2>2. TypesOK
    BY <1>2, <2>1 DEF Init, TypesOK, FrameIds
  <2> QED
    BY <2>1, <2>2, <1>2 DEF Init, IInv, PlacesOK, ExtensionOK, HostOK, Trusted, CursorsOK, ContentOK,
       ReaderOK, WordOK, LossCounted, Published, Opening, Looping, Mapped, Writing, Resetting
<1> QED
  BY <1>1, <1>2 DEF Init

-----------------------------------------------------------------------------
(* The inductive invariant holds of every behaviour.                       *)
THEOREM Kept == Spec => []IInv
<1>1. IInv /\ [Next]_vars => IInv'
  BY PlacesStep, TypesStep, ExtensionStep, HostStep, TrustStep, WordStep, CursorsStep, ReaderStep,
     ContentStep, LossStep DEF IInv, Hosted
<1> QED
  BY InitOK, <1>1, PTL DEF Spec

(* What the invariant says of one state.                                   *)
LEMMA SoundState == ASSUME IInv PROVE RingIsSound
<1>1. InBounds
  BY DEF IInv, TypesOK, Files, HostOK, Mapped, Looping, InBounds
<1>2. ASSUME churned = "no", pc = "copy", NEW i \in 0 .. Take - 1
      PROVE  Taken(i) = [gen |-> expect.gen, n |-> expect.n + i]
  <2>1. Take \in Nat \ {0} /\ Take <= pass.write - pass.read /\ pass.read \in Nat /\ pass.write \in Nat
    BY <1>2, TakeOK DEF IInv
  <2>2. /\ Published /\ expect.gen = file.published /\ ring.capacity = file.capacity
        /\ expect.n = file.read /\ pass.read = file.read /\ pass.write <= file.write
    BY <1>2 DEF IInv, Trusted, ReaderOK, Mapped, Looping
  <2>3. file.write \in Nat /\ i \in Nat
    BY <2>1 DEF IInv, TypesOK, Files
  <2>4. pass.read + i \in Nat /\ file.read <= pass.read + i /\ pass.read + i < file.write
    BY <2>1, <2>2, <2>3, <1>2
  <2>5. Holds(file.read, file.write, file.published)
    BY <1>2, <2>2 DEF IInv, ContentOK, Undisturbed
  <2> QED
    BY <2>2, <2>4, <2>5 DEF Taken, Holds
<1>3. churned = "no" /\ pc \in {"top", "load", "beat"} => file.read = expect.n
  BY DEF IInv, ReaderOK, Looping
<1>4. churned = "no" /\ ext = "idle" => file.read <= file.write /\ Fill <= writer.capacity
  BY DEF IInv, TypesOK, Files, ExtensionOK, CursorsOK, Undisturbed, Published, Writing, Fill, NoGen
<1> QED
  BY <1>1, <1>2, <1>3, <1>4 DEF RingIsSound, FramesInOrder

(* Whatever is in the ring and whoever dies when: the drain thread reads   *)
(* inside its mapping, and takes out every frame once, whole and in order, *)
(* as long as no broadcast begins under it.                                *)
THEOREM RingSound == Spec => []RingIsSound
<1>1. IInv => RingIsSound
  BY SoundState
<1> QED
  BY Kept, <1>1, PTL

(* overrun_count() misses nothing that the extension refused while a       *)
(* stream was there, but what the next pass is going to add.               *)
THEOREM LossKept == Spec => []LossCounted
<1>1. IInv => LossCounted
  BY DEF IInv
<1> QED
  BY Kept, <1>1, PTL

-----------------------------------------------------------------------------
(* ADR-0010: the drain thread implements ProducerTerminal.                 *)

LEMMA ContractStep ==
  ASSUME IInv, [Next]_vars
  PROVE  [Contract!Next]_(Contract!vars)
<1>0. PlacesOK /\ WordOK /\ PlacesOK' /\ WordOK'
  BY PlacesStep, WordStep DEF IInv
<1> USE <1>0 DEF PlacesOK, WordOK, Opening, Looping, Producer, Contract!Next, Contract!vars,
        ExtAt, HostAt, ClientAt, SignalDone, fileVars, extVars, hostVars, streamVars, bufferVars, vars
<1>1. CASE Attach
  BY <1>1 DEF Attach, Contract!Open
<1>2. CASE Spawn
  BY <1>2 DEF Spawn, Contract!Begin
<1>3. CASE Stopped
  BY <1>3 DEF Stopped, Contract!End
<1>4. CASE Corrupt \/ Dead
  BY <1>4 DEF Corrupt, Dead, Contract!Die
<1>5. CASE Drain
  BY <1>5 DEF Drain, Contract!Push
<1>6. CASE AskStop
  BY <1>6 DEF AskStop, Contract!AskStop
<1>7. CASE Join
  BY <1>7 DEF Join, Contract!FinishStop
<1>8. CASE Extension \/ GoesStale
  <2>1. UNCHANGED <<word, pc, pushed>>
    BY <1>8 DEF Extension, ExtensionRuns, GoesStale, Create, Unpublish, WriteGeometry, ZeroWrite, ZeroRead,
       Publish, CopyIn, Commit, WriteTraps, Die, Refuse, BeginWrite
  <2> QED
    BY <2>1
<1>9. CASE \/ Probe \/ CheckPublish \/ ReadGeometry \/ StaleRing \/ Baseline \/ ForwardDrops \/ LoadWrite \/ LoadRead
           \/ StoreRead \/ Alive \/ DropStream \/ \E at \in {"probe", "geometry", "spawn"} : CreateFails(at)
  BY <1>9 DEF Probe, CheckPublish, ReadGeometry, StaleRing, Baseline, ForwardDrops, LoadWrite, LoadRead,
     StoreRead, Alive, DropStream, CreateFails
<1>10. CASE UNCHANGED vars
  BY <1>10
<1> QED
  BY <1>1, <1>2, <1>3, <1>4, <1>5, <1>6, <1>7, <1>8, <1>9, <1>10 DEF Next, Creating, DrainLoop, Client

(* The host's bridge sees the producer that ADR-0010 promises, whatever    *)
(* the extension does.                                                     *)
THEOREM ImplementsContract == Spec => TerminalSignalled
<1>1. Init => Contract!Init
  BY DEF Init, Producer, Contract!Init
<1> QED
  BY <1>1, Kept, ContractStep, PTL DEF Spec, TerminalSignalled, Contract!Spec
=============================================================================
