----------------------------- MODULE BroadcastRing -----------------------------
(***************************************************************************)
(* The cross-process ring of iOS system capture: one memory-mapped file    *)
(* that a broadcast extension fills (RingProducer.swift, created by        *)
(* SampleHandlerTemplate.swift) and a drain thread of the host empties     *)
(* into a bridge (src/audio/ios/broadcast.rs).  Neither process knows of   *)
(* the other but through the file: a publish word, a heartbeat and two     *)
(* cursors.  The extension may die at any step, and another broadcast may  *)
(* start in the same file; the file stays.                                 *)
(*                                                                         *)
(* A frame is the generation that wrote it and its number; a frame's       *)
(* samples are one unit of the file.  The stores of each process are seen  *)
(* by the other in program order.  A heartbeat goes stale only while no    *)
(* extension lives, and not within one pass of the drain thread: the       *)
(* timer's 500 ms, and a pass, are short of the 2 s limit.                 *)
(***************************************************************************)
EXTENDS Integers, FiniteSetsExt

CONSTANTS
  Capacities,   \* ring capacities an extension may choose
  Chunk,        \* drain_chunk_frames
  MaxBuffer,    \* bound of the model: frames of a buffer the extension is handed
  MaxFrames,    \* bound of the model: the write cursor of a generation
  MaxGen,       \* bound of the model: broadcasts, the first one left behind included
  MaxRefused    \* bound of the model: buffers of a generation a full ring refuses

ASSUME BroadcastAssumption ==
  /\ Capacities \subseteq Nat \ {0}
  /\ \E largest \in Capacities : \A c \in Capacities : c <= largest
  /\ {Chunk, MaxBuffer} \subseteq Nat \ {0}
  /\ {MaxFrames, MaxGen, MaxRefused} \subseteq Nat

VARIABLES
  file,      \* what both processes map; of the publish word, who published
  stale,     \* the heartbeat stamp is older than HEARTBEAT_TIMEOUT_MILLIS
  gen,       \* the current or latest broadcast
  ext,       \* where its extension is
  writer,    \* RsacRingProducer: its capacity; the write it is in
  word,      \* AtomicStreamState of the host's bridge
  client,    \* the host's caller: create_stream, then the stream's owner
  stop,      \* BroadcastPlatformStream::stop
  pc,        \* where the probe, then the drain thread, is
  ring,      \* BroadcastRing: mapped length, validated capacity
  pass,      \* drain_once: the cursors it read
  lastSeen,  \* forwarded_drops
  uncounted, \* history: buffers refused under the drain loop and not in the overrun count
  expect,    \* history: the frame the consumer is to take next
  pushed,    \* history: flips with each push
  churned    \* history: a broadcast began in the file while the consumer trusted
             \* it: "no", "opening" it, or "attached" to it

fileVars == <<file, stale>>
extVars == <<gen, ext, writer, churned>>
hostVars == <<word, client, stop, pc, ring, pass, lastSeen, expect, pushed>>
vars == <<fileVars, extVars, uncounted, hostVars>>

MaxCapacity == Max(Capacities)
NoGen == 0
NoFrame == [gen |-> NoGen, n |-> 0]
NoWriter == [capacity |-> 0, write |-> 0, count |-> 0]
NoPass == [write |-> 0, read |-> 0]
Frame(n) == [gen |-> gen, n |-> n]

-----------------------------------------------------------------------------
(* The extension.                                                          *)

ExtAt(from, to) == ext = from /\ ext' = to
Published == file.published # NoGen
Attached == client # "polling" /\ pc # "gone"
Trusting == pc \notin {"probe", "publish", "gone"}

(* ensureProducer: open, grow only, map.                                   *)
Create(capacity) ==
  /\ ext \in {"off", "dead"} /\ gen < MaxGen
  /\ ext' = "unpublish" /\ gen' = gen + 1
  /\ file' = [file EXCEPT !.size = IF @ < capacity THEN capacity ELSE @]
  /\ writer' = [capacity |-> capacity, write |-> 0, count |-> 0]
  /\ UNCHANGED <<uncounted, stale, churned, hostVars>>

(* publishHeader, store by store; the heartbeat stamp is the last one      *)
(* before the publish point.                                               *)
Unpublish ==
  /\ ExtAt("unpublish", "geometry")
  /\ file' = [file EXCEPT !.published = NoGen]
  /\ churned' = CASE churned = "no" /\ Attached -> "attached"
                  [] churned = "no" /\ ~Attached /\ Trusting -> "opening"
                  [] OTHER -> churned
  /\ UNCHANGED <<uncounted, stale, gen, writer, hostVars>>

WriteGeometry ==
  /\ ExtAt("geometry", "zeroWrite")
  /\ file' = [file EXCEPT !.capacity = writer.capacity]
  /\ UNCHANGED <<uncounted, stale, gen, writer, churned, hostVars>>

ZeroWrite ==
  /\ ExtAt("zeroWrite", "zeroRead")
  /\ file' = [file EXCEPT !.write = 0]
  /\ UNCHANGED <<uncounted, stale, gen, writer, churned, hostVars>>

ZeroRead ==
  /\ ExtAt("zeroRead", "publish")
  /\ file' = [file EXCEPT !.read = 0, !.drops = 0]
  /\ UNCHANGED <<uncounted, stale, gen, writer, churned, hostVars>>

Publish ==
  /\ ExtAt("publish", "idle")
  /\ file' = [file EXCEPT !.published = gen]
  /\ stale' = FALSE
  /\ UNCHANGED <<uncounted, gen, writer, churned, hostVars>>

(* write, to its first store: all or nothing.  The subtractions trap, so a *)
(* read cursor ahead of the write cursor ends the extension.               *)
Fill == file.write - file.read
WriteTraps ==
  /\ ExtAt("idle", "dead")
  /\ file.write < file.read \/ Fill > writer.capacity
  /\ writer' = NoWriter
  /\ UNCHANGED <<uncounted, fileVars, gen, churned, hostVars>>

Refuse(count) ==
  /\ ext = "idle"
  /\ file.read <= file.write /\ Fill <= writer.capacity
  /\ count > writer.capacity - Fill
  /\ file.drops < MaxRefused
  /\ uncounted' = IF client = "open" /\ pc # "begin" THEN uncounted + 1 ELSE uncounted
  /\ file' = [file EXCEPT !.drops = @ + 1]
  /\ UNCHANGED <<stale, gen, ext, writer, churned, hostVars>>

(* Fault: the cursor is moved before the frames are there.                 *)
BeginWrite_CommitsFirst(count) ==
  /\ ExtAt("idle", "copy")
  /\ file.read <= file.write /\ count + Fill <= writer.capacity
  /\ file.write + count <= MaxFrames
  /\ writer' = [writer EXCEPT !.write = file.write, !.count = count]
  /\ file' = [file EXCEPT !.write = @ + count]
  /\ UNCHANGED <<uncounted, stale, gen, churned, hostVars>>

BeginWrite(count) ==
  /\ ExtAt("idle", "copy")
  /\ file.read <= file.write /\ count + Fill <= writer.capacity
  /\ file.write + count <= MaxFrames
  /\ writer' = [writer EXCEPT !.write = file.write, !.count = count]
  /\ UNCHANGED <<uncounted, fileVars, gen, churned, hostVars>>

(* The one or two memcpys.                                                 *)
CopyIn ==
  /\ ExtAt("copy", "commit")
  /\ file' = [file EXCEPT !.data =
       [s \in DOMAIN @ |->
          IF \E i \in 0 .. writer.count - 1 : (writer.write + i) % writer.capacity = s
          THEN Frame(writer.write + CHOOSE i \in 0 .. writer.count - 1 :
                                      (writer.write + i) % writer.capacity = s)
          ELSE @[s]]]
  /\ UNCHANGED <<uncounted, stale, gen, writer, churned, hostVars>>

Commit ==
  /\ ExtAt("commit", "idle")
  /\ file' = [file EXCEPT !.write = writer.write + writer.count]
  /\ writer' = [writer EXCEPT !.write = 0, !.count = 0]
  /\ UNCHANGED <<uncounted, stale, gen, churned, hostVars>>

(* Killed, or broadcastFinished, which leaves the file as it is.           *)
Die ==
  /\ ext \notin {"off", "dead"} /\ ext' = "dead"
  /\ writer' = NoWriter
  /\ UNCHANGED <<uncounted, fileVars, gen, churned, hostVars>>

GoesStale ==
  /\ ext \in {"off", "dead"} /\ ~stale /\ pc # "beat"
  /\ stale' = TRUE
  /\ UNCHANGED <<uncounted, file, extVars, hostVars>>

ExtensionRuns ==
  \/ Unpublish \/ WriteGeometry \/ ZeroWrite \/ ZeroRead \/ Publish
  \/ CopyIn \/ Commit

Extension ==
  \/ \E c \in Capacities : Create(c)
  \/ ExtensionRuns \/ WriteTraps \/ Die
  \/ \E n \in 1 .. MaxBuffer : Refuse(n) \/ BeginWrite(n)

-----------------------------------------------------------------------------
(* The host: create_stream.                                                *)

HostAt(from, to) == pc = from /\ pc' = to
ClientAt(from, to) == client = from /\ client' = to
streamVars == <<word, client, stop, lastSeen, expect, pushed>>

(* try_open_ring: the length, the publish word, the geometry, the          *)
(* heartbeat.                                                              *)
Probe ==
  /\ client = "polling" /\ HostAt("probe", "publish")
  /\ ring' = [size |-> file.size, capacity |-> 0]
  /\ churned' = "no"
  /\ UNCHANGED <<uncounted, fileVars, gen, ext, writer, pass, streamVars>>

CheckPublish ==
  /\ pc = "publish"
  /\ pc' = IF Published THEN "geometry" ELSE "probe"
  /\ expect' = [gen |-> file.published, n |-> 0]
  /\ UNCHANGED <<uncounted, fileVars, extVars, ring, pass, word, client, stop, lastSeen, pushed>>

ReadGeometry ==
  /\ HostAt("geometry", "fresh")
  /\ ring.size >= file.capacity
  /\ ring' = [ring EXCEPT !.capacity = file.capacity]
  /\ UNCHANGED <<uncounted, fileVars, extVars, pass, streamVars>>

(* No live ring by the deadline; a hard failure, or no thread.             *)
CreateFails(at) ==
  /\ HostAt(at, "gone")
  /\ ClientAt("polling", "closed")
  /\ at = "geometry" => ring.size < file.capacity
  /\ UNCHANGED <<uncounted, fileVars, extVars, word, stop, ring, pass, lastSeen, expect, pushed>>

StaleRing ==
  /\ HostAt("fresh", "probe")
  /\ stale
  /\ expect' = NoFrame
  /\ UNCHANGED <<uncounted, fileVars, extVars, ring, pass, word, client, stop, lastSeen, pushed>>

Attach ==
  /\ HostAt("fresh", "spawn")
  /\ ~stale
  /\ word' = "Running"
  /\ UNCHANGED <<uncounted, fileVars, extVars, client, stop, ring, pass, lastSeen, expect, pushed>>

Spawn ==
  /\ HostAt("spawn", "begin")
  /\ client' = "open"
  /\ expect' = [expect EXCEPT !.n = file.read]
  /\ UNCHANGED <<uncounted, fileVars, extVars, word, stop, ring, pass, lastSeen, pushed>>

-----------------------------------------------------------------------------
(* run_drain_loop.                                                         *)

(* The drops to count from, taken by the thread itself: what is refused    *)
(* before, the stream already open, is in no count.                        *)
Baseline ==
  /\ HostAt("begin", "top")
  /\ lastSeen' = file.drops
  /\ UNCHANGED <<uncounted, fileVars, extVars, word, client, stop, ring, pass, expect, pushed>>

SignalDone == word' = IF word = "Running" THEN "Stopping" ELSE word

Stopped ==
  /\ HostAt("top", "gone")
  /\ stop /\ SignalDone
  /\ UNCHANGED <<uncounted, fileVars, extVars, client, stop, ring, pass, lastSeen, expect, pushed>>

(* Fault: the count seen is not remembered.                                *)
ForwardDrops_Forgets ==
  /\ HostAt("top", "load")
  /\ ~stop
  /\ uncounted' = IF file.drops > lastSeen THEN uncounted - (file.drops - lastSeen) ELSE uncounted
  /\ UNCHANGED <<fileVars, extVars, word, client, stop, ring, pass, lastSeen, expect, pushed>>

(* forward_producer_drops.                                                 *)
ForwardDrops ==
  /\ HostAt("top", "load")
  /\ ~stop
  /\ uncounted' = IF file.drops > lastSeen THEN uncounted - (file.drops - lastSeen) ELSE uncounted
  /\ lastSeen' = Max({lastSeen, file.drops})
  /\ UNCHANGED <<fileVars, extVars, word, client, stop, ring, pass, expect, pushed>>

LoadWrite ==
  /\ HostAt("load", "cursors")
  /\ pass' = [pass EXCEPT !.write = file.write]
  /\ UNCHANGED <<uncounted, fileVars, extVars, ring, streamVars>>

(* available_frames; the read cursor is loaded from the file.              *)
Consistent(write, read, capacity) == read <= write /\ write - read <= capacity

LoadRead ==
  /\ pc = "cursors"
  /\ pass' = [pass EXCEPT !.read = file.read]
  /\ Consistent(pass.write, file.read, ring.capacity)
  /\ pc' = IF pass.write = file.read THEN "beat" ELSE "copy"
  /\ UNCHANGED <<uncounted, fileVars, extVars, ring, streamVars>>

Corrupt ==
  /\ HostAt("cursors", "gone")
  /\ ~Consistent(pass.write, file.read, ring.capacity)
  /\ word' = "Error"
  /\ UNCHANGED <<uncounted, fileVars, extVars, client, stop, ring, pass, lastSeen, expect, pushed>>

Take == Min({pass.write - pass.read, Chunk})
Taken(i) == file.data[(pass.read + i) % ring.capacity]

(* The copies, and the push, which a full bridge drops (BridgeRing).       *)
Drain ==
  /\ HostAt("copy", "store")
  /\ expect' = IF churned = "no" THEN [expect EXCEPT !.n = @ + Take] ELSE expect
  /\ pushed' = 1 - pushed
  /\ UNCHANGED <<uncounted, fileVars, extVars, word, client, stop, ring, pass, lastSeen>>

StoreRead ==
  /\ HostAt("store", "top")
  /\ file' = [file EXCEPT !.read = pass.read + Take]
  /\ pass' = NoPass
  /\ UNCHANGED <<uncounted, stale, extVars, ring, streamVars>>

(* Fault: an empty ring is waited for, whatever its heartbeat says.        *)
Alive_Always ==
  /\ HostAt("beat", "top")
  /\ pass' = NoPass
  /\ UNCHANGED <<uncounted, fileVars, extVars, ring, streamVars>>

Alive ==
  /\ HostAt("beat", "top")
  /\ ~stale
  /\ pass' = NoPass
  /\ UNCHANGED <<uncounted, fileVars, extVars, ring, streamVars>>

(* Fault: the loop ends without its signal.                                *)
Dead_Silent ==
  /\ HostAt("beat", "gone")
  /\ stale
  /\ UNCHANGED <<uncounted, fileVars, extVars, ring, pass, streamVars>>

Dead ==
  /\ HostAt("beat", "gone")
  /\ stale
  /\ word' = "Error"
  /\ UNCHANGED <<uncounted, fileVars, extVars, client, stop, ring, pass, lastSeen, expect, pushed>>

DrainLoop ==
  \/ Baseline \/ Stopped \/ ForwardDrops \/ LoadWrite \/ LoadRead \/ Corrupt
  \/ Drain \/ StoreRead \/ Alive \/ Dead

-----------------------------------------------------------------------------
(* The owner: BridgeStream::stop with stop_thread, or the drop of the      *)
(* stream, which stops the thread if it is active.                         *)

bufferVars == <<pc, ring, pass, lastSeen, expect, pushed>>

AskStop ==
  /\ ClientAt("open", "stopping")
  /\ word = "Running" /\ word' = "Stopping"
  /\ stop' = TRUE
  /\ UNCHANGED <<uncounted, fileVars, extVars, bufferVars>>

DropStream ==
  /\ client = "open"
  /\ client' = IF pc = "gone" THEN "closed" ELSE "dropping"
  /\ stop' = (pc # "gone")
  /\ UNCHANGED <<uncounted, fileVars, extVars, word, bufferVars>>

(* After the join the thread has signalled, so the CAS is a formality.     *)
Join ==
  /\ pc = "gone"
  /\ \/ /\ ClientAt("stopping", "open")
        /\ word' = IF word = "Stopping" THEN "Stopped" ELSE word
     \/ /\ ClientAt("dropping", "closed")
        /\ SignalDone
  /\ UNCHANGED <<uncounted, fileVars, extVars, stop, bufferVars>>

Creating == Probe \/ CheckPublish \/ ReadGeometry \/ StaleRing \/ Attach \/ Spawn
Client == AskStop \/ DropStream \/ Join

(* A ring left by a broadcast that is over, read in part, or no file.      *)
Leftover(capacity, read, write) ==
  [published |-> 1, size |-> capacity, capacity |-> capacity,
   write |-> write, read |-> read, drops |-> 0,
   data |-> [s \in 0 .. MaxCapacity - 1 |-> IF s < capacity /\ s < write
                                           THEN [gen |-> 1, n |-> s] ELSE NoFrame]]
NoFile ==
  [published |-> NoGen, size |-> 0, capacity |-> 0, write |-> 0, read |-> 0, drops |-> 0,
   data |-> [s \in 0 .. MaxCapacity - 1 |-> NoFrame]]

Init ==
  /\ \/ file = NoFile /\ gen = 0
     \/ /\ \E c \in Capacities : \E w \in 0 .. c : \E r \in 0 .. w : file = Leftover(c, r, w)
        /\ gen = 1
  /\ stale = FALSE /\ ext = "off" /\ uncounted = 0
  /\ writer = NoWriter
  /\ word = "Created" /\ client = "polling" /\ stop = FALSE
  /\ pc = "probe" /\ ring = [size |-> 0, capacity |-> 0] /\ pass = NoPass
  /\ lastSeen = 0
  /\ expect = NoFrame /\ pushed = 0 /\ churned = "no"

Next ==
  \/ Extension \/ GoesStale \/ Creating
  \/ \E at \in {"probe", "geometry", "spawn"} : CreateFails(at)
  \/ DrainLoop \/ Client

Spec == Init /\ [][Next]_vars

(* Threads run, stop() waits for its join, and time goes by: a heartbeat   *)
(* that nobody stamps goes stale, and the deadline of the poll passes,     *)
(* which is looked at once in a round of it.  Nothing makes a broadcast    *)
(* start, deliver or end.                                                  *)
FairSpec ==
  /\ Spec
  /\ WF_vars(Creating) /\ WF_vars(DrainLoop) /\ WF_vars(Join)
  /\ WF_vars(ExtensionRuns) /\ SF_vars(GoesStale)
  /\ SF_vars(CreateFails("probe")) /\ WF_vars(CreateFails("geometry"))
-----------------------------------------------------------------------------
(* Type invariant.                                                         *)
TypeOK ==
  /\ file.capacity <= file.size /\ file.write \in 0 .. MaxFrames
  /\ gen \in 0 .. MaxGen /\ file.drops \in 0 .. MaxRefused /\ uncounted \in Nat
  /\ word \in {"Created", "Running", "Stopping", "Stopped", "Error"}
  /\ client \in {"polling", "open", "stopping", "dropping", "closed"}

(* UNSAFE-AUDIT items 2 and 5: whatever the extensions do to the file, a   *)
(* mapping the drain thread reads through stays backed by the file, and    *)
(* its slots stay within the mapping.                                      *)
InBounds ==
  pc \in {"top", "load", "cursors", "copy", "store", "beat"} =>
    ring.capacity > 0 /\ ring.capacity <= ring.size /\ ring.size <= file.size

(* UNSAFE-AUDIT item 4, over the two processes: as long as no broadcast    *)
(* begins under the consumer, it takes out every frame once, whole and in  *)
(* order, the ones a dead broadcast left included, and the extension never *)
(* finds a cursor it would trap on.                                        *)
FramesInOrder ==
  churned = "no" =>
    /\ pc = "copy" =>
         \A i \in 0 .. Take - 1 : Taken(i) = [gen |-> expect.gen, n |-> expect.n + i]
    /\ pc \in {"top", "load", "beat"} => file.read = expect.n
    /\ ext = "idle" => file.read <= file.write /\ Fill <= writer.capacity

(* The shared file is read within its bounds and frame by frame.           *)
RingIsSound == InBounds /\ FramesInOrder

(* overrun_count() reflects the extension's losses: what it refused since  *)
(* the drain thread took its baseline was added to the count once, or the  *)
(* next pass will do so.  A refusal between create_stream's return and the *)
(* baseline is lost to it, whatever forward_producer_drops says of "all".  *)
LossCounted ==
  churned = "no" /\ client = "open" /\ pc \notin {"begin", "gone"} =>
    uncounted = file.drops - lastSeen

(* ADR-0010 for the broadcast: the drain thread is the producer of the     *)
(* host's bridge.                                                          *)
Producer ==
  CASE pc = "gone" /\ word \notin {"Created", "Running"} -> "over"
    [] pc \in {"begin", "top", "load", "cursors", "copy", "store", "beat"} -> "live"
    [] OTHER -> "none"

Contract == INSTANCE ProducerTerminal WITH word <- word, producer <- Producer, pushed <- pushed
TerminalSignalled == Contract!Spec

(* A stream whose extension is gone for good ends, and so does one that is *)
(* stopped or dropped; create_stream returns.                              *)
EndsWithProducer ==
  /\ (gen = MaxGen /\ ext = "dead" /\ client = "open") ~> word # "Running"
  /\ client \in {"polling", "stopping", "dropping"} ~> client \in {"open", "closed"}
=============================================================================
