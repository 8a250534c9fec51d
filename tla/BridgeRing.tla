----------------------------- MODULE BridgeRing -----------------------------
(***************************************************************************)
(* The data plane of the ring-buffer bridge (src/bridge/ring_buffer.rs):   *)
(* one producer, the OS callback or capture thread, pushes audio buffers   *)
(* into a wait-free ring and one consumer pops them.  The heap blocks that *)
(* back the samples go round: the consumer returns a spare block for every *)
(* buffer it pops, and the producer fills a returned block instead of      *)
(* allocating.                                                             *)
(*                                                                         *)
(* A step is one operation on memory the two threads share.  Work on state *)
(* only one of them touches is folded into that thread's next shared step. *)
(* A heap block is represented by its capacity in samples.                 *)
(***************************************************************************)
EXTENDS Integers, Sequences

CONSTANTS
  Capacity,      \* slots of the data ring and of the free-list ring
  SeedLimit,     \* most blocks the free list is seeded with (8 in the code)
  RtCapacity,    \* RT_BUFFER_SAMPLE_CAPACITY, in samples
  Lengths,       \* sample counts a callback may deliver
  Durations,     \* nanoseconds a delivered period may last
  Threshold,     \* backpressure_threshold
  Calls,         \* the producer entry points in use: "samples", "buffer"
  WakerMayPanic, \* TRUE if the async waker woken on a push may unwind
  MaxOffers      \* bound of the model: number of periods offered

ASSUME RingAssumption ==
  /\ Capacity \in Nat \ {0}
  /\ SeedLimit \in Nat \ {0}
  /\ RtCapacity \in Nat \ {0}
  /\ Lengths \subseteq Nat \ {0}
  /\ Durations \subseteq Nat \ {0}
  /\ Threshold \in Nat \ {0}
  /\ Calls \subseteq {"samples", "buffer"}
  /\ WakerMayPanic \in BOOLEAN
  /\ MaxOffers \in Nat

VARIABLES
  ring,        \* the data ring
  freeList,    \* the free-list return ring: capacities of empty blocks
  scratch,     \* BridgeProducer::scratch; 0 once taken
  spares,      \* number of blocks left in BridgeConsumer::spare_pool
  position,    \* BridgeProducer::position_nanos
  pushed,      \* buffers_pushed
  dropped,     \* buffers_dropped
  popped,      \* buffers_popped
  consecutive, \* consecutive_drops
  panicked,    \* push_panicked
  ppc,         \* where the producer is inside a push
  pbuf,        \* the buffer it is pushing
  fromScratch, \* used_scratch
  cpc,         \* where the consumer is inside pop
  cbuf,        \* the buffer it popped last
  offered,     \* history: periods offered so far
  streak,      \* history: refusals by the ring since it last took a buffer
  rtAllocs     \* history: heap allocations made on the producer thread

producerVars == <<scratch, position, ppc, pbuf, fromScratch>>
consumerVars == <<spares, popped, cpc, cbuf>>
counters == <<pushed, dropped, consecutive, panicked>>
history == <<offered, streak, rtAllocs>>
vars == <<ring, freeList, producerVars, consumerVars, counters, history>>

(***************************************************************************)
(* A buffer on its way: the number of its offer, whether the push stamps   *)
(* it, the stream position of its first sample, how long it plays, its     *)
(* length and its block.  A buffer the caller built is not stamped.        *)
(***************************************************************************)
Buffer == [id : Nat, stamped : BOOLEAN, stamp : Nat, dur : Nat, len : Nat, cap : Nat]
NoBuffer == [id |-> 0, stamped |-> FALSE, stamp |-> 0, dur |-> 0, len |-> 0, cap |-> 0]

Larger(a, b) == IF a >= b THEN a ELSE b
Seed == IF Capacity <= SeedLimit THEN Capacity ELSE SeedLimit

(* Vec growth: an empty block of capacity cap asked for n samples.         *)
Grown(cap, n) == IF n <= cap THEN cap ELSE Larger(2 * cap, n)

Init ==
  /\ ring = <<>>
  /\ freeList = [i \in 1 .. Seed |-> RtCapacity]
  /\ scratch = RtCapacity
  /\ spares = Seed
  /\ position = 0
  /\ pushed = 0 /\ dropped = 0 /\ popped = 0 /\ consecutive = 0
  /\ panicked = FALSE
  /\ ppc = "idle" /\ pbuf = NoBuffer /\ fromScratch = FALSE
  /\ cpc = "idle" /\ cbuf = NoBuffer
  /\ offered = 0 /\ streak = 0 /\ rtAllocs = 0

-----------------------------------------------------------------------------
(* The producer: push_samples_or_drop_stamped and its guarded sibling.     *)

(* The period is copied into a block of capacity cap, the position         *)
(* advances and the buffer is stamped with the position it started at.     *)
Fill(cap, n, d) ==
  /\ pbuf' = [id |-> offered + 1, stamped |-> TRUE, stamp |-> position, dur |-> d,
              len |-> n, cap |-> Grown(cap, n)]
  /\ position' = position + d
  /\ rtAllocs' = IF n > cap THEN rtAllocs + 1 ELSE rtAllocs
  /\ offered' = offered + 1
  /\ ppc' = "enqueue"

OfferRecycled(n, d) ==
  /\ ppc = "idle" /\ "samples" \in Calls /\ offered < MaxOffers
  /\ freeList # <<>>
  /\ Fill(Head(freeList), n, d)
  /\ freeList' = Tail(freeList)
  /\ fromScratch' = FALSE
  /\ UNCHANGED <<ring, scratch, streak, consumerVars, counters>>

OfferScratch(n, d) ==
  /\ ppc = "idle" /\ "samples" \in Calls /\ offered < MaxOffers
  /\ freeList = <<>>
  /\ Fill(scratch, n, d)
  /\ scratch' = 0
  /\ fromScratch' = TRUE
  /\ UNCHANGED <<ring, freeList, streak, consumerVars, counters>>

Enqueue ==
  /\ ppc = "enqueue" /\ Len(ring) < Capacity
  /\ ring' = Append(ring, pbuf)
  /\ streak' = 0
  /\ ppc' = "accepted"
  /\ UNCHANGED <<freeList, scratch, position, pbuf, fromScratch, consumerVars,
                 counters, offered, rtAllocs>>

(* Fault: a refused period gives its stream time back.                     *)
Reject_Rewinds ==
  /\ ppc = "enqueue" /\ Len(ring) = Capacity
  /\ scratch' = pbuf.cap
  /\ position' = pbuf.stamp
  /\ streak' = streak + 1
  /\ ppc' = "rejected"
  /\ UNCHANGED <<ring, freeList, pbuf, fromScratch, consumerVars, counters,
                 offered, rtAllocs>>

(* Ring full: the block is reclaimed into scratch.                         *)
Reject ==
  /\ ppc = "enqueue" /\ Len(ring) = Capacity
  /\ scratch' = pbuf.cap
  /\ streak' = streak + 1
  /\ ppc' = "rejected"
  /\ UNCHANGED <<ring, freeList, position, pbuf, fromScratch, consumerVars,
                 counters, offered, rtAllocs>>

(* push and push_or_drop: the caller brings its own block.  A push refused *)
(* by a full ring hands the buffer back and changes nothing.               *)
PushBuffer(n, d) ==
  /\ ppc = "idle" /\ "buffer" \in Calls /\ offered < MaxOffers
  /\ Len(ring) < Capacity
  /\ pbuf' = [id |-> offered + 1, stamped |-> FALSE, stamp |-> 0, dur |-> d,
              len |-> n, cap |-> n]
  /\ ring' = Append(ring, pbuf')
  /\ position' = position + d
  /\ offered' = offered + 1
  /\ streak' = 0
  /\ fromScratch' = FALSE
  /\ ppc' = "accepted"
  /\ UNCHANGED <<freeList, scratch, consumerVars, counters, rtAllocs>>

DropBuffer(d) ==
  /\ ppc = "idle" /\ "buffer" \in Calls /\ offered < MaxOffers
  /\ Len(ring) = Capacity
  /\ position' = position + d
  /\ offered' = offered + 1
  /\ streak' = streak + 1
  /\ fromScratch' = FALSE
  /\ ppc' = "rejected"
  /\ UNCHANGED <<ring, freeList, scratch, pbuf, consumerVars, counters, rtAllocs>>

CountPushed ==
  /\ ppc = "accepted"
  /\ pushed' = pushed + 1
  /\ ppc' = "settle"
  /\ UNCHANGED <<ring, freeList, scratch, position, pbuf, fromScratch,
                 consumerVars, dropped, consecutive, panicked, history>>

ResetConsecutive ==
  /\ ppc = "settle"
  /\ consecutive' = 0
  /\ ppc' = "wake"
  /\ UNCHANGED <<ring, freeList, scratch, position, pbuf, fromScratch,
                 consumerVars, pushed, dropped, panicked, history>>

(* waker.wake() runs code of the consumer's executor.  The guarded push    *)
(* contains an unwind from it and goes to on_push_panic.                   *)
WakeAsync ==
  /\ ppc = "wake"
  /\ \/ ppc' = "refill"
     \/ WakerMayPanic /\ ppc' = "panic"
  /\ UNCHANGED <<ring, freeList, scratch, position, pbuf, fromScratch,
                 consumerVars, counters, history>>

(* Fault: scratch is refilled from the free list only.                     *)
RefillScratch_RecycledOnly ==
  /\ ppc = "refill"
  /\ ppc' = "idle"
  /\ IF fromScratch /\ freeList # <<>>
     THEN scratch' = Head(freeList) /\ freeList' = Tail(freeList)
     ELSE UNCHANGED <<freeList, scratch>>
  /\ UNCHANGED <<ring, position, pbuf, fromScratch, consumerVars, counters, history>>

(* After the scratch block went into the ring another one takes its place, *)
(* a recycled one if there is one and a fresh one otherwise.               *)
RefillScratch ==
  /\ ppc = "refill"
  /\ ppc' = "idle"
  /\ \/ /\ ~fromScratch
        /\ UNCHANGED <<freeList, scratch, rtAllocs>>
     \/ /\ fromScratch /\ freeList # <<>>
        /\ scratch' = Head(freeList)
        /\ freeList' = Tail(freeList)
        /\ UNCHANGED rtAllocs
     \/ /\ fromScratch /\ freeList = <<>>
        /\ scratch' = RtCapacity
        /\ rtAllocs' = rtAllocs + 1
        /\ UNCHANGED freeList
  /\ UNCHANGED <<ring, position, pbuf, fromScratch, consumerVars, counters,
                 offered, streak>>

CountDropped ==
  /\ ppc = "rejected"
  /\ dropped' = dropped + 1
  /\ ppc' = "streak"
  /\ UNCHANGED <<ring, freeList, scratch, position, pbuf, fromScratch,
                 consumerVars, pushed, consecutive, panicked, history>>

(* Fault: the contained panic is not recorded.                             *)
OnPushPanic_Unrecorded ==
  /\ ppc = "panic"
  /\ dropped' = dropped + 1
  /\ ppc' = "streak"
  /\ UNCHANGED <<ring, freeList, scratch, position, pbuf, fromScratch,
                 consumerVars, pushed, consecutive, panicked, history>>

OnPushPanic ==
  /\ ppc = "panic"
  /\ panicked' = TRUE
  /\ dropped' = dropped + 1
  /\ ppc' = "streak"
  /\ UNCHANGED <<ring, freeList, scratch, position, pbuf, fromScratch,
                 consumerVars, pushed, consecutive, history>>

CountConsecutive ==
  /\ ppc = "streak"
  /\ consecutive' = consecutive + 1
  /\ ppc' = "idle"
  /\ UNCHANGED <<ring, freeList, scratch, position, pbuf, fromScratch,
                 consumerVars, pushed, dropped, panicked, history>>

-----------------------------------------------------------------------------
(* The consumer: BridgeConsumer::pop.                                      *)

PopRing ==
  /\ cpc = "idle" /\ ring # <<>>
  /\ cbuf' = Head(ring)
  /\ ring' = Tail(ring)
  /\ cpc' = "popped"
  /\ UNCHANGED <<freeList, spares, popped, producerVars, counters, history>>

CountPopped ==
  /\ cpc = "popped"
  /\ popped' = popped + 1
  /\ cpc' = "recycle"
  /\ UNCHANGED <<ring, freeList, spares, cbuf, producerVars, counters, history>>

(* The block sent back for a delivered buffer of n samples.  reserve asks  *)
(* for len - capacity more samples, counted from the length of the spare   *)
(* block, which is 0.                                                      *)
SpareFor(n) ==
  IF spares = 0 THEN Larger(n, RtCapacity)
  ELSE IF RtCapacity < n THEN Grown(RtCapacity, n - RtCapacity)
  ELSE RtCapacity

(* Fault: nothing is sent back once the spare pool is empty.               *)
Recycle_PoolOnly ==
  /\ cpc = "recycle"
  /\ freeList' = IF Len(freeList) < Capacity /\ spares > 0
                 THEN Append(freeList, SpareFor(cbuf.len)) ELSE freeList
  /\ spares' = IF spares = 0 THEN 0 ELSE spares - 1
  /\ cpc' = "idle"
  /\ UNCHANGED <<ring, popped, cbuf, producerVars, counters, history>>

Recycle ==
  /\ cpc = "recycle"
  /\ freeList' = IF Len(freeList) < Capacity
                 THEN Append(freeList, SpareFor(cbuf.len)) ELSE freeList
  /\ spares' = IF spares = 0 THEN 0 ELSE spares - 1
  /\ cpc' = "idle"
  /\ UNCHANGED <<ring, popped, cbuf, producerVars, counters, history>>

-----------------------------------------------------------------------------
Producer ==
  \/ \E n \in Lengths, d \in Durations :
        OfferRecycled(n, d) \/ OfferScratch(n, d) \/ PushBuffer(n, d)
  \/ \E d \in Durations : DropBuffer(d)
  \/ Enqueue \/ Reject \/ CountPushed \/ ResetConsecutive \/ WakeAsync
  \/ RefillScratch \/ CountDropped \/ OnPushPanic \/ CountConsecutive

Consumer == PopRing \/ CountPopped \/ Recycle

Next == Producer \/ Consumer

Spec == Init /\ [][Next]_vars
-----------------------------------------------------------------------------
(* Type invariant.  BridgeProducer, BridgeConsumer and the counters of     *)
(* BridgeShared hold what their declarations say.                          *)
TypeOK ==
  /\ ring \in Seq(Buffer)
  /\ freeList \in Seq(Nat)
  /\ scratch \in Nat /\ spares \in 0 .. Seed /\ position \in Nat
  /\ pushed \in Nat /\ dropped \in Nat /\ popped \in Nat /\ consecutive \in Nat
  /\ panicked \in BOOLEAN /\ fromScratch \in BOOLEAN
  /\ ppc \in {"idle", "enqueue", "accepted", "settle", "wake", "refill",
               "rejected", "panic", "streak"}
  /\ cpc \in {"idle", "popped", "recycle"}
  /\ pbuf \in Buffer /\ cbuf \in Buffer
  /\ offered \in Nat /\ streak \in Nat /\ rtAllocs \in Nat

One(p) == IF p THEN 1 ELSE 0

(* The three counters and the ring always agree, whatever step of push and *)
(* pop the two threads are in: a buffer counted as pushed is either in the *)
(* ring or counted as popped.  Statistics are read from other threads, and *)
(* the increments are separate from the ring operations they report.       *)
RingAccount ==
  pushed + One(ppc = "accepted") = popped + One(cpc = "popped") + Len(ring)

(* Every period offered by the callback is counted exactly once, as pushed *)
(* or as dropped, unless a push unwound.                                   *)
OffersAccounted ==
  ~panicked /\ ppc # "panic" =>
    offered = pushed + dropped + One(ppc \in {"enqueue", "accepted", "rejected"})

CountersAgree == RingAccount /\ OffersAccounted

(* Buffers keep the order of the offers, and their stamps lie on one       *)
(* timeline: the later of two stamped buffers starts where the earlier one *)
(* ends exactly when nothing was offered in between, and later otherwise,  *)
(* so a dropped period shows as a gap and nothing else does.               *)
Follows(a, b) ==
  /\ a.id < b.id
  /\ a.stamped /\ b.stamped =>
       /\ a.stamp + a.dur <= b.stamp
       /\ a.stamp + a.dur = b.stamp <=> b.id = a.id + 1

Timeline ==
  /\ \A i, j \in 1 .. Len(ring) : i < j => Follows(ring[i], ring[j])
  /\ cbuf.id # 0 => \A i \in 1 .. Len(ring) : Follows(cbuf, ring[i])

(* Between two pushes scratch holds a block with room for a whole period,  *)
(* and so does every block in the free list: ADR-0001's fallback is never  *)
(* left empty.  A push that unwound gives no such promise.                 *)
BlocksReady ==
  /\ \A i \in 1 .. Len(freeList) : freeList[i] >= RtCapacity
  /\ ppc = "idle" /\ ~panicked => scratch >= RtCapacity

(* The blocks in circulation, less the scratch block lent to a push that   *)
(* has not replaced it yet, never fall below the seed.  A ring no longer   *)
(* than the seed can lose one more: a consumer that returns every block    *)
(* while the scratch block is lent finds the free list full.               *)
Circulating ==
  Len(ring) + Len(freeList) + One(cpc # "idle") + One(ppc = "enqueue" /\ ~fromScratch)
Lent == fromScratch /\ ppc \in {"accepted", "settle", "wake", "refill"}
Floor == IF Capacity <= SeedLimit THEN Capacity - 1 ELSE SeedLimit
BlocksKept == Circulating >= Floor + One(Lent)

(* The circulation of heap blocks runs neither dry nor short.              *)
BlocksCirculate == BlocksReady /\ BlocksKept

(* With periods that fit RT_BUFFER_SAMPLE_CAPACITY the real-time thread    *)
(* allocates only to replace its scratch block, and only while a floor of  *)
(* buffers waits in the ring: never if the consumer keeps up.              *)
AllocatesOnlyWhenLagging ==
  [][rtAllocs' # rtAllocs /\ ~panicked /\ (\A n \in Lengths : n <= RtCapacity)
       => ppc = "refill" /\ Len(ring) >= Floor]_vars

(* is_under_backpressure says that the ring refused the last Threshold     *)
(* periods in a row, once the push in progress has been counted.           *)
BackpressureExact ==
  ~panicked /\ ppc \in {"idle", "enqueue", "wake", "refill"} =>
    (consecutive >= Threshold <=> streak >= Threshold)

=============================================================================
