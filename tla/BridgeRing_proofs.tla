-------------------------- MODULE BridgeRing_proofs --------------------------
(***************************************************************************)
(* Theorems about BridgeRing for every ring length, seed, period length    *)
(* and backpressure threshold.                                             *)
(***************************************************************************)
EXTENDS BridgeRing, TLAPS

(* A block that had to grow holds what was asked for.                      *)
LEMMA GrownType ==
  ASSUME NEW cap \in Nat, NEW n \in Nat
  PROVE  Grown(cap, n) \in Nat /\ Grown(cap, n) >= cap
BY DEF Grown, Larger

(* SpareFor always names a block, and never one shorter than a period.     *)
LEMMA SpareForType ==
  ASSUME NEW n \in Nat, spares \in Nat
  PROVE  SpareFor(n) \in Nat /\ SpareFor(n) >= RtCapacity
BY RingAssumption DEF SpareFor, Grown, Larger

LEMMA SeedType == Seed \in Nat \ {0} /\ Seed <= Capacity
BY RingAssumption DEF Seed

-----------------------------------------------------------------------------
(* Type correctness.                                                       *)

LEMMA InitType == Init => TypeOK
<1> SUFFICES ASSUME Init PROVE TypeOK
  OBVIOUS
<1>1. freeList \in Seq(Nat)
  BY SeedType, RingAssumption DEF Init
<1>2. NoBuffer \in Buffer
  BY DEF NoBuffer, Buffer
<1>3. scratch \in Nat /\ spares \in 0 .. Seed
  BY SeedType, RingAssumption DEF Init
<1>4. ring \in Seq(Buffer) /\ pbuf \in Buffer /\ cbuf \in Buffer
  BY <1>2 DEF Init
<1> QED
  BY <1>1, <1>3, <1>4 DEF Init, TypeOK

(* What Fill leaves in pbuf is a buffer.                                   *)
LEMMA FillType ==
  ASSUME TypeOK, NEW cap \in Nat, NEW n \in Lengths, NEW d \in Durations, Fill(cap, n, d)
  PROVE  /\ pbuf' \in Buffer /\ position' \in Nat /\ rtAllocs' \in Nat
         /\ offered' \in Nat /\ ppc' = "enqueue"
<1>1. n \in Nat /\ d \in Nat
  BY RingAssumption
<1>2. Grown(cap, n) \in Nat
  BY <1>1, GrownType
<1> QED
  BY <1>1, <1>2 DEF Fill, TypeOK, Buffer

LEMMA NextType == TypeOK /\ [Next]_vars => TypeOK'
<1> SUFFICES ASSUME TypeOK, [Next]_vars PROVE TypeOK'
  OBVIOUS
<1> USE DEF producerVars, consumerVars, counters, history
<1>1. ASSUME NEW n \in Lengths, NEW d \in Durations, OfferRecycled(n, d) PROVE TypeOK'
  <2>1. Head(freeList) \in Nat /\ Tail(freeList) \in Seq(Nat)
    BY <1>1 DEF OfferRecycled, TypeOK
  <2>2. Fill(Head(freeList), n, d)
    BY <1>1 DEF OfferRecycled
  <2> QED
    BY <1>1, <2>1, <2>2, FillType DEF OfferRecycled, TypeOK
<1>2. ASSUME NEW n \in Lengths, NEW d \in Durations, OfferScratch(n, d) PROVE TypeOK'
  <2>1. Fill(scratch, n, d) /\ scratch \in Nat
    BY <1>2 DEF OfferScratch, TypeOK
  <2> QED
    BY <1>2, <2>1, FillType DEF OfferScratch, TypeOK
<1>3. ASSUME NEW n \in Lengths, NEW d \in Durations, PushBuffer(n, d) PROVE TypeOK'
  <2>1. n \in Nat /\ d \in Nat
    BY RingAssumption
  <2>2. pbuf' \in Buffer
    BY <1>3, <2>1 DEF PushBuffer, TypeOK, Buffer
  <2>3. ring' \in Seq(Buffer)
    BY <1>3, <2>2 DEF PushBuffer, TypeOK
  <2>4. position' \in Nat /\ offered' \in Nat /\ streak' \in Nat /\ ppc' = "accepted"
    BY <1>3, <2>1 DEF PushBuffer, TypeOK
  <2> QED
    BY <1>3, <2>2, <2>3, <2>4 DEF PushBuffer, TypeOK
<1>4. ASSUME NEW d \in Durations, DropBuffer(d) PROVE TypeOK'
  <2>1. d \in Nat
    BY RingAssumption
  <2>2. position' \in Nat /\ offered' \in Nat /\ streak' \in Nat /\ ppc' = "rejected"
    BY <1>4, <2>1 DEF DropBuffer, TypeOK
  <2> QED
    BY <1>4, <2>2 DEF DropBuffer, TypeOK
<1>5. CASE Enqueue
  BY <1>5 DEF Enqueue, TypeOK
<1>6. CASE Reject
  BY <1>6 DEF Reject, TypeOK, Buffer
<1>7. CASE CountPushed
  BY <1>7 DEF CountPushed, TypeOK
<1>8. CASE ResetConsecutive
  BY <1>8 DEF ResetConsecutive, TypeOK
<1>9. CASE WakeAsync
  BY <1>9 DEF WakeAsync, TypeOK
<1>10. CASE RefillScratch
  <2>1. scratch' \in Nat /\ freeList' \in Seq(Nat) /\ rtAllocs' \in Nat
    <3>1. CASE ~fromScratch
      BY <1>10, <3>1 DEF RefillScratch, TypeOK
    <3>2. CASE fromScratch /\ freeList # <<>>
      <4>1. Head(freeList) \in Nat /\ Tail(freeList) \in Seq(Nat)
        BY <3>2 DEF TypeOK
      <4> QED
        BY <1>10, <3>2, <4>1 DEF RefillScratch, TypeOK
    <3>3. CASE fromScratch /\ freeList = <<>>
      BY <1>10, <3>3, RingAssumption DEF RefillScratch, TypeOK
    <3> QED
      BY <3>1, <3>2, <3>3 DEF TypeOK
  <2> QED
    BY <1>10, <2>1 DEF RefillScratch, TypeOK
<1>11. CASE CountDropped
  BY <1>11 DEF CountDropped, TypeOK
<1>12. CASE OnPushPanic
  BY <1>12 DEF OnPushPanic, TypeOK
<1>13. CASE CountConsecutive
  BY <1>13 DEF CountConsecutive, TypeOK
<1>14. CASE PopRing
  BY <1>14 DEF PopRing, TypeOK
<1>15. CASE CountPopped
  BY <1>15 DEF CountPopped, TypeOK
<1>16. CASE Recycle
  <2>1. cbuf.len \in Nat /\ spares \in Nat
    BY SeedType DEF TypeOK, Buffer
  <2>2. SpareFor(cbuf.len) \in Nat
    BY <2>1, SpareForType
  <2>3. freeList' \in Seq(Nat)
    BY <1>16, <2>2 DEF Recycle, TypeOK
  <2>4. spares' \in 0 .. Seed
    BY <1>16, SeedType DEF Recycle, TypeOK
  <2> QED
    BY <1>16, <2>3, <2>4 DEF Recycle, TypeOK
<1>17. CASE UNCHANGED vars
  BY <1>17 DEF vars, TypeOK
<1> QED
  BY <1>1, <1>2, <1>3, <1>4, <1>5, <1>6, <1>7, <1>8, <1>9, <1>10, <1>11, <1>12,
     <1>13, <1>14, <1>15, <1>16, <1>17
  DEF Next, Producer, Consumer

(* The variables of BridgeRing keep their types, for every ring.           *)
THEOREM TypeCorrect == Spec => []TypeOK
BY InitType, NextType, PTL DEF Spec

-----------------------------------------------------------------------------
(* The counters.  RingAccount and OffersAccounted are inductive as they    *)
(* stand; BackpressureExact needs to know the two counts step by step.     *)

StreakExact ==
  ~panicked =>
    /\ ppc \in {"idle", "enqueue", "wake", "refill"} => consecutive = streak
    /\ ppc \in {"accepted", "settle"} => streak = 0
    /\ ppc \in {"rejected", "streak"} => consecutive + 1 = streak

Counts == RingAccount /\ OffersAccounted /\ StreakExact

LEMMA InitCounts == Init => Counts
BY DEF Init, Counts, RingAccount, OffersAccounted, StreakExact, One

LEMMA NextCounts == TypeOK /\ Counts /\ [Next]_vars => Counts'
<1> SUFFICES ASSUME TypeOK, Counts, [Next]_vars PROVE Counts'
  OBVIOUS
<1> USE DEF producerVars, consumerVars, counters, history, TypeOK, Counts, RingAccount,
            OffersAccounted, StreakExact, One
<1>1. ASSUME NEW n \in Lengths, NEW d \in Durations, OfferRecycled(n, d) PROVE Counts'
  BY <1>1 DEF OfferRecycled, Fill
<1>2. ASSUME NEW n \in Lengths, NEW d \in Durations, OfferScratch(n, d) PROVE Counts'
  BY <1>2 DEF OfferScratch, Fill
<1>3. ASSUME NEW n \in Lengths, NEW d \in Durations, PushBuffer(n, d) PROVE Counts'
  <2>1. Len(ring') = Len(ring) + 1
    BY <1>3 DEF PushBuffer
  <2> QED
    BY <1>3, <2>1 DEF PushBuffer
<1>4. ASSUME NEW d \in Durations, DropBuffer(d) PROVE Counts'
  BY <1>4 DEF DropBuffer
<1>5. CASE Enqueue
  <2>1. Len(ring') = Len(ring) + 1
    BY <1>5 DEF Enqueue
  <2>2. /\ ppc = "enqueue" /\ ppc' = "accepted" /\ streak' = 0
        /\ UNCHANGED <<pushed, dropped, popped, consecutive, panicked, offered, cpc>>
    BY <1>5 DEF Enqueue
  <2>3. RingAccount'
    BY <2>1, <2>2
  <2>4. OffersAccounted'
    BY <2>2
  <2>5. StreakExact'
    BY <2>2
  <2> QED
    BY <2>3, <2>4, <2>5
<1>6. CASE Reject
  BY <1>6 DEF Reject
<1>7. CASE CountPushed
  BY <1>7 DEF CountPushed
<1>8. CASE ResetConsecutive
  BY <1>8 DEF ResetConsecutive
<1>9. CASE WakeAsync
  BY <1>9 DEF WakeAsync
<1>10. CASE RefillScratch
  BY <1>10 DEF RefillScratch
<1>11. CASE CountDropped
  BY <1>11 DEF CountDropped
<1>12. CASE OnPushPanic
  BY <1>12 DEF OnPushPanic
<1>13. CASE CountConsecutive
  BY <1>13 DEF CountConsecutive
<1>14. CASE PopRing
  <2>1. Len(ring') = Len(ring) - 1
    BY <1>14 DEF PopRing
  <2> QED
    BY <1>14, <2>1 DEF PopRing
<1>15. CASE CountPopped
  BY <1>15 DEF CountPopped
<1>16. CASE Recycle
  BY <1>16 DEF Recycle
<1>17. CASE UNCHANGED vars
  BY <1>17 DEF vars
<1> QED
  BY <1>1, <1>2, <1>3, <1>4, <1>5, <1>6, <1>7, <1>8, <1>9, <1>10, <1>11, <1>12,
     <1>13, <1>14, <1>15, <1>16, <1>17
  DEF Next, Producer, Consumer

THEOREM CountsInvariant == Spec => [](TypeOK /\ Counts)
<1>1. Init => TypeOK /\ Counts
  BY InitType, InitCounts
<1>2. TypeOK /\ Counts /\ [Next]_vars => (TypeOK /\ Counts)'
  BY NextType, NextCounts
<1> QED
  BY <1>1, <1>2, PTL DEF Spec

(* The counters, the ring and the periods offered agree between any two    *)
(* steps of the two threads, for every ring length and number of periods.  *)
THEOREM CountersCorrect == Spec => []CountersAgree
<1>1. TypeOK /\ Counts => CountersAgree
  BY DEF Counts, CountersAgree
<1> QED
  BY CountsInvariant, <1>1, PTL

(* is_under_backpressure is exact, for every threshold.                    *)
THEOREM BackpressureCorrect == Spec => []BackpressureExact
<1>1. TypeOK /\ Counts => BackpressureExact
  BY DEF Counts, StreakExact, BackpressureExact
<1> QED
  BY CountsInvariant, <1>1, PTL

-----------------------------------------------------------------------------
(* The heap blocks.  BlocksKept is inductive.  BlocksReady needs the block *)
(* of the period in flight, which Reject puts into scratch.                *)

Taken == fromScratch /\ ppc \in {"enqueue", "accepted", "settle", "wake", "refill"}

BlocksSized ==
  /\ \A i \in 1 .. Len(freeList) : freeList[i] >= RtCapacity
  /\ ~panicked =>
       /\ ppc # "panic" /\ ~Taken => scratch >= RtCapacity
       /\ ppc = "enqueue" => pbuf.cap >= RtCapacity

Blocks == BlocksKept /\ BlocksSized

LEMMA FloorType == Floor \in Nat /\ Floor < Capacity
BY RingAssumption DEF Floor

LEMMA InitBlocks == Init => Blocks
<1> SUFFICES ASSUME Init PROVE Blocks
  OBVIOUS
<1>1. Len(freeList) = Seed /\ Len(ring) = 0
  BY SeedType DEF Init
<1>2. BlocksKept
  BY <1>1, RingAssumption DEF Init, BlocksKept, Circulating, Lent, Floor, Seed, One
<1>3. BlocksSized
  <2>1. RtCapacity \in Nat /\ scratch = RtCapacity /\ ppc = "idle"
    BY RingAssumption DEF Init
  <2>2. \A i \in 1 .. Len(freeList) : freeList[i] = RtCapacity
    BY <1>1, SeedType DEF Init
  <2>3. \A i \in 1 .. Len(freeList) : freeList[i] >= RtCapacity
    BY <2>1, <2>2
  <2> QED
    BY <2>1, <2>3 DEF BlocksSized, Taken
<1> QED
  BY <1>2, <1>3 DEF Blocks

(* A period that fits its block leaves it as it is.                        *)
LEMMA FillBlock ==
  ASSUME TypeOK, NEW cap \in Nat, NEW n \in Lengths, NEW d \in Durations, Fill(cap, n, d)
  PROVE  pbuf'.cap >= cap /\ ppc' = "enqueue"
<1>1. n \in Nat
  BY RingAssumption
<1> QED
  BY <1>1, GrownType DEF Fill

LEMMA NextBlocks == TypeOK /\ Blocks /\ [Next]_vars => Blocks'
<1> SUFFICES ASSUME TypeOK, Blocks, [Next]_vars PROVE Blocks'
  OBVIOUS
<1> USE DEF producerVars, consumerVars, counters, history
<1> DEFINE All(f) == \A i \in 1 .. Len(f) : f[i] >= RtCapacity
<1>a. All(freeList) /\ RtCapacity \in Nat /\ Capacity \in Nat
  BY RingAssumption DEF Blocks, BlocksSized
<1>c. Len(ring) \in Nat /\ Len(freeList) \in Nat /\ Floor \in Nat /\ BlocksKept
  BY FloorType DEF TypeOK, Blocks
<1>b. freeList # <<>> => /\ Head(freeList) >= RtCapacity /\ Head(freeList) \in Nat
                         /\ Tail(freeList) \in Seq(Nat) /\ All(Tail(freeList))
                         /\ Len(Tail(freeList)) = Len(freeList) - 1
  BY <1>a DEF TypeOK
<1>1. ASSUME NEW n \in Lengths, NEW d \in Durations, OfferRecycled(n, d) PROVE Blocks'
  <2>1. pbuf'.cap >= Head(freeList) /\ ppc' = "enqueue" /\ pbuf'.cap \in Nat
    BY <1>1, <1>b, FillBlock, FillType DEF OfferRecycled, Buffer
  <2>2. BlocksKept'
    BY <1>1, <1>b, <2>1 DEF OfferRecycled, Blocks, BlocksKept, Circulating, Lent, One, Floor, TypeOK
  <2>3. BlocksSized'
    BY <1>1, <1>a, <1>b, <2>1 DEF OfferRecycled, Blocks, BlocksSized, Taken, TypeOK
  <2> QED
    BY <2>2, <2>3 DEF Blocks
<1>2. ASSUME NEW n \in Lengths, NEW d \in Durations, OfferScratch(n, d) PROVE Blocks'
  <2>1. pbuf'.cap >= scratch /\ ppc' = "enqueue" /\ pbuf'.cap \in Nat
    BY <1>2, FillBlock, FillType DEF OfferScratch, Buffer, TypeOK
  <2>2. BlocksKept'
    BY <1>2, <2>1 DEF OfferScratch, Blocks, BlocksKept, Circulating, Lent, One, Floor, TypeOK
  <2>3. BlocksSized'
    BY <1>2, <1>a, <2>1 DEF OfferScratch, Blocks, BlocksSized, Taken, TypeOK
  <2> QED
    BY <2>2, <2>3 DEF Blocks
<1>3. ASSUME NEW n \in Lengths, NEW d \in Durations, PushBuffer(n, d) PROVE Blocks'
  <2>1. Len(ring') = Len(ring) + 1
    BY <1>3 DEF PushBuffer, TypeOK
  <2>2. BlocksKept'
    <3>1. ppc = "idle" /\ ppc' = "accepted" /\ fromScratch' = FALSE
          /\ UNCHANGED <<freeList, cpc>>
      BY <1>3 DEF PushBuffer
    <3> QED
      BY <1>c, <2>1, <3>1 DEF BlocksKept, Circulating, Lent, One, Floor
  <2>3. BlocksSized'
    BY <1>3 DEF PushBuffer, Blocks, BlocksSized, Taken
  <2> QED
    BY <2>2, <2>3 DEF Blocks
<1>4. ASSUME NEW d \in Durations, DropBuffer(d) PROVE Blocks'
  <2>1. BlocksKept'
    BY <1>4 DEF DropBuffer, Blocks, BlocksKept, Circulating, Lent, One, Floor, TypeOK
  <2>2. BlocksSized'
    BY <1>4 DEF DropBuffer, Blocks, BlocksSized, Taken
  <2> QED
    BY <2>1, <2>2 DEF Blocks
<1>5. CASE Enqueue
  <2>1. Len(ring') = Len(ring) + 1
    BY <1>5 DEF Enqueue, TypeOK
  <2>2. BlocksKept'
    BY <1>5, <2>1, FloorType DEF Enqueue, Blocks, BlocksKept, Circulating, Lent, One, TypeOK, Floor
  <2>3. BlocksSized'
    BY <1>5 DEF Enqueue, Blocks, BlocksSized, Taken
  <2> QED
    BY <2>2, <2>3 DEF Blocks
<1>6. CASE Reject
  <2>1. BlocksKept'
    BY <1>6, <1>a, FloorType DEF Reject, BlocksKept, Circulating, Lent, One, TypeOK, Floor
  <2>2. BlocksSized'
    BY <1>6 DEF Reject, Blocks, BlocksSized, Taken
  <2> QED
    BY <2>1, <2>2 DEF Blocks
<1>7. CASE CountPushed \/ ResetConsecutive \/ WakeAsync
  <2>1. /\ ppc \in {"accepted", "settle", "wake"}
        /\ ppc' \in {"settle", "wake", "refill", "panic"}
        /\ UNCHANGED <<ring, freeList, scratch, fromScratch, pbuf, panicked, cpc>>
    BY <1>7 DEF CountPushed, ResetConsecutive, WakeAsync
  <2>2. BlocksKept'
    BY <1>c, <2>1 DEF BlocksKept, Circulating, Lent, One, Floor
  <2>3. BlocksSized'
    BY <2>1 DEF Blocks, BlocksSized, Taken
  <2> QED
    BY <2>2, <2>3 DEF Blocks
<1>8. CASE RefillScratch
  <2>1. CASE fromScratch /\ freeList # <<>>
    <3>1. scratch' = Head(freeList) /\ freeList' = Tail(freeList) /\ ppc' = "idle"
          /\ UNCHANGED <<ring, cpc, fromScratch, panicked>>
      BY <1>8, <2>1 DEF RefillScratch
    <3>2. ppc = "refill"
      BY <1>8 DEF RefillScratch
    <3>3. BlocksKept'
      BY <1>b, <1>c, <2>1, <3>1, <3>2 DEF BlocksKept, Circulating, Lent, One, Floor
    <3>4. BlocksSized'
      BY <1>b, <2>1, <3>1 DEF BlocksSized, Taken
    <3> QED
      BY <3>3, <3>4 DEF Blocks
  <2>2. CASE ~ (fromScratch /\ freeList # <<>>)
    <3>1. freeList' = freeList /\ ppc' = "idle" /\ (fromScratch => scratch' = RtCapacity)
          /\ (~fromScratch => scratch' = scratch) /\ UNCHANGED <<ring, cpc, fromScratch, panicked>>
      BY <1>8, <2>2 DEF RefillScratch
    <3>2. ppc = "refill"
      BY <1>8 DEF RefillScratch
    <3>3. BlocksKept'
      BY <1>c, <3>1, <3>2 DEF BlocksKept, Circulating, Lent, One, Floor
    <3>4. BlocksSized'
      BY <1>a, <3>1, <3>2 DEF Blocks, BlocksSized, Taken, TypeOK
    <3> QED
      BY <3>3, <3>4 DEF Blocks
  <2> QED
    BY <2>1, <2>2
<1>9. CASE CountDropped \/ OnPushPanic \/ CountConsecutive
  BY <1>9 DEF CountDropped, OnPushPanic, CountConsecutive, Blocks, BlocksKept, BlocksSized,
     Circulating, Lent, Taken, One, Floor, TypeOK
<1>10. CASE PopRing
  <2>1. Len(ring') = Len(ring) - 1
    BY <1>10 DEF PopRing, TypeOK
  <2> QED
    BY <1>10, <2>1 DEF PopRing, Blocks, BlocksKept, BlocksSized, Circulating, Lent, Taken,
       One, Floor, TypeOK
<1>11. CASE CountPopped
  BY <1>11 DEF CountPopped, Blocks, BlocksKept, BlocksSized, Circulating, Lent, Taken,
     One, Floor, TypeOK
<1>12. CASE Recycle
  <2>1. SpareFor(cbuf.len) \in Nat /\ SpareFor(cbuf.len) >= RtCapacity
    BY SpareForType, SeedType DEF TypeOK, Buffer
  <2>2. CASE Len(freeList) < Capacity
    <3>1. freeList' = Append(freeList, SpareFor(cbuf.len)) /\ Len(freeList') = Len(freeList) + 1
      BY <1>12, <2>1, <2>2 DEF Recycle, TypeOK
    <3>2. All(freeList')
      BY <1>a, <2>1, <3>1 DEF TypeOK
    <3>3. BlocksSized'
      BY <1>12, <3>2 DEF Recycle, Blocks, BlocksSized, Taken
    <3>4. BlocksKept'
      <4>1. cpc = "recycle" /\ cpc' = "idle" /\ UNCHANGED <<ring, ppc, fromScratch>>
        BY <1>12 DEF Recycle
      <4> QED
        BY <1>c, <3>1, <4>1 DEF BlocksKept, Circulating, Lent, One, Floor
    <3> QED
      BY <3>3, <3>4 DEF Blocks
  <2>3. CASE ~ (Len(freeList) < Capacity)
    <3>1. freeList' = freeList
      BY <1>12, <2>3 DEF Recycle
    <3>2. BlocksKept'
      BY <1>12, <1>a, <2>3, <3>1, FloorType DEF Recycle, BlocksKept, Circulating, Lent, One, TypeOK, Floor
    <3> QED
      BY <1>12, <3>1, <3>2 DEF Recycle, Blocks, BlocksSized, Taken
  <2> QED
    BY <2>2, <2>3
<1>13. CASE UNCHANGED vars
  BY <1>13 DEF vars, Blocks, BlocksKept, BlocksSized, Circulating, Lent, Taken, One, Floor
<1> QED
  BY <1>1, <1>2, <1>3, <1>4, <1>5, <1>6, <1>7, <1>8, <1>9, <1>10, <1>11, <1>12, <1>13
  DEF Next, Producer, Consumer

THEOREM BlocksInvariant == Spec => [](TypeOK /\ Blocks)
<1>1. Init => TypeOK /\ Blocks
  BY InitType, InitBlocks
<1>2. TypeOK /\ Blocks /\ [Next]_vars => (TypeOK /\ Blocks)'
  BY NextType, NextBlocks
<1> QED
  BY <1>1, <1>2, PTL DEF Spec

(* The heap blocks circulate: the recycling loop never leaks more than the *)
(* one block that a full free list costs it, and between two pushes there  *)
(* is room for a whole period in scratch and in every block of the free    *)
(* list, for every ring length and every seed.                             *)
THEOREM RecyclingKeepsBlocks == Spec => []BlocksCirculate
<1>1. TypeOK /\ Blocks => BlocksKept
  BY DEF Blocks
<1>2. TypeOK /\ Blocks => BlocksReady
  BY DEF Blocks, BlocksSized, BlocksReady, Taken
<1>3. TypeOK /\ Blocks => BlocksCirculate
  BY <1>1, <1>2 DEF BlocksCirculate
<1> QED
  BY BlocksInvariant, <1>3, PTL

(* The real-time thread allocates only while Floor buffers wait in the     *)
(* ring, and only to replace its scratch block.                            *)
LEMMA AllocationStep ==
  TypeOK /\ Blocks /\ [Next]_vars =>
    (rtAllocs' # rtAllocs /\ ~panicked /\ (\A n \in Lengths : n <= RtCapacity)
       => ppc = "refill" /\ Len(ring) >= Floor)
<1> SUFFICES ASSUME TypeOK, Blocks, [Next]_vars,
                    rtAllocs' # rtAllocs, ~panicked, \A n \in Lengths : n <= RtCapacity
             PROVE  ppc = "refill" /\ Len(ring) >= Floor
  OBVIOUS
<1> USE DEF producerVars, consumerVars, counters, history
<1>a. RtCapacity \in Nat /\ \A n \in Lengths : n \in Nat
  BY RingAssumption
<1>1. ASSUME NEW n \in Lengths, NEW d \in Durations, OfferRecycled(n, d) PROVE FALSE
  <2>1. Head(freeList) \in Nat /\ Head(freeList) >= RtCapacity
    BY <1>1 DEF OfferRecycled, Blocks, BlocksSized, TypeOK
  <2>2. ~ (n > Head(freeList))
    BY <1>a, <2>1
  <2> QED
    BY <1>1, <2>2 DEF OfferRecycled, Fill
<1>2. ASSUME NEW n \in Lengths, NEW d \in Durations, OfferScratch(n, d) PROVE FALSE
  <2>1. scratch \in Nat /\ scratch >= RtCapacity
    BY <1>2 DEF OfferScratch, Blocks, BlocksSized, Taken, TypeOK
  <2>2. ~ (n > scratch)
    BY <1>a, <2>1
  <2> QED
    BY <1>2, <2>2 DEF OfferScratch, Fill
<1>3. CASE RefillScratch
  <2>1. fromScratch /\ freeList = <<>> /\ ppc = "refill"
    BY <1>3 DEF RefillScratch
  <2>2. Len(freeList) = 0
    BY <2>1
  <2> QED
    BY <2>1, <2>2, FloorType DEF Blocks, BlocksKept, Circulating, Lent, One, TypeOK
<1> QED
  BY <1>1, <1>2, <1>3
  DEF Next, Producer, Consumer, PushBuffer, DropBuffer, Enqueue, Reject, CountPushed,
      ResetConsecutive, WakeAsync, CountDropped, OnPushPanic, CountConsecutive,
      PopRing, CountPopped, Recycle, vars

(* With periods of at most RT_BUFFER_SAMPLE_CAPACITY samples, a consumer   *)
(* that keeps up means no allocation on the real-time thread: ADR-0001.    *)
THEOREM AllocationFree == Spec => AllocatesOnlyWhenLagging
BY BlocksInvariant, AllocationStep, PTL DEF Spec, AllocatesOnlyWhenLagging

-----------------------------------------------------------------------------
(* The timeline.  Timeline relates the buffers that have left the producer *)
(* to each other; to be inductive it also has to relate them to the        *)
(* position the next period will be stamped with, and to the one in hand.  *)

Behind(a) ==
  /\ a.id <= offered
  /\ a.stamped => /\ a.stamp + a.dur <= position
                  /\ a.stamp + a.dur = position <=> a.id = offered

InHand == ppc = "enqueue" => /\ pbuf.id = offered /\ pbuf.stamped
                             /\ pbuf.stamp + pbuf.dur = position

Ordered ==
  /\ Timeline
  /\ \A i \in 1 .. Len(ring) : Behind(ring[i])
  /\ cbuf.id # 0 => Behind(cbuf)
  /\ InHand
  /\ ppc = "enqueue" => /\ \A i \in 1 .. Len(ring) : Follows(ring[i], pbuf)
                        /\ cbuf.id # 0 => Follows(cbuf, pbuf)

LEMMA InitOrdered == Init => Ordered
<1> SUFFICES ASSUME Init PROVE Ordered
  OBVIOUS
<1>1. Len(ring) = 0 /\ cbuf.id = 0 /\ ppc # "enqueue"
  BY DEF Init, NoBuffer
<1> QED
  BY <1>1 DEF Ordered, Timeline, InHand

(* The next period, stamped with the position, follows all before it.      *)
LEMMA NextFollows ==
  ASSUME TypeOK, NEW a \in Buffer, Behind(a), NEW b \in Buffer,
         b.id = offered + 1, b.stamped => b.stamp = position
  PROVE  Follows(a, b)
<1>1. /\ a.id \in Nat /\ a.stamp \in Nat /\ a.dur \in Nat
      /\ b.id \in Nat /\ b.stamp \in Nat /\ offered \in Nat /\ position \in Nat
  BY DEF TypeOK, Buffer
<1>2. a.id < b.id
  BY <1>1 DEF Behind
<1>3. ASSUME a.stamped, b.stamped
      PROVE  a.stamp + a.dur <= b.stamp /\ (a.stamp + a.dur = b.stamp <=> b.id = a.id + 1)
  <2>1. /\ a.stamp + a.dur <= position
        /\ a.stamp + a.dur = position <=> a.id = offered
        /\ b.stamp = position
    BY <1>3 DEF Behind
  <2> QED
    BY <1>1, <2>1
<1> QED
  BY <1>2, <1>3 DEF Follows

(* Offering a period leaves the earlier ones behind.                       *)
LEMMA BehindAdvances ==
  ASSUME TypeOK, NEW a \in Buffer, Behind(a), NEW d \in Durations,
         position' = position + d, offered' = offered + 1
  PROVE  /\ a.id <= offered'
         /\ a.stamped => /\ a.stamp + a.dur <= position'
                         /\ a.stamp + a.dur = position' <=> a.id = offered'
<1>1. /\ d \in Nat /\ d > 0 /\ a.id \in Nat /\ a.stamp \in Nat /\ a.dur \in Nat
      /\ offered \in Nat /\ position \in Nat
  BY RingAssumption DEF TypeOK, Buffer
<1>2. a.id <= offered'
  BY <1>1 DEF Behind
<1>3. ASSUME a.stamped
      PROVE  a.stamp + a.dur <= position' /\ (a.stamp + a.dur = position' <=> a.id = offered')
  <2>1. a.stamp + a.dur <= position /\ a.id <= offered
    BY <1>3 DEF Behind
  <2> QED
    BY <1>1, <2>1
<1> QED
  BY <1>2, <1>3

LEMMA FillOrdered ==
  ASSUME TypeOK, Ordered, NEW cap \in Nat, NEW n \in Lengths, NEW d \in Durations,
         Fill(cap, n, d), UNCHANGED <<ring, cbuf>>
  PROVE  Ordered'
<1>1. /\ pbuf' \in Buffer /\ ppc' = "enqueue"
      /\ pbuf'.id = offered + 1 /\ pbuf'.stamped /\ pbuf'.stamp = position /\ pbuf'.dur = d
      /\ position' = position + d /\ offered' = offered + 1
  BY FillType DEF Fill
<1>2. \A i \in 1 .. Len(ring) : ring[i] \in Buffer /\ Behind(ring[i])
  BY DEF TypeOK, Ordered
<1>3. cbuf.id # 0 => cbuf \in Buffer /\ Behind(cbuf)
  BY DEF TypeOK, Ordered
<1>4. /\ \A i \in 1 .. Len(ring) : Follows(ring[i], pbuf')
      /\ cbuf.id # 0 => Follows(cbuf, pbuf')
  BY <1>1, <1>2, <1>3, NextFollows
<1>5. /\ \A i \in 1 .. Len(ring) : Behind(ring[i])'
      /\ cbuf.id # 0 => Behind(cbuf)'
  BY <1>1, <1>2, <1>3, BehindAdvances DEF Behind
<1>6. InHand'
  BY <1>1 DEF InHand
<1> QED
  BY <1>1, <1>4, <1>5, <1>6 DEF Ordered, Timeline, Follows

LEMMA NextOrdered == TypeOK /\ Ordered /\ [Next]_vars => Ordered'
<1> SUFFICES ASSUME TypeOK, Ordered, [Next]_vars PROVE Ordered'
  OBVIOUS
<1> USE DEF producerVars, consumerVars, counters, history
<1>a. ring \in Seq(Buffer) /\ Len(ring) \in Nat /\ cbuf \in Buffer
      /\ \A i \in 1 .. Len(ring) : ring[i] \in Buffer
  BY DEF TypeOK
<1>1. ASSUME NEW n \in Lengths, NEW d \in Durations, OfferRecycled(n, d) PROVE Ordered'
  <2>1. Head(freeList) \in Nat /\ Fill(Head(freeList), n, d) /\ UNCHANGED <<ring, cbuf>>
    BY <1>1 DEF OfferRecycled, TypeOK
  <2> QED
    BY <2>1, FillOrdered
<1>2. ASSUME NEW n \in Lengths, NEW d \in Durations, OfferScratch(n, d) PROVE Ordered'
  <2>1. scratch \in Nat /\ Fill(scratch, n, d) /\ UNCHANGED <<ring, cbuf>>
    BY <1>2 DEF OfferScratch, TypeOK
  <2> QED
    BY <2>1, FillOrdered
<1>3. ASSUME NEW n \in Lengths, NEW d \in Durations, PushBuffer(n, d) PROVE Ordered'
  <2>1. /\ pbuf'.id = offered + 1 /\ ~pbuf'.stamped /\ ring' = Append(ring, pbuf')
        /\ position' = position + d /\ offered' = offered + 1 /\ ppc' = "accepted"
        /\ UNCHANGED cbuf
    BY <1>3 DEF PushBuffer
  <2>2. pbuf' \in Buffer
    BY <1>3, NextType DEF TypeOK, Next, Producer
  <2>3. /\ Len(ring') = Len(ring) + 1 /\ ring'[Len(ring) + 1] = pbuf'
        /\ \A i \in 1 .. Len(ring) : ring'[i] = ring[i]
    BY <1>a, <2>1, <2>2
  <2>4. /\ \A i \in 1 .. Len(ring) : Follows(ring[i], pbuf')
        /\ cbuf.id # 0 => Follows(cbuf, pbuf')
    BY <1>a, <2>1, <2>2, NextFollows DEF Ordered
  <2>5. /\ \A i \in 1 .. Len(ring) : Behind(ring[i])'
        /\ cbuf.id # 0 => Behind(cbuf)'
    BY <1>a, <2>1, BehindAdvances DEF Ordered, Behind
  <2>6. Behind(pbuf)'
    BY <2>1, <2>2 DEF Behind, TypeOK
  <2>7. \A i, j \in 1 .. Len(ring') : i < j => Follows(ring'[i], ring'[j])
    <3> SUFFICES ASSUME NEW i \in 1 .. Len(ring'), NEW j \in 1 .. Len(ring'), i < j
                 PROVE  Follows(ring'[i], ring'[j])
      OBVIOUS
    <3>1. i \in 1 .. Len(ring) /\ (j \in 1 .. Len(ring) \/ j = Len(ring) + 1)
      BY <1>a, <2>3
    <3> QED
      BY <2>3, <2>4, <3>1 DEF Ordered, Timeline
  <2>8. cbuf'.id # 0 => \A i \in 1 .. Len(ring') : Follows(cbuf', ring'[i])
    BY <1>a, <2>1, <2>3, <2>4 DEF Ordered, Timeline
  <2>9. \A i \in 1 .. Len(ring') : Behind(ring[i])'
    BY <1>a, <2>3, <2>5, <2>6 DEF Behind
  <2> QED
    BY <2>1, <2>5, <2>7, <2>8, <2>9 DEF Ordered, Timeline, InHand, Follows, Behind
<1>4. ASSUME NEW d \in Durations, DropBuffer(d) PROVE Ordered'
  <2>1. /\ position' = position + d /\ offered' = offered + 1 /\ ppc' = "rejected"
        /\ UNCHANGED <<ring, cbuf>>
    BY <1>4 DEF DropBuffer
  <2>2. /\ \A i \in 1 .. Len(ring) : Behind(ring[i])'
        /\ cbuf.id # 0 => Behind(cbuf)'
    BY <1>a, <2>1, BehindAdvances DEF Ordered, Behind
  <2> QED
    BY <2>1, <2>2 DEF Ordered, Timeline, InHand, Follows
<1>5. CASE Enqueue
  <2>1. /\ ring' = Append(ring, pbuf) /\ ppc = "enqueue" /\ ppc' = "accepted"
        /\ UNCHANGED <<pbuf, cbuf, position, offered>>
    BY <1>5 DEF Enqueue
  <2>2. pbuf \in Buffer
    BY DEF TypeOK
  <2>3. /\ Len(ring') = Len(ring) + 1 /\ ring'[Len(ring) + 1] = pbuf
        /\ \A i \in 1 .. Len(ring) : ring'[i] = ring[i]
    BY <1>a, <2>1, <2>2
  <2>4. Behind(pbuf)
    BY <2>1, <2>2 DEF Ordered, InHand, Behind, TypeOK, Buffer
  <2>5. \A i, j \in 1 .. Len(ring') : i < j => Follows(ring'[i], ring'[j])
    <3> SUFFICES ASSUME NEW i \in 1 .. Len(ring'), NEW j \in 1 .. Len(ring'), i < j
                 PROVE  Follows(ring'[i], ring'[j])
      OBVIOUS
    <3>1. i \in 1 .. Len(ring) /\ (j \in 1 .. Len(ring) \/ j = Len(ring) + 1)
      BY <1>a, <2>3
    <3> QED
      BY <2>1, <2>3, <3>1 DEF Ordered, Timeline
  <2>6. cbuf'.id # 0 => \A i \in 1 .. Len(ring') : Follows(cbuf', ring'[i])
    BY <1>a, <2>1, <2>3 DEF Ordered, Timeline
  <2>7. \A i \in 1 .. Len(ring') : Behind(ring'[i])
    BY <1>a, <2>3, <2>4 DEF Ordered
  <2> QED
    BY <2>1, <2>5, <2>6, <2>7 DEF Ordered, Timeline, InHand, Behind
<1>6. CASE PopRing
  <2>1. /\ ring # <<>> /\ cbuf' = Head(ring) /\ ring' = Tail(ring)
        /\ UNCHANGED <<ppc, pbuf, position, offered>>
    BY <1>6 DEF PopRing
  <2>2. /\ Len(ring') = Len(ring) - 1 /\ 1 \in 1 .. Len(ring) /\ cbuf' = ring[1]
        /\ \A i \in 1 .. Len(ring') : ring'[i] = ring[i + 1] /\ i + 1 \in 1 .. Len(ring)
    BY <1>a, <2>1
  <2>3. \A i, j \in 1 .. Len(ring') : i < j => Follows(ring'[i], ring'[j])
    BY <1>a, <2>2 DEF Ordered, Timeline
  <2>4. \A i \in 1 .. Len(ring') : Follows(cbuf', ring'[i])
    BY <1>a, <2>2 DEF Ordered, Timeline
  <2>5. Behind(cbuf') /\ \A i \in 1 .. Len(ring') : Behind(ring'[i])
    BY <1>a, <2>2 DEF Ordered
  <2>6. ppc = "enqueue" => /\ Follows(cbuf', pbuf)
                           /\ \A i \in 1 .. Len(ring') : Follows(ring'[i], pbuf)
    BY <1>a, <2>2 DEF Ordered
  <2> QED
    BY <2>1, <2>3, <2>4, <2>5, <2>6 DEF Ordered, Timeline, InHand, Behind
<1>7. CASE Reject \/ CountPushed \/ ResetConsecutive \/ WakeAsync \/ RefillScratch
           \/ CountDropped \/ OnPushPanic \/ CountConsecutive
  <2>1. ppc' # "enqueue" /\ UNCHANGED <<ring, cbuf, position, offered>>
    BY <1>7 DEF Reject, CountPushed, ResetConsecutive, WakeAsync, RefillScratch,
       CountDropped, OnPushPanic, CountConsecutive
  <2> QED
    BY <2>1 DEF Ordered, Timeline, InHand, Behind
<1>8. CASE CountPopped \/ Recycle \/ UNCHANGED vars
  <2>1. UNCHANGED <<ring, cbuf, position, offered, ppc, pbuf>>
    BY <1>8 DEF CountPopped, Recycle, vars
  <2> QED
    BY <2>1 DEF Ordered, Timeline, InHand, Behind
<1> QED
  BY <1>1, <1>2, <1>3, <1>4, <1>5, <1>6, <1>7, <1>8 DEF Next, Producer, Consumer

(* Buffers leave in the order of the offers, and stamps lie on one         *)
(* timeline on which a gap means a lost period, for every ring length and  *)
(* every duration of the periods.                                          *)
THEOREM OneTimeline == Spec => []Timeline
<1>1. Init => TypeOK /\ Ordered
  BY InitType, InitOrdered
<1>2. TypeOK /\ Ordered /\ [Next]_vars => (TypeOK /\ Ordered)'
  BY NextType, NextOrdered
<1>3. TypeOK /\ Ordered => Timeline
  BY DEF Ordered
<1> QED
  BY <1>1, <1>2, <1>3, PTL DEF Spec
=============================================================================
