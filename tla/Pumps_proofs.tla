----------------------------- MODULE Pumps_proofs -----------------------------
(***************************************************************************)
(* Theorems about Pumps, for any number of subscriptions and drains, any   *)
(* ring and channel and any number of buffers and errors.                  *)
(*                                                                         *)
(* Buffers: a buffer is in the ring, in a hand, in a channel, received or  *)
(* lost, and never in two of these; every step moves one or some from one  *)
(* place to another, except a full channel, which takes one away and       *)
(* counts it.  The moves are lemmas about sets; the steps are shown to be  *)
(* moves.                                                                  *)
(*                                                                         *)
(* Errors: last_recoverable is the last error that went out, so an error   *)
(* is compared with the right one.                                         *)
(***************************************************************************)
EXTENDS Pumps, FiniteSetTheorems, SequenceTheorems, TLAPS

-----------------------------------------------------------------------------
(* Where the buffers are: got, channel, hand, queue, lost; with the number *)
(* of buffers pushed and of buffers dropped.                               *)

Places(G, C, H, p) == G[p] \union C[p] \union H[p]
Somewhere(G, C, H, Q, L) == Q \union L \union UNION {Places(G, C, H, p) : p \in Pumps}

Sound(G, C, H, Q, L, u, d) ==
  /\ \A p \in Pumps :
       /\ G[p] \intersect C[p] = {} /\ G[p] \intersect H[p] = {} /\ C[p] \intersect H[p] = {}
       /\ Places(G, C, H, p) \intersect (Q \union L) = {}
  /\ \A p, q \in Pumps : p # q => Places(G, C, H, p) \intersect Places(G, C, H, q) = {}
  /\ Q \intersect L = {}
  /\ Somewhere(G, C, H, Q, L) \subseteq 1 .. u
  /\ u = d + Cardinality(Somewhere(G, C, H, Q, L))

Sets == [Pumps -> SUBSET Nat]

LEMMA SomewhereFinite ==
  ASSUME NEW S, NEW u \in Nat, S \subseteq 1 .. u
  PROVE  IsFiniteSet(S)
<1>1. IsFiniteSet(1 .. u)
  BY FS_Interval
<1> QED
  BY <1>1, FS_Subset

LEMMA Pushing ==
  ASSUME NEW G \in Sets, NEW C \in Sets, NEW H \in Sets, NEW Q, NEW L,
         NEW u \in Nat, NEW d \in Nat, Sound(G, C, H, Q, L, u, d)
  PROVE  Sound(G, C, H, Q \union {u + 1}, L, u + 1, d)
<1> DEFINE S == Somewhere(G, C, H, Q, L)
           T == Somewhere(G, C, H, Q \union {u + 1}, L)
<1>1. T = S \union {u + 1} /\ S \subseteq 1 .. u
  BY DEF Somewhere, Sound
<1>2. u + 1 \notin S /\ IsFiniteSet(S) /\ T \subseteq 1 .. (u + 1)
  BY <1>1, SomewhereFinite
<1>3. Cardinality(T) = Cardinality(S) + 1 /\ Cardinality(S) \in Nat
  <2> HIDE DEF S, T
  <2> QED
    BY <1>1, <1>2, FS_AddElement, FS_CardinalityType
<1>4. u + 1 = d + Cardinality(T)
  BY <1>3 DEF Sound
<1>5. \A p \in Pumps : Places(G, C, H, p) \subseteq S
  BY DEF Somewhere
<1>6. L \subseteq S
  BY DEF Somewhere
<1> HIDE DEF S
<1> QED
  BY <1>2, <1>4, <1>5, <1>6 DEF Sound

(* A move that changes no place but those of one pump, the queue and the   *)
(* lost ones, and keeps their union.                                       *)
LEMMA Moving ==
  ASSUME NEW G \in Sets, NEW C \in Sets, NEW H \in Sets, NEW Q, NEW L,
         NEW u \in Nat, NEW d \in Nat, Sound(G, C, H, Q, L, u, d),
         NEW p \in Pumps, NEW g \in SUBSET Nat, NEW c \in SUBSET Nat, NEW h \in SUBSET Nat, NEW Qn, NEW Ln,
         g \union c \union h \union Qn \union Ln = Places(G, C, H, p) \union Q \union L,
         g \intersect c = {}, g \intersect h = {}, c \intersect h = {},
         (g \union c \union h) \intersect (Qn \union Ln) = {}, Qn \intersect Ln = {}
  PROVE  Sound([G EXCEPT ![p] = g], [C EXCEPT ![p] = c], [H EXCEPT ![p] = h], Qn, Ln, u, d)
<1> DEFINE Gn == [G EXCEPT ![p] = g]
           Cn == [C EXCEPT ![p] = c]
           Hn == [H EXCEPT ![p] = h]
<1>1. Places(Gn, Cn, Hn, p) = g \union c \union h
  BY DEF Places, Sets
<1>2. \A q \in Pumps \ {p} : Gn[q] = G[q] /\ Cn[q] = C[q] /\ Hn[q] = H[q]
  BY DEF Sets
<1>3. \A q \in Pumps \ {p} : Places(Gn, Cn, Hn, q) = Places(G, C, H, q)
  BY <1>2 DEF Places
<1>4. Gn[p] = g /\ Cn[p] = c /\ Hn[p] = h
  BY DEF Sets
<1> HIDE DEF Gn, Cn, Hn
<1>5. Somewhere(Gn, Cn, Hn, Qn, Ln) = Somewhere(G, C, H, Q, L)
  BY <1>1, <1>3 DEF Somewhere
<1>6. ASSUME NEW q \in Pumps
      PROVE  /\ Gn[q] \intersect Cn[q] = {} /\ Gn[q] \intersect Hn[q] = {} /\ Cn[q] \intersect Hn[q] = {}
             /\ Places(Gn, Cn, Hn, q) \intersect (Qn \union Ln) = {}
  <2>1. CASE q = p
    BY <2>1, <1>1, <1>4
  <2>2. CASE q # p
    BY <2>2, <1>2, <1>3 DEF Sound
  <2> QED
    BY <2>1, <2>2
<1>7. ASSUME NEW q \in Pumps, NEW r \in Pumps, q # r
      PROVE  Places(Gn, Cn, Hn, q) \intersect Places(Gn, Cn, Hn, r) = {}
  BY <1>1, <1>3, <1>7 DEF Sound
<1> QED
  BY <1>5, <1>6, <1>7 DEF Sound, Gn, Cn, Hn

LEMMA Dropping ==
  ASSUME NEW G \in Sets, NEW C \in Sets, NEW H \in Sets, NEW Q, NEW L,
         NEW u \in Nat, NEW d \in Nat, Sound(G, C, H, Q, L, u, d),
         NEW p \in Pumps, NEW n, H[p] = {n}
  PROVE  Sound(G, C, [H EXCEPT ![p] = {}], Q, L, u, d + 1)
<1> DEFINE Hn == [H EXCEPT ![p] = {}]
           S == Somewhere(G, C, H, Q, L)
           T == Somewhere(G, C, Hn, Q, L)
<1>1. Hn[p] = {} /\ \A q \in Pumps \ {p} : Hn[q] = H[q]
  BY DEF Sets
<1>2. n \notin T /\ S = T \union {n}
  <2>1. n \in Places(G, C, H, p)
    BY DEF Places
  <2>2. n \notin Q \union L /\ n \notin G[p] \union C[p]
    BY <2>1 DEF Sound
  <2>3. \A q \in Pumps \ {p} : n \notin Places(G, C, H, q) /\ Places(G, C, Hn, q) = Places(G, C, H, q)
    BY <2>1, <1>1 DEF Sound, Places
  <2>4. Places(G, C, Hn, p) = G[p] \union C[p] /\ Places(G, C, H, p) = G[p] \union C[p] \union {n}
    BY <1>1 DEF Places
  <2> HIDE DEF Hn
  <2> QED
    BY <2>2, <2>3, <2>4 DEF Somewhere
<1>3. S \subseteq 1 .. u /\ u = d + Cardinality(S)
  BY DEF Sound
<1>4. T \subseteq 1 .. u /\ IsFiniteSet(T) /\ Cardinality(T) \in Nat
  <2> HIDE DEF S, T
  <2> QED
    BY <1>2, <1>3, SomewhereFinite, FS_CardinalityType
<1>5. Cardinality(S) = Cardinality(T) + 1
  <2> HIDE DEF S, T
  <2> QED
    BY <1>2, <1>4, FS_AddElement
<1>6. u = d + 1 + Cardinality(T)
  <2> HIDE DEF S, T
  <2> QED
    BY <1>3, <1>4, <1>5
<1>7. \A q \in Pumps : Places(G, C, Hn, q) \subseteq Places(G, C, H, q) /\ Hn[q] \subseteq H[q]
  <2> HIDE DEF Hn
  <2> QED
    BY <1>1 DEF Places
<1> HIDE DEF Hn
<1> QED
  BY <1>4, <1>6, <1>7 DEF Sound, Hn

-----------------------------------------------------------------------------
(* Sequences of items.                                                     *)

Own(x) == IF x.kind = "audio" THEN {x.id} ELSE {}
Distinct(s) ==
  \A i, j \in DOMAIN s :
    i # j /\ s[i].kind = "audio" /\ s[j].kind = "audio" => s[i].id # s[j].id

LEMMA IdsOfAppend ==
  ASSUME NEW S, NEW s \in Seq(S), NEW x \in S
  PROVE  /\ AudioIds(Append(s, x)) = AudioIds(s) \union Own(x)
         /\ Distinct(s) /\ AudioIds(s) \intersect Own(x) = {} => Distinct(Append(s, x))
<1> DEFINE t == Append(s, x)
<1>1. Len(s) \in Nat /\ DOMAIN s = 1 .. Len(s) /\ DOMAIN t = 1 .. Len(s) + 1
  OBVIOUS
<1>2. t[Len(s) + 1] = x /\ \A i \in 1 .. Len(s) : t[i] = s[i]
  OBVIOUS
<1> HIDE DEF t
<1>3. DOMAIN t = DOMAIN s \union {Len(s) + 1} /\ Len(s) + 1 \notin DOMAIN s
  BY <1>1
<1>4. AudioIds(t) = AudioIds(s) \union Own(x)
  BY <1>1, <1>2, <1>3 DEF AudioIds, Own
<1>5. Distinct(s) /\ AudioIds(s) \intersect Own(x) = {} => Distinct(t)
  <2> SUFFICES ASSUME Distinct(s), AudioIds(s) \intersect Own(x) = {},
                      NEW i \in DOMAIN t, NEW j \in DOMAIN t,
                      i # j, t[i].kind = "audio", t[j].kind = "audio"
               PROVE  t[i].id # t[j].id
    BY DEF Distinct
  <2> QED
    BY <1>1, <1>2, <1>3 DEF AudioIds, Own, Distinct
<1> QED
  BY <1>4, <1>5 DEF t

LEMMA IdsOfTail ==
  ASSUME NEW S, NEW s \in Seq(S), s # <<>>
  PROVE  /\ AudioIds(s) = Own(Head(s)) \union AudioIds(Tail(s))
         /\ Distinct(s) => Distinct(Tail(s)) /\ Own(Head(s)) \intersect AudioIds(Tail(s)) = {}
<1> DEFINE t == Tail(s)
<1>1. Len(s) \in Nat \ {0} /\ DOMAIN s = 1 .. Len(s) /\ DOMAIN t = 1 .. Len(s) - 1 /\ Head(s) = s[1]
  OBVIOUS
<1>2. \A i \in 1 .. Len(s) - 1 : t[i] = s[i + 1]
  OBVIOUS
<1> HIDE DEF t
<1>3. AudioIds(s) \subseteq Own(s[1]) \union AudioIds(t)
  <2> SUFFICES ASSUME NEW i \in DOMAIN s, s[i].kind = "audio", i # 1 PROVE s[i].id \in AudioIds(t)
    BY <1>1 DEF AudioIds, Own
  <2>1. i - 1 \in DOMAIN t /\ t[i - 1] = s[i]
    BY <1>1, <1>2
  <2> QED
    BY <2>1 DEF AudioIds
<1>4. Own(s[1]) \union AudioIds(t) \subseteq AudioIds(s)
  <2>1. \A i \in DOMAIN t : i + 1 \in DOMAIN s /\ t[i] = s[i + 1]
    BY <1>1, <1>2
  <2> QED
    BY <1>1, <2>1 DEF AudioIds, Own
<1>5. ASSUME Distinct(s) PROVE Distinct(t) /\ Own(s[1]) \intersect AudioIds(t) = {}
  <2>1. \A i \in DOMAIN t : i + 1 \in DOMAIN s /\ t[i] = s[i + 1] /\ i + 1 # 1
    BY <1>1, <1>2
  <2>2. \A i, j \in DOMAIN t : i # j => i + 1 # j + 1
    BY <1>1
  <2>3. 1 \in DOMAIN s
    BY <1>1
  <2>4. Distinct(t)
    BY <1>5, <2>1, <2>2 DEF Distinct
  <2>5. Own(s[1]) \intersect AudioIds(t) = {}
    BY <1>5, <2>1, <2>3 DEF Distinct, Own, AudioIds
  <2> QED
    BY <2>4, <2>5
<1> QED
  BY <1>1, <1>3, <1>4, <1>5 DEF t

LEMMA IdsOfConcat ==
  ASSUME NEW S, NEW s \in Seq(S), NEW t \in Seq(S)
  PROVE  AudioIds(s \o t) = AudioIds(s) \union AudioIds(t)
<1> DEFINE z == s \o t
<1>1. /\ Len(s) \in Nat /\ Len(t) \in Nat /\ DOMAIN s = 1 .. Len(s) /\ DOMAIN t = 1 .. Len(t)
      /\ DOMAIN z = 1 .. Len(s) + Len(t)
  OBVIOUS
<1>2. /\ \A i \in 1 .. Len(s) : z[i] = s[i]
      /\ \A i \in 1 .. Len(t) : z[Len(s) + i] = t[i]
  OBVIOUS
<1> HIDE DEF z
<1>3. \A i \in DOMAIN t : Len(s) + i \in DOMAIN z
  BY <1>1
<1>4. \A i \in DOMAIN z : i \in DOMAIN s \/ (i - Len(s) \in DOMAIN t /\ z[i] = t[i - Len(s)])
  <2> TAKE i \in DOMAIN z
  <2>1. CASE i <= Len(s)
    BY <2>1, <1>1
  <2>2. CASE i > Len(s)
    <3>1. i - Len(s) \in 1 .. Len(t) /\ Len(s) + (i - Len(s)) = i
      BY <2>2, <1>1
    <3> QED
      BY <3>1, <1>1, <1>2
  <2> QED
    BY <2>1, <2>2, <1>1
<1>5. AudioIds(s) \union AudioIds(t) \subseteq AudioIds(z)
  BY <1>1, <1>2, <1>3 DEF AudioIds
<1>6. AudioIds(z) \subseteq AudioIds(s) \union AudioIds(t)
  <2> SUFFICES ASSUME NEW i \in DOMAIN z, z[i].kind = "audio" PROVE z[i].id \in AudioIds(s) \union AudioIds(t)
    BY DEF AudioIds
  <2>1. CASE i \in DOMAIN s
    BY <2>1, <1>1, <1>2 DEF AudioIds
  <2>2. CASE i - Len(s) \in DOMAIN t /\ z[i] = t[i - Len(s)]
    BY <2>2 DEF AudioIds
  <2> QED
    BY <2>1, <2>2, <1>4
<1> QED
  BY <1>5, <1>6 DEF z

LEMMA IdsOfNone == AudioIds(<<>>) = {} /\ \A x : AudioIds(<<x>>) = Own(x)
<1>1. \A x : DOMAIN <<x>> = {1} /\ <<x>>[1] = x
  OBVIOUS
<1>2. ASSUME NEW x PROVE AudioIds(<<x>>) = Own(x)
  BY <1>1 DEF AudioIds, Own
<1>3. AudioIds(<<>>) = {}
  BY DEF AudioIds
<1> QED
  BY <1>2, <1>3

-----------------------------------------------------------------------------
(* The pumps.                                                              *)

(* What a pump holds fits the place where it is.                           *)
HandOK ==
  \A p \in Pumps :
    /\ pc[p] = "deliver" => hand[p].kind = "audio"
    /\ pc[p] = "advise" => p \in Reporting /\ hand[p].kind = "advice"
    /\ pc[p] = "fatal" => p \in Reporting /\ hand[p] = Fatal
    /\ pc[p] \notin {"deliver", "advise", "fatal"} => hand[p] = Nothing

QueueOK ==
  /\ \A i \in DOMAIN ring : ring[i] \in 1 .. pushed
  /\ \A i, j \in DOMAIN ring : i # j => ring[i] # ring[j]

G == [p \in Pumps |-> AudioIds(got[p])]
C == [p \in Pumps |-> IF p \in Subscribers THEN AudioIds(channel[p]) ELSE {}]
H == [p \in Pumps |-> Own(hand[p])]
Q == {ring[i] : i \in DOMAIN ring}
BuffersOK ==
  /\ Sound(G, C, H, Q, lost, pushed, dropped)
  /\ \A p \in Subscribers : Distinct(channel[p])

(* The kinds of items.                                                     *)
LEMMA ItemKinds ==
  /\ Nothing \in Items /\ Fatal \in Items /\ Nothing.kind = "none" /\ Fatal.kind = "fatal"
  /\ \A n \in 1 .. MaxPush : Audio(n) \in Items /\ Audio(n).kind = "audio" /\ Audio(n).id = n
  /\ \A v \in Variants : clock \in 0 .. MaxTicks =>
       /\ Advice(v) \in Items
       /\ Advice(v).kind = "advice" /\ Advice(v).id = v /\ Advice(v).at = clock
  /\ \A x \in Items :
       /\ x.kind \in {"none", "fatal", "audio", "advice"}
       /\ x.kind = "none" => x = Nothing
       /\ x.kind = "fatal" => x = Fatal
       /\ x.kind = "audio" => x.id \in 1 .. MaxPush
       /\ x.kind = "advice" => x.id \in Variants /\ x.at \in 0 .. MaxTicks
<1>1. \A x \in Items :
       /\ x.kind \in {"none", "fatal", "audio", "advice"}
       /\ x.kind = "none" => x = Nothing
       /\ x.kind = "fatal" => x = Fatal
       /\ x.kind = "audio" => x.id \in 1 .. MaxPush
       /\ x.kind = "advice" => x.id \in Variants /\ x.at \in 0 .. MaxTicks
  BY DEF Items, Nothing, Fatal
<1>2. \A v \in Variants : clock \in 0 .. MaxTicks => Advice(v) \in Items
  BY DEF Items, Advice
<1> QED
  BY <1>1, <1>2 DEF Items, Nothing, Fatal, Audio, Advice

StreamType ==
  /\ terminal \in BOOLEAN /\ ring \in Seq(1 .. MaxPush) /\ Len(ring) <= Capacity
  /\ pushed \in 0 .. MaxPush /\ errors \in 0 .. MaxErrors /\ clock \in 0 .. MaxTicks
PumpType ==
  /\ pc \in [Pumps -> {"top", "read", "deliver", "advise", "fatal", "flush", "close", "exited"}]
  /\ hand \in [Pumps -> Items]
LastType == last \in [Reporting -> [variant : Variants \union {"none"}, at : 0 .. MaxTicks]]
ChannelType ==
  /\ channel \in [Subscribers -> Seq(Items)] /\ receiver \in [Subscribers -> BOOLEAN]
  /\ \A p \in Subscribers : Len(channel[p]) <= Room
  /\ dropped \in Nat /\ got \in [Pumps -> Seq(Items)] /\ lost \subseteq 1 .. MaxPush
DrainType ==
  /\ stopFlag \in [Drains -> BOOLEAN] /\ handle \in [Drains -> {"held", "joining", "joined", "detached"}]
  /\ sink \in [Drains -> {"open", "flushed", "closed", "unflushed"}]

LEMMA TypeParts == TypeOK <=> StreamType /\ PumpType /\ LastType /\ ChannelType /\ DrainType
  BY DEF TypeOK, StreamType, PumpType, LastType, ChannelType, DrainType

LEMMA Kinds ==
  /\ Reporting \subseteq Subscribers /\ Subscribers \subseteq Pumps /\ Drains \subseteq Pumps
  /\ Subscribers \intersect Drains = {}
  /\ Capacity \in Nat \ {0} /\ Room \in Nat \ {0}
  /\ MaxPush \in Nat /\ MaxErrors \in Nat /\ MaxTicks \in Nat /\ "none" \notin Variants
  BY PumpsAssumption DEF PumpsAssumption, Pumps, Subscribers

LEMMA AudioIdsType ==
  ASSUME NEW s \in Seq(Items) PROVE AudioIds(s) \subseteq 1 .. MaxPush
  BY ItemKinds DEF AudioIds

(* What a pump holds.                                                      *)
LEMMA HandStep == TypeOK /\ HandOK /\ [Next]_vars => HandOK'
<1> SUFFICES ASSUME TypeOK /\ HandOK, [Next]_vars PROVE HandOK'
  OBVIOUS
<1> USE PumpsAssumption DEF TypeOK, HandOK, Audio, Advice, Fatal, Nothing, Pumps, Subscribers, Goto, Again, Start, Ended, Gone, Full, Sent, streamVars, channelVars, drainVars
<1>1. CASE StreamEnds
  BY <1>1 DEF StreamEnds
<1>2. CASE Push
  BY <1>2 DEF Push
<1>3. CASE Tick
  BY <1>3 DEF Tick
<1>4. ASSUME NEW p \in Pumps, ReadEnded(p) PROVE HandOK'
  BY <1>4 DEF ReadEnded
<1>5. ASSUME NEW p \in Pumps, ReadData(p) PROVE HandOK'
  BY <1>5 DEF ReadData
<1>6. ASSUME NEW p \in Pumps, ReadNothing(p) PROVE HandOK'
  BY <1>6 DEF ReadNothing
<1>7. ASSUME NEW p \in Pumps, DeliverSent(p) PROVE HandOK'
  BY <1>7 DEF DeliverSent
<1>8. ASSUME NEW p \in Pumps, DeliverFull(p) PROVE HandOK'
  BY <1>8 DEF DeliverFull
<1>9. ASSUME NEW p \in Pumps, DeliverGone(p) PROVE HandOK'
  BY <1>9 DEF DeliverGone
<1>10. ASSUME NEW p \in Reporting, NEW v \in Variants, ReadError(p, v) PROVE HandOK'
  BY <1>10 DEF ReadError
<1>11. ASSUME NEW p \in Reporting, AdviseSent(p) PROVE HandOK'
  BY <1>11 DEF AdviseSent
<1>12. ASSUME NEW p \in Reporting, AdviseFull(p) PROVE HandOK'
  BY <1>12 DEF AdviseFull
<1>13. ASSUME NEW p \in Reporting, AdviseGone(p) PROVE HandOK'
  BY <1>13 DEF AdviseGone
<1>14. ASSUME NEW p \in Reporting, AdviseHeldBack(p) PROVE HandOK'
  BY <1>14 DEF AdviseHeldBack
<1>15. ASSUME NEW p \in Reporting, ReportEnd(p) PROVE HandOK'
  BY <1>15 DEF ReportEnd
<1>16. ASSUME NEW p \in Subscribers, Receive(p) PROVE HandOK'
  BY <1>16 DEF Receive
<1>17. ASSUME NEW p \in Subscribers, DropReceiver(p) PROVE HandOK'
  BY <1>17 DEF DropReceiver
<1>18. ASSUME NEW p \in Drains, DrainTop(p) PROVE HandOK'
  BY <1>18 DEF DrainTop
<1>19. ASSUME NEW p \in Drains, DrainWrite(p) PROVE HandOK'
  <2>1. CASE Again(p)
    BY <1>19, <2>1 DEF DrainWrite
  <2>2. CASE Goto(p, "flush") /\ hand' = [hand EXCEPT ![p] = Nothing]
    BY <1>19, <2>2 DEF DrainWrite
  <2> QED
    BY <1>19, <2>1, <2>2 DEF DrainWrite
<1>20. ASSUME NEW p \in Drains, DrainFlush(p) PROVE HandOK'
  BY <1>20 DEF DrainFlush
<1>21. ASSUME NEW p \in Drains, DrainClose(p) PROVE HandOK'
  BY <1>21 DEF DrainClose
<1>22. ASSUME NEW p \in Drains, Shutdown(p) PROVE HandOK'
  BY <1>22 DEF Shutdown
<1>25. ASSUME NEW p \in Drains, ShutdownSelf(p) PROVE HandOK'
  BY <1>25 DEF ShutdownSelf
<1>23. ASSUME NEW p \in Drains, Join(p) PROVE HandOK'
  BY <1>23 DEF Join
<1>24. CASE UNCHANGED vars
  BY <1>24 DEF vars
<1> QED
  BY <1>1, <1>2, <1>3, <1>4, <1>5, <1>6, <1>7, <1>8, <1>9, <1>10, <1>11, <1>12, <1>13, <1>14, <1>15, <1>16, <1>17, <1>18, <1>19, <1>20, <1>21, <1>22, <1>23, <1>24, <1>25 DEF Next, PumpSteps, ReportSteps, DrainSteps

(* The types, variable by variable.                                        *)
LEMMA StreamTypeStep == StreamType /\ [Next]_vars => StreamType'
<1> SUFFICES ASSUME StreamType, [Next]_vars PROVE StreamType'
  OBVIOUS
<1> USE Kinds DEF StreamType, streamVars, channelVars, drainVars
<1>1. CASE StreamEnds
  BY <1>1 DEF StreamEnds
<1>2. CASE Push
  BY <1>2 DEF Push
<1>3. CASE Tick
  BY <1>3 DEF Tick
<1>4. ASSUME NEW p \in Pumps, ReadEnded(p) PROVE StreamType'
  BY <1>4 DEF ReadEnded
<1>5. ASSUME NEW p \in Pumps, ReadData(p) PROVE StreamType'
  BY <1>5 DEF ReadData
<1>6. ASSUME NEW p \in Pumps, ReadNothing(p) PROVE StreamType'
  BY <1>6 DEF ReadNothing
<1>7. ASSUME NEW p \in Pumps, DeliverSent(p) PROVE StreamType'
  BY <1>7 DEF DeliverSent
<1>8. ASSUME NEW p \in Pumps, DeliverFull(p) PROVE StreamType'
  BY <1>8 DEF DeliverFull
<1>9. ASSUME NEW p \in Pumps, DeliverGone(p) PROVE StreamType'
  BY <1>9 DEF DeliverGone
<1>10. ASSUME NEW p \in Reporting, NEW v \in Variants, ReadError(p, v) PROVE StreamType'
  BY <1>10 DEF ReadError
<1>11. ASSUME NEW p \in Reporting, AdviseSent(p) PROVE StreamType'
  BY <1>11 DEF AdviseSent
<1>12. ASSUME NEW p \in Reporting, AdviseFull(p) PROVE StreamType'
  BY <1>12 DEF AdviseFull
<1>13. ASSUME NEW p \in Reporting, AdviseGone(p) PROVE StreamType'
  BY <1>13 DEF AdviseGone
<1>14. ASSUME NEW p \in Reporting, AdviseHeldBack(p) PROVE StreamType'
  BY <1>14 DEF AdviseHeldBack
<1>15. ASSUME NEW p \in Reporting, ReportEnd(p) PROVE StreamType'
  BY <1>15 DEF ReportEnd
<1>16. ASSUME NEW p \in Subscribers, Receive(p) PROVE StreamType'
  BY <1>16 DEF Receive
<1>17. ASSUME NEW p \in Subscribers, DropReceiver(p) PROVE StreamType'
  BY <1>17 DEF DropReceiver
<1>18. ASSUME NEW p \in Drains, DrainTop(p) PROVE StreamType'
  BY <1>18 DEF DrainTop
<1>19. ASSUME NEW p \in Drains, DrainWrite(p) PROVE StreamType'
  BY <1>19 DEF DrainWrite
<1>20. ASSUME NEW p \in Drains, DrainFlush(p) PROVE StreamType'
  BY <1>20 DEF DrainFlush
<1>21. ASSUME NEW p \in Drains, DrainClose(p) PROVE StreamType'
  BY <1>21 DEF DrainClose
<1>22. ASSUME NEW p \in Drains, Shutdown(p) PROVE StreamType'
  BY <1>22 DEF Shutdown
<1>25. ASSUME NEW p \in Drains, ShutdownSelf(p) PROVE StreamType'
  BY <1>25 DEF ShutdownSelf
<1>23. ASSUME NEW p \in Drains, Join(p) PROVE StreamType'
  BY <1>23 DEF Join
<1>24. CASE UNCHANGED vars
  BY <1>24 DEF vars
<1> QED
  BY <1>1, <1>2, <1>3, <1>4, <1>5, <1>6, <1>7, <1>8, <1>9, <1>10, <1>11, <1>12, <1>13, <1>14, <1>15, <1>16, <1>17, <1>18, <1>19, <1>20, <1>21, <1>22, <1>23, <1>24, <1>25 DEF Next, PumpSteps, ReportSteps, DrainSteps

LEMMA PumpTypeStep == StreamType /\ PumpType /\ [Next]_vars => PumpType'
<1> SUFFICES ASSUME StreamType /\ PumpType, [Next]_vars PROVE PumpType'
  OBVIOUS
<1> USE Kinds, ItemKinds DEF StreamType, PumpType, Goto, Again, Start, Ended, Gone, Full, Sent, streamVars, channelVars, drainVars
<1>1. CASE StreamEnds
  BY <1>1 DEF StreamEnds
<1>2. CASE Push
  BY <1>2 DEF Push
<1>3. CASE Tick
  BY <1>3 DEF Tick
<1>4. ASSUME NEW p \in Pumps, ReadEnded(p) PROVE PumpType'
  BY <1>4 DEF ReadEnded
<1>5. ASSUME NEW p \in Pumps, ReadData(p) PROVE PumpType'
  BY <1>5 DEF ReadData
<1>6. ASSUME NEW p \in Pumps, ReadNothing(p) PROVE PumpType'
  BY <1>6 DEF ReadNothing
<1>7. ASSUME NEW p \in Pumps, DeliverSent(p) PROVE PumpType'
  BY <1>7 DEF DeliverSent
<1>8. ASSUME NEW p \in Pumps, DeliverFull(p) PROVE PumpType'
  BY <1>8 DEF DeliverFull
<1>9. ASSUME NEW p \in Pumps, DeliverGone(p) PROVE PumpType'
  BY <1>9 DEF DeliverGone
<1>10. ASSUME NEW p \in Reporting, NEW v \in Variants, ReadError(p, v) PROVE PumpType'
  BY <1>10 DEF ReadError
<1>11. ASSUME NEW p \in Reporting, AdviseSent(p) PROVE PumpType'
  BY <1>11 DEF AdviseSent
<1>12. ASSUME NEW p \in Reporting, AdviseFull(p) PROVE PumpType'
  BY <1>12 DEF AdviseFull
<1>13. ASSUME NEW p \in Reporting, AdviseGone(p) PROVE PumpType'
  BY <1>13 DEF AdviseGone
<1>14. ASSUME NEW p \in Reporting, AdviseHeldBack(p) PROVE PumpType'
  BY <1>14 DEF AdviseHeldBack
<1>15. ASSUME NEW p \in Reporting, ReportEnd(p) PROVE PumpType'
  BY <1>15 DEF ReportEnd
<1>16. ASSUME NEW p \in Subscribers, Receive(p) PROVE PumpType'
  BY <1>16 DEF Receive
<1>17. ASSUME NEW p \in Subscribers, DropReceiver(p) PROVE PumpType'
  BY <1>17 DEF DropReceiver
<1>18. ASSUME NEW p \in Drains, DrainTop(p) PROVE PumpType'
  BY <1>18 DEF DrainTop
<1>19. ASSUME NEW p \in Drains, DrainWrite(p) PROVE PumpType'
  <2>1. CASE Again(p)
    BY <1>19, <2>1 DEF DrainWrite
  <2>2. CASE Goto(p, "flush") /\ hand' = [hand EXCEPT ![p] = Nothing]
    BY <1>19, <2>2 DEF DrainWrite
  <2> QED
    BY <1>19, <2>1, <2>2 DEF DrainWrite
<1>20. ASSUME NEW p \in Drains, DrainFlush(p) PROVE PumpType'
  BY <1>20 DEF DrainFlush
<1>21. ASSUME NEW p \in Drains, DrainClose(p) PROVE PumpType'
  BY <1>21 DEF DrainClose
<1>22. ASSUME NEW p \in Drains, Shutdown(p) PROVE PumpType'
  BY <1>22 DEF Shutdown
<1>25. ASSUME NEW p \in Drains, ShutdownSelf(p) PROVE PumpType'
  BY <1>25 DEF ShutdownSelf
<1>23. ASSUME NEW p \in Drains, Join(p) PROVE PumpType'
  BY <1>23 DEF Join
<1>24. CASE UNCHANGED vars
  BY <1>24 DEF vars
<1> QED
  BY <1>1, <1>2, <1>3, <1>4, <1>5, <1>6, <1>7, <1>8, <1>9, <1>10, <1>11, <1>12, <1>13, <1>14, <1>15, <1>16, <1>17, <1>18, <1>19, <1>20, <1>21, <1>22, <1>23, <1>24, <1>25 DEF Next, PumpSteps, ReportSteps, DrainSteps

LEMMA LastTypeStep == LastType /\ PumpType /\ HandOK /\ [Next]_vars => LastType'
<1> SUFFICES ASSUME LastType /\ PumpType /\ HandOK, [Next]_vars PROVE LastType'
  OBVIOUS
<1> USE Kinds, ItemKinds DEF LastType, PumpType, HandOK, streamVars, channelVars, drainVars
<1>1. CASE StreamEnds
  BY <1>1 DEF StreamEnds
<1>2. CASE Push
  BY <1>2 DEF Push
<1>3. CASE Tick
  BY <1>3 DEF Tick
<1>4. ASSUME NEW p \in Pumps, ReadEnded(p) PROVE LastType'
  BY <1>4 DEF ReadEnded
<1>5. ASSUME NEW p \in Pumps, ReadData(p) PROVE LastType'
  BY <1>5 DEF ReadData
<1>6. ASSUME NEW p \in Pumps, ReadNothing(p) PROVE LastType'
  BY <1>6 DEF ReadNothing
<1>7. ASSUME NEW p \in Pumps, DeliverSent(p) PROVE LastType'
  BY <1>7 DEF DeliverSent
<1>8. ASSUME NEW p \in Pumps, DeliverFull(p) PROVE LastType'
  BY <1>8 DEF DeliverFull
<1>9. ASSUME NEW p \in Pumps, DeliverGone(p) PROVE LastType'
  BY <1>9 DEF DeliverGone
<1>10. ASSUME NEW p \in Reporting, NEW v \in Variants, ReadError(p, v) PROVE LastType'
  BY <1>10 DEF ReadError
<1>11. ASSUME NEW p \in Reporting, AdviseSent(p) PROVE LastType'
  BY <1>11 DEF AdviseSent
<1>12. ASSUME NEW p \in Reporting, AdviseFull(p) PROVE LastType'
  BY <1>12 DEF AdviseFull
<1>13. ASSUME NEW p \in Reporting, AdviseGone(p) PROVE LastType'
  BY <1>13 DEF AdviseGone
<1>14. ASSUME NEW p \in Reporting, AdviseHeldBack(p) PROVE LastType'
  BY <1>14 DEF AdviseHeldBack
<1>15. ASSUME NEW p \in Reporting, ReportEnd(p) PROVE LastType'
  BY <1>15 DEF ReportEnd
<1>16. ASSUME NEW p \in Subscribers, Receive(p) PROVE LastType'
  BY <1>16 DEF Receive
<1>17. ASSUME NEW p \in Subscribers, DropReceiver(p) PROVE LastType'
  BY <1>17 DEF DropReceiver
<1>18. ASSUME NEW p \in Drains, DrainTop(p) PROVE LastType'
  BY <1>18 DEF DrainTop
<1>19. ASSUME NEW p \in Drains, DrainWrite(p) PROVE LastType'
  BY <1>19 DEF DrainWrite
<1>20. ASSUME NEW p \in Drains, DrainFlush(p) PROVE LastType'
  BY <1>20 DEF DrainFlush
<1>21. ASSUME NEW p \in Drains, DrainClose(p) PROVE LastType'
  BY <1>21 DEF DrainClose
<1>22. ASSUME NEW p \in Drains, Shutdown(p) PROVE LastType'
  BY <1>22 DEF Shutdown
<1>25. ASSUME NEW p \in Drains, ShutdownSelf(p) PROVE LastType'
  BY <1>25 DEF ShutdownSelf
<1>23. ASSUME NEW p \in Drains, Join(p) PROVE LastType'
  BY <1>23 DEF Join
<1>24. CASE UNCHANGED vars
  BY <1>24 DEF vars
<1> QED
  BY <1>1, <1>2, <1>3, <1>4, <1>5, <1>6, <1>7, <1>8, <1>9, <1>10, <1>11, <1>12, <1>13, <1>14, <1>15, <1>16, <1>17, <1>18, <1>19, <1>20, <1>21, <1>22, <1>23, <1>24, <1>25 DEF Next, PumpSteps, ReportSteps, DrainSteps

LEMMA ChannelTypeStep == ChannelType /\ PumpType /\ HandOK /\ [Next]_vars => ChannelType'
<1> SUFFICES ASSUME ChannelType /\ PumpType /\ HandOK, [Next]_vars PROVE ChannelType'
  OBVIOUS
<1> USE Kinds, ItemKinds DEF ChannelType, PumpType, HandOK, Sent, streamVars, channelVars, drainVars
<1>1. CASE StreamEnds
  BY <1>1 DEF StreamEnds
<1>2. CASE Push
  BY <1>2 DEF Push
<1>3. CASE Tick
  BY <1>3 DEF Tick
<1>4. ASSUME NEW p \in Pumps, ReadEnded(p) PROVE ChannelType'
  BY <1>4 DEF ReadEnded
<1>5. ASSUME NEW p \in Pumps, ReadData(p) PROVE ChannelType'
  BY <1>5 DEF ReadData
<1>6. ASSUME NEW p \in Pumps, ReadNothing(p) PROVE ChannelType'
  BY <1>6 DEF ReadNothing
<1>7. ASSUME NEW p \in Pumps, DeliverSent(p) PROVE ChannelType'
  BY <1>7 DEF DeliverSent
<1>8. ASSUME NEW p \in Pumps, DeliverFull(p) PROVE ChannelType'
  BY <1>8 DEF DeliverFull
<1>9. ASSUME NEW p \in Pumps, DeliverGone(p) PROVE ChannelType'
  <2>1. hand[p].id \in 1 .. MaxPush
    BY <1>9 DEF DeliverGone
  <2>2. lost' \subseteq 1 .. MaxPush
    <3>1. lost' = lost \union {hand[p].id}
      BY <1>9 DEF DeliverGone
    <3>2. lost \subseteq 1 .. MaxPush
      OBVIOUS
    <3> QED
      BY ONLY <2>1, <3>1, <3>2
  <2> QED
    BY <1>9, <2>2 DEF DeliverGone
<1>10. ASSUME NEW p \in Reporting, NEW v \in Variants, ReadError(p, v) PROVE ChannelType'
  BY <1>10 DEF ReadError
<1>11. ASSUME NEW p \in Reporting, AdviseSent(p) PROVE ChannelType'
  BY <1>11 DEF AdviseSent
<1>12. ASSUME NEW p \in Reporting, AdviseFull(p) PROVE ChannelType'
  BY <1>12 DEF AdviseFull
<1>13. ASSUME NEW p \in Reporting, AdviseGone(p) PROVE ChannelType'
  BY <1>13 DEF AdviseGone
<1>14. ASSUME NEW p \in Reporting, AdviseHeldBack(p) PROVE ChannelType'
  BY <1>14 DEF AdviseHeldBack
<1>15. ASSUME NEW p \in Reporting, ReportEnd(p) PROVE ChannelType'
  <2>1. CASE UNCHANGED channel
    BY <1>15, <2>1 DEF ReportEnd
  <2>2. CASE Len(channel[p]) < Room /\ channel' = [channel EXCEPT ![p] = Append(@, hand[p])]
    BY <1>15, <2>2 DEF ReportEnd
  <2> QED
    BY <1>15, <2>1, <2>2 DEF ReportEnd
<1>16. ASSUME NEW p \in Subscribers, Receive(p) PROVE ChannelType'
  BY <1>16 DEF Receive
<1>17. ASSUME NEW p \in Subscribers, DropReceiver(p) PROVE ChannelType'
  <2>1. AudioIds(channel[p]) \subseteq 1 .. MaxPush
    BY AudioIdsType
  <2>2. lost' \subseteq 1 .. MaxPush
    BY <1>17, <2>1 DEF DropReceiver
  <2>3. Len(<<>>) <= Room /\ <<>> \in Seq(Items)
    OBVIOUS
  <2>4. channel' \in [Subscribers -> Seq(Items)] /\ \A q \in Subscribers : Len(channel'[q]) <= Room
    BY <1>17, <2>3 DEF DropReceiver
  <2>5. receiver' \in [Subscribers -> BOOLEAN]
    BY <1>17 DEF DropReceiver
  <2> QED
    BY <1>17, <2>2, <2>4, <2>5 DEF DropReceiver
<1>18. ASSUME NEW p \in Drains, DrainTop(p) PROVE ChannelType'
  BY <1>18 DEF DrainTop
<1>19. ASSUME NEW p \in Drains, DrainWrite(p) PROVE ChannelType'
  <2>1. hand[p].id \in 1 .. MaxPush /\ hand[p] \in Items
    BY <1>19 DEF DrainWrite
  <2>2. lost' \subseteq 1 .. MaxPush
    <3>1. lost' = lost \/ lost' = lost \union {hand[p].id}
      BY <1>19 DEF DrainWrite
    <3>2. lost \subseteq 1 .. MaxPush
      OBVIOUS
    <3> QED
      BY ONLY <2>1, <3>1, <3>2
  <2>3. got' \in [Pumps -> Seq(Items)]
    <3>1. got' = got \/ got' = [got EXCEPT ![p] = Append(@, hand[p])]
      BY <1>19 DEF DrainWrite
    <3>2. p \in Pumps /\ got \in [Pumps -> Seq(Items)]
      OBVIOUS
    <3> QED
      BY ONLY <2>1, <3>1, <3>2
  <2> QED
    BY <1>19, <2>2, <2>3 DEF DrainWrite
<1>20. ASSUME NEW p \in Drains, DrainFlush(p) PROVE ChannelType'
  BY <1>20 DEF DrainFlush
<1>21. ASSUME NEW p \in Drains, DrainClose(p) PROVE ChannelType'
  BY <1>21 DEF DrainClose
<1>22. ASSUME NEW p \in Drains, Shutdown(p) PROVE ChannelType'
  BY <1>22 DEF Shutdown
<1>25. ASSUME NEW p \in Drains, ShutdownSelf(p) PROVE ChannelType'
  BY <1>25 DEF ShutdownSelf
<1>23. ASSUME NEW p \in Drains, Join(p) PROVE ChannelType'
  BY <1>23 DEF Join
<1>24. CASE UNCHANGED vars
  BY <1>24 DEF vars
<1> QED
  BY <1>1, <1>2, <1>3, <1>4, <1>5, <1>6, <1>7, <1>8, <1>9, <1>10, <1>11, <1>12, <1>13, <1>14, <1>15, <1>16, <1>17, <1>18, <1>19, <1>20, <1>21, <1>22, <1>23, <1>24, <1>25 DEF Next, PumpSteps, ReportSteps, DrainSteps

LEMMA DrainTypeStep == DrainType /\ [Next]_vars => DrainType'
<1> SUFFICES ASSUME DrainType, [Next]_vars PROVE DrainType'
  OBVIOUS
<1> USE Kinds DEF DrainType, streamVars, channelVars, drainVars
<1>1. CASE StreamEnds
  BY <1>1 DEF StreamEnds
<1>2. CASE Push
  BY <1>2 DEF Push
<1>3. CASE Tick
  BY <1>3 DEF Tick
<1>4. ASSUME NEW p \in Pumps, ReadEnded(p) PROVE DrainType'
  BY <1>4 DEF ReadEnded
<1>5. ASSUME NEW p \in Pumps, ReadData(p) PROVE DrainType'
  BY <1>5 DEF ReadData
<1>6. ASSUME NEW p \in Pumps, ReadNothing(p) PROVE DrainType'
  BY <1>6 DEF ReadNothing
<1>7. ASSUME NEW p \in Pumps, DeliverSent(p) PROVE DrainType'
  BY <1>7 DEF DeliverSent
<1>8. ASSUME NEW p \in Pumps, DeliverFull(p) PROVE DrainType'
  BY <1>8 DEF DeliverFull
<1>9. ASSUME NEW p \in Pumps, DeliverGone(p) PROVE DrainType'
  BY <1>9 DEF DeliverGone
<1>10. ASSUME NEW p \in Reporting, NEW v \in Variants, ReadError(p, v) PROVE DrainType'
  BY <1>10 DEF ReadError
<1>11. ASSUME NEW p \in Reporting, AdviseSent(p) PROVE DrainType'
  BY <1>11 DEF AdviseSent
<1>12. ASSUME NEW p \in Reporting, AdviseFull(p) PROVE DrainType'
  BY <1>12 DEF AdviseFull
<1>13. ASSUME NEW p \in Reporting, AdviseGone(p) PROVE DrainType'
  BY <1>13 DEF AdviseGone
<1>14. ASSUME NEW p \in Reporting, AdviseHeldBack(p) PROVE DrainType'
  BY <1>14 DEF AdviseHeldBack
<1>15. ASSUME NEW p \in Reporting, ReportEnd(p) PROVE DrainType'
  BY <1>15 DEF ReportEnd
<1>16. ASSUME NEW p \in Subscribers, Receive(p) PROVE DrainType'
  BY <1>16 DEF Receive
<1>17. ASSUME NEW p \in Subscribers, DropReceiver(p) PROVE DrainType'
  BY <1>17 DEF DropReceiver
<1>18. ASSUME NEW p \in Drains, DrainTop(p) PROVE DrainType'
  BY <1>18 DEF DrainTop
<1>19. ASSUME NEW p \in Drains, DrainWrite(p) PROVE DrainType'
  BY <1>19 DEF DrainWrite
<1>20. ASSUME NEW p \in Drains, DrainFlush(p) PROVE DrainType'
  BY <1>20 DEF DrainFlush
<1>21. ASSUME NEW p \in Drains, DrainClose(p) PROVE DrainType'
  BY <1>21 DEF DrainClose
<1>22. ASSUME NEW p \in Drains, Shutdown(p) PROVE DrainType'
  BY <1>22 DEF Shutdown
<1>25. ASSUME NEW p \in Drains, ShutdownSelf(p) PROVE DrainType'
  BY <1>25 DEF ShutdownSelf
<1>23. ASSUME NEW p \in Drains, Join(p) PROVE DrainType'
  BY <1>23 DEF Join
<1>24. CASE UNCHANGED vars
  BY <1>24 DEF vars
<1> QED
  BY <1>1, <1>2, <1>3, <1>4, <1>5, <1>6, <1>7, <1>8, <1>9, <1>10, <1>11, <1>12, <1>13, <1>14, <1>15, <1>16, <1>17, <1>18, <1>19, <1>20, <1>21, <1>22, <1>23, <1>24, <1>25 DEF Next, PumpSteps, ReportSteps, DrainSteps

(* How the sets follow the variables.                                      *)
LEMMA SetsOK ==
  ASSUME TypeOK PROVE G \in Sets /\ C \in Sets /\ H \in Sets /\ pushed \in Nat /\ dropped \in Nat
<1> USE TypeParts, Kinds, ItemKinds
<1>1. \A p \in Pumps : AudioIds(got[p]) \subseteq Nat
  BY AudioIdsType DEF ChannelType
<1>2. \A p \in Subscribers : AudioIds(channel[p]) \subseteq Nat
  BY AudioIdsType DEF ChannelType
<1>3. \A p \in Pumps : Own(hand[p]) \subseteq Nat
  BY DEF PumpType, Own
<1> QED
  BY <1>1, <1>2, <1>3 DEF G, C, H, Sets, StreamType, ChannelType

LEMMA GotGrows ==
  ASSUME TypeOK, NEW p \in Pumps, NEW x \in Items, got' = [got EXCEPT ![p] = Append(@, x)]
  PROVE  G' = [G EXCEPT ![p] = G[p] \union Own(x)]
<1>1. got \in [Pumps -> Seq(Items)]
  BY DEF TypeOK
<1>2. AudioIds(got'[p]) = AudioIds(got[p]) \union Own(x)
  BY <1>1, IdsOfAppend
<1>3. \A q \in Pumps \ {p} : got'[q] = got[q]
  BY <1>1
<1>4. ASSUME NEW q \in Pumps
      PROVE  AudioIds(got'[q]) = IF q = p THEN G[p] \union Own(x) ELSE G[q]
  <2>1. G[q] = AudioIds(got[q]) /\ G[p] = AudioIds(got[p])
    BY DEF G
  <2>2. CASE q = p
    BY ONLY <2>1, <2>2, <1>2
  <2>3. CASE q # p
    BY <2>1, <2>3, <1>3
  <2> QED
    BY <2>2, <2>3
<1> QED
  BY <1>4 DEF G

LEMMA HandChanges ==
  ASSUME TypeOK, NEW p \in Pumps, NEW x, hand' = [hand EXCEPT ![p] = x]
  PROVE  H' = [H EXCEPT ![p] = Own(x)]
<1>1. hand'[p] = x /\ \A q \in Pumps \ {p} : hand'[q] = hand[q]
  BY DEF TypeOK
<1>2. ASSUME NEW q \in Pumps
      PROVE  Own(hand'[q]) = IF q = p THEN Own(x) ELSE H[q]
  BY <1>1 DEF H
<1> QED
  BY <1>2 DEF H

LEMMA ChannelGrows ==
  ASSUME TypeOK, NEW p \in Subscribers, NEW x \in Items, channel' = [channel EXCEPT ![p] = Append(@, x)],
         \A q \in Subscribers : Distinct(channel[q]), C[p] \intersect Own(x) = {}
  PROVE  /\ C' = [C EXCEPT ![p] = C[p] \union Own(x)]
         /\ \A q \in Subscribers : Distinct(channel'[q])
<1>1. channel \in [Subscribers -> Seq(Items)] /\ p \in Pumps
  BY Kinds DEF TypeOK
<1>2. channel'[p] = Append(channel[p], x) /\ \A q \in Subscribers \ {p} : channel'[q] = channel[q]
  BY <1>1
<1>3. C[p] = AudioIds(channel[p])
  BY <1>1 DEF C
<1>4. AudioIds(channel'[p]) = AudioIds(channel[p]) \union Own(x) /\ Distinct(channel'[p])
  BY <1>1, <1>2, <1>3, IdsOfAppend
<1> QED
  BY <1>1, <1>2, <1>3, <1>4 DEF C

(* A step that moves no buffer.                                            *)
LEMMA Still ==
  ASSUME BuffersOK, UNCHANGED <<got, ring, lost, pushed, dropped>>, H' = H, C' = C,
         \A q \in Subscribers : Distinct(channel'[q])
  PROVE  BuffersOK'
<1>1. G' = G /\ Q' = Q
  BY DEF G, Q
<1> QED
  BY <1>1 DEF BuffersOK

LEMMA StillHand ==
  ASSUME TypeOK, BuffersOK, UNCHANGED <<got, channel, ring, lost, pushed, dropped>>,
         NEW p \in Pumps, NEW x, hand' = [hand EXCEPT ![p] = x],
         hand[p].kind # "audio", x.kind # "audio"
  PROVE  BuffersOK'
<1>1. H' = [H EXCEPT ![p] = {}] /\ H[p] = {}
  BY HandChanges DEF Own, H
<1>2. H' = H
  BY <1>1 DEF H
<1>3. C' = C /\ \A q \in Subscribers : Distinct(channel'[q])
  BY DEF C, BuffersOK
<1> QED
  BY <1>2, <1>3, Still

LEMMA StillSent ==
  ASSUME TypeOK, BuffersOK, UNCHANGED <<got, ring, lost, pushed, dropped>>,
         NEW p \in Subscribers, hand' = [hand EXCEPT ![p] = Nothing], hand[p].kind # "audio",
         channel' = [channel EXCEPT ![p] = Append(@, hand[p])]
  PROVE  BuffersOK'
<1>0. p \in Pumps /\ hand[p] \in Items
  BY Kinds DEF TypeOK
<1>1. H' = [H EXCEPT ![p] = {}] /\ H[p] = {}
  BY <1>0, HandChanges, ItemKinds DEF Own, H
<1>2. H' = H
  BY <1>1 DEF H
<1>3. Own(hand[p]) = {}
  BY DEF Own
<1>4. C' = [C EXCEPT ![p] = C[p]] /\ \A q \in Subscribers : Distinct(channel'[q])
  BY <1>0, <1>3, ChannelGrows DEF BuffersOK
<1>5. C' = C
  BY <1>4 DEF C
<1> QED
  BY <1>2, <1>4, <1>5, Still

(* The queue: numbered as pushed, read from its head.                      *)
LEMMA QueueStep == TypeOK /\ QueueOK /\ [Next]_vars => QueueOK'
<1> SUFFICES ASSUME TypeOK, QueueOK, [Next]_vars PROVE QueueOK'
  OBVIOUS
<1>0. ring \in Seq(1 .. MaxPush) /\ pushed \in Nat /\ Len(ring) \in Nat /\ DOMAIN ring = 1 .. Len(ring)
  BY Kinds DEF TypeOK
<1>1. CASE Push
  <2>1. pushed' = pushed + 1 /\ ring' = Append(ring, pushed + 1)
    BY <1>1 DEF Push
  <2>2. DOMAIN ring' = 1 .. Len(ring) + 1 /\ ring'[Len(ring) + 1] = pushed + 1
        /\ \A i \in 1 .. Len(ring) : ring'[i] = ring[i]
    BY <1>0, <2>1
  <2> QED
    BY <1>0, <2>1, <2>2 DEF QueueOK
<1>2. ASSUME NEW p \in Pumps, ReadData(p) PROVE QueueOK'
  <2>1. pushed' = pushed /\ ring' = Tail(ring) /\ ring # <<>>
    BY <1>2 DEF ReadData
  <2>2. DOMAIN ring' = 1 .. Len(ring) - 1 /\ \A i \in 1 .. Len(ring) - 1 : ring'[i] = ring[i + 1]
    BY <1>0, <2>1
  <2>3. \A i \in 1 .. Len(ring) - 1 : i + 1 \in 1 .. Len(ring)
    BY <1>0
  <2> QED
    BY <1>0, <2>1, <2>2, <2>3 DEF QueueOK
<1>3. UNCHANGED <<ring, pushed>> => QueueOK'
  BY DEF QueueOK
<1>4. ~Push /\ ~(\E p \in Pumps : ReadData(p)) => UNCHANGED <<ring, pushed>>
  BY Kinds DEF Next, PumpSteps, ReportSteps, DrainSteps, StreamEnds, Tick, ReadEnded, ReadNothing, DeliverSent,
     DeliverFull, DeliverGone, ReadError, AdviseSent, AdviseFull, AdviseGone, AdviseHeldBack, ReportEnd,
     Receive, DropReceiver, DrainTop, DrainWrite, DrainFlush, DrainClose, Shutdown, ShutdownSelf, Join,
     vars, streamVars
<1> QED
  BY <1>1, <1>2, <1>3, <1>4

LEMMA SameSet == ASSUME NEW F \in Sets, NEW p PROVE [F EXCEPT ![p] = F[p]] = F
  BY DEF Sets

LEMMA ReadMoves ==
  ASSUME TypeOK, HandOK, QueueOK, BuffersOK, NEW p \in Pumps, ReadData(p)
  PROVE  BuffersOK'
<1> DEFINE n == Head(ring)
<1>0. /\ ring \in Seq(1 .. MaxPush) /\ ring # <<>> /\ Len(ring) \in Nat \ {0} /\ DOMAIN ring = 1 .. Len(ring)
      /\ n = ring[1] /\ n \in 1 .. MaxPush
  <2>1. ring \in Seq(1 .. MaxPush) /\ ring # <<>>
    BY DEF TypeOK, ReadData
  <2>2. Len(ring) \in Nat \ {0} /\ DOMAIN ring = 1 .. Len(ring) /\ n = ring[1]
    BY <2>1
  <2>3. ring[1] \in 1 .. MaxPush
    <3>1. 1 \in 1 .. Len(ring)
      BY <2>2
    <3>2. \A i \in 1 .. Len(ring) : ring[i] \in 1 .. MaxPush
      BY <2>1, ElementOfSeq
    <3> QED
      BY <3>1, <3>2
  <2> QED
    BY <2>1, <2>2, <2>3
<1>1. hand' = [hand EXCEPT ![p] = Audio(n)] /\ ring' = Tail(ring)
      /\ UNCHANGED <<got, channel, lost, pushed, dropped>> /\ hand[p] = Nothing
  BY DEF ReadData, HandOK, streamVars, channelVars
<1>2. Q' = Q \ {n} /\ n \in Q
  <2>1. DOMAIN ring' = 1 .. Len(ring) - 1 /\ \A i \in 1 .. Len(ring) - 1 : ring'[i] = ring[i + 1]
    BY <1>0, <1>1
  <2>2. \A i \in DOMAIN ring' : i + 1 \in DOMAIN ring /\ i + 1 # 1 /\ ring'[i] = ring[i + 1] /\ ring[i + 1] # n
    BY <1>0, <2>1 DEF QueueOK
  <2>3. \A i \in DOMAIN ring : i # 1 => i - 1 \in DOMAIN ring' /\ ring'[i - 1] = ring[i]
    BY <1>0, <2>1
  <2>4. Q' \subseteq Q \ {n}
    BY <2>2 DEF Q
  <2>5. \A i \in DOMAIN ring : ring[i] # n => ring[i] \in Q'
    BY <1>0, <2>3 DEF Q
  <2>6. 1 \in DOMAIN ring
    BY <1>0
  <2> QED
    BY <1>0, <2>4, <2>5, <2>6 DEF Q
<1>3. H' = [H EXCEPT ![p] = {n}] /\ H[p] = {}
  <2>1. Own(Audio(n)) = {n} /\ Own(Nothing) = {}
    BY <1>0, ItemKinds DEF Own
  <2> QED
    BY <1>1, <2>1, HandChanges DEF H
<1>4. G' = G /\ C' = C
  BY <1>1 DEF G, C
<1>5. G \in Sets /\ C \in Sets /\ H \in Sets /\ pushed \in Nat /\ dropped \in Nat /\ {n} \in SUBSET Nat
  BY <1>0, SetsOK
<1>6. Sound(G, C, H, Q, lost, pushed, dropped)
  BY DEF BuffersOK
<1> HIDE DEF n
<1>7. G[p] \intersect C[p] = {} /\ (G[p] \union C[p]) \intersect (Q \union lost) = {} /\ Q \intersect lost = {}
      /\ G[p] \in SUBSET Nat /\ C[p] \in SUBSET Nat
  BY <1>5, <1>6 DEF Sound, Places, Sets
<1>8. G[p] \union C[p] \union {n} \union (Q \ {n}) \union lost = Places(G, C, H, p) \union Q \union lost
  BY <1>2, <1>3 DEF Places
<1>9. Sound([G EXCEPT ![p] = G[p]], [C EXCEPT ![p] = C[p]], [H EXCEPT ![p] = {n}], Q \ {n}, lost, pushed, dropped)
  <2>1. /\ G[p] \intersect {n} = {} /\ C[p] \intersect {n} = {}
        /\ (G[p] \union C[p] \union {n}) \intersect ((Q \ {n}) \union lost) = {}
        /\ (Q \ {n}) \intersect lost = {}
    BY <1>2, <1>7
  <2> QED
    BY <1>5, <1>6, <1>7, <1>8, <2>1, Moving
<1>10. \A q \in Subscribers : Distinct(channel'[q])
  BY <1>1 DEF BuffersOK
<1> QED
  BY <1>1, <1>2, <1>3, <1>4, <1>5, <1>9, <1>10, SameSet DEF BuffersOK

(* A buffer leaves a hand: into the channel, to the sink, or lost.         *)
LEMMA HandMoves ==
  ASSUME TypeOK, BuffersOK, NEW p \in Pumps, hand' = [hand EXCEPT ![p] = Nothing],
         UNCHANGED <<ring, pushed, dropped>>, \A q \in Subscribers : Distinct(channel'[q]),
         \/ G' = [G EXCEPT ![p] = G[p] \union H[p]] /\ C' = C /\ lost' = lost
         \/ G' = G /\ C' = [C EXCEPT ![p] = C[p] \union H[p]] /\ lost' = lost
         \/ G' = G /\ C' = C /\ lost' = lost \union H[p]
  PROVE  BuffersOK'
<1>1. Sound(G, C, H, Q, lost, pushed, dropped) /\ Q' = Q
  BY DEF BuffersOK, Q
<1>2. G \in Sets /\ C \in Sets /\ H \in Sets /\ pushed \in Nat /\ dropped \in Nat
  BY SetsOK
<1>3. H' = [H EXCEPT ![p] = {}]
  BY HandChanges, ItemKinds DEF Own
<1>4. /\ G[p] \intersect C[p] = {} /\ G[p] \intersect H[p] = {} /\ C[p] \intersect H[p] = {}
      /\ (G[p] \union C[p] \union H[p]) \intersect (Q \union lost) = {} /\ Q \intersect lost = {}
      /\ G[p] \in SUBSET Nat /\ C[p] \in SUBSET Nat /\ H[p] \in SUBSET Nat
  BY <1>1, <1>2 DEF Sound, Places, Sets
<1>5. Places(G, C, H, p) = G[p] \union C[p] \union H[p] /\ {} \in SUBSET Nat
  BY DEF Places
<1>6. Sound([G EXCEPT ![p] = G[p] \union H[p]], [C EXCEPT ![p] = C[p]], [H EXCEPT ![p] = {}], Q, lost, pushed, dropped)
  <2> DEFINE g == G[p] \union H[p]
  <2>1. /\ g \in SUBSET Nat /\ g \union C[p] \union {} \union Q \union lost = Places(G, C, H, p) \union Q \union lost
        /\ g \intersect C[p] = {} /\ g \intersect {} = {} /\ C[p] \intersect {} = {}
        /\ (g \union C[p] \union {}) \intersect (Q \union lost) = {}
    BY <1>4, <1>5
  <2> HIDE DEF g
  <2>2. Sound([G EXCEPT ![p] = g], [C EXCEPT ![p] = C[p]], [H EXCEPT ![p] = {}], Q, lost, pushed, dropped)
    BY <1>1, <1>2, <1>4, <1>5, <2>1, Moving
  <2> QED
    BY <2>2 DEF g
<1>7. Sound([G EXCEPT ![p] = G[p]], [C EXCEPT ![p] = C[p] \union H[p]], [H EXCEPT ![p] = {}], Q, lost, pushed, dropped)
  <2> DEFINE c == C[p] \union H[p]
  <2>1. /\ c \in SUBSET Nat /\ G[p] \union c \union {} \union Q \union lost = Places(G, C, H, p) \union Q \union lost
        /\ G[p] \intersect c = {} /\ G[p] \intersect {} = {} /\ c \intersect {} = {}
        /\ (G[p] \union c \union {}) \intersect (Q \union lost) = {}
    BY <1>4, <1>5
  <2> HIDE DEF c
  <2>2. Sound([G EXCEPT ![p] = G[p]], [C EXCEPT ![p] = c], [H EXCEPT ![p] = {}], Q, lost, pushed, dropped)
    BY <1>1, <1>2, <1>4, <1>5, <2>1, Moving
  <2> QED
    BY <2>2 DEF c
<1>8. Sound([G EXCEPT ![p] = G[p]], [C EXCEPT ![p] = C[p]], [H EXCEPT ![p] = {}], Q, lost \union H[p], pushed, dropped)
  <2> DEFINE l == lost \union H[p]
  <2>1. /\ G[p] \union C[p] \union {} \union Q \union l = Places(G, C, H, p) \union Q \union lost
        /\ G[p] \intersect {} = {} /\ C[p] \intersect {} = {}
        /\ (G[p] \union C[p] \union {}) \intersect (Q \union l) = {} /\ Q \intersect l = {}
    BY <1>4, <1>5
  <2> HIDE DEF l
  <2>2. Sound([G EXCEPT ![p] = G[p]], [C EXCEPT ![p] = C[p]], [H EXCEPT ![p] = {}], Q, l, pushed, dropped)
    BY <1>1, <1>2, <1>4, <1>5, <2>1, Moving
  <2> QED
    BY <2>2 DEF l
<1> QED
  BY <1>1, <1>2, <1>3, <1>6, <1>7, <1>8, SameSet DEF BuffersOK

LEMMA ReceiveMoves ==
  ASSUME TypeOK, BuffersOK, NEW p \in Subscribers, Receive(p)
  PROVE  BuffersOK'
<1> DEFINE x == Head(channel[p])
           t == AudioIds(Tail(channel[p]))
<1>0. /\ channel \in [Subscribers -> Seq(Items)] /\ channel[p] \in Seq(Items) /\ channel[p] # <<>>
      /\ p \in Pumps /\ x \in Items
  <2>1. channel \in [Subscribers -> Seq(Items)] /\ channel[p] # <<>> /\ p \in Pumps
    BY Kinds DEF TypeOK, Receive
  <2> QED
    BY <2>1
<1>1. /\ got' = [got EXCEPT ![p] = Append(@, x)] /\ channel' = [channel EXCEPT ![p] = Tail(@)]
      /\ UNCHANGED <<hand, ring, lost, pushed, dropped>>
  BY DEF Receive, streamVars
<1>2. C[p] = Own(x) \union t /\ Own(x) \intersect t = {} /\ Distinct(Tail(channel[p])) /\ C[p] = AudioIds(channel[p])
  BY <1>0, IdsOfTail DEF C, BuffersOK
<1>3. G' = [G EXCEPT ![p] = G[p] \union Own(x)]
  BY <1>0, <1>1, GotGrows
<1>4. channel'[p] = Tail(channel[p]) /\ \A q \in Subscribers \ {p} : channel'[q] = channel[q]
  BY <1>0, <1>1
<1>5. \A q \in Subscribers : Distinct(channel'[q])
  BY <1>2, <1>4 DEF BuffersOK
<1>6. C' = [C EXCEPT ![p] = t]
  <2>1. ASSUME NEW q \in Pumps
        PROVE  (IF q \in Subscribers THEN AudioIds(channel'[q]) ELSE {}) = IF q = p THEN t ELSE C[q]
    BY <1>4 DEF C
  <2> QED
    BY <1>0, <2>1 DEF C
<1>7. H' = H /\ Q' = Q
  BY <1>1 DEF H, Q
<1>8. G \in Sets /\ C \in Sets /\ H \in Sets /\ pushed \in Nat /\ dropped \in Nat
      /\ Sound(G, C, H, Q, lost, pushed, dropped)
  BY SetsOK DEF BuffersOK
<1>9. /\ G[p] \intersect C[p] = {} /\ G[p] \intersect H[p] = {} /\ C[p] \intersect H[p] = {}
      /\ (G[p] \union C[p] \union H[p]) \intersect (Q \union lost) = {} /\ Q \intersect lost = {}
      /\ G[p] \in SUBSET Nat /\ C[p] \in SUBSET Nat /\ H[p] \in SUBSET Nat
  BY <1>0, <1>8 DEF Sound, Places, Sets
<1> DEFINE m == Own(x)
           g == G[p] \union m
<1>10. Sound([G EXCEPT ![p] = g], [C EXCEPT ![p] = t], [H EXCEPT ![p] = H[p]], Q, lost, pushed, dropped)
  <2> HIDE DEF x, t, m
  <2>1. /\ g \in SUBSET Nat /\ t \in SUBSET Nat
        /\ g \union t \union H[p] \union Q \union lost = Places(G, C, H, p) \union Q \union lost
        /\ g \intersect t = {} /\ g \intersect H[p] = {} /\ t \intersect H[p] = {}
        /\ (g \union t \union H[p]) \intersect (Q \union lost) = {}
    BY <1>2, <1>9 DEF m, Places
  <2> HIDE DEF g
  <2> QED
    BY <1>0, <1>8, <1>9, <2>1, Moving
<1> QED
  BY <1>1, <1>3, <1>5, <1>6, <1>7, <1>8, <1>10, SameSet DEF BuffersOK

LEMMA DropMoves ==
  ASSUME TypeOK, BuffersOK, NEW p \in Subscribers, DropReceiver(p)
  PROVE  BuffersOK'
<1>0. channel \in [Subscribers -> Seq(Items)] /\ p \in Pumps
  BY Kinds DEF TypeOK
<1>1. /\ channel' = [channel EXCEPT ![p] = <<>>] /\ lost' = lost \union AudioIds(channel[p])
      /\ UNCHANGED <<got, hand, ring, pushed, dropped>>
  BY DEF DropReceiver, streamVars
<1>2. C[p] = AudioIds(channel[p])
  BY <1>0 DEF C
<1>3. channel'[p] = <<>> /\ \A q \in Subscribers \ {p} : channel'[q] = channel[q]
  BY <1>0, <1>1
<1>4. \A q \in Subscribers : Distinct(channel'[q])
  BY <1>3 DEF BuffersOK, Distinct
<1>5. C' = [C EXCEPT ![p] = {}]
  <2>1. ASSUME NEW q \in Pumps
        PROVE  (IF q \in Subscribers THEN AudioIds(channel'[q]) ELSE {}) = IF q = p THEN {} ELSE C[q]
    BY <1>3, IdsOfNone DEF C
  <2> QED
    BY <1>0, <2>1 DEF C
<1>6. H' = H /\ Q' = Q /\ G' = G
  BY <1>1 DEF H, Q, G
<1>7. G \in Sets /\ C \in Sets /\ H \in Sets /\ pushed \in Nat /\ dropped \in Nat
      /\ Sound(G, C, H, Q, lost, pushed, dropped)
  BY SetsOK DEF BuffersOK
<1>8. /\ G[p] \intersect C[p] = {} /\ G[p] \intersect H[p] = {} /\ C[p] \intersect H[p] = {}
      /\ (G[p] \union C[p] \union H[p]) \intersect (Q \union lost) = {} /\ Q \intersect lost = {}
      /\ G[p] \in SUBSET Nat /\ C[p] \in SUBSET Nat /\ H[p] \in SUBSET Nat /\ {} \in SUBSET Nat
  BY <1>0, <1>7 DEF Sound, Places, Sets
<1> DEFINE l == lost \union C[p]
<1>9. Sound([G EXCEPT ![p] = G[p]], [C EXCEPT ![p] = {}], [H EXCEPT ![p] = H[p]], Q, l, pushed, dropped)
  <2>1. /\ G[p] \union {} \union H[p] \union Q \union l = Places(G, C, H, p) \union Q \union lost
        /\ G[p] \intersect {} = {} /\ {} \intersect H[p] = {}
        /\ (G[p] \union {} \union H[p]) \intersect (Q \union l) = {} /\ Q \intersect l = {}
    BY <1>8 DEF Places
  <2> HIDE DEF l
  <2> QED
    BY <1>0, <1>7, <1>8, <2>1, Moving
<1> QED
  BY <1>1, <1>2, <1>4, <1>5, <1>6, <1>7, <1>9, SameSet DEF BuffersOK

LEMMA Unmoved ==
  ASSUME BuffersOK, UNCHANGED <<got, channel, hand, ring, lost, pushed, dropped>>
  PROVE  BuffersOK'
<1>1. H' = H /\ C' = C /\ \A q \in Subscribers : Distinct(channel'[q])
  BY DEF H, C, BuffersOK
<1> QED
  BY <1>1, Still

(* Every step is a move, or a drop that is counted.                        *)
LEMMA BuffersStep == TypeOK /\ HandOK /\ QueueOK /\ BuffersOK /\ [Next]_vars => BuffersOK'
<1> SUFFICES ASSUME TypeOK /\ HandOK /\ QueueOK /\ BuffersOK, [Next]_vars PROVE BuffersOK'
  OBVIOUS
<1>0. clock \in 0 .. MaxTicks
  BY DEF TypeOK
<1>1. CASE StreamEnds
  BY <1>1, Unmoved DEF StreamEnds, streamVars, channelVars, drainVars
<1>2. CASE Push
  <2>1. Q' = Q \union {pushed + 1} /\ pushed' = pushed + 1
    <3>1. ring \in Seq(1 .. MaxPush) /\ Len(ring) \in Nat /\ ring' = Append(ring, pushed + 1) /\ pushed' = pushed + 1
      BY <1>2 DEF Push, TypeOK
    <3>2. DOMAIN ring' = DOMAIN ring \union {Len(ring) + 1} /\ ring'[Len(ring) + 1] = pushed + 1
          /\ \A i \in DOMAIN ring : ring'[i] = ring[i]
      BY <3>1
    <3> QED
      BY <3>1, <3>2 DEF Q
  <2>2. UNCHANGED <<got, channel, hand, lost, dropped>>
    BY <1>2 DEF Push, channelVars
  <2>3. G' = G /\ C' = C /\ H' = H /\ \A q \in Subscribers : Distinct(channel'[q])
    BY <2>2 DEF G, C, H, BuffersOK
  <2> QED
    BY <2>1, <2>2, <2>3, SetsOK, Pushing DEF BuffersOK
<1>3. CASE Tick
  BY <1>3, Unmoved DEF Tick, streamVars, channelVars, drainVars
<1>4. ASSUME NEW p \in Pumps, ReadEnded(p) PROVE BuffersOK'
  <2>1. hand[p].kind # "audio" /\ p \in Pumps
    BY <1>4, Kinds, ItemKinds DEF ReadEnded, HandOK
  <2>2. \E x : hand' = [hand EXCEPT ![p] = x] /\ x.kind # "audio" /\ UNCHANGED <<got, channel, ring, lost, pushed, dropped>>
    BY <1>4, ItemKinds DEF ReadEnded, Goto, Again, Start, Ended, Gone, Full, Sent, streamVars, channelVars, drainVars
  <2> QED
    BY <2>1, <2>2, StillHand
<1>5. ASSUME NEW p \in Pumps, ReadData(p) PROVE BuffersOK'
  BY <1>5, ReadMoves
<1>6. ASSUME NEW p \in Pumps, ReadNothing(p) PROVE BuffersOK'
  <2>1. hand[p].kind # "audio" /\ p \in Pumps
    BY <1>6, Kinds, ItemKinds DEF ReadNothing, HandOK
  <2>2. \E x : hand' = [hand EXCEPT ![p] = x] /\ x.kind # "audio" /\ UNCHANGED <<got, channel, ring, lost, pushed, dropped>>
    BY <1>6, ItemKinds DEF ReadNothing, Goto, Again, Start, Ended, Gone, Full, Sent, streamVars, channelVars, drainVars
  <2> QED
    BY <2>1, <2>2, StillHand
<1>7. ASSUME NEW p \in Pumps, DeliverSent(p) PROVE BuffersOK'
  <2>1. /\ p \in Subscribers /\ hand[p] \in Items /\ hand' = [hand EXCEPT ![p] = Nothing]
        /\ channel' = [channel EXCEPT ![p] = Append(@, hand[p])]
        /\ UNCHANGED <<got, ring, lost, pushed, dropped>>
    BY <1>7 DEF DeliverSent, Sent, Again, TypeOK, streamVars
  <2>2. C[p] \intersect Own(hand[p]) = {} /\ H[p] = Own(hand[p])
    BY DEF BuffersOK, Sound, H
  <2>3. C' = [C EXCEPT ![p] = C[p] \union H[p]] /\ \A q \in Subscribers : Distinct(channel'[q])
    BY <2>1, <2>2, ChannelGrows DEF BuffersOK
  <2>4. G' = G
    BY <2>1 DEF G
  <2> QED
    BY <2>1, <2>3, <2>4, HandMoves
<1>8. ASSUME NEW p \in Pumps, DeliverFull(p) PROVE BuffersOK'
  <2>1. /\ hand' = [hand EXCEPT ![p] = Nothing] /\ dropped' = dropped + 1 /\ hand[p].kind = "audio"
        /\ UNCHANGED <<got, channel, ring, lost, pushed>>
    BY <1>8 DEF DeliverFull, Again, HandOK, streamVars
  <2>2. H[p] = {hand[p].id} /\ H' = [H EXCEPT ![p] = {}]
    BY <2>1, HandChanges, ItemKinds DEF H, Own
  <2>3. G' = G /\ C' = C /\ Q' = Q /\ \A q \in Subscribers : Distinct(channel'[q])
    BY <2>1 DEF G, C, Q, BuffersOK
  <2> QED
    BY <2>1, <2>2, <2>3, SetsOK, Dropping DEF BuffersOK
<1>9. ASSUME NEW p \in Pumps, DeliverGone(p) PROVE BuffersOK'
  <2>1. /\ hand' = [hand EXCEPT ![p] = Nothing] /\ hand[p].kind = "audio" /\ lost' = lost \union {hand[p].id}
        /\ UNCHANGED <<got, channel, ring, pushed, dropped>>
    BY <1>9 DEF DeliverGone, Gone, HandOK, streamVars
  <2>2. H[p] = {hand[p].id} /\ G' = G /\ C' = C /\ \A q \in Subscribers : Distinct(channel'[q])
    BY <2>1 DEF H, Own, G, C, BuffersOK
  <2> QED
    BY <2>1, <2>2, HandMoves
<1>10. ASSUME NEW p \in Reporting, NEW v \in Variants, ReadError(p, v) PROVE BuffersOK'
  <2>1. hand[p].kind # "audio" /\ p \in Pumps
    BY <1>10, Kinds, ItemKinds DEF ReadError, HandOK
  <2>2. \E x : hand' = [hand EXCEPT ![p] = x] /\ x.kind # "audio" /\ UNCHANGED <<got, channel, ring, lost, pushed, dropped>>
    BY <1>10, ItemKinds, <1>0 DEF ReadError, Goto, Again, Start, Ended, Gone, Full, Sent, streamVars, channelVars, drainVars
  <2> QED
    BY <2>1, <2>2, StillHand
<1>11. ASSUME NEW p \in Reporting, AdviseSent(p) PROVE BuffersOK'
  <2>1. /\ p \in Subscribers /\ hand' = [hand EXCEPT ![p] = Nothing] /\ hand[p].kind # "audio"
        /\ channel' = [channel EXCEPT ![p] = Append(@, hand[p])]
        /\ UNCHANGED <<got, ring, lost, pushed, dropped>>
    BY <1>11, Kinds DEF AdviseSent, Sent, Again, HandOK, streamVars
  <2> QED
    BY <2>1, StillSent
<1>12. ASSUME NEW p \in Reporting, AdviseFull(p) PROVE BuffersOK'
  <2>1. hand[p].kind # "audio" /\ p \in Pumps
    BY <1>12, Kinds, ItemKinds DEF AdviseFull, HandOK
  <2>2. \E x : hand' = [hand EXCEPT ![p] = x] /\ x.kind # "audio" /\ UNCHANGED <<got, channel, ring, lost, pushed, dropped>>
    BY <1>12, ItemKinds DEF AdviseFull, Goto, Again, Start, Ended, Gone, Full, Sent, streamVars, channelVars, drainVars
  <2> QED
    BY <2>1, <2>2, StillHand
<1>13. ASSUME NEW p \in Reporting, AdviseGone(p) PROVE BuffersOK'
  <2>1. hand[p].kind # "audio" /\ p \in Pumps
    BY <1>13, Kinds, ItemKinds DEF AdviseGone, HandOK
  <2>2. \E x : hand' = [hand EXCEPT ![p] = x] /\ x.kind # "audio" /\ UNCHANGED <<got, channel, ring, lost, pushed, dropped>>
    BY <1>13, ItemKinds DEF AdviseGone, Goto, Again, Start, Ended, Gone, Full, Sent, streamVars, channelVars, drainVars
  <2> QED
    BY <2>1, <2>2, StillHand
<1>14. ASSUME NEW p \in Reporting, AdviseHeldBack(p) PROVE BuffersOK'
  <2>1. hand[p].kind # "audio" /\ p \in Pumps
    BY <1>14, Kinds, ItemKinds DEF AdviseHeldBack, HandOK
  <2>2. \E x : hand' = [hand EXCEPT ![p] = x] /\ x.kind # "audio" /\ UNCHANGED <<got, channel, ring, lost, pushed, dropped>>
    BY <1>14, ItemKinds DEF AdviseHeldBack, Goto, Again, Start, Ended, Gone, Full, Sent, streamVars, channelVars, drainVars
  <2> QED
    BY <2>1, <2>2, StillHand
<1>15. ASSUME NEW p \in Reporting, ReportEnd(p) PROVE BuffersOK'
  <2>1. /\ p \in Subscribers /\ hand' = [hand EXCEPT ![p] = Nothing] /\ hand[p].kind # "audio"
        /\ UNCHANGED <<got, ring, lost, pushed, dropped>>
    BY <1>15, Kinds, ItemKinds DEF ReportEnd, HandOK, streamVars
  <2>2. CASE channel' = [channel EXCEPT ![p] = Append(@, hand[p])]
    BY <2>1, <2>2, StillSent
  <2>3. CASE channel' = channel
    BY <2>1, <2>3, Kinds, ItemKinds, StillHand
  <2> QED
    BY <1>15, <2>2, <2>3 DEF ReportEnd, Sent
<1>16. ASSUME NEW p \in Subscribers, Receive(p) PROVE BuffersOK'
  BY <1>16, ReceiveMoves
<1>17. ASSUME NEW p \in Subscribers, DropReceiver(p) PROVE BuffersOK'
  BY <1>17, DropMoves
<1>18. ASSUME NEW p \in Drains, DrainTop(p) PROVE BuffersOK'
  BY <1>18, Unmoved DEF DrainTop, streamVars, channelVars, drainVars
<1>19. ASSUME NEW p \in Drains, DrainWrite(p) PROVE BuffersOK'
  <2>1. /\ p \in Pumps /\ hand[p] \in Items /\ hand' = [hand EXCEPT ![p] = Nothing] /\ hand[p].kind = "audio"
        /\ UNCHANGED <<channel, ring, pushed, dropped>>
    BY <1>19, Kinds DEF DrainWrite, Again, HandOK, TypeOK, streamVars
  <2>2. \/ got' = [got EXCEPT ![p] = Append(@, hand[p])] /\ lost' = lost
        \/ got' = got /\ lost' = lost \union {hand[p].id}
    BY <1>19 DEF DrainWrite
  <2>3. H[p] = {hand[p].id} /\ H[p] = Own(hand[p]) /\ C' = C /\ \A q \in Subscribers : Distinct(channel'[q])
    BY <2>1 DEF H, Own, C, BuffersOK
  <2>4. \/ G' = [G EXCEPT ![p] = G[p] \union H[p]] /\ lost' = lost
        \/ G' = G /\ lost' = lost \union H[p]
    BY <2>1, <2>2, <2>3, GotGrows DEF G
  <2> QED
    BY <2>1, <2>3, <2>4, HandMoves
<1>20. ASSUME NEW p \in Drains, DrainFlush(p) PROVE BuffersOK'
  BY <1>20, Unmoved DEF DrainFlush, streamVars, channelVars, drainVars
<1>21. ASSUME NEW p \in Drains, DrainClose(p) PROVE BuffersOK'
  BY <1>21, Unmoved DEF DrainClose, streamVars, channelVars, drainVars
<1>22. ASSUME NEW p \in Drains, Shutdown(p) PROVE BuffersOK'
  BY <1>22, Unmoved DEF Shutdown, streamVars, channelVars, drainVars
<1>25. ASSUME NEW p \in Drains, ShutdownSelf(p) PROVE BuffersOK'
  BY <1>25, Unmoved DEF ShutdownSelf, streamVars, channelVars, drainVars
<1>23. ASSUME NEW p \in Drains, Join(p) PROVE BuffersOK'
  BY <1>23, Unmoved DEF Join, streamVars, channelVars, drainVars
<1>24. CASE UNCHANGED vars
  BY <1>24, Unmoved DEF vars, streamVars, channelVars, drainVars
<1> QED
  BY <1>1, <1>2, <1>3, <1>4, <1>5, <1>6, <1>7, <1>8, <1>9, <1>10, <1>11, <1>12, <1>13, <1>14, <1>15, <1>16, <1>17, <1>18, <1>19, <1>20, <1>21, <1>22, <1>23, <1>24, <1>25 DEF Next, PumpSteps, ReportSteps, DrainSteps

-----------------------------------------------------------------------------
(* What a reporting subscriber is given, in order.                         *)

Quiet(s) == \A i \in DOMAIN s : s[i].kind # "fatal"
Closed(s) ==
  /\ s # <<>> /\ s[Len(s)] = Fatal
  /\ \A i \in DOMAIN s : s[i].kind = "fatal" => i = Len(s)
EndOK ==
  \A p \in Reporting : receiver[p] =>
    IF pc[p] = "exited" THEN Closed(Forwardings(p)) ELSE Quiet(Forwardings(p))

(* The last error that s holds is of variant v and time a, if any.         *)
Latest(s, v, a) ==
  IF v = "none" THEN \A i \in DOMAIN s : s[i].kind # "advice"
  ELSE \E i \in DOMAIN s :
         /\ s[i].kind = "advice" /\ s[i].id = v /\ s[i].at = a
         /\ \A k \in DOMAIN s : k > i => s[k].kind # "advice"
Coalesced(s) == \A i, j \in DOMAIN s : Repeats(s, i, j) => s[i].at < s[j].at

LastOK ==
  \A p \in Reporting :
    /\ Coalesced(Forwardings(p))
    /\ receiver[p] => Latest(Forwardings(p), last[p].variant, last[p].at)

TimeOK ==
  \A p \in Reporting :
    /\ last[p].at <= clock
    /\ pc[p] = "advise" => last[p].at <= hand[p].at /\ hand[p].at <= clock

DrainOK ==
  \A d \in Drains :
    /\ pc[d] = "close" => sink[d] = "flushed"
    /\ pc[d] = "exited" => sink[d] = "closed"
    /\ handle[d] = "joined" => pc[d] = "exited"
    /\ handle[d] = "detached" => stopFlag[d] /\ pc[d] # "read"

(* Appending to a sequence of items.                                       *)
LEMMA Appended ==
  ASSUME NEW s \in Seq(Items), NEW x \in Items
  PROVE  /\ Append(s, x) \in Seq(Items) /\ Append(s, x) # <<>>
         /\ Len(Append(s, x)) = Len(s) + 1 /\ Len(s) \in Nat /\ DOMAIN s = 1 .. Len(s)
         /\ DOMAIN Append(s, x) = 1 .. Len(s) + 1
         /\ Append(s, x)[Len(s) + 1] = x
         /\ \A i \in DOMAIN s : Append(s, x)[i] = s[i] /\ s[i] \in Items
  BY ElementOfSeq

LEMMA EndAppended ==
  ASSUME NEW s \in Seq(Items), NEW x \in Items, Quiet(s)
  PROVE  /\ x.kind # "fatal" => Quiet(Append(s, x))
         /\ x = Fatal => Closed(Append(s, x))
<1> DEFINE t == Append(s, x)
<1>1. /\ t # <<>> /\ Len(t) = Len(s) + 1 /\ Len(s) \in Nat /\ DOMAIN s = 1 .. Len(s)
      /\ DOMAIN t = 1 .. Len(s) + 1 /\ t[Len(s) + 1] = x /\ \A i \in DOMAIN s : t[i] = s[i]
  BY Appended
<1> HIDE DEF t
<1>2. x.kind # "fatal" => Quiet(t)
  BY <1>1 DEF Quiet
<1>3. x = Fatal => Closed(t)
  BY <1>1 DEF Quiet, Closed
<1> QED
  BY <1>2, <1>3 DEF t

LEMMA LatestAppended ==
  ASSUME NEW s \in Seq(Items), NEW x \in Items, NEW v, NEW a, Latest(s, v, a)
  PROVE  /\ x.kind # "advice" => Latest(Append(s, x), v, a)
         /\ x.kind = "advice" => Latest(Append(s, x), x.id, x.at)
<1> DEFINE t == Append(s, x)
<1>1. /\ Len(s) \in Nat /\ DOMAIN s = 1 .. Len(s) /\ DOMAIN t = 1 .. Len(s) + 1
      /\ t[Len(s) + 1] = x /\ \A i \in DOMAIN s : t[i] = s[i]
  BY Appended
<1> HIDE DEF t
<1>2. ASSUME x.kind # "advice" PROVE Latest(t, v, a)
  <2>1. CASE v = "none"
    BY <1>1, <1>2, <2>1 DEF Latest
  <2>2. CASE v # "none"
    <3>1. PICK i \in DOMAIN s : /\ s[i].kind = "advice" /\ s[i].id = v /\ s[i].at = a
                                /\ \A k \in DOMAIN s : k > i => s[k].kind # "advice"
      BY <2>2 DEF Latest
    <3> QED
      BY <1>1, <1>2, <2>2, <3>1 DEF Latest
  <2> QED
    BY <2>1, <2>2
<1>3. ASSUME x.kind = "advice" PROVE Latest(t, x.id, x.at)
  <2>1. x.id \in Variants /\ x.id # "none"
    BY <1>3, ItemKinds, Kinds
  <2>2. Len(s) + 1 \in DOMAIN t /\ \A k \in DOMAIN t : ~(k > Len(s) + 1)
    BY <1>1
  <2> QED
    BY <1>1, <1>3, <2>1, <2>2 DEF Latest
<1> QED
  BY <1>2, <1>3 DEF t

LEMMA CoalescedAppended ==
  ASSUME NEW s \in Seq(Items), NEW x \in Items, Coalesced(s), NEW v, NEW a \in Nat,
         x.kind = "advice" => Latest(s, v, a) /\ (v # x.id \/ x.at > a)
  PROVE  Coalesced(Append(s, x))
<1> DEFINE t == Append(s, x)
<1>1. /\ Len(s) \in Nat /\ DOMAIN s = 1 .. Len(s) /\ DOMAIN t = 1 .. Len(s) + 1
      /\ t[Len(s) + 1] = x /\ \A i \in DOMAIN s : t[i] = s[i] /\ s[i] \in Items
  BY Appended
<1> HIDE DEF t
<1> SUFFICES ASSUME NEW i \in DOMAIN t, NEW j \in DOMAIN t, Repeats(t, i, j) PROVE t[i].at < t[j].at
  BY DEF Coalesced, t
<1>2. i \in Nat /\ j \in Nat /\ i < j /\ i \in DOMAIN s
  BY <1>1 DEF Repeats
<1>3. CASE j \in DOMAIN s
  <2>1. \A k \in i .. j : k \in DOMAIN s
    BY <1>1, <1>2, <1>3
  <2>2. Repeats(s, i, j)
    BY <1>1, <1>2, <1>3, <2>1 DEF Repeats
  <2> QED
    BY <1>1, <1>2, <1>3, <2>2 DEF Coalesced
<1>4. CASE j = Len(s) + 1
  <2>1. x.kind = "advice" /\ s[i].kind = "advice" /\ x.id = s[i].id
    BY <1>1, <1>2, <1>4 DEF Repeats
  <2>2. v # "none"
    BY <1>2, <2>1 DEF Latest
  <2>3. PICK l \in DOMAIN s : /\ s[l].kind = "advice" /\ s[l].id = v /\ s[l].at = a
                              /\ \A k \in DOMAIN s : k > l => s[k].kind # "advice"
    BY <2>1, <2>2 DEF Latest
  <2>4. l \in Nat /\ i <= l /\ l \in i .. j
    BY <1>1, <1>2, <1>4, <2>1, <2>3
  <2>5. s[l].id = s[i].id
    BY <1>1, <2>3, <2>4, <1>2 DEF Repeats
  <2>6. x.at > a
    BY <2>1, <2>3, <2>5
  <2>7. s[i].at \in Nat /\ s[l].at \in Nat /\ x.at \in Nat
    BY <1>1, <1>2, <2>1, <2>3, ItemKinds, Kinds
  <2>8. CASE i = l
    BY <2>8, <1>1, <1>2, <1>4, <2>3, <2>6, <2>7
  <2>9. CASE i < l
    <3>1. \A k \in i .. l : k \in DOMAIN s /\ k \in i .. j
      BY <1>1, <1>2, <1>4, <2>3, <2>4
    <3>2. Repeats(s, i, l)
      BY <1>1, <1>2, <2>1, <2>3, <2>9, <3>1 DEF Repeats
    <3>3. s[i].at < s[l].at
      BY <1>2, <2>3, <3>2 DEF Coalesced
    <3> QED
      BY <3>3, <1>1, <1>2, <1>4, <2>3, <2>6, <2>7
  <2> QED
    BY <1>2, <2>4, <2>8, <2>9
<1> QED
  BY <1>1, <1>3, <1>4

(* Receiving moves the boundary, a prefix stays coalesced.                 *)
LEMMA Received ==
  ASSUME NEW g \in Seq(Items), NEW c \in Seq(Items), c # <<>>
  PROVE  Append(g, Head(c)) \o Tail(c) = g \o c
  OBVIOUS

LEMMA SentOn ==
  ASSUME NEW g \in Seq(Items), NEW c \in Seq(Items), NEW x \in Items
  PROVE  g \o Append(c, x) = Append(g \o c, x)
  OBVIOUS

LEMMA PrefixCoalesced ==
  ASSUME NEW g \in Seq(Items), NEW c \in Seq(Items), Coalesced(g \o c)
  PROVE  Coalesced(g \o <<>>)
<1> DEFINE z == g \o c
<1>1. /\ g \o <<>> = g /\ Len(g) \in Nat /\ DOMAIN g = 1 .. Len(g) /\ DOMAIN g \subseteq DOMAIN z
      /\ \A i \in DOMAIN g : z[i] = g[i]
  OBVIOUS
<1>2. Coalesced(z)
  OBVIOUS
<1> HIDE DEF z
<1>3. Coalesced(g)
  <2> SUFFICES ASSUME NEW i \in DOMAIN g, NEW j \in DOMAIN g, Repeats(g, i, j) PROVE g[i].at < g[j].at
    BY DEF Coalesced
  <2>1. \A k \in i .. j : k \in DOMAIN g
    BY <1>1
  <2>2. Repeats(z, i, j)
    BY <1>1, <2>1 DEF Repeats
  <2> QED
    BY <1>1, <1>2, <2>2 DEF Coalesced
<1> QED
  BY <1>1, <1>3

(* What a step may do to the items of a subscriber p.                      *)
Steady(p) ==
  /\ Forwardings(p)' = Forwardings(p) /\ receiver'[p] = receiver[p] /\ last'[p] = last[p]
  /\ receiver[p] => (pc'[p] = "exited" <=> pc[p] = "exited")
Gives(p) ==
  /\ receiver[p] /\ receiver'[p] = receiver[p]
  /\ Forwardings(p)' = Append(Forwardings(p), hand[p]) /\ pc[p] # "exited"
  /\ \/ hand[p].kind = "audio" /\ last'[p] = last[p] /\ pc'[p] # "exited"
     \/ /\ hand[p].kind = "advice" /\ Forwarded(p) /\ pc'[p] # "exited"
        /\ last'[p] = [variant |-> hand[p].id, at |-> hand[p].at]
     \/ hand[p] = Fatal /\ last'[p] = last[p] /\ pc'[p] = "exited"
HangsUp(p) == ~receiver'[p] /\ Forwardings(p)' = got[p] \o <<>>

LEMMA SteadyIf ==
  ASSUME NEW p \in Reporting, UNCHANGED <<got[p], channel[p], receiver[p], last[p]>>,
         receiver[p] => (pc'[p] = "exited" <=> pc[p] = "exited")
  PROVE  Steady(p)
  BY Kinds DEF Steady, Forwardings

LEMMA GivesIf ==
  ASSUME TypeOK, NEW p \in Reporting, UNCHANGED <<got[p], receiver[p]>>, receiver[p],
         channel'[p] = Append(channel[p], hand[p])
  PROVE  Forwardings(p)' = Append(Forwardings(p), hand[p])
<1>1. p \in Subscribers /\ p \in Pumps /\ got[p] \in Seq(Items) /\ channel[p] \in Seq(Items) /\ hand[p] \in Items
  BY Kinds DEF TypeOK
<1>2. Forwardings(p) = got[p] \o channel[p] /\ Forwardings(p)' = got[p] \o Append(channel[p], hand[p])
  BY <1>1 DEF Forwardings
<1>3. got[p] \o Append(channel[p], hand[p]) = Append(got[p] \o channel[p], hand[p])
  BY <1>1, SentOn
<1> QED
  BY <1>2, <1>3

LEMMA ForwardStep ==
  ASSUME TypeOK, HandOK, [Next]_vars, NEW r \in Reporting
  PROVE  Steady(r) \/ Gives(r) \/ HangsUp(r)
<1>0. /\ r \in Subscribers /\ r \in Pumps /\ r \notin Drains /\ pc \in [Pumps -> {"top", "read", "deliver", "advise", "fatal", "flush", "close", "exited"}]
      /\ channel \in [Subscribers -> Seq(Items)] /\ got \in [Pumps -> Seq(Items)]
      /\ receiver \in [Subscribers -> BOOLEAN] /\ DOMAIN last = Reporting
      /\ hand[r] \in Items
  BY Kinds DEF TypeOK
<1>1. CASE StreamEnds
  BY <1>1, <1>0, SteadyIf DEF StreamEnds, Goto, Again, Start, Ended, Gone, Full, Sent, streamVars, channelVars, drainVars
<1>2. CASE Push
  BY <1>2, <1>0, SteadyIf DEF Push, Goto, Again, Start, Ended, Gone, Full, Sent, streamVars, channelVars, drainVars
<1>3. CASE Tick
  BY <1>3, <1>0, SteadyIf DEF Tick, Goto, Again, Start, Ended, Gone, Full, Sent, streamVars, channelVars, drainVars
<1>4. ASSUME NEW p \in Pumps, ReadEnded(p) PROVE Steady(r) \/ Gives(r) \/ HangsUp(r)
  BY <1>4, <1>0, SteadyIf DEF ReadEnded, Goto, Again, Start, Ended, Gone, Full, Sent, streamVars, channelVars, drainVars
<1>5. ASSUME NEW p \in Pumps, ReadData(p) PROVE Steady(r) \/ Gives(r) \/ HangsUp(r)
  BY <1>5, <1>0, SteadyIf DEF ReadData, Goto, Again, Start, Ended, Gone, Full, Sent, streamVars, channelVars, drainVars
<1>6. ASSUME NEW p \in Pumps, ReadNothing(p) PROVE Steady(r) \/ Gives(r) \/ HangsUp(r)
  BY <1>6, <1>0, SteadyIf DEF ReadNothing, Goto, Again, Start, Ended, Gone, Full, Sent, streamVars, channelVars, drainVars
<1>7. ASSUME NEW p \in Pumps, DeliverSent(p) PROVE Steady(r) \/ Gives(r) \/ HangsUp(r)
  <2>1. CASE p = r
    <3>1. UNCHANGED <<got[r], receiver[r]>> /\ receiver[r] /\ channel'[r] = Append(channel[r], hand[r])
      BY <1>7, <1>0, <2>1 DEF DeliverSent, Sent, streamVars, channelVars, drainVars
    <3>2. Forwardings(r)' = Append(Forwardings(r), hand[r])
      BY <3>1, GivesIf
    <3> QED
      BY <1>7, <1>0, <2>1, <3>1, <3>2 DEF DeliverSent, HandOK, Gives, Goto, Again, Start, streamVars, channelVars, drainVars
  <2>2. CASE p # r
    BY <1>7, <1>0, <2>2, SteadyIf DEF DeliverSent, Sent, Goto, Again, streamVars, channelVars, drainVars
  <2> QED
    BY <2>1, <2>2
<1>8. ASSUME NEW p \in Pumps, DeliverFull(p) PROVE Steady(r) \/ Gives(r) \/ HangsUp(r)
  BY <1>8, <1>0, SteadyIf DEF DeliverFull, Goto, Again, Start, Ended, Gone, Full, Sent, streamVars, channelVars, drainVars
<1>9. ASSUME NEW p \in Pumps, DeliverGone(p) PROVE Steady(r) \/ Gives(r) \/ HangsUp(r)
  BY <1>9, <1>0, SteadyIf DEF DeliverGone, Goto, Again, Start, Ended, Gone, Full, Sent, streamVars, channelVars, drainVars
<1>10. ASSUME NEW p \in Reporting, NEW v \in Variants, ReadError(p, v) PROVE Steady(r) \/ Gives(r) \/ HangsUp(r)
  BY <1>10, <1>0, SteadyIf DEF ReadError, Goto, Again, Start, Ended, Gone, Full, Sent, streamVars, channelVars, drainVars
<1>11. ASSUME NEW p \in Reporting, AdviseSent(p) PROVE Steady(r) \/ Gives(r) \/ HangsUp(r)
  <2>1. CASE p = r
    <3>1. UNCHANGED <<got[r], receiver[r]>> /\ receiver[r] /\ channel'[r] = Append(channel[r], hand[r])
      BY <1>11, <1>0, <2>1 DEF AdviseSent, Sent, streamVars, channelVars, drainVars
    <3>2. Forwardings(r)' = Append(Forwardings(r), hand[r])
      BY <3>1, GivesIf
    <3> QED
      BY <1>11, <1>0, <2>1, <3>1, <3>2 DEF AdviseSent, HandOK, Gives, Goto, Again, Start, streamVars, channelVars, drainVars
  <2>2. CASE p # r
    BY <1>11, <1>0, <2>2, SteadyIf DEF AdviseSent, Sent, Goto, Again, streamVars, channelVars, drainVars
  <2> QED
    BY <2>1, <2>2
<1>12. ASSUME NEW p \in Reporting, AdviseFull(p) PROVE Steady(r) \/ Gives(r) \/ HangsUp(r)
  BY <1>12, <1>0, SteadyIf DEF AdviseFull, Goto, Again, Start, Ended, Gone, Full, Sent, streamVars, channelVars, drainVars
<1>13. ASSUME NEW p \in Reporting, AdviseGone(p) PROVE Steady(r) \/ Gives(r) \/ HangsUp(r)
  BY <1>13, <1>0, SteadyIf DEF AdviseGone, Goto, Again, Start, Ended, Gone, Full, Sent, streamVars, channelVars, drainVars
<1>14. ASSUME NEW p \in Reporting, AdviseHeldBack(p) PROVE Steady(r) \/ Gives(r) \/ HangsUp(r)
  BY <1>14, <1>0, SteadyIf DEF AdviseHeldBack, Goto, Again, Start, Ended, Gone, Full, Sent, streamVars, channelVars, drainVars
<1>15. ASSUME NEW p \in Reporting, ReportEnd(p) PROVE Steady(r) \/ Gives(r) \/ HangsUp(r)
  <2>1. CASE Sent(p) /\ p = r
    <3>1. UNCHANGED <<got[r], receiver[r]>> /\ receiver[r] /\ channel'[r] = Append(channel[r], hand[r])
      BY <1>15, <1>0, <2>1 DEF ReportEnd, Sent, streamVars, channelVars, drainVars
    <3>2. Forwardings(r)' = Append(Forwardings(r), hand[r])
      BY <3>1, GivesIf
    <3> QED
      BY <1>15, <1>0, <2>1, <3>1, <3>2 DEF ReportEnd, HandOK, Gives, Goto, streamVars, channelVars, drainVars
  <2>2. CASE Sent(p) /\ p # r
    BY <1>15, <1>0, <2>2, SteadyIf DEF ReportEnd, Sent, Goto, streamVars, channelVars, drainVars
  <2>3. CASE ~receiver[p] /\ UNCHANGED channel
    BY <1>15, <1>0, <2>3, SteadyIf DEF ReportEnd, Goto, streamVars, channelVars, drainVars
  <2> QED
    BY <1>15, <2>1, <2>2, <2>3 DEF ReportEnd
<1>16. ASSUME NEW p \in Subscribers, Receive(p) PROVE Steady(r) \/ Gives(r) \/ HangsUp(r)
  <2>1. CASE p = r
    <3>1. /\ got'[r] = Append(got[r], Head(channel[r])) /\ channel'[r] = Tail(channel[r]) /\ channel[r] # <<>>
          /\ UNCHANGED <<pc, receiver, last>>
      BY <1>16, <1>0, <2>1 DEF Receive
    <3>2. got[r] \in Seq(Items) /\ channel[r] \in Seq(Items)
      BY <1>0
    <3>3. Forwardings(r)' = Forwardings(r)
      BY <1>0, <3>1, <3>2, Received DEF Forwardings
    <3> QED
      BY <3>1, <3>3 DEF Steady
  <2>2. CASE p # r
    BY <1>16, <1>0, <2>2, SteadyIf DEF Receive
  <2> QED
    BY <2>1, <2>2
<1>17. ASSUME NEW p \in Subscribers, DropReceiver(p) PROVE Steady(r) \/ Gives(r) \/ HangsUp(r)
  <2>1. CASE p = r
    <3>1. ~receiver'[r] /\ channel'[r] = <<>> /\ got' = got
      BY <1>17, <1>0, <2>1 DEF DropReceiver
    <3> QED
      BY <1>0, <3>1 DEF Forwardings, HangsUp
  <2>2. CASE p # r
    BY <1>17, <1>0, <2>2, SteadyIf DEF DropReceiver
  <2> QED
    BY <2>1, <2>2
<1>18. ASSUME NEW p \in Drains, DrainTop(p) PROVE Steady(r) \/ Gives(r) \/ HangsUp(r)
  BY <1>18, <1>0, SteadyIf DEF DrainTop, Goto, Again, Start, Ended, Gone, Full, Sent, streamVars, channelVars, drainVars
<1>19. ASSUME NEW p \in Drains, DrainWrite(p) PROVE Steady(r) \/ Gives(r) \/ HangsUp(r)
  BY <1>19, <1>0, SteadyIf DEF DrainWrite, Goto, Again, Start, Ended, Gone, Full, Sent, streamVars, channelVars, drainVars
<1>20. ASSUME NEW p \in Drains, DrainFlush(p) PROVE Steady(r) \/ Gives(r) \/ HangsUp(r)
  BY <1>20, <1>0, SteadyIf DEF DrainFlush, Goto, Again, Start, Ended, Gone, Full, Sent, streamVars, channelVars, drainVars
<1>21. ASSUME NEW p \in Drains, DrainClose(p) PROVE Steady(r) \/ Gives(r) \/ HangsUp(r)
  BY <1>21, <1>0, SteadyIf DEF DrainClose, Goto, Again, Start, Ended, Gone, Full, Sent, streamVars, channelVars, drainVars
<1>22. ASSUME NEW p \in Drains, Shutdown(p) PROVE Steady(r) \/ Gives(r) \/ HangsUp(r)
  BY <1>22, <1>0, SteadyIf DEF Shutdown, Goto, Again, Start, Ended, Gone, Full, Sent, streamVars, channelVars, drainVars
<1>25. ASSUME NEW p \in Drains, ShutdownSelf(p) PROVE Steady(r) \/ Gives(r) \/ HangsUp(r)
  BY <1>25, <1>0, SteadyIf DEF ShutdownSelf, Goto, Again, Start, Ended, Gone, Full, Sent, streamVars, channelVars, drainVars
<1>23. ASSUME NEW p \in Drains, Join(p) PROVE Steady(r) \/ Gives(r) \/ HangsUp(r)
  BY <1>23, <1>0, SteadyIf DEF Join, Goto, Again, Start, Ended, Gone, Full, Sent, streamVars, channelVars, drainVars
<1>24. CASE UNCHANGED vars
  BY <1>24, SteadyIf DEF vars, streamVars, channelVars, drainVars
<1> QED
  BY <1>1, <1>2, <1>3, <1>4, <1>5, <1>6, <1>7, <1>8, <1>9, <1>10, <1>11, <1>12, <1>13, <1>14, <1>15, <1>16, <1>17, <1>18, <1>19, <1>20, <1>21, <1>22, <1>23, <1>24, <1>25 DEF Next, PumpSteps, ReportSteps, DrainSteps

(* Time.                                                                   *)
LEMMA TimeStep == TypeOK /\ HandOK /\ TimeOK /\ [Next]_vars => TimeOK'
<1> SUFFICES ASSUME TypeOK /\ HandOK /\ TimeOK, [Next]_vars PROVE TimeOK'
  OBVIOUS
<1> USE Kinds, ItemKinds DEF TypeOK, HandOK, TimeOK, Goto, Again, Start, Ended, Gone, Full, Sent, streamVars, channelVars, drainVars
<1>1. CASE StreamEnds
  BY <1>1 DEF StreamEnds
<1>2. CASE Push
  BY <1>2 DEF Push
<1>3. CASE Tick
  BY <1>3 DEF Tick
<1>4. ASSUME NEW p \in Pumps, ReadEnded(p) PROVE TimeOK'
  BY <1>4 DEF ReadEnded
<1>5. ASSUME NEW p \in Pumps, ReadData(p) PROVE TimeOK'
  BY <1>5 DEF ReadData
<1>6. ASSUME NEW p \in Pumps, ReadNothing(p) PROVE TimeOK'
  BY <1>6 DEF ReadNothing
<1>7. ASSUME NEW p \in Pumps, DeliverSent(p) PROVE TimeOK'
  BY <1>7 DEF DeliverSent
<1>8. ASSUME NEW p \in Pumps, DeliverFull(p) PROVE TimeOK'
  BY <1>8 DEF DeliverFull
<1>9. ASSUME NEW p \in Pumps, DeliverGone(p) PROVE TimeOK'
  BY <1>9 DEF DeliverGone
<1>10. ASSUME NEW p \in Reporting, NEW v \in Variants, ReadError(p, v) PROVE TimeOK'
  BY <1>10 DEF ReadError
<1>11. ASSUME NEW p \in Reporting, AdviseSent(p) PROVE TimeOK'
  BY <1>11 DEF AdviseSent
<1>12. ASSUME NEW p \in Reporting, AdviseFull(p) PROVE TimeOK'
  BY <1>12 DEF AdviseFull
<1>13. ASSUME NEW p \in Reporting, AdviseGone(p) PROVE TimeOK'
  BY <1>13 DEF AdviseGone
<1>14. ASSUME NEW p \in Reporting, AdviseHeldBack(p) PROVE TimeOK'
  BY <1>14 DEF AdviseHeldBack
<1>15. ASSUME NEW p \in Reporting, ReportEnd(p) PROVE TimeOK'
  BY <1>15 DEF ReportEnd
<1>16. ASSUME NEW p \in Subscribers, Receive(p) PROVE TimeOK'
  BY <1>16 DEF Receive
<1>17. ASSUME NEW p \in Subscribers, DropReceiver(p) PROVE TimeOK'
  BY <1>17 DEF DropReceiver
<1>18. ASSUME NEW p \in Drains, DrainTop(p) PROVE TimeOK'
  BY <1>18 DEF DrainTop
<1>19. ASSUME NEW p \in Drains, DrainWrite(p) PROVE TimeOK'
  <2>1. CASE Again(p)
    BY <1>19, <2>1 DEF DrainWrite
  <2>2. CASE Goto(p, "flush") /\ hand' = [hand EXCEPT ![p] = Nothing]
    BY <1>19, <2>2 DEF DrainWrite
  <2> QED
    BY <1>19, <2>1, <2>2 DEF DrainWrite
<1>20. ASSUME NEW p \in Drains, DrainFlush(p) PROVE TimeOK'
  BY <1>20 DEF DrainFlush
<1>21. ASSUME NEW p \in Drains, DrainClose(p) PROVE TimeOK'
  BY <1>21 DEF DrainClose
<1>22. ASSUME NEW p \in Drains, Shutdown(p) PROVE TimeOK'
  BY <1>22 DEF Shutdown
<1>25. ASSUME NEW p \in Drains, ShutdownSelf(p) PROVE TimeOK'
  BY <1>25 DEF ShutdownSelf
<1>23. ASSUME NEW p \in Drains, Join(p) PROVE TimeOK'
  BY <1>23 DEF Join
<1>24. CASE UNCHANGED vars
  BY <1>24 DEF vars
<1> QED
  BY <1>1, <1>2, <1>3, <1>4, <1>5, <1>6, <1>7, <1>8, <1>9, <1>10, <1>11, <1>12, <1>13, <1>14, <1>15, <1>16, <1>17, <1>18, <1>19, <1>20, <1>21, <1>22, <1>23, <1>24, <1>25 DEF Next, PumpSteps, ReportSteps, DrainSteps

(* The sinks.                                                              *)
LEMMA DrainStep == TypeOK /\ HandOK /\ DrainOK /\ [Next]_vars => DrainOK'
<1> SUFFICES ASSUME TypeOK /\ HandOK /\ DrainOK, [Next]_vars PROVE DrainOK'
  OBVIOUS
<1> USE Kinds DEF TypeOK, HandOK, DrainOK, Goto, Again, Start, Ended, Gone, Full, Sent, streamVars, channelVars, drainVars
<1>1. CASE StreamEnds
  BY <1>1 DEF StreamEnds
<1>2. CASE Push
  BY <1>2 DEF Push
<1>3. CASE Tick
  BY <1>3 DEF Tick
<1>4. ASSUME NEW p \in Pumps, ReadEnded(p) PROVE DrainOK'
  BY <1>4 DEF ReadEnded
<1>5. ASSUME NEW p \in Pumps, ReadData(p) PROVE DrainOK'
  BY <1>5 DEF ReadData
<1>6. ASSUME NEW p \in Pumps, ReadNothing(p) PROVE DrainOK'
  BY <1>6 DEF ReadNothing
<1>7. ASSUME NEW p \in Pumps, DeliverSent(p) PROVE DrainOK'
  BY <1>7 DEF DeliverSent
<1>8. ASSUME NEW p \in Pumps, DeliverFull(p) PROVE DrainOK'
  BY <1>8 DEF DeliverFull
<1>9. ASSUME NEW p \in Pumps, DeliverGone(p) PROVE DrainOK'
  BY <1>9 DEF DeliverGone
<1>10. ASSUME NEW p \in Reporting, NEW v \in Variants, ReadError(p, v) PROVE DrainOK'
  BY <1>10 DEF ReadError
<1>11. ASSUME NEW p \in Reporting, AdviseSent(p) PROVE DrainOK'
  BY <1>11 DEF AdviseSent
<1>12. ASSUME NEW p \in Reporting, AdviseFull(p) PROVE DrainOK'
  BY <1>12 DEF AdviseFull
<1>13. ASSUME NEW p \in Reporting, AdviseGone(p) PROVE DrainOK'
  BY <1>13 DEF AdviseGone
<1>14. ASSUME NEW p \in Reporting, AdviseHeldBack(p) PROVE DrainOK'
  BY <1>14 DEF AdviseHeldBack
<1>15. ASSUME NEW p \in Reporting, ReportEnd(p) PROVE DrainOK'
  BY <1>15 DEF ReportEnd
<1>16. ASSUME NEW p \in Subscribers, Receive(p) PROVE DrainOK'
  BY <1>16 DEF Receive
<1>17. ASSUME NEW p \in Subscribers, DropReceiver(p) PROVE DrainOK'
  BY <1>17 DEF DropReceiver
<1>18. ASSUME NEW p \in Drains, DrainTop(p) PROVE DrainOK'
  BY <1>18 DEF DrainTop
<1>19. ASSUME NEW p \in Drains, DrainWrite(p) PROVE DrainOK'
  <2>1. CASE Again(p)
    BY <1>19, <2>1 DEF DrainWrite
  <2>2. CASE Goto(p, "flush") /\ hand' = [hand EXCEPT ![p] = Nothing]
    BY <1>19, <2>2 DEF DrainWrite
  <2> QED
    BY <1>19, <2>1, <2>2 DEF DrainWrite
<1>20. ASSUME NEW p \in Drains, DrainFlush(p) PROVE DrainOK'
  BY <1>20 DEF DrainFlush
<1>21. ASSUME NEW p \in Drains, DrainClose(p) PROVE DrainOK'
  BY <1>21 DEF DrainClose
<1>22. ASSUME NEW p \in Drains, Shutdown(p) PROVE DrainOK'
  BY <1>22 DEF Shutdown
<1>25. ASSUME NEW p \in Drains, ShutdownSelf(p) PROVE DrainOK'
  BY <1>25 DEF ShutdownSelf
<1>23. ASSUME NEW p \in Drains, Join(p) PROVE DrainOK'
  BY <1>23 DEF Join
<1>24. CASE UNCHANGED vars
  BY <1>24 DEF vars
<1> QED
  BY <1>1, <1>2, <1>3, <1>4, <1>5, <1>6, <1>7, <1>8, <1>9, <1>10, <1>11, <1>12, <1>13, <1>14, <1>15, <1>16, <1>17, <1>18, <1>19, <1>20, <1>21, <1>22, <1>23, <1>24, <1>25 DEF Next, PumpSteps, ReportSteps, DrainSteps

(* The forwarded items stay in order, and last_recoverable up to date.     *)
LEMMA ItemsStep ==
  ASSUME TypeOK, HandOK, EndOK, LastOK, TimeOK, [Next]_vars
  PROVE  EndOK' /\ LastOK'
<1> SUFFICES ASSUME NEW p \in Reporting
             PROVE  /\ receiver'[p] =>
                         IF pc'[p] = "exited" THEN Closed(Forwardings(p)') ELSE Quiet(Forwardings(p)')
                    /\ Coalesced(Forwardings(p)')
                    /\ receiver'[p] => Latest(Forwardings(p)', last'[p].variant, last'[p].at)
  BY DEF EndOK, LastOK
<1> DEFINE s == Forwardings(p)
<1>0. /\ got[p] \in Seq(Items) /\ channel[p] \in Seq(Items) /\ hand[p] \in Items
      /\ last[p].at \in Nat /\ s = got[p] \o channel[p] /\ p \in Subscribers /\ p \in Pumps
  <2>1. p \in Subscribers /\ p \in Pumps
    BY Kinds
  <2>2. got[p] \in Seq(Items) /\ channel[p] \in Seq(Items) /\ hand[p] \in Items
    BY <2>1 DEF TypeOK
  <2>3. last[p].at \in Nat
    BY Kinds DEF TypeOK
  <2>4. s = got[p] \o channel[p]
    BY <2>1 DEF Forwardings
  <2> QED
    BY <2>1, <2>2, <2>3, <2>4
<1>1. s \in Seq(Items)
  BY <1>0
<1>2. CASE Steady(p)
  BY <1>2 DEF Steady, EndOK, LastOK
<1>3. CASE Gives(p)
  <2>1. Quiet(s) /\ Coalesced(s) /\ Latest(s, last[p].variant, last[p].at)
    BY <1>3 DEF Gives, EndOK, LastOK
  <2>2. hand[p].kind = "advice" => last[p].variant # hand[p].id \/ hand[p].at > last[p].at
    BY <1>3, ItemKinds DEF Gives, Forwarded
  <2> DEFINE v == last[p].variant
             a == last[p].at
             x == hand[p]
  <2>3. x \in Items /\ a \in Nat /\ (x.kind = "advice" => Latest(s, v, a) /\ (v # x.id \/ x.at > a))
    BY <1>0, <2>1, <2>2
  <2>4. Coalesced(Append(s, x))
    <3> HIDE DEF s, v, a, x
    <3> QED
      BY <1>1, <2>1, <2>3, CoalescedAppended DEF v, a
  <2>5. /\ x.kind # "advice" => Latest(Append(s, x), v, a)
        /\ x.kind = "advice" => Latest(Append(s, x), x.id, x.at)
    <3> HIDE DEF s, v, a, x
    <3> QED
      BY <1>1, <2>1, <2>3, LatestAppended DEF v, a
  <2>6. /\ x.kind # "fatal" => Quiet(Append(s, x))
        /\ x = Fatal => Closed(Append(s, x))
    BY <1>1, <2>1, <2>3, EndAppended
  <2> QED
    BY <1>3, <2>4, <2>5, <2>6, ItemKinds DEF Gives
<1>4. CASE HangsUp(p)
  <2>1. Coalesced(got[p] \o channel[p])
    BY <1>0 DEF LastOK
  <2>2. Coalesced(got[p] \o <<>>)
    BY <1>0, <2>1, PrefixCoalesced
  <2> QED
    BY <1>4, <2>2 DEF HangsUp
<1> QED
  BY <1>2, <1>3, <1>4, ForwardStep

-----------------------------------------------------------------------------
IInv ==
  /\ TypeOK /\ HandOK /\ QueueOK /\ BuffersOK
  /\ EndOK /\ LastOK /\ TimeOK /\ DrainOK

LEMMA InitOK == Init => IInv
<1> SUFFICES ASSUME Init PROVE IInv
  OBVIOUS
<1>1. StreamType /\ PumpType /\ LastType /\ ChannelType /\ DrainType
  <2>1. StreamType
    <3>1. terminal \in BOOLEAN
      BY DEF Init
    <3> QED
      BY <3>1, Kinds DEF Init, StreamType
  <2>2. PumpType
    BY ItemKinds DEF Init, PumpType, Start
  <2>3. LastType
    BY Kinds DEF Init, LastType
  <2>4. ChannelType
    <3>1. <<>> \in Seq(Items) /\ Len(<<>>) = 0
      OBVIOUS
    <3>2. receiver \in [Subscribers -> BOOLEAN]
      BY DEF Init
    <3> QED
      BY <3>1, <3>2, Kinds DEF Init, ChannelType
  <2>5. DrainType
    <3>1. stopFlag \in [Drains -> BOOLEAN]
      BY DEF Init
    <3> QED
      BY <3>1 DEF Init, DrainType
  <2> QED
    BY <2>1, <2>2, <2>3, <2>4, <2>5
<1>2. HandOK /\ QueueOK /\ DrainOK
  BY Kinds DEF Init, HandOK, QueueOK, DrainOK, Start
<1>3. BuffersOK
  <2>1. /\ \A p \in Pumps : G[p] = {} /\ C[p] = {} /\ H[p] = {}
        /\ Q = {} /\ lost = {} /\ pushed = 0 /\ dropped = 0
    BY IdsOfNone, ItemKinds DEF Init, G, C, H, Q, Own
  <2>2. Somewhere(G, C, H, Q, lost) = {}
    BY <2>1 DEF Somewhere, Places
  <2>3. Sound(G, C, H, Q, lost, pushed, dropped)
    BY <2>1, <2>2, FS_EmptySet DEF Sound, Places
  <2> QED
    BY <2>3 DEF Init, BuffersOK, Distinct
<1>4. EndOK /\ LastOK /\ TimeOK
  <2>1. \A p \in Reporting : Forwardings(p) = <<>> /\ pc[p] = "read" /\ last[p].variant = "none" /\ last[p].at = 0
    <3>1. <<>> \o <<>> = <<>>
      OBVIOUS
    <3> QED
      BY <3>1, Kinds DEF Init, Forwardings, Start
  <2>2. Quiet(<<>>) /\ Coalesced(<<>>) /\ Latest(<<>>, "none", 0)
    BY DEF Quiet, Coalesced, Latest
  <2>3. EndOK /\ LastOK
    BY <2>1, <2>2 DEF EndOK, LastOK
  <2>4. TimeOK
    BY <2>1 DEF Init, TimeOK
  <2> QED
    BY <2>3, <2>4
<1> QED
  BY <1>1, <1>2, <1>3, <1>4, TypeParts DEF IInv

(* The inductive invariant holds of every behaviour: every buffer is in    *)
(* one place, every item in its order.                                     *)
THEOREM Ledger == Spec => []IInv
<1>1. IInv /\ [Next]_vars => IInv'
  <2> SUFFICES ASSUME IInv, [Next]_vars PROVE IInv'
    OBVIOUS
  <2>1. TypeOK /\ HandOK /\ StreamType /\ PumpType /\ LastType /\ ChannelType /\ DrainType
    BY TypeParts DEF IInv
  <2>2. StreamType' /\ PumpType' /\ LastType' /\ ChannelType' /\ DrainType'
    BY <2>1, StreamTypeStep, PumpTypeStep, LastTypeStep, ChannelTypeStep, DrainTypeStep
  <2>3. TypeOK'
    BY <2>2 DEF TypeOK, StreamType, PumpType, LastType, ChannelType, DrainType
  <2>4. HandOK' /\ QueueOK' /\ BuffersOK' /\ EndOK' /\ LastOK' /\ TimeOK' /\ DrainOK'
    BY HandStep, QueueStep, BuffersStep, ItemsStep, TimeStep, DrainStep DEF IInv
  <2> QED
    BY <2>3, <2>4 DEF IInv
<1> QED
  BY InitOK, <1>1, PTL DEF Spec

(* Every variable keeps its type: the ring and the channels keep to their  *)
(* bounds.                                                                 *)
THEOREM TypeCorrect == Spec => []TypeOK
<1>1. IInv => TypeOK
  BY DEF IInv
<1> QED
  BY Ledger, <1>1, PTL

(* However many pumps compete for a ring, every buffer is in one place,    *)
(* and the ones that are nowhere have been counted.                        *)
THEOREM AllAccounted == Spec => []BuffersAccounted
<1>1. IInv => BuffersAccounted
  <2> SUFFICES ASSUME IInv PROVE BuffersAccounted
    OBVIOUS
  <2>1. ASSUME NEW p \in Pumps PROVE AudioIds(Taken(p)) = Places(G, C, H, p)
    <3>1. got[p] \in Seq(Items) /\ hand[p] \in Items /\ (p \in Subscribers => channel[p] \in Seq(Items))
      BY DEF IInv, TypeOK
    <3> DEFINE c == IF p \in Subscribers THEN channel[p] ELSE <<>>
               h == IF hand[p] = Nothing THEN <<>> ELSE <<hand[p]>>
    <3>0. <<>> \in Seq(Items) /\ <<hand[p]>> \in Seq(Items)
      BY <3>1
    <3>2. c \in Seq(Items) /\ AudioIds(c) = C[p]
      <4>1. CASE p \in Subscribers
        BY <3>1, <4>1 DEF C
      <4>2. CASE p \notin Subscribers
        BY <3>0, <4>2, IdsOfNone DEF C
      <4> QED
        BY <4>1, <4>2
    <3>3. h \in Seq(Items) /\ AudioIds(h) = H[p]
      <4>1. CASE hand[p] = Nothing
        BY <3>0, <4>1, IdsOfNone, ItemKinds DEF H, Own
      <4>2. CASE hand[p] # Nothing
        BY <3>0, <4>2, IdsOfNone DEF H
      <4> QED
        BY <4>1, <4>2
    <3>4. Forwardings(p) = got[p] \o c /\ Taken(p) = Forwardings(p) \o h /\ G[p] = AudioIds(got[p])
      BY DEF Forwardings, Taken, G
    <3> HIDE DEF c, h
    <3>5. Forwardings(p) \in Seq(Items) /\ AudioIds(Forwardings(p)) = AudioIds(got[p]) \union AudioIds(c)
      BY <3>1, <3>2, <3>4, IdsOfConcat
    <3>6. AudioIds(Taken(p)) = AudioIds(Forwardings(p)) \union AudioIds(h)
      <4> DEFINE f == Forwardings(p)
      <4>1. f \in Seq(Items) /\ Taken(p) = f \o h
        BY <3>4, <3>5
      <4> HIDE DEF f
      <4>2. AudioIds(f \o h) = AudioIds(f) \union AudioIds(h)
        BY <3>3, <4>1, IdsOfConcat
      <4>3. AudioIds(Taken(p)) = AudioIds(f) \union AudioIds(h)
        BY <4>1, <4>2
      <4> QED
        BY <4>3 DEF f
    <3> QED
      BY <3>2, <3>3, <3>4, <3>5, <3>6 DEF Places
  <2> DEFINE held == UNION {AudioIds(Taken(p)) : p \in Pumps}
  <2>2. held = UNION {Places(G, C, H, p) : p \in Pumps}
    BY <2>1
  <2>3. Sound(G, C, H, Q, lost, pushed, dropped)
    BY DEF IInv, BuffersOK
  <2>4. held \union Q \union lost = Somewhere(G, C, H, Q, lost)
    BY <2>2 DEF Somewhere
  <2>5. held \intersect Q = {} /\ lost \intersect (held \union Q) = {}
    BY <2>2, <2>3 DEF Sound
  <2>6. \A p, q \in Pumps : p # q => AudioIds(Taken(p)) \intersect AudioIds(Taken(q)) = {}
    BY <2>1, <2>3 DEF Sound
  <2>7. pushed = dropped + Cardinality(held \union Q \union lost)
    BY <2>3, <2>4 DEF Sound
  <2> QED
    BY <2>5, <2>6, <2>7 DEF BuffersAccounted, Q
<1> QED
  BY Ledger, <1>1, PTL

(* A reporting subscriber whose pump is gone was told why, as its last     *)
(* item; a drain that was shut down has flushed and closed its sink, and   *)
(* one shut down from its own thread reads no more and will do so.         *)
THEOREM NoLooseEnds == Spec => []EndsTidily
<1>1. IInv => EndReported
  <2> SUFFICES ASSUME IInv, NEW p \in Reporting, receiver[p]
               PROVE  /\ \A i \in DOMAIN Forwardings(p) : Forwardings(p)[i] = Fatal => i = Len(Forwardings(p))
                      /\ pc[p] = "exited" =>
                           Forwardings(p) # <<>> /\ Forwardings(p)[Len(Forwardings(p))] = Fatal
    BY DEF EndReported
  <2> QED
    BY ItemKinds DEF IInv, EndOK, Quiet, Closed
<1>2. IInv => ShutdownFinalizes
  BY Kinds DEF IInv, HandOK, DrainOK, ShutdownFinalizes
<1> QED
  BY Ledger, <1>1, <1>2, PTL DEF EndsTidily

(* Coalescing thins a storm of recoverable errors and hides none.          *)
THEOREM NothingHidden == Spec => []ErrorsCoalesced
<1>1. IInv => RepeatsApart
  BY DEF IInv, LastOK, Coalesced, RepeatsApart
<1>2. IInv => HeldBackWasHeard
  <2> SUFFICES ASSUME IInv, NEW p \in Reporting, receiver[p], pc[p] = "advise", ~Forwarded(p)
               PROVE  \E i \in DOMAIN Forwardings(p) :
                        /\ Forwardings(p)[i].kind = "advice" /\ Forwardings(p)[i].id = hand[p].id
                        /\ Forwardings(p)[i].at = hand[p].at
    BY DEF HeldBackWasHeard
  <2>1. /\ hand[p] \in Items /\ hand[p].kind = "advice" /\ last[p].at \in Nat /\ hand[p].at \in Nat
        /\ last[p].variant = hand[p].id /\ ~(hand[p].at > last[p].at) /\ last[p].at <= hand[p].at
    <3>1. hand[p] \in Items /\ hand[p].kind = "advice"
      BY Kinds DEF IInv, TypeOK, HandOK
    <3>2. last[p].at \in Nat /\ hand[p].at \in Nat
      BY <3>1, Kinds, ItemKinds DEF IInv, TypeOK
    <3> QED
      BY <3>1, <3>2 DEF IInv, TimeOK, Forwarded
  <2>2. hand[p].at = last[p].at /\ last[p].variant # "none"
    BY <2>1, ItemKinds, Kinds
  <2>3. Latest(Forwardings(p), last[p].variant, last[p].at)
    BY DEF IInv, LastOK
  <2> QED
    BY <2>1, <2>2, <2>3 DEF Latest
<1> QED
  BY Ledger, <1>1, <1>2, PTL DEF ErrorsCoalesced
=============================================================================
