-------------------------------- MODULE Pumps --------------------------------
(***************************************************************************)
(* The background threads that drain a capture stream for its owner        *)
(* (src/api.rs): subscribe and subscribe_with_errors forward buffers over  *)
(* a bounded channel, drain_to writes them to a sink.  Any number of them  *)
(* may run on one stream and compete for its ring.                         *)
(*                                                                         *)
(* The stream is its ring and whether it is terminal: a pump cannot tell a *)
(* Stopping stream from a Running one, nor Stopped from Error.  A read is  *)
(* one step here; BridgeStream takes it apart.                             *)
(***************************************************************************)
EXTENDS Integers, Sequences, FiniteSets

CONSTANTS
  Plain,      \* subscribe threads
  Reporting,  \* subscribe_with_errors threads
  Drains,     \* drain_to threads
  Variants,   \* kinds of recoverable read error
  Capacity,   \* slots of the ring
  Room,       \* SUBSCRIBE_CHANNEL_CAPACITY
  MaxPush,    \* bound of the model: buffers that enter the ring
  MaxErrors,  \* bound of the model: recoverable errors of the stream
  MaxTicks    \* bound of the model: RECOVERABLE_ERROR_FORWARD_INTERVALs that pass

Subscribers == Plain \union Reporting
Pumps == Subscribers \union Drains

ASSUME PumpsAssumption ==
  /\ Plain \intersect Reporting = {} /\ Subscribers \intersect Drains = {}
  /\ "none" \notin Variants
  /\ Capacity \in Nat \ {0} /\ Room \in Nat \ {0}
  /\ MaxPush \in Nat /\ MaxErrors \in Nat /\ MaxTicks \in Nat

VARIABLES
  terminal,  \* the stream refuses reads with StreamEnded, for good
  ring,      \* the buffers in the ring, numbered as they were pushed
  pushed,    \* history: buffers that entered the ring
  errors,    \* history: recoverable errors of the stream
  clock,     \* intervals that have passed
  pc,        \* where each pump is
  hand,      \* the item each pump is about to deliver
  last,      \* last_recoverable
  channel,   \* the bounded channel of each subscriber
  receiver,  \* TRUE while the subscriber holds its Receiver
  dropped,   \* subscriber_dropped, shared by the subscriptions of a handle
  got,       \* history: what each subscriber received, or its sink was given
  lost,      \* history: buffers whose receiver was gone or whose sink failed
  stopFlag,  \* DrainHandle::stop_flag
  handle,    \* DrainHandle: "held", "joining", "joined", or "detached": given
             \* up on the drain thread itself
  sink       \* what the drain did to its sink: "open", "flushed", "closed"

streamVars == <<terminal, ring, pushed, errors, clock>>
channelVars == <<channel, receiver, dropped, got, lost>>
drainVars == <<stopFlag, handle, sink>>
vars == <<streamVars, pc, hand, last, channelVars, drainVars>>

Audio(n) == [kind |-> "audio", id |-> n]
Advice(v) == [kind |-> "advice", id |-> v, at |-> clock]
Fatal == [kind |-> "fatal", id |-> 0]
Nothing == [kind |-> "none", id |-> 0]

AudioIds(items) == {items[i].id : i \in {j \in DOMAIN items : items[j].kind = "audio"}}

(* A pump starts its loop here: a drain looks at its stop flag first.      *)
Start(p) == IF p \in Drains THEN "top" ELSE "read"

Init ==
  /\ terminal = FALSE /\ ring = <<>> /\ pushed = 0 /\ errors = 0 /\ clock = 0
  /\ pc = [p \in Pumps |-> Start(p)]
  /\ hand = [p \in Pumps |-> Nothing]
  /\ last = [p \in Reporting |-> [variant |-> "none", at |-> 0]]
  /\ channel = [p \in Subscribers |-> <<>>]
  /\ receiver = [p \in Subscribers |-> TRUE]
  /\ dropped = 0
  /\ got = [p \in Pumps |-> <<>>]
  /\ lost = {}
  /\ stopFlag = [d \in Drains |-> FALSE]
  /\ handle = [d \in Drains |-> "held"]
  /\ sink = [d \in Drains |-> "open"]

Goto(p, place) == pc' = [pc EXCEPT ![p] = place]
Again(p) == Goto(p, Start(p)) /\ hand' = [hand EXCEPT ![p] = Nothing]

-----------------------------------------------------------------------------
(* The stream and the clock.                                               *)

StreamEnds ==
  /\ ~terminal
  /\ terminal' = TRUE
  /\ UNCHANGED <<ring, pushed, errors, clock, pc, hand, last, channelVars, drainVars>>

Push ==
  /\ pushed < MaxPush /\ Len(ring) < Capacity
  /\ ring' = Append(ring, pushed + 1)
  /\ pushed' = pushed + 1
  /\ UNCHANGED <<terminal, errors, clock, pc, hand, last, channelVars, drainVars>>

Tick ==
  /\ clock < MaxTicks
  /\ clock' = clock + 1
  /\ UNCHANGED <<terminal, ring, pushed, errors, pc, hand, last, channelVars, drainVars>>

-----------------------------------------------------------------------------
(* try_read_chunk.                                                         *)

(* Fault: the end of the stream is retried like any other error.           *)
Ended_Retried(p) == Again(p)

(* The fatal StreamEnded ends a subscription silently, is reported by a    *)
(* reporting one, and sends a drain to finalize its sink.                  *)
Ended(p) ==
  /\ Goto(p, IF p \in Reporting THEN "fatal" ELSE IF p \in Drains THEN "flush" ELSE "exited")
  /\ hand' = [hand EXCEPT ![p] = IF p \in Reporting THEN Fatal ELSE Nothing]

ReadEnded(p) ==
  /\ pc[p] = "read" /\ terminal
  /\ Ended(p)
  /\ UNCHANGED <<streamVars, last, channelVars, drainVars>>

ReadData(p) ==
  /\ pc[p] = "read" /\ ~terminal /\ ring # <<>>
  /\ hand' = [hand EXCEPT ![p] = Audio(Head(ring))]
  /\ ring' = Tail(ring)
  /\ Goto(p, "deliver")
  /\ UNCHANGED <<terminal, pushed, errors, clock, last, channelVars, drainVars>>

(* An empty ring means a nap of a millisecond and another try, and so does *)
(* a recoverable error except for a reporting subscription.                *)
ReadNothing(p) ==
  /\ pc[p] = "read" /\ ~terminal
  /\ Again(p)
  /\ UNCHANGED <<streamVars, last, channelVars, drainVars>>

ReadError(p, v) ==
  /\ pc[p] = "read" /\ ~terminal /\ errors < MaxErrors
  /\ errors' = errors + 1
  /\ Goto(p, "advise")
  /\ hand' = [hand EXCEPT ![p] = Advice(v)]
  /\ UNCHANGED <<terminal, ring, pushed, clock, last, channelVars, drainVars>>

-----------------------------------------------------------------------------
(* The subscription threads.  try_send puts an item into the channel, finds*)
(* it full, or finds the receiver gone.                                    *)

Full(p) == receiver[p] /\ Len(channel[p]) = Room
Sent(p) ==
  /\ receiver[p] /\ Len(channel[p]) < Room
  /\ channel' = [channel EXCEPT ![p] = Append(@, hand[p])]
Gone(p) ==
  /\ ~receiver[p]
  /\ Goto(p, "exited")
  /\ hand' = [hand EXCEPT ![p] = Nothing]

DeliverSent(p) ==
  /\ p \in Subscribers /\ pc[p] = "deliver"
  /\ Sent(p) /\ Again(p)
  /\ UNCHANGED <<streamVars, last, receiver, dropped, got, lost, drainVars>>

(* Fault: a buffer that meets a full channel is not counted.               *)
DeliverFull_Uncounted(p) ==
  /\ p \in Subscribers /\ pc[p] = "deliver"
  /\ Full(p) /\ Again(p)
  /\ UNCHANGED <<streamVars, last, channelVars, drainVars>>

DeliverFull(p) ==
  /\ p \in Subscribers /\ pc[p] = "deliver"
  /\ Full(p) /\ Again(p)
  /\ dropped' = dropped + 1
  /\ UNCHANGED <<streamVars, last, channel, receiver, got, lost, drainVars>>

DeliverGone(p) ==
  /\ p \in Subscribers /\ pc[p] = "deliver"
  /\ Gone(p)
  /\ lost' = lost \union {hand[p].id}
  /\ UNCHANGED <<streamVars, last, channel, receiver, dropped, got, drainVars>>

(* Coalescing: the variant forwarded last waits for the interval.          *)
Forwarded(p) ==
  last[p].variant # hand[p].id \/ hand[p].at > last[p].at

(* The cooldown is armed by an error that was delivered, with the time of  *)
(* the read.                                                               *)
AdviseSent(p) ==
  /\ pc[p] = "advise" /\ Forwarded(p)
  /\ Sent(p) /\ Again(p)
  /\ last' = [last EXCEPT ![p] = [variant |-> hand[p].id, at |-> hand[p].at]]
  /\ UNCHANGED <<streamVars, receiver, dropped, got, lost, drainVars>>

(* Fault: an error that met a full channel arms the cooldown too.          *)
AdviseFull_Arms(p) ==
  /\ pc[p] = "advise" /\ Forwarded(p)
  /\ Full(p) /\ Again(p)
  /\ last' = [last EXCEPT ![p] = [variant |-> hand[p].id, at |-> hand[p].at]]
  /\ UNCHANGED <<streamVars, channelVars, drainVars>>

AdviseFull(p) ==
  /\ pc[p] = "advise" /\ Forwarded(p)
  /\ Full(p) /\ Again(p)
  /\ UNCHANGED <<streamVars, last, channelVars, drainVars>>

AdviseGone(p) ==
  /\ pc[p] = "advise" /\ Forwarded(p)
  /\ Gone(p)
  /\ UNCHANGED <<streamVars, last, channelVars, drainVars>>

AdviseHeldBack(p) ==
  /\ pc[p] = "advise" /\ ~Forwarded(p)
  /\ Again(p)
  /\ UNCHANGED <<streamVars, last, channelVars, drainVars>>

(* Fault: the terminal error is sent like a buffer.                        *)
ReportEnd_TrySend(p) ==
  /\ pc[p] = "fatal"
  /\ Goto(p, "exited") /\ hand' = [hand EXCEPT ![p] = Nothing]
  /\ \/ Sent(p)
     \/ Full(p) /\ UNCHANGED channel
     \/ ~receiver[p] /\ UNCHANGED channel
  /\ UNCHANGED <<streamVars, last, receiver, dropped, got, lost, drainVars>>

(* The terminal error is sent with a blocking send.                        *)
ReportEnd(p) ==
  /\ pc[p] = "fatal"
  /\ Goto(p, "exited") /\ hand' = [hand EXCEPT ![p] = Nothing]
  /\ \/ Sent(p)
     \/ ~receiver[p] /\ UNCHANGED channel
  /\ UNCHANGED <<streamVars, last, receiver, dropped, got, lost, drainVars>>

(* The subscriber.                                                         *)
Receive(p) ==
  /\ receiver[p] /\ channel[p] # <<>>
  /\ got' = [got EXCEPT ![p] = Append(@, Head(channel[p]))]
  /\ channel' = [channel EXCEPT ![p] = Tail(@)]
  /\ UNCHANGED <<streamVars, pc, hand, last, receiver, dropped, lost, drainVars>>

DropReceiver(p) ==
  /\ receiver[p]
  /\ receiver' = [receiver EXCEPT ![p] = FALSE]
  /\ channel' = [channel EXCEPT ![p] = <<>>]
  /\ lost' = lost \union AudioIds(channel[p])
  /\ UNCHANGED <<streamVars, pc, hand, last, dropped, got, drainVars>>

-----------------------------------------------------------------------------
(* The drain thread and its handle.                                        *)

DrainTop(d) ==
  /\ pc[d] = "top"
  /\ Goto(d, IF stopFlag[d] THEN "flush" ELSE "read")
  /\ UNCHANGED <<streamVars, hand, last, channelVars, drainVars>>

(* A write that fails for good ends the drain, another failure does not.   *)
DrainWrite(d) ==
  /\ d \in Drains /\ pc[d] = "deliver"
  /\ \/ /\ got' = [got EXCEPT ![d] = Append(@, hand[d])]
        /\ Again(d) /\ UNCHANGED lost
     \/ /\ lost' = lost \union {hand[d].id}
        /\ \/ Again(d)
           \/ Goto(d, "flush") /\ hand' = [hand EXCEPT ![d] = Nothing]
        /\ UNCHANGED got
  /\ UNCHANGED <<streamVars, last, channel, receiver, dropped, drainVars>>

(* A flush or a close that fails is logged.                                *)
DrainFlush(d) ==
  /\ pc[d] = "flush"
  /\ sink' = [sink EXCEPT ![d] = "flushed"]
  /\ Goto(d, "close")
  /\ UNCHANGED <<streamVars, hand, last, channelVars, stopFlag, handle>>

DrainClose(d) ==
  /\ pc[d] = "close"
  /\ sink' = [sink EXCEPT ![d] = IF @ = "flushed" THEN "closed" ELSE "unflushed"]
  /\ Goto(d, "exited")
  /\ UNCHANGED <<streamVars, hand, last, channelVars, stopFlag, handle>>

(* shutdown and Drop from another thread: set the flag, then join.         *)
Shutdown(d) ==
  /\ handle[d] = "held"
  /\ stopFlag' = [stopFlag EXCEPT ![d] = TRUE]
  /\ handle' = [handle EXCEPT ![d] = "joining"]
  /\ UNCHANGED <<streamVars, pc, hand, last, channelVars, sink>>

(* Fault: shutdown on the drain thread forgets the flag.                   *)
ShutdownSelf_NoFlag(d) ==
  /\ handle[d] = "held" /\ pc[d] \in {"deliver", "flush", "close"}
  /\ handle' = [handle EXCEPT ![d] = "detached"]
  /\ UNCHANGED <<streamVars, pc, hand, last, channelVars, stopFlag, sink>>

(* shutdown and Drop on the drain thread itself, from a sink that holds    *)
(* the handle, inside its write, flush or close: the flag is set, nothing  *)
(* is joined, and the handle is gone when the call returns.                *)
ShutdownSelf(d) ==
  /\ handle[d] = "held" /\ pc[d] \in {"deliver", "flush", "close"}
  /\ stopFlag' = [stopFlag EXCEPT ![d] = TRUE]
  /\ handle' = [handle EXCEPT ![d] = "detached"]
  /\ UNCHANGED <<streamVars, pc, hand, last, channelVars, sink>>

Join(d) ==
  /\ handle[d] = "joining" /\ pc[d] = "exited"
  /\ handle' = [handle EXCEPT ![d] = "joined"]
  /\ UNCHANGED <<streamVars, pc, hand, last, channelVars, stopFlag, sink>>

-----------------------------------------------------------------------------
PumpSteps(p) ==
  \/ ReadEnded(p) \/ ReadData(p) \/ ReadNothing(p)
  \/ DeliverSent(p) \/ DeliverFull(p) \/ DeliverGone(p)
ReportSteps(p) ==
  AdviseSent(p) \/ AdviseFull(p) \/ AdviseGone(p) \/ AdviseHeldBack(p) \/ ReportEnd(p)
DrainSteps(d) == DrainTop(d) \/ DrainWrite(d) \/ DrainFlush(d) \/ DrainClose(d)

Next ==
  \/ StreamEnds \/ Push \/ Tick
  \/ \E p \in Pumps : PumpSteps(p)
  \/ \E p \in Reporting, v \in Variants : ReadError(p, v)
  \/ \E p \in Reporting : ReportSteps(p)
  \/ \E p \in Subscribers : Receive(p) \/ DropReceiver(p)
  \/ \E d \in Drains : DrainSteps(d) \/ Shutdown(d) \/ ShutdownSelf(d) \/ Join(d)

Spec == Init /\ [][Next]_vars

(* The threads run, a sink's write returns, a join returns once it can.    *)
(* Nobody need receive, drop the receiver, or shut a drain down, and the   *)
(* stream need not end.                                                    *)
FairSpec ==
  /\ Spec
  /\ \A p \in Pumps : WF_vars(PumpSteps(p))
  /\ \A p \in Reporting : WF_vars(ReportSteps(p))
  /\ \A d \in Drains : WF_vars(DrainSteps(d) \/ Join(d))
-----------------------------------------------------------------------------
(* Type invariant.                                                         *)
Items ==
  {Nothing, Fatal} \union [kind : {"audio"}, id : 1 .. MaxPush]
    \union [kind : {"advice"}, id : Variants, at : 0 .. MaxTicks]
TypeOK ==
  /\ terminal \in BOOLEAN /\ ring \in Seq(1 .. MaxPush) /\ Len(ring) <= Capacity
  /\ pushed \in 0 .. MaxPush /\ errors \in 0 .. MaxErrors /\ clock \in 0 .. MaxTicks
  /\ pc \in [Pumps -> {"top", "read", "deliver", "advise", "fatal", "flush",
                        "close", "exited"}]
  /\ hand \in [Pumps -> Items]
  /\ last \in [Reporting -> [variant : Variants \union {"none"}, at : 0 .. MaxTicks]]
  /\ channel \in [Subscribers -> Seq(Items)] /\ receiver \in [Subscribers -> BOOLEAN]
  /\ \A p \in Subscribers : Len(channel[p]) <= Room
  /\ dropped \in Nat /\ got \in [Pumps -> Seq(Items)] /\ lost \subseteq 1 .. MaxPush
  /\ stopFlag \in [Drains -> BOOLEAN] /\ handle \in [Drains -> {"held", "joining", "joined", "detached"}]
  /\ sink \in [Drains -> {"open", "flushed", "closed", "unflushed"}]

(* What a pump has taken from the ring, in the order in which it took it:  *)
(* received, then waiting in the channel, then in its hand.                *)
Forwardings(p) == got[p] \o (IF p \in Subscribers THEN channel[p] ELSE <<>>)
Taken(p) == Forwardings(p) \o (IF hand[p] = Nothing THEN <<>> ELSE <<hand[p]>>)

(* However the pumps compete, every buffer that entered the ring is in one *)
(* place, and the buffers in no place at all are the ones that             *)
(* subscriber_dropped counts: a subscriber that keeps its receiver loses   *)
(* nothing that is not counted.                                            *)
BuffersAccounted ==
  LET held == UNION {AudioIds(Taken(p)) : p \in Pumps}
      queued == {ring[i] : i \in DOMAIN ring}
  IN  /\ \A p, q \in Pumps : p # q => AudioIds(Taken(p)) \intersect AudioIds(Taken(q)) = {}
      /\ held \intersect queued = {} /\ lost \intersect (held \union queued) = {}
      /\ pushed = dropped + Cardinality(held \union queued \union lost)

(* A reporting subscription whose pump is gone has been told why, as its   *)
(* last item, however full its channel was; nothing follows that item.     *)
EndReported ==
  \A p \in Reporting : receiver[p] =>
    LET items == Forwardings(p)
    IN  /\ \A i \in DOMAIN items : items[i] = Fatal => i = Len(items)
        /\ pc[p] = "exited" => items # <<>> /\ items[Len(items)] = Fatal

(* Two errors of one variant with no other variant between them are an     *)
(* interval apart.                                                         *)
Repeats(items, i, j) ==
  /\ i < j /\ items[i].kind = "advice" /\ items[j].kind = "advice"
  /\ \A k \in i .. j : items[k].kind = "advice" => items[k].id = items[i].id
RepeatsApart ==
  \A p \in Reporting :
    LET items == Forwardings(p)
    IN  \A i, j \in DOMAIN items : Repeats(items, i, j) => items[i].at < items[j].at

(* An error is held back only if the subscriber has been given one of the  *)
(* same variant in the same interval: an error that met a full channel     *)
(* does not silence the next one.                                          *)
HeldBackWasHeard ==
  \A p \in Reporting : receiver[p] /\ pc[p] = "advise" /\ ~Forwarded(p) =>
    \E i \in DOMAIN Forwardings(p) :
      LET item == Forwardings(p)[i]
      IN  item.kind = "advice" /\ item.id = hand[p].id /\ item.at = hand[p].at

(* Coalescing thins a storm of recoverable errors and hides none: repeats  *)
(* are an interval apart, and what was held back had been heard.           *)
ErrorsCoalesced == RepeatsApart /\ HeldBackWasHeard

(* When a shutdown that could join returns, the sink has been flushed and  *)
(* then closed, after the last write, whichever way the thread left its    *)
(* loop.  A shutdown on the drain thread returns with the sink unfinished: *)
(* then the buffer in hand is the last that is read, and the thread does   *)
(* not exit before the sink is closed.                                     *)
ShutdownFinalizes ==
  \A d \in Drains :
    /\ handle[d] = "joined" => sink[d] = "closed" /\ hand[d] = Nothing
    /\ handle[d] = "detached" => pc[d] # "read" /\ (pc[d] = "exited" => sink[d] = "closed")

(* No consumer is left with a loose end: a reporting subscriber knows why  *)
(* the stream ended, a drain's sink is complete.                           *)
EndsTidily == EndReported /\ ShutdownFinalizes

(* The end of the stream ends every pump, except that a reporting one      *)
(* waits for a subscriber that has stopped receiving; shutdown ends a      *)
(* drain over a live stream, and returns; called on the drain thread it    *)
(* returns first, and the sink is closed later.                            *)
PumpsEnd ==
  /\ terminal
       ~> \A p \in Pumps :
            pc[p] = "exited" \/ (p \in Reporting /\ pc[p] = "fatal" /\ Full(p))
  /\ \A d \in Drains : handle[d] # "held" ~> handle[d] # "joining" /\ sink[d] = "closed"

=============================================================================
