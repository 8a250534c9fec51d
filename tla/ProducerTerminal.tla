--------------------------- MODULE ProducerTerminal ---------------------------
(***************************************************************************)
(* The producer-side terminal-signal contract (ADR-0010), which every      *)
(* capture backend promises to the readers of its bridge: BridgeProducer's *)
(* signal_done and signal_error over AtomicStreamState.  A producer that   *)
(* is over has left the word where readers see it, pushes nothing more,    *)
(* and never turns a graceful end into an error afterwards.  The word may  *)
(* be told before the producer is over: a push that panics poisons it, and *)
(* nothing stops the callbacks that follow from pushing.                   *)
(*                                                                         *)
(* Each backend module instantiates this one.                              *)
(***************************************************************************)
EXTENDS Naturals

VARIABLES
  word,       \* the lifecycle word
  producer,   \* "none" before the first capture, "live", "over"
  pushed      \* flips with each buffer offered to the ring

vars == <<word, producer, pushed>>

Init == word = "Created" /\ producer = "none" /\ pushed = 0

(* create_stream moves the word before the producer can run.               *)
Open ==
  /\ word = "Created" /\ word' = "Running"
  /\ UNCHANGED <<producer, pushed>>

Begin ==
  /\ word = "Running"
  /\ producer = "none" /\ producer' = "live"
  /\ UNCHANGED <<word, pushed>>

Push ==
  /\ producer = "live"
  /\ pushed' = 1 - pushed
  /\ UNCHANGED <<word, producer>>

(* on_push_panic: signal_error, from a producer that goes on.              *)
Poison ==
  /\ producer = "live"
  /\ word' = "Error" /\ pushed' = 1 - pushed
  /\ UNCHANGED producer

(* signal_done, and its copies: a CAS Running -> Stopping.                 *)
End ==
  /\ producer = "live" /\ producer' = "over"
  /\ word' = IF word = "Running" THEN "Stopping" ELSE word
  /\ UNCHANGED pushed

(* signal_error: an unguarded store, which only a producer that is not yet *)
(* over may make.                                                          *)
Die ==
  /\ word # "Created"
  /\ producer # "over" /\ producer' = "over"
  /\ word' = "Error"
  /\ UNCHANGED pushed

(* The consumer's stop().                                                  *)
AskStop ==
  /\ word = "Running" /\ word' = "Stopping"
  /\ UNCHANGED <<producer, pushed>>

FinishStop ==
  /\ word = "Stopping" /\ word' = "Stopped"
  /\ UNCHANGED <<producer, pushed>>

Next == Open \/ Begin \/ Push \/ Poison \/ End \/ Die \/ AskStop \/ FinishStop

Spec == Init /\ [][Next]_vars
=============================================================================
