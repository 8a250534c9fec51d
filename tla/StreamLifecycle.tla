--------------------------- MODULE StreamLifecycle ---------------------------
(***************************************************************************)
(* What the stream state machine of src/bridge/state.rs promises to every  *)
(* thread that looks at it.  AtomicStreamState itself checks nothing: the  *)
(* legality of a transition is left to its callers, which are the stop     *)
(* path, the producer and the backends.                                    *)
(***************************************************************************)
CONSTANT MayFail   \* TRUE if a producer can die (signal_error)

VARIABLE state

States == {"Created", "Running", "Stopping", "Stopped", "Error"}
Terminal == {"Stopped", "Error"}
Readable == {"Running", "Stopping"}

Init == state = "Created"

(* The graceful chain.  No step of the code leads to Closed.               *)
Advance(from, to) == state = from /\ state' = to

Next ==
  \/ Advance("Created", "Running")
  \/ Advance("Running", "Stopping")
  \/ Advance("Stopping", "Stopped")
  \/ MayFail /\ state # "Created" /\ state' = "Error"

Spec == Init /\ [][Next]_state
=============================================================================
