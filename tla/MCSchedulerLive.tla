--------------------------- MODULE MCSchedulerLive ---------------------------
(* A one-shot is created and updated to a repeating schedule at any moment  *)
(* of its run; the one-shot, when it ends, disables whatever it has become. *)
EXTENDS MCScheduler

LiveEdits == {"create", "update"}
LiveEdit == [e \in LiveEdits |-> MCEdit[e]]
=============================================================================
