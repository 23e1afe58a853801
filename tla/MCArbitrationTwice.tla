------------------------- MODULE MCArbitrationTwice -------------------------
(* The stop button is pressed twice; an operator resumes. *)
EXTENDS ControlArbitration

MCKind == [stop |-> "stop", again |-> "stop", resume |-> "resume"]
MCRequests == DOMAIN MCKind
MCNewMode == [r \in MCRequests |-> "AUTO"]
MCOutputs == {"pump"}
MCLevels == {1}
=============================================================================
