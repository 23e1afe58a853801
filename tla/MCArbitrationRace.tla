------------------------- MODULE MCArbitrationRace -------------------------
(* One schedule tick and one emergency stop. *)
EXTENDS ControlArbitration

MCKind == [tick |-> "tick", stop |-> "stop"]
MCRequests == DOMAIN MCKind
MCNewMode == [r \in MCRequests |-> "AUTO"]
MCOutputs == {"pump"}
MCLevels == {1}
=============================================================================
