------------------------ MODULE MCControlArbitration ------------------------
(* A pulse and a schedule tick meet an emergency stop, PUTs of MANUAL and  *)
(* of EMERGENCY, and a resume.                                             *)
EXTENDS ControlArbitration

MCKind == [pulse |-> "pulse", tick |-> "tick", stop |-> "stop",
           manual |-> "put", alarm |-> "put", resume |-> "resume"]
MCRequests == DOMAIN MCKind
MCNewMode == [r \in MCRequests |-> IF r = "alarm" THEN "EMERGENCY" ELSE "MANUAL"]
MCOutputs == {"pump"}
MCLevels == {1}
=============================================================================
