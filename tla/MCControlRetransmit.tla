------------------------ MODULE MCControlRetransmit ------------------------
(* One command for a PWM output, with a level the firmware has to clamp,   *)
(* that the broker may accept twice.                                       *)
EXTENDS ControlCommands

MCCommands == {"dim"}
MCTargets == {"fan"}
MCTarget == [c \in MCCommands |-> "fan"]
MCValue == [c \in MCCommands |-> 300]
=============================================================================
