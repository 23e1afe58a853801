------------------------- MODULE MCControlCommands -------------------------
(* Two commands for one digital output, one switching it on, one off. *)
EXTENDS ControlCommands

MCCommands == {"on", "off"}
MCTargets == {"pump"}
MCPwm == {}
MCTarget == [c \in MCCommands |-> "pump"]
MCValue == [c \in MCCommands |-> IF c = "on" THEN 1 ELSE 0]
=============================================================================
