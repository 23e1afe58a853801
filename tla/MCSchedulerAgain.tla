-------------------------- MODULE MCSchedulerAgain ---------------------------
(* A one-shot is created and enabled again at any moment of its run.        *)
EXTENDS MCScheduler

AgainEdits == {"create", "enable"}
AgainEdit == [e \in AgainEdits |-> MCEdit[e]]
=============================================================================
