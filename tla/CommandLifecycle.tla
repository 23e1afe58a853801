-------------------------- MODULE CommandLifecycle --------------------------
(***************************************************************************)
(* What the Control Service promises about a command, without rows, wires  *)
(* or goroutines: it is dispatched once, and when the dispatch is over it  *)
(* awaits a confirmation or has settled, for good, as acked, timeout or    *)
(* failed; it is acked only if the node executed it, and the node executes *)
(* only what was dispatched.                                               *)
(***************************************************************************)
CONSTANT Commands

VARIABLES
  phase,     \* how far each command has come
  executed   \* the commands the node has executed

absVars == <<phase, executed>>

Phase == {"none", "unlogged", "dispatching", "awaiting",
          "acked", "timeout", "failed"}

Init ==
  /\ phase = [c \in Commands |-> "none"]
  /\ executed = {}

(* "unlogged": the row could not be inserted, so nothing was dispatched. *)
Begin(c) ==
  phase[c] = "none" /\ phase'[c] \in {"unlogged", "dispatching"}

Settle(c) ==
  /\ \/ /\ phase[c] = "dispatching"
        /\ phase'[c] \in {"awaiting", "acked", "timeout", "failed"}
     \/ phase[c] = "awaiting" /\ phase'[c] \in {"acked", "timeout"}
  /\ phase'[c] = "acked" => c \in executed

(* One step may move several commands: the sweep times out every stale     *)
(* row at once, a crash ends every dispatch at once.                       *)
Next ==
  /\ \A c \in Commands : phase'[c] = phase[c] \/ Begin(c) \/ Settle(c)
  /\ phase' \in [Commands -> Phase]
  /\ executed \subseteq executed'
  /\ \A c \in executed' \ executed : phase[c] \notin {"none", "unlogged"}

Spec == Init /\ [][Next]_absVars
=============================================================================
