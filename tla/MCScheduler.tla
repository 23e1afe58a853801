----------------------------- MODULE MCScheduler -----------------------------
(* One schedule, created as a one-shot, updated to a repeating one, enabled *)
(* again and deleted, in any order the table allows.                        *)
EXTENDS Scheduler

MCSchedules == {"s"}
MCNodes == {"n"}
MCParams == {"spray", "cycle"}
MCOneShots == {"spray"}
Request(call, params, enabled) ==
  [call |-> call, schedule |-> "s", node |-> "n", params |-> params,
   enabled |-> enabled]
MCEdit == [create |-> Request("create", "spray", "unsaid"),
           update |-> Request("update", "cycle", "unsaid"),
           enable |-> Request("set", "spray", "yes"),
           delete |-> Request("delete", "spray", "unsaid")]
MCEdits == DOMAIN MCEdit
MCNotifiers == {"notify"}
=============================================================================
