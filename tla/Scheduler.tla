------------------------------ MODULE Scheduler ------------------------------
(***************************************************************************)
(* The scheduler engine of the Control Service: the schedules table, the   *)
(* API calls that change it, the reconciles that carry each change to the  *)
(* runners, and the runners themselves, one goroutine per schedule.        *)
(*                                                                         *)
(* A reconcile reads the table without a lock and applies what it read     *)
(* under one, and every API call starts one of its own, so several may be  *)
(* between the two at once.                                                *)
(***************************************************************************)
EXTENDS Integers

CONSTANTS
  Schedules,   \* schedule ids
  Nodes,
  Params,      \* definitions (type, output and params) a schedule may have
  OneShots,    \* those of type duration; the others repeat (interval)
  Edits,       \* the API calls a behaviour may make, each at most once
  Edit,        \* Edit[e]: the call and what its request says
  Notifiers,   \* bound: reconciles started by API calls at the same time
  MaxRunners,  \* bound: goroutines of one schedule at the same time
  MaxCrashes,  \* bound: deaths of the process
  DbErrors     \* whether database calls of the engine may fail

Calls == {"create", "update", "set", "delete"}

ASSUME SchedulerAssumption ==
  /\ Nodes # {} /\ Params # {} /\ OneShots \subseteq Params
  /\ Edit \in [Edits -> [call : Calls, schedule : Schedules,
                         node : Nodes, params : Params,
                         enabled : {"yes", "no", "unsaid"}]]
  /\ "ticker" \notin Notifiers
  /\ MaxRunners \in Nat \ {0}
  /\ MaxCrashes \in Nat
  /\ DbErrors \in BOOLEAN

Reconcilers == Notifiers \cup {"ticker"}
Runners == 1..MaxRunners
Row == [node : Nodes, params : Params, enabled : BOOLEAN]

VARIABLES
  rows,     \* the schedules that exist
  row,      \* row[s]: their columns
  auto,     \* the nodes in AUTO mode
  editPc,   \* where each API call stands
  held,     \* the row an update has read
  recPc,    \* where each reconcile stands
  list,     \* the enabled schedules it has read
  current,  \* e.runners: the runner the engine has on record, 0 if none
  runner,   \* runner[s][k]: the goroutines of schedule s
  lit,      \* pairs <<schedule, node>>: outputs last commanded on
  crashes   \* how often the process has died

tableVars == <<rows, row, auto>>
editVars == <<editPc, held>>
recVars == <<recPc, list>>
engineVars == <<current, runner>>
vars == <<tableVars, editVars, recVars, engineVars, lit, crashes>>

RunnerPc == {"none", "on", "holding", "off", "resting", "finish"}
Runner == [pc : RunnerPc, node : Nodes, params : Params, cancelled : BOOLEAN]

TypeOK ==
  /\ rows \subseteq Schedules
  /\ row \in [Schedules -> Row]
  /\ auto \subseteq Nodes
  /\ editPc \in [Edits -> {"idle", "read", "done"}]
  /\ held \in [Edits -> Row]
  /\ recPc \in [Reconcilers -> {"idle", "begun", "listed", "loaded"}]
  /\ DOMAIN list = Reconcilers
  /\ \A t \in Reconcilers : /\ DOMAIN list[t] \subseteq Schedules
                            /\ \A s \in DOMAIN list[t] : list[t][s] \in Row
  /\ current \in [Schedules -> 0..MaxRunners]
  /\ runner \in [Schedules -> [Runners -> Runner]]
  /\ lit \subseteq Schedules \X Nodes
  /\ crashes \in 0..MaxCrashes

Nothing == [s \in {} |-> 0]

Init ==
  /\ rows = {} /\ row = [s \in Schedules |-> CHOOSE r \in Row : ~r.enabled]
  /\ auto \in SUBSET Nodes
  /\ editPc = [e \in Edits |-> "idle"]
  /\ held = [e \in Edits |-> row[Edit[e].schedule]]
  /\ recPc = [t \in Reconcilers |-> "idle"]
  /\ list = [t \in Reconcilers |-> Nothing]
  /\ current = [s \in Schedules |-> 0]
  /\ runner = [s \in Schedules |-> [k \in Runners |->
                [pc |-> "none", node |-> row[s].node, params |-> row[s].params,
                 cancelled |-> FALSE]]]
  /\ lit = {} /\ crashes = 0

-----------------------------------------------------------------------------
(* The API.  A call that changed the table starts a reconcile; when the    *)
(* bound is reached its goroutine is not scheduled before the next tick.   *)

NotifyScheduleChanged ==
  IF \A t \in Notifiers : recPc[t] # "idle"
    THEN UNCHANGED recPc
    ELSE \E t \in Notifiers : /\ recPc[t] = "idle"
                             /\ recPc' = [recPc EXCEPT ![t] = "begun"]

Return(e) == editPc' = [editPc EXCEPT ![e] = "done"]

CreateSchedule(e) ==
  LET s == Edit[e].schedule IN
  /\ editPc[e] = "idle" /\ Edit[e].call = "create" /\ s \notin rows
  /\ rows' = rows \cup {s}
  /\ row' = [row EXCEPT ![s] = [node |-> Edit[e].node, params |-> Edit[e].params,
                                enabled |-> Edit[e].enabled # "no"]]
  /\ NotifyScheduleChanged
  /\ Return(e)
  /\ UNCHANGED <<auto, held, list, engineVars, lit, crashes>>

SetScheduleEnabled(e) ==
  LET s == Edit[e].schedule IN
  /\ editPc[e] = "idle" /\ Edit[e].call = "set" /\ s \in rows
  /\ row' = [row EXCEPT ![s].enabled = (Edit[e].enabled = "yes")]
  /\ NotifyScheduleChanged
  /\ Return(e)
  /\ UNCHANGED <<rows, auto, held, list, engineVars, lit, crashes>>

DeleteSchedule(e) ==
  /\ editPc[e] = "idle" /\ Edit[e].call = "delete" /\ Edit[e].schedule \in rows
  /\ rows' = rows \ {Edit[e].schedule}
  /\ NotifyScheduleChanged
  /\ Return(e)
  /\ UNCHANGED <<row, auto, held, list, engineVars, lit, crashes>>

(* UpdateSchedule reads the row, changes what the request names, and       *)
(* writes every column back.                                               *)
ReadForUpdate(e) ==
  LET s == Edit[e].schedule IN
  /\ editPc[e] = "idle" /\ Edit[e].call = "update" /\ s \in rows
  /\ held' = [held EXCEPT ![e] = row[s]]
  /\ editPc' = [editPc EXCEPT ![e] = "read"]
  /\ UNCHANGED <<tableVars, recVars, engineVars, lit, crashes>>

EnabledAfter(e) == IF Edit[e].enabled = "unsaid" THEN held[e].enabled
                                                ELSE Edit[e].enabled = "yes"

WriteUpdate(e) ==
  LET s == Edit[e].schedule IN
  /\ editPc[e] = "read"
  /\ row' = IF s \in rows
              THEN [row EXCEPT ![s] = [node |-> Edit[e].node, params |-> Edit[e].params,
                                       enabled |-> EnabledAfter(e)]]
              ELSE row
  /\ NotifyScheduleChanged
  /\ Return(e)
  /\ UNCHANGED <<rows, auto, held, list, engineVars, lit, crashes>>

(* Node modes change without telling the scheduler (ControlArbitration). *)
ModeChanges(n) ==
  /\ auto' = IF n \in auto THEN auto \ {n} ELSE auto \cup {n}
  /\ UNCHANGED <<rows, row, editVars, recVars, engineVars, lit, crashes>>

-----------------------------------------------------------------------------
(* reconcile *)

TickerFires ==
  /\ recPc["ticker"] = "idle"
  /\ recPc' = [recPc EXCEPT !["ticker"] = "begun"]
  /\ UNCHANGED <<tableVars, editVars, list, engineVars, lit, crashes>>

Enabled == {s \in rows : row[s].enabled}

(* EnabledSchedules, first query: on an error the reconcile gives up.      *)
ListSchedules(t) ==
  /\ recPc[t] = "begun"
  /\ recPc' = [recPc EXCEPT ![t] = "listed"]
  /\ list' = [list EXCEPT ![t] = [s \in Enabled |-> row[s]]]
  /\ UNCHANGED <<tableVars, editVars, engineVars, lit, crashes>>

ListFails(t) ==
  /\ DbErrors
  /\ recPc[t] = "begun"
  /\ recPc' = [recPc EXCEPT ![t] = "idle"]
  /\ UNCHANGED <<tableVars, editVars, list, engineVars, lit, crashes>>

(* Second query: the modes; its error is dropped and nothing is filtered.  *)
FilterByMode(t) ==
  /\ recPc[t] = "listed"
  /\ recPc' = [recPc EXCEPT ![t] = "loaded"]
  /\ \/ list' = [list EXCEPT ![t] =
                   [s \in {x \in DOMAIN @ : @[x].node \in auto} |-> @[s]]]
     \/ DbErrors /\ list' = list
  /\ UNCHANGED <<tableVars, editVars, engineVars, lit, crashes>>

(* Under e.mu: start what is new or has another signature, cancel what has *)
(* changed or gone.  The signature does not name the node.                 *)
Free(s) == {k \in Runners : runner[s][k].pc = "none" /\ k # current[s]}
Slot(s) == CHOOSE k \in Free(s) : TRUE

(* Mutant: a changed definition does not restart the runner. *)
StartsNewOnly(s, def) == current[s] = 0

Starts(s, def) ==
  \/ current[s] = 0
  \/ runner[s][current[s]].params # def.params

Kept(t, s) == s \in DOMAIN list[t] /\ ~Starts(s, list[t][s])
Started(t, s) == s \in DOMAIN list[t] /\ Starts(s, list[t][s])
(* Mutants: a restart that does not cancel the old runner, and a reconcile *)
(* that forgets a runner instead of cancelling it.                         *)
StoppedIfGone(t, s) == current[s] # 0 /\ s \notin DOMAIN list[t]
StoppedIfChanged(t, s) == current[s] # 0 /\ Started(t, s)

Stopped(t, s) == current[s] # 0 /\ ~Kept(t, s)

Begin(def) ==
  [pc |-> "on", node |-> def.node, params |-> def.params, cancelled |-> FALSE]
Cancel(r) == [r EXCEPT !.cancelled = r.pc # "none"]

Apply(t) ==
  /\ recPc[t] = "loaded"
  /\ \A s \in Schedules : Started(t, s) => Free(s) # {}
  /\ current' = [s \in Schedules |-> IF Started(t, s) THEN Slot(s)
                                     ELSE IF Kept(t, s) THEN current[s] ELSE 0]
  /\ runner' = [s \in Schedules |-> [k \in Runners |->
                  IF Started(t, s) /\ k = Slot(s) THEN Begin(list[t][s])
                  ELSE IF Stopped(t, s) /\ k = current[s] THEN Cancel(runner[s][k])
                  ELSE runner[s][k]]]
  /\ recPc' = [recPc EXCEPT ![t] = "idle"]
  /\ list' = [list EXCEPT ![t] = Nothing]
  /\ UNCHANGED <<tableVars, editVars, lit, crashes>>

-----------------------------------------------------------------------------
(* The runners: runInterval, and runDuration for a one-shot *)

Advance(s, k, from, to) ==
  /\ runner[s][k].pc = from
  /\ runner' = [runner EXCEPT ![s][k].pc = to,
                              ![s][k].cancelled = @ /\ to # "none"]

(* Engine.dispatch: skipped unless the node is in AUTO; it may fail, and    *)
(* the runner goes on.                                                     *)
DispatchLevel(s, k, sent, lit1) ==
  /\ sent => runner[s][k].node \in auto
  /\ lit' = IF sent THEN lit1 ELSE lit

(* Mutant: Dispatch is called with node and output swapped. *)
TurnOnSwapped(s, k, sent) ==
  /\ Advance(s, k, "on", "holding")
  /\ DispatchLevel(s, k, sent, lit \cup {<<runner[s][k].node, s>>})
  /\ UNCHANGED <<tableVars, editVars, recVars, current, crashes>>

TurnOn(s, k, sent) ==
  /\ Advance(s, k, "on", "holding")
  /\ DispatchLevel(s, k, sent, lit \cup {<<s, runner[s][k].node>>})
  /\ UNCHANGED <<tableVars, editVars, recVars, current, crashes>>

TurnOff(s, k, sent) ==
  /\ Advance(s, k, "off",
             IF runner[s][k].params \in OneShots THEN "finish" ELSE "resting")
  /\ DispatchLevel(s, k, sent, lit \ {<<s, runner[s][k].node>>})
  /\ UNCHANGED <<tableVars, editVars, recVars, current, crashes>>

(* sleep.  A select that finds both the time up and the context cancelled  *)
(* may take the timer: no step can tell that from a cancel right after it. *)
Wake(s, k) ==
  /\ ~runner[s][k].cancelled
  /\ \/ Advance(s, k, "holding", "off")
     \/ Advance(s, k, "resting", "on")
  /\ UNCHANGED <<tableVars, editVars, recVars, current, lit, crashes>>

Quit(s, k) ==
  /\ runner[s][k].cancelled
  /\ \/ Advance(s, k, "holding", "none")
     \/ Advance(s, k, "resting", "none")
  /\ UNCHANGED <<tableVars, editVars, recVars, current, lit, crashes>>

(* The end of a one-shot: it disables its schedule, as the API would, and  *)
(* drops the error.  The engine keeps the runner on record.                *)
Finish(s, k) ==
  /\ Advance(s, k, "finish", "none")
  /\ \/ /\ s \in rows
        /\ row' = [row EXCEPT ![s].enabled = FALSE]
        /\ NotifyScheduleChanged
     \/ /\ DbErrors \/ s \notin rows
        /\ UNCHANGED <<row, recPc>>
  /\ UNCHANGED <<rows, auto, editVars, list, current, lit, crashes>>

Kill(r) == [r EXCEPT !.pc = "none", !.cancelled = FALSE]

(* The process dies and starts again: Run reconciles at once. *)
Crash ==
  /\ crashes < MaxCrashes
  /\ crashes' = crashes + 1
  /\ editPc' = [e \in Edits |-> IF editPc[e] = "read" THEN "done" ELSE editPc[e]]
  /\ recPc' = [t \in Reconcilers |-> IF t = "ticker" THEN "begun" ELSE "idle"]
  /\ list' = [t \in Reconcilers |-> Nothing]
  /\ current' = [s \in Schedules |-> 0]
  /\ runner' = [s \in Schedules |-> [k \in Runners |-> Kill(runner[s][k])]]
  /\ UNCHANGED <<tableVars, held, lit>>

-----------------------------------------------------------------------------
API(e) == \/ CreateSchedule(e) \/ SetScheduleEnabled(e) \/ DeleteSchedule(e)
          \/ ReadForUpdate(e) \/ WriteUpdate(e)

Reconcile(t) == ListSchedules(t) \/ ListFails(t) \/ FilterByMode(t) \/ Apply(t)

RunnerStep(s, k) ==
  \/ \E sent \in BOOLEAN : TurnOn(s, k, sent) \/ TurnOff(s, k, sent)
  \/ Wake(s, k) \/ Quit(s, k) \/ Finish(s, k)

Next ==
  \/ \E e \in Edits : API(e)
  \/ \E n \in Nodes : ModeChanges(n)
  \/ TickerFires
  \/ \E t \in Reconcilers : Reconcile(t)
  \/ \E s \in Schedules, k \in Runners : RunnerStep(s, k)
  \/ Crash

(* The ticker keeps firing, goroutines are scheduled, and neither the      *)
(* ticker's query nor a runner's command fails for ever: the database and  *)
(* the broker come back.                                                   *)
Fairness ==
  /\ WF_vars(TickerFires) /\ SF_vars(ListSchedules("ticker"))
  /\ \A t \in Reconcilers : WF_vars(Reconcile(t))
  /\ \A s \in Schedules, k \in Runners :
       /\ WF_vars(RunnerStep(s, k))
       /\ SF_vars(TurnOn(s, k, TRUE)) /\ SF_vars(TurnOff(s, k, TRUE))

Spec == Init /\ [][Next]_vars /\ Fairness
-----------------------------------------------------------------------------
(* Properties *)

Live(s, k) == runner[s][k].pc # "none" /\ ~runner[s][k].cancelled

Armed(s) == s \in Enabled /\ row[s].node \in auto

(* However reconciles with lists of different age interleave, no two       *)
(* runners drive one schedule's output: a goroutine that is not cancelled  *)
(* is the one e.runners has on record.                                     *)
OneLiveRunner ==
  \A s \in Schedules, k \in Runners : Live(s, k) => current[s] = k

(* A schedule that stays disabled or deleted ends up without a runner,     *)
(* whatever stale list a late reconcile applies (NotifyScheduleChanged).   *)
DisarmedStops ==
  \A s \in Schedules :
    <>[](s \notin Enabled) => <>[](\A k \in Runners : ~Live(s, k))

(* A repeating schedule that stays enabled on a node that stays in AUTO    *)
(* ends up with a runner for the definition in the table, and its output   *)
(* is switched on and off for ever (reconcile, runInterval).               *)
ArmedRuns ==
  \A s \in Schedules, p \in Params \ OneShots :
    <>[](Armed(s) /\ row[s].params = p)
      => /\ <>[](\E k \in Runners : Live(s, k) /\ runner[s][k].params = p)
         /\ []<>(<<s, row[s].node>> \in lit)
         /\ []<>(<<s, row[s].node>> \notin lit)

(* The same of every definition, one-shots included: what is enabled takes *)
(* effect (comment of NotifyScheduleChanged).                              *)
EnabledTakesEffect ==
  \A s \in Schedules :
    <>[]Armed(s) => []<>(\E k \in Runners : Live(s, k))
=============================================================================
