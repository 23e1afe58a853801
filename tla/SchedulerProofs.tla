--------------------------- MODULE SchedulerProofs ---------------------------
(***************************************************************************)
(* Proofs about Scheduler for any schedules, nodes, definitions, edits and *)
(* bounds, whether or not the database fails.                              *)
(***************************************************************************)
EXTENDS Scheduler, TLAPS

(* A row, and a goroutine's record, made of typed parts. *)
LEMMA RowParts ==
  /\ \A r \in Row : r.node \in Nodes /\ r.params \in Params /\ r.enabled \in BOOLEAN
  /\ \A n \in Nodes, p \in Params, b \in BOOLEAN :
       [node |-> n, params |-> p, enabled |-> b] \in Row
BY DEF Row

(* Setting the enabled column of a row. *)
LEMMA SetEnabledType ==
  ASSUME row \in [Schedules -> Row], NEW s \in Schedules, NEW b \in BOOLEAN,
         row' = [row EXCEPT ![s].enabled = b]
  PROVE  row' \in [Schedules -> Row]
<1>1. row[s] \in Row
  OBVIOUS
<1>2. [row[s] EXCEPT !.enabled = b] \in Row
  BY <1>1 DEF Row
<1>3. row' = [row EXCEPT ![s] = [row[s] EXCEPT !.enabled = b]]
  OBVIOUS
<1> QED
  BY <1>2, <1>3

(* A goroutine that died with the process. *)
LEMMA DeadType ==
  ASSUME NEW r \in Runner
  PROVE  Kill(r) \in Runner /\ Kill(r).pc = "none"
BY DEF Kill, Runner, RunnerPc

(* What a request says of a schedule is typed. *)
LEMMA EditParts ==
  ASSUME NEW e \in Edits
  PROVE  /\ Edit[e].schedule \in Schedules
         /\ Edit[e].node \in Nodes
         /\ Edit[e].params \in Params
BY SchedulerAssumption

(* NotifyScheduleChanged touches the stage of a reconcile, and so does     *)
(* setting any stage.                                                      *)
LEMMA NotifyType ==
  ASSUME recPc \in [Reconcilers -> {"idle", "begun", "listed", "loaded"}],
         NotifyScheduleChanged
  PROVE  recPc' \in [Reconcilers -> {"idle", "begun", "listed", "loaded"}]
BY DEF NotifyScheduleChanged, Reconcilers

(* The goroutine's next stage, which cancels nothing. *)
LEMMA AdvanceType ==
  ASSUME TypeOK, NEW s \in Schedules, NEW k \in Runners,
         NEW from \in RunnerPc, NEW to \in RunnerPc, Advance(s, k, from, to)
  PROVE  runner' \in [Schedules -> [Runners -> Runner]]
<1>1. runner[s][k] \in Runner /\ runner \in [Schedules -> [Runners -> Runner]]
  BY DEF TypeOK
<1> DEFINE r == [runner[s][k] EXCEPT !.pc = to,
                                     !.cancelled = runner[s][k].cancelled /\ to # "none"]
<1>2. r \in Runner
  BY <1>1 DEF Runner
<1>3. runner' = [runner EXCEPT ![s] = [runner[s] EXCEPT ![k] = r]]
  BY <1>1 DEF Advance, Runner
<1> QED
  BY <1>1, <1>2, <1>3

-----------------------------------------------------------------------------
(* The API keeps the types. *)
LEMMA ApiType ==
  ASSUME TypeOK, NEW e \in Edits, API(e)
  PROVE  TypeOK'
<1> DEFINE s == Edit[e].schedule
<1>1. CASE CreateSchedule(e)
  <2>1. row' \in [Schedules -> Row]
    BY <1>1, EditParts, RowParts DEF CreateSchedule, TypeOK
  <2> QED
    BY <1>1, <2>1, EditParts, NotifyType DEF CreateSchedule, TypeOK, Return, engineVars
<1>2. CASE SetScheduleEnabled(e)
  <2>1. row' \in [Schedules -> Row]
    BY <1>2, EditParts, SetEnabledType DEF SetScheduleEnabled, TypeOK
  <2> QED
    BY <1>2, <2>1, NotifyType DEF SetScheduleEnabled, TypeOK, Return, engineVars
<1>3. CASE DeleteSchedule(e)
  BY <1>3, NotifyType DEF DeleteSchedule, TypeOK, Return, engineVars
<1>4. CASE ReadForUpdate(e)
  BY <1>4, EditParts DEF ReadForUpdate, TypeOK, tableVars, recVars, engineVars
<1>5. CASE WriteUpdate(e)
  <2>1. EnabledAfter(e) \in BOOLEAN
    BY RowParts DEF EnabledAfter, TypeOK
  <2>2. row' \in [Schedules -> Row]
    BY <1>5, <2>1, EditParts, RowParts DEF WriteUpdate, TypeOK
  <2> QED
    BY <1>5, <2>2, NotifyType DEF WriteUpdate, TypeOK, Return, engineVars
<1> QED
  BY <1>1, <1>2, <1>3, <1>4, <1>5 DEF API

(* A reconcile keeps the types: what it lists are rows, and the runners it *)
(* records and starts are among those there may be.                        *)
LEMMA ReconcileType ==
  ASSUME TypeOK, NEW t \in Reconcilers, Reconcile(t)
  PROVE  TypeOK'
<1>1. CASE ListSchedules(t)
  <2>1. /\ DOMAIN list' = Reconcilers
        /\ \A u \in Reconcilers : /\ DOMAIN list'[u] \subseteq Schedules
                                  /\ \A s \in DOMAIN list'[u] : list'[u][s] \in Row
    BY <1>1 DEF ListSchedules, TypeOK, Enabled
  <2> QED
    BY <1>1, <2>1 DEF ListSchedules, TypeOK, tableVars, editVars, engineVars
<1>2. CASE ListFails(t)
  BY <1>2 DEF ListFails, TypeOK, tableVars, editVars, engineVars
<1>3. CASE FilterByMode(t)
  <2>1. /\ DOMAIN list' = Reconcilers
        /\ \A u \in Reconcilers : /\ DOMAIN list'[u] \subseteq Schedules
                                  /\ \A s \in DOMAIN list'[u] : list'[u][s] \in Row
    BY <1>3 DEF FilterByMode, TypeOK
  <2> QED
    BY <1>3, <2>1 DEF FilterByMode, TypeOK, tableVars, editVars, engineVars
<1>4. CASE Apply(t)
  <2>1. \A s \in Schedules : Started(t, s) =>
          Slot(s) \in Runners /\ list[t][s] \in Row
    BY <1>4 DEF Apply, Slot, Free, Started, TypeOK
  <2>2. \A r \in Row : Begin(r) \in Runner
    BY DEF Begin, Row, Runner, RunnerPc
  <2>3. \A r \in Runner : Cancel(r) \in Runner
    BY DEF Cancel, Runner
  <2>4. runner' \in [Schedules -> [Runners -> Runner]]
    BY <1>4, <2>1, <2>2, <2>3 DEF Apply, TypeOK
  <2>5. current' \in [Schedules -> 0..MaxRunners]
    BY <1>4, <2>1, SchedulerAssumption DEF Apply, TypeOK, Runners
  <2>6. /\ DOMAIN list' = Reconcilers
        /\ \A u \in Reconcilers : /\ DOMAIN list'[u] \subseteq Schedules
                                  /\ \A s \in DOMAIN list'[u] : list'[u][s] \in Row
    BY <1>4 DEF Apply, TypeOK, Nothing
  <2> QED
    BY <1>4, <2>4, <2>5, <2>6 DEF Apply, TypeOK, tableVars, editVars
<1> QED
  BY <1>1, <1>2, <1>3, <1>4 DEF Reconcile

(* A runner's step keeps the types. *)
LEMMA RunnerType ==
  ASSUME TypeOK, NEW s \in Schedules, NEW k \in Runners, RunnerStep(s, k)
  PROVE  TypeOK'
<1> USE DEF RunnerPc
<1>1. runner[s][k].node \in Nodes
  BY DEF TypeOK, Runner
<1>2. CASE \E sent \in BOOLEAN : TurnOn(s, k, sent)
  <2>1. runner' \in [Schedules -> [Runners -> Runner]]
    BY <1>2, AdvanceType DEF TurnOn
  <2>2. lit' \subseteq Schedules \X Nodes
    BY <1>1, <1>2 DEF TurnOn, DispatchLevel, TypeOK
  <2> QED
    BY <1>2, <2>1, <2>2 DEF TurnOn, TypeOK, tableVars, editVars, recVars
<1>3. CASE \E sent \in BOOLEAN : TurnOff(s, k, sent)
  <2>1. runner' \in [Schedules -> [Runners -> Runner]]
    BY <1>3, AdvanceType DEF TurnOff
  <2>2. lit' \subseteq Schedules \X Nodes
    BY <1>1, <1>3 DEF TurnOff, DispatchLevel, TypeOK
  <2> QED
    BY <1>3, <2>1, <2>2 DEF TurnOff, TypeOK, tableVars, editVars, recVars
<1>4. CASE Wake(s, k)
  <2>1. runner' \in [Schedules -> [Runners -> Runner]]
    BY <1>4, AdvanceType DEF Wake
  <2> QED
    BY <1>4, <2>1 DEF Wake, TypeOK, tableVars, editVars, recVars
<1>5. CASE Quit(s, k)
  <2>1. runner' \in [Schedules -> [Runners -> Runner]]
    BY <1>5, AdvanceType DEF Quit
  <2> QED
    BY <1>5, <2>1 DEF Quit, TypeOK, tableVars, editVars, recVars
<1>6. CASE Finish(s, k)
  <2>1. runner' \in [Schedules -> [Runners -> Runner]]
    BY <1>6, AdvanceType DEF Finish
  <2>2. row' \in [Schedules -> Row]
    BY <1>6, SetEnabledType DEF Finish, TypeOK
  <2>3. recPc' \in [Reconcilers -> {"idle", "begun", "listed", "loaded"}]
    BY <1>6, NotifyType DEF Finish, TypeOK
  <2> QED
    BY <1>6, <2>1, <2>2, <2>3 DEF Finish, TypeOK, editVars
<1> QED
  BY <1>2, <1>3, <1>4, <1>5, <1>6 DEF RunnerStep

(* The death of the process keeps the types. *)
LEMMA CrashType ==
  ASSUME TypeOK, Crash
  PROVE  TypeOK'
<1>1. runner' \in [Schedules -> [Runners -> Runner]]
  BY DeadType DEF Crash, TypeOK
<1>2. /\ DOMAIN list' = Reconcilers
      /\ \A t \in Reconcilers : DOMAIN list'[t] = {}
  BY DEF Crash, Nothing
<1>3. crashes' \in 0..MaxCrashes
  BY SchedulerAssumption DEF Crash, TypeOK
<1>4. /\ editPc' \in [Edits -> {"idle", "read", "done"}]
      /\ recPc' \in [Reconcilers -> {"idle", "begun", "listed", "loaded"}]
      /\ current' \in [Schedules -> 0..MaxRunners]
  BY SchedulerAssumption DEF Crash, TypeOK
<1> QED
  BY <1>1, <1>2, <1>3, <1>4 DEF Crash, TypeOK, tableVars

(* Every step keeps the types. *)
LEMMA TypeStep == TypeOK /\ [Next]_vars => TypeOK'
<1> SUFFICES ASSUME TypeOK, [Next]_vars PROVE TypeOK'
  OBVIOUS
<1>1. CASE \E n \in Nodes : ModeChanges(n)
  BY <1>1 DEF ModeChanges, TypeOK, editVars, recVars, engineVars
<1>2. CASE TickerFires
  BY <1>2 DEF TickerFires, TypeOK, tableVars, editVars, engineVars
<1>3. CASE UNCHANGED vars
  BY <1>3 DEF vars, TypeOK, tableVars, editVars, recVars, engineVars
<1> QED
  BY <1>1, <1>2, <1>3, ApiType, ReconcileType, RunnerType, CrashType DEF Next

-----------------------------------------------------------------------------
(* A goroutine that goes on was going on, and may only stop counting.      *)
LEMMA AdvanceKeeps ==
  ASSUME TypeOK, OneLiveRunner, UNCHANGED current,
         NEW s \in Schedules, NEW k \in Runners,
         NEW from \in RunnerPc \ {"none"}, NEW to \in RunnerPc,
         Advance(s, k, from, to)
  PROVE  OneLiveRunner'
<1>1. ASSUME NEW z \in Schedules, NEW j \in Runners, Live(z, j)'
      PROVE  Live(z, j)
  <2>1. CASE z = s /\ j = k
    BY <1>1, <2>1 DEF Advance, Live, TypeOK, Runner
  <2>2. CASE ~(z = s /\ j = k)
    BY <1>1, <2>2 DEF Advance, Live, TypeOK
  <2> QED
    BY <2>1, <2>2
<1> QED
  BY <1>1 DEF OneLiveRunner

(* Reconciling leaves at most the runner on record uncancelled: the one it *)
(* starts, or the one it keeps.                                            *)
LEMMA ApplyKeeps ==
  ASSUME TypeOK, OneLiveRunner, NEW t \in Reconcilers, Apply(t)
  PROVE  OneLiveRunner'
<1> SUFFICES ASSUME NEW s \in Schedules, NEW k \in Runners, Live(s, k)'
             PROVE  current'[s] = k
  BY DEF OneLiveRunner
<1>1. CASE Started(t, s) /\ k = Slot(s)
  BY <1>1 DEF Apply
<1>2. CASE ~(Started(t, s) /\ k = Slot(s)) /\ Stopped(t, s) /\ k = current[s]
  <2>1. runner'[s][k] = Cancel(runner[s][k])
    BY <1>2 DEF Apply
  <2>2. /\ runner'[s][k].pc = runner[s][k].pc
        /\ runner'[s][k].cancelled = (runner[s][k].pc # "none")
    BY <2>1 DEF Cancel, TypeOK, Runner
  <2>3. ~Live(s, k)'
    BY <2>2 DEF Live
  <2> QED
    BY <2>3
<1>3. CASE ~(Started(t, s) /\ k = Slot(s)) /\ ~(Stopped(t, s) /\ k = current[s])
  <2>1. runner'[s][k] = runner[s][k]
    BY <1>3 DEF Apply
  <2>2. Live(s, k) /\ current[s] = k
    BY <2>1 DEF Live, OneLiveRunner
  <2>3. Kept(t, s)
    BY <1>3, <2>2 DEF Stopped, Runners
  <2>4. ~Started(t, s)
    BY <2>3 DEF Kept, Started
  <2> QED
    BY <2>2, <2>3, <2>4 DEF Apply
<1> QED
  BY <1>1, <1>2, <1>3

(* Every step keeps a schedule to one uncancelled goroutine. *)
LEMMA RunnerStepKeeps ==
  ASSUME TypeOK, OneLiveRunner, NEW s \in Schedules, NEW k \in Runners,
         RunnerStep(s, k)
  PROVE  OneLiveRunner'
<1> USE DEF RunnerPc
<1>1. CASE \E sent \in BOOLEAN : TurnOn(s, k, sent)
  BY <1>1, AdvanceKeeps DEF TurnOn
<1>2. CASE \E sent \in BOOLEAN : TurnOff(s, k, sent)
  BY <1>2, AdvanceKeeps DEF TurnOff
<1>3. CASE Wake(s, k)
  BY <1>3, AdvanceKeeps DEF Wake
<1>4. CASE Quit(s, k)
  BY <1>4, AdvanceKeeps DEF Quit
<1>5. CASE Finish(s, k)
  BY <1>5, AdvanceKeeps DEF Finish
<1> QED
  BY <1>1, <1>2, <1>3, <1>4, <1>5 DEF RunnerStep

(* Every step keeps OneLiveRunner, on top of the types. *)
LEMMA OneLiveStep == TypeOK /\ OneLiveRunner /\ [Next]_vars => OneLiveRunner'
<1> SUFFICES ASSUME TypeOK, OneLiveRunner, [Next]_vars PROVE OneLiveRunner'
  OBVIOUS
<1>1. CASE UNCHANGED engineVars
  BY <1>1 DEF engineVars, OneLiveRunner, Live
<1>2. CASE \E t \in Reconcilers : Apply(t)
  BY <1>2, ApplyKeeps
<1>3. CASE \E s \in Schedules, k \in Runners : RunnerStep(s, k)
  BY <1>3, RunnerStepKeeps
<1>4. CASE Crash
  <2>1. \A s \in Schedules, k \in Runners : runner'[s][k].pc = "none"
    BY <1>4, DeadType DEF Crash, TypeOK
  <2> QED
    BY <2>1 DEF OneLiveRunner, Live
<1>5. ASSUME NEW e \in Edits, API(e) PROVE UNCHANGED engineVars
  BY <1>5 DEF API, CreateSchedule, SetScheduleEnabled, DeleteSchedule,
              ReadForUpdate, WriteUpdate
<1>6. ASSUME NEW t \in Reconcilers, Reconcile(t), ~Apply(t)
      PROVE  UNCHANGED engineVars
  BY <1>6 DEF Reconcile, ListSchedules, ListFails, FilterByMode
<1>7. CASE (\E n \in Nodes : ModeChanges(n)) \/ TickerFires \/ UNCHANGED vars
  BY <1>1, <1>7 DEF ModeChanges, TickerFires, vars
<1> QED
  BY <1>1, <1>2, <1>3, <1>4, <1>5, <1>6, <1>7 DEF Next

-----------------------------------------------------------------------------
(* The initial state satisfies both. *)
LEMMA InitHolds == Init => TypeOK /\ OneLiveRunner
<1> SUFFICES ASSUME Init PROVE TypeOK /\ OneLiveRunner
  OBVIOUS
<1>1. PICK r \in Row : ~r.enabled
  BY SchedulerAssumption, RowParts
<1>2. row \in [Schedules -> Row]
  BY <1>1 DEF Init
<1>3. runner \in [Schedules -> [Runners -> Runner]]
  BY <1>2, RowParts DEF Init, Runner, RunnerPc
<1>4. held \in [Edits -> Row]
  BY <1>2, EditParts DEF Init
<1>5. /\ DOMAIN list = Reconcilers
      /\ \A t \in Reconcilers : DOMAIN list[t] = {}
  BY DEF Init, Nothing
<1>6. /\ current = [s \in Schedules |-> 0] /\ crashes = 0
      /\ editPc = [e \in Edits |-> "idle"]
      /\ recPc = [t \in Reconcilers |-> "idle"]
      /\ rows = {} /\ auto \subseteq Nodes /\ lit = {}
  BY DEF Init
<1>7. 0 \in 0..MaxRunners /\ 0 \in 0..MaxCrashes
  BY SchedulerAssumption
<1>8. TypeOK
  BY <1>2, <1>3, <1>4, <1>5, <1>6, <1>7 DEF TypeOK
<1>9. OneLiveRunner
  BY DEF Init, OneLiveRunner, Live
<1> QED
  BY <1>8, <1>9

(* Every variable of the scheduler keeps its type. *)
THEOREM TypeCorrect == Spec => []TypeOK
BY InitHolds, TypeStep, PTL DEF Spec

(* Of all the goroutines of a schedule, at most the one e.runners has on   *)
(* record is not cancelled, however many reconciles with lists of whatever *)
(* age interleave (Engine.reconcile).                                      *)
THEOREM OneLive == Spec => []OneLiveRunner
<1>1. TypeOK /\ OneLiveRunner /\ [Next]_vars => (TypeOK /\ OneLiveRunner)'
  BY TypeStep, OneLiveStep
<1>2. Spec => [](TypeOK /\ OneLiveRunner)
  BY InitHolds, <1>1, PTL DEF Spec
<1> QED
  BY <1>2, PTL
=============================================================================
