------------------------- MODULE ControlArbitration -------------------------
(***************************************************************************)
(* Who may drive the outputs of one node: manual requests, schedule ticks, *)
(* the emergency stop, mode switches and resume, which meet only in the    *)
(* node's row of control_modes.  Every handler reads the row in one call   *)
(* and acts on what it read in later ones, so the row may have changed.    *)
(*                                                                         *)
(* Dispatch is one step here (ControlCommands has its stages): it hands a  *)
(* set_output to the broker, or fails.                                     *)
(***************************************************************************)
EXTENDS Integers, Sequences, FiniteSets

CONSTANTS
  Requests,    \* the calls a behaviour may make, each at most once
  Outputs,     \* the outputs of the node
  Kind,        \* Kind[r]: which handler request r runs
  NewMode,     \* NewMode[r]: the mode a "put" asks for
  Levels,      \* the levels a request may carry
  ReadErrors   \* whether a read of the mode row may fail

Mode == {"AUTO", "MANUAL", "EMERGENCY"}
Kinds == {"manual", "pulse", "tick", "stop", "put", "resume"}

ASSUME ArbitrationAssumption ==
  /\ Kind \in [Requests -> Kinds]
  /\ NewMode \in [Requests -> Mode]
  /\ Levels \subseteq Nat
  /\ ReadErrors \in BOOLEAN

VARIABLES
  mode,      \* control_modes.mode of the node's '*' row, "NONE" without a row
  prev,      \* its prev_mode
  pc,        \* where the handler of each request stands
  seen,      \* the mode a handler read and still holds
  left,      \* outputs an emergency stop has yet to switch off
  downlink,  \* set_output messages on their way to the node, in order
  level,     \* the node's outputs
  \* history, read by no action's guard:
  before,    \* the mode in force when the present emergency began
  era,       \* how often the row was set to EMERGENCY
  excused,   \* requests let through before that, or on a failed read
  stopped,   \* outputs a stop of this era has switched off
  driver     \* driver[o]: the request that last drove o

rowVars == <<mode, prev>>
handlerVars == <<pc, seen, left>>
nodeVars == <<downlink, level>>
history == <<before, era, excused, stopped, driver>>
vars == <<rowVars, handlerVars, nodeVars, history>>

Stage == {"idle", "admitted", "pulsing", "entering", "resolving", "zeroing",
          "resuming", "done"}
Message == [by : Requests, output : Outputs, value : Nat, era : Nat]

TypeOK ==
  /\ mode \in Mode \cup {"NONE"}
  /\ prev \in Mode \cup {"NULL"}
  /\ pc \in [Requests -> Stage]
  /\ seen \in [Requests -> Mode]
  /\ left \in [Requests -> SUBSET Outputs]
  /\ downlink \in Seq(Message)
  /\ level \in [Outputs -> Nat]
  /\ before \in Mode
  /\ era \in Nat
  /\ excused \subseteq Requests
  /\ stopped \subseteq Outputs
  /\ driver \in [Outputs -> Requests \cup {"nobody"}]

Init ==
  /\ mode \in {"NONE", "AUTO", "MANUAL"} /\ prev = "NULL"
  /\ pc = [r \in Requests |-> "idle"]
  /\ seen = [r \in Requests |-> "AUTO"]
  /\ left = [r \in Requests |-> {}]
  /\ downlink = <<>>
  /\ level = [o \in Outputs |-> 0]
  /\ before = "AUTO" /\ era = 0 /\ excused = {} /\ stopped = {}
  /\ driver = [o \in Outputs |-> "nobody"]

-----------------------------------------------------------------------------
(* GetNodeMode: a missing row means AUTO, and so does an error. *)
InForce == IF mode = "NONE" THEN "AUTO" ELSE mode

GetNodeMode(m) == m = InForce \/ (ReadErrors /\ m = "AUTO")

(* dispatch(output, value) for request r: the broker takes the message, or *)
(* the call fails.                                                         *)
Sends(r, o, v) ==
  downlink' = Append(downlink, [by |-> r, output |-> o, value |-> v, era |-> era])

Dispatch(r, o, v) == Sends(r, o, v) \/ downlink' = downlink

Goto(r, stage) == pc' = [pc EXCEPT ![r] = stage]

(* An upsert of the row, and what the history remembers of it. *)
Upsert(m, p) ==
  /\ mode' = m /\ prev' = p
  /\ IF m = "EMERGENCY"
       THEN /\ before' = IF mode = "EMERGENCY" THEN before ELSE InForce
            /\ era' = era + 1
            /\ excused' = {q \in Requests : pc[q] = "admitted"}
            /\ stopped' = {}
       ELSE UNCHANGED <<before, era, excused, stopped>>

UpsertFails == UNCHANGED <<rowVars, before, era, excused, stopped>>

-----------------------------------------------------------------------------
(* The guard of HandleManualCommand: MANUAL only. *)
AdmitManual(r) ==
  /\ pc[r] = "idle" /\ Kind[r] \in {"manual", "pulse"}
  /\ \E m \in Mode :
       /\ GetNodeMode(m)
       /\ IF m = "MANUAL"
            THEN /\ Goto(r, "admitted")
                 /\ excused' = IF m = InForce THEN excused ELSE excused \cup {r}
            ELSE Goto(r, "done") /\ excused' = excused
  /\ UNCHANGED <<rowVars, seen, left, nodeVars, before, era, stopped, driver>>

(* Mutant: a tick that is only stopped by MANUAL. *)
AdmitTickUnlessManual(r) ==
  /\ pc[r] = "idle" /\ Kind[r] = "tick"
  /\ \E m \in Mode :
       /\ GetNodeMode(m)
       /\ IF m # "MANUAL"
            THEN /\ Goto(r, "admitted")
                 /\ excused' = IF m = InForce THEN excused ELSE excused \cup {r}
            ELSE Goto(r, "done") /\ excused' = excused
  /\ UNCHANGED <<rowVars, seen, left, nodeVars, before, era, stopped, driver>>

(* The guard of Engine.dispatch: neither MANUAL nor EMERGENCY. *)
AdmitTick(r) ==
  /\ pc[r] = "idle" /\ Kind[r] = "tick"
  /\ \E m \in Mode :
       /\ GetNodeMode(m)
       /\ IF m = "AUTO"
            THEN /\ Goto(r, "admitted")
                 /\ excused' = IF m = InForce THEN excused ELSE excused \cup {r}
            ELSE Goto(r, "done") /\ excused' = excused
  /\ UNCHANGED <<rowVars, seen, left, nodeVars, before, era, stopped, driver>>

(* What an admitted request dispatches; a pulse that went out leaves its   *)
(* timer behind, one that failed does not.                                 *)
Drive(r) ==
  /\ pc[r] = "admitted"
  /\ \E o \in Outputs, v \in Levels :
       \/ /\ Kind[r] = "pulse" /\ Sends(r, o, v)
          /\ Goto(r, "pulsing") /\ left' = [left EXCEPT ![r] = {o}]
       \/ /\ Kind[r] # "pulse" /\ Sends(r, o, v)
          /\ Goto(r, "done") /\ left' = left
       \/ /\ downlink' = downlink
          /\ Goto(r, "done") /\ left' = left
  /\ UNCHANGED <<rowVars, seen, level, history>>

(* The pulse timer's goroutine: OFF, whatever the mode is by now; a failed *)
(* dispatch is logged.                                                     *)
PulseOff(r) ==
  /\ pc[r] = "pulsing"
  /\ \E o \in left[r] : Dispatch(r, o, 0)
  /\ left' = [left EXCEPT ![r] = {}]
  /\ Goto(r, "done")
  /\ UNCHANGED <<rowVars, seen, level, history>>

-----------------------------------------------------------------------------
(* emergency_stop, and PUT mode EMERGENCY, first read the mode to restore. *)
ReadPrior(r) ==
  /\ pc[r] = "idle"
  /\ \/ Kind[r] = "stop"
     \/ Kind[r] = "put" /\ NewMode[r] = "EMERGENCY"
  /\ \E m \in Mode : GetNodeMode(m) /\ seen' = [seen EXCEPT ![r] = m]
  /\ Goto(r, "entering")
  /\ UNCHANGED <<rowVars, left, nodeVars, history>>

(* The upsert of EnterEmergency.  If it fails the stop logs that and goes  *)
(* on to switch the outputs off; the PUT ends here in any case.            *)
EnterEmergency(r) ==
  /\ pc[r] = "entering"
  /\ Goto(r, IF Kind[r] = "stop" THEN "resolving" ELSE "done")
  /\ Upsert("EMERGENCY", seen[r]) \/ UpsertFails
  /\ UNCHANGED <<seen, left, nodeVars, driver>>

(* The actuators of the node: from the caller, or from the Module Service, *)
(* which may fail and thereby end the stop.                                *)
ResolveActuators(r) ==
  /\ pc[r] = "resolving"
  /\ \/ Goto(r, "done") /\ left' = left
     \/ \E acts \in SUBSET Outputs :
          Goto(r, "zeroing") /\ left' = [left EXCEPT ![r] = acts]
  /\ UNCHANGED <<rowVars, seen, nodeVars, history>>

(* One dispatch after the other; a failed one is skipped. *)
SwitchOff(r) ==
  /\ pc[r] = "zeroing"
  /\ \E o \in left[r] : Dispatch(r, o, 0) /\ left' = [left EXCEPT ![r] = @ \ {o}]
  /\ UNCHANGED <<rowVars, pc, seen, level, history>>

StopReturns(r) ==
  /\ pc[r] = "zeroing" /\ left[r] = {}
  /\ Goto(r, "done")
  /\ UNCHANGED <<rowVars, seen, left, nodeVars, history>>

-----------------------------------------------------------------------------
(* PUT mode MANUAL or AUTO: one upsert, which forgets prev_mode. *)
SetNodeMode(r) ==
  /\ pc[r] = "idle" /\ Kind[r] = "put" /\ NewMode[r] # "EMERGENCY"
  /\ Upsert(NewMode[r], "NULL") \/ UpsertFails
  /\ Goto(r, "done")
  /\ UNCHANGED <<seen, left, nodeVars, driver>>

(* Mutant: a NULL prev_mode is taken as it is. *)
RestoredRaw == prev

(* ResumeNode reads prev_mode, whatever the mode is ... *)
Restored == IF prev = "NULL" THEN "AUTO" ELSE prev

ReadResume(r) ==
  /\ pc[r] = "idle" /\ Kind[r] = "resume"
  /\ \/ Goto(r, "resuming") /\ seen' = [seen EXCEPT ![r] = Restored]
     \/ Goto(r, "done") /\ seen' = seen
  /\ UNCHANGED <<rowVars, left, nodeVars, history>>

(* ... and writes it in a second statement, which may be EMERGENCY.  *)
WriteResume(r) ==
  /\ pc[r] = "resuming"
  /\ Upsert(seen[r], "NULL") \/ UpsertFails
  /\ Goto(r, "done")
  /\ UNCHANGED <<seen, left, nodeVars, driver>>

-----------------------------------------------------------------------------
(* The node executes its messages in order; some never arrive; a reboot    *)
(* drops what waits and switches everything off.                           *)
Execute ==
  /\ downlink # <<>>
  /\ downlink' = Tail(downlink)
  /\ LET m == Head(downlink) IN
       /\ level' = [level EXCEPT ![m.output] = m.value]
       /\ driver' = [driver EXCEPT ![m.output] = m.by]
       /\ stopped' = IF Kind[m.by] = "stop" /\ m.era = era
                       THEN stopped \cup {m.output} ELSE stopped
  /\ UNCHANGED <<rowVars, handlerVars, before, era, excused>>

LoseMessage ==
  /\ downlink # <<>>
  /\ downlink' = Tail(downlink)
  /\ UNCHANGED <<rowVars, handlerVars, level, history>>

Reboot ==
  /\ downlink' = <<>>
  /\ level' = [o \in Outputs |-> 0]
  /\ UNCHANGED <<rowVars, handlerVars, history>>

(* The service dies: handlers and pulse timers with it. *)
Crash ==
  /\ pc' = [r \in Requests |-> IF pc[r] = "idle" THEN "idle" ELSE "done"]
  /\ left' = [r \in Requests |-> {}]
  /\ UNCHANGED <<rowVars, seen, nodeVars, history>>

Handle(r) ==
  \/ AdmitManual(r) \/ AdmitTick(r) \/ Drive(r) \/ PulseOff(r)
  \/ ReadPrior(r) \/ EnterEmergency(r) \/ ResolveActuators(r)
  \/ SwitchOff(r) \/ StopReturns(r)
  \/ SetNodeMode(r) \/ ReadResume(r) \/ WriteResume(r)

Next ==
  \/ \E r \in Requests : Handle(r)
  \/ Execute \/ LoseMessage \/ Reboot \/ Crash

Spec == Init /\ [][Next]_vars
-----------------------------------------------------------------------------
(* Properties *)

(* In an emergency, an output that the stop has switched off is on again   *)
(* only because of a request that had passed its mode guard before the row *)
(* said EMERGENCY, or passed it on a failed read: the guards of            *)
(* HandleManualCommand and Engine.dispatch, the order "mode first, outputs *)
(* then" of the stop and the order of the wire leave no other way.         *)
OnlyEarlierRequestsReenergise ==
  mode = "EMERGENCY" =>
    \A o \in stopped : level[o] > 0 => driver[o] \in excused

(* The same without the exception, as the comments of scheduler.go have it *)
(* ("cannot re-energize an output after the node leaves AUTO"): an output  *)
(* the stop has switched off stays off while the emergency lasts.          *)
StaysOffInEmergency ==
  mode = "EMERGENCY" => \A o \in stopped : level[o] = 0

(* What Resume would restore is at any time of an emergency the mode that  *)
(* was active before it (comment of ControlService.ResumeNode).            *)
ResumeRestoresPriorMode == mode = "EMERGENCY" => Restored = before
=============================================================================
