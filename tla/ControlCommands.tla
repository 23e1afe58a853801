--------------------------- MODULE ControlCommands ---------------------------
(***************************************************************************)
(* The life of an actuator command: the dispatch path of the Control       *)
(* Service, the MQTT broker between it and one ESP32 node, the firmware     *)
(* that executes and confirms, and the ACK timeout sweep.                  *)
(*                                                                         *)
(* A command is one call of ControlService.dispatch: an HTTP handler, a    *)
(* schedule runner or a pulse timer runs it in a goroutine of its own, so  *)
(* all of them interleave.  Its identity stands for both the row id and    *)
(* the req_id that correlates the confirmation.                            *)
(***************************************************************************)
EXTENDS Integers, Sequences

CONSTANTS
  Commands,   \* the dispatches a behaviour may make, each at most once
  Targets,    \* output names a command may carry
  Outputs,    \* the outputs configured on the node (Config::HardwareOutputs)
  Pwm,        \* those of type PWM; the others are DIGITAL
  Target,     \* Target[c]: the output name command c carries
  Value,      \* Value[c]: the level command c carries
  MaxCopies   \* bound: copies of one command the broker may accept

ASSUME CommandsAssumption ==
  /\ Outputs \subseteq Targets
  /\ Pwm \subseteq Outputs
  /\ Target \in [Commands -> Targets]
  /\ Value \in [Commands -> Int]
  /\ MaxCopies \in Nat \ {0}

VARIABLES
  status,     \* commands.status of each row, "absent" before the INSERT
  ackedAt,    \* rows whose acked_at is not NULL
  stale,      \* rows whose created_at is older than the ACK timeout
  audit,      \* audit[e]: commands with an outbox row for event e
  pc,         \* where the goroutine that runs dispatch(c) stands
  link,       \* the service's MQTT client is connected
  view,       \* ControlService.state: last known level of each output
  downlink,   \* set_output messages from the broker to the node, in order
  accepted,   \* copies of set_output the broker has taken, ever
  confirms,   \* copies of /confirm on their way to the service
  telemetry,  \* the telemetry.outputs snapshot on its way, if any
  nodeUp,     \* the node is connected to the broker and subscribed
  level,      \* HardwareManager::outputStates
  received    \* commands the firmware's mqttCallback has handled

dbVars == <<status, ackedAt, stale, audit>>
svcVars == <<pc, link, view>>
wireVars == <<downlink, accepted, confirms, telemetry>>
nodeVars == <<nodeUp, level, received>>
vars == <<dbVars, svcVars, wireVars, nodeVars>>

Open == {"pending", "sent"}                 \* still waiting for a /confirm
Final == {"acked", "timeout", "failed"}
Status == Open \cup Final
Stage == {"idle", "created", "publishing", "published", "refused", "done"}
Event == {"sent", "failed", "acked"}        \* control.command.<event>

-----------------------------------------------------------------------------
(* The level setOutput drives for a requested value. *)
Applied(o, v) ==
  CASE o \in Pwm /\ v < 0   -> 0
    [] o \in Pwm /\ v > 255 -> 255
    [] o \in Pwm /\ v \in 0..255 -> v
    [] o \notin Pwm /\ v > 0 -> 1
    [] OTHER -> 0

TypeOK ==
  /\ status \in [Commands -> Status \cup {"absent"}]
  /\ ackedAt \subseteq Commands
  /\ stale \subseteq Commands
  /\ audit \in [Event -> SUBSET Commands]
  /\ pc \in [Commands -> Stage]
  /\ link \in BOOLEAN
  /\ view \in [Targets -> Int]
  /\ downlink \in Seq(Commands)
  /\ accepted \in [Commands -> 0..MaxCopies]
  /\ confirms \in [Commands -> Nat]
  /\ telemetry \subseteq [Outputs -> Int]
  /\ nodeUp \in BOOLEAN
  /\ level \in [Outputs -> Int]
  /\ received \subseteq Commands

(* An empty table, a node that has just booted, nothing in flight.  An     *)
(* output the service has not heard of counts as off (getState's ok).      *)
Init ==
  /\ status = [c \in Commands |-> "absent"]
  /\ ackedAt = {} /\ stale = {}
  /\ audit = [event \in Event |-> {}]
  /\ pc = [c \in Commands |-> "idle"]
  /\ link \in BOOLEAN
  /\ view = [o \in Targets |-> 0]
  /\ downlink = <<>>
  /\ accepted = [c \in Commands |-> 0]
  /\ confirms = [c \in Commands |-> 0]
  /\ telemetry = {}
  /\ nodeUp \in BOOLEAN
  /\ level = [o \in Outputs |-> 0]
  /\ received = {}

-----------------------------------------------------------------------------
(* dispatch, one database or broker call at a time *)

(* The INSERT of the pending row; on a database error dispatch returns.    *)
CreateCommand(c) ==
  /\ pc[c] = "idle"
  /\ \/ /\ status' = [status EXCEPT ![c] = "pending"]
        /\ pc' = [pc EXCEPT ![c] = "created"]
     \/ /\ status' = status
        /\ pc' = [pc EXCEPT ![c] = "done"]
  /\ UNCHANGED <<ackedAt, stale, audit, link, view, wireVars, nodeVars>>

(* IsConnected, asked by dispatch and again by PublishSetOutput. *)
CheckPublisher(c) ==
  /\ pc[c] = "created"
  /\ pc' = [pc EXCEPT ![c] = IF link THEN "publishing" ELSE "refused"]
  /\ UNCHANGED <<dbVars, link, view, wireVars, nodeVars>>

(* The broker takes a copy of the QoS 1 publish; the client repeats it     *)
(* when the connection breaks before the PUBACK.  The subscription is QoS  *)
(* 0, so the broker forwards each copy at most once, in the order taken.   *)
BrokerAccepts(c) ==
  /\ pc[c] = "publishing"
  /\ link
  /\ accepted[c] < MaxCopies
  /\ accepted' = [accepted EXCEPT ![c] = @ + 1]
  /\ downlink' = Append(downlink, c)
  /\ UNCHANGED <<dbVars, svcVars, confirms, telemetry, nodeVars>>

(* Mutant: a publish that returns an error counts as a success. *)
PublishAlwaysWorks(c) ==
  /\ pc[c] = "publishing"
  /\ pc' = [pc EXCEPT ![c] = "published"]
  /\ UNCHANGED <<dbVars, link, view, wireVars, nodeVars>>

(* tok.Wait returns: with the PUBACK, or with an error, which does not     *)
(* mean that the broker has not taken the message.                         *)
PublishReturns(c) ==
  /\ pc[c] = "publishing"
  /\ \/ /\ accepted[c] > 0
        /\ pc' = [pc EXCEPT ![c] = "published"]
     \/ pc' = [pc EXCEPT ![c] = "refused"]
  /\ UNCHANGED <<dbVars, link, view, wireVars, nodeVars>>

(* publishAudit: a transaction of its own, whose failure is only logged. *)
PublishAudit(event, c) ==
  \/ audit' = [audit EXCEPT ![event] = @ \cup {c}]
  \/ audit' = audit

(* Mutant: a status the other statements do not know. *)
UpdateWithWrongStatus(c, s) == status' = [status EXCEPT ![c] = "publishing"]

(* UpdateCommandStatus: no condition on the status it overwrites, and the  *)
(* error of a failed UPDATE is dropped.                                    *)
UpdateCommandStatus(c, s) ==
  \/ status' = [status EXCEPT ![c] = s]
  \/ status' = status

(* The tail of dispatch after a successful publish. *)
MarkSent(c) ==
  /\ pc[c] = "published"
  /\ UpdateCommandStatus(c, "sent")
  /\ view' = [view EXCEPT ![Target[c]] = Value[c]]
  /\ PublishAudit("sent", c)
  /\ pc' = [pc EXCEPT ![c] = "done"]
  /\ UNCHANGED <<ackedAt, stale, link, wireVars, nodeVars>>

(* The tail of dispatch when the broker is away or the publish failed. *)
MarkFailed(c) ==
  /\ pc[c] = "refused"
  /\ UpdateCommandStatus(c, "failed")
  /\ PublishAudit("failed", c)
  /\ pc' = [pc EXCEPT ![c] = "done"]
  /\ UNCHANGED <<ackedAt, stale, link, view, wireVars, nodeVars>>

-----------------------------------------------------------------------------
(* The node *)

(* mqttCallback: drive the output if the node has it, then confirm in any  *)
(* case.  The confirmation is lost if the publish fails.                   *)
MqttCallback(c) ==
  /\ nodeUp
  /\ downlink # <<>> /\ c = Head(downlink)
  /\ downlink' = Tail(downlink)
  /\ level' = IF Target[c] \in Outputs
                THEN [level EXCEPT ![Target[c]] = Applied(Target[c], Value[c])]
                ELSE level
  /\ received' = received \cup {c}
  /\ \/ confirms' = [confirms EXCEPT ![c] = @ + 1]
     \/ confirms' = confirms
  /\ UNCHANGED <<dbVars, svcVars, accepted, telemetry, nodeUp>>

(* telemetryTask samples outputStates and publishes at QoS 0. *)
PublishTelemetry ==
  /\ nodeUp
  /\ telemetry = {}
  /\ telemetry' = {level}
  /\ UNCHANGED <<dbVars, svcVars, downlink, accepted, confirms, nodeVars>>

(* A session the node loses is clean: what waits for it is dropped.  A     *)
(* reboot also switches every output off (HardwareManager::init).          *)
NodeLost ==
  /\ nodeUp
  /\ nodeUp' = FALSE
  /\ downlink' = <<>>
  /\ \/ level' = level
     \/ level' = [o \in Outputs |-> 0]
  /\ UNCHANGED <<dbVars, svcVars, accepted, confirms, telemetry, received>>

NodeConnects ==
  /\ ~nodeUp
  /\ nodeUp' = TRUE
  /\ UNCHANGED <<dbVars, svcVars, wireVars, level, received>>

-----------------------------------------------------------------------------
(* The service's subscriptions and its timeout sweep *)

(* Mutants: an UPDATE that does not look at the status, one that does not  *)
(* look at the req_id, and one that forgets acked_at.                      *)
AckWhateverStatus(c) ==
  /\ link /\ confirms[c] > 0
  /\ confirms' = [confirms EXCEPT ![c] = @ - 1]
  /\ status' = [status EXCEPT ![c] = "acked"]
  /\ ackedAt' = ackedAt \cup {c}
  /\ PublishAudit("acked", c)
  /\ UNCHANGED <<stale, svcVars, downlink, accepted, telemetry, nodeVars>>

AckWhicheverCommand(c) ==
  /\ link /\ confirms[c] > 0
  /\ confirms' = [confirms EXCEPT ![c] = @ - 1]
  /\ \E d \in Commands : /\ status[d] \in Open
                         /\ status' = [status EXCEPT ![d] = "acked"]
                         /\ ackedAt' = ackedAt \cup {d}
                         /\ PublishAudit("acked", d)
  /\ UNCHANGED <<stale, svcVars, downlink, accepted, telemetry, nodeVars>>

AckWithoutTime(c) ==
  /\ link /\ confirms[c] > 0
  /\ confirms' = [confirms EXCEPT ![c] = @ - 1]
  /\ status' = [status EXCEPT ![c] = IF @ \in Open THEN "acked" ELSE @]
  /\ UNCHANGED <<ackedAt, audit, stale, svcVars, downlink, accepted, telemetry,
                 nodeVars>>

(* onConfirm -> MarkAckedByReqID: one conditional UPDATE, then the audit   *)
(* row if it matched.  A database error is logged and the ACK is gone.     *)
OnConfirm(c) ==
  /\ link
  /\ confirms[c] > 0
  /\ confirms' = [confirms EXCEPT ![c] = @ - 1]
  /\ \/ /\ status[c] \in Open
        /\ status' = [status EXCEPT ![c] = "acked"]
        /\ ackedAt' = ackedAt \cup {c}
        /\ PublishAudit("acked", c)
     \/ UNCHANGED <<status, ackedAt, audit>>
  /\ UNCHANGED <<stale, svcVars, downlink, accepted, telemetry, nodeVars>>

(* Mutant: the outputs of a telemetry message are ignored. *)
OnTelemetryIgnored ==
  /\ link /\ telemetry # {}
  /\ telemetry' = {}
  /\ UNCHANGED <<dbVars, svcVars, downlink, accepted, confirms, nodeVars>>

(* onTelemetry overwrites the levels of the outputs the node reports. *)
OnTelemetry ==
  /\ link
  /\ \E snapshot \in telemetry :
       view' = [o \in Targets |-> IF o \in Outputs THEN snapshot[o] ELSE view[o]]
  /\ telemetry' = {}
  /\ UNCHANGED <<dbVars, pc, link, downlink, accepted, confirms, nodeVars>>

(* A row grows older than AckTimeout. *)
Age(c) ==
  /\ status[c] # "absent"
  /\ c \notin stale
  /\ stale' = stale \cup {c}
  /\ UNCHANGED <<status, ackedAt, audit, svcVars, wireVars, nodeVars>>

(* Mutants: a sweep that does not look at the status, and one that only    *)
(* knows "sent".                                                           *)
TimeoutEveryStale ==
  /\ stale # {}
  /\ status' = [c \in Commands |-> IF c \in stale THEN "timeout" ELSE status[c]]
  /\ UNCHANGED <<ackedAt, stale, audit, svcVars, wireVars, nodeVars>>

TimeoutSentOnly ==
  /\ \E c \in stale : status[c] = "sent"
  /\ status' = [c \in Commands |->
                  IF c \in stale /\ status[c] = "sent" THEN "timeout" ELSE status[c]]
  /\ UNCHANGED <<ackedAt, stale, audit, svcVars, wireVars, nodeVars>>

(* The ticker's UPDATE flips every such row that is still open. *)
TimeoutStale ==
  /\ \E c \in stale : status[c] \in Open
  /\ status' = [c \in Commands |->
                  IF c \in stale /\ status[c] \in Open THEN "timeout" ELSE status[c]]
  /\ UNCHANGED <<ackedAt, stale, audit, svcVars, wireVars, nodeVars>>

-----------------------------------------------------------------------------
(* Faults *)

LinkLost ==
  /\ link
  /\ link' = FALSE
  /\ UNCHANGED <<dbVars, pc, view, wireVars, nodeVars>>

LinkRestored ==
  /\ ~link
  /\ link' = TRUE
  /\ UNCHANGED <<dbVars, pc, view, wireVars, nodeVars>>

(* QoS 0: anything on the wire may be lost.  The broker keeps the order of *)
(* one publisher's messages, so a loss shows when the message is due.      *)
LoseMessage ==
  /\ \/ /\ downlink # <<>> /\ downlink' = Tail(downlink)
        /\ UNCHANGED <<confirms, telemetry>>
     \/ /\ \E c \in Commands : /\ confirms[c] > 0
                               /\ confirms' = [confirms EXCEPT ![c] = @ - 1]
        /\ UNCHANGED <<downlink, telemetry>>
     \/ /\ telemetry # {} /\ telemetry' = {}
        /\ UNCHANGED <<downlink, confirms>>
  /\ UNCHANGED <<dbVars, svcVars, accepted, nodeVars>>

(* The process dies: its goroutines, its connection and its maps are gone, *)
(* the table is not.                                                       *)
Crash ==
  /\ pc' = [c \in Commands |-> IF pc[c] = "idle" THEN "idle" ELSE "done"]
  /\ link' = FALSE
  /\ view' = [o \in Targets |-> 0]
  /\ UNCHANGED <<dbVars, wireVars, nodeVars>>

-----------------------------------------------------------------------------
Dispatch(c) ==
  \/ CreateCommand(c)
  \/ CheckPublisher(c)
  \/ BrokerAccepts(c)
  \/ PublishReturns(c)
  \/ MarkSent(c)
  \/ MarkFailed(c)

Next ==
  \/ \E c \in Commands : \/ Dispatch(c) \/ MqttCallback(c)
                         \/ OnConfirm(c) \/ Age(c)
  \/ PublishTelemetry \/ OnTelemetry \/ TimeoutStale
  \/ NodeLost \/ NodeConnects
  \/ LinkLost \/ LinkRestored \/ LoseMessage \/ Crash

(* Time passes and the sweep's ticker keeps firing; a goroutine between    *)
(* two calls that do not wait for the broker goes on; telemetry is sent    *)
(* and, while both ends stay connected, handled (it may be lost any number *)
(* of times, not for ever).                                                *)
Fairness ==
  /\ \A c \in Commands : WF_vars(Age(c)) /\ WF_vars(CheckPublisher(c))
                         /\ WF_vars(MarkSent(c)) /\ WF_vars(MarkFailed(c))
                         /\ WF_vars(MqttCallback(c))
  /\ WF_vars(TimeoutStale)
  /\ WF_vars(PublishTelemetry)
  /\ SF_vars(OnTelemetry)

Spec == Init /\ [][Next]_vars /\ Fairness
-----------------------------------------------------------------------------
(* Properties *)

(* A row is acked, carries an acked_at or has an "acked" audit event only  *)
(* if the firmware handled that very command: the wire may lose, duplicate *)
(* and delay, a crash may hit dispatch anywhere, and still no command is   *)
(* confirmed on another's behalf or before it ran (MarkAckedByReqID).      *)
ConfirmationIsEvidence ==
  \A c \in Commands :
    /\ status[c] = "acked" => c \in ackedAt
    /\ c \in ackedAt => c \in received
    /\ c \in audit["acked"] => c \in ackedAt

(* The audit trail of dispatch does not contradict itself or the broker:   *)
(* "sent" is written only for a command the broker took, and no command    *)
(* has both a "sent" and a "failed" event.                                 *)
AuditIsTruthful ==
  \A c \in Commands :
    /\ c \in audit["sent"] => accepted[c] > 0 /\ c \notin audit["failed"]
    /\ status[c] = "failed" => c \notin audit["sent"]

(* Once dispatch has returned (or died) a final status stays what it is: a *)
(* late /confirm does not revive a timed-out or failed command and the     *)
(* sweep does not touch an acked one.                                      *)
SettledIsFinal ==
  [][\A c \in Commands : pc[c] = "done" /\ status[c] \in Final
                            => status'[c] = status[c]]_vars

(* The model's promise that a command marked timeout had no /confirm:        *)
(* model.go, StatusTimeout, "no /confirm within AckTimeout".               *)
TimeoutMeansNoConfirm ==
  \A c \in Commands : status[c] = "timeout" => c \notin ackedAt

(* No command stays in limbo: whatever fails, every row that was created   *)
(* leaves pending and sent for good (integration guide, ACK timeout sweep).*)
NoCommandInLimbo == \A c \in Commands : <>[](status[c] \notin Open)

(* If the service and the node eventually stay connected, the level the    *)
(* dashboard shows and toggle flips is eventually the node's level, however *)
(* commands, telemetry and a crash were interleaved before.                *)
ViewConverges ==
  <>[](link /\ nodeUp) => <>[](\A o \in Outputs : view[o] = level[o])

-----------------------------------------------------------------------------
(* The abstract life of a command: the row's status counts once dispatch   *)
(* is over; before that, whatever the row says, it is being dispatched.    *)
PhaseOf(c) ==
  CASE pc[c] = "idle" -> "none"
    [] pc[c] \notin {"idle", "done"} -> "dispatching"
    [] pc[c] = "done" /\ status[c] = "absent" -> "unlogged"
    [] pc[c] = "done" /\ status[c] \in Open -> "awaiting"
    [] OTHER -> status[c]

Lifecycle == INSTANCE CommandLifecycle
               WITH phase <- [c \in Commands |-> PhaseOf(c)], executed <- received

(* The dispatch path, the wire, the node, the sweep and their faults       *)
(* together keep the promise of CommandLifecycle.                          *)
ImplementsLifecycle == Lifecycle!Spec
=============================================================================
