----------------------- MODULE ControlCommandsProofs -----------------------
(***************************************************************************)
(* Proofs about ControlCommands for any set of commands, outputs and       *)
(* levels, and any bound on retransmission.                                *)
(***************************************************************************)
EXTENDS ControlCommands, SequenceTheorems, TLAPS

(* What the stages of dispatch, the wire and the node know of each other:  *)
(* evidence flows one way, from the broker's acceptance to the node's      *)
(* receipt, from there to a /confirm, and from there to the row.           *)
StageOf(c) ==
  /\ pc[c] = "idle" => status[c] = "absent"
  /\ pc[c] \notin {"idle", "done"} => status[c] # "absent"
  /\ pc[c] = "published" => accepted[c] > 0
  /\ accepted[c] > 0 => pc[c] \in {"publishing", "published", "refused", "done"}
  /\ accepted[c] > 0 => status[c] # "absent"
  /\ status[c] = "sent" => pc[c] = "done"
  /\ status[c] = "failed" => pc[c] = "done"

StageInv == \A c \in Commands : StageOf(c)

WireInv ==
  /\ \A i \in 1..Len(downlink) : accepted[downlink[i]] > 0
  /\ \A c \in Commands : c \in received => accepted[c] > 0
  /\ \A c \in Commands : confirms[c] > 0 => c \in received

AuditOf(c) ==
  /\ c \in audit["sent"] => pc[c] = "done" /\ accepted[c] > 0
  /\ c \in audit["failed"] => pc[c] = "done"
  /\ ~(c \in audit["sent"] /\ c \in audit["failed"])
  /\ status[c] = "failed" => c \notin audit["sent"]

AuditInv == \A c \in Commands : AuditOf(c)

IInv ==
  /\ TypeOK
  /\ StageInv
  /\ WireInv
  /\ AuditInv
  /\ ConfirmationIsEvidence

-----------------------------------------------------------------------------
(* The levels the firmware drives and the service records are integers. *)
LEMMA AppliedInt ==
  ASSUME NEW o, NEW v \in Int
  PROVE  Applied(o, v) \in Int
<1>1. CASE o \in Pwm /\ v < 0
  BY <1>1 DEF Applied
<1>2. CASE o \in Pwm /\ v > 255
  BY <1>2 DEF Applied
<1>3. CASE o \in Pwm /\ v \in 0..255
  BY <1>3 DEF Applied
<1>4. CASE o \notin Pwm /\ v > 0
  BY <1>4 DEF Applied
<1>5. CASE o \notin Pwm /\ ~(v > 0)
  BY <1>5 DEF Applied
<1> QED
  BY <1>1, <1>2, <1>3, <1>4, <1>5

(* The values the actions assign, kept apart so that the sets they belong  *)
(* to need not be expanded again.                                          *)
LEMMA Constants ==
  /\ "pending" \in Status /\ "sent" \in Status /\ "acked" \in Status
  /\ "timeout" \in Status /\ "failed" \in Status
  /\ "idle" \in Stage /\ "created" \in Stage /\ "publishing" \in Stage
  /\ "published" \in Stage /\ "refused" \in Stage /\ "done" \in Stage
  /\ "sent" \in Event /\ "failed" \in Event /\ "acked" \in Event
BY DEF Status, Open, Final, Stage, Event

(* UpdateCommandStatus keeps the status column well typed. *)
LEMMA StatusType ==
  ASSUME TypeOK, NEW c \in Commands, NEW s \in Status, UpdateCommandStatus(c, s)
  PROVE  status' \in [Commands -> Status \cup {"absent"}]
<1>1. CASE status' = [status EXCEPT ![c] = s]
  BY <1>1 DEF TypeOK
<1>2. CASE status' = status
  BY <1>2 DEF TypeOK
<1> QED
  BY <1>1, <1>2 DEF UpdateCommandStatus

(* publishAudit keeps the audit trail well typed. *)
LEMMA AuditType ==
  ASSUME TypeOK, NEW c \in Commands, NEW e \in Event, PublishAudit(e, c)
  PROVE  audit' \in [Event -> SUBSET Commands]
<1>1. CASE audit' = [audit EXCEPT ![e] = @ \cup {c}]
  BY <1>1 DEF TypeOK
<1>2. CASE audit' = audit
  BY <1>2 DEF TypeOK
<1> QED
  BY <1>1, <1>2 DEF PublishAudit

(* An audit call adds at most its own event for its own command. *)
LEMMA AuditGrowth ==
  ASSUME TypeOK, NEW c \in Commands, NEW e \in Event, PublishAudit(e, c)
  PROVE  \A f \in Event : \A d \in Commands :
           d \in audit'[f] => d \in audit[f] \/ (d = c /\ f = e)
<1>1. CASE audit' = [audit EXCEPT ![e] = @ \cup {c}]
  BY <1>1 DEF TypeOK
<1>2. CASE audit' = audit
  BY <1>2
<1> QED
  BY <1>1, <1>2 DEF PublishAudit

(* The type invariant is inductive on its own: one step per action. *)
LEMMA TypeStep == TypeOK /\ [Next]_vars => TypeOK'
<1> SUFFICES ASSUME TypeOK, [Next]_vars
             PROVE  TypeOK'
  OBVIOUS
<1> USE CommandsAssumption, Constants DEF TypeOK, dbVars, svcVars, wireVars, nodeVars
<1>1. ASSUME NEW c \in Commands, CreateCommand(c) PROVE TypeOK'
  <2>1. status' \in [Commands -> Status \cup {"absent"}]
    BY <1>1 DEF CreateCommand
  <2>2. pc' \in [Commands -> Stage]
    BY <1>1 DEF CreateCommand
  <2> QED
    BY <1>1, <2>1, <2>2 DEF CreateCommand
<1>2. ASSUME NEW c \in Commands, CheckPublisher(c) PROVE TypeOK'
  BY <1>2 DEF CheckPublisher
<1>3. ASSUME NEW c \in Commands, BrokerAccepts(c) PROVE TypeOK'
  <2>1. downlink' \in Seq(Commands)
    BY <1>3, AppendProperties DEF BrokerAccepts
  <2>2. accepted' \in [Commands -> 0..MaxCopies]
    BY <1>3 DEF BrokerAccepts
  <2> QED
    BY <1>3, <2>1, <2>2 DEF BrokerAccepts
<1>4. ASSUME NEW c \in Commands, PublishReturns(c) PROVE TypeOK'
  BY <1>4 DEF PublishReturns
<1>5. ASSUME NEW c \in Commands, MarkSent(c) PROVE TypeOK'
  <2>1. status' \in [Commands -> Status \cup {"absent"}] /\ audit' \in [Event -> SUBSET Commands]
    BY <1>5, StatusType, AuditType DEF MarkSent
  <2> QED
    BY <1>5, <2>1 DEF MarkSent
<1>6. ASSUME NEW c \in Commands, MarkFailed(c) PROVE TypeOK'
  <2>1. status' \in [Commands -> Status \cup {"absent"}] /\ audit' \in [Event -> SUBSET Commands]
    BY <1>6, StatusType, AuditType DEF MarkFailed
  <2> QED
    BY <1>6, <2>1 DEF MarkFailed
<1>7. ASSUME NEW c \in Commands, MqttCallback(c) PROVE TypeOK'
  <2>1. level' \in [Outputs -> Int]
    BY <1>7, AppliedInt DEF MqttCallback
  <2>2. downlink' \in Seq(Commands)
    BY <1>7, HeadTailProperties DEF MqttCallback
  <2>3. confirms' \in [Commands -> Nat]
    <3>1. CASE confirms' = [confirms EXCEPT ![c] = @ + 1]
      BY <3>1
    <3>2. CASE confirms' = confirms
      BY <3>2
    <3> QED
      BY <1>7, <3>1, <3>2 DEF MqttCallback
  <2> QED
    BY <1>7, <2>1, <2>2, <2>3 DEF MqttCallback
<1>8. ASSUME NEW c \in Commands, OnConfirm(c) PROVE TypeOK'
  <2>1. audit' \in [Event -> SUBSET Commands]
    BY <1>8, AuditType DEF OnConfirm
  <2>2. confirms' \in [Commands -> Nat]
    BY <1>8 DEF OnConfirm
  <2>3. /\ status' \in [Commands -> Status \cup {"absent"}]
        /\ ackedAt' \subseteq Commands
    BY <1>8 DEF OnConfirm
  <2> QED
    BY <1>8, <2>1, <2>2, <2>3 DEF OnConfirm
<1>9. ASSUME NEW c \in Commands, Age(c) PROVE TypeOK'
  BY <1>9 DEF Age
<1>10. CASE PublishTelemetry
  BY <1>10 DEF PublishTelemetry
<1>11. CASE OnTelemetry
  BY <1>11 DEF OnTelemetry
<1>12. CASE TimeoutStale
  BY <1>12 DEF TimeoutStale
<1>13. CASE NodeLost
  <2>1. downlink' \in Seq(Commands)
    BY <1>13, EmptySeq DEF NodeLost
  <2>2. level' \in [Outputs -> Int]
    BY <1>13 DEF NodeLost
  <2> QED
    BY <1>13, <2>1, <2>2 DEF NodeLost
<1>14. CASE NodeConnects
  BY <1>14 DEF NodeConnects
<1>15. CASE LinkLost \/ LinkRestored
  BY <1>15 DEF LinkLost, LinkRestored
<1>16. CASE LoseMessage
  <2>1. CASE downlink # <<>> /\ downlink' = Tail(downlink) /\ UNCHANGED <<confirms, telemetry>>
    <3>1. downlink' \in Seq(Commands)
      BY <2>1, HeadTailProperties
    <3> QED
      BY <1>16, <2>1, <3>1 DEF LoseMessage
  <2>2. ASSUME NEW c \in Commands, confirms[c] > 0,
               confirms' = [confirms EXCEPT ![c] = @ - 1], UNCHANGED <<downlink, telemetry>>
        PROVE  TypeOK'
    <3>1. confirms' \in [Commands -> Nat]
      BY <2>2
    <3> QED
      BY <1>16, <2>2, <3>1 DEF LoseMessage
  <2>3. CASE telemetry' = {} /\ UNCHANGED <<downlink, confirms>>
    BY <1>16, <2>3 DEF LoseMessage
  <2> QED
    BY <1>16, <2>1, <2>2, <2>3 DEF LoseMessage
<1>17. CASE Crash
  <2>1. pc' \in [Commands -> Stage]
    BY <1>17 DEF Crash
  <2>2. view' \in [Targets -> Int]
    BY <1>17 DEF Crash
  <2> QED
    BY <1>17, <2>1, <2>2 DEF Crash
<1>18. CASE UNCHANGED vars
  BY <1>18 DEF vars
<1> QED
  BY <1>1, <1>2, <1>3, <1>4, <1>5, <1>6, <1>7, <1>8, <1>9, <1>10, <1>11,
     <1>12, <1>13, <1>14, <1>15, <1>16, <1>17, <1>18 DEF Next, Dispatch

(* Every variable keeps its type: TypeOK holds in every reachable state. *)
THEOREM TypeCorrect == Spec => []TypeOK
<1>1. Init => TypeOK
  BY CommandsAssumption, Constants, EmptySeq DEF Init, TypeOK
<1> QED
  BY <1>1, TypeStep, PTL DEF Spec

-----------------------------------------------------------------------------
(* Each part of the invariant is kept by every step; the steps that leave  *)
(* a part's variables alone are taken together.                            *)

(* Stages of dispatch and rows move together, and the broker accepts only  *)
(* what dispatch is publishing.                                            *)
LEMMA StageStep == TypeOK /\ StageInv /\ [Next]_vars => StageInv'
<1> SUFFICES ASSUME TypeOK, StageInv, [Next]_vars, NEW d \in Commands
             PROVE  StageOf(d)'
  BY DEF StageInv
<1> USE DEF TypeOK, StageInv, StageOf, Open, dbVars, svcVars, wireVars, nodeVars
<1>1. ASSUME NEW c \in Commands, CreateCommand(c) PROVE StageOf(d)'
  BY <1>1 DEF CreateCommand
<1>2. ASSUME NEW c \in Commands, CheckPublisher(c) PROVE StageOf(d)'
  BY <1>2 DEF CheckPublisher
<1>3. ASSUME NEW c \in Commands, BrokerAccepts(c) PROVE StageOf(d)'
  BY <1>3 DEF BrokerAccepts
<1>4. ASSUME NEW c \in Commands, PublishReturns(c) PROVE StageOf(d)'
  BY <1>4 DEF PublishReturns
<1>5. ASSUME NEW c \in Commands, MarkSent(c) PROVE StageOf(d)'
  BY <1>5 DEF MarkSent, UpdateCommandStatus, PublishAudit
<1>6. ASSUME NEW c \in Commands, MarkFailed(c) PROVE StageOf(d)'
  BY <1>6 DEF MarkFailed, UpdateCommandStatus, PublishAudit
<1>7. ASSUME NEW c \in Commands, OnConfirm(c) PROVE StageOf(d)'
  BY <1>7 DEF OnConfirm, PublishAudit
<1>8. CASE TimeoutStale
  BY <1>8 DEF TimeoutStale
<1>9. CASE Crash
  BY <1>9 DEF Crash
<1>10. ASSUME NEW c \in Commands, MqttCallback(c) \/ Age(c)
     PROVE  StageOf(d)'
  BY <1>10 DEF MqttCallback, Age
<1>11. CASE PublishTelemetry \/ OnTelemetry \/ NodeLost \/ NodeConnects
              \/ LinkLost \/ LinkRestored \/ LoseMessage
  BY <1>11 DEF PublishTelemetry, OnTelemetry, NodeLost, NodeConnects,
               LinkLost, LinkRestored, LoseMessage
<1>12. CASE UNCHANGED vars
  BY <1>12 DEF vars
<1> QED
  BY <1>1, <1>2, <1>3, <1>4, <1>5, <1>6, <1>7, <1>8, <1>9, <1>10, <1>11, <1>12 DEF Next, Dispatch

(* An audit event is written in the step that ends dispatch, or by OnConfirm. *)
LEMMA AuditStep == TypeOK /\ StageInv /\ AuditInv /\ [Next]_vars => AuditInv'
<1> SUFFICES ASSUME TypeOK, StageInv /\ AuditInv, [Next]_vars, NEW d \in Commands
             PROVE  AuditOf(d)'
  BY DEF AuditInv
<1> USE DEF TypeOK, StageInv, StageOf, AuditInv, AuditOf, Open, dbVars, svcVars, wireVars, nodeVars
<1>1. ASSUME NEW c \in Commands, BrokerAccepts(c) PROVE AuditOf(d)'
  BY <1>1 DEF BrokerAccepts
<1>2. ASSUME NEW c \in Commands, MarkSent(c) PROVE AuditOf(d)'
  <2>1. \A f \in Event : d \in audit'[f] => d \in audit[f] \/ (d = c /\ f = "sent")
    BY <1>2, Constants, AuditGrowth DEF MarkSent
  <2>2. status'[d] = "failed" => status[d] = "failed"
    BY <1>2 DEF MarkSent, UpdateCommandStatus
  <2>3. ~(c \in audit["failed"]) /\ status[c] # "failed" /\ accepted[c] > 0
    BY <1>2 DEF MarkSent
  <2> QED
    BY <1>2, <2>1, <2>2, <2>3, Constants DEF MarkSent
<1>3. ASSUME NEW c \in Commands, MarkFailed(c) PROVE AuditOf(d)'
  <2>1. \A f \in Event : d \in audit'[f] => d \in audit[f] \/ (d = c /\ f = "failed")
    BY <1>3, Constants, AuditGrowth DEF MarkFailed
  <2>2. d # c => status'[d] = status[d]
    BY <1>3 DEF MarkFailed, UpdateCommandStatus
  <2>3. ~(c \in audit["sent"])
    BY <1>3 DEF MarkFailed
  <2> QED
    BY <1>3, <2>1, <2>2, <2>3, Constants DEF MarkFailed
<1>4. ASSUME NEW c \in Commands, OnConfirm(c) PROVE AuditOf(d)'
  <2>1. \A f \in Event : d \in audit'[f] => d \in audit[f] \/ (d = c /\ f = "acked")
    BY <1>4, Constants, AuditGrowth DEF OnConfirm
  <2>2. status'[d] = "failed" => status[d] = "failed"
    BY <1>4 DEF OnConfirm
  <2> QED
    BY <1>4, <2>1, <2>2, Constants DEF OnConfirm
<1>5. CASE TimeoutStale
  BY <1>5 DEF TimeoutStale
<1>6. CASE Crash
  BY <1>6 DEF Crash
<1>7. ASSUME NEW c \in Commands,
             CreateCommand(c) \/ CheckPublisher(c) \/ PublishReturns(c)
               \/ MqttCallback(c) \/ Age(c)
     PROVE  AuditOf(d)'
  BY <1>7 DEF CreateCommand, CheckPublisher, PublishReturns, MqttCallback, Age
<1>8. CASE PublishTelemetry \/ OnTelemetry \/ NodeLost \/ NodeConnects
             \/ LinkLost \/ LinkRestored \/ LoseMessage
  BY <1>8 DEF PublishTelemetry, OnTelemetry, NodeLost, NodeConnects,
              LinkLost, LinkRestored, LoseMessage
<1>9. CASE UNCHANGED vars
  BY <1>9 DEF vars
<1> QED
  BY <1>1, <1>2, <1>3, <1>4, <1>5, <1>6, <1>7, <1>8, <1>9 DEF Next, Dispatch

(* A message on the wire, downlink or confirmation, was sent by its sender. *)
LEMMA WireStep == TypeOK /\ WireInv /\ [Next]_vars => WireInv'
<1> SUFFICES ASSUME TypeOK, WireInv, [Next]_vars
             PROVE  WireInv'
  OBVIOUS
<1> USE DEF TypeOK, WireInv, dbVars, svcVars, wireVars, nodeVars
<1>1. ASSUME NEW c \in Commands, BrokerAccepts(c) PROVE WireInv'
  <2>1. \A d \in Commands : accepted[d] > 0 => accepted'[d] > 0
    BY <1>1 DEF BrokerAccepts
  <2>2. accepted'[c] > 0
    BY <1>1 DEF BrokerAccepts
  <2>3. ASSUME NEW i \in 1..Len(downlink') PROVE accepted'[downlink'[i]] > 0
    <3>1. /\ Len(downlink') = Len(downlink) + 1
          /\ \A k \in 1..Len(downlink) : downlink'[k] = downlink[k] /\ downlink[k] \in Commands
          /\ downlink'[Len(downlink) + 1] = c
      BY <1>1, AppendProperties, ElementOfSeq DEF BrokerAccepts
    <3>2. CASE i = Len(downlink) + 1
      BY <3>1, <3>2, <2>2
    <3>3. CASE i \in 1..Len(downlink)
      BY <3>1, <3>3, <2>1
    <3> QED
      BY <3>1, <3>2, <3>3, LenProperties
  <2> QED
    BY <1>1, <2>1, <2>3 DEF BrokerAccepts
<1>2. ASSUME NEW c \in Commands, MqttCallback(c) PROVE WireInv'
  <2>1. /\ Head(downlink) = downlink[1] /\ 1 \in 1..Len(downlink)
        /\ Len(Tail(downlink)) = Len(downlink) - 1
        /\ \A i \in 1..Len(Tail(downlink)) : Tail(downlink)[i] = downlink[i + 1]
    BY <1>2, HeadTailProperties, EmptySeq DEF MqttCallback
  <2>2. accepted[c] > 0
    BY <1>2, <2>1 DEF MqttCallback
  <2>3. \A i \in 1..Len(downlink') : accepted'[downlink'[i]] > 0
    BY <1>2, <2>1, LenProperties DEF MqttCallback
  <2>4. \A d \in Commands : confirms'[d] > 0 => d = c \/ confirms[d] > 0
    BY <1>2 DEF MqttCallback
  <2> QED
    BY <1>2, <2>2, <2>3, <2>4 DEF MqttCallback
<1>3. ASSUME NEW c \in Commands, OnConfirm(c) PROVE WireInv'
  BY <1>3 DEF OnConfirm
<1>4. CASE NodeLost
  BY <1>4, EmptySeq DEF NodeLost
<1>5. CASE LoseMessage
  <2>1. CASE downlink # <<>> /\ downlink' = Tail(downlink) /\ UNCHANGED <<confirms, telemetry>>
    <3>1. /\ Len(Tail(downlink)) = Len(downlink) - 1
          /\ \A i \in 1..Len(Tail(downlink)) : Tail(downlink)[i] = downlink[i + 1]
      BY <2>1, HeadTailProperties
    <3>2. accepted' = accepted /\ received' = received
      BY <1>5 DEF LoseMessage
    <3>3. ASSUME NEW i \in 1..Len(downlink') PROVE accepted'[downlink'[i]] > 0
      <4>1. i + 1 \in 1..Len(downlink) /\ downlink'[i] = downlink[i + 1]
        BY <2>1, <3>1, LenProperties
      <4> QED
        BY <3>2, <4>1
    <3> QED
      BY <2>1, <3>2, <3>3
  <2>2. ASSUME NEW c \in Commands, confirms[c] > 0,
               confirms' = [confirms EXCEPT ![c] = @ - 1], UNCHANGED <<downlink, telemetry>>
        PROVE  WireInv'
    BY <1>5, <2>2 DEF LoseMessage
  <2>3. CASE UNCHANGED <<downlink, confirms>>
    BY <1>5, <2>3 DEF LoseMessage
  <2> QED
    BY <1>5, <2>1, <2>2, <2>3 DEF LoseMessage
<1>6. ASSUME NEW c \in Commands,
             CreateCommand(c) \/ CheckPublisher(c) \/ PublishReturns(c)
               \/ MarkSent(c) \/ MarkFailed(c) \/ Age(c)
      PROVE  WireInv'
  BY <1>6 DEF CreateCommand, CheckPublisher, PublishReturns, MarkSent, MarkFailed, Age
<1>7. CASE PublishTelemetry \/ OnTelemetry \/ TimeoutStale \/ NodeConnects
             \/ LinkLost \/ LinkRestored \/ Crash
  BY <1>7 DEF PublishTelemetry, OnTelemetry, TimeoutStale, NodeConnects,
              LinkLost, LinkRestored, Crash
<1>8. CASE UNCHANGED vars
  BY <1>8 DEF vars
<1> QED
  BY <1>1, <1>2, <1>3, <1>4, <1>5, <1>6, <1>7, <1>8 DEF Next, Dispatch

(* Only MarkSent and MarkFailed write a status without looking; neither    *)
(* writes "acked", so that value always comes with acked_at.               *)
LEMMA EvidenceStep ==
  TypeOK /\ WireInv /\ ConfirmationIsEvidence /\ [Next]_vars => ConfirmationIsEvidence'
<1> SUFFICES ASSUME TypeOK, WireInv, ConfirmationIsEvidence, [Next]_vars, NEW d \in Commands
             PROVE  /\ status'[d] = "acked" => d \in ackedAt'
                    /\ d \in ackedAt' => d \in received'
                    /\ d \in audit'["acked"] => d \in ackedAt'
  BY DEF ConfirmationIsEvidence
<1> DEFINE Goal == /\ status'[d] = "acked" => d \in ackedAt'
                   /\ d \in ackedAt' => d \in received'
                   /\ d \in audit'["acked"] => d \in ackedAt'
<1> USE DEF TypeOK, WireInv, ConfirmationIsEvidence, dbVars, svcVars, wireVars, nodeVars
<1>1. ASSUME NEW c \in Commands, OnConfirm(c) PROVE Goal
  <2>1. c \in received
    BY <1>1 DEF OnConfirm
  <2>2. CASE UNCHANGED <<status, ackedAt, audit>>
    BY <1>1, <2>2 DEF OnConfirm
  <2>3. CASE /\ status' = [status EXCEPT ![c] = "acked"]
             /\ ackedAt' = ackedAt \cup {c}
             /\ PublishAudit("acked", c)
    <3>1. \A f \in Event : d \in audit'[f] => d \in audit[f] \/ (d = c /\ f = "acked")
      BY <2>3, Constants, AuditGrowth
    <3> QED
      BY <1>1, <2>1, <2>3, <3>1, Constants DEF OnConfirm
  <2> QED
    BY <1>1, <2>2, <2>3 DEF OnConfirm
<1>2. ASSUME NEW c \in Commands, MarkSent(c) PROVE Goal
  <2>1. \A f \in Event : d \in audit'[f] => d \in audit[f] \/ (d = c /\ f = "sent")
    BY <1>2, Constants, AuditGrowth DEF MarkSent
  <2>2. status'[d] = "acked" => status[d] = "acked"
    BY <1>2 DEF MarkSent, UpdateCommandStatus
  <2> QED
    BY <1>2, <2>1, <2>2, Constants DEF MarkSent
<1>3. ASSUME NEW c \in Commands, MarkFailed(c) PROVE Goal
  <2>1. \A f \in Event : d \in audit'[f] => d \in audit[f] \/ (d = c /\ f = "failed")
    BY <1>3, Constants, AuditGrowth DEF MarkFailed
  <2>2. status'[d] = "acked" => status[d] = "acked"
    BY <1>3 DEF MarkFailed, UpdateCommandStatus
  <2> QED
    BY <1>3, <2>1, <2>2, Constants DEF MarkFailed
<1>4. ASSUME NEW c \in Commands, CreateCommand(c) PROVE Goal
  BY <1>4 DEF CreateCommand
<1>5. CASE TimeoutStale
  BY <1>5 DEF TimeoutStale
<1>6. ASSUME NEW c \in Commands, MqttCallback(c) PROVE Goal
  BY <1>6 DEF MqttCallback
<1>7. ASSUME NEW c \in Commands,
             CheckPublisher(c) \/ BrokerAccepts(c) \/ PublishReturns(c) \/ Age(c)
      PROVE  Goal
  BY <1>7 DEF CheckPublisher, BrokerAccepts, PublishReturns, Age
<1>8. CASE PublishTelemetry \/ OnTelemetry \/ NodeLost \/ NodeConnects
             \/ LinkLost \/ LinkRestored \/ LoseMessage \/ Crash
  BY <1>8 DEF PublishTelemetry, OnTelemetry, NodeLost, NodeConnects,
              LinkLost, LinkRestored, LoseMessage, Crash
<1>9. CASE UNCHANGED vars
  BY <1>9 DEF vars
<1> QED
  BY <1>1, <1>2, <1>3, <1>4, <1>5, <1>6, <1>7, <1>8, <1>9 DEF Next, Dispatch

-----------------------------------------------------------------------------
(* The strengthened invariant of every reachable state. *)
THEOREM Inductive == Spec => []IInv
<1>1. Init => IInv
  <2> SUFFICES ASSUME Init PROVE IInv
    OBVIOUS
  <2>1. TypeOK
    BY CommandsAssumption, Constants, EmptySeq DEF Init, TypeOK
  <2>2. StageInv
    <3> SUFFICES ASSUME NEW c \in Commands PROVE StageOf(c)
      BY DEF StageInv
    <3>1. pc[c] = "idle" /\ status[c] = "absent" /\ accepted[c] = 0
      BY DEF Init
    <3> QED
      BY <3>1 DEF StageOf
  <2>3. WireInv
    BY EmptySeq DEF Init, WireInv
  <2>4. AuditInv /\ ConfirmationIsEvidence
    BY Constants DEF Init, AuditInv, AuditOf, ConfirmationIsEvidence
  <2> QED
    BY <2>1, <2>2, <2>3, <2>4 DEF IInv
<1>2. IInv /\ [Next]_vars => IInv'
  BY TypeStep, StageStep, WireStep, AuditStep, EvidenceStep DEF IInv
<1> QED
  BY <1>1, <1>2, PTL DEF Spec

(* No command is ever confirmed without the node having handled it. *)
THEOREM Evidence == Spec => []ConfirmationIsEvidence
<1>1. IInv => ConfirmationIsEvidence
  BY DEF IInv
<1> QED
  BY <1>1, Inductive, PTL

(* The audit events of a command never contradict each other. *)
THEOREM AuditTruth == Spec => []AuditIsTruthful
<1>1. IInv => AuditIsTruthful
  BY DEF IInv, AuditInv, AuditOf, AuditIsTruthful
<1> QED
  BY <1>1, Inductive, PTL

(* What is settled stays settled, by type correctness alone: each UPDATE   *)
(* either belongs to a dispatch still running or asks for an open row.     *)
THEOREM Settled == Spec => SettledIsFinal
<1>1. TypeOK /\ [Next]_vars =>
        [\A c \in Commands : pc[c] = "done" /\ status[c] \in Final
                               => status'[c] = status[c]]_vars
  <2> SUFFICES ASSUME TypeOK, Next, NEW d \in Commands,
                      pc[d] = "done", status[d] \in Final
               PROVE  status'[d] = status[d]
    OBVIOUS
  <2> USE DEF TypeOK, Final, Open, dbVars, svcVars, wireVars, nodeVars
  <2>1. ASSUME NEW c \in Commands, CreateCommand(c) PROVE status'[d] = status[d]
    BY <2>1 DEF CreateCommand
  <2>2. ASSUME NEW c \in Commands, MarkSent(c) PROVE status'[d] = status[d]
    BY <2>2 DEF MarkSent, UpdateCommandStatus
  <2>3. ASSUME NEW c \in Commands, MarkFailed(c) PROVE status'[d] = status[d]
    BY <2>3 DEF MarkFailed, UpdateCommandStatus
  <2>4. ASSUME NEW c \in Commands, OnConfirm(c) PROVE status'[d] = status[d]
    BY <2>4 DEF OnConfirm
  <2>5. CASE TimeoutStale
    BY <2>5 DEF TimeoutStale
  <2>6. ASSUME NEW c \in Commands,
               CheckPublisher(c) \/ BrokerAccepts(c) \/ PublishReturns(c)
                 \/ MqttCallback(c) \/ Age(c)
        PROVE  status'[d] = status[d]
    BY <2>6 DEF CheckPublisher, BrokerAccepts, PublishReturns, MqttCallback, Age
  <2>7. CASE PublishTelemetry \/ OnTelemetry \/ NodeLost \/ NodeConnects
               \/ LinkLost \/ LinkRestored \/ LoseMessage \/ Crash
    BY <2>7 DEF PublishTelemetry, OnTelemetry, NodeLost, NodeConnects,
                LinkLost, LinkRestored, LoseMessage, Crash
  <2> QED
    BY <2>1, <2>2, <2>3, <2>4, <2>5, <2>6, <2>7 DEF Next, Dispatch
<1> QED
  BY <1>1, TypeCorrect, PTL DEF Spec, SettledIsFinal

-----------------------------------------------------------------------------
(* The ways one step of the detailed specification can change the row and  *)
(* the goroutine of one command.                                           *)
Unmoved(c) == pc'[c] = pc[c] /\ status'[c] = status[c]

Begins(c) ==
  /\ pc[c] = "idle"
  /\ \/ pc'[c] = "created"
     \/ pc'[c] = "done" /\ status'[c] = "absent"

Dispatching(c) == {pc[c], pc'[c]} \cap {"idle", "done"} = {}

Acknowledged(c) == status'[c] = "acked" => c \in received

Ends(c) ==
  /\ pc[c] \notin {"idle", "done"} /\ pc'[c] = "done"
  /\ status'[c] # "absent" /\ Acknowledged(c)

Resolves(c) ==
  /\ pc[c] = "done" /\ pc'[c] = "done"
  /\ status[c] \in Open /\ status'[c] \in {"acked", "timeout"} /\ Acknowledged(c)

Moves(c) == \/ Unmoved(c) \/ Begins(c) \/ Dispatching(c) \/ Ends(c) \/ Resolves(c)

(* There is no other way. *)
LEMMA StepMoves ==
  ASSUME IInv, [Next]_vars, NEW d \in Commands
  PROVE  Moves(d)
<1> USE DEF Moves, Unmoved
<1>0. StageOf(d) /\ TypeOK /\ WireInv /\ (status[d] = "acked" => d \in received)
  BY DEF IInv, StageInv, ConfirmationIsEvidence
<1> USE <1>0 DEF TypeOK, StageOf, dbVars, svcVars, wireVars, nodeVars
<1>1. ASSUME NEW c \in Commands, CreateCommand(c) PROVE Moves(d)
  BY <1>1 DEF CreateCommand, Begins
<1>2. ASSUME NEW c \in Commands,
             CheckPublisher(c) \/ BrokerAccepts(c) \/ PublishReturns(c)
      PROVE  Moves(d)
  BY <1>2 DEF CheckPublisher, BrokerAccepts, PublishReturns, Dispatching
<1>3. ASSUME NEW c \in Commands, MarkSent(c) PROVE Moves(d)
  BY <1>3 DEF MarkSent, UpdateCommandStatus, Ends, Acknowledged
<1>4. ASSUME NEW c \in Commands, MarkFailed(c) PROVE Moves(d)
  BY <1>4 DEF MarkFailed, UpdateCommandStatus, Ends, Acknowledged
<1>5. ASSUME NEW c \in Commands, OnConfirm(c) PROVE Moves(d)
  <2>1. c \in received
    BY <1>5 DEF OnConfirm, WireInv
  <2>2. pc' = pc
    BY <1>5 DEF OnConfirm
  <2>3. CASE status' = status
    BY <2>2, <2>3
  <2>4. CASE status[c] \in Open /\ status' = [status EXCEPT ![c] = "acked"]
    <3>1. CASE d # c
      BY <2>2, <2>4, <3>1
    <3>2. CASE d = c
      <4>1. status'[d] = "acked" /\ status[d] \in Open /\ status[d] # "absent"
        BY <2>4, <3>2 DEF Open
      <4> QED
        BY <2>1, <2>2, <3>2, <4>1 DEF Dispatching, Resolves, Acknowledged
    <3> QED
      BY <3>1, <3>2
  <2> QED
    BY <1>5, <2>3, <2>4 DEF OnConfirm
<1>6. CASE TimeoutStale
  <2>1. /\ pc' = pc
        /\ \/ status'[d] = status[d]
           \/ status[d] \in Open /\ status'[d] = "timeout"
    BY <1>6 DEF TimeoutStale
  <2> QED
    BY <2>1 DEF Dispatching, Resolves, Acknowledged, Open
<1>7. CASE Crash
  BY <1>7 DEF Crash, Ends, Acknowledged
<1>8. ASSUME NEW c \in Commands, MqttCallback(c) \/ Age(c) PROVE Moves(d)
  BY <1>8 DEF MqttCallback, Age
<1>9. CASE PublishTelemetry \/ OnTelemetry \/ NodeLost \/ NodeConnects
             \/ LinkLost \/ LinkRestored \/ LoseMessage
  BY <1>9 DEF PublishTelemetry, OnTelemetry, NodeLost, NodeConnects,
              LinkLost, LinkRestored, LoseMessage
<1>10. CASE UNCHANGED vars
  BY <1>10 DEF vars
<1> QED
  BY <1>1, <1>2, <1>3, <1>4, <1>5, <1>6, <1>7, <1>8, <1>9, <1>10 DEF Next, Dispatch

(* Each of them is a step of the abstract life of that command. *)
LEMMA PhaseStep ==
  ASSUME IInv, IInv', NEW d \in Commands, Moves(d)
  PROVE  \/ PhaseOf(d)' = PhaseOf(d)
         \/ PhaseOf(d) = "none" /\ PhaseOf(d)' \in {"unlogged", "dispatching"}
         \/ /\ \/ /\ PhaseOf(d) = "dispatching"
                  /\ PhaseOf(d)' \in {"awaiting", "acked", "timeout", "failed"}
               \/ PhaseOf(d) = "awaiting" /\ PhaseOf(d)' \in {"acked", "timeout"}
            /\ PhaseOf(d)' = "acked" => d \in received
<1>1. /\ status[d] \in Status \cup {"absent"} /\ status'[d] \in Status \cup {"absent"}
      /\ pc[d] = "idle" => status[d] = "absent"
      /\ pc[d] \notin {"idle", "done"} => status[d] # "absent"
  BY DEF IInv, TypeOK, StageInv, StageOf
<1> USE <1>1 DEF PhaseOf, Status, Open, Final
<1>2. CASE Unmoved(d)
  BY <1>2 DEF Unmoved
<1>3. CASE Begins(d)
  BY <1>3 DEF Begins
<1>4. CASE Dispatching(d)
  BY <1>4 DEF Dispatching
<1>5. CASE Ends(d)
  BY <1>5 DEF Ends, Acknowledged
<1>6. CASE Resolves(d)
  BY <1>6 DEF Resolves, Acknowledged
<1> QED
  BY <1>2, <1>3, <1>4, <1>5, <1>6 DEF Moves

(* The node's receipts: they only grow, and a command newly handled was    *)
(* dispatched, with a row.                                                 *)
LEMMA ReceiptStep ==
  ASSUME IInv, [Next]_vars
  PROVE  /\ received \subseteq received'
         /\ \A c \in received' \ received : PhaseOf(c) \notin {"none", "unlogged"}
<1> USE DEF IInv, TypeOK, dbVars, svcVars, wireVars, nodeVars
<1>1. ASSUME NEW c \in Commands, MqttCallback(c)
      PROVE  received' = received \cup {c} /\ PhaseOf(c) \notin {"none", "unlogged"}
  <2>1. Head(downlink) = downlink[1] /\ 1 \in 1..Len(downlink)
    BY <1>1, HeadTailProperties, EmptySeq, LenProperties DEF MqttCallback
  <2>2. accepted[c] > 0
    BY <1>1, <2>1 DEF MqttCallback, WireInv
  <2>3. status[c] # "absent" /\ pc[c] # "idle"
    BY <2>2 DEF StageInv, StageOf
  <2>4. status[c] \in Status
    BY <2>3
  <2>5. PhaseOf(c) \notin {"none", "unlogged"}
    BY <2>3, <2>4 DEF PhaseOf, Status, Open, Final
  <2> QED
    BY <1>1, <2>5 DEF MqttCallback
<1>2. (~ \E c \in Commands : MqttCallback(c)) => received' = received
  BY DEF Next, Dispatch, CreateCommand, CheckPublisher, BrokerAccepts,
         PublishReturns, MarkSent, MarkFailed, OnConfirm, Age, PublishTelemetry,
         OnTelemetry, TimeoutStale, NodeLost, NodeConnects, LinkLost,
         LinkRestored, LoseMessage, Crash, vars
<1> QED
  BY <1>1, <1>2

(* The dispatch path, over a wire that loses, repeats and delays and with  *)
(* crashes anywhere, implements the abstract life of its commands.         *)
THEOREM Implements == Spec => ImplementsLifecycle
<1>1. Init => Lifecycle!Init
  BY DEF Init, Lifecycle!Init, PhaseOf
<1>2. IInv /\ IInv' /\ [Next]_vars => [Lifecycle!Next]_(Lifecycle!absVars)
  <2> SUFFICES ASSUME IInv, IInv', [Next]_vars PROVE Lifecycle!Next
    OBVIOUS
  <2>1. \A c \in Commands :
          \/ PhaseOf(c)' = PhaseOf(c)
          \/ PhaseOf(c) = "none" /\ PhaseOf(c)' \in {"unlogged", "dispatching"}
          \/ /\ \/ /\ PhaseOf(c) = "dispatching"
                   /\ PhaseOf(c)' \in {"awaiting", "acked", "timeout", "failed"}
                \/ PhaseOf(c) = "awaiting" /\ PhaseOf(c)' \in {"acked", "timeout"}
             /\ PhaseOf(c)' = "acked" => c \in received
    BY StepMoves, PhaseStep
  <2>2. \A c \in Commands : PhaseOf(c)' \in Lifecycle!Phase
    BY DEF IInv, TypeOK, PhaseOf, Lifecycle!Phase, Status, Open, Final
  <2>3. received' \subseteq Commands
    BY DEF IInv, TypeOK
  <2> QED
    BY <2>1, <2>2, <2>3, ReceiptStep
       DEF Lifecycle!Next, Lifecycle!Begin, Lifecycle!Settle
<1> QED
  BY <1>1, <1>2, Inductive, PTL DEF Spec, ImplementsLifecycle, Lifecycle!Spec
=============================================================================
