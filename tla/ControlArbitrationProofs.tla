---------------------- MODULE ControlArbitrationProofs ----------------------
(***************************************************************************)
(* Proofs about ControlArbitration for any set of requests of any kinds,   *)
(* outputs and levels, whether or not reads of the mode row may fail.      *)
(***************************************************************************)
EXTENDS ControlArbitration, SequenceTheorems, TLAPS

(* A request past its guard is none that stops, and, in an emergency, got  *)
(* there before the row said so.                                           *)
AdmittedInv ==
  \A r \in Requests :
    pc[r] = "admitted" => /\ Kind[r] \in {"manual", "pulse", "tick"}
                          /\ mode = "EMERGENCY" => r \in excused

StageInv ==
  \A r \in Requests :
    /\ pc[r] = "pulsing" => Kind[r] = "pulse"
    /\ pc[r] = "entering" => Kind[r] \in {"stop", "put"}
    /\ pc[r] = "resolving" => Kind[r] = "stop"
    /\ pc[r] = "zeroing" => Kind[r] = "stop"

(* A message on the wire: of no later era, off if a stop sent it, and, if  *)
(* sent in the present emergency, off or from an excused request.          *)
MessageInv(m) ==
  /\ m.era <= era
  /\ Kind[m.by] = "stop" => m.value = 0
  /\ mode = "EMERGENCY" /\ m.era = era /\ m.value > 0 => m.by \in excused

(* The wire keeps the order of the eras; once the node has executed a stop *)
(* of this era, nothing older is on it any more.                           *)
WireInv ==
  /\ \A i \in 1..Len(downlink) : MessageInv(downlink[i])
  /\ \A i, j \in 1..Len(downlink) : i <= j => downlink[i].era <= downlink[j].era
  /\ stopped # {} => \A i \in 1..Len(downlink) : downlink[i].era = era

IInv ==
  /\ TypeOK
  /\ AdmittedInv
  /\ StageInv
  /\ WireInv
  /\ OnlyEarlierRequestsReenergise

-----------------------------------------------------------------------------
(* Dequeuing leaves the other elements, one place further on. *)
LEMMA TailElements ==
  ASSUME NEW S, NEW s \in Seq(S), s # <<>>
  PROVE  /\ Tail(s) \in Seq(S) /\ Head(s) \in S
         /\ Head(s) = s[1] /\ 1 \in 1..Len(s)
         /\ \A i \in 1..Len(Tail(s)) : i + 1 \in 1..Len(s) /\ Tail(s)[i] = s[i + 1]
<1>1. Len(Tail(s)) = Len(s) - 1 /\ Len(s) \in Nat /\ Len(s) # 0
  BY HeadTailProperties, LenProperties, EmptySeq
<1> QED
  BY <1>1, HeadTailProperties, ElementOfSeq

(* Enqueuing adds one element, the last. *)
LEMMA AppendElements ==
  ASSUME NEW S, NEW s \in Seq(S), NEW e \in S
  PROVE  /\ Append(s, e) \in Seq(S)
         /\ \A i \in 1..Len(Append(s, e)) :
              \/ i \in 1..Len(s) /\ Append(s, e)[i] = s[i]
              \/ i = Len(s) + 1 /\ Append(s, e)[i] = e
BY AppendProperties, LenProperties

(* The values the actions assign. *)
LEMMA Constants ==
  /\ "idle" \in Stage /\ "admitted" \in Stage /\ "pulsing" \in Stage
  /\ "entering" \in Stage /\ "resolving" \in Stage /\ "zeroing" \in Stage
  /\ "resuming" \in Stage /\ "done" \in Stage
  /\ "AUTO" \in Mode /\ "MANUAL" \in Mode /\ "EMERGENCY" \in Mode
  /\ "NONE" \notin Mode
BY DEF Stage, Mode

(* A dispatch sends a well-formed message of the present era, or nothing. *)
LEMMA DispatchType ==
  ASSUME TypeOK, NEW r \in Requests, NEW o \in Outputs, NEW v \in Nat,
         Dispatch(r, o, v)
  PROVE  /\ downlink' \in Seq(Message)
         /\ \/ downlink' = downlink
            \/ downlink' = Append(downlink, [by |-> r, output |-> o,
                                             value |-> v, era |-> era])
<1> DEFINE m == [by |-> r, output |-> o, value |-> v, era |-> era]
<1>1. m \in Message /\ downlink \in Seq(Message)
  BY DEF TypeOK, Message
<1> HIDE DEF m
<1>2. Append(downlink, m) \in Seq(Message)
  BY <1>1, AppendProperties
<1>3. downlink' = downlink \/ downlink' = Append(downlink, m)
  BY DEF Dispatch, Sends, m
<1> QED
  BY <1>1, <1>2, <1>3 DEF m

(* Writing the row, or failing to, keeps the types of the row and of what  *)
(* the history remembers of it.                                            *)
LEMMA UpsertType ==
  ASSUME TypeOK, NEW m \in Mode, NEW p \in Mode \cup {"NULL"},
         Upsert(m, p) \/ UpsertFails
  PROVE  /\ mode' \in Mode \cup {"NONE"} /\ prev' \in Mode \cup {"NULL"}
         /\ before' \in Mode /\ era' \in Nat
         /\ excused' \subseteq Requests /\ stopped' \subseteq Outputs
<1>1. CASE UpsertFails
  BY <1>1 DEF UpsertFails, TypeOK, rowVars
<1>2. CASE Upsert(m, p)
  <2>1. InForce \in Mode
    BY Constants DEF InForce, TypeOK
  <2> QED
    BY <1>2, <2>1 DEF Upsert, TypeOK
<1> QED
  BY <1>1, <1>2

(* The type invariant is inductive: one step per action. *)
LEMMA TypeStep == TypeOK /\ [Next]_vars => TypeOK'
<1> SUFFICES ASSUME TypeOK, [Next]_vars PROVE TypeOK'
  OBVIOUS
<1> USE ArbitrationAssumption, Constants
    DEF TypeOK, rowVars, handlerVars, nodeVars, history, Goto
<1>1. ASSUME NEW r \in Requests, AdmitManual(r) PROVE TypeOK'
  BY <1>1 DEF AdmitManual
<1>2. ASSUME NEW r \in Requests, AdmitTick(r) PROVE TypeOK'
  BY <1>2 DEF AdmitTick
<1>3. ASSUME NEW r \in Requests, Drive(r) PROVE TypeOK'
  <2>1. PICK o \in Outputs, v \in Levels :
          Dispatch(r, o, v) /\ (left' = left \/ left' = [left EXCEPT ![r] = {o}])
    BY <1>3 DEF Drive, Dispatch
  <2>2. downlink' \in Seq(Message)
    BY <2>1, DispatchType
  <2>3. pc' \in [Requests -> Stage]
    BY <1>3 DEF Drive
  <2>4. left' \in [Requests -> SUBSET Outputs]
    <3>1. CASE left' = [left EXCEPT ![r] = {o}]
      BY <3>1
    <3> QED
      BY <2>1, <3>1
  <2> QED
    BY <1>3, <2>2, <2>3, <2>4 DEF Drive
<1>4. ASSUME NEW r \in Requests, PulseOff(r) PROVE TypeOK'
  <2>1. PICK o \in left[r] : Dispatch(r, o, 0)
    BY <1>4 DEF PulseOff
  <2>2. downlink' \in Seq(Message)
    BY <2>1, DispatchType
  <2> QED
    BY <1>4, <2>2 DEF PulseOff
<1>5. ASSUME NEW r \in Requests, ReadPrior(r) PROVE TypeOK'
  BY <1>5 DEF ReadPrior
<1>6. ASSUME NEW r \in Requests, EnterEmergency(r) PROVE TypeOK'
  BY <1>6, UpsertType DEF EnterEmergency
<1>7. ASSUME NEW r \in Requests, ResolveActuators(r) PROVE TypeOK'
  BY <1>7 DEF ResolveActuators
<1>8. ASSUME NEW r \in Requests, SwitchOff(r) PROVE TypeOK'
  <2>1. PICK o \in left[r] : Dispatch(r, o, 0)
    BY <1>8 DEF SwitchOff
  <2>2. downlink' \in Seq(Message)
    BY <2>1, DispatchType
  <2> QED
    BY <1>8, <2>2 DEF SwitchOff
<1>9. ASSUME NEW r \in Requests, StopReturns(r) PROVE TypeOK'
  BY <1>9 DEF StopReturns
<1>10. ASSUME NEW r \in Requests, SetNodeMode(r) PROVE TypeOK'
  BY <1>10, UpsertType DEF SetNodeMode
<1>11. ASSUME NEW r \in Requests, ReadResume(r) PROVE TypeOK'
  BY <1>11 DEF ReadResume, Restored
<1>12. ASSUME NEW r \in Requests, WriteResume(r) PROVE TypeOK'
  BY <1>12, UpsertType DEF WriteResume
<1>13. CASE Execute
  <2>1. downlink' \in Seq(Message) /\ Head(downlink) \in Message
    BY <1>13, TailElements DEF Execute
  <2>2. /\ Head(downlink).by \in Requests /\ Head(downlink).output \in Outputs
        /\ Head(downlink).value \in Nat
    BY <2>1 DEF Message
  <2> QED
    BY <1>13, <2>1, <2>2 DEF Execute
<1>14. CASE LoseMessage
  BY <1>14, TailElements DEF LoseMessage
<1>15. CASE Reboot
  BY <1>15, EmptySeq DEF Reboot
<1>16. CASE Crash
  BY <1>16 DEF Crash
<1>17. CASE UNCHANGED vars
  BY <1>17 DEF vars
<1> QED
  BY <1>1, <1>2, <1>3, <1>4, <1>5, <1>6, <1>7, <1>8, <1>9, <1>10, <1>11,
     <1>12, <1>13, <1>14, <1>15, <1>16, <1>17 DEF Next, Handle

-----------------------------------------------------------------------------
(* Handlers keep to the code of their kind. *)
LEMMA StageStep == TypeOK /\ StageInv /\ [Next]_vars => StageInv'
<1> SUFFICES ASSUME TypeOK, StageInv, [Next]_vars PROVE StageInv'
  OBVIOUS
<1> USE DEF TypeOK, StageInv, Goto, handlerVars
<1>1. ASSUME NEW r \in Requests, AdmitManual(r) \/ AdmitTick(r) PROVE StageInv'
  BY <1>1 DEF AdmitManual, AdmitTick
<1>2. ASSUME NEW r \in Requests, Drive(r) \/ PulseOff(r) PROVE StageInv'
  BY <1>2 DEF Drive, PulseOff
<1>3. ASSUME NEW r \in Requests, ReadPrior(r) \/ EnterEmergency(r) PROVE StageInv'
  BY <1>3 DEF ReadPrior, EnterEmergency
<1>4. ASSUME NEW r \in Requests,
             ResolveActuators(r) \/ SwitchOff(r) \/ StopReturns(r)
      PROVE  StageInv'
  BY <1>4 DEF ResolveActuators, SwitchOff, StopReturns
<1>5. ASSUME NEW r \in Requests, SetNodeMode(r) \/ ReadResume(r) \/ WriteResume(r)
      PROVE  StageInv'
  BY <1>5 DEF SetNodeMode, ReadResume, WriteResume
<1>6. CASE Execute \/ LoseMessage \/ Reboot \/ Crash
  BY <1>6 DEF Execute, LoseMessage, Reboot, Crash
<1>7. CASE UNCHANGED vars
  BY <1>7 DEF vars
<1> QED
  BY <1>1, <1>2, <1>3, <1>4, <1>5, <1>6, <1>7 DEF Next, Handle

(* A request passes its guard in an emergency only on a failed read, and   *)
(* whoever writes EMERGENCY finds those that passed before it.             *)
LEMMA AdmittedStep == TypeOK /\ AdmittedInv /\ [Next]_vars => AdmittedInv'
<1> SUFFICES ASSUME TypeOK, AdmittedInv, [Next]_vars PROVE AdmittedInv'
  OBVIOUS
<1> USE DEF TypeOK, AdmittedInv, Goto, rowVars, handlerVars, history
<1>1. ASSUME NEW r \in Requests, AdmitManual(r) PROVE AdmittedInv'
  BY <1>1 DEF AdmitManual, InForce
<1>2. ASSUME NEW r \in Requests, AdmitTick(r) PROVE AdmittedInv'
  BY <1>2 DEF AdmitTick, InForce
<1>3. ASSUME NEW r \in Requests,
             EnterEmergency(r) \/ SetNodeMode(r) \/ WriteResume(r)
      PROVE  AdmittedInv'
  <2>1. \A q \in Requests : pc'[q] = "admitted" => pc[q] = "admitted"
    BY <1>3 DEF EnterEmergency, SetNodeMode, WriteResume
  <2>2. (\E m, p : Upsert(m, p)) \/ UpsertFails
    BY <1>3 DEF EnterEmergency, SetNodeMode, WriteResume
  <2>3. CASE UpsertFails
    BY <2>1, <2>3 DEF UpsertFails
  <2>4. ASSUME NEW m, NEW p, Upsert(m, p) PROVE AdmittedInv'
    BY <2>1, <2>4 DEF Upsert
  <2> QED
    BY <2>2, <2>3, <2>4
<1>4. ASSUME NEW r \in Requests, Drive(r) \/ PulseOff(r) \/ ReadPrior(r)
      PROVE  AdmittedInv'
  BY <1>4 DEF Drive, PulseOff, ReadPrior
<1>5. ASSUME NEW r \in Requests,
             ResolveActuators(r) \/ SwitchOff(r) \/ StopReturns(r) \/ ReadResume(r)
      PROVE  AdmittedInv'
  BY <1>5 DEF ResolveActuators, SwitchOff, StopReturns, ReadResume
<1>6. CASE Execute \/ LoseMessage \/ Reboot \/ Crash
  BY <1>6 DEF Execute, LoseMessage, Reboot, Crash
<1>7. CASE UNCHANGED vars
  BY <1>7 DEF vars
<1> QED
  BY <1>1, <1>2, <1>3, <1>4, <1>5, <1>6, <1>7 DEF Next, Handle

(* The invariant of the wire for a wire that lost its head. *)
LEMMA WireTail ==
  ASSUME TypeOK, WireInv, downlink # <<>>, downlink' = Tail(downlink),
         UNCHANGED <<mode, era, excused>>,
         stopped' # {} => stopped # {} \/ Head(downlink).era = era
  PROVE  WireInv'
<1>1. /\ Head(downlink) = downlink[1] /\ 1 \in 1..Len(downlink)
      /\ \A i \in 1..Len(downlink') :
           i + 1 \in 1..Len(downlink) /\ downlink'[i] = downlink[i + 1]
  BY TailElements DEF TypeOK
<1>2. \A i \in 1..Len(downlink') : MessageInv(downlink[i])'
  BY <1>1 DEF WireInv, MessageInv
<1>3. \A i, j \in 1..Len(downlink') : i <= j => downlink'[i].era <= downlink'[j].era
  BY <1>1 DEF WireInv
<1>4. ASSUME stopped' # {}, NEW i \in 1..Len(downlink') PROVE downlink'[i].era = era'
  <2>1. i + 1 \in 1..Len(downlink) /\ downlink'[i] = downlink[i + 1] /\ 1 <= i + 1
    BY <1>1
  <2>2. downlink[i + 1].era <= era /\ downlink[1].era <= downlink[i + 1].era
    BY <1>1, <2>1 DEF WireInv, MessageInv
  <2>3. downlink[i + 1] \in Message /\ downlink[1] \in Message
    BY <1>1, <2>1, ElementOfSeq DEF TypeOK
  <2>4. downlink[i + 1].era \in Nat /\ downlink[1].era \in Nat /\ era \in Nat
    BY <2>3 DEF Message, TypeOK
  <2>5. CASE stopped # {}
    BY <2>1, <2>5 DEF WireInv
  <2>6. CASE Head(downlink).era = era
    BY <1>1, <2>1, <2>2, <2>4, <2>6
  <2> QED
    BY <1>4, <2>5, <2>6
<1> QED
  BY <1>2, <1>3, <1>4 DEF WireInv

(* The invariant of the wire for one that got a message more. *)
LEMMA WireAppend ==
  ASSUME TypeOK, WireInv, NEW r \in Requests, NEW o \in Outputs, NEW v \in Nat,
         Dispatch(r, o, v), UNCHANGED <<mode, era, excused, stopped>>,
         Kind[r] = "stop" => v = 0,
         mode = "EMERGENCY" /\ v > 0 => r \in excused
  PROVE  WireInv'
<1> DEFINE m == [by |-> r, output |-> o, value |-> v, era |-> era]
<1>1. m \in Message /\ downlink \in Seq(Message) /\ era \in Nat
  BY DEF TypeOK, Message
<1>2. MessageInv(m)
  BY <1>1 DEF MessageInv
<1>3. m.era = era
  OBVIOUS
<1>4. CASE downlink' = downlink
  BY <1>4 DEF WireInv, MessageInv
<1>5. CASE downlink' = Append(downlink, m)
  <2> HIDE DEF m
  <2>1. \A i \in 1..Len(downlink') :
          \/ i \in 1..Len(downlink) /\ downlink'[i] = downlink[i]
          \/ i = Len(downlink) + 1 /\ downlink'[i] = m
    BY <1>1, <1>5, AppendElements
  <2>2. \A i \in 1..Len(downlink') : MessageInv(downlink'[i])
    BY <1>2, <2>1 DEF WireInv
  <2>3. \A i \in 1..Len(downlink') : MessageInv(downlink[i])'
    BY <2>2 DEF MessageInv
  <2>4. ASSUME NEW i \in 1..Len(downlink'), NEW j \in 1..Len(downlink'), i <= j
        PROVE  downlink'[i].era <= downlink'[j].era
    <3>1. Len(downlink) \in Nat
      BY <1>1, LenProperties
    <3>2. CASE j \in 1..Len(downlink)
      <4>1. i \in 1..Len(downlink) /\ i # Len(downlink) + 1 /\ j # Len(downlink) + 1
        BY <2>4, <3>1, <3>2
      <4> QED
        BY <2>1, <2>4, <3>2, <4>1 DEF WireInv
    <3>3. CASE j = Len(downlink) + 1
      <4>1. downlink'[j] = m
        BY <2>1, <3>1, <3>3
      <4>2. downlink'[i].era <= era
        BY <2>2 DEF MessageInv
      <4> QED
        BY <1>3, <4>1, <4>2
    <3> QED
      BY <2>1, <3>2, <3>3
  <2>5. stopped' # {} => \A i \in 1..Len(downlink') : downlink'[i].era = era'
    BY <1>3, <2>1 DEF WireInv
  <2> QED
    BY <2>3, <2>4, <2>5 DEF WireInv
<1> QED
  BY <1>4, <1>5 DEF Dispatch, Sends

(* Every step keeps the invariant of the wire. *)
LEMMA WireStep ==
  TypeOK /\ AdmittedInv /\ StageInv /\ WireInv /\ [Next]_vars => WireInv'
<1> SUFFICES ASSUME TypeOK, AdmittedInv, StageInv, WireInv, [Next]_vars
             PROVE  WireInv'
  OBVIOUS
<1> USE DEF rowVars, handlerVars, nodeVars, history
<1>1. ASSUME NEW r \in Requests, AdmitManual(r) \/ AdmitTick(r) PROVE WireInv'
  <2>1. UNCHANGED <<mode, era, stopped, downlink>> /\ excused \subseteq excused'
    BY <1>1 DEF AdmitManual, AdmitTick
  <2> QED
    BY <2>1 DEF WireInv, MessageInv
<1>2. ASSUME NEW r \in Requests, Drive(r) PROVE WireInv'
  <2>1. PICK o \in Outputs, v \in Levels : Dispatch(r, o, v)
    BY <1>2 DEF Drive, Dispatch
  <2>2. v \in Nat
    BY ArbitrationAssumption
  <2>3. UNCHANGED <<mode, era, excused, stopped>>
    BY <1>2 DEF Drive
  <2>4. Kind[r] # "stop" /\ (mode = "EMERGENCY" => r \in excused)
    BY <1>2 DEF Drive, AdmittedInv
  <2> QED
    BY <2>1, <2>2, <2>3, <2>4, WireAppend
<1>3. ASSUME NEW r \in Requests, PulseOff(r) \/ SwitchOff(r) PROVE WireInv'
  <2>1. PICK o \in left[r] : Dispatch(r, o, 0)
    BY <1>3 DEF PulseOff, SwitchOff
  <2>2. o \in Outputs
    BY DEF TypeOK
  <2>3. UNCHANGED <<mode, era, excused, stopped>>
    BY <1>3 DEF PulseOff, SwitchOff
  <2> QED
    BY <2>1, <2>2, <2>3, WireAppend
<1>4. ASSUME NEW r \in Requests,
             EnterEmergency(r) \/ SetNodeMode(r) \/ WriteResume(r)
      PROVE  WireInv'
  <2>1. downlink' = downlink
    BY <1>4 DEF EnterEmergency, SetNodeMode, WriteResume
  <2>2. (\E m, p : Upsert(m, p)) \/ UpsertFails
    BY <1>4 DEF EnterEmergency, SetNodeMode, WriteResume
  <2>3. CASE UpsertFails
    BY <2>1, <2>3 DEF UpsertFails, WireInv, MessageInv
  <2>4. ASSUME NEW m, NEW p, Upsert(m, p), m # "EMERGENCY" PROVE WireInv'
    BY <2>1, <2>4 DEF Upsert, WireInv, MessageInv
  <2>5. ASSUME NEW m, NEW p, Upsert(m, p), m = "EMERGENCY" PROVE WireInv'
    <3>1. era' = era + 1 /\ stopped' = {} /\ era \in Nat
      BY <2>5 DEF Upsert, TypeOK
    <3>2. ASSUME NEW i \in 1..Len(downlink') PROVE MessageInv(downlink[i])'
      <4>1. downlink[i] \in Message /\ MessageInv(downlink[i])
        BY <2>1, ElementOfSeq DEF TypeOK, WireInv
      <4>2. downlink[i].era \in Nat /\ downlink[i].era <= era
        BY <4>1 DEF Message, MessageInv
      <4> QED
        BY <2>1, <3>1, <4>1, <4>2 DEF MessageInv
    <3> QED
      BY <2>1, <3>1, <3>2 DEF WireInv
  <2> QED
    BY <2>2, <2>3, <2>4, <2>5
<1>5. ASSUME NEW r \in Requests,
             \/ ReadPrior(r) \/ ResolveActuators(r) \/ StopReturns(r) \/ ReadResume(r)
      PROVE  WireInv'
  BY <1>5 DEF ReadPrior, ResolveActuators, StopReturns, ReadResume, WireInv, MessageInv
<1>6. CASE Execute
  <2>1. /\ downlink # <<>> /\ downlink' = Tail(downlink)
        /\ UNCHANGED <<mode, era, excused>>
        /\ stopped' # {} => stopped # {} \/ Head(downlink).era = era
    BY <1>6 DEF Execute
  <2> QED
    BY <2>1, WireTail
<1>7. CASE LoseMessage
  BY <1>7, WireTail DEF LoseMessage
<1>8. CASE Reboot
  BY <1>8, EmptySeq DEF Reboot, WireInv
<1>9. CASE Crash
  BY <1>9 DEF Crash, WireInv, MessageInv
<1>10. CASE UNCHANGED vars
  BY <1>10 DEF vars, WireInv, MessageInv
<1> QED
  BY <1>1, <1>2, <1>3, <1>4, <1>5, <1>6, <1>7, <1>8, <1>9, <1>10 DEF Next, Handle

(* A step that drives no output cannot break the property: it keeps the    *)
(* excuses, or ends the emergency, or begins a new one.                    *)
LEMMA EmergencyStep ==
  TypeOK /\ WireInv /\ OnlyEarlierRequestsReenergise /\ [Next]_vars
    => OnlyEarlierRequestsReenergise'
<1> SUFFICES ASSUME TypeOK, WireInv, OnlyEarlierRequestsReenergise, [Next]_vars
             PROVE  OnlyEarlierRequestsReenergise'
  OBVIOUS
<1> USE DEF OnlyEarlierRequestsReenergise, rowVars, handlerVars, nodeVars, history
<1>1. CASE Execute
  <2> SUFFICES ASSUME mode' = "EMERGENCY", NEW o \in stopped', level'[o] > 0
               PROVE  driver'[o] \in excused'
    OBVIOUS
  <2> DEFINE m == Head(downlink)
  <2>1. /\ m = downlink[1] /\ 1 \in 1..Len(downlink) /\ m \in Message
    BY <1>1, TailElements DEF Execute, TypeOK
  <2>2. /\ m.output \in Outputs /\ m.value \in Nat /\ m.by \in Requests
        /\ MessageInv(m)
    BY <2>1 DEF Message, WireInv
  <2>3. UNCHANGED <<mode, era, excused>>
    BY <1>1 DEF Execute
  <2>4. /\ level' = [level EXCEPT ![m.output] = m.value]
        /\ driver' = [driver EXCEPT ![m.output] = m.by]
        /\ o \in stopped \/ (o = m.output /\ Kind[m.by] = "stop")
    BY <1>1 DEF Execute
  <2> HIDE DEF m
  <2>5. CASE o # m.output
    BY <2>2, <2>3, <2>4, <2>5 DEF TypeOK
  <2>6. CASE o = m.output
    <3>1. o \in Outputs /\ level'[o] = m.value /\ driver'[o] = m.by
      BY <2>2, <2>4, <2>6 DEF TypeOK
    <3>2. Kind[m.by] # "stop"
      BY <2>2, <3>1 DEF MessageInv
    <3>3. m.era = era
      BY <2>1, <2>4, <3>2 DEF WireInv, m
    <3> QED
      BY <2>2, <2>3, <3>1, <3>3 DEF MessageInv
  <2> QED
    BY <2>5, <2>6
<1>2. ASSUME NEW r \in Requests,
             EnterEmergency(r) \/ SetNodeMode(r) \/ WriteResume(r)
      PROVE  OnlyEarlierRequestsReenergise'
  <2>1. (\E m, p : Upsert(m, p)) \/ UpsertFails
    BY <1>2 DEF EnterEmergency, SetNodeMode, WriteResume
  <2>2. UNCHANGED <<level, driver>>
    BY <1>2 DEF EnterEmergency, SetNodeMode, WriteResume
  <2> QED
    BY <2>1, <2>2 DEF Upsert, UpsertFails
<1>3. ASSUME NEW r \in Requests, AdmitManual(r) \/ AdmitTick(r)
      PROVE  OnlyEarlierRequestsReenergise'
  <2>1. UNCHANGED <<mode, stopped, level, driver>> /\ excused \subseteq excused'
    BY <1>3 DEF AdmitManual, AdmitTick
  <2> QED
    BY <2>1
<1>4. ASSUME NEW r \in Requests, Drive(r) \/ PulseOff(r) \/ SwitchOff(r)
      PROVE  OnlyEarlierRequestsReenergise'
  BY <1>4 DEF Drive, PulseOff, SwitchOff
<1>5. ASSUME NEW r \in Requests,
             \/ ReadPrior(r) \/ ResolveActuators(r) \/ StopReturns(r) \/ ReadResume(r)
      PROVE  OnlyEarlierRequestsReenergise'
  BY <1>5 DEF ReadPrior, ResolveActuators, StopReturns, ReadResume
<1>6. CASE Reboot
  BY <1>6 DEF Reboot, TypeOK
<1>7. CASE LoseMessage \/ Crash
  BY <1>7 DEF LoseMessage, Crash
<1>8. CASE UNCHANGED vars
  BY <1>8 DEF vars
<1> QED
  BY <1>1, <1>2, <1>3, <1>4, <1>5, <1>6, <1>7, <1>8 DEF Next, Handle

-----------------------------------------------------------------------------
(* Every variable of the arbitration keeps its type. *)
THEOREM TypeCorrect == Spec => []TypeOK
<1>1. Init => TypeOK
  BY Constants, EmptySeq DEF Init, TypeOK
<1> QED
  BY <1>1, TypeStep, PTL DEF Spec

(* The strengthened invariant of every reachable state. *)
THEOREM Inductive == Spec => []IInv
<1>1. Init => IInv
  <2> SUFFICES ASSUME Init PROVE IInv
    OBVIOUS
  <2>1. TypeOK
    BY Constants, EmptySeq DEF Init, TypeOK
  <2>2. AdmittedInv /\ StageInv
    BY DEF Init, AdmittedInv, StageInv
  <2>3. WireInv
    BY EmptySeq DEF Init, WireInv
  <2>4. OnlyEarlierRequestsReenergise
    BY DEF Init, OnlyEarlierRequestsReenergise
  <2> QED
    BY <2>1, <2>2, <2>3, <2>4 DEF IInv
<1>2. IInv /\ [Next]_vars => IInv'
  BY TypeStep, StageStep, AdmittedStep, WireStep, EmergencyStep DEF IInv
<1> QED
  BY <1>1, <1>2, PTL DEF Spec

(* In an emergency only a request that had passed its guard before it, or  *)
(* passed it on a failed read, can switch a stopped output on again.       *)
THEOREM EmergencyHolds == Spec => []OnlyEarlierRequestsReenergise
<1>1. IInv => OnlyEarlierRequestsReenergise
  BY DEF IInv
<1> QED
  BY <1>1, Inductive, PTL
=============================================================================
