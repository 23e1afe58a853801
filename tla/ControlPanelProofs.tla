------------------------- MODULE ControlPanelProofs -------------------------
(* Theorems about the control page.                                        *)
EXTENDS ControlPanel, TLAPS

-----------------------------------------------------------------------------
(* Types. *)

ChainType ==
  [at : {"idle", "command", "tags", "mode", "rest"}, op : Ops,
   node : Nodes \cup {NoNode}, tags : Nodes \cup {NoNode}]

\* The places of the page hold records of the right shape.
LEMMA Shapes ==
  /\ Quiet \in ChainType
  /\ \A n \in Nodes \cup {NoNode} : LoadOf(n) \in ChainType
  /\ \A c \in ChainType, at \in {"mode", "rest"} :
       [c EXCEPT !.at = at] \in ChainType
  /\ \A n \in Nodes \cup {NoNode} :
       [LoadOf(n) EXCEPT !.op = "done"] \in ChainType
  BY DEF Quiet, LoadOf, ChainType, Ops

\* Every load has its place.
LEMMA StartLoadType ==
  ASSUME TypeOK, NEW n \in Nodes \cup {NoNode}, StartLoad(n)
  PROVE  chain' \in [Chains -> ChainType] /\ loading' = TRUE
  BY Shapes DEF TypeOK, StartLoad, InFlight, ChainType

\* So has every command.
LEMMA SendType ==
  ASSUME TypeOK, NEW op \in Ops, NEW n \in Nodes \cup {NoNode},
         NEW t \in Nodes \cup {NoNode}, Send(op, n, t)
  PROVE  chain' \in [Chains -> ChainType] /\ busy' = TRUE
  <1>1. [at |-> "command", op |-> op, node |-> n, tags |-> t] \in ChainType
    BY DEF ChainType
  <1> QED BY <1>1 DEF TypeOK, Send, InFlight, ChainType

\* The end of a chain frees its place.
LEMMA EndType ==
  ASSUME TypeOK, NEW k \in Chains, End(k)
  PROVE  chain' \in [Chains -> ChainType] /\ loading' \in BOOLEAN
         /\ busy' \in BOOLEAN
  BY Shapes DEF TypeOK, End, ChainType

\* What the service does with a command keeps its types.
LEMMA EffectType ==
  ASSUME TypeOK, NEW c \in ChainType, c.node \in Nodes, Effect(c)
  PROVE  mode' \in [Nodes -> Modes] /\ lit' \in [Nodes -> SUBSET Outputs]
  <1>1. CASE c.op = "stop" /\ StopEffect(c)
    BY <1>1 DEF TypeOK, StopEffect, Modes
  <1>2. CASE c.op = "tile" /\ TileEffect(c)
    BY <1>2 DEF TypeOK, TileEffect, Modes
  <1>3. CASE c.op \in {"MANUAL", "AUTO"} /\ ModeEffect(c)
    BY <1>3 DEF TypeOK, ModeEffect, Modes
  <1>4. CASE c.op = "resume" /\ ResumeEffect(c)
    BY <1>4 DEF TypeOK, ResumeEffect, Modes
  <1>5. CASE c.op = "schedule" /\ UNCHANGED service
    BY <1>5 DEF TypeOK, service
  <1> QED BY <1>1, <1>2, <1>3, <1>4, <1>5 DEF Effect

\* A load or a command is of a node.
HaveNodes == \A k \in Chains : chain[k].at # "idle" => chain[k].node \in Nodes

\* A button sends a command of a node.
LEMMA PressSends ==
  ASSUME TypeOK, Press
  PROVE  /\ Visible
         /\ \E op \in Ops, n \in Nodes, t \in Nodes \cup {NoNode} :
              /\ n \in {nodeId, showing}
              /\ op = "stop" => (n = nodeId /\ t = showing /\ t # NoNode)
              /\ Send(op, n, t)
  <1>1. Visible
    BY DEF Press, PressStop, PressResume, PressTile, SubmitSchedule,
           PressScheduleRow, PressMode
  <1>2. nodeId \in Nodes
    BY <1>1 DEF Visible, TypeOK
  <1>3. CASE PressStop
    BY <1>1, <1>2, <1>3 DEF PressStop, TypeOK, Ops
  <1>4. CASE PressResume \/ SubmitSchedule \/ PressScheduleRow
    BY <1>1, <1>2, <1>4 DEF PressResume, SubmitSchedule, PressScheduleRow, Ops
  <1>5. CASE PressTile
    BY <1>1, <1>5 DEF PressTile, TypeOK, Ops
  <1>6. CASE \E m \in {"MANUAL", "AUTO"} : PressMode(m)
    BY <1>1, <1>2, <1>6 DEF PressMode, Ops
  <1> QED BY <1>3, <1>4, <1>5, <1>6 DEF Press

\* Every step keeps the types, as long as loads and commands have nodes.
LEMMA TypeStep ==
  ASSUME TypeOK, HaveNodes, [Next]_panelVars
  PROVE  TypeOK'
  <1>1. ASSUME NEW n \in Nodes \cup {NoNode}, SelectNode(n)
        PROVE  TypeOK'
    <2>1. CASE n = NoNode
      BY <1>1, <2>1 DEF SelectNode, TypeOK, service
    <2>2. CASE n # NoNode
      BY <1>1, <2>2, StartLoadType DEF SelectNode, TypeOK, service, ChainType
    <2> QED BY <2>1, <2>2
  <1>2. CASE Refresh
    BY <1>2, StartLoadType DEF Refresh, TypeOK, service, ChainType
  <1>3. CASE Press
    <2>1. PICK op \in Ops, n \in Nodes, t \in Nodes \cup {NoNode} :
            Send(op, n, t)
      BY <1>3, PressSends
    <2>2. chain' \in [Chains -> ChainType] /\ busy' = TRUE
      BY <2>1, SendType
    <2> QED BY <2>1, <2>2 DEF Send, TypeOK, service, ChainType
  <1>4. ASSUME NEW k \in Chains, Progress(k)
        PROVE  TypeOK'
    <2>0. chain \in [Chains -> ChainType] /\ chain[k] \in ChainType
      BY DEF TypeOK, ChainType
    <2>1. CASE TagsArrive(k)
      <3>1. chain' \in [Chains -> ChainType]
        BY <2>0, <2>1, Shapes DEF TagsArrive
      <3>2. showing' \in Nodes \cup {NoNode}
        BY <2>0, <2>1 DEF TagsArrive, ChainType
      <3> QED BY <2>1, <3>1, <3>2 DEF TagsArrive, TypeOK, service, ChainType
    <2>2. CASE ModeArrives(k)
      <3>1. chain' \in [Chains -> ChainType]
        BY <2>0, <2>2, Shapes DEF ModeArrives
      <3>2. mode[chain[k].node] \in Modes
        BY <2>2 DEF ModeArrives, HaveNodes, TypeOK
      <3>3. nodeMode' \in Modes
        BY <2>2, <3>2 DEF ModeArrives, Modes
      <3> QED BY <2>2, <3>1, <3>3 DEF ModeArrives, TypeOK, service, ChainType
    <2>3. CASE RestArrives(k)
      BY <2>3, EndType DEF RestArrives, TypeOK, service, ChainType
    <2>4. CASE TagsFail(k)
      BY <2>4, EndType DEF TagsFail, TypeOK, service, ChainType
    <2>5. CASE CommandOk(k)
      <3>1. chain' \in [Chains -> ChainType]
        BY <2>0, <2>5, Shapes DEF CommandOk, ChainType
      <3>2. mode' \in [Nodes -> Modes] /\ lit' \in [Nodes -> SUBSET Outputs]
        BY <2>0, <2>5, EffectType DEF CommandOk, HaveNodes
      <3> QED BY <2>5, <3>1, <3>2 DEF CommandOk, TypeOK, ChainType
    <2>6. CASE CommandFails(k)
      <3>1. mode' \in [Nodes -> Modes] /\ lit' \in [Nodes -> SUBSET Outputs]
        BY <2>0, <2>6, EffectType DEF CommandFails, service, TypeOK, HaveNodes
      <3> QED BY <2>6, <3>1, EndType DEF CommandFails, TypeOK, ChainType
    <2> QED BY <1>4, <2>1, <2>2, <2>3, <2>4, <2>5, <2>6 DEF Progress
  <1>5. ASSUME NEW n \in Nodes, ScheduleSwitches(n)
        PROVE  TypeOK'
    BY <1>5 DEF ScheduleSwitches, TypeOK, page
  <1>6. CASE UNCHANGED panelVars
    BY <1>6 DEF TypeOK, panelVars, page, service
  <1> QED BY <1>1, <1>2, <1>3, <1>4, <1>5, <1>6 DEF Next

\* Loads and commands keep their nodes.
LEMMA NodesStep ==
  ASSUME TypeOK, HaveNodes, [Next]_panelVars
  PROVE  HaveNodes'
  <1>1. ASSUME NEW n \in Nodes \cup {NoNode}, SelectNode(n)
        PROVE  HaveNodes'
    <2>1. CASE n = NoNode
      BY <1>1, <2>1 DEF SelectNode, HaveNodes
    <2>2. CASE n \in Nodes
      <3>1. PICK j \in Chains : chain' = [chain EXCEPT ![j] = LoadOf(n)]
        BY <1>1, <2>2, PanelAssumption DEF SelectNode, StartLoad
      <3>2. LoadOf(n).node = n
        BY DEF LoadOf, Quiet
      <3> QED BY <2>2, <3>1, <3>2 DEF HaveNodes, TypeOK
    <2> QED BY <2>1, <2>2
  <1>2. CASE Refresh
    <2>1. PICK j \in Chains : chain' = [chain EXCEPT ![j] = LoadOf(nodeId)]
      BY <1>2 DEF Refresh, StartLoad
    <2>2. LoadOf(nodeId).node = nodeId /\ nodeId \in Nodes
      BY <1>2 DEF LoadOf, Quiet, Refresh, TypeOK
    <2> QED BY <2>1, <2>2 DEF HaveNodes, TypeOK
  <1>3. CASE Press
    <2>1. PICK op \in Ops, n \in Nodes, t \in Nodes \cup {NoNode} :
            Send(op, n, t)
      BY <1>3, PressSends
    <2> QED BY <2>1 DEF Send, HaveNodes, TypeOK
  <1>4. ASSUME NEW k \in Chains, Progress(k)
        PROVE  HaveNodes'
    <2>1. ASSUME NEW c, chain' = [chain EXCEPT ![k] = c],
                 c.at # "idle" => c.node = chain[k].node /\ chain[k].at # "idle"
          PROVE  HaveNodes'
      BY <2>1 DEF HaveNodes, TypeOK
    <2>2. CASE TagsArrive(k)
      BY <2>1, <2>2 DEF TagsArrive, TypeOK
    <2>3. CASE ModeArrives(k)
      BY <2>1, <2>3 DEF ModeArrives, TypeOK
    <2>4. CASE End(k)
      BY <2>1, <2>4 DEF End, Quiet
    <2>5. CASE CommandOk(k)
      BY <2>1, <2>5 DEF CommandOk, LoadOf, Quiet
    <2> QED
      BY <1>4, <2>2, <2>3, <2>4, <2>5
      DEF Progress, RestArrives, TagsFail, CommandFails
  <1>5. CASE (\E n \in Nodes : ScheduleSwitches(n)) \/ UNCHANGED panelVars
    BY <1>5 DEF ScheduleSwitches, panelVars, HaveNodes
  <1> QED BY <1>1, <1>2, <1>3, <1>4, <1>5 DEF Next

\* In the beginning nothing is in flight.
LEMMA TypeInit ==
  ASSUME Init
  PROVE  TypeOK /\ HaveNodes
  BY Shapes DEF Init, TypeOK, HaveNodes, Quiet, ChainType, Modes, Ops

\* Every variable of the page and of the modes keeps its type
\* (ControlPanel.jsx; control_modes).
THEOREM TypeCorrect == Spec => []TypeOK
  <1>1. Init => TypeOK /\ HaveNodes
    BY TypeInit
  <1>2. TypeOK /\ HaveNodes /\ [Next]_panelVars => TypeOK' /\ HaveNodes'
    BY TypeStep, NodesStep
  <1> QED BY <1>1, <1>2, PTL DEF Spec

-----------------------------------------------------------------------------
(* What the panel shows.  As long as nothing excuses it, what is in flight *)
(* is of the selected node, a stop lists the tags of its node, and the     *)
(* panel shows the selected node, unless the load of that node is all that *)
(* is in flight and hides the panel.                                       *)

OfSelected == \A k \in Chains : chain[k].at # "idle" => chain[k].node = nodeId

StopsOwnTags ==
  \A k \in Chains :
    (chain[k].at = "command" /\ chain[k].op = "stop") =>
      chain[k].tags = chain[k].node

FirstLoad(k) ==
  /\ loading /\ chain[k].at = "tags"
  /\ \A j \in Chains \ {k} : chain[j].at = "idle"

ShownIsSelected ==
  \/ showing \in {nodeId, NoNode} \/ nodeId = NoNode
  \/ \E k \in Chains : FirstLoad(k)

Explained == ~excused => OfSelected /\ StopsOwnTags /\ ShownIsSelected

\* Nothing is in flight and nothing is shown.
LEMMA ExplainedInit ==
  ASSUME Init
  PROVE  Explained
  BY DEF Init, Explained, OfSelected, StopsOwnTags, ShownIsSelected, Quiet

\* The panel on the screen, unexcused, shows the selected node.
LEMMA VisibleShows ==
  ASSUME Explained, Visible, ~excused
  PROVE  showing \in {nodeId, NoNode}
  BY DEF Explained, Visible, ShownIsSelected, FirstLoad

\* A selection that finds nothing in flight leaves one load in flight.
LEMMA ExplainedSelect ==
  ASSUME TypeOK, NEW n \in Nodes \cup {NoNode}, SelectNode(n)
  PROVE  Explained'
  <1> SUFFICES ASSUME ~excused'
               PROVE  (OfSelected /\ StopsOwnTags /\ ShownIsSelected)'
    BY DEF Explained
  <1>1. \A k \in Chains : chain[k].at = "idle"
    <2>1. InFlight = {}
      BY DEF SelectNode
    <2> QED BY <2>1 DEF InFlight, Quiet
  <1>2. CASE n = NoNode
    BY <1>1, <1>2
    DEF SelectNode, OfSelected, StopsOwnTags, ShownIsSelected
  <1>3. CASE n # NoNode
    <2>1. PICK j \in Chains : chain' = [chain EXCEPT ![j] = LoadOf(n)]
      BY <1>3 DEF SelectNode, StartLoad
    <2>2. LoadOf(n).node = n /\ LoadOf(n).at = "tags"
      BY DEF LoadOf, Quiet
    <2>3. /\ chain'[j].at = "tags" /\ chain'[j].node = n
          /\ \A k \in Chains \ {j} : chain'[k].at = "idle"
      BY <1>1, <2>1, <2>2 DEF TypeOK
    <2>4. nodeId' = n /\ loading'
      BY <1>3 DEF SelectNode, StartLoad
    <2>5. FirstLoad(j)'
      BY <2>3, <2>4 DEF FirstLoad
    <2> QED BY <2>3, <2>4, <2>5 DEF OfSelected, StopsOwnTags, ShownIsSelected
  <1> QED BY <1>2, <1>3

\* A button that is pressed sends what the panel shows, of the selected node.
LEMMA ExplainedPress ==
  ASSUME TypeOK, HaveNodes, Explained, Press
  PROVE  Explained'
  <1> SUFFICES ASSUME ~excused'
               PROVE  (OfSelected /\ StopsOwnTags /\ ShownIsSelected)'
    BY DEF Explained
  <1>1. PICK op \in Ops, n \in Nodes, t \in Nodes \cup {NoNode} :
          /\ n \in {nodeId, showing}
          /\ op = "stop" => (n = nodeId /\ t = showing /\ t # NoNode)
          /\ Send(op, n, t)
    BY PressSends
  <1>2. ~excused /\ UNCHANGED <<nodeId, showing, loading>>
    BY <1>1 DEF Send
  <1>3. showing \in {nodeId, NoNode}
    BY <1>2, PressSends, VisibleShows
  <1>4. n = nodeId
    BY <1>1, <1>3, PanelAssumption
  <1>5. PICK j \in Chains : chain' = [chain EXCEPT ![j] =
          [at |-> "command", op |-> op, node |-> n, tags |-> t]]
    BY <1>1 DEF Send
  <1>6. OfSelected'
    BY <1>2, <1>4, <1>5 DEF Explained, OfSelected, TypeOK
  <1>7. op = "stop" => t = n
    BY <1>1, <1>3, <1>4
  <1>8. StopsOwnTags'
    BY <1>2, <1>5, <1>7 DEF Explained, StopsOwnTags, TypeOK
  <1> QED BY <1>2, <1>3, <1>6, <1>8 DEF ShownIsSelected

\* An answer moves one place on, which keeps its node.
LEMMA ExplainedProgress ==
  ASSUME TypeOK, Explained, NEW k \in Chains, Progress(k)
  PROVE  Explained'
  <1> SUFFICES ASSUME ~excused'
               PROVE  (OfSelected /\ StopsOwnTags /\ ShownIsSelected)'
    BY DEF Explained
  <1>1. ~TagsFail(k)
    BY DEF TagsFail
  <1>2. ~excused /\ nodeId' = nodeId
    BY <1>1 DEF Progress, TagsArrive, ModeArrives, RestArrives, CommandOk,
                CommandFails
  <1>3. ASSUME NEW c, chain' = [chain EXCEPT ![k] = c],
               c.at # "idle" => c.node = chain[k].node /\ chain[k].at # "idle",
               c.at # "command"
        PROVE  (OfSelected /\ StopsOwnTags)'
    BY <1>2, <1>3 DEF Explained, OfSelected, StopsOwnTags, TypeOK
  <1>4. CASE TagsArrive(k)
    <2>1. (OfSelected /\ StopsOwnTags)'
      <3>1. [chain[k] EXCEPT !.at = "mode"].at = "mode"
            /\ [chain[k] EXCEPT !.at = "mode"].node = chain[k].node
        BY DEF TypeOK
      <3>2. chain' = [chain EXCEPT ![k] = [chain[k] EXCEPT !.at = "mode"]]
            /\ chain[k].at # "idle"
        BY <1>4 DEF TagsArrive
      <3> QED BY <1>3, <3>1, <3>2
    <2>2. showing' = nodeId'
      BY <1>2, <1>4 DEF TagsArrive, Explained, OfSelected
    <2> QED BY <2>1, <2>2 DEF ShownIsSelected
  <1>5. ASSUME chain[k].at \notin {"idle", "tags"}, showing' = showing
        PROVE  ShownIsSelected'
    <2>1. \A j \in Chains : ~FirstLoad(j)
      BY <1>5 DEF FirstLoad
    <2> QED BY <1>2, <1>5, <2>1 DEF Explained, ShownIsSelected
  <1>6. CASE ModeArrives(k)
    <2>1. (OfSelected /\ StopsOwnTags)'
      <3>1. [chain[k] EXCEPT !.at = "rest"].at = "rest"
            /\ [chain[k] EXCEPT !.at = "rest"].node = chain[k].node
        BY DEF TypeOK
      <3>2. chain' = [chain EXCEPT ![k] = [chain[k] EXCEPT !.at = "rest"]]
            /\ chain[k].at # "idle"
        BY <1>6 DEF ModeArrives
      <3> QED BY <1>3, <3>1, <3>2
    <2> QED BY <1>5, <1>6, <2>1 DEF ModeArrives
  <1>7. CASE RestArrives(k) \/ CommandFails(k)
    <2>1. (OfSelected /\ StopsOwnTags)'
      <3>1. Quiet.at = "idle"
        BY DEF Quiet
      <3>2. chain' = [chain EXCEPT ![k] = Quiet]
        BY <1>7 DEF RestArrives, CommandFails, End
      <3> QED BY <1>3, <3>1, <3>2
    <2> QED BY <1>5, <1>7, <2>1 DEF RestArrives, CommandFails
  <1>8. CASE CommandOk(k)
    <2>1. (OfSelected /\ StopsOwnTags)'
      <3> DEFINE c == [LoadOf(chain[k].node) EXCEPT !.op = "done"]
      <3>1. c.at = "tags" /\ c.node = chain[k].node
        BY DEF LoadOf, Quiet
      <3>2. chain' = [chain EXCEPT ![k] = c] /\ chain[k].at # "idle"
        BY <1>8 DEF CommandOk
      <3> HIDE DEF c
      <3> QED BY <1>3, <3>1, <3>2
    <2> QED BY <1>5, <1>8, <2>1 DEF CommandOk
  <1> QED BY <1>1, <1>4, <1>6, <1>7, <1>8 DEF Progress

\* Every step keeps the explanation.
LEMMA ExplainedStep ==
  ASSUME TypeOK, HaveNodes, Explained, [Next]_panelVars
  PROVE  Explained'
  <1>1. CASE Refresh
    <2> SUFFICES ASSUME ~excused'
                 PROVE  (OfSelected /\ StopsOwnTags /\ ShownIsSelected)'
      BY DEF Explained
    <2>1. PICK j \in Chains : chain' = [chain EXCEPT ![j] = LoadOf(nodeId)]
      BY <1>1 DEF Refresh, StartLoad
    <2>2. LoadOf(nodeId).node = nodeId /\ LoadOf(nodeId).at = "tags"
      BY DEF LoadOf, Quiet
    <2>3. ~excused /\ UNCHANGED <<nodeId, showing>>
      BY <1>1 DEF Refresh
    <2>4. (OfSelected /\ StopsOwnTags)'
      BY <2>1, <2>2, <2>3 DEF Explained, OfSelected, StopsOwnTags, TypeOK
    <2>5. showing \in {nodeId, NoNode}
      BY <1>1, <2>3, VisibleShows DEF Refresh, Visible
    <2> QED BY <2>3, <2>4, <2>5 DEF ShownIsSelected
  <1>2. CASE (\E n \in Nodes : ScheduleSwitches(n)) \/ UNCHANGED panelVars
    BY <1>2 DEF ScheduleSwitches, panelVars, page, Explained, OfSelected,
                StopsOwnTags, ShownIsSelected, FirstLoad
  <1> QED BY <1>1, <1>2, ExplainedSelect, ExplainedPress, ExplainedProgress
          DEF Next

\* The invariant of the panel holds in every behaviour.
LEMMA PanelInvariant == Spec => [](TypeOK /\ HaveNodes /\ Explained)
  <1>1. Init => TypeOK /\ HaveNodes /\ Explained
    BY TypeInit, ExplainedInit
  <1>2. TypeOK /\ HaveNodes /\ Explained /\ [Next]_panelVars
          => TypeOK' /\ HaveNodes' /\ Explained'
    BY TypeStep, NodesStep, ExplainedStep
  <1> QED BY <1>1, <1>2, PTL DEF Spec

\* The panel shows another node's outputs only after a late answer or a
\* failed load (ControlPanel.jsx, loadAll).
THEOREM PanelExplained == Spec => []ForeignPanelExplained
  <1>1. Explained => ForeignPanelExplained
    BY VisibleShows DEF ForeignPanelExplained
  <1> QED BY <1>1, PanelInvariant, PTL

\* An emergency stop that the page sent without such an excuse switches off
\* every tagged output of its node (handleEmergencyStop and
\* StaticActuatorSource).
THEOREM StopWorks ==
  Spec => [][\A k \in Chains :
               (chain[k].op = "stop" /\ CommandOk(k) /\ ~excused)
                 => lit'[chain[k].node] = {}]_panelVars
  <1>1. ASSUME TypeOK, HaveNodes, Explained, NEW k \in Chains,
               chain[k].op = "stop", CommandOk(k), ~excused
        PROVE  lit'[chain[k].node] = {}
    <2>1. chain[k].at = "command" /\ chain[k].node \in Nodes
      BY <1>1 DEF CommandOk, HaveNodes
    <2>2. chain[k].tags = chain[k].node
      BY <1>1, <2>1 DEF Explained, StopsOwnTags
    <2>3. StopEffect(chain[k])
      BY <1>1 DEF CommandOk, Effect
    <2>4. lit \in [Nodes -> SUBSET Outputs]
      BY <1>1 DEF TypeOK
    <2>5. lit' = [lit EXCEPT ![chain[k].node] = {}]
      BY <2>2, <2>3 DEF StopEffect
    <2> QED BY <2>1, <2>4, <2>5
  <1>2. TypeOK /\ HaveNodes /\ Explained =>
          [\A k \in Chains :
             (chain[k].op = "stop" /\ CommandOk(k) /\ ~excused)
               => lit'[chain[k].node] = {}]_panelVars
    BY <1>1
  <1> QED BY <1>2, PanelInvariant, PTL
=============================================================================
