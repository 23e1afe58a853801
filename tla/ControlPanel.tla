---------------------------- MODULE ControlPanel ----------------------------
(* The control page of the dashboard: the node it has selected, the        *)
(* actuator tags and the mode it shows, the loads that fill them and the   *)
(* commands its buttons send.  A load is three awaited answers; a command  *)
(* is one, followed by a load; each belongs to the node that was selected  *)
(* when it began, and nothing discards an answer that comes late.          *)
(*                                                                         *)
(* The Control Service is its modes and the outputs it has switched on, a  *)
(* handler one step (ControlArbitration has the steps inside).  The tags   *)
(* on show are those of one node, so showing is that node.                 *)
EXTENDS Naturals

CONSTANTS
  Nodes,     \* nodes of the module, each with the same tagged outputs
  Outputs,
  NoNode,    \* no node selected, no tags on show
  Chains     \* bound: loads and commands in flight

ASSUME PanelAssumption == NoNode \notin Nodes

VARIABLES
  nodeId, showing, nodeMode, loading, busy,   \* the page
  chain,                                      \* what is in flight
  mode, lit,                                  \* the Control Service
  excused                                     \* history, see the properties

page == <<nodeId, showing, nodeMode, loading, busy>>
service == <<mode, lit>>
panelVars == <<page, chain, service, excused>>

Modes == {"MANUAL", "AUTO", "EMERGENCY"}
Ops == {"load", "stop", "resume", "MANUAL", "AUTO", "tile", "schedule", "done"}
Quiet == [at |-> "idle", op |-> "load", node |-> NoNode, tags |-> NoNode]

TypeOK ==
  /\ nodeId \in Nodes \cup {NoNode} /\ showing \in Nodes \cup {NoNode}
  /\ nodeMode \in Modes /\ loading \in BOOLEAN /\ busy \in BOOLEAN
  /\ chain \in [Chains -> [at : {"idle", "command", "tags", "mode", "rest"},
                           op : Ops, node : Nodes \cup {NoNode},
                           tags : Nodes \cup {NoNode}]]
  /\ mode \in [Nodes -> Modes]
  /\ lit \in [Nodes -> SUBSET Outputs]
  /\ excused \in BOOLEAN

Init ==
  /\ nodeId = NoNode /\ showing = NoNode
  /\ nodeMode = "AUTO" /\ loading = FALSE /\ busy = FALSE
  /\ chain = [k \in Chains |-> Quiet]
  /\ mode = [n \in Nodes |-> "AUTO"]
  /\ lit = [n \in Nodes |-> {}]
  /\ excused = FALSE

-----------------------------------------------------------------------------
(* Selecting and loading. *)

InFlight == {k \in Chains : chain[k] # Quiet}
LoadOf(n) == [Quiet EXCEPT !.at = "tags", !.node = n]

\* loadAll of the node selected now, in a free place.
StartLoad(n) ==
  \E k \in Chains \ InFlight :
    /\ chain' = [chain EXCEPT ![k] = LoadOf(n)]
    /\ loading' = TRUE

\* Mutant: a selection that loads nothing.
SelectOnly(n) ==
  /\ n # nodeId
  /\ nodeId' = n
  /\ excused' = (InFlight # {})
  /\ UNCHANGED <<chain, loading, showing, nodeMode, busy, service>>

\* The list of nodes arrives, or the operator picks one: a new nodeId runs
\* the effect that loads.  Nothing of the old node is cleared.
SelectNode(n) ==
  /\ n # nodeId
  /\ nodeId' = n
  /\ IF n = NoNode THEN UNCHANGED <<chain, loading>> ELSE StartLoad(n)
  /\ excused' = (InFlight # {})
  /\ UNCHANGED <<showing, nodeMode, busy, service>>

Refresh ==
  /\ nodeId # NoNode /\ ~loading
  /\ StartLoad(nodeId)
  /\ UNCHANGED <<nodeId, showing, nodeMode, busy, service, excused>>

\* getActuatorTags and listTargets; the second one may fail unnoticed.
TagsArrive(k) ==
  /\ chain[k].at = "tags"
  /\ showing' = chain[k].node
  /\ chain' = [chain EXCEPT ![k].at = "mode"]
  /\ UNCHANGED <<nodeId, nodeMode, loading, busy, service, excused>>

\* getNodeMode; an error counts as AUTO.
ModeArrives(k) ==
  /\ chain[k].at = "mode"
  /\ nodeMode' \in {mode[chain[k].node], "AUTO"}
  /\ chain' = [chain EXCEPT ![k].at = "rest"]
  /\ UNCHANGED <<nodeId, showing, loading, busy, service, excused>>

\* The end of a chain: loadAll clears loading, a handler clears busy, each
\* for all chains, since there is one flag of each.
End(k) ==
  /\ chain' = [chain EXCEPT ![k] = Quiet]
  /\ loading' = (loading /\ chain[k].at = "command")
  /\ busy' = (busy /\ chain[k].op = "load")

\* The schedules and the command log arrive, or fail.
RestArrives(k) ==
  /\ chain[k].at = "rest"
  /\ End(k)
  /\ UNCHANGED <<nodeId, showing, nodeMode, service, excused>>

\* The tags cannot be read: an error is shown, over what was there before.
TagsFail(k) ==
  /\ chain[k].at = "tags"
  /\ End(k)
  /\ excused' = TRUE
  /\ UNCHANGED <<nodeId, showing, nodeMode, service>>

-----------------------------------------------------------------------------
(* The buttons. *)

\* The panel is on the screen.
Visible == ~loading /\ nodeId # NoNode

\* A handler sets busy and awaits its request to the service.
Send(op, node, tags) ==
  \E k \in Chains \ InFlight :
    /\ chain' = [chain EXCEPT ![k] =
                   [at |-> "command", op |-> op, node |-> node, tags |-> tags]]
    /\ busy' = TRUE
    /\ UNCHANGED <<nodeId, showing, nodeMode, loading, service, excused>>

\* The stop names the selected node and lists the tags on show.
PressStop ==
  /\ Visible /\ ~busy /\ nodeMode # "EMERGENCY" /\ showing # NoNode
  /\ Send("stop", nodeId, showing)

PressMode(m) ==
  /\ Visible /\ ~busy /\ nodeMode \notin {"EMERGENCY", m}
  /\ Send(m, nodeId, NoNode)

PressResume ==
  /\ Visible /\ ~busy /\ nodeMode = "EMERGENCY"
  /\ Send("resume", nodeId, NoNode)

\* A tile has a busy flag of its own, and takes no notice of the page's.
PressTile ==
  /\ Visible /\ nodeMode = "MANUAL" /\ showing # NoNode
  /\ \A k \in Chains : ~(chain[k].at = "command" /\ chain[k].op = "tile")
  /\ Send("tile", showing, NoNode)

\* A schedule is created, changed, switched or deleted; what that does is
\* the subject of module Scheduler.
SubmitSchedule ==
  /\ Visible /\ ~busy
  /\ Send("schedule", nodeId, NoNode)

PressScheduleRow ==
  /\ Visible /\ ~busy
  /\ Send("schedule", nodeId, NoNode)

-----------------------------------------------------------------------------
(* The service handles a command. *)

\* StaticActuatorSource keeps the listed tags that are the node's own.
StopEffect(c) ==
  /\ mode' = [mode EXCEPT ![c.node] = "EMERGENCY"]
  /\ lit' = [lit EXCEPT ![c.node] = IF c.tags = c.node THEN {} ELSE @]

TileEffect(c) ==
  /\ mode[c.node] = "MANUAL"
  /\ \E on \in SUBSET Outputs : lit' = [lit EXCEPT ![c.node] = on]
  /\ mode' = mode

ModeEffect(c) ==
  /\ mode' = [mode EXCEPT ![c.node] = c.op]
  /\ lit' = lit

ResumeEffect(c) ==
  /\ \E m \in {"AUTO", "MANUAL"} : mode' = [mode EXCEPT ![c.node] = m]
  /\ lit' = lit

Effect(c) ==
  \/ c.op = "stop" /\ StopEffect(c)
  \/ c.op = "tile" /\ TileEffect(c)
  \/ c.op \in {"MANUAL", "AUTO"} /\ ModeEffect(c)
  \/ c.op = "resume" /\ ResumeEffect(c)
  \/ c.op = "schedule" /\ UNCHANGED service

\* The answer is yes; the handler awaits loadAll, with its old node.
CommandOk(k) ==
  /\ chain[k].at = "command"
  /\ Effect(chain[k])
  /\ chain' = [chain EXCEPT ![k] = [LoadOf(chain[k].node) EXCEPT !.op = "done"]]
  /\ loading' = TRUE
  /\ UNCHANGED <<nodeId, showing, nodeMode, busy, excused>>

\* The service refuses, or the answer is lost, before or after the effect.
CommandFails(k) ==
  /\ chain[k].at = "command"
  /\ Effect(chain[k]) \/ UNCHANGED service
  /\ End(k)
  /\ UNCHANGED <<nodeId, showing, nodeMode, excused>>

\* Schedules of a node in AUTO switch its outputs; other operators set modes.
ScheduleSwitches(n) ==
  /\ mode[n] = "AUTO"
  /\ \E on \in SUBSET Outputs : lit' = [lit EXCEPT ![n] = on]
  /\ UNCHANGED <<page, chain, mode, excused>>

-----------------------------------------------------------------------------
Progress(k) ==
  \/ TagsArrive(k) \/ TagsFail(k)
  \/ ModeArrives(k)
  \/ RestArrives(k)
  \/ CommandOk(k) \/ CommandFails(k)

Press ==
  \/ PressStop \/ PressResume \/ PressTile
  \/ SubmitSchedule \/ PressScheduleRow
  \/ \E m \in {"MANUAL", "AUTO"} : PressMode(m)

Next ==
  \/ \E n \in Nodes \cup {NoNode} : SelectNode(n)
  \/ Refresh \/ Press
  \/ \E k \in Chains : Progress(k)
  \/ \E n \in Nodes : ScheduleSwitches(n)

Spec == Init /\ [][Next]_panelVars

-----------------------------------------------------------------------------
(* Properties. *)

\* The panel shows the outputs of a node other than the selected one only if
\* a request of the earlier node was still in flight at the selection, or
\* the tags of the new node could not be read (ControlPanel.jsx, loadAll).
ForeignPanelExplained ==
  (Visible /\ showing \notin {nodeId, NoNode}) => excused

\* An emergency stop leaves no tagged output of its node on (control.js:53,
\* "EMERGENCY forces all outputs off until resumed").
StopDarkens ==
  [][\A k \in Chains :
       (chain[k].op = "stop" /\ CommandOk(k)) => lit'[chain[k].node] = {}]_panelVars
=============================================================================
