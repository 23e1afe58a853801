----------------------------- MODULE MonitorPage -----------------------------
(* The node controller of the monitor page: the module on show and its     *)
(* list of nodes, the node the controller drives, and the mode and the     *)
(* tiles it shows, which count by the node they belong to.                 *)
(*                                                                         *)
(* Requests in flight are sets.  Two equal ones may be in flight, so an    *)
(* answer may leave its request behind.                                    *)
EXTENDS Naturals, FiniteSets

CONSTANTS
  Modules, NoModule,
  Nodes, NoNode,
  ModuleOf,      \* the module of a node
  MaxRequests    \* bound: requests of the controller in flight

MonitorAssumption ==
  /\ NoModule \notin Modules /\ NoNode \notin Nodes
  /\ ModuleOf \in [Nodes -> Modules] /\ MaxRequests \in Nat

VARIABLES
  module, lists, listOf,       \* selected, loads in flight, whose nodes it has
  driven, modeOf, tilesOf,     \* selectedNode; whose mode and tiles it shows
  asks,                        \* loads of mode and tiles
  acts,                        \* commands, each with the node driven then
  overlap, moved               \* history, see the properties

lists_ == <<module, lists, listOf, moved>>
controller == <<driven, modeOf, tilesOf, asks, acts, overlap>>
monitorVars == <<lists_, controller>>

Ask == [what : {"mode", "tiles"}, node : Nodes]
AskBoth(n) == {[what |-> w, node |-> n] : w \in {"mode", "tiles"}}
NodesOf(m) == {n \in Nodes : ModuleOf[n] = m}

TypeOK ==
  /\ module \in Modules \cup {NoModule}
  /\ lists \subseteq Modules /\ listOf \in Modules \cup {NoModule}
  /\ {driven, modeOf, tilesOf} \subseteq Nodes \cup {NoNode}
  /\ asks \subseteq Ask /\ acts \subseteq [node : Nodes, tile : BOOLEAN]
  /\ overlap \in BOOLEAN /\ moved \in BOOLEAN

Init ==
  /\ module = NoModule /\ lists = {} /\ listOf = NoModule
  /\ driven = NoNode /\ modeOf = NoNode /\ tilesOf = NoNode
  /\ asks = {} /\ acts = {}
  /\ overlap = FALSE /\ moved = FALSE

-----------------------------------------------------------------------------
(* The module and its nodes. *)

\* loadNodes runs again; without a module it empties the list at once.
PickModule(m) ==
  /\ m # module
  /\ module' = m
  /\ lists' = (IF m = NoModule THEN lists ELSE lists \cup {m})
  /\ listOf' = (IF m = NoModule THEN NoModule ELSE listOf)
  /\ moved' = (driven # NoNode)
  /\ UNCHANGED controller

Room == Cardinality(asks) + Cardinality(acts) < MaxRequests

\* Mutant: a new node does not run the effects again.
DriveOnly(n) ==
  /\ driven' = n
  /\ overlap' = (asks # {} \/ acts # {})
  /\ UNCHANGED <<asks, modeOf, tilesOf, acts>>

\* The node to drive, with the loads that its effects start.
Drive(n) ==
  /\ driven' = n
  /\ asks' = asks \cup AskBoth(n)
  /\ Room
  /\ overlap' = (asks # {} \/ acts # {})
  /\ UNCHANGED <<modeOf, tilesOf, acts>>

\* An answer is shown, whichever module is selected by now; only while no
\* node was chosen does the effect choose one.
ListArrives(m) ==
  /\ m \in lists
  /\ lists' \in {lists, lists \ {m}}
  /\ listOf' = m
  /\ IF driven = NoNode /\ NodesOf(m) # {}
     THEN (\E n \in NodesOf(m) : Drive(n)) /\ moved' = (m # module)
     ELSE UNCHANGED <<controller, moved>>
  /\ UNCHANGED <<module>>

ListFails(m) ==
  /\ m \in lists
  /\ lists' = lists \ {m}
  /\ listOf' = NoModule
  /\ UNCHANGED <<module, moved, controller>>

PickNode(n) ==
  /\ n \in NodesOf(listOf) /\ n # driven
  /\ Drive(n)
  /\ moved' = (listOf # module)
  /\ UNCHANGED <<module, lists, listOf>>

\* The reload button; the effects of the node do not run again, but its mode
\* is asked for.
Reload ==
  /\ Room
  /\ lists' = (IF module = NoModule THEN lists ELSE lists \cup {module})
  /\ asks' = (IF driven = NoNode THEN asks
              ELSE asks \cup {[what |-> "mode", node |-> driven]})
  /\ UNCHANGED <<module, listOf, moved, driven, modeOf, tilesOf, acts, overlap>>

-----------------------------------------------------------------------------
(* The controller. *)

\* loadMode and loadActuators: on an error nothing is shown.
AskEnds(a) ==
  /\ a \in asks
  /\ asks' \in {asks, asks \ {a}}
  /\ \E shown \in {a.node, NoNode} :
       IF a.what = "mode" THEN modeOf' = shown /\ tilesOf' = tilesOf
                          ELSE tilesOf' = shown /\ modeOf' = modeOf
  /\ UNCHANGED <<driven, acts, overlap, lists_>>

\* Mode, stop and resume buttons, and the tiles, which are there in MANUAL.
PressAction(isTile) ==
  /\ driven # NoNode /\ Room
  /\ isTile => (modeOf # NoNode /\ tilesOf # NoNode)
  /\ acts' = acts \cup {[node |-> driven, tile |-> isTile]}
  /\ UNCHANGED <<driven, modeOf, tilesOf, asks, overlap, lists_>>

\* doAction reloads the mode of the node driven when the button was pressed,
\* unless the command failed; a tile reloads the tiles in any case.
ActionEnds(a) ==
  /\ a \in acts
  /\ acts' \in {acts, acts \ {a}}
  /\ \E ok \in BOOLEAN :
       asks' = asks \cup {q \in AskBoth(a.node) :
                            IF q.what = "mode" THEN ok ELSE a.tile}
  /\ UNCHANGED <<driven, modeOf, tilesOf, overlap, lists_>>

-----------------------------------------------------------------------------
Next ==
  \/ \E m \in Modules \cup {NoModule} : PickModule(m)
  \/ \E m \in Modules : ListArrives(m) \/ ListFails(m)
  \/ \E n \in Nodes : PickNode(n)
  \/ Reload
  \/ \E a \in asks : AskEnds(a)
  \/ \E isTile \in BOOLEAN : PressAction(isTile)
  \/ \E a \in acts : ActionEnds(a)

Spec == Init /\ [][Next]_monitorVars

-----------------------------------------------------------------------------
(* Properties. *)

\* The mode and the tiles are those of the node that the buttons drive, or
\* its own are being loaded, or the node was changed while requests of
\* another were in flight (Monitor.jsx, loadMode, loadActuators, doAction).
ForeignModeExplained ==
  /\ modeOf \notin {driven, NoNode} =>
       overlap \/ [what |-> "mode", node |-> driven] \in asks
  /\ tilesOf \notin {driven, NoNode} =>
       overlap \/ [what |-> "tiles", node |-> driven] \in asks

\* The buttons drive a node of the selected module, unless the module was
\* changed after the node had been chosen, or the list was late
\* (Monitor.jsx, the effect that selects the first node).
ForeignNodeExplained == driven # NoNode => (moved \/ ModuleOf[driven] = module)

\* What makes the two inductive: without an overlap every request is one of
\* the node that is driven.
OwnRequests == overlap \/ \A r \in asks \cup acts : r.node = driven

Explained ==
  TypeOK /\ OwnRequests /\ ForeignModeExplained /\ ForeignNodeExplained
=============================================================================
