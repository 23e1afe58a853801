--------------------------- MODULE AnalyticsPage ---------------------------
(* The analytics page of the dashboard: the module and its nodes, the tags *)
(* of the selected node, and the series they configure.  The effects that  *)
(* load nodes and tags ignore the answer to an earlier run of theirs; the  *)
(* one that loads the series does not.                                     *)
EXTENDS Naturals, Sequences

CONSTANTS
  Modules, NoModule,
  Nodes, NoNode,
  ModuleOf,   \* the module of a node
  MaxLoads    \* bound: loads of series in flight

AnalyticsAssumption ==
  /\ NoModule \notin Modules /\ NoNode \notin Nodes
  /\ ModuleOf \in [Nodes -> Modules] /\ MaxLoads \in Nat

VARIABLES
  module, listLoads, nodes,   \* loads are records with their active flag
  nodeId, tagLoads, tagsOf,   \* tagsOf = NoNode: tags are not loaded
  series, seriesLoads,        \* whose series, chosen by whose tags
  loading,
  late                        \* history, see the properties

scope == <<module, listLoads, nodes>>
chart == <<series, seriesLoads, loading, late>>
analyticsVars == <<scope, nodeId, tagLoads, tagsOf, chart>>

NoSeries == [node |-> NoNode, tags |-> NoNode]
Series == [node : Nodes \cup {NoNode}, tags : Nodes \cup {NoNode}]
NodesOf(m) == {n \in Nodes : ModuleOf[n] = m}

TypeOK ==
  /\ module \in Modules \cup {NoModule}
  /\ listLoads \subseteq [module : Modules, active : BOOLEAN]
  /\ nodes \subseteq Nodes /\ nodeId \in Nodes \cup {NoNode}
  /\ tagLoads \subseteq [node : Nodes, active : BOOLEAN]
  /\ tagsOf \in Nodes \cup {NoNode}
  /\ series \in Series /\ loading \in BOOLEAN /\ late \in BOOLEAN
  /\ seriesLoads \in Seq([of : Series, passed : BOOLEAN])

Init ==
  /\ module = NoModule /\ listLoads = {} /\ nodes = {}
  /\ nodeId = NoNode /\ tagLoads = {} /\ tagsOf = NoNode
  /\ series = NoSeries /\ seriesLoads = <<>> /\ loading = FALSE
  /\ late = FALSE

-----------------------------------------------------------------------------
(* loadData. *)

Passed(loads) == [i \in DOMAIN loads |-> [loads[i] EXCEPT !.passed = TRUE]]

\* Without tags or a node there is nothing to load, and nothing is shown.
Clear ==
  /\ series' = NoSeries
  /\ seriesLoads' = Passed(seriesLoads)
  /\ late' = FALSE
  /\ UNCHANGED loading

Ask(n, tags) ==
  /\ Len(seriesLoads) < MaxLoads
  /\ seriesLoads' = Append(seriesLoads,
                      [of |-> [node |-> n, tags |-> tags], passed |-> FALSE])
  /\ loading' = TRUE
  /\ UNCHANGED <<series, late>>

\* Mutant: a new node, with the series of the one before.
ChangeNodeOnly(n) ==
  /\ nodeId' = n
  /\ tagsOf' = NoNode
  /\ tagLoads' = {[r EXCEPT !.active = FALSE] : r \in tagLoads}
                   \cup (IF n = NoNode THEN {} ELSE {[node |-> n, active |-> TRUE]})
  /\ UNCHANGED chart

\* A new node: the effects run once with the tags of the node before, which
\* asks for series, and once without tags, which clears what is shown.
ChangeNode(n) ==
  /\ nodeId' = n
  /\ tagsOf' = NoNode
  /\ tagLoads' = {[r EXCEPT !.active = FALSE] : r \in tagLoads}
                   \cup (IF n = NoNode THEN {} ELSE {[node |-> n, active |-> TRUE]})
  /\ series' = NoSeries /\ late' = FALSE
  /\ IF n # NoNode /\ tagsOf # NoNode
     THEN /\ Len(seriesLoads) < MaxLoads
          /\ seriesLoads' = Passed(Append(seriesLoads,
               [of |-> [node |-> n, tags |-> tagsOf], passed |-> TRUE]))
          /\ loading' = TRUE
     ELSE seriesLoads' = Passed(seriesLoads) /\ UNCHANGED loading

-----------------------------------------------------------------------------
PickModule(m) ==
  /\ m # module
  /\ module' = m
  /\ listLoads' = {[r EXCEPT !.active = FALSE] : r \in listLoads}
                    \cup (IF m = NoModule THEN {} ELSE {[module |-> m, active |-> TRUE]})
  /\ IF m = NoModule /\ nodeId # NoNode
     THEN nodes' = {} /\ ChangeNode(NoNode)
     ELSE UNCHANGED <<nodes, nodeId, tagLoads, tagsOf, chart>>

\* The first node of the list is selected; if it was before, only the
\* series are asked for again.
ListArrives(r) ==
  /\ listLoads' = listLoads \ {r}
  /\ IF r.active
     THEN /\ nodes' = NodesOf(r.module)
          /\ \E n \in IF nodes' = {} THEN {NoNode} ELSE nodes' :
               \/ n # nodeId /\ ChangeNode(n)
               \/ /\ n = nodeId
                  /\ IF tagsOf = NoNode THEN Clear ELSE Ask(n, tagsOf)
                  /\ UNCHANGED <<nodeId, tagLoads, tagsOf>>
     ELSE UNCHANGED <<nodes, nodeId, tagLoads, tagsOf, chart>>
  /\ UNCHANGED module

\* An error is shown, next to what was there before.
ListFails(r) ==
  /\ listLoads' = listLoads \ {r}
  /\ UNCHANGED <<module, nodes, nodeId, tagLoads, tagsOf, chart>>

PickNode(n) ==
  /\ n \in nodes \ {nodeId}
  /\ ChangeNode(n)
  /\ UNCHANGED scope

\* Mutant: tags are taken whichever node they are of.
TagsTaken(r) ==
  /\ tagLoads' = tagLoads \ {r}
  /\ tagsOf' = r.node /\ Ask(nodeId, r.node)
  /\ UNCHANGED <<scope, nodeId>>

\* An answer or an error; both count as loaded, and start loadData.
TagsArrive(r) ==
  /\ tagLoads' = tagLoads \ {r}
  /\ IF r.active THEN tagsOf' = r.node /\ Ask(nodeId, r.node)
                 ELSE UNCHANGED <<tagsOf, chart>>
  /\ UNCHANGED <<scope, nodeId>>

\* Another range, or the metrics have been classified.
AskAgain ==
  /\ tagsOf # NoNode
  /\ Ask(nodeId, tagsOf)
  /\ UNCHANGED <<scope, nodeId, tagLoads, tagsOf>>

\* Whatever is selected by now, the answer is shown; an error shows nothing.
SeriesArrive(i) ==
  /\ series' \in {seriesLoads[i].of, NoSeries}
  /\ late' = seriesLoads[i].passed
  /\ seriesLoads' = Passed(SubSeq(seriesLoads, 1, i - 1))
                      \o SubSeq(seriesLoads, i + 1, Len(seriesLoads))
  /\ loading' = FALSE
  /\ UNCHANGED <<scope, nodeId, tagLoads, tagsOf>>

-----------------------------------------------------------------------------
Next ==
  \/ \E m \in Modules \cup {NoModule} : PickModule(m)
  \/ \E r \in listLoads : ListArrives(r) \/ ListFails(r)
  \/ \E n \in Nodes : PickNode(n)
  \/ \E r \in tagLoads : TagsArrive(r)
  \/ AskAgain
  \/ \E i \in DOMAIN seriesLoads : SeriesArrive(i)

Spec == Init /\ [][Next]_analyticsVars

-----------------------------------------------------------------------------
(* Properties. *)

\* The tags are those of the selected node, or none (the effect that loads
\* them ignores an answer that comes late).
Tags == INSTANCE LatestLoad
          WITH Keys <- Nodes, Nothing <- NoNode, wanted <- nodeId, shown <- tagsOf
TagsAreTheNodes == Tags!Spec

\* The series are those of the selected node and its tags, unless the answer
\* to an older request came after a newer one or after the page was cleared
\* (Analytics.jsx, loadData).
OnlyLateSeriesAreWrong ==
  series = NoSeries \/ late \/ series = [node |-> nodeId, tags |-> tagsOf]

\* What makes it inductive: a load of tags that still counts is one of the
\* selected node, ...
TagLoads ==
  /\ tagLoads \subseteq [node : Nodes, active : BOOLEAN]
  /\ tagsOf \in {NoNode, nodeId}
  /\ \A r \in tagLoads : r.active => r.node = nodeId

\* ... and with it a load of series that nothing has passed is one of the
\* selected node and of its tags, which are loaded, as are the series that
\* are shown, if they did not come late.
Load == [of : Series, passed : BOOLEAN]
Now == [node |-> nodeId, tags |-> tagsOf]
Current(load) == load.passed \/ (tagsOf # NoNode /\ load.of = Now)

SeriesLoads ==
  /\ seriesLoads \in Seq(Load)
  /\ \A i \in 1..Len(seriesLoads) : Current(seriesLoads[i])
  /\ series = NoSeries \/ late \/ (tagsOf # NoNode /\ series = Now)

Selected ==
  /\ nodes \subseteq Nodes /\ nodeId \in Nodes \cup {NoNode}
  /\ TagLoads /\ SeriesLoads

AnalyticsInv == TypeOK /\ Selected
=============================================================================
