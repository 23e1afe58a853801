----------------------------- MODULE ExportPage -----------------------------
(* The export page of the dashboard: its filters, the preview that each    *)
(* change of them loads again, the pages of the preview and the download.  *)
(* A module is the set of its nodes; the other filters only load again.    *)
EXTENDS Naturals

CONSTANTS
  Modules, Nodes, NodesOf,
  AllNodes,      \* "*", no node chosen
  Limit,         \* records of a page
  MaxTotal,      \* bound: records that match
  MaxLoads       \* bound: requests in flight

ExportAssumption ==
  /\ Limit \in Nat \ {0} /\ MaxTotal \in Nat
  /\ MaxLoads \in Nat \ {0}
  /\ AllNodes \notin Nodes
  /\ NodesOf \in [Modules -> SUBSET Nodes]

VARIABLES
  module, listed,        \* the selected module; the list of nodes is there
  tab, node, offset,     \* the filters that matter here
  total,                 \* the records that match, as the last answer says
  flight, loading        \* requests in flight

exportVars == <<module, listed, tab, node, offset, total, flight, loading>>

TypeOK ==
  /\ module \in Modules /\ listed \in BOOLEAN
  /\ tab \in {"telemetry", "nodes"} /\ node \in Nodes \cup {AllNodes}
  /\ offset \in Nat /\ total \in 0..MaxTotal
  /\ flight \in 0..MaxLoads /\ loading \in BOOLEAN

Init ==
  /\ module \in Modules /\ listed = FALSE
  /\ tab = "telemetry" /\ node = AllNodes /\ offset = 0
  /\ total = 0 /\ flight = 1 /\ loading = TRUE

-----------------------------------------------------------------------------
\* Each change of a filter loads the preview again.
Ask ==
  /\ flight < MaxLoads
  /\ flight' = flight + 1
  /\ loading' = TRUE

\* The list of all nodes arrives once; the first node of the module, if it
\* has one, is chosen whenever the list or the module changes.
Sync ==
  /\ node' \in IF ~listed' \/ NodesOf[module'] = {} THEN {AllNodes} ELSE NodesOf[module']
  /\ offset' = 0
  /\ Ask
  /\ UNCHANGED <<tab, total>>

NodesArrive == ~listed /\ listed' = TRUE /\ module' = module /\ Sync

SelectModule(m) == m # module /\ module' = m /\ listed' = listed /\ Sync

\* A node, or another filter that starts from the first record.
SetFilter(n) ==
  /\ n \in {AllNodes} \cup (IF listed THEN NodesOf[module] ELSE {})
  /\ node' = n
  /\ offset' = 0
  /\ Ask
  /\ UNCHANGED <<module, listed, tab, total>>

\* The format, the sorting: the place in the records stays.
SetOther ==
  /\ Ask
  /\ UNCHANGED <<module, listed, tab, node, offset, total>>

\* The rows go at once; the count stays until the answer.
SetTab(t) ==
  /\ t # tab
  /\ tab' = t
  /\ offset' = 0
  /\ Ask
  /\ UNCHANGED <<module, listed, node, total>>

\* Records are stored and deleted all the time, so any count may come; an
\* error leaves the one there was.
PreviewArrives ==
  /\ flight > 0
  /\ total' \in 0..MaxTotal
  /\ flight' = flight - 1
  /\ loading' = FALSE
  /\ UNCHANGED <<module, listed, tab, node, offset>>

\* The file is built from one answer, in the format of the button.
Download ==
  /\ ~loading
  /\ Ask
  /\ UNCHANGED <<module, listed, tab, node, offset, total>>

DownloadEnds ==
  /\ flight > 0
  /\ flight' = flight - 1
  /\ loading' = FALSE
  /\ UNCHANGED <<module, listed, tab, node, offset, total>>

-----------------------------------------------------------------------------
(* The pages. *)

AtLeast(low, n) == IF n < low THEN low ELSE n
Minus(a, b) == IF a < b THEN 0 ELSE a - b

CurrentPage == offset \div Limit + 1
\* Mutant: a last page that is not full does not count.
FullPages == AtLeast(1, total \div Limit)

TotalPages == AtLeast(1, (total + Limit - 1) \div Limit)
NextShown == ~loading /\ CurrentPage < TotalPages
PrevShown == ~loading /\ CurrentPage > 1

GoNext ==
  /\ NextShown
  /\ offset' = (IF offset + Limit > Minus(total, Limit) THEN Minus(total, Limit)
                ELSE offset + Limit)
  /\ IF offset' = offset THEN UNCHANGED <<flight, loading>> ELSE Ask
  /\ UNCHANGED <<module, listed, tab, node, total>>

GoPrev ==
  /\ PrevShown
  /\ offset' = Minus(offset, Limit)
  /\ Ask
  /\ UNCHANGED <<module, listed, tab, node, total>>

-----------------------------------------------------------------------------
Next ==
  \/ NodesArrive \/ (\E m \in Modules : SelectModule(m))
  \/ \E n \in Nodes \cup {AllNodes} : SetFilter(n)
  \/ SetOther \/ (\E t \in {"telemetry", "nodes"} : SetTab(t))
  \/ PreviewArrives \/ Download \/ DownloadEnds
  \/ GoNext \/ GoPrev

Spec == Init /\ [][Next]_exportVars

-----------------------------------------------------------------------------
(* Properties. *)

\* The pages leave no record out on the way to the last one, whatever count
\* the answers bring: Next skips nothing, and it moves unless the page
\* reaches the end, which it does wherever Next cannot be pressed
\* (Export.jsx:445-448).
NextReachesTheEnd ==
  /\ GoNext => /\ offset' <= offset + Limit
               /\ offset' > offset \/ offset + Limit >= total
  /\ (~loading /\ ~NextShown) => offset + Limit >= total
=============================================================================
