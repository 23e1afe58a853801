---------------------------- MODULE NodePairing ----------------------------
(* Nodes and the modules they are paired to: the Module Service, whose     *)
(* requests run side by side and are not transactions, and the page that   *)
(* pairs the nodes of one module and polls two lists (NodeManagement.jsx). *)
EXTENDS Naturals, FiniteSets

CONSTANTS
  Nodes,
  Modules, Here,       \* the modules, and the one whose page is open
  NoModule, NoNode,
  Slots                \* bound: handlers and polls under way at a time

PairingAssumption ==
  Here \in Modules /\ NoModule \notin Modules /\ NoNode \notin Nodes

VARIABLES
  known, moduleOf,     \* nodes with a record, and the module of each
  alive, deleting,     \* modules with a record; a module being deleted
  orphans,             \* history: nodes paired to a module that was going
  paired, discovered, isLoading, busyId,    \* the page
  handler              \* its handlers and polls

records == <<known, moduleOf, orphans>>
service == <<records, alive, deleting>>
page == <<paired, discovered, isLoading, busyId>>
pairingVars == <<service, page, handler>>

Idle == [kind |-> "none", step |-> "none", node |-> NoNode, detached |-> FALSE,
         got |-> {}, paired |-> {}, discovered |-> {}]

HandlerType ==
  [kind : {"none", "poll", "pair", "unpair", "delete"},
   step : {"none", "sent", "checked", "lists"},
   node : Nodes \cup {NoNode}, detached : BOOLEAN,
   got : SUBSET {"paired", "discovered"},
   paired : SUBSET Nodes, discovered : SUBSET Nodes]

TypeOK ==
  /\ known \subseteq Nodes /\ orphans \subseteq Nodes
  /\ moduleOf \in [Nodes -> Modules \cup {NoModule}]
  /\ alive \subseteq Modules /\ deleting \in Modules \cup {NoModule}
  /\ paired \subseteq Nodes /\ discovered \subseteq Nodes
  /\ isLoading \in BOOLEAN /\ busyId \in Nodes \cup {NoNode}
  /\ handler \in [Slots -> HandlerType]

Init ==
  /\ known = {} /\ moduleOf = [n \in Nodes |-> NoModule] /\ orphans = {}
  /\ alive = Modules /\ deleting = NoModule
  /\ paired = {} /\ discovered = {} /\ isLoading = TRUE /\ busyId = NoNode
  /\ handler = [s \in Slots |-> Idle]

-----------------------------------------------------------------------------
(* The Module Service. *)

\* A discovery or status message makes a record and leaves a pairing alone.
HandleDiscovery(n) ==
  /\ n \notin known
  /\ known' = known \cup {n}
  /\ UNCHANGED <<moduleOf, orphans, alive, deleting, page, handler>>

Assign(n, m, orphan) ==
  /\ n \in known
  /\ moduleOf' = [moduleOf EXCEPT ![n] = m]
  /\ orphans' = IF orphan THEN orphans \cup {n} ELSE orphans \ {n}
  /\ UNCHANGED known

Forget(n) ==
  /\ n \in known
  /\ known' = known \ {n} /\ orphans' = orphans \ {n}
  /\ moduleOf' = [moduleOf EXCEPT ![n] = NoModule]

\* Mutant: a module goes without its nodes being detached.
DetachNothing(m) ==
  /\ deleting = NoModule /\ m \in alive
  /\ deleting' = m
  /\ UNCHANGED <<records, alive, page, handler>>

\* A module goes in two statements: its nodes are detached, then its record
\* is deleted.  What checked the module before that may still pair with it.
DetachNodes(m) ==
  /\ deleting = NoModule /\ m \in alive
  /\ deleting' = m
  /\ moduleOf' = [n \in Nodes |-> IF moduleOf[n] = m THEN NoModule
                                  ELSE moduleOf[n]]
  /\ handler' = [s \in Slots |->
       [handler[s] EXCEPT !.detached = @ \/ (m = Here /\ handler[s].step =
                                                              "checked")]]
  /\ UNCHANGED <<known, orphans, alive, page>>

DeleteModule ==
  /\ deleting # NoModule
  /\ alive' = alive \ {deleting} /\ deleting' = NoModule
  /\ UNCHANGED <<records, page, handler>>

\* The second statement fails: the module stays, without its nodes.
DeleteModuleFails ==
  /\ deleting # NoModule
  /\ deleting' = NoModule
  /\ UNCHANGED <<records, alive, page, handler>>

\* Another operator pairs, unpairs or deletes a node.
OtherOperator(n) ==
  /\ \/ \E m \in alive : Assign(n, m, m = deleting)
     \/ Assign(n, NoModule, FALSE)
     \/ Forget(n)
  /\ UNCHANGED <<alive, deleting, page, handler>>

-----------------------------------------------------------------------------
(* The page. *)

Begin(h) ==
  \E s \in Slots :
    /\ handler[s] = Idle
    /\ handler' = [handler EXCEPT ![s] = h]

\* The first load, the timer of four seconds, the refresh button: a poll
\* does not wait for the one before.
FetchData ==
  /\ Begin([Idle EXCEPT !.kind = "poll", !.step = "lists"])
  /\ UNCHANGED <<service, page>>

Press(kind, n) ==
  /\ busyId # n
  /\ busyId' = n
  /\ Begin([Idle EXCEPT !.kind = kind, !.step = "sent", !.node = n])
  /\ UNCHANGED <<service, paired, discovered, isLoading>>

HandlePair(n) == n \in discovered /\ Press("pair", n)
HandleUnpair(n) == ~isLoading /\ n \in paired /\ Press("unpair", n)
HandleDelete(n) == ~isLoading /\ n \in paired /\ Press("delete", n)

\* Pairing asks first whether the module exists.
CheckModule(s) ==
  /\ handler[s].kind = "pair" /\ handler[s].step = "sent" /\ Here \in alive
  /\ handler' = [handler EXCEPT ![s].step = "checked",
                                ![s].detached = (deleting = Here)]
  /\ UNCHANGED <<service, page>>

Done(s) ==
  handler' = [handler EXCEPT ![s] = [Idle EXCEPT !.kind = handler[s].kind,
                                                 !.step = "lists"]]

PairNode(s) ==
  /\ handler[s].step = "checked"
  /\ Assign(handler[s].node, Here, handler[s].detached)
  /\ Done(s)
  /\ UNCHANGED <<alive, deleting, page>>

UnpairNode(s) ==
  /\ handler[s].kind = "unpair" /\ handler[s].step = "sent"
  /\ Assign(handler[s].node, NoModule, FALSE)
  /\ Done(s)
  /\ UNCHANGED <<alive, deleting, page>>

DeleteNode(s) ==
  /\ handler[s].kind = "delete" /\ handler[s].step = "sent"
  /\ Forget(handler[s].node)
  /\ Done(s)
  /\ UNCHANGED <<alive, deleting, page>>

\* The two lists are read by two requests.
ListNodes(s) ==
  /\ handler[s].step = "lists" /\ "paired" \notin handler[s].got
  /\ handler' = [handler EXCEPT
       ![s].got = @ \cup {"paired"},
       ![s].paired = {n \in known : moduleOf[n] = Here}]
  /\ UNCHANGED <<service, page>>

ListDiscovered(s) ==
  /\ handler[s].step = "lists" /\ "discovered" \notin handler[s].got
  /\ handler' = [handler EXCEPT
       ![s].got = @ \cup {"discovered"},
       ![s].discovered = {n \in known : moduleOf[n] = NoModule}]
  /\ UNCHANGED <<service, page>>

\* A handler that ends frees all rows, a poll none.
End(s) ==
  /\ busyId' = IF handler[s].kind = "poll" THEN busyId ELSE NoNode
  /\ handler' = [handler EXCEPT ![s] = Idle]

ListsArrive(s) ==
  /\ handler[s].step = "lists" /\ handler[s].got = {"paired", "discovered"}
  /\ paired' = handler[s].paired /\ discovered' = handler[s].discovered
  /\ isLoading' = FALSE
  /\ End(s)
  /\ UNCHANGED service

ListsFail(s) ==
  /\ handler[s].step = "lists"
  /\ isLoading' = FALSE
  /\ End(s)
  /\ UNCHANGED <<service, paired, discovered>>

CommandFails(s) ==
  /\ handler[s].step \in {"sent", "checked"}
  /\ End(s)
  /\ UNCHANGED <<service, paired, discovered, isLoading>>

-----------------------------------------------------------------------------
Next ==
  \/ FetchData \/ DeleteModule \/ DeleteModuleFails
  \/ \E m \in Modules : DetachNodes(m)
  \/ \E n \in Nodes :
       \/ HandleDiscovery(n) \/ OtherOperator(n)
       \/ HandlePair(n) \/ HandleUnpair(n) \/ HandleDelete(n)
  \/ \E s \in Slots :
       \/ CheckModule(s) \/ PairNode(s) \/ UnpairNode(s) \/ DeleteNode(s)
       \/ ListNodes(s) \/ ListDiscovered(s)
       \/ ListsArrive(s) \/ ListsFail(s) \/ CommandFails(s)

Spec == Init /\ [][Next]_pairingVars

-----------------------------------------------------------------------------
(* Properties. *)

\* A node with a record is unpaired, so that the lists of discovered nodes
\* have it, or paired to a module that exists, unless its pairing overlapped
\* the deletion of the module (repository.go, DeleteModule: "they remain
\* discoverable").
NodesStayListed ==
  \A n \in known \ orphans : moduleOf[n] \in alive \cup {NoModule}

\* What makes it inductive: a node without a record is paired to nothing,
\* what a node is paired to exists and is not going, or the pairing is one
\* that overlapped a deletion, ...
Staying(m) == m = NoModule \/ (m \in alive /\ m # deleting)

Pairings ==
  /\ known \subseteq Nodes
  /\ moduleOf \in [Nodes -> Modules \cup {NoModule}]
  /\ deleting = NoModule \/ deleting \in alive

UnknownUnpaired == \A n \in Nodes \ known : moduleOf[n] = NoModule
PairedToStaying == \A n \in known \ orphans : Staying(moduleOf[n])
Records == Pairings /\ UnknownUnpaired /\ PairedToStaying

\* ... and a handler that has checked its module may rely on it, unless the
\* module's nodes have been detached since.
Relies(h) == h.step = "checked" /\ ~h.detached
Handlers ==
  /\ handler \in [Slots -> HandlerType]
  /\ \A s \in Slots : Relies(handler[s]) => Staying(Here)

Listed == alive \subseteq Modules /\ Records /\ Handlers

PairingInv == TypeOK /\ Listed
=============================================================================
