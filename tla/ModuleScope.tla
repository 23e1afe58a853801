---------------------------- MODULE ModuleScope ----------------------------
(* The module that the whole dashboard looks at (ModuleContext.jsx), its   *)
(* selector, and the page on which modules are made, changed and deleted   *)
(* (DeviceManagement.jsx).  The choice is kept in the browser's storage.   *)
EXTENDS Naturals, Sequences, SequencesExt

CONSTANTS
  Modules,     \* identifiers that modules get
  NoModule,
  Slots        \* bound: handlers and fetches under way at a time

ScopeAssumption == NoModule \notin Modules

VARIABLES
  stored, fresh,          \* modules of the Module Service, newest first;
                          \* identifiers not given yet
  modules, selectedModule, loadingModules,    \* the context
  saved,                  \* the choice in the browser's storage
  form, isSaving, nodesOf,                    \* the page of modules
  handler                 \* what is under way

service == <<stored, fresh>>
context == <<modules, selectedModule, loadingModules, saved>>
page == <<form, isSaving, nodesOf>>
scopeVars == <<service, context, page, handler>>

Lists == Seq(Modules)
Idle == [kind |-> "none", step |-> "none", id |-> NoModule, read |-> <<>>]

HandlerType ==
  [kind : {"none", "fetch", "save", "delete"},
   step : {"none", "sent", "list", "read"},
   id : Modules \cup {NoModule}, read : Lists]

TypeOK ==
  /\ stored \in Lists /\ IsInjective(stored)
  /\ fresh \subseteq Modules /\ fresh \cap ToSet(stored) = {}
  /\ modules \in Lists /\ loadingModules \in BOOLEAN
  /\ {selectedModule, saved, nodesOf} \subseteq Modules \cup {NoModule}
  /\ form \in [open : BOOLEAN, id : Modules \cup {NoModule}]
  /\ isSaving \in BOOLEAN
  /\ handler \in [Slots -> HandlerType]

Closed == [open |-> FALSE, id |-> NoModule]
Fetching == [Idle EXCEPT !.kind = "fetch", !.step = "list"]

Fetch(h) ==
  /\ \E s \in Slots :
       /\ handler[s] = Idle
       /\ handler' = [handler EXCEPT ![s] = h]

\* The application starts with what the storage has, and fetches the list.
Start ==
  /\ modules' = <<>> /\ selectedModule' = saved /\ loadingModules' = TRUE
  /\ form' = Closed /\ isSaving' = FALSE /\ nodesOf' = NoModule
  /\ \E s \in Slots :
       handler' = [t \in Slots |-> IF t = s THEN Fetching ELSE Idle]

Init ==
  /\ stored \in UNION {[1..n -> Modules] : n \in 0..2}
  /\ IsInjective(stored)
  /\ fresh = Modules \ ToSet(stored)
  /\ saved \in Modules \cup {NoModule} /\ saved \notin fresh
  /\ modules = <<>> /\ selectedModule = saved /\ loadingModules = TRUE
  /\ form = Closed /\ isSaving = FALSE /\ nodesOf = NoModule
  /\ \E s \in Slots :
       handler = [t \in Slots |-> IF t = s THEN Fetching ELSE Idle]

-----------------------------------------------------------------------------
(* The context. *)

PickModule(m) ==
  /\ ~loadingModules /\ m \in ToSet(modules)
  /\ selectedModule' = m /\ saved' = m
  /\ UNCHANGED <<service, modules, loadingModules, page, handler>>

\* Mutant: every list selects its newest module.
Newest(m, list) == IF list = <<>> THEN NoModule ELSE Head(list)

\* The choice stays if the list still has it, or is the newest module.
Kept(m, list) ==
  IF m \in ToSet(list) THEN m
  ELSE IF list = <<>> THEN NoModule ELSE Head(list)

\* A save closes the form that is open by now.
End(s) ==
  /\ loadingModules' = FALSE
  /\ IF handler[s].kind = "save"
       THEN form' = Closed /\ isSaving' = FALSE
       ELSE UNCHANGED <<form, isSaving>>
  /\ handler' = [handler EXCEPT ![s] = Idle]
  /\ UNCHANGED nodesOf

ListModules(s) ==
  /\ handler[s].step = "list"
  /\ handler' = [handler EXCEPT ![s].step = "read", ![s].read = stored]
  /\ UNCHANGED <<service, context, page>>

ListArrives(s) ==
  /\ handler[s].step = "read"
  /\ modules' = handler[s].read
  /\ selectedModule' = Kept(selectedModule, handler[s].read)
  /\ saved' = Kept(selectedModule, handler[s].read)
  /\ End(s)
  /\ UNCHANGED service

\* No module is chosen then, but the storage still has the choice.
ListFails(s) ==
  /\ handler[s].step \in {"list", "read"}
  /\ modules' = <<>> /\ selectedModule' = NoModule
  /\ End(s)
  /\ UNCHANGED <<service, saved>>

-----------------------------------------------------------------------------
(* The page of modules. *)

OpenForm(id) ==
  /\ nodesOf = NoModule /\ ~form.open
  /\ id \in ToSet(modules) \cup {NoModule}
  /\ form' = [open |-> TRUE, id |-> id]
  /\ UNCHANGED <<service, context, isSaving, nodesOf, handler>>

\* Also while a save is under way.
CloseForm ==
  /\ nodesOf = NoModule /\ form.open
  /\ form' = [form EXCEPT !.open = FALSE]
  /\ UNCHANGED <<service, context, isSaving, nodesOf, handler>>

HandleSave ==
  /\ nodesOf = NoModule /\ form.open /\ ~isSaving
  /\ isSaving' = TRUE
  /\ Fetch([Idle EXCEPT !.kind = "save", !.step = "sent", !.id = form.id])
  /\ UNCHANGED <<service, context, form, nodesOf>>

HandleDelete(m) ==
  /\ nodesOf = NoModule /\ ~form.open /\ m \in ToSet(modules)
  /\ Fetch([Idle EXCEPT !.kind = "delete", !.step = "sent", !.id = m])
  /\ UNCHANGED <<service, context, page>>

OpenNodes(m) ==
  /\ nodesOf = NoModule /\ ~form.open /\ m \in ToSet(modules)
  /\ nodesOf' = m
  /\ UNCHANGED <<service, context, form, isSaving, handler>>

BackFromNodes ==
  /\ nodesOf # NoModule
  /\ nodesOf' = NoModule
  /\ loadingModules' = TRUE
  /\ Fetch(Fetching)
  /\ UNCHANGED <<service, modules, selectedModule, saved, form, isSaving>>

-----------------------------------------------------------------------------
(* The Module Service. *)

CreateModule(m) ==
  /\ m \in fresh
  /\ fresh' = fresh \ {m} /\ stored' = <<m>> \o stored

DeleteModule(m) ==
  /\ \E i \in DOMAIN stored : stored[i] = m /\ stored' = RemoveAt(stored, i)
  /\ UNCHANGED fresh

\* What a change of a module's name or settings is, the choice cannot tell.
Served(h) ==
  \/ h.kind = "save" /\ h.id = NoModule /\ \E m \in Modules : CreateModule(m)
  \/ h.kind = "save" /\ h.id \in ToSet(stored) /\ UNCHANGED service
  \/ h.kind = "delete" /\ DeleteModule(h.id)

CommandOk(s) ==
  /\ handler[s].step = "sent" /\ Served(handler[s])
  /\ loadingModules' = TRUE
  /\ handler' = [handler EXCEPT ![s].step = "list", ![s].id = NoModule]
  /\ UNCHANGED <<modules, selectedModule, saved, page>>

\* Refused, or the answer is lost.
CommandFails(s) ==
  /\ handler[s].step = "sent"
  /\ Served(handler[s]) \/ UNCHANGED service
  /\ isSaving' = (isSaving /\ handler[s].kind # "save")
  /\ handler' = [handler EXCEPT ![s] = Idle]
  /\ UNCHANGED <<context, form, nodesOf>>

OtherOperator ==
  /\ \E m \in Modules : CreateModule(m) \/ DeleteModule(m)
  /\ UNCHANGED <<context, page, handler>>

\* The browser loads the page again.
Reload == Start /\ UNCHANGED <<service, saved>>

Next ==
  \/ \E m \in Modules :
       PickModule(m) \/ HandleDelete(m) \/ OpenNodes(m)
  \/ \E id \in Modules \cup {NoModule} : OpenForm(id)
  \/ CloseForm \/ HandleSave \/ BackFromNodes \/ OtherOperator \/ Reload
  \/ \E s \in Slots :
       \/ ListModules(s) \/ ListArrives(s) \/ ListFails(s)
       \/ CommandOk(s) \/ CommandFails(s)

Spec == Init /\ [][Next]_scopeVars

-----------------------------------------------------------------------------
(* Properties. *)

\* The choice changes only when the operator picks another module, when a
\* fetch fails, or when the list that arrives lacks it; a reload of the page
\* brings the same choice back (ModuleContext.jsx, "Keep the current
\* selection if it still exists").
ChoiceStays ==
  (selectedModule # NoModule /\ selectedModule' # selectedModule) =>
    \/ \E m \in Modules : PickModule(m)
    \/ \E s \in Slots :
         \/ ListFails(s)
         \/ ListArrives(s) /\ selectedModule \notin ToSet(handler[s].read)

\* What makes it true: the storage has the choice.
ChoiceIsSaved == selectedModule \in {NoModule, saved}
ScopeInv == TypeOK /\ ChoiceIsSaved
=============================================================================
