--------------------------- MODULE ThresholdsPanel ---------------------------
(* The thresholds of the dashboard: their list, the form that creates or   *)
(* edits one, and the saves and removals that end with a load.             *)
CONSTANTS Thresholds, New, NoForm   \* a form edits a threshold or a new one

FormAssumption == New # NoForm /\ {New, NoForm} \cap Thresholds = {}

VARIABLES
  stored,     \* what the Alert service has
  rows,       \* what the list shows
  mounting,   \* the first load: what it read, as long as it is under way
  form,
  busy,       \* the handler under way
  target,     \* what it saves or removes
  own         \* history: the open form is the one being saved

panelVars == <<stored, rows, mounting, form, busy, target, own>>
Forms == Thresholds \cup {New, NoForm}

TypeOK ==
  /\ stored \subseteq Thresholds /\ rows \subseteq Thresholds
  /\ mounting \in [going : BOOLEAN, read : SUBSET Thresholds]
  /\ form \in Forms /\ target \in Forms /\ own \in BOOLEAN
  /\ busy \in {"no", "save", "remove", "load"}

Init ==
  /\ \E t \in Thresholds : stored = {t}
  /\ rows = {} /\ mounting = [going |-> TRUE, read |-> stored]
  /\ form = NoForm /\ busy = "no" /\ target = NoForm /\ own = FALSE

-----------------------------------------------------------------------------
\* The first load may end at any time, with what it read.
MountLoaded ==
  /\ mounting.going
  /\ rows' \in {mounting.read, {}}
  /\ mounting' = [mounting EXCEPT !.going = FALSE]
  /\ UNCHANGED <<stored, form, busy, target, own>>

Open(f) == form' = f /\ own' = FALSE

\* The button for a new one is there whatever is going on.
OpenCreate ==
  /\ Open(New)
  /\ UNCHANGED <<stored, rows, mounting, busy, target>>

\* Mutant: the edit button is there during a save.
OpenEditAnytime(t) ==
  /\ t \in rows
  /\ Open(t)
  /\ UNCHANGED <<stored, rows, mounting, busy, target>>

OpenEdit(t) ==
  /\ t \in rows /\ busy = "no"
  /\ Open(t)
  /\ UNCHANGED <<stored, rows, mounting, busy, target>>

CloseForm ==
  /\ form # NoForm
  /\ Open(NoForm)
  /\ UNCHANGED <<stored, rows, mounting, busy, target>>

Submit ==
  /\ form # NoForm /\ busy = "no"
  /\ busy' = "save" /\ target' = form /\ own' = TRUE
  /\ UNCHANGED <<stored, rows, mounting, form>>

Remove(t) ==
  /\ t \in rows /\ busy = "no"
  /\ busy' = "remove" /\ target' = t
  /\ UNCHANGED <<stored, rows, mounting, form, own>>

\* The saved form is closed, or the one that is open by now.
SaveOk ==
  /\ busy = "save"
  /\ \/ target = New /\ \E t \in Thresholds \ stored : stored' = stored \cup {t}
     \/ target \in stored /\ stored' = stored
  /\ Open(NoForm)
  /\ busy' = "load"
  /\ UNCHANGED <<rows, mounting, target>>

RemoveOk ==
  /\ busy = "remove"
  /\ stored' = stored \ {target}
  /\ busy' = "load"
  /\ UNCHANGED <<rows, mounting, form, target, own>>

Refused ==
  /\ busy \in {"save", "remove"}
  /\ busy' = "no" /\ own' = FALSE
  /\ UNCHANGED <<stored, rows, mounting, form, target>>

Reloaded ==
  /\ busy = "load"
  /\ rows' \in {stored, {}}
  /\ busy' = "no"
  /\ UNCHANGED <<stored, mounting, form, target, own>>

\* Another operator.
OtherRemoves(t) ==
  /\ t \in stored
  /\ stored' = stored \ {t}
  /\ UNCHANGED <<rows, mounting, form, busy, target, own>>

-----------------------------------------------------------------------------
Next ==
  \/ MountLoaded \/ OpenCreate \/ CloseForm \/ Submit
  \/ SaveOk \/ RemoveOk \/ Refused \/ Reloaded
  \/ \E t \in Thresholds : OpenEdit(t) \/ Remove(t) \/ OtherRemoves(t)

Spec == Init /\ [][Next]_panelVars

\* The edit of an existing threshold is never thrown away by a save of
\* something else; the draft of a new one may be (Alerts.jsx, submit).
EditNotDiscarded ==
  (SaveOk /\ form \in Thresholds) => own

\* What makes it inductive: during a save, an open form of a threshold is the
\* one being saved.
OneForm == (busy = "save" /\ form \in Thresholds) => own
PanelInv == TypeOK /\ OneForm
=============================================================================
