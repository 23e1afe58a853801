---------------------------- MODULE AlertsHistory ----------------------------
(* The alert history of the dashboard: a filter, pages of the alerts that  *)
(* match, a refresh by button or every ten seconds, and the button that    *)
(* acknowledges an alert and loads again.  Loads may overlap; the answer   *)
(* that comes last is shown.                                               *)
(*                                                                         *)
(* The Alert service is the set of its alerts, newest first, and of those  *)
(* that are active.  A load is a read of it that is still to be handled,   *)
(* or its answer on the way back.                                          *)
EXTENDS Integers, FiniteSets

CONSTANTS
  MaxAlerts,   \* bound: alerts that are raised
  Limit,       \* rows of a page
  Loads        \* bound: loads in flight

HistoryAssumption == MaxAlerts \in Nat \ {0} /\ Limit \in Nat \ {0}

VARIABLES
  raised, active,                   \* the Alert service
  onlyActive, offset,               \* status filter, page
  rows, total,                      \* what is shown
  load, acks,                       \* in flight; a bound: one acknowledgement
  mine, raced                       \* history, see the properties

server == <<raised, active>>
query == <<onlyActive, offset>>
historyVars == <<server, query, rows, total, load, acks, mine, raced>>

Alerts == 1..MaxAlerts
Row == [id : Alerts, active : BOOLEAN]
Idle == [at |-> "idle", filter |-> FALSE, offset |-> 0, rows |-> {}, total |-> 0]
InFlight == {k \in Loads : load[k] # Idle}

Matching(filter) == {a \in 1..raised : filter => a \in active}
Newer(a, set) == Cardinality({b \in set : b > a})
Window(set, from) == {a \in set : Newer(a, set) \in from..(from + Limit - 1)}
Least(a, b) == IF a < b THEN a ELSE b
Most(a, b) == IF a < b THEN b ELSE a

LoadType ==
  [at : {"idle", "asked", "read"}, filter : BOOLEAN, offset : 0..MaxAlerts,
   rows : SUBSET Row, total : 0..MaxAlerts]
AckType == [id : Alerts, filter : BOOLEAN, offset : 0..MaxAlerts]

TypeOK ==
  /\ raised \in 0..MaxAlerts /\ active \subseteq 1..raised
  /\ onlyActive \in BOOLEAN /\ offset \in 0..MaxAlerts
  /\ rows \subseteq Row /\ total \in 0..MaxAlerts
  /\ load \in [Loads -> LoadType] /\ acks \subseteq AckType
  /\ mine \subseteq Alerts /\ raced \in BOOLEAN

\* The effect of the first render loads.
Init ==
  /\ raised = MaxAlerts - 1 /\ active = 1..raised
  /\ onlyActive = FALSE /\ offset = 0
  /\ rows = {} /\ total = 0
  /\ \E k \in Loads : load = [j \in Loads |->
       IF j = k THEN [Idle EXCEPT !.at = "asked"] ELSE Idle]
  /\ acks = {} /\ mine = {} /\ raced = FALSE

-----------------------------------------------------------------------------
Ask(filter, from) ==
  \E k \in Loads \ InFlight :
    /\ load' = [load EXCEPT ![k] =
                  [Idle EXCEPT !.at = "asked", !.filter = filter, !.offset = from]]
    /\ raced' = (InFlight # {})

\* A changed filter goes back to the first page, and the effect loads.
SetFilter ==
  /\ onlyActive' = ~onlyActive /\ offset' = 0
  /\ Ask(~onlyActive, 0)
  /\ UNCHANGED <<server, rows, total, acks, mine>>

GoTo(from) ==
  /\ offset' = from
  /\ Ask(onlyActive, from)
  /\ UNCHANGED <<server, onlyActive, rows, total, acks, mine>>

\* The last page is full, and so may repeat rows of the page before.
GoNext ==
  /\ offset + Limit < total
  /\ GoTo(Least(Most(0, total - Limit), offset + Limit))

\* Mutant: a page before the first one.
GoPrevPlain == GoTo(offset - Limit)

GoPrev == offset > 0 /\ GoTo(Most(0, offset - Limit))

\* The refresh button, which a load disables, and the timer, which none does.
Refresh ==
  /\ Ask(onlyActive, offset)
  /\ UNCHANGED <<server, query, rows, total, acks, mine>>

\* The button of an active row, which keeps its busy mark until the end.
PressAck(a) ==
  /\ [id |-> a, active |-> TRUE] \in rows
  /\ acks = {}
  /\ acks' = acks \cup {[id |-> a, filter |-> onlyActive, offset |-> offset]}
  /\ UNCHANGED <<server, query, rows, total, load, mine, raced>>

\* Mutant: an acknowledgement after which nothing is loaded.
AckOnly(ack) ==
  /\ acks' = acks \ {ack}
  /\ active' = active \ {ack.id}
  /\ mine' = mine \cup {ack.id}
  /\ UNCHANGED <<raised, query, rows, total, load, raced>>

\* The service has acknowledged it; the handler loads what was selected when
\* the button was pressed.
AckOk(ack) ==
  /\ acks' = acks \ {ack}
  /\ active' = active \ {ack.id}
  /\ mine' = mine \cup {ack.id}
  /\ Ask(ack.filter, ack.offset)
  /\ UNCHANGED <<raised, query, rows, total>>

\* An error, from the service or on the way back.
AckFails(ack) ==
  /\ acks' = acks \ {ack}
  /\ active' \in {active, active \ {ack.id}}
  /\ UNCHANGED <<raised, query, rows, total, load, mine, raced>>

-----------------------------------------------------------------------------
ServiceReads(k) ==
  /\ load[k].at = "asked"
  /\ LET all == Matching(load[k].filter)
         seen == {[id |-> a, active |-> a \in active] :
                    a \in Window(all, load[k].offset)}
     IN load' = [load EXCEPT ![k] = [Idle EXCEPT !.at = "read", !.rows = seen,
                                                 !.total = Cardinality(all)]]
  /\ UNCHANGED <<server, query, rows, total, acks, mine, raced>>

\* Whatever is selected by now, the answer is shown.
LoadArrives(k) ==
  /\ load[k].at = "read"
  /\ rows' = load[k].rows
  /\ total' = load[k].total
  /\ load' = [load EXCEPT ![k] = Idle]
  /\ UNCHANGED <<server, query, acks, mine, raced>>

LoadFails(k) ==
  /\ load[k] # Idle
  /\ rows' = {}
  /\ load' = [load EXCEPT ![k] = Idle]
  /\ UNCHANGED <<server, query, total, acks, mine, raced>>

\* A value crosses a threshold.
Raise ==
  /\ raised < MaxAlerts
  /\ raised' = raised + 1
  /\ active' = active \cup {raised + 1}
  /\ UNCHANGED <<query, rows, total, load, acks, mine, raced>>

-----------------------------------------------------------------------------
Next ==
  \/ SetFilter \/ GoNext \/ GoPrev \/ Refresh \/ Raise
  \/ \E a \in Alerts : PressAck(a)
  \/ \E ack \in acks : AckOk(ack) \/ AckFails(ack)
  \/ \E k \in Loads : ServiceReads(k) \/ LoadArrives(k) \/ LoadFails(k)

Spec == Init /\ [][Next]_historyVars

-----------------------------------------------------------------------------
(* Properties. *)

\* When nothing is in flight, no alert that was acknowledged here is offered
\* again as active, unless two loads overlapped (Alerts.jsx, handleAck).
AcknowledgedIsShown ==
  (InFlight = {} /\ acks = {} /\ ~raced) =>
    \A r \in rows : r.active => r.id \notin mine

\* What makes it inductive: only alerts that were raised are shown or on their
\* way, none that was acknowledged here is active, and while loads have not
\* overlapped there is one at most, whose rows are right.
Known(set) == \A r \in set : r.id \in 1..raised
NothingUnheard ==
  /\ mine \subseteq 1..raised /\ mine \cap active = {}
  /\ Known(rows) /\ Known(acks) /\ \A k \in Loads : Known(load[k].rows)

Right(set) == \A r \in set : r.active => r.id \notin mine
OneLoad ==
  ~raced => /\ \A j, k \in InFlight : j = k
            /\ InFlight = {} => Right(rows)
            /\ \A k \in Loads : Right(load[k].rows)

HistoryInv == TypeOK /\ NothingUnheard /\ OneLoad
=============================================================================
