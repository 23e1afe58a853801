---------------------------- MODULE WebhookPage ----------------------------
(* The webhook page of the dashboard: a tab with the settings, which are   *)
(* loaded on every visit and saved as a whole, a tab with the delivery     *)
(* logs and one that sends a test.  The tabs share one loading flag.       *)
EXTENDS Naturals

CONSTANT MaxLoads   \* bound: loads of one kind in flight

WebhookAssumption == MaxLoads \in Nat \ {0}

VARIABLES
  tab,
  pending,                  \* settings and log loads in flight
  loading, saving, testing,
  shown,                    \* settings: loaded ever, typed into since
  excused                   \* history, see the properties

webhookVars == <<tab, pending, loading, saving, testing, shown, excused>>

Kinds == {"settings", "logs"}
Tabs == Kinds \cup {"test"}
Busy == \E k \in Kinds : pending[k] > 0

TypeOK ==
  /\ tab \in Tabs
  /\ pending \in [Kinds -> 0..MaxLoads]
  /\ {loading, saving, testing, excused} \subseteq BOOLEAN
  /\ shown \in [loaded : BOOLEAN, typed : BOOLEAN]

Init ==
  /\ tab = "settings"
  /\ pending = [k \in Kinds |-> IF k = "settings" THEN 1 ELSE 0]
  /\ loading = TRUE /\ saving = FALSE /\ testing = FALSE
  /\ shown = [loaded |-> FALSE, typed |-> FALSE]
  /\ excused = FALSE

-----------------------------------------------------------------------------
StartLoad(k) ==
  /\ pending[k] < MaxLoads
  /\ pending' = [pending EXCEPT ![k] = @ + 1]
  /\ loading' = TRUE

\* A visit to the settings loads them over what was typed before.
OpenTab(t) ==
  /\ t # tab
  /\ tab' = t
  /\ IF t \in Kinds THEN StartLoad(t) ELSE UNCHANGED <<pending, loading>>
  /\ shown' = (IF t = "settings" THEN [shown EXCEPT !.typed = FALSE] ELSE shown)
  /\ excused' = (IF t \in Kinds THEN Busy ELSE excused)
  /\ UNCHANGED <<saving, testing>>

\* A filter, a page size or another page of the logs.
QueryLogs ==
  /\ tab = "logs"
  /\ StartLoad("logs")
  /\ excused' = Busy
  /\ UNCHANGED <<tab, saving, testing, shown>>

\* The end of a load clears the flag for all of them.
EndLoad(k) ==
  /\ pending[k] > 0
  /\ pending' = [pending EXCEPT ![k] = @ - 1]
  /\ loading' = FALSE

SettingsArrive ==
  /\ EndLoad("settings")
  /\ shown' = [loaded |-> TRUE, typed |-> FALSE]
  /\ UNCHANGED <<tab, saving, testing, excused>>

\* An error, or no answer within five seconds.
SettingsFail ==
  /\ EndLoad("settings")
  /\ excused' = TRUE
  /\ UNCHANGED <<tab, saving, testing, shown>>

LogsEnd ==
  /\ EndLoad("logs")
  /\ UNCHANGED <<tab, saving, testing, shown, excused>>

-----------------------------------------------------------------------------
\* The fields are there unless something is loading.
Type ==
  /\ tab = "settings" /\ ~loading
  /\ shown' = [shown EXCEPT !.typed = TRUE]
  /\ UNCHANGED <<tab, pending, loading, saving, testing, excused>>

\* All three channels are sent as they are on the page.
PressSave ==
  /\ tab = "settings" /\ ~loading /\ ~saving
  /\ saving' = TRUE
  /\ UNCHANGED <<tab, pending, loading, testing, shown, excused>>

SaveEnds ==
  /\ saving
  /\ saving' = FALSE
  /\ UNCHANGED <<tab, pending, loading, testing, shown, excused>>

PressTest ==
  /\ tab = "test" /\ ~loading /\ ~testing
  /\ testing' = TRUE
  /\ UNCHANGED <<tab, pending, loading, saving, shown, excused>>

TestEnds ==
  /\ testing
  /\ testing' = FALSE
  /\ UNCHANGED <<tab, pending, loading, saving, shown, excused>>

-----------------------------------------------------------------------------
Next ==
  \/ \E t \in Tabs : OpenTab(t)
  \/ QueryLogs \/ SettingsArrive \/ SettingsFail \/ LogsEnd
  \/ Type \/ PressSave \/ SaveEnds \/ PressTest \/ TestEnds

Spec == Init /\ [][Next]_webhookVars

\* What is saved over the settings was loaded before, and what was typed is
\* not replaced by an answer that comes late; either may happen only after a
\* failed load or when loads of the two tabs overlapped (Webhook.jsx,
\* saveSettings, loadSettings).
SettingsKept ==
  /\ PressSave => shown.loaded \/ excused
  /\ (SettingsArrive /\ shown.typed) => excused

\* What makes it inductive: without an excuse there is one load at most, the
\* flag tells of it, the settings on show were loaded or are being loaded, and
\* no load of them is under way once something is typed.
LoadsAreKnown ==
  ~excused => /\ loading <=> Busy
              /\ pending["settings"] + pending["logs"] <= 1
              /\ (tab = "settings" /\ ~shown.loaded) => pending["settings"] > 0
              /\ shown.typed => pending["settings"] = 0

WebhookInv == TypeOK /\ LoadsAreKnown
=============================================================================
