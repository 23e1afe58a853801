------------------------------- MODULE WebPages -------------------------------
(* The pages of the dashboard and of a node's own portal.  A behaviour is  *)
(* that of one page, which is chosen first: the pages share no state, and  *)
(* a step of one tells nothing of another.  The control page has its own   *)
(* variables, the others keep their state in s1, s2, ..., in the order in  *)
(* which their modules declare it, and what a page does not use is empty.  *)
EXTENDS ControlPanel, Sequences, FiniteSets

CONSTANTS
  Modules, NoModule,
  New, None,                    \* something not stored yet; nothing
  ModuleOf, MaxRequests,        \* monitor page
  Schedules, Plans, DayLength, Days, MaxClock, Upcoming,   \* its timeline
  MaxAlerts, AlertRows,         \* alert history
  ThresholdIds,                 \* threshold form
  MaxPageLoads,                 \* bound: loads of a page in flight
  AnalysedOf, MaxSeriesLoads,   \* analytics page
  Metrics, MaxTime, MaxValue, Bins,                        \* its charts
  Requests, MaxRow, MaxLogins,  \* portal of a node
  Galleries, Files, GalleryOf,  \* gallery
  ExportedOf, PreviewRows, MaxTotal,                       \* export page
  Moments, ExportedNodes, Readings, MaxRecords,            \* its table
  Keys, MaxRows, MaxIds,        \* mappings of a node
  Users, Roles,                 \* accounts
  Here, PairedNodes             \* pairing

VARIABLES
  view,                  \* the page on show
  analysed, tagsOf,       \* two variables of the analytics page
  s1, s2, s3, s4, s5, s6, s7, s8,
  s9, s10, s11, s12, s13, s14, s15

shared == <<s1, s2, s3, s4, s5, s6, s7, s8, s9, s10, s11, s12, s13, s14, s15>>
analytics == <<analysed, tagsOf>>
pagesVars == <<view, panelVars, analytics, shared>>

-----------------------------------------------------------------------------
Monitor == INSTANCE MonitorPage WITH
  module <- s1, lists <- s2, listOf <- s3, driven <- s4, modeOf <- s5,
  tilesOf <- s6, asks <- s7, acts <- s8, overlap <- s9, moved <- s10

Timeline == INSTANCE UpcomingStates WITH
  Slots <- Schedules, MaxTime <- MaxClock, Limit <- Upcoming, plan <- s1,
  enabled <- s2, now <- s3, last <- s4

Alerts == INSTANCE AlertsHistory WITH
  Limit <- AlertRows, Loads <- Chains, raised <- s1, active <- s2,
  onlyActive <- s3, offset <- s4, rows <- s5, total <- s6, load <- s7,
  acks <- s8, mine <- s9, raced <- s10

Thresholds == INSTANCE ThresholdsPanel WITH
  Thresholds <- ThresholdIds, NoForm <- None, stored <- s1, rows <- s2,
  mounting <- s3, form <- s4, busy <- s5, target <- s6, own <- s7

Webhook == INSTANCE WebhookPage WITH
  MaxLoads <- MaxPageLoads, tab <- s1, pending <- s2, loading <- s3,
  saving <- s4, testing <- s5, shown <- s6, excused <- s7

Analytics == INSTANCE AnalyticsPage WITH
  ModuleOf <- AnalysedOf, MaxLoads <- MaxSeriesLoads, module <- s1,
  listLoads <- s2, nodes <- s3, nodeId <- analysed, tagLoads <- s4,
  tagsOf <- tagsOf, series <- s5, seriesLoads <- s6, loading <- s7,
  late <- s8

Charts == INSTANCE ChartData WITH
  series <- s1, booleanSet <- s2

Portal == INSTANCE NodePortal WITH
  Slots <- Requests, NotSent <- None, token <- s1,
  field <- s2, dirty <- s3, list <- s4, rows <- s5, editing <- s6,
  overlay <- s7, net <- s8, devToken <- s9, ram <- s10, flash <- s11,
  up <- s12, typed <- s13, opened <- s14, moved <- s15

Live == INSTANCE LiveView WITH
  Loads <- Chains, card <- s1, loading <- s2, form <- s3, deleting <- s4,
  busy <- s5, loads <- s6, command <- s7, save <- s8, stream <- s9,
  unsure <- s10

Pictures == INSTANCE Gallery WITH
  NoGallery <- None, NoFile <- None, Loads <- Chains,
  gallery <- s1, items <- s2, loading <- s3, selectMode <- s4,
  selected <- s5, preview <- s6, deleting <- s7, bulk <- s8, bulkOf <- s9,
  loads <- s10, files <- s11, ticked <- s12, late <- s13

Export == INSTANCE ExportPage WITH
  AllNodes <- None, NodesOf <- ExportedOf, Limit <- PreviewRows,
  MaxLoads <- MaxPageLoads, module <- s1, listed <- s2, tab <- s3,
  node <- s4, offset <- s5, total <- s6, flight <- s7, loading <- s8

Table == INSTANCE ExportTable WITH
  Times <- Moments, Nodes <- ExportedNodes, Values <- Readings,
  Blank <- None, records <- s1

TagTable == INSTANCE TagEditor WITH
  stored <- s1, nextId <- s2,
  tags <- s3, mount <- s4, save <- s5, sent <- s6, detecting <- s7,
  owed <- s8, late <- s9

Actuators == INSTANCE ActuatorEditor WITH
  NoKey <- None, stored <- s1, rows <- s2, handler <- s3,
  detection <- s4, deleted <- s5

Accounts == INSTANCE UserManagement WITH
  Slots <- Chains, NoUser <- None,
  NewUser <- New, account <- s1, users <- s2, editing <- s3,
  showAddForm <- s4, busyId <- s5, loading <- s6, handler <- s7, may <- s8

Scope == INSTANCE ModuleScope WITH
  Slots <- Chains, stored <- s1,
  fresh <- s2, modules <- s3, selectedModule <- s4, loadingModules <- s5,
  saved <- s6, form <- s7, isSaving <- s8, nodesOf <- s9, handler <- s10

Pairing == INSTANCE NodePairing WITH
  Nodes <- PairedNodes, Slots <- Chains, known <- s1, moduleOf <- s2,
  alive <- s3, deleting <- s4, orphans <- s5, paired <- s6,
  discovered <- s7, isLoading <- s8, busyId <- s9, handler <- s10

ASSUME PagesAssumption ==
  /\ Monitor!MonitorAssumption /\ Timeline!ClockAssumption
  /\ Alerts!HistoryAssumption /\ Thresholds!FormAssumption
  /\ Webhook!WebhookAssumption /\ Analytics!AnalyticsAssumption
  /\ Charts!ChartAssumption /\ Portal!PortalAssumption
  /\ Pictures!GalleryAssumption /\ Export!ExportAssumption
  /\ Table!TableAssumption /\ TagTable!EditorAssumption
  /\ Actuators!KeyAssumption /\ Accounts!UsersAssumption
  /\ Scope!ScopeAssumption /\ Pairing!PairingAssumption

-----------------------------------------------------------------------------
\* The variables after the n-th one are empty.
Empty(n) ==
  /\ (n < 1 => s1 = 0) /\ (n < 2 => s2 = 0) /\ (n < 3 => s3 = 0)
  /\ (n < 4 => s4 = 0) /\ (n < 5 => s5 = 0) /\ (n < 6 => s6 = 0)
  /\ (n < 7 => s7 = 0) /\ (n < 8 => s8 = 0) /\ (n < 9 => s9 = 0)
  /\ (n < 10 => s10 = 0) /\ (n < 11 => s11 = 0) /\ (n < 12 => s12 = 0)
  /\ (n < 13 => s13 = 0) /\ (n < 14 => s14 = 0) /\ (n < 15 => s15 = 0)

NoAnalytics == analysed = NoNode /\ tagsOf = NoNode

PagesInit ==
  /\ Init
  /\ \/ view = "control" /\ NoAnalytics /\ Empty(0)
     \/ view = "monitor" /\ Monitor!Init /\ NoAnalytics /\ Empty(10)
     \/ view = "timeline" /\ Timeline!Init /\ NoAnalytics /\ Empty(4)
     \/ view = "alerts" /\ Alerts!Init /\ NoAnalytics /\ Empty(10)
     \/ view = "thresholds" /\ Thresholds!Init /\ NoAnalytics /\ Empty(7)
     \/ view = "webhook" /\ Webhook!Init /\ NoAnalytics /\ Empty(7)
     \/ view = "analytics" /\ Analytics!Init /\ Empty(8)
     \/ view = "charts" /\ Charts!Init /\ NoAnalytics /\ Empty(2)
     \/ view = "portal" /\ Portal!Init /\ NoAnalytics
     \/ view = "live" /\ Live!Init /\ NoAnalytics /\ Empty(10)
     \/ view = "gallery" /\ Pictures!Init /\ NoAnalytics /\ Empty(13)
     \/ view = "export" /\ Export!Init /\ NoAnalytics /\ Empty(8)
     \/ view = "table" /\ Table!Init /\ NoAnalytics /\ Empty(1)
     \/ view = "tags" /\ TagTable!Init /\ NoAnalytics /\ Empty(9)
     \/ view = "actuators" /\ Actuators!Init /\ NoAnalytics /\ Empty(5)
     \/ view = "users" /\ Accounts!Init /\ NoAnalytics /\ Empty(8)
     \/ view = "modules" /\ Scope!Init /\ NoAnalytics /\ Empty(10)
     \/ view = "pairing" /\ Pairing!Init /\ NoAnalytics /\ Empty(10)

\* A step of the page on show.
Step ==
  \/ view = "control" /\ Next /\ UNCHANGED <<analytics, shared>>
  \/ /\ view = "monitor" /\ Monitor!Next
     /\ UNCHANGED <<panelVars, analytics, s11, s12, s13, s14, s15>>
  \/ /\ view = "timeline" /\ Timeline!Next
     /\ UNCHANGED <<panelVars, analytics, s5, s6, s7, s8, s9, s10, s11, s12,
                    s13, s14, s15>>
  \/ /\ view = "alerts" /\ Alerts!Next
     /\ UNCHANGED <<panelVars, analytics, s11, s12, s13, s14, s15>>
  \/ /\ view = "thresholds" /\ Thresholds!Next
     /\ UNCHANGED <<panelVars, analytics, s8, s9, s10, s11, s12, s13, s14,
                    s15>>
  \/ /\ view = "webhook" /\ Webhook!Next
     /\ UNCHANGED <<panelVars, analytics, s8, s9, s10, s11, s12, s13, s14,
                    s15>>
  \/ /\ view = "analytics" /\ Analytics!Next
     /\ UNCHANGED <<panelVars, s9, s10, s11, s12, s13, s14, s15>>
  \/ /\ view = "charts" /\ Charts!Next
     /\ UNCHANGED <<panelVars, analytics, s3, s4, s5, s6, s7, s8, s9, s10,
                    s11, s12, s13, s14, s15>>
  \/ view = "portal" /\ Portal!Next /\ UNCHANGED <<panelVars, analytics>>
  \/ /\ view = "live" /\ Live!Next
     /\ UNCHANGED <<panelVars, analytics, s11, s12, s13, s14, s15>>
  \/ /\ view = "gallery" /\ Pictures!Next
     /\ UNCHANGED <<panelVars, analytics, s14, s15>>
  \/ /\ view = "export" /\ Export!Next
     /\ UNCHANGED <<panelVars, analytics, s9, s10, s11, s12, s13, s14, s15>>
  \/ /\ view = "table" /\ Table!Next
     /\ UNCHANGED <<panelVars, analytics, s2, s3, s4, s5, s6, s7, s8, s9,
                    s10, s11, s12, s13, s14, s15>>
  \/ /\ view = "tags" /\ TagTable!Next
     /\ UNCHANGED <<panelVars, analytics, s10, s11, s12, s13, s14, s15>>
  \/ /\ view = "actuators" /\ Actuators!Next
     /\ UNCHANGED <<panelVars, analytics, s6, s7, s8, s9, s10, s11, s12, s13,
                    s14, s15>>
  \/ /\ view = "users" /\ Accounts!Next
     /\ UNCHANGED <<panelVars, analytics, s9, s10, s11, s12, s13, s14, s15>>
  \/ /\ view = "modules" /\ Scope!Next
     /\ UNCHANGED <<panelVars, analytics, s11, s12, s13, s14, s15>>
  \/ /\ view = "pairing" /\ Pairing!Next
     /\ UNCHANGED <<panelVars, analytics, s11, s12, s13, s14, s15>>

PagesNext == Step /\ view' = view

PagesSpec == PagesInit /\ [][PagesNext]_pagesVars

-----------------------------------------------------------------------------
(* Properties; what each of them says is written where it is defined. *)

\* The pages.
Views == {"control", "monitor", "timeline", "alerts", "thresholds",
          "webhook", "analytics", "charts", "portal", "live", "gallery",
          "export", "table", "tags", "actuators", "users", "modules",
          "pairing"}

\* The state of every page has its type.
TypesOK ==
  /\ view \in Views
  /\ view = "control" => TypeOK
  /\ view = "monitor" => Monitor!TypeOK
  /\ view = "timeline" => Timeline!TypeOK
  /\ view = "alerts" => Alerts!TypeOK
  /\ view = "thresholds" => Thresholds!TypeOK
  /\ view = "webhook" => Webhook!TypeOK
  /\ view = "analytics" => Analytics!TypeOK
  /\ view = "charts" => Charts!TypeOK
  /\ view = "portal" => Portal!TypeOK
  /\ view = "live" => Live!TypeOK
  /\ view = "gallery" => Pictures!TypeOK
  /\ view = "export" => Export!TypeOK
  /\ view = "table" => Table!TypeOK
  /\ view = "tags" => TagTable!TypeOK
  /\ view = "actuators" => Actuators!TypeOK
  /\ view = "users" => Accounts!TypeOK
  /\ view = "modules" => Scope!TypeOK
  /\ view = "pairing" => Pairing!TypeOK

\* What the monitor page shows of a node, and which node its buttons drive,
\* is right or a late answer explains it (MonitorPage).
ForeignNodeExplained ==
  view = "monitor" =>
    Monitor!ForeignModeExplained /\ Monitor!ForeignNodeExplained

\* The timeline shows the next change of the engine (UpcomingStates).
ForecastIsTheNextChange ==
  [][view = "timeline" => Timeline!ForecastIsTheNextChange]_pagesVars

\* An acknowledged alert is not offered again (AlertsHistory).
AcknowledgedIsShown == view = "alerts" => Alerts!AcknowledgedIsShown

\* No answer throws away what the user types into a form, and no form is
\* saved over settings that it never had (ThresholdsPanel, WebhookPage,
\* NodePortal).
EditsAreKept ==
  [][/\ view = "thresholds" => Thresholds!EditNotDiscarded
     /\ view = "webhook" => Webhook!SettingsKept
     /\ view = "portal" => Portal!PasswordKept]_pagesVars

\* The analytics page implements LatestLoad with its tags (AnalyticsPage).
TagsAreTheNodes == Analytics!TagsAreTheNodes

\* Series of another node are late ones (AnalyticsPage).
OnlyLateSeriesAreWrong ==
  view = "analytics" => Analytics!OnlyLateSeriesAreWrong

\* Lines, states and bars are the series (ChartData).
ChartsShowTheSeries ==
  view = "charts" => Charts!LinesAreTheSeries /\ Charts!BarsCountTheSeries

\* The portal's editor has the row that was opened (NodePortal).
EditedRowIsOpened == view = "portal" => Portal!EditedRowIsOpened

\* A card tells the truth about its stream (LiveView).
CardIsTrue == view = "live" => Live!CardIsTrue

\* A bulk deletion takes ticked files of one gallery (Gallery).
BulkTakesTheTicked ==
  [][view = "gallery" => Pictures!BulkTakesTheTicked]_pagesVars

\* The pages of the export's preview leave nothing out (ExportPage).
NextReachesTheEnd ==
  [][view = "export" => Export!NextReachesTheEnd]_pagesVars

\* The exported table has every record (ExportTable).
TableIsTheRecords == view = "table" => Table!TableIsTheRecords

\* A save of the telemetry mapping deletes what was removed (TagEditor).
SaveDeletesTheRemoved ==
  [][view = "tags" => TagTable!SaveDeletesTheRemoved]_pagesVars

\* A deleted actuator mapping stays deleted (ActuatorEditor).
DeletedStaysDeleted == view = "actuators" => Actuators!DeletedStaysDeleted

\* A command leaves the rest of an account alone (UserManagement).
SaveKeepsTheRest ==
  [][view = "users" => Accounts!SaveKeepsTheRest]_pagesVars

\* The chosen module stays chosen (ModuleScope).
ChoiceStays == [][view = "modules" => Scope!ChoiceStays]_pagesVars

\* No node disappears from all lists (NodePairing).
NodesStayListed == view = "pairing" => Pairing!NodesStayListed
=============================================================================
