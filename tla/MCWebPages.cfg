SPECIFICATION PagesSpec
CONSTANTS
  m1 = m1
  m2 = m2
  a = a
  b = b
  New = New
  None = None
  Nodes = {a, b}
  Outputs = {}
  NoNode = None
  Chains = {c1, c2}
  Modules = {m1, m2}
  NoModule = None
  ModuleOf <- MCModuleOf
  MaxRequests = 2
  Schedules = {1, 2}
  Plans <- MCPlans
  DayLength = 3
  Days = 2
  MaxClock = 12
  Upcoming = 2
  MaxAlerts = 2
  AlertRows = 1
  ThresholdIds = {"t", "u"}
  MaxPageLoads = 2
  AnalysedOf <- MCAnalysedOf
  MaxSeriesLoads = 3
  Metrics = {"x", "y"}
  MaxTime = 3
  MaxValue = 2
  Bins = 2
  Requests = {1}
  MaxRow = 2
  MaxLogins = 2
  Galleries = {m1}
  Files = {a, b}
  GalleryOf <- MCGalleryOf
  ExportedOf <- MCExportedOf
  PreviewRows = 2
  MaxTotal = 5
  Moments = {1, 2}
  ExportedNodes = {a}
  Readings = {1, 2}
  MaxRecords = 4
  Keys = {a, b}
  MaxRows = 2
  MaxIds = 2
  Users = {a}
  Roles = {b}
  Here = m1
  PairedNodes = {a}
SYMMETRY Places
CHECK_DEADLOCK FALSE
INVARIANTS
  TypesOK
  ForeignPanelExplained
  ForeignNodeExplained
  AcknowledgedIsShown
  OnlyLateSeriesAreWrong
  
  EditedRowIsOpened
  
  TableIsTheRecords
  
  NodesStayListed
PROPERTIES
  ForecastIsTheNextChange
  EditsAreKept
  TagsAreTheNodes
  
  
  SaveDeletesTheRemoved
  
  ChoiceStays
