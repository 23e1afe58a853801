SPECIFICATION Spec
CONSTANTS
  Schedules <- MCSchedules
  Nodes <- MCNodes
  Params <- MCParams
  OneShots <- MCOneShots
  Edits <- LiveEdits
  Edit <- LiveEdit
  Notifiers <- MCNotifiers
  MaxRunners = 2
  MaxCrashes = 0
  DbErrors = TRUE
PROPERTIES
  DisarmedStops
  
