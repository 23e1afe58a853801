SPECIFICATION Spec
CONSTANTS
  Schedules <- MCSchedules
  Nodes <- MCNodes
  Params <- MCParams
  OneShots <- MCOneShots
  Edits <- AgainEdits
  Edit <- AgainEdit
  Notifiers <- MCNotifiers
  MaxRunners = 2
  MaxCrashes = 0
  DbErrors = FALSE
PROPERTY EnabledTakesEffect
