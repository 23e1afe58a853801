SPECIFICATION Spec
CONSTANTS
  Schedules <- MCSchedules
  Nodes <- MCNodes
  Params <- MCParams
  OneShots <- MCOneShots
  Edits <- MCEdits
  Edit <- MCEdit
  Notifiers <- MCNotifiers
  MaxRunners = 2
  MaxCrashes = 1
  DbErrors = TRUE
INVARIANTS
  TypeOK
  OneLiveRunner
