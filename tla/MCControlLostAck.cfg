SPECIFICATION Spec
CONSTANTS
  Commands <- MCCommands
  Targets <- MCTargets
  Outputs <- MCTargets
  Pwm <- MCTargets
  Target <- MCTarget
  Value <- MCValue
  MaxCopies = 1
INVARIANTS
  TimeoutMeansNoConfirm
