SPECIFICATION Spec
CONSTANTS
  Commands <- MCCommands
  Targets <- MCTargets
  Outputs <- MCTargets
  Pwm <- MCPwm
  Target <- MCTarget
  Value <- MCValue
  MaxCopies = 1
INVARIANTS
  TypeOK
  ConfirmationIsEvidence
  AuditIsTruthful
PROPERTIES
  SettledIsFinal
  ImplementsLifecycle
