SPECIFICATION Spec
CONSTANTS
  Nodes = {a, b}
  Outputs = {o}
  NoNode = NoNode
  Chains = {c1, c2}
CHECK_DEADLOCK FALSE
PROPERTIES
  StopDarkens
