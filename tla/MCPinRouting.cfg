SPECIFICATION Spec
CONSTANTS
  PortIds = {0, 1}
  ExtiLines = {4, 5}
INVARIANTS ConnectionsExplained
PROPERTIES LatchSpec
