SPECIFICATION Spec
CONSTANTS
  MaxResets = 1
INVARIANTS HandlerFindsPending OneTogglePerLatch
PROPERTIES PressServed KeepsToggling
