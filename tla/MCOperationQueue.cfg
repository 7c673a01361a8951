CONSTANTS
  Calls = {c1, c2}
  NoItem = NoItem
  MaxItems = 3
SPECIFICATION Spec
INVARIANTS
  TypeOK
  MutualExclusion
  FlagsAgree
  NoLostWakeup
PROPERTIES
  WaitsForCurrentItemOnly
  PriorityThenFifo
  EverythingRuns
  ImplementsSerialExecutor
CHECK_DEADLOCK FALSE
