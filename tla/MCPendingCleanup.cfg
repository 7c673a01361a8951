SPECIFICATION Spec
CONSTANTS
  None = None
  Scenarios <- CleanupScenarios
PROPERTIES
  CleansOnlyZeroEntries
CHECK_DEADLOCK FALSE
