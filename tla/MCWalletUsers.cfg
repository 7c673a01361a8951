SPECIFICATION Spec
CONSTANTS
  None = None
  Scenarios <- AllScenarios
INVARIANTS
  FundsSuffice
  NeverOverbuys
  FailedOpenIsUndone
  OneSuccessADay
  SchedulerStaysArmed
PROPERTIES
  PendingConverges
CHECK_DEADLOCK FALSE
