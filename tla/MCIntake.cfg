SPECIFICATION Spec
CONSTANTS
  None = None
  Scenarios <- AllScenarios
  MaxRetries = 2
  DedupSize = 2
  LossStreakLimit = 2
INVARIANTS
  ListensOnlyToTargets
  TakenOnce
  ReferersMatchMapping
  PauseIsConfirmed
  CoolsAfterLosses
  DecisionIsCurrent
PROPERTIES
  MonitorRecovers
  CloseIsFollowed
CHECK_DEADLOCK FALSE
