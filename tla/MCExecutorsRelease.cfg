CONSTANTS
  Targets = {t1}
  MaxNfts = 3
  MaxLiq = 3
  None = None
  MaxQueue = 1
  Scenarios <- ReleaseScenarios
SPECIFICATION Spec
CHECK_DEADLOCK FALSE
PROPERTIES ClosedTargetIsReleased EmptiedTargetIsFollowed NoDeadEntryStays
