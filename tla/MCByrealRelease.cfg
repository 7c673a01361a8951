CONSTANTS
  Targets = {t1}
  MaxNfts = 2
  None = None
  Cap = 0
  MaxTries = 2
  MaxFaults = 2
  MaxCrashes = 1
  MaxUserOps = 1
  MaxEvents = 3
  MaxQueue = 1
SPECIFICATION Spec
PROPERTY ClosedTargetIsReleased
CHECK_DEADLOCK FALSE
