CONSTANTS
  Targets = {t1}
  MaxNfts = 1
  None = None
  Cap = 0
  MaxTries = 3
  MaxFaults = 3
  MaxCrashes = 0
  MaxUserOps = 0
  MaxEvents = 2
  MaxQueue = 1
SPECIFICATION Spec
PROPERTY UnmappedAsGoneIsGone
CHECK_DEADLOCK FALSE
