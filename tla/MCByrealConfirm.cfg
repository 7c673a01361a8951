CONSTANTS
  Targets = {t1}
  MaxNfts = 1
  None = None
  Cap = 0
  MaxTries = 1
  MaxFaults = 1
  MaxCrashes = 0
  MaxUserOps = 0
  MaxEvents = 2
  MaxQueue = 1
SPECIFICATION Spec
PROPERTY AcceptedOpenLandsMapped
CHECK_DEADLOCK FALSE
