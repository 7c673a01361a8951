CONSTANTS
  Targets = {t1, t2}
  MaxNfts = 2
  None = None
  Cap = 1
  MaxTries = 2
  MaxFaults = 1
  MaxCrashes = 1
  MaxUserOps = 1
  MaxEvents = 3
  MaxQueue = 1
SPECIFICATION Spec
INVARIANTS TypeOK OrphansAreExplained MappingInjective CapRespected
CHECK_DEADLOCK FALSE
