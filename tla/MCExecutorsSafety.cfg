CONSTANTS
  Targets = {t1}
  MaxNfts = 3
  MaxLiq = 3
  None = None
  MaxQueue = 1
  Scenarios <- SafetyScenarios
SPECIFICATION Spec
CHECK_DEADLOCK FALSE
INVARIANTS TypeOK NoLostLiquidity OursWithinPeak ReceivedTokensAreQueued
PROPERTIES UnmappedOnlyWhenGone LandsRecorded
