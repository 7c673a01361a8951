CONSTANTS
  Targets = {t1}
  OurNfts = {n1}
  Values = {v1}
  Unset = Unset
  Absent = Absent
  RetryDelays = 3
  MaxMutations = 3
  MaxFailures = 4
SPECIFICATION Spec
PROPERTIES
  DroppedUpsertIsHealed
CHECK_DEADLOCK FALSE
