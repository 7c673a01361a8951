CONSTANTS
  Targets = {t1, t2}
  OurNfts = {n1, n2}
  Values = {v1}
  Unset = Unset
  Absent = Absent
  RetryDelays = 1
  MaxMutations = 3
  MaxFailures = 3
SPECIFICATION Spec
INVARIANTS
  TypeOK
  ChainReplaysMemory
  TableIsPastMemory
PROPERTIES
  MutationsArePersisted
CHECK_DEADLOCK FALSE
