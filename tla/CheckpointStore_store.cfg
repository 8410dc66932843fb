SPECIFICATION Spec

CONSTANTS
  Tasks = {t1}
  Setups <- OneTaskSetups
  MaxCkpt = 6
  MaxFaults = 5

INVARIANTS
  RecoversLast
  AckedIsOnDisk

PROPERTIES
  RetentionCapped

CHECK_DEADLOCK FALSE
