SPECIFICATION FairSpec

CONSTANTS
  Sources = {s1, s2}
  Freezers = {f1, f2}
  MaxOffset = 2

INVARIANTS
  FrozenIsQuiescent
  WatermarkIsFinal
  DrainedMeansFrozen

PROPERTY
  FreezeReturns
