SPECIFICATION Spec

CONSTANTS
  Parts = {p1, p2}
  MaxSeq = 2
  Outs = {o1}
  Push = FALSE
  Configs <- AllConfigs
  MaxRetries = 1
  FlushConfirms = TRUE
  Cap = 0
  SegSize = 1
  MaxFaults = 3

SYMMETRY Symmetry

INVARIANTS
  CheckpointCovers

PROPERTIES
  ImplementsAnchor

CHECK_DEADLOCK FALSE
