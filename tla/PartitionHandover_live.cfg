SPECIFICATION FairSpec
CONSTANTS
  NoNode = NoNode
  Nodes = {a, b}
  Partitions = {p0}
  Zero = pz
  Gated = FALSE
  Forwards = FALSE
  MaxTransfers = 1
  MaxFails = 1
  MaxLog = 4
  MaxTasks = 1
  MaxOffset = 1
  MaxRestarts = 1
  MaxMoves = 1
PROPERTY TransferResolves
CHECK_DEADLOCK FALSE
