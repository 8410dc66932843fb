SPECIFICATION FairSpec
CONSTANTS
  NoNode = NoNode
  Nodes = {a, b}
  Partitions = {p0}
  Zero = pz
  Gated = FALSE
  Forwards = FALSE
  MaxTransfers = 1
  MaxFails = 0
  MaxLog = 2
  MaxTasks = 1
  MaxOffset = 0
  MaxRestarts = 0
  MaxMoves = 0
PROPERTY SourceFollowsTable
CHECK_DEADLOCK FALSE
