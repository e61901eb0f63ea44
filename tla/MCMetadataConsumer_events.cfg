SPECIFICATION FairSpec
CONSTANTS
  Partitions = {0, 1}
  Entities = {"document", "chunk", "embedding", "badSource"}
  Published = {"chunk", "embedding", "badSource"}
  Upstream <- MCUpstream
  Created <- MCCreated
  Malformed = {"badSource"}
  Foreign = {upload}
  Room <- MCRoom
  FaultKinds = {"statement", "connection", "kafka", "rebalance", "crash", "startup"}
  MaxFaults = 2
INVARIANTS
  TypeOK
  ReplayRepairs
  FailuresKnown
  RowsExplained
PROPERTIES
  CatchesUp
CHECK_DEADLOCK FALSE
