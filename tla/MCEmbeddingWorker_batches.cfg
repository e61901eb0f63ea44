SPECIFICATION FairSpec
CONSTANTS
  w1 = w1
  w2 = w2
  p1 = p1
  p2 = p2
  tenantA = tenantA
  tenantB = tenantB
  file1 = file1
  file2 = file2
  NoWorker = NoWorker
  Workers <- MCWorkers
  Partitions <- MCPartitions
  Tenants <- MCTenants
  Files <- MCFiles
  Messages <- MCMessages
  Log <- MCLog
  BatchSize = 2
  FaultKinds = {"crash", "expel", "revoke", "embed", "milvus", "database", "deadLetter", "flushTimeout", "delivery"}
  MaxFaults = 1
INVARIANTS
  TypeOK
  NothingSkipped
  CommittedDelivered
  ReportedStored
PROPERTIES
  ImplementsStage
  EveryChunkDelivered
CHECK_DEADLOCK FALSE
