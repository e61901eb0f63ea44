SPECIFICATION Spec
CONSTANTS
  w1 = w1
  w2 = w2
  p1 = p1
  p2 = p2
  NoWorker = NoWorker
  Workers <- MCOneWorker
  Partitions <- MCPartitions
  Messages <- MCMessages
  Log <- MCLog
  FaultKinds = {"produce"}
  MaxFaults = 1
INVARIANTS
  FailedPublicationNotCommitted
CHECK_DEADLOCK FALSE
