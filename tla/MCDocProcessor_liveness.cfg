SPECIFICATION FairSpec
CONSTANTS
  w1 = w1
  w2 = w2
  p1 = p1
  p2 = p2
  NoWorker = NoWorker
  Workers <- MCWorkers
  Partitions <- MCPartitions
  Messages <- MCMessages
  Log <- MCMixedLog
  FaultKinds = {"crash", "expel", "revoke", "fetch", "produce", "flushError", "flushTimeout", "delivery", "deadLetter"}
  MaxFaults = 2
PROPERTIES
  ImplementsStage
  EveryEventDelivered
  LagIsFailedPublications
CHECK_DEADLOCK FALSE
