SPECIFICATION FairSpec
CONSTANTS
  Files <- MCFiles
  Attempts = 2
  MaxWrites = 4
  FaultKinds = {"unnoticed", "observer", "mount", "publish", "undelivered", "redis", "database", "statement", "crash"}
  MaxFaults = 3
INVARIANTS
  TypeOK
  
PROPERTIES
  EveryFileServed
