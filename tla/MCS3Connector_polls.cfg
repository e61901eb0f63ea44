SPECIFICATION FairSpec
CONSTANTS
  Objects <- MCObjects
  Allowed <- MCAllowed
  PageSize = 2
  Attempts = 2
  MaxTime = 2
  FaultKinds = {"crash", "storage", "database", "statement", "publish", "undelivered", "tie"}
  MaxFaults = 3
INVARIANTS
  TypeOK
  EventsFollowVersions
PROPERTIES
  EveryVersionPublished
