SPECIFICATION FairSpec
CONSTANTS
  pod1 = pod1
  pod2 = pod2
  tenantA = tenantA
  tenantB = tenantB
  question1 = question1
  Pods <- MCPods
  Tenants <- MCTenants
  Questions <- MCQuestions
  Threshold = 2
  MaxVersion = 1
  FaultKinds = {"connection", "redis", "embed", "milvus", "crash"}
  MaxFaults = 3
INVARIANTS
  TypeOK
  CacheSound
  BreakerTrips
PROPERTIES
  RefusalsEnd
CHECK_DEADLOCK FALSE
