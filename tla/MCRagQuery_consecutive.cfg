SPECIFICATION Spec
CONSTANTS
  pod1 = pod1
  pod2 = pod2
  tenantA = tenantA
  tenantB = tenantB
  question1 = question1
  Pods <- MCPods
  Tenants <- MCTenants
  Questions <- MCQuestions
  Threshold = 2
  MaxVersion = 1
  FaultKinds = {"milvus"}
  MaxFaults = 2
INVARIANTS
  OpensOnConsecutiveFailures
CHECK_DEADLOCK FALSE
