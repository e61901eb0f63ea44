SPECIFICATION QuotaSpec
CONSTANTS
  h1 = h1
  h2 = h2
  Handlers <- MCHandlers
  Amounts <- MCAmounts
  Limits <- MCLimits
  Events = {"e1"}
  MaxRecorded = 2
  FaultKinds = {"redis", "stall", "limit", "crash"}
  MaxFaults = 3
SYMMETRY HandlerSymmetry
INVARIANTS
  QuotaTypeOK
  CounterExplained
  EventsCounted
PROPERTIES
  AdmittedWithinLimit
