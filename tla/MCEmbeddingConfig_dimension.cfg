SPECIFICATION FairConfigSpec
CONSTANTS
  Requests = {r1, r2, r3, r4}
  Models = {"small", "large", "other"}
  Specs <- MCSpecs
  First <- MCFirst
  MaxChanges = 2
  FaultKinds = {"timeout", "handler", "service"}
  MaxFaults = 2
PROPERTIES
  DimensionGuarded
CHECK_DEADLOCK FALSE
