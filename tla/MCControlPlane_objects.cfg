SPECIFICATION ControlSpec
CONSTANTS
  Connectors = {"c1", "c2"}
  Workspaces = {"w1", "w2"}
  Names = {"tenant"}
  NameOf <- MCNameOf
  MaxEdits = 3
  Requests = {r1, r2, r3, r4}
  Models = {"small", "large", "other"}
  Specs <- MCSpecs
  First <- MCFirst
  MaxChanges = 2
  FaultKinds = {"handler", "timeout", "service", "deleted"}
  MaxFaults = 2
  call1 = call1
  call2 = call2
  source1 = source1
  source2 = source2
  Callers <- MCCallers
  Sources <- MCSources
  Titles = {"invoices", "contracts"}
INVARIANTS
  ControlTypeOK
  ObjectsFollow
  EditsKept
  OrphansExplained
  VersionsSound
  CallsSerial
PROPERTIES
  Converges
  SettingsFollow
CHECK_DEADLOCK FALSE
