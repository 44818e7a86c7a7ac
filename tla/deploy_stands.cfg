SPECIFICATION Spec
CONSTANTS
  Names = {"a"}
  Generated <- NoneGenerated
  MaxCalls = 3
  Requests <- RawRequests
  Configs <- MCConfigs
  MaxBeats = 0
  MaxFaults = 0
INVARIANT AcceptedStands
CHECK_DEADLOCK FALSE
