SPECIFICATION Spec
CONSTANTS
  MaxCalls = 2
  MaxPods = 1
  Requests <- GoodRequests
  OneAtATime = TRUE
  MaxFaults = 1
INVARIANT RecordedRestores
CHECK_DEADLOCK FALSE
