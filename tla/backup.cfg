SPECIFICATION LiveSpec
CONSTANTS
  MaxCalls = 3
  MaxPods = 2
  Requests <- MCRequests
  OneAtATime = FALSE
  MaxFaults = 1
INVARIANTS
  TypeOK
  TornOnlyIfOverlapped
  RecordedWasUploaded
PROPERTY PodsStart
CHECK_DEADLOCK FALSE
