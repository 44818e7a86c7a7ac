SPECIFICATION Spec
CONSTANTS
  Replicas = 1
  MaxFaults = 1
  MaxRequests = 1
INVARIANT DoneStopIsReported
CHECK_DEADLOCK FALSE
