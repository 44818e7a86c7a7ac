SPECIFICATION LiveSpec
CONSTANTS
  Replicas = 1
  MaxFaults = 2
  MaxRequests = 0
PROPERTY UnschedulableRetried
CHECK_DEADLOCK FALSE
