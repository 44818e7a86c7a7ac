SPECIFICATION LiveSpec
CONSTANTS
  Operators <- MCOperators
  Requests <- LongRequests
  Resources <- MCResources
  Demand <- LongDemand
  Allocatable <- MCAllocatable
  Known <- LongKnown
  Compatible <- LongKnown
  Invalid = {}
  maxClaimsPerTick = 5
  MaxAttempts = 2
  MaxFaults = 0
PROPERTY RemainderPickedUp
CHECK_DEADLOCK FALSE
