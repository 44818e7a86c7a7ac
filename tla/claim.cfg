SPECIFICATION LiveSpec
CONSTANTS
  Operators <- MCOperators
  Requests <- QueueRequests
  Resources <- MCResources
  Demand <- QueueDemand
  Allocatable <- MCAllocatable
  Known <- QueueKnown
  Compatible <- QueueCompatible
  Invalid = {3}
  maxClaimsPerTick = 2
  MaxAttempts = 2
  MaxFaults = 1
INVARIANTS
  TypeOK
  
  
  NoOvercommitUnlessBlind
PROPERTIES
  
  ProvisioningEnds
  
CHECK_DEADLOCK FALSE
