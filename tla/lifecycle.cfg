SPECIFICATION LiveSpec
CONSTANTS
  Replicas = 1
  MaxFaults = 1
  MaxRequests = 1
INVARIANT TypeOK
INVARIANT FinalizerInv
INVARIANT KnownNeverLost
 
INVARIANT QuiescentConverged
INVARIANT AnsweredForGeneration
 
PROPERTY DeletionCompletes
PROPERTY RequeueingEnds
PROPERTY RedeployResolves
CHECK_DEADLOCK FALSE
