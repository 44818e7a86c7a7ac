SPECIFICATION LiveSpec
CONSTANTS
  k1 = k1
  k2 = k2
  p1 = p1
  p2 = p2
  Processes <- MCProcesses
  Browsers = {"x"}
  Names <- MCNames
  Tokens <- MCTokens
  Grantee <- MCGrantee
  Keys <- MCKeys
  TTL = 0
  Skew = 1
  MaxClock = 2
  MaxFaults = 2
  MaxChanges = 1
INVARIANTS
  TypeOK
  KeysAgree
  SessionsSurvive
  SessionInv
PROPERTIES
  AdmittedByGrant
  BootCompletes
  NoEndlessRefresh
CHECK_DEADLOCK FALSE
