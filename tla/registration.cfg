SPECIFICATION LiveSpec
CONSTANTS
  Configs = {1, 2}
  MaxFaults = 3
  MaxChanges = 2
INVARIANT TypeOK
INVARIANT PersistedFirst
INVARIANT ServingMatchesFleet
INVARIANT RegistrationInv
PROPERTY TokensConverge
PROPERTY RefusedCallsRecover
