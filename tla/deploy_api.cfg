SPECIFICATION LiveSpec
CONSTANTS
  Names = {"a", "b"}
  Generated <- MCGenerated
  MaxCalls = 3
  Requests <- MCRequests
  Configs <- MCConfigs
  MaxBeats = 1
  MaxFaults = 1
INVARIANTS
  TypeOK
  NoLostUpdate
  AcceptedRenders
  RenderedWithinRules
  BlanksMeanDefaults
PROPERTY WantedRuns
CHECK_DEADLOCK FALSE
