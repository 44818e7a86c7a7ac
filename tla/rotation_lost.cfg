SPECIFICATION LiveSpec
CONSTANTS
  Configs = {1, 2}
  MaxFaults = 1
  MaxChanges = 1
PROPERTY RotationReregisters
