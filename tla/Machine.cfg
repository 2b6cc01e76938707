SPECIFICATION Spec
CONSTANTS
  Devices <- MCDevices
  MaxRounds = 2
INVARIANTS TypeOK GlobalsTrue RamSizeExact
CHECK_DEADLOCK FALSE
