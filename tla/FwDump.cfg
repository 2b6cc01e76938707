SPECIFICATION DumpSpec
CONSTANTS
  c1 = c1
  c2 = c2
  Card <- TwoCards
  Helpers <- MCHelpers
  Firmwares <- MCFirmwares
  Stride = 3
  IntBits = 4
  MaxDumps = 2
  MaxEvents = 2
INVARIANTS FirmwareWhole HelperWhole AddedInOrder
CHECK_DEADLOCK FALSE
