SPECIFICATION Spec
CONSTANTS
  MemTop = 13
  TagBase = 1
  DefaultInitrd = 7
  T3Initrd = 3
  T680Initrd = 12
  FixedTags = 2
  ZeroTags <- SecondTag
  CmdlineHeader = 1
  InitrdTag = 1
  EndTag = 1
  Section <- TwoSections
  Unmapped <- NoEntry
  Devices <- Calls
INVARIANT InitrdToldIsCopied
CHECK_DEADLOCK FALSE
