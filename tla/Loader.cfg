SPECIFICATION FairSpec
CONSTANTS
  c1 = c1
  c2 = c2
  NoCard = NoCard
  Volume <- TwoVolumes
  Card <- TwoCards
  Files <- CardFiles
  Builtins <- Tables
  HasTable = TRUE
  Shrink = 2
  Page = 2
  DefaultSize = 2
  Probe = 1
  ProbeChunk = 1
  OpenSerial = TRUE
  MaxEvents = 2
  MaxBoots = 2
INVARIANTS HandoverComplete OneFile NothingHeld CrashOnlyTo
PROPERTIES KernelStays JobEnds
CHECK_DEADLOCK FALSE
