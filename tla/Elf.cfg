SPECIFICATION Spec
CONSTANTS
  MemTop = 9
  WordSize = 2
  Images <- MCImages
INVARIANTS SegmentsLoaded OnlyThen
CHECK_DEADLOCK FALSE
