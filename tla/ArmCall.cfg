SPECIFICATION Spec
CONSTANTS
  Capacity = 10
  MaxCalls = 5
INVARIANTS ArgumentsArrive NothingLeft
CHECK_DEADLOCK FALSE
