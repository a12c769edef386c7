SPECIFICATION Spec
CONSTANTS
  PerCandle = 2
  Limit = 2
  Nil = Nil
  MaxCur = 5
  MaxQueue = 1
INVARIANTS NewestKept
CHECK_DEADLOCK FALSE
