SPECIFICATION Spec
CONSTANTS
  PerCandle = 2
  Limit = 2
  Nil = Nil
  MaxCur = 3
  MaxQueue = 1
INVARIANTS NoCrash
CHECK_DEADLOCK FALSE
