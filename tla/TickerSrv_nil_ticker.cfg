SPECIFICATION Spec
CONSTANTS
  Nil = Nil
  MaxGen = 2
INVARIANTS AlwaysData
CHECK_DEADLOCK FALSE
