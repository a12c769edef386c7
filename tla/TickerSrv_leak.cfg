SPECIFICATION Spec
CONSTANTS
  Nil = Nil
  MaxGen = 2
INVARIANTS NoSocketLeak
CHECK_DEADLOCK FALSE
