SPECIFICATION FairSpec
CONSTANTS
  Nil = Nil
  MaxGen = 2
PROPERTIES Reconnects
CHECK_DEADLOCK FALSE
