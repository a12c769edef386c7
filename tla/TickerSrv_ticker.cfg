SPECIFICATION FairSpec
CONSTANTS
  Nil = Nil
  MaxGen = 2
INVARIANTS TypeOK LeaksOnlyStuck
PROPERTIES StopCloses
CHECK_DEADLOCK FALSE
