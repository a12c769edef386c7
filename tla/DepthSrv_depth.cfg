SPECIFICATION FairSpec
CONSTANTS
  Nil = Nil
  LastDelay = 4
  MaxCur = 4
  MaxQueue = 3
INVARIANTS TypeOK FreshBook PauseEarned NoSocketLeak
PROPERTIES NeverBack CatchesUp StopCloses
CHECK_DEADLOCK FALSE
