SPECIFICATION FairSpec
CONSTANTS
  PerCandle = 2
  Limit = 2
  Nil = Nil
  MaxCur = 5
  MaxQueue = 2
INVARIANTS TypeOK OneWriter NoSocketLeak ServedOnceReady AnswersNewest
PROPERTIES Mirrors CatchesUp StopCloses
CHECK_DEADLOCK FALSE
