SPECIFICATION FairSpec
CONSTANTS
  Key = {k1}
  Srv = {s1, s2}
  Req = {r1, r2}
  None = None
  Idle = 1
  Expiry <- MCExpiry
  LastArrival = 2
  MaxTime = 4
INVARIANTS TypeOK NoLeak StartedOnce NeverMapsStopped StartComes
PROPERTIES Atomic IdleClosed AnsweredUnlessStopped
CHECK_DEADLOCK FALSE
