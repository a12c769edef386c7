SPECIFICATION Spec
CONSTANTS
  Key = {k1}
  Srv = {s1, s2}
  Req = {r1, r2}
  None = None
  Idle = 1
  Expiry <- MCExpiry
  LastArrival = 3
  MaxTime = 4

INVARIANTS NoStrandedRequest
CHECK_DEADLOCK FALSE
