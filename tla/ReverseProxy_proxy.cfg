SPECIFICATION PFairSpec
CONSTANTS
  Class = {SPOT}
  None = None
  Req = {r1, r2}
  Minute = 1
  ForbidTime = 1
  DefaultBan = 2
  MaxBackoff = 4
  MaxErrors = 2
  HighWeight = 0
  Weights = {1}
  Waits = {3}
INVARIANTS PTypeOK Bounded
PROPERTIES Gated MovedOnlyBySuspending Recovers AnsweredOrSent
