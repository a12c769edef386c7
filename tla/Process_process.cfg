SPECIFICATION FairSpec
CONSTANTS
  Class = {SPOT, FUTURES}
  SPOT = SPOT
  Nil = Nil
  Bodies = {Rules}
  Req = {r1}
  Buffer = 2
INVARIANTS TypeOK NeverUnavailable KeepsServing
PROPERTIES Starts InfoAnswered EndsWhenDue
\* The process ends.
CHECK_DEADLOCK FALSE
