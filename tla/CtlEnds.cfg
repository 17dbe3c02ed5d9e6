SPECIFICATION FairSpec
CONSTANTS
  Runners = {r1, r2}
  x1 = x1
  x2 = x2
  Experiments = {x1, x2}
  Versions = {v1, v2}
  Recorded = v1
  Operator = Operator
  Nobody = Nobody
  Defined <- NoMicrobench
  Forking = {"build"}
  MaxRebuilds = 0
PROPERTIES
  RunsEnd
CHECK_DEADLOCK FALSE
