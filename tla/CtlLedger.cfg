SPECIFICATION Spec
CONSTANTS
  Runners = {r1, r2}
  x1 = x1
  x2 = x2
  Experiments = {x1}
  Versions = {v1, v2}
  Recorded = v1
  Operator = Operator
  Nobody = Nobody
  Defined <- AllStages
  Forking = {"model_correct"}
  MaxRebuilds = 1
SYMMETRY Symmetry
INVARIANTS
  OneRunQualifies
  StagesGated
  OwnMetrics
  SupervisedSerially
CHECK_DEADLOCK FALSE
