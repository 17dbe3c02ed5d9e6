SPECIFICATION Campaign
CONSTANTS
  Primary = w1
  Holdouts = {w2}
INVARIANTS
  PassIsComplete
  RegressionIsCertain
PROPERTIES
  WorseNeverPasses
