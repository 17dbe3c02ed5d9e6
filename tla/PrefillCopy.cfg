SPECIFICATION Spec
CONSTANTS
  NumLayers = 2
  Batches <- MCBatches
  Pool = 11
  BLOCK_SIZE = 2
  SINKS = 1
  TAIL = 2
  MinQ = 2
  Budget = 9
  TilingOn = TRUE
  Knobs = {M, W}
SYMMETRY KnobSymmetry
INVARIANTS
  CopiesOwnRows
  GraphsWriteExact
  KnobsOnlyInCopy
PROPERTIES
  GrowsInSteps
