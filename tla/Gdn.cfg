SPECIFICATION Spec
CONSTANTS
  NumGroups = 2
  Requests = {q1, q2, q3}
  Pad = Pad
  NULL_BLOCK = NULL_BLOCK
  Garbage = Garbage
  MaxSpec = 1
  Sizes <- SmallSizes
  MaxChunk = 2
SYMMETRY Symmetry
INVARIANTS
  TypeOK
  EachTokenOnItsState
PROPERTIES
  SharingIsRebuilding
