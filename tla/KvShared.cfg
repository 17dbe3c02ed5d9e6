SPECIFICATION Spec
CONSTANTS
  Slots = {s1, s2}
  Scratch = Scratch
  Blocks = {b1, b2, b3}
  NoBlock = NoBlock
  Values = {x, y}
  Blank = Blank
  TAIL = 2
  SINKS = 1
  BLOCK_SIZE = 1
  MaxLen = 3
  MaxQ = 2
  MaxBatch = 2
SYMMETRY Symmetry
INVARIANTS
  AttentionReadsOwnText
  SinksMirrorCache
