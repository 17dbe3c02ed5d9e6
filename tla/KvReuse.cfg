SPECIFICATION Spec
CONSTANTS
  Slots = {s1}
  Scratch = Scratch
  Blocks = {b1, b2, b3}
  NoBlock = NoBlock
  Values = {x, y}
  Blank = Blank
  TAIL = 3
  SINKS = 1
  BLOCK_SIZE = 2
  MaxLen = 5
  MaxQ = 4
  MaxBatch = 1
SYMMETRY Symmetry
INVARIANTS
  TypeOK
  WritesDoNotRace
  TailReadsOwnText
  OwnTailExact
  AttentionReadsOwnText
