SPECIFICATION Spec
CONSTANTS
  TILE_SIZE = 2
  NUM_SEGMENTS = 3
  BLOCK_M = 5
  QueriesPerKv = 2
  SINKS = 2
  TAIL = 3
  Rows3D = 3
  MAX_QLEN_3D = 3
  MaxSeqs = 2
  MaxTokens = 5
  MaxLen = 9
  Stale = Stale
INVARIANTS
  TypeOK
  EachKeyOnce
  ExactWhereDue
PROPERTIES
  StoresAgree
