SPECIFICATION Spec
CONSTANTS
  Setups <- MCSetups
  Extensions <- MCExtensions
  TailBlocks = 2
  SliceN = 3
  Reserved = {0, 2, 9}
  GEMM_MAX_ROWS = 1
  MR_MAX = 2
  MaxRows = 3
  Vocab = 6
INVARIANTS
  LoadedWhereRead
  EachColumnOnce
  VerifyRowsMatchDecode
  GraphBufferLives
  DraftIsFullHead
CHECK_DEADLOCK FALSE
