SPECIFICATION Spec
CONSTANTS
  Tiles = {t1, t2, t3}
  Widths = {1, 2}
  MinGroups = 1
  MaxQueue = 1
SYMMETRY TileSymmetry
INVARIANTS
  OutputTransformed
  CountersRest
