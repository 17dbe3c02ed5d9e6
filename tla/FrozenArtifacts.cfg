SPECIFICATION Spec
CONSTANTS
  Captures = {c1, c2, c3}
  Fills = {f1, f2, f3}
  Complete = {f1, f2}
  Versions = {v1, v2}
  Chunks = 2
  Absent = Absent
  Partial = Partial
SYMMETRY Symmetry
INVARIANTS
  RecordsMatchBinary
  PolicyHashesStand
  PartialOnlyIfKilled
PROPERTIES
  FrozenOnce
