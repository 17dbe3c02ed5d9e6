SPECIFICATION CandidateSpec
CONSTANTS
  Preparers = {p1, p2}
  Profiles = {baseline, experimental}
  Runners = {r1}
  Sources = {s1, s2}
  Headers = {h1, h2}
  Objects = {o1, o2}
  Absent = Absent
  Partial = Partial
SYMMETRY Symmetry
INVARIANTS
  PreparedStands
  BuiltIsRecorded
  RunsRecorded
