SPECIFICATION Spec
CONSTANTS
  Phases = {p1, p2}
  Builds = {b1, b2}
  Users = {u1, u2}
  SHIPWRIGHT_MAX_ITERATIONS = 2
  NoOne = NoOne
  Everywhere = Everywhere
  MaxBuilds = 3
  MaxLog = 2
INVARIANTS AppliedOnce NothingSkipped FilesAreOfLastPass
SYMMETRY Symmetry
CHECK_DEADLOCK FALSE
