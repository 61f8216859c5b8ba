CONSTANTS
  Mother = m
  Pids = {m, p1, p2}
  Outside = outside
  ThreadedForks = TRUE
SPECIFICATION Spec
SYMMETRY Symmetry
INVARIANTS
  TreeCovered
