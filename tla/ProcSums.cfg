CONSTANTS
  Mother = m
  Pids = {m, p1, p2}
  Outside = outside
  ThreadedForks = TRUE
  Metrics = {"utime", "rchar", "pss", "nprocs", "nthreads"}
  MaxUse = 2
  CounterSamples = 2
  GaugeSamples = 1
  CLK_TCK = 2
SPECIFICATION SumsSpec
SYMMETRY Symmetry
INVARIANTS
  SumsTypeOK
  NoDuplicates
  ParentsFirst
  ShownTreeCovered
  NeverOverstated
  SumWithinSample
PROPERTIES
  ExactWhenQuiet
