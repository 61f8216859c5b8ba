CONSTANTS
  Mother = mother
  Others = {}
  Interval = 1
  Gauges = {0}
  Counters = {1}
  ExitCodes = {0}
  MaxTime = 3
SPECIFICATION Spec
INVARIANTS
  SnapshotWasWritten
