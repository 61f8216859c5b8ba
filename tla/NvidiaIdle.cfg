CONSTANTS
  ngpus = 2
  Pids = {p1, p2}
  Utils = {0, 1}
  Bytes = {0, 1536}
  Megabytes = {1}
  MaxTimeStamp = 3
  MaxLines = 2
  MaxUpdates = 2
SPECIFICATION Spec
INVARIANTS
  IdleGpusReportedIdle
