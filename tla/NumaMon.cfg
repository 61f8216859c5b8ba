CONSTANTS
  p1 = p1
  p2 = p2
  t1 = t1
  t2 = t2
  Procs = {p1, p2}
  Tids = {t1, t2}
  ProcOf <- MCProcOf
  Nodes = {0, 1}
  MaxPages = 2
  MaxEvents = 3
  MaxNumaSamples = 3
SPECIFICATION NumaSpec
CONSTRAINT OneHalf
INVARIANTS
  MigrationsExplained
  MemoryMigrationsExplained
