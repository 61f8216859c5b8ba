CONSTANTS
  Mother = mother
  Others = {}
  Interval = 1
  Gauges = {0, 1}
  Counters = {1}
  ExitCodes = {0, 3}
  MaxTime = 3
SPECIFICATION FairSpec
INVARIANTS
  TypeOK
  SnapshotNeverPartial
  CleanExit
  ExitCodeKept
  SnapshotFresh
  SummariesMatchRows
  SamplesSpaced
  RowsEveryIntervalPlusOne
PROPERTIES
  MotherEndIsNoticed
  SignalIsNoticed
