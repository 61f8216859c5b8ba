CONSTANTS
  Long <- MCLong
  Short <- MCShort
  Plain <- MCPlain
  Number <- MCNumber
  MaxArgs = 4
  Registered = {"wallmon", "memmon", "cpumon", "nvidiamon"}
  LevelWord <- MCLevelWord
  Levels = {"debug", "info", "warn"}
  Envs <- MCEnvs
SPECIFICATION Spec
INVARIANTS
  VerbatimAfterDashes
  MonitorsAsAsked
  LevelsAsAsked
  StartedProgramIsMonitored
  OutcomeFitsTarget
  ColumnsAreFilled
