CONSTANTS
  CLK_TCK = 2
  StartTime = 3
  Finest = 4
  Significand = 4
  MaxUptime = 11
  monitored_netdevs <- MCNetdevs
  MaxBytes = 2
  MaxSamples = 2
SPECIFICATION Spec
INVARIANTS
  TypeOK
  WtimeIsElapsed
  TrafficReported
