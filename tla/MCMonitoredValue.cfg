CONSTANTS
  Readings = {0, 1, 2, 3}
  Offsets = {0, 1, 2}
  MaxSamples = 4
SPECIFICATION MCSpec
INVARIANTS
  TypeOK
  MaxIsThePeak
  AverageBelowMax
PROPERTIES
  NeverLowered
  ImplementsSampleSummary
