SPECIFICATION Spec
CONSTANTS
  t1 = t1
  t2 = t2
  MaxTime = 4
  Hour = 2
  Day = 4
  SixHours = 4
  MeterWeight = 3
  MinGap = 1
  RollupAfter = 1
  Tools = {t1, t2}
  Windows <- TwoWindows
  Payloads <- LivePayloads
  MeterData <- AllMeters
  MaxLive = 3
  MaxMeters = 2
  MaxFills = 2
SYMMETRY BothRuns
INVARIANTS
  TypeOK
  SampleCountIsTime
  BucketsAreExact
  LongRangesFollowRows
  ReconstructedOnlyInGaps
  SamplesUsedOnce
  RunRepairsAll
