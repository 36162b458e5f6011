SPECIFICATION Spec
CONSTANTS
  t1 = t1
  t2 = t2
  MaxTime = 4
  Hour = 2
  Day = 4
  SixHours = 4
  MeterWeight = 3
  MinGap = 1
  RollupAfter = 2
  Tools = {}
  Windows <- EveryRow
  Payloads <- DecliningCounter
  MeterData = {}
  MaxLive = 2
  MaxMeters = 0
  MaxFills = 0
INVARIANT NoEnergyFromDecline
