SPECIFICATION Spec
CONSTANTS
  ReadTimeout = 3
  ReconnectInitial = 1
  ReconnectMax = 3
  Interval = 4
  MaxFrames = 7
INVARIANTS
  TypeOK
  StreamComesBack
  StatsAddUp
