SPECIFICATION ScanSpec
CONSTANTS
  Targets = 2
  Dwell = 4
  TargetHang = 3
  Patience = 2
  Acquire = 1
  Pause = 2
PROPERTIES HangIsKept EveryTargetIsTried StationIsFound
