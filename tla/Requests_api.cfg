SPECIFICATION Spec
CONSTANTS
  Managed = {1, 2}
  Videos = {v1}
  None = None
  Torn = Torn
  MaxPuts = 2
  MaxAsks = 2
  MaxStops = 1
INVARIANTS RunningIsSaved LastCommandWins
PROPERTIES LastAcceptedWins PiAgrees
CHECK_DEADLOCK FALSE
