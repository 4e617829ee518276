SPECIFICATION Spec
CONSTANTS
  Receivers = {r1, r2}
  NoInput = NoInput
  QueueLimit = 2
  Batch = 2
  PerDatagram = 2
  Timeout = 1
  MaxPackets = 3
  MaxWire = 2
INVARIANTS InOrder CaughtUp CaptureLeavesNothing
PROPERTIES EndIsNoticed
CHECK_DEADLOCK FALSE
