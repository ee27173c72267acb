CONSTANTS
  c1 = c1  c2 = c2  login = login  beat = beat
  Jobs = {c1, c2, login}
  Priority <- Prio
  BatchSize = 1
  QueueLimit = 2
  PriorityReserve = 1000
  Impatient = {}
  MaxCrashes = 0
CHECK_DEADLOCK FALSE
SPECIFICATION Spec
INVARIANT
  StoppedWriterReopens
