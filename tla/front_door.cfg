CONSTANTS
  MaxCalls = 3
  Keys = {k1, k2}
  Values = {v1, v2, v3}
  Limit = 2
  Window = 1
  MaxKeys = 1
  CleanupEvery = 3
  MaxClock = 5
  Uploads = {u1, u2, u3}
  MaxImports = 2
  MaxBody = 1
  Deadline = 2
SPECIFICATION FrontSpec
INVARIANTS
  WindowBounded
  SlotsExact
PROPERTIES
  RefusesForCause
  GateReopens
CHECK_DEADLOCK FALSE
