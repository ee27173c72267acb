CONSTANTS
  c1 = c1  c2 = c2  login = login  beat = beat
  Jobs = {c1, c2, login, beat}
  Priority <- Prio
  BatchSize = 1
  QueueLimit = 2
  PriorityReserve = 1000
  Impatient = {login}
  MaxCrashes = 1
CHECK_DEADLOCK FALSE
SPECIFICATION FairSpec
CONSTRAINT SecondClaimOrHeartbeat
INVARIANTS
  RepliesAreTrue
  ClaimsInOrder
  ReserveKept
PROPERTIES
  ClaimsYieldOnlyToClaims
  AdmittedIsAnswered
  CloseDrains
