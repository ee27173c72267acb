CONSTANTS
  r1 = r1  r2 = r2  r3 = r3  r4 = r4
  Requests = {r1, r2, r3}
  MaxCommits = 2
  Cancellation = TRUE
CHECK_DEADLOCK FALSE
SPECIFICATION FairSpec
INVARIANTS
  SingleFlight
  StaleOnlyAfterCancel
PROPERTIES
  MonotonicAnswers
  EveryWaiterIsAnswered
