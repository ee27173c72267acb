CONSTANTS
  Students = {s1}
  Majors = {m1}
  Groups = {g1}
  NoMajor = none
  MaxCapacity = 1
  Countdown = 1
  ConfigOrigin = FALSE
  SeedCapacity = 1
  SeedQuota <- SeedAll
SPECIFICATION Spec
INVARIANT
  WaitingMeansNotStarted
