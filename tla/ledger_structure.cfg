CONSTANTS
  Students = {s1, s2}
  Majors = {m1, m2}
  Groups = {g1, g2}
  NoMajor = none
  MaxCapacity = 1
  Countdown = 1
  ConfigOrigin = FALSE
  SeedCapacity = 2
  SeedQuota <- SeedAll
SPECIFICATION Spec
SYMMETRY Relabel
INVARIANTS
  SelectionsStand
  NobodyStranded
PROPERTY
  ImplementsAllocation
