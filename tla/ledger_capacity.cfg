CONSTANTS
  Students = {s1, s2, s3}
  Majors = {m1, m2}
  Groups = {g1}
  NoMajor = none
  MaxCapacity = 3
  Countdown = 2
  ConfigOrigin = FALSE
  SeedCapacity = 2
  SeedQuota <- SeedAll
SPECIFICATION Spec
SYMMETRY Relabel
INVARIANTS
  NoOversell
  RowUpdatesFit
  StartupValid
PROPERTIES
  RebalanceSellsEverySeat
  RoundTermsFixed
