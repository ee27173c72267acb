CONSTANTS
  s1 = s1  s2 = s2  r1 = r1  r2 = r2
  Students = {s1, s2}
  Groups = {g1}
  Names = {n1, n2}
  FirstName = n1
  MaxActivities = 2
  MaxRenames = 2
  Requests = {r1, r2}
  NoClaim = NoClaim
  Seats <- OneSeat
  ConfigOrigin = FALSE
  BatchSize = 2
  QueueLimit = 4
  MaxCrashes = 1
CHECK_DEADLOCK FALSE
SPECIFICATION ServiceSpec
SYMMETRY Relabelling
CONSTRAINT FewEdits
INVARIANTS
  SeatsFit
  NoStaleWrite
  FirstCome
  RepeatsAgree
  ValidReceiptsAgree
PROPERTIES
  VerdictsSettle
  ImplementsArchive
