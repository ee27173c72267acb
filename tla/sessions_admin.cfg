CONSTANTS
  phone = phone  board = board  desk = desk  tablet = tablet
  c1 = c1  c2 = c2
  Logins = {phone, board, desk, tablet}
  Changes = {c1, c2}
  By <- Owners
  MaxSessions = 2
  MaxClock = 2
CHECK_DEADLOCK FALSE
SPECIFICATION Spec
INVARIANTS
  OnlyCurrentPassword
PROPERTIES
  OldestDeviceYields
