CONSTANTS
  Old = old
  New = new
  MaxWrites = 2
  MaxUpdates = 2
  MaxFaults = 2
SPECIFICATION ReleaseSpec
INVARIANTS
  WritesKept
  Paired
  Recovered
PROPERTIES
  OnlyCheckedServed
CHECK_DEADLOCK FALSE
