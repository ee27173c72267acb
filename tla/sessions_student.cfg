CONSTANTS
  s1 = s1  old = old  new = new
  l1 = l1  l2 = l2  l3 = l3
  Students = {s1}
  Cards = {old, new}
  NoCard = NoCard
  Logins = {l1, l2, l3}
  Who <- Owner
  Proves <- Shown
  Interval = 2
  Tabs <- TwoOfOne
  MaxActivities = 2
CHECK_DEADLOCK FALSE
SPECIFICATION FairSpec
INVARIANTS
  SessionsMatchRoster
  GateExact
PROPERTIES
  NoReplacedCookieSent
  PresenceThrottled
  GateIsReturned
