SPECIFICATION FairSpec
CONSTANTS
  Reservations = {r1}
  Requests = {h1, h2}
  Workers = {w1}
  None = None
  ComboOf <- Singles
  Offered <- Progress
  Window = 1
  Grace = 1
  DayLength = 4
  Horizon = 3
  MaxBlocked = 0
  MaxDeposits = 1
  MaxCrashes = 1
PROPERTIES
  ExpiredDepositsResolved
  OverdueResolved
CHECK_DEADLOCK FALSE
