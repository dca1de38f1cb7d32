SPECIFICATION Spec
CONSTANTS
  Reservations = {r1}
  Requests = {h1}
  Workers = {w1}
  None = None
  ComboOf <- Singles
  Offered <- TimeoutOvertaken
  Window = 1
  Grace = 1
  DayLength = 4
  Horizon = 3
  MaxBlocked = 0
  MaxDeposits = 1
  MaxCrashes = 0
PROPERTIES
  TimeoutOnlyWhenDue
CHECK_DEADLOCK FALSE
