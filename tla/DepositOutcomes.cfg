SPECIFICATION OutcomesSpec
CONSTANTS
  r1 = r1  r2 = r2
  Reservations = {r1, r2}
  Requests = {h1, h2}
  Workers = {w1}
  None = None
  ComboOf <- OneCombo
  Offered <- GroupDecisions
  Window = 1
  Grace = 1
  DayLength = 4
  Horizon = 2
  MaxBlocked = 0
  MaxDeposits = 3
  MaxCrashes = 0
INVARIANTS
  GroupPaidWhenConfirmed
PROPERTIES
  CombosWhole
  AttendanceLifecycle
SYMMETRY Handlers
CHECK_DEADLOCK FALSE
