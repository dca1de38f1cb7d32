SPECIFICATION Spec
CONSTANTS
  Reservations = {r1}
  Requests = {h1, h2}
  Workers = {w1}
  None = None
  ComboOf <- Singles
  Offered <- ProofRaces
  Window = 1
  Grace = 1
  DayLength = 4
  Horizon = 3
  MaxBlocked = 1
  MaxDeposits = 2
  MaxCrashes = 1
INVARIANTS
  TypeOK
  ProofBlocksTimeout
  OnePendingProof
  Records
  NoStandstill
PROPERTIES
  DepositDecisionsFinal
  Lifecycle
SYMMETRY Handlers
CHECK_DEADLOCK FALSE
