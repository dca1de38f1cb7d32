SPECIFICATION RacesSpec
CONSTANTS
  a1 = a1  a2 = a2  b1 = b1  c1 = c1  c2 = c2
  Reservations = {a1, a2, b1, c1, c2}
  Procs = {p1, p2}
  Categories = {1, 2}
  Bookings <- AllBookings
  ClientOf <- ClientOfRow
  CategoryOf <- CategoryOfRow
  Duration <- DurationOfRow
  Capacity <- CapacityOfCategory
  Days = {0, 1}
  DayLength = 6
  BaseSchedules <- OneSchedule
  Closures <- SpaAndCategory
  Asked = {1, 3, 4, 7}
  Elsewhere = {"CONFIRMADA", "CANCELADA", "NO_SHOW", "CITA_EN_CURSO"}
  Offered = {"book", "reschedule", "revive", "createException", "deleteException"}
  AnyCategory = AnyCategory
  Step = 1
  NoSlot = NoSlot
  None = None
SYMMETRY Handlers
INVARIANTS
  OpenPlacements
  WithinOpeningHours
  NeverOverbooked
  OnePerCategoryAndDay
  NoLockCycle
PROPERTIES
  BookingIsWhole
  StatusesFollowMachine
CHECK_DEADLOCK FALSE
