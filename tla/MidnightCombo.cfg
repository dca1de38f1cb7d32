SPECIFICATION Spec
CONSTANTS
  a1 = a1  a2 = a2  b1 = b1  c1 = c1  c2 = c2
  Reservations = {a1, a2, c1, c2}
  Procs = {p1, p2}
  Categories = {1, 2}
  Bookings <- CombosBothWays
  ClientOf <- ClientOfRow
  CategoryOf <- CategoryOfRow
  Duration <- DurationOfRow
  Capacity <- CapacityOfCategory
  Days = {0, 1}
  DayLength = 6
  BaseSchedules <- OneSchedule
  Closures <- NoClosures
  Asked = {5, 7}
  Elsewhere = {}
  Offered = {"book"}
  AnyCategory = AnyCategory
  Step = 1
  NoSlot = NoSlot
  None = None
SYMMETRY Handlers
INVARIANTS
  NeverOverbooked
CHECK_DEADLOCK FALSE
