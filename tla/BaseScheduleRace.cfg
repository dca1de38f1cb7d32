SPECIFICATION Spec
CONSTANTS
  a1 = a1  a2 = a2  b1 = b1  c1 = c1  c2 = c2
  Reservations = {b1}
  Procs = {p1, p2}
  Categories = {1, 2}
  Bookings <- OneSingle
  ClientOf <- ClientOfRow
  CategoryOf <- CategoryOfRow
  Duration <- DurationOfRow
  Capacity <- CapacityOfCategory
  Days = {0}
  DayLength = 6
  BaseSchedules <- TwoSchedules
  Closures <- NoClosures
  Asked = {1}
  Elsewhere = {}
  Offered = {"book", "updateBase"}
  AnyCategory = AnyCategory
  Step = 1
  NoSlot = NoSlot
  None = None
SYMMETRY Handlers
INVARIANTS
  WithinOpeningHours
CHECK_DEADLOCK FALSE
