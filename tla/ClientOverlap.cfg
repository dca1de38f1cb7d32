SPECIFICATION Spec
CONSTANTS
  a1 = a1  a2 = a2  b1 = b1  c1 = c1  c2 = c2
  Reservations = {a2, b1}
  Procs = {p1, p2}
  Categories = {1, 2}
  Bookings <- SinglesOfOneClient
  ClientOf <- ClientOfRow
  CategoryOf <- CategoryOfRow
  Duration <- DurationOfRow
  Capacity <- CapacityOfCategory
  Days = {0}
  DayLength = 6
  BaseSchedules <- OneSchedule
  Closures <- NoClosures
  Asked = {1}
  Elsewhere = {}
  Offered = {"book"}
  AnyCategory = AnyCategory
  Step = 1
  NoSlot = NoSlot
  None = None
SYMMETRY Handlers
INVARIANTS
  ClientNeverInTwoPlaces
CHECK_DEADLOCK FALSE
