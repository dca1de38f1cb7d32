SPECIFICATION Spec
CONSTANTS
  MinutesPerDay = 8
  Grid = 2
  AnyCategory = AnyCategory
  MaxExceptions = 2
  Step = 2
  NoSlot = NoSlot
  First = {a1, a2, a3}
  Second = {b1}
  Capacity = 2
SYMMETRY Interchangeable
INVARIANTS
  OpenTimeIsExact
  PeakIsExact
  OffersAreBooked
  RelocationIsAccepted
PROPERTIES
  BlockNeverHastens
CHECK_DEADLOCK FALSE
