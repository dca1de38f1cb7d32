SPECIFICATION ProgressSpec
CONSTANTS
  q1 = q1  q2 = q2
  e1 = e1
  c1 = c1  c2 = c2
  a1 = a1  b1 = b1  a2 = a2  b2 = b2
  NoUpload = NoUpload
  NoJob = NoJob
  Nobody = Nobody
  None = None
PROPERTIES
  EverythingSettles
CHECK_DEADLOCK FALSE
