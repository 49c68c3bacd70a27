SPECIFICATION Spec
CONSTANTS
  q1 = q1  q2 = q2  q3 = q3  q4 = q4  phone = phone
  None = None
  Requests <- FourRequests
  Devices <- OneDevice
SYMMETRY Interchangeable
INVARIANT ReuseEndsSession
CHECK_DEADLOCK FALSE
