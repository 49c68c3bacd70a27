SPECIFICATION Spec
CONSTANTS
  None = None
  Starts = {s1, s2}
  Verifies = {v1}
  MaxAttempts = 2
  QuickResend = FALSE
PROPERTY AcceptedCodeStays
CHECK_DEADLOCK FALSE
