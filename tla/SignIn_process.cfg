SPECIFICATION MCSpec
CONSTANTS
  s1 = s1  s2 = s2  v1 = v1  v2 = v2  v3 = v3
  q1 = q1  q2 = q2  q3 = q3
  None = None
  Starts = {s1, s2}
  Verifies = {v1, v2, v3}
  WebRequests = {q1, q2, q3}
  MaxAttempts = 2
  QuickResend = TRUE
  u1 = u1  u2 = u2  u3 = u3  x1 = x1  light = light
  Addresses = {x1, x2}
  Accounts = {a1}
  Uploads = {u1, u2, u3}
  People = {p1, p2}
  Themes = {light, dark}
  MaxRequests = 2
  Window = 2
  Quota = 2
  Hour = 3
  MaxBytes = 2
  CleanupInterval = 1
  MaxTime = 3
CONSTRAINTS InOrder RequestsInAll Apart OneService
INVARIANTS TypesOK CodesHold EndsHold LimitsHold
PROPERTIES EveryRequestEnds
CHECK_DEADLOCK FALSE
