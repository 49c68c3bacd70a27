SPECIFICATION Spec
CONSTANTS
  Tasks = {t1, t2}
  Subsystems = {s1, s2}
  Mechanisms = {m}
  Aliases = {drive, arm}
  MaxNumber = 3
  None = None
INVARIANTS FirstTargetOwnsSerial
CHECK_DEADLOCK FALSE
