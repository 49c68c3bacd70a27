SPECIFICATION Spec
CONSTANTS
  Tasks = {t1, t2}
  corrective = None
  Parts = {p1}
  Definitions = {d1}
  Revisions = {v1}
  Places = {shelf, robot}
  Risks = {}
  Findings = {}
  Dependencies = {e1, e2}
  None = None
  Scopes <- PlainScope
  RequiredStates <- FinishedOrNot
  MaxSequence = 2
  MaxLogs = 1
  MaxDocs = 0
  MaxRequests = 0
SYMMETRY Interchangeable
INVARIANTS DependenciesHold WaitingIsShown
