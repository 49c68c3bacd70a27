SPECIFICATION Spec
CONSTANTS
  Tasks = {t1, t2}
  corrective = None
  Parts = {p1}
  Definitions = {d1}
  Revisions = {v1}
  Places = {shelf}
  Risks = {}
  Findings = {}
  Dependencies = {}
  None = None
  Scopes <- PlainScope
  RequiredStates <- Finished
  MaxSequence = 1
  MaxLogs = 0
  MaxDocs = 0
  MaxRequests = 2
PROPERTIES ClosesOnlyItsRequest
