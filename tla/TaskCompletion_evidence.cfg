SPECIFICATION Spec
CONSTANTS
  Tasks = {t1, t2}
  corrective = t2
  Parts = {p1}
  Definitions = {d1, d2}
  Revisions = {v1, v2}
  Places = {shelf}
  Risks = {r1}
  Findings = {f1}
  Dependencies = {}
  None = None
  Scopes <- AnyScope
  RequiredStates <- Finished
  MaxSequence = 2
  MaxLogs = 1
  MaxDocs = 1
  MaxRequests = 1
SYMMETRY Interchangeable
CONSTRAINT OneTaskOrCorrections
INVARIANTS TypeOK CompletedWorkIsBacked CorrectiveHistoryIntact
PROPERTIES ObsoleteReviewsStayObsolete
