SPECIFICATION FairSpec
CONSTANTS
  u1 = u1  u2 = u2
  r1 = r1  r2 = r2  r3 = r3  r4 = r4
  NoUser = NoUser  None = None  Partial = Partial
  Users <- TwoUsers
  Requests <- FourRequests
  UserOf <- SignedIn
  AuthEnabled = TRUE
CONSTRAINT InOrder
INVARIANTS
  TypeOK EditsAreDurable DestinationStaysCurrent TutorialIsolation
PROPERTIES ImplementsLedger EveryRequestEnds
