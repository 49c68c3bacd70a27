\* What sequences of requests do to the structure, the purchases, the people
\* and the dates of a workspace.
SPECIFICATION WorkspaceSpec
CONSTANTS
  s1 = s1 s2 = s2 s3 = s3 m1 = m1 m2 = m2 p = p q = q i1 = i1 i2 = i2 o1 = o1 o2 = o2
  a = a b = b c = c g1 = g1 g2 = g2 here = here there = there
  k1 = k1 k2 = k2 p1 = p1 p2 = p2 x1 = x1 x2 = x2 x3 = x3 core = core
  Projects = {p, q}
  Subsystems = {core, s1, s2, s3}
  Cores = {core}
  Mechanisms = {m1, m2}
  Definitions = {d}
  Parts = {x}
  Tasks = {t}
  Purchases = {i1, i2}
  MaxRecords = 3
  Materials = {steel}
  Operations = {o1, o2}
  Places = {here, there}
  MaxQuantity = 2
  Members = {a, b, c}
  Teams = {g1, g2}
  Roles = {"student", "mentor", "admin"}
  Seasons = {k1, k2}
  TeamProjects = {p1, p2}
  TeamSeason <- MCTeamSeason
  TeamSubsystems = {core}
  ProjectOf <- MCProjectOf
  CalendarProjects = {x1, x2, x3}
  CalendarSeason <- MCCalendarSeason
  Milestones = {launch}
  Meetings = {weekly}
  Workstreams = {stream}
  Results = {trial}
  None = None
CONSTRAINTS FewPlaces FewPurchases FewPeople FewDates
SYMMETRY Interchangeable
INVARIANTS WorkspaceTypesOK StructureHolds ReferencesHold NothingIsHidden
  ReceiptsAddUp PeopleAgree CalendarAgrees
PROPERTIES DecisionsStand
CHECK_DEADLOCK FALSE
