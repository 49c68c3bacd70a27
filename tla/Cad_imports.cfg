SPECIFICATION MCSpec
CONSTANTS
  p1 = p1  p2 = p2  p3 = p3  p4 = p4  p5 = p5
  r1 = r1  r2 = r2  f1 = f1
  root = root  sub = sub  mech = mech  comp = comp  plate = plate
  Parses = {p1, p2, p3, p4, p5}
  MaxConcurrency = 2
  MaxQueue = 2
  Nodes = {root, sub, mech, comp}
  Parts = {plate}
  Reviews = {r1, r2}
  Finals = {f1}
  Mechanism = Mechanism
  None = None  Nil = None  Missing = None
  Null = Null
  Graphs <- MCGraphs
  Decisions <- MCDecisions
  i1 = i1  i2 = i2  v = v
  Imports = {i1, i2}
  Renewals = {r0}
  Callbacks = {c1}
  Attempts = {a1}
  Versions = {v, x}
  Workspaces = {w}
  WithElement = {v, w}
  Env = Env
  StepFiles <- MCStepFiles
  Tables <- MCTables
  InstanceLists <- MCInstanceLists
  WorkspaceRecords <- MCWorkspaceRecords
CONSTRAINT Focus
INVARIANTS PoolIsSound RulesNeverConflict RecordsAgree FinalizedIsReviewed
           OnshapeHolds FilesAreKept ViewsAgree
PROPERTIES ReviewsStand ConnectionStands EveryRequestEnds
CHECK_DEADLOCK FALSE
