\* A put whose source cannot be removed, against a put and a restore.
CONSTANTS
  Putters = {p1, p2}
  Restorers = {r1}
  Deleters = {}
  Renamers = {r1}
  Emptiers = {}
  Dir = {"near", "far"}
  Local = {"near"}
  MaxName = 1
  Slot = {1, 2, 3}
  Obj = {1, 2, 3, 4}
  Stray = {}
  InfoId = {1, 2, 3}
  Data = {1, 2}
  Origin <- MCOrigin
  None = None
  Starts <- MCStartsHome
  MaxRuns = 1
  MaxMishaps = 0
  MaxEdits = 0
  HasFlock = TRUE
  HasRename2 = TRUE
  InodeReuse = FALSE
SPECIFICATION Spec
INVARIANTS RollbackOwn
\* Each command runs a bounded number of times: the system stops.
CHECK_DEADLOCK FALSE
