\* Two restores of one item and a put; one of them is killed; an empty.
CONSTANTS
  Putters = {p1}
  Restorers = {r1, r2}
  Deleters = {e1}
  Renamers = {r2}
  Emptiers = {e1}
  Dir = {"near", "far"}
  Local = {"near"}
  MaxName = 1
  Slot = {1, 2}
  Obj = {1, 2, 3, 4}
  Stray = {}
  InfoId = {1, 2, 3}
  Data = {1, 2}
  Origin <- MCOrigin
  None = None
  Starts <- MCStartsFar
  MaxRuns = 1
  MaxMishaps = 1
  MaxEdits = 0
  HasFlock = TRUE
  HasRename2 = TRUE
  InodeReuse = FALSE
SPECIFICATION Spec
INVARIANTS Survives
\* Each command runs a bounded number of times: the system stops.
CHECK_DEADLOCK FALSE
