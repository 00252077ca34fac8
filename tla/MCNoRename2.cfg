\* Two puts and a restore on a filesystem that has neither
\* RENAME_NOREPLACE nor flock.
CONSTANTS
  Putters = {p1, p2}
  Restorers = {r1}
  Deleters = {}
  Renamers = {}
  Emptiers = {}
  Dir = {"near", "far"}
  Local = {"near"}
  MaxName = 1
  Slot = {1, 2, 3}
  Obj = {1, 2, 3, 4, 5, 6}
  Stray = {}
  InfoId = {1, 2, 3}
  Data = {1, 2}
  Origin <- MCOrigin
  None = None
  Starts <- MCStartsTrashed
  MaxRuns = 1
  MaxMishaps = 0
  MaxEdits = 0
  HasFlock = FALSE
  HasRename2 = FALSE
  InodeReuse = FALSE
SPECIFICATION Spec
SYMMETRY MCSymmetry
PROPERTIES NoOverwrite
\* Each command runs a bounded number of times: the system stops.
CHECK_DEADLOCK FALSE
