\* Two empties and a put, while another program moves a file without a
\* .trashinfo into files/, or saves or edits one of the user's.
CONSTANTS
  Putters = {p1}
  Restorers = {}
  Deleters = {e1, e2}
  Renamers = {}
  Emptiers = {e1, e2}
  Dir = {"near", "far"}
  Local = {"near"}
  MaxName = 1
  Slot = {1, 2, 3}
  Obj = {1, 2, 3, 4, 5}
  Stray = {5}
  InfoId = {1, 2, 3}
  Data = {1, 2, 3}
  Origin <- MCOrigin
  None = None
  Starts <- MCStartsTrashed
  MaxRuns = 1
  MaxMishaps = 0
  MaxEdits = 1
  HasFlock = TRUE
  HasRename2 = TRUE
  InodeReuse = TRUE
SPECIFICATION Spec
SYMMETRY MCSymmetryEmpties
INVARIANTS TypeOK AtRest
PROPERTIES Promise
\* Each command runs a bounded number of times: the system stops.
CHECK_DEADLOCK FALSE
