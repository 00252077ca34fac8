\* Two restores of one item, one with --rename, and a put, while another
\* program saves or edits a file.
CONSTANTS
  Putters = {p1}
  Restorers = {r1, r2}
  Deleters = {}
  Renamers = {r2}
  Emptiers = {}
  Dir = {"near", "far"}
  Local = {"near"}
  MaxName = 1
  Slot = {1, 2, 3}
  Obj = {1, 2, 3, 4, 5, 6}
  Stray = {}
  InfoId = {1, 2, 3}
  Data = {1, 2, 3, 4}
  Origin <- MCOrigin
  None = None
  Starts <- MCStartsTrashed
  MaxRuns = 1
  MaxMishaps = 0
  MaxEdits = 1
  HasFlock = TRUE
  HasRename2 = TRUE
  InodeReuse = FALSE
SPECIFICATION Spec
INVARIANTS OneHolder NoLoss
\* Each command runs a bounded number of times: the system stops.
CHECK_DEADLOCK FALSE
