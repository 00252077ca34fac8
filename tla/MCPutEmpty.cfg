\* Two puts and an empty, near and far; one of them may be killed, or one
\* clean-up call fail; the numbers of deleted inodes are reused.
CONSTANTS
  Putters = {p1, p2}
  Restorers = {}
  Deleters = {e1}
  Renamers = {}
  Emptiers = {e1}
  Dir = {"near", "far"}
  Local = {"near"}
  MaxName = 1
  Slot = {1, 2, 3}
  Obj = {1, 2, 3, 4}
  Stray = {}
  InfoId = {1, 2, 3}
  Data = {1, 2}
  Origin <- MCOrigin
  None = None
  Starts <- MCStartsHome
  MaxRuns = 1
  MaxMishaps = 1
  MaxEdits = 0
  HasFlock = TRUE
  HasRename2 = TRUE
  InodeReuse = TRUE
SPECIFICATION Spec
SYMMETRY MCSymmetry
INVARIANTS Exclusion InfoOrder OneHolder AtRest
PROPERTIES Promise
\* Each command runs a bounded number of times: the system stops.
CHECK_DEADLOCK FALSE
