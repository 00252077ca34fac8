\* A put, a restore --rename and an empty; one may be killed, or one clean-up
\* call fail: every command comes to its end, nothing is lost or left over, and
\* the empty collects what was left in .rip-staging.
CONSTANTS
  Putters = {p1}
  Restorers = {r1}
  Deleters = {e1}
  Renamers = {r1}
  Emptiers = {e1}
  Dir = {"near", "far"}
  Local = {"near"}
  MaxName = 1
  Slot = {1, 2}
  Obj = {1, 2, 3, 4, 5}
  Stray = {}
  InfoId = {1, 2, 3}
  Data = {1, 2}
  Origin <- MCOrigin
  None = None
  Starts <- MCStartsTrashed
  MaxRuns = 1
  MaxMishaps = 1
  MaxEdits = 0
  HasFlock = TRUE
  HasRename2 = TRUE
  InodeReuse = FALSE
SPECIFICATION FairSpec
INVARIANTS AtRest
PROPERTIES Terminates Swept Promise
\* Each command runs a bounded number of times: the system stops.
CHECK_DEADLOCK FALSE
