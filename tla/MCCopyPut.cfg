\* Trees of up to four entries, with two calls of other programs, or with flaws
\* and nobody about.
CONSTANTS
  Ino <- MCIno
  Name = {"a", "b"}
  Path <- MCPath
  Parent = 1
  Arg = "a"
  Trees <- MCTrees
  None = None
SPECIFICATION Spec
INVARIANTS RemovedKept AllOrNothing Reported
\* The command ends.
CHECK_DEADLOCK FALSE
