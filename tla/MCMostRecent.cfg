\* Undo of what up to three invocations trashed, whose dates may go back.
CONSTANTS
  Path <- MCPath
  Trees <- MCTrees
  Where <- MCWhere
  Starts <- MCUndoes
SPECIFICATION Spec
INVARIANTS MostRecent
\* The command ends.
CHECK_DEADLOCK FALSE
