CONSTANTS
  Ino <- MCIno
  Names <- MCNames
  Worlds <- MCWorlds
  Depth = 6
  None = None
SPECIFICATION Spec
INVARIANTS NoSideTrash RouteFound
PROPERTIES RightPlace HoldsNothing NotAgain NeverCrosses
\* The command ends.
CHECK_DEADLOCK FALSE
