\* Undo of every batch of the five items, restore and purge of up to three
\* arguments, over every tree, with and without --rename.
CONSTANTS
  Path <- MCPath
  Trees <- MCTrees
  Where <- MCWhere
  Starts <- MCStarts
SPECIFICATION Spec
INVARIANTS NoFabrication NoSelfConflict RollsBack UndoesLast AsNamed StaysBeneath FirstWordDecides
PROPERTIES OnceBack
\* The command ends.
CHECK_DEADLOCK FALSE
