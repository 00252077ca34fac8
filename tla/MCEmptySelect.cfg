\* Every selection; sizes saturate at 7, and --max-size may be that limit.
CONSTANTS
  Trash = 2
  U64 = 7
  None = None
  Loads <- MCLoads
  Cutoffs <- MCCutoffs
  Maxima <- MCMaxima
SPECIFICATION Spec
INVARIANTS HandsOver Lazily
\* The command ends.
CHECK_DEADLOCK FALSE
