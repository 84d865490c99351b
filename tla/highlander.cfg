SPECIFICATION Spec
CONSTANTS
  Procs = {p1, p2, p3}
  Dirs = {d1, d2}
  None = None
  MayFail = TRUE
  MaxRemovals = 1
SYMMETRY Symmetry
CHECK_DEADLOCK FALSE
INVARIANTS
  TypeOK
  KCoversItsFoes
  FilesAreOfOneRun
  NamesAreCleaned
