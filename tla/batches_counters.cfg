SPECIFICATION Spec
CONSTANTS
  NSOCKETS = 2
  NCORES = 4
  NTHREADS = 8
  NPMC = 3
  CpuModels = {"4F"}
  TdpLevels = {0}
  RefusalSets <- FirstRefuses
  MaxRefusals = 0
  MaxCalls = 2
CHECK_DEADLOCK FALSE
INVARIANTS
  CountersStayProgrammed
