SPECIFICATION Spec
CONSTANTS
  NSOCKETS = 2
  NCORES = 4
  NTHREADS = 8
  NPMC = 3
  CpuModels = {"55"}
  TdpLevels = {0}
  RefusalSets <- FirstRefuses
  MaxRefusals = 0
  MaxCalls = 1
CHECK_DEADLOCK FALSE
INVARIANTS
  FrequencyCapTakesEffect
