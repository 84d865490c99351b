SPECIFICATION Spec
CONSTANTS
  NSOCKETS = 2
  NCORES = 4
  NTHREADS = 8
  NPMC = 3
  CpuModels = {"2A", "3E", "3F", "55", "6A", "8F"}
  TdpLevels = {0, 2}
  RefusalSets <- FirstRefuses
  MaxRefusals = 1
  MaxCalls = 2
CHECK_DEADLOCK FALSE
INVARIANTS
  TypeOK
  OpsFit
  ReportsAreFresh
  OpsReachTheirRegister
  OtherBitsSurvive
  UnitsAreTheUnits
