SPECIFICATION Spec
CONSTANTS
  NSOCKETS = 2
  NCORES = 3
  NGPUS = 5
  Requests <- MCRequests
  CEILING = 4
  MaxCalls = 2
  MaxRefusals = 2
INVARIANTS
  TypeOK
  ReportsAreTrue
  CapsAreAsAsked
  GivesBack
PROPERTY NodeCapHolds
\* a program stops calling, or its process ends
CHECK_DEADLOCK FALSE
