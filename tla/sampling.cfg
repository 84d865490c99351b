SPECIFICATION Spec
CONSTANTS
  Interval = 3
  UintSpan = 8
  NSOCKETS = 1
  CounterSpan = 6
  PkgUnit = 4
  StdUnit = 1
  Archs = {"std", "own"}
  MaxUse = 1
  MaxDelay = 1
  MaxTime = 11
  MaxSet = 2
  MaxSets = 1
  MaxRefusals = 1
  MaxSamples = 4
CHECK_DEADLOCK FALSE
INVARIANTS
  TypeOK
  WindowsAddUp
  KeepsThePace
  NoTurnIsMissed
