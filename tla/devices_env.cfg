SPECIFICATION FairMsrSpec
CONSTANTS
  NThreads = 2
  MaxFd = 4
  Unwritten = {0, 7}
  NodeStates = {"absent", "denied", "unopenable", "ok"}
  AllowStates = {"absent", "denied", "ok"}
  MaskInitError = FALSE
  MaxLeftOpen = 1
CHECK_DEADLOCK FALSE
INVARIANTS
  MsrTypeOK
  AccessReachesOwnDevice
  LeaksOnlyWhenAbandoned
PROPERTIES
  FinalizeClosesOnlyMsr
  ImplementsMsrModule
  LoopsEnd
