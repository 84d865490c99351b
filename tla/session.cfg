SPECIFICATION FairSpec
CONSTANTS
  BuildSet <- Builds
  Calls <- ApiNames
  Dev = {c0, c1}
  MaxAbandoned = 2
CHECK_DEADLOCK FALSE
INVARIANTS
  TypeOK
  ZeroIsEarned
  SkippersReachSupporters
  LeaksAreAbandonedCalls
PROPERTIES
  PointersFindTheirPlatform
  KeepsMsrProtocol
  CallsReturn
