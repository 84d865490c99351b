SPECIFICATION FairTraceSpec
CONSTANTS
  Programs = {"var_monitor", "power_wrapper_static", "power_wrapper_dynamic"}
  Caps = {15, 30, 31, 42}
  None = None
  SocketCounts = {1, 2, 3}
  GpuCounts = {1, 2, 4, 7}
CHECK_DEADLOCK FALSE
INVARIANTS
  TypeOK
  ThreadWindsDown
  LimitsStayInBand
  TraceIsReadable
PROPERTIES
  MonitorEnds
