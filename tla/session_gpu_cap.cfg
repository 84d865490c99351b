SPECIFICATION Spec
CONSTANTS
  BuildSet <- IntelWithNvidia
  Calls = {"cap_each_gpu_power_limit"}
  Dev = {c0, c1}
  MaxAbandoned = 2
CHECK_DEADLOCK FALSE
INVARIANTS
  EverySupporterActs
