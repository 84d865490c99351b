---------------------------- MODULE IntelPlans ----------------------------
(***************************************************************************)
(* What each entry point of the Intel processors (src/variorum/Intel) does *)
(* with the batches of msr_core.c, as a plan: the sequence of its steps.   *)
(* Every feature keeps its batches behind static flags, so that whichever  *)
(* entry point comes first allocates and loads what all of them share: a   *)
(* step that runs once holds the steps it guards.                          *)
(*                                                                         *)
(* Reads of one register that is printed at once (power limits, power      *)
(* information) leave no trace in the library and are not steps.           *)
(***************************************************************************)
EXTENDS MsrBatch

\* Steps.
Once(flag, then) == <<[do |-> "once", flag |-> flag, then |-> then]>>
Allocate(b, n) == <<[do |-> "allocate", b |-> b, n |-> n]>>
Load(b, msr, cpus) == <<[do |-> "load", b |-> b, msr |-> msr, cpus |-> cpus]>>
Read(b) == <<[do |-> "read", b |-> b, then |-> << >>]>>
Write(b) == <<[do |-> "write", b |-> b]>>
Put(b, msrs, how) == <<[do |-> "put", b |-> b, msrs |-> msrs, how |-> how]>>
Show(b) == <<[do |-> "show", b |-> b]>>
\* read_batch whose result is tested: what follows is for a good read only.
Check(b, then) == <<[do |-> "check", b |-> b, then |-> then]>>
\* What the code does only if socket 0 and socket 1 hold the same value.
Agree(then) == <<[do |-> "agree", then |-> then]>>
TakeUnits == <<[do |-> "take_units"]>>
Convert == <<[do |-> "convert"]>>
Levels(two, one, none) == <<[do |-> "levels", then |-> <<none, one, two>>]>>
Dereference == <<[do |-> "crash"]>>
CapSocket(s) == [do |-> "cap", socket |-> s]
TurboSocket(s) == [do |-> "turbo", socket |-> s]

\* A batch of one operation per socket, loaded the first time.
SocketStorage(b, msr) == Once(b, Allocate(b, NSOCKETS) \o Load(b, msr, SocketCpus))

\* Load operations for registers n-1 down to 0 of an array.
LoadDown(b, name, n, cpus) == [k \in 1..n |-> Load(b, <<name, n - k>>, cpus)[1]]
LoadUp(b, name, n, cpus) == [k \in 1..n |-> Load(b, <<name, k - 1>>, cpus)[1]]

-----------------------------------------------------------------------------
\* Counters.
FixedCtrs == Registers("FIXED_CTR", 3)

fixed_counter_storage ==
  Once("fixed_counter_storage", Allocate("FIXED_COUNTERS_DATA", 3 * NTHREADS)
         \o LoadUp("FIXED_COUNTERS_DATA", "FIXED_CTR", 3, ThreadCpus))

fixed_counter_ctrl_storage ==
  Once("fixed_counter_ctrl_storage", Allocate("FIXED_COUNTERS_CTRL_DATA", 2 * NTHREADS)
         \o Load("FIXED_COUNTERS_CTRL_DATA", R("PERF_GLOBAL_CTRL"), ThreadCpus)
         \o Load("FIXED_COUNTERS_CTRL_DATA", R("FIXED_CTR_CTRL"), ThreadCpus))

\* Fault: the control registers are set without having been read.
SetsUnread ==
  fixed_counter_ctrl_storage
    \o Put("FIXED_COUNTERS_DATA", FixedCtrs, "zero")
    \o Put("FIXED_COUNTERS_CTRL_DATA", {R("PERF_GLOBAL_CTRL"), R("FIXED_CTR_CTRL")}, "field")
    \o Write("FIXED_COUNTERS_CTRL_DATA")

\* The counters are zeroed in memory only; the control fields in the registers.
set_fixed_counter_ctrl ==
  fixed_counter_ctrl_storage
    \o Read("FIXED_COUNTERS_CTRL_DATA")
    \o Put("FIXED_COUNTERS_DATA", FixedCtrs, "zero")
    \o Put("FIXED_COUNTERS_CTRL_DATA", {R("PERF_GLOBAL_CTRL"), R("FIXED_CTR_CTRL")}, "field")
    \o Write("FIXED_COUNTERS_CTRL_DATA")

enable_fixed_counters == fixed_counter_storage \o set_fixed_counter_ctrl

print_fixed_counter_data ==
  fixed_counter_storage \o Read("FIXED_COUNTERS_DATA") \o Show("FIXED_COUNTERS_DATA")

init_pmc == Allocate("COUNTERS_DATA", NPMC * NTHREADS)
              \o LoadDown("COUNTERS_DATA", "PERFMON", NPMC, ThreadCpus)
pmc_storage == Once("pmc_storage", init_pmc)

init_perfevtsel == Allocate("COUNTERS_CTRL", NPMC * NTHREADS)
                     \o LoadDown("COUNTERS_CTRL", "PERFEVTSEL", NPMC, ThreadCpus)
perfevtsel_storage == Once("perfevtsel_storage", init_perfevtsel)

\* The selector of a counter is put together from 0; those no call sets are
\* written as they were allocated.
set_all_pmc_ctrl(pmcnum) ==
  perfevtsel_storage \o Put("COUNTERS_CTRL", {<<"PERFEVTSEL", pmcnum - 1>>}, "whole")

clear_all_pmc == pmc_storage \o Put("COUNTERS_DATA", PerfMon, "zero") \o Write("COUNTERS_DATA")

enable_pmc == perfevtsel_storage \o Write("COUNTERS_CTRL") \o clear_all_pmc

\* The plain and the long form each program the counters once, on their own.
print_perfmon_counter_data(form) ==
  Once(form, set_all_pmc_ctrl(1) \o set_all_pmc_ctrl(2) \o enable_pmc \o pmc_storage)
    \o Read("COUNTERS_DATA") \o Show("COUNTERS_DATA")

unc_perfevtsel_storage ==
  Once("unc_perfevtsel_storage", Allocate("UNCORE_EVTSEL", 4 * NSOCKETS)
         \o LoadUp("UNCORE_EVTSEL", "PCU_EVTSEL", 4, SocketCpus))

\* Every model passes ia32_perfevtsel_counters for msrs_pcu_pmon_ctrs.
unc_counters_storage ==
  Once("unc_counters_storage", Allocate("UNCORE_COUNT", 4 * NSOCKETS)
         \o LoadUp("UNCORE_COUNT", "PERFEVTSEL", 4, SocketCpus))

clear_all_pcu == unc_counters_storage
                   \o Put("UNCORE_COUNT", Registers("PERFEVTSEL", 4), "zero") \o Write("UNCORE_COUNT")
enable_pcu == unc_perfevtsel_storage \o Write("UNCORE_EVTSEL") \o clear_all_pcu

\* Nothing reads the uncore counters.
print_unc_counter_data ==
  unc_counters_storage \o Once("print_unc_counter_data", enable_pcu) \o Show("UNCORE_COUNT")
print_verbose_unc_counter_data == unc_counters_storage \o enable_pcu \o Show("UNCORE_COUNT")

print_verbose_fixed_counter_data == print_fixed_counter_data
print_verbose_perfmon_counter_data == print_perfmon_counter_data("print_verbose_perfmon")

print_all_counter_data ==
  print_fixed_counter_data \o print_perfmon_counter_data("print_perfmon")
    \o print_unc_counter_data
print_verbose_all_counter_data ==
  print_verbose_fixed_counter_data \o print_verbose_perfmon_counter_data
    \o print_verbose_unc_counter_data

-----------------------------------------------------------------------------
\* Ratios, clocks and frequencies.

\* get_max_non_turbo_ratio, get_max_efficiency_ratio, get_min_operating_ratio:
\* what the caller does with a ratio, it does with a good one only.
ratio(b, then) == SocketStorage(b, R("PLATFORM_INFO")) \o Check(b, Agree(then))

get_max_non_turbo_ratio(then) == ratio("PLATFORM_INFO", then)
get_max_efficiency_ratio(then) == ratio("MAX_EFFICIENCY", then)
get_min_operating_ratio(then) == ratio("MIN_OPERATING_RATIO", then)

\* get_turbo_ratio_limits and, with the other register, get_turbo_ratio_limits_skx.
get_turbo_ratio_limits(b2) ==
  Once("get_turbo_ratio_limits", Allocate("TURBO_RATIO_LIMIT", NSOCKETS) \o Allocate(b2, NSOCKETS)
         \o Load("TURBO_RATIO_LIMIT", R("TURBO_RATIO_LIMIT"), SocketCpus)
         \o Load(b2, R(b2), SocketCpus))
    \o Read("TURBO_RATIO_LIMIT") \o Read(b2)
    \o Agree(Show("TURBO_RATIO_LIMIT") \o Show(b2))

\* Its batch keeps the register of the level that was asked for first.
config_tdp(level) ==
  SocketStorage("TDP_CONFIG", R(level)) \o Check("TDP_CONFIG", Agree(Show("TDP_CONFIG")))

\* The addresses of the two levels are read only when the processor has them.
get_avx_limits(haslevels) ==
  LET level(l) == IF haslevels THEN config_tdp(l) ELSE Dereference
  IN SocketStorage("TDP_DEFS", R("PLATFORM_INFO"))
       \o Check("TDP_DEFS", Levels(level("CONFIG_TDP_LEVEL2"), level("CONFIG_TDP_LEVEL1"),
                                   get_max_non_turbo_ratio(Show("PLATFORM_INFO"))))

\* The models 2A and 2D have no second turbo register, and pass NULL.
get_available_frequencies(b2, haslimit1, haslevels) ==
  (IF haslimit1 THEN get_turbo_ratio_limits(b2) ELSE Dereference)
    \o get_avx_limits(haslevels)
    \o get_max_non_turbo_ratio(Show("PLATFORM_INFO"))
    \o get_max_efficiency_ratio(Show("MAX_EFFICIENCY"))
    \o get_min_operating_ratio(Show("MIN_OPERATING_RATIO"))
get_available_frequencies_skx ==
  get_available_frequencies("TURBO_RATIO_LIMIT_CORES", TRUE, TRUE)

\* Fault: room for two registers, three are loaded.
ClocksTooSmall ==
  Once("clocks_storage", Allocate("CLOCKS_DATA", 2 * NTHREADS)
         \o Load("CLOCKS_DATA", R("APERF"), ThreadCpus) \o Load("CLOCKS_DATA", R("MPERF"), ThreadCpus)
         \o Load("CLOCKS_DATA", R("TIME_STAMP_COUNTER"), ThreadCpus))

clocks_storage ==
  Once("clocks_storage", Allocate("CLOCKS_DATA", 3 * NTHREADS)
         \o Load("CLOCKS_DATA", R("APERF"), ThreadCpus) \o Load("CLOCKS_DATA", R("MPERF"), ThreadCpus)
         \o Load("CLOCKS_DATA", R("TIME_STAMP_COUNTER"), ThreadCpus))

\* Twice the room that is used.
perf_storage == Once("perf_storage", Allocate("PERF_DATA", 2 * NSOCKETS)
                                       \o Load("PERF_DATA", R("PERF_STATUS"), SocketCpus))

clocks_report == Read("CLOCKS_DATA") \o Read("PERF_DATA") \o Show("PLATFORM_INFO")
                   \o Show("CLOCKS_DATA") \o Show("PERF_DATA")

\* The plain form has a flag of its own, the long and the JSON form have none.
print_clocks_data ==
  get_max_non_turbo_ratio(Once("print_clocks_data", clocks_storage \o perf_storage) \o clocks_report)
print_verbose_clocks_data ==
  get_max_non_turbo_ratio(clocks_storage \o perf_storage \o clocks_report)
get_clocks_data_json == print_verbose_clocks_data

perf_storage_temp(msr) ==
  Once("perf_storage_temp", Allocate("PERF_CTRL", 2 * NTHREADS) \o Load("PERF_CTRL", msr, ThreadCpus))

\* Domain CORE, the only one that is used.  The request is the frequency and
\* nothing else: the register is not read before.
cap_p_state(msr) == Once("cap_p_state", perf_storage_temp(msr))
                      \o Put("PERF_CTRL", {msr}, "whole") \o Write("PERF_CTRL") \o Read("PERF_CTRL")

\* The register the model passes is IA32_PERF_STATUS.
cap_frequency == cap_p_state(R("PERF_STATUS"))

-----------------------------------------------------------------------------
\* Temperatures.
get_temp_target == SocketStorage("TEMP_TARGET", R("TEMPERATURE_TARGET"))
                     \o Read("TEMP_TARGET") \o Show("TEMP_TARGET")
\* Fault: the registers are read by the first call only.
ThermStatReadOnce == Once("get_therm_stat", Allocate("THERM_STAT", NTHREADS)
                                              \o Load("THERM_STAT", R("THERM_STATUS"), ThreadCpus)
                                              \o Read("THERM_STAT"))
                       \o Show("THERM_STAT")

get_therm_stat == Once("get_therm_stat", Allocate("THERM_STAT", NTHREADS)
                                           \o Load("THERM_STAT", R("THERM_STATUS"), ThreadCpus))
                    \o Read("THERM_STAT") \o Show("THERM_STAT")
get_pkg_therm_stat == SocketStorage("PKG_THERM_STAT", R("PACKAGE_THERM_STATUS"))
                        \o Read("PKG_THERM_STAT") \o Show("PKG_THERM_STAT")

\* The plain, the long and the JSON form take the same steps.
print_therm_temp_reading == get_pkg_therm_stat \o get_temp_target \o get_therm_stat
print_verbose_therm_temp_reading == print_therm_temp_reading

-----------------------------------------------------------------------------
\* Power and energy.
get_rapl_power_unit(msr) == SocketStorage("RAPL_UNIT", msr) \o Read("RAPL_UNIT")

\* The first conversion reads the units; later ones use what it read.  msr is
\* what the caller says the unit register is.
translate(msr) == Once("translate", get_rapl_power_unit(msr) \o TakeUnits) \o Convert

create_rapl_data_batch == Allocate("RAPL_DATA", 2 * NSOCKETS)
                            \o Load("RAPL_DATA", R("PKG_ENERGY_STATUS"), SocketCpus)
                            \o Load("RAPL_DATA", R("DRAM_ENERGY_STATUS"), SocketCpus)

read_rapl_data == Once("read_rapl_data", create_rapl_data_batch)
                    \o Read("RAPL_DATA") \o translate(R("RAPL_POWER_UNIT"))
get_power == read_rapl_data

\* The fields of a limit, power and time window, from the same units: bits that
\* were read, or bits to be written.
calc_rapl_from_bits(msr) == translate(msr)
calc_rapl_bits(msr) == translate(msr)

\* A package has a lower and an upper limit, the memory one.
calc_package_rapl_limit(limit1, limit2) == limit1 \o limit2
calc_dram_rapl_limit(limit) == limit
get_package_rapl_limit == calc_package_rapl_limit(calc_rapl_from_bits(R("RAPL_POWER_UNIT")),
                                                  calc_rapl_from_bits(R("RAPL_POWER_UNIT")))
get_dram_rapl_limit == calc_dram_rapl_limit(calc_rapl_from_bits(R("RAPL_POWER_UNIT")))

\* The information registers are passed where the unit register is meant.
get_rapl_pkg_power_info == translate(R("PKG_POWER_INFO"))
get_rapl_dram_power_info == translate(R("DRAM_POWER_INFO"))

print_rapl_power_unit == get_rapl_power_unit(R("RAPL_POWER_UNIT")) \o Show("RAPL_UNIT")

\* The same for each socket, and in the long form.
print_package_power_limit == get_package_rapl_limit
print_verbose_package_power_limit == print_package_power_limit
print_dram_power_limit == get_dram_rapl_limit
print_verbose_dram_power_limit == print_dram_power_limit
print_package_power_info == get_rapl_pkg_power_info
print_dram_power_info == get_rapl_dram_power_info

\* What is printed of the memory besides the package: its limit, its information.
get_power_limits(dram) ==
  print_package_power_limit
    \o (IF "limit" \in dram THEN print_dram_power_limit ELSE << >>)
    \o print_package_power_info
    \o (IF "info" \in dram THEN print_dram_power_info ELSE << >>)
    \o print_rapl_power_unit

\* The lower limit alone is set, on each socket in turn; the results are ignored.
cap_package_power_limit(s) ==
  calc_package_rapl_limit(calc_rapl_bits(R("RAPL_POWER_UNIT")), << >>) \o <<CapSocket(s)>>
cap_power_limits ==
  LET n == Len(cap_package_power_limit(0))
  IN [k \in 1..n * NSOCKETS |-> cap_package_power_limit((k - 1) \div n)[1 + ((k - 1) % n)]]

print_power_data == get_power \o Show("RAPL_DATA")
json_get_power_data == get_power \o get_package_rapl_limit \o Show("RAPL_DATA")
print_energy_data == get_power \o Show("RAPL_DATA")

\* Fault: the information comes before the limits.
InfoBeforeLimits == get_rapl_pkg_power_info \o get_rapl_dram_power_info \o get_package_rapl_limit

\* The limits come first: they bring the units in from the right register.
json_get_power_domain_info == get_package_rapl_limit \o get_rapl_pkg_power_info
                                \o get_rapl_dram_power_info

get_all_power_data == get_power \o Once("get_all_power_data", get_package_rapl_limit \o get_dram_rapl_limit)
                        \o Show("RAPL_DATA")

get_all_power_data_fixed ==
  get_power
    \o Once("get_all_power_data_fixed", fixed_counter_storage \o enable_fixed_counters
              \o clocks_storage \o get_package_rapl_limit \o get_dram_rapl_limit)
    \o Read("FIXED_COUNTERS_DATA") \o Read("CLOCKS_DATA")
    \o get_package_rapl_limit \o get_dram_rapl_limit
    \o Show("RAPL_DATA") \o Show("FIXED_COUNTERS_DATA") \o Show("CLOCKS_DATA")

-----------------------------------------------------------------------------
\* Turbo: the register of one socket after the other, until one refuses.
set_turbo == [k \in 1..NSOCKETS |-> TurboSocket(k - 1)]
set_turbo_on == set_turbo
set_turbo_off == set_turbo
=============================================================================
