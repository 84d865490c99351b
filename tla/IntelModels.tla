---------------------------- MODULE IntelModels ----------------------------
(***************************************************************************)
(* The nine Intel processors (Intel_06_2A.c to Intel_06_9E.c): which       *)
(* registers the table of each names, and the plan of each of its entry    *)
(* points, by the field of struct platform that points to it.  The long    *)
(* form of a feature has the plan of the plain one unless it is listed as  *)
(* verbose; print_features prints the table and reads nothing.             *)
(*                                                                         *)
(* The definitions of a model follow its file, some functions each.        *)
(***************************************************************************)
EXTENDS IntelPlans

T == INSTANCE PlatformTable

\* A platform has the features of two tables.
f ++ g == [x \in DOMAIN f \union DOMAIN g |-> IF x \in DOMAIN f THEN f[x] ELSE g[x]]

\* Registers of the tables.
Rapl == {"PLATFORM_INFO", "TIME_STAMP_COUNTER", "RAPL_POWER_UNIT", "PKG_POWER_LIMIT",
         "PKG_ENERGY_STATUS", "PKG_POWER_INFO", "DRAM_POWER_INFO"}
Dram == {"DRAM_ENERGY_STATUS", "DRAM_POWER_LIMIT"}
Fixed == {"FIXED_CTR", "FIXED_CTR_CTRL", "PERF_GLOBAL_CTRL", "MPERF", "APERF"}
Core == Rapl \union Fixed
          \union {"PERFMON", "PERFEVTSEL", "PERF_STATUS", "PERF_CTL", "TEMPERATURE_TARGET",
                  "THERM_STATUS", "PACKAGE_THERM_STATUS", "MISC_ENABLE", "TURBO_RATIO_LIMIT"}
TdpLevel == {"CONFIG_TDP_LEVEL1", "CONFIG_TDP_LEVEL2"}

\* What the models have in common.
Limits(dram) == [print_power_limit |-> get_power_limits(dram),
                 cap_each_socket_power_limit |-> cap_power_limits]
Shown == [print_features |-> << >>, print_thermals |-> print_therm_temp_reading]
Counters == [print_counters |-> print_all_counter_data,
             print_verbose_counters |-> print_verbose_all_counter_data]
Clocks == [print_frequency |-> print_clocks_data, print_verbose_frequency |-> print_verbose_clocks_data]
ClocksJson == [get_frequency_json |-> get_clocks_data_json]
Power == [print_power |-> print_power_data]
Turbo == [enable_turbo |-> set_turbo_on, disable_turbo |-> set_turbo_off, print_turbo |-> << >>]
Poll == [poll_power |-> get_all_power_data]
Monitoring == [monitoring |-> get_all_power_data_fixed]
PowerJson == [get_power_json |-> json_get_power_data]
DomainJson == [get_node_power_domain_info_json |-> json_get_power_domain_info]
ThermalsJson == [get_thermals_json |-> print_therm_temp_reading]
\* The limit of the node is divided among the sockets.
BestEffort == [cap_best_effort_node_power_limit |-> cap_power_limits]
\* The addresses of registers a model lacks are NULL; the 2D has limit1 and passes NULL.
Available(limit1, haslimit1, haslevels) ==
  [print_available_frequencies |-> get_available_frequencies(limit1, haslimit1, haslevels)]
AvailableSkx == [print_available_frequencies |-> get_available_frequencies_skx]
CapFrequency == [cap_each_core_frequency_limit |-> cap_frequency]
Energy == [print_energy |-> print_energy_data, get_energy_json |-> print_energy_data]

-----------------------------------------------------------------------------
\* Sandy Bridge.
msrs_2a == Core
limits_2a == Limits({"limit", "info"})
shown_2a == Shown
measured_2a == Counters ++ Clocks ++ ClocksJson ++ Power ++ Turbo
monitored_2a == Poll ++ Monitoring ++ PowerJson ++ DomainJson ++ ThermalsJson ++ BestEffort
available_2a == Available("TURBO_RATIO_LIMIT1", FALSE, FALSE) ++ Energy

msrs_2d == Core \union {"TURBO_RATIO_LIMIT1"}
limits_2d == Limits({"limit", "info"})
shown_2d == Shown
measured_2d == Counters ++ Clocks ++ ClocksJson ++ Power ++ Turbo
monitored_2d == Poll ++ Monitoring ++ PowerJson ++ DomainJson ++ ThermalsJson ++ BestEffort
available_2d == Available("TURBO_RATIO_LIMIT1", FALSE, FALSE) ++ Energy

\* Ivy Bridge.
msrs_3e == Core \union Dram \union {"TURBO_RATIO_LIMIT1", "PCU_EVTSEL"}
limits_3e == Limits({"limit", "info"})
shown_3e == Shown
measured_3e == Counters ++ Clocks ++ ClocksJson ++ Power ++ Turbo
monitored_3e == Poll ++ Monitoring ++ PowerJson ++ DomainJson ++ ThermalsJson ++ BestEffort
available_3e == Available("TURBO_RATIO_LIMIT1", TRUE, FALSE) ++ Energy

\* Haswell.
msrs_3f == Core \union Dram \union TdpLevel \union {"TURBO_RATIO_LIMIT1"}
limits_3f == Limits({"limit", "info"})
shown_3f == Shown
measured_3f == Counters ++ Clocks ++ ClocksJson ++ Power ++ Turbo
monitored_3f == Poll ++ Monitoring ++ PowerJson ++ DomainJson ++ ThermalsJson ++ BestEffort
available_3f == Available("TURBO_RATIO_LIMIT1", TRUE, TRUE) ++ Energy

\* Broadwell.
msrs_4f == Core \union Dram \union TdpLevel \union {"TURBO_RATIO_LIMIT1", "PCU_EVTSEL"}
limits_4f == Limits({"limit", "info"})
shown_4f == Shown
measured_4f == Counters ++ Clocks ++ ClocksJson ++ Power ++ Turbo
monitored_4f == Poll ++ Monitoring ++ PowerJson ++ DomainJson ++ ThermalsJson ++ BestEffort
available_4f == Available("TURBO_RATIO_LIMIT1", TRUE, TRUE) ++ Energy

\* Skylake and Kaby Lake: turbo and the limit of the memory are left out.
msrs_55 == Core \union Dram \union TdpLevel \union {"TURBO_RATIO_LIMIT_CORES"}
limits_55 == Limits({"info"})
shown_55 == Shown
measured_55 == Counters ++ Clocks ++ ClocksJson ++ Power ++ Poll ++ Monitoring ++ PowerJson
monitored_55 == DomainJson ++ ThermalsJson ++ BestEffort ++ CapFrequency
available_55 == AvailableSkx ++ Energy

msrs_9e == Core \union Dram \union TdpLevel \union {"TURBO_RATIO_LIMIT_CORES"}
limits_9e == Limits({"info"})
shown_9e == Shown
measured_9e == Counters ++ Clocks ++ Power ++ Poll ++ Monitoring ++ PowerJson
monitored_9e == DomainJson ++ ThermalsJson ++ ClocksJson ++ BestEffort
available_9e == AvailableSkx ++ Energy

\* Ice Lake and Sapphire Rapids print power and energy only.
msrs_6a == Rapl \union Dram
limits_6a == [print_power_limit |-> get_power_limits({}), print_features |-> << >>]
power_6a == Power ++ PowerJson ++ DomainJson ++ Energy

msrs_8f == Rapl \union Dram \union Fixed
limits_8f == [print_power_limit |-> get_power_limits({}), print_features |-> << >>]
power_8f == Power ++ PowerJson ++ DomainJson ++ Monitoring ++ Energy

-----------------------------------------------------------------------------
IntelModel == {"2A", "2D", "3E", "3F", "4F", "55", "9E", "6A", "8F"}

Table == [m \in IntelModel |->
  CASE m = "2A" -> msrs_2a [] m = "2D" -> msrs_2d [] m = "3E" -> msrs_3e [] m = "3F" -> msrs_3f
    [] m = "4F" -> msrs_4f [] m = "55" -> msrs_55 [] m = "9E" -> msrs_9e [] m = "6A" -> msrs_6a
    [] m = "8F" -> msrs_8f]

\* The address of a register: that of a field that is not set is 0.
Address(mdl, msr) == IF msr[1] \in Table[mdl] THEN msr ELSE Absent

Functions == [m \in IntelModel |->
  CASE m = "2A" -> limits_2a ++ shown_2a ++ measured_2a ++ monitored_2a ++ available_2a
    [] m = "2D" -> limits_2d ++ shown_2d ++ measured_2d ++ monitored_2d ++ available_2d
    [] m = "3E" -> limits_3e ++ shown_3e ++ measured_3e ++ monitored_3e ++ available_3e
    [] m = "3F" -> limits_3f ++ shown_3f ++ measured_3f ++ monitored_3f ++ available_3f
    [] m = "4F" -> limits_4f ++ shown_4f ++ measured_4f ++ monitored_4f ++ available_4f
    [] m = "55" -> limits_55 ++ shown_55 ++ measured_55 ++ monitored_55 ++ available_55
    [] m = "9E" -> limits_9e ++ shown_9e ++ measured_9e ++ monitored_9e ++ available_9e
    [] m = "6A" -> limits_6a ++ power_6a
    [] m = "8F" -> limits_8f ++ power_8f]

\* The features set_intel_func_ptrs has a pointer for.
Pointers == [m \in IntelModel |->
  CASE m = "2A" -> T!FM_06_2A [] m = "2D" -> T!FM_06_2D [] m = "3E" -> T!FM_06_3E
    [] m = "3F" -> T!FM_06_3F [] m = "4F" -> T!FM_06_4F [] m = "55" -> T!FM_06_55
    [] m = "9E" -> T!FM_06_9E [] m = "6A" -> T!FM_06_6A [] m = "8F" -> T!FM_06_8F]
Verbose(features) == {IF f = "print_counters" THEN "print_verbose_counters" ELSE "print_verbose_frequency" :
                        f \in features \intersect {"print_counters", "print_frequency"}}

\* The entry points a program reaches, and the plan of each.  The ratio of the
\* GPUs is answered by a function of its own, which does nothing.
Api(mdl) == (Pointers[mdl] \union Verbose(Pointers[mdl])) \ {"cap_gpu_power_ratio"}
Plan(mdl, api) == Functions[mdl][api]
=============================================================================
