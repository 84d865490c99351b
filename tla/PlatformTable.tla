---------------------------- MODULE PlatformTable ----------------------------
(***************************************************************************)
(* Which platforms a build of libvariorum may hold, which architectures    *)
(* each recognises, and the features whose function pointers it sets for   *)
(* each of them (set_*_func_ptrs).  A feature is named after its field of  *)
(* struct platform; a feature that is not in the set has a NULL pointer.   *)
(***************************************************************************)
EXTENDS Integers, Sequences, FiniteSets

\* g_platform has room for two platforms; they are numbered in the order of
\* supported_platforms_e, CPUs and GPUs of a vendor together, vendors in order.
MaxPlatforms == 2

PlatformOrder ==
  <<"intel_cpu", "intel_gpu", "amd_cpu", "amd_gpu", "ibm_cpu", "nvidia_gpu", "arm_cpu">>

Platforms == {PlatformOrder[k] : k \in DOMAIN PlatformOrder}

CpuPlatforms == {"intel_cpu", "amd_cpu", "ibm_cpu", "arm_cpu"}
GpuPlatforms == Platforms \ CpuPlatforms

\* A build is made for one machine: a CPU, a GPU, or one of each, numbered in
\* that order.
Builds ==
  {<<p>> : p \in Platforms} \cup
  {<<PlatformOrder[q[1]], PlatformOrder[q[2]]>> :
     q \in {r \in (DOMAIN PlatformOrder) \X (DOMAIN PlatformOrder) :
              /\ r[1] < r[2]
              /\ Cardinality({PlatformOrder[r[1]], PlatformOrder[r[2]]} \cap CpuPlatforms) = 1}}

\* The function pointers are set in the order of the indices, except that the
\* platforms of AMD come last.
SetupOrder(b) ==
  IF Len(b) = 2 /\ b[1] \in {"amd_cpu", "amd_gpu"} /\ b[2] \in {"ibm_cpu", "nvidia_gpu", "arm_cpu"}
    THEN <<b[2], b[1]>> ELSE b

-----------------------------------------------------------------------------
\* Intel CPUs.  The GPU power ratio has a pointer on every model: a function
\* that reports the feature as unavailable and succeeds.
IntelAlways == {"cap_gpu_power_ratio"}

IntelCommon == IntelAlways \cup
  {"print_power_limit", "cap_each_socket_power_limit", "print_features", "print_thermals",
   "print_counters", "print_frequency", "print_power", "print_energy", "poll_power", "monitoring",
   "get_power_json", "get_node_power_domain_info_json", "cap_best_effort_node_power_limit",
   "print_available_frequencies", "get_thermals_json"}

Turbo == {"print_turbo", "enable_turbo", "disable_turbo"}

FM_06_2A == IntelCommon \cup Turbo \cup {"get_frequency_json"}
FM_06_2D == IntelCommon \cup Turbo \cup {"get_frequency_json"}
FM_06_3E == IntelCommon \cup Turbo \cup {"get_frequency_json"}
FM_06_3F == IntelCommon \cup Turbo \cup {"get_energy_json"}
FM_06_4F == IntelCommon \cup Turbo \cup {"get_frequency_json", "get_energy_json"}
FM_06_55 == IntelCommon \cup
  {"cap_each_core_frequency_limit", "get_frequency_json", "get_energy_json"}
FM_06_9E == IntelCommon \cup {"get_frequency_json"}
FM_06_6A == IntelAlways \cup {"print_power_limit", "print_features", "print_power", "print_energy"}
FM_06_8F == IntelAlways \cup
  {"print_power_limit", "print_features", "print_power", "print_energy", "get_power_json",
   "get_node_power_domain_info_json", "monitoring"}

-----------------------------------------------------------------------------
\* The other CPUs.
POWER9 ==
  {"print_power", "print_power_limit", "cap_best_effort_node_power_limit",
   "cap_each_socket_power_limit", "cap_gpu_power_ratio", "monitoring", "get_power_json",
   "get_node_power_domain_info_json", "print_energy", "get_thermals_json", "get_frequency_json",
   "get_energy_json"}

EPYC ==
  {"print_power", "print_power_limit", "cap_each_socket_power_limit",
   "cap_best_effort_node_power_limit", "print_energy", "print_frequency",
   "cap_each_core_frequency_limit", "cap_socket_frequency_limit", "get_power_json",
   "get_node_power_domain_info_json", "get_frequency_json"}

\* Without the E-SMI driver the EPYC still prints energy.
EpycWithoutEsmi == {"print_energy"}

NeoverseN1 ==
  {"print_power", "print_thermals", "print_frequency", "cap_socket_frequency_limit",
   "get_power_json", "get_node_power_domain_info_json"}

JunoR2 == NeoverseN1 \cup {"print_available_frequencies"}

-----------------------------------------------------------------------------
\* GPUs.
VOLTA ==
  {"print_power", "print_thermals", "print_frequency", "print_power_limit",
   "print_gpu_utilization", "get_thermals_json", "get_frequency_json", "get_utilization_json",
   "cap_each_gpu_power_limit", "get_power_json"}

AMD_INSTINCT ==
  {"print_power", "print_thermals", "print_frequency", "print_power_limit",
   "print_gpu_utilization", "get_thermals_json", "get_frequency_json", "get_utilization_json",
   "cap_each_gpu_power_limit", "get_power_json"}

IntelGpu ==
  {"print_power", "print_thermals", "print_frequency", "cap_each_gpu_power_limit",
   "print_power_limit"}

-----------------------------------------------------------------------------
\* The features each architecture of a platform gets.  "other" is a model the
\* setter does not know, which makes it an error; the GPUs and POWER have their
\* model hard-wired, so theirs is always the known one.
Supported ==
  [intel_cpu  |-> {FM_06_2A, FM_06_2D, FM_06_3E, FM_06_3F, FM_06_4F, FM_06_55, FM_06_9E,
                   FM_06_6A, FM_06_8F},
   intel_gpu  |-> {IntelGpu},
   amd_cpu    |-> {EPYC},
   amd_gpu    |-> {AMD_INSTINCT},
   ibm_cpu    |-> {POWER9},
   nvidia_gpu |-> {VOLTA},
   arm_cpu    |-> {JunoR2, NeoverseN1}]

Unknown == {}  \* the pointers an unknown model leaves, besides the common ones

HardWired == {"intel_gpu", "amd_gpu", "ibm_cpu", "nvidia_gpu"}

\* What the detected model of a platform may be worth.
Models(p) == IF p \in HardWired THEN Supported[p] ELSE Supported[p] \cup {Unknown}

\* The primary platform of a build for a node-level call: the first of these
\* vendors the build holds, or one past the last platform.
PrimaryIndex(b, vendors) ==
  LET here == {k \in DOMAIN b : b[k] \in vendors}
  IN  IF here = {} THEN Len(b) + 1 ELSE CHOOSE k \in here : \A l \in here : k <= l

=============================================================================
