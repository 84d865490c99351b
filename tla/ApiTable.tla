------------------------------ MODULE ApiTable ------------------------------
(***************************************************************************)
(* The public functions of libvariorum that run inside the enter/exit      *)
(* bracket (src/variorum/variorum.c), one row each.  They share one shape  *)
(* and differ in four things, which are the fields of a row:               *)
(*                                                                         *)
(*   feature   the function pointer of struct platform they call           *)
(*   scope     the platforms they visit                                    *)
(*   missing   what a NULL pointer does to the call                        *)
(*   onError   what a failing platform does to the call                    *)
(***************************************************************************)
EXTENDS PlatformTable

Scopes == {"each", "primary", "primary_or_arm", "each_if_cpu", "gpu", "none"}

\* "skip" goes on to the next platform; "return_0" and "return_error" leave the
\* call at once; "call" goes through the pointer all the same.
MissingRules == {"skip", "return_0", "return_error", "call"}

\* "return" leaves the call at once with -1; "ignore" only prints a message.
ErrorRules == {"return", "ignore"}

Row(f, s, m, e) == [feature |-> f, scope |-> s, missing |-> m, onError |-> e]

ForEach(f) == Row(f, "each", "skip", "return")
ForEachUnlessMissing(f) == Row(f, "each", "return_0", "return")

-----------------------------------------------------------------------------
\* Monitoring and printing: a platform without the feature is skipped.
variorum_poll_power              == ForEach("poll_power")
variorum_print_power_limit       == ForEach("print_power_limit")
variorum_print_verbose_power_limit == ForEach("print_power_limit")
variorum_print_features          == ForEach("print_features")
variorum_print_thermals          == ForEach("print_thermals")
variorum_print_verbose_thermals  == ForEach("print_thermals")
variorum_print_counters          == ForEach("print_counters")
variorum_print_verbose_counters  == ForEach("print_counters")
variorum_print_frequency         == ForEach("print_frequency")
variorum_print_verbose_frequency == ForEach("print_frequency")
variorum_print_power             == ForEach("print_power")
variorum_print_verbose_power     == ForEach("print_power")
variorum_print_turbo             == ForEach("print_turbo")
variorum_print_gpu_utilization   == ForEach("print_gpu_utilization")
variorum_print_verbose_gpu_utilization == ForEach("print_gpu_utilization")
variorum_get_power_json          == ForEach("get_power_json")
variorum_get_thermals_json       == ForEach("get_thermals_json")

\* Control, and a few others: the first platform without the feature ends the
\* call with 0, there and then.
variorum_monitoring                    == ForEachUnlessMissing("monitoring")
variorum_cap_gpu_power_ratio           == ForEachUnlessMissing("cap_gpu_power_ratio")
variorum_cap_each_socket_power_limit   == ForEachUnlessMissing("cap_each_socket_power_limit")
variorum_cap_each_core_frequency_limit == ForEachUnlessMissing("cap_each_core_frequency_limit")
variorum_cap_socket_frequency_limit    == ForEachUnlessMissing("cap_socket_frequency_limit")
variorum_cap_each_gpu_power_limit      == ForEachUnlessMissing("cap_each_gpu_power_limit")
variorum_enable_turbo                  == ForEachUnlessMissing("enable_turbo")
variorum_disable_turbo                 == ForEachUnlessMissing("disable_turbo")
variorum_print_available_frequencies   == ForEachUnlessMissing("print_available_frequencies")

\* Node-level calls: the primary platform only.
variorum_cap_best_effort_node_power_limit ==
  Row("cap_best_effort_node_power_limit", "primary", "return_0", "return")
variorum_get_node_power_domain_info_json ==
  Row("get_node_power_domain_info_json", "primary_or_arm", "return_error", "return")

\* Energy: nothing is visited in a build without an Intel, AMD or IBM CPU.
variorum_print_energy         == Row("print_energy", "each_if_cpu", "return_0", "return")
variorum_print_verbose_energy == Row("print_energy", "each_if_cpu", "return_0", "return")
variorum_get_energy_json      == Row("get_energy_json", "each_if_cpu", "call", "ignore")

variorum_get_frequency_json == Row("get_frequency_json", "each", "skip", "ignore")

\* The GPU of the build first, with no look at its pointer, then /proc.
variorum_get_utilization_json == Row("get_utilization_json", "gpu", "call", "return")

\* Nothing but the bracket.
variorum_tester               == Row("none", "none", "skip", "return")
variorum_print_hyperthreading == Row("none", "none", "skip", "return")

-----------------------------------------------------------------------------
\* The rows by the name of the function, without its prefix.
Api == [
  poll_power |-> variorum_poll_power,
  print_power_limit |-> variorum_print_power_limit,
  print_verbose_power_limit |-> variorum_print_verbose_power_limit,
  print_features |-> variorum_print_features,
  print_thermals |-> variorum_print_thermals,
  print_verbose_thermals |-> variorum_print_verbose_thermals,
  print_counters |-> variorum_print_counters,
  print_verbose_counters |-> variorum_print_verbose_counters,
  print_frequency |-> variorum_print_frequency,
  print_verbose_frequency |-> variorum_print_verbose_frequency,
  print_power |-> variorum_print_power,
  print_verbose_power |-> variorum_print_verbose_power,
  print_turbo |-> variorum_print_turbo,
  print_gpu_utilization |-> variorum_print_gpu_utilization,
  print_verbose_gpu_utilization |-> variorum_print_verbose_gpu_utilization,
  get_power_json |-> variorum_get_power_json,
  get_thermals_json |-> variorum_get_thermals_json,
  monitoring |-> variorum_monitoring,
  cap_gpu_power_ratio |-> variorum_cap_gpu_power_ratio,
  cap_each_socket_power_limit |-> variorum_cap_each_socket_power_limit,
  cap_each_core_frequency_limit |-> variorum_cap_each_core_frequency_limit,
  cap_socket_frequency_limit |-> variorum_cap_socket_frequency_limit,
  cap_each_gpu_power_limit |-> variorum_cap_each_gpu_power_limit,
  enable_turbo |-> variorum_enable_turbo,
  disable_turbo |-> variorum_disable_turbo,
  print_available_frequencies |-> variorum_print_available_frequencies,
  cap_best_effort_node_power_limit |-> variorum_cap_best_effort_node_power_limit,
  get_node_power_domain_info_json |-> variorum_get_node_power_domain_info_json,
  print_energy |-> variorum_print_energy,
  print_verbose_energy |-> variorum_print_verbose_energy,
  get_energy_json |-> variorum_get_energy_json,
  get_frequency_json |-> variorum_get_frequency_json,
  get_utilization_json |-> variorum_get_utilization_json,
  tester |-> variorum_tester,
  print_hyperthreading |-> variorum_print_hyperthreading]

ApiNames == DOMAIN Api

=============================================================================
