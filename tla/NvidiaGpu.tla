------------------------------ MODULE NvidiaGpu ------------------------------
(***************************************************************************)
(* NVIDIA Volta (src/variorum/Nvidia_GPU): variorum_enter brings up NVML   *)
(* and asks for a handle of each GPU, variorum_exit shuts it down.  Most   *)
(* results are ignored, and the variables lie outside the loops.           *)
(***************************************************************************)
EXTENDS DeviceSteps

Handle(d) == <<"nvml handle", d>>

nvml == <<"nvml", 0>>

\* The library is brought up, the devices are counted and a handle is asked for
\* each, before the body of the call for their number.  A count that fails leaves
\* m_total_unit_devices, a global, as it was.
initNVML(bodies) ==
  LET handles(n) == Each(0, n - 1, LAMBDA d : Open(Handle(d), << >>, Complain))
  IN Open(nvml, << >>, << >>)
       \o Count([n \in DOMAIN bodies |-> handles(n) \o Function(bodies[n])], nvml, DOMAIN bodies, << >>)
shutdownNVML == Close({nvml} \union {Handle(d) : d \in Gpus})
WithNVML(Body(_)) == initNVML([n \in {0, NGPUS} |-> Body(n)]) \o shutdownNVML

\* Volta.c: a feature on one socket after the other, with the GPUs of the socket.
VoltaChips(Feature(_, _)) == WithNVML(LAMBDA n : EachSocket(LAMBDA s : Function(Feature(s, n))) \o Return(0))

\* What a device without a handle is asked for may be anything.
Ask(v, what, d, no) == GetOr(v, <<what, d>>, Handle(d), << >>, no, Fork(no, Crash))
AskAndShow(v, what, d, no) == Ask(v, what, d, no) \o Show(Of(what, d), v)

nvidia_gpu_get_power_data(chipid, n) ==
  Reset(Var("value")) \o EachGpuOf(chipid, n, LAMBDA d : AskAndShow(Var("power"), "power", d, << >>))
nvidia_gpu_get_thermal_data(chipid, n) ==
  EachGpuOf(chipid, n, LAMBDA d : AskAndShow(Var("gpu_temp"), "temp", d, << >>))
nvidia_gpu_get_thermal_json(chipid, n) ==
  EachGpuOf(chipid, n, LAMBDA d : AskAndShow(Var("gpu_temp"), "temp", d, << >>))
nvidia_gpu_get_power_limits_data(chipid, n) ==
  EachGpuOf(chipid, n, LAMBDA d : AskAndShow(Var("power_limit"), "cap", d, Complain))
nvidia_gpu_get_clocks_data(chipid, n) ==
  EachGpuOf(chipid, n, LAMBDA d : AskAndShow(Var("gpu_clock"), "sm_clk", d, << >>))
nvidia_gpu_get_clocks_json(chipid, n) ==
  EachGpuOf(chipid, n, LAMBDA d :
    Ask(Var("gpu_clock"), "sm_clk", d, << >>) \o Ask(Var("mem_clock"), "mem_clk", d, << >>)
      \o Show(Of("sm_clk", d), Var("gpu_clock")) \o Show(Of("mem_clk", d), Var("mem_clock")))
nvidia_gpu_get_gpu_utilization_data(chipid, n) ==
  EachGpuOf(chipid, n, LAMBDA d : AskAndShow(Var("util"), "util", d, << >>))
nvidia_get_gpu_utilization_json(chipid, n) ==
  EachGpuOf(chipid, n, LAMBDA d : AskAndShow(Var("util"), "util", d, << >>))
nvml_cap_each_gpu_power_limit(chipid, n) ==
  EachGpuOf(chipid, n, LAMBDA d : Cap(<<"gpu", d>>, Handle(d), Complain))

\* Each socket adds its GPUs to the total of the node, if there is one.
nvidia_gpu_get_power_json(chipid, n, node) ==
  Reset(Var("total_gpu_power"))
    \o EachGpuOf(chipid, n, LAMBDA d :
         AskAndShow(Var("gpu_power"), "power", d, << >>) \o Add(Var("total_gpu_power"), Var("gpu_power")))
    \o IF node THEN Add(Var("node"), Var("total_gpu_power")) ELSE << >>

volta_get_power == Reporting(VoltaChips(nvidia_gpu_get_power_data), Claims("power", GpusInReach))
volta_get_thermals == Reporting(VoltaChips(nvidia_gpu_get_thermal_data), Claims("temp", GpusInReach))
volta_get_thermals_json == Reporting(VoltaChips(nvidia_gpu_get_thermal_json), Claims("temp", GpusInReach))
volta_get_clocks == Reporting(VoltaChips(nvidia_gpu_get_clocks_data), Claims("sm_clk", GpusInReach))
volta_get_clocks_json ==
  Reporting(VoltaChips(nvidia_gpu_get_clocks_json), Claims("sm_clk", GpusInReach) \union Claims("mem_clk", GpusInReach))
volta_get_power_limits == Reporting(VoltaChips(nvidia_gpu_get_power_limits_data), Claims("cap", GpusInReach))
volta_get_gpu_utilization ==
  Reporting(VoltaChips(nvidia_gpu_get_gpu_utilization_data), Claims("util", GpusInReach))
volta_get_gpu_utilization_json ==
  Reporting(VoltaChips(nvidia_get_gpu_utilization_json), Claims("util", GpusInReach))
volta_cap_each_gpu_power_limit ==
  Capping(VoltaChips(nvml_cap_each_gpu_power_limit), {<<"gpu", d>> : d \in GpusInReach})
volta_get_power_json(node) ==
  LET total == Sum("power", GpusInReach) \union NodePower
      show == IF node THEN Show(total, Var("node")) ELSE << >>
  IN Reporting(WithNVML(LAMBDA n :
                 EachSocket(LAMBDA s : Function(nvidia_gpu_get_power_json(s, n, node))) \o show \o Return(0)),
               Claims("power", GpusInReach) \union IF node THEN {total} ELSE {})

VoltaFeatures ==
  [get_power |-> volta_get_power,
   get_thermals |-> volta_get_thermals,
   get_thermals_json |-> volta_get_thermals_json,
   get_clocks |-> volta_get_clocks,
   get_clocks_json |-> volta_get_clocks_json,
   get_power_limits |-> volta_get_power_limits,
   get_gpu_utilization |-> volta_get_gpu_utilization,
   get_gpu_utilization_json |-> volta_get_gpu_utilization_json,
   cap_each_gpu_power_limit |-> volta_cap_each_gpu_power_limit,
   get_power_json |-> volta_get_power_json(FALSE),
   get_power_json_node |-> volta_get_power_json(TRUE)]
=============================================================================
