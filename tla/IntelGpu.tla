------------------------------- MODULE IntelGpu -------------------------------
(***************************************************************************)
(* Intel GPUs (src/variorum/Intel_GPU): variorum_enter brings up APMIDG    *)
(* and counts the devices, variorum_exit finishes it.  No result is looked *)
(* at; a cap is read back.                                                 *)
(***************************************************************************)
EXTENDS DeviceSteps

apmidg == <<"apmidg", 0>>

\* The library is brought up and the devices are counted, before the body of the
\* call for their number.
initAPMIDG(bodies) ==
  Open(apmidg, << >>, << >>)
    \o Count([n \in DOMAIN bodies |-> Function(bodies[n])], apmidg, {0}, << >>)
shutdownAPMIDG == Close({apmidg})
WithAPMIDG(Body(_)) == initAPMIDG([n \in {0, NGPUS} |-> Body(n)]) \o shutdownAPMIDG

\* GPU.c: a feature on one socket after the other.
IntelGpuChips(Feature(_, _)) == WithAPMIDG(LAMBDA n : EachSocket(LAMBDA s : Function(Feature(s, n))) \o Return(0))

\* What the library returns for a device it cannot read is anything.
apmidg_get_power_data(chipid, n) ==
  EachGpuOf(chipid, n, LAMBDA d :
    Get(Var("value"), <<"power", d>>, apmidg, Let(Var("value"), {Junk})) \o Show(Of("power", d), Var("value")))

apmidg_get_thermal_data(chipid, n) ==
  EachGpuOf(chipid, n, LAMBDA d :
    Uninit(Var("temp_C")) \o Get(Var("temp_C"), <<"temp", d>>, apmidg, << >>) \o Show(Of("temp", d), Var("temp_C")))

apmidg_get_clocks_data(chipid, n) ==
  EachGpuOf(chipid, n, LAMBDA d :
    Uninit(Var("freq_MHz")) \o Get(Var("freq_MHz"), <<"clk", d>>, apmidg, << >>) \o Show(Of("clk", d), Var("freq_MHz")))

\* A limit that cannot be read back is 0, and differs.
apmidg_cap_each_gpu_power_limit(chipid, n) ==
  EachGpuOf(chipid, n, LAMBDA d :
    Cap(<<"gpu", d>>, apmidg, << >>) \o Verify(<<"gpu", d>>, apmidg, Complain, Complain))

apmidg_get_power_limit_data(chipid, n) ==
  EachGpuOf(chipid, n, LAMBDA d :
    Reset(Var("current_powerlimit_mwatts")) \o Get(Var("current_powerlimit_mwatts"), <<"cap", d>>, apmidg, << >>)
      \o Show(Of("cap", d), Var("current_powerlimit_mwatts")))

intel_gpu_get_power == Reporting(IntelGpuChips(apmidg_get_power_data), Claims("power", GpusInReach))
intel_gpu_get_thermals == Reporting(IntelGpuChips(apmidg_get_thermal_data), Claims("temp", GpusInReach))
intel_gpu_get_clocks == Reporting(IntelGpuChips(apmidg_get_clocks_data), Claims("clk", GpusInReach))
intel_gpu_cap_each_gpu_power_limit ==
  Capping(IntelGpuChips(apmidg_cap_each_gpu_power_limit), {<<"gpu", d>> : d \in GpusInReach})
intel_gpu_get_power_limit == Reporting(IntelGpuChips(apmidg_get_power_limit_data), Claims("cap", GpusInReach))

IntelGpuFeatures ==
  [get_power |-> intel_gpu_get_power,
   get_thermals |-> intel_gpu_get_thermals,
   get_clocks |-> intel_gpu_get_clocks,
   cap_each_gpu_power_limit |-> intel_gpu_cap_each_gpu_power_limit,
   get_power_limit |-> intel_gpu_get_power_limit]
=============================================================================
