------------------------------- MODULE AmdGpu -------------------------------
(***************************************************************************)
(* AMD Instinct (src/variorum/AMD_GPU): each feature brings the ROCm SMI   *)
(* library up and down by itself, once for each socket.                    *)
(***************************************************************************)
EXTENDS DeviceSteps

rsmi == <<"rsmi", 0>>

\* rsmi_init, rsmi_num_monitor_devices and rsmi_shut_down around a body; a count
\* that failed leaves num_devices as it was on the stack.
WithDevices(fails, junk, uncounted, Body(_)) ==
  Open(rsmi, << >>, fails)
    \o Count([n \in {0, NGPUS, NGPUS + NSOCKETS} |-> Body(n)], rsmi, junk, uncounted)
    \o Shutdown(rsmi, Complain)

AnyCount == {0, NGPUS, NGPUS + NSOCKETS}
OnSocket(chipid, fails, Body(_)) ==
  WithDevices(fails, AnyCount, Complain, LAMBDA n : EachGpuOf(chipid, n, Body))

\* Fault: the value is declared outside the loop.
PowerKept(chipid) ==
  OnSocket(chipid, Exit, LAMBDA i : Get(Var("pwr_val"), <<"power", i>>, rsmi, Complain)
                                      \o Show(Of("power", i), Var("pwr_val")))

rsmi_get_power_data(chipid) ==
  OnSocket(chipid, Exit, LAMBDA i : Reset(Var("pwr_val")) \o Get(Var("pwr_val"), <<"power", i>>, rsmi, Complain)
                                      \o Show(Of("power", i), Var("pwr_val")))

rsmi_get_power_limit_data(chipid) ==
  OnSocket(chipid, Exit, LAMBDA i : Reset(Var("pwr_val")) \o Reset(Var("pwr_range"))
     \o Get(Var("pwr_val"), <<"cap", i>>, rsmi, Complain) \o Get(Var("pwr_range"), <<"range", i>>, rsmi, Complain)
     \o Show(Of("cap", i), Var("pwr_val")) \o Show(Of("range", i), Var("pwr_range")))

ShowTemperature(i) == Reset(Var("temp_val")) \o Get(Var("temp_val"), <<"temp", i>>, rsmi, Complain)
                        \o Show(Of("temp", i), Var("temp_val"))
rsmi_get_thermals_data(chipid) == OnSocket(chipid, Exit, ShowTemperature)
rsmi_get_thermals_json(chipid) == OnSocket(chipid, Exit, ShowTemperature)

\* f_sys.current, not set, indexes f_sys.frequency.
ShowClocks(i) ==
  Uninit(Var("f_sys")) \o Uninit(Var("f_mem"))
    \o Get(Var("f_sys"), <<"sys_clk", i>>, rsmi, Complain \o Fork(<< >>, Crash))
    \o Get(Var("f_mem"), <<"mem_clk", i>>, rsmi, Complain \o Fork(<< >>, Crash))
    \o Show(Of("sys_clk", i), Var("f_sys")) \o Show(Of("mem_clk", i), Var("f_mem"))
rsmi_get_clocks_data(chipid) == OnSocket(chipid, Exit, ShowClocks)
rsmi_get_clocks_json(chipid) == OnSocket(chipid, Complain, ShowClocks)

rsmi_get_gpu_utilization_data(chipid) ==
  OnSocket(chipid, Exit, LAMBDA i : Uninit(Var("utilpercent")) \o Get(Var("utilpercent"), <<"util", i>>, rsmi, Complain)
                                      \o Show(Of("util", i), Var("utilpercent")))

\* No device is asked: the 0 is what is given out.
rsmi_get_gpu_utilization_data_json(chipid) ==
  OnSocket(chipid, Complain, LAMBDA i : Reset(Var("utilpercent")) \o Show(Of("util", i), Var("utilpercent")))

\* Fault: the result of the library is not looked at.
CapUnheard(chipid) ==
  OnSocket(chipid, Exit, LAMBDA i : Cap(<<"gpu", i>>, rsmi, << >>))

rsmi_cap_each_gpu_power_limit(chipid) ==
  OnSocket(chipid, Exit, LAMBDA i : Cap(<<"gpu", i>>, rsmi, Complain))

\* One value for all devices, the result of the read ignored.  The sum goes to
\* the total of the node, if a platform before has put one into the object.
rsmi_get_json_power_data(node) ==
  Reset(Var("pwr_val")) \o Reset(Var("total_gpu_power"))
    \o WithDevices(Exit, {}, Exit, LAMBDA n :
         EachSocket(LAMBDA chipid : EachGpuOf(chipid, n, LAMBDA d :
           Get(Var("pwr_val"), <<"power", d>>, rsmi, << >>) \o Show(Of("power", d), Var("pwr_val"))
             \o Add(Var("total_gpu_power"), Var("pwr_val"))))
         \o IF node THEN Add(Var("node"), Var("total_gpu_power")) ELSE << >>)

\* instinctGPU.c: a feature on one socket after the other.
InstinctChips(Feature(_)) == EachSocket(LAMBDA s : Function(Feature(s))) \o Return(0)

amd_gpu_instinct_get_power == Reporting(InstinctChips(rsmi_get_power_data), Claims("power", GpusInReach))
amd_gpu_instinct_get_power_limit ==
  Reporting(InstinctChips(rsmi_get_power_limit_data), Claims("cap", GpusInReach) \union Claims("range", GpusInReach))
amd_gpu_instinct_get_thermals == Reporting(InstinctChips(rsmi_get_thermals_data), Claims("temp", GpusInReach))
amd_gpu_instinct_get_thermals_json == Reporting(InstinctChips(rsmi_get_thermals_json), Claims("temp", GpusInReach))
amd_gpu_instinct_get_clocks ==
  Reporting(InstinctChips(rsmi_get_clocks_data), Claims("sys_clk", GpusInReach) \union Claims("mem_clk", GpusInReach))
amd_gpu_instinct_get_clocks_json ==
  Reporting(InstinctChips(rsmi_get_clocks_json), Claims("sys_clk", GpusInReach) \union Claims("mem_clk", GpusInReach))
amd_gpu_instinct_get_gpu_utilization ==
  Reporting(InstinctChips(rsmi_get_gpu_utilization_data), Claims("util", GpusInReach))
amd_gpu_instinct_get_gpu_utilization_json ==
  Reporting(InstinctChips(rsmi_get_gpu_utilization_data_json), Claims("util", GpusInReach))
amd_gpu_instinct_cap_each_gpu_power_limit ==
  Capping(InstinctChips(rsmi_cap_each_gpu_power_limit), {<<"gpu", i>> : i \in GpusInReach})
amd_gpu_instinct_get_power_json(node) ==
  LET total == Sum("power", GpusInReach) \union NodePower
      show == IF node THEN Show(total, Var("node")) ELSE << >>
  IN Reporting(rsmi_get_json_power_data(node) \o show \o Return(0),
               Claims("power", GpusInReach) \union IF node THEN {total} ELSE {})

InstinctFeatures ==
  [get_power |-> amd_gpu_instinct_get_power,
   get_power_limit |-> amd_gpu_instinct_get_power_limit,
   get_thermals |-> amd_gpu_instinct_get_thermals,
   get_thermals_json |-> amd_gpu_instinct_get_thermals_json,
   get_clocks |-> amd_gpu_instinct_get_clocks,
   get_clocks_json |-> amd_gpu_instinct_get_clocks_json,
   get_gpu_utilization |-> amd_gpu_instinct_get_gpu_utilization,
   get_gpu_utilization_json |-> amd_gpu_instinct_get_gpu_utilization_json,
   cap_each_gpu_power_limit |-> amd_gpu_instinct_cap_each_gpu_power_limit,
   get_power_json |-> amd_gpu_instinct_get_power_json(FALSE),
   get_power_json_node |-> amd_gpu_instinct_get_power_json(TRUE)]
=============================================================================
