------------------------------- MODULE ArmCpu -------------------------------
(***************************************************************************)
(* ARM Juno r2 and Neoverse N1 (src/variorum/ARM): sensors and frequencies *)
(* in files of hwmon and cpufreq.  A descriptor is tested with !fd: that   *)
(* is not a file that could not be opened but one that got descriptor 0.   *)
(* A file is closed only by the way that succeeds.                         *)
(***************************************************************************)
EXTENDS DeviceSteps

\* open and the test of the descriptor; without a file, the work goes on with -1.
OpenArm(file) == OpenOr0(file, << >>, << >>, Fail)
\* Of several files, each is opened before the first is tested.
OpenAll(files) ==
  LET rest(k) == Each(k + 1, Len(files), LAMBDA j : OpenFile(files[j], << >>))
  IN Each(1, Len(files), LAMBDA k : OpenOr0(files[k], << >>, << >>, rest(k) \o Fail))

\* An empty file ends the function; a read that fails does not, and the number is
\* then taken from what lies in the buffer on the stack.
read_file_ui64(v, file) ==
  LET stale == Fork(<< >>, Let(Var("buf"), {Junk}))
  IN GetOr(Var("buf"), file, file, << >>, Fork(Fail, stale), stale) \o Copy(v, Var("buf"))

write_file_ui64(dev, file) == Cap(dev, file, Fail)

\* Files that are opened, read and closed, their numbers kept each in a variable
\* of the name of its file.
ReadFiles(files) ==
  OpenAll(files) \o Each(1, Len(files), LAMBDA k : read_file_ui64(files[k], files[k]))
    \o Close({files[k] : k \in 1..Len(files)})
ShowFiles(files) == Each(1, Len(files), LAMBDA k : Show({files[k]}, files[k]))
FileClaims(files) == {{files[k]} : k \in 1..Len(files)}
ReadAndShow(files) == Reporting(ReadFiles(files) \o ShowFiles(files) \o Return(0), FileClaims(files))

\* A loop over the sockets keeps the result of the last.
LastOfEach(Body(_)) == EachSocket(LAMBDA iter : Function(Body(iter)))

juno_power == <<<<"sys_power", 0>>, <<"big_power", 0>>, <<"little_power", 0>>, <<"gpu_power", 0>>>>
juno_therm == <<<<"sys_therm", 0>>, <<"big_therm", 0>>, <<"little_therm", 0>>, <<"gpu_therm", 0>>>>

arm_cpu_juno_r2_get_power_data == ReadAndShow(juno_power)
arm_cpu_juno_r2_get_thermal_data == ReadAndShow(juno_therm)

\* One file, whose numbers are given out.
PolicyFile(what, chipid) == <<what, chipid>>
ReadPolicy(what, chipid) ==
  LET file == PolicyFile(what, chipid)
  IN OpenArm(file) \o read_file_ui64(Var("freq_val"), file) \o Close({file})
       \o Show({file}, Var("freq_val")) \o Return(0)
arm_cpu_juno_r2_get_clocks_data(chipid) == ReadPolicy("scaling_cur_freq", chipid)
arm_juno_r2_get_clocks == Reporting(LastOfEach(arm_cpu_juno_r2_get_clocks_data), Claims("scaling_cur_freq", Sockets))

\* read_array_ui64: a read that failed leaves a buffer whose numbers are anything,
\* or none.
arm_cpu_juno_r2_get_frequencies(chipid) ==
  LET file == PolicyFile("scaling_available_frequencies", chipid)
      junk == Fork(Fail, Let(Var("freq_array"), {Junk}))
  IN OpenArm(file) \o GetThen(Var("freq_array"), file, file, << >>, junk) \o Close({file})
       \o Show({file}, Var("freq_array")) \o Return(0)
arm_juno_r2_get_frequencies ==
  Reporting(LastOfEach(arm_cpu_juno_r2_get_frequencies), Claims("scaling_available_frequencies", Sockets))

\* A processor that does not exist is refused before anything is opened.
WriteSpeed(policy) ==
  LET file == PolicyFile("scaling_setspeed", policy)
  IN OpenArm(file) \o write_file_ui64(file, file) \o Close({file})
arm_cpu_juno_r2_cap_socket_frequency(socketid) ==
  IF socketid \in Sockets
  THEN Capping(Function(WriteSpeed(socketid) \o Return(0)), {PolicyFile("scaling_setspeed", socketid)})
  ELSE Capping(Fail, {})

\* Below two sockets the process ends.
arm_cpu_juno_r2_json_get_power_data ==
  Reporting(ReadFiles(juno_power) \o (IF NSOCKETS < 2 THEN Exit ELSE Copy(Var("node"), Var("sys_power")))
              \o ShowFiles(juno_power) \o Return(0),
            FileClaims(juno_power))

n1_power == <<<<"cpu_power", 0>>, <<"io_power", 0>>>>
n1_therm == <<<<"loc1_therm", 0>>, <<"soc_therm", 0>>>>

arm_cpu_neoverse_n1_get_power_data == ReadAndShow(n1_power)
arm_cpu_neoverse_n1_get_thermal_data == ReadAndShow(n1_therm)

\* For each socket, the mean of all cores.  freq_val is 0 before the first.
arm_cpu_neoverse_n1_get_clocks_data(chipid) ==
  LET file(core) == PolicyFile("scaling_cur_freq", core)
  IN Reset(Var("aggregate_freq"))
       \o Each(0, NCORES - 1, LAMBDA core_iter :
            OpenArm(file(core_iter)) \o read_file_ui64(Var("freq_val"), file(core_iter)) \o Close({file(core_iter)})
              \o Add(Var("aggregate_freq"), Var("freq_val")))
       \o Show(Sum("scaling_cur_freq", Cores), Var("aggregate_freq")) \o Return(0)
arm_neoverse_n1_get_clocks ==
  Reporting(LastOfEach(arm_cpu_neoverse_n1_get_clocks_data), {Sum("scaling_cur_freq", Cores)})

\* Whichever socket is named, all cores are written.
arm_cpu_neoverse_n1_cap_socket_frequency(socketid) ==
  IF socketid \in Sockets
  THEN Capping(Function(Each(0, NCORES - 1, WriteSpeed) \o Return(0)),
               {PolicyFile("scaling_setspeed", c) : c \in Cores})
  ELSE Capping(Fail, {})

\* The objects are stored as "Socket_0" and asked for as "socket_0": nothing is
\* given out.
arm_cpu_neoverse_n1_json_get_power_data == Reporting(ReadFiles(n1_power) \o Return(0), {})

JunoFeatures ==
  [get_power |-> arm_cpu_juno_r2_get_power_data,
   get_thermals |-> arm_cpu_juno_r2_get_thermal_data,
   get_clocks |-> arm_juno_r2_get_clocks,
   get_frequencies |-> arm_juno_r2_get_frequencies,
   cap_socket_frequency |-> arm_cpu_juno_r2_cap_socket_frequency(0),
   cap_no_socket |-> arm_cpu_juno_r2_cap_socket_frequency(NSOCKETS),
   get_power_json |-> arm_cpu_juno_r2_json_get_power_data]
NeoverseFeatures ==
  [get_power |-> arm_cpu_neoverse_n1_get_power_data,
   get_thermals |-> arm_cpu_neoverse_n1_get_thermal_data,
   get_clocks |-> arm_neoverse_n1_get_clocks,
   cap_socket_frequency |-> arm_cpu_neoverse_n1_cap_socket_frequency(0),
   get_power_json |-> arm_cpu_neoverse_n1_json_get_power_data]
=============================================================================
