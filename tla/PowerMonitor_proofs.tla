------------------------ MODULE PowerMonitor_proofs ------------------------
(***************************************************************************)
(* Proofs about PowerMonitor, for every set of monitors and every value of *)
(* the cap on the command line, and about MonitorTrace, for every number   *)
(* of sockets and GPUs and every build.                                    *)
(***************************************************************************)
EXTENDS MonitorTrace, TLAPS

\* What the steps of the cap keep: it lies in its band, on a grid of 5 W
\* through the cap of the command line, which is why it meets that cap again
\* instead of passing it.
OnGrid == \E k \in Int : watts = watt_cap + 5 * k
WattsInv == InBand(watts) /\ OnGrid /\ LimitsStayInBand

\* Who may be where: the mutex is held around a sample, the thread exists once
\* main is past its own cap, main samples only after the stop, and only
\* power_wrapper_dynamic caps in its thread.
Sampling == {"samples", "in_sample", "parses", "in_util", "parses_util", "unlocks"}
PlacesInv ==
  /\ \A t \in Threads : at[t] \in Sampling => mlock = t
  /\ at["main"] \in {"caps", "in_cap", "creates_thread"} => at["sampler"] = "unborn"
  /\ at["main"] \in {"locks"} \cup Sampling => ~running
  /\ at["sampler"] \in {"caps", "in_cap", "adjusts"} => program = "power_wrapper_dynamic"

\* A late sample is the one the thread had decided on before the stop.
LateInv ==
  /\ late <= 1
  /\ running => late = 0
  /\ at["sampler"] = "locks" => late = 0

-----------------------------------------------------------------------------
\* The initial state and every step keep the types of all variables.
LEMMA TypeInit == Init => TypeOK
<1> SUFFICES ASSUME Init PROVE TypeOK
  OBVIOUS
<1>1. measure_all \in BOOLEAN /\ power_with_util \in BOOLEAN
  BY DEF Init, VarMonitorLine, WrapperLine
<1>2. at \in [Threads -> Locations]
  BY DEF Init, Threads, Locations
<1>3. watt_cap \in Caps \cup {0} /\ watts = watt_cap
  BY DEF Init, VarMonitorLine, WrapperLine
<1>4. watts \in Int
  BY <1>3, MonitorAssumption
<1> QED
  BY <1>1, <1>2, <1>3, <1>4 DEF Init, TypeOK

LEMMA TypeStep == TypeOK /\ [Next]_vars => TypeOK'
<1> SUFFICES ASSUME TypeOK, [Next]_vars PROVE TypeOK'
  OBVIOUS
<1> USE MonitorAssumption DEF TypeOK, Threads, Locations, Goto, line, step
<1>1. CASE Begins
  BY <1>1 DEF Begins
<1>2. CASE Checks
  BY <1>2 DEF Checks
<1>3. CASE Adjusts
  <2>1. NextDir \in {-5, 5} /\ watts + NextDir \in Int
    BY DEF NextDir
  <2>2. (poll_num + 1) % 5 \in 0 .. 4
    OBVIOUS
  <2>3. poll_dir' \in {-5, 5} /\ watts' \in Int
    BY <1>3, <2>1 DEF Adjusts
  <2>4. poll_num' \in 0 .. 4
    BY <1>3, <2>2 DEF Adjusts
  <2>5. at' \in [Threads -> Locations]
    BY <1>3 DEF Adjusts
  <2> QED
    BY <1>3, <2>3, <2>4, <2>5 DEF Adjusts
<1>4. CASE Main
  <2>1. CASE CreatesThread
    BY <2>1 DEF CreatesThread
  <2>2. CASE AppEnds
    BY <2>2 DEF AppEnds
  <2>3. CASE Stops
    BY <2>3 DEF Stops
  <2>4. CASE Summary
    BY <2>4 DEF Summary
  <2> QED
    BY <1>4, <2>1, <2>2, <2>3, <2>4 DEF Main
<1>5. ASSUME NEW t \in Threads, Shared(t) PROVE TypeOK'
  <2>1. CASE Locks(t)
    BY <2>1 DEF Locks
  <2>2. CASE Samples(t) \/ SampleReturns(t) \/ SampleFails(t)
    <3>1. CASE Samples(t)
      BY <3>1 DEF Samples
    <3>2. CASE SampleReturns(t)
      BY <3>2 DEF SampleReturns
    <3>3. CASE SampleFails(t)
      BY <3>3 DEF SampleFails, Leaves
    <3> QED
      BY <2>2, <3>1, <3>2, <3>3
  <2>3. CASE Parses(t)
    <3>1. CASE ParsesPower(t)
      BY <3>1 DEF ParsesPower
    <3>2. CASE ObjectMissing(t)
      BY <3>2 DEF ObjectMissing, Leaves
    <3>3. CASE UtilReturns(t)
      BY <3>3 DEF UtilReturns
    <3>4. CASE UtilFails(t)
      <4>1. exit' \in {"failed", "crashed"}
        BY <3>4 DEF UtilFails, Leaves
      <4>2. /\ at' \in [Threads -> Locations]
            /\ UNCHANGED <<line, mlock, running, step, asked, late>>
        BY <3>4 DEF UtilFails, Leaves
      <4> QED
        BY <4>1, <4>2
    <3>5. CASE ParsesUtil(t)
      BY <3>5 DEF ParsesUtil
    <3> QED
      BY <2>3, <3>1, <3>2, <3>3, <3>4, <3>5 DEF Parses
  <2>4. CASE Unlocks(t)
    BY <2>4 DEF Unlocks
  <2>5. CASE SetsCap(t)
    BY <2>5 DEF SetsCap
  <2>6. CASE CapReturns(t)
    BY <2>6 DEF CapReturns
  <2> QED
    BY <1>5, <2>1, <2>2, <2>3, <2>4, <2>5, <2>6 DEF Shared
<1>6. CASE UNCHANGED vars
  BY <1>6 DEF vars
<1> QED
  BY <1>1, <1>2, <1>3, <1>4, <1>5, <1>6 DEF Next, Sampler, VarMonitorMain, StaticMain, DynamicMain

\* Both threads and the process keep to their types: what a step of the code
\* writes is what the next one expects.
THEOREM MonitorTypeCorrect == Spec => []TypeOK
  BY TypeInit, TypeStep, PTL DEF Spec

-----------------------------------------------------------------------------
\* One step of power_wrapper_dynamic leads from the band and the grid into them.
LEMMA StepStaysInBand ==
  ASSUME TypeOK, InBand(watts), OnGrid
  PROVE  /\ InBand(watts + NextDir)
         /\ \E k \in Int : watts + NextDir = watt_cap + 5 * k
<1>1. watts \in Int /\ watt_cap \in Int /\ poll_dir \in {-5, 5}
  BY MonitorAssumption DEF TypeOK
<1>2. PICK k \in Int : watts = watt_cap + 5 * k
  BY DEF OnGrid
<1>3. NextDir \in {-5, 5}
  BY <1>1 DEF NextDir
<1>4. \E j \in Int : watts + NextDir = watt_cap + 5 * j
  <2>1. k + 1 \in Int /\ k - 1 \in Int
    BY <1>2
  <2>2. CASE NextDir = 5
    <3>1. watts + NextDir = watt_cap + 5 * (k + 1)
      BY <1>1, <1>2, <2>2
    <3> QED
      BY <2>1, <3>1
  <2>3. CASE NextDir = -5
    <3>1. watts + NextDir = watt_cap + 5 * (k - 1)
      BY <1>1, <1>2, <2>3
    <3> QED
      BY <2>1, <3>1
  <2> QED
    BY <1>3, <2>2, <2>3
<1>5. InBand(watts + NextDir)
  <2>1. CASE watts <= 30
    <3>1. NextDir = 5
      BY <2>1 DEF NextDir
    <3>2. watt_cap > 30 => k <= -1
      BY <1>1, <1>2, <2>1
    <3> QED
      BY <1>1, <1>2, <2>1, <3>1, <3>2 DEF InBand
  <2>2. CASE ~(watts <= 30) /\ watts >= watt_cap
    <3>1. NextDir = -5
      BY <2>2 DEF NextDir
    <3>2. watt_cap <= 30 => k >= 1
      BY <1>1, <1>2, <2>2
    <3> QED
      BY <1>1, <1>2, <2>2, <3>1, <3>2 DEF InBand
  <2>3. CASE ~(watts <= 30) /\ ~(watts >= watt_cap)
    <3>1. NextDir \in {-5, 5} /\ watts > 30 /\ watts < watt_cap
      BY <1>1, <1>3, <2>3
    <3>2. k <= -1
      BY <1>1, <1>2, <3>1
    <3> QED
      BY <1>1, <1>2, <3>1, <3>2 DEF InBand
  <2> QED
    BY <2>1, <2>2, <2>3
<1> QED
  BY <1>4, <1>5

LEMMA WattsInit == Init => WattsInv
<1> SUFFICES ASSUME Init PROVE WattsInv
  OBVIOUS
<1>0. watt_cap \in Caps \cup {0} /\ watts = watt_cap /\ asked = {}
  BY DEF Init, VarMonitorLine, WrapperLine
<1>1. watt_cap \in Int /\ watts = watt_cap /\ asked = {}
  BY <1>0, MonitorAssumption
<1>2. watts = watt_cap + 5 * 0
  BY <1>1
<1> QED
  BY <1>1, <1>2 DEF WattsInv, InBand, OnGrid, LimitsStayInBand

LEMMA WattsStep == TypeOK /\ WattsInv /\ [Next]_vars => WattsInv'
<1> SUFFICES ASSUME TypeOK, WattsInv, [Next]_vars PROVE WattsInv'
  OBVIOUS
<1> USE DEF WattsInv, LimitsStayInBand, OnGrid, InBand
<1>1. CASE Adjusts
  <2>1. watt_cap' = watt_cap /\ asked' = asked
    BY <1>1 DEF Adjusts, line
  <2>2. CASE watts' = watts
    BY <2>1, <2>2
  <2>3. CASE watts' = watts + NextDir
    <3>1. InBand(watts + NextDir) /\ \E k \in Int : watts + NextDir = watt_cap + 5 * k
      BY StepStaysInBand
    <3> QED
      BY <2>1, <2>3, <3>1
  <2> QED
    BY <1>1, <2>2, <2>3 DEF Adjusts
<1>2. ASSUME NEW t \in Threads, SetsCap(t) PROVE WattsInv'
  <2>1. watt_cap' = watt_cap /\ watts' = watts
    BY <1>2 DEF SetsCap, line, step
  <2>2. InBand(watt_cap)
    BY MonitorAssumption DEF TypeOK
  <2>3. asked' = asked \cup {watt_cap} \/ asked' = asked \cup {watts}
    BY <1>2 DEF SetsCap
  <2> QED
    BY <2>1, <2>2, <2>3
<1>3. CASE UNCHANGED <<watt_cap, watts, asked>>
  BY <1>3
<1>4. ASSUME NEW t \in Threads, Shared(t), ~SetsCap(t) PROVE UNCHANGED <<watt_cap, watts, asked>>
  BY <1>4 DEF Shared, Locks, Samples, SampleReturns, SampleFails, Unlocks, CapReturns, line, step,
              Parses, ParsesPower, ObjectMissing, UtilReturns, UtilFails, ParsesUtil, Leaves
<1>5. ASSUME Main \/ Begins \/ Checks PROVE UNCHANGED <<watt_cap, watts, asked>>
  BY <1>5 DEF Main, CreatesThread, AppEnds, Stops, Summary, Begins, Checks, line, step
<1>6. CASE UNCHANGED vars
  BY <1>6 DEF vars, line, step
<1> QED
  BY <1>1, <1>2, <1>3, <1>4, <1>5, <1>6 DEF Next, Sampler, VarMonitorMain, StaticMain, DynamicMain

\* power_wrapper_dynamic never asks for a limit outside its band, for any cap on
\* the command line: above 30 W the cap is never exceeded; at or below it the
\* stepping goes above the cap, but never above 35 W.
THEOREM CapStaysInBand == Spec => []LimitsStayInBand
<1>1. TypeOK /\ WattsInv /\ [Next]_vars => TypeOK' /\ WattsInv'
  BY TypeStep, WattsStep
<1>2. WattsInv => LimitsStayInBand
  BY DEF WattsInv
<1> QED
  BY <1>1, <1>2, TypeInit, WattsInit, PTL DEF Spec

-----------------------------------------------------------------------------
LEMMA PlacesInit == Init => PlacesInv /\ LateInv
  BY MonitorAssumption DEF Init, PlacesInv, LateInv, Threads, Sampling, Wrappers

LEMMA PlacesStep == TypeOK /\ PlacesInv /\ LateInv /\ [Next]_vars => PlacesInv' /\ LateInv'
<1> SUFFICES ASSUME TypeOK, PlacesInv, LateInv, [Next]_vars PROVE PlacesInv' /\ LateInv'
  OBVIOUS
<1>0. at \in [Threads -> Locations] /\ late \in Nat /\ running \in BOOLEAN /\ None \notin Threads
  BY MonitorAssumption DEF TypeOK
<1> USE <1>0 DEF PlacesInv, LateInv, Sampling, Threads, Goto, line, step
<1>1. CASE Begins
  BY <1>1 DEF Begins
<1>2. CASE Checks
  BY <1>2 DEF Checks
<1>3. CASE Adjusts
  BY <1>3 DEF Adjusts
<1>4. CASE Main
  <2>1. CASE CreatesThread
    BY <2>1 DEF CreatesThread
  <2>2. CASE AppEnds
    BY <2>2 DEF AppEnds
  <2>3. CASE Stops
    BY <2>3 DEF Stops
  <2>4. CASE Summary
    BY <2>4 DEF Summary
  <2> QED
    BY <1>4, <2>1, <2>2, <2>3, <2>4 DEF Main
<1>5. ASSUME NEW t \in Threads, Shared(t) PROVE PlacesInv' /\ LateInv'
  <2>1. CASE Locks(t)
    BY <2>1 DEF Locks
  <2>2. CASE Samples(t)
    BY <2>2 DEF Samples
  <2>3. CASE SampleReturns(t)
    BY <2>3 DEF SampleReturns
  <2>4. CASE SampleFails(t)
    BY <2>4 DEF SampleFails, Leaves
  <2>5. CASE Parses(t)
    <3>1. CASE ParsesPower(t)
      BY <3>1 DEF ParsesPower
    <3>2. CASE ObjectMissing(t) \/ UtilFails(t)
      BY <3>2 DEF ObjectMissing, UtilFails, Leaves
    <3>3. CASE UtilReturns(t)
      BY <3>3 DEF UtilReturns
    <3>4. CASE ParsesUtil(t)
      BY <3>4 DEF ParsesUtil
    <3> QED
      BY <2>5, <3>1, <3>2, <3>3, <3>4 DEF Parses
  <2>6. CASE Unlocks(t)
    BY <2>6 DEF Unlocks
  <2>7. CASE SetsCap(t)
    BY <2>7 DEF SetsCap
  <2>8. CASE CapReturns(t)
    BY <2>8 DEF CapReturns
  <2> QED
    BY <1>5, <2>1, <2>2, <2>3, <2>4, <2>5, <2>6, <2>7, <2>8 DEF Shared
<1>6. CASE UNCHANGED vars
  BY <1>6 DEF vars
<1> QED
  BY <1>1, <1>2, <1>3, <1>4, <1>5, <1>6 DEF Next, Sampler, VarMonitorMain, StaticMain, DynamicMain

\* Inside the library two threads meet only when the thread that caps without
\* the mutex meets the last sample of main.
LEMMA PlacesSuffice == PlacesInv => CallsOverlapOnlyAfterStop
<1> SUFFICES ASSUME PlacesInv, InLibrary = Threads
             PROVE  program = "power_wrapper_dynamic" /\ ~running
  BY DEF CallsOverlapOnlyAfterStop
<1>1. /\ at["main"] \in {"in_sample", "in_util", "in_cap"}
      /\ at["sampler"] \in {"in_sample", "in_util", "in_cap"}
  BY DEF InLibrary, Threads
<1>2. at["main"] \in {"in_sample", "in_util"}
  BY <1>1 DEF PlacesInv
<1>3. mlock = "main" /\ ~running
  BY <1>2 DEF PlacesInv, Sampling, Threads
<1>4. at["sampler"] = "in_cap"
  BY <1>1, <1>3 DEF PlacesInv, Sampling, Threads
<1> QED
  BY <1>3, <1>4 DEF PlacesInv

\* var_monitor and power_wrapper_static never have two threads in the library,
\* which has no lock of its own, and power_wrapper_dynamic only while it ends.
THEOREM LibraryIsNotShared == Spec => []CallsOverlapOnlyAfterStop
  BY TypeInit, TypeStep, PlacesInit, PlacesStep, PlacesSuffice, PTL DEF Spec

\* The thread begins at most one sample after main has cleared "running".
THEOREM OneLateSample == Spec => []AtMostOneLateSample
<1>1. LateInv => AtMostOneLateSample
  BY DEF LateInv, AtMostOneLateSample
<1> QED
  BY <1>1, TypeInit, TypeStep, PlacesInit, PlacesStep, PTL DEF Spec

\* Both together: what is left of the thread once "running" is cleared.
THEOREM ThreadEndsQuietly == Spec => []ThreadWindsDown
<1>1. CallsOverlapOnlyAfterStop /\ AtMostOneLateSample => ThreadWindsDown
  BY DEF ThreadWindsDown
<1> QED
  BY <1>1, LibraryIsNotShared, OneLateSample, PTL

-----------------------------------------------------------------------------
\* The trace: every step of MonitorTrace is one of PowerMonitor.
LEMMA TraceStep == [TraceNext]_allVars => [Next]_vars
<1> SUFFICES ASSUME [TraceNext]_allVars PROVE [Next]_vars
  OBVIOUS
<1>1. ASSUME NEW t \in Threads, take_measurement(t) PROVE Next
  <2>1. Shared(t)
    BY <1>1 DEF take_measurement, GetsPower, WritesPower, MissesObject, GetsUtil, GetsNoUtil,
                WritesUtil, ElseShared, Shared, Parses
  <2> QED
    BY <2>1 DEF Next
<1>2. CASE MainStep
  BY <1>1, <1>2 DEF MainStep, Next, Threads
<1>3. CASE SamplerStep
  BY <1>1, <1>3 DEF SamplerStep, Next, Threads
<1>4. CASE UNCHANGED allVars
  BY <1>4 DEF allVars
<1> QED
  BY <1>2, <1>3, <1>4 DEF TraceNext

\* With its files the monitor still does what the monitor does: what is proved
\* of the two threads of var_monitor and the wrappers holds while they write.
THEOREM TraceIsOfMonitor == TraceSpec => Spec
<1>1. TraceInit => Init
  BY DEF TraceInit
<1> QED
  BY <1>1, TraceStep, PTL DEF TraceSpec, Spec

-----------------------------------------------------------------------------
\* The node: it has a socket, its platforms say one or two things about it, and
\* utilization comes from GPUs whose power is reported.
Reports == {"nothing", "gpus", "juno", "neoverse", "cpu_and_memory"}

MachineOK ==
  /\ machine.sockets \in Nat \ {0} /\ machine.gpus \in Nat
  /\ machine.util \in {"cpu", "gpus", "null"}
  /\ DOMAIN machine.reports \in {{1}, {1, 2}} /\ Len(machine.reports) \in {1, 2}
  /\ Len(machine.reports) = 2 => 2 \in DOMAIN machine.reports
  /\ Reported \subseteq Reports
  /\ machine.util = "gpus" => "gpus" \in Reported

LEMMA BuildShape ==
  ASSUME NEW b \in T!Builds
  PROVE  /\ \/ DOMAIN b = {1} /\ Len(b) = 1
            \/ DOMAIN b = {1, 2} /\ Len(b) = 2
         /\ \A k \in DOMAIN b : b[k] \in T!Platforms
<1>1. CASE \E p \in T!Platforms : b = <<p>>
  BY <1>1
<1>2. CASE \E q \in (DOMAIN T!PlatformOrder) \X (DOMAIN T!PlatformOrder) :
             b = <<T!PlatformOrder[q[1]], T!PlatformOrder[q[2]]>>
  <2>1. PICK q \in (DOMAIN T!PlatformOrder) \X (DOMAIN T!PlatformOrder) :
               b = <<T!PlatformOrder[q[1]], T!PlatformOrder[q[2]]>>
    BY <1>2
  <2>2. T!PlatformOrder[q[1]] \in T!Platforms /\ T!PlatformOrder[q[2]] \in T!Platforms
    BY <2>1 DEF T!Platforms
  <2> QED
    BY <2>1, <2>2
<1> QED
  BY <1>1, <1>2 DEF T!Builds

LEMMA MachineShape == ASSUME machine \in Machines PROVE MachineOK
<1>1. PICK b \in T!Builds : machine \in
        {[reports |-> [k \in DOMAIN b |-> Report(b[k], m[k])], util |-> Utilization(b, m),
          sockets |-> s, gpus |-> g] :
           m \in Architectures(b), s \in SocketCounts, g \in GpuCounts}
  BY DEF Machines
<1>2. PICK m \in Architectures(b), s \in SocketCounts, g \in GpuCounts :
        machine = [reports |-> [k \in DOMAIN b |-> Report(b[k], m[k])], util |-> Utilization(b, m),
                   sockets |-> s, gpus |-> g]
  BY <1>1
<1>3. /\ machine.reports = [k \in DOMAIN b |-> Report(b[k], m[k])]
      /\ machine.util = Utilization(b, m)
      /\ machine.sockets = s /\ machine.gpus = g
  BY <1>2
<1>4. machine.sockets \in Nat \ {0} /\ machine.gpus \in Nat
  BY <1>3, TraceAssumption
<1>5. DOMAIN machine.reports = DOMAIN b
  BY <1>3
<1>6. machine.reports \in Seq(Reports) /\ Len(machine.reports) = Len(b)
  <2>1. DOMAIN b = 1 .. Len(b) /\ Len(b) \in Nat
    BY BuildShape
  <2>2. \A k \in DOMAIN b : Report(b[k], m[k]) \in Reports
    BY DEF Report, Reports
  <2> QED
    BY <1>3, <2>1, <2>2
<1>7. Reported \subseteq Reports
  BY <1>6 DEF Reported
<1>8. machine.util \in {"cpu", "gpus", "null"}
  BY <1>3 DEF Utilization
<1>9. ASSUME machine.util = "gpus" PROVE "gpus" \in Reported
  <2> DEFINE gpu == {k \in DOMAIN b : b[k] \in T!GpuPlatforms}
  <2>1. gpu # {} /\ \A k \in gpu : "get_utilization_json" \in m[k]
    BY <1>3, <1>9 DEF Utilization
  <2>2. PICK k \in gpu : "get_utilization_json" \in m[k]
    BY <2>1
  <2>3. m[k] \in T!Supported[b[k]]
    BY <2>2 DEF Architectures
  <2>4. b[k] \in {"intel_gpu", "amd_gpu", "nvidia_gpu"}
    <3>1. b[k] \in T!Platforms \ T!CpuPlatforms
      BY <2>2 DEF T!GpuPlatforms
    <3> QED
      BY <3>1 DEF T!Platforms, T!CpuPlatforms, T!PlatformOrder
  <2>5. "get_power_json" \in m[k]
    BY <2>2, <2>3, <2>4 DEF T!Supported, T!VOLTA, T!AMD_INSTINCT, T!IntelGpu
  <2>6. m[k] # T!JunoR2 /\ m[k] # T!NeoverseN1
    <3>1. "get_utilization_json" \notin T!JunoR2 /\ "get_utilization_json" \notin T!NeoverseN1
      BY DEF T!JunoR2, T!NeoverseN1
    <3> QED
      BY <2>2, <3>1
  <2>7. b[k] \in T!GpuPlatforms
    BY <2>2
  <2>8. Report(b[k], m[k]) = "gpus"
    BY <2>5, <2>6, <2>7 DEF Report
  <2> QED
    BY <1>3, <1>5, <2>2, <2>8 DEF Reported
<1> QED
  BY <1>4, <1>5, <1>6, <1>7, <1>8, <1>9, BuildShape DEF MachineOK

-----------------------------------------------------------------------------
\* The object of the power, when Juno has no part in it: a socket either has its
\* GPUs or none, and one that no GPU has added to has a memory.
ObjectOK(obj) ==
  /\ obj = [node |-> obj.node, num_gpus_per_socket |-> obj.num_gpus_per_socket, socket |-> obj.socket]
  /\ \A i \in DOMAIN obj.socket :
       obj.socket[i] = [has |-> obj.socket[i].has, gpus |-> obj.socket[i].gpus]
  /\ obj.num_gpus_per_socket \in {-1, PerSocket}
  /\ DOMAIN obj.socket \subseteq Socket
  /\ \A i \in DOMAIN obj.socket :
       /\ "gpu" \in obj.socket[i].has => obj.socket[i].gpus = GpusOf(i)
       /\ obj.num_gpus_per_socket = -1 => "mem" \in obj.socket[i].has

LEMMA PerSocketIsNumber == ASSUME MachineOK PROVE PerSocket \in Nat
  BY DEF MachineOK, PerSocket

\* What a platform adds keeps the object in shape, and only the GPUs say how
\* many of them a socket has.
LEMMA AddsShape ==
  ASSUME MachineOK, NEW report \in Reports, report # "juno", NEW obj, ObjectOK(obj)
  PROVE  /\ ObjectOK(Adds(report, obj))
         /\ report = "gpus" => Adds(report, obj).num_gpus_per_socket = PerSocket
         /\ report # "gpus" => Adds(report, obj).num_gpus_per_socket = obj.num_gpus_per_socket
<1>0. PerSocket \in Nat
  BY PerSocketIsNumber
<1>1. CASE report = "nothing"
  BY <1>1 DEF Adds
<1>2. CASE report = "cpu_and_memory"
  <2>1. Adds(report, obj) =
          [node |-> TRUE, num_gpus_per_socket |-> obj.num_gpus_per_socket,
           socket |-> [i \in Socket |-> [has |-> {"cpu", "mem"}, gpus |-> {}]]]
    BY <1>2 DEF Adds, CpuAndMemory, ObjectOK
  <2> QED
    BY <1>2, <2>1 DEF ObjectOK
<1>3. CASE report = "neoverse"
  <2>1. Adds(report, obj) =
          [node |-> obj.node, num_gpus_per_socket |-> obj.num_gpus_per_socket,
           socket |-> [i \in DOMAIN obj.socket |->
                         [has |-> obj.socket[i].has \cup (IF i = 0 THEN {"cpu"} ELSE {}),
                          gpus |-> obj.socket[i].gpus]]]
    BY <1>3 DEF Adds, Neoverse, ObjectOK
  <2> QED
    BY <1>3, <2>1 DEF ObjectOK
<1>4. CASE report = "gpus"
  <2> DEFINE has(i) == IF i \in DOMAIN obj.socket THEN obj.socket[i].has ELSE {}
  <2>1. Adds(report, obj) =
          [node |-> obj.node, num_gpus_per_socket |-> PerSocket,
           socket |-> [i \in Socket |-> [has |-> has(i) \cup {"gpu"}, gpus |-> GpusOf(i)]]]
    BY <1>4 DEF Adds, Gpus, ObjectOK
  <2> HIDE DEF has
  <2> QED
    BY <1>0, <1>4, <2>1 DEF ObjectOK
<1> QED
  BY <1>1, <1>2, <1>3, <1>4 DEF Reports

LEMMA PowerObjectShape ==
  ASSUME MachineOK, "juno" \notin Reported
  PROVE  /\ ObjectOK(PowerObject)
         /\ "gpus" \in Reported => PowerObject.num_gpus_per_socket = PerSocket
         /\ "gpus" \notin Reported => PowerObject.num_gpus_per_socket = -1
<1> DEFINE r == machine.reports
           first == Adds(r[1], EmptyObject)
           second == Adds(r[2], first)
<1>1. ObjectOK(EmptyObject) /\ EmptyObject.num_gpus_per_socket = -1
  BY DEF ObjectOK, EmptyObject
<1>2. 1 \in DOMAIN r /\ r[1] \in Reported /\ r[1] \in Reports /\ r[1] # "juno"
  BY DEF MachineOK, Reported
<1>3. /\ ObjectOK(first)
      /\ r[1] = "gpus" => first.num_gpus_per_socket = PerSocket
      /\ r[1] # "gpus" => first.num_gpus_per_socket = -1
  <2> HIDE DEF r
  <2> QED
    BY <1>1, <1>2, AddsShape
<1>4. CASE Len(r) = 1
  <2>1. PowerObject = first
    BY <1>4 DEF PowerObject
  <2>2. Reported = {r[1]}
    BY <1>4 DEF MachineOK, Reported
  <2> HIDE DEF r, first
  <2> QED
    BY <1>3, <2>1, <2>2
<1>5. CASE Len(r) = 2
  <2>1. PowerObject = second
    BY <1>5 DEF PowerObject
  <2>2. 2 \in DOMAIN r /\ Reported = {r[1], r[2]} /\ r[2] \in Reports /\ r[2] # "juno"
    BY <1>5 DEF MachineOK, Reported
  <2> HIDE DEF r, first
  <2>3. /\ ObjectOK(second)
        /\ r[2] = "gpus" => second.num_gpus_per_socket = PerSocket
        /\ r[2] # "gpus" => second.num_gpus_per_socket = first.num_gpus_per_socket
    BY <1>3, <2>2, AddsShape
  <2> QED
    BY <1>3, <2>1, <2>2, <2>3
<1> QED
  BY <1>4, <1>5 DEF MachineOK

-----------------------------------------------------------------------------
\* The numbers of the GPUs: those of one socket come before those of the next,
\* and the last of the node is the last of the last socket.
LEMMA Times ==
  ASSUME NEW a \in Nat, NEW b \in Nat, NEW n \in Nat, a <= b
  PROVE  a * n \in Nat /\ b * n \in Nat /\ a * n <= b * n
<1>1. a * n \in Nat /\ b * n \in Nat /\ (b - a) * n \in Nat
  OBVIOUS
<1>2. b * n = a * n + (b - a) * n
  OBVIOUS
<1> QED
  BY <1>1, <1>2

LEMMA TimesOne == ASSUME NEW a \in Nat, NEW n \in Nat PROVE (a + 1) * n = a * n + n
  OBVIOUS

LEMMA GpuNumbers ==
  ASSUME MachineOK, PerSocket > 0, NEW i \in Socket
  PROVE  /\ \A d \in GpusOf(i) : d \in Nat /\ d <= PerSocket * machine.sockets - 1
         /\ PerSocket * machine.sockets - 1 \in GpusOf(i) <=> i = machine.sockets - 1
<1> DEFINE n == PerSocket
           s == machine.sockets
<1>1. n \in Nat \ {0} /\ s \in Nat \ {0} /\ i \in Nat /\ i + 1 \in Nat /\ i + 1 <= s
  BY PerSocketIsNumber DEF MachineOK, Socket
<1>2. GpusOf(i) = i * n .. (i + 1) * n - 1
  BY DEF GpusOf
<1> HIDE DEF n, s
<1>3. i * n \in Nat /\ (i + 1) * n \in Nat /\ s * n \in Nat /\ (i + 1) * n <= s * n
  <2>1. i * n \in Nat
    BY <1>1
  <2> QED
    BY <1>1, <2>1, Times
<1>4. n * s = s * n
  BY <1>1
<1>5. \A d \in GpusOf(i) : d \in Nat /\ d <= n * s - 1
  BY <1>2, <1>3, <1>4
<1>6. ASSUME i = s - 1 PROVE n * s - 1 \in GpusOf(i)
  <2>1. i + 1 = s
    BY <1>1, <1>6
  <2>2. (i + 1) * n = i * n + n
    BY <1>1, TimesOne
  <2>3. (i + 1) * n = s * n
    BY <2>1
  <2> QED
    BY <1>1, <1>2, <1>3, <1>4, <2>2, <2>3
<1>7. ASSUME n * s - 1 \in GpusOf(i), i # s - 1 PROVE FALSE
  <2>1. i + 1 + 1 <= s /\ i + 1 + 1 \in Nat
    BY <1>1, <1>7
  <2>2. (i + 1 + 1) * n <= s * n
    BY <1>1, <2>1, Times
  <2>3. (i + 1 + 1) * n = (i + 1) * n + n
    BY <1>1, TimesOne
  <2>4. n * s - 1 <= (i + 1) * n - 1
    BY <1>2, <1>3, <1>7
  <2> QED
    BY <1>1, <1>3, <1>4, <2>2, <2>3, <2>4
<1> QED
  BY <1>5, <1>6, <1>7 DEF n, s

\* Every GPU that a node's sockets share evenly is on one of them.
LEMMA GpuHasSocket ==
  ASSUME MachineOK, NEW d \in 0 .. PerSocket * machine.sockets - 1
  PROVE  \E i \in Socket : d \in GpusOf(i)
<1> DEFINE n == PerSocket
           s == machine.sockets
           i == d \div n
<1>1. n \in Nat /\ s \in Nat \ {0} /\ Socket = 0 .. s - 1
  BY PerSocketIsNumber DEF MachineOK, Socket
<1>2. n * s \in Nat /\ d \in Nat /\ d < n * s /\ n # 0
  <2>1. n * s \in Nat /\ d \in 0 .. n * s - 1
    BY <1>1
  <2>2. d \in Nat /\ d < n * s
    BY <2>1
  <2>3. ASSUME n = 0 PROVE FALSE
    BY <1>1, <2>2, <2>3
  <2> QED
    BY <2>1, <2>2, <2>3
<1>3. GpusOf(d \div n) = (d \div n) * n .. (d \div n + 1) * n - 1
  BY DEF GpusOf
<1> HIDE DEF n, s
<1>4. i \in Nat /\ d % n \in 0 .. n - 1 /\ d = n * i + (d % n)
  BY <1>1, <1>2
<1> HIDE DEF i
<1>5. i * n \in Nat /\ i * n = n * i /\ (i + 1) * n = i * n + n
  BY <1>1, <1>4, TimesOne
<1>6. d \in i * n .. (i + 1) * n - 1
  BY <1>1, <1>2, <1>4, <1>5
<1>7. i \in Socket
  <2>1. ASSUME ~(i <= s - 1) PROVE FALSE
    <3>1. s <= i /\ s \in Nat
      BY <1>1, <1>4, <2>1
    <3>2. s * n <= i * n
      BY <1>1, <1>4, <3>1, Times
    <3>3. s * n = n * s
      BY <1>1
    <3> QED
      BY <1>1, <1>2, <1>4, <1>5, <3>2, <3>3
  <2> QED
    BY <1>1, <1>4, <2>1
<1> QED
  BY <1>3, <1>6, <1>7 DEF i, n

-----------------------------------------------------------------------------
\* Where the columns of the power stand.
LEMMA PowerColumnIs ==
  ASSUME NEW obj, NEW c \in PowerColumns(obj)
  PROVE  \/ c[1] = -1 /\ c[2] = -1 /\ c[3] # "end"
         \/ \E i \in Socket :
              \/ c[1] = i /\ c[2] = -1 /\ c[3] \in {"cpu", "mem"}
              \/ /\ c = Column(i, -1, "end", 0)
                 /\ "mem" \in obj.socket[i].has /\ i + 1 = machine.sockets
                 /\ obj.num_gpus_per_socket < 0
              \/ obj.num_gpus_per_socket > 0 /\ c \in GpuColumns(obj, i)
<1>1. CASE c \in Leading({"hostname", "timestamp"} \cup (IF obj.node THEN {"node"} ELSE {}))
  <2>1. PICK name \in {"hostname", "timestamp", "node"} : c = Column(-1, -1, name, 0)
    BY <1>1 DEF Leading
  <2> QED
    BY <2>1 DEF Column
<1>2. CASE \E i \in Socket : c \in SocketColumns(obj, i)
  <2>1. PICK i \in Socket : c \in SocketColumns(obj, i)
    BY <1>2
  <2>2. \/ c \in {Column(i, -1, name, i) : name \in obj.socket[i].has \cap {"cpu", "mem"}}
        \/ c \in EndIf("mem" \in obj.socket[i].has /\ i + 1 = machine.sockets
                         /\ obj.num_gpus_per_socket < 0, i, -1)
        \/ obj.num_gpus_per_socket > 0 /\ c \in GpuColumns(obj, i)
    BY <2>1 DEF SocketColumns
  <2>3. ASSUME c \in {Column(i, -1, name, i) : name \in obj.socket[i].has \cap {"cpu", "mem"}}
        PROVE  c[1] = i /\ c[2] = -1 /\ c[3] \in {"cpu", "mem"}
    BY <2>3 DEF Column
  <2>4. ASSUME c \in EndIf("mem" \in obj.socket[i].has /\ i + 1 = machine.sockets
                             /\ obj.num_gpus_per_socket < 0, i, -1)
        PROVE  /\ c = Column(i, -1, "end", 0)
               /\ "mem" \in obj.socket[i].has /\ i + 1 = machine.sockets
               /\ obj.num_gpus_per_socket < 0
    BY <2>4 DEF EndIf
  <2> QED
    BY <2>2, <2>3, <2>4
<1> QED
  BY <1>1, <1>2 DEF PowerColumns

LEMMA GpuColumnIs ==
  ASSUME NEW obj, NEW i, NEW c \in GpuColumns(obj, i)
  PROVE  \E d \in obj.socket[i].gpus :
           \/ c = Column(i, d, "gpu", d)
           \/ c = Column(i, d, "end", 0) /\ d = obj.num_gpus_per_socket * machine.sockets - 1
  BY DEF GpuColumns, EndIf

\* Without Juno, and with a GPU for each socket where there are GPUs, a line of
\* the power that is written at all ends once, after its last column.
LEMMA PowerLineCloses ==
  ASSUME MachineOK, "juno" \notin Reported, ~FewerGpusThanSockets, ~ObjectLacks
  PROVE  Closed(PowerColumns(PowerObject))
<1> DEFINE obj == PowerObject
           n == PowerObject.num_gpus_per_socket
           last == machine.sockets - 1
<1>1. last \in Socket /\ last \in Nat /\ \A i \in Socket : i \in Nat /\ i <= last
  BY DEF MachineOK, Socket
<1>2. ObjectOK(obj) /\ PerSocket \in Nat
  BY PowerObjectShape, PerSocketIsNumber
<1>3. \A i \in Socket : i \in DOMAIN obj.socket
  BY DEF ObjectLacks
<1>4. CASE "gpus" \notin Reported
  <2> DEFINE e == Column(last, -1, "end", 0)
  <2>1. n = -1
    BY <1>4, PowerObjectShape
  <2>2. "mem" \in obj.socket[last].has /\ last + 1 = machine.sockets
    BY <1>1, <1>2, <1>3, <2>1 DEF ObjectOK, MachineOK
  <2>3. e \in PowerColumns(obj)
    <3>1. e \in EndIf("mem" \in obj.socket[last].has /\ last + 1 = machine.sockets /\ n < 0, last, -1)
      BY <2>1, <2>2 DEF EndIf
    <3>2. e \in SocketColumns(obj, last)
      BY <3>1 DEF SocketColumns
    <3> QED
      BY <1>1, <3>2 DEF PowerColumns
  <2>4. e[1] = last /\ e[2] = -1 /\ e[3] = "end"
    BY DEF Column
  <2>5. ASSUME NEW c \in PowerColumns(obj) \ {e} PROVE c[3] # "end" /\ Before(c, e)
    <3>1. CASE c[1] = -1 /\ c[2] = -1 /\ c[3] # "end"
      BY <1>1, <2>4, <3>1 DEF Before
    <3>2. ASSUME NEW i \in Socket, c[1] = i /\ c[2] = -1 /\ c[3] \in {"cpu", "mem"}
          PROVE  c[3] # "end" /\ Before(c, e)
      BY <1>1, <2>4, <3>2 DEF Before
    <3>3. ASSUME NEW i \in Socket, c = Column(i, -1, "end", 0), i + 1 = machine.sockets PROVE FALSE
      BY <1>1, <2>2, <3>3
    <3> QED
      BY <2>1, <3>1, <3>2, <3>3, PowerColumnIs
  <2> QED
    BY <2>3, <2>4, <2>5 DEF Closed
<1>5. CASE "gpus" \in Reported
  <2> DEFINE d0 == PerSocket * machine.sockets - 1
             e == Column(last, d0, "end", 0)
  <2>1. n = PerSocket /\ n > 0
    BY <1>2, <1>5, PowerObjectShape DEF FewerGpusThanSockets
  <2>2. ASSUME NEW i \in Socket
        PROVE  /\ obj.socket[i].gpus = GpusOf(i)
               /\ \A d \in GpusOf(i) : d \in Nat /\ d <= d0
               /\ d0 \in GpusOf(i) <=> i = last
    <3>1. "gpu" \in obj.socket[i].has
      BY <2>1 DEF ObjectLacks
    <3>2. obj.socket[i].gpus = GpusOf(i)
      BY <1>2, <1>3, <3>1 DEF ObjectOK
    <3> QED
      BY <2>1, <3>2, GpuNumbers
  <2>3. e \in PowerColumns(obj)
    <3>1. d0 \in obj.socket[last].gpus
      BY <1>1, <2>2
    <3>2. e \in EndIf(d0 = n * machine.sockets - 1, last, d0)
      BY <2>1 DEF EndIf
    <3>3. e \in GpuColumns(obj, last)
      BY <3>1, <3>2 DEF GpuColumns
    <3>4. e \in SocketColumns(obj, last)
      BY <2>1, <3>3 DEF SocketColumns
    <3> QED
      BY <1>1, <3>4 DEF PowerColumns
  <2>4. e[1] = last /\ e[2] = d0 /\ e[3] = "end" /\ d0 \in Nat
    <3>1. d0 \in Nat
      BY <1>1, <2>2
    <3> QED
      BY <3>1 DEF Column
  <2>5. ASSUME NEW c \in PowerColumns(obj) \ {e} PROVE c[3] # "end" /\ Before(c, e)
    <3> HIDE DEF d0
    <3>1. CASE c[1] = -1 /\ c[2] = -1 /\ c[3] # "end"
      BY <1>1, <2>4, <3>1 DEF Before
    <3>2. ASSUME NEW i \in Socket, c[1] = i /\ c[2] = -1 /\ c[3] \in {"cpu", "mem"}
          PROVE  c[3] # "end" /\ Before(c, e)
      BY <1>1, <2>4, <3>2 DEF Before
    <3>3. ASSUME NEW i \in Socket, c \in GpuColumns(obj, i)
          PROVE  c[3] # "end" /\ Before(c, e)
      <4>1. PICK d \in GpusOf(i) :
              \/ c = Column(i, d, "gpu", d)
              \/ c = Column(i, d, "end", 0) /\ d = n * machine.sockets - 1
        BY <2>2, <3>3, GpuColumnIs
      <4>2. d \in Nat /\ d <= d0
        BY <2>2
      <4>3. CASE c = Column(i, d, "gpu", d)
        <5>1. c[1] = i /\ c[2] = d /\ c[3] = "gpu"
          BY <4>3 DEF Column
        <5> QED
          BY <1>1, <2>4, <4>2, <5>1 DEF Before
      <4>4. CASE c = Column(i, d, "end", 0) /\ d = n * machine.sockets - 1
        <5>1. d = d0
          BY <2>1, <4>4 DEF d0
        <5>2. i = last
          BY <2>2, <5>1
        <5> QED
          BY <4>4, <5>1, <5>2
      <4> QED
        BY <4>1, <4>3, <4>4
    <3>4. \/ c[1] = -1 /\ c[2] = -1 /\ c[3] # "end"
          \/ \E i \in Socket : \/ c[1] = i /\ c[2] = -1 /\ c[3] \in {"cpu", "mem"}
                              \/ n < 0
                              \/ c \in GpuColumns(obj, i)
      BY PowerColumnIs
    <3>5. ~(n < 0)
      BY <1>2, <2>1
    <3> QED
      BY <3>1, <3>2, <3>3, <3>4, <3>5
  <2> QED
    BY <2>3, <2>4, <2>5 DEF Closed
<1> QED
  BY <1>4, <1>5

\* And every GPU of the node is in it.
LEMMA EveryGpuIsThere ==
  ASSUME MachineOK, "juno" \notin Reported, "gpus" \in Reported, ~ObjectLacks,
         NEW d \in 0 .. PerSocket * machine.sockets - 1
  PROVE  \E i \in Socket : Column(i, d, "gpu", d) \in PowerColumns(PowerObject)
<1> DEFINE obj == PowerObject
<1>1. PICK i \in Socket : d \in GpusOf(i)
  BY GpuHasSocket
<1>2. PerSocket \in Nat /\ PerSocket # 0
  <2>1. PerSocket \in Nat /\ machine.sockets \in Nat
    BY PerSocketIsNumber DEF MachineOK
  <2>2. ASSUME PerSocket = 0 PROVE FALSE
    <3>1. PerSocket * machine.sockets - 1 = -1
      BY <2>1, <2>2
    <3> QED
      BY <3>1
  <2> QED
    BY <2>1, <2>2
<1>3. ObjectOK(obj) /\ obj.num_gpus_per_socket = PerSocket
  BY PowerObjectShape
<1>4. i \in DOMAIN obj.socket /\ "gpu" \in obj.socket[i].has
  BY <1>2, <1>3 DEF ObjectLacks
<1>5. obj.socket[i].gpus = GpusOf(i)
  BY <1>3, <1>4 DEF ObjectOK
<1>6. Column(i, d, "gpu", d) \in GpuColumns(obj, i)
  BY <1>1, <1>5 DEF GpuColumns
<1>7. obj.num_gpus_per_socket > 0
  BY <1>2, <1>3
<1>8. Column(i, d, "gpu", d) \in SocketColumns(obj, i)
  BY <1>6, <1>7 DEF SocketColumns
<1> QED
  BY <1>8 DEF PowerColumns

\* A line of the utilization ends once too, where there is utilization.
LEMMA UtilLineCloses ==
  ASSUME MachineOK, ~FewerGpusThanSockets, machine.util # "null"
  PROVE  Closed(UtilColumns) /\ UtilHeaderEnds
<1> DEFINE lead == Leading({"hostname", "timestamp", "memory", "cpu_util", "user", "system"})
           last == machine.sockets - 1
<1>1. \A c \in lead : c[1] = -1 /\ c[2] = -1 /\ c[3] # "end"
  BY DEF Leading, Column
<1>2. last \in Socket /\ last \in Nat /\ \A i \in Socket : i \in Nat /\ i <= last
  BY DEF MachineOK, Socket
<1>3. CASE machine.util = "cpu"
  <2> DEFINE e == Column(-1, -1, "end", 0)
  <2>1. UtilColumns = lead \cup {e}
    BY <1>3 DEF UtilColumns, EndIf
  <2>2. e[1] = -1 /\ e[2] = -1 /\ e[3] = "end"
    BY DEF Column
  <2> HIDE DEF e, lead
  <2>3. \A c \in UtilColumns \ {e} : c[3] # "end" /\ Before(c, e)
    BY <1>1, <2>1, <2>2 DEF Before
  <2> QED
    BY <1>3, <2>1, <2>2, <2>3 DEF Closed, UtilHeaderEnds
<1>4. CASE machine.util = "gpus"
  <2> DEFINE e == Column(last, PerSocket, "end", 0)
  <2>1. PerSocket \in Nat /\ PerSocket > 0
    BY <1>4, PerSocketIsNumber DEF FewerGpusThanSockets, MachineOK
  <2>2. UtilColumns = lead \cup UNION {GpuUtilColumns(i) : i \in Socket}
    BY <1>4 DEF UtilColumns
  <2>3. e \in UtilColumns
    <3>1. PerSocket \in 1 .. PerSocket /\ last + 1 = machine.sockets
      BY <2>1 DEF MachineOK
    <3>2. e \in EndIf(last + 1 = machine.sockets /\ PerSocket = PerSocket, last, PerSocket)
      BY <3>1 DEF EndIf
    <3>3. e \in GpuUtilColumns(last)
      BY <3>1, <3>2 DEF GpuUtilColumns
    <3> QED
      BY <1>2, <2>2, <3>3
  <2>4. e[1] = last /\ e[2] = PerSocket /\ e[3] = "end"
    BY DEF Column
  <2>5. ASSUME NEW c \in UtilColumns \ {e} PROVE c[3] # "end" /\ Before(c, e)
    <3>1. CASE c \in lead
      BY <1>1, <1>2, <2>4, <3>1 DEF Before
    <3>2. ASSUME NEW i \in Socket, c \in GpuUtilColumns(i) PROVE c[3] # "end" /\ Before(c, e)
      <4>1. PICK j \in 1 .. PerSocket :
              c \in {UtilColumn(i, j)} \cup EndIf(i + 1 = machine.sockets /\ j = PerSocket, i, j)
        BY <3>2 DEF GpuUtilColumns
      <4>2. i \in Nat /\ i <= last /\ j \in Nat /\ j <= PerSocket
        BY <1>2, <2>1
      <4>3. CASE c = UtilColumn(i, j)
        <5>1. c[1] = i /\ c[2] = j /\ c[3] = "gpu_util"
          BY <4>3 DEF UtilColumn, Column
        <5> QED
          BY <1>2, <2>1, <2>4, <4>2, <5>1 DEF Before
      <4>4. CASE c \in EndIf(i + 1 = machine.sockets /\ j = PerSocket, i, j)
        <5>1. c = Column(i, j, "end", 0) /\ i + 1 = machine.sockets /\ j = PerSocket
          BY <4>4 DEF EndIf
        <5>2. i = last
          BY <1>2, <4>2, <5>1 DEF MachineOK
        <5>3. c = e
          BY <5>1, <5>2
        <5> QED
          BY <5>3
      <4> QED
        BY <4>1, <4>3, <4>4
    <3> QED
      BY <2>2, <3>1, <3>2
  <2> QED
    BY <2>1, <2>2, <2>3, <2>4, <2>5 DEF Closed, UtilHeaderEnds
<1> QED
  BY <1>3, <1>4 DEF MachineOK

-----------------------------------------------------------------------------
\* What a line is depends on the machine alone, which stays what it is.
LEMMA SameMachine ==
  ASSUME machine' = machine
  PROVE  /\ PowerColumns(PowerObject)' = PowerColumns(PowerObject)
         /\ ObjectLacks' = ObjectLacks
         /\ UtilColumns' = UtilColumns
         /\ UtilHeaderEnds' = UtilHeaderEnds
<1>1. Socket' = Socket /\ PerSocket' = PerSocket
  BY DEF Socket, PerSocket
<1>2. PowerObject' = PowerObject
  BY DEF PowerObject, Adds, CpuAndMemory, Juno, Neoverse, Gpus, GpusOf, Socket, PerSocket
<1>3. PowerColumns(PowerObject)' = PowerColumns(PowerObject)
  BY DEF PowerColumns, SocketColumns, GpuColumns, Socket,
         PowerObject, Adds, CpuAndMemory, Juno, Neoverse, Gpus, GpusOf, PerSocket
<1>4. ObjectLacks' = ObjectLacks
  BY <1>1, <1>2 DEF ObjectLacks
<1>5. UtilColumns' = UtilColumns
  BY <1>1 DEF UtilColumns, GpuUtilColumns, UtilColumn
<1>6. UtilHeaderEnds' = UtilHeaderEnds
  BY <1>1 DEF UtilHeaderEnds
<1> QED
  BY <1>3, <1>4, <1>5, <1>6

\* A file is empty until its header has been written, and then holds the header
\* and the values put together under the same tests.  The flag that says which
\* is static: between a parser finding it and using it nobody else writes it,
\* because a parser runs under the mutex.
Written(columns) == [headers |-> 1, header |-> columns, row |-> columns]

FilesInv ==
  /\ write_header \in BOOLEAN /\ write_util_header \in BOOLEAN /\ seen \in [Threads -> BOOLEAN]
  /\ power_dat = IF write_header THEN EmptyFile ELSE Written(PowerColumns(PowerObject))
  /\ ~write_header => ~ObjectLacks
  /\ UtilHeaderEnds => util_dat = IF write_util_header THEN EmptyFile ELSE Written(UtilColumns)
  /\ machine.util = "null" => util_dat = EmptyFile

ParsersInv ==
  /\ measure_all \/ MachineOK
  /\ measure_all => power_dat = EmptyFile /\ util_dat = EmptyFile
  /\ \A t \in Threads :
       /\ at[t] \in {"parses", "in_util", "parses_util"} => ~measure_all
       /\ at[t] = "parses" => seen[t] = write_header
       /\ at[t] = "parses_util" => seen[t] = write_util_header /\ machine.util # "null"

LEMMA FilesInit == TraceInit => FilesInv /\ ParsersInv
<1> SUFFICES ASSUME TraceInit PROVE FilesInv /\ ParsersInv
  OBVIOUS
<1>1. FilesInv
  BY DEF TraceInit, FilesInv
<1>2. measure_all \/ MachineOK
  BY MachineShape DEF TraceInit
<1>3. \A t \in Threads : at[t] \notin {"parses", "in_util", "parses_util"}
  BY DEF TraceInit, Init, Threads
<1> QED
  BY <1>1, <1>2, <1>3 DEF ParsersInv, TraceInit

\* A step that writes no file and moves nobody into a parser keeps both.
LEMMA QuietStep ==
  ASSUME TypeOK, FilesInv, ParsersInv, UNCHANGED traceVars, measure_all' = measure_all,
         \A t \in Threads : at'[t] \in {"in_util", "parses", "parses_util"} =>
                              at'[t] = at[t] \/ (at'[t] = "in_util" /\ ~measure_all)
  PROVE  FilesInv' /\ ParsersInv'
<1>1. /\ UNCHANGED <<machine, write_header, write_util_header, seen, power_dat, util_dat>>
      /\ MachineOK' = MachineOK
  BY DEF traceVars, MachineOK, Reported
<1>2. FilesInv'
  BY <1>1, SameMachine DEF FilesInv, Written, EmptyFile
<1>3. ParsersInv'
  BY <1>1 DEF ParsersInv, EmptyFile
<1> QED
  BY <1>2, <1>3

\* Only the thread that holds the mutex is in a parser.
LEMMA OneParser ==
  ASSUME PlacesInv, NEW t \in Threads, at[t] \in Sampling
  PROVE  \A u \in Threads \ {t} : at[u] \notin Sampling
  BY DEF PlacesInv

LEMMA FilesStep ==
  ASSUME TypeOK, PlacesInv, FilesInv, ParsersInv, [TraceNext]_allVars
  PROVE  FilesInv' /\ ParsersInv'
<1>0. at \in [Threads -> Locations] /\ measure_all \in BOOLEAN
  BY DEF TypeOK
<1>1. ASSUME NEW t \in Threads, GetsPower(t) PROVE FilesInv' /\ ParsersInv'
  <2>1. /\ UNCHANGED <<machine, write_header, write_util_header, power_dat, util_dat, measure_all>>
        /\ at' = [at EXCEPT ![t] = IF measure_all THEN "unlocks" ELSE "parses"]
        /\ at[t] = "in_sample"
        /\ seen' = [seen EXCEPT ![t] = write_header]
        /\ MachineOK' = MachineOK
    BY <1>1 DEF GetsPower, SampleReturns, Goto, line, MachineOK, Reported
  <2>2. FilesInv'
    BY <2>1, SameMachine DEF FilesInv, Written, EmptyFile
  <2>3. \A u \in Threads \ {t} : at'[u] = at[u] /\ at'[u] \notin {"parses", "in_util", "parses_util"}
    BY <1>0, <2>1, OneParser DEF Sampling
  <2>4. at'[t] \notin {"in_util", "parses_util"} /\ (at'[t] = "parses" => ~measure_all)
    BY <1>0, <2>1
  <2>5. seen'[t] = write_header
    BY <2>1 DEF FilesInv
  <2> QED
    BY <2>1, <2>2, <2>3, <2>4, <2>5 DEF ParsersInv, EmptyFile
<1>2. ASSUME NEW t \in Threads, WritesPower(t) PROVE FilesInv' /\ ParsersInv'
  <2>1. /\ UNCHANGED <<machine, write_util_header, seen, util_dat, measure_all>>
        /\ at' = [at EXCEPT ![t] = IF power_with_util THEN "in_util" ELSE "unlocks"]
        /\ at[t] = "parses" /\ ~ObjectLacks
        /\ power_dat' = Write(power_dat, seen[t], PowerColumns(PowerObject))
        /\ write_header' = FALSE
        /\ MachineOK' = MachineOK
    BY <1>2 DEF WritesPower, ParsesPower, Goto, line, MachineOK, Reported
  <2>2. ~measure_all /\ seen[t] = write_header
    BY <2>1 DEF ParsersInv
  <2>3. power_dat' = Written(PowerColumns(PowerObject))
    <3>1. CASE write_header
      <4>1. power_dat = EmptyFile /\ seen[t]
        BY <2>2, <3>1 DEF FilesInv
      <4> QED
        BY <2>1, <4>1 DEF Write, Written, EmptyFile
    <3>2. CASE ~write_header
      <4>1. power_dat = Written(PowerColumns(PowerObject)) /\ ~seen[t]
        BY <2>2, <3>2 DEF FilesInv
      <4> QED
        BY <2>1, <4>1 DEF Write, Written
    <3> QED
      BY <3>1, <3>2
  <2>4. FilesInv'
    <3>1. /\ write_header' = FALSE /\ ~ObjectLacks'
          /\ power_dat' = Written(PowerColumns(PowerObject)')
      BY <2>1, <2>3, SameMachine
    <3>2. Written(PowerColumns(PowerObject)') = Written(PowerColumns(PowerObject))'
      BY DEF Written
    <3>3. /\ UtilHeaderEnds' => util_dat' = IF write_util_header' THEN EmptyFile ELSE Written(UtilColumns')
          /\ machine'.util = "null" => util_dat' = EmptyFile
      BY <2>1, SameMachine DEF FilesInv
    <3> QED
      BY <2>1, <3>1, <3>2, <3>3 DEF FilesInv, Written, EmptyFile
  <2>5. \A u \in Threads \ {t} : at'[u] = at[u] /\ at'[u] \notin {"parses", "in_util", "parses_util"}
    BY <1>0, <2>1, OneParser DEF Sampling
  <2>6. at'[t] \notin {"parses", "parses_util"}
    BY <1>0, <2>1
  <2> QED
    BY <2>1, <2>2, <2>4, <2>5, <2>6 DEF ParsersInv, EmptyFile
<1>3. ASSUME NEW t \in Threads, GetsUtil(t) PROVE FilesInv' /\ ParsersInv'
  <2>1. /\ UNCHANGED <<machine, write_header, write_util_header, power_dat, util_dat, measure_all>>
        /\ at' = [at EXCEPT ![t] = "parses_util"] /\ at[t] = "in_util"
        /\ machine.util # "null"
        /\ seen' = [seen EXCEPT ![t] = write_util_header]
        /\ MachineOK' = MachineOK
    BY <1>3 DEF GetsUtil, UtilReturns, Goto, line, MachineOK, Reported
  <2>2. FilesInv'
    BY <2>1, SameMachine DEF FilesInv, Written, EmptyFile
  <2>3. \A u \in Threads \ {t} : at'[u] = at[u] /\ at'[u] \notin {"parses", "in_util", "parses_util"}
    BY <1>0, <2>1, OneParser DEF Sampling
  <2>4. at'[t] = "parses_util" /\ ~measure_all
    BY <1>0, <2>1 DEF ParsersInv
  <2>5. seen'[t] = write_util_header
    BY <2>1 DEF FilesInv
  <2> QED
    BY <2>1, <2>2, <2>3, <2>4, <2>5 DEF ParsersInv, EmptyFile
<1>4. ASSUME NEW t \in Threads, WritesUtil(t) PROVE FilesInv' /\ ParsersInv'
  <2>1. /\ UNCHANGED <<machine, write_header, seen, power_dat, measure_all>>
        /\ at' = [at EXCEPT ![t] = "unlocks"] /\ at[t] = "parses_util"
        /\ util_dat' = Write(util_dat, seen[t], UtilColumns)
        /\ write_util_header' = (write_util_header /\ ~UtilHeaderEnds)
        /\ MachineOK' = MachineOK
    BY <1>4 DEF WritesUtil, ParsesUtil, Goto, line, MachineOK, Reported
  <2>2. ~measure_all /\ seen[t] = write_util_header /\ machine.util # "null"
    BY <2>1 DEF ParsersInv
  <2>3. UtilHeaderEnds => util_dat' = Written(UtilColumns) /\ ~write_util_header'
    <3>1. CASE UtilHeaderEnds /\ write_util_header
      <4>1. util_dat = EmptyFile /\ seen[t]
        BY <2>2, <3>1 DEF FilesInv
      <4>2. util_dat' = Write(EmptyFile, TRUE, UtilColumns)
        BY <2>1, <4>1
      <4>3. Write(EmptyFile, TRUE, UtilColumns) = Written(UtilColumns)
        BY DEF Write, Written, EmptyFile
      <4>4. ~write_util_header'
        BY <2>1, <3>1
      <4> QED
        BY <4>2, <4>3, <4>4
    <3>2. CASE UtilHeaderEnds /\ ~write_util_header
      <4>1. util_dat = Written(UtilColumns) /\ ~seen[t]
        BY <2>2, <3>2 DEF FilesInv
      <4>2. util_dat' = Write(Written(UtilColumns), FALSE, UtilColumns)
        <5>1. seen[t] = FALSE
          BY <4>1 DEF FilesInv
        <5> QED
          BY <2>1, <4>1, <5>1
      <4>3. Write(Written(UtilColumns), FALSE, UtilColumns) = Written(UtilColumns)
        BY DEF Write, Written
      <4>4. ~write_util_header'
        BY <2>1, <3>2
      <4> QED
        BY <4>2, <4>3, <4>4
    <3> QED
      BY <3>1, <3>2
  <2>4. write_util_header' \in BOOLEAN
    BY <2>1
  <2>5. FilesInv'
    BY <2>1, <2>2, <2>3, <2>4, SameMachine DEF FilesInv, Written, EmptyFile
  <2>6. \A u \in Threads \ {t} : at'[u] = at[u] /\ at'[u] \notin {"parses", "in_util", "parses_util"}
    BY <1>0, <2>1, OneParser DEF Sampling
  <2>7. at'[t] = "unlocks"
    BY <1>0, <2>1
  <2> QED
    BY <2>1, <2>2, <2>5, <2>6, <2>7 DEF ParsersInv, EmptyFile
<1>5. ASSUME NEW t \in Threads, MissesObject(t) \/ GetsNoUtil(t) PROVE FilesInv' /\ ParsersInv'
  <2>1. UNCHANGED traceVars /\ measure_all' = measure_all /\ at' = [at EXCEPT ![t] = "ended"]
    BY <1>5 DEF MissesObject, ObjectMissing, GetsNoUtil, UtilFails, Leaves, Goto, line
  <2> QED
    BY <1>0, <2>1, QuietStep
<1>6. ASSUME NEW t \in Threads, ElseShared(t) PROVE FilesInv' /\ ParsersInv'
  <2>1. /\ UNCHANGED traceVars /\ measure_all' = measure_all
        /\ \E to \in Locations \ {"in_util", "parses", "parses_util"} : at' = [at EXCEPT ![t] = to]
    BY <1>6 DEF ElseShared, Locks, Samples, SampleFails, Unlocks, SetsCap, CapReturns, Leaves, Goto,
                line, Locations
  <2> QED
    BY <1>0, <2>1, QuietStep
<1>7. ASSUME Sampler \/ Main, UNCHANGED traceVars PROVE FilesInv' /\ ParsersInv'
  <2>1. /\ measure_all' = measure_all
        /\ \/ \E t \in Threads, to \in Locations \ {"in_util", "parses", "parses_util"} :
                at' = [at EXCEPT ![t] = to]
           \/ at' = [t \in Threads |-> IF t = "main" THEN "waits" ELSE "begins"]
    BY <1>7 DEF Sampler, Begins, Checks, Adjusts, Main, CreatesThread, AppEnds, Stops, Summary, Goto,
                line, Locations, Threads
  <2> QED
    BY <1>0, <1>7, <2>1, QuietStep DEF Threads
<1>8. CASE UNCHANGED allVars
  <2>1. UNCHANGED traceVars /\ UNCHANGED <<at, measure_all>>
    BY <1>8 DEF allVars, vars, line
  <2> QED
    BY <2>1, QuietStep
<1>9. ASSUME NEW t \in Threads, take_measurement(t) PROVE FilesInv' /\ ParsersInv'
  BY <1>1, <1>2, <1>3, <1>4, <1>5, <1>6, <1>9 DEF take_measurement
<1> QED
  BY <1>7, <1>8, <1>9 DEF TraceNext, MainStep, SamplerStep, VarMonitorMain, StaticMain, DynamicMain, Threads

LEMMA FilesSuffice == FilesInv /\ ParsersInv => TraceIsReadable
<1> SUFFICES ASSUME FilesInv, ParsersInv PROVE TraceIsReadable
  OBVIOUS
<1> DEFINE P == PowerColumns(PowerObject)
<1>0. EmptyFile.row = {} /\ \A c : Written(c).row = c /\ Fits(Written(c))
  BY DEF EmptyFile, Written, Fits
<1>1. ASSUME power_dat.row # {}
      PROVE  /\ Fits(power_dat)
             /\ "juno" \in Reported \/ FewerGpusThanSockets \/ Closed(power_dat.row)
             /\ "gpus" \in Reported /\ "juno" \notin Reported =>
                  \A d \in 0 .. PerSocket * machine.sockets - 1 :
                    \E i \in Socket : Column(i, d, "gpu", d) \in power_dat.row
  <2>1. ~write_header /\ ~measure_all
    BY <1>0, <1>1 DEF FilesInv, ParsersInv
  <2>2. power_dat = Written(P) /\ ~ObjectLacks /\ MachineOK
    BY <2>1 DEF FilesInv, ParsersInv
  <2>3. Fits(power_dat) /\ power_dat.row = P
    BY <1>0, <2>2
  <2>4. "juno" \in Reported \/ FewerGpusThanSockets \/ Closed(P)
    BY <2>2, PowerLineCloses
  <2>5. ASSUME "gpus" \in Reported, "juno" \notin Reported,
               NEW d \in 0 .. PerSocket * machine.sockets - 1
        PROVE  \E i \in Socket : Column(i, d, "gpu", d) \in P
    BY <2>2, <2>5, EveryGpuIsThere
  <2> HIDE DEF P
  <2> QED
    BY <2>3, <2>4, <2>5
<1>2. ASSUME util_dat.row # {}, ~FewerGpusThanSockets
      PROVE  Fits(util_dat) /\ Closed(util_dat.row)
  <2>1. machine.util # "null" /\ ~measure_all
    BY <1>0, <1>2 DEF FilesInv, ParsersInv
  <2>2. MachineOK
    BY <2>1 DEF ParsersInv
  <2>3. Closed(UtilColumns) /\ UtilHeaderEnds
    BY <1>2, <2>1, <2>2, UtilLineCloses
  <2>4. util_dat = Written(UtilColumns)
    BY <1>0, <1>2, <2>3 DEF FilesInv
  <2> QED
    BY <1>0, <2>3, <2>4
<1> QED
  BY <1>1, <1>2 DEF TraceIsReadable

\* Whatever platforms the build holds and however many sockets and GPUs the
\* node has, the parsers, which two threads run with static flags, leave files
\* a reader can make sense of: one header, every line of values under it, each
\* closed once, and every GPU in it.
THEOREM TraceStaysReadable == TraceSpec => []TraceIsReadable
<1>1. TraceSpec => []TypeOK
  BY TraceIsOfMonitor, MonitorTypeCorrect, PTL
<1>2. TraceSpec => []PlacesInv
  BY TraceIsOfMonitor, TypeInit, TypeStep, PlacesInit, PlacesStep, PTL DEF Spec
<1>3. TypeOK /\ PlacesInv /\ FilesInv /\ ParsersInv /\ [TraceNext]_allVars => FilesInv' /\ ParsersInv'
  BY FilesStep
<1> QED
  BY <1>1, <1>2, <1>3, FilesInit, FilesSuffice, PTL DEF TraceSpec

=============================================================================
