----------------------------- MODULE MonitorTrace -----------------------------
(***************************************************************************)
(* What var_monitor makes of the samples: each platform of the build puts  *)
(* its power into one JSON object, and two parsers, which both threads     *)
(* run, turn that object and the one of the utilization into lines of a    *)
(* trace.  Which keys there are is agreed on nowhere: the parsers look for *)
(* those of every platform and guess from them where a line ends           *)
(* (src/var_monitor/common.c and the functions behind                      *)
(* variorum_get_power_json and variorum_get_utilization_json).             *)
(***************************************************************************)
EXTENDS PowerMonitor, Sequences

CONSTANTS
  SocketCounts, \* the sockets of a node, as hwloc counts them
  GpuCounts     \* its GPUs

ASSUME TraceAssumption == SocketCounts \subseteq Nat \ {0} /\ GpuCounts \subseteq Nat

VARIABLES
  machine,           \* the node: what each platform reports, its sockets and GPUs
  write_header, write_util_header, \* the static flags of the parsers
  seen,              \* the flag as the parser of each thread has found it
  power_dat, util_dat \* the two files

traceVars == <<machine, write_header, write_util_header, seen, power_dat, util_dat>>
allVars == <<vars, traceVars>>

T == INSTANCE PlatformTable

-----------------------------------------------------------------------------
\* Machines.

\* What a platform of architecture m puts into the object.
Report(p, m) ==
  CASE "get_power_json" \notin m -> "nothing"
    [] p \in T!GpuPlatforms -> "gpus"
    [] m = T!JunoR2 -> "juno"
    [] m = T!NeoverseN1 -> "neoverse"
    [] OTHER -> "cpu_and_memory"

\* Whether the GPU of the build has the utilization of its devices.
Utilization(b, m) ==
  LET gpu == {k \in DOMAIN b : b[k] \in T!GpuPlatforms}
  IN  IF gpu = {} THEN "cpu"
      ELSE IF \A k \in gpu : "get_utilization_json" \in m[k] THEN "gpus" ELSE "null"

Architectures(b) ==
  {m \in [DOMAIN b -> UNION {T!Supported[b[k]] : k \in DOMAIN b}] :
     \A k \in DOMAIN b : m[k] \in T!Supported[b[k]]}

Machines ==
  UNION {{[reports |-> [k \in DOMAIN b |-> Report(b[k], m[k])], util |-> Utilization(b, m),
           sockets |-> s, gpus |-> g] :
            m \in Architectures(b), s \in SocketCounts, g \in GpuCounts} : b \in T!Builds}

Reported == {machine.reports[k] : k \in DOMAIN machine.reports}
Socket == 0 .. machine.sockets - 1
PerSocket == machine.gpus \div machine.sockets
GpusOf(i) == i * PerSocket .. (i + 1) * PerSocket - 1

-----------------------------------------------------------------------------
\* The object of the power: whether it has the power of the node, the GPUs of
\* a socket (-1 when it does not say), and for each socket_<i> its keys.
EmptyObject == [node |-> FALSE, num_gpus_per_socket |-> -1, socket |-> << >>]

\* Intel, EPYC and Power9 replace what there is of a socket.
CpuAndMemory(obj) ==
  [obj EXCEPT !.node = TRUE, !.socket = [i \in Socket |-> [has |-> {"cpu", "mem"}, gpus |-> {}]]]

\* Juno replaces it too, has no memory, and keeps its GPU from the monitor.
Juno(obj) ==
  [obj EXCEPT !.node = TRUE, !.num_gpus_per_socket = -1,
              !.socket = [i \in Socket |-> [has |-> {"cpu", "gpu"}, gpus |-> {}]]]

\* Neoverse names its sockets Socket_<i>, which nobody looks for, and adds its
\* power to socket_0 if another platform has made one.
Neoverse(obj) ==
  [obj EXCEPT !.socket = [i \in DOMAIN @ |->
     [has |-> @[i].has \cup (IF i = 0 THEN {"cpu"} ELSE {}), gpus |-> @[i].gpus]]]

\* NVIDIA and AMD GPUs add to the sockets there are, and make the others.
Gpus(obj) ==
  LET has(i) == IF i \in DOMAIN obj.socket THEN obj.socket[i].has ELSE {}
  IN  [obj EXCEPT !.num_gpus_per_socket = PerSocket,
                  !.socket = [i \in Socket |-> [has |-> has(i) \cup {"gpu"}, gpus |-> GpusOf(i)]]]

Adds(report, obj) ==
  CASE report = "nothing" -> obj
    [] report = "cpu_and_memory" -> CpuAndMemory(obj)
    [] report = "juno" -> Juno(obj)
    [] report = "neoverse" -> Neoverse(obj)
    [] report = "gpus" -> Gpus(obj)

\* variorum_get_power_json: the platforms by their index.
PowerObject ==
  LET first == Adds(machine.reports[1], EmptyObject)
  IN  IF Len(machine.reports) = 1 THEN first ELSE Adds(machine.reports[2], first)

\* Juno ends the process on a node of one socket.
JunoGivesUp == "juno" \in Reported /\ machine.sockets < 2

-----------------------------------------------------------------------------
\* The parsers.  A line is the set of its columns.  A column has a socket and a
\* device of it (-1: before the first), which place it in the line, a name, and
\* the number in that name.  A line break comes last in its place.
Column(i, d, name, n) == <<i, d, name, n>>
EndIf(c, i, d) == IF c THEN {Column(i, d, "end", 0)} ELSE {}
Leading(names) == {Column(-1, -1, name, 0) : name \in names}

\* A socket without its object, or without that of its GPUs: exit(0).
ObjectLacks ==
  \E i \in Socket : \/ i \notin DOMAIN PowerObject.socket
                    \/ PowerObject.num_gpus_per_socket > 0 /\ "gpu" \notin PowerObject.socket[i].has

\* The header and the values are put together under the same tests.  A line
\* ends at the memory of the last socket, or at the last GPU.
GpuColumns(obj, i) ==
  UNION {{Column(i, d, "gpu", d)} \cup EndIf(d = obj.num_gpus_per_socket * machine.sockets - 1, i, d) :
           d \in obj.socket[i].gpus}

SocketColumns(obj, i) ==
  LET has == obj.socket[i].has
      n == obj.num_gpus_per_socket
  IN  {Column(i, -1, name, i) : name \in has \cap {"cpu", "mem"}}
        \cup EndIf("mem" \in has /\ i + 1 = machine.sockets /\ n < 0, i, -1)
        \cup (IF n > 0 THEN GpuColumns(obj, i) ELSE {})

PowerColumns(obj) ==
  Leading({"hostname", "timestamp"} \cup (IF obj.node THEN {"node"} ELSE {}))
    \cup UNION {SocketColumns(obj, i) : i \in Socket}

\* Columns of GPUs are numbered by a formula of their own, for the header and,
\* as the keys to look up, for the values.
UtilColumn(i, j) == Column(i, j, "gpu_util", i * machine.sockets + j)

GpuUtilColumns(i) ==
  UNION {{UtilColumn(i, j)} \cup EndIf(i + 1 = machine.sockets /\ j = PerSocket, i, j) :
           j \in 1 .. PerSocket}

UtilColumns ==
  Leading({"hostname", "timestamp", "memory", "cpu_util", "user", "system"})
    \cup (IF machine.util = "cpu" THEN EndIf(TRUE, -1, -1)
          ELSE UNION {GpuUtilColumns(i) : i \in Socket})

\* The flag of the utilization is cleared where its header ends.
UtilHeaderEnds == machine.util = "cpu" \/ PerSocket > 0

\* A file: how many headers it has (2 stands for more), the last of them and
\* the last values.
EmptyFile == [headers |-> 0, header |-> {}, row |-> {}]

Write(f, with_header, columns) ==
  [headers |-> IF with_header /\ f.headers < 2 THEN f.headers + 1 ELSE f.headers,
   header |-> IF with_header THEN columns ELSE f.header,
   row |-> columns]

-----------------------------------------------------------------------------
TraceInit ==
  /\ Init
  /\ machine \in IF measure_all THEN {CHOOSE mc \in Machines : TRUE} ELSE Machines
  /\ write_header = TRUE /\ write_util_header = TRUE
  /\ seen = [t \in Threads |-> FALSE]
  /\ power_dat = EmptyFile /\ util_dat = EmptyFile

\* The call returns, and a parser finds its flag.
GetsPower(t) ==
  /\ SampleReturns(t)
  /\ ~measure_all => ~JunoGivesUp
  /\ seen' = [seen EXCEPT ![t] = write_header]
  /\ UNCHANGED <<machine, write_header, write_util_header, power_dat, util_dat>>

\* Fault: the flag is set again by the utilization.
WritesPowerHeaderAgain(t) ==
  /\ ParsesPower(t)
  /\ ~ObjectLacks
  /\ power_dat' = Write(power_dat, seen[t], PowerColumns(PowerObject))
  /\ write_header' = power_with_util
  /\ UNCHANGED <<machine, write_util_header, seen, util_dat>>

WritesPower(t) ==
  /\ ParsesPower(t)
  /\ ~ObjectLacks
  /\ power_dat' = Write(power_dat, seen[t], PowerColumns(PowerObject))
  /\ write_header' = FALSE
  /\ UNCHANGED <<machine, write_util_header, seen, util_dat>>

MissesObject(t) == ObjectMissing(t) /\ ObjectLacks /\ UNCHANGED traceVars

GetsUtil(t) ==
  /\ UtilReturns(t)
  /\ machine.util # "null"
  /\ seen' = [seen EXCEPT ![t] = write_util_header]
  /\ UNCHANGED <<machine, write_header, write_util_header, power_dat, util_dat>>

\* Intel GPUs have no utilization, and their pointer is called.
GetsNoUtil(t) ==
  /\ UtilFails(t)
  /\ exit' = "crashed" => machine.util = "null"
  /\ UNCHANGED traceVars

WritesUtil(t) ==
  /\ ParsesUtil(t)
  /\ util_dat' = Write(util_dat, seen[t], UtilColumns)
  /\ write_util_header' = (write_util_header /\ ~UtilHeaderEnds)
  /\ UNCHANGED <<machine, write_header, seen, power_dat>>

ElseShared(t) ==
  /\ Locks(t) \/ Samples(t) \/ SampleFails(t) \/ Unlocks(t) \/ SetsCap(t) \/ CapReturns(t)
  /\ UNCHANGED traceVars

take_measurement(t) ==
  \/ GetsPower(t) \/ WritesPower(t) \/ MissesObject(t)
  \/ GetsUtil(t) \/ GetsNoUtil(t) \/ WritesUtil(t)
  \/ ElseShared(t)

MainStep ==
  \/ (VarMonitorMain \/ StaticMain \/ DynamicMain) /\ UNCHANGED traceVars
  \/ take_measurement("main")
SamplerStep == (Sampler /\ UNCHANGED traceVars) \/ take_measurement("sampler")

TraceNext == MainStep \/ SamplerStep

TraceSpec == TraceInit /\ [][TraceNext]_allVars

\* Both threads are scheduled, and the application ends.
FairTraceSpec == TraceSpec /\ WF_allVars(MainStep) /\ WF_allVars(SamplerStep)

-----------------------------------------------------------------------------
Fits(f) == f.headers = 1 /\ f.header = f.row
Before(c, e) ==
  c[1] < e[1] \/ (c[1] = e[1] /\ (c[2] < e[2] \/ (c[2] = e[2] /\ c[3] # "end")))
Closed(columns) == \E e \in columns : e[3] = "end" /\ \A c \in columns \ {e} : c[3] # "end" /\ Before(c, e)
FewerGpusThanSockets == "gpus" \in Reported /\ PerSocket = 0

\* Whatever the platforms of the build report, a trace has one header, the
\* values of every sample lie under it, each line ends once, and the power of
\* each GPU is in it.  The code does not keep it where the last socket has
\* neither memory nor GPU, as on Juno and with fewer GPUs than sockets: there
\* no line ends, and the header of the utilization comes with every sample.
\* Beside Juno GPUs are lost.
TraceIsReadable ==
  /\ power_dat.row # {} =>
       /\ Fits(power_dat)
       /\ "juno" \in Reported \/ FewerGpusThanSockets \/ Closed(power_dat.row)
       /\ "gpus" \in Reported /\ "juno" \notin Reported =>
            \A d \in 0 .. PerSocket * machine.sockets - 1 :
              \E i \in Socket : Column(i, d, "gpu", d) \in power_dat.row
  /\ util_dat.row # {} =>
       FewerGpusThanSockets \/ (Fits(util_dat) /\ Closed(util_dat.row))

=============================================================================
