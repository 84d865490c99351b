# libvariorum and its power monitors in TLA+

Variorum is a C library that monitors and controls the power of a node through
one vendor-neutral interface, with a set of programs (`var_monitor` and two
wrappers) that sample power while an application runs. This directory models
the parts of it that keep state from one step to the next, checks them with TLC
and proves what matters most with TLAPS. Paths below are relative to
`src/src/` unless they begin with `src/`.

## 1. The system

| Part | State it keeps | Operations | What makes it hard | When it is correct |
|---|---|---|---|---|
| MSR devices (`variorum/msr/msr_core.c`) | a static table with a descriptor for each processor; the kernel driver chosen | `init_msr`, `finalize_msr`, accesses by index | the table outlives calls; a device fails half way, and another driver is tried; descriptors are reused by the caller | an access reaches the device of its processor; `finalize_msr` closes nothing else; the retries end |
| Enter and exit (`variorum/config_architecture.c`, `variorum/*/config_*.c`) | `g_platform`: detected model and function pointers of each platform; vendor libraries that are up | `variorum_enter`, `variorum_exit` at each call | seven platforms share one error variable; every call sets everything up again | a call that goes through gives back what it took; no pointer is called on a platform that was not set up |
| Public API (`variorum/variorum.c`) | none of its own | 35 functions in the bracket, with different rules for NULL pointers and errors | loops over platforms with early returns, each of which skips `variorum_exit` | 0 means success; each platform with the feature is served; nothing but function pointers is called |
| IBM Power9 energy (`variorum/IBM/Power9.c`) | flag, mutex and accumulator of a detached sampling thread | a call that begins a measurement, a call that ends it | nobody joins the thread; the mutex is initialised again by every measurement | what is reported is what the thread sampled |
| Single monitor (`var_monitor/highlander.c`) | two named semaphores of the node | `highlander`, `highlander_wait`, `highlander_clean` | names are unlinked while others hold what is behind them; processes are killed | one monitor, foes that never hang, names cleaned up |
| Power monitors (`var_monitor/var_monitor.c`, `power_wrapper_*.c`, `common.c`) | `running`, the mutex, trace files, the cap and its direction, the flags of the parsers | sampling thread, main, caps, parsing | a detached thread and `main` share the library, which has no lock; every platform reports under keys of its own | the library is used by one thread at a time; caps stay in their band; values lie under their columns; the monitor ends |
| MSR batches (`variorum/msr/msr_core.c`) | static arrays of operations with counts | `allocate_batch`, `load_*_batch`, `create_batch_op`, `read_batch` | filled once and replayed for ever; failures of a part | every operation is replayed on its processor |
| Intel RAPL (`variorum/Intel/intel_power_features.c`) | static storage of the last sample; the units of its first caller | `translate`, `read_rapl_data`, `delta_rapl_data`, caps | whoever comes first fixes the units; 32-bit counters that wrap; registers that refuse | conversions use the unit register; a cap keeps the other limit; the windows add up to what was used |
| Intel counters, clocks, thermal, misc (`variorum/Intel/*_features.c`), models (`Intel_06_*.c`) | static flags in each function, and the destinations of their batches; a table of registers for each model | print and set, entry points of nine models | features share batches and registers, in whatever order the program calls them; a register the table lacks has the address 0 | what is printed was read by this call; what is programmed stays programmed; an access goes to a register of the model; a field is replaced in what was read |
| Caps and sensors of Power9 and AMD EPYC (`variorum/IBM`, `variorum/AMD`) | files of OPAL and of the OCC; the SMU behind E-SMI | print, set, wait, read back, compare | applied late, one socket after the other, with requests that are lowered on the way | a cap reported as set is set; a verified node cap holds |
| GPUs (`variorum/Nvidia_GPU`, `AMD_GPU`, `Intel_GPU`) | a vendor library that is up or not; the number of devices | print and cap | an error in the middle of a loop over devices, whose variable may keep the value of the device before | a reading that is given out is that of its device; a cap reported as set was taken |
| ARM (`variorum/ARM`) | files of hwmon and cpufreq, open for the time of a call | print and set | descriptors are tested with `!fd`; early returns leave files open | as for GPUs, and files are closed |
| Timers (`variorum/variorum_timers.c`) | the schedule of a sampling thread | `init_msTimer`, `timer_sleep` | a clock that is set, a thread that is late, 32 bits of milliseconds | no firing is missed or taken too early |
| Topology, errors, Fortran and Python interfaces, utilities, examples, build | counts read once | - | - | - |

How they interact: a program calls a function of the API; the function runs
`variorum_enter`, which calls the setter of each platform compiled in; the one of Intel CPUs
calls `init_msr`, those of AMD CPUs and of NVIDIA and Intel GPUs bring up a vendor library. The function
then calls through pointers into the platform's own files, which reach registers through the table of
`msr_core.c`, sysfs or a vendor library, and ends with `variorum_exit`.
The monitors are such programs with two threads, paced by the timer, and `highlander.c` keeps their
processes apart. Power9 energy is the only place where the library itself runs a
thread. No part of the library has a lock against its callers.

## 2. Modules

| Module | Models | Used by |
|---|---|---|
| `MsrModule` | abstract: the MSR devices as an all-or-nothing bracket (closed, opening, open, failed, closing, crashed) and the set of devices it owns | `MsrDevices` (implements it), `VariorumSession` (uses it) |
| `MsrDevices` | the descriptor loops of `msr_core.c`, device nodes, descriptor table, caller's files | |
| `PlatformTable` | which features each model of each platform has; builds, and the order in which they are set up | `ApiTable`, `IntelModels`, `MonitorTrace` |
| `ApiTable` | the 35 functions, a row each: feature, platforms visited, rule for NULL, rule for errors | `VariorumSession` |
| `VariorumSession` | enter, body and exit of any sequence of calls on any build | `MCVariorumSession` |
| `P9Energy` | the measurements of Power9: caller and sampling threads | |
| `Highlander` | the processes of `var_monitor` with their semaphores and files | `MCHighlander` |
| `PowerMonitor` | both threads of `var_monitor` and of the two wrappers | `MonitorTrace` |
| `MonitorTrace` | the object that each platform of a build adds its power to, and the lines that the parsers of both threads make of it | |
| `MsTimer` | the timer: its firings, catching up, 32 bits | `Sampler` |
| `RaplWindow` | the two samples of `struct rapl_data`, and the difference | `Sampler` |
| `Sampler` | the sampling thread with its timer and window, a clock that is set, a machine that uses energy | |
| `MsrBatch` | the batches: allocate, load, read, write, with and without the batch device | `IntelPlans` |
| `IntelPlans` | what each feature does with the batches and registers, as a sequence of steps | `IntelModels` |
| `IntelModels` | the registers that the table of each model names, and the plan of each of its entry points | `IntelFeatures` |
| `IntelFeatures` | a program that calls entry points in any order, accesses that are refused | `MCIntelFeatures` |
| `DeviceSteps` | the steps that features of the other vendors are made of | the next six |
| `Power9`, `Epyc`, `NvidiaGpu`, `AmdGpu`, `IntelGpu`, `ArmCpu` | the plan of each feature of the platform, with what it claims to give out and the devices it caps | `VendorFeatures` |
| `VendorFeatures` | a program that calls features of a platform, devices that refuse, firmware that applies caps late | `MCVendorFeatures` |
| `IntelRules` | no part of the code: the rules a sequence of steps keeps, and the inductive invariant of `IntelFeatures` | `IntelFeatures_proofs` |
| `VendorRules` | no part of the code: the rules for the plans of the vendor platforms, and the inductive invariant of `VendorFeatures` | `VendorRules_proofs` |
| `VariorumSession_proofs` (with the theorems about `MsrDevices`), `P9Energy_proofs`, `PowerMonitor_proofs`, `Highlander_proofs`, `Sampler_proofs`, `IntelFeatures_proofs`, `VendorRules_proofs`, `VendorFeatures_proofs` | theorems | |

Definitions that begin with "Fault" in their comment are forms a definition would take
with a plausible mistake in it. No specification uses them; they show that
the property they are written for can fail.

### How the modules correspond to the code

*MsrDevices.* `fds` is the descriptor table of the process, `slot` the static
table behind `core_fd`, `dev_idx` the loop variable, `kerneltype` 0 for
msr_safe, 1 for the stock driver and 3 for the probe of the allowlist. One
action is one iteration of a loop: `StatFails`, `PermissionDenied`,
`OpenDevice` and `OpenFails` are its outcomes, `CloseDevice` is one `close()`.
The descriptor given out is the lowest free one, as POSIX has it. The caller
opens and closes files of its own at any time. A bracket may be left open
(`leftOpen`), because a call may return without `variorum_exit`. A store
through `core_fd(-1)` is a crash. `Unwritten` is what slots may hold before they
are written: the table comes from `malloc`, and may hold 0 or a number that is no descriptor.
`MaskInitError` says whether the error of `init_msr` is overwritten by another platform.

*MsrBatch.* `ops[b]` and `size[b]` are the entries of `batch_storage`; `data[b]` are
the `msrdata` fields, to which the pointers of the features refer. Of a value the
model keeps where it comes from: `zero` (calloc, or stored as 0), `hw` (what
the processor holds), `set` (fields replaced in what was read, with the bits around them as
they were), `whole` (all 64 bits put together by the library from 0, without a read) and `wiped`
(fields replaced in bits that were never read). `batchfd` is the
static descriptor of the batch device; -1 is the register-by-register path, which
answers 0 always. A transfer is refused by a set of processors.

*IntelPlans, IntelModels.* A feature is mostly static flags and a fixed order of
allocations, loads, reads and stores, so it is written as a sequence of
steps, named as in the source. `Once(flag, ...)` is code behind a static flag,
`Check` a read whose result is tested, `Agree` a comparison of sockets,
`Dereference` a pointer that some models pass as NULL. Reads of one
register that are printed at once leave nothing behind and are not steps. The entry
points of a model, and the registers of its table, are a record and a set in
`IntelModels`; `Address` gives a register the table does not name the address 0 (`Absent`).

*IntelFeatures.* One action is one step of a plan. `done` is the set of static
flags that are up, `units` the static units of `translate` with the operations
they came from, `fresh` and `refused` record what this call has read and whether
a register refused. A cap reads and writes the limit register of a socket in one
step, each of which may be refused.

*RaplWindow, MsTimer, Sampler.* `rapl` has the fields of `struct rapl_data` for each
socket and kind of meter, `init` the static flags of the two functions. `energy` is what
the machine has used, of which the register shows the low bits; `base`, `seen`, `total`,
`wraps` and `missed` record history only. A `Timer` is `struct mstimer` without its
interval. `time` is real time, which `select` sleeps by, and `wall` the clock that `now_ms`
reads, which may be set; `pace` is `wall` without the settings that took it back. The
thread is late by up to `MaxDelay` wherever it runs.

*DeviceSteps, VendorFeatures.* As for Intel, a feature is a plan of steps; these have an
outcome for success, one for a refusal and, where it differs, one for a library that is not up. A step
holds the steps that follow either way, a loop (`LoopFrom`) what is left of it and the bodies of its turns, and a call the
function it calls: `ahead` are the steps of the innermost function, `callers` those of the functions that called it, so that
`Return` ends one function and not the feature. The features of a platform are a record (`P9Features`, `EpycFeatures`,
`VoltaFeatures` and so on), as its setter has them. Functions of several files that share a name have the library in front
(`rsmi_get_power_data`, `apmidg_get_power_data`). `val` are
the local variables: the content of one is the set of readings it is the sum of, and `Junk`
is what lies in memory that nobody has written. `shown` is what has been printed or put into
JSON, each value with the readings it is said to be. `accepted` is what a device was told and has taken,
`inforce` what it holds itself to; on Power9 and EPYC the one becomes the
other at any time (`Enforce`). A cap above the ceiling is refused by the GPUs of NVIDIA and AMD and lowered by
the others, which may refuse any cap as well. `zero` is who has descriptor 0, which the tests of `ArmCpu` mistake for a
failure. Bringing a library up and down, counting devices, each access and each close may be refused.

*VariorumSession.* `pc` follows one call. `build` lists the platforms compiled
in by index, and `model` what each has detected; a GPU platform always detects
the same. `archMem` and `pending` count what has been allocated and
brought up. The body visits platforms by the row of its function; a pointer is
called, skipped, or wild. Every way out that does not run `variorum_exit` goes through
`Abandon`. Detection, setting up and exit run over all platforms in one go where no
outcome depends on the order. A build has one platform or two, as
`MAX_PLATFORMS` allows.

*P9Energy.* A measurement is a pair of calls. The caller's steps are the lines
of `ibm_cpu_p9_get_energy` that the thread can see, and those of
`ibm_cpu_p9_get_node_energy_json`, which does the same. The addition of a
sample is a load and a store. `overlap` and `taken` record history only.

*Highlander.* A semaphore has the identity of the process that made it, and a
name refers to one of them or none, so that a process may hold a semaphore no
name refers to. Values are counters of posts. The steps between are system calls, each
atomic. `dat` and `summary` are the trace and the summary of a directory, with
the process that wrote them. A process may be killed anywhere.

*PowerMonitor, MonitorTrace.* Both threads by the places where they lock, call the library, test
`running` or adjust the cap. A call of the library has a beginning and an end, so
that two threads can be seen inside it. `poll_num` is kept modulo 5, all the
code looks at; a cap is in watts. `MonitorTrace` adds the node (`machine`: what each platform
of the build reports, sockets and GPUs), the static flags of the two parsers, and of each
file the number of headers, the last header and the last line. A line is the set of its columns: a column
has a socket and a device, which place it in the line, a name, and the number in that name; the
tests that decide where a line ends are those of the code.

## 3. What is checked

A run that is expected to pass checks its module's type invariant and:

| Run | Instance | What it shows |
|---|---|---|
| `devices_env` | 2 processors, 4 descriptors, each node absent, denied, unopenable or good with either driver, 1 abandoned call | `AccessReachesOwnDevice`: between init and finalize a register access goes to its own processor. `LeaksOnlyWhenAbandoned`: at most one descriptor for each processor and abandoned call is lost. `FinalizeClosesOnlyMsr`: no file of the caller's is closed. `ImplementsMsrModule`: the loops implement the bracket. `LoopsEnd`: the retries end |
| `session` | every build of one or two platforms, every model, all 35 functions, 2 abandoned calls | `ZeroIsEarned`, `SkippersReachSupporters`: what 0 means. `LeaksAreAbandonedCalls`: a call that ends through exit gives everything back. `PointersFindTheirPlatform`: only functions are called, of platforms that are up. `KeepsMsrProtocol`: the session implements its side of `MsrModule`. `CallsReturn`: every call returns or brings the process down |
| `energy` | 2 measurements, samples of one value or failed, an accumulator that wraps at 3 | `ReportIsExact`: a measurement that began over no live thread reports its own samples exactly. `MeasurementsEnd`: the call that ends a measurement gets the mutex, and no thread is left when no measurement is |
| `highlander` | 3 processes, 2 directories, kills and -c, 1 removal of files | `KCoversItsFoes`: the wait of a foe never blocks. `FilesAreOfOneRun`: who writes a trace made it, and a summary lies beside the trace of its run. `NamesAreCleaned`: names are left only by failures |
| `monitor` | the three programs, caps on both sides of 30 W, samples that fail; every build and model, 1 to 3 sockets, 1, 2, 4 or 7 GPUs | `ThreadWindsDown`: a stopped thread takes at most one sample more, and two threads meet in the library only in the dynamic wrapper. `LimitsStayInBand`. `TraceIsReadable`: one header, values under their columns, lines that end once, every GPU. `MonitorEnds` |
| `sampling` | interval 3, 32 bits are 8, counters turn at 6, 11 ticks, the clock set once by 2 either way, 1 read refused, 4 samples, DRAM with its own unit and the package's | `WindowsAddUp`: what is reported adds up to what was used, less a unit for each turn seen and the turns nobody could see. `KeepsThePace`: no more samples than intervals have passed. `NoTurnIsMissed`: while the clock is not set back and registers answer, no turn falls between two samples |
| `batches` | 2 sockets, 4 cores, 8 threads, 3 counters; Sandy Bridge (2A), Ivy Bridge (3E), Haswell (3F), Skylake (55), Ice Lake (6A), Sapphire Rapids (8F) with 0 or 2 TDP levels; any 2 entry points in a row; 1 transfer refused by processor 0 | `OpsFit`: whoever comes first, a batch is loaded before it is used and never beyond its room. `ReportsAreFresh`: what is printed was read by this call. `OpsReachTheirRegister`: what is printed as a socket comes from it, from a register of the model. `OtherBitsSurvive`: the control registers of the fixed counters, the package limit and IA32_MISC_ENABLE hold what the machine had there but for fields replaced in what was read; those written whole and unread (`WrittenWhole`: event selectors, counters, uncore selectors or address 0, the frequency request) are excepted. `UnitsAreTheUnits`: conversions use the unit register of their socket |
| `controls` | Power9, EPYC, Volta, Instinct, Intel GPU, Juno, Neoverse; 2 sockets, 3 cores, 5 GPUs, caps of 2 and 12 under a ceiling of 4, 2 calls of any features, 2 refusals anywhere | `ReportsAreTrue`: a feature that succeeds has given out the readings it says; none but those listed gives out a reading of another device. `CapsAreAsAsked`: a feature that caps, and is content, was heard by every device. `NodeCapHolds`: a verified node cap is in force. `GivesBack`: files are closed and libraries shut down |

Why the bounds are enough. Two processors tell the first device from a later
one and make a loop fail half way; the descriptor table of 4 is full with both devices
open and two files of the caller, or with a device open twice. Two
abandoned calls leave resources on top of resources. Builds and functions are
not bounded: all there are. Two measurements are one and the one that begins over its thread; a third
would be to the second what the second is to the first. Three processes are a highlander and two
foes, or a highlander, the foe that cleans up and the one that comes after; two directories are
one that is shared and one that is not. `highlander` uses the symmetry of processes and
directories, and checks safety only. An accumulator that wraps at 3 still
tells one sample more or less. Two entry points in a row show each static flag raised by the one and
found up by the other, and a feature printing a second time; the six models are one of each kind of plan and
of table, the other three share both. Two sockets of two cores with two threads tell sockets, cores and
threads apart; processor 0 has an operation in every batch. In `sampling`, 32 bits of 8 turn after two intervals
and 11 ticks are enough for step * interval to turn and for the timer to spin; a meter that is busy from
read to read comes within one unit of a turn of the counter, so that an interval more would miss one.
In `controls`, 5 GPUs on 2 sockets leave one over, and 3 cores on 2 sockets as well; of
two refusals one may hit the count and the other a device, or a cap and its reading back. In `monitor`, the numbers
of GPUs are fewer than the sockets, as many, a multiple and neither.

`CHECK_DEADLOCK FALSE` is in all configurations: the number of calls,
of measurements and of removals is bounded, a process that crashed or
ended takes no step, and a monitor is over when it is over.

Fairness. The device layer and a session run on their caller's thread, where
nothing blocks: a loop once begun goes on (weak fairness of the library's steps; nothing makes the
caller call). In `P9Energy` and `MonitorTrace` each thread is scheduled, weakly fair (`MainStep`, `SamplerStep`); a mutex gives no
fairness of its own, and none is assumed: a thread that waits for it gets
it because the other one stops asking. `MonitorEnds` begins where the
application has ended. The other specifications are checked for safety only and state none.

### Where code and comments disagree

These runs check one property each, taken from a comment or a document, and end
with a counterexample. `PROJECT.json` has the quotations.

| Run | Property | What happens |
|---|---|---|
| `session_gpu_cap` | `EverySupporterActs` | capping the GPUs beside an Intel CPU returns 0 without having reached the GPU |
| `highlander_one` | `OneMonitorPerNode` | a foe that ends unlinks the names, and the next process becomes a second highlander |
| `batches_cap_frequency` | `FrequencyCapTakesEffect` | capping the frequency of a Skylake writes to the read-only IA32_PERF_STATUS, and IA32_PERF_CTL stays as it was |
| `batches_counters` | `CountersStayProgrammed` | the uncore counters are given the addresses of the core event selectors: the reset after the first print clears what the second one counts with |

Others were met while modelling, and no run is spent on them. Where a property would be refuted
by one of them, its definition names the exception.

Devices, session and API:

- With a second platform, the error of `init_msr` is overwritten (`variorum/config_architecture.c:378`), and exit closes
  descriptor 0: `MaskInitError`, which the proofs of `MsrDevices` exclude.
- A missing node of msr_safe sets the loop variable to -1 to "Restart loading file descriptors"
  (`variorum/msr/msr_core.c:368-369`), and `init_msr` stores through `core_fd(-1)`, NULL, before the loop starts again
  (`474-476`): `MsrDevices` takes this step into a crash.
- `finalize_msr` returns the result of its last `close()` only (`variorum/msr/msr_core.c:409-426`).
- The tests of coordinates are off by one, and their results ignored (`variorum/msr/msr_core.c:237-309`, `500-530`).
- The JSON functions return 0 for a feature that is missing, where `variorum/variorum.h:564-566` says -1
  (`variorum/variorum.c:1058-1091`); `variorum_get_frequency_json` and
  `variorum_get_energy_json` ignore the error of a platform, and the latter calls the pointer it has
  found to be NULL (`1736-1743`). `ZeroIsEarned` and `PointersFindTheirPlatform` name these exceptions.
- The best-effort cap, in a build of two platforms with none it knows, looks past the end of
  `g_platform` (`variorum/variorum.c:322-338`). `PointersFindTheirPlatform` names it, too.
- `variorum_get_utilization_json` calls a NULL pointer on a build of Intel GPUs (`variorum/variorum.c:1160`), and
  divides 0 by 0 where `/proc/stat` has not advanced since the last call (`1245-1249`).

Monitors:

- The sampling thread of `power_wrapper_static` is started with a NULL argument and reads its settings
  through it (`var_monitor/power_wrapper_static.c:199`, `common.c:435`): `PowerMonitor` takes it into a crash.
- The sampling thread of the monitors may take one sample after `main` has taken the last
  (`var_monitor/var_monitor.c:334-336`), which is what `ThreadWindsDown` bounds.
- The dynamic wrapper adjusts the cap in every fifth interval, not in each
  (`var_monitor/power_wrapper_dynamic.c:74`, `var_monitor/README.md:49-50`).
- `highlander_wait` reads the number of foes once: with one foe it does not wait, with two it
  waits for ever (`var_monitor/highlander.c:60-64`).
- On Juno, which has no memory, and with fewer GPUs than sockets, no line of the trace of `var_monitor` ends, and the header of
  the utilization comes with every sample (`var_monitor/common.c:130-151`, `290-294`).
- The objects of Juno, Intel, EPYC and Power9 replace what a GPU platform of a lower index has put into
  a socket (NVIDIA beside Juno, AMD GPUs beside Power9): their power is lost.
- The JSON of Neoverse is stored under "Socket_0" and looked up as "socket_0", so that nothing is given out and
  `var_monitor` ends with exit code 0 while it holds the mutex; so it does on every node
  whose platforms have no power in JSON.
- The columns of the GPUs' utilization are looked up under i * num_sockets + j + 1 (`var_monitor/common.c:288`, `325`), where the
  platforms number their devices from 0 through all sockets: the first GPU is never shown, the last column is 0, and two
  sockets may have columns of one name.
- Without `-u`, `var_monitor` closes a descriptor it has not set (`var_monitor/var_monitor.c:395`); a wrapper
  without `-w` caps at 0 W.
- `now_ms` is to be "a number of millis from a monotonic clock" (`variorum/variorum_timers.h:21`), and reads CLOCK_REALTIME (`variorum_timers.c:11-18`);
  where step * interval turns, after 2^32 ms or 49.7 days, every firing is behind and `timer_sleep` spins for ever.

Intel:

- The uncore counters are never read: what is printed is the zeros of their reset, and their event
  selectors are written as calloc left them (`variorum/Intel/counters_features.c:1175-1251`). `ReportsAreFresh` names the exception.
- What others have put into the event selectors is lost: the first two are put together from `0UL`
  (`variorum/Intel/counters_features.c:927-968`), all others written as calloc left them (`916`), and none is read before. The
  same is true of the uncore selectors, or of address 0 where the table has none, and of the frequency request
  (`clocks_features.c:485`). `OtherBitsSurvive` is not about these registers (`WrittenWhole`).
- A field that is replaced after a read that was refused is written over with the bits the batch held, or zeros: the fixed counters
  (`variorum/Intel/counters_features.c:161`) and the package limit (`intel_power_features.c:810`) do not look at the result.
  `OtherBitsSurvive` is about runs in which nothing refuses, but for IA32_MISC_ENABLE, whose read is tested. Turbo is
  left changed on the sockets before one that refuses.
- Without the batch device a refused read is answered with 0 (`variorum/msr/msr_core.c:121`), and what the batch held is
  printed or multiplied by: `ReportsAreFresh` asks for fresh ratios with the device only.
- The tables of 2A, 2D, 3F, 55 and 9E have no uncore event selectors, and `print_unc_counter_data` writes them to the
  register of address 0; on 2A and 2D the DRAM energy and the DRAM limit are read there. `OpsReachTheirRegister` names both.
- `get_available_frequencies` of 2A, 2D and 3E is given NULL for registers the models lack, and reads through it
  (`variorum/Intel/Intel_06_2A.c:514-554`, `clocks_features.c:685-770`): the action `Crash`. It prints the ratio without turbo under
  "Max Efficiency Ratio" and the other one under "Max Non-Turbo Ratio" (`clocks_features.c:642-667`).
- `get_all_power_data` prints the limits of its first call for ever
  (`variorum/Intel/intel_power_features.c:1500-1614`), and `get_rapl_pkg_power_info` and `get_rapl_dram_power_info` pass their own register as
  the unit register, which harms nobody as long as they are not the first to convert (`UnitsAreTheUnits`).
  `get_rapl_unit` takes the unit of socket 1 from arrays of one element.
- `cap_power_limits`, the turbo functions and the printing functions of the models ignore results and return 0.
- The difference of energy counters adds 2^32 - 1 where it wraps, and that of the DRAM uses the units of the package
  (`variorum/Intel/intel_power_features.c:1031-1060`), which 3F and 4F do not share: `WindowsAddUp` says by how much.

Other vendors (`KeepOldValues`, `CapBlindly`, `NeverCloses` and `NeverAsks` in `VendorFeatures` name them):

- A measurement of Power9 energy that begins within 250 ms of the end of another revives its thread
  (`variorum/IBM/Power9.c:801-803`): two threads add to one accumulator.
- What is labelled J is a sum of W times 250, the interval in ms: a thousand times the energy
  (`variorum/IBM/Power9.c:720-729`, `806`).
- The cap of a Power9 socket says that there is none, and returns 0; the writes of the GPU ratio are not looked at.
- The result of writing the node cap of Power9 is not looked at (`variorum/IBM/Power9.c:230`): where the write was refused, an older cap that
  happens to be what was asked is read back and reported as set, while a newer one may still be on its way to
  the firmware. `NodeCapHolds` promises nothing of such a call.
- `print_energy` of EPYC opens the batch device in each call and never closes it.
- The best-effort cap of EPYC divides by two whatever the number of sockets
  (`variorum/AMD/epyc.c:238`): `NodeCapHolds` is about nodes of at most two.
- The features of NVIDIA, the JSON of AMD's GPUs, those of Intel's GPUs and the boost limits of EPYC give out the value of the device
  before, or of nothing, where a device refuses; the utilization of AMD's GPUs in JSON is never asked for and always 0.
- GPUs left over by nGPU / nsockets are neither reported nor capped.
- ARM tests descriptors with `!fd`: a file that cannot be opened passes, descriptor 0 fails, and the loop over
  sockets may return 0 with a socket missing.

## 4. What is proved

For every value of the constants that meets the modules' assumptions:

| Theorem | Says | Along which argument |
|---|---|---|
| `DevicesTypeCorrect`, `AccessesReachOwnDevice`, `FinalizeSparesCaller`, `DevicesImplementModule` (`VariorumSession_proofs`) | any number of processors and descriptors | The slots filled by the current bracket name descriptors that are open on their own device; `Holds` for the bracket is inductive, since a descriptor given out is free, the caller closes only its own, and distinct devices hold distinct descriptors. The refinement maps the bracket to `Owned` |
| `LeaksComeFromAbandonedBrackets` | one descriptor of each device is lost for each abandoned call, at most | What a device is charged with, the abandoned calls and one for the bracket in progress, bounds the number of its descriptors; opening charges the device before it counts, and a close takes away one that is there |
| `LeaksComeFromAbandonedCalls` (the same) | any builds, functions and number of calls | The call in progress accounts for one more of each resource from detection on; a library is brought up once because the order of setting up is a permutation of the build, so platforms still to come are at the level of the abandoned calls |
| `SuccessIsEarned` | 0 is returned only when no platform failed | While a call runs that gives up at the first failure, nothing has failed |
| `SessionKeepsMsrProtocol` | the session implements its side of `MsrModule`, unless a second platform stands beside an Intel CPU | After the setter of Intel CPUs, no error means the devices are open (`BodyHasDevices`) |
| `SessionTypeCorrect` (the same) | in particular, counts of what is held stay between 0 and the bound | `LeakInv` with `Values`, `Held` (a call frees only what it has allocated itself) and `Indices` |
| `SupportersAreReached` | functions that skip platforms without the feature call those with it | While a call visits, each platform before the index that has the feature has been called (`ReachInv`) |
| `PointersLeadHome` | pointers are called only where there are functions, and on platforms whose devices or libraries are up | `UpInv`: platforms before the index of setting up hold their library, and open devices are all devices; with `BodyHasDevices` |
| `EnergyTypeCorrect`, `ReportsAreExact`, `ThreadAndCallerTakeTurns` (`P9Energy_proofs`) | any number of measurements, any width of the accumulator | Measurements begin in order, so a live thread is that of the last one when none was alive before; being the only one, the mutex separates it from the caller; the accumulator is what it has sampled, but for a sample in flight |
| `MonitorTypeCorrect`, `CapStaysInBand`, `LibraryIsNotShared`, `ThreadEndsQuietly` (`PowerMonitor_proofs`) | any integer cap; the last one is `ThreadWindsDown` | The cap and its direction are related (`LimitsStayInBand` alone is not inductive: the direction at the ends of the band matters); the mutex is held by whoever samples; a thread that finds `running` cleared has begun its last sample before |
| `TraceIsOfMonitor`, `TraceStaysReadable` (`PowerMonitor_proofs`) | the trace is one of the monitor's; any numbers of sockets and GPUs, any builds and architectures | A file is empty until its header is written, and then holds the header and a line put together under the same tests (`FilesInv`). Between a parser finding its static flag and using it nobody else writes that flag, because parsers run under the mutex (`ParsersInv` with `PlacesInv`). Where a line ends follows from the order in which the platforms of a build put their keys into the object |
| `HighlanderTypeCorrect`, `FoesAreCovered`, `FilesStayOfOneRun`, `NamesDoNotOutlive` (`Highlander_proofs`) | any finite set of processes, any directories, any number of removals | A semaphore has no more posts than there are processes past the place where they post it (`PostsCounted`), which bounds its type; a foe posts before it waits, so the value covers those attached; while a name exists, somebody is between making and unlinking it (`NamesInv`) |
| `SamplerTypeCorrect`, `PaceIsKept` (`Sampler_proofs`) | any interval, width of the step, delays and settings of the clock | Before step * interval turns, the firing before the next one lies behind `pace`, and a sleeping thread has the rest of it ahead (`PaceInv`). That catching up stops at the least step ahead is the well-foundedness of the numbers; not before the turn does this step count from the last firing |
| `WindowsSum` | any width of the counters, any units, any refusals | Between read and difference the sum lacks what is due (`DueDelta`), which is the difference of two registers less the turns (`Turns`); a refused read leaves the old bits, whose difference is none (`SumInv`) |
| `TurnsAreSeen` | no turn is missed, if MaxUse * (Interval + 2 * MaxDelay) < CounterSpan | Without a setting back, the firing ahead is at most an interval ahead of the clock, also where the 32 bits turn, so that the deadline of a thread lies within an interval and two delays of its last read (`GapInv`) |
| `PlansAreGood` (`IntelFeatures_proofs`) | every entry point of the nine models, on any topology | See below |
| `FeaturesTyped`, `FeaturesFit`, `ReportsFresh`, `FeaturesReach`, `FeaturesKeepBits`, `FeaturesHaveUnits` (the same) | any sequence of entry points of any model, any topology, any accesses refused: the six invariants of `batches` | See below |
| `VendorFeaturesGood` (`VendorFeatures_proofs`) | every feature of the seven platforms, for any numbers of sockets, cores and GPUs | See below |
| `VendorTyped`, `ReportsTrue`, `CapsTaken`, `FilesGivenBack`, `NodeCap` (the same) | any sequence of features of any of the platforms, any requests and ceiling, any step refused: the five properties of `controls`, `NodeCapHolds` for at most two sockets | See below |

`ThreadAndCallerTakeTurns` (the mutex of Power9) and `LibraryIsNotShared` (the one of the monitors) state no
property of a run: the runs check what follows from them.

*The Intel features.* What the properties say is decided by some two hundred plans, which nest steps in steps
to no bounded depth. `IntelRules` therefore says what a single step relies on, as a set of tokens: a
flag is up, this call has read a batch, it has tested the ratio in it, the units are there. A step that reads a
batch relies on the flag in front of its storage, a step that prints on a read, `put` of a field of a
control register of the fixed counters on a read of that register, `convert` on the units. A plan is good when some set of pairs of tokens and
steps contains its steps and is closed under the rules (`Sound`, `Proper`, `Good`). Being a set, it needs no induction over the
depth of a plan, and good plans can be put one after the other, behind a flag or under a test. `PlansAreGood` puts together the
plans of all entry points in this way, from a lemma for each function of the feature files; the storage in front of
a batch (`Block`) allocates what it loads, which is arithmetic on sockets, cores and threads.

The invariant says that the steps ahead are good given the tokens the state has (`PlanInv`); that what a flag stands for is there
or comes first (`ImpliedInv`: a flag is raised before its code has run); that a batch is loaded register by register, each once and for
every processor in turn, within its room, or will be before anything else happens (`StorageInv`, `WellLaid`); and what values the
registers and the copies of them have while nothing was refused (`ValuesInv`). None of the four is inductive alone: that a batch is
loaded follows from the flag, that the flag was tested from the plan, that the plan goes on being good from what the flag implies. Each
action has a lemma. A step may end by making the tokens fewer (`Agree` and `Check` end a report early, a call that begins forgets what was read), so the
rules ask for tokens only from steps that are bound to have run, and a ratio is forgotten with the next test. Of what the properties
except, the uncore counters are not among what a print relies on, the registers a table lacks are let into
two batches only, and values put together whole into any batch but that of the fixed counters' control registers.

*The vendor features.* Their plans nest too, in loops over devices and in functions that return early, and the
properties look at a whole call: what was given out, which devices took a cap, what is open. `VendorRules` says
what is known before and behind a step as a record of facts: the readings that each variable holds,
the claims given out, what may be open at most, the devices that took their share and those in which nothing above it is
or comes in force, whether the request is still the sum or a share, and the trouble that has come up. `Rule` says which facts
may stand before a step and behind it on each of its ways, `Entails` when facts say all that others do: after a refusal
or a complaint those fall away that the properties no longer ask for. A plan is good when some set of quadruples (facts at
the return of its function, before a step, the step, behind it) contains its steps and is closed under the rules. Being a set it needs no
induction over the depth, and unions of such sets put plans one after the other, into loops (`LoopFrom` from i on, for the facts of
the devices below i) and into functions. `VendorRules_proofs` proves these rules, and that the
invariant holds if every feature is good.

`VendorFeaturesGood` does so for every feature: its claims are the union of those of its turns, which is arithmetic on
sockets and cores (`GpusInReach` are the GPUs of the sockets one after the other; two sockets never share one).
The invariant says that the innermost function is good from the state's facts to those at its return, each caller from
there to its own, and the outermost to the goal of the feature (`PlanInv`); that
a feature that returned has reached its goal (`DoneInv`); and that no value given out comes from another device, but for
`KeepOldValues`, also in calls that failed (`OwnInv`). Each action has a lemma. `ReportsTrue`, `CapsTaken` and `FilesGivenBack` are then read off the
goal. For `NodeCap` the facts keep, from the reading back on, that what the firmware was told last and what it holds itself to
are both within the share, which `Enforce` cannot undo; two shares of half the request are no more than the request, which is
why the theorem asks for NSOCKETS <= 2.

The assumptions are those of the modules (`DevicesAssumption`, `SessionAssumption` and so on): constants
are numbers, builds are builds. `FinalizeSparesCaller`, `LeaksComeFromAbandonedBrackets` and
`DevicesImplementModule` assume in addition that the error of `init_msr` is not masked; `TurnsAreSeen` the relation in the table, which
the run `sampling` meets with nothing to spare. The batches take a topology that
divides evenly (`TopologyAssumption`), because `load_socket_batch` does.

Only checked by TLC: liveness (`LoopsEnd`, `CallsReturn`, `MeasurementsEnd`, `MonitorEnds`), which is
beyond the prover, as is `ENABLED`; and the runs that end with a counterexample. `NodeCapHolds` on more than two sockets is neither
proved nor true: the code halves the cap whatever their number.

## 5. What is not modelled

- Formatting, logging and JSON text; `/proc`; hwloc. Of the traces the columns and ends of lines are kept.
- Values of sensors: what matters of a reading is whose it is and whether it was read.
- Overflow of 32 bits where AMD's GPUs turn W into µW and frequencies are multiplied by 1000; the encoding of time windows.
- The ping and pong buffers of the OCC, of which a read during an update may give a part of each.
- Coordinates out of range: the `*_by_coord` functions are given valid ones (`MSR devices` is "partly" modelled for that).
- Threads that call the library at the same time, other than those of the monitors: the library
  does not claim to allow it.
- `running` and `active_sampling` are plain variables read by another thread. Both are read again
  in every turn of a loop that calls functions, so a build reads the value last written, or the one before
  for a while, which is what an interleaving gives.
- The time a sleep takes, but in `Sampler`: any.
- Topology (constants of the models), errors (messages), the Fortran and Python interfaces (declarations
  that forward), utilities, scripts and examples (programs that call one function), the build, and the tests.

About half of the lines that are Variorum's own are mapped to definitions. The others are comments, headers, printing in two
forms with libjustify and without, code that is commented out, examples and the parts named above; more than half of
all lines in the repository are those of googletest, which is vendored and not part of the program.

## 6. Plan

What the modules leave open, in this order:

1. `PowerMonitor` and `P9Energy` on top of `MsTimer`, for the time between the stop of a thread and its end.
2. The functions outside the bracket (`variorum_get_num_sockets` and its like, the domain info), which read and change nothing.
3. Topologies that do not divide evenly, once `load_socket_batch` says what it means by them.
