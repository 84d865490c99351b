---------------------------- MODULE PowerMonitor ----------------------------
(***************************************************************************)
(* The process that is the highlander (module Highlander) from its trace   *)
(* file to its summary: the main thread, which starts a sampling thread,   *)
(* waits for the application and takes a last sample, and the sampling     *)
(* thread, which samples until "running" is cleared and, in                *)
(* power_wrapper_dynamic, steps the power cap up and down                  *)
(* (src/var_monitor: var_monitor.c, power_wrapper_*.c, common.c).          *)
(***************************************************************************)
EXTENDS Integers, FiniteSets

CONSTANTS
  Programs, \* the monitors considered
  Caps,     \* the values of -w considered, in watts
  None

Wrappers == {"power_wrapper_static", "power_wrapper_dynamic"}
Threads == {"main", "sampler"}

ASSUME MonitorAssumption ==
  /\ Programs \subseteq {"var_monitor"} \cup Wrappers
  /\ Caps \subseteq Int
  /\ None \notin Threads

VARIABLES
  program,
  measure_all, power_with_util, watt_cap, \* the command line: -v, -u, -w
  at,                             \* where each thread stands
  mlock,                          \* the thread that holds the mutex
  running,
  watts, poll_dir, poll_num,      \* the stepping of power_wrapper_dynamic
  exit,                           \* how the process ended
  asked,                          \* history: the package limits asked for
  late                            \* history: samples begun after the stop

line == <<program, measure_all, power_with_util, watt_cap>>
step == <<watts, poll_dir, poll_num>>
vars == <<line, at, mlock, running, step, exit, asked, late>>

\* What the command lines leave behind.  The wrappers always take verbose
\* samples, with variorum_monitoring, and their cap is 0 without -w.
VarMonitorLine ==
  /\ program = "var_monitor"
  /\ measure_all \in BOOLEAN /\ power_with_util \in BOOLEAN /\ watt_cap = 0

WrapperLine ==
  /\ program \in Wrappers
  /\ measure_all = TRUE /\ power_with_util = FALSE /\ watt_cap \in Caps \cup {0}

Init ==
  /\ program \in Programs
  /\ VarMonitorLine \/ WrapperLine
  /\ at = [t \in Threads |->
             IF t = "sampler" THEN "unborn"
             ELSE IF program \in Wrappers THEN "caps" ELSE "creates_thread"]
  /\ mlock = None
  /\ running = TRUE
  /\ watts = watt_cap /\ poll_dir = 5 /\ poll_num = 1
  /\ exit = "no"
  /\ asked = {} /\ late = 0

\* A thread takes a step while the process lives.
Goto(t, from, to) == exit = "no" /\ at[t] = from /\ at' = [at EXCEPT ![t] = to]

-----------------------------------------------------------------------------
\* take_measurement(), called by both threads.

\* Fault: the mutex is not waited for.
LocksNothing(t) ==
  /\ Goto(t, "locks", "samples")
  /\ mlock' = t
  /\ late' = IF t = "sampler" /\ ~running THEN late + 1 ELSE late
  /\ UNCHANGED <<line, running, step, exit, asked>>

Locks(t) ==
  /\ Goto(t, "locks", "samples")
  /\ mlock = None
  /\ mlock' = t
  /\ late' = IF t = "sampler" /\ ~running THEN late + 1 ELSE late
  /\ UNCHANGED <<line, running, step, exit, asked>>

\* The calls into libvariorum begin: variorum_monitoring, whose result is
\* ignored, or variorum_get_power_json.
Samples(t) ==
  /\ Goto(t, "samples", "in_sample")
  /\ UNCHANGED <<line, mlock, running, step, exit, asked, late>>

SampleReturns(t) ==
  /\ Goto(t, "in_sample", IF measure_all THEN "unlocks" ELSE "parses")
  /\ UNCHANGED <<line, mlock, running, step, exit, asked, late>>

\* A way out of the process with the mutex held, whichever thread it is.
Leaves(t, from, how) ==
  /\ Goto(t, from, "ended")
  /\ exit' = how
  /\ UNCHANGED <<line, mlock, running, step, asked, late>>

\* The JSON call fails, or there are no sockets: exit(-1).
SampleFails(t) == ~measure_all /\ Leaves(t, "in_sample", "failed")

\* parse_json_power_obj writes a line of the trace; under -u the utilization is
\* asked for next.
ParsesPower(t) ==
  /\ Goto(t, "parses", IF power_with_util THEN "in_util" ELSE "unlocks")
  /\ UNCHANGED <<line, mlock, running, step, exit, asked, late>>

\* parse_json_power_obj misses an object: exit(0).
ObjectMissing(t) == Leaves(t, "parses", "returned")

UtilReturns(t) ==
  /\ Goto(t, "in_util", "parses_util")
  /\ UNCHANGED <<line, mlock, running, step, exit, asked, late>>

\* variorum_get_utilization_json fails, or calls a pointer that is NULL.
UtilFails(t) == \E how \in {"failed", "crashed"} : Leaves(t, "in_util", how)

ParsesUtil(t) ==
  /\ Goto(t, "parses_util", "unlocks")
  /\ UNCHANGED <<line, mlock, running, step, exit, asked, late>>

\* Fault: a way out of take_measurement keeps the mutex.
UnlocksNothing(t) ==
  /\ Goto(t, "unlocks", IF t = "main" THEN "summary"
                        ELSE IF program = "power_wrapper_dynamic" THEN "adjusts" ELSE "checks")
  /\ UNCHANGED <<line, mlock, running, step, exit, asked, late>>

Unlocks(t) ==
  /\ Goto(t, "unlocks", IF t = "main" THEN "summary"
                        ELSE IF program = "power_wrapper_dynamic" THEN "adjusts" ELSE "checks")
  /\ mlock' = None
  /\ UNCHANGED <<line, running, step, exit, asked, late>>

-----------------------------------------------------------------------------
\* variorum_cap_each_socket_power_limit, without the mutex, its result ignored:
\* main before it creates the thread, the thread of power_wrapper_dynamic before
\* its loop and after a step.
SetsCap(t) ==
  /\ Goto(t, "caps", "in_cap")
  /\ asked' = asked \cup {IF t = "main" THEN watt_cap ELSE watts}
  /\ UNCHANGED <<line, mlock, running, step, exit, late>>

CapReturns(t) ==
  /\ Goto(t, "in_cap", IF t = "main" THEN "creates_thread" ELSE "checks")
  /\ UNCHANGED <<line, mlock, running, step, exit, asked, late>>

-----------------------------------------------------------------------------
\* The sampling thread: power_measurement and power_set_measurement.

\* power_wrapper_static passes no argument, and power_measurement reads it.
Begins ==
  /\ \/ program = "var_monitor" /\ Goto("sampler", "begins", "checks") /\ UNCHANGED exit
     \/ program = "power_wrapper_dynamic" /\ Goto("sampler", "begins", "caps") /\ UNCHANGED exit
     \/ /\ program = "power_wrapper_static"
        /\ Goto("sampler", "begins", "ended")
        /\ exit' = "crashed"
  /\ UNCHANGED <<line, mlock, running, step, asked, late>>

\* Fault: running is not read again.
ChecksNothing ==
  /\ Goto("sampler", "checks", "locks")
  /\ UNCHANGED <<line, mlock, running, step, exit, asked, late>>

\* timer_sleep is over, and running is read.
Checks ==
  /\ Goto("sampler", "checks", IF running THEN "locks" ELSE "ended")
  /\ UNCHANGED <<line, mlock, running, step, exit, asked, late>>

\* Faults: the cap of the command line is passed before the direction turns;
\* the direction is added to.
NextDirLate == IF watts <= 30 THEN 5 ELSE IF watts > watt_cap THEN -5 ELSE poll_dir
NextDirAdded == IF watts <= 30 THEN poll_dir + 5 ELSE IF watts >= watt_cap THEN -5 ELSE poll_dir

\* Of poll_num only the remainder by 5 is kept: every fifth sample steps the cap.
NextDir == IF watts <= 30 THEN 5 ELSE IF watts >= watt_cap THEN -5 ELSE poll_dir

Adjusts ==
  /\ \/ /\ poll_num = 0
        /\ poll_dir' = NextDir
        /\ watts' = watts + NextDir
        /\ Goto("sampler", "adjusts", "caps")
     \/ poll_num # 0 /\ Goto("sampler", "adjusts", "checks") /\ UNCHANGED <<watts, poll_dir>>
  /\ poll_num' = (poll_num + 1) % 5
  /\ UNCHANGED <<line, mlock, running, exit, asked, late>>

-----------------------------------------------------------------------------
\* The main thread.

CreatesThread ==
  /\ exit = "no" /\ at["main"] = "creates_thread"
  /\ at' = [t \in Threads |-> IF t = "main" THEN "waits" ELSE "begins"]
  /\ UNCHANGED <<line, mlock, running, step, exit, asked, late>>

\* waitpid, sleep(1) and highlander_wait return.
AppEnds ==
  /\ Goto("main", "waits", "stops")
  /\ UNCHANGED <<line, mlock, running, step, exit, asked, late>>

Stops ==
  /\ Goto("main", "stops", "locks")
  /\ running' = FALSE
  /\ UNCHANGED <<line, mlock, step, exit, asked, late>>

\* main returns, with 1 when the summary file is there already: the process is
\* over, wherever the sampling thread stands.
Summary ==
  /\ Goto("main", "summary", "ended")
  /\ exit' \in {"returned", "failed"}
  /\ UNCHANGED <<line, mlock, running, step, asked, late>>

-----------------------------------------------------------------------------
Sampler == Begins \/ Checks \/ Adjusts
Main == CreatesThread \/ AppEnds \/ Stops \/ Summary
Parses(t) == ParsesPower(t) \/ ObjectMissing(t) \/ UtilReturns(t) \/ UtilFails(t) \/ ParsesUtil(t)
Shared(t) ==
  \/ Locks(t) \/ Samples(t) \/ SampleReturns(t) \/ SampleFails(t) \/ Parses(t) \/ Unlocks(t)
  \/ SetsCap(t) \/ CapReturns(t)

\* The three programs have a main() each; past the command line and the cap of
\* the wrappers (SetsCap) they do the same.
VarMonitorMain == program = "var_monitor" /\ Main
StaticMain == program = "power_wrapper_static" /\ Main
DynamicMain == program = "power_wrapper_dynamic" /\ Main

Next == Sampler \/ VarMonitorMain \/ StaticMain \/ DynamicMain \/ \E t \in Threads : Shared(t)

Spec == Init /\ [][Next]_vars

-----------------------------------------------------------------------------
Locations ==
  {"unborn", "caps", "in_cap", "creates_thread", "waits", "stops", "locks", "samples",
   "in_sample", "parses", "in_util", "parses_util", "unlocks", "summary", "begins", "checks", "adjusts", "ended"}

TypeOK ==
  /\ program \in Programs /\ measure_all \in BOOLEAN /\ power_with_util \in BOOLEAN
  /\ watt_cap \in Caps \cup {0}
  /\ at \in [Threads -> Locations]
  /\ mlock \in Threads \cup {None}
  /\ running \in BOOLEAN
  /\ watts \in Int /\ poll_dir \in {-5, 5} /\ poll_num \in 0 .. 4
  /\ exit \in {"no", "returned", "failed", "crashed"}
  /\ asked \subseteq Int
  /\ late \in Nat

\* The library has no lock of its own: two threads are never inside it at once,
\* except in power_wrapper_dynamic, whose thread caps without the mutex and can
\* meet the last sample of main.
InLibrary == {t \in Threads : at[t] \in {"in_sample", "in_util", "in_cap"}}

CallsOverlapOnlyAfterStop ==
  InLibrary = Threads => program = "power_wrapper_dynamic" /\ ~running

\* The thread begins at most one more sample once it has been stopped.
AtMostOneLateSample == late <= 1

\* What stopping leaves behind: the thread ends after one sample more, and no
\* call of the library meets another, but for the cap of power_wrapper_dynamic.
ThreadWindsDown == CallsOverlapOnlyAfterStop /\ AtMostOneLateSample

\* No step takes the cap out of its band: between 26 W and the cap of the
\* command line, or, when that is 30 W or less, between it and 35 W.
InBand(w) ==
  IF watt_cap > 30 THEN 26 <= w /\ w <= watt_cap ELSE watt_cap <= w /\ w <= 35

LimitsStayInBand == \A w \in asked : InBand(w)

\* Once the application is over the monitor ends: main is not starved of the
\* mutex by the thread it stops, and no thread keeps it.
MonitorEnds == at["main"] = "stops" ~> exit # "no"

=============================================================================
