------------------------------- MODULE Sampler -------------------------------
(***************************************************************************)
(* The sampling thread of var_monitor (power_measurement in common.c) on a *)
(* machine whose wall clock may be set: it takes a sample of the RAPL      *)
(* window, sleeps until the timer fires, and takes the next.               *)
(*                                                                         *)
(* now_ms reads the wall clock, though its comment promises a monotonic    *)
(* one; select sleeps for real time.  The two are separate clocks here.    *)
(***************************************************************************)
EXTENDS MsTimer, RaplWindow
CONSTANTS MaxUse,      \* energy a busy meter uses in a tick
          MaxDelay,    \* ticks until a thread that can run has run
          MaxTime,     \* bound: ticks
          MaxSet,      \* bound: by how much the clock is set
          MaxSets, MaxRefusals, \* bounds: settings of the clock, refused reads
          MaxSamples   \* bound: samples, after which the main thread ends the run
VARIABLES time, wall,  \* real time and CLOCK_REALTIME, in ms
          pc, timer,   \* of the sampling thread
          due,         \* the thread runs by then
          readAt,      \* when the registers were read last
          samples,     \* samples taken
          pace,        \* wall clock if it had only ever been set forward
          sets, setback, refusals

clockVars == <<time, wall, pace, sets, setback>>
meterVars == <<arch, energy, raplVars, readAt, refusals>>
vars == <<clockVars, meterVars, pc, timer, due, samples>>

ASSUME SamplerAssumption ==
  {MaxUse, MaxDelay, MaxTime, MaxSet, MaxSets, MaxRefusals, MaxSamples} \subseteq Nat

\* The clocks agree at first, and are not at zero.
Init == /\ RaplInit
        /\ \E e \in {0, CounterSpan - 1} : energy = [m \in Meter |-> e]
        /\ time = MaxSet /\ wall = MaxSet /\ pace = MaxSet
        /\ pc = "init" /\ timer = TimerAt(time, 1) /\ due = time + MaxDelay
        /\ readAt = time /\ samples = 0
        /\ sets = 0 /\ setback = FALSE /\ refusals = 0

\* A tick of real time; no thread is kept waiting for longer than MaxDelay.
Tick == /\ time < MaxTime
        /\ time < due /\ pc \notin {"spinning", "ended"}
        /\ time' = time + 1 /\ wall' = wall + 1 /\ pace' = pace + 1
        /\ UNCHANGED <<sets, setback, meterVars, pc, timer, due, samples>>

\* The administrator or ntpd sets the clock.
SetClock == \E d \in {-MaxSet, MaxSet} :
  /\ sets < MaxSets /\ wall + d >= 0 /\ pc \notin {"spinning", "ended"}
  /\ wall' = wall + d
  /\ pace' = pace + IF d > 0 THEN d ELSE 0
  /\ sets' = sets + 1 /\ setback' = (setback \/ d < 0)
  /\ UNCHANGED <<time, meterVars, pc, timer, due, samples>>

Goto(next) == /\ pc' = next /\ due' = time + MaxDelay

StartTimer == /\ pc = "init" /\ Goto("timer")
              /\ timer' = init_msTimer(wall)
              /\ UNCHANGED <<clockVars, meterVars, samples>>

\* timer_sleep, late: nothing is slept.
TimerIsLate == /\ pc = "timer" /\ Late(timer, wall) /\ ~Spins(timer, wall)
               /\ timer' = CatchUp(timer, wall)
               /\ Goto("loop")
               /\ UNCHANGED <<clockVars, meterVars, samples>>

TimerSpins == /\ pc = "timer" /\ Spins(timer, wall)
              /\ Goto("spinning")
              /\ UNCHANGED <<clockVars, meterVars, timer, samples>>

\* timer_sleep, in time: the sleep is as long as the wall clock says, now.
FallAsleep == /\ pc = "timer" /\ ~Late(timer, wall)
              /\ pc' = "asleep" /\ due' = time + sleep_ms(timer, wall) + MaxDelay
              /\ UNCHANGED <<clockVars, meterVars, timer, samples>>

WakeUp == /\ pc = "asleep" /\ time >= due - MaxDelay
          /\ timer' = NextStep(timer)
          /\ pc' = "loop" /\ UNCHANGED due
          /\ UNCHANGED <<clockVars, meterVars, samples>>

\* while (running): the main thread may have cleared it.
Loop == /\ pc = "loop"
        /\ \/ samples < MaxSamples /\ pc' = "stamp"
           \/ pc' = "ended"
        /\ UNCHANGED due
        /\ UNCHANGED <<clockVars, meterVars, timer, samples>>

Stamp == /\ pc = "stamp" /\ stamp_rapl_data(wall)
         /\ pc' = "read" /\ UNCHANGED due
         /\ samples' = samples + 1
         /\ UNCHANGED <<clockVars, arch, energy, readAt, refusals, timer>>

\* What the machine has used since the last read is settled when it is read: a
\* meter has been idle or busy.
Read == \E refused \in {{}} \union {{m} : m \in Meter}, busy \in SUBSET Meter :
  /\ pc = "read"
  /\ energy' = [m \in Meter |-> energy[m] + IF m \in busy THEN MaxUse * (time - readAt) ELSE 0]
  /\ readAt' = time
  /\ read_registers(refused)
  /\ refused = {} \/ refusals < MaxRefusals
  /\ refusals' = refusals + IF refused = {} THEN 0 ELSE 1
  /\ Goto("delta")
  /\ UNCHANGED <<clockVars, arch, timer, samples>>

Delta == /\ pc = "delta" /\ delta_rapl_data
         /\ pc' = "timer" /\ UNCHANGED due
         /\ UNCHANGED <<clockVars, arch, energy, readAt, refusals, timer, samples>>

Next == \/ Tick \/ SetClock
        \/ StartTimer \/ TimerIsLate \/ TimerSpins \/ FallAsleep \/ WakeUp
        \/ Loop \/ Stamp \/ Read \/ Delta

Spec == Init /\ [][Next]_vars

-----------------------------------------------------------------------------
\* Properties.

\* The window, the timer and the clocks keep to their types (struct rapl_data,
\* struct mstimer); in particular a timer is never left between two firings.
TypeOK == /\ RaplTypeOK
          /\ timer \in Timer /\ timer.nextms = Firing(timer.startms, timer.step)
          /\ {time, wall, pace, due, samples} \subseteq Nat
          /\ pc \in {"init", "timer", "asleep", "spinning", "loop", "stamp", "read", "delta", "ended"}
          /\ setback \in BOOLEAN /\ readAt \in Nat
          /\ sets \in 0..MaxSets /\ refusals \in 0..MaxRefusals
          /\ energy \in [Meter -> Nat]

\* What the windows of delta_rapl_data report adds up to what the machine used
\* between the first and the last read, whatever reads were refused and however
\* the clock was set: less one unit for each turn of the counter that was seen,
\* and less the turns nobody could see.  DRAM with the unit of two models is left
\* out: where its counter turns, the difference is taken in package units.
AddsUp(m) == pc # "delta" =>
               total[m] = (seen[m] - base[m] - wraps[m] - CounterSpan * missed[m]) * BITS_TO_JOULES_DRAM(m)
WindowsAddUp == \A m \in Meter : m[2] = "pkg" \/ arch = "own" => AddsUp(m)

\* However often the thread is late and the timer catches up (timer_sleep), no
\* more samples are taken than intervals have passed, in the first 2^32 ms: then
\* step * interval turns, and the firings come again.
KeepsThePace == pace - timer.startms < UintSpan - Interval => samples * Interval <= pace - timer.startms

\* common.c:440, "50 ms should be short enough to always get good information":
\* while the clock is not set back, the timer runs and registers answer, no turn
\* of a counter falls between two samples.  (The first read starts the window.)
NoTurnIsMissed ==
  ~setback /\ refusals = 0 => \A m \in Meter : missed[m] = 0
=============================================================================
