------------------------------ MODULE P9Energy ------------------------------
(***************************************************************************)
(* The energy functions of IBM Power9 (src/variorum/IBM/Power9.c).  Calls  *)
(* alternate: one clears the accumulator and starts a detached thread that *)
(* adds a power sample every 250 ms, the next clears active_sampling and   *)
(* reads what was accumulated.  Nobody waits for the thread to end, so a   *)
(* measurement may begin while the thread of an earlier one is alive; the  *)
(* flag, the accumulator and the mutex, initialised again by every         *)
(* measurement, are the same for all.                                      *)
(*                                                                         *)
(* print_energy and get_energy_json share all of this, and are one here.   *)
(* Measurements are numbered, and a thread has the number of its own.      *)
(***************************************************************************)
EXTENDS Integers, FiniteSets

CONSTANTS
  MaxMeasurements, \* bound on the measurements begun
  Modulus,         \* the accumulator wraps here: 2^64 in the code
  Watts            \* what a sample may read

ASSUME EnergyAssumption ==
  /\ MaxMeasurements \in Nat
  /\ Modulus \in Nat \ {0}
  /\ Watts \subseteq 0 .. Modulus - 1

VARIABLES
  active_sampling,
  energy_acc, \* th_args.energy_acc
  mlock,      \* the thread holding the mutex
  pc,         \* where the caller stands
  at,         \* where the thread of each measurement stands
  held,       \* the thread's curr_measurement, then its sum before the store
  started,    \* measurements begun
  overlap,    \* history: a thread was alive when the last of them began
  taken       \* history: what each thread has sampled in all

vars == <<active_sampling, energy_acc, mlock, pc, at, held, started, overlap, taken>>
history == <<started, overlap, taken>>

Measurements == 1 .. MaxMeasurements
Free == 0
Caller == -1

\* Fault: the accumulator is wider than it is.
PlusWide(e, w) == e + w

\* Joules as the code counts them: a sample times the interval, which is a
\* constant factor left out, modulo the width of the accumulator.
Plus(e, w) == (e + w) % Modulus

\* take_measurement returns -1, as an unsigned long, when the sensors cannot be read.
Failure == Modulus - 1

Alive(m) == at[m] \notin {"unborn", "ended"}

Init ==
  /\ active_sampling = FALSE /\ energy_acc = 0
  /\ mlock = Free
  /\ pc = "idle"
  /\ at = [m \in Measurements |-> "unborn"]
  /\ held = [m \in Measurements |-> 0]
  /\ started = 0 /\ overlap = FALSE
  /\ taken = [m \in Measurements |-> 0]

-----------------------------------------------------------------------------
\* The caller.  A call that finds active_sampling clear begins a measurement.

CallerGoes(from, to) == pc = from /\ pc' = to

Begin ==
  /\ CallerGoes("idle", "clears")
  /\ ~active_sampling /\ started < MaxMeasurements
  /\ active_sampling' = TRUE
  /\ started' = started + 1
  /\ overlap' = (\E m \in Measurements : Alive(m))
  /\ UNCHANGED <<energy_acc, mlock, at, held, taken>>

\* Fault: the accumulator goes on from where it was.
ClearForgotten ==
  /\ CallerGoes("clears", "inits_mutex")
  /\ UNCHANGED <<active_sampling, energy_acc, mlock, at, held, history>>

Clear ==
  /\ CallerGoes("clears", "inits_mutex")
  /\ energy_acc' = 0
  /\ UNCHANGED <<active_sampling, mlock, at, held, history>>

\* pthread_mutex_init, whoever holds the mutex.
InitMutex ==
  /\ CallerGoes("inits_mutex", "creates")
  /\ mlock' = Free
  /\ UNCHANGED <<active_sampling, energy_acc, at, held, history>>

CreateThread ==
  /\ CallerGoes("creates", "idle")
  /\ at' = [at EXCEPT ![started] = "opens"]
  /\ UNCHANGED <<active_sampling, energy_acc, mlock, held, history>>

\* A call that finds it set ends the measurement.
End ==
  /\ CallerGoes("idle", "locks")
  /\ active_sampling
  /\ active_sampling' = FALSE
  /\ UNCHANGED <<energy_acc, mlock, at, held, history>>

Lock ==
  /\ CallerGoes("locks", "reads")
  /\ mlock = Free
  /\ mlock' = Caller
  /\ UNCHANGED <<active_sampling, energy_acc, at, held, history>>

\* The accumulator is printed, or put into the JSON object, and the mutex given back.
ReadEnergy ==
  /\ CallerGoes("reads", "idle")
  /\ mlock' = Free
  /\ UNCHANGED <<active_sampling, energy_acc, at, held, history>>

-----------------------------------------------------------------------------
\* power_measurement, in the thread of measurement m.

Goes(m, from, to) == at[m] = from /\ at' = [at EXCEPT ![m] = to]

\* The sensors' file may not open: the thread ends, and active_sampling stays set.
OpenSensors(m) ==
  /\ Goes(m, "opens", "sleeps") \/ Goes(m, "opens", "ended")
  /\ UNCHANGED <<active_sampling, energy_acc, mlock, pc, held, history>>

\* Fault: the loop is left only when the sensors cannot be read.
TestForgotten(m) ==
  /\ Goes(m, "sleeps", "locks")
  /\ UNCHANGED <<active_sampling, energy_acc, mlock, pc, held, history>>

\* timer_sleep returns, and the flag is tested.
TestActive(m) ==
  /\ \/ active_sampling /\ Goes(m, "sleeps", "locks")
     \/ ~active_sampling /\ Goes(m, "sleeps", "ended")
  /\ UNCHANGED <<active_sampling, energy_acc, mlock, pc, held, history>>

SamplerLocks(m) ==
  /\ Goes(m, "locks", "samples")
  /\ mlock = Free
  /\ mlock' = m
  /\ UNCHANGED <<active_sampling, energy_acc, pc, held, history>>

\* take_measurement.
Sample(m) ==
  /\ Goes(m, "samples", "adds")
  /\ \E w \in Watts \cup {Failure} :
       /\ held' = [held EXCEPT ![m] = w]
       /\ taken' = [taken EXCEPT ![m] = Plus(taken[m], w)]
  /\ UNCHANGED <<active_sampling, energy_acc, mlock, pc, started, overlap>>

\* energy_acc += ... is a load and a store.
Add(m) ==
  /\ Goes(m, "adds", "stores")
  /\ held' = [held EXCEPT ![m] = Plus(energy_acc, held[m])]
  /\ UNCHANGED <<active_sampling, energy_acc, mlock, pc, history>>

Store(m) ==
  /\ Goes(m, "stores", "unlocks")
  /\ energy_acc' = held[m]
  /\ UNCHANGED <<active_sampling, mlock, pc, held, history>>

\* The mutex is given back, even when it was initialised, and taken by another
\* thread, in between.
SamplerUnlocks(m) ==
  /\ Goes(m, "unlocks", "sleeps")
  /\ mlock' = Free
  /\ UNCHANGED <<active_sampling, energy_acc, pc, held, history>>

-----------------------------------------------------------------------------
CallerInside == Clear \/ InitMutex \/ CreateThread \/ Lock \/ ReadEnergy

Sampler(m) ==
  \/ OpenSensors(m) \/ TestActive(m) \/ SamplerLocks(m) \/ Sample(m)
  \/ Add(m) \/ Store(m) \/ SamplerUnlocks(m)

Next == Begin \/ End \/ CallerInside \/ \E m \in Measurements : Sampler(m)

Spec == Init /\ [][Next]_vars

\* A call goes on until it returns and every thread is scheduled; nothing makes
\* the caller call again.
FairSpec == Spec /\ WF_vars(CallerInside) /\ \A m \in Measurements : WF_vars(Sampler(m))

-----------------------------------------------------------------------------
CallerAt == {"idle", "clears", "inits_mutex", "creates", "locks", "reads"}
SamplerAt == {"unborn", "opens", "sleeps", "locks", "samples", "adds", "stores", "unlocks", "ended"}

TypeOK ==
  /\ active_sampling \in BOOLEAN
  /\ energy_acc \in 0 .. Modulus - 1
  /\ mlock \in Measurements \cup {Free, Caller}
  /\ pc \in CallerAt
  /\ at \in [Measurements -> SamplerAt]
  /\ held \in [Measurements -> 0 .. Modulus - 1]
  /\ started \in 0 .. MaxMeasurements
  /\ overlap \in BOOLEAN
  /\ taken \in [Measurements -> 0 .. Modulus - 1]

\* A measurement that began when the thread of the one before had ended reports
\* every sample of its own thread, no sample of another and none half added.
ReportIsExact == pc = "reads" /\ ~overlap => energy_acc = taken[started]

\* Two threads are inside the mutex at once only when a measurement began over a
\* live thread.
Inside(m) == at[m] \in {"samples", "adds", "stores", "unlocks"}

MutexProtects ==
  ~overlap =>
    /\ \A m, n \in Measurements : Inside(m) /\ Inside(n) => m = n
    /\ pc = "reads" => \A m \in Measurements : ~Inside(m)

\* A call comes back even against threads that keep taking the mutex: they stop
\* contending because the flag is cleared before the mutex is asked for.  And
\* once the last measurement has been ended no thread is left, whatever overlaps
\* there were: no thread outlives the flag it tests.
MeasurementsEnd ==
  /\ pc # "idle" ~> pc = "idle"
  /\ <>[](~active_sampling) => <>[](\A m \in Measurements : ~Alive(m))

=============================================================================
