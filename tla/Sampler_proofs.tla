---------------------------- MODULE Sampler_proofs ----------------------------
(***************************************************************************)
(* Proofs about the sampling thread, its timer and its energy window: for  *)
(* any interval, any width of the counters and of the step, any units, any *)
(* delays and any settings of the clock.                                   *)
(***************************************************************************)
EXTENDS Sampler, WellFoundedInduction, TLAPS

-----------------------------------------------------------------------------
\* Arithmetic.

\* A set of numbers that is not empty has a least one.
Less == {ss \in Nat \X Nat : ss[1] < ss[2]}

LEMMA LeastNumber ==
  ASSUME NEW S \in SUBSET Nat, S # {}
  PROVE  \E k \in S : \A j \in S : k <= j
<1>1. IsWellFoundedOn(Less, Nat)
  BY NatLessThanWellFounded DEF OpToRel, Less
<1>2. PICK x \in S : \A y \in S : ~(<<y, x>> \in Less)
  BY <1>1, WFMin, Zenon
<1>3. \A y \in S : ~(y < x)
  BY <1>2 DEF Less
<1>4. x \in Nat /\ \A y \in S : y \in Nat
  OBVIOUS
<1>. QED
  BY <1>3, <1>4

LEMMA Remainders ==
  ASSUME NEW n \in Nat \ {0}, NEW a \in Int
  PROVE  a % n \in 0 .. n - 1 /\ a \div n \in Int /\ a = n * (a \div n) + (a % n)
OBVIOUS

LEMMA SmallRemainders == ASSUME NEW n \in Nat, NEW a \in 0 .. n - 1 PROVE a % n = a
OBVIOUS

LEMMA Products ==
  ASSUME NEW a \in Nat, NEW b \in Nat, NEW c \in Nat
  PROVE  a * c \in Nat /\ (a <= b => a * c <= b * c) /\ (a + b) * c = a * c + b * c
OBVIOUS

\* Between two values a <= b of a counter its register shows their difference
\* less the whole turns, one of which it gives away where it falls.
LEMMA Turns ==
  ASSUME NEW n \in Nat \ {0}, NEW a \in Int, NEW b \in Int
  PROVE  b - a = n * ((b - a) \div n) + ((b % n) - (a % n)) + (IF (b % n) < (a % n) THEN n ELSE 0)
<1>. DEFINE qa == a \div n  ra == a % n  qb == b \div n  rb == b % n
            q == (b - a) \div n  r == (b - a) % n
<1>1. /\ qa \in Int /\ ra \in 0 .. n - 1 /\ a = n * qa + ra
      /\ qb \in Int /\ rb \in 0 .. n - 1 /\ b = n * qb + rb
      /\ q \in Int /\ r \in 0 .. n - 1 /\ b - a = n * q + r
  BY Remainders
<1>. HIDE DEF qa, ra, qb, rb, q, r
<1>2. n * (qb - qa) + (rb - ra) = n * q + r
  BY <1>1
<1>3. n * (qb - qa - q) = r - (rb - ra)
  BY <1>1, <1>2
<1>4. CASE rb >= ra
  <2>1. r - (rb - ra) \in -(n - 1) .. n - 1
    BY <1>1, <1>4
  <2>2. qb - qa - q = 0
    BY <1>1, <1>3, <2>1
  <2>. QED
    BY <1>1, <1>3, <1>4, <2>2 DEF qa, ra, qb, rb, q, r
<1>5. CASE rb < ra
  <2>1. r - (rb - ra) - n \in -(n - 1) .. n - 1
    BY <1>1, <1>5
  <2>2. n * (qb - qa - q - 1) = r - (rb - ra) - n
    BY <1>1, <1>3
  <2>3. qb - qa - q - 1 = 0
    BY <1>1, <2>1, <2>2
  <2>. QED
    BY <1>1, <1>5, <2>2, <2>3 DEF qa, ra, qb, rb, q, r
<1>. QED
  BY <1>1, <1>4, <1>5

-----------------------------------------------------------------------------
\* The timer.

LEMMA FiringIsNumber ==
  ASSUME NEW start \in Nat, NEW step \in Nat
  PROVE  Firing(start, step) \in Nat
<1>1. step * Interval \in Nat
  BY TimerAssumption, Products
<1>2. (step * Interval) % UintSpan \in Nat
  BY <1>1, TimerAssumption, Remainders
<1>. QED
  BY <1>2 DEF Firing

\* A timer at some step is a timer, and fires when its step does.
LEMMA TimerAtIsTimer ==
  ASSUME NEW start \in Nat, NEW step \in Nat
  PROVE  /\ TimerAt(start, step) \in Timer
         /\ TimerAt(start, step).nextms = Firing(TimerAt(start, step).startms, TimerAt(start, step).step)
         /\ TimerAt(start, step).startms = start
         /\ TimerAt(start, step).step = step % UintSpan
<1>1. step % UintSpan \in 0 .. UintSpan - 1 /\ step % UintSpan \in Nat
  BY TimerAssumption, Remainders
<1>2. Firing(start, step % UintSpan) \in Nat
  BY <1>1, FiringIsNumber
<1>. QED
  BY <1>1, <1>2 DEF TimerAt, Timer

\* Where the loop of timer_sleep ends, it ends at the least step ahead.
LEMMA CatchUpIsLeast ==
  ASSUME NEW t \in Timer, NEW now \in Nat, Late(t, now), ~Spins(t, now)
  PROVE  \E k \in Ahead(t, now) :
           /\ \A j \in Ahead(t, now) : k <= j
           /\ CatchUp(t, now) = TimerAt(t.startms, t.step + k)
<1>1. Ahead(t, now) # {} /\ Ahead(t, now) \in SUBSET Nat
  BY TimerAssumption DEF Spins, Ahead
<1>2. \E k \in Ahead(t, now) : \A j \in Ahead(t, now) : k <= j
  BY <1>1, LeastNumber
<1>. QED
  BY <1>2 DEF CatchUp

-----------------------------------------------------------------------------
\* Types.

IsTimer(t) == t \in Timer /\ t.nextms = Firing(t.startms, t.step)

LEMMA TimerStep ==
  ASSUME TypeOK, [Next]_vars
  PROVE  IsTimer(timer')
<1>1. IsTimer(timer) /\ wall \in Nat /\ timer.startms \in Nat /\ timer.step \in Nat
  BY DEF TypeOK, IsTimer, Timer
<1>2. CASE UNCHANGED timer
  BY <1>1, <1>2 DEF IsTimer
<1>3. CASE StartTimer
  BY <1>1, <1>3, TimerAtIsTimer DEF StartTimer, init_msTimer, IsTimer
<1>4. CASE TimerIsLate
  <2>1. PICK k \in Ahead(timer, wall) : timer' = TimerAt(timer.startms, timer.step + k)
    BY <1>1, <1>4, CatchUpIsLeast DEF TimerIsLate, IsTimer
  <2>2. timer.step + k \in Nat
    BY <1>1, TimerAssumption DEF Ahead
  <2>. QED
    BY <1>1, <2>1, <2>2, TimerAtIsTimer DEF IsTimer
<1>5. CASE WakeUp
  <2>1. timer' = TimerAt(timer.startms, timer.step + 1) /\ timer.step + 1 \in Nat
    BY <1>1, <1>5 DEF WakeUp, NextStep
  <2>. QED
    BY <1>1, <2>1, TimerAtIsTimer DEF IsTimer
<1>. QED
  BY <1>2, <1>3, <1>4, <1>5
     DEF Next, Tick, SetClock, TimerSpins, FallAsleep, Loop, Stamp, Read, Delta, vars

\* Everything but the timer and the window.
Clocks ==
  /\ {time, wall, pace, due, samples} \subseteq Nat
  /\ pc \in {"init", "timer", "asleep", "spinning", "loop", "stamp", "read", "delta", "ended"}
  /\ setback \in BOOLEAN /\ readAt \in Nat
  /\ sets \in 0..MaxSets /\ refusals \in 0..MaxRefusals

LEMMA ClocksStep == ASSUME TypeOK, [Next]_vars PROVE Clocks'
<1>. USE SamplerAssumption DEF TypeOK, Clocks, Goto
<1>1. CASE Tick
  BY <1>1 DEF Tick, meterVars
<1>2. CASE SetClock
  <2>1. PICK d \in {-MaxSet, MaxSet} :
          /\ sets < MaxSets /\ wall + d >= 0
          /\ wall' = wall + d /\ pace' = pace + (IF d > 0 THEN d ELSE 0)
          /\ sets' = sets + 1 /\ setback' = (setback \/ d < 0)
    BY <1>2 DEF SetClock
  <2>2. d \in Int /\ MaxSets \in Nat
    BY <2>1
  <2>3. pace' \in Nat /\ wall' \in Nat /\ sets' \in 0 .. MaxSets
    BY <2>1, <2>2
  <2>4. setback' \in BOOLEAN
    BY <2>1
  <2>. QED
    BY <1>2, <2>3, <2>4 DEF SetClock, meterVars
<1>3. CASE StartTimer \/ TimerIsLate \/ TimerSpins
  BY <1>3 DEF StartTimer, TimerIsLate, TimerSpins, clockVars, meterVars
<1>4. CASE FallAsleep
  <2>1. due' \in Nat
    <3>1. timer.nextms \in Nat /\ timer.nextms > wall
      BY <1>4 DEF FallAsleep, Late, Timer
    <3>. QED
      BY <1>4, <3>1 DEF FallAsleep, sleep_ms
  <2>. QED
    BY <1>4, <2>1 DEF FallAsleep, clockVars, meterVars
<1>5. CASE WakeUp \/ Loop \/ Delta
  BY <1>5 DEF WakeUp, Loop, Delta, clockVars, meterVars
<1>6. CASE Stamp
  BY <1>6 DEF Stamp, clockVars
<1>7. CASE Read
  <2>1. /\ UNCHANGED <<time, wall, pace, samples, setback, sets>> /\ readAt' = time
        /\ pc' = "delta" /\ due' = time + MaxDelay
    BY <1>7 DEF Read, clockVars
  <2>2. refusals' \in 0 .. MaxRefusals
    BY <1>7 DEF Read
  <2>. QED
    BY <2>1, <2>2
<1>8. CASE UNCHANGED vars
  BY <1>8 DEF vars, clockVars, meterVars
<1>. QED
  BY <1>1, <1>2, <1>3, <1>4, <1>5, <1>6, <1>7, <1>8 DEF Next

\* The window.
Window == RaplTypeOK /\ energy \in [Meter -> Nat]

Rapl == [now : Nat, old_now : Nat, elapsed : Int,
         bits : [Meter -> 0..(CounterSpan - 1)], old_bits : [Meter -> 0..(CounterSpan - 1)],
         joules : [Meter -> Nat], old_joules : [Meter -> Nat], delta_joules : [Meter -> Int],
         watts : [Meter -> [joules : Int, over : Nat \ {0}]]]

LEMMA Units ==
  ASSUME RaplTypeOK, NEW m \in Meter
  PROVE  BITS_TO_JOULES_DRAM(m) \in Nat \ {0} /\ BITS_TO_JOULES(m) \in Nat \ {0}
BY RaplAssumption DEF BITS_TO_JOULES_DRAM, BITS_TO_JOULES

LEMMA StampStep == ASSUME TypeOK, Stamp PROVE Window'
<1>1. rapl \in Rapl /\ wall \in Nat
  BY DEF TypeOK, RaplTypeOK, Rapl
<1>2. /\ UNCHANGED <<init, base, seen, total, wraps, missed, arch, energy>>
      /\ rapl' = IF "read_rapl_data" \in init
                 THEN [rapl EXCEPT !.old_now = rapl.now, !.now = wall, !.elapsed = wall - rapl.now,
                                   !.old_bits = rapl.bits, !.old_joules = rapl.joules]
                 ELSE [rapl EXCEPT !.now = wall]
  BY DEF Stamp, stamp_rapl_data
<1>3. rapl' \in Rapl
  <2>1. CASE "read_rapl_data" \in init
    <3>1. rapl' = [rapl EXCEPT !.old_now = rapl.now, !.now = wall, !.elapsed = wall - rapl.now,
                               !.old_bits = rapl.bits, !.old_joules = rapl.joules]
      BY <1>2, <2>1
    <3>2. wall - rapl.now \in Int
      BY <1>1 DEF Rapl
    <3>. QED
      BY <1>1, <3>1, <3>2 DEF Rapl
  <2>2. CASE "read_rapl_data" \notin init
    BY <1>1, <1>2, <2>2 DEF Rapl
  <2>. QED
    BY <2>1, <2>2
<1>. QED
  BY <1>2, <1>3 DEF TypeOK, RaplTypeOK, Window, Rapl

LEMMA ReadStep == ASSUME TypeOK, readAt <= time, Read PROVE Window'
<1>1. PICK refused \in {{}} \union {{m} : m \in Meter}, busy \in SUBSET Meter :
        /\ energy' = [m \in Meter |-> energy[m] + IF m \in busy THEN MaxUse * (time - readAt) ELSE 0]
        /\ read_registers(refused)
        /\ UNCHANGED arch
  BY DEF Read
<1>2. rapl \in Rapl /\ energy \in [Meter -> Nat] /\ {base, seen, total, wraps, missed} \subseteq [Meter -> Int]
      /\ CounterSpan \in Nat \ {0}
  BY RaplAssumption DEF TypeOK, RaplTypeOK, Rapl
<1>3. MaxUse * (time - readAt) \in Nat
  <2>1. time - readAt \in Nat /\ MaxUse \in Nat
    BY SamplerAssumption DEF TypeOK
  <2>. QED
    BY <2>1, Products
<1>4. energy' \in [Meter -> Nat]
  BY <1>1, <1>2, <1>3
<1>. DEFINE bits == [m \in Meter |-> IF m \in refused THEN rapl.bits[m] ELSE (energy'[m] % CounterSpan)]
            joules == [m \in Meter |-> bits[m] * BITS_TO_JOULES_DRAM(m)]
<1>5. bits \in [Meter -> 0 .. CounterSpan - 1]
  <2> SUFFICES ASSUME NEW m \in Meter
               PROVE  (IF m \in refused THEN rapl.bits[m] ELSE (energy'[m] % CounterSpan)) \in 0 .. CounterSpan - 1
    OBVIOUS
  <2>1. energy'[m] % CounterSpan \in 0 .. CounterSpan - 1
    BY <1>2, <1>4, Remainders
  <2>2. rapl.bits[m] \in 0 .. CounterSpan - 1
    BY <1>2 DEF Rapl
  <2>. QED
    BY <2>1, <2>2
<1>6. joules \in [Meter -> Nat]
  <2> SUFFICES ASSUME NEW m \in Meter PROVE bits[m] * BITS_TO_JOULES_DRAM(m) \in Nat
    OBVIOUS
  <2>1. bits[m] \in Nat /\ BITS_TO_JOULES_DRAM(m) \in Nat
    BY <1>2, <1>5, Units DEF TypeOK
  <2>. HIDE DEF bits
  <2>. QED
    BY <2>1, Products
<1>7. rapl' = [rapl EXCEPT !.bits = bits, !.joules = joules]
  BY <1>1 DEF read_registers
<1>8. rapl' \in Rapl
  <2>. HIDE DEF bits, joules
  <2>. QED
    BY <1>2, <1>5, <1>6, <1>7 DEF Rapl
<1>9. seen' \in [Meter -> Int] /\ base' \in [Meter -> Int]
  BY <1>1, <1>2, <1>4 DEF read_registers
<1>10. missed' \in [Meter -> Int]
  <2>1. ASSUME NEW m \in Meter PROVE missed[m] + (seen'[m] - seen[m]) \div CounterSpan \in Int
    <3>1. seen'[m] - seen[m] \in Int /\ missed[m] \in Int
      BY <1>2, <1>9
    <3>2. (seen'[m] - seen[m]) \div CounterSpan \in Int
      BY <1>2, <3>1, Remainders
    <3>. QED
      BY <3>1, <3>2
  <2>2. missed' = [m \in Meter |-> IF "read_rapl_data" \notin init THEN 0
                                   ELSE missed[m] + (seen'[m] - seen[m]) \div CounterSpan]
    BY <1>1 DEF read_registers
  <2>. QED
    BY <2>1, <2>2
<1>11. init' = init \union {"read_rapl_data"} /\ UNCHANGED <<total, wraps>>
  BY <1>1 DEF read_registers
<1>. QED
  BY <1>1, <1>2, <1>4, <1>8, <1>9, <1>10, <1>11 DEF TypeOK, RaplTypeOK, Window, Rapl

\* What a window reports is a number.
LEMMA DeltaIsNumber == ASSUME RaplTypeOK, NEW m \in Meter PROVE delta_joules(m) \in Int
<1>1. /\ rapl.bits[m] \in 0 .. CounterSpan - 1 /\ rapl.old_bits[m] \in 0 .. CounterSpan - 1
      /\ rapl.joules[m] \in Nat /\ rapl.old_joules[m] \in Nat /\ CounterSpan \in Nat
  BY RaplAssumption DEF RaplTypeOK
<1>2. (rapl.bits[m] + (CounterSpan - 1) - rapl.old_bits[m]) * BITS_TO_JOULES(m) \in Int
  BY <1>1, Units
<1>. QED
  BY <1>1, <1>2 DEF delta_joules

LEMMA DeltaStep == ASSUME TypeOK, Delta PROVE Window'
<1>1. rapl \in Rapl /\ {base, seen, total, wraps, missed} \subseteq [Meter -> Int] /\ UNCHANGED <<arch, energy>>
  BY DEF TypeOK, RaplTypeOK, Rapl, Delta
<1>2. NoWatts \in [joules : Int, over : Nat \ {0}]
  BY DEF NoWatts
<1>3. CASE delta_first
  <2>. DEFINE watts == [m \in Meter |-> NoWatts]
  <2>0. watts \in [Meter -> [joules : Int, over : Nat \ {0}]]
    BY <1>2
  <2>1. rapl' \in Rapl
    <3>1. rapl' = [rapl EXCEPT !.watts = watts, !.elapsed = 0]
      BY <1>3 DEF delta_first
    <3>. HIDE DEF watts
    <3>. DEFINE cleared == [rapl EXCEPT !.watts = watts]
    <3>2. cleared \in Rapl
      BY <1>1, <2>0 DEF Rapl
    <3>3. rapl' = [cleared EXCEPT !.elapsed = 0]
      BY <3>1
    <3>. HIDE DEF cleared
    <3>. QED
      BY <3>2, <3>3 DEF Rapl
  <2>. QED
    BY <1>1, <1>3, <2>1 DEF delta_first, TypeOK, RaplTypeOK, Window, Rapl
<1>4. CASE delta_next
  <2>. DEFINE delta == [m \in Meter |-> delta_joules(m)]
              watts == [m \in Meter |-> IF rapl.elapsed > 0 THEN [joules |-> delta[m], over |-> rapl.elapsed]
                                                            ELSE NoWatts]
  <2>1. delta \in [Meter -> Int]
    BY DeltaIsNumber DEF TypeOK
  <2>2. watts \in [Meter -> [joules : Int, over : Nat \ {0}]]
    <3>. HIDE DEF delta
    <3> SUFFICES ASSUME NEW m \in Meter
                 PROVE (IF rapl.elapsed > 0 THEN [joules |-> delta[m], over |-> rapl.elapsed] ELSE NoWatts)
                         \in [joules : Int, over : Nat \ {0}]
      OBVIOUS
    <3>1. rapl.elapsed \in Int /\ delta[m] \in Int
      BY <1>1, <2>1 DEF Rapl
    <3>2. rapl.elapsed > 0 => rapl.elapsed \in Nat \ {0}
      BY <3>1
    <3>. QED
      BY <1>2, <3>1, <3>2
  <2>3. rapl' = [rapl EXCEPT !.delta_joules = delta, !.watts = watts]
    BY <1>4 DEF delta_next
  <2>4. rapl' \in Rapl
    <3>. HIDE DEF delta, watts
    <3>. QED
      BY <1>1, <2>1, <2>2, <2>3 DEF Rapl
  <2>5. total' \in [Meter -> Int] /\ wraps' \in [Meter -> Int] /\ UNCHANGED <<init, base, seen, missed>>
    BY <1>1, <1>4, <2>1 DEF delta_next
  <2>. QED
    BY <1>1, <2>4, <2>5 DEF TypeOK, RaplTypeOK, Window, Rapl
<1>. QED
  BY <1>3, <1>4 DEF Delta, delta_rapl_data

TypeInv == TypeOK /\ readAt <= time

LEMMA TypeStep == ASSUME TypeInv, [Next]_vars PROVE TypeInv'
<1>1. IsTimer(timer') /\ Clocks'
  BY TimerStep, ClocksStep DEF TypeInv
<1>2. Window'
  <2>1. CASE Stamp \/ Read \/ Delta
    BY <2>1, StampStep, ReadStep, DeltaStep DEF TypeInv
  <2>2. CASE UNCHANGED <<arch, energy, raplVars>>
    BY <2>2 DEF TypeInv, TypeOK, RaplTypeOK, Window, raplVars, Units, BITS_TO_JOULES
  <2>. QED
    BY <2>1, <2>2 DEF Next, Tick, SetClock, StartTimer, TimerIsLate, TimerSpins, FallAsleep, WakeUp, Loop,
                      vars, meterVars
<1>3. readAt' <= time'
  BY DEF TypeInv, TypeOK, Next, Tick, SetClock, StartTimer, TimerIsLate, TimerSpins, FallAsleep, WakeUp, Loop,
         Stamp, Read, Delta, vars, clockVars, meterVars
<1>. QED
  BY <1>1, <1>2, <1>3 DEF TypeInv, TypeOK, IsTimer, Clocks, Window

LEMMA TypeInit == ASSUME Init PROVE TypeInv
<1>1. MaxSet \in Nat /\ MaxDelay \in Nat /\ MaxSets \in Nat /\ MaxRefusals \in Nat /\ CounterSpan \in Nat \ {0, 1}
  BY SamplerAssumption, RaplAssumption
<1>2. timer = TimerAt(MaxSet, 1) /\ IsTimer(timer)
  BY <1>1, TimerAtIsTimer DEF Init, IsTimer
<1>3. Zero \in [Meter -> 0 .. CounterSpan - 1] /\ Zero \in [Meter -> Nat] /\ Zero \in [Meter -> Int]
  BY <1>1 DEF Zero
<1>4. [m \in Meter |-> NoWatts] \in [Meter -> [joules : Int, over : Nat \ {0}]]
  BY DEF NoWatts
<1>5. RaplTypeOK
  BY <1>3, <1>4 DEF Init, RaplInit, RaplTypeOK
<1>6. energy \in [Meter -> Nat]
  BY <1>1 DEF Init
<1>7. Clocks
  <2>1. MaxSet + MaxDelay \in Nat /\ 0 \in 0 .. MaxSets /\ 0 \in 0 .. MaxRefusals
    BY <1>1
  <2>2. /\ time = MaxSet /\ wall = MaxSet /\ pace = MaxSet /\ due = time + MaxDelay /\ readAt = time
        /\ pc = "init" /\ samples = 0 /\ sets = 0 /\ setback = FALSE /\ refusals = 0
    BY DEF Init
  <2>3. setback \in BOOLEAN
    BY <2>2
  <2>4. {time, wall, pace, due, samples} \subseteq Nat /\ readAt \in Nat
    BY <1>1, <2>1, <2>2
  <2>. QED
    BY <2>1, <2>2, <2>3, <2>4 DEF Clocks
<1>. QED
  BY <1>2, <1>5, <1>6, <1>7 DEF Init, TypeInv, TypeOK, IsTimer, Clocks

LEMMA Types == Spec => []TypeInv
<1>1. Init => TypeInv
  BY TypeInit
<1>2. TypeInv /\ [Next]_vars => TypeInv'
  BY TypeStep
<1>. QED
  BY <1>1, <1>2, PTL DEF Spec

\* The timer is never left between two firings, and the window and the clocks
\* keep to their types (timer_sleep, read_rapl_data, delta_rapl_data).
THEOREM SamplerTypeCorrect == Spec => []TypeOK
BY Types, PTL DEF TypeInv

-----------------------------------------------------------------------------
(***************************************************************************)
(* The pace.  The firing before the next one lies behind the clock, and    *)
(* there have been no more samples than firings before it.  A thread that  *)
(* sleeps has the time until its firing ahead of it.  The step is not near *)
(* the turn of step * interval, as long as the clock is not.               *)
(***************************************************************************)
InFirstTurn == pace - timer.startms < UintSpan - Interval

PaceInv ==
  /\ wall <= pace
  /\ pc = "init" => samples = 0 /\ timer.startms <= pace
  /\ InFirstTurn /\ pc # "init" =>
       /\ timer.step >= 1 /\ (timer.step - 1) * Interval <= pace - timer.startms
       /\ samples + 1 <= timer.step
       /\ pc \in {"loop", "stamp"} => samples + 1 <= timer.step - 1
       /\ pc = "asleep" => pace + (due - MaxDelay - time) >= timer.nextms

\* The constants and the variables the steps reckon with.
LEMMA Numbers ==
  ASSUME TypeInv
  PROVE  /\ Interval \in Nat \ {0} /\ UintSpan \in Nat /\ Interval < UintSpan /\ MaxDelay \in Nat /\ MaxSet \in Nat
         /\ time \in Nat /\ wall \in Nat /\ pace \in Nat /\ due \in Nat /\ samples \in Nat
         /\ timer \in Timer /\ timer.startms \in Nat /\ timer.step \in 0 .. UintSpan - 1
         /\ timer.nextms \in Nat /\ timer.nextms = Firing(timer.startms, timer.step)
BY TimerAssumption, SamplerAssumption DEF TypeInv, TypeOK, Timer

\* Until the first turn is over, a step fires where it says.
LEMMA FirstTurn ==
  ASSUME NEW start \in Nat, NEW step \in Nat, step * Interval < UintSpan
  PROVE  /\ step < UintSpan /\ step % UintSpan = step
         /\ Firing(start, step) = start + step * Interval
<1>1. step * Interval \in 0 .. UintSpan - 1 /\ Interval \in Nat \ {0} /\ UintSpan \in Nat
  BY TimerAssumption, Products
<1>2. step <= step * Interval
  BY <1>1
<1>3. step \in 0 .. UintSpan - 1
  BY <1>1, <1>2
<1>. QED
  BY <1>1, <1>3, SmallRemainders DEF Firing

\* The least step ahead of a late timer, counted without turning.
LEMMA CatchUpInFirstTurn ==
  ASSUME NEW t \in Timer, NEW now \in Nat, Late(t, now), ~Spins(t, now),
         t.nextms = Firing(t.startms, t.step), t.step >= 1,
         t.startms <= now, now - t.startms < UintSpan - Interval,
         (t.step - 1) * Interval < UintSpan - Interval
  PROVE  /\ CatchUp(t, now).startms = t.startms
         /\ CatchUp(t, now).step \in Nat /\ CatchUp(t, now).step > t.step
         /\ (CatchUp(t, now).step - 1) * Interval <= now - t.startms
<1>. DEFINE n == now - t.startms
            Behind(k) == (t.step + k) * Interval
<1>1. /\ t.startms \in Nat /\ t.step \in Nat /\ n \in Nat /\ Interval \in Nat \ {0} /\ UintSpan \in Nat
  BY TimerAssumption DEF Timer
<1>2. t.step * Interval <= n
  <2>1. t.step * Interval < UintSpan
    <3>1. t.step * Interval = (t.step - 1) * Interval + Interval
      BY <1>1
    <3>. QED
      BY <1>1, <3>1
  <2>2. t.nextms = t.startms + t.step * Interval
    BY <1>1, <2>1, FirstTurn
  <2>. QED
    BY <1>1, <2>2 DEF Late
<1>3. PICK j \in Nat : Behind(j) > n /\ \A k \in Nat : Behind(k) > n => j <= k
  <2>. DEFINE S == {k \in Nat : Behind(k) > n}
  <2>1. n + 1 \in S
    <3>1. (t.step + (n + 1)) * Interval >= n + 1
      BY <1>1
    <3>. QED
      BY <1>1, <3>1
  <2>2. \E j \in S : \A k \in S : j <= k
    BY <2>1, LeastNumber
  <2>. QED
    BY <2>2
<1>4. j >= 1 /\ (t.step + j - 1) * Interval <= n
  <2>1. j # 0
    BY <1>1, <1>2, <1>3
  <2>2. j - 1 \in Nat /\ ~(Behind(j - 1) > n)
    BY <1>3, <2>1
  <2>. QED
    BY <1>1, <2>1, <2>2
<1>5. Behind(j) < UintSpan
  <2>1. t.step + j - 1 \in Nat /\ (t.step + j - 1) + 1 = t.step + j
    BY <1>1, <1>3, <1>4
  <2>2. ((t.step + j - 1) + 1) * Interval = (t.step + j - 1) * Interval + 1 * Interval
    BY <1>1, <2>1, Products
  <2>3. Behind(j) = (t.step + j - 1) * Interval + Interval
    BY <1>1, <2>1, <2>2
  <2>4. (t.step + j - 1) * Interval \in Nat
    BY <1>1, <2>1, Products
  <2>. QED
    BY <1>1, <1>4, <2>3, <2>4
<1>6. /\ t.step + j < UintSpan /\ (t.step + j) % UintSpan = t.step + j
      /\ Firing(t.startms, t.step + j) = t.startms + Behind(j)
  <2>1. t.step + j \in Nat /\ (t.step + j) * Interval < UintSpan
    BY <1>1, <1>3, <1>5
  <2>2. /\ t.step + j < UintSpan /\ (t.step + j) % UintSpan = t.step + j
        /\ Firing(t.startms, t.step + j) = t.startms + (t.step + j) * Interval
    BY ONLY <1>1, <2>1, FirstTurn
  <2>. QED
    BY <2>2
<1>7. j \in Ahead(t, now)
  BY <1>1, <1>3, <1>4, <1>6 DEF Ahead
<1>8. ASSUME NEW k \in Ahead(t, now), k < j
      PROVE  FALSE
  <2>1. k \in Nat /\ Firing(t.startms, (t.step + k) % UintSpan) > now
    BY <1>1, <1>8 DEF Ahead
  <2>2. ~(Behind(k) > n)
    BY <1>3, <1>8, <2>1
  <2>3. Behind(k) <= n
    BY <1>1, <2>1, <2>2
  <2>4. Firing(t.startms, (t.step + k) % UintSpan) = t.startms + Behind(k)
    <3>1. t.step + k \in Nat /\ (t.step + k) * Interval < UintSpan
      BY <1>1, <2>1, <2>3
    <3>2. (t.step + k) % UintSpan = t.step + k /\ Firing(t.startms, t.step + k) = t.startms + (t.step + k) * Interval
      BY ONLY <1>1, <3>1, FirstTurn
    <3>. QED
      BY <3>2
  <2>. QED
    BY <1>1, <2>1, <2>3, <2>4
<1>9. PICK k \in Ahead(t, now) :
        (\A l \in Ahead(t, now) : k <= l) /\ CatchUp(t, now) = TimerAt(t.startms, t.step + k)
  BY CatchUpIsLeast
<1>10. k = j
  BY <1>1, <1>3, <1>7, <1>8, <1>9 DEF Ahead
<1>11. CatchUp(t, now).startms = t.startms /\ CatchUp(t, now).step = t.step + j
  <2>1. t.step + j \in Nat
    BY <1>1, <1>3
  <2>2. CatchUp(t, now) = TimerAt(t.startms, t.step + j)
    BY <1>9, <1>10
  <2>3. /\ TimerAt(t.startms, t.step + j).startms = t.startms
        /\ TimerAt(t.startms, t.step + j).step = (t.step + j) % UintSpan
    BY <1>1, <2>1, TimerAtIsTimer
  <2>. QED
    BY <1>6, <2>2, <2>3
<1>. QED
  BY <1>1, <1>3, <1>4, <1>11

\* Steps that leave the timer alone, and take the clock forward at most.
LEMMA PaceOfOtherStep ==
  ASSUME TypeInv, PaceInv, UNCHANGED <<timer, samples>>, pace' \in Nat, wall' <= pace', pace' >= pace,
         \/ pc' = pc /\ (pc = "asleep" => due' = due /\ time' \in Nat /\ pace' - pace >= time' - time)
         \/ pc' \notin {"init", "asleep", "loop", "stamp"} /\ pc # "init"
         \/ pc \in {"loop", "stamp"} /\ pc' \in {"loop", "stamp", "ended"}
  PROVE  PaceInv'
<1>1. InFirstTurn' => InFirstTurn
  BY Numbers DEF InFirstTurn
<1>2. pace - timer.startms <= pace' - timer.startms
  BY Numbers
<1>3. (timer.step - 1) * Interval \in Int
  BY Numbers
<1>4. CASE pc' = pc /\ (pc = "asleep" => due' = due /\ time' \in Nat /\ pace' - pace >= time' - time)
  <2>1. pc = "asleep" => pace' + (due' - MaxDelay - time') >= pace + (due - MaxDelay - time)
    BY <1>4, Numbers
  <2>. QED
    BY <1>1, <1>2, <1>3, <1>4, <2>1, Numbers DEF PaceInv
<1>5. CASE pc' \notin {"init", "asleep", "loop", "stamp"} /\ pc # "init"
  BY <1>1, <1>2, <1>3, <1>5, Numbers DEF PaceInv
<1>6. CASE pc \in {"loop", "stamp"} /\ pc' \in {"loop", "stamp", "ended"}
  BY <1>1, <1>2, <1>3, <1>6, Numbers DEF PaceInv
<1>. QED
  BY <1>4, <1>5, <1>6

LEMMA PaceStep == ASSUME TypeInv, TypeInv', PaceInv, [Next]_vars PROVE PaceInv'
<1>0. pace' \in Nat /\ wall <= pace /\ timer'.step \in Nat /\ samples' \in Nat
  BY TimerAssumption DEF TypeInv, TypeOK, PaceInv, Timer
<1>1. CASE Tick
  <2>1. /\ UNCHANGED <<timer, samples, pc, due>>
        /\ pace' = pace + 1 /\ wall' = wall + 1 /\ time' = time + 1
    BY <1>1 DEF Tick, meterVars
  <2>2. wall' <= pace' /\ pace' >= pace /\ time' \in Nat /\ pace' - pace >= time' - time
    BY <1>0, <2>1, Numbers
  <2>. QED
    BY <1>0, <2>1, <2>2, PaceOfOtherStep
<1>2. CASE SetClock
  <2>1. PICK d \in {-MaxSet, MaxSet} : wall' = wall + d /\ pace' = pace + IF d > 0 THEN d ELSE 0
    BY <1>2 DEF SetClock
  <2>2. UNCHANGED <<timer, samples, pc, due, time>>
    BY <1>2 DEF SetClock
  <2>3. wall' <= pace' /\ pace' >= pace
    <3>1. d \in Int
      BY <2>1, Numbers
    <3>2. CASE d > 0
      BY <1>0, <2>1, <3>1, <3>2, Numbers
    <3>3. CASE ~(d > 0)
      BY <1>0, <2>1, <3>1, <3>3, Numbers
    <3>. QED
      BY <3>2, <3>3
  <2>4. time' \in Nat /\ pace' - pace >= time' - time
    BY <1>0, <2>2, <2>3, Numbers
  <2>. QED
    BY <1>0, <2>2, <2>3, <2>4, PaceOfOtherStep
<1>3. CASE StartTimer
  <2>1. /\ pc = "init" /\ pc' = "timer" /\ UNCHANGED <<wall, pace, samples>>
        /\ timer' = TimerAt(wall, 1)
    BY <1>3 DEF StartTimer, Goto, init_msTimer, clockVars
  <2>2. timer'.startms = wall /\ timer'.step = 1 % UintSpan
    BY <2>1, Numbers, TimerAtIsTimer
  <2>3. InFirstTurn' => 1 % UintSpan = 1
    <3>1. InFirstTurn' => UintSpan > 1
      BY <1>0, <2>1, <2>2, Numbers DEF InFirstTurn
    <3>. QED
      BY <3>1, Numbers, SmallRemainders
  <2>4. samples = 0
    BY <2>1 DEF PaceInv
  <2>5. InFirstTurn' => /\ timer'.step >= 1 /\ samples' + 1 <= timer'.step
                        /\ (timer'.step - 1) * Interval <= pace' - timer'.startms
    <3>1. (1 - 1) * Interval = 0
      BY Numbers
    <3>. QED
      BY <1>0, <2>1, <2>2, <2>3, <2>4, <3>1, Numbers
  <2>. QED
    BY <1>0, <2>1, <2>5 DEF PaceInv
<1>4. CASE TimerIsLate
  <2>1. /\ pc = "timer" /\ pc' = "loop" /\ UNCHANGED <<wall, pace, samples>>
        /\ Late(timer, wall) /\ ~Spins(timer, wall) /\ timer' = CatchUp(timer, wall)
    BY <1>4 DEF TimerIsLate, Goto, clockVars
  <2>2. PICK k \in Ahead(timer, wall) : timer' = TimerAt(timer.startms, timer.step + k)
    BY <2>1, Numbers, CatchUpIsLeast
  <2>3. timer'.startms = timer.startms
    <3>1. timer.step + k \in Nat
      BY Numbers DEF Ahead
    <3>2. TimerAt(timer.startms, timer.step + k).startms = timer.startms
      BY <3>1, Numbers, TimerAtIsTimer
    <3>. QED
      BY <2>2, <3>2
  <2>4. InFirstTurn' => InFirstTurn
    BY <2>1, <2>3 DEF InFirstTurn
  <2>5. ASSUME InFirstTurn
        PROVE  /\ timer'.step \in Nat /\ timer'.step > timer.step
               /\ (timer'.step - 1) * Interval <= wall - timer.startms
    <3>1. /\ timer.step >= 1 /\ (timer.step - 1) * Interval <= pace - timer.startms
          /\ pace - timer.startms < UintSpan - Interval
      BY <2>1, <2>5 DEF PaceInv, InFirstTurn
    <3>2. timer.startms <= wall
      BY <2>1, Numbers DEF Late, Firing
    <3>3. wall - timer.startms < UintSpan - Interval /\ (timer.step - 1) * Interval < UintSpan - Interval
      BY <1>0, <3>1, Numbers
    <3>. QED
      BY <2>1, <3>1, <3>2, <3>3, Numbers, CatchUpInFirstTurn
  <2>6. InFirstTurn => samples + 1 <= timer.step
    BY <2>1 DEF PaceInv
  <2>7. InFirstTurn' => /\ timer'.step >= 1 /\ (timer'.step - 1) * Interval <= pace' - timer'.startms
                        /\ samples' + 1 <= timer'.step - 1
    BY <1>0, <2>1, <2>3, <2>4, <2>5, <2>6, Numbers
  <2>. QED
    BY <1>0, <2>1, <2>7, Numbers DEF PaceInv
<1>5. CASE FallAsleep
  <2>1. /\ pc = "timer" /\ pc' = "asleep" /\ UNCHANGED <<time, wall, pace, timer, samples>>
        /\ due' = time + (timer.nextms - wall) + MaxDelay
    BY <1>5 DEF FallAsleep, sleep_ms, clockVars
  <2>2. pace' + (due' - MaxDelay - time') >= timer'.nextms
    BY <1>0, <2>1, Numbers
  <2>3. InFirstTurn' => InFirstTurn
    BY <2>1 DEF InFirstTurn
  <2>4. InFirstTurn' => /\ timer'.step >= 1 /\ samples' + 1 <= timer'.step
                        /\ (timer'.step - 1) * Interval <= pace' - timer'.startms
    BY <2>1, <2>3 DEF PaceInv
  <2>. QED
    BY <1>0, <2>1, <2>2, <2>4 DEF PaceInv
<1>6. CASE WakeUp
  <2>1. /\ pc = "asleep" /\ pc' = "loop" /\ UNCHANGED <<wall, pace, samples>> /\ time >= due - MaxDelay
        /\ timer' = TimerAt(timer.startms, timer.step + 1)
    BY <1>6 DEF WakeUp, NextStep, clockVars
  <2>2. timer'.startms = timer.startms /\ timer'.step = (timer.step + 1) % UintSpan
    <3>1. timer.step + 1 \in Nat
      BY Numbers
    <3>2. /\ TimerAt(timer.startms, timer.step + 1).startms = timer.startms
          /\ TimerAt(timer.startms, timer.step + 1).step = (timer.step + 1) % UintSpan
      BY <3>1, Numbers, TimerAtIsTimer
    <3>. QED
      BY <2>1, <3>2
  <2>3. InFirstTurn' => InFirstTurn
    BY <2>1, <2>2 DEF InFirstTurn
  <2>4. ASSUME InFirstTurn
        PROVE  /\ timer'.step = timer.step + 1 /\ timer.step >= 1 /\ samples + 1 <= timer.step
               /\ timer.step * Interval <= pace - timer.startms
    <3>1. /\ timer.step >= 1 /\ (timer.step - 1) * Interval <= pace - timer.startms
          /\ samples + 1 <= timer.step /\ pace + (due - MaxDelay - time) >= timer.nextms
          /\ pace - timer.startms < UintSpan - Interval
      BY <2>1, <2>4 DEF PaceInv, InFirstTurn
    <3>2. timer.step * Interval = (timer.step - 1) * Interval + Interval
      BY <3>1, Numbers
    <3>3. timer.step * Interval < UintSpan /\ timer.step \in Nat
      BY <3>1, <3>2, Numbers
    <3>4. timer.nextms = timer.startms + timer.step * Interval
      BY <3>3, Numbers, FirstTurn
    <3>5. timer.step * Interval <= pace - timer.startms
      BY <2>1, <3>1, <3>3, <3>4, Numbers
    <3>6. (timer.step + 1) * Interval = timer.step * Interval + Interval
      BY Numbers
    <3>7. (timer.step + 1) * Interval < UintSpan
      BY <3>1, <3>5, <3>6, Numbers
    <3>8. (timer.step + 1) % UintSpan = timer.step + 1
      BY <3>3, <3>7, Numbers, FirstTurn
    <3>. QED
      BY <2>2, <3>1, <3>5, <3>8
  <2>5. InFirstTurn' => /\ timer'.step >= 1 /\ (timer'.step - 1) * Interval <= pace' - timer'.startms
                        /\ samples' + 1 <= timer'.step - 1
    BY <2>1, <2>2, <2>3, <2>4, Numbers
  <2>. QED
    BY <1>0, <2>1, <2>5, Numbers DEF PaceInv
<1>7. CASE Stamp
  <2>1. pc = "stamp" /\ pc' = "read" /\ UNCHANGED <<wall, pace, timer>> /\ samples' = samples + 1
    BY <1>7 DEF Stamp, clockVars
  <2>. QED
    BY <1>0, <2>1, Numbers DEF PaceInv, InFirstTurn
<1>8. CASE TimerSpins \/ Loop \/ Read \/ Delta
  <2>1. UNCHANGED <<timer, samples, pace, wall>>
    BY <1>8 DEF TimerSpins, Loop, Read, Delta, clockVars
  <2>2. \/ pc' \notin {"init", "asleep", "loop", "stamp"} /\ pc # "init"
        \/ pc \in {"loop", "stamp"} /\ pc' \in {"loop", "stamp", "ended"}
    BY <1>8 DEF TimerSpins, Loop, Read, Delta, Goto
  <2>3. pace' >= pace /\ wall' <= pace'
    BY <1>0, <2>1, Numbers
  <2>. QED
    BY <1>0, <2>1, <2>2, <2>3, PaceOfOtherStep
<1>9. CASE UNCHANGED vars
  BY <1>9 DEF vars, clockVars, PaceInv, InFirstTurn
<1>. QED
  BY <1>1, <1>2, <1>3, <1>4, <1>5, <1>6, <1>7, <1>8, <1>9 DEF Next

\* However late the thread is and however the clock is set, no more samples are
\* taken than intervals have passed, until step * interval turns (timer_sleep).
THEOREM PaceIsKept == Spec => []KeepsThePace
<1>1. Init => PaceInv
  <2> SUFFICES ASSUME Init PROVE PaceInv
    OBVIOUS
  <2>1. /\ pc = "init" /\ samples = 0 /\ wall = MaxSet /\ pace = MaxSet /\ time = MaxSet
        /\ timer = TimerAt(time, 1) /\ MaxSet \in Nat
    BY SamplerAssumption DEF Init
  <2>2. timer.startms = MaxSet
    BY <2>1, TimerAtIsTimer
  <2>. QED
    BY <2>1, <2>2 DEF PaceInv
<1>2. TypeInv /\ TypeInv' /\ PaceInv /\ [Next]_vars => PaceInv'
  BY PaceStep
<1>3. TypeInv /\ PaceInv => KeepsThePace
  <2> SUFFICES ASSUME TypeInv, PaceInv, InFirstTurn
               PROVE  samples * Interval <= pace - timer.startms
    BY DEF KeepsThePace, InFirstTurn
  <2>1. CASE pc = "init"
    BY <2>1, Numbers DEF PaceInv
  <2>2. CASE pc # "init"
    <3>1. /\ (timer.step - 1) * Interval <= pace - timer.startms /\ timer.step >= 1
          /\ samples + 1 <= timer.step
      BY <2>2 DEF PaceInv
    <3>2. samples <= timer.step - 1 /\ timer.step - 1 \in Nat
      BY <3>1, Numbers
    <3>3. samples * Interval <= (timer.step - 1) * Interval
      BY <3>2, Numbers, Products
    <3>. QED
      BY <3>1, <3>3, Numbers
  <2>. QED
    BY <2>1, <2>2
<1>. QED
  BY <1>1, <1>2, <1>3, Types, PTL DEF Spec

-----------------------------------------------------------------------------
(***************************************************************************)
(* The sums.  The window holds the low bits of what was seen; between the  *)
(* read and the difference, the sum lacks the difference that is due.  A   *)
(* process whose first read is behind it has its first difference behind   *)
(* it, too, or is about to take it.                                        *)
(***************************************************************************)
HasRead == "read_rapl_data" \in init
HasDelta == "delta_rapl_data" \in init

\* Meters whose unit is that of the package: the differences are converted with it.
OneUnit(m) == m[2] = "pkg" \/ arch = "own"

DueDelta(m) == rapl.bits[m] - rapl.old_bits[m] + (IF Wrapped(m) THEN CounterSpan ELSE 0)

MeterInv(m) ==
  /\ rapl.bits[m] = seen[m] % CounterSpan
  /\ rapl.joules[m] = rapl.bits[m] * BITS_TO_JOULES_DRAM(m)
  /\ pc \in {"read", "delta"} /\ HasDelta => rapl.old_joules[m] = rapl.old_bits[m] * BITS_TO_JOULES_DRAM(m)
  /\ pc = "read" /\ HasDelta => rapl.old_bits[m] = rapl.bits[m]
  /\ ~HasDelta => base[m] = seen[m] /\ total[m] = 0 /\ wraps[m] = 0 /\ missed[m] = 0
  /\ OneUnit(m) /\ pc # "delta" =>
       total[m] = (seen[m] - base[m] - wraps[m] - CounterSpan * missed[m]) * PkgUnit
  /\ OneUnit(m) /\ pc = "delta" /\ HasDelta =>
       total[m] = (seen[m] - base[m] - wraps[m] - CounterSpan * missed[m] - DueDelta(m)) * PkgUnit

SumInv ==
  /\ HasRead /\ pc # "delta" => HasDelta
  /\ pc = "delta" => HasRead
  /\ HasDelta => HasRead
  /\ \A m \in Meter : MeterInv(m)

LEMMA MeterNumbers ==
  ASSUME TypeInv, NEW m \in Meter
  PROVE  /\ CounterSpan \in Nat \ {0} /\ PkgUnit \in Nat \ {0} /\ BITS_TO_JOULES_DRAM(m) \in Nat
         /\ seen[m] \in Int /\ base[m] \in Int /\ wraps[m] \in Int /\ missed[m] \in Int /\ total[m] \in Int
         /\ rapl.bits[m] \in 0 .. CounterSpan - 1 /\ rapl.old_bits[m] \in 0 .. CounterSpan - 1
         /\ rapl.joules[m] \in Nat /\ rapl.old_joules[m] \in Nat
         /\ OneUnit(m) => BITS_TO_JOULES_DRAM(m) = PkgUnit /\ BITS_TO_JOULES(m) = PkgUnit
<1>1. RaplTypeOK
  BY DEF TypeInv, TypeOK
<1>2. CounterSpan \in Nat \ {0} /\ PkgUnit \in Nat \ {0}
  BY RaplAssumption
<1>3. m[2] \in {"pkg", "dram"}
  BY DEF Meter
<1>4. OneUnit(m) => BITS_TO_JOULES_DRAM(m) = PkgUnit /\ BITS_TO_JOULES(m) = PkgUnit
  BY <1>3 DEF OneUnit, BITS_TO_JOULES_DRAM, BITS_TO_JOULES
<1>5. BITS_TO_JOULES_DRAM(m) \in Nat
  BY <1>1, Units
<1>6. /\ rapl.bits[m] \in 0 .. CounterSpan - 1 /\ rapl.old_bits[m] \in 0 .. CounterSpan - 1
      /\ rapl.joules[m] \in Nat /\ rapl.old_joules[m] \in Nat
  BY <1>1 DEF RaplTypeOK
<1>7. seen[m] \in Int /\ base[m] \in Int /\ wraps[m] \in Int /\ missed[m] \in Int /\ total[m] \in Int
  BY <1>1 DEF RaplTypeOK
<1>. QED
  BY <1>2, <1>4, <1>5, <1>6, <1>7

\* Before a read the window of the last call becomes the old one.
LEMMA SumStamp == ASSUME TypeInv, SumInv, Stamp PROVE SumInv'
<1>1. /\ UNCHANGED <<init, base, seen, total, wraps, missed, arch>> /\ pc = "stamp" /\ pc' = "read"
      /\ rapl' = IF "read_rapl_data" \in init
                 THEN [rapl EXCEPT !.old_now = rapl.now, !.now = wall, !.elapsed = wall - rapl.now,
                                   !.old_bits = rapl.bits, !.old_joules = rapl.joules]
                 ELSE [rapl EXCEPT !.now = wall]
  BY DEF Stamp, stamp_rapl_data
<1>2. rapl \in Rapl
  BY DEF TypeInv, TypeOK, RaplTypeOK, Rapl
<1>3. /\ rapl'.bits = rapl.bits /\ rapl'.joules = rapl.joules
      /\ HasRead => rapl'.old_bits = rapl.bits /\ rapl'.old_joules = rapl.joules
  <2>1. CASE HasRead
    BY <1>1, <1>2, <2>1 DEF Rapl, HasRead
  <2>2. CASE ~HasRead
    BY <1>1, <1>2, <2>2 DEF Rapl, HasRead
  <2>. QED
    BY <2>1, <2>2
<1>4. ASSUME NEW m \in Meter PROVE MeterInv(m)'
  <2>1. MeterInv(m) /\ (HasDelta => HasRead)
    BY DEF SumInv
  <2>2. (HasDelta' <=> HasDelta) /\ (OneUnit(m)' <=> OneUnit(m))
        /\ BITS_TO_JOULES_DRAM(m)' = BITS_TO_JOULES_DRAM(m)
    BY <1>1 DEF HasDelta, OneUnit, BITS_TO_JOULES_DRAM
  <2>. QED
    BY <1>1, <1>3, <2>1, <2>2 DEF MeterInv
<1>5. (HasRead' <=> HasRead) /\ (HasDelta' <=> HasDelta)
  BY <1>1 DEF HasRead, HasDelta
<1>. QED
  BY <1>1, <1>4, <1>5 DEF SumInv

\* A read moves what is seen on, by whole turns and by what the window shows.
LEMMA SumRead == ASSUME TypeInv, SumInv, Read PROVE SumInv'
<1>1. PICK refused \in {{}} \union {{m} : m \in Meter} : read_registers(refused)
  BY DEF Read
<1>2. /\ UNCHANGED <<total, wraps, arch>> /\ pc = "read" /\ pc' = "delta"
      /\ init' = init \union {"read_rapl_data"}
  BY <1>1 DEF Read, Goto, read_registers
<1>3. rapl \in Rapl /\ energy' = [m \in Meter |-> energy'[m]]
  BY DEF TypeInv, TypeOK, RaplTypeOK, Rapl, Read
<1>4. ASSUME NEW m \in Meter
      PROVE  /\ rapl'.bits[m] = IF m \in refused THEN rapl.bits[m] ELSE (energy'[m] % CounterSpan)
             /\ rapl'.joules[m] = rapl'.bits[m] * BITS_TO_JOULES_DRAM(m)
             /\ rapl'.old_bits = rapl.old_bits /\ rapl'.old_joules = rapl.old_joules
             /\ seen'[m] = (IF m \in refused THEN seen[m] ELSE energy'[m])
             /\ base'[m] = (IF HasRead THEN base[m] ELSE seen'[m])
             /\ missed'[m] = (IF HasRead THEN missed[m] + (seen'[m] - seen[m]) \div CounterSpan ELSE 0)
  <2>. DEFINE bits == [n \in Meter |-> IF n \in refused THEN rapl.bits[n] ELSE (energy'[n] % CounterSpan)]
              joules == [n \in Meter |-> bits[n] * BITS_TO_JOULES_DRAM(n)]
  <2>1. rapl' = [rapl EXCEPT !.bits = bits, !.joules = joules]
    BY <1>1 DEF read_registers
  <2>2. bits[m] = IF m \in refused THEN rapl.bits[m] ELSE (energy'[m] % CounterSpan)
    OBVIOUS
  <2>3. joules[m] = bits[m] * BITS_TO_JOULES_DRAM(m)
    OBVIOUS
  <2>4. /\ rapl'.bits = bits /\ rapl'.joules = joules
        /\ rapl'.old_bits = rapl.old_bits /\ rapl'.old_joules = rapl.old_joules
    <3>. HIDE DEF bits, joules
    <3>. QED
      BY <1>3, <2>1 DEF Rapl
  <2>5. /\ seen'[m] = (IF m \in refused THEN seen[m] ELSE energy'[m])
        /\ base' = IF HasRead THEN base ELSE seen'
        /\ missed'[m] = (IF HasRead THEN missed[m] + (seen'[m] - seen[m]) \div CounterSpan ELSE 0)
    BY <1>1 DEF read_registers, HasRead
  <2>6. base'[m] = (IF HasRead THEN base[m] ELSE seen'[m])
    BY <2>5
  <2>. HIDE DEF bits, joules
  <2>. QED
    BY <2>2, <2>3, <2>4, <2>5, <2>6
<1>5. HasRead' /\ (HasDelta' <=> HasDelta) /\ (HasDelta <=> HasRead)
  BY <1>2 DEF HasRead, HasDelta, SumInv
<1>6. ASSUME NEW m \in Meter PROVE MeterInv(m)'
  <2>. DEFINE n == CounterSpan  u == BITS_TO_JOULES_DRAM(m)
              q == (seen'[m] - seen[m]) \div n
  <2>1. MeterInv(m)
    BY DEF SumInv
  <2>2. rapl'.bits[m] = seen'[m] % n
    BY <1>4, <2>1 DEF MeterInv
  <2>3. (OneUnit(m)' <=> OneUnit(m)) /\ BITS_TO_JOULES_DRAM(m)' = u
    BY <1>2 DEF OneUnit, BITS_TO_JOULES_DRAM
  <2>4. seen'[m] \in Int /\ q \in Int
    <3>1. seen'[m] \in Int
      <4>1. seen[m] \in Int
        BY MeterNumbers
      <4>2. energy'[m] \in Int
        BY ReadStep DEF TypeInv, Window
      <4>. QED
        BY <1>4, <4>1, <4>2
    <3>2. seen'[m] - seen[m] \in Int /\ n \in Nat \ {0}
      BY <3>1, MeterNumbers
    <3>3. q \in Int
      BY <3>2, Remainders
    <3>. QED
      BY <3>1, <3>3
  <2>5. CASE ~HasRead
    <3>1. seen'[m] = base'[m] /\ total[m] = 0 /\ wraps[m] = 0 /\ missed'[m] = 0
      BY <1>4, <1>5, <2>1, <2>5 DEF MeterInv
    <3>. QED
      BY <1>2, <1>4, <1>5, <2>2, <2>3, <2>5, <3>1 DEF MeterInv
  <2>6. CASE HasRead
    <3>1. rapl.old_bits[m] = seen[m] % n /\ rapl.old_joules[m] = rapl.old_bits[m] * u
      BY <1>2, <1>5, <2>1, <2>6 DEF MeterInv
    <3>2. seen'[m] - seen[m] = n * q + DueDelta(m)'
      <4>1. seen'[m] - seen[m] = n * q + ((seen'[m] % n) - (seen[m] % n))
                                 + (IF (seen'[m] % n) < (seen[m] % n) THEN n ELSE 0)
        BY <2>4, MeterNumbers, Turns
      <4>2. rapl'.old_bits[m] = seen[m] % n
        BY <1>4, <3>1
      <4>3. DueDelta(m)' = (seen'[m] % n) - (seen[m] % n)
                           + (IF (seen'[m] % n) < (seen[m] % n) THEN n ELSE 0)
        BY <2>2, <4>2 DEF DueDelta, Wrapped
      <4>4. (seen'[m] % n) \in Int /\ (seen[m] % n) \in Int /\ n * q \in Int
        BY <2>4, MeterNumbers, Remainders
      <4>. HIDE DEF q
      <4>. QED
        BY <2>4, <4>1, <4>3, <4>4, MeterNumbers
    <3>3. missed'[m] = missed[m] + q /\ base'[m] = base[m]
      BY <1>4, <2>6
    <3>4. DueDelta(m)' \in Int
      <4>1. rapl'.bits[m] \in Int /\ rapl'.old_bits[m] \in Int /\ n \in Int
        BY <1>4, <2>2, <2>4, MeterNumbers, Remainders
      <4>. QED
        BY <4>1 DEF DueDelta
    <3>5. seen'[m] - base'[m] - wraps[m] - n * missed'[m] - DueDelta(m)'
            = seen[m] - base[m] - wraps[m] - n * missed[m]
      <4>. HIDE DEF q
      <4>1. n * (missed[m] + q) = n * missed[m] + n * q
        BY <2>4, MeterNumbers
      <4>2. n * missed[m] \in Int /\ n * q \in Int /\ n * missed'[m] = n * missed[m] + n * q
        BY <2>4, <3>3, <4>1, MeterNumbers
      <4>3. seen[m] \in Int /\ base[m] \in Int /\ wraps[m] \in Int
        BY MeterNumbers
      <4>. HIDE DEF n
      <4>. QED
        BY <2>4, <3>2, <3>3, <3>4, <4>2, <4>3
    <3>6. OneUnit(m) => total[m] = (seen[m] - base[m] - wraps[m] - n * missed[m]) * PkgUnit
      BY <1>2, <2>1 DEF MeterInv
    <3>7. OneUnit(m) => total'[m] = (seen'[m] - base'[m] - wraps'[m] - n * missed'[m] - DueDelta(m)') * PkgUnit
      BY <1>2, <3>5, <3>6
    <3>. HIDE DEF q, n, u
    <3>. QED
      BY <1>2, <1>4, <1>5, <2>2, <2>3, <2>6, <3>1, <3>7 DEF MeterInv, n, u
  <2>. QED
    BY <2>5, <2>6
<1>. QED
  BY <1>2, <1>5, <1>6 DEF SumInv

\* What a difference reports, where the meter has one unit.
LEMMA ReportedDelta ==
  ASSUME TypeInv, SumInv, NEW m \in Meter, OneUnit(m), pc = "delta", HasDelta
  PROVE  delta_joules(m) = (DueDelta(m) - (IF Wrapped(m) THEN 1 ELSE 0)) * PkgUnit
<1>1. /\ rapl.joules[m] = rapl.bits[m] * PkgUnit /\ rapl.old_joules[m] = rapl.old_bits[m] * PkgUnit
      /\ BITS_TO_JOULES(m) = PkgUnit
  BY MeterNumbers DEF SumInv, MeterInv
<1>2. /\ rapl.bits[m] \in Int /\ rapl.old_bits[m] \in Int /\ PkgUnit \in Int /\ CounterSpan \in Int
  BY MeterNumbers
<1>3. CASE Wrapped(m)
  BY <1>1, <1>2, <1>3 DEF delta_joules, DueDelta
<1>4. CASE ~Wrapped(m)
  <2>1. rapl.bits[m] * PkgUnit - rapl.old_bits[m] * PkgUnit = (rapl.bits[m] - rapl.old_bits[m]) * PkgUnit
    BY <1>2
  <2>. QED
    BY <1>1, <1>2, <1>4, <2>1 DEF delta_joules, DueDelta
<1>. QED
  BY <1>3, <1>4

LEMMA SumDelta == ASSUME TypeInv, SumInv, Delta PROVE SumInv'
<1>1. pc = "delta" /\ pc' = "timer" /\ UNCHANGED <<arch, energy>>
  BY DEF Delta
<1>2. UNCHANGED <<base, seen, missed>> /\ rapl \in Rapl /\ HasDelta'
  BY DEF Delta, delta_rapl_data, delta_first, delta_next, HasDelta, TypeInv, TypeOK, RaplTypeOK, Rapl
<1>3. rapl'.bits = rapl.bits /\ rapl'.joules = rapl.joules
  BY <1>2 DEF Delta, delta_rapl_data, delta_first, delta_next, Rapl
<1>4. HasRead'
  <2>1. init \subseteq init'
    BY DEF Delta, delta_rapl_data, delta_first, delta_next
  <2>2. HasRead
    BY <1>1 DEF SumInv
  <2>. QED
    BY <2>1, <2>2 DEF HasRead
<1>5. ASSUME NEW m \in Meter PROVE MeterInv(m)'
  <2>1. MeterInv(m)
    BY DEF SumInv
  <2>2. (OneUnit(m)' <=> OneUnit(m)) /\ BITS_TO_JOULES_DRAM(m)' = BITS_TO_JOULES_DRAM(m)
    BY <1>1 DEF OneUnit, BITS_TO_JOULES_DRAM
  <2>3. OneUnit(m) => total'[m] = (seen[m] - base[m] - wraps'[m] - CounterSpan * missed[m]) * PkgUnit
    <3>1. CASE delta_first
      <4>1. /\ UNCHANGED <<total, wraps>>
            /\ seen[m] = base[m] /\ total[m] = 0 /\ wraps[m] = 0 /\ missed[m] = 0
        BY <2>1, <3>1 DEF MeterInv, delta_first, HasDelta
      <4>2. CounterSpan * 0 = 0 /\ seen[m] - base[m] - 0 - 0 = 0 /\ 0 * PkgUnit = 0
        BY <4>1, MeterNumbers
      <4>. QED
        BY <4>1, <4>2
    <3>2. CASE delta_next /\ OneUnit(m)
      <4>. DEFINE w == IF Wrapped(m) THEN 1 ELSE 0
                  s == seen[m] - base[m] - wraps[m] - CounterSpan * missed[m]
      <4>1. HasDelta /\ total'[m] = total[m] + delta_joules(m) /\ wraps'[m] = wraps[m] + w
        BY <3>2 DEF delta_next, HasDelta
      <4>2. total[m] = (s - DueDelta(m)) * PkgUnit
        BY <1>1, <2>1, <3>2, <4>1 DEF MeterInv
      <4>3. delta_joules(m) = (DueDelta(m) - w) * PkgUnit
        BY <1>1, <3>2, <4>1, ReportedDelta
      <4>4. s \in Int /\ DueDelta(m) \in Int /\ w \in Int /\ PkgUnit \in Int
        BY MeterNumbers DEF DueDelta
      <4>5. s - w = seen[m] - base[m] - wraps'[m] - CounterSpan * missed[m]
        <5>1. CounterSpan * missed[m] \in Int
          BY MeterNumbers
        <5>. QED
          BY <4>1, <4>4, <5>1, MeterNumbers
      <4>. HIDE DEF w, s
      <4>6. (s - DueDelta(m)) * PkgUnit + (DueDelta(m) - w) * PkgUnit = (s - w) * PkgUnit
        BY <4>4
      <4>. QED
        BY <4>1, <4>2, <4>3, <4>5, <4>6
    <3>. QED
      BY <3>1, <3>2 DEF Delta, delta_rapl_data
  <2>. QED
    BY <1>1, <1>2, <1>3, <2>1, <2>2, <2>3 DEF MeterInv
<1>. QED
  BY <1>1, <1>2, <1>4, <1>5 DEF SumInv

\* The other steps leave the window alone.
LEMMA SumOther ==
  ASSUME SumInv, UNCHANGED <<arch, raplVars>>,
         pc' = pc \/ (pc \notin {"read", "delta"} /\ pc' \notin {"read", "delta"})
  PROVE  SumInv'
<1>1. (HasRead' <=> HasRead) /\ (HasDelta' <=> HasDelta)
  BY DEF raplVars, HasRead, HasDelta
<1>2. ASSUME NEW m \in Meter PROVE MeterInv(m)'
  <2>1. /\ MeterInv(m) /\ (OneUnit(m)' <=> OneUnit(m)) /\ BITS_TO_JOULES_DRAM(m)' = BITS_TO_JOULES_DRAM(m)
        /\ DueDelta(m)' = DueDelta(m)
    BY DEF SumInv, OneUnit, BITS_TO_JOULES_DRAM, DueDelta, Wrapped, raplVars
  <2>. QED
    BY <1>1, <2>1 DEF MeterInv, raplVars
<1>. QED
  BY <1>1, <1>2 DEF SumInv

\* Whatever reads are refused and however the clock is set, the windows add up to
\* what was used between the first and the last read, less a unit for each turn
\* that was seen, and less the turns nobody could see (delta_rapl_data).
THEOREM WindowsSum == Spec => []WindowsAddUp
<1>1. Init => SumInv
  <2> SUFFICES ASSUME Init PROVE SumInv
    OBVIOUS
  <2>1. pc = "init" /\ init = {} /\ ~HasRead /\ ~HasDelta
    BY DEF Init, RaplInit, HasRead, HasDelta
  <2>2. TypeInv
    BY TypeInit
  <2>3. ASSUME NEW m \in Meter PROVE MeterInv(m)
    <3>1. /\ rapl.bits[m] = 0 /\ rapl.joules[m] = 0
          /\ seen[m] = 0 /\ base[m] = 0 /\ total[m] = 0 /\ wraps[m] = 0 /\ missed[m] = 0
      BY DEF Init, RaplInit, Zero
    <3>2. 0 % CounterSpan = 0
      BY <2>2, MeterNumbers, SmallRemainders
    <3>3. 0 * BITS_TO_JOULES_DRAM(m) = 0
      BY <2>2, MeterNumbers
    <3>4. (0 - 0 - 0 - CounterSpan * 0) * PkgUnit = 0
      BY <2>2, MeterNumbers
    <3>. QED
      BY <2>1, <3>1, <3>2, <3>3, <3>4 DEF MeterInv
  <2>. QED
    BY <2>1, <2>3 DEF SumInv
<1>2. TypeInv /\ SumInv /\ [Next]_vars => SumInv'
  <2> SUFFICES ASSUME TypeInv, SumInv, [Next]_vars PROVE SumInv'
    OBVIOUS
  <2>1. CASE Stamp \/ Read \/ Delta
    BY <2>1, SumStamp, SumRead, SumDelta
  <2>2. CASE Tick \/ SetClock \/ StartTimer \/ TimerIsLate \/ TimerSpins \/ FallAsleep \/ WakeUp \/ Loop
             \/ UNCHANGED vars
    BY <2>2, SumOther DEF Tick, SetClock, StartTimer, TimerIsLate, TimerSpins, FallAsleep, WakeUp, Loop,
                          Goto, vars, meterVars
  <2>. QED
    BY <2>1, <2>2 DEF Next
<1>3. TypeInv /\ SumInv => WindowsAddUp
  <2> SUFFICES ASSUME TypeInv, SumInv, NEW m \in Meter, OneUnit(m), pc # "delta"
               PROVE  total[m] = (seen[m] - base[m] - wraps[m] - CounterSpan * missed[m]) * BITS_TO_JOULES_DRAM(m)
    BY DEF WindowsAddUp, AddsUp, OneUnit
  <2>. QED
    BY MeterNumbers DEF SumInv, MeterInv
<1>. QED
  BY <1>1, <1>2, <1>3, Types, PTL DEF Spec

-----------------------------------------------------------------------------
(***************************************************************************)
(* The gaps.  While the clock is not set back, the firing ahead of a timer *)
(* is at most an interval ahead of the clock, whatever turns, so that from *)
(* read to read pass at most the sleep and what the thread was kept        *)
(* waiting before it and after it.                                         *)
(***************************************************************************)
LEMMA RemainderIsOne ==
  ASSUME NEW n \in Nat \ {0}, NEW q \in Int, NEW r \in 0 .. n - 1
  PROVE  (n * q + r) % n = r
<1>. DEFINE a == n * q + r  p == a \div n  s == a % n
<1>1. a \in Int
  OBVIOUS
<1>2. p \in Int /\ s \in 0 .. n - 1 /\ n * q + r = n * p + s
  BY <1>1, Remainders
<1>. HIDE DEF p, s, a
<1>3. n * (q - p) = s - r
  BY <1>2
<1>4. s - r \in -(n - 1) .. n - 1
  BY <1>2
<1>5. q - p = 0
  BY <1>2, <1>3, <1>4
<1>. QED
  BY <1>2, <1>3, <1>5 DEF s, a

LEMMA RemainderOfNext ==
  ASSUME NEW n \in Nat \ {0}, NEW a \in Nat
  PROVE  ((a % n) + 1) % n = (a + 1) % n
<1>. DEFINE q == a \div n  r == a % n
<1>1. q \in Int /\ r \in 0 .. n - 1 /\ a = n * q + r
  BY Remainders
<1>. HIDE DEF q, r
<1>2. CASE r + 1 < n
  <2>1. r + 1 \in 0 .. n - 1
    BY <1>1, <1>2
  <2>2. (n * q + (r + 1)) % n = r + 1 /\ (r + 1) % n = r + 1
    BY <1>1, <2>1, RemainderIsOne, SmallRemainders
  <2>3. a + 1 = n * q + (r + 1)
    BY <1>1
  <2>. QED
    BY <2>2, <2>3 DEF r
<1>3. CASE ~(r + 1 < n)
  <2>1. r + 1 = n /\ 0 \in 0 .. n - 1
    BY <1>1, <1>3
  <2>2. (n * (q + 1) + 0) % n = 0 /\ (n * 1 + 0) % n = 0
    BY <1>1, <2>1, RemainderIsOne
  <2>3. a + 1 = n * (q + 1) + 0 /\ r + 1 = n * 1 + 0
    BY <1>1, <2>1
  <2>. QED
    BY <2>2, <2>3 DEF r
<1>. QED
  BY <1>2, <1>3

LEMMA RemainderOfSum ==
  ASSUME NEW n \in Nat \ {0}, NEW a \in Nat, NEW b \in Nat
  PROVE  (a + b) % n <= (a % n) + b
<1>. DEFINE q == a \div n  r == a % n  p == (a + b) \div n  s == (a + b) % n
<1>0. a \in Int /\ a + b \in Int
  OBVIOUS
<1>1. /\ q \in Int /\ r \in 0 .. n - 1 /\ a = n * q + r
      /\ p \in Int /\ s \in 0 .. n - 1 /\ a + b = n * p + s
  BY <1>0, Remainders
<1>. HIDE DEF q, r, p, s
<1>2. n * (p - q) = r + b - s
  BY <1>1
<1>3. p - q >= 0
  <2>1. r + b - s > -n
    BY <1>1
  <2>2. CASE p - q <= -1
    <3>1. n * (p - q) <= -n
      BY <1>1, <2>2
    <3>. QED
      BY <1>1, <1>2, <2>1, <3>1
  <2>. QED
    BY <1>1, <2>2
<1>4. n * (p - q) >= 0
  BY <1>1, <1>3
<1>. QED
  BY <1>1, <1>2, <1>4 DEF r, s

\* A step takes the firing an interval ahead at most: it may take it back, where
\* the 32 bits turn.
LEMMA FiringOfNext ==
  ASSUME NEW start \in Nat, NEW step \in 0 .. UintSpan - 1
  PROVE  Firing(start, (step + 1) % UintSpan) <= Firing(start, step) + Interval
<1>1. UintSpan \in Nat \ {0} /\ Interval \in Nat /\ step \in Nat
  BY TimerAssumption
<1>2. CASE step + 1 < UintSpan
  <2>1. (step + 1) % UintSpan = step + 1
    BY <1>1, <1>2, SmallRemainders
  <2>2. (step + 1) * Interval = step * Interval + Interval /\ step * Interval \in Nat
    BY <1>1, Products
  <2>3. (step * Interval + Interval) % UintSpan <= ((step * Interval) % UintSpan) + Interval
    BY <1>1, <2>2, RemainderOfSum
  <2>4. (step * Interval + Interval) % UintSpan \in Int /\ (step * Interval) % UintSpan \in Int
    BY <1>1, <2>2, Remainders
  <2>. QED
    BY <1>1, <2>1, <2>2, <2>3, <2>4 DEF Firing
<1>3. CASE step + 1 = UintSpan
  <2>1. (step + 1) % UintSpan = 0
    <3>1. (UintSpan * 1 + 0) % UintSpan = 0
      BY <1>1, RemainderIsOne
    <3>. QED
      BY <1>1, <1>3, <3>1
  <2>2. 0 * Interval = 0 /\ 0 % UintSpan = 0
    BY <1>1, SmallRemainders
  <2>3. (step * Interval) % UintSpan \in Nat
    BY <1>1, Products, Remainders
  <2>. QED
    BY <1>1, <2>1, <2>2, <2>3 DEF Firing
<1>. QED
  BY <1>1, <1>2, <1>3

\* A timer that has caught up fires within an interval.
LEMMA CatchUpIsNear ==
  ASSUME NEW t \in Timer, NEW now \in Nat, Late(t, now), ~Spins(t, now),
         t.nextms = Firing(t.startms, t.step)
  PROVE  CatchUp(t, now).nextms <= now + Interval
<1>1. /\ t.startms \in Nat /\ t.step \in 0 .. UintSpan - 1 /\ t.step \in Nat
      /\ Interval \in Nat /\ UintSpan \in Nat \ {0}
  BY TimerAssumption DEF Timer
<1>2. PICK k \in Ahead(t, now) :
        (\A l \in Ahead(t, now) : k <= l) /\ CatchUp(t, now) = TimerAt(t.startms, t.step + k)
  BY CatchUpIsLeast
<1>3. k \in 1 .. UintSpan /\ t.step + (k - 1) \in Nat
  BY <1>1, <1>2 DEF Ahead
<1>. DEFINE s == (t.step + (k - 1)) % UintSpan
<1>4. s \in 0 .. UintSpan - 1 /\ s \in Nat
  <2>1. t.step + (k - 1) \in Int
    BY <1>3
  <2>2. s \in 0 .. UintSpan - 1
    BY <1>1, <2>1, Remainders
  <2>. HIDE DEF s
  <2>. QED
    BY <1>1, <2>2
<1>5. Firing(t.startms, s) <= now
  <2>1. CASE k = 1
    <3>1. s = t.step
      BY <1>1, <2>1, SmallRemainders
    <3>. QED
      BY <3>1 DEF Late
  <2>2. CASE k # 1
    <3>1. k - 1 \in 1 .. UintSpan /\ ~(k <= k - 1)
      BY <1>1, <1>3, <2>2
    <3>2. k - 1 \notin Ahead(t, now)
      BY <1>2, <3>1
    <3>3. ~(Firing(t.startms, s) > now)
      BY <3>1, <3>2 DEF Ahead
    <3>4. Firing(t.startms, s) \in Nat
      BY <1>1, <1>4, FiringIsNumber
    <3>. QED
      BY <3>3, <3>4
  <2>. QED
    BY <2>1, <2>2
<1>6. (s + 1) % UintSpan = (t.step + k) % UintSpan
  <2>1. (s + 1) % UintSpan = ((t.step + (k - 1)) + 1) % UintSpan
    BY <1>1, <1>3, RemainderOfNext
  <2>2. (t.step + (k - 1)) + 1 = t.step + k
    BY <1>1, <1>3
  <2>. QED
    BY <2>1, <2>2
<1>7. CatchUp(t, now).nextms = Firing(t.startms, (s + 1) % UintSpan)
  BY <1>2, <1>6 DEF TimerAt
<1>8. Firing(t.startms, (s + 1) % UintSpan) <= Firing(t.startms, s) + Interval
  BY <1>1, <1>4, FiringOfNext
<1>9. Firing(t.startms, s) \in Nat /\ Firing(t.startms, (s + 1) % UintSpan) \in Nat
  <2>1. (s + 1) % UintSpan \in Nat
    BY <1>1, <1>4, Remainders
  <2>. QED
    BY <1>1, <1>4, <2>1, FiringIsNumber
<1>. HIDE DEF s
<1>. QED
  BY <1>1, <1>5, <1>7, <1>8, <1>9

GapInv ==
  /\ time <= due
  /\ pc = "init" => ~HasRead
  /\ ~setback /\ pc # "init" => timer.nextms <= wall + Interval
  /\ ~setback /\ pc = "asleep" => timer.nextms <= wall + (due - MaxDelay - time)
  /\ HasRead /\ pc \in {"delta", "timer"} => due <= readAt + MaxDelay
  /\ ~setback /\ HasRead /\ pc \in {"asleep", "loop", "stamp", "read"} =>
       due <= readAt + Interval + 2 * MaxDelay

LEMMA GapStep == ASSUME TypeInv, TypeInv', GapInv, [Next]_vars PROVE GapInv'
<1>0. /\ {time, wall, due, readAt, timer.nextms} \subseteq Nat /\ {time', wall', due', readAt', timer'.nextms} \subseteq Nat
      /\ Interval \in Nat /\ MaxDelay \in Nat /\ MaxSet \in Nat
  BY TimerAssumption, SamplerAssumption DEF TypeInv, TypeOK, Timer
<1>1. CASE Tick
  <2>1. /\ UNCHANGED <<timer, pc, due, setback, readAt, init>> /\ time < due
        /\ wall' = wall + 1 /\ time' = time + 1
    BY <1>1 DEF Tick, meterVars, raplVars
  <2>. QED
    BY <1>0, <2>1 DEF GapInv, HasRead
<1>2. CASE SetClock
  <2>1. PICK d \in {-MaxSet, MaxSet} : wall' = wall + d /\ setback' = (setback \/ d < 0)
    BY <1>2 DEF SetClock
  <2>2. UNCHANGED <<timer, pc, due, time, readAt, init>>
    BY <1>2 DEF SetClock, meterVars, raplVars
  <2>3. d \in Int
    BY <1>0, <2>1
  <2>4. ~setback' => ~setback /\ ~(d < 0)
    BY <2>1
  <2>5. ~(d < 0) => wall' >= wall
    BY <1>0, <2>1, <2>3
  <2>. QED
    BY <1>0, <2>2, <2>4, <2>5 DEF GapInv, HasRead
<1>3. CASE StartTimer
  <2>1. /\ pc = "init" /\ pc' = "timer" /\ UNCHANGED <<wall, time, readAt, init, setback>>
        /\ due' = time + MaxDelay /\ timer' = TimerAt(wall, 1)
    BY <1>3 DEF StartTimer, Goto, init_msTimer, clockVars, meterVars, raplVars
  <2>2. timer'.nextms <= wall + Interval
    <3>1. 0 \in 0 .. UintSpan - 1 /\ UintSpan \in Nat \ {0} /\ wall \in Nat
      BY <1>0, TimerAssumption
    <3>2. Firing(wall, (0 + 1) % UintSpan) <= Firing(wall, 0) + Interval
      BY <3>1, FiringOfNext
    <3>3. 0 * Interval = 0 /\ 0 % UintSpan = 0
      BY <1>0, <3>1, SmallRemainders
    <3>4. Firing(wall, 0) = wall /\ 0 + 1 = 1
      BY <3>1, <3>3 DEF Firing
    <3>5. timer'.nextms = Firing(wall, 1 % UintSpan)
      BY <2>1 DEF TimerAt
    <3>. QED
      BY <3>2, <3>4, <3>5
  <2>. QED
    BY <1>0, <2>1, <2>2 DEF GapInv, HasRead
<1>4. CASE TimerIsLate
  <2>1. /\ pc = "timer" /\ pc' = "loop" /\ UNCHANGED <<wall, time, readAt, init, setback>>
        /\ due' = time + MaxDelay
        /\ Late(timer, wall) /\ ~Spins(timer, wall) /\ timer' = CatchUp(timer, wall)
    BY <1>4 DEF TimerIsLate, Goto, clockVars, meterVars, raplVars
  <2>2. timer'.nextms <= wall + Interval
    BY <1>0, <2>1, CatchUpIsNear DEF TypeInv, TypeOK
  <2>. QED
    BY <1>0, <2>1, <2>2 DEF GapInv, HasRead
<1>5. CASE FallAsleep
  <2>1. /\ pc = "timer" /\ pc' = "asleep" /\ UNCHANGED <<time, wall, timer, readAt, init, setback>>
        /\ due' = time + (timer.nextms - wall) + MaxDelay /\ ~(wall >= timer.nextms)
    BY <1>5 DEF FallAsleep, Late, sleep_ms, clockVars, meterVars, raplVars
  <2>. QED
    BY <1>0, <2>1 DEF GapInv, HasRead
<1>6. CASE WakeUp
  <2>1. /\ pc = "asleep" /\ pc' = "loop" /\ UNCHANGED <<wall, time, due, readAt, init, setback>>
        /\ time >= due - MaxDelay /\ timer' = TimerAt(timer.startms, timer.step + 1)
    BY <1>6 DEF WakeUp, NextStep, clockVars, meterVars, raplVars
  <2>2. timer'.nextms <= timer.nextms + Interval
    <3>1. timer.startms \in Nat /\ timer.step \in 0 .. UintSpan - 1 /\ timer.nextms = Firing(timer.startms, timer.step)
      BY DEF TypeInv, TypeOK, Timer
    <3>2. timer'.nextms = Firing(timer.startms, (timer.step + 1) % UintSpan)
      BY <2>1 DEF TimerAt
    <3>. QED
      BY <3>1, <3>2, FiringOfNext
  <2>. QED
    BY <1>0, <2>1, <2>2 DEF GapInv, HasRead
<1>7. CASE Read
  <2>1. /\ pc = "read" /\ pc' = "delta" /\ UNCHANGED <<time, wall, timer, setback>>
        /\ due' = time + MaxDelay /\ readAt' = time
    BY <1>7 DEF Read, Goto, clockVars
  <2>. QED
    BY <1>0, <2>1 DEF GapInv
<1>8. CASE TimerSpins
  <2>1. pc = "timer" /\ pc' = "spinning" /\ due' = time + MaxDelay /\ UNCHANGED <<time, wall, timer, setback>>
    BY <1>8 DEF TimerSpins, Goto, clockVars
  <2>. QED
    BY <1>0, <2>1 DEF GapInv
<1>9. CASE Loop \/ Stamp \/ Delta
  <2>1. UNCHANGED <<time, wall, timer, due, readAt, setback>>
    BY <1>9 DEF Loop, Stamp, Delta, clockVars, meterVars
  <2>2. \/ pc = "delta" /\ pc' = "timer"
        \/ pc \in {"loop", "stamp"} /\ pc' \in {"stamp", "read", "ended"} /\ UNCHANGED init
    BY <1>9 DEF Loop, Stamp, Delta, stamp_rapl_data, meterVars, raplVars
  <2>3. HasRead' => HasRead
    BY <1>9 DEF Loop, Stamp, Delta, stamp_rapl_data, delta_rapl_data, delta_first, delta_next,
                meterVars, raplVars, HasRead
  <2>. QED
    BY <1>0, <2>1, <2>2, <2>3 DEF GapInv
<1>10. CASE UNCHANGED vars
  BY <1>10 DEF vars, clockVars, meterVars, raplVars, GapInv, HasRead
<1>. QED
  BY <1>1, <1>2, <1>3, <1>4, <1>5, <1>6, <1>7, <1>8, <1>9, <1>10 DEF Next

\* No turn has been missed, and what was seen last is what there was to see.
SeenInv ==
  refusals = 0 => /\ HasRead => \A m \in Meter : seen[m] = energy[m]
                  /\ ~setback => \A m \in Meter : missed[m] = 0

LEMMA NoWholeTurn == ASSUME NEW n \in Nat \ {0}, NEW a \in 0 .. n - 1 PROVE a \div n = 0
<1>1. a \div n \in Int /\ a % n \in 0 .. n - 1 /\ a = n * (a \div n) + (a % n)
  BY Remainders
<1>2. a % n = a
  BY SmallRemainders
<1>3. n * (a \div n) = 0
  BY <1>1, <1>2
<1>. QED
  BY <1>1, <1>3

LEMMA SeenOther ==
  ASSUME TypeInv, SeenInv, UNCHANGED <<energy, refusals, seen, missed>>,
         setback => setback', HasRead' => HasRead
  PROVE  SeenInv'
BY DEF SeenInv

\* Between two reads a meter uses less than a turn, where the constants say so.
LEMMA SeenRead ==
  ASSUME MaxUse * (Interval + 2 * MaxDelay) < CounterSpan,
         TypeInv, TypeInv', GapInv, SeenInv, Read
  PROVE  SeenInv'
<1>1. PICK refused \in {{}} \union {{m} : m \in Meter}, busy \in SUBSET Meter :
        /\ energy' = [m \in Meter |-> energy[m] + IF m \in busy THEN MaxUse * (time - readAt) ELSE 0]
        /\ read_registers(refused)
        /\ refusals' = refusals + IF refused = {} THEN 0 ELSE 1
  BY DEF Read
<1>2. pc = "read" /\ UNCHANGED setback
  BY DEF Read, clockVars
<1>3. /\ MaxUse \in Nat /\ MaxDelay \in Nat /\ Interval \in Nat /\ CounterSpan \in Nat \ {0}
      /\ refusals \in Nat /\ time - readAt \in Nat /\ {time, readAt, due} \subseteq Nat
      /\ energy \in [Meter -> Nat]
  BY SamplerAssumption, TimerAssumption, RaplAssumption DEF TypeInv, TypeOK
<1> SUFFICES ASSUME refusals' = 0
             PROVE  /\ \A m \in Meter : seen'[m] = energy'[m]
                    /\ ~setback' => \A m \in Meter : missed'[m] = 0
  BY DEF SeenInv
<1>4. refused = {} /\ refusals = 0
  BY <1>1, <1>3
<1>5. \A m \in Meter : seen'[m] = energy'[m]
  BY <1>1, <1>4 DEF read_registers
<1>6. ASSUME ~setback', NEW m \in Meter PROVE missed'[m] = 0
  <2>. DEFINE used == MaxUse * (time - readAt)
  <2>1. missed'[m] = (IF HasRead THEN missed[m] + (seen'[m] - seen[m]) \div CounterSpan ELSE 0)
    BY <1>1 DEF read_registers, HasRead
  <2>2. CASE ~HasRead
    BY <2>1, <2>2
  <2>3. CASE HasRead
    <3>1. seen[m] = energy[m] /\ missed[m] = 0
      BY <1>2, <1>4, <1>6, <2>3 DEF SeenInv
    <3>2. used \in 0 .. CounterSpan - 1
      <4>1. time - readAt <= Interval + 2 * MaxDelay /\ Interval + 2 * MaxDelay \in Nat
        BY <1>2, <1>3, <1>6, <2>3 DEF GapInv
      <4>2. (time - readAt) * MaxUse <= (Interval + 2 * MaxDelay) * MaxUse /\ (time - readAt) * MaxUse \in Nat
        BY <1>3, <4>1, Products
      <4>. QED
        BY <1>3, <4>1, <4>2
    <3>. HIDE DEF used
    <3>3. energy'[m] = energy[m] + (IF m \in busy THEN used ELSE 0) /\ energy[m] \in Nat
      BY <1>1, <1>3 DEF used
    <3>4. seen'[m] - seen[m] \in 0 .. CounterSpan - 1
      BY <1>3, <1>5, <3>1, <3>2, <3>3
    <3>5. (seen'[m] - seen[m]) \div CounterSpan = 0
      BY <1>3, <3>4, NoWholeTurn
    <3>. QED
      BY <2>1, <2>3, <3>1, <3>5
  <2>. QED
    BY <2>2, <2>3
<1>. QED
  BY <1>5, <1>6

\* While the clock is not set back and the registers answer, no turn of a counter
\* falls between two samples, as long as a meter uses less than a turn in an
\* interval and twice the time a thread may be kept waiting (timer_sleep).
THEOREM TurnsAreSeen ==
  ASSUME MaxUse * (Interval + 2 * MaxDelay) < CounterSpan
  PROVE  Spec => []NoTurnIsMissed
<1>1. Init => GapInv /\ SeenInv
  <2> SUFFICES ASSUME Init PROVE GapInv /\ SeenInv
    OBVIOUS
  <2>1. /\ pc = "init" /\ ~HasRead /\ due = time + MaxDelay /\ time \in Nat /\ MaxDelay \in Nat
        /\ \A m \in Meter : missed[m] = 0
    BY SamplerAssumption DEF Init, RaplInit, HasRead, Zero
  <2>. QED
    BY <2>1 DEF GapInv, SeenInv
<1>2. TypeInv /\ TypeInv' /\ GapInv /\ SeenInv /\ [Next]_vars => GapInv' /\ SeenInv'
  <2> SUFFICES ASSUME TypeInv, TypeInv', GapInv, SeenInv, [Next]_vars PROVE SeenInv'
    BY GapStep
  <2>1. CASE Read
    BY <2>1, SeenRead
  <2>2. CASE ~Read
    <3>1. UNCHANGED <<energy, refusals, seen, missed>>
      BY <2>2 DEF Next, Tick, SetClock, StartTimer, TimerIsLate, TimerSpins, FallAsleep, WakeUp, Loop, Stamp,
                  Delta, stamp_rapl_data, delta_rapl_data, delta_first, delta_next, vars, meterVars, raplVars
    <3>2. setback => setback'
      BY <2>2 DEF Next, Tick, SetClock, StartTimer, TimerIsLate, TimerSpins, FallAsleep, WakeUp, Loop, Stamp,
                  Delta, vars, clockVars
    <3>3. HasRead' => HasRead
      BY <2>2 DEF Next, Tick, SetClock, StartTimer, TimerIsLate, TimerSpins, FallAsleep, WakeUp, Loop, Stamp,
                  Delta, stamp_rapl_data, delta_rapl_data, delta_first, delta_next, vars, meterVars, raplVars,
                  HasRead
    <3>. QED
      BY <3>1, <3>2, <3>3, SeenOther
  <2>. QED
    BY <2>1, <2>2
<1>3. SeenInv => NoTurnIsMissed
  BY DEF SeenInv, NoTurnIsMissed
<1>. QED
  BY <1>1, <1>2, <1>3, Types, PTL DEF Spec
=============================================================================
