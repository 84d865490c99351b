------------------------------ MODULE RaplWindow ------------------------------
(***************************************************************************)
(* The energy window of intel_power_features.c: get_power reads the energy *)
(* counters, keeps them in static storage and compares them with those of  *)
(* the call before.  All reports of a process share the one window.        *)
(*                                                                         *)
(* energy is what the machine has used, in units of the register; the      *)
(* register shows its low bits.  total, base, seen, missed and wraps only  *)
(* record what happened.                                                   *)
(***************************************************************************)
EXTENDS Integers, FiniteSets
CONSTANTS NSOCKETS,
          CounterSpan, \* 2^32: the energy status registers hold 32 bits
          PkgUnit,     \* of the unit register, in some common measure
          StdUnit,     \* STD_ENERGY_UNIT, which two models use for DRAM
          Archs        \* processor models looked at: "std" (3F, 4F) or "own"
VARIABLES arch,        \* the model
          energy,      \* per meter, what has been used
          init,        \* the functions whose static init flag is up
          rapl,        \* struct rapl_data
          base, seen,  \* energy at the first and at the last read
          total,       \* joules reported since the first read
          wraps, missed \* turns of the counter that a window has seen, has not

raplVars == <<init, rapl, base, seen, total, wraps, missed>>

Meter == (0..(NSOCKETS - 1)) \X {"pkg", "dram"}

ASSUME RaplAssumption ==
  /\ {NSOCKETS, PkgUnit, StdUnit} \subseteq Nat \ {0}
  /\ CounterSpan \in Nat \ {0, 1}
  /\ Archs \subseteq {"std", "own"}

Zero == [m \in Meter |-> 0]
NoWatts == [joules |-> 0, over |-> 1]

\* The unit translate applies to a register, and to a package register.
BITS_TO_JOULES_DRAM(m) == IF m[2] = "dram" /\ arch = "std" THEN StdUnit ELSE PkgUnit
BITS_TO_JOULES(m) == PkgUnit

RaplInit ==
  /\ arch \in Archs
  /\ init = {}
  /\ rapl = [now |-> 0, old_now |-> 0, elapsed |-> 0,
             bits |-> Zero, old_bits |-> Zero, joules |-> Zero, old_joules |-> Zero,
             delta_joules |-> Zero, watts |-> [m \in Meter |-> NoWatts]]
  /\ base = Zero /\ seen = Zero /\ total = Zero /\ wraps = Zero /\ missed = Zero

\* read_rapl_data up to the batch: the last sample becomes the old one, and the
\* clock is read before the registers are.
stamp_rapl_data(clock) ==
  /\ rapl' = IF "read_rapl_data" \in init
             THEN [rapl EXCEPT !.old_now = rapl.now, !.now = clock, !.elapsed = clock - rapl.now,
                               !.old_bits = rapl.bits, !.old_joules = rapl.joules]
             ELSE [rapl EXCEPT !.now = clock]
  /\ UNCHANGED <<init, base, seen, total, wraps, missed>>

\* read_batch(RAPL_DATA) and the conversions.  A register that refuses leaves
\* its bits as they were, which nobody is told.
read_registers(refused) ==
  LET bits == [m \in Meter |-> IF m \in refused THEN rapl.bits[m] ELSE (energy'[m] % CounterSpan)]
      first == "read_rapl_data" \notin init
  IN /\ rapl' = [rapl EXCEPT !.bits = bits,
                             !.joules = [m \in Meter |-> bits[m] * BITS_TO_JOULES_DRAM(m)]]
     /\ init' = init \union {"read_rapl_data"}
     /\ seen' = [m \in Meter |-> IF m \in refused THEN seen[m] ELSE energy'[m]]
     /\ base' = IF first THEN seen' ELSE base
     /\ missed' = [m \in Meter |-> IF first THEN 0 ELSE missed[m] + (seen'[m] - seen[m]) \div CounterSpan]
     /\ UNCHANGED <<total, wraps>>

Wrapped(m) == rapl.bits[m] < rapl.old_bits[m]

\* Fault: a counter that has wrapped is not noticed.
PlainDelta(m) == rapl.joules[m] - rapl.old_joules[m]

\* UINT_MAX is added for a turn of the counter, one less than it takes, and the
\* result is converted as a package register whatever it is.
delta_joules(m) ==
  IF Wrapped(m) THEN (rapl.bits[m] + (CounterSpan - 1) - rapl.old_bits[m]) * BITS_TO_JOULES(m)
                ELSE rapl.joules[m] - rapl.old_joules[m]

\* The first call of the process only clears the power.
delta_first ==
  /\ "delta_rapl_data" \notin init
  /\ init' = init \union {"delta_rapl_data"}
  /\ rapl' = [rapl EXCEPT !.watts = [m \in Meter |-> NoWatts], !.elapsed = 0]
  /\ UNCHANGED <<base, seen, total, wraps, missed>>

delta_next ==
  LET delta == [m \in Meter |-> delta_joules(m)]
  IN /\ "delta_rapl_data" \in init
     /\ rapl' = [rapl EXCEPT !.delta_joules = delta,
                             !.watts = [m \in Meter |-> IF rapl.elapsed > 0
                                          THEN [joules |-> delta[m], over |-> rapl.elapsed]
                                          ELSE NoWatts]]
     /\ total' = [m \in Meter |-> total[m] + delta[m]]
     /\ wraps' = [m \in Meter |-> wraps[m] + IF Wrapped(m) THEN 1 ELSE 0]
     /\ UNCHANGED <<init, base, seen, missed>>

delta_rapl_data == delta_first \/ delta_next

RaplTypeOK ==
  /\ arch \in Archs
  /\ init \subseteq {"read_rapl_data", "delta_rapl_data"}
  /\ rapl \in [now : Nat, old_now : Nat, elapsed : Int,
               bits : [Meter -> 0..(CounterSpan - 1)], old_bits : [Meter -> 0..(CounterSpan - 1)],
               joules : [Meter -> Nat], old_joules : [Meter -> Nat], delta_joules : [Meter -> Int],
               watts : [Meter -> [joules : Int, over : Nat \ {0}]]]
  /\ {base, seen, total, wraps, missed} \subseteq [Meter -> Int]
=============================================================================
