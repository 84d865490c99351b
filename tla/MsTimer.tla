------------------------------- MODULE MsTimer -------------------------------
(***************************************************************************)
(* The interval timer of variorum_timers.c, which paces the sampling       *)
(* threads: instants a whole number of intervals after the start, counted  *)
(* by a 32-bit step, and a sleep until the next of them.                   *)
(***************************************************************************)
EXTENDS Integers
CONSTANTS Interval, \* ms between firings
          UintSpan  \* 2^32: step and step * interval are unsigned int

ASSUME TimerAssumption == Interval \in 1..(UintSpan - 1) /\ UintSpan \in Nat

\* A timer: startms, step, nextms (the interval is a constant).
Timer == [startms : Nat, step : 0..(UintSpan - 1), nextms : Nat]

\* When a timer started at start fires for a step; the product is 32 bits wide.
Firing(start, step) == start + ((step * Interval) % UintSpan)

TimerAt(start, step) == [startms |-> start, step |-> step % UintSpan,
                    nextms |-> Firing(start, step % UintSpan)]

\* Fault: the first firing is the start itself.
FiresAtOnce(now) == TimerAt(now, 0)

init_msTimer(now) == TimerAt(now, 1)

\* Fault: the step is counted, the firing stays.
ForgetsFiring(t) == [t EXCEPT !.step = (@ + 1) % UintSpan]

NextStep(t) == TimerAt(t.startms, t.step + 1)

\* Fault: a whole interval more is slept.
SleepsOver(t, now) == t.nextms - now + Interval

\* sleep_ms: what is left until the firing.
sleep_ms(t, now) == t.nextms - now

\* The firing is due: no sleep, but steps until one lies ahead.
Late(t, now) == now >= t.nextms

\* The steps ahead of t that the loop may stop at; there may be none, for all
\* firings lie within 2^32 ms of the start.
Ahead(t, now) == {k \in 1..UintSpan : Firing(t.startms, (t.step + k) % UintSpan) > now}

CatchUp(t, now) ==
  LET cadd == CHOOSE k \in Ahead(t, now) : \A j \in Ahead(t, now) : k <= j
  IN TimerAt(t.startms, t.step + cadd)

\* The loop of timer_sleep never ends.
Spins(t, now) == Late(t, now) /\ Ahead(t, now) = {}
=============================================================================
