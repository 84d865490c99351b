--------------------------- MODULE P9Energy_proofs ---------------------------
(***************************************************************************)
(* Proofs about the energy measurements of IBM Power9, for any number of   *)
(* measurements, any width of the accumulator and any samples.             *)
(***************************************************************************)
EXTENDS P9Energy, TLAPS

\* The accumulator stays within its width.
LEMMA PlusWraps ==
  ASSUME NEW e \in 0 .. Modulus - 1, NEW w \in 0 .. Modulus - 1
  PROVE  Plus(e, w) \in 0 .. Modulus - 1
<1>1. Modulus \in Nat /\ Modulus > 0 /\ e + w \in Nat
  BY EnergyAssumption
<1>2. (e + w) % Modulus \in 0 .. Modulus - 1
  BY <1>1
<1>. QED
  BY <1>2 DEF Plus

\* What a sample returns fits the accumulator.
LEMMA SamplesFit == Watts \cup {Failure} \subseteq 0 .. Modulus - 1
  BY EnergyAssumption DEF Failure

\* Measurements are begun in order: those not begun have no thread, neither has
\* the one whose call has not come to pthread_create, and all others have.
Beginning == {"clears", "inits_mutex", "creates"}

Order ==
  /\ \A m \in Measurements : m > started => at[m] = "unborn"
  /\ \A m \in Measurements : m < started => at[m] # "unborn"
  /\ started > 0 => (at[started] = "unborn" <=> pc \in Beginning)
  /\ pc # "idle" \/ active_sampling => started > 0
  /\ \A m \in Measurements : at[m] = "unborn" => taken[m] = 0

TypeInv == TypeOK /\ Order

LEMMA TypeInvInit == Init => TypeInv
<1> SUFFICES ASSUME Init PROVE TypeInv
  OBVIOUS
<1>1. 0 \in 0 .. Modulus - 1 /\ 0 \in 0 .. MaxMeasurements
  BY EnergyAssumption
<1>2. TypeOK
  BY <1>1 DEF Init, TypeOK, CallerAt, SamplerAt
<1>3. Order
  BY DEF Init, Order, Beginning, Measurements
<1>. QED
  BY <1>2, <1>3 DEF TypeInv

\* The caller's steps keep the types and the order.
LEMMA CallerKeepsTypeInv ==
  ASSUME TypeInv, Begin \/ End \/ CallerInside
  PROVE  TypeInv'
<1>. USE EnergyAssumption
     DEF TypeInv, TypeOK, Order, Measurements, Free, Caller, CallerAt, SamplerAt, CallerGoes, history, Beginning
<1>1. CASE Begin
  BY <1>1 DEF Begin
<1>2. CASE Clear \/ InitMutex
  <2>1. 0 \in 0 .. Modulus - 1
    OBVIOUS
  <2>2. TypeOK'
    BY <1>2, <2>1 DEF Clear, InitMutex
  <2>3. Order'
    BY <1>2 DEF Clear, InitMutex
  <2>. QED
    BY <2>2, <2>3
<1>3. CASE CreateThread
  <2>1. started \in Measurements
    BY <1>3 DEF CreateThread
  <2>2. at' \in [Measurements -> SamplerAt]
    BY <1>3 DEF CreateThread
  <2>3. \A m \in Measurements : m # started => at'[m] = at[m]
    BY <1>3 DEF CreateThread
  <2>4. at'[started] = "opens"
    BY <1>3, <2>1 DEF CreateThread
  <2>. QED
    BY <1>3, <2>1, <2>2, <2>3, <2>4 DEF CreateThread
<1>4. CASE Lock \/ ReadEnergy \/ End
  BY <1>4 DEF Lock, ReadEnergy, End
<1>. QED
  BY <1>1, <1>2, <1>3, <1>4 DEF CallerInside

\* A step of a thread takes it from one place to another and leaves the others.
LEMMA SamplerMoves ==
  ASSUME TypeInv, NEW m \in Measurements, Sampler(m)
  PROVE  /\ at' \in [Measurements -> SamplerAt]
         /\ \A n \in Measurements : n # m => at'[n] = at[n]
         /\ at[m] # "unborn" /\ at'[m] # "unborn"
         /\ UNCHANGED <<active_sampling, pc, started, overlap>>
<1>. USE DEF TypeInv, TypeOK, Goes, SamplerAt
<1>1. CASE OpenSensors(m)
  BY <1>1 DEF OpenSensors, history
<1>2. CASE TestActive(m)
  BY <1>2 DEF TestActive, history
<1>3. CASE SamplerLocks(m)
  BY <1>3 DEF SamplerLocks, history
<1>4. CASE Sample(m)
  BY <1>4 DEF Sample
<1>5. CASE Add(m) \/ Store(m) \/ SamplerUnlocks(m)
  BY <1>5 DEF Add, Store, SamplerUnlocks, history
<1>. QED
  BY <1>1, <1>2, <1>3, <1>4, <1>5 DEF Sampler

\* So do the threads'.
LEMMA SamplerKeepsTypeInv ==
  ASSUME TypeInv, NEW m \in Measurements, Sampler(m)
  PROVE  TypeInv'
<1>1. /\ energy_acc' \in 0 .. Modulus - 1
      /\ held' \in [Measurements -> 0 .. Modulus - 1]
      /\ taken' \in [Measurements -> 0 .. Modulus - 1]
      /\ \A n \in Measurements : n # m => taken'[n] = taken[n]
      /\ mlock' \in Measurements \cup {Free, Caller}
  <2>1. CASE OpenSensors(m) \/ TestActive(m) \/ SamplerLocks(m) \/ SamplerUnlocks(m)
    BY <2>1 DEF OpenSensors, TestActive, SamplerLocks, SamplerUnlocks, history, TypeInv, TypeOK
  <2>2. CASE Sample(m)
    <3>1. PICK w \in Watts \cup {Failure} :
            /\ held' = [held EXCEPT ![m] = w]
            /\ taken' = [taken EXCEPT ![m] = Plus(taken[m], w)]
      BY <2>2 DEF Sample
    <3>2. w \in 0 .. Modulus - 1 /\ Plus(taken[m], w) \in 0 .. Modulus - 1
      BY SamplesFit, PlusWraps DEF TypeInv, TypeOK
    <3>. QED
      BY <2>2, <3>1, <3>2 DEF Sample, TypeInv, TypeOK
  <2>3. CASE Add(m)
    <3>1. Plus(energy_acc, held[m]) \in 0 .. Modulus - 1
      BY PlusWraps DEF TypeInv, TypeOK
    <3>. QED
      BY <2>3, <3>1 DEF Add, history, TypeInv, TypeOK
  <2>4. CASE Store(m)
    BY <2>4 DEF Store, history, TypeInv, TypeOK
  <2>. QED
    BY <2>1, <2>2, <2>3, <2>4 DEF Sampler
<1>2. TypeOK'
  BY <1>1, SamplerMoves DEF TypeInv, TypeOK
<1>3. started > 0 => started \in Measurements /\ (pc \in Beginning => started # m)
  BY SamplerMoves DEF TypeInv, TypeOK, Order, Measurements
<1>4. Order'
  BY <1>1, <1>3, SamplerMoves DEF TypeInv, Order
<1>. QED
  BY <1>2, <1>4 DEF TypeInv

LEMMA TypeInvStep == ASSUME TypeInv, [Next]_vars PROVE TypeInv'
<1>1. CASE UNCHANGED vars
  BY <1>1 DEF vars, TypeInv, TypeOK, Order
<1>. QED
  BY <1>1, CallerKeepsTypeInv, SamplerKeepsTypeInv DEF Next

\* The flag, the accumulator, the mutex, the caller and the threads keep to
\* their types, the accumulator to its width.
THEOREM EnergyTypeCorrect == Spec => []TypeOK
<1>1. TypeInv /\ [Next]_vars => TypeInv'
  BY TypeInvStep
<1>2. TypeInv => TypeOK
  BY DEF TypeInv
<1>. QED
  BY <1>1, <1>2, TypeInvInit, PTL DEF Spec

-----------------------------------------------------------------------------
(***************************************************************************)
(* A measurement that began over no live thread has one thread at most,    *)
(* and that thread and the caller take turns.  From there on the           *)
(* accumulator is what the thread has sampled, the sample being added      *)
(* apart.  The mutex says who is inside once it has been initialised.      *)
(***************************************************************************)
Alone == \A m \in Measurements : m < started => at[m] = "ended"

TakeTurns ==
  /\ pc \notin {"clears", "inits_mutex"} => \A m \in Measurements : Inside(m) => mlock = m
  /\ pc = "reads" => mlock = Caller

Accounts ==
  pc # "clears" /\ started > 0 =>
    /\ at[started] \notin {"adds", "stores"} => energy_acc = taken[started]
    /\ at[started] = "adds" => taken[started] = Plus(energy_acc, held[started])
    /\ at[started] = "stores" => held[started] = taken[started]

ExactInv == TypeInv /\ (~overlap => Alone /\ TakeTurns /\ Accounts)

\* Whoever is inside is the thread of the last measurement, which has begun.
LEMMA OnlyTheLast ==
  ASSUME TypeInv, Alone, NEW m \in Measurements, Alive(m)
  PROVE  m = started /\ pc \notin Beginning
<1>1. m <= started /\ ~(m < started)
  BY DEF TypeInv, Order, Alone, Alive, Measurements, TypeOK
<1>2. m = started
  BY <1>1 DEF Measurements, TypeInv, TypeOK
<1>3. started > 0
  BY <1>2 DEF Measurements
<1>. QED
  BY <1>2, <1>3 DEF TypeInv, Order, Alive

\* A call that begins a measurement over no live thread.
LEMMA BeginKeepsExact ==
  ASSUME ExactInv, Begin
  PROVE  ~overlap' => Alone' /\ TakeTurns' /\ Accounts'
<1> SUFFICES ASSUME ~overlap' PROVE Alone' /\ TakeTurns' /\ Accounts'
  OBVIOUS
<1>1. \A m \in Measurements : at[m] \in {"unborn", "ended"}
  BY DEF Begin, Alive
<1>2. pc = "idle" /\ pc' = "clears" /\ at' = at /\ started' = started + 1
  BY DEF Begin, CallerGoes
<1>3. TakeTurns' /\ Accounts'
  BY <1>2 DEF TakeTurns, Accounts
<1>4. Alone'
  <2> SUFFICES ASSUME NEW m \in Measurements, m < started + 1 PROVE at[m] = "ended"
    BY <1>2 DEF Alone
  <2>1. m < started \/ m = started
    BY DEF ExactInv, TypeInv, TypeOK, Measurements
  <2>2. at[m] # "unborn"
    BY <1>2, <2>1 DEF ExactInv, TypeInv, Order, Beginning, Measurements
  <2>. QED
    BY <1>1, <2>2
<1>. QED
  BY <1>3, <1>4

\* The other steps of a call.
LEMMA CallerKeepsExact ==
  ASSUME ExactInv, End \/ CallerInside
  PROVE  ~overlap' => Alone' /\ TakeTurns' /\ Accounts'
<1> SUFFICES ASSUME ~overlap' PROVE Alone' /\ TakeTurns' /\ Accounts'
  OBVIOUS
<1>1. ~overlap /\ UNCHANGED <<started, overlap, taken, held>>
  BY DEF End, CallerInside, Clear, InitMutex, CreateThread, Lock, ReadEnergy, history
<1>2. Alone /\ TakeTurns /\ Accounts /\ TypeInv
  BY <1>1 DEF ExactInv
<1>3. \A m \in Measurements : Inside(m) => m = started /\ pc \notin Beginning
  BY <1>2, OnlyTheLast DEF Inside, Alive
<1>4. CASE End
  BY <1>1, <1>2, <1>4 DEF End, CallerGoes, Alone, TakeTurns, Accounts, Inside
<1>5. CASE Clear
  <2>1. pc = "clears" /\ started > 0 /\ started \in Measurements
    BY <1>2, <1>5 DEF Clear, CallerGoes, TypeInv, TypeOK, Order, Measurements
  <2>2. at[started] = "unborn" /\ taken[started] = 0
    BY <1>2, <2>1 DEF TypeInv, Order, Beginning
  <2>. QED
    BY <1>1, <1>2, <1>5, <2>2 DEF Clear, CallerGoes, Alone, TakeTurns, Accounts
<1>6. CASE InitMutex
  <2>1. \A m \in Measurements : ~Inside(m)
    BY <1>3, <1>6 DEF InitMutex, CallerGoes, Beginning
  <2>. QED
    BY <1>1, <1>2, <1>6, <2>1 DEF InitMutex, CallerGoes, Alone, TakeTurns, Accounts, Inside
<1>7. CASE CreateThread
  <2>1. pc = "creates" /\ started > 0 /\ started \in Measurements
    BY <1>2, <1>7 DEF CreateThread, CallerGoes, TypeInv, TypeOK, Order, Measurements
  <2>2. at[started] = "unborn"
    BY <1>2, <2>1 DEF TypeInv, Order, Beginning
  <2>3. at'[started] = "opens" /\ \A m \in Measurements : m # started => at'[m] = at[m]
    BY <1>2, <1>7, <2>1 DEF CreateThread, TypeInv, TypeOK
  <2>4. Alone'
    BY <1>1, <1>2, <2>3 DEF Alone, Measurements, TypeInv, TypeOK
  <2>5. TakeTurns'
    BY <1>2, <1>7, <2>1, <2>3 DEF CreateThread, CallerGoes, TakeTurns, Inside
  <2>6. Accounts'
    BY <1>1, <1>2, <1>7, <2>1, <2>2, <2>3 DEF CreateThread, CallerGoes, Accounts
  <2>. QED
    BY <2>4, <2>5, <2>6
<1>8. CASE Lock
  <2>1. \A m \in Measurements : ~Inside(m)
    BY <1>2, <1>8 DEF Lock, CallerGoes, TakeTurns, Free, Measurements
  <2>. QED
    BY <1>1, <1>2, <1>8, <2>1 DEF Lock, CallerGoes, Alone, TakeTurns, Accounts, Inside
<1>9. CASE ReadEnergy
  <2>1. \A m \in Measurements : ~Inside(m)
    BY <1>2, <1>9 DEF ReadEnergy, CallerGoes, TakeTurns, Caller, Measurements
  <2>. QED
    BY <1>1, <1>2, <1>9, <2>1 DEF ReadEnergy, CallerGoes, Alone, TakeTurns, Accounts, Inside
<1>. QED
  BY <1>4, <1>5, <1>6, <1>7, <1>8, <1>9 DEF CallerInside

\* The steps of the thread.
LEMMA SamplerKeepsExact ==
  ASSUME ExactInv, NEW m \in Measurements, Sampler(m)
  PROVE  ~overlap' => Alone' /\ TakeTurns' /\ Accounts'
<1> SUFFICES ASSUME ~overlap' PROVE Alone' /\ TakeTurns' /\ Accounts'
  OBVIOUS
<1>1. ~overlap /\ UNCHANGED <<pc, started>>
  BY SamplerMoves DEF ExactInv
<1>2. Alone /\ TakeTurns /\ Accounts /\ TypeInv
  BY <1>1 DEF ExactInv
<1>3. Alive(m)
  BY DEF Sampler, OpenSensors, TestActive, SamplerLocks, Sample, Add, Store, SamplerUnlocks, Goes,
         Alive
<1>4. m = started /\ pc \notin Beginning /\ started > 0
  BY <1>2, <1>3, OnlyTheLast DEF Measurements
<1>5. \A n \in Measurements : n # m => at'[n] = at[n] /\ ~Inside(n)
  BY <1>2, <1>4, OnlyTheLast, SamplerMoves DEF Inside, Alive
<1>6. Alone'
  BY <1>1, <1>2, <1>4, <1>5 DEF Alone, Measurements, TypeInv, TypeOK
<1>. USE <1>1, <1>2, <1>4, <1>5 DEF TypeInv, TypeOK, Beginning, Goes, Inside, TakeTurns, Accounts
<1>7. CASE OpenSensors(m) \/ TestActive(m)
  BY <1>6, <1>7 DEF OpenSensors, TestActive, history
<1>8. CASE SamplerLocks(m)
  BY <1>6, <1>8 DEF SamplerLocks, history, Free, Caller
<1>9. CASE Sample(m)
  <2>1. PICK w \in Watts \cup {Failure} :
          /\ held' = [held EXCEPT ![m] = w]
          /\ taken' = [taken EXCEPT ![m] = Plus(taken[m], w)]
    BY <1>9 DEF Sample
  <2>2. held'[m] = w /\ taken'[m] = Plus(taken[m], w)
    BY <2>1
  <2>3. at[m] = "samples" /\ at'[m] = "adds" /\ UNCHANGED <<energy_acc, mlock>>
    BY <1>9 DEF Sample
  <2>. QED
    BY <1>6, <2>2, <2>3
<1>10. CASE Add(m)
  <2>1. at[m] = "adds" /\ at'[m] = "stores" /\ UNCHANGED <<energy_acc, mlock, taken>>
    BY <1>10 DEF Add, history
  <2>2. held'[m] = Plus(energy_acc, held[m])
    BY <1>10 DEF Add
  <2>. QED
    BY <1>6, <2>1, <2>2
<1>11. CASE Store(m)
  BY <1>6, <1>11 DEF Store, history
<1>12. CASE SamplerUnlocks(m)
  <2>1. pc # "reads"
    BY <1>12 DEF SamplerUnlocks, Caller, Measurements
  <2>. QED
    BY <1>6, <1>12, <2>1 DEF SamplerUnlocks, history
<1>. QED
  BY <1>7, <1>8, <1>9, <1>10, <1>11, <1>12 DEF Sampler

LEMMA ExactInvStep == ASSUME ExactInv, [Next]_vars PROVE ExactInv'
<1>1. TypeInv'
  BY TypeInvStep DEF ExactInv
<1>2. CASE UNCHANGED vars
  BY <1>1, <1>2 DEF vars, ExactInv, Alone, TakeTurns, Accounts, Inside
<1>. QED
  BY <1>1, <1>2, BeginKeepsExact, CallerKeepsExact, SamplerKeepsExact DEF Next, ExactInv

LEMMA ExactInvInit == Init => ExactInv
  BY TypeInvInit DEF Init, ExactInv, Alone, TakeTurns, Accounts, Inside, Measurements

\* A measurement that began over no live thread reports what its thread sampled.
THEOREM ReportsAreExact == Spec => []ReportIsExact
<1>1. ExactInv => ReportIsExact
  <2> SUFFICES ASSUME ExactInv, pc = "reads", ~overlap PROVE energy_acc = taken[started]
    BY DEF ReportIsExact
  <2>1. started \in Measurements /\ started > 0 /\ Accounts /\ TakeTurns
    BY DEF ExactInv, TypeInv, TypeOK, Order, Measurements
  <2>2. ~Inside(started)
    BY <2>1 DEF TakeTurns, Caller, Measurements
  <2>. QED
    BY <2>1, <2>2 DEF Accounts, Inside
<1>2. ExactInv /\ [Next]_vars => ExactInv'
  BY ExactInvStep
<1>. QED
  BY <1>1, <1>2, ExactInvInit, PTL DEF Spec

\* It does so under a mutex that keeps the thread and the caller apart.
THEOREM ThreadAndCallerTakeTurns == Spec => []MutexProtects
<1>1. ExactInv => MutexProtects
  <2> SUFFICES ASSUME ExactInv, ~overlap PROVE MutexProtects
    BY DEF MutexProtects
  <2>1. \A m \in Measurements : Inside(m) => m = started /\ pc \notin Beginning
    BY OnlyTheLast DEF ExactInv, Inside, Alive
  <2>2. pc = "reads" => \A m \in Measurements : ~Inside(m)
    BY DEF ExactInv, TakeTurns, Caller, Measurements
  <2>. QED
    BY <2>1, <2>2 DEF MutexProtects
<1>2. ExactInv /\ [Next]_vars => ExactInv'
  BY ExactInvStep
<1>. QED
  BY <1>1, <1>2, ExactInvInit, PTL DEF Spec

=============================================================================
