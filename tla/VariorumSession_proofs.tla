----------------------- MODULE VariorumSession_proofs -----------------------
(***************************************************************************)
(* Proofs about sessions with libvariorum, for any set of builds, any set  *)
(* of functions called, and any number of calls and of processors; and     *)
(* about the MSR devices that the calls of a session open and close, for   *)
(* any descriptor limit and any state of the device nodes.                 *)
(***************************************************************************)
EXTENDS VariorumSession, MsrDevices, FiniteSetTheorems, TLAPS

\* No platform occurs twice in a build.
LEMMA BuildsInjective ==
  ASSUME NEW b \in Builds, NEW k \in DOMAIN b, NEW l \in DOMAIN b, k # l
  PROVE  b[k] # b[l]
<1>1. CASE \E p \in Platforms : b = <<p>>
  BY <1>1
<1>2. CASE \E q \in (DOMAIN PlatformOrder) \X (DOMAIN PlatformOrder) :
             q[1] < q[2] /\ b = <<PlatformOrder[q[1]], PlatformOrder[q[2]]>>
  <2>1. PICK q1 \in 1 .. 7, q2 \in 1 .. 7 :
          q1 < q2 /\ b = <<PlatformOrder[q1], PlatformOrder[q2]>>
    BY <1>2 DEF PlatformOrder
  <2>2. PlatformOrder[q1] # PlatformOrder[q2]
    BY <2>1 DEF PlatformOrder
  <2>3. b[1] # b[2] /\ DOMAIN b = 1 .. 2
    BY <2>1, <2>2
  <2>. QED
    BY <2>3
<1>. QED
  BY <1>1, <1>2 DEF Builds

-----------------------------------------------------------------------------
(***************************************************************************)
(* The inductive invariant behind "LeaksAreAbandonedCalls": the call in    *)
(* progress accounts for one more of each resource once it has allocated,  *)
(* and the platforms it has not set up yet, or that are not compiled in,   *)
(* are still at the level of the abandoned calls.                          *)
(***************************************************************************)
Counters ==
  /\ archMem \in [Platforms -> Int]
  /\ pending \in [Platforms -> Int]
  /\ abandoned \in Nat
  /\ build \in Builds
  /\ pc \in {"set", "init_msr"} => i \in Nat

Taken == IF pc \in {"idle", "detect"} THEN abandoned ELSE abandoned + 1

Bounded ==
  \A p \in Platforms :
    /\ archMem[p] <= Taken /\ pending[p] <= Taken
    /\ p \notin Compiled => archMem[p] <= abandoned /\ pending[p] <= abandoned

NotYetSet ==
  pc \in {"set", "init_msr"} =>
    \A k \in DOMAIN build : k >= i => pending[SetupOrder(build)[k]] <= abandoned

LeakInv == Counters /\ Bounded /\ NotYetSet

\* The platforms of a build are platforms.
LEMMA CompiledPlatforms == ASSUME NEW b \in Builds, NEW k \in DOMAIN b PROVE b[k] \in Platforms
<1>1. CASE \E p \in Platforms : b = <<p>>
  BY <1>1
<1>2. CASE \E q \in (DOMAIN PlatformOrder) \X (DOMAIN PlatformOrder) :
             b = <<PlatformOrder[q[1]], PlatformOrder[q[2]]>>
  BY <1>2 DEF Platforms
<1>. QED
  BY <1>1, <1>2 DEF Builds

\* The indices of a build are numbers.
LEMMA BuildIndices == ASSUME NEW b \in Builds PROVE DOMAIN b = 1 .. 1 \/ DOMAIN b = 1 .. 2
<1>1. CASE \E p \in Platforms : b = <<p>>
  BY <1>1
<1>2. CASE \E q \in (DOMAIN PlatformOrder) \X (DOMAIN PlatformOrder) :
             b = <<PlatformOrder[q[1]], PlatformOrder[q[2]]>>
  BY <1>2
<1>. QED
  BY <1>1, <1>2 DEF Builds

\* Setting the pointers up goes over every platform of the build once.
LEMMA SetupPermutesBuild ==
  ASSUME NEW b \in Builds
  PROVE  /\ DOMAIN SetupOrder(b) = DOMAIN b
         /\ \A k \in DOMAIN b : \E l \in DOMAIN b : SetupOrder(b)[k] = b[l]
         /\ \A k, l \in DOMAIN b : k # l => SetupOrder(b)[k] # SetupOrder(b)[l]
<1>1. CASE SetupOrder(b) = b
  BY <1>1, BuildsInjective
<1>2. CASE Len(b) = 2 /\ SetupOrder(b) = <<b[2], b[1]>>
  <2>1. DOMAIN b = 1 .. 2
    BY <1>2, BuildIndices DEF Builds
  <2>2. b[1] # b[2]
    BY <2>1, BuildsInjective
  <2>. QED
    BY <1>2, <2>1, <2>2
<1>. QED
  BY <1>1, <1>2 DEF SetupOrder

\* A step that takes nothing and gives nothing back.
LEMMA QuietStep ==
  ASSUME LeakInv, UNCHANGED <<build, archMem, pending>>,
         \/ UNCHANGED abandoned /\ pc \notin {"idle", "detect"} /\ pc' \notin {"idle", "detect"}
         \/ abandoned' = abandoned + 1 /\ pc' = "idle"
         \/ UNCHANGED <<abandoned, pc>>
  PROVE  Bounded'
<1>1. Compiled' = Compiled /\ abandoned \in Nat
  BY DEF Compiled, LeakInv, Counters
<1>2. ASSUME NEW p \in Platforms
      PROVE  /\ archMem[p] <= Taken' /\ pending[p] <= Taken'
             /\ p \notin Compiled => archMem[p] <= abandoned' /\ pending[p] <= abandoned'
  <2>1. /\ archMem[p] <= Taken /\ pending[p] <= Taken
        /\ p \notin Compiled => archMem[p] <= abandoned /\ pending[p] <= abandoned
    BY DEF LeakInv, Bounded
  <2>2. archMem[p] \in Int /\ pending[p] \in Int
    BY DEF LeakInv, Counters
  <2>. QED
    BY <1>1, <2>1, <2>2 DEF Taken
<1>. QED
  BY <1>1, <1>2 DEF Bounded

\* A setter that brings one library up at most.
LEMMA SetterStep ==
  ASSUME LeakInv, pc = "set", i \in DOMAIN build, i' = i + 1,
         UNCHANGED <<build, pc, archMem, abandoned>>,
         pending' = pending \/ pending' = [pending EXCEPT ![Due] = @ + 1]
  PROVE  LeakInv'
<1>1. Due \in Platforms /\ Due \in Compiled
  BY CompiledPlatforms, SetupPermutesBuild DEF LeakInv, Counters, Due, Compiled
<1>2. pending[Due] <= abandoned /\ i \in Nat
  BY DEF LeakInv, Counters, NotYetSet, Due
<1>3. pending' \in [Platforms -> Int]
  BY <1>1 DEF LeakInv, Counters
<1>4. Counters'
  BY <1>2, <1>3 DEF LeakInv, Counters
<1>5. Bounded'
  <2> SUFFICES ASSUME NEW p \in Platforms
               PROVE  /\ archMem[p] <= abandoned + 1 /\ pending'[p] <= abandoned + 1
                      /\ p \notin Compiled => archMem[p] <= abandoned /\ pending'[p] <= abandoned
    BY DEF Bounded, Taken, Compiled
  <2>1. /\ archMem[p] <= abandoned + 1 /\ pending[p] <= abandoned + 1
        /\ p \notin Compiled => archMem[p] <= abandoned /\ pending[p] <= abandoned
    BY DEF LeakInv, Bounded, Taken
  <2>2. pending'[p] = pending[p] \/ (p = Due /\ pending'[p] = pending[p] + 1)
    BY DEF LeakInv, Counters
  <2>. QED
    BY <1>1, <1>2, <2>1, <2>2 DEF LeakInv, Counters
<1>6. NotYetSet'
  <2> SUFFICES ASSUME NEW k \in DOMAIN build, k >= i + 1
               PROVE  pending'[SetupOrder(build)[k]] <= abandoned
    BY DEF NotYetSet
  <2>1. k # i /\ k >= i
    BY <1>2, BuildIndices DEF LeakInv, Counters
  <2>2. SetupOrder(build)[k] # Due
    BY <2>1, SetupPermutesBuild DEF LeakInv, Counters, Due
  <2>3. pending'[SetupOrder(build)[k]] = pending[SetupOrder(build)[k]]
    BY <2>2, CompiledPlatforms, SetupPermutesBuild DEF LeakInv, Counters
  <2>. QED
    BY <2>1, <2>3 DEF LeakInv, NotYetSet
<1>. QED
  BY <1>4, <1>5, <1>6 DEF LeakInv

\* The invariant is preserved by every step.
LEMMA LeakInvStep == ASSUME LeakInv, [Next]_vars PROVE LeakInv'
<1>. USE DEF LeakInv
<1>1. CASE \E a \in Calls : Call(a)
  BY <1>1 DEF Call, resources, Counters, Bounded, Taken, NotYetSet, Compiled
<1>2. CASE DetectArch
  <2>1. Counters'
    BY <1>2 DEF DetectArch, Abandon, Counters
  <2>2. ASSUME NEW p \in Platforms
        PROVE  /\ archMem'[p] <= abandoned + 1 /\ pending'[p] <= abandoned
               /\ p \notin Compiled => archMem'[p] <= abandoned
    BY <1>2 DEF DetectArch, Counters, Bounded, Taken, Has
  <2>3. Bounded'
    BY <1>2, <2>2 DEF DetectArch, Abandon, Counters, Bounded, Taken, Compiled
  <2>4. NotYetSet'
    <3>1. \A k \in DOMAIN build : SetupOrder(build)[k] \in Platforms
      BY SetupPermutesBuild, CompiledPlatforms DEF Counters
    <3>2. build' = build /\ (pc' = "set" => abandoned' = abandoned) /\ pc' # "init_msr"
      BY <1>2 DEF DetectArch, Abandon
    <3>. QED
      BY <1>2, <2>2, <3>1, <3>2 DEF DetectArch, NotYetSet
  <2>. QED
    BY <2>1, <2>3, <2>4
<1>3. CASE SetIntelCpu
  <2>1. Counters'
    BY <1>3, BuildIndices DEF SetIntelCpu, Abandon, Counters
  <2>2. Bounded'
    BY <1>3, QuietStep DEF SetIntelCpu, Abandon
  <2>3. NotYetSet'
    BY <1>3 DEF SetIntelCpu, Abandon, NotYetSet
  <2>. QED
    BY <2>1, <2>2, <2>3
<1>4. CASE InitMsr
  <2>1. Counters' /\ Bounded'
    BY <1>4, QuietStep DEF InitMsr, Counters
  <2>2. NotYetSet'
    BY <1>4, BuildIndices DEF InitMsr, NotYetSet, Counters
  <2>. QED
    BY <2>1, <2>2
<1>5. CASE SetAmdCpu
  BY <1>5, SetterStep DEF SetAmdCpu
<1>6. CASE SetOther
  <2>1. pending' = pending \/ pending' = [pending EXCEPT ![Due] = @ + 1]
    BY <1>6 DEF SetOther, Counters
  <2>. QED
    BY <1>6, <2>1, SetterStep DEF SetOther
<1>7. CASE EnterReturns
  <2>1. Counters' /\ NotYetSet'
    BY <1>7 DEF EnterReturns, Abandon, resources, Counters, NotYetSet
  <2>2. Bounded'
    BY <1>7, QuietStep DEF EnterReturns, Abandon, resources
  <2>. QED
    BY <2>1, <2>2
<1>8. CASE Body
  <2>1. /\ UNCHANGED <<build, archMem, pending>>
        /\ pc \notin {"idle", "detect"}
        /\ \/ UNCHANGED abandoned /\ pc' \in {"visit", "visited", "wild", "exit"}
           \/ abandoned' = abandoned + 1 /\ pc' = "idle"
    BY <1>8 DEF Body, CallPlatform, MissingFeature, RefuseEnergy, BodyDone, Visiting, Advance,
                Abandon, resources
  <2>2. Bounded'
    BY <2>1, QuietStep
  <2>. QED
    BY <2>1, <2>2 DEF Counters, NotYetSet
<1>9. CASE ExitFinalizesMsr \/ ExitFinalizesUnopened
  <2>1. /\ UNCHANGED <<build, archMem, pending>>
        /\ pc \notin {"idle", "detect"}
        /\ \/ UNCHANGED abandoned /\ pc' \in {"exit", "release"}
           \/ abandoned' = abandoned + 1 /\ pc' = "idle"
    BY <1>9 DEF ExitFinalizesMsr, ExitFinalizesUnopened, Abandon
  <2>2. Bounded'
    BY <2>1, QuietStep
  <2>. QED
    BY <2>1, <2>2 DEF Counters, NotYetSet
<1>10. CASE ExitReleases
  <2>1. Counters' /\ NotYetSet'
    BY <1>10 DEF ExitReleases, Counters, NotYetSet
  <2>2. ASSUME NEW p \in Platforms
        PROVE  archMem'[p] <= abandoned /\ pending'[p] <= abandoned
    <3>1. archMem[p] <= abandoned + 1 /\ pending[p] <= abandoned + 1
      BY <1>10 DEF ExitReleases, Bounded, Taken
    <3>2. ~Has(p) => archMem[p] <= abandoned /\ pending[p] <= abandoned
      BY DEF Bounded, Has
    <3>. QED
      BY <1>10, <3>1, <3>2 DEF ExitReleases, Counters
  <2>3. Bounded'
    BY <1>10, <2>2 DEF ExitReleases, Bounded, Taken
  <2>. QED
    BY <2>1, <2>3
<1>11. CASE UNCHANGED vars
  BY <1>11 DEF vars, Counters, Bounded, Taken, NotYetSet, Compiled
<1>. QED
  BY <1>1, <1>2, <1>3, <1>4, <1>5, <1>6, <1>7, <1>8, <1>9, <1>10, <1>11
     DEF Next, Enter, Exit

\* What the library holds between calls is what abandoned calls left behind.
THEOREM LeaksComeFromAbandonedCalls == Spec => []LeaksAreAbandonedCalls
<1>1. Init => LeakInv
  BY SessionAssumption DEF Init, LeakInv, Counters, Bounded, Taken, NotYetSet
<1>2. LeakInv /\ [Next]_vars => LeakInv'
  BY LeakInvStep
<1>3. LeakInv => LeaksAreAbandonedCalls
  BY DEF LeakInv, Counters, Bounded, Taken, LeaksAreAbandonedCalls
<1>. QED
  BY <1>1, <1>2, <1>3, PTL DEF Spec

-----------------------------------------------------------------------------
(***************************************************************************)
(* A call that is still running has seen no platform fail, when its        *)
(* function gives up at the first failure.                                 *)
(***************************************************************************)
NoFailureYet ==
  /\ pc # "idle" /\ Api[api].onError = "return" => failed = {}
  /\ ZeroIsEarned

\* A call that returned 0 saw every platform function it called succeed, in any
\* build, unless it is one of the functions that ignore errors.
THEOREM SuccessIsEarned == Spec => []ZeroIsEarned
<1>1. Init => NoFailureYet
  BY DEF Init, NoFailureYet, ZeroIsEarned
<1>2. NoFailureYet /\ [Next]_vars => NoFailureYet'
  <2> SUFFICES ASSUME NoFailureYet, [Next]_vars
               PROVE  NoFailureYet'
    OBVIOUS
  <2>. USE DEF NoFailureYet, ZeroIsEarned
  <2>1. CASE \E a \in Calls : Call(a)
    BY <2>1 DEF Call
  <2>2. CASE Enter
    BY <2>2 DEF Enter, DetectArch, SetIntelCpu, InitMsr, SetAmdCpu, SetOther, EnterReturns,
                Abandon, callVars
  <2>3. CASE CallPlatform
    <3>1. pc = "visit" /\ UNCHANGED api
      BY <2>3 DEF CallPlatform, Visiting
    <3>2. \/ Advance /\ UNCHANGED <<failed, result>>
          \/ Api[api].onError = "return" /\ pc' = "idle" /\ result' = -1
          \/ Api[api].onError = "ignore" /\ Advance
      BY <2>3 DEF CallPlatform, Abandon
    <3>3. Advance => pc' # "idle"
      BY <3>1 DEF Advance
    <3>. QED
      BY <3>1, <3>2, <3>3
  <2>4. CASE MissingFeature \/ RefuseEnergy \/ BodyDone
    BY <2>4 DEF MissingFeature, RefuseEnergy, BodyDone, Visiting, Advance, Abandon
  <2>5. CASE Exit
    BY <2>5 DEF Exit, ExitFinalizesMsr, ExitFinalizesUnopened, ExitReleases, Abandon, callVars
  <2>6. CASE UNCHANGED vars
    BY <2>6 DEF vars
  <2>. QED
    BY <2>1, <2>2, <2>3, <2>4, <2>5, <2>6 DEF Next, Body
<1>. QED
  BY <1>1, <1>2, PTL DEF Spec, NoFailureYet

-----------------------------------------------------------------------------
(***************************************************************************)
(* Nothing overwrites the error of init_msr when an Intel CPU is the only  *)
(* platform: a call that gets to its body has the devices open, so         *)
(* finalize_msr runs only on an open bracket.                              *)
(***************************************************************************)
BodyHasDevices ==
  IntelOnly(build) /\ Has("intel_cpu") =>
    /\ pc = "init_msr" => i = 1
    /\ pc = "set" => i = 1 \/ (i = 2 /\ (err = 0 => msr = "open"))
    /\ pc \in {"visit", "visited"} => msr = "open"
    /\ pc = "exit" => msr \in {"open", "closing"}

\* No step changes what was compiled in.
LEMMA SameBuild == [Next]_vars => UNCHANGED build
<1>1. CASE \E a \in Calls : Call(a)
  BY <1>1 DEF Call
<1>2. CASE Enter
  BY <1>2 DEF Enter, DetectArch, SetIntelCpu, InitMsr, SetAmdCpu, SetOther, EnterReturns
<1>3. CASE Body
  BY <1>3 DEF Body, CallPlatform, MissingFeature, RefuseEnergy, BodyDone
<1>4. CASE Exit
  BY <1>4 DEF Exit, ExitFinalizesMsr, ExitFinalizesUnopened, ExitReleases
<1>. QED
  BY <1>1, <1>2, <1>3, <1>4 DEF Next, vars

\* A session keeps the devices of its bracket through the body of a call.
LEMMA SessionStep ==
  ASSUME BodyHasDevices, [Next]_vars, IntelOnly(build)
  PROVE  BodyHasDevices' /\ [Msr!AbsNext]_(Msr!absVars)
<1>0. Has("intel_cpu") => build = <<"intel_cpu">> /\ DOMAIN build = {1}
  BY DEF IntelOnly, Has, Compiled
<1>. USE DEF BodyHasDevices, Has, Compiled, Msr!AbsNext, Msr!absVars, resources
<1>1. CASE \E a \in Calls : Call(a)
  BY <1>1 DEF Call
<1>2. CASE DetectArch
  BY <1>2 DEF DetectArch, Abandon
<1>3. CASE SetIntelCpu
  BY <1>0, <1>3 DEF SetIntelCpu, Abandon
<1>4. CASE InitMsr
  BY <1>0, <1>4 DEF InitMsr, Msr!Acquire
<1>5. CASE SetAmdCpu \/ SetOther
  <2>1. Has("intel_cpu") /\ i \in DOMAIN build => Due = "intel_cpu"
    BY <1>0 DEF Due, SetupOrder
  <2>. QED
    BY <1>0, <1>5, <2>1 DEF SetAmdCpu, SetOther
<1>6. CASE EnterReturns
  BY <1>0, <1>6 DEF EnterReturns, Abandon
<1>7. CASE Body
  BY <1>7 DEF Body, CallPlatform, MissingFeature, RefuseEnergy, BodyDone, Visiting, Advance,
              Abandon
<1>8. CASE ExitFinalizesMsr
  BY <1>8 DEF ExitFinalizesMsr, Msr!StartClosing, Msr!GiveBack, Msr!Closed
<1>9. CASE ExitFinalizesUnopened
  BY <1>9 DEF ExitFinalizesUnopened
<1>10. CASE ExitReleases
  BY <1>10 DEF ExitReleases
<1>11. CASE UNCHANGED vars
  BY <1>11 DEF vars
<1>. QED
  BY <1>1, <1>2, <1>3, <1>4, <1>5, <1>6, <1>7, <1>8, <1>9, <1>10, <1>11 DEF Next, Enter, Exit

LEMMA BodyKeepsDevices == ASSUME BodyHasDevices, [Next]_vars PROVE BodyHasDevices'
<1>1. CASE IntelOnly(build)
  BY <1>1, SessionStep
<1>2. CASE ~IntelOnly(build)
  BY <1>2, SameBuild DEF BodyHasDevices
<1>. QED
  BY <1>1, <1>2

\* Sessions use the MSR devices the way their layer expects, on every build where
\* no second platform stands beside an Intel CPU.
THEOREM SessionKeepsMsrProtocol == Spec => KeepsMsrProtocol
<1>1. Init => BodyHasDevices
  BY DEF Init, BodyHasDevices
<1>2. BodyHasDevices /\ [Next]_vars =>
        BodyHasDevices' /\ (IntelOnly(build) => [Msr!AbsNext]_(Msr!absVars))
  BY SessionStep, BodyKeepsDevices
<1>3. Init => Msr!AbsInit
  BY DEF Init
<1>. QED
  BY <1>1, <1>2, <1>3, PTL DEF Spec, KeepsMsrProtocol, Msr!AbsSpec

-----------------------------------------------------------------------------
(***************************************************************************)
(* Proofs about what one call of the public API does: the types of the     *)
(* session, the platforms a call reaches, and what a platform's function   *)
(* finds when it is called; for any builds, functions and processors.      *)
(***************************************************************************)

\* What the pointers of a platform may be worth.
Worth(p) ==
  Models(p) \cup {{}} \cup (IF p = "intel_cpu" THEN {IntelAlways} ELSE {})
                      \cup (IF p = "amd_cpu" THEN {EpycWithoutEsmi} ELSE {})

EnergyCpus == {"intel_cpu", "amd_cpu", "ibm_cpu"}
Features == UNION (UNION {Supported[p] : p \in Platforms})

\* Nobody implements the feature of the functions without one, nor the energy
\* but those CPUs.
LEMMA NoSuchFeature ==
  ASSUME NEW p \in Platforms, NEW f \in Worth(p)
  PROVE  /\ "none" \notin f
         /\ p \notin EnergyCpus => "print_energy" \notin f /\ "get_energy_json" \notin f
<1>. USE DEF IntelAlways, IntelCommon, Turbo, EpycWithoutEsmi
<1>1. CASE f \in {{}, IntelAlways, EpycWithoutEsmi} /\ (p \notin EnergyCpus => f = {})
  BY <1>1
<1>2. CASE f \in Supported[p]
  <2>1. p \in {"intel_cpu", "intel_gpu", "amd_cpu", "amd_gpu", "ibm_cpu", "nvidia_gpu", "arm_cpu"}
    BY DEF Platforms, PlatformOrder
  <2>2. CASE p = "intel_cpu"
    <3>1. f \in {FM_06_2A, FM_06_2D, FM_06_3E, FM_06_3F, FM_06_4F, FM_06_55, FM_06_9E, FM_06_6A, FM_06_8F}
      BY <1>2, <2>2 DEF Supported
    <3>. QED
      BY <2>2, <3>1 DEF EnergyCpus, FM_06_2A, FM_06_2D, FM_06_3E, FM_06_3F, FM_06_4F, FM_06_55, FM_06_9E,
                        FM_06_6A, FM_06_8F
  <2>3. CASE p = "intel_gpu"
    BY <1>2, <2>3 DEF Supported, IntelGpu
  <2>4. CASE p = "amd_cpu"
    BY <1>2, <2>4 DEF Supported, EPYC, EnergyCpus
  <2>5. CASE p = "amd_gpu"
    BY <1>2, <2>5 DEF Supported, AMD_INSTINCT
  <2>6. CASE p = "ibm_cpu"
    BY <1>2, <2>6 DEF Supported, POWER9, EnergyCpus
  <2>7. CASE p = "nvidia_gpu"
    BY <1>2, <2>7 DEF Supported, VOLTA
  <2>8. CASE p = "arm_cpu"
    BY <1>2, <2>8 DEF Supported, JunoR2, NeoverseN1
  <2>. QED
    BY <2>1, <2>2, <2>3, <2>4, <2>5, <2>6, <2>7, <2>8
<1>3. f \in Supported[p] \/ (f \in {{}, IntelAlways, EpycWithoutEsmi} /\ (p \notin EnergyCpus => f = {}))
  <2>1. Models(p) \subseteq Supported[p] \cup {{}}
    BY DEF Models, Unknown
  <2>2. Worth(p) \subseteq Models(p) \cup {{}, IntelAlways, EpycWithoutEsmi}
    BY DEF Worth
  <2>3. p \notin EnergyCpus => Worth(p) \subseteq Models(p) \cup {{}}
    BY DEF Worth, EnergyCpus
  <2>. QED
    BY <2>1, <2>2, <2>3
<1>. QED
  BY <1>1, <1>2, <1>3

\* A platform's features are features.
LEMMA WorthIsFeatures == ASSUME NEW p \in Platforms PROVE Worth(p) \subseteq SUBSET Features
<1>1. \A q \in Platforms : \A f \in Supported[q] : f \subseteq Features
  BY DEF Features
<1>2. {"intel_cpu", "amd_cpu"} \subseteq Platforms
  BY DEF Platforms, PlatformOrder
<1>3. IntelAlways \subseteq Features
  <2>1. FM_06_6A \in Supported["intel_cpu"]
    BY DEF Supported
  <2>. QED
    BY <1>1, <1>2, <2>1 DEF FM_06_6A
<1>4. EpycWithoutEsmi \subseteq Features
  <2>1. EPYC \in Supported["amd_cpu"] /\ "print_energy" \in EPYC
    BY DEF Supported, EPYC
  <2>. QED
    BY <1>1, <1>2, <2>1 DEF EpycWithoutEsmi
<1>5. Models(p) \subseteq Supported[p] \cup {{}}
  BY DEF Models, Unknown
<1>6. Worth(p) \subseteq Models(p) \cup {{}, IntelAlways, EpycWithoutEsmi}
  BY DEF Worth
<1>. QED
  BY <1>1, <1>3, <1>4, <1>5, <1>6

\* What the proofs use of the rows of the public functions.
LEMMA ApiRows ==
  ASSUME NEW a \in ApiNames
  PROVE  /\ Api[a].scope = "none" => Api[a].feature = "none"
         /\ Api[a].scope = "each_if_cpu" => Api[a].feature \in {"print_energy", "get_energy_json"}
         /\ Api[a].scope = "gpu" => Api[a].missing = "call"
BY DEF ApiNames, Api, Row, ForEach, ForEachUnlessMissing, variorum_poll_power,
       variorum_print_power_limit, variorum_print_verbose_power_limit, variorum_print_features,
       variorum_print_thermals, variorum_print_verbose_thermals, variorum_print_counters,
       variorum_print_verbose_counters, variorum_print_frequency, variorum_print_verbose_frequency,
       variorum_print_power, variorum_print_verbose_power, variorum_print_turbo,
       variorum_print_gpu_utilization, variorum_print_verbose_gpu_utilization,
       variorum_get_power_json, variorum_get_thermals_json, variorum_monitoring,
       variorum_cap_gpu_power_ratio, variorum_cap_each_socket_power_limit,
       variorum_cap_each_core_frequency_limit, variorum_cap_socket_frequency_limit,
       variorum_cap_each_gpu_power_limit, variorum_enable_turbo, variorum_disable_turbo,
       variorum_print_available_frequencies, variorum_cap_best_effort_node_power_limit,
       variorum_get_node_power_domain_info_json, variorum_print_energy,
       variorum_print_verbose_energy, variorum_get_energy_json, variorum_get_frequency_json,
       variorum_get_utilization_json, variorum_tester, variorum_print_hyperthreading

\* A build is a sequence of one platform or two.
LEMMA BuildLengths ==
  ASSUME NEW b \in Builds
  PROVE  DOMAIN b = 1 .. Len(b) /\ Len(b) \in {1, 2}
<1>1. CASE \E p \in Platforms : b = <<p>>
  BY <1>1
<1>2. CASE \E q \in (DOMAIN PlatformOrder) \X (DOMAIN PlatformOrder) :
             b = <<PlatformOrder[q[1]], PlatformOrder[q[2]]>>
  BY <1>2
<1>. QED
  BY <1>1, <1>2 DEF Builds

\* The functions on one platform begin at a platform of the build, or past it.
LEMMA PrimaryIndices ==
  ASSUME NEW b \in Builds, NEW vendors
  PROVE  /\ PrimaryIndex(b, vendors) \in 1 .. Len(b) + 1
         /\ (\E k \in DOMAIN b : b[k] \in vendors) => PrimaryIndex(b, vendors) \in DOMAIN b
<1>. DEFINE here == {k \in DOMAIN b : b[k] \in vendors}
<1>1. DOMAIN b = 1 .. Len(b) /\ Len(b) \in {1, 2}
  BY BuildLengths
<1>2. CASE here = {}
  BY <1>1, <1>2 DEF PrimaryIndex
<1>3. CASE here # {}
  <2>1. \E k \in here : \A l \in here : k <= l
    <3>1. CASE 1 \in here
      BY <1>1, <3>1
    <3>2. CASE 1 \notin here
      BY <1>1, <1>3, <3>2
    <3>. QED
      BY <3>1, <3>2
  <2>2. PrimaryIndex(b, vendors) \in here
    BY <1>3, <2>1 DEF PrimaryIndex
  <2>. QED
    BY <1>1, <2>2
<1>. QED
  BY <1>2, <1>3

\* A build of two platforms has a CPU.
LEMMA PairsHaveCpu ==
  ASSUME NEW b \in Builds, Len(b) = 2
  PROVE  \E k \in DOMAIN b : b[k] \in CpuPlatforms
<1>1. PICK q \in (DOMAIN PlatformOrder) \X (DOMAIN PlatformOrder) :
        /\ b = <<PlatformOrder[q[1]], PlatformOrder[q[2]]>>
        /\ Cardinality({PlatformOrder[q[1]], PlatformOrder[q[2]]} \cap CpuPlatforms) = 1
  BY DEF Builds
<1>2. {PlatformOrder[q[1]], PlatformOrder[q[2]]} \cap CpuPlatforms # {}
  BY <1>1, FS_EmptySet
<1>. QED
  BY <1>1, <1>2

-----------------------------------------------------------------------------
(***************************************************************************)
(* The types.  What is allocated is never given back twice, because a call *)
(* frees only what it has allocated itself; the bound from above is that of*)
(* LeaksComeFromAbandonedCalls, since a call begins only below the bound   *)
(* on the abandoned ones.                                                  *)
(***************************************************************************)
Values ==
  /\ \A p \in Compiled : model[p] \in Models(p)
  /\ DOMAIN ptrs = Platforms /\ \A p \in Platforms : ptrs[p] \in Worth(p)
  /\ ptrs = [p \in Platforms |-> ptrs[p]]
  /\ pc \in States /\ api \in ApiNames
  /\ err \in {-1, 0} /\ result \in {-1, 0}
  /\ called \subseteq Platforms /\ failed \subseteq called
  /\ abandoned <= MaxAbandoned /\ (pc # "idle" => abandoned < MaxAbandoned)

Indices ==
  /\ i \in 1 .. MaxPlatforms + 1
  /\ pc = "init_msr" => i \in DOMAIN build
  /\ pc = "visit" /\ ~SinglePlatform => i \in DOMAIN build

Held ==
  \A p \in Platforms :
       /\ archMem[p] >= (IF pc \notin {"idle", "detect"} /\ Has(p) THEN 1 ELSE 0)
       /\ pending[p] >= 0

Shape == Values /\ Held /\ Indices

CallInv == LeakInv /\ Shape

\* The platform that is visited, and the one that is set up, are of the build.
LEMMA VisitedIsCompiled ==
  ASSUME CallInv, i \in DOMAIN build
  PROVE  Here \in Compiled /\ Due \in Compiled /\ Compiled \subseteq Platforms
BY CompiledPlatforms, SetupPermutesBuild DEF CallInv, LeakInv, Counters, Here, Due, Compiled

\* A function of one platform begins where it says, and any other at the first.
LEMMA FirstIndices ==
  ASSUME CallInv
  PROVE  /\ FirstIndex \in 1 .. MaxPlatforms + 1
         /\ ~SinglePlatform => FirstIndex = 1 /\ 1 \in DOMAIN build
<1>1. build \in Builds /\ DOMAIN build = 1 .. Len(build) /\ Len(build) \in {1, 2}
  BY BuildLengths DEF CallInv, LeakInv, Counters
<1>2. ASSUME NEW vendors
      PROVE  PrimaryIndex(build, vendors) \in 1 .. 3
  <2>1. PrimaryIndex(build, vendors) \in 1 .. Len(build) + 1
    BY <1>1, PrimaryIndices
  <2>2. CASE Len(build) = 1
    BY <2>1, <2>2
  <2>3. CASE Len(build) = 2
    BY <2>1, <2>3
  <2>. QED
    BY <1>1, <2>2, <2>3
<1>. QED
  BY <1>1, <1>2 DEF FirstIndex, SinglePlatform, MaxPlatforms

\* Steps that leave the pointers and what is held alone.
LEMMA ShapeOfQuietStep ==
  ASSUME CallInv, UNCHANGED <<build, model, ptrs, archMem, pending>>,
         pc' \in States, api' \in ApiNames,
         err' \in {-1, 0}, result' \in {-1, 0},
         called' \subseteq Platforms, failed' \subseteq called',
         pc \notin {"idle", "detect"},
         \/ abandoned' = abandoned /\ pc' \notin {"idle", "detect"}
         \/ abandoned' = abandoned + 1 /\ pc' = "idle"
  PROVE  Values' /\ Held'
<1>1. Compiled' = Compiled /\ abandoned \in Nat /\ MaxAbandoned \in Nat
  BY SessionAssumption DEF Compiled, CallInv, LeakInv, Counters
<1>2. abandoned' <= MaxAbandoned /\ (pc' # "idle" => abandoned' < MaxAbandoned)
  BY <1>1 DEF CallInv, Shape, Values, Held
<1>3. ASSUME NEW p \in Platforms
      PROVE  /\ archMem'[p] >= (IF pc' \notin {"idle", "detect"} /\ Has(p)' THEN 1 ELSE 0)
             /\ pending'[p] >= 0
  BY <1>1 DEF CallInv, Shape, Values, Held, Has, LeakInv, Counters
<1>. QED
  BY <1>1, <1>2, <1>3 DEF CallInv, Shape, Values, Held

\* A setter gives its platform pointers it may have, and brings one library up at most.
LEMMA ShapeOfSetter ==
  ASSUME CallInv, pc = "set", i \in DOMAIN build, i' = i + 1,
         UNCHANGED <<build, model, pc, api, called, failed, result, archMem, abandoned>>,
         err' \in {-1, 0},
         NEW w \in Worth(Due), ptrs' = ptrs \/ ptrs' = [ptrs EXCEPT ![Due] = w],
         pending' = pending \/ pending' = [pending EXCEPT ![Due] = @ + 1]
  PROVE  Values' /\ Held'
<1>1. /\ Due \in Platforms /\ Compiled' = Compiled /\ pending \in [Platforms -> Int]
      /\ \A p \in Platforms : Has(p)' <=> Has(p)
  BY VisitedIsCompiled DEF Compiled, Has, CallInv, LeakInv, Counters
<1>3. ptrs' = [p \in Platforms |-> ptrs'[p]] /\ \A p \in Platforms : ptrs'[p] \in Worth(p)
  BY <1>1 DEF CallInv, Shape, Values
<1>4. Values'
  BY <1>1, <1>3 DEF CallInv, Shape, Values
<1>5. \A p \in Platforms : pending'[p] >= 0
  BY <1>1 DEF CallInv, Shape, Held
<1>6. Held'
  BY <1>1, <1>5 DEF CallInv, Shape, Held
<1>. QED
  BY <1>4, <1>6

LEMMA HeldStep == ASSUME CallInv, [Next]_vars PROVE Values' /\ Held'
<1>0. /\ build \in Builds /\ archMem \in [Platforms -> Int] /\ pending \in [Platforms -> Int]
      /\ abandoned \in Nat /\ MaxAbandoned \in Nat
      /\ UNCHANGED build /\ Compiled' = Compiled
  BY SameBuild, SessionAssumption DEF CallInv, LeakInv, Counters, Compiled
<1>1. CASE \E a \in Calls : Call(a)
  <2>1. PICK a \in Calls : Call(a)
    BY <1>1
  <2>2. \A p \in Platforms : {} \in Worth(p)
    BY DEF Worth
  <2>3. Values'
    BY <1>0, <2>1, <2>2, SessionAssumption DEF Call, resources, CallInv, Shape, Values, States
  <2>4. Held'
    BY <1>0, <2>1 DEF Call, resources, CallInv, Shape, Held
  <2>. QED
    BY <2>3, <2>4
<1>2. CASE DetectArch
  <2>1. ASSUME NEW p \in Platforms
        PROVE  archMem'[p] >= 0 /\ (Has(p) => archMem'[p] >= 1) /\ pending'[p] >= 0
    <3>1. archMem[p] >= 0 /\ pending[p] >= 0 /\ archMem[p] \in Int
      BY <1>0, <1>2 DEF DetectArch, CallInv, Shape, Values, Held
    <3>2. archMem'[p] = archMem[p] + 1 \/ (~Has(p) /\ archMem'[p] = archMem[p])
      BY <1>2 DEF DetectArch
    <3>. QED
      BY <1>2, <3>1, <3>2 DEF DetectArch
  <2>2. /\ UNCHANGED <<model, ptrs, api, called, failed>>
        /\ pc' \in States /\ err' \in {-1, 0} /\ result' \in {-1, 0}
        /\ abandoned' <= MaxAbandoned /\ (pc' # "idle" => abandoned' < MaxAbandoned)
    BY <1>0, <1>2 DEF DetectArch, Abandon, CallInv, Shape, Values, Held, States
  <2>3. ASSUME NEW p \in Platforms
        PROVE  archMem'[p] >= (IF pc' \notin {"idle", "detect"} /\ Has(p)' THEN 1 ELSE 0)
    <3>1. Has(p)' <=> Has(p)
      BY <1>0 DEF Has
    <3>. QED
      BY <2>1, <3>1
  <2>4. Values'
    BY <1>0, <2>2 DEF CallInv, Shape, Values
  <2>5. Held'
    BY <2>1, <2>3 DEF Held
  <2>. QED
    BY <2>4, <2>5
<1>3. CASE SetIntelCpu
  <2>1. Due \in Compiled /\ Compiled \subseteq Platforms /\ IntelAlways \in Worth("intel_cpu")
    BY <1>3, VisitedIsCompiled DEF SetIntelCpu, Worth
  <2>2. model["intel_cpu"] \in Worth("intel_cpu")
    BY <1>3, <2>1 DEF SetIntelCpu, CallInv, Shape, Values, Worth
  <2>3. /\ UNCHANGED <<api, called, failed, i, err, archMem, pending, model>>
        /\ pc \notin {"idle", "detect"}
        /\ pc' \in States /\ result' \in {-1, 0}
        /\ abandoned' <= MaxAbandoned /\ (pc' # "idle" => abandoned' < MaxAbandoned)
    BY <1>0, <1>3 DEF SetIntelCpu, Abandon, CallInv, Shape, Values, States
  <2>4. /\ ptrs' = [p \in Platforms |-> ptrs'[p]]
        /\ \A p \in Platforms : ptrs'[p] \in Worth(p)
    BY <1>3, <2>1, <2>2 DEF SetIntelCpu, CallInv, Shape, Values
  <2>5. Values'
    BY <1>0, <2>3, <2>4 DEF CallInv, Shape, Values
  <2>6. Held'
    BY <1>0, <2>3 DEF CallInv, Shape, Held, Has
  <2>. QED
    BY <2>5, <2>6
<1>4. CASE InitMsr
  BY <1>0, <1>4, ShapeOfQuietStep DEF InitMsr, callVars, CallInv, Shape, Values, States
<1>5. CASE SetAmdCpu
  <2>1. Due = "amd_cpu" /\ "amd_cpu" \in Compiled
    BY <1>5, VisitedIsCompiled DEF SetAmdCpu
  <2>2. model[Due] \in Worth(Due) /\ EpycWithoutEsmi \in Worth(Due)
    BY <2>1 DEF CallInv, Shape, Values, Worth
  <2>. QED
    BY <1>5, <2>1, <2>2, ShapeOfSetter DEF SetAmdCpu, callVars
<1>6. CASE SetOther
  <2>1. model[Due] \in Worth(Due)
    BY <1>6, VisitedIsCompiled DEF SetOther, CallInv, Shape, Values, Worth
  <2>2. pending' = pending \/ pending' = [pending EXCEPT ![Due] = @ + 1]
    BY <1>0, <1>6 DEF SetOther
  <2>. QED
    BY <1>6, <2>1, <2>2, ShapeOfSetter DEF SetOther, callVars
<1>7. CASE EnterReturns
  BY <1>7, FirstIndices, ShapeOfQuietStep
     DEF EnterReturns, Abandon, resources, CallInv, Shape, Values, States
<1>8. CASE Body
  <2>2. Visiting /\ Pointer => Here \in Platforms
    BY VisitedIsCompiled DEF Pointer
  <2>3. CASE CallPlatform
    BY <2>2, <2>3, ShapeOfQuietStep
       DEF CallPlatform, Advance, Visiting, Abandon, resources, CallInv, Shape, Values, States
  <2>4. CASE MissingFeature
    BY <2>4, ShapeOfQuietStep
       DEF MissingFeature, Advance, Visiting, Abandon, resources, CallInv, Shape, Values, States
  <2>5. CASE RefuseEnergy \/ BodyDone
    BY <2>5, ShapeOfQuietStep
       DEF RefuseEnergy, BodyDone, Visiting, Abandon, resources, CallInv, Shape, Values, States
  <2>. QED
    BY <1>8, <2>3, <2>4, <2>5 DEF Body
<1>9. CASE ExitFinalizesMsr \/ ExitFinalizesUnopened
  BY <1>9, ShapeOfQuietStep
     DEF ExitFinalizesMsr, ExitFinalizesUnopened, Abandon, callVars, CallInv, Shape, Values, States
<1>10. CASE ExitReleases
  <2>1. Values'
    BY <1>0, <1>10 DEF ExitReleases, CallInv, Shape, Values, States
  <2>2. ASSUME NEW p \in Platforms
        PROVE  archMem'[p] >= 0 /\ pending'[p] >= 0
    <3>1. archMem[p] >= 0 /\ (Has(p) => archMem[p] >= 1) /\ pending[p] >= 0
      <4>1. pc \notin {"idle", "detect"}
        BY <1>10 DEF ExitReleases
      <4>2. /\ archMem[p] >= (IF pc \notin {"idle", "detect"} /\ Has(p) THEN 1 ELSE 0)
            /\ pending[p] >= 0 /\ archMem[p] \in Int
        BY <1>0 DEF CallInv, Shape, Held
      <4>. QED
        BY <4>1, <4>2
    <3>2. archMem[p] \in Int /\ pending[p] \in Int
      BY <1>0
    <3>. QED
      BY <1>10, <3>1, <3>2 DEF ExitReleases
  <2>3. Held'
    BY <1>10, <2>2 DEF ExitReleases, Held
  <2>. QED
    BY <2>1, <2>3
<1>11. CASE UNCHANGED vars
  BY <1>0, <1>11 DEF vars, CallInv, Shape, Values, Held, Has
<1>. QED
  BY <1>1, <1>2, <1>3, <1>4, <1>5, <1>6, <1>7, <1>8, <1>9, <1>10, <1>11
     DEF Next, Enter, Exit

\* The index stays in the table, and within the build in a loop over it.
LEMMA IndexStep == ASSUME CallInv, [Next]_vars PROVE Indices'
<1>0. /\ UNCHANGED build /\ DOMAIN build = 1 .. Len(build) /\ Len(build) \in {1, 2}
      /\ i \in 1 .. 3 /\ Indices
  BY SameBuild, BuildLengths DEF CallInv, LeakInv, Counters, Shape, Indices, MaxPlatforms
<1>1. ASSUME i \in DOMAIN build PROVE i + 1 \in 1 .. 3
  BY <1>0, <1>1
<1>. USE DEF Indices, MaxPlatforms
<1>2. CASE \E a \in Calls : Call(a)
  BY <1>0, <1>2 DEF Call
<1>3. CASE DetectArch
  BY <1>0, <1>3 DEF DetectArch, Abandon
<1>4. CASE SetIntelCpu
  BY <1>0, <1>4 DEF SetIntelCpu, Abandon
<1>5. CASE InitMsr
  BY <1>0, <1>1, <1>5 DEF InitMsr
<1>6. CASE SetAmdCpu \/ SetOther
  BY <1>0, <1>1, <1>6 DEF SetAmdCpu, SetOther
<1>7. CASE EnterReturns
  <2>1. SinglePlatform' <=> SinglePlatform
    BY <1>7 DEF EnterReturns, SinglePlatform
  <2>. QED
    BY <1>0, <1>7, <2>1, FirstIndices DEF EnterReturns, Abandon
<1>8. CASE CallPlatform \/ MissingFeature
  <2>1. pc = "visit" /\ (SinglePlatform' <=> SinglePlatform)
    BY <1>8 DEF CallPlatform, MissingFeature, Visiting, SinglePlatform
  <2>2. \/ UNCHANGED i /\ pc' \in {"visited", "idle", "wild"}
        \/ ~SinglePlatform /\ i # Len(build) /\ i' = i + 1
    BY <1>8 DEF CallPlatform, MissingFeature, Advance, Abandon
  <2>3. ASSUME i \in DOMAIN build, i # Len(build) PROVE i + 1 \in DOMAIN build
    <3>1. CASE Len(build) = 1
      BY <1>0, <2>3, <3>1
    <3>2. CASE Len(build) = 2
      BY <1>0, <2>3, <3>2
    <3>. QED
      BY <1>0, <3>1, <3>2
  <2>4. DOMAIN build' = DOMAIN build
    BY <1>0
  <2>5. CASE UNCHANGED i /\ pc' \in {"visited", "idle", "wild"}
    BY <1>0, <2>4, <2>5
  <2>6. CASE ~SinglePlatform /\ i # Len(build) /\ i' = i + 1
    <3>1. i \in DOMAIN build
      BY <1>0, <2>1, <2>6
    <3>2. i' \in 1 .. 3
      BY <1>1, <2>6, <3>1
    <3>3. i' \in DOMAIN build'
      BY <2>3, <2>4, <2>6, <3>1
    <3>. QED
      BY <3>2, <3>3
  <2>. QED
    BY <2>2, <2>5, <2>6
<1>9. CASE RefuseEnergy \/ BodyDone \/ Exit
  BY <1>0, <1>9 DEF RefuseEnergy, BodyDone, Exit, ExitFinalizesMsr, ExitFinalizesUnopened, ExitReleases,
                    Abandon
<1>10. CASE UNCHANGED vars
  BY <1>0, <1>10 DEF vars, SinglePlatform
<1>. QED
  BY <1>2, <1>3, <1>4, <1>5, <1>6, <1>7, <1>8, <1>9, <1>10 DEF Next, Enter, Body

LEMMA InitiallyInvariant == ASSUME Init PROVE CallInv
<1>1. LeakInv
  BY SessionAssumption DEF Init, LeakInv, Counters, Bounded, Taken, NotYetSet
<1>2. "tester" \in ApiNames /\ \A p \in Platforms : {} \in Worth(p)
  BY DEF ApiNames, Api, Worth
<1>3. Values
  BY <1>2, SessionAssumption DEF Init, Values, States
<1>4. Held
  BY DEF Init, Held
<1>5. Indices
  BY DEF Init, Indices, MaxPlatforms
<1>. QED
  BY <1>1, <1>3, <1>4, <1>5 DEF CallInv, Shape

LEMMA CallInvariant == Spec => []CallInv
<1>1. Init => CallInv
  BY InitiallyInvariant
<1>2. CallInv /\ [Next]_vars => CallInv'
  BY LeakInvStep, HeldStep, IndexStep DEF CallInv, Shape
<1>. QED
  BY <1>1, <1>2, PTL DEF Spec

\* The session keeps to its types: a call frees what it has allocated and nothing
\* twice, whatever it returns (variorum_enter, variorum_exit).
THEOREM SessionTypeCorrect == Spec => []TypeOK
<1>1. CallInv => TypeOK
  <2> SUFFICES ASSUME CallInv PROVE TypeOK
    OBVIOUS
  <2>1. ptrs \in [Platforms -> SUBSET Features]
    BY WorthIsFeatures DEF CallInv, Shape, Values
  <2>2. /\ archMem \in [Platforms -> 0 .. MaxAbandoned + 1]
        /\ pending \in [Platforms -> 0 .. MaxAbandoned + 1]
    <3>1. \A p \in Platforms : /\ archMem[p] \in 0 .. MaxAbandoned + 1
                               /\ pending[p] \in 0 .. MaxAbandoned + 1
      BY SessionAssumption
         DEF CallInv, LeakInv, Counters, Bounded, Taken, Shape, Values, Held
    <3>. QED
      BY <3>1 DEF CallInv, LeakInv, Counters
  <2>3. abandoned \in 0 .. MaxAbandoned
    BY SessionAssumption DEF CallInv, LeakInv, Counters, Shape, Values
  <2>. QED
    BY <2>1, <2>2, <2>3 DEF CallInv, LeakInv, Counters, Shape, Values, Indices, TypeOK, Features
<1>. QED
  BY <1>1, CallInvariant, PTL

-----------------------------------------------------------------------------
(***************************************************************************)
(* The platforms behind the index have been reached.                       *)
(***************************************************************************)
Reached(p) == Api[api].feature \in ptrs[p] => p \in called

ReachInv ==
  /\ pc = "visit" /\ SinglePlatform => i = FirstIndex
  /\ pc = "visit" /\ ~SinglePlatform => \A k \in DOMAIN build : k < i => Reached(build[k])
  /\ pc \in {"visited", "exit", "release"} => \A p \in Served : Reached(p)
  /\ pc = "idle" /\ result = 0 =>
       (Api[api].missing = "return_0" /\ Len(build) > 1) \/ \A p \in Served : Reached(p)

\* The same after a step that leaves the pointers and the function alone.
After(p) == Api[api].feature \in ptrs[p] => p \in called'

\* The current platform being reached, so are those up to it.
LEMMA AdvanceReaches ==
  ASSUME CallInv, ReachInv, pc = "visit", Advance, UNCHANGED <<build, ptrs, api>>,
         called \subseteq called', i \in DOMAIN build => After(Here)
  PROVE  ReachInv'
<1>1. /\ DOMAIN build = 1 .. Len(build) /\ Len(build) \in {1, 2} /\ i \in 1 .. 3
      /\ ~SinglePlatform => i \in DOMAIN build
  BY BuildLengths DEF CallInv, LeakInv, Counters, Shape, Indices, MaxPlatforms
<1>2. SinglePlatform' = SinglePlatform /\ FirstIndex' = FirstIndex /\ Served' = Served
  BY DEF SinglePlatform, FirstIndex, Served
<1>3. \A k \in DOMAIN build : Reached(build[k]) => After(build[k])
  BY DEF Reached, After
<1>4. i \in DOMAIN build => After(build[i])
  BY DEF Here
<1>5. CASE SinglePlatform
  <2>1. pc' = "visited" /\ i = FirstIndex
    BY <1>5 DEF Advance, ReachInv
  <2>2. Served = {build[k] : k \in DOMAIN build \cap {i}}
    BY <1>5, <2>1 DEF Served
  <2>3. \A p \in Served : After(p)
    BY <1>4, <2>2 DEF Reached, After
  <2>. QED
    BY <1>2, <2>1, <2>3 DEF ReachInv, Reached, After
<1>6. CASE ~SinglePlatform /\ i = Len(build)
  <2>1. pc' = "visited"
    BY <1>6 DEF Advance
  <2>2. \A k \in DOMAIN build : After(build[k])
    <3>1. \A k \in DOMAIN build : k < i \/ k = i
      BY <1>1, <1>6
    <3>. QED
      BY <1>3, <1>4, <1>6, <3>1 DEF ReachInv, Reached, After
  <2>3. \A p \in Served : After(p)
    BY <1>6, <2>2 DEF Served
  <2>. QED
    BY <1>2, <2>1, <2>3 DEF ReachInv, Reached, After
<1>7. CASE ~SinglePlatform /\ i # Len(build)
  <2>1. i' = i + 1 /\ pc' = "visit" /\ i \in DOMAIN build
    BY <1>1, <1>7 DEF Advance
  <2>2. ASSUME NEW k \in DOMAIN build, k < i + 1
        PROVE  After(build[k])
    <3>1. k < i \/ k = i
      BY <1>1, <2>2
    <3>. QED
      BY <1>3, <1>4, <1>7, <2>1, <3>1 DEF ReachInv, Reached, After
  <2>. QED
    BY <1>2, <1>7, <2>1, <2>2 DEF ReachInv, Reached, After
<1>. QED
  BY <1>5, <1>6, <1>7

\* Steps that end the call with an error, or do not touch what it has reached.
LEMMA OtherStepsReach ==
  ASSUME ReachInv,
         \/ pc' = "idle" /\ result' = -1
         \/ pc' \in {"detect", "set", "init_msr", "wild", "crashed"}
         \/ /\ pc' \in {"exit", "release"} /\ pc \in {"visited", "exit", "release"}
            /\ UNCHANGED <<build, ptrs, api, called>>
         \/ /\ pc \in {"exit", "release"} /\ pc' = "idle"
            /\ UNCHANGED <<build, ptrs, api, called>>
  PROVE  ReachInv'
BY DEF ReachInv, Reached, Served, SinglePlatform, FirstIndex

LEMMA ReachStep == ASSUME CallInv, ReachInv, [Next]_vars PROVE ReachInv'
<1>1. CASE \E a \in Calls : Call(a)
  BY <1>1, OtherStepsReach DEF Call
<1>2. CASE DetectArch \/ SetIntelCpu \/ InitMsr \/ SetAmdCpu \/ SetOther
  BY <1>2, OtherStepsReach DEF DetectArch, SetIntelCpu, InitMsr, SetAmdCpu, SetOther, Abandon
<1>3. CASE EnterReturns
  <2>1. CASE err # 0
    BY <1>3, <2>1, OtherStepsReach DEF EnterReturns, Abandon
  <2>2. CASE err = 0
    <3>1. /\ pc' = "visit" /\ i' = FirstIndex /\ UNCHANGED <<build, api>>
      BY <1>3, <2>2 DEF EnterReturns
    <3>2. SinglePlatform' = SinglePlatform /\ FirstIndex' = FirstIndex
      BY <3>1 DEF SinglePlatform, FirstIndex
    <3>3. ~SinglePlatform => \A k \in DOMAIN build : ~(k < FirstIndex)
      BY FirstIndices, BuildLengths DEF CallInv, LeakInv, Counters
    <3>. QED
      BY <3>1, <3>2, <3>3 DEF ReachInv
  <2>. QED
    BY <2>1, <2>2
<1>4. CASE CallPlatform
  <2>1. \/ Advance
        \/ pc' = "idle" /\ result' = -1
    BY <1>4 DEF CallPlatform, Abandon
  <2>2. /\ pc = "visit" /\ UNCHANGED <<build, ptrs, api>> /\ called \subseteq called'
        /\ Here \in called' /\ i \in DOMAIN build
    BY <1>4 DEF CallPlatform, Visiting, Pointer
  <2>3. CASE Advance
    <3>1. After(Here)
      BY <2>2 DEF After
    <3>. QED
      BY <2>2, <2>3, <3>1, AdvanceReaches
  <2>. QED
    BY <2>1, <2>3, OtherStepsReach
<1>5. CASE MissingFeature
  <2>1. pc = "visit" /\ UNCHANGED <<build, ptrs, api, called>> /\ ~Pointer
    BY <1>5 DEF MissingFeature, Visiting
  <2>2. CASE Advance
    <3>1. i \in DOMAIN build => After(Here)
      BY <2>1 DEF After, Pointer
    <3>. QED
      BY <2>1, <2>2, <3>1, AdvanceReaches
  <2>3. CASE (pc' = "idle" /\ result' = -1) \/ pc' = "wild"
    BY <2>3, OtherStepsReach
  <2>4. CASE Api[api].missing = "return_0" /\ pc' = "idle"
    <3>1. CASE Len(build) > 1
      BY <2>1, <2>4, <3>1 DEF ReachInv
    <3>2. CASE ~(Len(build) > 1)
      <4>1. DOMAIN build = {1} /\ Len(build) = 1 /\ i \in 1 .. 3
        <5>1. DOMAIN build = 1 .. Len(build) /\ Len(build) \in {1, 2} /\ i \in 1 .. 3
          BY BuildLengths DEF CallInv, LeakInv, Counters, Shape, Indices, MaxPlatforms
        <5>2. Len(build) = 1
          BY <3>2, <5>1
        <5>. QED
          BY <5>1, <5>2
      <4>2. \A p \in Served : ~(Api[api].feature \in ptrs[p])
        <5>1. CASE SinglePlatform
          <6>1. Served = {build[k] : k \in DOMAIN build \cap {i}}
            BY <2>1, <5>1 DEF Served, ReachInv
          <6>. QED
            BY <2>1, <6>1 DEF Pointer, Here
        <5>2. CASE ~SinglePlatform
          <6>1. i = 1
            BY <2>1, <4>1, <5>2 DEF CallInv, Shape, Indices
          <6>. QED
            BY <2>1, <4>1, <5>2, <6>1 DEF Served, Pointer, Here
        <5>. QED
          BY <5>1, <5>2
      <4>3. Served' = Served
        BY <2>1 DEF Served, SinglePlatform, FirstIndex
      <4>. QED
        BY <2>1, <2>4, <4>2, <4>3 DEF ReachInv, Reached
    <3>. QED
      BY <3>1, <3>2
  <2>. QED
    BY <1>5, <2>2, <2>3, <2>4 DEF MissingFeature, Abandon
<1>6. CASE RefuseEnergy
  <2>1. /\ pc' = "idle" /\ UNCHANGED <<build, ptrs, api, called>>
        /\ Api[api].scope = "each_if_cpu" /\ Compiled \cap EnergyCpus = {}
    BY <1>6 DEF RefuseEnergy, Abandon, NoEnergyCpu, Has, EnergyCpus
  <2>2. Api[api].feature \in {"print_energy", "get_energy_json"}
    BY <2>1, ApiRows DEF CallInv, Shape, Values
  <2>3. \A p \in Compiled : p \in Platforms /\ ptrs[p] \in Worth(p)
    BY CompiledPlatforms DEF Compiled, CallInv, LeakInv, Counters, Shape, Values
  <2>4. \A p \in Compiled : Reached(p)
    BY <2>1, <2>2, <2>3, NoSuchFeature DEF Reached
  <2>5. Served \subseteq Compiled /\ Served' = Served
    BY <2>1 DEF Served, Compiled, SinglePlatform, FirstIndex
  <2>. QED
    BY <2>1, <2>4, <2>5 DEF ReachInv, Reached
<1>7. CASE BodyDone
  <2>1. CASE pc' = "idle"
    BY <1>7, <2>1, OtherStepsReach DEF BodyDone, Abandon
  <2>2. CASE pc = "visited" /\ pc' = "exit"
    BY <1>7, <2>2, OtherStepsReach DEF BodyDone
  <2>3. CASE pc = "visit" /\ pc' = "exit"
    <3>1. UNCHANGED <<build, ptrs, api, called>> /\ Served' = Served
      BY <1>7 DEF BodyDone, Served, SinglePlatform, FirstIndex
    <3>2. CASE Api[api].scope = "none"
      <4>1. Api[api].feature = "none"
        BY <3>2, ApiRows DEF CallInv, Shape, Values
      <4>2. \A p \in Platforms : ~(Api[api].feature \in ptrs[p])
        BY <4>1, NoSuchFeature DEF CallInv, Shape, Values
      <4>3. Served \subseteq Platforms
        BY CompiledPlatforms DEF Served, CallInv, LeakInv, Counters
      <4>. QED
        BY <2>3, <3>1, <4>2, <4>3 DEF ReachInv, Reached
    <3>3. CASE Api[api].scope = "gpu" /\ i \notin DOMAIN build
      <4>1. Served = {}
        BY <2>3, <3>3 DEF Served, SinglePlatform, ReachInv
      <4>. QED
        BY <2>3, <3>1, <4>1 DEF ReachInv
    <3>. QED
      BY <1>7, <2>3, <3>2, <3>3 DEF BodyDone, Visiting
  <2>. QED
    BY <1>7, <2>1, <2>2, <2>3 DEF BodyDone, Abandon, Visiting
<1>8. CASE ExitFinalizesMsr \/ ExitReleases
  BY <1>8, OtherStepsReach DEF ExitFinalizesMsr, ExitReleases, callVars
<1>9. CASE ExitFinalizesUnopened
  <2>1. pc' = "idle" => result' = -1
    BY <1>9 DEF ExitFinalizesUnopened, Abandon
  <2>. QED
    BY <1>9, <2>1, OtherStepsReach DEF ExitFinalizesUnopened, Abandon
<1>10. CASE UNCHANGED vars
  BY <1>10 DEF vars, ReachInv, Reached, Served, SinglePlatform, FirstIndex
<1>. QED
  BY <1>1, <1>2, <1>3, <1>4, <1>5, <1>6, <1>7, <1>8, <1>9, <1>10 DEF Next, Enter, Body, Exit

LEMMA InitiallyReached == ASSUME Init PROVE ReachInv
<1>1. Served \subseteq Platforms
  BY CompiledPlatforms, SessionAssumption DEF Init, Served
<1>. QED
  BY <1>1 DEF Init, ReachInv, Reached

\* A call that returned 0 has run on every platform it is for that implements the
\* feature, except for the functions that end at the first of two platforms
\* without it (the loops over g_platform in variorum.c).
THEOREM SupportersAreReached == Spec => []SkippersReachSupporters
<1>1. Init => ReachInv
  BY InitiallyReached
<1>2. CallInv /\ ReachInv /\ [Next]_vars => ReachInv'
  BY ReachStep
<1>3. ReachInv => SkippersReachSupporters
  BY DEF ReachInv, Reached, SkippersReachSupporters, EverySupporterActs
<1>. QED
  BY <1>1, <1>2, <1>3, CallInvariant, PTL DEF Spec

-----------------------------------------------------------------------------
(***************************************************************************)
(* What a platform's function finds: the devices of the bracket, and the   *)
(* vendor libraries of the platforms set up so far.                        *)
(***************************************************************************)
GpuLibraries == {"nvidia_gpu", "intel_gpu"}

\* Every platform of a build is set up.
LEMMA SetupReachesAll ==
  ASSUME NEW b \in Builds, NEW l \in DOMAIN b
  PROVE  \E k \in DOMAIN b : SetupOrder(b)[k] = b[l]
<1>1. CASE SetupOrder(b) = b
  BY <1>1
<1>2. CASE Len(b) = 2 /\ SetupOrder(b) = <<b[2], b[1]>>
  <2>1. DOMAIN b = 1 .. 2
    BY <1>2, BuildLengths
  <2>2. l = 1 \/ l = 2
    BY <2>1
  <2>3. SetupOrder(b)[1] = b[2] /\ SetupOrder(b)[2] = b[1] /\ 1 \in DOMAIN b /\ 2 \in DOMAIN b
    BY <1>2, <2>1
  <2>. QED
    BY <2>2, <2>3
<1>. QED
  BY <1>1, <1>2 DEF SetupOrder

UpInv ==
  /\ msr = "open" => owned = Dev
  /\ pc = "init_msr" => Due = "intel_cpu"
  /\ pc \in {"set", "init_msr"} =>
       \A k \in DOMAIN build : k < i /\ SetupOrder(build)[k] \in GpuLibraries =>
                                 pending[SetupOrder(build)[k]] > 0
  /\ pc = "visit" => \A p \in Compiled \cap GpuLibraries : pending[p] > 0

\* One platform more is set up.
LEMMA SetterUp ==
  ASSUME CallInv, UpInv, i' = i + 1, pc' # "init_msr", pc \in {"set", "init_msr"}, pc' # "visit",
         UNCHANGED build, msr' = "open" => owned' = Dev,
         \A p \in Platforms : pending[p] > 0 => pending'[p] > 0,
         Due \in GpuLibraries => pending'[Due] > 0
  PROVE  UpInv'
<1>1. i \in 1 .. 3 /\ build \in Builds /\ DOMAIN build = 1 .. Len(build) /\ Len(build) \in {1, 2}
  BY BuildLengths DEF CallInv, LeakInv, Counters, Shape, Indices, MaxPlatforms
<1>2. ASSUME NEW k \in DOMAIN build, k < i + 1, SetupOrder(build)[k] \in GpuLibraries
      PROVE  pending'[SetupOrder(build)[k]] > 0
  <2>1. k < i \/ k = i
    BY <1>1, <1>2
  <2>2. SetupOrder(build)[k] \in Platforms
    BY <1>1, SetupPermutesBuild, CompiledPlatforms
  <2>. QED
    BY <1>2, <2>1, <2>2 DEF UpInv, Due
<1>. QED
  BY <1>2 DEF UpInv

LEMMA UpStep == ASSUME CallInv, UpInv, [Next]_vars PROVE UpInv'
<1>0. /\ UNCHANGED build /\ build \in Builds /\ pending \in [Platforms -> Int]
      /\ \A p \in Platforms : pending[p] >= 0
  BY SameBuild DEF CallInv, LeakInv, Counters, Shape, Held
<1>1. CASE (\E a \in Calls : Call(a)) \/ DetectArch
  <2>1. msr' = "open" => owned' = Dev
    BY <1>1 DEF Call, DetectArch, resources, UpInv
  <2>2. pc' \in {"detect", "set", "idle"} /\ (pc' = "set" => i' = 1)
    BY <1>1 DEF Call, DetectArch, Abandon
  <2>3. \A k \in DOMAIN build : ~(k < 1)
    BY <1>0, BuildLengths
  <2>. QED
    BY <1>0, <2>1, <2>2, <2>3 DEF UpInv
<1>2. CASE SetIntelCpu
  <2>1. /\ UNCHANGED <<i, pending, build>> /\ pc = "set" /\ Due = "intel_cpu"
        /\ pc' \in {"idle", "init_msr"}
    BY <1>2 DEF SetIntelCpu, Abandon
  <2>2. msr' = "open" => owned' = Dev
    BY <1>2 DEF SetIntelCpu, Abandon, UpInv, Msr!Begin
  <2>3. Due' = Due
    BY <2>1 DEF Due
  <2>. QED
    BY <2>1, <2>2, <2>3 DEF UpInv
<1>3. CASE InitMsr
  <2>1. msr' = "open" => owned' = Dev
    BY <1>3 DEF InitMsr, Msr!Acquire, Msr!Refuse
  <2>2. Due \notin GpuLibraries
    BY <1>3 DEF InitMsr, UpInv, GpuLibraries
  <2>. QED
    BY <1>0, <1>3, <2>1, <2>2, SetterUp DEF InitMsr
<1>4. CASE SetAmdCpu
  <2>1. Due \in Platforms /\ Due \notin GpuLibraries
    BY <1>4, VisitedIsCompiled DEF SetAmdCpu, GpuLibraries
  <2>2. pending' = pending \/ pending' = [pending EXCEPT !["amd_cpu"] = @ + 1]
    BY <1>4 DEF SetAmdCpu
  <2>3. \A p \in Platforms : pending[p] > 0 => pending'[p] > 0
    BY <1>0, <2>2
  <2>. QED
    BY <1>0, <1>4, <2>1, <2>3, SetterUp DEF SetAmdCpu, UpInv
<1>5. CASE SetOther
  <2>1. Due \in Platforms
    BY <1>5, VisitedIsCompiled DEF SetOther
  <2>2. /\ \A p \in Platforms : pending'[p] = pending[p] \/ pending'[p] = pending[p] + 1
        /\ Due \in GpuLibraries => pending'[Due] = pending[Due] + 1
    BY <1>0, <1>5, <2>1 DEF SetOther, GpuLibraries, WithLibrary
  <2>3. \A p \in Platforms : pending[p] > 0 => pending'[p] > 0
    BY <1>0, <2>2
  <2>4. Due \in GpuLibraries => pending'[Due] > 0
    BY <1>0, <2>1, <2>2
  <2>. QED
    BY <1>0, <1>5, <2>3, <2>4, SetterUp DEF SetOther, UpInv
<1>6. CASE EnterReturns
  <2>1. /\ pc = "set" /\ i \notin DOMAIN build /\ UNCHANGED <<pending, msr, owned>>
        /\ pc' \in {"idle", "visit"}
    BY <1>6 DEF EnterReturns, Abandon, resources
  <2>2. \A k \in DOMAIN build : k < i
    <3>1. i \in 1 .. 3 /\ DOMAIN build = 1 .. Len(build) /\ Len(build) \in {1, 2}
      BY <1>0, BuildLengths DEF CallInv, Shape, Indices, MaxPlatforms
    <3>2. CASE Len(build) = 1
      BY <2>1, <3>1, <3>2
    <3>3. CASE Len(build) = 2
      BY <2>1, <3>1, <3>3
    <3>. QED
      BY <3>1, <3>2, <3>3
  <2>3. \A p \in Compiled \cap GpuLibraries : pending[p] > 0
    BY <1>0, <2>1, <2>2, SetupReachesAll DEF Compiled, UpInv
  <2>4. Compiled' = Compiled
    BY <1>0 DEF Compiled
  <2>. QED
    BY <2>1, <2>3, <2>4 DEF UpInv
<1>7. CASE Body
  <2>1. /\ UNCHANGED <<pending, msr, owned, build>> /\ Compiled' = Compiled
        /\ pc' \notin {"set", "init_msr"} /\ (pc' = "visit" => pc = "visit")
    BY <1>7 DEF Body, CallPlatform, MissingFeature, RefuseEnergy, BodyDone, Visiting, Advance,
                Abandon, resources, Compiled
  <2>. QED
    BY <2>1 DEF UpInv
<1>8. CASE Exit
  <2>1. pc' \notin {"set", "init_msr", "visit"}
    BY <1>8 DEF Exit, ExitFinalizesMsr, ExitFinalizesUnopened, ExitReleases, Abandon
  <2>2. msr' = "open" => owned' = Dev
    BY <1>8 DEF Exit, ExitFinalizesMsr, ExitFinalizesUnopened, ExitReleases, UpInv,
                Msr!StartClosing, Msr!GiveBack, Msr!Closed
  <2>. QED
    BY <2>1, <2>2 DEF UpInv
<1>9. CASE UNCHANGED vars
  BY <1>9 DEF vars, UpInv, Due, Compiled
<1>. QED
  BY <1>1, <1>2, <1>3, <1>4, <1>5, <1>6, <1>7, <1>8, <1>9 DEF Next, Enter

\* A function of one platform that looks at its pointer looks inside the table.
LEMMA NoWildPointer ==
  ASSUME CallInv, ReachInv, MissingFeature, LooksAtPointer
  PROVE  pc' # "wild"
<1>1. /\ build \in Builds /\ DOMAIN build = 1 .. Len(build) /\ Len(build) \in {1, 2}
      /\ i \in 1 .. 3 /\ api \in ApiNames /\ pc = "visit"
      /\ ~SinglePlatform => i \in DOMAIN build
      /\ SinglePlatform => i = FirstIndex
  BY BuildLengths DEF CallInv, LeakInv, Counters, Shape, Indices, Values, MaxPlatforms, MissingFeature,
                      Visiting, ReachInv
<1>2. InTable
  <2>1. CASE ~SinglePlatform
    BY <1>1, <2>1 DEF InTable, MaxPlatforms
  <2>2. CASE Len(build) = 1 /\ SinglePlatform
    <3>1. \E vendors : i = PrimaryIndex(build, vendors)
      BY <1>1, <2>2 DEF FirstIndex, SinglePlatform
    <3>2. i \in 1 .. Len(build) + 1
      BY <1>1, <3>1, PrimaryIndices
    <3>. QED
      BY <2>2, <3>2 DEF InTable, MaxPlatforms
  <2>3. CASE Len(build) = 2 /\ SinglePlatform
    <3>1. Api[api].scope = "primary_or_arm"
      BY <1>1, <2>3, ApiRows DEF SinglePlatform, LooksAtPointer
    <3>2. i = PrimaryIndex(build, CpuPlatforms)
      BY <1>1, <2>3, <3>1 DEF FirstIndex
    <3>3. i \in DOMAIN build
      BY <1>1, <2>3, <3>2, PairsHaveCpu, PrimaryIndices
    <3>. QED
      BY <1>1, <2>3, <3>3 DEF InTable, MaxPlatforms
  <2>. QED
    BY <1>1, <2>1, <2>2, <2>3
<1>3. Api[api].missing # "call"
  BY DEF LooksAtPointer
<1>4. pc' # "wild" \/ (Api[api].missing = "call" \/ ~InTable)
  BY <1>1 DEF MissingFeature, Advance, Abandon
<1>. QED
  BY <1>2, <1>3, <1>4

\* A platform's function is called with the devices and the library it works
\* through brought up by the same call, and no function that looks at its pointer
\* goes through one that is none (set_*_func_ptrs, and the tests for NULL in
\* variorum.c).
THEOREM PointersLeadHome == Spec => PointersFindTheirPlatform
<1>1. Init => UpInv /\ ReachInv /\ BodyHasDevices
  <2>1. Init => UpInv
    BY DEF Init, UpInv, Msr!AbsInit
  <2>2. Init => BodyHasDevices
    BY DEF Init, BodyHasDevices
  <2>. QED
    BY <2>1, <2>2, InitiallyReached
<1>2. CallInv /\ UpInv /\ ReachInv /\ BodyHasDevices /\ [Next]_vars =>
        UpInv' /\ ReachInv' /\ BodyHasDevices'
  BY UpStep, ReachStep, BodyKeepsDevices
<1>3. CallInv /\ UpInv /\ ReachInv /\ BodyHasDevices /\ [Next]_vars =>
        [/\ LooksAtPointer => pc' # "wild"
         /\ \A p \in called' \ called :
              /\ p = "intel_cpu" /\ IntelOnly(build) => msr = "open" /\ owned = Dev
              /\ p \in {"nvidia_gpu", "intel_gpu"} => pending[p] > 0]_vars
  <2> SUFFICES ASSUME CallInv, UpInv, ReachInv, BodyHasDevices, Next
               PROVE  /\ LooksAtPointer => pc' # "wild"
                      /\ \A p \in called' \ called :
                           /\ p = "intel_cpu" /\ IntelOnly(build) => msr = "open" /\ owned = Dev
                           /\ p \in {"nvidia_gpu", "intel_gpu"} => pending[p] > 0
    OBVIOUS
  <2>1. CASE CallPlatform
    <3>1. /\ pc = "visit" /\ Here \in Compiled /\ called' = called \cup {Here}
          /\ pc' # "wild"
      BY <2>1, VisitedIsCompiled DEF CallPlatform, Visiting, Pointer, Advance, Abandon
    <3>2. Here \in GpuLibraries => pending[Here] > 0
      BY <3>1 DEF UpInv
    <3>3. Here = "intel_cpu" /\ IntelOnly(build) => msr = "open" /\ owned = Dev
      BY <3>1 DEF BodyHasDevices, Has, UpInv
    <3>. QED
      BY <3>1, <3>2, <3>3 DEF GpuLibraries
  <2>2. CASE MissingFeature
    BY <2>2, NoWildPointer DEF MissingFeature
  <2>3. CASE (\E a \in Calls : Call(a)) \/ Enter \/ RefuseEnergy \/ BodyDone \/ Exit
    <3>1. called' \subseteq called
      BY <2>3 DEF Call, Enter, DetectArch, SetIntelCpu, InitMsr, SetAmdCpu, SetOther, EnterReturns,
                  RefuseEnergy, BodyDone, Exit, ExitFinalizesMsr, ExitFinalizesUnopened,
                  ExitReleases, callVars
    <3>2. pc' # "wild"
      BY <2>3 DEF Call, Enter, DetectArch, SetIntelCpu, InitMsr, SetAmdCpu, SetOther, EnterReturns,
                  RefuseEnergy, BodyDone, Exit, ExitFinalizesMsr, ExitFinalizesUnopened,
                  ExitReleases, Abandon
    <3>. QED
      BY <3>1, <3>2
  <2>. QED
    BY <2>1, <2>2, <2>3 DEF Next, Body
<1>. QED
  BY <1>1, <1>2, <1>3, CallInvariant, PTL DEF Spec, PointersFindTheirPlatform


-----------------------------------------------------------------------------
(***************************************************************************)
(* The devices: the loops that open and close them implement the bracket   *)
(* that the calls of a session expect.                                     *)
(***************************************************************************)

\* The initial state is well typed: the states the nodes start in are some of
\* the states a node may have.
LEMMA InitialTypes == MsrInit => MsrTypeOK
<1> SUFFICES ASSUME MsrInit
             PROVE  MsrTypeOK
  OBVIOUS
<1>1. \A k \in {0, 1} : devfs[k] \in [Threads -> NodeStates]
  BY DEF MsrInit
<1>2. [Threads -> NodeStates] \subseteq [Threads -> NodeKinds]
  BY DevicesAssumption
<1>3. devfs \in [{0, 1} -> [Threads -> NodeKinds]] /\ allow \in NodeKinds
  BY <1>1, <1>2, DevicesAssumption DEF MsrInit
<1>4. slot \in [Threads -> Int]
  BY DevicesAssumption DEF MsrInit
<1>5. fds \in [Fd -> {Free, Caller} \cup Threads]
  BY DEF MsrInit
<1>. QED
  BY <1>3, <1>4, <1>5, DevicesAssumption DEF MsrInit, MsrTypeOK, Phases

\* Type correctness of the device layer.
THEOREM DevicesTypeCorrect == MsrSpec => []MsrTypeOK
<1>1. MsrTypeOK /\ [MsrNext]_msrVars => MsrTypeOK'
  <2> SUFFICES ASSUME MsrTypeOK, [MsrNext]_msrVars
               PROVE  MsrTypeOK'
    OBVIOUS
  <2>. USE DevicesAssumption DEF MsrTypeOK
  <2>1. CASE StartInitMsr
    BY <2>1 DEF StartInitMsr, ProbeAllowlist, Phases
  <2>2. CASE FinalizeMsr
    BY <2>2 DEF FinalizeMsr, Phases
  <2>3. CASE StatFails
    BY <2>3 DEF StatFails, Phases
  <2>4. CASE PermissionDenied
    BY <2>4 DEF PermissionDenied, Phases
  <2>5. CASE OpenDevice
    <3>1. dev_idx \in Threads \cup {Caller} /\ dev_idx + 1 \in -1 .. NThreads
      BY <2>5 DEF OpenDevice, Threads, Caller
    <3>2. PICK f \in Fd : /\ fds' = [fds EXCEPT ![f] = dev_idx]
                          /\ slot' = [slot EXCEPT ![dev_idx] = f]
      BY <2>5 DEF OpenDevice
    <3>3. f \in Int
      BY DEF Fd
    <3>. QED
      BY <2>5, <3>1, <3>2, <3>3 DEF OpenDevice
  <2>6. CASE OpenFails
    <3>1. phase' \in Phases
      BY <2>6 DEF OpenFails, Phases
    <3>2. slot' \in [Threads -> Int]
      <4>1. slot' = [slot EXCEPT ![dev_idx] = -1] /\ -1 \in Int
        BY <2>6 DEF OpenFails
      <4>. QED
        BY <4>1
    <3>. QED
      BY <2>6, <3>1, <3>2 DEF OpenFails
  <2>7. CASE InitDone
    BY <2>7 DEF InitDone, Phases
  <2>8. CASE CloseDevice
    <3>1. dev_idx + 1 \in -1 .. NThreads
      BY <2>8 DEF CloseDevice
    <3>2. fds' \in [Fd -> {Free, Caller} \cup Threads] /\ slot' \in [Threads -> Int]
      BY <2>8 DEF CloseDevice
    <3>. QED
      BY <2>8, <3>1, <3>2 DEF CloseDevice
  <2>9. CASE FinalizeDone
    BY <2>9 DEF FinalizeDone, Phases
  <2>10. CASE CallerOpens
    BY <2>10 DEF CallerOpens
  <2>11. CASE CallerCloses
    BY <2>11 DEF CallerCloses
  <2>12. CASE UNCHANGED msrVars
    BY <2>12 DEF msrVars
  <2>. QED
    BY <2>1, <2>2, <2>3, <2>4, <2>5, <2>6, <2>7, <2>8, <2>9, <2>10, <2>11, <2>12
       DEF MsrNext, LibraryStep
<1>. QED
  BY <1>1, InitialTypes, PTL DEF MsrSpec

-----------------------------------------------------------------------------
(***************************************************************************)
(* The inductive invariant: inside a bracket, every slot the loop has      *)
(* filled and not yet emptied names a descriptor open on its own device.   *)
(* "AccessReachesOwnDevice" alone is not inductive: it says nothing of the *)
(* half-filled table.                                                      *)
(***************************************************************************)
BracketHolds ==
  /\ phase \in {"opening", "closing"} => dev_idx \in 0 .. NThreads
  /\ \A d \in InBracket : Holds(d)

\* Inside the loops the next slot to be treated is a slot of the table.
LEMMA LoopVariableInTable ==
  ASSUME MsrTypeOK, BracketHolds, phase \in {"opening", "closing"}, dev_idx < NThreads
  PROVE  dev_idx \in Threads /\ dev_idx + 1 \in 0 .. NThreads
BY DevicesAssumption DEF BracketHolds, Threads

\* A free descriptor taken, or one of the caller's given back, takes nothing
\* from a slot that names an MSR device.
LEMMA OtherFdsKeepSlots ==
  ASSUME MsrTypeOK, NEW f \in Fd, NEW v \in {Free, Caller}, fds[f] \in {Free, Caller},
         fds' = [fds EXCEPT ![f] = v],
         NEW d \in Threads, Holds(d), slot'[d] = slot[d]
  PROVE  Holds(d)'
BY DevicesAssumption DEF MsrTypeOK, Holds, Threads, Free, Caller

\* Each step of the library preserves the bracket invariant when the error of
\* init_msr is not overwritten.
LEMMA BracketHoldsStep ==
  ASSUME ~MaskInitError, MsrTypeOK, BracketHolds, [MsrNext]_msrVars
  PROVE  BracketHolds'
<1>. USE DevicesAssumption
<1>1. CASE StartInitMsr
  BY <1>1 DEF StartInitMsr, BracketHolds, InBracket, Threads
<1>2. CASE FinalizeMsr
  <2>1. phase = "open" /\ InBracket = Threads
    BY <1>2 DEF FinalizeMsr, InBracket
  <2>2. InBracket' \subseteq Threads
    BY <1>2 DEF FinalizeMsr, InBracket
  <2>3. \A d \in Threads : Holds(d)'
    BY <1>2, <2>1 DEF FinalizeMsr, Holds, BracketHolds
  <2>. QED
    BY <1>2, <2>2, <2>3 DEF FinalizeMsr, BracketHolds
<1>3. CASE StatFails
  BY <1>3 DEF StatFails, BracketHolds, InBracket
<1>4. CASE PermissionDenied
  BY <1>4 DEF PermissionDenied, BracketHolds, InBracket
<1>5. CASE OpenDevice
  <2>1. dev_idx \in Threads /\ dev_idx + 1 \in 0 .. NThreads
    BY <1>5, LoopVariableInTable DEF OpenDevice
  <2>2. PICK f \in Fd : /\ fds[f] = Free
                        /\ fds' = [fds EXCEPT ![f] = dev_idx]
                        /\ slot' = [slot EXCEPT ![dev_idx] = f]
    BY <1>5 DEF OpenDevice, LowestFree
  <2>3. ASSUME NEW d \in InBracket'
        PROVE  Holds(d)'
    <3>1. d \in Threads /\ d < dev_idx + 1
      BY <2>3, <1>5 DEF OpenDevice, InBracket
    <3>2. CASE d = dev_idx
      BY <3>2, <2>1, <2>2 DEF Holds, MsrTypeOK
    <3>3. CASE d # dev_idx
      <4>1. d \in InBracket
        BY <3>1, <3>3, <2>1, <1>5 DEF OpenDevice, InBracket, Threads
      <4>2. slot'[d] = slot[d]
        BY <3>1, <3>3, <2>2 DEF MsrTypeOK
      <4>3. Holds(d)
        BY <4>1 DEF BracketHolds
      <4>. QED
        BY <4>2, <4>3, <3>1, <2>2 DEF Holds, MsrTypeOK, Free, Threads
    <3>. QED
      BY <3>2, <3>3
  <2>. QED
    BY <1>5, <2>1, <2>3 DEF OpenDevice, BracketHolds
<1>6. CASE OpenFails
  <2>1. dev_idx \in Threads
    BY <1>6, LoopVariableInTable DEF OpenFails
  <2>2. ASSUME NEW d \in InBracket'
        PROVE  Holds(d)'
    <3>1. d \in InBracket /\ d \in Threads /\ d # dev_idx
      BY <2>2, <1>6, <2>1 DEF OpenFails, InBracket, Threads
    <3>2. slot'[d] = slot[d] /\ fds' = fds
      BY <3>1, <1>6 DEF OpenFails, MsrTypeOK
    <3>. QED
      BY <3>1, <3>2 DEF Holds, BracketHolds
  <2>. QED
    BY <1>6, <2>2 DEF OpenFails, BracketHolds
<1>7. CASE InitDone
  <2>1. \A d \in Threads : d \in InBracket
    BY <1>7 DEF InitDone, InBracket, Threads
  <2>2. \A d \in InBracket' : d \in Threads
    BY <1>7 DEF InitDone, InBracket
  <2>3. \A d \in Threads : Holds(d)'
    BY <1>7, <2>1 DEF InitDone, Holds, BracketHolds
  <2>. QED
    BY <1>7, <2>2, <2>3 DEF InitDone, BracketHolds
<1>8. CASE CloseDevice
  <2>1. dev_idx \in Threads /\ dev_idx + 1 \in 0 .. NThreads
    BY <1>8, LoopVariableInTable DEF CloseDevice
  <2>2. dev_idx \in InBracket
    BY <1>8, <2>1 DEF CloseDevice, InBracket, Threads
  <2>3. Holds(dev_idx)
    BY <2>2 DEF BracketHolds
  <2>4. /\ fds' = [fds EXCEPT ![slot[dev_idx]] = Free]
        /\ slot' = [slot EXCEPT ![dev_idx] = 0]
    BY <1>8, <2>1, <2>3 DEF CloseDevice, IsOpenFd, Holds, Free, Threads
  <2>5. ASSUME NEW d \in InBracket'
        PROVE  Holds(d)'
    <3>1. d \in InBracket /\ d \in Threads /\ d # dev_idx
      BY <2>5, <1>8, <2>1 DEF CloseDevice, InBracket, Threads
    <3>2. Holds(d)
      BY <3>1 DEF BracketHolds
    <3>3. slot[d] # slot[dev_idx] /\ slot'[d] = slot[d]
      BY <3>1, <3>2, <2>3, <2>4 DEF Holds, MsrTypeOK
    <3>. QED
      BY <3>2, <3>3, <2>4 DEF Holds, MsrTypeOK
  <2>. QED
    BY <1>8, <2>1, <2>5 DEF CloseDevice, BracketHolds
<1>9. CASE FinalizeDone
  BY <1>9 DEF FinalizeDone, BracketHolds, InBracket
<1>10. CASE CallerOpens
  <2>1. PICK f \in Fd : fds[f] = Free /\ fds' = [fds EXCEPT ![f] = Caller]
    BY <1>10 DEF CallerOpens, LowestFree
  <2>2. InBracket' = InBracket /\ InBracket \subseteq Threads
    BY <1>10 DEF CallerOpens, InBracket
  <2>3. \A d \in InBracket : Holds(d)'
    BY <1>10, <2>1, <2>2, OtherFdsKeepSlots DEF CallerOpens, BracketHolds
  <2>. QED
    BY <1>10, <2>2, <2>3 DEF CallerOpens, BracketHolds
<1>11. CASE CallerCloses
  <2>1. PICK f \in Fd : fds[f] = Caller /\ fds' = [fds EXCEPT ![f] = Free]
    BY <1>11 DEF CallerCloses
  <2>2. InBracket' = InBracket /\ InBracket \subseteq Threads
    BY <1>11 DEF CallerCloses, InBracket
  <2>3. \A d \in InBracket : Holds(d)'
    BY <1>11, <2>1, <2>2, OtherFdsKeepSlots DEF CallerCloses, BracketHolds
  <2>. QED
    BY <1>11, <2>2, <2>3 DEF CallerCloses, BracketHolds
<1>12. CASE UNCHANGED msrVars
  BY <1>12 DEF msrVars, BracketHolds, InBracket, Holds
<1>. QED
  BY <1>1, <1>2, <1>3, <1>4, <1>5, <1>6, <1>7, <1>8, <1>9, <1>10, <1>11, <1>12
     DEF MsrNext, LibraryStep

\* The bracket invariant of the device layer.
THEOREM BracketInvariant ==
  ASSUME ~MaskInitError
  PROVE  MsrSpec => []BracketHolds
<1>1. MsrInit => BracketHolds
  BY DEF MsrInit, BracketHolds, InBracket
<1>2. MsrTypeOK /\ BracketHolds /\ [MsrNext]_msrVars => BracketHolds'
  BY BracketHoldsStep
<1>. QED
  BY <1>1, <1>2, DevicesTypeCorrect, PTL DEF MsrSpec

\* Between a successful init_msr and finalize_msr every register access reaches
\* the device of the processor it names.
THEOREM AccessesReachOwnDevice ==
  ASSUME ~MaskInitError
  PROVE  MsrSpec => []AccessReachesOwnDevice
<1>1. BracketHolds => AccessReachesOwnDevice
  BY DEF BracketHolds, AccessReachesOwnDevice, InBracket
<1>. QED
  BY <1>1, BracketInvariant, PTL

-----------------------------------------------------------------------------
\* Only CloseDevice moves the loop variable of the closing loop, and the slot
\* it closes through names an MSR device, never a file of the caller's.
LEMMA FinalizeStep ==
  ASSUME MsrTypeOK, BracketHolds, [MsrNext]_msrVars, phase = "closing",
         dev_idx' # dev_idx, NEW f \in Fd, fds[f] = Caller
  PROVE  fds'[f] = Caller
<1>1. CloseDevice
  BY DEF MsrNext, LibraryStep, StartInitMsr, FinalizeMsr, StatFails, PermissionDenied, OpenDevice,
         OpenFails, InitDone, FinalizeDone, CallerOpens, CallerCloses, msrVars
<1>2. dev_idx \in Threads /\ dev_idx \in InBracket
  BY <1>1, LoopVariableInTable DEF CloseDevice, InBracket, Threads
<1>3. slot[dev_idx] \in Fd /\ fds[slot[dev_idx]] = dev_idx
  BY <1>2 DEF BracketHolds, Holds
<1>4. slot[dev_idx] # f
  BY <1>2, <1>3 DEF Caller, Threads
<1>5. fds' = [fds EXCEPT ![slot[dev_idx]] = Free]
  BY <1>1, <1>2, <1>3 DEF CloseDevice, IsOpenFd, Free, Threads
<1>. QED
  BY <1>4, <1>5 DEF MsrTypeOK

\* finalize_msr never closes a file of the caller's.
THEOREM FinalizeSparesCaller ==
  ASSUME ~MaskInitError
  PROVE  MsrSpec => FinalizeClosesOnlyMsr
<1>1. MsrTypeOK /\ BracketHolds /\ [MsrNext]_msrVars =>
        [phase = "closing" /\ dev_idx' # dev_idx =>
           \A f \in Fd : fds[f] = Caller => fds'[f] = Caller]_msrVars
  BY FinalizeStep
<1>. QED
  BY <1>1, DevicesTypeCorrect, BracketInvariant, PTL DEF MsrSpec, FinalizeClosesOnlyMsr

-----------------------------------------------------------------------------
\* What a device may cost: one descriptor for each bracket given up, and one for
\* the bracket in progress while it has, or may have, the device.
Charge(d) == IF d \in InBracket \/ phase \in {"failed", "crashed"} THEN 1 ELSE 0

LEMMA OpenedCounts ==
  ASSUME NEW d
  PROVE  /\ IsFiniteSet(Opened(d)) /\ IsFiniteSet(Opened(d)')
         /\ Cardinality(Opened(d)) \in Nat /\ Cardinality(Opened(d)') \in Nat
<1>1. IsFiniteSet(Fd)
  BY DevicesAssumption, FS_Interval DEF Fd
<1>2. Opened(d) \subseteq Fd /\ Opened(d)' \subseteq Fd
  BY DEF Opened
<1>. QED
  BY <1>1, <1>2, FS_Subset, FS_CardinalityType

\* A step that opens and closes no MSR device keeps the bound if it keeps the
\* charge, or gives the bracket up.
LEMMA SameDescriptors ==
  ASSUME MsrTypeOK, MsrTypeOK', LeaksOnlyWhenAbandoned, NEW d \in Threads,
         Opened(d)' = Opened(d), leftOpen + Charge(d) <= leftOpen' + Charge(d)'
  PROVE  Cardinality(Opened(d)') <= leftOpen' + Charge(d)'
<1>1. Cardinality(Opened(d)) <= leftOpen + Charge(d)
  BY DEF LeaksOnlyWhenAbandoned, Charge
<1>2. Charge(d) \in Nat /\ Charge(d)' \in Nat /\ leftOpen \in Nat /\ leftOpen' \in Nat
  BY DevicesAssumption DEF Charge, MsrTypeOK
<1>. QED
  BY <1>1, <1>2, OpenedCounts

\* The bound is kept by every step: OpenDevice takes a descriptor for the device
\* it begins to be charged for, CloseDevice gives that descriptor back.
LEMMA LeaksStep ==
  ASSUME ~MaskInitError, MsrTypeOK, MsrTypeOK', BracketHolds, LeaksOnlyWhenAbandoned, [MsrNext]_msrVars
  PROVE  LeaksOnlyWhenAbandoned'
<1> SUFFICES ASSUME NEW d \in Threads
             PROVE  Cardinality(Opened(d)') <= leftOpen' + Charge(d)'
  BY DEF LeaksOnlyWhenAbandoned, Charge
<1>. USE DevicesAssumption
<1>1. CASE StartInitMsr
  <2>1. Opened(d)' = Opened(d)
    BY <1>1 DEF StartInitMsr, Opened
  <2>2. leftOpen + Charge(d) <= leftOpen' + Charge(d)'
    BY <1>1 DEF StartInitMsr, Charge, InBracket, MsrTypeOK, Threads
  <2>. QED
    BY <2>1, <2>2, SameDescriptors
<1>2. CASE FinalizeMsr \/ InitDone \/ FinalizeDone \/ UNCHANGED msrVars
  <2>1. Opened(d)' = Opened(d)
    BY <1>2 DEF FinalizeMsr, InitDone, FinalizeDone, msrVars, Opened
  <2>2. Charge(d)' = Charge(d) /\ leftOpen' = leftOpen
    BY <1>2 DEF FinalizeMsr, InitDone, FinalizeDone, msrVars, Charge, InBracket, MsrTypeOK, Threads
  <2>3. leftOpen + Charge(d) <= leftOpen' + Charge(d)'
    BY <2>2 DEF Charge, MsrTypeOK
  <2>. QED
    BY <2>1, <2>3, SameDescriptors
<1>3. CASE StatFails \/ PermissionDenied \/ OpenFails
  <2>1. Opened(d)' = Opened(d) /\ leftOpen' = leftOpen
    BY <1>3 DEF StatFails, PermissionDenied, OpenFails, Opened
  <2>2. Charge(d)' = 1 \/ Charge(d)' = Charge(d)
    BY <1>3 DEF StatFails, PermissionDenied, OpenFails, Charge, InBracket
  <2>3. leftOpen + Charge(d) <= leftOpen' + Charge(d)'
    BY <2>1, <2>2 DEF Charge, MsrTypeOK
  <2>. QED
    BY <2>1, <2>3, SameDescriptors
<1>4. CASE OpenDevice
  <2>1. PICK f \in Fd : LowestFree(f) /\ fds' = [fds EXCEPT ![f] = dev_idx]
    BY <1>4 DEF OpenDevice
  <2>2. dev_idx \in Threads /\ fds[f] = Free /\ leftOpen' = leftOpen
    BY <1>4, <2>1, LoopVariableInTable DEF OpenDevice, LowestFree
  <2>3. CASE d = dev_idx
    <3>1. Opened(d)' = Opened(d) \cup {f} /\ f \notin Opened(d)
      BY <2>1, <2>2, <2>3 DEF Opened, MsrTypeOK, Free, Threads
    <3>2. Cardinality(Opened(d)') = Cardinality(Opened(d)) + 1
      BY <3>1, OpenedCounts, FS_AddElement
    <3>3. Charge(d) = 0 /\ Charge(d)' = 1
      BY <1>4, <2>3 DEF OpenDevice, Charge, InBracket, Threads
    <3>4. Cardinality(Opened(d)) <= leftOpen + Charge(d)
      BY DEF LeaksOnlyWhenAbandoned, Charge
    <3>. QED
      BY <2>2, <3>2, <3>3, <3>4, OpenedCounts DEF MsrTypeOK
  <2>4. CASE d # dev_idx
    <3>1. Opened(d)' = Opened(d)
      BY <2>1, <2>2, <2>4 DEF Opened, MsrTypeOK, Free, Threads
    <3>2. Charge(d)' = Charge(d)
      BY <1>4, <2>2, <2>4 DEF OpenDevice, Charge, InBracket, Threads
    <3>3. leftOpen + Charge(d) <= leftOpen' + Charge(d)'
      BY <2>2, <3>2 DEF Charge, MsrTypeOK
    <3>. QED
      BY <3>1, <3>3, SameDescriptors
  <2>. QED
    BY <2>3, <2>4
<1>5. CASE CloseDevice
  <2>1. dev_idx \in Threads /\ dev_idx \in InBracket /\ leftOpen' = leftOpen
    BY <1>5, LoopVariableInTable DEF CloseDevice, InBracket, Threads
  <2>2. slot[dev_idx] \in Fd /\ fds[slot[dev_idx]] = dev_idx
    BY <2>1 DEF BracketHolds, Holds
  <2>3. fds' = [fds EXCEPT ![slot[dev_idx]] = Free]
    BY <1>5, <2>1, <2>2 DEF CloseDevice, IsOpenFd, Free, Threads
  <2>4. CASE d = dev_idx
    <3>1. Opened(d)' = Opened(d) \ {slot[d]} /\ slot[d] \in Opened(d)
      BY <2>1, <2>2, <2>3, <2>4 DEF Opened, MsrTypeOK, Free, Threads
    <3>2. Cardinality(Opened(d)') = Cardinality(Opened(d)) - 1
      <4>1. IsFiniteSet(Opened(d))
        BY OpenedCounts
      <4>2. Cardinality(Opened(d) \ {slot[d]}) = Cardinality(Opened(d)) - 1
        BY <3>1, <4>1, FS_RemoveElement
      <4>. QED
        BY <3>1, <4>2
    <3>3. Charge(d) = 1 /\ Charge(d)' \in Nat
      BY <2>1, <2>4 DEF Charge
    <3>4. Cardinality(Opened(d)) <= leftOpen + Charge(d)
      BY DEF LeaksOnlyWhenAbandoned, Charge
    <3>. QED
      BY <2>1, <3>2, <3>3, <3>4, OpenedCounts DEF MsrTypeOK
  <2>5. CASE d # dev_idx
    <3>1. Opened(d)' = Opened(d)
      BY <2>1, <2>2, <2>3, <2>5 DEF Opened, MsrTypeOK, Free, Threads
    <3>2. Charge(d)' = Charge(d)
      BY <1>5, <2>1, <2>5 DEF CloseDevice, Charge, InBracket, Threads
    <3>3. leftOpen + Charge(d) <= leftOpen' + Charge(d)'
      BY <2>1, <3>2 DEF Charge, MsrTypeOK
    <3>. QED
      BY <3>1, <3>3, SameDescriptors
  <2>. QED
    BY <2>4, <2>5
<1>6. CASE CallerOpens \/ CallerCloses
  <2>1. PICK f \in Fd, v \in {Free, Caller} :
          fds[f] \in {Free, Caller} /\ fds' = [fds EXCEPT ![f] = v]
    BY <1>6 DEF CallerOpens, CallerCloses, LowestFree
  <2>2. Opened(d)' = Opened(d)
    BY <2>1 DEF Opened, MsrTypeOK, Free, Caller, Threads
  <2>3. Charge(d)' = Charge(d) /\ leftOpen' = leftOpen
    BY <1>6 DEF CallerOpens, CallerCloses, Charge, InBracket
  <2>4. leftOpen + Charge(d) <= leftOpen' + Charge(d)'
    BY <2>3 DEF Charge, MsrTypeOK
  <2>. QED
    BY <2>2, <2>4, SameDescriptors
<1>. QED
  BY <1>1, <1>2, <1>3, <1>4, <1>5, <1>6 DEF MsrNext, LibraryStep

\* What is lost is one descriptor for each processor and call that returned
\* without variorum_exit, whatever failed half way and whatever was reused.
THEOREM LeaksComeFromAbandonedBrackets ==
  ASSUME ~MaskInitError
  PROVE  MsrSpec => []LeaksOnlyWhenAbandoned
<1>1. MsrInit => LeaksOnlyWhenAbandoned
  <2> SUFFICES ASSUME MsrInit, NEW d \in Threads
               PROVE  Cardinality(Opened(d)) <= leftOpen + Charge(d)
    BY DEF LeaksOnlyWhenAbandoned, Charge
  <2>1. Opened(d) = {}
    BY DEF MsrInit, Opened, Free, Caller, Threads
  <2>. QED
    BY <2>1, FS_EmptySet DEF MsrInit, Charge
<1>2. MsrTypeOK /\ MsrTypeOK' /\ BracketHolds /\ LeaksOnlyWhenAbandoned /\ [MsrNext]_msrVars
        => LeaksOnlyWhenAbandoned'
  BY LeaksStep
<1>. QED
  BY <1>1, <1>2, DevicesTypeCorrect, BracketInvariant, PTL DEF MsrSpec

-----------------------------------------------------------------------------
\* In the open and closing phases the bracket owns exactly its devices.
LEMMA OwnedIsBracket ==
  ASSUME BracketHolds, phase \in {"open", "closing"}
  PROVE  Owned = InBracket
BY DEF Owned, BracketHolds

\* Every step of the descriptor loops is a step of the all-or-nothing bracket,
\* or leaves it unchanged.
LEMMA StepSimulation ==
  ASSUME ~MaskInitError, MsrTypeOK, BracketHolds, BracketHolds', [MsrNext]_msrVars
  PROVE  [Promise!AbsNext]_(Promise!absVars)
<1>. USE DEF Promise!AbsNext, Promise!absVars
<1>1. CASE StartInitMsr
  BY <1>1 DEF StartInitMsr, Promise!Begin, Owned
<1>2. CASE FinalizeMsr
  <2>1. phase = "open" /\ phase' = "closing" /\ dev_idx' = 0
    BY <1>2 DEF FinalizeMsr
  <2>2. Owned = Threads
    BY <2>1, OwnedIsBracket DEF InBracket
  <2>3. Owned' = Threads
    <3>1. \A d \in Threads : d >= 0
      BY DEF Threads
    <3>2. InBracket' = Threads
      BY <2>1, <3>1 DEF InBracket
    <3>3. Owned' = InBracket'
      BY <2>1 DEF Owned, BracketHolds
    <3>. QED
      BY <3>2, <3>3
  <2>. QED
    BY <2>1, <2>2, <2>3 DEF Promise!StartClosing
<1>3. CASE StatFails
  BY <1>3 DEF StatFails, Promise!Refuse, Owned
<1>4. CASE PermissionDenied
  BY <1>4 DEF PermissionDenied, Promise!Refuse, Owned
<1>5. CASE OpenDevice
  BY <1>5 DEF OpenDevice, Owned
<1>6. CASE OpenFails
  BY <1>6 DEF OpenFails, Promise!Refuse, Owned
<1>7. CASE InitDone
  <2>1. phase = "opening" /\ phase' = "open"
    BY <1>7 DEF InitDone
  <2>2. Owned' = Threads
    BY <2>1 DEF Owned, BracketHolds, InBracket
  <2>. QED
    BY <2>1, <2>2 DEF Promise!Acquire
<1>8. CASE CloseDevice
  <2>1. phase = "closing" /\ phase' = "closing" /\ dev_idx' = dev_idx + 1
    BY <1>8 DEF CloseDevice
  <2>2. dev_idx \in Threads
    BY <1>8, LoopVariableInTable DEF CloseDevice
  <2>3. Owned = {d \in Threads : d >= dev_idx}
    BY <2>1, OwnedIsBracket DEF InBracket
  <2>4. Owned' = {d \in Threads : d >= dev_idx + 1}
    BY <2>1 DEF Owned, BracketHolds, InBracket
  <2>5. dev_idx \in Owned /\ Owned' = Owned \ {dev_idx}
    BY <2>2, <2>3, <2>4 DEF Threads
  <2>. QED
    BY <2>1, <2>5 DEF Promise!GiveBack
<1>9. CASE FinalizeDone
  <2>1. phase = "closing" /\ phase' = "closed" /\ dev_idx = NThreads
    BY <1>9 DEF FinalizeDone
  <2>2. Owned = {}
    BY <2>1, OwnedIsBracket, DevicesAssumption DEF InBracket, Threads
  <2>3. Owned' = {}
    BY <2>1 DEF Owned
  <2>. QED
    BY <2>1, <2>2, <2>3 DEF Promise!Closed
<1>10. CASE CallerOpens \/ CallerCloses
  <2>1. UNCHANGED <<phase, dev_idx>> /\ InBracket' = InBracket
    BY <1>10 DEF CallerOpens, CallerCloses, InBracket
  <2>2. CASE phase \in {"open", "closing"}
    <3>1. Owned = InBracket
      BY <2>2, OwnedIsBracket
    <3>2. Owned' = InBracket'
      BY <2>1, <2>2 DEF Owned, BracketHolds
    <3>. QED
      BY <2>1, <3>1, <3>2
  <2>3. CASE phase \notin {"open", "closing"}
    BY <2>1, <2>3 DEF Owned
  <2>. QED
    BY <2>2, <2>3
<1>11. CASE UNCHANGED msrVars
  BY <1>11 DEF msrVars, Owned, InBracket, Holds
<1>. QED
  BY <1>1, <1>2, <1>3, <1>4, <1>5, <1>6, <1>7, <1>8, <1>9, <1>10, <1>11
     DEF MsrNext, LibraryStep

\* The descriptor loops implement the all-or-nothing bracket.
THEOREM DevicesImplementModule ==
  ASSUME ~MaskInitError
  PROVE  MsrSpec => ImplementsMsrModule
<1>1. MsrInit => Promise!AbsInit
  BY DEF MsrInit, Promise!AbsInit, Owned
<1>2. MsrTypeOK /\ BracketHolds /\ BracketHolds' /\ [MsrNext]_msrVars =>
        [Promise!AbsNext]_(Promise!absVars)
  BY StepSimulation
<1>. QED
  BY <1>1, <1>2, DevicesTypeCorrect, BracketInvariant, PTL
     DEF MsrSpec, ImplementsMsrModule, Promise!AbsSpec

=============================================================================
