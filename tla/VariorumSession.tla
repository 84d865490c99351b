--------------------------- MODULE VariorumSession ---------------------------
(***************************************************************************)
(* One thread calling libvariorum again and again.  Every public function  *)
(* runs variorum_enter (clear the function pointers, detect the models,    *)
(* set the pointers of each platform, which opens the MSR devices and the  *)
(* vendor libraries), visits platforms through their pointers, and runs    *)
(* variorum_exit (close the MSR devices, shut the vendor libraries down,   *)
(* free the detected models).                                              *)
(*                                                                         *)
(* A function that returns anywhere else leaves without variorum_exit.     *)
(* "abandoned" counts those calls.  The MSR devices are the bracket of     *)
(* MsrModule, which MsrDevices implements.                                 *)
(***************************************************************************)
EXTENDS ApiTable

CONSTANTS
  BuildSet,    \* the builds considered
  Calls,       \* the public functions the program calls
  Dev,         \* the logical processors, for the MSR devices
  MaxAbandoned \* bound on the calls that leave without variorum_exit

ASSUME SessionAssumption ==
  /\ BuildSet \subseteq Builds
  /\ Calls \subseteq ApiNames
  /\ MaxAbandoned \in Nat

VARIABLES
  build,     \* the platforms compiled in: P_..._IDX is the index less one
  model,     \* what each platform's architecture is worth (see Models)
  ptrs,      \* the features whose pointer is not NULL, by platform
  pc,        \* where the current call stands
  api,       \* the current call
  i,         \* index of the platform being set up or visited
  err,       \* variorum_set_func_ptrs' err, assigned by every platform
  result,    \* what the last call returned
  called,    \* the platforms whose function the current call has called
  failed,    \* those whose function reported an error
  msr, owned, \* the MSR bracket
  archMem,   \* models detected (malloc) and not freed, by platform
  pending,   \* vendor library initialisations no shutdown has answered
  abandoned

callVars == <<api, called, failed, result>>
resources == <<msr, owned, archMem, pending>>
vars == <<build, model, ptrs, pc, api, i, err, result, called, failed, msr, owned, archMem,
          pending, abandoned>>

Msr == INSTANCE MsrModule WITH mode <- msr

Here == build[i]             \* the platform being visited
Due == SetupOrder(build)[i]  \* the platform being set up
Compiled == {build[k] : k \in DOMAIN build}
Has(p) == p \in Compiled

\* Platforms with a vendor library that is brought up on entry.
WithLibrary == {"amd_cpu", "nvidia_gpu", "intel_gpu"}

Init ==
  /\ build \in BuildSet
  /\ model \in [Compiled -> UNION {Models(p) : p \in Compiled}]
  /\ \A p \in Compiled : model[p] \in Models(p)
  /\ ptrs = [p \in Platforms |-> {}]
  /\ pc = "idle" /\ api = "tester" /\ i = 1 /\ err = 0 /\ result = 0
  /\ called = {} /\ failed = {}
  /\ Msr!AbsInit
  /\ archMem = [p \in Platforms |-> 0]
  /\ pending = [p \in Platforms |-> 0]
  /\ abandoned = 0

\* The call returns r without variorum_exit.
Abandon(r) == pc' = "idle" /\ result' = r /\ abandoned' = abandoned + 1

-----------------------------------------------------------------------------
\* variorum_enter.

\* A public function is called: variorum_init_func_ptrs comes first.
Call(a) ==
  /\ pc = "idle"
  /\ abandoned < MaxAbandoned
  /\ api' = a
  /\ ptrs' = [p \in Platforms |-> {}]
  /\ called' = {} /\ failed' = {}
  /\ pc' = "detect"
  /\ UNCHANGED <<build, model, i, err, result, abandoned, resources>>

\* variorum_detect_arch: every platform allocates its model; the one of an ARM
\* CPU whose registers cannot be read is lost and fails the call.
DetectArch ==
  /\ pc = "detect"
  /\ archMem' = [p \in Platforms |-> IF Has(p) THEN archMem[p] + 1 ELSE archMem[p]]
  /\ \/ pc' = "set" /\ i' = 1 /\ err' = 0 /\ UNCHANGED <<result, abandoned>>
     \/ Has("arm_cpu") /\ Abandon(-1) /\ UNCHANGED <<i, err>>
  /\ UNCHANGED <<build, model, ptrs, api, called, failed, msr, owned, pending>>

\* set_intel_func_ptrs: a model it does not know ends the call here; otherwise
\* init_msr follows.
SetIntelCpu ==
  /\ pc = "set" /\ i \in DOMAIN build /\ Due = "intel_cpu"
  /\ \/ /\ model["intel_cpu"] = Unknown
        /\ ptrs' = [ptrs EXCEPT !["intel_cpu"] = IntelAlways]
        /\ Abandon(-1)
        /\ UNCHANGED <<msr, owned>>
     \/ /\ model["intel_cpu"] # Unknown
        /\ ptrs' = [ptrs EXCEPT !["intel_cpu"] = model["intel_cpu"]]
        /\ pc' = "init_msr"
        /\ Msr!Begin
        /\ UNCHANGED <<result, abandoned>>
  /\ UNCHANGED <<build, model, api, i, err, called, failed, archMem, pending>>

\* init_msr, whose error is only stored.
InitMsr ==
  /\ pc = "init_msr"
  /\ i' = i + 1
  /\ \/ Msr!Acquire /\ err' = 0 /\ pc' = "set"
     \/ Msr!Refuse /\ msr' = "failed" /\ err' = -1 /\ pc' = "set"
     \/ Msr!Refuse /\ msr' = "crashed" /\ err' = err /\ pc' = "crashed"
  /\ UNCHANGED <<build, model, ptrs, callVars, archMem, pending, abandoned>>

\* set_amd_func_ptrs: a known model brings E-SMI up, with few pointers left
\* when that fails.
SetAmdCpu ==
  /\ pc = "set" /\ i \in DOMAIN build /\ Due = "amd_cpu"
  /\ i' = i + 1
  /\ \/ /\ model["amd_cpu"] = Unknown
        /\ err' = -1
        /\ UNCHANGED <<ptrs, pending>>
     \/ /\ model["amd_cpu"] # Unknown
        /\ err' = 0
        /\ \/ /\ ptrs' = [ptrs EXCEPT !["amd_cpu"] = model["amd_cpu"]]
              /\ pending' = [pending EXCEPT !["amd_cpu"] = @ + 1]
           \/ /\ ptrs' = [ptrs EXCEPT !["amd_cpu"] = EpycWithoutEsmi]
              /\ UNCHANGED pending
  /\ UNCHANGED <<build, model, pc, callVars, msr, owned, archMem, abandoned>>

\* The setters of the other platforms.  The GPU libraries of Intel and NVIDIA
\* are brought up whatever becomes of the model.  err is overwritten: an error
\* of an earlier platform is lost.
SetOther ==
  /\ pc = "set" /\ i \in DOMAIN build /\ Due \notin {"intel_cpu", "amd_cpu"}
  /\ i' = i + 1
  /\ err' = IF model[Due] = Unknown THEN -1 ELSE 0
  /\ ptrs' = [ptrs EXCEPT ![Due] = model[Due]]
  /\ pending' = [pending EXCEPT ![Due] = IF Due \in WithLibrary THEN @ + 1 ELSE @]
  /\ UNCHANGED <<build, model, pc, callVars, msr, owned, archMem, abandoned>>

\* The index a function starts from: the primary platform or the GPU for those
\* that visit one platform, else the first.
FirstIndex ==
  CASE Api[api].scope = "primary"        -> PrimaryIndex(build, {"intel_cpu", "ibm_cpu", "amd_cpu"})
    [] Api[api].scope = "primary_or_arm" -> PrimaryIndex(build, CpuPlatforms)
    [] Api[api].scope = "gpu"            -> PrimaryIndex(build, GpuPlatforms)
    [] OTHER                             -> 1

\* Fault: a public function goes on when variorum_enter reports an error.
EnterIgnored ==
  /\ pc = "set" /\ i \notin DOMAIN build
  /\ pc' = "visit" /\ i' = FirstIndex
  /\ UNCHANGED <<build, model, ptrs, api, err, called, failed, result, abandoned, resources>>

\* variorum_enter returns err.
EnterReturns ==
  /\ pc = "set" /\ i \notin DOMAIN build
  /\ \/ err # 0 /\ Abandon(-1) /\ UNCHANGED i
     \/ err = 0 /\ pc' = "visit" /\ i' = FirstIndex /\ UNCHANGED <<result, abandoned>>
  /\ UNCHANGED <<build, model, ptrs, api, err, called, failed, resources>>

-----------------------------------------------------------------------------
\* The body of the public function.

Visiting == pc = "visit" /\ Api[api].scope # "none"

\* The functions on energy serve no build without one of these CPUs.
NoEnergyCpu ==
  Api[api].scope = "each_if_cpu" /\ ~(Has("intel_cpu") \/ Has("amd_cpu") \/ Has("ibm_cpu"))

\* Past the platforms of a build of one lies an unused entry of g_platform, all
\* zeroes.  A build of two fills the table: past it lies memory that may read
\* as NULL or not.
Pointer == i \in DOMAIN build /\ Api[api].feature \in ptrs[Here]
InTable == i <= MaxPlatforms

SinglePlatform == Api[api].scope \in {"primary", "primary_or_arm", "gpu"}

\* Faults: the index is not advanced; the loop ends after the first platform.
AdvanceForgotten == UNCHANGED <<pc, i>>
AdvanceOnce == pc' = "visited" /\ UNCHANGED i

\* After a platform comes the next, or the end of the loop.
Advance ==
  IF SinglePlatform \/ i = Len(build)
    THEN pc' = "visited" /\ UNCHANGED i
    ELSE i' = i + 1 /\ UNCHANGED pc

\* Fault: the error of a platform is only printed.
CallPlatformIgnored ==
  /\ Visiting /\ ~NoEnergyCpu /\ Pointer
  /\ called' = called \cup {Here}
  /\ failed' \in {failed, failed \cup {Here}}
  /\ Advance
  /\ UNCHANGED <<build, model, ptrs, api, err, result, abandoned, resources>>

\* The function pointer is called and returns 0 or an error.
CallPlatform ==
  /\ Visiting /\ ~NoEnergyCpu /\ Pointer
  /\ called' = called \cup {Here}
  /\ \/ Advance /\ UNCHANGED <<failed, result, abandoned>>
     \/ /\ failed' = failed \cup {Here}
        /\ \/ Api[api].onError = "return" /\ Abandon(-1) /\ UNCHANGED i
           \/ Api[api].onError = "ignore" /\ Advance /\ UNCHANGED <<result, abandoned>>
  /\ UNCHANGED <<build, model, ptrs, api, err, resources>>

\* Fault: a function that should return -1 or 0 has no test for NULL.
MissingFeatureUntested ==
  /\ Visiting /\ ~NoEnergyCpu /\ ~Pointer
  /\ Api[api].scope # "gpu" \/ i \in DOMAIN build
  /\ \/ Api[api].missing = "skip" /\ Advance
     \/ Api[api].missing # "skip" /\ pc' = "wild" /\ UNCHANGED i
  /\ UNCHANGED <<build, model, ptrs, api, err, called, failed, result, abandoned, resources>>

\* A NULL pointer, by the rule of the function, or one that is no pointer.
MissingFeature ==
  /\ Visiting /\ ~NoEnergyCpu /\ ~Pointer
  /\ Api[api].scope # "gpu" \/ i \in DOMAIN build
  /\ \/ Api[api].missing = "skip" /\ Advance /\ UNCHANGED <<result, abandoned>>
     \/ Api[api].missing = "return_0" /\ Abandon(0) /\ UNCHANGED i
     \/ Api[api].missing = "return_error" /\ Abandon(-1) /\ UNCHANGED i
     \/ /\ Api[api].missing = "call" \/ ~InTable
        /\ pc' = "wild"
        /\ UNCHANGED <<i, result, abandoned>>
  /\ UNCHANGED <<build, model, ptrs, api, err, called, failed, resources>>

\* The energy functions on a build without a CPU they know.
RefuseEnergy ==
  /\ Visiting /\ NoEnergyCpu
  /\ Abandon(0)
  /\ UNCHANGED <<build, model, ptrs, api, i, err, called, failed, resources>>

\* The platforms have been visited.  The utilization goes on to read /proc,
\* and leaves when it cannot.
BodyDone ==
  /\ \/ pc = "visited"
     \/ pc = "visit" /\ Api[api].scope = "none"
     \/ Visiting /\ Api[api].scope = "gpu" /\ i \notin DOMAIN build
  /\ \/ pc' = "exit" /\ UNCHANGED <<result, abandoned>>
     \/ Api[api].scope = "gpu" /\ Abandon(-1)
  /\ UNCHANGED <<build, model, ptrs, api, i, err, called, failed, resources>>

-----------------------------------------------------------------------------
\* variorum_exit.

\* finalize_msr, in a build for Intel CPUs.
ExitFinalizesMsr ==
  /\ pc = "exit" /\ Has("intel_cpu")
  /\ \/ Msr!StartClosing /\ UNCHANGED pc
     \/ Msr!GiveBack /\ UNCHANGED pc
     \/ Msr!Closed /\ pc' = "release"
  /\ UNCHANGED <<build, model, ptrs, callVars, i, err, archMem, pending, abandoned>>

\* init_msr had failed and a later platform overwrote its error: finalize_msr
\* closes whatever the table names, and its last close decides.
ExitFinalizesUnopened ==
  /\ pc = "exit" /\ Has("intel_cpu") /\ msr = "failed"
  /\ msr' = "closed" /\ owned' = {}
  /\ \/ pc' = "release" /\ UNCHANGED <<result, abandoned>>
     \/ Abandon(-1)
  /\ UNCHANGED <<build, model, ptrs, api, called, failed, i, err, archMem, pending>>

\* Fault: the vendor libraries are not shut down.
ExitKeepsLibraries ==
  /\ pc = "release" \/ (pc = "exit" /\ ~Has("intel_cpu"))
  /\ archMem' = [p \in Platforms |-> IF Has(p) THEN archMem[p] - 1 ELSE archMem[p]]
  /\ pc' = "idle" /\ result' = 0
  /\ UNCHANGED <<build, model, ptrs, api, i, err, called, failed, msr, owned, pending, abandoned>>

\* Fault: the models of platforms that are not compiled in are freed, too.
ExitFreesAll ==
  /\ pc = "release" \/ (pc = "exit" /\ ~Has("intel_cpu"))
  /\ archMem' = [p \in Platforms |-> archMem[p] - 1]
  /\ pc' = "idle" /\ result' = 0
  /\ UNCHANGED <<build, model, ptrs, api, i, err, called, failed, msr, owned, pending, abandoned>>

\* The vendor libraries are shut down, the models freed, and 0 returned.
ExitReleases ==
  /\ pc = "release" \/ (pc = "exit" /\ ~Has("intel_cpu"))
  /\ pending' = [p \in Platforms |-> IF Has(p) /\ pending[p] > 0 THEN pending[p] - 1 ELSE pending[p]]
  /\ archMem' = [p \in Platforms |-> IF Has(p) THEN archMem[p] - 1 ELSE archMem[p]]
  /\ pc' = "idle" /\ result' = 0
  /\ UNCHANGED <<build, model, ptrs, api, i, err, called, failed, msr, owned, abandoned>>

-----------------------------------------------------------------------------
Enter == DetectArch \/ SetIntelCpu \/ InitMsr \/ SetAmdCpu \/ SetOther \/ EnterReturns
Body == CallPlatform \/ MissingFeature \/ RefuseEnergy \/ BodyDone
Exit == ExitFinalizesMsr \/ ExitFinalizesUnopened \/ ExitReleases

Next ==
  \/ \E a \in Calls : Call(a)
  \/ Enter
  \/ Body
  \/ Exit

Spec == Init /\ [][Next]_vars

\* The library runs on its caller's thread: a call goes on until it returns.
FairSpec == Spec /\ WF_vars(Enter \/ Body \/ Exit)

-----------------------------------------------------------------------------
States == {"idle", "detect", "set", "init_msr", "visit", "visited", "exit", "release",
           "wild", "crashed"}

TypeOK ==
  /\ build \in Builds
  /\ \A p \in Compiled : model[p] \in Models(p)
  /\ ptrs \in [Platforms -> SUBSET UNION (UNION {Supported[p] : p \in Platforms})]
  /\ pc \in States
  /\ api \in ApiNames
  /\ i \in 1 .. MaxPlatforms + 1
  /\ err \in {-1, 0}
  /\ result \in {-1, 0}
  /\ called \subseteq Platforms
  /\ failed \subseteq called
  /\ archMem \in [Platforms -> 0 .. MaxAbandoned + 1]
  /\ pending \in [Platforms -> 0 .. MaxAbandoned + 1]
  /\ abandoned \in 0 .. MaxAbandoned

\* A call that returned 0 saw every platform function it called succeed, unless
\* it is one of the two functions that only print the error.
ZeroIsEarned ==
  pc = "idle" /\ result = 0 /\ Api[api].onError = "return" => failed = {}

\* The platforms a function is meant to serve.
Served ==
  IF SinglePlatform
    THEN {build[k] : k \in DOMAIN build \cap {FirstIndex}}
    ELSE {build[k] : k \in DOMAIN build}

\* A call that returned 0 has run on every platform it is meant for that
\* implements the feature, not only on those before the first one that does not.
EverySupporterActs ==
  pc = "idle" /\ result = 0 =>
    \A p \in Served : Api[api].feature \in ptrs[p] => p \in called

\* That holds of every function but those that end with 0 at the first of two
\* platforms without the feature.
SkippersReachSupporters ==
  ~(Api[api].missing = "return_0" /\ Len(build) > 1) => EverySupporterActs

\* What the library holds between calls is what abandoned calls left behind, one
\* of each resource at most for each of them: a call that gets through
\* variorum_exit gives back all that its variorum_enter took.
LeaksAreAbandonedCalls ==
  \A p \in Platforms :
    /\ archMem[p] <= abandoned + (IF pc = "idle" THEN 0 ELSE 1)
    /\ pending[p] <= abandoned + (IF pc = "idle" THEN 0 ELSE 1)

\* Beside a second platform, whose setter overwrites its error, a failed
\* init_msr goes unnoticed; alone, an Intel CPU is never reached without it.
IntelOnly(b) == b = <<"intel_cpu">> \/ \A k \in DOMAIN b : b[k] # "intel_cpu"

\* Functions that look at their pointer.  Those on the primary platform alone do,
\* but past the table when a build of two platforms has none they know.
LooksAtPointer == Api[api].missing # "call" /\ (Api[api].scope = "primary" => Len(build) = 1)

\* A function that looks at its pointer never goes through one that is not a
\* function of a platform (pointers outlive the call that set them up), and the
\* platform's function runs with the devices and the vendor library it works
\* through brought up by this call.
PointersFindTheirPlatform ==
  [][/\ LooksAtPointer => pc' # "wild"
     /\ \A p \in called' \ called :
          /\ p = "intel_cpu" /\ IntelOnly(build) => msr = "open" /\ owned = Dev
          /\ p \in {"nvidia_gpu", "intel_gpu"} => pending[p] > 0]_vars

\* The session opens and closes the MSR devices the way their layer expects.
KeepsMsrProtocol ==
  Msr!AbsInit /\ [][IntelOnly(build) => [Msr!AbsNext]_(Msr!absVars)]_vars

\* Every call returns, or brings the process down.
CallsReturn == pc # "idle" ~> pc \in {"idle", "wild", "crashed"}

=============================================================================
