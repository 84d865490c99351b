--------------------------- MODULE VendorFeatures ---------------------------
(***************************************************************************)
(* The features of the vendor platforms, called one after the other by a   *)
(* program: each runs its plan against a library or files that may refuse  *)
(* any step, on devices that apply a cap at once or when their firmware    *)
(* comes to it.                                                            *)
(***************************************************************************)
EXTENDS Power9, Epyc, NvidiaGpu, AmdGpu, IntelGpu, ArmCpu, FiniteSetsExt
CONSTANTS Requests,    \* the caps a program asks for
          CEILING,     \* what a device allows, and is set to at first
          MaxCalls,    \* bound on the calls of a program
          MaxRefusals  \* bound on the refusals of what is there

ASSUME RequestsAssumption ==
  Requests \subseteq Nat \ {0} /\ CEILING \in Nat \ {0} /\ {MaxCalls, MaxRefusals} \subseteq Nat

Features ==
  [p9 |-> P9Features, epyc |-> EpycFeatures, volta |-> VoltaFeatures, instinct |-> InstinctFeatures,
   intel_gpu |-> IntelGpuFeatures, juno |-> JunoFeatures, neoverse |-> NeoverseFeatures]

Platforms == DOMAIN Features
FeaturesOf(p) == DOMAIN Features[p]
DevicesOf(p) == UNION {Features[p][f].caps : f \in FeaturesOf(p)}

VARIABLES
  platform, \* the platform the library is built for
  api,      \* the feature that is called
  status,   \* idle, running, returned or dead
  ahead,    \* the steps ahead in the innermost function
  callers,  \* the steps ahead in those that called it, the nearest first
  val,      \* the local variables that have been set
  shown,    \* what has been given out: what it is said to be, and what it is
  rc,       \* the result of the function that returned last
  open,     \* the libraries and files this call has brought up
  held,     \* the files that earlier calls left open
  zero,     \* who has descriptor 0: a program, nobody, or one of our files
  want,     \* what the caps are set to
  asked,    \* what the program asked for
  accepted, \* what each device was told and has taken
  inforce,  \* what each device holds itself to
  refused,  \* a step of this call was refused
  complained, \* this call has printed an error
  calls, refusals

vars == <<platform, api, status, ahead, callers, val, shown, rc, open, held, zero, want, asked, accepted, inforce, refused,
          complained, calls, refusals>>
call == <<platform, api, calls, asked>>
files == <<open, zero>>
caps == <<want, accepted, inforce>>
trouble == <<refused, complained, refusals>>

stdin == <<"stdin", 0>>
nobody == <<"nobody", 0>>

Init ==
  /\ platform \in Platforms
  /\ api = "none" /\ status = "idle"
  /\ ahead = << >> /\ callers = << >> /\ val = << >> /\ shown = {} /\ rc = 0
  /\ open = {} /\ held = {}
  \* a daemon may have been started with its input closed
  /\ zero \in {stdin, nobody}
  /\ want = 0 /\ asked = 0
  /\ accepted = [d \in DevicesOf(platform) |-> CEILING]
  /\ inforce = accepted
  /\ refused = FALSE /\ complained = FALSE
  /\ calls = 0 /\ refusals = 0

\* A program calls a feature of the platform.
Call ==
  /\ status \in {"idle", "returned"} /\ calls < MaxCalls
  /\ \E f \in FeaturesOf(platform) :
       /\ api' = f
       /\ ahead' = Features[platform][f].plan
       /\ asked' \in IF Features[platform][f].caps = {} THEN {0} ELSE Requests
  /\ want' = asked'
  /\ status' = "running" /\ calls' = calls + 1
  /\ val' = [v \in {Var("node")} |-> NodePower] /\ shown' = {} /\ rc' = 0
  /\ held' = held \union open /\ open' = {}
  /\ refused' = FALSE /\ complained' = FALSE
  /\ UNCHANGED <<platform, callers, zero, accepted, inforce, refusals>>

step == Head(ahead)
At(do) == status = "running" /\ ahead # << >> /\ step.do = do
GoOn(plan) == ahead' = plan \o Tail(ahead) /\ UNCHANGED <<call, status, callers, held>>

ValueOf(v) == IF v \in DOMAIN val THEN val[v] ELSE {Junk}
Set(v, content) == val' = [w \in DOMAIN val \union {v} |-> IF w = v THEN content ELSE val[w]]

\* A device can be asked while what it is reached through is up; the GPUs that a
\* wrong count made up cannot.
Present(dev) == platform = "instinct" => dev[2] \in Gpus
Reachable == step.via \in open
Refuse == refusals < MaxRefusals /\ refusals' = refusals + 1 /\ refused' = TRUE /\ UNCHANGED complained
Unreachable == refused' = TRUE /\ UNCHANGED <<complained, refusals>>
\* The device refuses, or is not there to be asked.
Fails(dev) == IF Reachable /\ Present(dev) THEN Refuse ELSE Unreachable

Read ==
  /\ At("get")
  /\ \/ /\ Reachable /\ Present(step.src)
        /\ Set(step.v, {step.src}) /\ GoOn(step.ok)
        /\ UNCHANGED trouble
     \/ Fails(step.src) /\ GoOn(IF Reachable THEN step.no ELSE step.off) /\ UNCHANGED val
  /\ UNCHANGED <<shown, rc, files, caps>>

Assign ==
  /\ \/ At("let") /\ Set(step.v, step.val)
     \* a reading that is added twice is not the sum of its readings
     \/ /\ At("add")
        /\ Set(step.v, ValueOf(step.v) \union ValueOf(step.w)
                         \union IF ValueOf(step.v) \intersect ValueOf(step.w) = {} THEN {} ELSE {<<"twice", 0>>})
  /\ GoOn(<< >>)
  /\ UNCHANGED <<shown, rc, files, caps, trouble>>

GiveOut ==
  /\ At("show")
  /\ shown' = shown \union {[claim |-> step.claim, value |-> ValueOf(step.v)]}
  /\ GoOn(<< >>)
  /\ UNCHANGED <<val, rc, files, caps, trouble>>

Choose ==
  /\ \/ At("fork") /\ GoOn(step.one) /\ UNCHANGED trouble
     \/ At("fork") /\ GoOn(step.other) /\ UNCHANGED trouble
  /\ UNCHANGED <<val, shown, rc, files, caps>>

BringUp ==
  /\ \/ /\ At("open")
        /\ open' = open \union {step.r}
        /\ GoOn(step.ok) /\ UNCHANGED <<zero, trouble>>
     \/ /\ At("open file")
        /\ open' = open \union {step.r}
        /\ zero' = IF zero = nobody THEN step.r ELSE zero
        /\ GoOn(IF zero = nobody THEN step.zero ELSE step.ok) /\ UNCHANGED trouble
     \/ (At("open") \/ At("open file")) /\ Refuse /\ GoOn(step.no) /\ UNCHANGED files
  /\ UNCHANGED <<val, shown, rc, caps>>

BringDown ==
  /\ \/ /\ At("close")
        /\ open' = open \ step.rs
        /\ zero' = IF zero \in open \intersect step.rs THEN nobody ELSE zero
        /\ GoOn(<< >>) /\ UNCHANGED trouble
     \/ At("shutdown") /\ open' = open \ {step.r} /\ GoOn(<< >>) /\ UNCHANGED <<zero, trouble>>
     \/ At("shutdown") /\ UNCHANGED files /\ GoOn(step.no)
          /\ (IF step.r \in open THEN Refuse ELSE Unreachable)
  /\ UNCHANGED <<val, shown, rc, caps>>

CountDevices ==
  /\ At("count")
  /\ \/ Reachable /\ GoOn(step.plans[NGPUS]) /\ UNCHANGED trouble
     \/ /\ IF Reachable THEN Refuse ELSE Unreachable
        /\ IF step.junk = {} THEN GoOn(step.no) ELSE \E n \in step.junk : GoOn(step.no \o step.plans[n])
  /\ UNCHANGED <<val, shown, rc, files, caps>>

Lesser(x, y) == IF x <= y THEN x ELSE y

\* Fault: the ceiling takes the place of the request without a comparison.
CeilingTaken ==
  /\ \/ At("divide") /\ want' = want \div step.by /\ UNCHANGED trouble
     \/ At("lower") /\ Reachable /\ want' = CEILING /\ UNCHANGED trouble
     \/ At("lower") /\ Fails(step.dev) /\ UNCHANGED want
  /\ GoOn(<< >>)
  /\ UNCHANGED <<val, shown, rc, files, accepted, inforce>>

\* The request becomes smaller: divided, or lowered to the ceiling if that can be
\* read.
Scale ==
  /\ \/ At("divide") /\ want' = want \div step.by /\ UNCHANGED trouble
     \/ At("lower") /\ Reachable /\ want' = Lesser(want, CEILING) /\ UNCHANGED trouble
     \/ At("lower") /\ Fails(step.dev) /\ UNCHANGED want
  /\ GoOn(<< >>)
  /\ UNCHANGED <<val, shown, rc, files, accepted, inforce>>

\* Firmware takes a cap now and applies it later, a GPU library applies it at
\* once; AMD's and NVIDIA's refuse what is above the ceiling, the others lower it.
Late == platform \in {"p9", "epyc"}
RefusesExcess == platform \in {"volta", "instinct"}
SetCap ==
  /\ At("cap")
  /\ \/ /\ Reachable /\ Present(step.dev)
        /\ RefusesExcess => want <= CEILING
        /\ accepted' = [accepted EXCEPT ![step.dev] = Lesser(want, CEILING)]
        /\ inforce' = IF Late THEN inforce ELSE [inforce EXCEPT ![step.dev] = Lesser(want, CEILING)]
        /\ GoOn(<< >>) /\ UNCHANGED trouble
     \/ /\ IF RefusesExcess /\ want > CEILING THEN Unreachable ELSE Fails(step.dev)
        /\ GoOn(step.no) /\ UNCHANGED <<accepted, inforce>>
  /\ UNCHANGED <<val, shown, rc, files, want>>

\* The firmware comes to the cap it was told last, at any time.
Enforce ==
  /\ \E d \in DevicesOf(platform) :
       inforce[d] # accepted[d] /\ inforce' = [inforce EXCEPT ![d] = accepted[d]]
  /\ UNCHANGED <<call, status, ahead, callers, val, shown, rc, files, held, want, accepted, trouble>>

\* What is in force is read back and compared.
ReadBack ==
  /\ At("verify")
  /\ \/ /\ Reachable
        /\ GoOn(IF inforce[step.dev] = want THEN << >> ELSE step.differs) /\ UNCHANGED trouble
     \/ Fails(step.dev) /\ GoOn(step.no)
  /\ UNCHANGED <<val, shown, rc, files, caps>>

Say ==
  /\ At("complain")
  /\ complained' = TRUE
  /\ GoOn(<< >>)
  /\ UNCHANGED <<val, shown, rc, files, caps, refused, refusals>>

\* One more turn of a loop, or what is behind it.
Loop ==
  /\ At("each")
  /\ GoOn(IF step.i <= step.last
          THEN step.bodies[step.i] \o LoopFrom(step.i + 1, step.last, step.bodies) ELSE << >>)
  /\ UNCHANGED <<val, shown, rc, files, caps, trouble>>

Enter ==
  /\ At("call")
  /\ ahead' = step.plan /\ callers' = <<Tail(ahead)>> \o callers
  /\ UNCHANGED <<call, status, val, shown, rc, files, held, caps, trouble>>

\* The innermost function ends, by a return or after its last step.
Leave ==
  /\ \/ At("return") /\ rc' = step.rc
     \/ status = "running" /\ ahead = << >> /\ callers # << >> /\ UNCHANGED rc
  /\ ahead' = IF callers = << >> THEN << >> ELSE Head(callers)
  /\ callers' = IF callers = << >> THEN << >> ELSE Tail(callers)
  /\ UNCHANGED <<call, status, val, shown, files, held, caps, trouble>>

\* The feature is through, and its result goes to the program.
Returned ==
  /\ status = "running" /\ ahead = << >> /\ callers = << >>
  /\ status' = "returned"
  /\ UNCHANGED <<call, ahead, callers, val, shown, rc, files, held, caps, trouble>>

\* exit, or an access to memory that is not there: the process is gone.
Die ==
  /\ At("die")
  /\ status' = "dead" /\ ahead' = << >> /\ callers' = << >>
  /\ open' = {} /\ held' = {} /\ zero' = nobody
  /\ UNCHANGED <<call, val, shown, rc, caps, trouble>>

Step ==
  \/ Read \/ Assign \/ GiveOut \/ Choose \/ BringUp \/ BringDown \/ CountDevices \/ Scale
  \/ SetCap \/ ReadBack \/ Say \/ Loop \/ Enter \/ Leave \/ Returned \/ Die

Next == Call \/ Step \/ Enforce
Spec == Init /\ [][Next]_vars
-----------------------------------------------------------------------------
feature == Features[platform][api]
Succeeded == status = "returned" /\ rc = 0
Quietly == Succeeded /\ ~complained

\* Types; a plan runs only in a call, whose last step has been taken when it returns.
TypeOK ==
  /\ platform \in Platforms
  /\ api \in FeaturesOf(platform) \union {"none"}
  /\ status \in {"idle", "running", "returned", "dead"} /\ (api = "none") = (status = "idle")
  /\ status # "running" => ahead = << >> /\ callers = << >>
  /\ rc \in {0, -1}
  /\ \A s \in shown : DOMAIN s = {"claim", "value"}
  /\ zero \in {stdin, nobody} \union open \union held
  /\ want \in 0..asked /\ asked \in Requests \union {0}
  /\ {accepted, inforce} \subseteq [DevicesOf(platform) -> 0..CEILING]
  /\ {refused, complained} \subseteq BOOLEAN
  /\ calls \in 0..MaxCalls /\ refusals \in 0..MaxRefusals

\* These give out a value of another device, or of nothing, when a device fails:
\* the variable lies outside the loop or is not set, and the result is not looked at.
KeepOldValues ==
  {<<"volta", f>> : f \in FeaturesOf("volta")}
    \union {<<"juno", f>> : f \in FeaturesOf("juno")} \union {<<"neoverse", f>> : f \in FeaturesOf("neoverse")}
    \union {<<"instinct", f>> : f \in {"get_power_json", "get_power_json_node", "get_clocks", "get_clocks_json",
                                       "get_gpu_utilization"}}
    \union {<<"intel_gpu", f>> : f \in {"get_power", "get_thermals", "get_clocks"}}
    \union {<<"epyc", "get_json_boostlimit">>}

\* And this one never asks.
NeverAsks == {<<"instinct", "get_gpu_utilization_json">>}

\* A feature that returns 0, prints no error and was refused nothing has given out
\* the readings it is said to give out, each of its own device and each counted
\* once in a sum; and but for KeepOldValues, no value it gives out, whatever
\* was refused and whatever it returns, comes from another device.
ReportsAreTrue ==
  /\ Quietly /\ ~refused /\ <<platform, api>> \notin NeverAsks =>
       shown = {[claim |-> c, value |-> c] : c \in feature.claims}
  /\ <<platform, api>> \notin KeepOldValues => \A s \in shown : s.value \subseteq s.claim

\* These do not look whether a cap was taken.
CapBlindly == {<<"p9", "cap_gpu_power_ratio">>, <<"p9", "cap_and_verify_node_power_limit">>,
               <<"volta", "cap_each_gpu_power_limit">>, <<"intel_gpu", "cap_each_gpu_power_limit">>}

\* A feature that caps, returns 0 and prints no error has been heard by every
\* device: each has taken what was asked (of a node cap, its share), or its
\* ceiling.  CapBlindly say so also after a refusal.
Halves == {<<"epyc", "cap_best_effort_node_power_limit">>}
share == IF <<platform, api>> \in Halves THEN asked \div 2 ELSE asked
Heard == <<platform, api>> \in CapBlindly => ~refused
CapsAreAsAsked == Quietly /\ Heard => \A d \in feature.caps : accepted[d] = Lesser(share, CEILING)

\* print_energy opens the batch device anew each time and never closes it.
NeverCloses == {<<"epyc", "print_energy">>, <<"epyc", "print_verbose_energy">>}

\* A feature that returns 0 and prints no error has closed its files and shut its
\* library down, whatever was refused on the way; one that fails
\* may leave files open.
GivesBack == Quietly /\ <<platform, api>> \notin NeverCloses => open = {}

\* When a function that verifies a node cap returns 0, what its devices hold
\* themselves to is together no more than was asked, late as they may be.  On
\* Power9 the file may have refused the cap: what is read back is then an older
\* cap, and a newer one may be on its way.
CapsNode == {<<"p9", "cap_and_verify_node_power_limit">>, <<"epyc", "cap_best_effort_node_power_limit">>}
NodeCapHolds ==
  [][Returned /\ rc = 0 /\ ~complained /\ <<platform, api>> \in CapsNode /\ Heard
       => MapThenSumSet(LAMBDA d : inforce[d], feature.caps) <= asked]_vars
=============================================================================
