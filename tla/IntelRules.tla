----------------------------- MODULE IntelRules -----------------------------
(***************************************************************************)
(* The rules the plans of IntelPlans keep, whatever the topology, and the  *)
(* invariant of IntelFeatures they give.                                   *)
(*                                                                         *)
(* A step may rely on tokens: a static flag is up, the current call has    *)
(* read a batch, it has tested the ratio of a batch, the units are there.  *)
(* The rules say which tokens a step needs and which it gives.  A plan     *)
(* holds plans in its steps, to no bounded depth: a plan is good when some *)
(* set of pairs <<tokens, step>> contains its steps and is closed under    *)
(* the rules.                                                              *)
(***************************************************************************)
EXTENDS IntelFeatures

Flag(f) == <<"flag", f>>
WasRead(b) == <<"read", b>>
WasChecked(b) == <<"checked", b>>
UnitsReady == <<"units", "translate">>

\* The flag that stands before the storage of a batch.
FlagOf(b) ==
  CASE b = "FIXED_COUNTERS_DATA" -> "fixed_counter_storage"
    [] b = "FIXED_COUNTERS_CTRL_DATA" -> "fixed_counter_ctrl_storage"
    [] b = "COUNTERS_DATA" -> "pmc_storage"
    [] b = "COUNTERS_CTRL" -> "perfevtsel_storage"
    [] b = "CLOCKS_DATA" -> "clocks_storage"
    [] b = "PERF_DATA" -> "perf_storage"
    [] b = "THERM_STAT" -> "get_therm_stat"
    [] b = "PERF_CTRL" -> "perf_storage_temp"
    [] b = "UNCORE_EVTSEL" -> "unc_perfevtsel_storage"
    [] b = "UNCORE_COUNT" -> "unc_counters_storage"
    [] b = "RAPL_DATA" -> "read_rapl_data"
    [] b \in {"TURBO_RATIO_LIMIT", "TURBO_RATIO_LIMIT1", "TURBO_RATIO_LIMIT_CORES"} ->
         "get_turbo_ratio_limits"
    [] b \in {"RAPL_UNIT", "PKG_THERM_STAT", "TEMP_TARGET", "PLATFORM_INFO", "MIN_OPERATING_RATIO",
              "MAX_EFFICIENCY", "TDP_DEFS", "TDP_CONFIG"} -> b
StorageFlag == {FlagOf(b) : b \in Batch}

\* Of the two second turbo batches a model has one.
NewTurbo == {"55", "9E"}
Uses(m, b) == /\ b = "TURBO_RATIO_LIMIT_CORES" => m \in NewTurbo
              /\ b = "TURBO_RATIO_LIMIT1" => m \notin NewTurbo

\* The processors a batch has one operation on for every register.
CpusOf(b) == IF b \in PerSocket THEN SocketCpus ELSE ThreadCpus
Width(b) == IF b \in PerSocket THEN NSOCKETS ELSE NTHREADS

\* The registers that belong in a batch.
Controls == {R("PERF_GLOBAL_CTRL"), R("FIXED_CTR_CTRL")}
Belongs(m, b, msr) ==
  /\ msr \in Register
  /\ msr \notin {R("MISC_ENABLE"), R("PKG_POWER_LIMIT")}
  /\ b = "FIXED_COUNTERS_CTRL_DATA" <=> msr \in Controls
  /\ b = "RAPL_UNIT" => msr = R("RAPL_POWER_UNIT")
  /\ msr = Absent => b = "UNCORE_EVTSEL" \/ (b = "RAPL_DATA" /\ m \in {"2A", "2D"})

-----------------------------------------------------------------------------
\* Storage: the steps that allocate and load.
IsInit(s) == s.do \in {"allocate", "load"}
InitStepOK(m, s) ==
  /\ IsInit(s) /\ s.b \in Batch
  /\ s.do = "allocate" => s.n \in Nat /\ (s.b = "RAPL_UNIT" => s.n = NSOCKETS)
  /\ s.do = "load" => /\ s.msr \in Register /\ s.cpus = CpusOf(s.b)
                      /\ Belongs(m, s.b, Address(m, s.msr))

LoadsOf(p, b) == {k \in 1..Len(p) : p[k].do = "load" /\ p[k].b = b}
AllocatesOf(p, b) == {k \in 1..Len(p) : p[k].do = "allocate" /\ p[k].b = b}

\* There is room for the loads of a plan.
FitIn(p, b, room) == \A j, k \in LoadsOf(p, b) : j <= k => (k - j + 1) * Width(b) <= room

\* The operations are all reads, as create_batch_op makes them.
AllReads(o) == \A i \in DOMAIN o : o[i].isrdmsr

\* What a plan has left to do for a batch, of which old is loaded already, in
\* size operations.
Filling(m, p, b, old, room) ==
  /\ \A i, j \in AllocatesOf(p, b) : i = j
  /\ \A i \in AllocatesOf(p, b) : /\ old = << >>
                                  /\ FitIn(p, b, p[i].n)
                                  /\ \A k \in LoadsOf(p, b) : i < k
  /\ AllocatesOf(p, b) = {} => FitIn(p, b, room - Len(old))
  /\ \A j \in LoadsOf(p, b) : Address(m, p[j].msr) # Absent =>
       /\ \A k \in LoadsOf(p, b) : j # k => Address(m, p[k].msr) # Address(m, p[j].msr)
       /\ \A i \in DOMAIN old : old[i].msr # Address(m, p[j].msr)
  /\ LoadsOf(p, b) # {} => AllReads(old)

IsSeq(p) == \E S : p \in Seq(S)
NoInit(p) == \A k \in 1..Len(p) : ~IsInit(p[k])

\* What stands behind a storage flag.
Block(m, f, p) ==
  /\ IsSeq(p)
  /\ \A k \in 1..Len(p) : InitStepOK(m, p[k]) /\ FlagOf(p[k].b) = f
  /\ \A b \in Batch : /\ Filling(m, p, b, << >>, 0)
                      /\ FlagOf(b) = f /\ Uses(m, b) => LoadsOf(p, b) # {}

-----------------------------------------------------------------------------
\* The rules.

\* What stands behind a flag that is not of storage, and is there when the flag is.
Implied(f) ==
  CASE f = "translate" -> {UnitsReady}
    [] f \in {"print_perfmon", "print_verbose_perfmon"} -> {Flag("pmc_storage")}
    [] f = "print_clocks_data" -> {Flag("clocks_storage"), Flag("perf_storage")}
    [] f = "cap_p_state" -> {Flag("perf_storage_temp")}
    [] f = "get_all_power_data_fixed" -> {Flag("fixed_counter_storage"), Flag("clocks_storage")}
    [] f \notin {"translate", "print_perfmon", "print_verbose_perfmon", "print_clocks_data",
                 "cap_p_state", "get_all_power_data_fixed"} -> {}

\* The tokens a step gives: by itself, and with what its flag stands for.
GivesFirst(s) == CASE s.do = "once" -> {Flag(s.flag)}
                   [] s.do = "read" -> {WasRead(s.b)}
                   [] s.do = "take_units" -> {UnitsReady}
                   [] s.do \notin {"once", "read", "take_units"} -> {}
Gives(s) == GivesFirst(s) \union (IF s.do = "once" THEN Implied(s.flag) ELSE {})

\* A step that no test is in, and one that is done before anything else is.
Plain(s) == s.do \notin {"check", "agree", "levels"}
Simple(s) == s.do \in {"allocate", "load", "read", "write", "put"}
               \/ (s.do = "once" /\ s.flag \in StorageFlag)

AllPlain(p) == \A k \in 1..Len(p) : Plain(p[k])
AllSimple(p) == \A k \in 1..Len(p) : Simple(p[k])
LeadsTo(p, t) == \E k \in 1..Len(p) : /\ t \in GivesFirst(p[k])
                                      /\ \A j \in 1..(k - 1) : Simple(p[j])

\* The tokens there are before the k-th step of a plan; what was tested is
\* forgotten with the next test.
Before(E, p, k) == {t \in E : t[1] = "checked" => \A j \in 1..(k - 1) : Plain(p[j])}
                     \union UNION {Gives(p[j]) : j \in 1..(k - 1)}

Proper(G, E, p) ==
  /\ IsSeq(p)
  /\ \A k \in 1..Len(p) : \E D : <<D, p[k]>> \in G /\ D \subseteq Before(E, p, k)

Compound(G, E, s) ==
  /\ s.flag \notin StorageFlag
  /\ Proper(G, E, s.then)
  /\ AllPlain(s.then)
  /\ \A t \in Implied(s.flag) : LeadsTo(s.then, t)

Tested(b) == {WasChecked(r) : r \in {b} \intersect RatioBatches}
Ready(m, E, b) == b \in Batch /\ Uses(m, b) /\ Flag(FlagOf(b)) \in E

StepOK(m, G, E, s) ==
  /\ s.do \in {"once", "read", "check", "write", "put", "show", "agree", "take_units", "convert",
               "levels", "crash", "cap", "turbo"}
  /\ s.do = "once" => /\ s.flag \in StaticFlag
                      /\ \/ Flag(s.flag) \in E
                         \/ s.flag \in StorageFlag /\ Block(m, s.flag, s.then)
                         \/ Compound(G, E, s)
  /\ s.do = "read" => Ready(m, E, s.b) /\ s.b \notin RatioBatches /\ s.then = << >>
  /\ s.do = "check" => /\ Ready(m, E, s.b)
                       /\ Proper(G, E \union {WasRead(s.b)} \union Tested(s.b), s.then)
  /\ s.do = "write" => /\ Ready(m, E, s.b) /\ s.b # "RAPL_UNIT"
                       /\ s.b = "FIXED_COUNTERS_CTRL_DATA" => WasRead(s.b) \in E
  /\ s.do = "put" => /\ s.b \in Batch /\ s.b # "RAPL_UNIT" /\ s.how \in {"zero", "whole", "field"}
                     /\ s.how = "field" <=> s.b = "FIXED_COUNTERS_CTRL_DATA"
                     /\ s.how = "field" => WasRead(s.b) \in E
  /\ s.do = "show" => \/ s.b = "UNCORE_COUNT"
                      \/ /\ s.b \in Batch /\ WasRead(s.b) \in E
                         /\ s.b \in RatioBatches => WasChecked(s.b) \in E
  /\ s.do = "agree" => Proper(G, E, s.then)
  /\ s.do = "levels" => /\ DOMAIN s.then = 1..3
                        /\ \A i \in 1..3 : Proper(G, E, s.then[i])
  /\ s.do = "take_units" => {Flag("RAPL_UNIT"), WasRead("RAPL_UNIT")} \subseteq E
  /\ s.do = "convert" => UnitsReady \in E
  /\ s.do \in {"cap", "turbo"} => s.socket \in Socket

Sound(m, G) == \A E, s : <<E, s>> \in G => StepOK(m, G, E, s)

\* With the tokens E before it, the plan is good, and gives F.
Good(m, E, p, F) ==
  \E G : Sound(m, G) /\ Proper(G, E, p) /\ F \subseteq Before(E, p, Len(p) + 1)

-----------------------------------------------------------------------------
\* The state.

\* The operations of a batch that holds registers regs, in this order.
Laid(b, regs, rd) ==
  [i \in 1..(Len(regs) * Width(b)) |->
     [msr |-> regs[((i - 1) \div Width(b)) + 1], cpu |-> CpusOf(b)[((i - 1) % Width(b)) + 1],
      isrdmsr |-> rd]]

\* The operations of a batch are laid out register by register, each register
\* once, and turned in one direction.
WellLaid(m, b, o) ==
  \E regs \in Seq(Register), rd \in BOOLEAN :
    /\ o = Laid(b, regs, rd)
    /\ \A k \in 1..Len(regs) : Belongs(m, b, regs[k])
    /\ \A j, k \in 1..Len(regs) : j # k /\ regs[j] # Absent => regs[j] # regs[k]

\* Every batch is loaded, or will be before anything else is done.
StorageInv ==
  /\ \A k \in 1..Len(todo) : IsInit(todo[k]) => \A j \in 1..k : IsInit(todo[j])
  /\ \A k \in 1..Len(todo) : IsInit(todo[k]) => FlagOf(todo[k].b) \in done
  /\ \A b \in Batch :
       /\ Filling(model, todo, b, ops[b], size[b])
       /\ FlagOf(b) \in done /\ Uses(model, b) => ops[b] # << >> \/ LoadsOf(todo, b) # {}
       /\ FlagOf(b) \notin done => ops[b] = << >> /\ b \notin fresh
       /\ LoadsOf(todo, b) # {} => b \notin fresh
       /\ WellLaid(model, b, ops[b])
       /\ Len(ops[b]) <= size[b]

\* The values the library has of the control registers, while nothing refuses.
Kept == {"hw", "set"}
ValuesInv ==
  /\ \A c \in Cpu : reg[R("MISC_ENABLE")][c] \in Kept
  /\ refused => refusals > 0
  /\ refusals = 0 =>
       /\ \A c \in Cpu : \A msr \in Written : reg[msr][c] # "wiped"
       /\ \A c \in Cpu : \A msr \in Controls \union {R("PKG_POWER_LIMIT")} : reg[msr][c] \in Kept
       /\ \A b \in Batch : \A i \in DOMAIN data[b] : data[b][i] # "wiped"
       /\ "FIXED_COUNTERS_CTRL_DATA" \in fresh =>
            \A i \in DOMAIN data["FIXED_COUNTERS_CTRL_DATA"] : data["FIXED_COUNTERS_CTRL_DATA"][i] \in Kept
       /\ "RAPL_UNIT" \in fresh => \A i \in DOMAIN data["RAPL_UNIT"] : data["RAPL_UNIT"][i] = "hw"

\* The units come from the unit register of each socket.
UnitsOK == /\ Len(units) = NSOCKETS
           /\ \A s \in Socket : /\ units[s + 1].from = R("RAPL_POWER_UNIT")
                                /\ units[s + 1].cpu = devidx(s, 0, 0)
                                /\ refusals = 0 => units[s + 1].val = "hw"

\* The tokens of the state; without the batch device every test is passed.
Now == {Flag(f) : f \in done}
         \union {WasRead(b) : b \in IF refused THEN Batch ELSE fresh}
         \union {WasChecked(b) : b \in {r \in RatioBatches : batchfd = -1 \/ r \in fresh}}
         \union {t \in {UnitsReady} : UnitsOK}

\* What a flag stands for is there, or comes before anything else does.
ImpliedInv ==
  \A f \in done : \A t \in Implied(f) : t \in Now \/ LeadsTo(todo, t)

\* The plan at hand is good from here on.
TodoOK(m, G, E, p) ==
  /\ IsSeq(p)
  /\ \A k \in 1..Len(p) :
       \/ InitStepOK(m, p[k])
       \/ \E D : <<D, p[k]>> \in G /\ D \subseteq Before(E, p, k)
PlanInv == /\ \E G : Sound(model, G) /\ TodoOK(model, G, Now, todo)
           /\ call \in {"none", "crashed"} => todo = << >>
=============================================================================
