---------------------------- MODULE IntelFeatures ----------------------------
(***************************************************************************)
(* A program that calls the entry points of an Intel processor, in any     *)
(* order and any number of times, on a machine whose registers may refuse  *)
(* an access.  One step of a plan is one action.                           *)
(***************************************************************************)
EXTENDS IntelModels
CONSTANTS CpuModels,    \* processor models, by CPUID: a subset of IntelModel
          TdpLevels,    \* what PLATFORM_INFO[34:33] may hold
          RefusalSets,  \* sets of processors that may refuse a transfer
          MaxRefusals,  \* bound: transfers refused in a run
          MaxCalls      \* bound: entry points called
VARIABLES model,        \* the processor
          tdp,          \* its levels, -1 before they are first looked at
          todo,         \* what is left of the plan of the current call
          done,         \* the static flags that are up
          units,        \* static ru of translate: the operations it came from
          call,         \* the entry point, or "none"
          fresh,        \* batches of which this call has read every operation
          refused,      \* some transfer of this call was refused
          calls, refusals

controlVars == <<model, tdp, done, units, call, calls>>
vars == <<batchVars, controlVars, todo, fresh, refused, refusals>>

ASSUME ModelAssumption == CpuModels \subseteq IntelModel /\ TdpLevels \subseteq 0..2
ASSUME RefusalAssumption == RefusalSets \subseteq SUBSET Cpu /\ {MaxRefusals, MaxCalls} \subseteq Nat

Init == /\ BatchInit
        /\ model \in CpuModels /\ tdp = -1
        /\ todo = << >> /\ done = {} /\ units = << >> /\ call = "none"
        /\ fresh = {} /\ refused = FALSE /\ calls = 0 /\ refusals = 0

Call(api) ==
  /\ call = "none" /\ calls < MaxCalls
  /\ call' = api /\ calls' = calls + 1
  /\ todo' = Plan(model, api)
  /\ fresh' = {} /\ refused' = FALSE
  /\ UNCHANGED <<batchVars, model, tdp, done, units, refusals>>

Return == /\ call \notin {"none", "crashed"} /\ todo = << >>
          /\ call' = "none"
          /\ UNCHANGED <<batchVars, model, tdp, todo, done, units, calls, fresh, refused, refusals>>

\* The current step is of a kind; the plan goes on with more steps before the rest.
At(kind) == todo # << >> /\ Head(todo).do = kind
Step == Head(todo)
GoOn(more) == todo' = more \o Tail(todo)

RunOnce == /\ At("once")
           /\ GoOn(IF Step.flag \in done THEN << >> ELSE Step.then)
           /\ done' = done \union {Step.flag}
           /\ UNCHANGED <<batchVars, model, tdp, units, call, calls, fresh, refused, refusals>>

DoAllocate == /\ At("allocate") /\ allocate_batch(Step.b, Step.n)
              /\ GoOn(<< >>)
              /\ UNCHANGED <<controlVars, fresh, refused, refusals>>

DoLoad == /\ At("load") /\ load_batch(Step.b, Address(model, Step.msr), Step.cpus)
          /\ GoOn(<< >>)
          /\ UNCHANGED <<controlVars, fresh, refused, refusals>>

DoPut == /\ At("put") /\ Store(Step.b, Step.msrs, Step.how)
         /\ GoOn(<< >>)
         /\ UNCHANGED <<controlVars, fresh, refused, refusals>>

\* The processors that refuse the transfer at hand; a bounded number of times.
Refuse(S) == /\ S = {} \/ (S \in RefusalSets /\ refusals < MaxRefusals)
             /\ refusals' = IF S = {} THEN refusals ELSE refusals + 1
             /\ refused' = (refused \/ S # {})

\* A read whose result is not looked at, or looked at: then what it guards is
\* done after a good read only.
DoRead == \E S \in RefusalSets \union {{}} :
  LET b == Step.b
  IN /\ At("read") \/ At("check")
     /\ Refuse(S)
     /\ do_batch_op(b, "read", S)
     /\ GoOn(IF Failed(b, "read", S) THEN << >> ELSE Step.then)
     /\ fresh' = IF \E i \in DOMAIN ops[b] : ops[b][i].cpu \in S THEN fresh \ {b} ELSE fresh \union {b}
     /\ UNCHANGED controlVars

DoWrite == \E S \in RefusalSets \union {{}} :
  /\ At("write")
  /\ Refuse(S)
  /\ do_batch_op(Step.b, "write", S)
  /\ GoOn(<< >>)
  /\ UNCHANGED <<controlVars, fresh>>

DoShow == /\ At("show")
          /\ GoOn(<< >>)
          /\ UNCHANGED <<batchVars, controlVars, fresh, refused, refusals>>

DoConvert == /\ At("convert")
             /\ GoOn(<< >>)
             /\ UNCHANGED <<batchVars, controlVars, fresh, refused, refusals>>

\* The sockets may hold different values, if there are two.
DoAgree == /\ At("agree")
           /\ \/ GoOn(Step.then)
              \/ NSOCKETS > 1 /\ GoOn(<< >>)
           /\ UNCHANGED <<batchVars, controlVars, fresh, refused, refusals>>

\* get_rapl_power_unit fills the units of translate from the batch.
DoTakeUnits == /\ At("take_units")
               /\ units' = [i \in DOMAIN ops["RAPL_UNIT"] |->
                              [from |-> ops["RAPL_UNIT"][i].msr, cpu |-> ops["RAPL_UNIT"][i].cpu,
                               val |-> data["RAPL_UNIT"][i]]]
               /\ GoOn(<< >>)
               /\ UNCHANGED <<batchVars, model, tdp, done, call, calls, fresh, refused, refusals>>

\* The number of levels is a field of what get_avx_limits has read.
DoLevels == \E levels \in TdpLevels :
  /\ At("levels")
  /\ tdp \in {-1, levels} /\ tdp' = levels
  /\ GoOn(Step.then[1 + IF data["TDP_DEFS"][1] = "zero" THEN 0 ELSE levels])
  /\ UNCHANGED <<batchVars, model, done, units, call, calls, fresh, refused, refusals>>

\* cap_package_power_limit of one socket: a read and a write of one register,
\* neither of which has to succeed for the other to be made.  A limit that does
\* not fit the 15 bits it has in the units of the socket is not written.
DoCap == \E Rd, Wr \in RefusalSets \union {{}}, fits \in BOOLEAN :
  LET c == devidx(Step.socket, 0, 0)
      currentval == IF c \in Rd THEN "zero" ELSE reg[R("PKG_POWER_LIMIT")][c]
      writes == fits /\ c \notin Wr
  IN /\ At("cap")
     /\ Refuse(Rd \union Wr)
     /\ reg' = [reg EXCEPT ![R("PKG_POWER_LIMIT")][c] = IF writes THEN Around(currentval) ELSE @]
     /\ GoOn(<< >>)
     /\ UNCHANGED <<batchfd, size, ops, data, controlVars, fresh>>

\* set_turbo_on and set_turbo_off of one socket: the register is written if its bit
\* is not as it should be, and the first access that fails ends the function.
DoTurbo == \E Rd, Wr \in RefusalSets \union {{}}, differs \in BOOLEAN :
  LET c == devidx(Step.socket, 0, 0)
      writes == c \notin Rd /\ differs
      old == reg[R("MISC_ENABLE")][c]
  IN /\ At("turbo")
     /\ Refuse(Rd \union Wr)
     /\ reg' = [reg EXCEPT ![R("MISC_ENABLE")][c] = IF writes /\ c \notin Wr THEN Around(old) ELSE @]
     /\ todo' = IF c \in Rd \/ (writes /\ c \in Wr) THEN << >> ELSE Tail(todo)
     /\ UNCHANGED <<batchfd, size, ops, data, controlVars, fresh>>

\* An address that is NULL is read.
Crash == /\ At("crash")
         /\ call' = "crashed" /\ todo' = << >>
         /\ UNCHANGED <<batchVars, model, tdp, done, units, calls, fresh, refused, refusals>>

Next == \/ \E api \in Api(model) : Call(api)
        \/ RunOnce \/ DoAllocate \/ DoLoad \/ DoPut \/ DoRead \/ DoWrite \/ DoShow \/ DoConvert
        \/ DoAgree \/ DoTakeUnits \/ DoLevels \/ DoCap \/ DoTurbo \/ Crash \/ Return

Spec == Init /\ [][Next]_vars

-----------------------------------------------------------------------------
\* Properties.

\* The static flags: one before the storage of a batch or two, one for what a
\* feature does the first time it is called.
StaticFlag ==
  {"fixed_counter_storage", "fixed_counter_ctrl_storage", "pmc_storage", "perfevtsel_storage",
   "clocks_storage", "perf_storage", "get_therm_stat", "perf_storage_temp",
   "unc_perfevtsel_storage", "unc_counters_storage", "read_rapl_data", "get_turbo_ratio_limits",
   "RAPL_UNIT", "PKG_THERM_STAT", "TEMP_TARGET", "PLATFORM_INFO", "MIN_OPERATING_RATIO",
   "MAX_EFFICIENCY", "TDP_DEFS", "TDP_CONFIG",
   "translate", "print_perfmon", "print_verbose_perfmon", "print_unc_counter_data",
   "print_clocks_data", "cap_p_state", "get_all_power_data", "get_all_power_data_fixed"}

\* Batches, plans and flags keep to their types (batch_storage and its users).
TypeOK == /\ BatchTypeOK
          /\ model \in CpuModels /\ tdp \in TdpLevels \union {-1}
          /\ call \in Api(model) \union {"none", "crashed"}
          /\ done \subseteq StaticFlag /\ fresh \subseteq Batch
          /\ refused \in BOOLEAN /\ calls \in 0..MaxCalls /\ refusals \in 0..MaxRefusals
          /\ units \in Seq([from : Register, cpu : Cpu, val : Tag])

\* Whatever entry point comes first, a batch that is read or written has been
\* allocated and loaded, and no feature loads more operations than it asked
\* room for: create_batch_op itself lets one too many through and writes past
\* the end of the array.
OpsFit == /\ \A b \in Batch : Len(ops[b]) <= size[b]
          /\ (At("read") \/ At("check") \/ At("write")) => ops[Step.b] # << >>

\* Batches whose read is tested: they hold the ratios.
RatioBatches == {"PLATFORM_INFO", "MAX_EFFICIENCY", "MIN_OPERATING_RATIO", "TDP_CONFIG"}

\* What is printed was read by the call that prints it, unless a register
\* refused.  With the batch device, a ratio is printed or multiplied by only if
\* the read it comes from succeeded on every socket; without the device,
\* compatibility_batch answers 0 whatever the registers answered.  The uncore
\* counters are the exception: print_unc_counter_data prints the zeros it has
\* stored, and never reads them.
ReportsAreFresh ==
  /\ At("show") /\ Step.b # "UNCORE_COUNT" /\ ~refused => Step.b \in fresh
  /\ At("show") /\ batchfd # -1 /\ Step.b \in RatioBatches => Step.b \in fresh

\* The operation printed as socket s is one on socket s: the k-th operation of
\* a register loaded per socket is on the first thread of the k-th socket.  And
\* it is on a register the model has: the exceptions are the uncore selectors,
\* which most models lack and print_unc_counter_data writes all the same, and
\* the energy of the memory of a Sandy Bridge; both go to address 0.
PerSocket == {"RAPL_DATA", "RAPL_UNIT", "PERF_DATA", "PKG_THERM_STAT", "TEMP_TARGET", "UNCORE_EVTSEL",
              "UNCORE_COUNT", "PLATFORM_INFO", "MIN_OPERATING_RATIO", "MAX_EFFICIENCY",
              "TURBO_RATIO_LIMIT", "TURBO_RATIO_LIMIT1", "TURBO_RATIO_LIMIT_CORES", "TDP_DEFS",
              "TDP_CONFIG"}
OpsReachTheirRegister ==
  /\ \A b \in PerSocket : \A i \in DOMAIN ops[b] :
       LET before == {j \in 1..i : ops[b][j].msr = ops[b][i].msr}
       IN ops[b][i].msr # Absent => ops[b][i].cpu = devidx(Cardinality(before) - 1, 0, 0)
  /\ \A b \in Batch : \A i \in DOMAIN ops[b] :
       ops[b][i].msr = Absent => b = "UNCORE_EVTSEL" \/ (b = "RAPL_DATA" /\ model \in {"2A", "2D"})

\* What the library writes without a read before, so that all others have put
\* there is lost: the event selectors (the first two from 0UL, the others as
\* calloc left them), the counters, which are cleared, the uncore selectors or,
\* where the model has none, address 0, again as calloc left them, and the
\* frequency request.
WrittenWhole == PerfEvtSel \union PerfMon \union Registers("PCU_EVTSEL", 4)
                  \union {R("PERF_CTL"), R("PERF_STATUS"), Absent}

\* Every other register it writes, of the fixed counters, the package power
\* limit and turbo, holds what the machine had there but for the fields that
\* were replaced in what was read (set_fixed_counter_ctrl, cap_package_power_limit),
\* as long as no register refuses.  The turbo functions look at the result of
\* the read, and keep the other bits whatever refuses.
OtherBitsSurvive ==
  \A msr \in Written \ WrittenWhole, c \in Cpu :
    refusals = 0 \/ msr = R("MISC_ENABLE") => reg[msr][c] \in {"hw", "set"}

\* No power or energy is converted before the units are there, and they come
\* from the unit register of each socket: translate takes them from whatever
\* register its first caller names, and some callers name another one.
UnitsAreTheUnits ==
  At("convert") => /\ Len(units) = NSOCKETS
                   /\ \A s \in Socket : /\ units[s + 1].from = R("RAPL_POWER_UNIT")
                                        /\ units[s + 1].cpu = devidx(s, 0, 0)
                                        /\ refusals = 0 => units[s + 1].val = "hw"

\* variorum.h:118, "Cap the CPU frequency for all cores within a socket": when
\* the call that caps it is done, every thread has the request in IA32_PERF_CTL.
FrequencyCapTakesEffect ==
  call = "cap_each_core_frequency_limit" /\ todo = << >> /\ refusals = 0
    => \A c \in Cpu : reg[R("PERF_CTL")][c] = "whole"

\* counters_features.h:381, "Reset all uncore performance counters for each
\* socket": that leaves the core counters alone, so that what is printed as
\* core counters counts the events print_perfmon_counter_data has programmed.
CountersStayProgrammed ==
  At("show") /\ Step.b = "COUNTERS_DATA" /\ refusals = 0
    => \A c \in Cpu : \A k \in {0, 1} : reg[<<"PERFEVTSEL", k>>][c] = "whole"
=============================================================================
