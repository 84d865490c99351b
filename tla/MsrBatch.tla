------------------------------ MODULE MsrBatch ------------------------------
(***************************************************************************)
(* The batches of msr_core.c: arrays of register operations that a feature *)
(* allocates once, loads with one operation per socket or per thread, and  *)
(* then reads or writes as a whole, through the batch device when there is *)
(* one and register by register when there is not.                         *)
(*                                                                         *)
(* A register is a pair <<name, index>>.  Of the 64 bits of an operation   *)
(* and of a register the model keeps where they come from: "zero" (calloc, *)
(* or a literal 0), "hw" (what the machine holds), "set" (fields replaced  *)
(* in what was read, the bits around them as they were), "whole" (all 64   *)
(* bits put together by this library, from 0 and not from a read), "wiped" *)
(* (fields replaced in bits that were never read).                         *)
(***************************************************************************)
EXTENDS Integers, Sequences, FiniteSets
CONSTANTS NSOCKETS, NCORES, NTHREADS, \* what variorum_get_topology reports
          NPMC                        \* what cpuid_num_pmc reports
VARIABLES batchfd, \* static batchfd of do_batch_op: 0 before the first batch
          size,    \* per batch, the operations it has room for
          ops,     \* per batch, the operations loaded
          data,    \* per batch, the msrdata of each operation
          reg      \* the registers the library writes, per logical processor

batchVars == <<batchfd, size, ops, data, reg>>

\* The topology divides evenly: load_socket_batch steps by ncores / nsockets.
ASSUME TopologyAssumption ==
  /\ {NSOCKETS, NCORES, NTHREADS, NPMC} \subseteq Nat \ {0}
  /\ NCORES % NSOCKETS = 0 /\ NTHREADS % NCORES = 0
  /\ NPMC >= 2 \* print_perfmon_counter_data programs the first two

Batch == {"RAPL_DATA", "RAPL_UNIT", "FIXED_COUNTERS_DATA", "FIXED_COUNTERS_CTRL_DATA",
          "COUNTERS_DATA", "COUNTERS_CTRL", "CLOCKS_DATA", "PERF_DATA", "THERM_STAT",
          "PKG_THERM_STAT", "TEMP_TARGET", "PERF_CTRL", "UNCORE_EVTSEL", "UNCORE_COUNT",
          "PLATFORM_INFO", "MIN_OPERATING_RATIO", "MAX_EFFICIENCY", "TURBO_RATIO_LIMIT",
          "TURBO_RATIO_LIMIT1", "TURBO_RATIO_LIMIT_CORES", "TDP_DEFS", "TDP_CONFIG"}

Socket == 0..(NSOCKETS - 1)
Cpu == 0..(NTHREADS - 1)
Tag == {"zero", "hw", "set", "whole", "wiped"}

\* The fields of the models' tables of registers, and none of them.
Name == {"PLATFORM_INFO", "TIME_STAMP_COUNTER", "RAPL_POWER_UNIT", "PKG_POWER_LIMIT",
         "PKG_ENERGY_STATUS", "PKG_POWER_INFO", "DRAM_POWER_INFO", "DRAM_ENERGY_STATUS",
         "DRAM_POWER_LIMIT", "FIXED_CTR", "FIXED_CTR_CTRL", "PERF_GLOBAL_CTRL", "MPERF", "APERF",
         "PERFMON", "PERFEVTSEL", "PCU_EVTSEL", "PERF_STATUS", "PERF_CTL", "TEMPERATURE_TARGET",
         "THERM_STATUS", "PACKAGE_THERM_STATUS", "MISC_ENABLE", "TURBO_RATIO_LIMIT",
         "TURBO_RATIO_LIMIT1", "TURBO_RATIO_LIMIT_CORES", "CONFIG_TDP_LEVEL1", "CONFIG_TDP_LEVEL2",
         "none"}
Register == Name \X Nat

R(name) == <<name, 0>>
Registers(name, n) == {<<name, k>> : k \in 0..(n - 1)}

\* The address a field of a model's table has that is not set: 0.
Absent == R("none")

PerfEvtSel == Registers("PERFEVTSEL", IF NPMC < 4 THEN 4 ELSE NPMC)
PerfMon == Registers("PERFMON", NPMC)

\* The registers some feature writes, and those of them the processor lets
\* nobody write.
Written == PerfEvtSel \union PerfMon \union Registers("PCU_EVTSEL", 4)
             \union {R("PERF_GLOBAL_CTRL"), R("FIXED_CTR_CTRL"), R("PKG_POWER_LIMIT"),
                     R("PERF_CTL"), R("PERF_STATUS"), R("MISC_ENABLE"), Absent}
ReadOnly == {R("PERF_STATUS")}

devidx(socket, core, thread) ==
  thread * NSOCKETS * (NCORES \div NSOCKETS) + (socket * NCORES) \div NSOCKETS + core

Op(msr, cpu) == [msr |-> msr, cpu |-> cpu, isrdmsr |-> TRUE]
NoOp == [msr |-> Absent, cpu |-> 0, isrdmsr |-> FALSE]

\* batch_storage hands out entries that are empty the first time.
BatchInit == /\ batchfd = 0
             /\ size = [b \in Batch |-> 0]
             /\ ops = [b \in Batch |-> << >>]
             /\ data = [b \in Batch |-> << >>]
             /\ reg = [msr \in Written |-> [c \in Cpu |-> "hw"]]

\* calloc gives a batch new operations; numops stays what it was.
allocate_batch(b, bsize) ==
  /\ size' = [size EXCEPT ![b] = bsize]
  /\ ops' = [ops EXCEPT ![b] = [i \in DOMAIN @ |-> NoOp]]
  /\ data' = [data EXCEPT ![b] = [i \in DOMAIN @ |-> "zero"]]
  /\ UNCHANGED <<batchfd, reg>>

\* Fault: the first processors are taken to be on different sockets.
FirstCpus == [k \in 1..NSOCKETS |-> k - 1]

\* The processors load_socket_batch and load_thread_batch visit, in order.
SocketCpus == LET stride == NCORES \div NSOCKETS
              IN [k \in 1..((NCORES + stride - 1) \div stride) |-> (k - 1) * stride]
ThreadCpus == [k \in 1..NTHREADS |-> k - 1]

\* create_batch_op refuses only what comes after the first operation too many.
Room(b) == size[b] + 1 - Len(ops[b])

\* Fault: an operation is given no place for its data.
LoadsNoData(b, msr, cpus) ==
  LET n == IF Len(cpus) <= Room(b) THEN Len(cpus) ELSE IF Room(b) < 0 THEN 0 ELSE Room(b)
  IN /\ ops' = [ops EXCEPT ![b] = @ \o [i \in 1..n |-> Op(msr, cpus[i])]]
     /\ UNCHANGED <<batchfd, size, data, reg>>

load_batch(b, msr, cpus) ==
  LET n == IF Len(cpus) <= Room(b) THEN Len(cpus) ELSE IF Room(b) < 0 THEN 0 ELSE Room(b)
  IN /\ ops' = [ops EXCEPT ![b] = @ \o [i \in 1..n |-> Op(msr, cpus[i])]]
     /\ data' = [data EXCEPT ![b] = @ \o [i \in 1..n |-> "zero"]]
     /\ UNCHANGED <<batchfd, size, reg>>

\* What a register holds on a processor.
Value(msr, cpu) == IF msr \in Written THEN reg[msr][cpu] ELSE "hw"

\* The processors a transfer of batch b reaches: not those that refuse it, and
\* no write reaches a register that cannot be written.
Reached(b, rd, refused) ==
  {i \in DOMAIN ops[b] : ops[b][i].cpu \notin refused /\ (rd[i] \/ ops[b][i].msr \notin ReadOnly)}

\* Every operation in its own direction: reads fill msrdata, writes empty it
\* into the register.
Transfer(b, rd, refused) ==
  LET done == Reached(b, rd, refused)
      Writer(msr, c) == {i \in done : ~rd[i] /\ ops[b][i].msr = msr /\ ops[b][i].cpu = c}
  IN /\ data' = [data EXCEPT ![b] = [i \in DOMAIN @ |->
                   IF i \in done /\ rd[i] THEN Value(ops[b][i].msr, ops[b][i].cpu) ELSE @[i]]]
     /\ reg' = [msr \in Written |-> [c \in Cpu |->
                   IF Writer(msr, c) = {} THEN reg[msr][c]
                   ELSE data[b][CHOOSE i \in Writer(msr, c) :
                                  \A j \in Writer(msr, c) : j <= i]]]

\* do_batch_op opens the device once, and goes without it for good if that fails.
OpenBatch(fd) == IF batchfd = 0 THEN fd \in {-1, 1} ELSE fd = batchfd

\* Register by register, in the direction asked for; what they answer is lost.
compatibility_batch(b, type, refused) ==
  /\ Transfer(b, [i \in DOMAIN ops[b] |-> type = "read"], refused)
  /\ UNCHANGED <<size, ops>>

\* The device: the directions are switched if the first operation has the
\* wrong one; an empty batch is an error and nothing is done.
ioctl_batch(b, type, refused) ==
  LET switch == Len(ops[b]) > 0 /\ ops[b][1].isrdmsr # (type = "read")
      rd == [i \in DOMAIN ops[b] |-> IF switch THEN type = "read" ELSE ops[b][i].isrdmsr]
  IN /\ Transfer(b, rd, refused)
     /\ ops' = [ops EXCEPT ![b] = [i \in DOMAIN @ |-> [@[i] EXCEPT !.isrdmsr = rd[i]]]]
     /\ UNCHANGED size

\* read_batch and write_batch, and what they return.
do_batch_op(b, type, refused) ==
  \E fd \in {-1, 1} : /\ OpenBatch(fd)
                      /\ batchfd' = fd
                      /\ IF fd = -1 THEN compatibility_batch(b, type, refused)
                                    ELSE ioctl_batch(b, type, refused)

\* The library's own view of a failed transfer: only the device reports one.
Failed(b, type, refused) ==
  /\ batchfd' # -1
  /\ \/ ops[b] = << >>
     \/ Reached(b, [i \in DOMAIN ops[b] |-> type = "read"], refused) # DOMAIN ops[b]

\* A field is replaced: the bits around it are as good as what was there, and
\* those of a value that was not read are lost.
Around(old) == IF old \in {"hw", "set"} THEN "set" ELSE "wiped"

\* The program stores into the operations of some registers of a batch: all 64
\* bits ("whole", "zero"), or fields of what is there ("field").
Store(b, msrs, how) ==
  /\ data' = [data EXCEPT ![b] = [i \in DOMAIN @ |->
                IF ops[b][i].msr \notin msrs THEN @[i]
                ELSE IF how = "field" THEN Around(@[i]) ELSE how]]
  /\ UNCHANGED <<batchfd, size, ops, reg>>

BatchTypeOK ==
  /\ batchfd \in {-1, 0, 1}
  /\ size \in [Batch -> Nat]
  /\ ops \in [Batch -> Seq([msr : Register, cpu : Cpu, isrdmsr : BOOLEAN])]
  /\ data \in [Batch -> Seq(Tag)]
  /\ \A b \in Batch : Len(data[b]) = Len(ops[b])
  /\ reg \in [Written -> [Cpu -> Tag]]
=============================================================================
