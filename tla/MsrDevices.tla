----------------------------- MODULE MsrDevices -----------------------------
(***************************************************************************)
(* The MSR device layer of libvariorum (src/variorum/msr/msr_core.c): the  *)
(* table of file descriptors core_fd() keeps, one slot per logical         *)
(* processor, and the two loops that fill it (init_msr) and empty it       *)
(* (finalize_msr), over the descriptor table of the process.               *)
(*                                                                         *)
(* The process is the library's caller: it opens and closes files of its   *)
(* own at any moment, and the kernel hands out the lowest free descriptor, *)
(* so a slot that is stale names somebody else's file.                     *)
(*                                                                         *)
(* Every public call of the library runs init_msr on entry; it reaches     *)
(* finalize_msr only when it gets as far as variorum_exit.  A call that    *)
(* gave up earlier is modelled by init_msr starting again over the         *)
(* descriptors of the previous call; "leftOpen" counts those brackets.     *)
(***************************************************************************)
EXTENDS Integers, FiniteSets

CONSTANTS
  NThreads,      \* logical processors: entries of core_fd()'s table
  MaxFd,         \* descriptors the process may hold (RLIMIT_NOFILE)
  Unwritten,     \* what a slot may hold before it is first written
  NodeStates,    \* states of a device node the environment may start in
  AllowStates,   \* states of /dev/cpu/msr_allowlist
  MaskInitError, \* a later platform's setter overwrites init_msr's error
  MaxLeftOpen    \* bound on the calls that return without variorum_exit

Threads == 0 .. (NThreads - 1)
Fd == 0 .. (MaxFd - 1)

NodeKinds == {"absent", "denied", "unopenable", "ok"}

ASSUME DevicesAssumption ==
  /\ NThreads \in Nat \ {0}
  /\ MaxFd \in Nat \ {0}
  /\ Unwritten \subseteq Int
  /\ NodeStates \subseteq NodeKinds
  /\ AllowStates \subseteq NodeKinds
  /\ MaskInitError \in BOOLEAN
  /\ MaxLeftOpen \in Nat

VARIABLES
  devfs,      \* devfs[k][d]: state of the node of CPU d, k = 0 msr_safe, 1 msr
  allow,      \* state of the msr_safe allowlist
  fds,        \* the descriptor table: -2 free, -1 the caller's file, d the MSR device of CPU d
  slot,       \* core_fd()'s table, allocated once and kept
  phase,      \* where the library stands between init_msr and finalize_msr
  dev_idx,    \* loop variable of init_msr and of finalize_msr
  kerneltype, \* 0 msr_safe, 1 the stock msr driver
  ret,        \* finalize_msr's return value, assigned in every iteration
  leftOpen    \* brackets given up without finalize_msr

msrVars == <<devfs, allow, fds, slot, phase, dev_idx, kerneltype, ret, leftOpen>>

Free == -2
Caller == -1

\* open(2) returns the lowest free descriptor.
LowestFree(f) == fds[f] = Free /\ \A g \in Fd : fds[g] = Free => f <= g

TableFull == \A f \in Fd : fds[f] # Free

Phases == {"closed", "opening", "open", "failed", "closing", "crashed"}

-----------------------------------------------------------------------------
\* Descriptor 0 is the caller's standard input when the process starts.
MsrInit ==
  /\ devfs \in [{0, 1} -> [Threads -> NodeStates]]
  /\ allow \in AllowStates
  /\ fds = [f \in Fd |-> IF f = 0 THEN Caller ELSE Free]
  /\ slot \in [Threads -> Unwritten]
  /\ phase = "closed"
  /\ dev_idx = 0
  /\ kerneltype = 1
  /\ ret = 0
  /\ leftOpen = 0

\* Fault: the kernel type of the probe, 3, is kept.
ProbeKeepsItsType == IF allow \in {"absent", "denied"} THEN 1 ELSE 3

\* stat_module on the allowlist (kerneltype 3): it decides for one of the two
\* drivers, and its return value is not looked at.
ProbeAllowlist == IF allow \in {"absent", "denied"} THEN 1 ELSE 0

\* init_msr begins.  From "open" or "failed" the previous call returned without
\* finalize_msr: nothing closes what its slots name.
StartInitMsr ==
  /\ phase \in {"closed", "open", "failed"}
  /\ phase # "closed" => leftOpen < MaxLeftOpen
  /\ phase' = "opening"
  /\ dev_idx' = 0
  /\ kerneltype' = ProbeAllowlist
  /\ leftOpen' = IF phase = "closed" THEN leftOpen ELSE leftOpen + 1
  /\ UNCHANGED <<devfs, allow, fds, slot, ret>>

Node == devfs[kerneltype][dev_idx]

\* stat() of the device node fails.  With the stock driver that is the end.
\* With msr_safe, stat_module switches to the stock driver and resets the loop
\* variable to -1, and init_msr stores the descriptor through core_fd(-1),
\* which is NULL.
StatFails ==
  /\ phase = "opening"
  /\ dev_idx < NThreads
  /\ Node = "absent"
  /\ \/ /\ kerneltype = 1
        /\ phase' = "failed"
        /\ UNCHANGED <<kerneltype, dev_idx>>
     \/ /\ kerneltype = 0
        /\ kerneltype' = 1
        /\ dev_idx' = -1
        /\ phase' = "crashed"
  /\ UNCHANGED <<devfs, allow, fds, slot, ret, leftOpen>>

\* The node's owner bits lack read or write: an error for either driver.
PermissionDenied ==
  /\ phase = "opening"
  /\ dev_idx < NThreads
  /\ Node = "denied"
  /\ kerneltype' = 1
  /\ dev_idx' = -1
  /\ phase' = "failed"
  /\ UNCHANGED <<devfs, allow, fds, slot, ret, leftOpen>>

\* open() succeeds: the descriptor goes into the slot, over what was there.
OpenDevice ==
  /\ phase = "opening"
  /\ dev_idx < NThreads
  /\ Node = "ok"
  /\ \E f \in Fd :
       /\ LowestFree(f)
       /\ fds' = [fds EXCEPT ![f] = dev_idx]
       /\ slot' = [slot EXCEPT ![dev_idx] = f]
  /\ dev_idx' = dev_idx + 1
  /\ UNCHANGED <<devfs, allow, phase, kerneltype, ret, leftOpen>>

\* Fault: the device that failed is not tried again with the stock driver.
OpenFailsAndGoesOn ==
  /\ phase = "opening"
  /\ dev_idx < NThreads
  /\ Node = "unopenable" \/ (Node = "ok" /\ TableFull)
  /\ slot' = [slot EXCEPT ![dev_idx] = -1]
  /\ kerneltype' = 1
  /\ dev_idx' = dev_idx + 1
  /\ phase' = IF kerneltype = 1 THEN "failed" ELSE phase
  /\ UNCHANGED <<devfs, allow, fds, ret, leftOpen>>

\* Fault: the device that failed is tried again with the same driver.
OpenFailsForEver ==
  /\ phase = "opening"
  /\ dev_idx < NThreads
  /\ Node = "unopenable" \/ (Node = "ok" /\ TableFull)
  /\ slot' = [slot EXCEPT ![dev_idx] = -1]
  /\ phase' = IF kerneltype = 1 THEN "failed" ELSE phase
  /\ UNCHANGED <<devfs, allow, fds, dev_idx, kerneltype, ret, leftOpen>>

\* open() fails, the driver refusing it or the descriptor table being full:
\* the slot holds -1; msr_safe is given up for the stock driver, this device
\* being tried again, and the stock driver's failure is final.
OpenFails ==
  /\ phase = "opening"
  /\ dev_idx < NThreads
  /\ Node = "unopenable" \/ (Node = "ok" /\ TableFull)
  /\ slot' = [slot EXCEPT ![dev_idx] = -1]
  /\ kerneltype' = 1
  /\ \/ kerneltype = 1 /\ phase' = "failed"
     \/ kerneltype = 0 /\ UNCHANGED phase
  /\ UNCHANGED <<devfs, allow, fds, dev_idx, ret, leftOpen>>

\* Fault: the loop of init_msr stops one device short.
InitDoneEarly ==
  /\ phase = "opening"
  /\ dev_idx = NThreads - 1
  /\ phase' = "open"
  /\ UNCHANGED <<devfs, allow, fds, slot, dev_idx, kerneltype, ret, leftOpen>>

InitDone ==
  /\ phase = "opening"
  /\ dev_idx = NThreads
  /\ phase' = "open"
  /\ UNCHANGED <<devfs, allow, fds, slot, dev_idx, kerneltype, ret, leftOpen>>

\* Fault: the loop of finalize_msr starts from the second device.
FinalizeMsrFromOne ==
  /\ phase = "open" \/ (phase = "failed" /\ MaskInitError)
  /\ phase' = "closing"
  /\ dev_idx' = 1
  /\ ret' = 0
  /\ UNCHANGED <<devfs, allow, fds, slot, kerneltype, leftOpen>>

\* finalize_msr begins: variorum_exit, reached when variorum_enter reported no
\* error, which a failed init_msr does only when its error was overwritten.
FinalizeMsr ==
  /\ phase = "open" \/ (phase = "failed" /\ MaskInitError)
  /\ phase' = "closing"
  /\ dev_idx' = 0
  /\ ret' = 0
  /\ UNCHANGED <<devfs, allow, fds, slot, kerneltype, leftOpen>>

IsOpenFd(n) == n \in Fd /\ fds[n] # Free

\* Fault: the slot is cleared before it is closed.
CloseDeviceCleared ==
  /\ phase = "closing"
  /\ dev_idx < NThreads
  /\ fds' = [fds EXCEPT ![0] = Free]
  /\ slot' = [slot EXCEPT ![dev_idx] = 0]
  /\ ret' = IF IsOpenFd(0) THEN 0 ELSE -1
  /\ dev_idx' = dev_idx + 1
  /\ UNCHANGED <<devfs, allow, phase, kerneltype, leftOpen>>

\* One close().  ret is overwritten by every iteration.
CloseDevice ==
  /\ phase = "closing"
  /\ dev_idx < NThreads
  /\ IF IsOpenFd(slot[dev_idx])
       THEN /\ fds' = [fds EXCEPT ![slot[dev_idx]] = Free]
            /\ slot' = [slot EXCEPT ![dev_idx] = 0]
            /\ ret' = 0
       ELSE /\ ret' = -1
            /\ UNCHANGED <<fds, slot>>
  /\ dev_idx' = dev_idx + 1
  /\ UNCHANGED <<devfs, allow, phase, kerneltype, leftOpen>>

FinalizeDone ==
  /\ phase = "closing"
  /\ dev_idx = NThreads
  /\ phase' = "closed"
  /\ UNCHANGED <<devfs, allow, fds, slot, dev_idx, kerneltype, ret, leftOpen>>

\* The caller's own files, opened and closed at any moment.
CallerOpens ==
  /\ phase # "crashed"
  /\ \E f \in Fd : LowestFree(f) /\ fds' = [fds EXCEPT ![f] = Caller]
  /\ UNCHANGED <<devfs, allow, slot, phase, dev_idx, kerneltype, ret, leftOpen>>

CallerCloses ==
  /\ phase # "crashed"
  /\ \E f \in Fd : fds[f] = Caller /\ fds' = [fds EXCEPT ![f] = Free]
  /\ UNCHANGED <<devfs, allow, slot, phase, dev_idx, kerneltype, ret, leftOpen>>

-----------------------------------------------------------------------------
\* The steps of the library and the steps of its caller.
LibraryStep ==
  \/ StatFails \/ PermissionDenied \/ OpenDevice \/ OpenFails \/ InitDone
  \/ CloseDevice \/ FinalizeDone

MsrNext ==
  \/ StartInitMsr
  \/ FinalizeMsr
  \/ LibraryStep
  \/ CallerOpens
  \/ CallerCloses

MsrSpec == MsrInit /\ [][MsrNext]_msrVars

\* init_msr and finalize_msr are plain loops: nothing blocks in them.
FairMsrSpec == MsrSpec /\ WF_msrVars(LibraryStep)

-----------------------------------------------------------------------------
MsrTypeOK ==
  /\ devfs \in [{0, 1} -> [Threads -> NodeKinds]]
  /\ allow \in NodeKinds
  /\ fds \in [Fd -> {Free, Caller} \cup Threads]
  /\ slot \in [Threads -> Int]
  /\ phase \in Phases
  /\ dev_idx \in -1 .. NThreads
  /\ kerneltype \in {0, 1}
  /\ ret \in {-1, 0}
  /\ leftOpen \in 0 .. MaxLeftOpen

\* Slot d names a descriptor that is open on the MSR device of CPU d.
Holds(d) == slot[d] \in Fd /\ fds[slot[d]] = d

\* The devices whose slot the current bracket has filled and not yet closed.
InBracket ==
  CASE phase = "opening" -> {d \in Threads : d < dev_idx}
    [] phase = "open"    -> Threads
    [] phase = "closing" -> {d \in Threads : d >= dev_idx}
    [] OTHER             -> {}

\* Between a successful init_msr and finalize_msr every register access
\* (read_msr_by_idx, write_msr_by_idx: pread and pwrite through the slot)
\* reaches the device of the processor it names, whatever earlier calls left
\* in the table and whatever files the caller opens meanwhile.
AccessReachesOwnDevice == phase = "open" => \A d \in Threads : Holds(d)

\* A call that leaves without variorum_exit costs at most one descriptor for
\* each processor: the descriptors open on a device are those of the abandoned
\* calls and the one of the bracket in progress.
Opened(d) == {f \in Fd : fds[f] = d}

LeaksOnlyWhenAbandoned ==
  \A d \in Threads :
    Cardinality(Opened(d)) <=
      leftOpen + (IF d \in InBracket \/ phase \in {"failed", "crashed"} THEN 1 ELSE 0)

\* finalize_msr closes MSR devices and nothing else: no file of the caller's is
\* closed by it, however descriptors were reused in between.
FinalizeClosesOnlyMsr ==
  [][phase = "closing" /\ dev_idx' # dev_idx =>
       \A f \in Fd : fds[f] = Caller => fds'[f] = Caller]_msrVars

\* The retries of init_msr end: a bracket that is being opened or closed gets
\* out of its loop.
LoopsEnd == phase \in {"opening", "closing"} ~> phase \notin {"opening", "closing"}

-----------------------------------------------------------------------------
\* The devices the bracket owns, read off the descriptor table.
Owned == IF phase \in {"open", "closing"} THEN {d \in InBracket : Holds(d)} ELSE {}

Promise == INSTANCE MsrModule WITH Dev <- Threads, mode <- phase, owned <- Owned

\* The descriptor loops implement the all-or-nothing bracket of MsrModule.
ImplementsMsrModule == Promise!AbsSpec

=============================================================================
