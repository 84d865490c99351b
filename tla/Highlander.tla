----------------------------- MODULE Highlander -----------------------------
(***************************************************************************)
(* The power monitors of one node (src/var_monitor): var_monitor,          *)
(* power_wrapper_static and power_wrapper_dynamic, which decide through    *)
(* two named semaphores which of them is "the highlander" and monitors;    *)
(* the others ("foes") only run their application (highlander.c).          *)
(*                                                                         *)
(* A name may be unlinked while processes hold the semaphore behind it,    *)
(* and the next sem_open then creates another.  A process creates at most  *)
(* one semaphore of each name, so a semaphore is called after the process  *)
(* that created it.                                                        *)
(***************************************************************************)
EXTENDS Integers, FiniteSets

CONSTANTS
  Procs,      \* processes that are started, in any order
  Dirs,       \* directories the monitors write to
  None,
  MayFail,    \* a process may be killed, or stopped by the user with -c
  MaxRemovals \* bound on the times the user removes the files of a directory

ASSUME HighlanderAssumption ==
  /\ IsFiniteSet(Procs)
  /\ None \notin Procs
  /\ MayFail \in BOOLEAN
  /\ MaxRemovals \in Nat

VARIABLES
  pc,            \* where each process stands
  dir,           \* the directory each process writes to
  nameK, nameL,  \* the semaphore behind /power_wrapperK and /power_wrapperL
  valK, valL,    \* values of the semaphores
  semk, seml,    \* the semaphores each process holds
  dat, summary,  \* the process that created the file of a directory
  removals

vars == <<pc, dir, nameK, nameL, valK, valL, semk, seml, dat, summary, removals>>
names == <<nameK, nameL>>
values == <<valK, valL>>
handles == <<semk, seml>>
files == <<dat, summary, removals>>

Init ==
  /\ pc = [p \in Procs |-> "start"]
  /\ dir \in [Procs -> Dirs]
  /\ nameK = None /\ nameL = None
  /\ valK = [p \in Procs |-> 0] /\ valL = [p \in Procs |-> 0]
  /\ semk = [p \in Procs |-> None] /\ seml = [p \in Procs |-> None]
  /\ dat = [d \in Dirs |-> None] /\ summary = [d \in Dirs |-> None]
  /\ removals = 0

Goto(p, from, to) == pc[p] = from /\ pc' = [pc EXCEPT ![p] = to]

\* sem_open with O_CREAT: the semaphore behind the name, made if there is none.
OpenK(p) ==
  /\ nameK' = IF nameK = None THEN p ELSE nameK
  /\ semk' = [semk EXCEPT ![p] = nameK']
OpenL(p) ==
  /\ nameL' = IF nameL = None THEN p ELSE nameL
  /\ seml' = [seml EXCEPT ![p] = nameL']

-----------------------------------------------------------------------------
\* highlander().

\* sem_open with O_CREAT and O_EXCL: whoever makes K is the highlander.
TryToBeHighlander(p) ==
  /\ \/ Goto(p, "start", "highlander_opens_l") /\ nameK = None /\ OpenK(p)
     \/ Goto(p, "start", "foe_opens_k") /\ nameK # None /\ UNCHANGED <<nameK, semk>>
  /\ UNCHANGED <<dir, nameL, seml, values, files>>

HighlanderOpensL(p) ==
  /\ Goto(p, "highlander_opens_l", "trace")
  /\ OpenL(p)
  /\ UNCHANGED <<dir, nameK, semk, values, files>>

\* By now the name may be gone: a foe then makes a semaphore of its own.
FoeOpensK(p) ==
  /\ Goto(p, "foe_opens_k", "foe_opens_l")
  /\ OpenK(p)
  /\ UNCHANGED <<dir, nameL, seml, values, files>>

FoeOpensL(p) ==
  /\ Goto(p, "foe_opens_l", "foe_posts")
  /\ OpenL(p)
  /\ UNCHANGED <<dir, nameK, semk, values, files>>

\* Fault: a foe posts twice.
FoePostsTwice(p) ==
  /\ Goto(p, "foe_posts", "foe_runs")
  /\ valK' = [valK EXCEPT ![semk[p]] = @ + 2]
  /\ UNCHANGED <<dir, names, valL, handles, files>>

\* The foe counts itself on K.
FoePosts(p) ==
  /\ Goto(p, "foe_posts", "foe_runs")
  /\ valK' = [valK EXCEPT ![semk[p]] = @ + 1]
  /\ UNCHANGED <<dir, names, valL, handles, files>>

-----------------------------------------------------------------------------
\* main() of the highlander, around the sampling thread (PowerMonitor).

\* Fault: the trace file is opened without O_EXCL.
CreateTraceAnyway(p) ==
  /\ Goto(p, "trace", "monitors")
  /\ dat' = [dat EXCEPT ![dir[p]] = p]
  /\ UNCHANGED <<dir, names, values, handles, summary, removals>>

\* The trace file is created with O_EXCL; a process that finds one leaves with
\* 1, and with the semaphores as they are.
CreateTrace(p) ==
  /\ \/ /\ Goto(p, "trace", "monitors")
        /\ dat[dir[p]] = None
        /\ dat' = [dat EXCEPT ![dir[p]] = p]
     \/ Goto(p, "trace", "failed") /\ dat[dir[p]] # None /\ UNCHANGED dat
  /\ UNCHANGED <<dir, names, values, handles, summary, removals>>

\* waitpid returns: the application of the highlander, or of a foe, is over.
AppEnds(p) ==
  /\ Goto(p, "monitors", "reads_k") \/ Goto(p, "foe_runs", "foe_waits")
  /\ UNCHANGED <<dir, names, values, handles, files>>

\* highlander_wait: the value of K is read once, before the loop it controls.
ReadK(p) ==
  /\ \/ Goto(p, "reads_k", "waits_l") /\ valK[semk[p]] > 1
     \/ Goto(p, "reads_k", "unlinks_k") /\ valK[semk[p]] <= 1
  /\ UNCHANGED <<dir, names, values, handles, files>>

\* Fault: the highlander waits on the semaphore of the foes.
WaitLOnK(p) ==
  /\ pc[p] = "waits_l"
  /\ valK[semk[p]] > 0
  /\ valK' = [valK EXCEPT ![semk[p]] = @ - 1]
  /\ UNCHANGED <<pc, dir, names, valL, handles, files>>

WaitL(p) ==
  /\ pc[p] = "waits_l"
  /\ valL[seml[p]] > 0
  /\ valL' = [valL EXCEPT ![seml[p]] = @ - 1]
  /\ UNCHANGED <<pc, dir, names, valK, handles, files>>

UnlinkK(p, from, to) ==
  /\ Goto(p, from, to)
  /\ nameK' = None
  /\ UNCHANGED <<dir, nameL, values, handles, files>>

UnlinkL(p, from, to) ==
  /\ Goto(p, from, to)
  /\ nameL' = None
  /\ UNCHANGED <<dir, nameK, values, handles, files>>

\* The summary file is created with O_EXCL, too.
CreateSummary(p) ==
  /\ \/ /\ Goto(p, "summary", "cleans_k")
        /\ summary[dir[p]] = None
        /\ summary' = [summary EXCEPT ![dir[p]] = p]
     \/ Goto(p, "summary", "failed") /\ summary[dir[p]] # None /\ UNCHANGED summary
  /\ UNCHANGED <<dir, names, values, handles, dat, removals>>

-----------------------------------------------------------------------------
\* highlander_wait of a foe: it takes back what it posted and signals L.
FoeWaits(p) ==
  /\ Goto(p, "foe_waits", "foe_signals")
  /\ valK[semk[p]] > 0
  /\ valK' = [valK EXCEPT ![semk[p]] = @ - 1]
  /\ UNCHANGED <<dir, names, valL, handles, files>>

FoeSignals(p) ==
  /\ Goto(p, "foe_signals", "cleans_k")
  /\ valL' = [valL EXCEPT ![seml[p]] = @ + 1]
  /\ UNCHANGED <<dir, names, valK, handles, files>>

\* Fault: the second name is forgotten.
UnlinksOne(p) ==
  \/ UnlinkK(p, "unlinks_k", "unlinks_l")
  \/ UnlinkL(p, "unlinks_l", "summary")
  \/ UnlinkK(p, "cleans_k", "cleans_l")
  \/ UnlinkK(p, "cleans_l", "done")

\* highlander_clean, run by the highlander and by every foe before they end,
\* and by a process started with -c.
Unlinks(p) ==
  \/ UnlinkK(p, "unlinks_k", "unlinks_l")
  \/ UnlinkL(p, "unlinks_l", "summary")
  \/ UnlinkK(p, "cleans_k", "cleans_l")
  \/ UnlinkL(p, "cleans_l", "done")

-----------------------------------------------------------------------------
\* The environment.

\* A process is started with -c instead of an application.
StartToClean(p) ==
  /\ MayFail
  /\ Goto(p, "start", "cleans_k")
  /\ UNCHANGED <<dir, names, values, handles, files>>

\* A process is killed, or a sample fails and it exits: the names stay.
Killed(p) ==
  /\ MayFail
  /\ pc[p] \notin {"start", "done", "failed"}
  /\ pc' = [pc EXCEPT ![p] = "failed"]
  /\ UNCHANGED <<dir, names, values, handles, files>>

Monitoring == {"monitors", "reads_k", "waits_l", "unlinks_k", "unlinks_l", "summary"}

\* The user removes the files of a directory no monitor is writing to.
RemoveFiles(d) ==
  /\ removals < MaxRemovals
  /\ \A p \in Procs : dir[p] = d => pc[p] \notin Monitoring
  /\ dat[d] # None
  /\ dat' = [dat EXCEPT ![d] = None]
  /\ summary' = [summary EXCEPT ![d] = None]
  /\ removals' = removals + 1
  /\ UNCHANGED <<pc, dir, names, values, handles>>

-----------------------------------------------------------------------------
Step(p) ==
  \/ TryToBeHighlander(p) \/ HighlanderOpensL(p)
  \/ FoeOpensK(p) \/ FoeOpensL(p) \/ FoePosts(p)
  \/ CreateTrace(p) \/ AppEnds(p) \/ ReadK(p) \/ WaitL(p) \/ CreateSummary(p)
  \/ FoeWaits(p) \/ FoeSignals(p)
  \/ Unlinks(p)

Next ==
  \/ \E p \in Procs : Step(p) \/ StartToClean(p) \/ Killed(p)
  \/ \E d \in Dirs : RemoveFiles(d)

Spec == Init /\ [][Next]_vars

-----------------------------------------------------------------------------
Locations ==
  {"start", "highlander_opens_l", "foe_opens_k", "foe_opens_l", "foe_posts", "foe_runs",
   "foe_waits", "foe_signals", "trace", "cleans_k", "cleans_l", "done", "failed"} \cup Monitoring

TypeOK ==
  /\ pc \in [Procs -> Locations]
  /\ dir \in [Procs -> Dirs]
  /\ nameK \in Procs \cup {None} /\ nameL \in Procs \cup {None}
  /\ valK \in [Procs -> 0 .. Cardinality(Procs)] /\ valL \in [Procs -> 0 .. Cardinality(Procs)]
  /\ semk \in [Procs -> Procs \cup {None}] /\ seml \in [Procs -> Procs \cup {None}]
  /\ dat \in [Dirs -> Procs \cup {None}] /\ summary \in [Dirs -> Procs \cup {None}]
  /\ removals \in 0 .. MaxRemovals

\* The value of a semaphore K covers the foes that hold it and have not taken
\* their post back: the sem_wait of a foe never blocks, whatever became of the
\* highlander and of the names, and never takes another foe's post away from it.
Attached(k) == {p \in Procs : semk[p] = k /\ pc[p] \in {"foe_runs", "foe_waits"}}

KCoversItsFoes == \A k \in Procs : valK[k] >= Cardinality(Attached(k))

\* No two monitors ever write the same trace, and none writes a trace that was
\* there before it: the process that monitors a directory made its trace file.
\* And a summary lies beside the trace of the same run, whatever was killed,
\* cleaned or started again in between (both files are opened O_EXCL).
FilesAreOfOneRun ==
  /\ \A p \in Procs : pc[p] \in Monitoring => dat[dir[p]] = p
  /\ \A d \in Dirs : summary[d] # None => summary[d] = dat[d]

\* Names are left behind only by a process that failed: when no process is
\* running and none failed, the next one finds no name and is the highlander.
NamesAreCleaned ==
  (\A p \in Procs : pc[p] \in {"start", "done"}) => nameK = None /\ nameL = None

\* Only one power monitor runs on the node: no two highlanders profile their
\* applications at once.
OneMonitorPerNode == Cardinality({p \in Procs : pc[p] = "monitors"}) <= 1

=============================================================================
