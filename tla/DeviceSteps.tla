----------------------------- MODULE DeviceSteps -----------------------------
(***************************************************************************)
(* The steps of which the features of the vendor platforms are made: they  *)
(* reach their devices through a library or through files of sysfs, fill   *)
(* local variables and print them, or set a cap and perhaps read it back.  *)
(* A feature is a plan, the sequence of its steps; a step that may fail    *)
(* holds the steps that follow either way.                                 *)
(*                                                                         *)
(* The content of a variable is the set of the readings it is the sum of:  *)
(* a reading is a pair of a quantity and the device it was read from.  A   *)
(* variable is a pair too, of a name and, in an array, a place.            *)
(***************************************************************************)
EXTENDS Integers, Sequences, FiniteSets
CONSTANTS NSOCKETS, \* sockets of the node
          NCORES,   \* cores of the node
          NGPUS     \* GPUs of the node

ASSUME DevicesAssumption == {NSOCKETS, NCORES, NGPUS} \subseteq Nat \ {0}

Sockets == 0..(NSOCKETS - 1)
Cores == 0..(NCORES - 1)
Gpus == 0..(NGPUS - 1)

Var(name) == <<name, 0>>

\* Steps.  A device is asked through the resource via; it answers, it refuses,
\* or the resource is not up.
GetOr(v, src, via, ok, no, off) ==
  <<[do |-> "get", v |-> v, src |-> src, via |-> via, ok |-> ok, no |-> no, off |-> off]>>
GetThen(v, src, via, ok, no) == GetOr(v, src, via, ok, no, no)
Get(v, src, via, no) == GetThen(v, src, via, << >>, no)
Let(v, content) == <<[do |-> "let", v |-> v, val |-> content]>>
Reset(v) == Let(v, {})
Junk == <<"junk", 0>>
Add(v, w) == <<[do |-> "add", v |-> v, w |-> w]>>
Copy(v, w) == Reset(v) \o Add(v, w)
\* v is given out as the sum of the readings of claim.
Show(claim, v) == <<[do |-> "show", claim |-> claim, v |-> v]>>

\* Either of two ways.
Fork(one, other) == <<[do |-> "fork", one |-> one, other |-> other]>>
\* A local that is declared in a loop and not set: what it last held, or anything.
Uninit(v) == Fork(<< >>, Let(v, {Junk}))

\* A library is brought up, which may be up already; a file is opened and may get
\* descriptor 0, if that is free.
Open(r, ok, no) == <<[do |-> "open", r |-> r, ok |-> ok, no |-> no]>>
OpenOr0(r, ok, no, on0) == <<[do |-> "open file", r |-> r, ok |-> ok, no |-> no, zero |-> on0]>>
OpenFile(r, no) == OpenOr0(r, << >>, no, << >>)
Close(rs) == <<[do |-> "close", rs |-> rs]>>
Shutdown(r, no) == <<[do |-> "shutdown", r |-> r, no |-> no]>>
\* The library counts the GPUs, or the count is one of junk.
Count(plans, via, junk, no) == <<[do |-> "count", plans |-> plans, via |-> via, junk |-> junk, no |-> no]>>

\* The request is divided, lowered to what the device allows, set, and read back.
Divide(by) == <<[do |-> "divide", by |-> by]>>
Lower(dev, via) == <<[do |-> "lower", dev |-> dev, via |-> via]>>
Cap(dev, via, no) == <<[do |-> "cap", dev |-> dev, via |-> via, no |-> no]>>
Verify(dev, via, no, differs) == <<[do |-> "verify", dev |-> dev, via |-> via, no |-> no, differs |-> differs]>>

Complain == <<[do |-> "complain"]>>
\* A function of the library; Return leaves the innermost.
Function(plan) == <<[do |-> "call", plan |-> plan]>>
Return(ret) == <<[do |-> "return", rc |-> ret]>>
Exit == Complain \o <<[do |-> "die"]>>
Crash == <<[do |-> "die"]>>

\* -1 stands for every result but 0.
Fail == Complain \o Return(-1)

\* A loop: its step is what is left of it, from i on.
LoopFrom(i, last, bodies) == <<[do |-> "each", i |-> i, last |-> last, bodies |-> bodies]>>
Each(first, last, Body(_)) == LoopFrom(first, last, [k \in first..last |-> Body(k)])
EachSocket(Body(_)) == Each(0, NSOCKETS - 1, Body)

\* What another platform has put into the JSON object as the power of the node.
NodePower == {<<"node", 0>>}

Of(what, d) == {<<what, d>>}
Sum(what, ds) == {<<what, d>> : d \in ds}
Claims(what, ds) == {Of(what, d) : d \in ds}

\* The GPUs of a socket: what is left over by the division belongs to none.
GpusPerSocket(n) == n \div NSOCKETS
GpusInReach == 0..(GpusPerSocket(NGPUS) * NSOCKETS - 1)

EachGpuOf(chipid, n, Body(_)) == Each(chipid * GpusPerSocket(n), (chipid + 1) * GpusPerSocket(n) - 1, Body)

\* A feature: its plan, what it gives out, and the devices it caps.
Reporting(plan, claims) == [plan |-> plan, claims |-> claims, caps |-> {}]
Capping(plan, devs) == [plan |-> plan, claims |-> {}, caps |-> devs]
=============================================================================
