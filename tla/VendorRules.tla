---------------------------- MODULE VendorRules ----------------------------
(***************************************************************************)
(* The rules the plans of the vendor platforms keep, whatever the numbers  *)
(* of sockets, cores and GPUs, and the invariant of VendorFeatures they    *)
(* give.                                                                   *)
(*                                                                         *)
(* Of a call are known facts: what its variables hold, what it has given   *)
(* out, what it may have open, which devices have taken their cap.  A rule *)
(* says with which facts a step may be taken and which hold behind it.  A  *)
(* plan holds plans in its steps, to no bounded depth: it is good when     *)
(* some set of <<facts at a return, before, step, behind>> contains its    *)
(* steps and is closed under the rules.                                    *)
(***************************************************************************)
EXTENDS VendorFeatures

IsSeq(p) == \E S : p \in Seq(S)

-----------------------------------------------------------------------------
\* Facts: the content of variables; what was given out; what open has at most;
\* the devices that have taken their share, and those in which nothing above it
\* is or comes in force; whether the request is still as asked or a share; and
\* the trouble that is known to have come up, "none", "refused" or "complained".
\* What is said of variables, reports, files and caps is void after trouble, as
\* far as the properties let it be.
Facts(vals, claims, opened, taken, bound, wanted, mark) ==
  [vals |-> vals, claims |-> claims, opened |-> opened, taken |-> taken, bound |-> bound, wanted |-> wanted,
   mark |-> mark]

NoVals == [v \in {} |-> {}]
Extend(vals, v, content) == [w \in DOMAIN vals \union {v} |-> IF w = v THEN content ELSE vals[w]]

WithVal(a, v, content) ==
  Facts(Extend(a.vals, v, content), a.claims, a.opened, a.taken, a.bound, a.wanted, a.mark)
Plus(a, claims, taken, bound) ==
  Facts(a.vals, a.claims \union claims, a.opened, a.taken \union taken, a.bound \union bound, a.wanted, a.mark)
Opened(a, r) == Facts(a.vals, a.claims, a.opened \union {r}, a.taken, a.bound, a.wanted, a.mark)
Closed(a, rs) == Facts(a.vals, a.claims, a.opened \ rs, a.taken, a.bound, a.wanted, a.mark)
Shared(a) == Facts(a.vals, a.claims, a.opened, a.taken, a.bound, "share", a.mark)
Refused(a) ==
  Facts(a.vals, a.claims, a.opened, a.taken, a.bound, a.wanted,
        IF a.mark = "complained" THEN "complained" ELSE "refused")
Complained(a) == Facts(a.vals, a.claims, a.opened, a.taken, a.bound, a.wanted, "complained")

\* What the properties excuse a feature from, and the devices of its platform.
Traits(p, f) ==
  {t \in {"old", "never", "leaves", "blind", "halves"} :
     /\ t = "old" => <<p, f>> \in KeepOldValues
     /\ t = "never" => <<p, f>> \in NeverAsks
     /\ t = "leaves" => <<p, f>> \in NeverCloses
     /\ t = "blind" => <<p, f>> \in CapBlindly
     /\ t = "halves" => <<p, f>> \in Halves}
Mode(p, f) == [traits |-> Traits(p, f), devs |-> DevicesOf(p)]

\* The facts say exactly what was read and given out, what is open at most, and
\* what became of the caps.
Exact(m, a) == a.mark = "none" /\ "never" \notin m.traits
Tidy(m, a) == a.mark # "complained" /\ "leaves" \notin m.traits
Caps(m, a) == a.mark # "complained" /\ ~(a.mark = "refused" /\ "blind" \in m.traits)

\* Facts a say all that facts b do.
Entails(m, a, b) ==
  /\ b.mark # "none" => a.mark = b.mark
  /\ "old" \notin m.traits \/ Exact(m, a) => DOMAIN b.vals \subseteq DOMAIN a.vals
  /\ "old" \notin m.traits => \A v \in DOMAIN b.vals : a.vals[v] \subseteq b.vals[v]
  /\ Exact(m, a) => (\A v \in DOMAIN b.vals : a.vals[v] = b.vals[v]) /\ a.claims = b.claims
  /\ Tidy(m, a) => a.opened \subseteq b.opened
  /\ Caps(m, a) => b.taken \subseteq a.taken /\ b.bound \subseteq a.bound /\ a.wanted = b.wanted

-----------------------------------------------------------------------------
\* The steps of plan p lead from facts a to facts b, each with one of the rules of G.
Runs(m, G, r, a, p, b) ==
  /\ IsSeq(p)
  /\ \E P, Q : /\ Q[0] = a /\ P[Len(p) + 1] = b
               /\ \A k \in 0..Len(p) : Entails(m, Q[k], P[k + 1])
               /\ \A k \in 1..Len(p) : <<r, P[k], p[k], Q[k]>> \in G

RightClaim(m, a, s) ==
  /\ s.v \in DOMAIN a.vals
  /\ a.vals[s.v] = s.claim \/ ("never" \in m.traits /\ a.vals[s.v] \subseteq s.claim)

Rule(m, G, r, a, s, b) ==
  /\ s.do \in {"get", "let", "add", "show", "fork", "open", "open file", "close", "shutdown", "count",
               "divide", "lower", "cap", "verify", "complain", "each", "call", "return", "die"}
  /\ s.do = "get" => /\ Runs(m, G, r, WithVal(a, s.v, {s.src}), s.ok, b)
                     /\ Runs(m, G, r, Refused(a), s.no, b)
                     /\ Runs(m, G, r, Refused(a), s.off, b)
  /\ s.do = "let" => Entails(m, WithVal(a, s.v, s.val), b)
  /\ s.do = "add" => /\ {s.v, s.w} \subseteq DOMAIN a.vals
                     /\ a.vals[s.v] \intersect a.vals[s.w] = {}
                     /\ Entails(m, WithVal(a, s.v, a.vals[s.v] \union a.vals[s.w]), b)
  /\ s.do = "show" => RightClaim(m, a, s) /\ Entails(m, Plus(a, {s.claim}, {}, {}), b)
  /\ s.do = "fork" => Runs(m, G, r, a, s.one, b) /\ Runs(m, G, r, a, s.other, b)
  /\ s.do \in {"open", "open file"} => /\ Runs(m, G, r, Opened(a, s.r), s.ok, b)
                                       /\ Runs(m, G, r, Refused(a), s.no, b)
  /\ s.do = "open file" => s.r # rsmi /\ Runs(m, G, r, Opened(a, s.r), s.zero, b)
  /\ s.do = "close" => Entails(m, Closed(a, s.rs), b)
  /\ s.do = "shutdown" => /\ s.r = rsmi
                          /\ Entails(m, Closed(a, {s.r}), b) /\ Runs(m, G, r, Refused(a), s.no, b)
  /\ s.do = "count" => /\ Runs(m, G, r, a, s.plans[NGPUS], b)
                       /\ s.junk = {} => Runs(m, G, r, Refused(a), s.no, b)
                       /\ \A n \in s.junk : Runs(m, G, r, Refused(a), s.no \o s.plans[n], b)
  /\ s.do = "divide" => /\ s.by = 2 /\ "halves" \in m.traits /\ a.wanted = "asked"
                        /\ Entails(m, Shared(a), b)
  /\ s.do = "lower" => a.wanted = "share" /\ Entails(m, a, b) /\ Entails(m, Refused(a), b)
  /\ s.do = "cap" => /\ a.wanted = "share" /\ (s.dev \in m.devs \/ a.mark = "complained")
                     /\ Entails(m, Plus(a, {}, {s.dev}, {}), b)
                     /\ Runs(m, G, r, Refused(a), s.no, b)
  /\ s.do = "verify" => /\ a.wanted = "share" /\ s.dev \in a.taken
                        /\ Entails(m, Plus(a, {}, {}, {s.dev}), b)
                        /\ Runs(m, G, r, a, s.differs, b)
                        /\ Runs(m, G, r, Refused(a), s.no, b)
  /\ s.do = "complain" => Entails(m, Complained(a), b)
  /\ s.do = "each" => /\ s.i \in Int /\ s.last \in Int
                      /\ s.i <= s.last => \E c : /\ Runs(m, G, r, a, s.bodies[s.i], c)
                                                 /\ Runs(m, G, r, c, LoopFrom(s.i + 1, s.last, s.bodies), b)
                      /\ s.i > s.last => Entails(m, a, b)
  /\ s.do = "call" => \E c : Entails(m, c, b) /\ Runs(m, G, c, a, s.plan, c)
  /\ s.do = "return" => s.rc \in {0, -1} /\ Entails(m, a, r)

Sound(m, G) == \A r, a, s, b : <<r, a, s, b>> \in G => Rule(m, G, r, a, s, b)

\* With facts a before it, the plan is good and leaves b; where it returns, r holds.
Good(m, r, a, p, b) == \E G : Sound(m, G) /\ Runs(m, G, r, a, p, b)

-----------------------------------------------------------------------------
\* Before the first step of a call, and behind its last.
Start(m) ==
  Facts([v \in {Var("node")} |-> NodePower], {}, {}, {}, {},
        IF "halves" \in m.traits THEN "asked" ELSE "share", "none")
Goal(p, f) ==
  Facts(NoVals, Features[p][f].claims, {}, Features[p][f].caps,
        IF <<p, f>> \in CapsNode THEN Features[p][f].caps ELSE {}, "share", "none")

\* The state is as facts a say.
Wanted(a) ==
  /\ a.wanted \in {"asked", "share"}
  /\ a.wanted = "asked" => want = asked
  /\ a.wanted = "share" => want <= share /\ Lesser(want, CEILING) = Lesser(share, CEILING)
Heeded(a) ==
  /\ Wanted(a)
  /\ a.taken \union a.bound \subseteq DevicesOf(platform)
  /\ \A d \in a.taken : accepted[d] = Lesser(share, CEILING)
  /\ \A d \in a.bound : accepted[d] <= share /\ inforce[d] <= share

Fits(m, a) ==
  /\ a.mark \in {"none", "refused", "complained"}
  /\ a.mark = "refused" => refused
  /\ a.mark = "complained" => complained
  /\ "old" \notin m.traits => \A v \in DOMAIN a.vals : ValueOf(v) \subseteq a.vals[v]
  /\ ~refused /\ ~complained /\ "never" \notin m.traits =>
       /\ \A v \in DOMAIN a.vals : ValueOf(v) = a.vals[v]
       /\ shown = {[claim |-> c, value |-> c] : c \in a.claims}
  /\ ~complained /\ "leaves" \notin m.traits => open \subseteq a.opened
  /\ ~complained /\ ("blind" \in m.traits => ~refused) => Heeded(a)

mode == Mode(platform, api)

\* The innermost function leads to where it returns, each of those that called it
\* from there to its own end, and the last to the goal of the feature.
Stacked(m, G, B) ==
  /\ \E a : Fits(m, a) /\ Runs(m, G, B[0], a, ahead, B[0])
  /\ IsSeq(callers)
  /\ \A i \in 1..Len(callers) : Runs(m, G, B[i], B[i - 1], callers[i], B[i])
  /\ Entails(m, B[Len(callers)], Goal(platform, api))

PlanInv == status = "running" => \E G, B : Sound(mode, G) /\ Stacked(mode, G, B)
DoneInv == status = "returned" => Fits(mode, Goal(platform, api))
OwnInv == "old" \notin mode.traits => \A s \in shown : s.value \subseteq s.claim

VendorInv == TypeOK /\ zero # rsmi /\ PlanInv /\ DoneInv /\ OwnInv
=============================================================================
