------------------------- MODULE VendorRules_proofs -------------------------
(***************************************************************************)
(* The rules of VendorRules: how good plans are put together, into loops   *)
(* and functions and into features; that a step of a good plan leaves a    *)
(* good plan; and the invariant, given that every feature is good.         *)
(***************************************************************************)
EXTENDS VendorRules, TLAPS, FiniteSetTheorems

-----------------------------------------------------------------------------
\* Sequences.

\* A sequence of any elements has a length and a domain.
LEMMA SeqIs ==
  ASSUME NEW p, IsSeq(p)
  PROVE  Len(p) \in Nat /\ DOMAIN p = 1..Len(p)
  BY DEF IsSeq

\* Two sequences, one after the other.
LEMMA CatIs ==
  ASSUME NEW p, NEW q, IsSeq(p), IsSeq(q)
  PROVE  /\ IsSeq(p \o q)
         /\ Len(p \o q) = Len(p) + Len(q)
         /\ \A k \in 1..Len(p) : (p \o q)[k] = p[k]
         /\ \A k \in 1..Len(q) : (p \o q)[Len(p) + k] = q[k]
<1>1. PICK S : p \in Seq(S) BY DEF IsSeq
<1>2. PICK T1 : q \in Seq(T1) BY DEF IsSeq
<1>3. p \in Seq(S \union T1) /\ q \in Seq(S \union T1) BY <1>1, <1>2
<1>4. p \o q \in Seq(S \union T1) BY <1>3
<1>5. QED BY <1>3, <1>4 DEF IsSeq

\* A step on its own, no step, and what is left after the first one.
LEMMA OneIs ==
  ASSUME NEW s
  PROVE  IsSeq(<<s>>) /\ Len(<<s>>) = 1 /\ <<s>>[1] = s
<1>1. <<s>> \in Seq({s}) OBVIOUS
<1>2. QED BY <1>1 DEF IsSeq

\* The empty sequence is one.
LEMMA NoneIs == IsSeq(<< >>) /\ Len(<< >>) = 0
<1>1. << >> \in Seq({}) OBVIOUS
<1>2. QED BY <1>1 DEF IsSeq

\* What is left of a sequence behind its first element.
LEMMA RestIs ==
  ASSUME NEW p, IsSeq(p), p # << >>
  PROVE  /\ IsSeq(Tail(p)) /\ Len(p) \in Nat \ {0} /\ Len(Tail(p)) = Len(p) - 1
         /\ Head(p) = p[1]
         /\ \A k \in 1..Len(Tail(p)) : Tail(p)[k] = p[k + 1]
<1>1. PICK S : p \in Seq(S) BY DEF IsSeq
<1>2. Tail(p) \in Seq(S) BY <1>1
<1>3. QED BY <1>1, <1>2 DEF IsSeq

-----------------------------------------------------------------------------
\* Facts that follow from facts.

\* Facts follow from themselves.
LEMMA EntailsSame ==
  ASSUME NEW m, NEW a
  PROVE  Entails(m, a, a)
  BY DEF Entails

\* What follows from what follows, follows.
LEMMA EntailsThen ==
  ASSUME NEW m, NEW a, NEW b, NEW c, Entails(m, a, b), Entails(m, b, c)
  PROVE  Entails(m, a, c)
<1>1. Exact(m, a) => Exact(m, b) BY DEF Entails, Exact
<1>2. Tidy(m, a) => Tidy(m, b) BY DEF Entails, Tidy
<1>3. Caps(m, a) => Caps(m, b) BY DEF Entails, Caps
<1>4. c.mark # "none" => a.mark = c.mark BY DEF Entails
<1>5. "old" \notin m.traits \/ Exact(m, a) => DOMAIN c.vals \subseteq DOMAIN a.vals BY <1>1 DEF Entails
<1>6. "old" \notin m.traits => \A v \in DOMAIN c.vals : a.vals[v] \subseteq c.vals[v]
  BY DEF Entails
<1>7. Exact(m, a) => (\A v \in DOMAIN c.vals : a.vals[v] = c.vals[v]) /\ a.claims = c.claims
  BY <1>1 DEF Entails
<1>8. Tidy(m, a) => a.opened \subseteq c.opened BY <1>2 DEF Entails
<1>9. Caps(m, a) => c.taken \subseteq a.taken /\ c.bound \subseteq a.bound /\ a.wanted = c.wanted
  BY <1>3 DEF Entails
<1>10. QED BY <1>4, <1>5, <1>6, <1>7, <1>8, <1>9 DEF Entails

-----------------------------------------------------------------------------
\* Plans that run.

\* A plan of no steps leads to whatever follows.
LEMMA RunsNone ==
  ASSUME NEW m, NEW G, NEW r, NEW a, NEW b
  PROVE  Runs(m, G, r, a, << >>, b) <=> Entails(m, a, b)
<1>1. ASSUME Runs(m, G, r, a, << >>, b) PROVE Entails(m, a, b)
  <2>1. PICK P, Q : /\ Q[0] = a /\ P[Len(<< >>) + 1] = b
                    /\ \A k \in 0..Len(<< >>) : Entails(m, Q[k], P[k + 1])
    BY <1>1 DEF Runs
  <2>2. QED BY <2>1, NoneIs
<1>2. ASSUME Entails(m, a, b) PROVE Runs(m, G, r, a, << >>, b)
  <2> DEFINE P == [k \in {1} |-> b]
             Q == [k \in {0} |-> a]
  <2>1. Q[0] = a /\ P[Len(<< >>) + 1] = b BY NoneIs
  <2>2. \A k \in 0..Len(<< >>) : Entails(m, Q[k], P[k + 1]) BY <1>2, NoneIs
  <2>3. \A k \in 1..Len(<< >>) : <<r, P[k], << >>[k], Q[k]>> \in G BY NoneIs
  <2> HIDE DEF P, Q
  <2>4. QED BY <2>1, <2>2, <2>3, NoneIs DEF Runs
<1>3. QED BY <1>1, <1>2

\* A plan of one step runs by the rule of that step.
LEMMA RunsOne ==
  ASSUME NEW m, NEW G, NEW r, NEW a, NEW s, NEW b, <<r, a, s, b>> \in G
  PROVE  Runs(m, G, r, a, <<s>>, b)
<1> DEFINE P == [k \in {1, 2} |-> IF k = 1 THEN a ELSE b]
           Q == [k \in {0, 1} |-> IF k = 0 THEN a ELSE b]
<1>1. Q[0] = a /\ P[Len(<<s>>) + 1] = b BY OneIs
<1>2. ASSUME NEW k \in 0..Len(<<s>>) PROVE Entails(m, Q[k], P[k + 1])
  <2>1. k = 0 \/ k = 1 BY OneIs
  <2>2. Entails(m, a, a) /\ Entails(m, b, b) BY EntailsSame
  <2>3. QED BY <2>1, <2>2
<1>3. \A k \in 1..Len(<<s>>) : <<r, P[k], <<s>>[k], Q[k]>> \in G BY OneIs
<1> HIDE DEF P, Q
<1>4. QED BY <1>1, <1>2, <1>3, OneIs DEF Runs

\* A plan may be given more than it needs and leave less than it could.
LEMMA RunsWeaker ==
  ASSUME NEW m, NEW G, NEW r, NEW a, NEW b, NEW c, NEW d, NEW p,
         Entails(m, a, b), Runs(m, G, r, b, p, c), Entails(m, c, d)
  PROVE  Runs(m, G, r, a, p, d)
<1>1. PICK P, Q : /\ Q[0] = b /\ P[Len(p) + 1] = c
                  /\ \A k \in 0..Len(p) : Entails(m, Q[k], P[k + 1])
                  /\ \A k \in 1..Len(p) : <<r, P[k], p[k], Q[k]>> \in G
  BY DEF Runs
<1>2. IsSeq(p) /\ Len(p) \in Nat BY SeqIs DEF Runs
<1> DEFINE P1 == [k \in 1..(Len(p) + 1) |-> IF k = Len(p) + 1 THEN d ELSE P[k]]
           Q1 == [k \in 0..Len(p) |-> IF k = 0 THEN a ELSE Q[k]]
<1>3. Q1[0] = a /\ P1[Len(p) + 1] = d BY <1>2
<1>4. ASSUME NEW k \in 0..Len(p) PROVE Entails(m, Q1[k], P1[k + 1])
  <2>1. Entails(m, Q1[k], Q[k])
    <3>1. CASE k = 0 BY <1>1, <3>1
    <3>2. CASE k # 0
      <4>1. Q1[k] = Q[k] BY <3>2
      <4>2. QED BY <4>1, EntailsSame
    <3>3. QED BY <3>1, <3>2
  <2>2. Entails(m, P[k + 1], P1[k + 1])
    <3>1. CASE k = Len(p) BY <1>1, <1>2, <3>1
    <3>2. CASE k # Len(p)
      <4>1. P1[k + 1] = P[k + 1] BY <1>2, <3>2
      <4>2. QED BY <4>1, EntailsSame
    <3>3. QED BY <3>1, <3>2
  <2>3. Entails(m, Q[k], P[k + 1]) BY <1>1
  <2> HIDE DEF P1, Q1
  <2>4. QED BY <2>1, <2>2, <2>3, EntailsThen
<1>5. \A k \in 1..Len(p) : <<r, P1[k], p[k], Q1[k]>> \in G BY <1>1, <1>2
<1> HIDE DEF P1, Q1
<1>6. QED BY <1>2, <1>3, <1>4, <1>5 DEF Runs

\* One plan, then another.
LEMMA RunsThen ==
  ASSUME NEW m, NEW G, NEW r, NEW a, NEW b, NEW c, NEW p, NEW q,
         Runs(m, G, r, a, p, c), Runs(m, G, r, c, q, b)
  PROVE  Runs(m, G, r, a, p \o q, b)
<1>1. PICK P, Q : /\ Q[0] = a /\ P[Len(p) + 1] = c
                  /\ \A k \in 0..Len(p) : Entails(m, Q[k], P[k + 1])
                  /\ \A k \in 1..Len(p) : <<r, P[k], p[k], Q[k]>> \in G
  BY DEF Runs
<1>2. PICK P2, Q2 : /\ Q2[0] = c /\ P2[Len(q) + 1] = b
                    /\ \A k \in 0..Len(q) : Entails(m, Q2[k], P2[k + 1])
                    /\ \A k \in 1..Len(q) : <<r, P2[k], q[k], Q2[k]>> \in G
  BY DEF Runs
<1>3. IsSeq(p) /\ IsSeq(q) /\ Len(p) \in Nat /\ Len(q) \in Nat BY SeqIs DEF Runs
<1>4. /\ IsSeq(p \o q) /\ Len(p \o q) = Len(p) + Len(q)
      /\ \A k \in 1..Len(p) : (p \o q)[k] = p[k]
      /\ \A k \in 1..Len(q) : (p \o q)[Len(p) + k] = q[k]
  BY <1>3, CatIs
<1> DEFINE n == Len(p)
           P1 == [k \in 1..(n + Len(q) + 1) |-> IF k <= n THEN P[k] ELSE P2[k - n]]
           Q1 == [k \in 0..(n + Len(q)) |-> IF k <= n THEN Q[k] ELSE Q2[k - n]]
<1>5. Q1[0] = a /\ P1[Len(p \o q) + 1] = b BY <1>1, <1>2, <1>3, <1>4
<1>6. ASSUME NEW k \in 0..Len(p \o q) PROVE Entails(m, Q1[k], P1[k + 1])
  <2>1. CASE k < n
    <3>1. Q1[k] = Q[k] /\ P1[k + 1] = P[k + 1] /\ k \in 0..n BY <1>3, <1>4, <2>1
    <3> HIDE DEF P1, Q1
    <3>2. QED BY <1>1, <3>1
  <2>2. CASE k = n
    <3>1. Q1[k] = Q[n] /\ P1[k + 1] = P2[1] BY <1>3, <1>4, <2>2
    <3>2. Entails(m, Q[n], c) BY <1>1, <1>3
    <3>3. Entails(m, c, P2[1]) BY <1>2, <1>3
    <3> HIDE DEF P1, Q1
    <3>4. QED BY <3>1, <3>2, <3>3, EntailsThen
  <2>3. CASE k > n
    <3>1. k \in Nat /\ n \in Nat /\ k - n \in 0..Len(q) /\ k + 1 - n = (k - n) + 1 BY <1>3, <1>4, <2>3
    <3>2. k \in 0..(n + Len(q)) /\ k + 1 \in 1..(n + Len(q) + 1) BY <1>3, <1>4
    <3>3. Q1[k] = Q2[k - n] BY <2>3, <3>1, <3>2
    <3>4. P1[k + 1] = P2[(k - n) + 1] BY <2>3, <3>1, <3>2
    <3> HIDE DEF P1, Q1
    <3>5. QED BY <1>2, <3>1, <3>3, <3>4
  <2>4. k \in Int /\ n \in Int BY <1>3, <1>4
  <2>5. QED BY <2>1, <2>2, <2>3, <2>4
<1>7. ASSUME NEW k \in 1..Len(p \o q) PROVE <<r, P1[k], (p \o q)[k], Q1[k]>> \in G
  <2>1. CASE k <= n
    <3>1. Q1[k] = Q[k] /\ P1[k] = P[k] /\ k \in 1..n BY <1>3, <1>4, <2>1
    <3>2. (p \o q)[k] = p[k] BY <1>4, <3>1
    <3> HIDE DEF P1, Q1
    <3>3. QED BY <1>1, <3>1, <3>2
  <2>2. CASE k > n
    <3>1. Q1[k] = Q2[k - n] /\ P1[k] = P2[k - n] /\ k - n \in 1..Len(q) BY <1>3, <1>4, <2>2
    <3>2. (p \o q)[n + (k - n)] = q[k - n] BY <1>4, <3>1
    <3>3. n + (k - n) = k BY <1>3, <1>4
    <3> HIDE DEF P1, Q1, n
    <3>4. QED BY <1>2, <3>1, <3>2, <3>3
  <2>3. k \in Int /\ n \in Int BY <1>3, <1>4
  <2> HIDE DEF n, P1, Q1
  <2>4. k <= n \/ k > n BY <2>3
  <2>5. QED BY <2>1, <2>2, <2>4
<1> HIDE DEF P1, Q1
<1>8. QED BY <1>4, <1>5, <1>6, <1>7 DEF Runs

\* The first step of a plan and the rest.
LEMMA RunsFirst ==
  ASSUME NEW m, NEW G, NEW r, NEW a, NEW b, NEW p, Runs(m, G, r, a, p, b), p # << >>
  PROVE  \E c, d : /\ Entails(m, a, c) /\ <<r, c, Head(p), d>> \in G
                   /\ Runs(m, G, r, d, Tail(p), b)
<1>1. PICK P, Q : /\ Q[0] = a /\ P[Len(p) + 1] = b
                  /\ \A k \in 0..Len(p) : Entails(m, Q[k], P[k + 1])
                  /\ \A k \in 1..Len(p) : <<r, P[k], p[k], Q[k]>> \in G
  BY DEF Runs
<1>2. IsSeq(p) BY DEF Runs
<1>3. /\ IsSeq(Tail(p)) /\ Len(p) \in Nat \ {0} /\ Len(Tail(p)) = Len(p) - 1
      /\ Head(p) = p[1]
      /\ \A k \in 1..Len(Tail(p)) : Tail(p)[k] = p[k + 1]
  BY <1>2, RestIs
<1>4. Entails(m, a, P[1]) /\ <<r, P[1], Head(p), Q[1]>> \in G BY <1>1, <1>3
<1> DEFINE P1 == [k \in 1..Len(p) |-> P[k + 1]]
           Q1 == [k \in 0..(Len(p) - 1) |-> Q[k + 1]]
<1>5. Q1[0] = Q[1] /\ P1[Len(Tail(p)) + 1] = b BY <1>1, <1>3
<1>6. \A k \in 0..Len(Tail(p)) : Entails(m, Q1[k], P1[k + 1]) BY <1>1, <1>3
<1>7. \A k \in 1..Len(Tail(p)) : <<r, P1[k], Tail(p)[k], Q1[k]>> \in G BY <1>1, <1>3
<1> HIDE DEF P1, Q1
<1>8. Runs(m, G, r, Q[1], Tail(p), b) BY <1>3, <1>5, <1>6, <1>7 DEF Runs
<1>9. QED BY <1>4, <1>8

-----------------------------------------------------------------------------
\* More rules: what was good stays good.

\* With more rules a plan runs as before.
LEMMA RunsGrows ==
  ASSUME NEW m, NEW G, NEW H, NEW r, NEW a, NEW p, NEW b, G \subseteq H, Runs(m, G, r, a, p, b)
  PROVE  Runs(m, H, r, a, p, b)
<1>1. PICK P, Q : /\ Q[0] = a /\ P[Len(p) + 1] = b
                  /\ \A k \in 0..Len(p) : Entails(m, Q[k], P[k + 1])
                  /\ \A k \in 1..Len(p) : <<r, P[k], p[k], Q[k]>> \in G
  BY DEF Runs
<1>2. \A k \in 1..Len(p) : <<r, P[k], p[k], Q[k]>> \in H BY <1>1
<1>3. QED BY <1>1, <1>2 DEF Runs

\* With more plans that run, a rule holds as before.
LEMMA RuleGrows ==
  ASSUME NEW m, NEW G, NEW H, NEW r, NEW a, NEW s, NEW b, G \subseteq H, Rule(m, G, r, a, s, b)
  PROVE  Rule(m, H, r, a, s, b)
<1>1. \A x, y, p, z : Runs(m, G, x, y, p, z) => Runs(m, H, x, y, p, z) BY RunsGrows
<1>2. s.do = "each" /\ s.i <= s.last =>
        \E c : Runs(m, H, r, a, s.bodies[s.i], c) /\ Runs(m, H, r, c, LoopFrom(s.i + 1, s.last, s.bodies), b)
  BY <1>1 DEF Rule
<1>3. s.do = "call" => \E c : Entails(m, c, b) /\ Runs(m, H, c, a, s.plan, c)
  BY <1>1 DEF Rule
<1>4. s.do = "count" => \A n \in s.junk : Runs(m, H, r, Refused(a), s.no \o s.plans[n], b)
  BY <1>1 DEF Rule
<1> DEFINE K == s.do
<1>5. /\ K = "get" => /\ Runs(m, H, r, WithVal(a, s.v, {s.src}), s.ok, b)
                      /\ Runs(m, H, r, Refused(a), s.no, b)
                      /\ Runs(m, H, r, Refused(a), s.off, b)
      /\ K = "fork" => Runs(m, H, r, a, s.one, b) /\ Runs(m, H, r, a, s.other, b)
      /\ K \in {"open", "open file"} => /\ Runs(m, H, r, Opened(a, s.r), s.ok, b)
                                        /\ Runs(m, H, r, Refused(a), s.no, b)
      /\ K = "open file" => Runs(m, H, r, Opened(a, s.r), s.zero, b)
      /\ K = "shutdown" => Runs(m, H, r, Refused(a), s.no, b)
      /\ K = "count" => /\ Runs(m, H, r, a, s.plans[NGPUS], b)
                        /\ s.junk = {} => Runs(m, H, r, Refused(a), s.no, b)
      /\ K = "cap" => Runs(m, H, r, Refused(a), s.no, b)
      /\ K = "verify" => Runs(m, H, r, a, s.differs, b) /\ Runs(m, H, r, Refused(a), s.no, b)
  BY <1>1 DEF Rule
<1>6. QED BY <1>2, <1>3, <1>4, <1>5 DEF Rule

\* Plans that are good each by itself are good together.
LEMMA Together ==
  ASSUME NEW m, NEW S, \A t \in S : Good(m, t[1], t[2], t[3], t[4])
  PROVE  \E G : /\ Sound(m, G)
                /\ \A t \in S : Runs(m, G, t[1], t[2], t[3], t[4])
<1> DEFINE Of1(t) == CHOOSE G : Sound(m, G) /\ Runs(m, G, t[1], t[2], t[3], t[4])
           H == UNION {Of1(t) : t \in S}
<1>1. ASSUME NEW t \in S PROVE Sound(m, Of1(t)) /\ Runs(m, Of1(t), t[1], t[2], t[3], t[4])
  <2>1. \E G : Sound(m, G) /\ Runs(m, G, t[1], t[2], t[3], t[4]) BY DEF Good
  <2>2. QED BY <2>1
<1>2. ASSUME NEW t \in S PROVE Of1(t) \subseteq H OBVIOUS
<1> HIDE DEF Of1
<1>3. ASSUME NEW r, NEW a, NEW s, NEW b, <<r, a, s, b>> \in H PROVE Rule(m, H, r, a, s, b)
  <2>1. PICK t \in S : <<r, a, s, b>> \in Of1(t) BY <1>3
  <2>2. Rule(m, Of1(t), r, a, s, b) BY <1>1, <2>1 DEF Sound
  <2>3. Of1(t) \subseteq H BY <1>2
  <2> HIDE DEF H
  <2>4. QED BY <2>2, <2>3, RuleGrows
<1>4. ASSUME NEW t \in S PROVE Runs(m, H, t[1], t[2], t[3], t[4])
  <2>1. Runs(m, Of1(t), t[1], t[2], t[3], t[4]) BY <1>1
  <2>2. Of1(t) \subseteq H BY <1>2
  <2> HIDE DEF H
  <2>3. QED BY <2>1, <2>2, RunsGrows
<1> HIDE DEF H
<1>5. QED BY <1>3, <1>4 DEF Sound

\* A step by a rule over sound rules is good.
LEMMA ByRule ==
  ASSUME NEW m, NEW G, NEW r, NEW a, NEW s, NEW b, Sound(m, G), Rule(m, G, r, a, s, b)
  PROVE  Good(m, r, a, <<s>>, b)
<1> DEFINE H == G \union {<<r, a, s, b>>}
<1>1. ASSUME NEW r1, NEW a1, NEW s1, NEW b1, <<r1, a1, s1, b1>> \in H
      PROVE  Rule(m, H, r1, a1, s1, b1)
  <2>1. CASE <<r1, a1, s1, b1>> \in G
    <3>1. Rule(m, G, r1, a1, s1, b1) BY <2>1 DEF Sound
    <3>2. QED BY <3>1, RuleGrows
  <2>2. CASE <<r1, a1, s1, b1>> = <<r, a, s, b>>
    <3>1. r1 = r /\ a1 = a /\ s1 = s /\ b1 = b BY <2>2
    <3>2. QED BY <3>1, RuleGrows
  <2>3. QED BY <1>1, <2>1, <2>2
<1>2. <<r, a, s, b>> \in H OBVIOUS
<1> HIDE DEF H
<1>3. Sound(m, H) BY <1>1 DEF Sound
<1>4. QED BY <1>2, <1>3, RunsOne DEF Good

-----------------------------------------------------------------------------
\* Good plans.

\* A plan of no steps is good for whatever follows.
LEMMA GoodNone ==
  ASSUME NEW m, NEW r, NEW a, NEW b, Entails(m, a, b)
  PROVE  Good(m, r, a, << >>, b)
<1>1. Sound(m, {}) BY DEF Sound
<1>2. QED BY <1>1, RunsNone DEF Good

\* A good plan may be given more than it needs and leave less than it could.
LEMMA GoodWeaker ==
  ASSUME NEW m, NEW r, NEW a, NEW b, NEW c, NEW d, NEW p,
         Entails(m, a, b), Good(m, r, b, p, c), Entails(m, c, d)
  PROVE  Good(m, r, a, p, d)
<1>1. PICK G : Sound(m, G) /\ Runs(m, G, r, b, p, c) BY DEF Good
<1>2. Runs(m, G, r, a, p, d) BY <1>1, RunsWeaker
<1>3. QED BY <1>1, <1>2 DEF Good

\* One plan after another.
LEMMA GoodThen ==
  ASSUME NEW m, NEW r, NEW a, NEW b, NEW c, NEW p, NEW q,
         Good(m, r, a, p, c), Good(m, r, c, q, b)
  PROVE  Good(m, r, a, p \o q, b)
<1> DEFINE S == {<<r, a, p, c>>, <<r, c, q, b>>}
<1>1. \A t \in S : Good(m, t[1], t[2], t[3], t[4]) OBVIOUS
<1>2. PICK G : Sound(m, G) /\ (\A t \in S : Runs(m, G, t[1], t[2], t[3], t[4]))
  <2> HIDE DEF S
  <2>1. QED BY <1>1, Together
<1>3. Runs(m, G, r, a, p, c) /\ Runs(m, G, r, c, q, b) BY <1>2
<1>4. Runs(m, G, r, a, p \o q, b) BY <1>3, RunsThen
<1>5. QED BY <1>2, <1>4 DEF Good

\* Each kind of step.

\* A reading: it is taken, refused, or finds its device off.
LEMMA GoodGet ==
  ASSUME NEW m, NEW r, NEW a, NEW b, NEW v, NEW src, NEW via, NEW ok, NEW no, NEW off,
         Good(m, r, WithVal(a, v, {src}), ok, b),
         Good(m, r, Refused(a), no, b),
         Good(m, r, Refused(a), off, b)
  PROVE  Good(m, r, a, GetOr(v, src, via, ok, no, off), b)
<1> DEFINE s == [do |-> "get", v |-> v, src |-> src, via |-> via, ok |-> ok, no |-> no, off |-> off]
           S == {<<r, WithVal(a, v, {src}), ok, b>>, <<r, Refused(a), no, b>>, <<r, Refused(a), off, b>>}
<1>1. \A t \in S : Good(m, t[1], t[2], t[3], t[4]) OBVIOUS
<1>2. PICK G : Sound(m, G) /\ (\A t \in S : Runs(m, G, t[1], t[2], t[3], t[4]))
  <2> HIDE DEF S
  <2>1. QED BY <1>1, Together
<1>3. Runs(m, G, r, WithVal(a, v, {src}), ok, b) /\ Runs(m, G, r, Refused(a), no, b) /\ Runs(m, G, r, Refused(a), off, b) BY <1>2
<1>4. Rule(m, G, r, a, s, b) BY <1>3 DEF Rule
<1> HIDE DEF s, S
<1>5. Good(m, r, a, <<s>>, b) BY <1>2, <1>4, ByRule
<1>6. QED BY <1>5 DEF s, GetOr

\* A value put into a variable.
LEMMA GoodLet ==
  ASSUME NEW m, NEW r, NEW a, NEW b, NEW v, NEW content,
         Entails(m, WithVal(a, v, content), b)
  PROVE  Good(m, r, a, Let(v, content), b)
<1> DEFINE s == [do |-> "let", v |-> v, val |-> content]
<1>1. Sound(m, {}) BY DEF Sound
<1>2. Rule(m, {}, r, a, s, b) BY DEF Rule
<1> HIDE DEF s
<1>3. Good(m, r, a, <<s>>, b) BY <1>1, <1>2, ByRule
<1>4. QED BY <1>3 DEF s, Let

\* A variable added to another that holds none of the same readings.
LEMMA GoodAdd ==
  ASSUME NEW m, NEW r, NEW a, NEW b, NEW v, NEW w,
         {v, w} \subseteq DOMAIN a.vals,
         a.vals[v] \intersect a.vals[w] = {},
         Entails(m, WithVal(a, v, a.vals[v] \union a.vals[w]), b)
  PROVE  Good(m, r, a, Add(v, w), b)
<1> DEFINE s == [do |-> "add", v |-> v, w |-> w]
<1>1. Sound(m, {}) BY DEF Sound
<1>2. Rule(m, {}, r, a, s, b) BY DEF Rule
<1> HIDE DEF s
<1>3. Good(m, r, a, <<s>>, b) BY <1>1, <1>2, ByRule
<1>4. QED BY <1>3 DEF s, Add

\* A value given out is what is claimed of it.
LEMMA GoodShow ==
  ASSUME NEW m, NEW r, NEW a, NEW b, NEW claim, NEW v,
         v \in DOMAIN a.vals,
         a.vals[v] = claim \/ ("never" \in m.traits /\ a.vals[v] \subseteq claim),
         Entails(m, Plus(a, {claim}, {}, {}), b)
  PROVE  Good(m, r, a, Show(claim, v), b)
<1> DEFINE s == [do |-> "show", claim |-> claim, v |-> v]
<1>1. Sound(m, {}) BY DEF Sound
<1>2. Rule(m, {}, r, a, s, b) BY DEF Rule, RightClaim
<1> HIDE DEF s
<1>3. Good(m, r, a, <<s>>, b) BY <1>1, <1>2, ByRule
<1>4. QED BY <1>3 DEF s, Show

\* Either of two plans.
LEMMA GoodFork ==
  ASSUME NEW m, NEW r, NEW a, NEW b, NEW one, NEW other,
         Good(m, r, a, one, b),
         Good(m, r, a, other, b)
  PROVE  Good(m, r, a, Fork(one, other), b)
<1> DEFINE s == [do |-> "fork", one |-> one, other |-> other]
           S == {<<r, a, one, b>>, <<r, a, other, b>>}
<1>1. \A t \in S : Good(m, t[1], t[2], t[3], t[4]) OBVIOUS
<1>2. PICK G : Sound(m, G) /\ (\A t \in S : Runs(m, G, t[1], t[2], t[3], t[4]))
  <2> HIDE DEF S
  <2>1. QED BY <1>1, Together
<1>3. Runs(m, G, r, a, one, b) /\ Runs(m, G, r, a, other, b) BY <1>2
<1>4. Rule(m, G, r, a, s, b) BY <1>3 DEF Rule
<1> HIDE DEF s, S
<1>5. Good(m, r, a, <<s>>, b) BY <1>2, <1>4, ByRule
<1>6. QED BY <1>5 DEF s, Fork

\* A library brought up, or a file opened.
LEMMA GoodOpen ==
  ASSUME NEW m, NEW r, NEW a, NEW b, NEW x, NEW ok, NEW no,
         Good(m, r, Opened(a, x), ok, b),
         Good(m, r, Refused(a), no, b)
  PROVE  Good(m, r, a, Open(x, ok, no), b)
<1> DEFINE s == [do |-> "open", r |-> x, ok |-> ok, no |-> no]
           S == {<<r, Opened(a, x), ok, b>>, <<r, Refused(a), no, b>>}
<1>1. \A t \in S : Good(m, t[1], t[2], t[3], t[4]) OBVIOUS
<1>2. PICK G : Sound(m, G) /\ (\A t \in S : Runs(m, G, t[1], t[2], t[3], t[4]))
  <2> HIDE DEF S
  <2>1. QED BY <1>1, Together
<1>3. Runs(m, G, r, Opened(a, x), ok, b) /\ Runs(m, G, r, Refused(a), no, b) BY <1>2
<1>4. Rule(m, G, r, a, s, b) BY <1>3 DEF Rule
<1> HIDE DEF s, S
<1>5. Good(m, r, a, <<s>>, b) BY <1>2, <1>4, ByRule
<1>6. QED BY <1>5 DEF s, Open

\* A file opened whose descriptor is tested as if 0 were none.
LEMMA GoodOpenOr0 ==
  ASSUME NEW m, NEW r, NEW a, NEW b, NEW x, NEW ok, NEW no, NEW on0,
         x # rsmi,
         Good(m, r, Opened(a, x), ok, b),
         Good(m, r, Refused(a), no, b),
         Good(m, r, Opened(a, x), on0, b)
  PROVE  Good(m, r, a, OpenOr0(x, ok, no, on0), b)
<1> DEFINE s == [do |-> "open file", r |-> x, ok |-> ok, no |-> no, zero |-> on0]
           S == {<<r, Opened(a, x), ok, b>>, <<r, Refused(a), no, b>>, <<r, Opened(a, x), on0, b>>}
<1>1. \A t \in S : Good(m, t[1], t[2], t[3], t[4]) OBVIOUS
<1>2. PICK G : Sound(m, G) /\ (\A t \in S : Runs(m, G, t[1], t[2], t[3], t[4]))
  <2> HIDE DEF S
  <2>1. QED BY <1>1, Together
<1>3. Runs(m, G, r, Opened(a, x), ok, b) /\ Runs(m, G, r, Refused(a), no, b) /\ Runs(m, G, r, Opened(a, x), on0, b) BY <1>2
<1>4. Rule(m, G, r, a, s, b) BY <1>3 DEF Rule
<1> HIDE DEF s, S
<1>5. Good(m, r, a, <<s>>, b) BY <1>2, <1>4, ByRule
<1>6. QED BY <1>5 DEF s, OpenOr0

\* Files closed.
LEMMA GoodClose ==
  ASSUME NEW m, NEW r, NEW a, NEW b, NEW rs,
         Entails(m, Closed(a, rs), b)
  PROVE  Good(m, r, a, Close(rs), b)
<1> DEFINE s == [do |-> "close", rs |-> rs]
<1>1. Sound(m, {}) BY DEF Sound
<1>2. Rule(m, {}, r, a, s, b) BY DEF Rule
<1> HIDE DEF s
<1>3. Good(m, r, a, <<s>>, b) BY <1>1, <1>2, ByRule
<1>4. QED BY <1>3 DEF s, Close

\* A library shut down, or not.
LEMMA GoodShutdown ==
  ASSUME NEW m, NEW r, NEW a, NEW b, NEW no,
         Entails(m, Closed(a, {rsmi}), b),
         Good(m, r, Refused(a), no, b)
  PROVE  Good(m, r, a, Shutdown(rsmi, no), b)
<1> DEFINE s == [do |-> "shutdown", r |-> rsmi, no |-> no]
           S == {<<r, Refused(a), no, b>>}
<1>1. \A t \in S : Good(m, t[1], t[2], t[3], t[4]) OBVIOUS
<1>2. PICK G : Sound(m, G) /\ (\A t \in S : Runs(m, G, t[1], t[2], t[3], t[4]))
  <2> HIDE DEF S
  <2>1. QED BY <1>1, Together
<1>3. Runs(m, G, r, Refused(a), no, b) BY <1>2
<1>4. Rule(m, G, r, a, s, b) BY <1>3 DEF Rule
<1> HIDE DEF s, S
<1>5. Good(m, r, a, <<s>>, b) BY <1>2, <1>4, ByRule
<1>6. QED BY <1>5 DEF s, Shutdown

\* The request halved.
LEMMA GoodDivide ==
  ASSUME NEW m, NEW r, NEW a, NEW b,
         "halves" \in m.traits,
         a.wanted = "asked",
         Entails(m, Shared(a), b)
  PROVE  Good(m, r, a, Divide(2), b)
<1> DEFINE s == [do |-> "divide", by |-> 2]
<1>1. Sound(m, {}) BY DEF Sound
<1>2. Rule(m, {}, r, a, s, b) BY DEF Rule
<1> HIDE DEF s
<1>3. Good(m, r, a, <<s>>, b) BY <1>1, <1>2, ByRule
<1>4. QED BY <1>3 DEF s, Divide

\* The request lowered to a limit the device names.
LEMMA GoodLower ==
  ASSUME NEW m, NEW r, NEW a, NEW b, NEW dev, NEW via,
         a.wanted = "share",
         Entails(m, a, b),
         Entails(m, Refused(a), b)
  PROVE  Good(m, r, a, Lower(dev, via), b)
<1> DEFINE s == [do |-> "lower", dev |-> dev, via |-> via]
<1>1. Sound(m, {}) BY DEF Sound
<1>2. Rule(m, {}, r, a, s, b) BY DEF Rule
<1> HIDE DEF s
<1>3. Good(m, r, a, <<s>>, b) BY <1>1, <1>2, ByRule
<1>4. QED BY <1>3 DEF s, Lower

\* A cap taken, or refused.
LEMMA GoodCap ==
  ASSUME NEW m, NEW r, NEW a, NEW b, NEW dev, NEW via, NEW no,
         a.wanted = "share",
         dev \in m.devs \/ a.mark = "complained",
         Entails(m, Plus(a, {}, {dev}, {}), b),
         Good(m, r, Refused(a), no, b)
  PROVE  Good(m, r, a, Cap(dev, via, no), b)
<1> DEFINE s == [do |-> "cap", dev |-> dev, via |-> via, no |-> no]
           S == {<<r, Refused(a), no, b>>}
<1>1. \A t \in S : Good(m, t[1], t[2], t[3], t[4]) OBVIOUS
<1>2. PICK G : Sound(m, G) /\ (\A t \in S : Runs(m, G, t[1], t[2], t[3], t[4]))
  <2> HIDE DEF S
  <2>1. QED BY <1>1, Together
<1>3. Runs(m, G, r, Refused(a), no, b) BY <1>2
<1>4. Rule(m, G, r, a, s, b) BY <1>3 DEF Rule
<1> HIDE DEF s, S
<1>5. Good(m, r, a, <<s>>, b) BY <1>2, <1>4, ByRule
<1>6. QED BY <1>5 DEF s, Cap

\* A cap read back: it is in force, or differs, or cannot be read.
LEMMA GoodVerify ==
  ASSUME NEW m, NEW r, NEW a, NEW b, NEW dev, NEW via, NEW no, NEW differs,
         a.wanted = "share",
         dev \in a.taken,
         Entails(m, Plus(a, {}, {}, {dev}), b),
         Good(m, r, a, differs, b),
         Good(m, r, Refused(a), no, b)
  PROVE  Good(m, r, a, Verify(dev, via, no, differs), b)
<1> DEFINE s == [do |-> "verify", dev |-> dev, via |-> via, no |-> no, differs |-> differs]
           S == {<<r, a, differs, b>>, <<r, Refused(a), no, b>>}
<1>1. \A t \in S : Good(m, t[1], t[2], t[3], t[4]) OBVIOUS
<1>2. PICK G : Sound(m, G) /\ (\A t \in S : Runs(m, G, t[1], t[2], t[3], t[4]))
  <2> HIDE DEF S
  <2>1. QED BY <1>1, Together
<1>3. Runs(m, G, r, a, differs, b) /\ Runs(m, G, r, Refused(a), no, b) BY <1>2
<1>4. Rule(m, G, r, a, s, b) BY <1>3 DEF Rule
<1> HIDE DEF s, S
<1>5. Good(m, r, a, <<s>>, b) BY <1>2, <1>4, ByRule
<1>6. QED BY <1>5 DEF s, Verify

\* An error printed.
LEMMA GoodComplain ==
  ASSUME NEW m, NEW r, NEW a, NEW b,
         Entails(m, Complained(a), b)
  PROVE  Good(m, r, a, Complain, b)
<1> DEFINE s == [do |-> "complain"]
<1>1. Sound(m, {}) BY DEF Sound
<1>2. Rule(m, {}, r, a, s, b) BY DEF Rule
<1> HIDE DEF s
<1>3. Good(m, r, a, <<s>>, b) BY <1>1, <1>2, ByRule
<1>4. QED BY <1>3 DEF s, Complain

\* A return leads to what the function promises.
LEMMA GoodReturn ==
  ASSUME NEW m, NEW r, NEW a, NEW b, NEW ret \in {0, -1},
         Entails(m, a, r)
  PROVE  Good(m, r, a, Return(ret), b)
<1> DEFINE s == [do |-> "return", rc |-> ret]
<1>1. Sound(m, {}) BY DEF Sound
<1>2. Rule(m, {}, r, a, s, b) BY DEF Rule
<1> HIDE DEF s
<1>3. Good(m, r, a, <<s>>, b) BY <1>1, <1>2, ByRule
<1>4. QED BY <1>3 DEF s, Return

\* Behind the end of the process anything holds.
LEMMA GoodCrash ==
  ASSUME NEW m, NEW r, NEW a, NEW b
  PROVE  Good(m, r, a, Crash, b)
<1> DEFINE s == [do |-> "die"]
<1>1. Sound(m, {}) BY DEF Sound
<1>2. Rule(m, {}, r, a, s, b) BY DEF Rule
<1> HIDE DEF s
<1>3. Good(m, r, a, <<s>>, b) BY <1>1, <1>2, ByRule
<1>4. QED BY <1>3 DEF s, Crash

\* A count: of all GPUs, or after a refusal none or one of junk.
LEMMA GoodCount ==
  ASSUME NEW m, NEW r, NEW a, NEW b, NEW plans, NEW via, NEW junk, NEW no,
         Good(m, r, a, plans[NGPUS], b),
         junk = {} => Good(m, r, Refused(a), no, b),
         \A n \in junk : Good(m, r, Refused(a), no \o plans[n], b)
  PROVE  Good(m, r, a, Count(plans, via, junk, no), b)
<1> DEFINE s == [do |-> "count", plans |-> plans, via |-> via, junk |-> junk, no |-> no]
           S == {<<r, a, plans[NGPUS], b>>} \union (IF junk = {} THEN {<<r, Refused(a), no, b>>} ELSE {})
                  \union {<<r, Refused(a), no \o plans[n], b>> : n \in junk}
<1>1. ASSUME NEW t \in S PROVE Good(m, t[1], t[2], t[3], t[4])
  <2>1. CASE t = <<r, a, plans[NGPUS], b>> BY <2>1
  <2>2. CASE junk = {} /\ t = <<r, Refused(a), no, b>> BY <2>2
  <2>3. CASE \E n \in junk : t = <<r, Refused(a), no \o plans[n], b>> BY <2>3
  <2>4. QED BY <2>1, <2>2, <2>3
<1>2. PICK G : Sound(m, G) /\ (\A t \in S : Runs(m, G, t[1], t[2], t[3], t[4]))
  <2> HIDE DEF S
  <2>1. QED BY <1>1, Together
<1>3. Runs(m, G, r, a, plans[NGPUS], b)
  <2>1. <<r, a, plans[NGPUS], b>> \in S OBVIOUS
  <2> HIDE DEF S
  <2>2. QED BY <1>2, <2>1
<1>4. junk = {} => Runs(m, G, r, Refused(a), no, b)
  <2>1. junk = {} => <<r, Refused(a), no, b>> \in S OBVIOUS
  <2> HIDE DEF S
  <2>2. QED BY <1>2, <2>1
<1>5. ASSUME NEW n \in junk PROVE Runs(m, G, r, Refused(a), no \o plans[n], b)
  <2>1. <<r, Refused(a), no \o plans[n], b>> \in S OBVIOUS
  <2> HIDE DEF S
  <2>2. QED BY <1>2, <2>1
<1>6. Rule(m, G, r, a, s, b) BY <1>3, <1>4, <1>5 DEF Rule
<1> HIDE DEF s, S
<1>7. Good(m, r, a, <<s>>, b) BY <1>2, <1>6, ByRule
<1>8. QED BY <1>7 DEF s, Count

\* A function: what it leaves holds also where it returns.
LEMMA GoodCall ==
  ASSUME NEW m, NEW r, NEW a, NEW b, NEW c, NEW plan, Good(m, c, a, plan, c), Entails(m, c, b)
  PROVE  Good(m, r, a, Function(plan), b)
<1> DEFINE s == [do |-> "call", plan |-> plan]
<1>1. PICK G : Sound(m, G) /\ Runs(m, G, c, a, plan, c) BY DEF Good
<1>2. Rule(m, G, r, a, s, b) BY <1>1 DEF Rule
<1> HIDE DEF s
<1>3. Good(m, r, a, <<s>>, b) BY <1>1, <1>2, ByRule
<1>4. QED BY <1>3 DEF s, Function

\* A loop, with the facts I[k] before turn k.
LEMMA GoodLoop ==
  ASSUME NEW m, NEW r, NEW first \in Int, NEW last \in Int, NEW bodies, NEW I, first <= last + 1,
         \A k \in first..last : Good(m, r, I[k], bodies[k], I[k + 1])
  PROVE  Good(m, r, I[first], LoopFrom(first, last, bodies), I[last + 1])
<1> DEFINE S == {<<r, I[k], bodies[k], I[k + 1]>> : k \in first..last}
           s(k) == [do |-> "each", i |-> k, last |-> last, bodies |-> bodies]
           E == {<<r, I[k], s(k), I[last + 1]>> : k \in first..(last + 1)}
<1>1. \A t \in S : Good(m, t[1], t[2], t[3], t[4]) OBVIOUS
<1>2. PICK G : Sound(m, G) /\ (\A t \in S : Runs(m, G, t[1], t[2], t[3], t[4]))
  <2> HIDE DEF S
  <2>1. QED BY <1>1, Together
<1> DEFINE H == G \union E
<1>3. ASSUME NEW k \in first..(last + 1) PROVE Rule(m, H, r, I[k], s(k), I[last + 1])
  <2>1. k > last => Entails(m, I[k], I[last + 1])
    <3>1. k > last => k = last + 1 OBVIOUS
    <3>2. QED BY <3>1, EntailsSame
  <2>2. ASSUME k <= last
        PROVE  /\ Runs(m, H, r, I[k], bodies[k], I[k + 1])
               /\ Runs(m, H, r, I[k + 1], LoopFrom(k + 1, last, bodies), I[last + 1])
    <3>1. <<r, I[k], bodies[k], I[k + 1]>> \in S BY <2>2
    <3>2. Runs(m, G, r, I[k], bodies[k], I[k + 1])
      <4> HIDE DEF S
      <4>1. QED BY <1>2, <3>1
    <3>3. <<r, I[k + 1], s(k + 1), I[last + 1]>> \in H BY <2>2
    <3>4. G \subseteq H OBVIOUS
    <3> HIDE DEF H, s
    <3>5. Runs(m, H, r, I[k + 1], <<s(k + 1)>>, I[last + 1]) BY <3>3, RunsOne
    <3>6. Runs(m, H, r, I[k], bodies[k], I[k + 1]) BY <3>2, <3>4, RunsGrows
    <3>7. QED BY <3>5, <3>6 DEF s, LoopFrom
  <2>3. k \in Int OBVIOUS
  <2> HIDE DEF H
  <2>4. QED BY <2>1, <2>2, <2>3 DEF Rule
<1>4. Sound(m, H)
  <2>1. SUFFICES ASSUME NEW r1, NEW a1, NEW s1, NEW b1, <<r1, a1, s1, b1>> \in H
                 PROVE  Rule(m, H, r1, a1, s1, b1)
    BY DEF Sound
  <2>2. CASE <<r1, a1, s1, b1>> \in G
    <3>1. Rule(m, G, r1, a1, s1, b1) BY <1>2, <2>2 DEF Sound
    <3>2. G \subseteq H OBVIOUS
    <3> HIDE DEF H
    <3>3. QED BY <3>1, <3>2, RuleGrows
  <2>3. CASE <<r1, a1, s1, b1>> \in E
    <3>1. PICK k \in first..(last + 1) : <<r1, a1, s1, b1>> = <<r, I[k], s(k), I[last + 1]>> BY <2>3
    <3> HIDE DEF s, H
    <3>2. r1 = r /\ a1 = I[k] /\ s1 = s(k) /\ b1 = I[last + 1] BY <3>1
    <3>3. QED BY <1>3, <3>2
  <2>4. QED BY <2>1, <2>2, <2>3
<1>5. <<r, I[first], s(first), I[last + 1]>> \in H OBVIOUS
<1> HIDE DEF H, s
<1>6. Runs(m, H, r, I[first], <<s(first)>>, I[last + 1]) BY <1>5, RunsOne
<1>7. QED BY <1>4, <1>6 DEF Good, s, LoopFrom

\* A loop that leaves the facts as they are.
LEMMA GoodSteady ==
  ASSUME NEW m, NEW r, NEW a, NEW first \in Int, NEW last \in Int, NEW bodies, first <= last + 1,
         \A k \in first..last : Good(m, r, a, bodies[k], a)
  PROVE  Good(m, r, a, LoopFrom(first, last, bodies), a)
<1> DEFINE I == [k \in first..(last + 1) |-> a]
<1>1. \A k \in first..(last + 1) : I[k] = a OBVIOUS
<1>2. \A k \in first..last : k + 1 \in first..(last + 1) /\ k \in first..(last + 1) OBVIOUS
<1>3. first \in first..(last + 1) /\ last + 1 \in first..(last + 1) OBVIOUS
<1> HIDE DEF I
<1>4. \A k \in first..last : Good(m, r, I[k], bodies[k], I[k + 1]) BY <1>1, <1>2
<1>5. Good(m, r, I[first], LoopFrom(first, last, bodies), I[last + 1]) BY <1>4, GoodLoop
<1>6. QED BY <1>1, <1>3, <1>5

-----------------------------------------------------------------------------
\* The state keeps to the facts.

\* The facts about the caps, while no cap and no request changes.
LEMMA HeededSame ==
  ASSUME NEW a, NEW b, Heeded(a), b.taken = a.taken, b.bound = a.bound, b.wanted = a.wanted,
         UNCHANGED <<platform, api, want, asked, accepted, inforce>>
  PROVE  Heeded(b)'
<1>1. share' = share BY DEF share
<1>2. QED BY <1>1 DEF Heeded, Wanted

\* A state that is as a says is as b says, where b follows from a.
LEMMA FitsWeaker ==
  ASSUME NEW m, NEW a, NEW b, Fits(m, a), Entails(m, a, b)
  PROVE  Fits(m, b)
<1>1. /\ b.mark \in {"none", "refused", "complained"}
      /\ b.mark = "refused" => refused
      /\ b.mark = "complained" => complained
  BY DEF Fits, Entails
<1>2. "old" \notin m.traits => \A v \in DOMAIN b.vals : ValueOf(v) \subseteq b.vals[v]
  BY DEF Fits, Entails
<1>3. ~refused /\ ~complained /\ "never" \notin m.traits =>
        /\ \A v \in DOMAIN b.vals : ValueOf(v) = b.vals[v]
        /\ shown = {[claim |-> c, value |-> c] : c \in b.claims}
  <2>1. SUFFICES ASSUME ~refused, ~complained, "never" \notin m.traits
                 PROVE  /\ \A v \in DOMAIN b.vals : ValueOf(v) = b.vals[v]
                        /\ shown = {[claim |-> c, value |-> c] : c \in b.claims}
    OBVIOUS
  <2>2. Exact(m, a) BY <2>1 DEF Fits, Exact
  <2>3. /\ DOMAIN b.vals \subseteq DOMAIN a.vals
        /\ \A v \in DOMAIN b.vals : a.vals[v] = b.vals[v]
        /\ a.claims = b.claims
    BY <2>2 DEF Entails
  <2>4. /\ \A v \in DOMAIN a.vals : ValueOf(v) = a.vals[v]
        /\ shown = {[claim |-> c, value |-> c] : c \in a.claims}
    BY <2>1 DEF Fits
  <2>5. QED BY <2>3, <2>4
<1>4. ~complained /\ "leaves" \notin m.traits => open \subseteq b.opened
  BY DEF Fits, Entails, Tidy
<1>5. ASSUME ~complained, "blind" \in m.traits => ~refused PROVE Heeded(b)
  <2>1. Caps(m, a) BY <1>5 DEF Fits, Caps
  <2>2. b.taken \subseteq a.taken /\ b.bound \subseteq a.bound /\ a.wanted = b.wanted BY <2>1 DEF Entails
  <2>3. Heeded(a) BY <1>5 DEF Fits
  <2>4. QED BY <2>2, <2>3 DEF Heeded, Wanted
<1>6. QED BY <1>1, <1>2, <1>3, <1>4, <1>5 DEF Fits

\* What a step leaves alone.
LEMMA FitsSame ==
  ASSUME NEW m, NEW a, Fits(m, a),
         UNCHANGED <<platform, api, val, shown, open, want, asked, accepted, inforce, refused, complained>>
  PROVE  Fits(m, a)'
<1>1. \A v : ValueOf(v)' = ValueOf(v) BY DEF ValueOf
<1>2. Heeded(a) => Heeded(a)' BY HeededSame
<1>3. QED BY <1>1, <1>2 DEF Fits

\* A refusal is remembered.
LEMMA FitsRefused ==
  ASSUME NEW m, NEW a, Fits(m, a), refused' = TRUE,
         UNCHANGED <<platform, api, val, shown, open, want, asked, accepted, inforce, complained>>
  PROVE  Fits(m, Refused(a))'
<1> DEFINE b == Refused(a)
<1>1. /\ b.vals = a.vals /\ b.claims = a.claims /\ b.opened = a.opened
      /\ b.taken = a.taken /\ b.bound = a.bound /\ b.wanted = a.wanted
      /\ b.mark = IF a.mark = "complained" THEN "complained" ELSE "refused"
  BY DEF Refused, Facts
<1> HIDE DEF b
<1>2. \A v : ValueOf(v)' = ValueOf(v) BY DEF ValueOf
<1>3. Heeded(a) => Heeded(b)' BY <1>1, HeededSame
<1>4. complained => complained' OBVIOUS
<1>5. QED BY <1>1, <1>2, <1>3 DEF Fits, b

\* So is an error that is printed.
LEMMA FitsComplained ==
  ASSUME NEW m, NEW a, Fits(m, a), complained' = TRUE,
         UNCHANGED <<platform, api, val, shown, open, want, asked, accepted, inforce, refused>>
  PROVE  Fits(m, Complained(a))'
<1> DEFINE b == Complained(a)
<1>1. b.vals = a.vals /\ b.mark = "complained" BY DEF Complained, Facts
<1> HIDE DEF b
<1>2. \A v : ValueOf(v)' = ValueOf(v) BY DEF ValueOf
<1>3. QED BY <1>1, <1>2 DEF Fits, b

\* A variable gets a content.
LEMMA FitsVal ==
  ASSUME NEW m, NEW a, NEW v, NEW content, NEW x, Fits(m, a), Set(v, x),
         "old" \notin m.traits => x \subseteq content,
         ~refused /\ ~complained /\ "never" \notin m.traits => x = content,
         UNCHANGED <<platform, api, shown, open, want, asked, accepted, inforce, refused, complained>>
  PROVE  Fits(m, WithVal(a, v, content))'
<1> DEFINE b == WithVal(a, v, content)
<1>1. /\ b.vals = Extend(a.vals, v, content) /\ b.claims = a.claims /\ b.opened = a.opened
      /\ b.taken = a.taken /\ b.bound = a.bound /\ b.wanted = a.wanted /\ b.mark = a.mark
  BY DEF WithVal, Facts
<1> HIDE DEF b
<1>2. \A w : ValueOf(w)' = IF w = v THEN x ELSE ValueOf(w) BY DEF ValueOf, Set
<1>3. /\ DOMAIN b.vals = DOMAIN a.vals \union {v} /\ b.vals[v] = content
      /\ \A w \in DOMAIN b.vals : w # v => w \in DOMAIN a.vals /\ b.vals[w] = a.vals[w]
  BY <1>1 DEF Extend
<1>4. "old" \notin m.traits => \A w \in DOMAIN b.vals : ValueOf(w)' \subseteq b.vals[w]
  BY <1>2, <1>3 DEF Fits
<1>5. ~refused /\ ~complained /\ "never" \notin m.traits =>
        /\ \A w \in DOMAIN b.vals : ValueOf(w)' = b.vals[w]
        /\ shown = {[claim |-> c, value |-> c] : c \in b.claims}
  BY <1>1, <1>2, <1>3 DEF Fits
<1>6. Heeded(a) => Heeded(b)' BY <1>1, HeededSame
<1>7. QED BY <1>1, <1>4, <1>5, <1>6 DEF Fits, b

\* A value is given out.
LEMMA FitsShown ==
  ASSUME NEW m, NEW a, NEW s, Fits(m, a), RightClaim(m, a, s),
         shown' = shown \union {[claim |-> s.claim, value |-> ValueOf(s.v)]},
         UNCHANGED <<platform, api, val, open, want, asked, accepted, inforce, refused, complained>>
  PROVE  Fits(m, Plus(a, {s.claim}, {}, {}))'
<1> DEFINE b == Plus(a, {s.claim}, {}, {})
<1>1. /\ b.vals = a.vals /\ b.claims = a.claims \union {s.claim} /\ b.opened = a.opened
      /\ b.taken = a.taken /\ b.bound = a.bound /\ b.wanted = a.wanted /\ b.mark = a.mark
  BY DEF Plus, Facts
<1> HIDE DEF b
<1>2. \A w : ValueOf(w)' = ValueOf(w) BY DEF ValueOf
<1>3. ~refused /\ ~complained /\ "never" \notin m.traits =>
        shown' = {[claim |-> c, value |-> c] : c \in b.claims}
  <2>1. SUFFICES ASSUME ~refused, ~complained, "never" \notin m.traits
                 PROVE  shown' = {[claim |-> c, value |-> c] : c \in b.claims}
    OBVIOUS
  <2>2. shown = {[claim |-> c, value |-> c] : c \in a.claims} /\ ValueOf(s.v) = s.claim
    BY <2>1 DEF Fits, RightClaim
  <2>3. QED BY <1>1, <2>2
<1>4. Heeded(a) => Heeded(b)' BY <1>1, HeededSame
<1>5. QED BY <1>1, <1>2, <1>3, <1>4 DEF Fits, b

\* Something is brought up, or down.
LEMMA FitsOpened ==
  ASSUME NEW m, NEW a, NEW x, Fits(m, a), open' = open \union {x},
         UNCHANGED <<platform, api, val, shown, want, asked, accepted, inforce, refused, complained>>
  PROVE  Fits(m, Opened(a, x))'
<1> DEFINE b == Opened(a, x)
<1>1. /\ b.vals = a.vals /\ b.claims = a.claims /\ b.opened = a.opened \union {x}
      /\ b.taken = a.taken /\ b.bound = a.bound /\ b.wanted = a.wanted /\ b.mark = a.mark
  BY DEF Opened, Facts
<1> HIDE DEF b
<1>2. \A v : ValueOf(v)' = ValueOf(v) BY DEF ValueOf
<1>3. Heeded(a) => Heeded(b)' BY <1>1, HeededSame
<1>4. QED BY <1>1, <1>2, <1>3 DEF Fits, b

\* Files closed are open no more.
LEMMA FitsClosed ==
  ASSUME NEW m, NEW a, NEW xs, Fits(m, a), open' = open \ xs,
         UNCHANGED <<platform, api, val, shown, want, asked, accepted, inforce, refused, complained>>
  PROVE  Fits(m, Closed(a, xs))'
<1> DEFINE b == Closed(a, xs)
<1>1. /\ b.vals = a.vals /\ b.claims = a.claims /\ b.opened = a.opened \ xs
      /\ b.taken = a.taken /\ b.bound = a.bound /\ b.wanted = a.wanted /\ b.mark = a.mark
  BY DEF Closed, Facts
<1> HIDE DEF b
<1>2. \A v : ValueOf(v)' = ValueOf(v) BY DEF ValueOf
<1>3. Heeded(a) => Heeded(b)' BY <1>1, HeededSame
<1>4. QED BY <1>1, <1>2, <1>3 DEF Fits, b

\* The request, or a cap, changes in a way that keeps to the facts.
LEMMA FitsHeeded ==
  ASSUME NEW m, NEW a, NEW b, Fits(m, a),
         b.vals = a.vals, b.claims = a.claims, b.opened = a.opened, b.mark = a.mark,
         ~complained /\ Heeded(a) => Heeded(b)',
         UNCHANGED <<val, shown, open, refused, complained>>
  PROVE  Fits(m, b)'
<1>1. \A v : ValueOf(v)' = ValueOf(v) BY DEF ValueOf
<1>2. QED BY <1>1 DEF Fits

-----------------------------------------------------------------------------
\* Pieces of plans.

\* After an error nothing is known, and these facts ask for nothing then.
Easy(r) == r.mark = "none" /\ DOMAIN r.vals = {}

\* What a feature does when a device refuses: nothing, a message, or giving up.
Mild(r, a, no) ==
  /\ a.mark \in {"none", "refused", "complained"}
  /\ no = << >> \/ (no = Complain /\ a.mark # "refused") \/ (no = Fail /\ Easy(r))

\* A feature that gives up has complained.
LEMMA GoodFail ==
  ASSUME NEW m, NEW r, NEW a, NEW b, Easy(r)
  PROVE  Good(m, r, a, Fail, b)
<1>1. Good(m, r, a, Complain, Complained(a)) BY GoodComplain, EntailsSame
<1>2. Entails(m, Complained(a), r) BY DEF Entails, Easy, Complained, Facts, Exact, Tidy, Caps
<1>3. Good(m, r, Complained(a), Return(-1), b) BY <1>2, GoodReturn
<1>4. QED BY <1>1, <1>3, GoodThen DEF Fail

\* After a refusal that is passed over the facts stand that are not void.
LEMMA GoodMild ==
  ASSUME NEW m, NEW r, NEW a, NEW no, NEW b, Mild(r, a, no), Entails(m, Refused(a), b), b.mark = a.mark
  PROVE  Good(m, r, Refused(a), no, b)
<1>1. CASE no = << >> BY <1>1, GoodNone
<1>2. CASE no = Complain /\ a.mark # "refused"
  <2>1. Entails(m, Complained(Refused(a)), b)
    BY <1>2 DEF Mild, Entails, Complained, Refused, Facts, Exact, Tidy, Caps
  <2>2. QED BY <1>2, <2>1, GoodComplain
<1>3. CASE no = Fail /\ Easy(r) BY <1>3, GoodFail
<1>4. QED BY <1>1, <1>2, <1>3 DEF Mild

\* A variable that is set twice, and one that is forgotten.
LEMMA SetTwice ==
  ASSUME NEW a, NEW v, NEW x, NEW y
  PROVE  WithVal(WithVal(a, v, x), v, y) = WithVal(a, v, y)
<1>1. Extend(Extend(a.vals, v, x), v, y) = Extend(a.vals, v, y) BY DEF Extend
<1>2. QED BY <1>1 DEF WithVal, Facts

\* What facts say when a variable has been set.
LEMMA ValsAre ==
  ASSUME NEW a, NEW v, NEW x
  PROVE  /\ v \in DOMAIN WithVal(a, v, x).vals /\ WithVal(a, v, x).vals[v] = x
         /\ DOMAIN WithVal(a, v, x).vals = DOMAIN a.vals \union {v}
         /\ \A w \in DOMAIN a.vals : w # v => WithVal(a, v, x).vals[w] = a.vals[w]
         /\ WithVal(a, v, x).mark = a.mark /\ WithVal(a, v, x).claims = a.claims
         /\ WithVal(a, v, x).opened = a.opened /\ WithVal(a, v, x).wanted = a.wanted
         /\ WithVal(a, v, x).taken = a.taken /\ WithVal(a, v, x).bound = a.bound
  BY DEF WithVal, Extend, Facts

\* What facts say when something was given out or a cap taken.
LEMMA PlusIs ==
  ASSUME NEW a, NEW C, NEW T, NEW H
  PROVE  /\ Plus(a, C, T, H).vals = a.vals /\ Plus(a, C, T, H).claims = a.claims \union C
         /\ Plus(a, C, T, H).opened = a.opened /\ Plus(a, C, T, H).taken = a.taken \union T
         /\ Plus(a, C, T, H).bound = a.bound \union H /\ Plus(a, C, T, H).wanted = a.wanted
         /\ Plus(a, C, T, H).mark = a.mark
  BY DEF Plus, Facts

\* What a variable holds may be forgotten.
LEMMA Forget ==
  ASSUME NEW m, NEW a, NEW v, NEW x, v \notin DOMAIN a.vals
  PROVE  Entails(m, WithVal(a, v, x), a)
<1>1. \A w \in DOMAIN a.vals : w # v OBVIOUS
<1>2. QED BY <1>1, ValsAre DEF Entails

\* A variable set to nothing.
LEMMA GoodReset ==
  ASSUME NEW m, NEW r, NEW a, NEW v
  PROVE  Good(m, r, a, Reset(v), WithVal(a, v, {}))
  BY GoodLet, EntailsSame DEF Reset

\* A device is read into a variable that, if it refuses, holds no other reading.
LEMMA GoodAsk ==
  ASSUME NEW m, NEW r, NEW a, NEW v, NEW src, NEW via, NEW no, Mild(r, a, no),
         "old" \in m.traits \/ (v \in DOMAIN a.vals /\ a.vals[v] \subseteq {src})
  PROVE  Good(m, r, a, Get(v, src, via, no), WithVal(a, v, {src}))
<1> DEFINE b == WithVal(a, v, {src})
<1>1. Good(m, r, b, << >>, b) BY GoodNone, EntailsSame
<1>2. Entails(m, Refused(a), b)
  <2>1. /\ Refused(a).vals = a.vals /\ Refused(a).mark # "none" /\ (a.mark # "none" => Refused(a).mark = a.mark)
        /\ Refused(a).opened = a.opened /\ Refused(a).taken = a.taken /\ Refused(a).bound = a.bound
        /\ Refused(a).wanted = a.wanted
    BY DEF Refused, Facts, Mild
  <2>2. "old" \notin m.traits => /\ DOMAIN b.vals = DOMAIN a.vals
                                 /\ \A w \in DOMAIN b.vals : a.vals[w] \subseteq b.vals[w]
    <3>1. SUFFICES ASSUME "old" \notin m.traits
                   PROVE  /\ DOMAIN b.vals = DOMAIN a.vals
                          /\ \A w \in DOMAIN b.vals : a.vals[w] \subseteq b.vals[w]
      OBVIOUS
    <3>2. v \in DOMAIN a.vals /\ a.vals[v] \subseteq {src} BY <3>1
    <3>3. /\ b.vals[v] = {src} /\ DOMAIN b.vals = DOMAIN a.vals \union {v}
          /\ \A w \in DOMAIN a.vals : w # v => b.vals[w] = a.vals[w]
      BY ValsAre
    <3> HIDE DEF b
    <3>4. QED BY <3>2, <3>3
  <2>3. b.opened = a.opened /\ b.taken = a.taken /\ b.bound = a.bound /\ b.wanted = a.wanted /\ b.mark = a.mark
    BY ValsAre
  <2> HIDE DEF b
  <2>4. QED BY <2>1, <2>2, <2>3 DEF Entails, Exact
<1>3. Good(m, r, Refused(a), no, b) BY <1>2, GoodMild, ValsAre
<1> HIDE DEF b
<1>4. Good(m, r, a, GetOr(v, src, via, << >>, no, no), b) BY <1>1, <1>3, GoodGet DEF b
<1>5. QED BY <1>4 DEF b, Get, GetThen

\* It is reset and read.
LEMMA GoodReadOr ==
  ASSUME NEW m, NEW r, NEW a, NEW v, NEW src, NEW via, NEW no, Mild(r, a, no)
  PROVE  Good(m, r, a, Reset(v) \o Get(v, src, via, no), WithVal(a, v, {src}))
<1> DEFINE b == WithVal(a, v, {})
<1>1. Good(m, r, a, Reset(v), b) BY GoodReset
<1>2. v \in DOMAIN b.vals /\ b.vals[v] \subseteq {src} /\ b.mark = a.mark BY ValsAre
<1>3. Mild(r, b, no) BY <1>2 DEF Mild
<1>4. WithVal(b, v, {src}) = WithVal(a, v, {src}) BY SetTwice
<1> HIDE DEF b
<1>5. Good(m, r, b, Get(v, src, via, no), WithVal(b, v, {src})) BY <1>2, <1>3, GoodAsk
<1>6. Good(m, r, b, Get(v, src, via, no), WithVal(a, v, {src})) BY <1>4, <1>5
<1>7. QED BY <1>1, <1>6, GoodThen

\* What a variable holds is given out.
LEMMA GoodShown ==
  ASSUME NEW m, NEW r, NEW a, NEW v, NEW claim, v \in DOMAIN a.vals, a.vals[v] = claim
  PROVE  Good(m, r, a, Show(claim, v), Plus(a, {claim}, {}, {}))
  BY GoodShow, EntailsSame

\* And then forgotten.
LEMMA GoodGivenOut ==
  ASSUME NEW m, NEW r, NEW a, NEW v, NEW claim, v \notin DOMAIN a.vals
  PROVE  Good(m, r, WithVal(a, v, claim), Show(claim, v), Plus(a, {claim}, {}, {}))
<1> DEFINE b == WithVal(a, v, claim)
           c == Plus(a, {claim}, {}, {})
<1>1. v \in DOMAIN b.vals /\ b.vals[v] = claim BY ValsAre
<1>2. Plus(b, {claim}, {}, {}) = WithVal(c, v, claim) BY DEF Plus, WithVal, Facts
<1>3. v \notin DOMAIN c.vals BY DEF Plus, Facts
<1> HIDE DEF b, c
<1>4. Good(m, r, b, Show(claim, v), Plus(b, {claim}, {}, {})) BY <1>1, GoodShown
<1>5. Entails(m, WithVal(c, v, claim), c) BY <1>3, Forget
<1>6. QED BY <1>2, <1>4, <1>5, EntailsSame, GoodWeaker DEF b, c

\* A device is read and its value given out.
LEMMA GoodReport ==
  ASSUME NEW m, NEW r, NEW a, NEW v, NEW src, NEW via, NEW no, Mild(r, a, no), v \notin DOMAIN a.vals
  PROVE  Good(m, r, a, Reset(v) \o Get(v, src, via, no) \o Show({src}, v), Plus(a, {{src}}, {}, {}))
  BY GoodReadOr, GoodGivenOut, GoodThen

\* The same without a reset, where old values are not minded.
LEMMA GoodOldReport ==
  ASSUME NEW m, NEW r, NEW a, NEW v, NEW src, NEW via, NEW no, Mild(r, a, no), v \notin DOMAIN a.vals,
         "old" \in m.traits
  PROVE  Good(m, r, a, Get(v, src, via, no) \o Show({src}, v), Plus(a, {{src}}, {}, {}))
  BY GoodAsk, GoodGivenOut, GoodThen

-----------------------------------------------------------------------------
\* Loops.

\* Facts that differ in what was given out and in the caps.
Alike(x, a) == x.vals = a.vals /\ x.opened = a.opened /\ x.wanted = a.wanted /\ x.mark = a.mark

\* One set more.
LEMMA UnionGrows ==
  ASSUME NEW S, NEW I, NEW J, NEW k, J = I \union {k}
  PROVE  UNION {S[j] : j \in J} = (UNION {S[j] : j \in I}) \union S[k]
<1>1. \E X, Y : X = UNION {S[j] : j \in I} /\ Y = UNION {S[j] : j \in J} OBVIOUS
<1>2. PICK X, Y : X = UNION {S[j] : j \in I} /\ Y = UNION {S[j] : j \in J} BY <1>1
<1>3. ASSUME NEW e PROVE e \in X <=> \E j \in I : e \in S[j] BY <1>2
<1>4. ASSUME NEW e PROVE e \in Y <=> \E j \in J : e \in S[j] BY <1>2
<1>5. ASSUME NEW e PROVE (\E j \in J : e \in S[j]) <=> (\E j \in I : e \in S[j]) \/ e \in S[k] OBVIOUS
<1>6. Y = X \union S[k] BY ONLY <1>3, <1>4, <1>5
<1>7. QED BY <1>2, <1>6

\* What was done in two steps was done.
LEMMA PlusPlus ==
  ASSUME NEW a, NEW C, NEW T, NEW H, NEW C2, NEW T2, NEW H2
  PROVE  Plus(Plus(a, C, T, H), C2, T2, H2) = Plus(a, C \union C2, T \union T2, H \union H2)
<1>1. /\ (a.claims \union C) \union C2 = a.claims \union (C \union C2)
      /\ (a.taken \union T) \union T2 = a.taken \union (T \union T2)
      /\ (a.bound \union H) \union H2 = a.bound \union (H \union H2)
  OBVIOUS
<1>2. QED BY <1>1 DEF Plus, Facts

\* Nothing more given out, nothing more taken.
LEMMA PlusNothing ==
  ASSUME NEW m, NEW a
  PROVE  Entails(m, a, Plus(a, {}, {}, {}))
<1>1. a.claims \union {} = a.claims /\ a.taken \union {} = a.taken /\ a.bound \union {} = a.bound OBVIOUS
<1>2. \E b : b = Plus(a, {}, {}, {}) OBVIOUS
<1>3. PICK b : b = Plus(a, {}, {}, {}) BY <1>2
<1>4. /\ b.vals = a.vals /\ b.claims = a.claims \union {} /\ b.opened = a.opened /\ b.taken = a.taken \union {}
      /\ b.bound = a.bound \union {} /\ b.wanted = a.wanted /\ b.mark = a.mark
  BY <1>3 DEF Plus, Facts
<1>5. b.claims = a.claims /\ b.taken = a.taken /\ b.bound = a.bound BY ONLY <1>1, <1>4
<1>6. Entails(m, a, b) BY <1>4, <1>5 DEF Entails
<1>7. QED BY <1>3, <1>6

\* A loop adds what its turns add.
LEMMA GoodEach ==
  ASSUME NEW m, NEW r, NEW a, NEW first \in Int, NEW last \in Int, NEW bodies, NEW C, NEW T, NEW H, first <= last + 1,
         \A k \in first..last : \A x :
           Alike(x, a) => Good(m, r, x, bodies[k], Plus(x, C[k], T[k], H[k]))
  PROVE  Good(m, r, a, LoopFrom(first, last, bodies),
              Plus(a, UNION {C[k] : k \in first..last}, UNION {T[k] : k \in first..last},
                      UNION {H[k] : k \in first..last}))
<1> DEFINE Up(S, k) == UNION {S[j] : j \in first..(k - 1)}
           I == [k \in first..(last + 1) |-> Plus(a, Up(C, k), Up(T, k), Up(H, k))]
<1>1. \A k \in first..(last + 1) : I[k] = Plus(a, Up(C, k), Up(T, k), Up(H, k)) OBVIOUS
<1>2. ASSUME NEW S, NEW k \in first..last PROVE Up(S, k + 1) = Up(S, k) \union S[k]
  <2>1. first..((k + 1) - 1) = first..(k - 1) \union {k} OBVIOUS
  <2>2. UNION {S[j] : j \in first..((k + 1) - 1)} = (UNION {S[j] : j \in first..(k - 1)}) \union S[k]
    BY ONLY <2>1, UnionGrows
  <2>3. QED BY <2>2
<1>3. first \in first..(last + 1) /\ last + 1 \in first..(last + 1) OBVIOUS
<1>4. ASSUME NEW S PROVE Up(S, first) = {} /\ Up(S, last + 1) = UNION {S[k] : k \in first..last}
  <2>1. first..(first - 1) = {} /\ first..((last + 1) - 1) = first..last OBVIOUS
  <2>2. QED BY <2>1
<1> HIDE DEF I, Up
<1>5. ASSUME NEW k \in first..last PROVE Good(m, r, I[k], bodies[k], I[k + 1])
  <2>1. k \in first..(last + 1) /\ k + 1 \in first..(last + 1) OBVIOUS
  <2>2. I[k] = Plus(a, Up(C, k), Up(T, k), Up(H, k)) BY <1>1, <2>1
  <2>3. I[k + 1] = Plus(a, Up(C, k) \union C[k], Up(T, k) \union T[k], Up(H, k) \union H[k]) BY <1>1, <1>2, <2>1
  <2>4. I[k + 1] = Plus(I[k], C[k], T[k], H[k]) BY <2>2, <2>3, PlusPlus
  <2>5. Alike(I[k], a) BY <2>2 DEF Alike, Plus, Facts
  <2>6. QED BY <2>4, <2>5
<1>6. Good(m, r, I[first], LoopFrom(first, last, bodies), I[last + 1]) BY <1>5, GoodLoop
<1>7. I[first] = Plus(a, {}, {}, {}) BY <1>1, <1>3, <1>4
<1>8. Entails(m, a, I[first]) BY <1>7, PlusNothing
<1>9. I[last + 1] = Plus(a, UNION {C[k] : k \in first..last}, UNION {T[k] : k \in first..last},
                            UNION {H[k] : k \in first..last})
  BY <1>1, <1>3, <1>4
<1>10. QED BY <1>6, <1>8, <1>9, EntailsSame, GoodWeaker

-----------------------------------------------------------------------------
\* Features.

\* The facts before a feature, with o open, and behind it.
Outcome(o, C, T, H) == Facts(NoVals, C, o, T, H, "share", "none")
Base(o) == Outcome(o, {}, {}, {})
Reached(o, F, H) == Outcome(o, F.claims, F.caps, H)

Fine(m, o, F, H) == Good(m, Reached(o, F, H), Base(o), F.plan, Reached(o, F, H))

\* Nothing has been read, and nothing has gone wrong.
Blank(x) == DOMAIN x.vals = {} /\ x.mark = "none" /\ x.wanted = "share"

\* What the facts at the end of a feature say.
LEMMA OutcomeIs ==
  ASSUME NEW o, NEW C, NEW T, NEW H
  PROVE  /\ Easy(Outcome(o, C, T, H)) /\ Blank(Outcome(o, C, T, H))
         /\ Plus(Base(o), C, T, H) = Outcome(o, C, T, H)
         /\ Outcome(o, C, T, H).opened = o /\ Outcome(o, C, T, H).claims = C
         /\ Outcome(o, C, T, H).taken = T /\ Outcome(o, C, T, H).bound = H
         /\ Outcome(o, C, T, H).mark = "none" /\ Outcome(o, C, T, H).wanted = "share"
<1>1. {} \union C = C /\ {} \union T = T /\ {} \union H = H OBVIOUS
<1>2. QED BY <1>1 DEF Base, Outcome, Plus, Facts, Easy, Blank, NoVals

\* A feature that ends with its outcome returns.
LEMMA GoodEnd ==
  ASSUME NEW m, NEW g, NEW a, NEW b, NEW plan, Good(m, g, a, plan, g)
  PROVE  Good(m, g, a, plan \o Return(0), b)
<1>1. Good(m, g, g, Return(0), b) BY EntailsSame, GoodReturn
<1>2. QED BY <1>1, GoodThen

\* Loops whose turns give values out, or set caps.
LEMMA GoodReports ==
  ASSUME NEW m, NEW r, NEW a, NEW first \in Int, NEW last \in Int, NEW bodies, NEW C, first <= last + 1,
         \A k \in first..last : \A x : Alike(x, a) => Good(m, r, x, bodies[k], Plus(x, C[k], {}, {}))
  PROVE  Good(m, r, a, LoopFrom(first, last, bodies), Plus(a, UNION {C[k] : k \in first..last}, {}, {}))
<1> DEFINE N == [k \in first..last |-> {}]
<1>1. \A k \in first..last : N[k] = {} OBVIOUS
<1>2. UNION {N[k] : k \in first..last} = {} OBVIOUS
<1> HIDE DEF N
<1>3. \A k \in first..last : \A x : Alike(x, a) => Good(m, r, x, bodies[k], Plus(x, C[k], N[k], N[k]))
  BY <1>1
<1>4. Good(m, r, a, LoopFrom(first, last, bodies),
           Plus(a, UNION {C[k] : k \in first..last}, UNION {N[k] : k \in first..last}, UNION {N[k] : k \in first..last}))
  BY <1>3, GoodEach
<1>5. QED BY <1>2, <1>4

\* A loop of caps.
LEMMA GoodCaps ==
  ASSUME NEW m, NEW r, NEW a, NEW first \in Int, NEW last \in Int, NEW bodies, NEW T, first <= last + 1,
         \A k \in first..last : \A x : Alike(x, a) => Good(m, r, x, bodies[k], Plus(x, {}, T[k], {}))
  PROVE  Good(m, r, a, LoopFrom(first, last, bodies), Plus(a, {}, UNION {T[k] : k \in first..last}, {}))
<1> DEFINE N == [k \in first..last |-> {}]
<1>1. \A k \in first..last : N[k] = {} OBVIOUS
<1>2. UNION {N[k] : k \in first..last} = {} OBVIOUS
<1> HIDE DEF N
<1>3. \A k \in first..last : \A x : Alike(x, a) => Good(m, r, x, bodies[k], Plus(x, N[k], T[k], N[k]))
  BY <1>1
<1>4. Good(m, r, a, LoopFrom(first, last, bodies),
           Plus(a, UNION {N[k] : k \in first..last}, UNION {T[k] : k \in first..last}, UNION {N[k] : k \in first..last}))
  BY <1>3, GoodEach
<1>5. QED BY <1>2, <1>4

\* Features that are one such loop.
LEMMA ReporterFine ==
  ASSUME NEW m, NEW o, NEW first \in Int, NEW last \in Int, NEW bodies, NEW C, first <= last + 1,
         \A k \in first..last : \A r, x : Easy(r) /\ Blank(x) => Good(m, r, x, bodies[k], Plus(x, C[k], {}, {}))
  PROVE  Fine(m, o, Reporting(LoopFrom(first, last, bodies) \o Return(0), UNION {C[k] : k \in first..last}), {})
<1> DEFINE g == Outcome(o, UNION {C[k] : k \in first..last}, {}, {})
<1>1. Easy(g) /\ Blank(Base(o)) /\ Plus(Base(o), UNION {C[k] : k \in first..last}, {}, {}) = g
  BY OutcomeIs DEF Base
<1> HIDE DEF g
<1>2. \A x : Alike(x, Base(o)) => Blank(x) BY <1>1 DEF Alike, Blank
<1>3. Good(m, g, Base(o), LoopFrom(first, last, bodies), Plus(Base(o), UNION {C[k] : k \in first..last}, {}, {}))
  BY <1>1, <1>2, GoodReports
<1>4. Good(m, g, Base(o), LoopFrom(first, last, bodies) \o Return(0), g) BY <1>1, <1>3, GoodEnd
<1>5. QED BY <1>4 DEF Fine, Reached, Reporting, g

\* A feature that caps in a loop and returns.
LEMMA CapperFine ==
  ASSUME NEW m, NEW o, NEW first \in Int, NEW last \in Int, NEW bodies, NEW T, first <= last + 1,
         \A k \in first..last : \A r, x : Easy(r) /\ Blank(x) => Good(m, r, x, bodies[k], Plus(x, {}, T[k], {}))
  PROVE  Fine(m, o, Capping(LoopFrom(first, last, bodies) \o Return(0), UNION {T[k] : k \in first..last}), {})
<1> DEFINE g == Outcome(o, {}, UNION {T[k] : k \in first..last}, {})
<1>1. Easy(g) /\ Blank(Base(o)) /\ Plus(Base(o), {}, UNION {T[k] : k \in first..last}, {}) = g
  BY OutcomeIs DEF Base
<1> HIDE DEF g
<1>2. \A x : Alike(x, Base(o)) => Blank(x) BY <1>1 DEF Alike, Blank
<1>3. Good(m, g, Base(o), LoopFrom(first, last, bodies), Plus(Base(o), {}, UNION {T[k] : k \in first..last}, {}))
  BY <1>1, <1>2, GoodCaps
<1>4. Good(m, g, Base(o), LoopFrom(first, last, bodies) \o Return(0), g) BY <1>1, <1>3, GoodEnd
<1>5. QED BY <1>4 DEF Fine, Reached, Capping, g

-----------------------------------------------------------------------------
\* What comes to pass in many features.

\* The numbers of sockets, cores and GPUs.
LEMMA NumbersOfDevices ==
  /\ NSOCKETS \in Nat \ {0} /\ NCORES \in Nat \ {0} /\ NGPUS \in Nat \ {0}
  /\ Sockets = 0..(NSOCKETS - 1) /\ Cores = 0..(NCORES - 1) /\ Gpus = 0..(NGPUS - 1)
  BY DevicesAssumption DEF Sockets, Cores, Gpus

\* A feature that gives up with a message may return 0.
LEMMA GoodGiveUp ==
  ASSUME NEW m, NEW r, NEW a, NEW b, NEW ret \in {0, -1}, Easy(r)
  PROVE  Good(m, r, a, Complain \o Return(ret), b)
<1>1. Good(m, r, a, Complain, Complained(a)) BY GoodComplain, EntailsSame
<1>2. Entails(m, Complained(a), r) BY DEF Entails, Easy, Complained, Facts, Exact, Tidy, Caps
<1>3. Good(m, r, Complained(a), Return(ret), b) BY <1>2, GoodReturn
<1>4. QED BY <1>1, <1>3, GoodThen

\* With no reading kept and no trouble, either way of a refusal is right.
LEMMA MildWays ==
  ASSUME NEW r, NEW x, Easy(r), x.mark = "none"
  PROVE  Mild(r, x, << >>) /\ Mild(r, x, Complain) /\ Mild(r, x, Fail)
  BY DEF Mild

\* The claims of a loop over devices.
LEMMA ClaimsAre ==
  ASSUME NEW what, NEW S, NEW C, \A k \in S : C[k] = {{<<what, k>>}}
  PROVE  UNION {C[k] : k \in S} = Claims(what, S)
<1>1. ASSUME NEW e PROVE e \in UNION {C[k] : k \in S} <=> \E k \in S : e = {<<what, k>>} OBVIOUS
<1>2. ASSUME NEW e PROVE e \in Claims(what, S) <=> \E k \in S : e = {<<what, k>>} BY DEF Claims, Of
<1>3. QED BY <1>1, <1>2

\* The devices of a loop that caps one each.
LEMMA DevicesAre ==
  ASSUME NEW D, NEW S, NEW T, \A k \in S : T[k] = {D[k]}
  PROVE  UNION {T[k] : k \in S} = {D[k] : k \in S}
<1>1. ASSUME NEW e PROVE e \in UNION {T[k] : k \in S} <=> \E k \in S : e = D[k] OBVIOUS
<1>2. QED BY <1>1

\* A loop in which each device is read and its value given out.
LEMMA ListFine ==
  ASSUME NEW m, NEW o, NEW first \in Int, NEW last \in Int, NEW bodies, NEW v, NEW what, NEW via, NEW no,
         first <= last + 1, no \in {<< >>, Complain, Fail},
         \A k \in first..last :
           bodies[k] = Reset(v) \o Get(v, <<what, k>>, via, no) \o Show({<<what, k>>}, v)
  PROVE  Fine(m, o, Reporting(LoopFrom(first, last, bodies) \o Return(0), Claims(what, first..last)), {})
<1>1. \E C : C = [k \in first..last |-> {{<<what, k>>}}] OBVIOUS
<1>2. PICK C : C = [k \in first..last |-> {{<<what, k>>}}] BY <1>1
<1>3. \A k \in first..last : C[k] = {{<<what, k>>}} BY <1>2
<1>4. ASSUME NEW k \in first..last, NEW r, NEW x, Easy(r), Blank(x)
      PROVE  Good(m, r, x, bodies[k], Plus(x, C[k], {}, {}))
  <2>1. Mild(r, x, no) BY <1>4, MildWays DEF Blank
  <2>2. v \notin DOMAIN x.vals BY <1>4 DEF Blank
  <2>3. \E src : src = <<what, k>> OBVIOUS
  <2>4. PICK src : src = <<what, k>> BY <2>3
  <2>5. Good(m, r, x, Reset(v) \o Get(v, src, via, no) \o Show({src}, v), Plus(x, {{src}}, {}, {}))
    BY <2>1, <2>2, GoodReport
  <2>6. QED BY <2>4, <2>5, <1>3
<1>5. \A k \in first..last : \A r, x : Easy(r) /\ Blank(x) => Good(m, r, x, bodies[k], Plus(x, C[k], {}, {}))
  BY <1>4
<1>6. UNION {C[k] : k \in first..last} = Claims(what, first..last) BY <1>3, ClaimsAre
<1>7. Fine(m, o, Reporting(LoopFrom(first, last, bodies) \o Return(0), UNION {C[k] : k \in first..last}), {})
  BY <1>5, ReporterFine
<1>8. QED BY <1>6, <1>7

\* The same without a reset.
LEMMA OldListFine ==
  ASSUME NEW m, NEW o, NEW first \in Int, NEW last \in Int, NEW bodies, NEW v, NEW what, NEW via, NEW no,
         first <= last + 1, no \in {<< >>, Complain, Fail}, "old" \in m.traits,
         \A k \in first..last : bodies[k] = Get(v, <<what, k>>, via, no) \o Show({<<what, k>>}, v)
  PROVE  Fine(m, o, Reporting(LoopFrom(first, last, bodies) \o Return(0), Claims(what, first..last)), {})
<1>1. \E C : C = [k \in first..last |-> {{<<what, k>>}}] OBVIOUS
<1>2. PICK C : C = [k \in first..last |-> {{<<what, k>>}}] BY <1>1
<1>3. \A k \in first..last : C[k] = {{<<what, k>>}} BY <1>2
<1>4. ASSUME NEW k \in first..last, NEW r, NEW x, Easy(r), Blank(x)
      PROVE  Good(m, r, x, bodies[k], Plus(x, C[k], {}, {}))
  <2>1. Mild(r, x, no) BY <1>4, MildWays DEF Blank
  <2>2. v \notin DOMAIN x.vals BY <1>4 DEF Blank
  <2>3. \E src : src = <<what, k>> OBVIOUS
  <2>4. PICK src : src = <<what, k>> BY <2>3
  <2>5. Good(m, r, x, Get(v, src, via, no) \o Show({src}, v), Plus(x, {{src}}, {}, {}))
    BY <2>1, <2>2, GoodOldReport
  <2>6. QED BY <2>4, <2>5, <1>3
<1>5. \A k \in first..last : \A r, x : Easy(r) /\ Blank(x) => Good(m, r, x, bodies[k], Plus(x, C[k], {}, {}))
  BY <1>4
<1>6. UNION {C[k] : k \in first..last} = Claims(what, first..last) BY <1>3, ClaimsAre
<1>7. Fine(m, o, Reporting(LoopFrom(first, last, bodies) \o Return(0), UNION {C[k] : k \in first..last}), {})
  BY <1>5, ReporterFine
<1>8. QED BY <1>6, <1>7

\* A cap that is told to a device of the platform.
LEMMA GoodToldCap ==
  ASSUME NEW m, NEW r, NEW x, NEW dev, NEW via, NEW no, x.wanted = "share", dev \in m.devs,
         Good(m, r, Refused(x), no, Plus(x, {}, {dev}, {}))
  PROVE  Good(m, r, x, Cap(dev, via, no), Plus(x, {}, {dev}, {}))
  BY EntailsSame, GoodCap

-----------------------------------------------------------------------------
\* After a message the facts without readings stand.
LEMMA Lost ==
  ASSUME NEW m, NEW a, NEW b, a.mark = "complained", Easy(b)
  PROVE  Entails(m, a, b)
  BY DEF Entails, Easy, Exact, Tidy, Caps

\* After a refusal those without readings, and of the caps what was told.
LEMMA RefusedStands ==
  ASSUME NEW m, NEW x, Easy(x)
  PROVE  Entails(m, Refused(x), x)
<1>1. /\ Refused(x).vals = x.vals /\ Refused(x).mark = "refused" /\ Refused(x).opened = x.opened
      /\ Refused(x).taken = x.taken /\ Refused(x).bound = x.bound /\ Refused(x).wanted = x.wanted
  BY DEF Refused, Facts, Easy
<1>2. x.mark = "none" /\ DOMAIN x.vals = {} BY DEF Easy
<1>3. QED BY <1>1, <1>2 DEF Entails, Exact, Tidy, Caps

\* What is given out or taken adds no trouble.
LEMMA PlusEasy ==
  ASSUME NEW x, NEW C, NEW T, NEW H, Blank(x)
  PROVE  Easy(x) /\ Easy(Plus(x, C, T, H)) /\ Blank(Plus(x, C, T, H))
  BY PlusIs DEF Blank, Easy

\* An error that was printed stands.
LEMMA ComplainedIs ==
  ASSUME NEW a
  PROVE  Complained(a).mark = "complained"
  BY DEF Complained, Facts

\* A message, whatever follows from it.
LEMMA GoodMessage ==
  ASSUME NEW m, NEW r, NEW a, NEW b, Easy(b)
  PROVE  Good(m, r, a, Complain, b)
  BY ComplainedIs, Lost, GoodComplain

-----------------------------------------------------------------------------
\* Variables that are filled one after the other, and given out afterwards.
Filled(a, V, W, S) ==
  Facts([v \in {V[j] : j \in S} |-> W[v]], a.claims, a.opened, a.taken, a.bound, a.wanted, a.mark)

\* Facts that differ in what the variables hold.
Besides(x, a) ==
  x.claims = a.claims /\ x.opened = a.opened /\ x.taken = a.taken /\ x.bound = a.bound /\ x.wanted = a.wanted
    /\ x.mark = a.mark

\* One more of the variables filled.
LEMMA FilledMore ==
  ASSUME NEW a, NEW V, NEW W, NEW S, NEW S2, NEW k, S2 = S \union {k}
  PROVE  WithVal(Filled(a, V, W, S), V[k], W[V[k]]) = Filled(a, V, W, S2)
<1> DEFINE old == [v \in {V[j] : j \in S} |-> W[v]]
           new == [v \in {V[j] : j \in S2} |-> W[v]]
<1>1. {V[j] : j \in S2} = {V[j] : j \in S} \union {V[k]} OBVIOUS
<1>2. Extend(old, V[k], W[V[k]]) = new BY <1>1 DEF Extend
<1> HIDE DEF old, new
<1>3. QED BY <1>2 DEF WithVal, Filled, Facts, old, new

\* No variable filled yet.
LEMMA FilledNothing ==
  ASSUME NEW m, NEW a, NEW V, NEW W
  PROVE  Entails(m, a, Filled(a, V, W, {}))
<1> DEFINE b == Filled(a, V, W, {})
<1>1. /\ b.claims = a.claims /\ b.opened = a.opened /\ b.taken = a.taken
      /\ b.bound = a.bound /\ b.wanted = a.wanted /\ b.mark = a.mark
  BY DEF Filled, Facts
<1>2. DOMAIN b.vals = {}
  <2>1. b.vals = [v \in {V[j] : j \in {}} |-> W[v]] BY DEF Filled, Facts
  <2>2. {V[j] : j \in {}} = {} OBVIOUS
  <2>3. QED BY <2>1, <2>2
<1> HIDE DEF b
<1>3. Entails(m, a, b) BY <1>1, <1>2 DEF Entails
<1>4. QED BY <1>3 DEF b

\* A loop that fills variables.
LEMMA GoodFill ==
  ASSUME NEW m, NEW r, NEW a, NEW first \in Int, NEW last \in Int, NEW bodies, NEW V, NEW W, first <= last + 1,
         \A k \in first..last : \A x : Besides(x, a) => Good(m, r, x, bodies[k], WithVal(x, V[k], W[V[k]]))
  PROVE  Good(m, r, a, LoopFrom(first, last, bodies), Filled(a, V, W, first..last))
<1> DEFINE I == [k \in first..(last + 1) |-> Filled(a, V, W, first..(k - 1))]
<1>1. \A k \in first..(last + 1) : I[k] = Filled(a, V, W, first..(k - 1)) OBVIOUS
<1> HIDE DEF I
<1>2. ASSUME NEW k \in first..last PROVE Good(m, r, I[k], bodies[k], I[k + 1])
  <2>1. k \in first..(last + 1) /\ k + 1 \in first..(last + 1) OBVIOUS
  <2>2. first..((k + 1) - 1) = (first..(k - 1)) \union {k} OBVIOUS
  <2>3. WithVal(Filled(a, V, W, first..(k - 1)), V[k], W[V[k]]) = Filled(a, V, W, first..((k + 1) - 1))
    <3>1. \E S, S2 : S = first..(k - 1) /\ S2 = first..((k + 1) - 1) OBVIOUS
    <3>2. PICK S, S2 : S = first..(k - 1) /\ S2 = first..((k + 1) - 1) BY <3>1
    <3>3. S2 = S \union {k} BY ONLY <3>2, <2>2
    <3>4. WithVal(Filled(a, V, W, S), V[k], W[V[k]]) = Filled(a, V, W, S2) BY ONLY <3>3, FilledMore
    <3>5. QED BY ONLY <3>2, <3>4
  <2>4. WithVal(I[k], V[k], W[V[k]]) = I[k + 1] BY <1>1, <2>1, <2>3
  <2>5. I[k] = Filled(a, V, W, first..(k - 1)) BY <1>1, <2>1
  <2>6. Besides(I[k], a) BY <2>5 DEF Besides, Filled, Facts
  <2>7. QED BY <2>4, <2>6
<1>3. Good(m, r, I[first], LoopFrom(first, last, bodies), I[last + 1]) BY <1>2, GoodLoop
<1>4. first..(first - 1) = {} /\ first..((last + 1) - 1) = first..last OBVIOUS
<1>5. I[first] = Filled(a, V, W, {}) /\ I[last + 1] = Filled(a, V, W, first..last) BY <1>1, <1>4
<1>6. Entails(m, a, I[first]) BY <1>5, FilledNothing
<1>7. QED BY <1>3, <1>5, <1>6, EntailsSame, GoodWeaker

\* They are given out.
LEMMA GoodShowFilled ==
  ASSUME NEW m, NEW r, NEW a, NEW first \in Int, NEW last \in Int, NEW bodies, NEW V, NEW W, first <= last + 1,
         \A k \in first..last : bodies[k] = Show(W[V[k]], V[k])
  PROVE  Good(m, r, Filled(a, V, W, first..last), LoopFrom(first, last, bodies),
              Plus(Filled(a, V, W, first..last), {W[V[k]] : k \in first..last}, {}, {}))
<1> DEFINE b == Filled(a, V, W, first..last)
<1>1. \E C : C = [k \in first..last |-> {W[V[k]]}] OBVIOUS
<1>2. PICK C : C = [k \in first..last |-> {W[V[k]]}] BY <1>1
<1>3. \A k \in first..last : C[k] = {W[V[k]]} BY <1>2
<1>4. b.vals = [v \in {V[j] : j \in first..last} |-> W[v]] BY DEF Filled, Facts
<1> HIDE DEF b
<1>5. ASSUME NEW k \in first..last, NEW x, Alike(x, b) PROVE Good(m, r, x, bodies[k], Plus(x, C[k], {}, {}))
  <2>1. V[k] \in DOMAIN x.vals /\ x.vals[V[k]] = W[V[k]] BY <1>4, <1>5 DEF Alike
  <2>2. Good(m, r, x, Show(W[V[k]], V[k]), Plus(x, {W[V[k]]}, {}, {})) BY <2>1, GoodShown
  <2>3. QED BY <2>2, <1>3
<1>6. UNION {C[k] : k \in first..last} = {W[V[k]] : k \in first..last}
  <2>1. \E D : D = [k \in first..last |-> W[V[k]]] OBVIOUS
  <2>2. PICK D : D = [k \in first..last |-> W[V[k]]] BY <2>1
  <2>3. \A k \in first..last : C[k] = {D[k]} BY <1>3, <2>2
  <2>4. UNION {C[k] : k \in first..last} = {D[k] : k \in first..last} BY <2>3, DevicesAre
  <2>5. QED BY <2>2, <2>4
<1>7. \A k \in first..last : \A x : Alike(x, b) => Good(m, r, x, bodies[k], Plus(x, C[k], {}, {})) BY <1>5
<1>8. Good(m, r, b, LoopFrom(first, last, bodies), Plus(b, UNION {C[k] : k \in first..last}, {}, {}))
  BY <1>7, GoodReports
<1>9. QED BY <1>6, <1>8 DEF b

-----------------------------------------------------------------------------
\* Sums.

\* Setting a variable and giving out may change places.
LEMMA WithValPlus ==
  ASSUME NEW a, NEW v, NEW x, NEW C, NEW T, NEW H
  PROVE  Plus(WithVal(a, v, x), C, T, H) = WithVal(Plus(a, C, T, H), v, x)
  BY DEF Plus, WithVal, Facts

\* A value is given out and added to a sum.
LEMMA GoodAdded ==
  ASSUME NEW m, NEW r, NEW a, NEW v, NEW total, NEW src, NEW B,
         v \notin DOMAIN a.vals, total \notin DOMAIN a.vals, v # total, src \notin B
  PROVE  /\ Good(m, r, WithVal(WithVal(a, total, B), v, {src}), Show({src}, v),
                 WithVal(WithVal(Plus(a, {{src}}, {}, {}), total, B), v, {src}))
         /\ Good(m, r, WithVal(WithVal(Plus(a, {{src}}, {}, {}), total, B), v, {src}), Add(total, v),
                 WithVal(Plus(a, {{src}}, {}, {}), total, B \union {src}))
<1> DEFINE b == WithVal(a, total, B)
           c == WithVal(b, v, {src})
           d == Plus(a, {{src}}, {}, {})
           e == WithVal(d, total, B)
           f == WithVal(e, v, {src})
           h == WithVal(d, total, B \union {src})
<1>1. v \notin DOMAIN b.vals BY ValsAre
<1>2. v \in DOMAIN c.vals /\ c.vals[v] = {src} BY ValsAre
<1>3. Good(m, r, c, Show({src}, v), Plus(c, {{src}}, {}, {}))
  <2> HIDE DEF c
  <2>1. QED BY <1>2, GoodShown
<1>4. Plus(c, {{src}}, {}, {}) = f BY WithValPlus
<1>5. DOMAIN d.vals = DOMAIN a.vals BY PlusIs
<1>6. /\ {total, v} \subseteq DOMAIN f.vals /\ f.vals[total] = B /\ f.vals[v] = {src}
      /\ DOMAIN f.vals = DOMAIN d.vals \union {total, v}
      /\ \A w \in DOMAIN d.vals : w \notin {total, v} => f.vals[w] = d.vals[w]
  <2>1. /\ total \in DOMAIN e.vals /\ e.vals[total] = B /\ DOMAIN e.vals = DOMAIN d.vals \union {total}
        /\ \A w \in DOMAIN d.vals : w # total => e.vals[w] = d.vals[w]
    BY ValsAre
  <2>2. /\ v \in DOMAIN f.vals /\ f.vals[v] = {src} /\ DOMAIN f.vals = DOMAIN e.vals \union {v}
        /\ \A w \in DOMAIN e.vals : w # v => f.vals[w] = e.vals[w]
    BY ValsAre
  <2> HIDE DEF e, f, d
  <2>3. QED BY <2>1, <2>2
<1>7. Entails(m, WithVal(f, total, B \union {src}), h)
  <2>1. \E p : p = WithVal(f, total, B \union {src}) OBVIOUS
  <2>2. PICK p : p = WithVal(f, total, B \union {src}) BY <2>1
  <2>3. /\ p.vals[total] = B \union {src} /\ DOMAIN p.vals = DOMAIN f.vals \union {total}
        /\ \A w \in DOMAIN f.vals : w # total => p.vals[w] = f.vals[w]
    BY <2>2, ValsAre
  <2>4. /\ h.vals[total] = B \union {src} /\ DOMAIN h.vals = DOMAIN d.vals \union {total}
        /\ \A w \in DOMAIN d.vals : w # total => h.vals[w] = d.vals[w]
    BY ValsAre
  <2>5. /\ p.mark = h.mark /\ p.claims = h.claims /\ p.opened = h.opened /\ p.wanted = h.wanted
        /\ p.taken = h.taken /\ p.bound = h.bound
    BY <2>2 DEF WithVal, Facts
  <2>6. v \notin DOMAIN d.vals BY <1>5
  <2> HIDE DEF h, f, d
  <2>7. DOMAIN h.vals \subseteq DOMAIN p.vals /\ \A w \in DOMAIN h.vals : p.vals[w] = h.vals[w]
    BY <2>3, <2>4, <2>6, <1>6
  <2>8. Entails(m, p, h) BY <2>5, <2>7 DEF Entails
  <2>9. QED BY <2>2, <2>8
<1>8. f.vals[total] \intersect f.vals[v] = {}
  <2> HIDE DEF f
  <2>1. QED BY <1>6
<1>9. Good(m, r, f, Add(total, v), h)
  <2>1. Entails(m, WithVal(f, total, f.vals[total] \union f.vals[v]), h)
    <3>1. f.vals[total] \union f.vals[v] = B \union {src}
      <4> HIDE DEF f
      <4>1. QED BY <1>6
    <3> HIDE DEF f, h
    <3>2. QED BY <1>7, <3>1
  <2> HIDE DEF f, h
  <2>2. QED BY <1>6, <1>8, <2>1, GoodAdd
<1>10. QED BY <1>3, <1>4, <1>9

\* Sums grow by what a loop reads.
LEMMA GoodTotals ==
  ASSUME NEW m, NEW r, NEW a, NEW first \in Int, NEW last \in Int, NEW bodies, NEW total, NEW what, NEW B,
         first <= last + 1, total \notin DOMAIN a.vals, B \intersect Sum(what, first..last) = {},
         \A k \in first..last : \A x, S :
           Alike(x, a) /\ <<what, k>> \notin S =>
             Good(m, r, WithVal(x, total, S), bodies[k],
                  WithVal(Plus(x, {{<<what, k>>}}, {}, {}), total, S \union {<<what, k>>}))
  PROVE  Good(m, r, WithVal(a, total, B), LoopFrom(first, last, bodies),
              WithVal(Plus(a, Claims(what, first..last), {}, {}), total, B \union Sum(what, first..last)))
<1> DEFINE upto(k) == first..(k - 1)
           I == [k \in first..(last + 1) |->
                   WithVal(Plus(a, Claims(what, upto(k)), {}, {}), total, B \union Sum(what, upto(k)))]
<1>1. \A k \in first..(last + 1) :
        I[k] = WithVal(Plus(a, Claims(what, upto(k)), {}, {}), total, B \union Sum(what, upto(k)))
  OBVIOUS
<1> HIDE DEF I
<1>2. ASSUME NEW k \in first..last PROVE Good(m, r, I[k], bodies[k], I[k + 1])
  <2>1. k \in first..(last + 1) /\ k + 1 \in first..(last + 1) OBVIOUS
  <2>2. upto(k + 1) = upto(k) \union {k} /\ k \notin upto(k) OBVIOUS
  <2>3. \E x, S, U : x = Plus(a, Claims(what, upto(k)), {}, {}) /\ S = B \union Sum(what, upto(k)) /\ U = upto(k)
    OBVIOUS
  <2>4. PICK x, S, U : x = Plus(a, Claims(what, upto(k)), {}, {}) /\ S = B \union Sum(what, upto(k)) /\ U = upto(k)
    BY <2>3
  <2>5. I[k] = WithVal(x, total, S) BY <1>1, <2>1, <2>4
  <2>6. <<what, k>> \notin S
    <3>1. <<what, k>> \in Sum(what, first..last) BY DEF Sum
    <3>2. <<what, k>> \notin Sum(what, upto(k)) BY <2>2 DEF Sum
    <3> HIDE DEF upto
    <3>3. QED BY <3>1, <3>2, <2>4
  <2>7. Alike(x, a) BY <2>4 DEF Alike, Plus, Facts
  <2>8. Claims(what, upto(k + 1)) = Claims(what, U) \union {{<<what, k>>}} BY <2>2, <2>4 DEF Claims, Of
  <2>9. Sum(what, upto(k + 1)) = Sum(what, U) \union {<<what, k>>} BY <2>2, <2>4 DEF Sum
  <2>10. I[k + 1] = WithVal(Plus(a, Claims(what, upto(k + 1)), {}, {}), total, B \union Sum(what, upto(k + 1)))
    BY <1>1, <2>1
  <2> HIDE DEF upto
  <2>11. Plus(x, {{<<what, k>>}}, {}, {}) = Plus(a, Claims(what, U) \union {{<<what, k>>}}, {}, {})
    <3>1. {} \union {} = {} OBVIOUS
    <3>2. Plus(x, {{<<what, k>>}}, {}, {}) = Plus(a, Claims(what, U) \union {{<<what, k>>}}, {} \union {}, {} \union {})
      BY <2>4, PlusPlus
    <3>3. QED BY <3>1, <3>2
  <2>12. S \union {<<what, k>>} = B \union Sum(what, upto(k + 1)) BY <2>4, <2>9
  <2>13. I[k + 1] = WithVal(Plus(x, {{<<what, k>>}}, {}, {}), total, S \union {<<what, k>>})
    BY <2>8, <2>10, <2>11, <2>12
  <2>14. QED BY <2>5, <2>6, <2>7, <2>13
<1>3. Good(m, r, I[first], LoopFrom(first, last, bodies), I[last + 1]) BY <1>2, GoodLoop
<1>4. upto(first) = {} /\ upto(last + 1) = first..last OBVIOUS
<1>5. first \in first..(last + 1) /\ last + 1 \in first..(last + 1) OBVIOUS
<1>6. Claims(what, {}) = {} /\ Sum(what, {}) = {} /\ B \union {} = B BY DEF Claims, Sum
<1>7. I[first] = WithVal(Plus(a, {}, {}, {}), total, B)
  <2>1. B \union Sum(what, upto(first)) = B /\ Claims(what, upto(first)) = {} BY <1>4, <1>6
  <2> HIDE DEF upto
  <2>2. QED BY <1>1, <1>5, <2>1
<1>8. Entails(m, WithVal(a, total, B), I[first])
  <2>1. \E b : b = WithVal(a, total, B) OBVIOUS
  <2>2. PICK b : b = WithVal(a, total, B) BY <2>1
  <2>3. I[first] = Plus(b, {}, {}, {}) BY <1>7, <2>2, WithValPlus
  <2>4. QED BY <2>2, <2>3, PlusNothing
<1>9. I[last + 1] = WithVal(Plus(a, Claims(what, first..last), {}, {}), total, B \union Sum(what, first..last))
  <2>1. I[last + 1] = WithVal(Plus(a, Claims(what, upto(last + 1)), {}, {}), total, B \union Sum(what, upto(last + 1)))
    BY <1>1, <1>5
  <2> HIDE DEF upto
  <2>2. QED BY <1>4, <2>1
<1>10. QED BY <1>3, <1>8, <1>9, EntailsSame, GoodWeaker

-----------------------------------------------------------------------------
\* Several values are read before they are given out.

\* Facts in which some variables have been forgotten.
LEMMA ForgetAll ==
  ASSUME NEW m, NEW a, NEW b, DOMAIN b.vals = {}, b.mark = a.mark, b.claims = a.claims, b.opened = a.opened,
         b.taken = a.taken, b.bound = a.bound, b.wanted = a.wanted
  PROVE  Entails(m, a, b)
  BY DEF Entails

\* Variables set to the readings of devices.
Rest(b, a) == b.mark = a.mark /\ b.opened = a.opened /\ b.wanted = a.wanted /\ b.taken = a.taken /\ b.bound = a.bound

\* A variable set, said of facts that have a name.
LEMMA SetIs ==
  ASSUME NEW a, NEW b, NEW v, NEW x, b = WithVal(a, v, x)
  PROVE  /\ v \in DOMAIN b.vals /\ b.vals[v] = x /\ DOMAIN b.vals = DOMAIN a.vals \union {v}
         /\ \A w \in DOMAIN a.vals : w # v => b.vals[w] = a.vals[w]
         /\ b.claims = a.claims /\ Rest(b, a)
  BY ValsAre DEF Rest

\* A value given out, said of facts that have a name.
LEMMA ShownIs ==
  ASSUME NEW a, NEW b, NEW C, b = Plus(a, C, {}, {})
  PROVE  b.vals = a.vals /\ b.claims = a.claims \union C /\ Rest(b, a)
<1>1. a.taken \union {} = a.taken /\ a.bound \union {} = a.bound OBVIOUS
<1>2. /\ b.vals = a.vals /\ b.claims = a.claims \union C /\ b.opened = a.opened
      /\ b.taken = a.taken \union {} /\ b.bound = a.bound \union {} /\ b.wanted = a.wanted /\ b.mark = a.mark
  BY DEF Plus, Facts
<1>3. b.taken = a.taken /\ b.bound = a.bound BY ONLY <1>1, <1>2
<1>4. QED BY <1>2, <1>3 DEF Rest

\* Three readings taken, then given out.
LEMMA ThreeReports ==
  ASSUME NEW m, NEW r, NEW x, NEW t, NEW u, NEW v, NEW c, NEW d, NEW e, NEW via, NEW no,
         Easy(r), Blank(x), no \in {<< >>, Complain, Fail}, t # u, u # v, t # v
  PROVE  Good(m, r, x, Reset(t) \o Reset(u) \o Reset(v)
                         \o Get(t, c, via, no) \o Get(u, d, via, no) \o Get(v, e, via, no)
                         \o Show({c}, t) \o Show({d}, u) \o Show({e}, v),
              Plus(x, {{c}, {d}, {e}}, {}, {}))
<1>1. \E b : b = WithVal(x, t, {}) OBVIOUS
<1>2. PICK b1 : b1 = WithVal(x, t, {}) BY <1>1
<1>3. \E b : b = WithVal(b1, u, {}) OBVIOUS
<1>4. PICK b2 : b2 = WithVal(b1, u, {}) BY <1>3
<1>5. \E b : b = WithVal(b2, v, {}) OBVIOUS
<1>6. PICK b3 : b3 = WithVal(b2, v, {}) BY <1>5
<1>7. \E b : b = WithVal(b3, t, {c}) OBVIOUS
<1>8. PICK b4 : b4 = WithVal(b3, t, {c}) BY <1>7
<1>9. \E b : b = WithVal(b4, u, {d}) OBVIOUS
<1>10. PICK b5 : b5 = WithVal(b4, u, {d}) BY <1>9
<1>11. \E b : b = WithVal(b5, v, {e}) OBVIOUS
<1>12. PICK b6 : b6 = WithVal(b5, v, {e}) BY <1>11
<1>13. \E b : b = Plus(b6, {{c}}, {}, {}) OBVIOUS
<1>14. PICK b7 : b7 = Plus(b6, {{c}}, {}, {}) BY <1>13
<1>15. \E b : b = Plus(b7, {{d}}, {}, {}) OBVIOUS
<1>16. PICK b8 : b8 = Plus(b7, {{d}}, {}, {}) BY <1>15
<1>17. \E b : b = Plus(b8, {{e}}, {}, {}) OBVIOUS
<1>18. PICK b9 : b9 = Plus(b8, {{e}}, {}, {}) BY <1>17
<1>19. DOMAIN b1.vals = DOMAIN x.vals \union {t} /\ b1.vals[t] = {} /\ b1.claims = x.claims /\ Rest(b1, x)
  BY ONLY <1>2, SetIs
<1>20. /\ DOMAIN b2.vals = DOMAIN b1.vals \union {u} /\ b2.vals[u] = {} /\ b2.claims = b1.claims /\ Rest(b2, b1)
       /\ \A w \in DOMAIN b1.vals : w # u => b2.vals[w] = b1.vals[w]
  BY ONLY <1>4, SetIs
<1>21. /\ DOMAIN b3.vals = DOMAIN b2.vals \union {v} /\ b3.vals[v] = {} /\ b3.claims = b2.claims /\ Rest(b3, b2)
       /\ \A w \in DOMAIN b2.vals : w # v => b3.vals[w] = b2.vals[w]
  BY ONLY <1>6, SetIs
<1>22. /\ DOMAIN b4.vals = DOMAIN b3.vals \union {t} /\ b4.vals[t] = {c} /\ b4.claims = b3.claims /\ Rest(b4, b3)
       /\ \A w \in DOMAIN b3.vals : w # t => b4.vals[w] = b3.vals[w]
  BY ONLY <1>8, SetIs
<1>23. /\ DOMAIN b5.vals = DOMAIN b4.vals \union {u} /\ b5.vals[u] = {d} /\ b5.claims = b4.claims /\ Rest(b5, b4)
       /\ \A w \in DOMAIN b4.vals : w # u => b5.vals[w] = b4.vals[w]
  BY ONLY <1>10, SetIs
<1>24. /\ DOMAIN b6.vals = DOMAIN b5.vals \union {v} /\ b6.vals[v] = {e} /\ b6.claims = b5.claims /\ Rest(b6, b5)
       /\ \A w \in DOMAIN b5.vals : w # v => b6.vals[w] = b5.vals[w]
  BY ONLY <1>12, SetIs
<1>25. b7.vals = b6.vals /\ b7.claims = b6.claims \union {{c}} /\ Rest(b7, b6) BY ONLY <1>14, ShownIs
<1>26. b8.vals = b7.vals /\ b8.claims = b7.claims \union {{d}} /\ Rest(b8, b7) BY ONLY <1>16, ShownIs
<1>27. b9.vals = b8.vals /\ b9.claims = b8.claims \union {{e}} /\ Rest(b9, b8) BY ONLY <1>18, ShownIs
<1>28. {t, u, v} \subseteq DOMAIN b3.vals BY ONLY <1>19, <1>20, <1>21
<1>29. u \in DOMAIN b4.vals /\ v \in DOMAIN b5.vals BY ONLY <1>22, <1>23, <1>28
<1>30. b3.vals[t] = {}
  <2>1. t \in DOMAIN b1.vals /\ t \in DOMAIN b2.vals BY <1>19, <1>20
  <2>2. b2.vals[t] = b1.vals[t] BY <2>1, <1>20
  <2>3. b3.vals[t] = b2.vals[t] BY <2>1, <1>21
  <2>4. QED BY <2>2, <2>3, <1>19
<1>31. b4.vals[u] = {}
  <2>1. u \in DOMAIN b2.vals /\ u \in DOMAIN b3.vals BY <1>20, <1>21
  <2>2. b3.vals[u] = b2.vals[u] BY <2>1, <1>21
  <2>3. b4.vals[u] = b3.vals[u] BY <2>1, <1>22
  <2>4. QED BY <2>2, <2>3, <1>20
<1>32. b5.vals[v] = {}
  <2>1. v \in DOMAIN b3.vals /\ v \in DOMAIN b4.vals BY <1>21, <1>22
  <2>2. b4.vals[v] = b3.vals[v] BY <2>1, <1>22
  <2>3. b5.vals[v] = b4.vals[v] BY <2>1, <1>23
  <2>4. QED BY <2>2, <2>3, <1>21
<1>33. {t, u, v} \subseteq DOMAIN b6.vals /\ b6.vals[t] = {c} /\ b6.vals[u] = {d} /\ b6.vals[v] = {e}
  <2>1. t \in DOMAIN b4.vals /\ t \in DOMAIN b5.vals /\ t \in DOMAIN b6.vals BY <1>22, <1>23, <1>24
  <2>2. u \in DOMAIN b5.vals /\ u \in DOMAIN b6.vals /\ v \in DOMAIN b6.vals BY <1>23, <1>24
  <2>3. b5.vals[t] = {c} BY <2>1, <1>22, <1>23
  <2>4. b6.vals[t] = {c} BY <2>1, <2>3, <1>24
  <2>5. b6.vals[u] = {d} BY <2>2, <1>23, <1>24
  <2>6. QED BY <2>1, <2>2, <2>4, <2>5, <1>24
<1>34. b3.mark = "none" /\ b4.mark = "none" /\ b5.mark = "none"
  BY <1>19, <1>20, <1>21, <1>22, <1>23 DEF Blank, Rest
<1>35. Mild(r, b3, no) /\ Mild(r, b4, no) /\ Mild(r, b5, no) BY <1>34, MildWays
<1>36. Good(m, r, x, Reset(t), b1) /\ Good(m, r, b1, Reset(u), b2) /\ Good(m, r, b2, Reset(v), b3)
  BY <1>2, <1>4, <1>6, GoodReset
<1>37. Good(m, r, b3, Get(t, c, via, no), b4) BY <1>8, <1>28, <1>30, <1>35, GoodAsk
<1>38. Good(m, r, b4, Get(u, d, via, no), b5) BY <1>10, <1>29, <1>31, <1>35, GoodAsk
<1>39. Good(m, r, b5, Get(v, e, via, no), b6) BY <1>12, <1>29, <1>32, <1>35, GoodAsk
<1>40. Good(m, r, b6, Show({c}, t), b7) BY <1>14, <1>33, GoodShown
<1>41. Good(m, r, b7, Show({d}, u), b8) BY <1>16, <1>25, <1>33, GoodShown
<1>42. Good(m, r, b8, Show({e}, v), b9) BY <1>18, <1>25, <1>26, <1>33, GoodShown
<1>43. Entails(m, b9, Plus(x, {{c}, {d}, {e}}, {}, {}))
  <2>1. \E b : b = Plus(x, {{c}, {d}, {e}}, {}, {}) OBVIOUS
  <2>2. PICK b : b = Plus(x, {{c}, {d}, {e}}, {}, {}) BY <2>1
  <2>3. b.vals = x.vals /\ b.claims = x.claims \union {{c}, {d}, {e}} /\ Rest(b, x) BY ONLY <2>2, ShownIs
  <2>4. Rest(b9, b)
    BY <2>3, <1>19, <1>20, <1>21, <1>22, <1>23, <1>24, <1>25, <1>26, <1>27 DEF Rest
  <2>5. b6.claims = x.claims BY <1>19, <1>20, <1>21, <1>22, <1>23, <1>24
  <2>6. b9.claims = b.claims
    <3>1. x.claims \union {{c}, {d}, {e}} = ((x.claims \union {{c}}) \union {{d}}) \union {{e}} OBVIOUS
    <3>2. QED BY <2>3, <2>5, <3>1, <1>25, <1>26, <1>27
  <2>7. DOMAIN b.vals = {} BY <2>3 DEF Blank
  <2>8. Entails(m, b9, b) BY <2>4, <2>6, <2>7, ForgetAll DEF Rest
  <2>9. QED BY <2>2, <2>8
<1>44. Good(m, r, x, Reset(t) \o Reset(u) \o Reset(v), b3) BY ONLY <1>36, GoodThen
<1>45. Good(m, r, x, Reset(t) \o Reset(u) \o Reset(v) \o Get(t, c, via, no), b4) BY ONLY <1>44, <1>37, GoodThen
<1>46. Good(m, r, x, Reset(t) \o Reset(u) \o Reset(v) \o Get(t, c, via, no) \o Get(u, d, via, no), b5)
  BY ONLY <1>45, <1>38, GoodThen
<1>47. Good(m, r, x, Reset(t) \o Reset(u) \o Reset(v) \o Get(t, c, via, no) \o Get(u, d, via, no)
                       \o Get(v, e, via, no), b6)
  BY ONLY <1>46, <1>39, GoodThen
<1>48. Good(m, r, x, Reset(t) \o Reset(u) \o Reset(v) \o Get(t, c, via, no) \o Get(u, d, via, no)
                       \o Get(v, e, via, no) \o Show({c}, t), b7)
  BY ONLY <1>47, <1>40, GoodThen
<1>49. Good(m, r, x, Reset(t) \o Reset(u) \o Reset(v) \o Get(t, c, via, no) \o Get(u, d, via, no)
                       \o Get(v, e, via, no) \o Show({c}, t) \o Show({d}, u), b8)
  BY ONLY <1>48, <1>41, GoodThen
<1>50. Good(m, r, x, Reset(t) \o Reset(u) \o Reset(v) \o Get(t, c, via, no) \o Get(u, d, via, no)
                       \o Get(v, e, via, no) \o Show({c}, t) \o Show({d}, u) \o Show({e}, v), b9)
  BY ONLY <1>49, <1>42, GoodThen
<1>51. QED BY <1>43, <1>50, EntailsSame, GoodWeaker

-----------------------------------------------------------------------------
\* A step of a good plan.

\* The functions that wait for the innermost one.
Waiting(m, G, B) ==
  /\ IsSeq(callers)
  /\ \A i \in 1..Len(callers) : Runs(m, G, B[i], B[i - 1], callers[i], B[i])
  /\ Entails(m, B[Len(callers)], Goal(platform, api))

\* The step at hand keeps a rule, and the rest of the plan is good behind it.
Ready(m, G, B, c, s, d) ==
  /\ m = mode /\ s = step
  /\ Sound(m, G) /\ Fits(m, c) /\ Rule(m, G, B[0], c, s, d)
  /\ Runs(m, G, B[0], d, Tail(ahead), B[0])
  /\ Waiting(m, G, B)

\* A plan that is good has such a step.
LEMMA AtStep ==
  ASSUME PlanInv, status = "running", ahead # << >>
  PROVE  \E m, G, B, c, s, d : Ready(m, G, B, c, s, d)
<1>1. PICK G, B : Sound(mode, G) /\ Stacked(mode, G, B) BY DEF PlanInv
<1>2. PICK a : Fits(mode, a) /\ Runs(mode, G, B[0], a, ahead, B[0]) BY <1>1 DEF Stacked
<1>3. PICK c, d : /\ Entails(mode, a, c) /\ <<B[0], c, Head(ahead), d>> \in G
                  /\ Runs(mode, G, B[0], d, Tail(ahead), B[0])
  BY <1>2, RunsFirst
<1>4. Fits(mode, c) BY <1>2, <1>3, FitsWeaker
<1>5. Rule(mode, G, B[0], c, step, d) BY <1>1, <1>3 DEF Sound, step
<1>6. Waiting(mode, G, B) BY <1>1 DEF Stacked, Waiting
<1>7. QED BY <1>1, <1>3, <1>4, <1>5, <1>6 DEF Ready

\* A step that fits the facts x, and whose own plan leads on from there.
LEMMA GoesOn ==
  ASSUME NEW m, NEW G, NEW B, NEW c, NEW s, NEW d, NEW x, NEW plan, Ready(m, G, B, c, s, d),
         Fits(m, x)', Runs(m, G, B[0], x, plan, d), GoOn(plan)
  PROVE  PlanInv'
<1>1. UNCHANGED <<platform, api, callers>> /\ ahead' = plan \o Tail(ahead) BY DEF GoOn, call
<1>2. m = mode /\ m = mode' BY <1>1 DEF mode, Ready
<1>3. Runs(m, G, B[0], x, ahead', B[0])
  <2>1. Runs(m, G, B[0], d, Tail(ahead), B[0]) BY DEF Ready
  <2>2. Runs(m, G, B[0], x, plan \o Tail(ahead), B[0]) BY <2>1, RunsThen
  <2>3. QED BY <1>1, <2>2
<1>4. Sound(m, G) /\ Waiting(m, G, B) BY DEF Ready
<1>5. Stacked(m, G, B)' BY <1>1, <1>3, <1>4 DEF Stacked, Waiting
<1>6. Sound(mode', G) /\ Stacked(m, G, B)' BY <1>2, <1>4, <1>5
<1>7. (Sound(mode, G) /\ Stacked(mode, G, B))' BY <1>2, <1>4, <1>5
<1>8. QED BY <1>7 DEF PlanInv

\* A step with no plan of its own.
LEMMA GoesBy ==
  ASSUME NEW m, NEW G, NEW B, NEW c, NEW s, NEW d, NEW x, Ready(m, G, B, c, s, d),
         Fits(m, x)', Entails(m, x, d), GoOn(<< >>)
  PROVE  PlanInv'
<1>1. Runs(m, G, B[0], x, << >>, d) BY RunsNone
<1>2. QED BY <1>1, GoesOn

\* A refused step.
LEMMA GoesWrong ==
  ASSUME NEW m, NEW G, NEW B, NEW c, NEW s, NEW d, NEW plan, Ready(m, G, B, c, s, d), refused' = TRUE,
         UNCHANGED <<val, shown, open, want, accepted, inforce, complained>>,
         Runs(m, G, B[0], Refused(c), plan, d), GoOn(plan)
  PROVE  PlanInv'
<1>1. UNCHANGED <<platform, api, asked>> BY DEF GoOn, call
<1>2. Fits(m, c) BY DEF Ready
<1>3. Fits(m, Refused(c))' BY <1>1, <1>2, FitsRefused
<1>4. QED BY <1>3, GoesOn

\* A device is read, or refuses.
LEMMA StepReads ==
  ASSUME PlanInv, Read
  PROVE  PlanInv'
<1>1. status = "running" /\ ahead # << >> /\ step.do = "get" BY DEF Read, At
<1>2. PICK m, G, B, c, s, d : Ready(m, G, B, c, s, d) BY <1>1, AtStep
<1>3. s = step /\ Fits(m, c) /\ Rule(m, G, B[0], c, s, d) BY <1>2 DEF Ready
<1>4. /\ Runs(m, G, B[0], WithVal(c, s.v, {s.src}), s.ok, d)
      /\ Runs(m, G, B[0], Refused(c), s.no, d)
      /\ Runs(m, G, B[0], Refused(c), s.off, d)
  BY <1>1, <1>3 DEF Rule
<1>5. UNCHANGED <<shown, rc, open, want, accepted, inforce>> BY DEF Read, files, caps
<1>6. CASE Set(s.v, {s.src}) /\ GoOn(s.ok) /\ UNCHANGED trouble
  <2>1. UNCHANGED <<platform, api, asked, refused, complained>> BY <1>6 DEF GoOn, call, trouble
  <2>2. Fits(m, WithVal(c, s.v, {s.src}))' BY <1>3, <1>5, <1>6, <2>1, FitsVal
  <2>3. QED BY <1>2, <1>4, <1>6, <2>2, GoesOn
<1>7. CASE Fails(s.src) /\ GoOn(IF Reachable THEN s.no ELSE s.off) /\ UNCHANGED val
  <2>1. refused' = TRUE /\ UNCHANGED complained BY <1>7 DEF Fails, Refuse, Unreachable
  <2>2. CASE Reachable BY <1>2, <1>4, <1>5, <1>7, <2>1, <2>2, GoesWrong
  <2>3. CASE ~Reachable BY <1>2, <1>4, <1>5, <1>7, <2>1, <2>3, GoesWrong
  <2>4. QED BY <2>2, <2>3
<1>8. QED BY <1>3, <1>6, <1>7 DEF Read

\* A variable is set, or one is added to another.
LEMMA StepAssigns ==
  ASSUME PlanInv, Assign
  PROVE  PlanInv'
<1>1. status = "running" /\ ahead # << >> /\ step.do \in {"let", "add"} BY DEF Assign, At
<1>2. PICK m, G, B, c, s, d : Ready(m, G, B, c, s, d) BY <1>1, AtStep
<1>3. s = step /\ Fits(m, c) /\ Rule(m, G, B[0], c, s, d) BY <1>2 DEF Ready
<1>4. /\ GoOn(<< >>)
      /\ UNCHANGED <<platform, api, shown, open, want, asked, accepted, inforce, refused, complained>>
  BY DEF Assign, GoOn, call, files, caps, trouble
<1>5. CASE s.do = "let" /\ Set(s.v, s.val)
  <2>1. Entails(m, WithVal(c, s.v, s.val), d) BY <1>3, <1>5 DEF Rule
  <2>2. Fits(m, WithVal(c, s.v, s.val))' BY <1>3, <1>4, <1>5, FitsVal
  <2>3. QED BY <1>2, <1>4, <2>1, <2>2, GoesBy
<1>6. CASE s.do = "add" /\ Set(s.v, ValueOf(s.v) \union ValueOf(s.w)
                                      \union IF ValueOf(s.v) \intersect ValueOf(s.w) = {} THEN {} ELSE {<<"twice", 0>>})
  <2> DEFINE x == ValueOf(s.v) \union ValueOf(s.w)
                    \union IF ValueOf(s.v) \intersect ValueOf(s.w) = {} THEN {} ELSE {<<"twice", 0>>}
             content == c.vals[s.v] \union c.vals[s.w]
  <2>1. /\ {s.v, s.w} \subseteq DOMAIN c.vals /\ c.vals[s.v] \intersect c.vals[s.w] = {}
        /\ Entails(m, WithVal(c, s.v, content), d)
    BY <1>3, <1>6 DEF Rule
  <2>2. "old" \notin m.traits => x \subseteq content
    <3>1. "old" \notin m.traits => ValueOf(s.v) \subseteq c.vals[s.v] /\ ValueOf(s.w) \subseteq c.vals[s.w]
      BY <1>3, <2>1 DEF Fits
    <3>2. QED BY <2>1, <3>1
  <2>3. ~refused /\ ~complained /\ "never" \notin m.traits => x = content
    <3>1. ~refused /\ ~complained /\ "never" \notin m.traits =>
            ValueOf(s.v) = c.vals[s.v] /\ ValueOf(s.w) = c.vals[s.w]
      BY <1>3, <2>1 DEF Fits
    <3>2. QED BY <2>1, <3>1
  <2>4. \E y : y = x OBVIOUS
  <2>5. PICK y : y = x BY <2>4
  <2>6. Set(s.v, y) BY <1>6, <2>5
  <2> HIDE DEF x, content
  <2>7. Fits(m, WithVal(c, s.v, content))' BY <1>3, <1>4, <2>2, <2>3, <2>5, <2>6, FitsVal DEF content
  <2>8. QED BY <1>2, <1>4, <2>1, <2>7, GoesBy
<1>7. QED BY <1>3, <1>5, <1>6 DEF Assign, At

\* A value is given out: the claim is right.
LEMMA StepGivesOut ==
  ASSUME PlanInv, GiveOut
  PROVE  PlanInv'
<1>1. status = "running" /\ ahead # << >> /\ step.do = "show" BY DEF GiveOut, At
<1>2. PICK m, G, B, c, s, d : Ready(m, G, B, c, s, d) BY <1>1, AtStep
<1>3. s = step /\ Fits(m, c) /\ Rule(m, G, B[0], c, s, d) BY <1>2 DEF Ready
<1>4. /\ GoOn(<< >>)
      /\ UNCHANGED <<platform, api, val, open, want, asked, accepted, inforce, refused, complained>>
      /\ shown' = shown \union {[claim |-> s.claim, value |-> ValueOf(s.v)]}
  BY <1>3 DEF GiveOut, GoOn, call, files, caps, trouble
<1>5. RightClaim(m, c, s) /\ Entails(m, Plus(c, {s.claim}, {}, {}), d) BY <1>1, <1>3 DEF Rule
<1>6. Fits(m, Plus(c, {s.claim}, {}, {}))' BY <1>3, <1>4, <1>5, FitsShown
<1>7. QED BY <1>2, <1>4, <1>5, <1>6, GoesBy

\* Either of two ways is taken.
LEMMA StepChooses ==
  ASSUME PlanInv, Choose
  PROVE  PlanInv'
<1>1. status = "running" /\ ahead # << >> /\ step.do = "fork" BY DEF Choose, At
<1>2. PICK m, G, B, c, s, d : Ready(m, G, B, c, s, d) BY <1>1, AtStep
<1>3. s = step /\ Fits(m, c) /\ Rule(m, G, B[0], c, s, d) BY <1>2 DEF Ready
<1>4. UNCHANGED <<val, shown, open, want, accepted, inforce>> BY DEF Choose, files, caps
<1>5. ASSUME NEW p, GoOn(p), UNCHANGED trouble, Runs(m, G, B[0], c, p, d) PROVE PlanInv'
  <2>1. UNCHANGED <<platform, api, asked, refused, complained>> BY <1>5 DEF GoOn, call, trouble
  <2>2. Fits(m, c)' BY <1>3, <1>4, <2>1, FitsSame
  <2>3. QED BY <1>2, <1>5, <2>2, GoesOn
<1>6. CASE UNCHANGED trouble /\ (GoOn(s.one) \/ GoOn(s.other))
  <2>1. Runs(m, G, B[0], c, s.one, d) /\ Runs(m, G, B[0], c, s.other, d) BY <1>1, <1>3 DEF Rule
  <2>2. QED BY <1>5, <1>6, <2>1
<1>7. QED BY <1>3, <1>6 DEF Choose, At

\* A library or file is brought up.
LEMMA StepBringsUp ==
  ASSUME PlanInv, BringUp
  PROVE  PlanInv'
<1>1. status = "running" /\ ahead # << >> /\ step.do \in {"open", "open file"} BY DEF BringUp, At
<1>2. PICK m, G, B, c, s, d : Ready(m, G, B, c, s, d) BY <1>1, AtStep
<1>3. s = step /\ Fits(m, c) /\ Rule(m, G, B[0], c, s, d) BY <1>2 DEF Ready
<1>4. UNCHANGED <<val, shown, want, accepted, inforce>> BY DEF BringUp, caps
<1>5. Runs(m, G, B[0], Opened(c, s.r), s.ok, d) /\ Runs(m, G, B[0], Refused(c), s.no, d)
  BY <1>1, <1>3 DEF Rule
<1>6. ASSUME NEW p, GoOn(p), UNCHANGED trouble, open' = open \union {s.r}, Runs(m, G, B[0], Opened(c, s.r), p, d)
      PROVE  PlanInv'
  <2>1. UNCHANGED <<platform, api, asked, refused, complained>> BY <1>6 DEF GoOn, call, trouble
  <2>2. Fits(m, Opened(c, s.r))' BY <1>3, <1>4, <1>6, <2>1, FitsOpened
  <2>3. QED BY <1>2, <1>6, <2>2, GoesOn
<1>7. CASE s.do = "open" /\ open' = open \union {s.r} /\ GoOn(s.ok) /\ UNCHANGED trouble BY <1>5, <1>6, <1>7
<1>8. CASE /\ s.do = "open file" /\ open' = open \union {s.r}
           /\ GoOn(IF zero = nobody THEN s.zero ELSE s.ok) /\ UNCHANGED trouble
  <2>1. Runs(m, G, B[0], Opened(c, s.r), s.zero, d) BY <1>3, <1>8 DEF Rule
  <2>2. CASE zero = nobody BY <1>6, <1>8, <2>1, <2>2
  <2>3. CASE zero # nobody BY <1>5, <1>6, <1>8, <2>3
  <2>4. QED BY <2>2, <2>3
<1>9. CASE Refuse /\ GoOn(s.no) /\ UNCHANGED files
  <2>1. refused' = TRUE /\ UNCHANGED <<open, complained>> BY <1>9 DEF Refuse, files
  <2>2. QED BY <1>2, <1>4, <1>5, <1>9, <2>1, GoesWrong
<1>10. QED BY <1>3, <1>7, <1>8, <1>9 DEF BringUp, At

\* Files are closed, or the library is shut down.
LEMMA StepBringsDown ==
  ASSUME PlanInv, BringDown
  PROVE  PlanInv'
<1>1. status = "running" /\ ahead # << >> /\ step.do \in {"close", "shutdown"} BY DEF BringDown, At
<1>2. PICK m, G, B, c, s, d : Ready(m, G, B, c, s, d) BY <1>1, AtStep
<1>3. s = step /\ Fits(m, c) /\ Rule(m, G, B[0], c, s, d) BY <1>2 DEF Ready
<1>4. UNCHANGED <<val, shown, want, accepted, inforce>> BY DEF BringDown, caps
<1>5. ASSUME NEW rs, GoOn(<< >>), UNCHANGED trouble, open' = open \ rs, Entails(m, Closed(c, rs), d)
      PROVE  PlanInv'
  <2>1. UNCHANGED <<platform, api, asked, refused, complained>> BY <1>5 DEF GoOn, call, trouble
  <2>2. Fits(m, Closed(c, rs))' BY <1>3, <1>4, <1>5, <2>1, FitsClosed
  <2>3. QED BY <1>2, <1>5, <2>2, GoesBy
<1>6. CASE s.do = "close" /\ open' = open \ s.rs /\ GoOn(<< >>) /\ UNCHANGED trouble
  <2>1. Entails(m, Closed(c, s.rs), d) BY <1>3, <1>6 DEF Rule
  <2>2. QED BY <1>5, <1>6, <2>1
<1>7. CASE s.do = "shutdown" /\ open' = open \ {s.r} /\ GoOn(<< >>) /\ UNCHANGED trouble
  <2>1. Entails(m, Closed(c, {s.r}), d) BY <1>3, <1>7 DEF Rule
  <2>2. QED BY <1>5, <1>7, <2>1
<1>8. CASE s.do = "shutdown" /\ UNCHANGED files /\ GoOn(s.no) /\ (IF s.r \in open THEN Refuse ELSE Unreachable)
  <2>1. Runs(m, G, B[0], Refused(c), s.no, d) BY <1>3, <1>8 DEF Rule
  <2>2. refused' = TRUE /\ UNCHANGED <<open, complained>> BY <1>8 DEF Refuse, Unreachable, files
  <2>3. QED BY <1>2, <1>4, <1>8, <2>1, <2>2, GoesWrong
<1>9. QED BY <1>3, <1>6, <1>7, <1>8 DEF BringDown, At

\* The devices are counted, or their number is one of junk.
LEMMA StepCounts ==
  ASSUME PlanInv, CountDevices
  PROVE  PlanInv'
<1>1. status = "running" /\ ahead # << >> /\ step.do = "count" BY DEF CountDevices, At
<1>2. PICK m, G, B, c, s, d : Ready(m, G, B, c, s, d) BY <1>1, AtStep
<1>3. s = step /\ Fits(m, c) /\ Rule(m, G, B[0], c, s, d) BY <1>2 DEF Ready
<1>4. UNCHANGED <<val, shown, open, want, accepted, inforce>> BY DEF CountDevices, files, caps
<1>5. /\ Runs(m, G, B[0], c, s.plans[NGPUS], d)
      /\ s.junk = {} => Runs(m, G, B[0], Refused(c), s.no, d)
      /\ \A n \in s.junk : Runs(m, G, B[0], Refused(c), s.no \o s.plans[n], d)
  BY <1>1, <1>3 DEF Rule
<1>6. CASE GoOn(s.plans[NGPUS]) /\ UNCHANGED trouble
  <2>1. UNCHANGED <<platform, api, asked, refused, complained>> BY <1>6 DEF GoOn, call, trouble
  <2>2. Fits(m, c)' BY <1>3, <1>4, <2>1, FitsSame
  <2>3. QED BY <1>2, <1>5, <1>6, <2>2, GoesOn
<1>7. CASE /\ IF Reachable THEN Refuse ELSE Unreachable
           /\ IF s.junk = {} THEN GoOn(s.no) ELSE \E n \in s.junk : GoOn(s.no \o s.plans[n])
  <2>1. refused' = TRUE /\ UNCHANGED complained BY <1>7 DEF Refuse, Unreachable
  <2>2. CASE s.junk = {}
    <3>1. GoOn(s.no) BY <1>7, <2>2
    <3>2. Runs(m, G, B[0], Refused(c), s.no, d) BY <1>5, <2>2
    <3>3. QED BY <1>2, <1>4, <2>1, <3>1, <3>2, GoesWrong
  <2>3. CASE s.junk # {}
    <3>1. PICK n \in s.junk : GoOn(s.no \o s.plans[n]) BY <1>7, <2>3
    <3>2. Runs(m, G, B[0], Refused(c), s.no \o s.plans[n], d) BY <1>5
    <3>3. QED BY <1>2, <1>4, <2>1, <3>1, <3>2, GoesWrong
  <2>4. QED BY <2>2, <2>3
<1>8. QED BY <1>3, <1>6, <1>7 DEF CountDevices

\* The lesser of two numbers.
LEMMA LesserIs ==
  ASSUME NEW x \in Nat, NEW y \in Nat
  PROVE  /\ Lesser(x, y) \in Nat /\ Lesser(x, y) <= x /\ Lesser(x, y) <= y
         /\ Lesser(Lesser(x, y), y) = Lesser(x, y)
  BY DEF Lesser

\* The numbers of caps.
LEMMA NumbersAre ==
  ASSUME TypeOK
  PROVE  /\ CEILING \in Nat /\ asked \in Nat /\ want \in Nat /\ share \in Nat /\ share <= asked
         /\ <<platform, api>> \in Halves => share = asked \div 2
<1>1. CEILING \in Nat /\ asked \in Nat /\ want \in Nat BY RequestsAssumption DEF TypeOK
<1>2. QED BY <1>1 DEF share

\* The request is divided or lowered.
LEMMA StepScales ==
  ASSUME TypeOK, PlanInv, Scale
  PROVE  PlanInv'
<1>1. status = "running" /\ ahead # << >> /\ step.do \in {"divide", "lower"} BY DEF Scale, At
<1>2. PICK m, G, B, c, s, d : Ready(m, G, B, c, s, d) BY <1>1, AtStep
<1>3. s = step /\ Fits(m, c) /\ Rule(m, G, B[0], c, s, d) BY <1>2 DEF Ready
<1>4. GoOn(<< >>) /\ UNCHANGED <<platform, api, asked, val, shown, open, accepted, inforce>>
  BY DEF Scale, GoOn, call, files
<1>5. share' = share BY <1>4 DEF share
<1>6. /\ CEILING \in Nat /\ asked \in Nat /\ want \in Nat /\ share \in Nat
      /\ <<platform, api>> \in Halves => share = asked \div 2
  BY NumbersAre
<1>7. CASE s.do = "divide" /\ want' = want \div s.by /\ UNCHANGED trouble
  <2>1. s.by = 2 /\ "halves" \in m.traits /\ c.wanted = "asked" /\ Entails(m, Shared(c), d)
    BY <1>3, <1>7 DEF Rule
  <2>2. <<platform, api>> \in Halves BY <1>2, <2>1 DEF Ready, mode, Mode, Traits
  <2> DEFINE b == Shared(c)
  <2>3. /\ b.vals = c.vals /\ b.claims = c.claims /\ b.opened = c.opened /\ b.mark = c.mark
        /\ b.taken = c.taken /\ b.bound = c.bound /\ b.wanted = "share"
    BY DEF Shared, Facts
  <2> HIDE DEF b
  <2>4. ASSUME Heeded(c) PROVE Heeded(b)'
    <3>1. want = asked BY <2>1, <2>4 DEF Heeded, Wanted
    <3>2. want' = share BY <1>6, <1>7, <2>1, <2>2, <3>1
    <3>3. want' <= share BY <1>6, <3>2
    <3>4. Wanted(b)' BY <1>5, <2>3, <3>2, <3>3 DEF Wanted
    <3>5. QED BY <1>4, <1>5, <2>3, <2>4, <3>4 DEF Heeded
  <2>5. UNCHANGED <<refused, complained>> BY <1>7 DEF trouble
  <2>6. Fits(m, b)' BY <1>3, <1>4, <2>3, <2>4, <2>5, FitsHeeded
  <2>7. QED BY <1>2, <1>4, <2>1, <2>6, GoesBy DEF b
<1>8. CASE s.do = "lower" /\ want' = Lesser(want, CEILING) /\ UNCHANGED trouble
  <2>1. c.wanted = "share" /\ Entails(m, c, d) BY <1>3, <1>8 DEF Rule
  <2>2. ASSUME Heeded(c) PROVE Heeded(c)'
    <3>1. want <= share /\ Lesser(want, CEILING) = Lesser(share, CEILING) BY <2>1, <2>2 DEF Heeded, Wanted
    <3>2. want' \in Nat /\ want' <= want /\ Lesser(want', CEILING) = want' BY <1>6, <1>8, LesserIs
    <3>3. want' <= share BY <1>6, <3>1, <3>2
    <3>4. Lesser(want', CEILING) = Lesser(share, CEILING) BY <1>8, <3>1, <3>2
    <3>5. Wanted(c)' BY <1>5, <2>1, <3>3, <3>4 DEF Wanted
    <3>6. QED BY <1>4, <1>5, <2>2, <3>5 DEF Heeded
  <2>3. UNCHANGED <<refused, complained>> BY <1>8 DEF trouble
  <2>4. Fits(m, c)' BY <1>3, <1>4, <2>2, <2>3, FitsHeeded
  <2>5. QED BY <1>2, <1>4, <2>1, <2>4, GoesBy
<1>9. CASE s.do = "lower" /\ Fails(s.dev) /\ UNCHANGED want
  <2>1. Entails(m, Refused(c), d) BY <1>3, <1>9 DEF Rule
  <2>2. Runs(m, G, B[0], Refused(c), << >>, d) BY <2>1, RunsNone
  <2>3. refused' = TRUE /\ UNCHANGED complained BY <1>9 DEF Fails, Refuse, Unreachable
  <2>4. QED BY <1>2, <1>4, <1>9, <2>2, <2>3, GoesWrong
<1>10. QED BY <1>3, <1>7, <1>8, <1>9 DEF Scale, At

\* A device takes its cap, or refuses it.
LEMMA StepCaps ==
  ASSUME TypeOK, PlanInv, SetCap
  PROVE  PlanInv'
<1>1. status = "running" /\ ahead # << >> /\ step.do = "cap" BY DEF SetCap, At
<1>2. PICK m, G, B, c, s, d : Ready(m, G, B, c, s, d) BY <1>1, AtStep
<1>3. s = step /\ Fits(m, c) /\ Rule(m, G, B[0], c, s, d) BY <1>2 DEF Ready
<1>4. /\ c.wanted = "share" /\ (s.dev \in m.devs \/ c.mark = "complained")
      /\ Entails(m, Plus(c, {}, {s.dev}, {}), d)
      /\ Runs(m, G, B[0], Refused(c), s.no, d)
  BY <1>1, <1>3 DEF Rule
<1>5. UNCHANGED <<val, shown, open, want>> BY DEF SetCap, files
<1>6. CASE /\ accepted' = [accepted EXCEPT ![s.dev] = Lesser(want, CEILING)]
           /\ inforce' = IF Late THEN inforce ELSE [inforce EXCEPT ![s.dev] = Lesser(want, CEILING)]
           /\ GoOn(<< >>) /\ UNCHANGED trouble
  <2>1. UNCHANGED <<platform, api, asked, refused, complained>> BY <1>6 DEF GoOn, call, trouble
  <2>2. share' = share BY <2>1 DEF share
  <2> DEFINE b == Plus(c, {}, {s.dev}, {})
  <2>3. /\ b.vals = c.vals /\ b.claims = c.claims /\ b.opened = c.opened /\ b.mark = c.mark
        /\ b.taken = c.taken \union {s.dev} /\ b.bound = c.bound /\ b.wanted = c.wanted
    BY DEF Plus, Facts
  <2> HIDE DEF b
  <2>4. ASSUME ~complained, Heeded(c) PROVE Heeded(b)'
    <3>1. s.dev \in DevicesOf(platform) BY <1>2, <1>3, <1>4, <2>4 DEF Fits, Ready, mode, Mode
    <3> DEFINE D == DevicesOf(platform)
               x == Lesser(want, CEILING)
    <3>2. accepted \in [D -> 0..CEILING] /\ inforce \in [D -> 0..CEILING] BY DEF TypeOK
    <3>3. /\ CEILING \in Nat /\ want \in Nat /\ share \in Nat BY NumbersAre
    <3>4. x = Lesser(share, CEILING) /\ want <= share BY <1>4, <2>4 DEF Heeded, Wanted
    <3>5. x <= share BY <3>3, <3>4, LesserIs
    <3>6. /\ c.taken \subseteq D /\ c.bound \subseteq D
          /\ \A e \in c.taken : accepted[e] = Lesser(share, CEILING)
          /\ \A e \in c.bound : accepted[e] <= share /\ inforce[e] <= share
      BY <2>4 DEF Heeded
    <3>7. Wanted(b)' BY <1>5, <2>1, <2>2, <2>3, <2>4 DEF Heeded, Wanted
    <3>8. D' = D BY <2>1
    <3> HIDE DEF D, x
    <3>9. \A e \in D : accepted'[e] = IF e = s.dev THEN x ELSE accepted[e] BY <1>6, <3>1, <3>2 DEF x
    <3>10. \A e \in D : inforce'[e] \in {inforce[e], x} BY <1>6, <3>1, <3>2 DEF x
    <3>11. \A e \in b.taken : accepted'[e] = Lesser(share, CEILING) BY <2>3, <3>1, <3>4, <3>6, <3>9 DEF D
    <3>12. \A e \in b.bound : accepted'[e] <= share /\ inforce'[e] <= share
      BY <2>3, <3>5, <3>6, <3>9, <3>10
    <3>13. b.taken \union b.bound \subseteq D' BY <2>3, <3>1, <3>6, <3>8 DEF D
    <3>14. QED BY <2>2, <3>7, <3>11, <3>12, <3>13 DEF Heeded, D
  <2>5. Fits(m, b)' BY <1>3, <1>5, <2>1, <2>3, <2>4, FitsHeeded
  <2>6. QED BY <1>2, <1>4, <1>6, <2>5, GoesBy DEF b
<1>7. CASE /\ IF RefusesExcess /\ want > CEILING THEN Unreachable ELSE Fails(s.dev)
           /\ GoOn(s.no) /\ UNCHANGED <<accepted, inforce>>
  <2>1. refused' = TRUE /\ UNCHANGED complained BY <1>7 DEF Fails, Refuse, Unreachable
  <2>2. QED BY <1>2, <1>4, <1>5, <1>7, <2>1, GoesWrong
<1>8. QED BY <1>3, <1>6, <1>7 DEF SetCap

\* What is in force is read back: when it is the cap, the device is bound by it.
LEMMA StepReadsBack ==
  ASSUME TypeOK, PlanInv, ReadBack
  PROVE  PlanInv'
<1>1. status = "running" /\ ahead # << >> /\ step.do = "verify" BY DEF ReadBack, At
<1>2. PICK m, G, B, c, s, d : Ready(m, G, B, c, s, d) BY <1>1, AtStep
<1>3. s = step /\ Fits(m, c) /\ Rule(m, G, B[0], c, s, d) BY <1>2 DEF Ready
<1>4. /\ c.wanted = "share" /\ s.dev \in c.taken
      /\ Entails(m, Plus(c, {}, {}, {s.dev}), d)
      /\ Runs(m, G, B[0], c, s.differs, d)
      /\ Runs(m, G, B[0], Refused(c), s.no, d)
  BY <1>1, <1>3 DEF Rule
<1>5. UNCHANGED <<val, shown, open, want, accepted, inforce>> BY DEF ReadBack, files, caps
<1>6. CASE GoOn(IF inforce[s.dev] = want THEN << >> ELSE s.differs) /\ UNCHANGED trouble
  <2>1. UNCHANGED <<platform, api, asked, refused, complained>> BY <1>6 DEF GoOn, call, trouble
  <2>2. CASE inforce[s.dev] = want
    <3> DEFINE b == Plus(c, {}, {}, {s.dev})
    <3>1. /\ b.vals = c.vals /\ b.claims = c.claims /\ b.opened = c.opened /\ b.mark = c.mark
          /\ b.taken = c.taken /\ b.bound = c.bound \union {s.dev} /\ b.wanted = c.wanted
      BY DEF Plus, Facts
    <3> HIDE DEF b
    <3>2. ASSUME Heeded(c) PROVE Heeded(b)'
      <4>1. share' = share BY <2>1 DEF share
      <4>2. want <= share BY <1>4, <3>2 DEF Heeded, Wanted
      <4>3. accepted[s.dev] = Lesser(share, CEILING) BY <1>4, <3>2 DEF Heeded
      <4>4. CEILING \in Nat /\ share \in Nat BY NumbersAre
      <4>5. Lesser(share, CEILING) <= share BY <4>4, LesserIs
      <4>6. \A e \in b.bound : accepted[e] <= share /\ inforce[e] <= share
        BY <2>2, <3>1, <3>2, <4>2, <4>3, <4>5 DEF Heeded
      <4>7. Wanted(b)' BY <1>5, <2>1, <3>1, <3>2, <4>1 DEF Heeded, Wanted
      <4>8. b.taken \union b.bound \subseteq DevicesOf(platform) BY <1>4, <3>1, <3>2 DEF Heeded
      <4>9. \A e \in b.taken : accepted[e] = Lesser(share, CEILING) BY <3>1, <3>2 DEF Heeded
      <4>10. QED BY <1>5, <2>1, <4>1, <4>6, <4>7, <4>8, <4>9 DEF Heeded
    <3>3. Fits(m, b)' BY <1>3, <1>5, <2>1, <3>1, <3>2, FitsHeeded
    <3>4. QED BY <1>2, <1>4, <1>6, <2>2, <3>3, GoesBy DEF b
  <2>3. CASE inforce[s.dev] # want
    <3>1. Fits(m, c)' BY <1>3, <1>5, <2>1, FitsSame
    <3>2. GoOn(s.differs) BY <1>6, <2>3
    <3>3. QED BY <1>2, <1>4, <3>1, <3>2, GoesOn
  <2>4. QED BY <2>2, <2>3
<1>7. CASE Fails(s.dev) /\ GoOn(s.no)
  <2>1. refused' = TRUE /\ UNCHANGED complained BY <1>7 DEF Fails, Refuse, Unreachable
  <2>2. QED BY <1>2, <1>4, <1>5, <1>7, <2>1, GoesWrong
<1>8. QED BY <1>3, <1>6, <1>7 DEF ReadBack

\* An error is printed.
LEMMA StepSays ==
  ASSUME PlanInv, Say
  PROVE  PlanInv'
<1>1. status = "running" /\ ahead # << >> /\ step.do = "complain" BY DEF Say, At
<1>2. PICK m, G, B, c, s, d : Ready(m, G, B, c, s, d) BY <1>1, AtStep
<1>3. s = step /\ Fits(m, c) /\ Rule(m, G, B[0], c, s, d) BY <1>2 DEF Ready
<1>4. /\ GoOn(<< >>) /\ complained' = TRUE
      /\ UNCHANGED <<platform, api, asked, val, shown, open, want, accepted, inforce, refused>>
  BY DEF Say, GoOn, call, files, caps
<1>5. Entails(m, Complained(c), d) BY <1>1, <1>3 DEF Rule
<1>6. Fits(m, Complained(c))' BY <1>3, <1>4, FitsComplained
<1>7. QED BY <1>2, <1>4, <1>5, <1>6, GoesBy

\* A loop takes a turn, or ends.
LEMMA StepLoops ==
  ASSUME PlanInv, Loop
  PROVE  PlanInv'
<1>1. status = "running" /\ ahead # << >> /\ step.do = "each" BY DEF Loop, At
<1>2. PICK m, G, B, c, s, d : Ready(m, G, B, c, s, d) BY <1>1, AtStep
<1>3. s = step /\ Fits(m, c) /\ Rule(m, G, B[0], c, s, d) BY <1>2 DEF Ready
<1>4. GoOn(IF s.i <= s.last THEN s.bodies[s.i] \o LoopFrom(s.i + 1, s.last, s.bodies) ELSE << >>)
  BY <1>3 DEF Loop
<1>5. UNCHANGED <<platform, api, asked, val, shown, open, want, accepted, inforce, refused, complained>>
  BY <1>4 DEF Loop, GoOn, call, files, caps, trouble
<1>6. Fits(m, c)' BY <1>3, <1>5, FitsSame
<1>7. CASE s.i <= s.last
  <2>1. PICK e : /\ Runs(m, G, B[0], c, s.bodies[s.i], e)
                 /\ Runs(m, G, B[0], e, LoopFrom(s.i + 1, s.last, s.bodies), d)
    BY <1>1, <1>3, <1>7 DEF Rule
  <2>2. Runs(m, G, B[0], c, s.bodies[s.i] \o LoopFrom(s.i + 1, s.last, s.bodies), d) BY <2>1, RunsThen
  <2>3. GoOn(s.bodies[s.i] \o LoopFrom(s.i + 1, s.last, s.bodies)) BY <1>4, <1>7
  <2>4. QED BY <1>2, <1>6, <2>2, <2>3, GoesOn
<1>8. CASE ~(s.i <= s.last)
  <2>1. s.i \in Int /\ s.last \in Int BY <1>1, <1>3 DEF Rule
  <2>2. s.i > s.last BY <1>8, <2>1
  <2>3. Entails(m, c, d) BY <1>1, <1>3, <2>2 DEF Rule
  <2>4. GoOn(<< >>) BY <1>4, <1>8
  <2>5. QED BY <1>2, <1>6, <2>3, <2>4, GoesBy
<1>9. QED BY <1>7, <1>8

\* A function is entered: what is left of the caller waits.
LEMMA StepEnters ==
  ASSUME PlanInv, Enter
  PROVE  PlanInv'
<1>1. status = "running" /\ ahead # << >> /\ step.do = "call" BY DEF Enter, At
<1>2. PICK m, G, B, c, s, d : Ready(m, G, B, c, s, d) BY <1>1, AtStep
<1>3. /\ m = mode /\ s = step /\ Sound(m, G) /\ Fits(m, c) /\ Rule(m, G, B[0], c, s, d)
      /\ Runs(m, G, B[0], d, Tail(ahead), B[0])
      /\ IsSeq(callers)
      /\ \A i \in 1..Len(callers) : Runs(m, G, B[i], B[i - 1], callers[i], B[i])
      /\ Entails(m, B[Len(callers)], Goal(platform, api))
  BY <1>2 DEF Ready, Waiting
<1>4. PICK e : Entails(m, e, d) /\ Runs(m, G, e, c, s.plan, e) BY <1>1, <1>3 DEF Rule
<1>5. /\ ahead' = s.plan /\ callers' = <<Tail(ahead)>> \o callers
      /\ UNCHANGED <<platform, api, asked, val, shown, open, want, accepted, inforce, refused, complained>>
  BY <1>3 DEF Enter, call, files, caps, trouble
<1>6. Fits(m, c)' BY <1>3, <1>5, FitsSame
<1>7. m = mode' BY <1>3, <1>5 DEF mode
<1>8. /\ IsSeq(callers') /\ Len(callers') = 1 + Len(callers) /\ Len(callers) \in Nat
      /\ callers'[1] = Tail(ahead)
      /\ \A k \in 1..Len(callers) : callers'[1 + k] = callers[k]
  BY <1>3, <1>5, OneIs, CatIs, SeqIs
<1>9. \E C : C = [i \in 0..(1 + Len(callers)) |-> IF i = 0 THEN e ELSE B[i - 1]] OBVIOUS
<1>10. PICK C : C = [i \in 0..(1 + Len(callers)) |-> IF i = 0 THEN e ELSE B[i - 1]] BY <1>9
<1>11. C[0] = e /\ C[1] = B[0] /\ C[1 + Len(callers)] = B[Len(callers)] BY <1>8, <1>10
<1>12. ASSUME NEW i \in 1..(1 + Len(callers)) PROVE Runs(m, G, C[i], C[i - 1], callers'[i], C[i])
  <2>1. CASE i = 1
    <3>1. Entails(m, B[0], B[0]) BY EntailsSame
    <3>2. Runs(m, G, B[0], e, Tail(ahead), B[0]) BY <1>3, <1>4, <3>1, RunsWeaker
    <3>3. C[i] = B[0] /\ C[i - 1] = e /\ callers'[i] = Tail(ahead) BY <1>8, <1>11, <2>1
    <3>4. QED BY <3>2, <3>3
  <2>2. CASE i # 1
    <3>1. i - 1 \in 1..Len(callers) /\ 1 + (i - 1) = i BY <1>8, <2>2
    <3>2. C[i] = B[i - 1] /\ C[i - 1] = B[(i - 1) - 1] BY <1>8, <1>10, <2>2
    <3>3. callers'[1 + (i - 1)] = callers[i - 1] BY <1>8, <3>1
    <3>4. Runs(m, G, B[i - 1], B[(i - 1) - 1], callers[i - 1], B[i - 1]) BY <1>3, <3>1
    <3>5. QED BY <3>1, <3>2, <3>3, <3>4
  <2>3. QED BY <2>1, <2>2
<1>13. Runs(m, G, C[0], c, ahead', C[0]) BY <1>4, <1>5, <1>11
<1>14. Entails(m, C[Len(callers')], Goal(platform, api)') BY <1>3, <1>5, <1>8, <1>11
<1>15. Stacked(m, G, C)'
  <2>1. \A i \in 1..Len(callers') : Runs(m, G, C[i], C[i - 1], callers'[i], C[i]) BY <1>8, <1>12
  <2>2. QED BY <1>6, <1>8, <1>13, <1>14, <2>1 DEF Stacked
<1>16. (Sound(mode, G) /\ Stacked(mode, G, C))' BY <1>3, <1>7, <1>15
<1>17. QED BY <1>16 DEF PlanInv

\* A function ends, and what waited for it goes on.
LEMMA StepLeaves ==
  ASSUME PlanInv, Leave
  PROVE  PlanInv'
<1>1. status = "running" BY DEF Leave, At
<1>2. \E m, G, B : /\ m = mode /\ Sound(m, G) /\ Fits(m, B[0]) /\ Waiting(m, G, B)
  <2>1. CASE At("return")
    <3>1. ahead # << >> /\ step.do = "return" BY <2>1 DEF At
    <3>2. PICK m, G, B, c, s, d : Ready(m, G, B, c, s, d) BY <1>1, <3>1, AtStep
    <3>3. m = mode /\ s = step /\ Sound(m, G) /\ Fits(m, c) /\ Rule(m, G, B[0], c, s, d) /\ Waiting(m, G, B)
      BY <3>2 DEF Ready
    <3>4. Entails(m, c, B[0]) BY <3>1, <3>3 DEF Rule
    <3>5. Fits(m, B[0]) BY <3>3, <3>4, FitsWeaker
    <3>6. QED BY <3>3, <3>5
  <2>2. CASE ahead = << >>
    <3>1. PICK G, B : Sound(mode, G) /\ Stacked(mode, G, B) BY <1>1 DEF PlanInv
    <3>2. PICK a : Fits(mode, a) /\ Runs(mode, G, B[0], a, << >>, B[0]) BY <2>2, <3>1 DEF Stacked
    <3>3. Entails(mode, a, B[0]) BY <3>2, RunsNone
    <3>4. Fits(mode, B[0]) BY <3>2, <3>3, FitsWeaker
    <3>5. Waiting(mode, G, B) BY <3>1 DEF Stacked, Waiting
    <3>6. QED BY <3>1, <3>4, <3>5
  <2>3. QED BY <2>1, <2>2 DEF Leave
<1>3. PICK m, G, B : m = mode /\ Sound(m, G) /\ Fits(m, B[0]) /\ Waiting(m, G, B) BY <1>2
<1>4. /\ ahead' = IF callers = << >> THEN << >> ELSE Head(callers)
      /\ callers' = IF callers = << >> THEN << >> ELSE Tail(callers)
      /\ UNCHANGED <<platform, api, asked, val, shown, open, want, accepted, inforce, refused, complained>>
  BY DEF Leave, call, files, caps, trouble
<1>5. Fits(m, B[0])' BY <1>3, <1>4, FitsSame
<1>6. m = mode' BY <1>3, <1>4 DEF mode
<1>7. /\ IsSeq(callers)
      /\ \A i \in 1..Len(callers) : Runs(m, G, B[i], B[i - 1], callers[i], B[i])
      /\ Entails(m, B[Len(callers)], Goal(platform, api))
  BY <1>3 DEF Waiting
<1>8. \E C : Stacked(m, G, C)'
  <2>1. CASE callers = << >>
    <3>1. ahead' = << >> /\ callers' = << >> BY <1>4, <2>1
    <3>2. Runs(m, G, B[0], B[0], << >>, B[0]) BY RunsNone, EntailsSame
    <3>3. Runs(m, G, B[0], B[0], ahead', B[0]) BY <3>1, <3>2
    <3>4. Entails(m, B[Len(callers')], Goal(platform, api)') BY <1>4, <1>7, <2>1, <3>1
    <3>5. IsSeq(callers') /\ Len(callers') = 0 BY <3>1, NoneIs
    <3>6. Stacked(m, G, B)' BY <1>5, <3>3, <3>4, <3>5 DEF Stacked
    <3>7. QED BY <3>6
  <2>2. CASE callers # << >>
    <3>1. /\ IsSeq(Tail(callers)) /\ Len(callers) \in Nat \ {0} /\ Len(Tail(callers)) = Len(callers) - 1
          /\ Head(callers) = callers[1]
          /\ \A k \in 1..Len(Tail(callers)) : Tail(callers)[k] = callers[k + 1]
      BY <1>7, <2>2, RestIs
    <3>2. ahead' = callers[1] /\ callers' = Tail(callers) BY <1>4, <2>2, <3>1
    <3>3. \E n, C : n = Len(callers) /\ C = [i \in 0..(n - 1) |-> B[i + 1]] OBVIOUS
    <3>4. PICK n, C : n = Len(callers) /\ C = [i \in 0..(n - 1) |-> B[i + 1]] BY <3>3
    <3>5. C[0] = B[1] /\ C[n - 1] = B[n] BY <3>1, <3>4
    <3>6. ASSUME NEW i \in 1..(n - 1) PROVE Runs(m, G, C[i], C[i - 1], callers'[i], C[i])
      <4>1. C[i] = B[i + 1] /\ C[i - 1] = B[i] /\ i = (i + 1) - 1 /\ i + 1 \in 1..n BY <3>1, <3>4
      <4>2. i \in 1..Len(Tail(callers)) BY <3>1, <3>4
      <4>3. callers'[i] = callers[i + 1] BY <3>1, <3>2, <4>2
      <4>4. Runs(m, G, B[i + 1], B[(i + 1) - 1], callers[i + 1], B[i + 1]) BY <1>7, <3>4, <4>1
      <4>5. QED BY <4>1, <4>3, <4>4
    <3>7. Len(callers') = n - 1 BY <3>1, <3>2, <3>4
    <3>8. Runs(m, G, B[1], B[0], callers[1], B[1])
      <4>1. 1 \in 1..Len(callers) /\ 1 - 1 = 0 BY <3>1
      <4>2. QED BY <1>7, <4>1
    <3>9. Runs(m, G, C[0], B[0], ahead', C[0]) BY <3>2, <3>5, <3>8
    <3>10. Entails(m, C[Len(callers')], Goal(platform, api)') BY <1>4, <1>7, <3>4, <3>5, <3>7
    <3>11. \A i \in 1..Len(callers') : Runs(m, G, C[i], C[i - 1], callers'[i], C[i]) BY <3>6, <3>7
    <3>12. IsSeq(callers') BY <3>1, <3>2
    <3>13. Stacked(m, G, C)' BY <1>5, <3>9, <3>10, <3>11, <3>12 DEF Stacked
    <3>14. QED BY <3>13
  <2>3. QED BY <2>1, <2>2
<1>9. PICK C : Stacked(m, G, C)' BY <1>8
<1>10. (Sound(mode, G) /\ Stacked(mode, G, C))' BY <1>3, <1>6, <1>9
<1>11. QED BY <1>10 DEF PlanInv

\* The feature is through: its goal is reached.
LEMMA StepReturns ==
  ASSUME PlanInv, Returned
  PROVE  DoneInv'
<1>1. status = "running" /\ ahead = << >> /\ callers = << >> BY DEF Returned
<1>2. PICK G, B : Sound(mode, G) /\ Stacked(mode, G, B) BY <1>1 DEF PlanInv
<1>3. PICK a : Fits(mode, a) /\ Runs(mode, G, B[0], a, << >>, B[0]) BY <1>1, <1>2 DEF Stacked
<1>4. Entails(mode, B[0], Goal(platform, api)) BY <1>1, <1>2, NoneIs DEF Stacked
<1>5. Entails(mode, a, B[0]) BY <1>3, RunsNone
<1>6. \E m, g : m = mode /\ g = Goal(platform, api) OBVIOUS
<1>7. PICK m, g : m = mode /\ g = Goal(platform, api) BY <1>6
<1>8. Fits(m, g) BY <1>3, <1>4, <1>5, <1>7, FitsWeaker
<1>9. UNCHANGED <<platform, api, asked, val, shown, open, want, accepted, inforce, refused, complained>>
  BY DEF Returned, call, files, caps, trouble
<1>10. Fits(m, g)' BY <1>8, <1>9, FitsSame
<1>11. m = mode' /\ g = Goal(platform, api)' BY <1>7, <1>9 DEF mode
<1>12. QED BY <1>10, <1>11 DEF DoneInv

\* A call starts on a good plan.
FeaturesAreGood ==
  \A p \in Platforms : \A f \in FeaturesOf(p) :
    Good(Mode(p, f), Goal(p, f), Start(Mode(p, f)), Features[p][f].plan, Goal(p, f))

\* A call starts a good plan.
LEMMA StepCalls ==
  ASSUME FeaturesAreGood, TypeOK, Call
  PROVE  PlanInv'
<1>1. PICK f \in FeaturesOf(platform) :
        /\ api' = f
        /\ ahead' = Features[platform][f].plan
        /\ asked' \in IF Features[platform][f].caps = {} THEN {0} ELSE Requests
  BY DEF Call
<1>2. /\ want' = asked' /\ val' = [v \in {Var("node")} |-> NodePower] /\ shown' = {} /\ open' = {}
      /\ refused' = FALSE /\ complained' = FALSE /\ UNCHANGED <<platform, callers, accepted, inforce>>
  BY DEF Call
<1>3. callers = << >> BY DEF TypeOK, Call
<1>4. \E p : p = platform OBVIOUS
<1>5. PICK p : p = platform BY <1>4
<1>6. Good(Mode(p, f), Goal(p, f), Start(Mode(p, f)), Features[p][f].plan, Goal(p, f))
  BY <1>5 DEF FeaturesAreGood, TypeOK
<1> DEFINE m == Mode(p, f)
           g == Goal(p, f)
           a == Start(m)
<1>7. PICK G : Sound(m, G) /\ Runs(m, G, g, a, ahead', g) BY <1>1, <1>5, <1>6 DEF Good
<1>8. m = mode' /\ g = Goal(platform, api)' BY <1>1, <1>2, <1>5 DEF mode
<1>9. Fits(m, a)'
  <2>1. /\ a.vals = [v \in {Var("node")} |-> NodePower] /\ a.claims = {} /\ a.opened = {} /\ a.mark = "none"
        /\ a.taken = {} /\ a.bound = {} /\ a.wanted = IF "halves" \in m.traits THEN "asked" ELSE "share"
    BY DEF Start, Facts
  <2>2. "halves" \in m.traits <=> <<platform', api'>> \in Halves BY <1>1, <1>2, <1>5 DEF Mode, Traits
  <2> HIDE DEF a
  <2>3. asked' \in Nat BY <1>1, RequestsAssumption
  <2>4. "halves" \notin m.traits => share' = asked' BY <2>2 DEF share
  <2>5. Wanted(a)' BY <1>2, <2>1, <2>3, <2>4 DEF Wanted
  <2>6. Heeded(a)' BY <2>1, <2>5 DEF Heeded
  <2>7. \A v \in DOMAIN a.vals : ValueOf(v)' = a.vals[v] BY <1>2, <2>1 DEF ValueOf
  <2> HIDE DEF m
  <2>8. QED BY <1>2, <2>1, <2>6, <2>7 DEF Fits
<1> DEFINE B == [i \in {0} |-> g]
<1>10. B[0] = g OBVIOUS
<1> HIDE DEF m, g, a, B
<1>11. IsSeq(callers') /\ Len(callers') = 0 BY <1>2, <1>3, NoneIs
<1>12. Entails(m, B[Len(callers')], Goal(platform, api)') BY <1>8, <1>10, <1>11, EntailsSame
<1>13. Stacked(m, G, B)' BY <1>7, <1>9, <1>10, <1>11, <1>12 DEF Stacked
<1>14. (Sound(mode, G) /\ Stacked(mode, G, B))' BY <1>7, <1>8, <1>13
<1>15. QED BY <1>14 DEF PlanInv

\* The firmware comes to a cap: the devices that are bound stay so.
LEMMA EnforceFits ==
  ASSUME TypeOK, Enforce, NEW m, NEW a, Fits(m, a)
  PROVE  Fits(m, a)'
<1>1. PICK d \in DevicesOf(platform) : inforce' = [inforce EXCEPT ![d] = accepted[d]] BY DEF Enforce
<1>2. UNCHANGED <<platform, api, asked, val, shown, open, want, accepted, refused, complained>>
  BY DEF Enforce, call, files, trouble
<1>3. ASSUME Heeded(a) PROVE Heeded(a)'
  <2>1. share' = share BY <1>2 DEF share
  <2> DEFINE D == DevicesOf(platform)
  <2>2. inforce \in [D -> 0..CEILING] BY DEF TypeOK
  <2>3. a.bound \subseteq D BY <1>3 DEF Heeded
  <2> HIDE DEF D
  <2>4. \A e \in D : inforce'[e] \in {inforce[e], accepted[e]} BY <1>1, <2>2
  <2>5. \A e \in a.bound : inforce'[e] <= share BY <1>3, <2>3, <2>4 DEF Heeded
  <2>6. Wanted(a)' BY <1>2, <1>3, <2>1 DEF Heeded, Wanted
  <2>7. QED BY <1>2, <1>3, <2>1, <2>5, <2>6 DEF Heeded
<1>4. QED BY <1>2, <1>3, FitsHeeded

\* A cap that comes in force keeps the invariant.
LEMMA EnforceKeeps ==
  ASSUME TypeOK, PlanInv, DoneInv, Enforce
  PROVE  PlanInv' /\ DoneInv'
<1>1. UNCHANGED <<platform, api, status, ahead, callers>> BY DEF Enforce, call
<1>2. mode' = mode BY <1>1 DEF mode
<1>3. PlanInv'
  <2>1. SUFFICES ASSUME status = "running" PROVE PlanInv' BY <1>1 DEF PlanInv
  <2>2. PICK G, B : Sound(mode, G) /\ Stacked(mode, G, B) BY <2>1 DEF PlanInv
  <2>3. \E m : m = mode OBVIOUS
  <2>4. PICK m : m = mode BY <2>3
  <2>5. PICK a : Fits(m, a) /\ Runs(m, G, B[0], a, ahead, B[0]) BY <2>2, <2>4 DEF Stacked
  <2>6. Fits(m, a)' BY <2>5, EnforceFits
  <2>7. Stacked(m, G, B)' BY <1>1, <2>2, <2>4, <2>5, <2>6 DEF Stacked
  <2>8. (Sound(mode, G) /\ Stacked(mode, G, B))' BY <1>2, <2>2, <2>4, <2>7
  <2>9. QED BY <2>8 DEF PlanInv
<1>4. DoneInv'
  <2>1. SUFFICES ASSUME status = "returned" PROVE DoneInv' BY <1>1 DEF DoneInv
  <2>2. \E m, g : m = mode /\ g = Goal(platform, api) OBVIOUS
  <2>3. PICK m, g : m = mode /\ g = Goal(platform, api) BY <2>2
  <2>4. Fits(m, g)' BY <2>1, <2>3, EnforceFits DEF DoneInv
  <2>5. m = mode' /\ g = Goal(platform, api)' BY <1>1, <1>2, <2>3
  <2>6. QED BY <2>4, <2>5 DEF DoneInv
<1>5. QED BY <1>3, <1>4

\* A value that is given out comes from its own device.
LEMMA GiveOutOwns ==
  ASSUME PlanInv, OwnInv, GiveOut
  PROVE  OwnInv'
<1>1. status = "running" /\ ahead # << >> /\ step.do = "show" BY DEF GiveOut, At
<1>2. PICK m, G, B, c, s, d : Ready(m, G, B, c, s, d) BY <1>1, AtStep
<1>3. m = mode /\ s = step /\ Fits(m, c) /\ Rule(m, G, B[0], c, s, d) BY <1>2 DEF Ready
<1>4. UNCHANGED <<platform, api>> BY DEF GiveOut, GoOn, call
<1>5. shown' = shown \union {[claim |-> s.claim, value |-> ValueOf(s.v)]} BY <1>3 DEF GiveOut
<1>6. RightClaim(m, c, s) BY <1>1, <1>3 DEF Rule
<1>7. "old" \notin m.traits => ValueOf(s.v) \subseteq s.claim BY <1>3, <1>6 DEF Fits, RightClaim
<1>8. mode' = mode BY <1>4 DEF mode
<1>9. QED BY <1>3, <1>5, <1>7, <1>8 DEF OwnInv

\* What a step changes at most.
Changes ==
  /\ status = "running" /\ UNCHANGED <<platform, api, calls, asked>>
  /\ status' = "running" \/ (status' \in {"returned", "dead"} /\ ahead' = << >> /\ callers' = << >>)
  /\ UNCHANGED trouble \/ Refuse \/ Unreachable \/ (complained' = TRUE /\ UNCHANGED <<refused, refusals>>)
  /\ UNCHANGED rc \/ (At("return") /\ rc' = step.rc)
  /\ UNCHANGED shown \/ GiveOut
  /\ (UNCHANGED held /\ (UNCHANGED files \/ BringUp \/ BringDown)) \/ Die
  /\ UNCHANGED caps \/ Scale \/ SetCap

\* What a step may change.
LEMMA StepChanges ==
  ASSUME Step
  PROVE  Changes
<1>1. \A p : GoOn(p) => UNCHANGED <<platform, api, calls, asked, status, held>> BY DEF GoOn, call
<1> USE DEF At
<1>2. CASE Read BY <1>1, <1>2 DEF Read, Fails, Changes
<1>3. CASE Assign BY <1>1, <1>3 DEF Assign, Changes
<1>4. CASE GiveOut BY <1>1, <1>4 DEF GiveOut, Changes
<1>5. CASE Choose BY <1>1, <1>5 DEF Choose, Changes
<1>6. CASE BringUp BY <1>1, <1>6 DEF BringUp, Changes
<1>7. CASE BringDown BY <1>1, <1>7 DEF BringDown, Changes
<1>8. CASE CountDevices BY <1>1, <1>8 DEF CountDevices, Changes
<1>9. CASE Scale BY <1>1, <1>9 DEF Scale, Fails, Changes
<1>10. CASE SetCap BY <1>1, <1>10 DEF SetCap, Fails, Changes
<1>11. CASE ReadBack BY <1>1, <1>11 DEF ReadBack, Fails, Changes
<1>12. CASE Say BY <1>1, <1>12 DEF Say, Changes
<1>13. CASE Loop BY <1>1, <1>13 DEF Loop, Changes
<1>14. CASE Enter BY <1>14 DEF Enter, call, Changes
<1>15. CASE Leave BY <1>15 DEF Leave, call, Changes
<1>16. CASE Returned BY <1>16 DEF Returned, call, Changes
<1>17. CASE Die BY <1>17 DEF Die, call, Changes
<1>18. QED BY <1>2, <1>3, <1>4, <1>5, <1>6, <1>7, <1>8, <1>9, <1>10, <1>11, <1>12, <1>13, <1>14, <1>15, <1>16, <1>17
  DEF Step

\* Descriptor 0 is a program's, nobody's, or that of a file that is open; a
\* library has no descriptor.
LEMMA StepZero ==
  ASSUME TypeOK, zero # rsmi, PlanInv, Step
  PROVE  zero' \in {stdin, nobody} \union open' \union held' /\ zero' # rsmi
<1>1. zero \in {stdin, nobody} \union open \union held BY DEF TypeOK
<1>2. nobody # rsmi BY DEF nobody, rsmi
<1>3. CASE UNCHANGED held /\ UNCHANGED files BY <1>1, <1>3 DEF files
<1>4. CASE UNCHANGED held /\ BringUp
  <2>1. CASE At("open file") /\ open' = open \union {step.r} /\ zero' = IF zero = nobody THEN step.r ELSE zero
    <3>1. status = "running" /\ ahead # << >> /\ step.do = "open file" BY <2>1 DEF At
    <3>2. PICK m, G, B, c, s, d : Ready(m, G, B, c, s, d) BY <3>1, AtStep
    <3>3. s = step /\ Rule(m, G, B[0], c, s, d) BY <3>2 DEF Ready
    <3>4. step.r # rsmi BY <3>1, <3>3 DEF Rule
    <3>5. QED BY <1>1, <1>4, <2>1, <3>4
  <2>2. CASE open' = open \union {step.r} /\ UNCHANGED zero BY <1>1, <1>4, <2>2
  <2>3. CASE UNCHANGED files BY <1>1, <1>4, <2>3 DEF files
  <2>4. QED BY <1>4, <2>1, <2>2, <2>3 DEF BringUp
<1>5. CASE UNCHANGED held /\ BringDown
  <2>1. CASE open' = open \ step.rs /\ zero' = IF zero \in open \intersect step.rs THEN nobody ELSE zero
    BY <1>1, <1>2, <1>5, <2>1
  <2>2. CASE At("shutdown") /\ open' = open \ {step.r} /\ UNCHANGED zero
    <3>1. status = "running" /\ ahead # << >> /\ step.do = "shutdown" BY <2>2 DEF At
    <3>2. PICK m, G, B, c, s, d : Ready(m, G, B, c, s, d) BY <3>1, AtStep
    <3>3. s = step /\ Rule(m, G, B[0], c, s, d) BY <3>2 DEF Ready
    <3>4. step.r = rsmi BY <3>1, <3>3 DEF Rule
    <3>5. QED BY <1>1, <1>5, <2>2, <3>4
  <2>3. CASE UNCHANGED files BY <1>1, <1>5, <2>3 DEF files
  <2>4. QED BY <1>5, <2>1, <2>2, <2>3 DEF BringDown
<1>6. CASE Die BY <1>2, <1>6 DEF Die
<1>7. QED BY <1>3, <1>4, <1>5, <1>6, StepChanges DEF Changes

\* The numbers of the caps stay in their ranges.
LEMMA StepCapTypes ==
  ASSUME TypeOK, PlanInv, Step
  PROVE  want' \in 0..asked /\ {accepted', inforce'} \subseteq [DevicesOf(platform) -> 0..CEILING]
<1>1. want \in 0..asked /\ asked \in Nat /\ CEILING \in Nat /\ want \in Nat BY NumbersAre DEF TypeOK
<1> DEFINE D == DevicesOf(platform)
<1>2. accepted \in [D -> 0..CEILING] /\ inforce \in [D -> 0..CEILING] BY DEF TypeOK
<1> HIDE DEF D
<1>3. CASE UNCHANGED caps BY <1>1, <1>2, <1>3 DEF caps, D
<1>4. CASE Scale
  <2>1. UNCHANGED <<accepted, inforce>> BY <1>4 DEF Scale
  <2>2. CASE At("divide") /\ want' = want \div step.by
    <3>1. status = "running" /\ ahead # << >> /\ step.do = "divide" BY <2>2 DEF At
    <3>2. PICK m, G, B, c, s, d : Ready(m, G, B, c, s, d) BY <3>1, AtStep
    <3>3. s = step /\ Rule(m, G, B[0], c, s, d) BY <3>2 DEF Ready
    <3>4. step.by = 2 BY <3>1, <3>3 DEF Rule
    <3>5. want' = want \div 2 BY <2>2, <3>4
    <3>6. want' \in 0..asked BY <1>1, <3>5
    <3>7. QED BY <1>2, <2>1, <3>6 DEF D
  <2>3. CASE want' = Lesser(want, CEILING)
    <3>1. want' \in 0..asked BY <1>1, <2>3, LesserIs
    <3>2. QED BY <1>2, <2>1, <3>1 DEF D
  <2>4. CASE UNCHANGED want BY <1>1, <1>2, <2>1, <2>4 DEF D
  <2>5. QED BY <1>4, <2>2, <2>3, <2>4 DEF Scale
<1>5. CASE SetCap
  <2> DEFINE x == Lesser(want, CEILING)
  <2>1. x \in 0..CEILING BY <1>1, LesserIs
  <2>2. /\ UNCHANGED want
        /\ accepted' \in {accepted, [accepted EXCEPT ![step.dev] = x]}
        /\ inforce' \in {inforce, [inforce EXCEPT ![step.dev] = x]}
    BY <1>5 DEF SetCap
  <2> HIDE DEF x
  <2>3. [accepted EXCEPT ![step.dev] = x] \in [D -> 0..CEILING] BY <1>2, <2>1
  <2>4. [inforce EXCEPT ![step.dev] = x] \in [D -> 0..CEILING] BY <1>2, <2>1
  <2>5. QED BY <1>1, <1>2, <2>2, <2>3, <2>4 DEF D
<1>6. QED BY <1>3, <1>4, <1>5, StepChanges DEF Changes

\* A step keeps the types.
LEMMA StepTypes ==
  ASSUME TypeOK, zero # rsmi, PlanInv, Step
  PROVE  TypeOK'
<1>1. Changes BY StepChanges
<1>2. UNCHANGED <<platform, api, calls, asked>> /\ status = "running" BY <1>1 DEF Changes
<1>3. /\ api # "none" /\ (api' = "none") = (status' = "idle")
      /\ status' \in {"idle", "running", "returned", "dead"}
      /\ status' # "running" => ahead' = << >> /\ callers' = << >>
  <2>1. api # "none" BY <1>2 DEF TypeOK
  <2>2. CASE status' = "running" BY <1>2, <2>1, <2>2
  <2>3. CASE status' \in {"returned", "dead"} /\ ahead' = << >> /\ callers' = << >> BY <1>2, <2>1, <2>3
  <2>4. QED BY <1>1, <2>1, <2>2, <2>3 DEF Changes
<1>4. rc' \in {0, -1}
  <2>1. CASE UNCHANGED rc BY <2>1 DEF TypeOK
  <2>2. CASE At("return") /\ rc' = step.rc
    <3>1. status = "running" /\ ahead # << >> /\ step.do = "return" BY <2>2 DEF At
    <3>2. PICK m, G, B, c, s, d : Ready(m, G, B, c, s, d) BY <3>1, AtStep
    <3>3. s = step /\ Rule(m, G, B[0], c, s, d) BY <3>2 DEF Ready
    <3>4. step.rc \in {0, -1} BY <3>1, <3>3 DEF Rule
    <3>5. QED BY <2>2, <3>4
  <2>3. QED BY <1>1, <2>1, <2>2 DEF Changes
<1>5. \A s \in shown' : DOMAIN s = {"claim", "value"}
  <2>1. \A s \in shown : DOMAIN s = {"claim", "value"} BY DEF TypeOK
  <2>2. CASE UNCHANGED shown BY <2>1, <2>2
  <2>3. CASE GiveOut BY <2>1, <2>3 DEF GiveOut
  <2>4. QED BY <1>1, <2>2, <2>3 DEF Changes
<1>6. {refused', complained'} \subseteq BOOLEAN /\ refusals' \in 0..MaxRefusals
  <2>1. {refused, complained} \subseteq BOOLEAN /\ refusals \in 0..MaxRefusals BY DEF TypeOK
  <2>2. CASE UNCHANGED trouble BY <2>1, <2>2 DEF trouble
  <2>3. CASE Refuse BY <2>1, <2>3, RequestsAssumption DEF Refuse
  <2>4. CASE Unreachable BY <2>1, <2>4 DEF Unreachable
  <2>5. CASE complained' = TRUE /\ UNCHANGED <<refused, refusals>> BY <2>1, <2>5
  <2>6. QED BY <1>1, <2>2, <2>3, <2>4, <2>5 DEF Changes
<1>7. zero' \in {stdin, nobody} \union open' \union held' BY StepZero
<1>8. want' \in 0..asked' /\ {accepted', inforce'} \subseteq [DevicesOf(platform') -> 0..CEILING]
  BY <1>2, StepCapTypes
<1>9. /\ platform \in Platforms /\ api \in FeaturesOf(platform) \union {"none"}
      /\ asked \in Requests \union {0} /\ calls \in 0..MaxCalls
  BY DEF TypeOK
<1>10. QED BY <1>2, <1>3, <1>4, <1>5, <1>6, <1>7, <1>8, <1>9 DEF TypeOK, stdin, nobody

-----------------------------------------------------------------------------
\* The invariant.

\* No feature is called none.
LEMMA FeatureNames ==
  ASSUME NEW p \in Platforms
  PROVE  "none" \notin FeaturesOf(p)
<1>1. /\ "none" \notin DOMAIN P9Features /\ "none" \notin DOMAIN EpycFeatures
      /\ "none" \notin DOMAIN VoltaFeatures /\ "none" \notin DOMAIN InstinctFeatures
      /\ "none" \notin DOMAIN IntelGpuFeatures
      /\ "none" \notin DOMAIN JunoFeatures /\ "none" \notin DOMAIN NeoverseFeatures
  BY DEF P9Features, EpycFeatures, VoltaFeatures, InstinctFeatures, IntelGpuFeatures, JunoFeatures, NeoverseFeatures
<1>2. QED BY <1>1 DEF Platforms, Features, FeaturesOf

\* The invariant holds at first.
LEMMA InitKeeps ==
  ASSUME Init
  PROVE  VendorInv
<1>1. CEILING \in 0..CEILING /\ 0 \in 0..MaxCalls /\ 0 \in 0..MaxRefusals BY RequestsAssumption
<1>2. {accepted, inforce} \subseteq [DevicesOf(platform) -> 0..CEILING] BY <1>1 DEF Init
<1>3. zero \in {stdin, nobody} /\ zero # rsmi BY DEF Init, stdin, nobody, rsmi
<1>4. platform \in Platforms /\ want = 0 /\ asked = 0 /\ rc = 0 /\ shown = {} BY DEF Init
<1>5. TypeOK
  <2>1. /\ api = "none" /\ status = "idle" /\ ahead = << >> /\ callers = << >>
        /\ refused = FALSE /\ complained = FALSE /\ calls = 0 /\ refusals = 0
    BY DEF Init
  <2>2. \A s \in shown : DOMAIN s = {"claim", "value"} BY <1>4
  <2>3. want \in 0..asked /\ asked \in Requests \union {0} /\ rc \in {0, -1} BY <1>4
  <2>4. QED BY <1>1, <1>2, <1>3, <1>4, <2>1, <2>2, <2>3 DEF TypeOK
<1>6. PlanInv /\ DoneInv /\ OwnInv BY DEF Init, PlanInv, DoneInv, OwnInv
<1>7. QED BY <1>3, <1>5, <1>6 DEF VendorInv

\* A call keeps it.
LEMMA CallKeeps ==
  ASSUME FeaturesAreGood, TypeOK, zero # rsmi, Call
  PROVE  VendorInv'
<1>1. PICK f \in FeaturesOf(platform) :
        /\ api' = f
        /\ asked' \in IF Features[platform][f].caps = {} THEN {0} ELSE Requests
  BY DEF Call
<1>2. /\ want' = asked' /\ shown' = {} /\ rc' = 0 /\ status' = "running" /\ calls' = calls + 1 /\ calls < MaxCalls
      /\ held' = held \union open /\ open' = {} /\ refused' = FALSE /\ complained' = FALSE
      /\ UNCHANGED <<platform, zero, accepted, inforce, refusals>>
  BY DEF Call
<1>3. f # "none" BY FeatureNames DEF TypeOK
<1>4. asked' \in Requests \union {0} /\ want' \in 0..asked'
  <2>1. asked' \in Requests \union {0} BY <1>1
  <2>2. asked' \in Nat BY <2>1, RequestsAssumption
  <2>3. QED BY <1>2, <2>1, <2>2
<1>5. calls' \in 0..MaxCalls BY <1>2, RequestsAssumption DEF TypeOK
<1>6. TypeOK' BY <1>1, <1>2, <1>3, <1>4, <1>5 DEF TypeOK, stdin, nobody
<1>7. PlanInv' BY StepCalls
<1>8. DoneInv' /\ OwnInv' BY <1>2 DEF DoneInv, OwnInv
<1>9. QED BY <1>2, <1>6, <1>7, <1>8 DEF VendorInv

\* A step keeps it.
LEMMA StepKeeps ==
  ASSUME VendorInv, Step
  PROVE  VendorInv'
<1>1. TypeOK /\ zero # rsmi /\ PlanInv /\ OwnInv BY DEF VendorInv
<1>2. Changes BY StepChanges
<1>3. PlanInv'
  <2>1. CASE Read \/ Assign \/ GiveOut \/ Choose BY <1>1, <2>1, StepReads, StepAssigns, StepGivesOut, StepChooses
  <2>2. CASE BringUp \/ BringDown \/ CountDevices BY <1>1, <2>2, StepBringsUp, StepBringsDown, StepCounts
  <2>3. CASE Scale \/ SetCap \/ ReadBack \/ Say BY <1>1, <2>3, StepScales, StepCaps, StepReadsBack, StepSays
  <2>4. CASE Loop \/ Enter \/ Leave BY <1>1, <2>4, StepLoops, StepEnters, StepLeaves
  <2>5. CASE Returned \/ Die BY <2>5 DEF Returned, Die, PlanInv
  <2>6. QED BY <2>1, <2>2, <2>3, <2>4, <2>5 DEF Step
<1>4. DoneInv'
  <2>1. CASE Returned BY <1>1, <2>1, StepReturns
  <2>2. CASE ~Returned
    <3>1. status' # "returned"
      <4>1. \A q : GoOn(q) => UNCHANGED status BY DEF GoOn
      <4>2. status = "running" BY <1>2 DEF Changes
      <4>3. CASE Read \/ Assign \/ GiveOut \/ Choose \/ BringUp \/ BringDown
        BY <4>1, <4>2, <4>3 DEF Read, Assign, GiveOut, Choose, BringUp, BringDown
      <4>4. CASE CountDevices \/ Scale \/ SetCap \/ ReadBack \/ Say \/ Loop
        BY <4>1, <4>2, <4>4 DEF CountDevices, Scale, SetCap, ReadBack, Say, Loop
      <4>5. CASE Enter \/ Leave \/ Die BY <4>2, <4>5 DEF Enter, Leave, Die
      <4>6. QED BY <2>2, <4>3, <4>4, <4>5 DEF Step
    <3>2. QED BY <3>1 DEF DoneInv
  <2>3. QED BY <2>1, <2>2
<1>5. OwnInv'
  <2>1. CASE GiveOut BY <1>1, <2>1, GiveOutOwns
  <2>2. CASE UNCHANGED shown
    <3>1. mode' = mode BY <1>2 DEF Changes, mode
    <3>2. QED BY <1>1, <2>2, <3>1 DEF OwnInv
  <2>3. QED BY <1>2, <2>1, <2>2 DEF Changes
<1>6. TypeOK' /\ zero' # rsmi BY <1>1, StepTypes, StepZero
<1>7. QED BY <1>3, <1>4, <1>5, <1>6 DEF VendorInv

\* A cap that comes in force keeps all of it.
LEMMA EnforceKeepsAll ==
  ASSUME VendorInv, Enforce
  PROVE  VendorInv'
<1>1. TypeOK /\ zero # rsmi /\ PlanInv /\ DoneInv /\ OwnInv BY DEF VendorInv
<1>2. PICK d \in DevicesOf(platform) : inforce' = [inforce EXCEPT ![d] = accepted[d]] BY DEF Enforce
<1>3. UNCHANGED <<platform, api, status, ahead, callers, shown, rc, open, held, zero, want, asked, accepted, refused,
                  complained, calls, refusals>>
  BY DEF Enforce, call, files, trouble
<1>4. inforce' \in [DevicesOf(platform) -> 0..CEILING] BY <1>1, <1>2 DEF TypeOK
<1>5. {accepted', inforce'} \subseteq [DevicesOf(platform') -> 0..CEILING] BY <1>1, <1>3, <1>4 DEF TypeOK
<1>6. TypeOK' BY <1>1, <1>3, <1>5 DEF TypeOK, stdin, nobody
<1>7. OwnInv' BY <1>1, <1>3 DEF OwnInv, mode
<1>8. QED BY <1>1, <1>3, <1>6, <1>7, EnforceKeeps DEF VendorInv

\* And so does nothing happening.
LEMMA StutterKeeps ==
  ASSUME VendorInv, UNCHANGED vars
  PROVE  VendorInv'
<1>1. UNCHANGED <<platform, api, status, ahead, callers, val, shown, rc, open, held, zero, want, asked, accepted, inforce,
                  refused, complained, calls, refusals>>
  BY DEF vars
<1>2. mode' = mode /\ share' = share /\ (\A v : ValueOf(v)' = ValueOf(v)) BY <1>1 DEF mode, share, ValueOf
<1>3. \A m, a : Fits(m, a)' <=> Fits(m, a) BY <1>1, <1>2 DEF Fits, Heeded, Wanted
<1>4. \A m, G, B : Stacked(m, G, B)' <=> Stacked(m, G, B) BY <1>1, <1>3 DEF Stacked
<1>5. TypeOK' BY <1>1 DEF VendorInv, TypeOK, stdin, nobody
<1>6. OwnInv' BY <1>1, <1>2 DEF VendorInv, OwnInv
<1>7. PlanInv'
  <2>1. SUFFICES ASSUME status = "running" PROVE PlanInv' BY <1>1 DEF PlanInv
  <2>2. PICK G, B : Sound(mode, G) /\ Stacked(mode, G, B) BY <2>1 DEF VendorInv, PlanInv
  <2>3. (Sound(mode, G) /\ Stacked(mode, G, B))' BY <1>2, <1>4, <2>2
  <2>4. QED BY <2>3 DEF PlanInv
<1>8. DoneInv'
  <2>1. SUFFICES ASSUME status = "returned" PROVE DoneInv' BY <1>1 DEF DoneInv
  <2>2. Fits(mode, Goal(platform, api)) BY <2>1 DEF VendorInv, DoneInv
  <2>3. Fits(mode, Goal(platform, api))' BY <1>1, <1>2, <1>3, <2>2
  <2>4. QED BY <2>3 DEF DoneInv
<1>9. QED BY <1>1, <1>5, <1>6, <1>7, <1>8 DEF VendorInv

\* Where the features are good, it is one.
LEMMA GoodGivesInv == FeaturesAreGood => (Spec => []VendorInv)
<1> SUFFICES ASSUME FeaturesAreGood PROVE Spec => []VendorInv OBVIOUS
<1>1. Init => VendorInv BY InitKeeps
<1>2. VendorInv /\ [Next]_vars => VendorInv'
  <2>1. VendorInv /\ Call => VendorInv' BY CallKeeps DEF VendorInv
  <2>2. VendorInv /\ Step => VendorInv' BY StepKeeps
  <2>3. VendorInv /\ Enforce => VendorInv' BY EnforceKeepsAll
  <2>4. VendorInv /\ UNCHANGED vars => VendorInv' BY StutterKeeps
  <2>5. QED BY <2>1, <2>2, <2>3, <2>4 DEF Next
<1>3. QED BY <1>1, <1>2, PTL DEF Spec

=============================================================================
