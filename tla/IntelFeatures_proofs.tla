------------------------ MODULE IntelFeatures_proofs ------------------------
(***************************************************************************)
(* The entry points of the Intel processors, for every topology, every set *)
(* of processors that may refuse and any number of calls: the batches are  *)
(* loaded before they are used and hold what was asked for, a report is of *)
(* what its call has read, the control registers keep the bits of others,  *)
(* and the units are those of each socket.                                 *)
(*                                                                         *)
(* First the rules of IntelRules: how good plans are put together.  Then   *)
(* every plan is good, and every entry point of every model.  Then a step  *)
(* of a good plan leaves a good plan, and the invariant.                   *)
(***************************************************************************)
EXTENDS IntelRules, TLAPS, FiniteSetTheorems, WellFoundedInduction

-----------------------------------------------------------------------------
\* Sequences.

\* A sequence of any elements has a length and a domain.
LEMMA SeqIs ==
  ASSUME NEW p, IsSeq(p)
  PROVE  Len(p) \in Nat /\ DOMAIN p = 1..Len(p)
  BY DEF IsSeq

\* Two sequences, one after the other.
LEMMA CatIs ==
  ASSUME NEW p, NEW q, IsSeq(p), IsSeq(q)
  PROVE  /\ IsSeq(p \o q)
         /\ Len(p \o q) = Len(p) + Len(q)
         /\ \A k \in 1..Len(p) : (p \o q)[k] = p[k]
         /\ \A k \in 1..Len(q) : (p \o q)[Len(p) + k] = q[k]
<1>1. PICK S : p \in Seq(S) BY DEF IsSeq
<1>2. PICK T1 : q \in Seq(T1) BY DEF IsSeq
<1>3. p \in Seq(S \union T1) /\ q \in Seq(S \union T1) BY <1>1, <1>2
<1>4. p \o q \in Seq(S \union T1) BY <1>3
<1>5. QED BY <1>3, <1>4 DEF IsSeq

\* A step on its own, no step, and what is left after the first one.
LEMMA OneIs ==
  ASSUME NEW s
  PROVE  IsSeq(<<s>>) /\ Len(<<s>>) = 1 /\ <<s>>[1] = s
<1>1. <<s>> \in Seq({s}) OBVIOUS
<1>2. QED BY <1>1 DEF IsSeq

LEMMA OneMoreIs ==
  ASSUME NEW p, NEW s, IsSeq(p)
  PROVE  /\ IsSeq(p \o <<s>>) /\ Len(p \o <<s>>) = Len(p) + 1 /\ (p \o <<s>>)[Len(p) + 1] = s
         /\ \A k \in 1..Len(p) : (p \o <<s>>)[k] = p[k]
<1>1. PICK S : p \in Seq(S) BY DEF IsSeq
<1>2. p \in Seq(S \union {s}) /\ <<s>> \in Seq(S \union {s}) BY <1>1
<1>3. p \o <<s>> \in Seq(S \union {s}) BY <1>2
<1>4. QED BY <1>2, <1>3 DEF IsSeq

LEMMA NoneIs == IsSeq(<< >>) /\ Len(<< >>) = 0
<1>1. << >> \in Seq({}) OBVIOUS
<1>2. QED BY <1>1 DEF IsSeq

LEMMA RestIs ==
  ASSUME NEW p, IsSeq(p), p # << >>
  PROVE  /\ IsSeq(Tail(p)) /\ Len(p) \in Nat \ {0} /\ Len(Tail(p)) = Len(p) - 1
         /\ Head(p) = p[1]
         /\ \A k \in 1..Len(Tail(p)) : Tail(p)[k] = p[k + 1]
<1>1. PICK S : p \in Seq(S) BY DEF IsSeq
<1>2. Tail(p) \in Seq(S) BY <1>1
<1>3. QED BY <1>1, <1>2 DEF IsSeq

LEMMA FunIs ==
  ASSUME NEW n \in Nat, NEW f, f = [k \in 1..n |-> f[k]]
  PROVE  IsSeq(f) /\ Len(f) = n
<1> DEFINE S == {f[k] : k \in 1..n}
<1>1. f \in [1..n -> S] OBVIOUS
<1>2. f \in Seq(S) /\ Len(f) = n BY <1>1
<1>3. QED BY <1>2 DEF IsSeq

-----------------------------------------------------------------------------
\* Rules.

\* More tokens, more pairs: what was good stays good.
LEMMA BeforeGrows ==
  ASSUME NEW E, NEW F, NEW p, NEW k, E \subseteq F
  PROVE  Before(E, p, k) \subseteq Before(F, p, k)
  BY DEF Before

LEMMA ProperGrows ==
  ASSUME NEW G, NEW H, NEW E, NEW F, NEW p, G \subseteq H, E \subseteq F, Proper(G, E, p)
  PROVE  Proper(H, F, p)
<1>1. ASSUME NEW k \in 1..Len(p) PROVE \E D : <<D, p[k]>> \in H /\ D \subseteq Before(F, p, k)
  <2>1. PICK D : <<D, p[k]>> \in G /\ D \subseteq Before(E, p, k) BY DEF Proper
  <2>2. Before(E, p, k) \subseteq Before(F, p, k) BY BeforeGrows
  <2>3. QED BY <2>1, <2>2
<1>2. QED BY <1>1 DEF Proper

LEMMA StepGrows ==
  ASSUME NEW m, NEW G, NEW H, NEW E, NEW s, G \subseteq H, StepOK(m, G, E, s)
  PROVE  StepOK(m, H, E, s)
<1>1. \A F, p : Proper(G, F, p) => Proper(H, F, p) BY ProperGrows
<1>2. \A F, x : Compound(G, F, x) => Compound(H, F, x) BY <1>1 DEF Compound
<1>3. QED BY <1>1, <1>2 DEF StepOK

LEMMA SoundUnion ==
  ASSUME NEW m, NEW G, NEW H, Sound(m, G), Sound(m, H)
  PROVE  Sound(m, G \union H)
<1>1. SUFFICES ASSUME NEW E, NEW s, <<E, s>> \in G \union H
               PROVE  StepOK(m, G \union H, E, s)
  BY DEF Sound
<1>2. CASE <<E, s>> \in G
  <2>1. StepOK(m, G, E, s) BY <1>2 DEF Sound
  <2>2. QED BY <2>1, StepGrows
<1>3. CASE <<E, s>> \in H
  <2>1. StepOK(m, H, E, s) BY <1>3 DEF Sound
  <2>2. QED BY <2>1, StepGrows
<1>4. QED BY <1>1, <1>2, <1>3

\* Less is asked for than there is.
LEMMA Weaken ==
  ASSUME NEW m, NEW E, NEW F, NEW p, NEW A, NEW B,
         Good(m, E, p, F), E \subseteq A, B \subseteq F
  PROVE  Good(m, A, p, B)
<1>1. PICK G : Sound(m, G) /\ Proper(G, E, p) /\ F \subseteq Before(E, p, Len(p) + 1) BY DEF Good
<1>2. Proper(G, A, p) BY <1>1, ProperGrows
<1>3. Before(E, p, Len(p) + 1) \subseteq Before(A, p, Len(p) + 1) BY BeforeGrows
<1>4. QED BY <1>1, <1>2, <1>3 DEF Good

\* What a plan gives another may need.
LEMMA BeforeCat ==
  ASSUME NEW E, NEW F, NEW p, NEW q, IsSeq(p), IsSeq(q), F \subseteq Before(E, p, Len(p) + 1),
         NEW k \in 1..(Len(q) + 1)
  PROVE  Before(F, q, k) \subseteq Before(E, p \o q, Len(p) + k)
<1> USE CatIs, SeqIs
<1>1. SUFFICES ASSUME NEW t \in Before(F, q, k) PROVE t \in Before(E, p \o q, Len(p) + k)
  OBVIOUS
<1>2. CASE \E j \in 1..(k - 1) : t \in Gives(q[j])
  <2>1. PICK j \in 1..(k - 1) : t \in Gives(q[j]) BY <1>2
  <2>2. (p \o q)[Len(p) + j] = q[j] /\ Len(p) + j \in 1..(Len(p) + k - 1) OBVIOUS
  <2>3. QED BY <2>1, <2>2 DEF Before
<1>3. CASE t \in F /\ (t[1] = "checked" => \A j \in 1..(k - 1) : Plain(q[j]))
  <2>1. t \in Before(E, p, Len(p) + 1) BY <1>3
  <2>2. CASE \E j \in 1..Len(p) : t \in Gives(p[j])
    <3>1. PICK j \in 1..Len(p) : t \in Gives(p[j]) BY <2>2
    <3>2. (p \o q)[j] = p[j] /\ j \in 1..(Len(p) + k - 1) OBVIOUS
    <3>3. QED BY <3>1, <3>2 DEF Before
  <2>3. CASE t \in E /\ (t[1] = "checked" => \A j \in 1..Len(p) : Plain(p[j]))
    <3>1. ASSUME t[1] = "checked", NEW j \in 1..(Len(p) + k - 1) PROVE Plain((p \o q)[j])
      <4>1. CASE j \in 1..Len(p) BY <2>3, <3>1, <4>1
      <4>2. CASE j \notin 1..Len(p)
        <5>1. j - Len(p) \in 1..(k - 1) /\ j = Len(p) + (j - Len(p)) BY <4>2
        <5>2. (p \o q)[j] = q[j - Len(p)] BY <5>1
        <5>3. QED BY <1>3, <3>1, <5>1, <5>2
      <4>3. QED BY <4>1, <4>2
    <3>2. QED BY <2>3, <3>1 DEF Before
  <2>4. QED
    <3>1. Len(p) \in Nat BY SeqIs
    <3>2. Len(p) + 1 - 1 = Len(p) BY ONLY <3>1
    <3>3. \/ \E j \in 1..Len(p) : t \in Gives(p[j])
          \/ t \in E /\ (t[1] = "checked" => \A j \in 1..Len(p) : Plain(p[j]))
      BY ONLY <2>1, <3>2 DEF Before
    <3>4. QED BY ONLY <2>2, <2>3, <3>3
<1>4. QED
  <2>1. t \in Before(F, q, k) OBVIOUS
  <2>2. \/ \E j \in 1..(k - 1) : t \in Gives(q[j])
        \/ t \in F /\ (t[1] = "checked" => \A j \in 1..(k - 1) : Plain(q[j]))
    BY ONLY <2>1 DEF Before
  <2>3. QED BY ONLY <1>2, <1>3, <2>2

LEMMA BeforeFirst ==
  ASSUME NEW E, NEW p, NEW q, IsSeq(p), IsSeq(q), NEW k \in 1..(Len(p) + 1)
  PROVE  Before(E, p \o q, k) = Before(E, p, k)
<1>1. \A j \in 1..(k - 1) : (p \o q)[j] = p[j] BY CatIs, SeqIs
<1>2. QED BY <1>1 DEF Before

\* One plan after another.
LEMMA Then ==
  ASSUME NEW m, NEW E, NEW p, NEW F, NEW q, NEW A, Good(m, E, p, F), Good(m, F, q, A)
  PROVE  Good(m, E, p \o q, A)
<1>1. PICK G : Sound(m, G) /\ Proper(G, E, p) /\ F \subseteq Before(E, p, Len(p) + 1) BY DEF Good
<1>2. PICK H : Sound(m, H) /\ Proper(H, F, q) /\ A \subseteq Before(F, q, Len(q) + 1) BY DEF Good
<1>3. IsSeq(p) /\ IsSeq(q) BY <1>1, <1>2 DEF Proper
<1>4. Sound(m, G \union H) BY <1>1, <1>2, SoundUnion
<1>5. Proper(G \union H, E, p \o q)
  <2>1. SUFFICES ASSUME NEW k \in 1..Len(p \o q)
                 PROVE  \E D : <<D, (p \o q)[k]>> \in G \union H /\ D \subseteq Before(E, p \o q, k)
    BY <1>3, CatIs DEF Proper
  <2>2. CASE k \in 1..Len(p)
    <3>1. PICK D : <<D, p[k]>> \in G /\ D \subseteq Before(E, p, k) BY <1>1, <2>2 DEF Proper
    <3>2. Before(E, p \o q, k) = Before(E, p, k) BY <1>3, <2>2, BeforeFirst, SeqIs
    <3>3. (p \o q)[k] = p[k] BY <1>3, <2>2, CatIs
    <3>4. QED BY <3>1, <3>2, <3>3
  <2>3. CASE k \notin 1..Len(p)
    <3> DEFINE i == k - Len(p)
    <3>1. i \in 1..Len(q) /\ k = Len(p) + i BY <1>3, <2>3, CatIs, SeqIs
    <3> HIDE DEF i
    <3>2. PICK D : <<D, q[i]>> \in H /\ D \subseteq Before(F, q, i) BY <1>2, <3>1 DEF Proper
    <3>3. Before(F, q, i) \subseteq Before(E, p \o q, k) BY <1>1, <1>3, <3>1, BeforeCat, SeqIs
    <3>4. (p \o q)[k] = q[i] BY <1>3, <3>1, CatIs
    <3>5. QED BY <3>2, <3>3, <3>4
  <2>4. QED BY <2>2, <2>3
<1>6. A \subseteq Before(E, p \o q, Len(p \o q) + 1)
  <2>1. Len(p \o q) + 1 = Len(p) + (Len(q) + 1) BY <1>3, CatIs, SeqIs
  <2>2. Before(F, q, Len(q) + 1) \subseteq Before(E, p \o q, Len(p) + (Len(q) + 1))
    <3>1. Len(q) + 1 \in 1..(Len(q) + 1) BY <1>3, SeqIs
    <3>2. QED BY <1>1, <1>3, <3>1, BeforeCat
  <2>3. QED BY <1>2, <2>1, <2>2
<1>7. QED BY <1>4, <1>5, <1>6 DEF Good

\* Tokens that no test gives are kept.
LEMMA Keep ==
  ASSUME NEW m, NEW E, NEW p, NEW F, NEW A, Good(m, E, p, F),
         \A t \in A : t \in F \/ (t \in E /\ t[1] # "checked")
  PROVE  Good(m, E, p, A)
<1>1. PICK G : Sound(m, G) /\ Proper(G, E, p) /\ F \subseteq Before(E, p, Len(p) + 1) BY DEF Good
<1>2. A \subseteq Before(E, p, Len(p) + 1) BY <1>1 DEF Before
<1>3. QED BY <1>1, <1>2 DEF Good

LEMMA KeepAll ==
  ASSUME NEW m, NEW E, NEW p, NEW F, NEW A, Good(m, E, p, F), AllPlain(p), A \subseteq E \union F
  PROVE  Good(m, E, p, A)
<1>1. PICK G : Sound(m, G) /\ Proper(G, E, p) /\ F \subseteq Before(E, p, Len(p) + 1) BY DEF Good
<1>2. \A j \in 1..(Len(p) + 1 - 1) : Plain(p[j])
  <2>1. Len(p) \in Nat BY <1>1, SeqIs DEF Proper
  <2>2. QED BY <2>1 DEF AllPlain
<1>3. A \subseteq Before(E, p, Len(p) + 1) BY <1>1, <1>2 DEF Before
<1>4. QED BY <1>1, <1>3 DEF Good

\* A step on its own.
LEMMA Leaf ==
  ASSUME NEW m, NEW G, NEW E, NEW s, NEW F, Sound(m, G), StepOK(m, G, E, s),
         F \subseteq Gives(s) \union {t \in E : t[1] = "checked" => Plain(s)}
  PROVE  Good(m, E, <<s>>, F)
<1> DEFINE H == G \union {<<E, s>>}
<1>1. Sound(m, H)
  <2>1. SUFFICES ASSUME NEW D, NEW x, <<D, x>> \in H PROVE StepOK(m, H, D, x) BY DEF Sound
  <2>2. CASE <<D, x>> \in G
    <3>1. StepOK(m, G, D, x) BY <2>2 DEF Sound
    <3>2. QED BY <3>1, StepGrows
  <2>3. CASE <<D, x>> = <<E, s>>
    <3>1. StepOK(m, H, E, s) BY StepGrows
    <3>2. QED BY <2>3, <3>1
  <2>4. QED BY <2>1, <2>2, <2>3
<1>2. Proper(H, E, <<s>>)
  <2>1. E \subseteq Before(E, <<s>>, 1) BY DEF Before
  <2>2. QED BY <2>1, OneIs DEF Proper
<1>3. Before(E, <<s>>, 2) = Gives(s) \union {t \in E : t[1] = "checked" => Plain(s)}
  <2>1. 1..(2 - 1) = {1} /\ <<s>>[1] = s OBVIOUS
  <2>2. QED BY <2>1 DEF Before
<1>4. QED BY <1>1, <1>2, <1>3, OneIs DEF Good

LEMMA NothingSound == ASSUME NEW m PROVE Sound(m, {})
  BY DEF Sound

LEMMA Nothing == ASSUME NEW m, NEW E PROVE Good(m, E, << >>, {})
<1>1. Proper({}, E, << >>) BY NoneIs DEF Proper
<1>2. QED BY <1>1, NothingSound DEF Good

-----------------------------------------------------------------------------
\* The steps, one by one.

LEMMA ReadIs ==
  ASSUME NEW m, NEW E, NEW b, Ready(m, E, b), b \notin RatioBatches
  PROVE  Good(m, E, Read(b), {WasRead(b)})
<1> DEFINE s == [do |-> "read", b |-> b, then |-> << >>]
<1>1. StepOK(m, {}, E, s) BY DEF StepOK
<1>2. {WasRead(b)} \subseteq Gives(s) BY DEF Gives, GivesFirst
<1> HIDE DEF s
<1>3. Good(m, E, <<s>>, {WasRead(b)}) BY <1>1, <1>2, Leaf, NothingSound
<1>4. QED BY <1>3 DEF s, Read

LEMMA WriteIs ==
  ASSUME NEW m, NEW E, NEW b, Ready(m, E, b), b # "RAPL_UNIT",
         b = "FIXED_COUNTERS_CTRL_DATA" => WasRead(b) \in E
  PROVE  Good(m, E, Write(b), {})
<1> DEFINE s == [do |-> "write", b |-> b]
<1>1. StepOK(m, {}, E, s) BY DEF StepOK
<1> HIDE DEF s
<1>3. Good(m, E, <<s>>, {}) BY <1>1, Leaf, NothingSound
<1>4. QED BY <1>3 DEF s, Write

LEMMA PutIs ==
  ASSUME NEW m, NEW E, NEW b \in Batch, NEW msrs, NEW how \in {"zero", "whole", "field"},
         b # "RAPL_UNIT", how = "field" <=> b = "FIXED_COUNTERS_CTRL_DATA",
         how = "field" => WasRead(b) \in E
  PROVE  Good(m, E, Put(b, msrs, how), {})
<1> DEFINE s == [do |-> "put", b |-> b, msrs |-> msrs, how |-> how]
<1>1. StepOK(m, {}, E, s) BY DEF StepOK
<1> HIDE DEF s
<1>3. Good(m, E, <<s>>, {}) BY <1>1, Leaf, NothingSound
<1>4. QED BY <1>3 DEF s, Put

LEMMA ShowIs ==
  ASSUME NEW m, NEW E, NEW b,
         \/ b = "UNCORE_COUNT"
         \/ /\ b \in Batch /\ WasRead(b) \in E
            /\ b \in RatioBatches => WasChecked(b) \in E
  PROVE  Good(m, E, Show(b), {})
<1> DEFINE s == [do |-> "show", b |-> b]
<1>1. StepOK(m, {}, E, s) BY DEF StepOK
<1> HIDE DEF s
<1>3. Good(m, E, <<s>>, {}) BY <1>1, Leaf, NothingSound
<1>4. QED BY <1>3 DEF s, Show

LEMMA ConvertIs ==
  ASSUME NEW m, NEW E, UnitsReady \in E
  PROVE  Good(m, E, Convert, {})
<1> DEFINE s == [do |-> "convert"]
<1>1. StepOK(m, {}, E, s) BY DEF StepOK
<1> HIDE DEF s
<1>3. Good(m, E, <<s>>, {}) BY <1>1, Leaf, NothingSound
<1>4. QED BY <1>3 DEF s, Convert

LEMMA TakeUnitsIs ==
  ASSUME NEW m, NEW E, {Flag("RAPL_UNIT"), WasRead("RAPL_UNIT")} \subseteq E
  PROVE  Good(m, E, TakeUnits, {UnitsReady})
<1> DEFINE s == [do |-> "take_units"]
<1>1. StepOK(m, {}, E, s) BY DEF StepOK
<1>2. {UnitsReady} \subseteq Gives(s) BY DEF Gives, GivesFirst
<1> HIDE DEF s
<1>3. Good(m, E, <<s>>, {UnitsReady}) BY <1>1, <1>2, Leaf, NothingSound
<1>4. QED BY <1>3 DEF s, TakeUnits

LEMMA DereferenceIs ==
  ASSUME NEW m, NEW E
  PROVE  Good(m, E, Dereference, {})
<1> DEFINE s == [do |-> "crash"]
<1>1. StepOK(m, {}, E, s) BY DEF StepOK
<1> HIDE DEF s
<1>3. Good(m, E, <<s>>, {}) BY <1>1, Leaf, NothingSound
<1>4. QED BY <1>3 DEF s, Dereference

LEMMA CapIs ==
  ASSUME NEW m, NEW E, NEW n \in Socket
  PROVE  StepOK(m, {}, E, CapSocket(n)) /\ StepOK(m, {}, E, TurboSocket(n))
  BY DEF StepOK, CapSocket, TurboSocket

\* What stands behind a flag.
LEMMA OnceStorage ==
  ASSUME NEW m, NEW E, NEW f \in StaticFlag, NEW then, f \in StorageFlag, Block(m, f, then)
  PROVE  Good(m, E, Once(f, then), {Flag(f)})
<1> DEFINE s == [do |-> "once", flag |-> f, then |-> then]
<1>1. StepOK(m, {}, E, s) BY DEF StepOK
<1>2. {Flag(f)} \subseteq Gives(s) BY DEF Gives, GivesFirst
<1> HIDE DEF s
<1>3. Good(m, E, <<s>>, {Flag(f)}) BY <1>1, <1>2, Leaf, NothingSound
<1>4. QED BY <1>3 DEF s, Once

LEMMA OnceKnown ==
  ASSUME NEW m, NEW E, NEW f \in StaticFlag, NEW then, Flag(f) \in E
  PROVE  Good(m, E, Once(f, then), {Flag(f)} \union Implied(f))
<1> DEFINE s == [do |-> "once", flag |-> f, then |-> then]
<1>1. StepOK(m, {}, E, s) BY DEF StepOK
<1>2. {Flag(f)} \union Implied(f) \subseteq Gives(s) BY DEF Gives, GivesFirst
<1> HIDE DEF s
<1>3. Good(m, E, <<s>>, {Flag(f)} \union Implied(f)) BY <1>1, <1>2, Leaf, NothingSound
<1>4. QED BY <1>3 DEF s, Once

LEMMA OnceOther ==
  ASSUME NEW m, NEW E, NEW f \in StaticFlag, NEW then, NEW F, f \notin StorageFlag,
         Good(m, E, then, F), AllPlain(then), \A t \in Implied(f) : LeadsTo(then, t)
  PROVE  Good(m, E, Once(f, then), {Flag(f)} \union Implied(f))
<1> DEFINE s == [do |-> "once", flag |-> f, then |-> then]
<1>1. PICK G : Sound(m, G) /\ Proper(G, E, then) BY DEF Good
<1>2. StepOK(m, G, E, s) BY <1>1 DEF StepOK, Compound
<1>3. {Flag(f)} \union Implied(f) \subseteq Gives(s) BY DEF Gives, GivesFirst
<1> HIDE DEF s
<1>4. Good(m, E, <<s>>, {Flag(f)} \union Implied(f)) BY <1>1, <1>2, <1>3, Leaf
<1>5. QED BY <1>4 DEF s, Once

\* What is done after a test, if the sockets agree, and level by level.
LEMMA CheckIs ==
  ASSUME NEW m, NEW E, NEW b, NEW then, NEW F, Ready(m, E, b),
         Good(m, E \union {WasRead(b)} \union Tested(b), then, F)
  PROVE  Good(m, E, Check(b, then), {})
<1> DEFINE s == [do |-> "check", b |-> b, then |-> then]
<1>1. PICK G : Sound(m, G) /\ Proper(G, E \union {WasRead(b)} \union Tested(b), then) BY DEF Good
<1>2. StepOK(m, G, E, s) BY <1>1 DEF StepOK
<1> HIDE DEF s
<1>4. Good(m, E, <<s>>, {}) BY <1>1, <1>2, Leaf
<1>5. QED BY <1>4 DEF s, Check

LEMMA AgreeIs ==
  ASSUME NEW m, NEW E, NEW then, NEW F, Good(m, E, then, F)
  PROVE  Good(m, E, Agree(then), {})
<1> DEFINE s == [do |-> "agree", then |-> then]
<1>1. PICK G : Sound(m, G) /\ Proper(G, E, then) BY DEF Good
<1>2. StepOK(m, G, E, s) BY <1>1 DEF StepOK
<1> HIDE DEF s
<1>4. Good(m, E, <<s>>, {}) BY <1>1, <1>2, Leaf
<1>5. QED BY <1>4 DEF s, Agree

LEMMA LevelsIs ==
  ASSUME NEW m, NEW E, NEW p, NEW q, NEW r, Good(m, E, p, {}), Good(m, E, q, {}), Good(m, E, r, {})
  PROVE  Good(m, E, Levels(p, q, r), {})
<1> DEFINE s == [do |-> "levels", then |-> <<r, q, p>>]
<1>1. PICK G1 : Sound(m, G1) /\ Proper(G1, E, p) BY DEF Good
<1>2. PICK G2 : Sound(m, G2) /\ Proper(G2, E, q) BY DEF Good
<1>3. PICK G3 : Sound(m, G3) /\ Proper(G3, E, r) BY DEF Good
<1> DEFINE G == (G1 \union G2) \union G3
<1>4. Sound(m, G) BY <1>1, <1>2, <1>3, SoundUnion
<1>5. G1 \subseteq G /\ G2 \subseteq G /\ G3 \subseteq G OBVIOUS
<1> HIDE DEF G
<1>6. Proper(G, E, p) /\ Proper(G, E, q) /\ Proper(G, E, r)
  BY <1>1, <1>2, <1>3, <1>5, ProperGrows
<1>7. StepOK(m, G, E, s)
  <2>1. DOMAIN s.then = 1..3 OBVIOUS
  <2>2. ASSUME NEW i \in 1..3 PROVE Proper(G, E, s.then[i])
    <3>1. i = 1 \/ i = 2 \/ i = 3 OBVIOUS
    <3>2. s.then[1] = r /\ s.then[2] = q /\ s.then[3] = p OBVIOUS
    <3>3. QED BY <3>1, <3>2, <1>6
  <2>3. s.do = "levels" OBVIOUS
  <2> HIDE DEF s
  <2>4. QED BY <2>1, <2>2, <2>3 DEF StepOK
<1> HIDE DEF s
<1>8. Good(m, E, <<s>>, {}) BY <1>4, <1>7, Leaf
<1>9. QED BY <1>8 DEF s, Levels

-----------------------------------------------------------------------------
\* What is done before anything else.

LEMMA PlainCat ==
  ASSUME NEW p, NEW q, IsSeq(p), IsSeq(q), AllPlain(p), AllPlain(q)
  PROVE  AllPlain(p \o q)
<1>1. SUFFICES ASSUME NEW k \in 1..Len(p \o q) PROVE Plain((p \o q)[k]) BY DEF AllPlain
<1>2. CASE k \in 1..Len(p) BY <1>2, CatIs DEF AllPlain
<1>3. CASE k \notin 1..Len(p)
  <2>1. k - Len(p) \in 1..Len(q) /\ k = Len(p) + (k - Len(p)) BY <1>3, CatIs, SeqIs
  <2>2. QED BY <2>1, CatIs DEF AllPlain
<1>4. QED BY <1>2, <1>3

LEMMA SimpleCat ==
  ASSUME NEW p, NEW q, IsSeq(p), IsSeq(q), AllSimple(p), AllSimple(q)
  PROVE  AllSimple(p \o q)
<1>1. SUFFICES ASSUME NEW k \in 1..Len(p \o q) PROVE Simple((p \o q)[k]) BY DEF AllSimple
<1>2. CASE k \in 1..Len(p) BY <1>2, CatIs DEF AllSimple
<1>3. CASE k \notin 1..Len(p)
  <2>1. k - Len(p) \in 1..Len(q) /\ k = Len(p) + (k - Len(p)) BY <1>3, CatIs, SeqIs
  <2>2. QED BY <2>1, CatIs DEF AllSimple
<1>4. QED BY <1>2, <1>3

LEMMA SimpleIsPlain ==
  ASSUME NEW p, AllSimple(p)
  PROVE  AllPlain(p)
  BY DEF AllSimple, AllPlain, Simple, Plain

LEMMA LeadsSooner ==
  ASSUME NEW p, NEW q, NEW t, IsSeq(p), IsSeq(q), LeadsTo(p, t)
  PROVE  LeadsTo(p \o q, t)
<1>1. PICK k \in 1..Len(p) : t \in GivesFirst(p[k]) /\ \A j \in 1..(k - 1) : Simple(p[j])
  BY DEF LeadsTo
<1>2. k \in 1..Len(p \o q) /\ (p \o q)[k] = p[k] BY CatIs, SeqIs
<1>3. \A j \in 1..(k - 1) : (p \o q)[j] = p[j] BY CatIs, SeqIs
<1>4. QED BY <1>1, <1>2, <1>3 DEF LeadsTo

LEMMA LeadsLater ==
  ASSUME NEW p, NEW q, NEW t, IsSeq(p), IsSeq(q), AllSimple(p), LeadsTo(q, t)
  PROVE  LeadsTo(p \o q, t)
<1>1. PICK k \in 1..Len(q) : t \in GivesFirst(q[k]) /\ \A j \in 1..(k - 1) : Simple(q[j])
  BY DEF LeadsTo
<1> DEFINE i == Len(p) + k
<1>2. i \in 1..Len(p \o q) /\ (p \o q)[i] = q[k] BY CatIs, SeqIs
<1>3. ASSUME NEW j \in 1..(i - 1) PROVE Simple((p \o q)[j])
  <2>1. CASE j \in 1..Len(p) BY <2>1, CatIs DEF AllSimple
  <2>2. CASE j \notin 1..Len(p)
    <3>1. j - Len(p) \in 1..(k - 1) /\ j = Len(p) + (j - Len(p)) BY <2>2, SeqIs
    <3>2. (p \o q)[j] = q[j - Len(p)] BY <3>1, CatIs, SeqIs
    <3>3. QED BY <1>1, <3>1, <3>2
  <2>3. QED BY <2>1, <2>2
<1> HIDE DEF i
<1>4. QED BY <1>1, <1>2, <1>3 DEF LeadsTo

\* One step gives what it gives at once.
LEMMA LeadsNow ==
  ASSUME NEW s, NEW t, t \in GivesFirst(s)
  PROVE  LeadsTo(<<s>>, t)
<1>1. \A j \in 1..(1 - 1) : Simple(<<s>>[j]) OBVIOUS
<1>2. QED BY <1>1, OneIs DEF LeadsTo

-----------------------------------------------------------------------------
\* Storage.

\* The topology: positive numbers, and as many visited processors per register
\* as sockets or threads.
LEMMA Topology ==
  /\ NSOCKETS \in Nat \ {0} /\ NCORES \in Nat \ {0} /\ NTHREADS \in Nat \ {0} /\ NPMC \in Nat \ {0}
  /\ NPMC >= 2
  /\ \A b : Width(b) \in Nat \ {0}
  BY TopologyAssumption DEF Width

\* Multiplication, which the provers do not do by themselves.
LEMMA TimesMonotone ==
  ASSUME NEW a \in Nat, NEW b \in Nat, NEW w \in Nat, a <= b
  PROVE  a * w <= b * w
<1>1. PICK d \in Nat : b = a + d BY SMT
<1>2. b * w = a * w + d * w BY <1>1
<1>3. d * w \in Nat /\ a * w \in Nat OBVIOUS
<1>4. QED BY <1>2, <1>3

\* One batch behind its own flag: allocated once, then loaded register by register.
LEMMA OneBatch ==
  ASSUME NEW m, NEW b \in Batch, NEW n \in Nat, NEW q, NEW c \in Nat \ {0}, NEW regs,
         Uses(m, b), \A a \in Batch : FlagOf(a) = FlagOf(b) => a = b,
         b = "RAPL_UNIT" => n = NSOCKETS,
         c * Width(b) <= n,
         IsSeq(q), Len(q) = c,
         \A k \in 1..c : /\ q[k] = [do |-> "load", b |-> b, msr |-> regs[k], cpus |-> CpusOf(b)]
                         /\ regs[k] \in Register
                         /\ Belongs(m, b, Address(m, regs[k])),
         \A j, k \in 1..c : j # k /\ Address(m, regs[j]) # Absent
                              => Address(m, regs[j]) # Address(m, regs[k])
  PROVE  Block(m, FlagOf(b), Allocate(b, n) \o q)
<1> DEFINE s == [do |-> "allocate", b |-> b, n |-> n]
           p == <<s>> \o q
<1>1. IsSeq(p) /\ Len(p) = c + 1 /\ p[1] = s /\ \A k \in 1..c : p[k + 1] = q[k]
  <2>1. \A k \in 1..c : p[1 + k] = q[k] BY CatIs, OneIs
  <2>2. QED BY <2>1, CatIs, OneIs
<1>2. s.do = "allocate" /\ s.b = b /\ s.n = n OBVIOUS
<1>3. p = Allocate(b, n) \o q BY DEF Allocate
<1> HIDE DEF p, s
<1>4. ASSUME NEW k \in 2..(c + 1)
      PROVE  /\ p[k].do = "load" /\ p[k].b = b /\ p[k].msr = regs[k - 1] /\ p[k].cpus = CpusOf(b)
             /\ k - 1 \in 1..c
  <2>1. k - 1 \in 1..c /\ k = (k - 1) + 1 OBVIOUS
  <2>2. p[k] = q[k - 1] BY <1>1, <2>1
  <2>3. q[k - 1] = [do |-> "load", b |-> b, msr |-> regs[k - 1], cpus |-> CpusOf(b)] BY <2>1
  <2>4. QED BY <2>1, <2>2, <2>3
<1>5. LoadsOf(p, b) = 2..(c + 1) /\ AllocatesOf(p, b) = {1}
  <2>1. 1..Len(p) = {1} \union 2..(c + 1) BY <1>1
  <2>2. p[1].do = "allocate" /\ p[1].b = b BY <1>1, <1>2
  <2>3. QED BY <2>1, <2>2, <1>4 DEF LoadsOf, AllocatesOf
<1>6. ASSUME NEW a \in Batch, a # b PROVE LoadsOf(p, a) = {} /\ AllocatesOf(p, a) = {}
  <2>1. \A k \in 1..Len(p) : k = 1 \/ k \in 2..(c + 1) BY <1>1
  <2>2. p[1].b = b BY <1>1, <1>2
  <2>3. \A k \in 1..Len(p) : p[k].b = b BY <2>1, <2>2, <1>4
  <2>4. QED BY <2>3, <1>6 DEF LoadsOf, AllocatesOf
<1>7. ASSUME NEW k \in 1..Len(p) PROVE InitStepOK(m, p[k]) /\ FlagOf(p[k].b) = FlagOf(b)
  <2>1. CASE k = 1 BY <2>1, <1>1, <1>2 DEF InitStepOK, IsInit
  <2>2. CASE k # 1
    <3>1. k \in 2..(c + 1) BY <2>2, <1>1
    <3>2. QED BY <3>1, <1>4 DEF InitStepOK, IsInit
  <2>3. QED BY <2>1, <2>2
<1>8. FitIn(p, b, n)
  <2>1. SUFFICES ASSUME NEW j \in 2..(c + 1), NEW k \in 2..(c + 1), j <= k
                 PROVE  (k - j + 1) * Width(b) <= n
    BY <1>5 DEF FitIn
  <2>2. k - j + 1 \in Nat /\ k - j + 1 <= c BY <2>1
  <2>3. (k - j + 1) * Width(b) <= c * Width(b) BY <2>2, TimesMonotone, Topology
  <2>4. (k - j + 1) * Width(b) \in Nat /\ c * Width(b) \in Nat BY <2>2, Topology
  <2>5. QED BY <2>3, <2>4
<1>9. Filling(m, p, b, << >>, 0)
  <2>1. p[1].n = n BY <1>1, <1>2
  <2>2. \A k \in LoadsOf(p, b) : 1 < k BY <1>5
  <2>3. ASSUME NEW j \in LoadsOf(p, b), NEW k \in LoadsOf(p, b), j # k,
               Address(m, p[j].msr) # Absent
        PROVE  Address(m, p[k].msr) # Address(m, p[j].msr)
    <3>1. p[j].msr = regs[j - 1] /\ p[k].msr = regs[k - 1] /\ j - 1 \in 1..c /\ k - 1 \in 1..c
      BY <1>4, <1>5
    <3>2. j - 1 # k - 1 BY <2>3, <1>5
    <3>3. QED BY <3>1, <3>2, <2>3
  <2>4. DOMAIN << >> = {} OBVIOUS
  <2>5. QED BY <1>5, <1>8, <2>1, <2>2, <2>3, <2>4 DEF Filling, AllReads
<1>10. ASSUME NEW a \in Batch, a # b PROVE Filling(m, p, a, << >>, 0)
  <2>1. DOMAIN << >> = {} OBVIOUS
  <2>2. QED BY <1>6, <1>10, <2>1 DEF Filling, FitIn
<1>11. 2 \in LoadsOf(p, b) BY <1>5
<1>12. ASSUME NEW a \in Batch
       PROVE  Filling(m, p, a, << >>, 0) /\ (FlagOf(a) = FlagOf(b) /\ Uses(m, a) => LoadsOf(p, a) # {})
  BY <1>9, <1>10, <1>11
<1>13. QED BY <1>1, <1>3, <1>7, <1>12 DEF Block

\* An address the table has, and registers nothing special is asked of.
LEMMA AddressIs ==
  ASSUME NEW m, NEW x, NEW k, x \in Table[m]
  PROVE  Address(m, <<x, k>>) = <<x, k>>
  BY DEF Address

LEMMA OrdinaryBelongs ==
  ASSUME NEW m, NEW b, NEW x \in Name, NEW k \in Nat,
         x \notin {"MISC_ENABLE", "PKG_POWER_LIMIT", "PERF_GLOBAL_CTRL", "FIXED_CTR_CTRL", "none"},
         b \notin {"FIXED_COUNTERS_CTRL_DATA", "RAPL_UNIT"}
  PROVE  Belongs(m, b, <<x, k>>)
  BY DEF Belongs, Controls, R, Absent, Register

LEMMA RegisterIs ==
  ASSUME NEW x \in Name
  PROVE  R(x) = <<x, 0>> /\ R(x) \in Register
  BY DEF R, Register

LEMMA AbsentBelongs ==
  ASSUME NEW m, NEW b, b = "UNCORE_EVTSEL" \/ (b = "RAPL_DATA" /\ m \in {"2A", "2D"})
  PROVE  Belongs(m, b, Absent)
<1>1. Absent \in Register
  <2>1. "none" \in Name BY DEF Name
  <2>2. QED BY <2>1, RegisterIs DEF Absent
<1>2. Absent \notin {R("MISC_ENABLE"), R("PKG_POWER_LIMIT")} BY DEF Absent, R
<1>3. Absent \notin Controls BY DEF Absent, R, Controls
<1>4. b # "FIXED_COUNTERS_CTRL_DATA" /\ b # "RAPL_UNIT" OBVIOUS
<1>5. QED BY <1>1, <1>2, <1>3, <1>4 DEF Belongs

LEMMA CatThree ==
  ASSUME NEW a, NEW b, NEW c
  PROVE  <<a>> \o <<b>> \o <<c>> = <<a>> \o <<b, c>>
<1> DEFINE p == <<a>> \o <<b>> \o <<c>>
           q == <<a>> \o <<b, c>>
<1>1. p \in Seq({a, b, c}) /\ q \in Seq({a, b, c}) OBVIOUS
<1>2. Len(p) = 3 /\ Len(q) = 3 OBVIOUS
<1>3. p[1] = a /\ p[2] = b /\ p[3] = c OBVIOUS
<1>4. q[1] = a /\ q[2] = b /\ q[3] = c OBVIOUS
<1> HIDE DEF p, q
<1>5. \A k \in 1..3 : p[k] = q[k]
  <2>1. \A k \in 1..3 : k = 1 \/ k = 2 \/ k = 3 OBVIOUS
  <2>2. QED BY <2>1, <1>3, <1>4
<1>6. p = q BY <1>1, <1>2, <1>5
<1>7. QED BY <1>6 DEF p, q

LEMMA CatFour ==
  ASSUME NEW a, NEW b, NEW c, NEW d
  PROVE  <<a>> \o <<b>> \o <<c>> \o <<d>> = <<a>> \o <<b, c, d>>
<1> DEFINE p == <<a>> \o <<b>> \o <<c>> \o <<d>>
           q == <<a>> \o <<b, c, d>>
<1>1. p \in Seq({a, b, c, d}) /\ q \in Seq({a, b, c, d}) OBVIOUS
<1>2. Len(p) = 4 /\ Len(q) = 4 OBVIOUS
<1>3. p[1] = a /\ p[2] = b /\ p[3] = c /\ p[4] = d OBVIOUS
<1>4. q[1] = a /\ q[2] = b /\ q[3] = c /\ q[4] = d OBVIOUS
<1> HIDE DEF p, q
<1>5. \A k \in 1..4 : p[k] = q[k]
  <2>1. \A k \in 1..4 : k = 1 \/ k = 2 \/ k = 3 \/ k = 4 OBVIOUS
  <2>2. QED BY <2>1, <1>3, <1>4
<1>6. p = q BY <1>1, <1>2, <1>5
<1>7. QED BY <1>6 DEF p, q

LEMMA TwoIs ==
  ASSUME NEW a, NEW b
  PROVE  IsSeq(<<a, b>>) /\ Len(<<a, b>>) = 2 /\ <<a, b>>[1] = a /\ <<a, b>>[2] = b
<1>1. <<a, b>> \in Seq({a, b}) OBVIOUS
<1>2. QED BY <1>1 DEF IsSeq

LEMMA ThreeIs ==
  ASSUME NEW a, NEW b, NEW c
  PROVE  /\ IsSeq(<<a, b, c>>) /\ Len(<<a, b, c>>) = 3
         /\ <<a, b, c>>[1] = a /\ <<a, b, c>>[2] = b /\ <<a, b, c>>[3] = c
<1>1. <<a, b, c>> \in Seq({a, b, c}) OBVIOUS
<1>2. QED BY <1>1 DEF IsSeq

\* A storage flag has one batch, but for the turbo ratios.
LEMMA FlagIsOfOne ==
  ASSUME NEW b \in Batch,
         b \notin {"TURBO_RATIO_LIMIT", "TURBO_RATIO_LIMIT1", "TURBO_RATIO_LIMIT_CORES"}
  PROVE  /\ \A a \in Batch : FlagOf(a) = FlagOf(b) => a = b
         /\ \A m : Uses(m, b)
         /\ FlagOf(b) \in StorageFlag
<1>1. \A a \in Batch : FlagOf(a) = FlagOf(b) => a = b BY DEF FlagOf, Batch
<1>2. \A m : Uses(m, b) BY DEF Uses
<1>3. QED BY <1>1, <1>2 DEF StorageFlag

LEMMA FlagIsStatic ==
  ASSUME NEW b \in Batch
  PROVE  FlagOf(b) \in StaticFlag
  BY DEF FlagOf, Batch, StaticFlag

\* One register for each processor.
LEMMA OneRegister ==
  ASSUME NEW m, NEW E, NEW b \in Batch, NEW n \in Nat, NEW msr \in Register,
         b \notin {"TURBO_RATIO_LIMIT", "TURBO_RATIO_LIMIT1", "TURBO_RATIO_LIMIT_CORES"},
         b = "RAPL_UNIT" => n = NSOCKETS, Width(b) <= n,
         Belongs(m, b, Address(m, msr))
  PROVE  Good(m, E, Once(FlagOf(b), Allocate(b, n) \o Load(b, msr, CpusOf(b))), {Flag(FlagOf(b))})
<1> DEFINE q == Load(b, msr, CpusOf(b))
           regs == <<msr>>
<1>1. /\ IsSeq(q) /\ Len(q) = 1
      /\ q[1] = [do |-> "load", b |-> b, msr |-> msr, cpus |-> CpusOf(b)]
  BY OneIs DEF Load
<1>2. \A k \in 1..1 : k = 1 OBVIOUS
<1>3. 1 * Width(b) <= n BY Topology
<1>4. regs[1] = msr OBVIOUS
<1> HIDE DEF q, regs
<1>5. Block(m, FlagOf(b), Allocate(b, n) \o q)
  <2>1. \A k \in 1..1 : /\ q[k] = [do |-> "load", b |-> b, msr |-> regs[k], cpus |-> CpusOf(b)]
                        /\ regs[k] \in Register
                        /\ Belongs(m, b, Address(m, regs[k]))
    BY <1>1, <1>2, <1>4
  <2>2. \A j, k \in 1..1 : j # k /\ Address(m, regs[j]) # Absent
                              => Address(m, regs[j]) # Address(m, regs[k])
    BY <1>2
  <2>3. 1 \in Nat \ {0} OBVIOUS
  <2>4. Uses(m, b) /\ \A a \in Batch : FlagOf(a) = FlagOf(b) => a = b BY FlagIsOfOne
  <2>5. QED BY ONLY <2>1, <2>2, <2>3, <2>4, <1>1, <1>3, OneBatch,
                    b \in Batch, n \in Nat, b = "RAPL_UNIT" => n = NSOCKETS
<1>6. FlagOf(b) \in StorageFlag /\ FlagOf(b) \in StaticFlag BY FlagIsOfOne, FlagIsStatic
<1>7. QED BY <1>5, <1>6, OnceStorage DEF q

\* Registers of an array, up and down.
LEMMA Array ==
  ASSUME NEW m, NEW E, NEW b \in Batch, NEW n \in Nat, NEW c \in Nat \ {0}, NEW name \in Name,
         NEW q, NEW index, \A k \in 1..c : index[k] \in Nat,
         \A j, k \in 1..c : index[j] = index[k] => j = k,
         b \notin {"TURBO_RATIO_LIMIT", "TURBO_RATIO_LIMIT1", "TURBO_RATIO_LIMIT_CORES"},
         b \notin {"FIXED_COUNTERS_CTRL_DATA", "RAPL_UNIT"},
         name \notin {"MISC_ENABLE", "PKG_POWER_LIMIT", "PERF_GLOBAL_CTRL", "FIXED_CTR_CTRL", "none"},
         c * Width(b) <= n,
         name \in Table[m] \/ b = "UNCORE_EVTSEL",
         q = [k \in 1..c |-> Load(b, <<name, index[k]>>, CpusOf(b))[1]]
  PROVE  Good(m, E, Once(FlagOf(b), Allocate(b, n) \o q), {Flag(FlagOf(b))})
<1> DEFINE regs == [k \in 1..c |-> <<name, index[k]>>]
<1>1. IsSeq(q) /\ Len(q) = c
  <2>1. \A k \in 1..c : q[k] = Load(b, <<name, index[k]>>, CpusOf(b))[1] OBVIOUS
  <2>2. q = [k \in 1..c |-> q[k]] OBVIOUS
  <2>3. QED BY <2>2, FunIs
<1>2. \A k \in 1..c : /\ q[k] = [do |-> "load", b |-> b, msr |-> regs[k], cpus |-> CpusOf(b)]
                      /\ regs[k] = <<name, index[k]>>
  BY DEF Load
<1> HIDE DEF regs
<1>3. ASSUME NEW k \in 1..c
      PROVE  regs[k] \in Register /\ Belongs(m, b, Address(m, regs[k]))
  <2>1. regs[k] = <<name, index[k]>> /\ index[k] \in Nat BY <1>2
  <2>2. regs[k] \in Register BY <2>1 DEF Register
  <2>3. CASE name \in Table[m]
    <3>1. Address(m, regs[k]) = <<name, index[k]>> BY <2>1, <2>3, AddressIs
    <3>2. index[k] \in Nat BY <2>1
    <3> DEFINE i == index[k]
    <3> HIDE DEF i
    <3>3. Belongs(m, b, <<name, i>>) BY <3>2, OrdinaryBelongs DEF i
    <3>4. QED BY <2>2, <3>1, <3>3 DEF i
  <2>4. CASE name \notin Table[m]
    <3>1. Address(m, regs[k]) = Absent BY <2>1, <2>4 DEF Address
    <3>2. b = "UNCORE_EVTSEL" BY <2>4
    <3>3. QED BY <2>2, <3>1, <3>2, AbsentBelongs
  <2>5. QED BY <2>3, <2>4
<1>4. ASSUME NEW j \in 1..c, NEW k \in 1..c, j # k, Address(m, regs[j]) # Absent
      PROVE  Address(m, regs[j]) # Address(m, regs[k])
  <2>1. regs[j] = <<name, index[j]>> /\ regs[k] = <<name, index[k]>> /\ index[j] # index[k]
    BY <1>2, <1>4
  <2>2. name \in Table[m] BY <1>4, <2>1 DEF Address
  <2>3. QED BY <2>1, <2>2, AddressIs
<1>5. Block(m, FlagOf(b), Allocate(b, n) \o q)
  <2>1. \A k \in 1..c : /\ q[k] = [do |-> "load", b |-> b, msr |-> regs[k], cpus |-> CpusOf(b)]
                        /\ regs[k] \in Register
                        /\ Belongs(m, b, Address(m, regs[k]))
    BY <1>2, <1>3
  <2>2. Uses(m, b) /\ \A a \in Batch : FlagOf(a) = FlagOf(b) => a = b BY FlagIsOfOne
  <2>3. b # "RAPL_UNIT" OBVIOUS
  <2>4. QED BY ONLY <2>1, <2>2, <2>3, <1>1, <1>4, OneBatch, b \in Batch, n \in Nat, c \in Nat \ {0},
                    c * Width(b) <= n
<1>6. FlagOf(b) \in StorageFlag /\ FlagOf(b) \in StaticFlag BY FlagIsOfOne, FlagIsStatic
<1>7. QED BY <1>5, <1>6, OnceStorage

-----------------------------------------------------------------------------
\* The storage of each batch.

\* A batch that is loaded per socket, and one that is loaded per thread.
LEMMA SocketBatch == ASSUME NEW b \in PerSocket
                     PROVE  CpusOf(b) = SocketCpus /\ Width(b) = NSOCKETS /\ b \in Batch
  BY DEF CpusOf, Width, PerSocket, Batch
LEMMA ThreadBatch == ASSUME NEW b \in Batch \ PerSocket
                     PROVE  CpusOf(b) = ThreadCpus /\ Width(b) = NTHREADS
  BY DEF CpusOf, Width

LEMMA SocketStorageIs ==
  ASSUME NEW m, NEW E, NEW msr \in Register,
         NEW b \in {"RAPL_UNIT", "PKG_THERM_STAT", "TEMP_TARGET", "PLATFORM_INFO",
                    "MIN_OPERATING_RATIO", "MAX_EFFICIENCY", "TDP_DEFS", "TDP_CONFIG"},
         Belongs(m, b, Address(m, msr))
  PROVE  /\ Good(m, E, SocketStorage(b, msr), {Flag(b)})
         /\ \A F : Flag(b) \in F => Ready(m, F, b)
<1>1. b \in PerSocket /\ FlagOf(b) = b BY DEF PerSocket, FlagOf
<1>2. CpusOf(b) = SocketCpus /\ Width(b) = NSOCKETS /\ b \in Batch BY <1>1, SocketBatch
<1>3. NSOCKETS \in Nat /\ NSOCKETS <= NSOCKETS BY Topology
<1>4. b \notin {"TURBO_RATIO_LIMIT", "TURBO_RATIO_LIMIT1", "TURBO_RATIO_LIMIT_CORES"} OBVIOUS
<1>5. Good(m, E, Once(FlagOf(b), Allocate(b, NSOCKETS) \o Load(b, msr, CpusOf(b))), {Flag(FlagOf(b))})
  BY <1>2, <1>3, <1>4, OneRegister
<1>6. Uses(m, b) BY <1>4 DEF Uses
<1>7. QED BY <1>1, <1>2, <1>5, <1>6 DEF SocketStorage, Ready

\* With its flag up, a batch is ready; of the second turbo batches, the model's own.
LEMMA FlagMakesReady ==
  ASSUME NEW m, NEW E, NEW b \in Batch, Flag(FlagOf(b)) \in E,
         b \notin {"TURBO_RATIO_LIMIT1", "TURBO_RATIO_LIMIT_CORES"}
  PROVE  Ready(m, E, b)
  BY DEF Ready, Uses

LEMMA FixedCounterStorage ==
  ASSUME NEW m, NEW E, "FIXED_CTR" \in Table[m]
  PROVE  Good(m, E, fixed_counter_storage, {Flag("fixed_counter_storage")})
<1> DEFINE b == "FIXED_COUNTERS_DATA"
           q == LoadUp(b, "FIXED_CTR", 3, ThreadCpus)
           index == [k \in 1..3 |-> k - 1]
<1>1. b \in Batch \ PerSocket /\ FlagOf(b) = "fixed_counter_storage" BY DEF Batch, PerSocket, FlagOf
<1>2. CpusOf(b) = ThreadCpus /\ Width(b) = NTHREADS BY <1>1, ThreadBatch
<1>3. 3 * NTHREADS \in Nat BY Topology
<1>4. "FIXED_CTR" \in Name BY DEF Name
<1>5. /\ \A k \in 1..3 : index[k] \in Nat
      /\ \A j, k \in 1..3 : index[j] = index[k] => j = k
  OBVIOUS
<1>6. q = [k \in 1..3 |-> Load(b, <<"FIXED_CTR", index[k]>>, CpusOf(b))[1]] BY <1>2 DEF LoadUp
<1>7. Good(m, E, Once(FlagOf(b), Allocate(b, 3 * NTHREADS) \o q), {Flag(FlagOf(b))})
  <2> DEFINE c == 3
  <2>1. c * Width(b) <= 3 * NTHREADS /\ c \in Nat \ {0} BY <1>2, <1>3
  <2>2. /\ \A k \in 1..c : index[k] \in Nat
        /\ \A j, k \in 1..c : index[j] = index[k] => j = k
        /\ q = [k \in 1..c |-> Load(b, <<"FIXED_CTR", index[k]>>, CpusOf(b))[1]]
    BY <1>5, <1>6
  <2> HIDE DEF q, index, c
  <2>3. QED BY <1>1, <1>3, <1>4, <2>1, <2>2, Array
<1>8. QED BY <1>1, <1>7 DEF fixed_counter_storage

LEMMA PmcStorage ==
  ASSUME NEW m, NEW E, "PERFMON" \in Table[m]
  PROVE  Good(m, E, pmc_storage, {Flag("pmc_storage")})
<1> DEFINE b == "COUNTERS_DATA"
           q == LoadDown(b, "PERFMON", NPMC, ThreadCpus)
           index == [k \in 1..NPMC |-> NPMC - k]
<1>1. b \in Batch \ PerSocket /\ FlagOf(b) = "pmc_storage" BY DEF Batch, PerSocket, FlagOf
<1>2. CpusOf(b) = ThreadCpus /\ Width(b) = NTHREADS BY <1>1, ThreadBatch
<1>3. NPMC \in Nat \ {0} /\ NPMC * NTHREADS \in Nat BY Topology
<1>4. "PERFMON" \in Name BY DEF Name
<1>5. /\ \A k \in 1..NPMC : index[k] \in Nat
      /\ \A j, k \in 1..NPMC : index[j] = index[k] => j = k
  BY <1>3
<1>6. q = [k \in 1..NPMC |-> Load(b, <<"PERFMON", index[k]>>, CpusOf(b))[1]] BY <1>2 DEF LoadDown
<1>7. Good(m, E, Once(FlagOf(b), Allocate(b, NPMC * NTHREADS) \o q), {Flag(FlagOf(b))})
  <2> HIDE DEF q, index
  <2>1. NPMC * Width(b) <= NPMC * NTHREADS BY <1>2, <1>3
  <2>2. QED BY <1>1, <1>3, <1>4, <1>5, <1>6, <2>1, Array
<1>8. QED BY <1>1, <1>7 DEF pmc_storage, init_pmc

LEMMA PerfEvtSelStorage ==
  ASSUME NEW m, NEW E, "PERFEVTSEL" \in Table[m]
  PROVE  Good(m, E, perfevtsel_storage, {Flag("perfevtsel_storage")})
<1> DEFINE b == "COUNTERS_CTRL"
           q == LoadDown(b, "PERFEVTSEL", NPMC, ThreadCpus)
           index == [k \in 1..NPMC |-> NPMC - k]
<1>1. b \in Batch \ PerSocket /\ FlagOf(b) = "perfevtsel_storage" BY DEF Batch, PerSocket, FlagOf
<1>2. CpusOf(b) = ThreadCpus /\ Width(b) = NTHREADS BY <1>1, ThreadBatch
<1>3. NPMC \in Nat \ {0} /\ NPMC * NTHREADS \in Nat BY Topology
<1>4. "PERFEVTSEL" \in Name BY DEF Name
<1>5. /\ \A k \in 1..NPMC : index[k] \in Nat
      /\ \A j, k \in 1..NPMC : index[j] = index[k] => j = k
  BY <1>3
<1>6. q = [k \in 1..NPMC |-> Load(b, <<"PERFEVTSEL", index[k]>>, CpusOf(b))[1]] BY <1>2 DEF LoadDown
<1>7. Good(m, E, Once(FlagOf(b), Allocate(b, NPMC * NTHREADS) \o q), {Flag(FlagOf(b))})
  <2> HIDE DEF q, index
  <2>1. NPMC * Width(b) <= NPMC * NTHREADS BY <1>2, <1>3
  <2>2. QED BY <1>1, <1>3, <1>4, <1>5, <1>6, <2>1, Array
<1>8. QED BY <1>1, <1>7 DEF perfevtsel_storage, init_perfevtsel

LEMMA UncoreStorage ==
  ASSUME NEW m, NEW E, "PERFEVTSEL" \in Table[m]
  PROVE  /\ Good(m, E, unc_perfevtsel_storage, {Flag("unc_perfevtsel_storage")})
         /\ Good(m, E, unc_counters_storage, {Flag("unc_counters_storage")})
<1> DEFINE Q(b, name) == LoadUp(b, name, 4, SocketCpus)
           index == [k \in 1..4 |-> k - 1]
<1>1. /\ "UNCORE_EVTSEL" \in PerSocket /\ FlagOf("UNCORE_EVTSEL") = "unc_perfevtsel_storage"
      /\ "UNCORE_COUNT" \in PerSocket /\ FlagOf("UNCORE_COUNT") = "unc_counters_storage"
  BY DEF PerSocket, FlagOf
<1>2. \A b \in PerSocket : CpusOf(b) = SocketCpus /\ Width(b) = NSOCKETS /\ b \in Batch
  BY SocketBatch
<1>3. 4 * NSOCKETS \in Nat BY Topology
<1>4. "PERFEVTSEL" \in Name /\ "PCU_EVTSEL" \in Name BY DEF Name
<1>5. /\ \A k \in 1..4 : index[k] \in Nat
      /\ \A j, k \in 1..4 : index[j] = index[k] => j = k
  OBVIOUS
<1>6. \A b \in PerSocket, name \in Name :
        Q(b, name) = [k \in 1..4 |-> Load(b, <<name, index[k]>>, CpusOf(b))[1]]
  BY <1>2 DEF LoadUp
<1>7. \A b \in PerSocket : 4 * Width(b) <= 4 * NSOCKETS BY <1>2, <1>3
<1> HIDE DEF Q, index
<1>8. Good(m, E, Once(FlagOf("UNCORE_EVTSEL"), Allocate("UNCORE_EVTSEL", 4 * NSOCKETS)
             \o Q("UNCORE_EVTSEL", "PCU_EVTSEL")), {Flag(FlagOf("UNCORE_EVTSEL"))})
  <2> DEFINE b == "UNCORE_EVTSEL"
             name == "PCU_EVTSEL"
             q == Q(b, name)
             c == 4
  <2>1. q = [k \in 1..c |-> Load(b, <<name, index[k]>>, CpusOf(b))[1]] BY <1>1, <1>4, <1>6
  <2>2. b \in Batch /\ c * Width(b) <= 4 * NSOCKETS /\ c \in Nat \ {0} BY <1>1, <1>2, <1>7
  <2>3. /\ \A k \in 1..c : index[k] \in Nat
        /\ \A j, k \in 1..c : index[j] = index[k] => j = k
    BY <1>5
  <2>4. /\ name \in Name
        /\ name \notin {"MISC_ENABLE", "PKG_POWER_LIMIT", "PERF_GLOBAL_CTRL", "FIXED_CTR_CTRL", "none"}
        /\ name \in Table[m] \/ b = "UNCORE_EVTSEL"
        /\ b \notin {"TURBO_RATIO_LIMIT", "TURBO_RATIO_LIMIT1", "TURBO_RATIO_LIMIT_CORES"}
        /\ b \notin {"FIXED_COUNTERS_CTRL_DATA", "RAPL_UNIT"}
    BY <1>4
  <2> HIDE DEF q, c, b, name
  <2>5. Good(m, E, Once(FlagOf(b), Allocate(b, 4 * NSOCKETS) \o q), {Flag(FlagOf(b))})
    BY <1>3, <2>1, <2>2, <2>3, <2>4, Array
  <2>6. QED BY <2>5 DEF q, b, name
<1>9. Good(m, E, Once(FlagOf("UNCORE_COUNT"), Allocate("UNCORE_COUNT", 4 * NSOCKETS)
             \o Q("UNCORE_COUNT", "PERFEVTSEL")), {Flag(FlagOf("UNCORE_COUNT"))})
  <2> DEFINE b == "UNCORE_COUNT"
             q == Q(b, "PERFEVTSEL")
             c == 4
  <2>1. q = [k \in 1..c |-> Load(b, <<"PERFEVTSEL", index[k]>>, CpusOf(b))[1]] BY <1>1, <1>4, <1>6
  <2>2. b \in Batch /\ c * Width(b) <= 4 * NSOCKETS /\ c \in Nat \ {0} BY <1>1, <1>2, <1>7
  <2>3. /\ \A k \in 1..c : index[k] \in Nat
        /\ \A j, k \in 1..c : index[j] = index[k] => j = k
    BY <1>5
  <2> HIDE DEF q, c
  <2>4. Good(m, E, Once(FlagOf(b), Allocate(b, 4 * NSOCKETS) \o q), {Flag(FlagOf(b))})
    BY <1>3, <1>4, <2>1, <2>2, <2>3, Array
  <2>5. QED BY <2>4 DEF q
<1>10. QED BY <1>1, <1>8, <1>9 DEF Q, unc_perfevtsel_storage, unc_counters_storage

\* Two or three registers of different names.
LEMMA TwoRegisters ==
  ASSUME NEW m, NEW E, NEW b \in Batch, NEW n \in Nat, NEW r1 \in Register, NEW r2 \in Register,
         b \notin {"TURBO_RATIO_LIMIT", "TURBO_RATIO_LIMIT1", "TURBO_RATIO_LIMIT_CORES", "RAPL_UNIT"},
         2 * Width(b) <= n, Address(m, r1) # Address(m, r2),
         Belongs(m, b, Address(m, r1)), Belongs(m, b, Address(m, r2))
  PROVE  Good(m, E, Once(FlagOf(b), Allocate(b, n) \o Load(b, r1, CpusOf(b)) \o Load(b, r2, CpusOf(b))),
              {Flag(FlagOf(b))})
<1> DEFINE L(r) == [do |-> "load", b |-> b, msr |-> r, cpus |-> CpusOf(b)]
           q == <<L(r1), L(r2)>>
           regs == <<r1, r2>>
           c == 2
<1>1. IsSeq(q) /\ Len(q) = c /\ q[1] = L(r1) /\ q[2] = L(r2) BY TwoIs
<1>2. regs[1] = r1 /\ regs[2] = r2 OBVIOUS
<1>3. \A k \in 1..c : k = 1 \/ k = 2 OBVIOUS
<1>4. c \in Nat \ {0} /\ c * Width(b) <= n OBVIOUS
<1>5. Allocate(b, n) \o Load(b, r1, CpusOf(b)) \o Load(b, r2, CpusOf(b)) = Allocate(b, n) \o q
  <2> DEFINE A == [do |-> "allocate", b |-> b, n |-> n]
  <2>1. /\ Allocate(b, n) = <<A>> /\ Load(b, r1, CpusOf(b)) = <<L(r1)>>
        /\ Load(b, r2, CpusOf(b)) = <<L(r2)>>
    BY DEF Allocate, Load
  <2>2. q = <<L(r1), L(r2)>> OBVIOUS
  <2> HIDE DEF A, L, q
  <2>3. <<A>> \o <<L(r1)>> \o <<L(r2)>> = <<A>> \o <<L(r1), L(r2)>> BY CatThree
  <2>4. QED BY <2>1, <2>2, <2>3
<1>6. L(r1) = [do |-> "load", b |-> b, msr |-> r1, cpus |-> CpusOf(b)]
      /\ L(r2) = [do |-> "load", b |-> b, msr |-> r2, cpus |-> CpusOf(b)]
  OBVIOUS
<1> HIDE DEF q, regs, c, L
<1>7. \A k \in 1..c : /\ q[k] = [do |-> "load", b |-> b, msr |-> regs[k], cpus |-> CpusOf(b)]
                      /\ regs[k] \in Register
                      /\ Belongs(m, b, Address(m, regs[k]))
  BY <1>1, <1>2, <1>3, <1>6
<1>8. \A j, k \in 1..c : j # k /\ Address(m, regs[j]) # Absent
                           => Address(m, regs[j]) # Address(m, regs[k])
  BY <1>2, <1>3
<1>9. Uses(m, b) /\ \A a \in Batch : FlagOf(a) = FlagOf(b) => a = b BY FlagIsOfOne
<1>10. Block(m, FlagOf(b), Allocate(b, n) \o q)
  BY <1>1, <1>4, <1>7, <1>8, <1>9, OneBatch
<1>11. FlagOf(b) \in StorageFlag /\ FlagOf(b) \in StaticFlag BY FlagIsOfOne, FlagIsStatic
<1>12. QED BY <1>5, <1>10, <1>11, OnceStorage

LEMMA ThreeRegisters ==
  ASSUME NEW m, NEW E, NEW b \in Batch, NEW n \in Nat,
         NEW r1 \in Register, NEW r2 \in Register, NEW r3 \in Register,
         b \notin {"TURBO_RATIO_LIMIT", "TURBO_RATIO_LIMIT1", "TURBO_RATIO_LIMIT_CORES", "RAPL_UNIT"},
         3 * Width(b) <= n, Address(m, r1) # Address(m, r2), Address(m, r1) # Address(m, r3),
         Address(m, r2) # Address(m, r3), Belongs(m, b, Address(m, r1)),
         Belongs(m, b, Address(m, r2)), Belongs(m, b, Address(m, r3))
  PROVE  Good(m, E, Once(FlagOf(b), Allocate(b, n) \o Load(b, r1, CpusOf(b)) \o Load(b, r2, CpusOf(b))
                                      \o Load(b, r3, CpusOf(b))),
              {Flag(FlagOf(b))})
<1> DEFINE L(r) == [do |-> "load", b |-> b, msr |-> r, cpus |-> CpusOf(b)]
           q == <<L(r1), L(r2), L(r3)>>
           regs == <<r1, r2, r3>>
           c == 3
<1>1. IsSeq(q) /\ Len(q) = c /\ q[1] = L(r1) /\ q[2] = L(r2) /\ q[3] = L(r3) BY ThreeIs
<1>2. regs[1] = r1 /\ regs[2] = r2 /\ regs[3] = r3 OBVIOUS
<1>3. \A k \in 1..c : k = 1 \/ k = 2 \/ k = 3 OBVIOUS
<1>4. c \in Nat \ {0} /\ c * Width(b) <= n OBVIOUS
<1>5. Allocate(b, n) \o Load(b, r1, CpusOf(b)) \o Load(b, r2, CpusOf(b)) \o Load(b, r3, CpusOf(b))
        = Allocate(b, n) \o q
  <2> DEFINE A == [do |-> "allocate", b |-> b, n |-> n]
  <2>1. /\ Allocate(b, n) = <<A>> /\ Load(b, r1, CpusOf(b)) = <<L(r1)>>
        /\ Load(b, r2, CpusOf(b)) = <<L(r2)>> /\ Load(b, r3, CpusOf(b)) = <<L(r3)>>
    BY DEF Allocate, Load
  <2>2. q = <<L(r1), L(r2), L(r3)>> OBVIOUS
  <2> HIDE DEF A, L, q
  <2>3. <<A>> \o <<L(r1)>> \o <<L(r2)>> \o <<L(r3)>> = <<A>> \o <<L(r1), L(r2), L(r3)>> BY CatFour
  <2>4. QED BY <2>1, <2>2, <2>3
<1>6. \A r : L(r) = [do |-> "load", b |-> b, msr |-> r, cpus |-> CpusOf(b)] OBVIOUS
<1> HIDE DEF q, regs, c, L
<1>7. \A k \in 1..c : /\ q[k] = [do |-> "load", b |-> b, msr |-> regs[k], cpus |-> CpusOf(b)]
                      /\ regs[k] \in Register
                      /\ Belongs(m, b, Address(m, regs[k]))
  BY <1>1, <1>2, <1>3, <1>6
<1>8. \A j, k \in 1..c : j # k /\ Address(m, regs[j]) # Absent
                           => Address(m, regs[j]) # Address(m, regs[k])
  BY <1>2, <1>3
<1>9. Uses(m, b) /\ \A a \in Batch : FlagOf(a) = FlagOf(b) => a = b BY FlagIsOfOne
<1>10. Block(m, FlagOf(b), Allocate(b, n) \o q)
  BY <1>1, <1>4, <1>7, <1>8, <1>9, OneBatch
<1>11. FlagOf(b) \in StorageFlag /\ FlagOf(b) \in StaticFlag BY FlagIsOfOne, FlagIsStatic
<1>12. QED BY <1>5, <1>10, <1>11, OnceStorage

\* A register of the table, in a batch where it is nothing special.
LEMMA TableRegister ==
  ASSUME NEW m, NEW b, NEW x \in Name, x \in Table[m],
         x \notin {"MISC_ENABLE", "PKG_POWER_LIMIT", "PERF_GLOBAL_CTRL", "FIXED_CTR_CTRL", "none"},
         b \notin {"FIXED_COUNTERS_CTRL_DATA", "RAPL_UNIT"}
  PROVE  /\ R(x) \in Register /\ Address(m, R(x)) = R(x)
         /\ Belongs(m, b, Address(m, R(x)))
<1>1. R(x) = <<x, 0>> /\ R(x) \in Register BY RegisterIs
<1>2. Address(m, R(x)) = R(x) BY <1>1, AddressIs
<1>3. Belongs(m, b, R(x)) BY <1>1, OrdinaryBelongs
<1>4. QED BY <1>1, <1>2, <1>3

LEMMA FixedCounterCtrlStorage ==
  ASSUME NEW m, NEW E, {"PERF_GLOBAL_CTRL", "FIXED_CTR_CTRL"} \subseteq Table[m]
  PROVE  Good(m, E, fixed_counter_ctrl_storage, {Flag("fixed_counter_ctrl_storage")})
<1> DEFINE b == "FIXED_COUNTERS_CTRL_DATA"
           r1 == R("PERF_GLOBAL_CTRL")
           r2 == R("FIXED_CTR_CTRL")
<1>1. b \in Batch \ PerSocket /\ FlagOf(b) = "fixed_counter_ctrl_storage" BY DEF Batch, PerSocket, FlagOf
<1>2. CpusOf(b) = ThreadCpus /\ Width(b) = NTHREADS BY <1>1, ThreadBatch
<1>3. 2 * NTHREADS \in Nat /\ 2 * Width(b) <= 2 * NTHREADS BY <1>2, Topology
<1>4. "PERF_GLOBAL_CTRL" \in Name /\ "FIXED_CTR_CTRL" \in Name BY DEF Name
<1>5. r1 \in Register /\ r2 \in Register BY <1>4, RegisterIs
<1>6. Address(m, r1) = r1 /\ Address(m, r2) = r2 BY AddressIs DEF R
<1>7. r1 # r2 BY DEF R
<1>8. Belongs(m, b, r1) /\ Belongs(m, b, r2) BY <1>5 DEF Belongs, Controls, R, Absent
<1>9. b \notin {"TURBO_RATIO_LIMIT", "TURBO_RATIO_LIMIT1", "TURBO_RATIO_LIMIT_CORES", "RAPL_UNIT"} OBVIOUS
<1> HIDE DEF b, r1, r2
<1>10. Good(m, E, Once(FlagOf(b), Allocate(b, 2 * NTHREADS) \o Load(b, r1, CpusOf(b))
                         \o Load(b, r2, CpusOf(b))), {Flag(FlagOf(b))})
  BY <1>1, <1>3, <1>5, <1>6, <1>7, <1>8, <1>9, TwoRegisters
<1>11. QED BY <1>1, <1>2, <1>10 DEF fixed_counter_ctrl_storage, b, r1, r2

LEMMA ClocksStorage ==
  ASSUME NEW m, NEW E, {"APERF", "MPERF", "TIME_STAMP_COUNTER"} \subseteq Table[m]
  PROVE  Good(m, E, clocks_storage, {Flag("clocks_storage")})
<1> DEFINE b == "CLOCKS_DATA"
           r1 == R("APERF")
           r2 == R("MPERF")
           r3 == R("TIME_STAMP_COUNTER")
<1>1. b \in Batch \ PerSocket /\ FlagOf(b) = "clocks_storage" BY DEF Batch, PerSocket, FlagOf
<1>2. CpusOf(b) = ThreadCpus /\ Width(b) = NTHREADS BY <1>1, ThreadBatch
<1>3. 3 * NTHREADS \in Nat /\ 3 * Width(b) <= 3 * NTHREADS BY <1>2, Topology
<1>4. "APERF" \in Name /\ "MPERF" \in Name /\ "TIME_STAMP_COUNTER" \in Name BY DEF Name
<1>5. \A x \in {"APERF", "MPERF", "TIME_STAMP_COUNTER"} :
        R(x) \in Register /\ Address(m, R(x)) = R(x) /\ Belongs(m, b, Address(m, R(x)))
  BY <1>4, TableRegister
<1>6. /\ r1 \in Register /\ Address(m, r1) = r1 /\ Belongs(m, b, Address(m, r1))
      /\ r2 \in Register /\ Address(m, r2) = r2 /\ Belongs(m, b, Address(m, r2))
      /\ r3 \in Register /\ Address(m, r3) = r3 /\ Belongs(m, b, Address(m, r3))
  BY <1>5
<1>7. r1 # r2 /\ r1 # r3 /\ r2 # r3 BY DEF R
<1>9. b \notin {"TURBO_RATIO_LIMIT", "TURBO_RATIO_LIMIT1", "TURBO_RATIO_LIMIT_CORES", "RAPL_UNIT"} OBVIOUS
<1> HIDE DEF b, r1, r2, r3
<1>10. Good(m, E, Once(FlagOf(b), Allocate(b, 3 * NTHREADS) \o Load(b, r1, CpusOf(b))
                         \o Load(b, r2, CpusOf(b)) \o Load(b, r3, CpusOf(b))), {Flag(FlagOf(b))})
  BY <1>1, <1>3, <1>6, <1>7, <1>9, ThreeRegisters
<1>11. QED BY <1>1, <1>2, <1>10 DEF clocks_storage, b, r1, r2, r3

LEMMA RaplStorage ==
  ASSUME NEW m, NEW E, "PKG_ENERGY_STATUS" \in Table[m],
         "DRAM_ENERGY_STATUS" \in Table[m] \/ m \in {"2A", "2D"}
  PROVE  Good(m, E, Once("read_rapl_data", create_rapl_data_batch), {Flag("read_rapl_data")})
<1> DEFINE b == "RAPL_DATA"
           r1 == R("PKG_ENERGY_STATUS")
           r2 == R("DRAM_ENERGY_STATUS")
<1>1. b \in PerSocket /\ FlagOf(b) = "read_rapl_data" BY DEF PerSocket, FlagOf
<1>2. CpusOf(b) = SocketCpus /\ Width(b) = NSOCKETS /\ b \in Batch BY <1>1, SocketBatch
<1>3. 2 * NSOCKETS \in Nat /\ 2 * Width(b) <= 2 * NSOCKETS BY <1>2, Topology
<1>4. "PKG_ENERGY_STATUS" \in Name /\ "DRAM_ENERGY_STATUS" \in Name BY DEF Name
<1>5. r1 \in Register /\ r2 \in Register BY <1>4, RegisterIs
<1>6. Address(m, r1) = r1 /\ Belongs(m, b, Address(m, r1)) BY <1>4, TableRegister
<1>7. Address(m, r2) # r1 /\ Belongs(m, b, Address(m, r2))
  <2>1. CASE "DRAM_ENERGY_STATUS" \in Table[m]
    <3>1. Address(m, r2) = r2 /\ Belongs(m, b, Address(m, r2)) BY <1>4, <2>1, TableRegister
    <3>2. QED BY <3>1 DEF R
  <2>2. CASE "DRAM_ENERGY_STATUS" \notin Table[m]
    <3>1. Address(m, r2) = Absent BY <2>2 DEF Address, R
    <3>2. Absent # r1 BY DEF Absent, R
    <3>3. Belongs(m, b, Absent) BY <2>2, AbsentBelongs
    <3>4. QED BY <3>1, <3>2, <3>3
  <2>3. QED BY <2>1, <2>2
<1>9. b \notin {"TURBO_RATIO_LIMIT", "TURBO_RATIO_LIMIT1", "TURBO_RATIO_LIMIT_CORES", "RAPL_UNIT"} OBVIOUS
<1> HIDE DEF b, r1, r2
<1>10. Good(m, E, Once(FlagOf(b), Allocate(b, 2 * NSOCKETS) \o Load(b, r1, CpusOf(b))
                         \o Load(b, r2, CpusOf(b))), {Flag(FlagOf(b))})
  BY <1>2, <1>3, <1>5, <1>6, <1>7, <1>9, TwoRegisters
<1>11. QED BY <1>1, <1>2, <1>10 DEF create_rapl_data_batch, b, r1, r2

LEMMA PerfStorage ==
  ASSUME NEW m, NEW E, "PERF_STATUS" \in Table[m]
  PROVE  /\ Good(m, E, perf_storage, {Flag("perf_storage")})
         /\ Good(m, E, perf_storage_temp(R("PERF_STATUS")), {Flag("perf_storage_temp")})
<1>1. "PERF_STATUS" \in Name BY DEF Name
<1>2. Good(m, E, perf_storage, {Flag("perf_storage")})
  <2> DEFINE b == "PERF_DATA"
  <2>1. b \in PerSocket /\ FlagOf(b) = "perf_storage" BY DEF PerSocket, FlagOf
  <2>2. CpusOf(b) = SocketCpus /\ Width(b) = NSOCKETS /\ b \in Batch BY <2>1, SocketBatch
  <2>3. 2 * NSOCKETS \in Nat /\ Width(b) <= 2 * NSOCKETS BY <2>2, Topology
  <2>4. R("PERF_STATUS") \in Register /\ Belongs(m, b, Address(m, R("PERF_STATUS")))
    BY <1>1, TableRegister
  <2>5. b \notin {"TURBO_RATIO_LIMIT", "TURBO_RATIO_LIMIT1", "TURBO_RATIO_LIMIT_CORES"}
        /\ b # "RAPL_UNIT"
    OBVIOUS
  <2> HIDE DEF b
  <2>6. Good(m, E, Once(FlagOf(b), Allocate(b, 2 * NSOCKETS) \o Load(b, R("PERF_STATUS"), CpusOf(b))),
             {Flag(FlagOf(b))})
    BY <2>2, <2>3, <2>4, <2>5, OneRegister
  <2>7. QED BY <2>1, <2>2, <2>6 DEF perf_storage, b
<1>3. Good(m, E, perf_storage_temp(R("PERF_STATUS")), {Flag("perf_storage_temp")})
  <2> DEFINE b == "PERF_CTRL"
  <2>1. b \in Batch \ PerSocket /\ FlagOf(b) = "perf_storage_temp" BY DEF Batch, PerSocket, FlagOf
  <2>2. CpusOf(b) = ThreadCpus /\ Width(b) = NTHREADS BY <2>1, ThreadBatch
  <2>3. 2 * NTHREADS \in Nat /\ Width(b) <= 2 * NTHREADS BY <2>2, Topology
  <2>4. R("PERF_STATUS") \in Register /\ Belongs(m, b, Address(m, R("PERF_STATUS")))
    BY <1>1, TableRegister
  <2>5. b \notin {"TURBO_RATIO_LIMIT", "TURBO_RATIO_LIMIT1", "TURBO_RATIO_LIMIT_CORES"}
        /\ b # "RAPL_UNIT"
    OBVIOUS
  <2> HIDE DEF b
  <2>6. Good(m, E, Once(FlagOf(b), Allocate(b, 2 * NTHREADS) \o Load(b, R("PERF_STATUS"), CpusOf(b))),
             {Flag(FlagOf(b))})
    BY <2>1, <2>3, <2>4, <2>5, OneRegister
  <2>7. QED BY <2>1, <2>2, <2>6 DEF perf_storage_temp, b
<1>4. QED BY <1>2, <1>3

LEMMA ThermStorage ==
  ASSUME NEW m, NEW E, "THERM_STATUS" \in Table[m]
  PROVE  Good(m, E, Once("get_therm_stat", Allocate("THERM_STAT", NTHREADS)
                           \o Load("THERM_STAT", R("THERM_STATUS"), ThreadCpus)), {Flag("get_therm_stat")})
<1> DEFINE b == "THERM_STAT"
<1>1. b \in Batch \ PerSocket /\ FlagOf(b) = "get_therm_stat" BY DEF Batch, PerSocket, FlagOf
<1>2. CpusOf(b) = ThreadCpus /\ Width(b) = NTHREADS BY <1>1, ThreadBatch
<1>3. NTHREADS \in Nat /\ Width(b) <= NTHREADS BY <1>2, Topology
<1>4. "THERM_STATUS" \in Name BY DEF Name
<1>5. R("THERM_STATUS") \in Register /\ Belongs(m, b, Address(m, R("THERM_STATUS")))
  BY <1>4, TableRegister
<1>6. b \notin {"TURBO_RATIO_LIMIT", "TURBO_RATIO_LIMIT1", "TURBO_RATIO_LIMIT_CORES"} /\ b # "RAPL_UNIT"
  OBVIOUS
<1> HIDE DEF b
<1>7. Good(m, E, Once(FlagOf(b), Allocate(b, NTHREADS) \o Load(b, R("THERM_STATUS"), CpusOf(b))),
           {Flag(FlagOf(b))})
  BY <1>1, <1>3, <1>5, <1>6, OneRegister
<1>8. QED BY <1>1, <1>2, <1>7 DEF b

\* The turbo ratios: two batches behind one flag, the second the model's own.
LEMMA TurboStorage ==
  ASSUME NEW m, NEW E, NEW b2 \in {"TURBO_RATIO_LIMIT1", "TURBO_RATIO_LIMIT_CORES"},
         b2 = "TURBO_RATIO_LIMIT_CORES" <=> m \in NewTurbo,
         {"TURBO_RATIO_LIMIT", b2} \subseteq Table[m]
  PROVE  Good(m, E, Once("get_turbo_ratio_limits",
                Allocate("TURBO_RATIO_LIMIT", NSOCKETS) \o Allocate(b2, NSOCKETS)
                  \o Load("TURBO_RATIO_LIMIT", R("TURBO_RATIO_LIMIT"), SocketCpus)
                  \o Load(b2, R(b2), SocketCpus)), {Flag("get_turbo_ratio_limits")})
<1> DEFINE b1 == "TURBO_RATIO_LIMIT"
           f == "get_turbo_ratio_limits"
           A(b) == [do |-> "allocate", b |-> b, n |-> NSOCKETS]
           L(b) == [do |-> "load", b |-> b, msr |-> R(b), cpus |-> SocketCpus]
           p == <<A(b1)>> \o <<A(b2), L(b1), L(b2)>>
<1>1. Allocate(b1, NSOCKETS) \o Allocate(b2, NSOCKETS) \o Load(b1, R(b1), SocketCpus)
        \o Load(b2, R(b2), SocketCpus) = p
  <2>1. /\ Allocate(b1, NSOCKETS) = <<A(b1)>> /\ Allocate(b2, NSOCKETS) = <<A(b2)>>
        /\ Load(b1, R(b1), SocketCpus) = <<L(b1)>> /\ Load(b2, R(b2), SocketCpus) = <<L(b2)>>
    BY DEF Allocate, Load
  <2>2. p = <<A(b1)>> \o <<A(b2), L(b1), L(b2)>> OBVIOUS
  <2> HIDE DEF A, L, b1, p
  <2>3. <<A(b1)>> \o <<A(b2)>> \o <<L(b1)>> \o <<L(b2)>> = <<A(b1)>> \o <<A(b2), L(b1), L(b2)>>
    BY CatFour
  <2>4. QED BY <2>1, <2>2, <2>3
<1>2. /\ IsSeq(p) /\ Len(p) = 4
      /\ p[1] = A(b1) /\ p[2] = A(b2) /\ p[3] = L(b1) /\ p[4] = L(b2)
  <2>1. p[1 + 1] = A(b2) /\ p[1 + 2] = L(b1) /\ p[1 + 3] = L(b2) BY CatIs, OneIs, ThreeIs
  <2>2. QED BY <2>1, CatIs, OneIs, ThreeIs
<1>3. \A k \in 1..4 : k = 1 \/ k = 2 \/ k = 3 \/ k = 4 OBVIOUS
<1>4. \A b : A(b).do = "allocate" /\ A(b).b = b /\ A(b).n = NSOCKETS OBVIOUS
<1>5. \A b : L(b).do = "load" /\ L(b).b = b /\ L(b).msr = R(b) /\ L(b).cpus = SocketCpus OBVIOUS
<1>6. b1 # b2 OBVIOUS
<1>7. {b1, b2} \subseteq PerSocket /\ FlagOf(b1) = f /\ FlagOf(b2) = f
  BY DEF PerSocket, FlagOf
<1>8. \A b \in {b1, b2} : CpusOf(b) = SocketCpus /\ Width(b) = NSOCKETS /\ b \in Batch
  BY <1>7, SocketBatch
<1>9. \A b \in {b1, b2} : R(b) \in Register /\ Belongs(m, b, Address(m, R(b)))
  <2>1. SUFFICES ASSUME NEW b \in {b1, b2} PROVE R(b) \in Register /\ Belongs(m, b, Address(m, R(b)))
    OBVIOUS
  <2>2. b \in Name BY DEF Name
  <2>3. b \in Table[m] OBVIOUS
  <2>4. b \notin {"MISC_ENABLE", "PKG_POWER_LIMIT", "PERF_GLOBAL_CTRL", "FIXED_CTR_CTRL", "none"}
        /\ b \notin {"FIXED_COUNTERS_CTRL_DATA", "RAPL_UNIT"}
    OBVIOUS
  <2>5. QED BY <2>2, <2>3, <2>4, TableRegister
<1>10. b1 # "RAPL_UNIT" /\ b2 # "RAPL_UNIT" OBVIOUS
<1>11. \A a \in Batch : FlagOf(a) = f /\ Uses(m, a) => a \in {b1, b2}
  BY DEF Batch, FlagOf, Uses
<1>12. f \in StorageFlag /\ f \in StaticFlag BY <1>7, <1>8 DEF StorageFlag, StaticFlag
<1> HIDE DEF p, A, L, b1, f
<1>13. ASSUME NEW k \in 1..Len(p) PROVE InitStepOK(m, p[k]) /\ FlagOf(p[k].b) = f
  <2>1. k = 1 \/ k = 2 \/ k = 3 \/ k = 4 BY <1>2, <1>3
  <2>2. NSOCKETS \in Nat BY Topology
  <2>3. \A b \in {b1, b2} : InitStepOK(m, A(b)) /\ FlagOf(A(b).b) = f
    BY <1>4, <1>7, <1>8, <2>2 DEF InitStepOK, IsInit
  <2>4. \A b \in {b1, b2} : InitStepOK(m, L(b)) /\ FlagOf(L(b).b) = f
    BY <1>5, <1>7, <1>8, <1>9, <2>2 DEF InitStepOK, IsInit
  <2>5. QED BY <1>2, <2>1, <2>3, <2>4
<1>14. /\ LoadsOf(p, b1) = {3} /\ AllocatesOf(p, b1) = {1}
       /\ LoadsOf(p, b2) = {4} /\ AllocatesOf(p, b2) = {2}
       /\ \A a \in Batch \ {b1, b2} : LoadsOf(p, a) = {} /\ AllocatesOf(p, a) = {}
  BY <1>2, <1>3, <1>4, <1>5, <1>6 DEF LoadsOf, AllocatesOf
<1>15. \A a \in {b1, b2} : FitIn(p, a, NSOCKETS)
  <2>1. SUFFICES ASSUME NEW a \in {b1, b2}, NEW j \in LoadsOf(p, a), NEW k \in LoadsOf(p, a)
                 PROVE  (k - j + 1) * Width(a) <= NSOCKETS
    BY DEF FitIn
  <2>2. j = k /\ j \in Nat BY <1>14
  <2>3. k - j + 1 = 1 BY <2>2
  <2>4. QED BY <1>8, <2>3, Topology
<1>16. DOMAIN << >> = {} OBVIOUS
<1>17. \A a \in {b1, b2} : Filling(m, p, a, << >>, 0)
  BY <1>2, <1>4, <1>14, <1>15, <1>16 DEF Filling, AllReads
<1>18. \A a \in Batch \ {b1, b2} : Filling(m, p, a, << >>, 0)
  BY <1>14, <1>16 DEF Filling, FitIn
<1>19. Block(m, f, p)
  <2>1. \A a \in {b1, b2} : LoadsOf(p, a) # {} BY <1>14
  <2>2. QED BY <1>2, <1>11, <1>13, <1>17, <1>18, <2>1 DEF Block
<1>20. Good(m, E, Once(f, p), {Flag(f)}) BY <1>12, <1>19, OnceStorage
<1>21. QED BY <1>1, <1>20 DEF b1, f

-----------------------------------------------------------------------------
\* The plans of the counters.

LEMMA GoodIsSeq ==
  ASSUME NEW m, NEW E, NEW p, NEW F, Good(m, E, p, F)
  PROVE  IsSeq(p)
  BY DEF Good, Proper

LEMMA TokenKinds ==
  /\ \A f : Flag(f)[1] = "flag"
  /\ \A b : WasRead(b)[1] = "read" /\ WasChecked(b)[1] = "checked"
  /\ UnitsReady[1] = "units"
  BY DEF Flag, WasRead, WasChecked, UnitsReady

LEMMA SetFixedCounterCtrl ==
  ASSUME NEW m, NEW E, Fixed \subseteq Table[m]
  PROVE  Good(m, E, set_fixed_counter_ctrl, {})
<1> DEFINE b == "FIXED_COUNTERS_CTRL_DATA"
           f == Flag(FlagOf(b))
           D == {f, WasRead(b)}
<1>1. b \in Batch /\ f = Flag("fixed_counter_ctrl_storage") /\ b \notin RatioBatches
  BY DEF Batch, FlagOf, RatioBatches
<1>2. \A F : f \in F => Ready(m, F, b) BY <1>1, FlagMakesReady
<1>3. Good(m, E, fixed_counter_ctrl_storage, {f}) BY <1>1, FixedCounterCtrlStorage DEF Fixed
<1>4. Good(m, {f}, Read(b), D)
  <2>1. Good(m, {f}, Read(b), {WasRead(b)}) BY <1>1, <1>2, ReadIs
  <2>2. QED BY <2>1, Keep, TokenKinds
<1>5. Good(m, D, Put("FIXED_COUNTERS_DATA", FixedCtrs, "zero"), D)
  <2>1. "FIXED_COUNTERS_DATA" \in Batch BY DEF Batch
  <2>2. Good(m, D, Put("FIXED_COUNTERS_DATA", FixedCtrs, "zero"), {}) BY <2>1, PutIs
  <2>3. QED BY <2>2, Keep, TokenKinds
<1>6. Good(m, D, Put(b, Controls, "field"), D)
  <2>1. Good(m, D, Put(b, Controls, "field"), {}) BY <1>1, PutIs
  <2>2. QED BY <2>1, Keep, TokenKinds
<1>7. Good(m, D, Write(b), {}) BY <1>2, WriteIs
<1> HIDE DEF D
<1>8. Good(m, E, fixed_counter_ctrl_storage \o Read(b), D) BY <1>3, <1>4, Then
<1>9. Good(m, E, fixed_counter_ctrl_storage \o Read(b)
                   \o Put("FIXED_COUNTERS_DATA", FixedCtrs, "zero"), D) BY <1>8, <1>5, Then
<1>10. Good(m, E, fixed_counter_ctrl_storage \o Read(b)
                   \o Put("FIXED_COUNTERS_DATA", FixedCtrs, "zero") \o Put(b, Controls, "field"), D)
  BY <1>9, <1>6, Then
<1>11. Good(m, E, fixed_counter_ctrl_storage \o Read(b)
                   \o Put("FIXED_COUNTERS_DATA", FixedCtrs, "zero") \o Put(b, Controls, "field")
                   \o Write(b), {})
  BY <1>10, <1>7, Then
<1>12. QED BY <1>11 DEF set_fixed_counter_ctrl, Controls

LEMMA FixedCounters ==
  ASSUME NEW m, NEW E, Fixed \subseteq Table[m]
  PROVE  /\ Good(m, E, enable_fixed_counters, {Flag("fixed_counter_storage")})
         /\ Good(m, E, print_fixed_counter_data, {})
<1> DEFINE b == "FIXED_COUNTERS_DATA"
           f == Flag("fixed_counter_storage")
<1>1. b \in Batch /\ f = Flag(FlagOf(b)) /\ b \notin RatioBatches BY DEF Batch, FlagOf, RatioBatches
<1>2. Good(m, E, fixed_counter_storage, {f}) BY FixedCounterStorage DEF Fixed
<1>3. Good(m, {f}, set_fixed_counter_ctrl, {f})
  <2>1. Good(m, {f}, set_fixed_counter_ctrl, {}) BY SetFixedCounterCtrl
  <2>2. QED BY <2>1, Keep, TokenKinds
<1>4. Good(m, {f}, Read(b), {WasRead(b)})
  <2>1. Ready(m, {f}, b) BY <1>1, FlagMakesReady
  <2>2. QED BY <1>1, <2>1, ReadIs
<1>5. Good(m, {WasRead(b)}, Show(b), {}) BY <1>1, ShowIs
<1>6. Good(m, E, enable_fixed_counters, {f}) BY <1>2, <1>3, Then DEF enable_fixed_counters
<1>7. Good(m, E, print_fixed_counter_data, {}) BY <1>2, <1>4, <1>5, Then DEF print_fixed_counter_data
<1>8. QED BY <1>6, <1>7

\* The counters of a thread are programmed and zeroed.
LEMMA EnablePmc ==
  ASSUME NEW m, NEW E, Core \subseteq Table[m]
  PROVE  /\ Good(m, E, set_all_pmc_ctrl(1), {}) /\ Good(m, E, set_all_pmc_ctrl(2), {})
         /\ Good(m, E, enable_pmc, {})
<1>1. "PERFMON" \in Table[m] /\ "PERFEVTSEL" \in Table[m] BY DEF Core
<1>2. "COUNTERS_CTRL" \in Batch /\ FlagOf("COUNTERS_CTRL") = "perfevtsel_storage"
      /\ "COUNTERS_DATA" \in Batch /\ FlagOf("COUNTERS_DATA") = "pmc_storage"
  BY DEF Batch, FlagOf
<1> DEFINE f == Flag("perfevtsel_storage")
           g == Flag("pmc_storage")
<1>3. Good(m, E, perfevtsel_storage, {f}) BY <1>1, PerfEvtSelStorage
<1>4. \A pmcnum : Good(m, E, set_all_pmc_ctrl(pmcnum), {})
  <2>1. SUFFICES ASSUME NEW pmcnum PROVE Good(m, E, set_all_pmc_ctrl(pmcnum), {}) OBVIOUS
  <2>2. Good(m, {f}, Put("COUNTERS_CTRL", {<<"PERFEVTSEL", pmcnum - 1>>}, "whole"), {})
    BY <1>2, PutIs
  <2>3. QED BY <1>3, <2>2, Then DEF set_all_pmc_ctrl
<1>5. Good(m, {}, clear_all_pmc, {})
  <2>1. Good(m, {}, pmc_storage, {g}) BY <1>1, PmcStorage
  <2>2. Good(m, {g}, Put("COUNTERS_DATA", PerfMon, "zero"), {g})
    <3>1. Good(m, {g}, Put("COUNTERS_DATA", PerfMon, "zero"), {}) BY <1>2, PutIs
    <3>2. QED BY <3>1, Keep, TokenKinds
  <2>3. Good(m, {g}, Write("COUNTERS_DATA"), {})
    <3>1. Ready(m, {g}, "COUNTERS_DATA") BY <1>2, FlagMakesReady
    <3>2. QED BY <3>1, WriteIs
  <2>4. QED BY <2>1, <2>2, <2>3, Then DEF clear_all_pmc
<1>6. Good(m, {f}, Write("COUNTERS_CTRL"), {})
  <2>1. Ready(m, {f}, "COUNTERS_CTRL") BY <1>2, FlagMakesReady
  <2>2. QED BY <2>1, WriteIs
<1>7. Good(m, E, enable_pmc, {}) BY <1>3, <1>5, <1>6, Then DEF enable_pmc
<1>8. QED BY <1>4, <1>7

\* Steps of one element that are done before anything else.
LEMMA SimpleOnes ==
  /\ \A b : IsSeq(Read(b)) /\ AllSimple(Read(b)) /\ IsSeq(Write(b)) /\ AllSimple(Write(b))
  /\ \A b, msrs, how : IsSeq(Put(b, msrs, how)) /\ AllSimple(Put(b, msrs, how))
  /\ \A f \in StorageFlag : \A then : IsSeq(Once(f, then)) /\ AllSimple(Once(f, then))
  /\ IsSeq(TakeUnits) /\ AllPlain(TakeUnits)
  /\ \A f, then : /\ IsSeq(Once(f, then)) /\ AllPlain(Once(f, then))
                  /\ LeadsTo(Once(f, then), Flag(f))
<1>1. ASSUME NEW s, s.do \in {"read", "write", "put"} \/ (s.do = "once" /\ s.flag \in StorageFlag)
      PROVE  IsSeq(<<s>>) /\ AllSimple(<<s>>)
  <2>1. Simple(s) BY <1>1 DEF Simple
  <2>2. \A k \in 1..1 : k = 1 OBVIOUS
  <2>3. QED BY <2>1, <2>2, OneIs DEF AllSimple
<1>2. ASSUME NEW s, s.do \in {"once", "take_units"} PROVE IsSeq(<<s>>) /\ AllPlain(<<s>>)
  <2>1. Plain(s) BY <1>2 DEF Plain
  <2>2. \A k \in 1..1 : k = 1 OBVIOUS
  <2>3. QED BY <2>1, <2>2, OneIs DEF AllPlain
<1>3. ASSUME NEW f, NEW then PROVE LeadsTo(Once(f, then), Flag(f))
  <2>1. Flag(f) \in GivesFirst([do |-> "once", flag |-> f, then |-> then]) BY DEF GivesFirst
  <2>2. QED BY <2>1, LeadsNow DEF Once
<1>4. QED BY <1>1, <1>2, <1>3 DEF Read, Write, Put, Once, TakeUnits

LEMMA StorageIsSimple ==
  /\ IsSeq(pmc_storage) /\ AllSimple(pmc_storage) /\ LeadsTo(pmc_storage, Flag("pmc_storage"))
  /\ IsSeq(perfevtsel_storage) /\ AllSimple(perfevtsel_storage)
  /\ IsSeq(fixed_counter_storage) /\ AllSimple(fixed_counter_storage)
  /\ LeadsTo(fixed_counter_storage, Flag("fixed_counter_storage"))
  /\ IsSeq(fixed_counter_ctrl_storage) /\ AllSimple(fixed_counter_ctrl_storage)
  /\ IsSeq(clocks_storage) /\ AllSimple(clocks_storage)
  /\ LeadsTo(clocks_storage, Flag("clocks_storage"))
  /\ IsSeq(perf_storage) /\ AllSimple(perf_storage) /\ LeadsTo(perf_storage, Flag("perf_storage"))
  /\ IsSeq(unc_perfevtsel_storage) /\ AllSimple(unc_perfevtsel_storage)
  /\ IsSeq(unc_counters_storage) /\ AllSimple(unc_counters_storage)
<1>1. {"pmc_storage", "perfevtsel_storage", "fixed_counter_storage", "fixed_counter_ctrl_storage",
       "clocks_storage", "perf_storage", "unc_perfevtsel_storage", "unc_counters_storage"}
        \subseteq StorageFlag
  <2>1. /\ FlagOf("COUNTERS_DATA") = "pmc_storage" /\ FlagOf("COUNTERS_CTRL") = "perfevtsel_storage"
        /\ FlagOf("FIXED_COUNTERS_DATA") = "fixed_counter_storage"
        /\ FlagOf("FIXED_COUNTERS_CTRL_DATA") = "fixed_counter_ctrl_storage"
        /\ FlagOf("CLOCKS_DATA") = "clocks_storage" /\ FlagOf("PERF_DATA") = "perf_storage"
        /\ FlagOf("UNCORE_EVTSEL") = "unc_perfevtsel_storage"
        /\ FlagOf("UNCORE_COUNT") = "unc_counters_storage"
    BY DEF FlagOf
  <2>2. {"COUNTERS_DATA", "COUNTERS_CTRL", "FIXED_COUNTERS_DATA", "FIXED_COUNTERS_CTRL_DATA",
         "CLOCKS_DATA", "PERF_DATA", "UNCORE_EVTSEL", "UNCORE_COUNT"} \subseteq Batch
    BY DEF Batch
  <2>3. \A b \in Batch : FlagOf(b) \in StorageFlag BY DEF StorageFlag
  <2>4. QED BY <2>1, <2>2, <2>3
<1>2. \A f \in StorageFlag : \A then :
        IsSeq(Once(f, then)) /\ AllSimple(Once(f, then)) /\ LeadsTo(Once(f, then), Flag(f))
  BY SimpleOnes
<1>3. QED BY <1>1, <1>2 DEF pmc_storage, perfevtsel_storage, fixed_counter_storage,
                            fixed_counter_ctrl_storage, clocks_storage, perf_storage,
                            unc_perfevtsel_storage, unc_counters_storage

LEMMA EnableIsSimple ==
  /\ \A n : IsSeq(set_all_pmc_ctrl(n)) /\ AllSimple(set_all_pmc_ctrl(n))
  /\ IsSeq(clear_all_pmc) /\ AllSimple(clear_all_pmc)
  /\ IsSeq(enable_pmc) /\ AllSimple(enable_pmc)
  /\ IsSeq(set_fixed_counter_ctrl) /\ AllSimple(set_fixed_counter_ctrl)
  /\ IsSeq(enable_fixed_counters) /\ AllSimple(enable_fixed_counters)
  /\ IsSeq(clear_all_pcu) /\ AllSimple(clear_all_pcu)
  /\ IsSeq(enable_pcu) /\ AllSimple(enable_pcu)
<1> DEFINE S(p) == IsSeq(p) /\ AllSimple(p)
<1>1. ASSUME NEW p, NEW q, S(p), S(q) PROVE S(p \o q) BY <1>1, CatIs, SimpleCat
<1>2. /\ S(pmc_storage) /\ S(perfevtsel_storage) /\ S(fixed_counter_storage)
      /\ S(fixed_counter_ctrl_storage) /\ S(unc_perfevtsel_storage) /\ S(unc_counters_storage)
  BY StorageIsSimple
<1>3. /\ \A b : S(Read(b)) /\ S(Write(b))
      /\ \A b, msrs, how : S(Put(b, msrs, how))
  BY SimpleOnes
<1>4. (\A n : S(set_all_pmc_ctrl(n))) /\ S(clear_all_pmc) /\ S(enable_pmc)
      /\ S(set_fixed_counter_ctrl) /\ S(enable_fixed_counters) /\ S(clear_all_pcu) /\ S(enable_pcu)
  <2> HIDE DEF S
  <2>1. \A n : S(set_all_pmc_ctrl(n)) BY <1>1, <1>2, <1>3 DEF set_all_pmc_ctrl
  <2>2. S(clear_all_pmc) BY <1>1, <1>2, <1>3 DEF clear_all_pmc
  <2>3. S(enable_pmc) BY <2>2, <1>1, <1>2, <1>3 DEF enable_pmc
  <2>4. S(set_fixed_counter_ctrl) BY <1>1, <1>2, <1>3 DEF set_fixed_counter_ctrl
  <2>5. S(enable_fixed_counters) BY <2>4, <1>1, <1>2 DEF enable_fixed_counters
  <2>6. S(clear_all_pcu) BY <1>1, <1>2, <1>3 DEF clear_all_pcu
  <2>7. S(enable_pcu) BY <2>6, <1>1, <1>2, <1>3 DEF enable_pcu
  <2>8. QED BY <2>1, <2>2, <2>3, <2>4, <2>5, <2>6, <2>7
<1>5. QED BY <1>4

LEMMA PerfmonCounters ==
  ASSUME NEW m, Core \subseteq Table[m], NEW form \in {"print_perfmon", "print_verbose_perfmon"}
  PROVE  Good(m, {}, print_perfmon_counter_data(form), {})
<1> DEFINE then == set_all_pmc_ctrl(1) \o set_all_pmc_ctrl(2) \o enable_pmc \o pmc_storage
           b == "COUNTERS_DATA"
           g == Flag("pmc_storage")
<1>1. Good(m, {}, then, {g})
  <2>1. Good(m, {}, pmc_storage, {g}) BY PmcStorage DEF Core
  <2>2. QED BY <2>1, EnablePmc, Then
<1>2. IsSeq(then) /\ AllPlain(then) /\ LeadsTo(then, g)
  <2> DEFINE p == set_all_pmc_ctrl(1) \o set_all_pmc_ctrl(2)
  <2>1. IsSeq(p) /\ AllSimple(p) BY EnableIsSimple, CatIs, SimpleCat
  <2> HIDE DEF p
  <2>2. IsSeq(p \o enable_pmc) /\ AllSimple(p \o enable_pmc)
    BY <2>1, EnableIsSimple, CatIs, SimpleCat
  <2>3. IsSeq(p \o enable_pmc \o pmc_storage) /\ AllSimple(p \o enable_pmc \o pmc_storage)
        /\ LeadsTo(p \o enable_pmc \o pmc_storage, g)
    BY <2>2, StorageIsSimple, CatIs, SimpleCat, LeadsLater
  <2>4. QED BY <2>3, SimpleIsPlain DEF p
<1>3. form \in StaticFlag /\ form \notin StorageFlag /\ Implied(form) = {g}
  BY DEF StaticFlag, StorageFlag, FlagOf, Batch, Implied
<1> HIDE DEF then, g
<1>4. Good(m, {}, Once(form, then), {Flag(form)} \union Implied(form))
  BY <1>1, <1>2, <1>3, OnceOther
<1>5. Good(m, {}, Once(form, then), {g}) BY <1>3, <1>4, Weaken
<1>6. b \in Batch /\ g = Flag(FlagOf(b)) /\ b \notin RatioBatches
  BY DEF Batch, FlagOf, RatioBatches, g
<1>7. Good(m, {g}, Read(b), {WasRead(b)})
  <2>1. Ready(m, {g}, b) BY <1>6, FlagMakesReady
  <2>2. QED BY <1>6, <2>1, ReadIs
<1>8. Good(m, {WasRead(b)}, Show(b), {}) BY <1>6, ShowIs
<1>9. QED BY <1>5, <1>7, <1>8, Then DEF print_perfmon_counter_data, then

LEMMA UncoreCounters ==
  ASSUME NEW m, Core \subseteq Table[m]
  PROVE  /\ Good(m, {}, print_unc_counter_data, {})
         /\ Good(m, {}, print_verbose_unc_counter_data, {})
<1> DEFINE f == Flag("unc_counters_storage")
           g == Flag("unc_perfevtsel_storage")
<1>1. Good(m, {}, unc_counters_storage, {f}) /\ Good(m, {}, unc_perfevtsel_storage, {g})
  BY UncoreStorage DEF Core
<1>2. /\ "UNCORE_COUNT" \in Batch /\ FlagOf("UNCORE_COUNT") = "unc_counters_storage"
      /\ "UNCORE_EVTSEL" \in Batch /\ FlagOf("UNCORE_EVTSEL") = "unc_perfevtsel_storage"
  BY DEF Batch, FlagOf
<1>3. Good(m, {}, clear_all_pcu, {})
  <2>1. Good(m, {f}, Put("UNCORE_COUNT", Registers("PERFEVTSEL", 4), "zero"), {f})
    <3>1. Good(m, {f}, Put("UNCORE_COUNT", Registers("PERFEVTSEL", 4), "zero"), {}) BY <1>2, PutIs
    <3>2. QED BY <3>1, Keep, TokenKinds
  <2>2. Good(m, {f}, Write("UNCORE_COUNT"), {})
    <3>1. Ready(m, {f}, "UNCORE_COUNT") BY <1>2, FlagMakesReady
    <3>2. QED BY <3>1, WriteIs
  <2>3. QED BY <1>1, <2>1, <2>2, Then DEF clear_all_pcu
<1>4. Good(m, {g}, Write("UNCORE_EVTSEL"), {})
  <2>1. Ready(m, {g}, "UNCORE_EVTSEL") BY <1>2, FlagMakesReady
  <2>2. QED BY <2>1, WriteIs
<1>5. Good(m, {}, enable_pcu, {}) BY <1>1, <1>3, <1>4, Then DEF enable_pcu
<1>6. Good(m, {}, unc_counters_storage, {}) BY <1>1, Weaken
<1>7. Good(m, {}, Show("UNCORE_COUNT"), {}) BY ShowIs
<1>8. "print_unc_counter_data" \in StaticFlag /\ "print_unc_counter_data" \notin StorageFlag
      /\ Implied("print_unc_counter_data") = {}
  BY DEF StaticFlag, StorageFlag, FlagOf, Batch, Implied
<1>9. AllPlain(enable_pcu) BY EnableIsSimple, SimpleIsPlain
<1>10. Good(m, {}, Once("print_unc_counter_data", enable_pcu), {})
  <2>1. \A t \in Implied("print_unc_counter_data") : LeadsTo(enable_pcu, t) BY <1>8
  <2>2. Good(m, {}, Once("print_unc_counter_data", enable_pcu),
             {Flag("print_unc_counter_data")} \union Implied("print_unc_counter_data"))
    BY <1>5, <1>8, <1>9, <2>1, OnceOther
  <2>3. QED BY <2>2, Weaken
<1>11. QED BY <1>5, <1>6, <1>7, <1>10, Then DEF print_unc_counter_data, print_verbose_unc_counter_data

LEMMA AllCounters ==
  ASSUME NEW m, Core \subseteq Table[m]
  PROVE  /\ Good(m, {}, print_all_counter_data, {})
         /\ Good(m, {}, print_verbose_all_counter_data, {})
<1>1. Fixed \subseteq Table[m] BY DEF Core
<1>2. Good(m, {}, print_fixed_counter_data, {}) BY <1>1, FixedCounters
<1>3. /\ Good(m, {}, print_perfmon_counter_data("print_perfmon"), {})
      /\ Good(m, {}, print_perfmon_counter_data("print_verbose_perfmon"), {})
  BY PerfmonCounters
<1>4. QED BY <1>2, <1>3, UncoreCounters, Then
          DEF print_all_counter_data, print_verbose_all_counter_data,
              print_verbose_fixed_counter_data, print_verbose_perfmon_counter_data

-----------------------------------------------------------------------------
\* The plans of ratios, clocks, frequencies and temperatures.

LEMMA RatioIs ==
  ASSUME NEW m, NEW E, NEW b \in {"PLATFORM_INFO", "MAX_EFFICIENCY", "MIN_OPERATING_RATIO"},
         NEW then, "PLATFORM_INFO" \in Table[m],
         Good(m, {Flag(b), WasRead(b), WasChecked(b)}, then, {})
  PROVE  Good(m, E, ratio(b, then), {})
<1>1. R("PLATFORM_INFO") \in Register /\ Belongs(m, b, Address(m, R("PLATFORM_INFO")))
  <2>1. "PLATFORM_INFO" \in Name BY DEF Name
  <2>2. QED BY <2>1, TableRegister
<1>2. /\ Good(m, E, SocketStorage(b, R("PLATFORM_INFO")), {Flag(b)})
      /\ Ready(m, {Flag(b)}, b)
  BY <1>1, SocketStorageIs
<1>3. {Flag(b)} \union {WasRead(b)} \union Tested(b) = {Flag(b), WasRead(b), WasChecked(b)}
  BY DEF Tested, RatioBatches
<1>4. Good(m, {Flag(b)} \union {WasRead(b)} \union Tested(b), Agree(then), {}) BY <1>3, AgreeIs
<1>5. Good(m, {Flag(b)}, Check(b, Agree(then)), {}) BY <1>2, <1>4, CheckIs
<1>6. QED BY <1>2, <1>5, Then DEF ratio

\* A ratio that is printed at once.
LEMMA RatioShown ==
  ASSUME NEW m, NEW E, NEW b \in {"PLATFORM_INFO", "MAX_EFFICIENCY", "MIN_OPERATING_RATIO"},
         "PLATFORM_INFO" \in Table[m]
  PROVE  Good(m, E, ratio(b, Show(b)), {})
<1>1. b \in Batch BY DEF Batch
<1>2. Good(m, {Flag(b), WasRead(b), WasChecked(b)}, Show(b), {}) BY <1>1, ShowIs
<1>3. QED BY <1>2, RatioIs

LEMMA ConfigTdp ==
  ASSUME NEW m, NEW E, NEW level \in TdpLevel, TdpLevel \subseteq Table[m]
  PROVE  Good(m, E, config_tdp(level), {})
<1> DEFINE b == "TDP_CONFIG"
<1>1. R(level) \in Register /\ Belongs(m, b, Address(m, R(level)))
  <2>1. level \in Name BY DEF Name, TdpLevel
  <2>2. level \notin {"MISC_ENABLE", "PKG_POWER_LIMIT", "PERF_GLOBAL_CTRL", "FIXED_CTR_CTRL", "none"}
    BY DEF TdpLevel
  <2>3. QED BY <2>1, <2>2, TableRegister
<1>2. Good(m, E, SocketStorage(b, R(level)), {Flag(b)}) /\ Ready(m, {Flag(b)}, b)
  BY <1>1, SocketStorageIs
<1>3. b \in Batch /\ WasChecked(b) \in Tested(b) BY DEF Batch, Tested, RatioBatches
<1>4. Good(m, {Flag(b)} \union {WasRead(b)} \union Tested(b), Show(b), {}) BY <1>3, ShowIs
<1>5. Good(m, {Flag(b)} \union {WasRead(b)} \union Tested(b), Agree(Show(b)), {}) BY <1>4, AgreeIs
<1>6. Good(m, {Flag(b)}, Check(b, Agree(Show(b))), {}) BY <1>2, <1>5, CheckIs
<1>7. QED BY <1>2, <1>6, Then DEF config_tdp

LEMMA AvxLimits ==
  ASSUME NEW m, NEW E, NEW haslevels \in BOOLEAN, haslevels => TdpLevel \subseteq Table[m],
         "PLATFORM_INFO" \in Table[m]
  PROVE  Good(m, E, get_avx_limits(haslevels), {})
<1> DEFINE level(l) == IF haslevels THEN config_tdp(l) ELSE Dereference
           b == "TDP_DEFS"
           D == {Flag(b)} \union {WasRead(b)} \union Tested(b)
           last == get_max_non_turbo_ratio(Show("PLATFORM_INFO"))
<1>1. ASSUME NEW l \in TdpLevel PROVE Good(m, D, level(l), {})
  <2>1. CASE haslevels BY <2>1, ConfigTdp
  <2>2. CASE ~haslevels BY <2>2, DereferenceIs
  <2>3. QED BY <2>1, <2>2
<1>2. Good(m, D, last, {}) BY RatioShown DEF get_max_non_turbo_ratio
<1>3. Good(m, D, level("CONFIG_TDP_LEVEL2"), {}) /\ Good(m, D, level("CONFIG_TDP_LEVEL1"), {})
  BY <1>1 DEF TdpLevel
<1> HIDE DEF level, last
<1>4. Good(m, D, Levels(level("CONFIG_TDP_LEVEL2"), level("CONFIG_TDP_LEVEL1"), last), {})
  BY <1>2, <1>3, LevelsIs
<1>5. R("PLATFORM_INFO") \in Register /\ Belongs(m, b, Address(m, R("PLATFORM_INFO")))
  <2>1. "PLATFORM_INFO" \in Name BY DEF Name
  <2>2. QED BY <2>1, TableRegister
<1>6. Good(m, E, SocketStorage(b, R("PLATFORM_INFO")), {Flag(b)}) /\ Ready(m, {Flag(b)}, b)
  BY <1>5, SocketStorageIs
<1>7. Good(m, {Flag(b)}, Check(b, Levels(level("CONFIG_TDP_LEVEL2"), level("CONFIG_TDP_LEVEL1"), last)), {})
  BY <1>4, <1>6, CheckIs
<1>8. QED BY <1>6, <1>7, Then DEF get_avx_limits, level, last

LEMMA TurboLimits ==
  ASSUME NEW m, NEW E, NEW b2 \in {"TURBO_RATIO_LIMIT1", "TURBO_RATIO_LIMIT_CORES"},
         b2 = "TURBO_RATIO_LIMIT_CORES" <=> m \in NewTurbo,
         {"TURBO_RATIO_LIMIT", b2} \subseteq Table[m]
  PROVE  Good(m, E, get_turbo_ratio_limits(b2), {})
<1> DEFINE b1 == "TURBO_RATIO_LIMIT"
           f == Flag("get_turbo_ratio_limits")
           store == Once("get_turbo_ratio_limits",
                         Allocate("TURBO_RATIO_LIMIT", NSOCKETS) \o Allocate(b2, NSOCKETS)
                           \o Load("TURBO_RATIO_LIMIT", R("TURBO_RATIO_LIMIT"), SocketCpus)
                           \o Load(b2, R(b2), SocketCpus))
<1>1. Good(m, E, store, {f}) BY TurboStorage
<1>2. /\ b1 \in Batch /\ f = Flag(FlagOf(b1)) /\ b1 \notin RatioBatches
      /\ b2 \in Batch /\ f = Flag(FlagOf(b2)) /\ b2 \notin RatioBatches
  BY DEF Batch, FlagOf, RatioBatches
<1>3. Uses(m, b1) /\ Uses(m, b2) BY DEF Uses
<1> HIDE DEF f, store
<1>4. \A F : f \in F => Ready(m, F, b1) /\ Ready(m, F, b2) BY <1>2, <1>3 DEF Ready
<1>5. Good(m, {f}, Read(b1), {f, WasRead(b1)})
  <2>1. Good(m, {f}, Read(b1), {WasRead(b1)}) BY <1>2, <1>4, ReadIs
  <2>2. QED BY <2>1, Keep, TokenKinds DEF f
<1>6. Good(m, {f, WasRead(b1)}, Read(b2), {WasRead(b1), WasRead(b2)})
  <2>1. Good(m, {f, WasRead(b1)}, Read(b2), {WasRead(b2)}) BY <1>2, <1>4, ReadIs
  <2>2. QED BY <2>1, Keep, TokenKinds DEF f
<1>7. Good(m, {WasRead(b1), WasRead(b2)}, Show(b1), {WasRead(b2)})
  <2>1. Good(m, {WasRead(b1), WasRead(b2)}, Show(b1), {}) BY <1>2, ShowIs
  <2>2. QED BY <2>1, Keep, TokenKinds
<1>8. Good(m, {WasRead(b2)}, Show(b2), {}) BY <1>2, ShowIs
<1>9. Good(m, {WasRead(b1), WasRead(b2)}, Agree(Show(b1) \o Show(b2)), {})
  BY <1>7, <1>8, Then, AgreeIs
<1>10. Good(m, E, store \o Read(b1) \o Read(b2) \o Agree(Show(b1) \o Show(b2)), {})
  BY <1>1, <1>5, <1>6, <1>9, Then
<1>11. QED BY <1>10 DEF get_turbo_ratio_limits, store

LEMMA AvailableFrequencies ==
  ASSUME NEW m, NEW b2 \in {"TURBO_RATIO_LIMIT1", "TURBO_RATIO_LIMIT_CORES"},
         NEW haslimit1 \in BOOLEAN, NEW haslevels \in BOOLEAN,
         b2 = "TURBO_RATIO_LIMIT_CORES" <=> m \in NewTurbo, Core \subseteq Table[m],
         haslimit1 => b2 \in Table[m], haslevels => TdpLevel \subseteq Table[m]
  PROVE  Good(m, {}, get_available_frequencies(b2, haslimit1, haslevels), {})
<1>1. "PLATFORM_INFO" \in Table[m] /\ "TURBO_RATIO_LIMIT" \in Table[m] BY DEF Core, Rapl
<1>2. Good(m, {}, IF haslimit1 THEN get_turbo_ratio_limits(b2) ELSE Dereference, {})
  <2>1. CASE haslimit1 BY <1>1, <2>1, TurboLimits
  <2>2. CASE ~haslimit1 BY <2>2, DereferenceIs
  <2>3. QED BY <2>1, <2>2
<1>3. Good(m, {}, get_avx_limits(haslevels), {}) BY <1>1, AvxLimits
<1>4. /\ Good(m, {}, get_max_non_turbo_ratio(Show("PLATFORM_INFO")), {})
      /\ Good(m, {}, get_max_efficiency_ratio(Show("MAX_EFFICIENCY")), {})
      /\ Good(m, {}, get_min_operating_ratio(Show("MIN_OPERATING_RATIO")), {})
  BY <1>1, RatioShown
     DEF get_max_non_turbo_ratio, get_max_efficiency_ratio, get_min_operating_ratio
<1> DEFINE first == IF haslimit1 THEN get_turbo_ratio_limits(b2) ELSE Dereference
<1> HIDE DEF first
<1>5. Good(m, {}, first \o get_avx_limits(haslevels)
                    \o get_max_non_turbo_ratio(Show("PLATFORM_INFO"))
                    \o get_max_efficiency_ratio(Show("MAX_EFFICIENCY"))
                    \o get_min_operating_ratio(Show("MIN_OPERATING_RATIO")), {})
  <2>1. Good(m, {}, first, {}) BY <1>2 DEF first
  <2>2. QED BY <2>1, <1>3, <1>4, Then
<1>6. QED BY <1>5 DEF get_available_frequencies, first

LEMMA ClocksReport ==
  ASSUME NEW m
  PROVE  Good(m, {Flag("clocks_storage"), Flag("perf_storage"), WasRead("PLATFORM_INFO"),
                  WasChecked("PLATFORM_INFO")}, clocks_report, {})
<1> DEFINE c == "CLOCKS_DATA"
           d == "PERF_DATA"
           i == "PLATFORM_INFO"
           D0 == {Flag("clocks_storage"), Flag("perf_storage"), WasRead(i), WasChecked(i)}
           D1 == {Flag("perf_storage"), WasRead(i), WasChecked(i), WasRead(c)}
           D2 == {WasRead(i), WasChecked(i), WasRead(c), WasRead(d)}
           D3 == {WasRead(c), WasRead(d)}
<1>1. /\ c \in Batch /\ FlagOf(c) = "clocks_storage" /\ c \notin RatioBatches
      /\ d \in Batch /\ FlagOf(d) = "perf_storage" /\ d \notin RatioBatches
      /\ i \in Batch
  BY DEF Batch, FlagOf, RatioBatches
<1>2. Ready(m, D0, c) /\ Ready(m, D1, d) BY <1>1, FlagMakesReady
<1>3. Good(m, D0, Read(c), D1)
  <2>1. ASSUME NEW s, s = [do |-> "read", b |-> c, then |-> << >>] PROVE Good(m, D0, <<s>>, D1)
    <3>1. StepOK(m, {}, D0, s) BY <1>1, <1>2, <2>1 DEF StepOK
    <3>2. Plain(s) /\ WasRead(c) \in Gives(s) BY <2>1 DEF Plain, Gives, GivesFirst
    <3>3. D1 \subseteq Gives(s) \union {t \in D0 : t[1] = "checked" => Plain(s)} BY <3>2
    <3>4. QED BY <3>1, <3>3, Leaf, NothingSound
  <2>2. QED BY <2>1 DEF Read
<1>4. Good(m, D1, Read(d), D2)
  <2>1. ASSUME NEW s, s = [do |-> "read", b |-> d, then |-> << >>] PROVE Good(m, D1, <<s>>, D2)
    <3>1. StepOK(m, {}, D1, s) BY <1>1, <1>2, <2>1 DEF StepOK
    <3>2. Plain(s) /\ WasRead(d) \in Gives(s) BY <2>1 DEF Plain, Gives, GivesFirst
    <3>3. D2 \subseteq Gives(s) \union {t \in D1 : t[1] = "checked" => Plain(s)} BY <3>2
    <3>4. QED BY <3>1, <3>3, Leaf, NothingSound
  <2>2. QED BY <2>1 DEF Read
<1>5. Good(m, D2, Show(i), D3)
  <2>1. Good(m, D2, Show(i), {}) BY <1>1, ShowIs
  <2>2. QED BY <2>1, Keep, TokenKinds
<1>6. Good(m, D3, Show(c), {WasRead(d)})
  <2>1. Good(m, D3, Show(c), {}) BY <1>1, ShowIs
  <2>2. QED BY <2>1, Keep, TokenKinds
<1>7. Good(m, {WasRead(d)}, Show(d), {}) BY <1>1, ShowIs
<1> HIDE DEF D1, D2, D3
<1>8. QED BY <1>3, <1>4, <1>5, <1>6, <1>7, Then DEF clocks_report

LEMMA ClocksData ==
  ASSUME NEW m, Core \subseteq Table[m]
  PROVE  Good(m, {}, print_clocks_data, {}) /\ Good(m, {}, print_verbose_clocks_data, {})
<1> DEFINE i == "PLATFORM_INFO"
           D == {Flag(i), WasRead(i), WasChecked(i)}
           f == Flag("clocks_storage")
           g == Flag("perf_storage")
           store == clocks_storage \o perf_storage
           D0 == {f, g, WasRead(i), WasChecked(i)}
<1>1. {"APERF", "MPERF", "TIME_STAMP_COUNTER", "PERF_STATUS", "PLATFORM_INFO"} \subseteq Table[m]
  BY DEF Core, Rapl, Fixed
<1>2. IsSeq(store) /\ AllSimple(store) /\ AllPlain(store) /\ LeadsTo(store, f) /\ LeadsTo(store, g)
  BY StorageIsSimple, CatIs, SimpleCat, LeadsSooner, LeadsLater, SimpleIsPlain
<1>3. Good(m, D, store, {f, g})
  <2>1. Good(m, D, clocks_storage, {f}) BY <1>1, ClocksStorage
  <2>2. Good(m, {f}, perf_storage, {f, g})
    <3>1. Good(m, {f}, perf_storage, {g}) BY <1>1, PerfStorage
    <3>2. QED BY <3>1, Keep, TokenKinds
  <2>3. QED BY <2>1, <2>2, Then
<1>4. "print_clocks_data" \in StaticFlag /\ "print_clocks_data" \notin StorageFlag
      /\ Implied("print_clocks_data") = {f, g}
  BY DEF StaticFlag, StorageFlag, FlagOf, Batch, Implied
<1>5. Good(m, D, Once("print_clocks_data", store), D0)
  <2> HIDE DEF store, f, g, D
  <2>1. Good(m, D, Once("print_clocks_data", store),
             {Flag("print_clocks_data")} \union Implied("print_clocks_data"))
    BY <1>2, <1>3, <1>4, OnceOther
  <2>2. AllPlain(Once("print_clocks_data", store)) BY SimpleOnes
  <2>3. D0 \subseteq D \union ({Flag("print_clocks_data")} \union Implied("print_clocks_data"))
    BY <1>4 DEF D
  <2>4. QED BY <2>1, <2>2, <2>3, KeepAll
<1>6. Good(m, D, store, D0)
  <2>1. D0 \subseteq D \union {f, g} OBVIOUS
  <2> HIDE DEF store, D, D0, f, g
  <2>2. QED BY <1>2, <1>3, <2>1, KeepAll
<1>7. Good(m, D0, clocks_report, {}) BY ClocksReport
<1>8. /\ Good(m, D, Once("print_clocks_data", store) \o clocks_report, {})
      /\ Good(m, D, store \o clocks_report, {})
  BY <1>5, <1>6, <1>7, Then
<1>9. /\ Good(m, {}, ratio(i, Once("print_clocks_data", store) \o clocks_report), {})
      /\ Good(m, {}, ratio(i, store \o clocks_report), {})
  BY <1>1, <1>8, RatioIs
<1>10. QED BY <1>9 DEF print_clocks_data, print_verbose_clocks_data, get_max_non_turbo_ratio

LEMMA CapFrequencyIs ==
  ASSUME NEW m, Core \subseteq Table[m]
  PROVE  Good(m, {}, cap_frequency, {})
<1> DEFINE b == "PERF_CTRL"
           f == Flag("perf_storage_temp")
           store == perf_storage_temp(R("PERF_STATUS"))
<1>1. b \in Batch /\ f = Flag(FlagOf(b)) /\ FlagOf(b) = "perf_storage_temp" /\ b \notin RatioBatches
  BY DEF Batch, FlagOf, RatioBatches
<1>2. Good(m, {}, store, {f}) BY PerfStorage DEF Core
<1>3. "cap_p_state" \in StaticFlag /\ "cap_p_state" \notin StorageFlag /\ Implied("cap_p_state") = {f}
  BY DEF StaticFlag, StorageFlag, FlagOf, Batch, Implied
<1>4. AllPlain(store) /\ LeadsTo(store, f) BY SimpleOnes DEF perf_storage_temp
<1> HIDE DEF store, f
<1>5. Good(m, {}, Once("cap_p_state", store), {f})
  <2>1. Good(m, {}, Once("cap_p_state", store), {Flag("cap_p_state")} \union Implied("cap_p_state"))
    BY <1>2, <1>3, <1>4, OnceOther
  <2>2. QED BY <1>3, <2>1, Weaken
<1>6. Ready(m, {f}, b) BY <1>1, FlagMakesReady
<1>7. Good(m, {f}, Put(b, {R("PERF_STATUS")}, "whole"), {f})
  <2>1. Good(m, {f}, Put(b, {R("PERF_STATUS")}, "whole"), {}) BY <1>1, PutIs
  <2>2. QED BY <2>1, Keep, TokenKinds DEF f
<1>8. Good(m, {f}, Write(b), {f})
  <2>1. Good(m, {f}, Write(b), {}) BY <1>6, WriteIs
  <2>2. QED BY <2>1, Keep, TokenKinds DEF f
<1>9. Good(m, {f}, Read(b), {})
  <2>1. Good(m, {f}, Read(b), {WasRead(b)}) BY <1>1, <1>6, ReadIs
  <2>2. QED BY <2>1, Weaken
<1>10. QED BY <1>5, <1>7, <1>8, <1>9, Then DEF cap_frequency, cap_p_state, store

\* A batch of one register per socket, read and printed.
LEMMA SocketReport ==
  ASSUME NEW m, NEW msr \in Register, NEW b \in {"PKG_THERM_STAT", "TEMP_TARGET", "RAPL_UNIT"},
         Belongs(m, b, Address(m, msr))
  PROVE  Good(m, {}, SocketStorage(b, msr) \o Read(b) \o Show(b), {})
<1>1. Good(m, {}, SocketStorage(b, msr), {Flag(b)}) /\ Ready(m, {Flag(b)}, b) BY SocketStorageIs
<1>2. b \in Batch /\ b \notin RatioBatches BY DEF Batch, RatioBatches
<1>3. Good(m, {Flag(b)}, Read(b), {WasRead(b)}) BY <1>1, <1>2, ReadIs
<1>4. Good(m, {WasRead(b)}, Show(b), {}) BY <1>2, ShowIs
<1>5. QED BY <1>1, <1>3, <1>4, Then

LEMMA Thermals ==
  ASSUME NEW m, Core \subseteq Table[m]
  PROVE  Good(m, {}, print_therm_temp_reading, {})
<1>1. {"TEMPERATURE_TARGET", "THERM_STATUS", "PACKAGE_THERM_STATUS"} \subseteq Table[m] BY DEF Core
<1>2. {"TEMPERATURE_TARGET", "THERM_STATUS", "PACKAGE_THERM_STATUS"} \subseteq Name BY DEF Name
<1>3. Good(m, {}, get_pkg_therm_stat, {})
  <2>1. R("PACKAGE_THERM_STATUS") \in Register
        /\ Belongs(m, "PKG_THERM_STAT", Address(m, R("PACKAGE_THERM_STATUS")))
    BY <1>1, <1>2, TableRegister
  <2>2. QED BY <2>1, SocketReport DEF get_pkg_therm_stat
<1>4. Good(m, {}, get_temp_target, {})
  <2>1. R("TEMPERATURE_TARGET") \in Register
        /\ Belongs(m, "TEMP_TARGET", Address(m, R("TEMPERATURE_TARGET")))
    BY <1>1, <1>2, TableRegister
  <2>2. QED BY <2>1, SocketReport DEF get_temp_target
<1>5. Good(m, {}, get_therm_stat, {})
  <2> DEFINE b == "THERM_STAT"
             f == Flag("get_therm_stat")
  <2>1. b \in Batch /\ f = Flag(FlagOf(b)) /\ b \notin RatioBatches BY DEF Batch, FlagOf, RatioBatches
  <2>2. Ready(m, {f}, b) BY <2>1, FlagMakesReady
  <2>3. Good(m, {f}, Read(b), {WasRead(b)}) BY <2>1, <2>2, ReadIs
  <2>4. Good(m, {WasRead(b)}, Show(b), {}) BY <2>1, ShowIs
  <2>5. QED BY <1>1, <2>3, <2>4, ThermStorage, Then DEF get_therm_stat
<1>6. QED BY <1>3, <1>4, <1>5, Then DEF print_therm_temp_reading

-----------------------------------------------------------------------------
\* The plans of power and energy.

\* The unit register brings in the units; with the units there, any register will do.
LEMMA TranslateIs ==
  ASSUME NEW m, NEW E, "RAPL_POWER_UNIT" \in Table[m]
  PROVE  /\ Good(m, E, get_rapl_power_unit(R("RAPL_POWER_UNIT")), {Flag("RAPL_UNIT"), WasRead("RAPL_UNIT")})
         /\ Good(m, E, translate(R("RAPL_POWER_UNIT")), {Flag("translate")})
<1> DEFINE b == "RAPL_UNIT"
           msr == R("RAPL_POWER_UNIT")
           store == get_rapl_power_unit(msr)
           then == store \o TakeUnits
<1>1. msr \in Register /\ Belongs(m, b, Address(m, msr))
  <2>1. "RAPL_POWER_UNIT" \in Name BY DEF Name
  <2>2. msr = <<"RAPL_POWER_UNIT", 0>> /\ msr \in Register BY <2>1, RegisterIs
  <2>3. Address(m, msr) = msr BY <2>2, AddressIs
  <2>4. msr \notin {R("MISC_ENABLE"), R("PKG_POWER_LIMIT")} /\ msr \notin Controls /\ msr # Absent
    BY DEF R, Controls, Absent
  <2>5. QED BY <2>2, <2>3, <2>4 DEF Belongs
<1>2. Good(m, E, SocketStorage(b, msr), {Flag(b)}) /\ Ready(m, {Flag(b)}, b)
  BY <1>1, SocketStorageIs
<1>3. b \in Batch /\ b \notin RatioBatches BY DEF Batch, RatioBatches
<1>4. Good(m, {Flag(b)}, Read(b), {Flag(b), WasRead(b)})
  <2>1. Good(m, {Flag(b)}, Read(b), {WasRead(b)}) BY <1>2, <1>3, ReadIs
  <2>2. QED BY <2>1, Keep, TokenKinds
<1>5. Good(m, E, store, {Flag(b), WasRead(b)}) BY <1>2, <1>4, Then DEF get_rapl_power_unit
<1>6. Good(m, E, then, {UnitsReady})
  <2>1. Good(m, {Flag(b), WasRead(b)}, TakeUnits, {UnitsReady}) BY TakeUnitsIs
  <2>2. QED BY <1>5, <2>1, Then
<1>7. AllPlain(then) /\ LeadsTo(then, UnitsReady)
  <2>1. "RAPL_UNIT" \in StorageFlag
    <3>1. FlagOf(b) = b BY DEF FlagOf
    <3>2. QED BY <1>3, <3>1 DEF StorageFlag
  <2>2. IsSeq(store) /\ AllSimple(store)
    BY <2>1, SimpleOnes, CatIs, SimpleCat DEF get_rapl_power_unit, SocketStorage
  <2>3. LeadsTo(TakeUnits, UnitsReady)
    <3>1. UnitsReady \in GivesFirst([do |-> "take_units"]) BY DEF GivesFirst
    <3>2. QED BY <3>1, LeadsNow DEF TakeUnits
  <2> HIDE DEF store
  <2>4. QED BY <2>2, <2>3, SimpleOnes, SimpleIsPlain, PlainCat, LeadsLater
<1>8. "translate" \in StaticFlag /\ "translate" \notin StorageFlag /\ Implied("translate") = {UnitsReady}
  BY DEF StaticFlag, StorageFlag, FlagOf, Batch, Implied
<1> HIDE DEF then
<1>9. Good(m, E, Once("translate", then), {Flag("translate"), UnitsReady})
  <2>1. Good(m, E, Once("translate", then), {Flag("translate")} \union Implied("translate"))
    BY <1>6, <1>7, <1>8, OnceOther
  <2>2. QED BY <1>8, <2>1, Weaken
<1>10. Good(m, {Flag("translate"), UnitsReady}, Convert, {Flag("translate")})
  <2>1. Good(m, {Flag("translate"), UnitsReady}, Convert, {}) BY ConvertIs
  <2>2. QED BY <2>1, Keep, TokenKinds
<1>11. QED BY <1>5, <1>9, <1>10, Then DEF translate, then

LEMMA TranslateKnown ==
  ASSUME NEW m, NEW E, NEW msr, Flag("translate") \in E
  PROVE  Good(m, E, translate(msr), {Flag("translate")})
<1> DEFINE then == get_rapl_power_unit(msr) \o TakeUnits
<1>1. "translate" \in StaticFlag /\ Implied("translate") = {UnitsReady} BY DEF StaticFlag, Implied
<1> HIDE DEF then
<1>2. Good(m, E, Once("translate", then), {Flag("translate"), UnitsReady})
  <2>1. Good(m, E, Once("translate", then), {Flag("translate")} \union Implied("translate"))
    BY <1>1, OnceKnown
  <2>2. QED BY <1>1, <2>1, Weaken
<1>3. Good(m, {Flag("translate"), UnitsReady}, Convert, {Flag("translate")})
  <2>1. Good(m, {Flag("translate"), UnitsReady}, Convert, {}) BY ConvertIs
  <2>2. QED BY <2>1, Keep, TokenKinds
<1>4. QED BY <1>2, <1>3, Then DEF translate, then

\* The limits bring in the units if they are not there; the information needs them.
LEMMA PowerLimits ==
  ASSUME NEW m, NEW E, "RAPL_POWER_UNIT" \in Table[m]
  PROVE  /\ Good(m, E, get_package_rapl_limit, {Flag("translate")})
         /\ Good(m, E, get_dram_rapl_limit, {Flag("translate")})
         /\ IsSeq(get_package_rapl_limit) /\ AllPlain(get_package_rapl_limit)
         /\ IsSeq(get_dram_rapl_limit) /\ AllPlain(get_dram_rapl_limit)
<1> DEFINE p == translate(R("RAPL_POWER_UNIT"))
           T1 == {Flag("translate")}
<1>1. Good(m, E, p, T1) /\ Good(m, T1, p, T1) BY TranslateIs
<1>2. IsSeq(p) /\ AllPlain(p)
  <2>1. IsSeq(Convert) /\ AllPlain(Convert)
    <3>1. \A k \in 1..1 : k = 1 OBVIOUS
    <3>2. Plain([do |-> "convert"]) BY DEF Plain
    <3>3. QED BY <3>1, <3>2, OneIs DEF Convert, AllPlain
  <2>2. QED BY <2>1, SimpleOnes, CatIs, PlainCat DEF translate
<1> HIDE DEF p, T1
<1>3. Good(m, E, p \o p, T1) /\ IsSeq(p \o p) /\ AllPlain(p \o p) BY <1>1, <1>2, Then, CatIs, PlainCat
<1>4. get_package_rapl_limit = p \o p /\ get_dram_rapl_limit = p
  BY DEF get_package_rapl_limit, get_dram_rapl_limit, calc_package_rapl_limit, calc_dram_rapl_limit,
         calc_rapl_from_bits, p
<1>5. QED BY <1>1, <1>2, <1>3, <1>4 DEF T1

LEMMA PowerInfo ==
  ASSUME NEW m, NEW E, Flag("translate") \in E
  PROVE  /\ Good(m, E, get_rapl_pkg_power_info, {Flag("translate")})
         /\ Good(m, E, get_rapl_dram_power_info, {Flag("translate")})
  BY TranslateKnown DEF get_rapl_pkg_power_info, get_rapl_dram_power_info

\* What every model has of power and energy.
HasEnergy(m) == /\ Rapl \subseteq Table[m]
                /\ "DRAM_ENERGY_STATUS" \in Table[m] \/ m \in {"2A", "2D"}

LEMMA GetPower ==
  ASSUME NEW m, NEW E, HasEnergy(m)
  PROVE  Good(m, E, get_power, {Flag("translate"), WasRead("RAPL_DATA")})
<1> DEFINE b == "RAPL_DATA"
           f == Flag("read_rapl_data")
<1>1. "PKG_ENERGY_STATUS" \in Table[m] /\ "RAPL_POWER_UNIT" \in Table[m] BY DEF HasEnergy, Rapl
<1>2. Good(m, E, Once("read_rapl_data", create_rapl_data_batch), {f}) BY <1>1, RaplStorage DEF HasEnergy
<1>3. b \in Batch /\ f = Flag(FlagOf(b)) /\ b \notin RatioBatches BY DEF Batch, FlagOf, RatioBatches
<1>4. Good(m, {f}, Read(b), {WasRead(b)})
  <2>1. Ready(m, {f}, b) BY <1>3, FlagMakesReady
  <2>2. QED BY <1>3, <2>1, ReadIs
<1>5. Good(m, {WasRead(b)}, translate(R("RAPL_POWER_UNIT")), {Flag("translate"), WasRead(b)})
  <2>1. Good(m, {WasRead(b)}, translate(R("RAPL_POWER_UNIT")), {Flag("translate")}) BY <1>1, TranslateIs
  <2>2. QED BY <2>1, Keep, TokenKinds
<1>6. QED BY <1>2, <1>4, <1>5, Then DEF get_power, read_rapl_data

LEMMA PowerLimitsShown ==
  ASSUME NEW m, NEW dram, "RAPL_POWER_UNIT" \in Table[m]
  PROVE  Good(m, {}, get_power_limits(dram), {})
<1> DEFINE T1 == {Flag("translate")}
           p == IF "limit" \in dram THEN print_dram_power_limit ELSE << >>
           q == IF "info" \in dram THEN print_dram_power_info ELSE << >>
<1>1. Good(m, {}, print_package_power_limit, T1) BY PowerLimits DEF print_package_power_limit
<1>2. Good(m, T1, << >>, T1)
  <2>1. Good(m, T1, << >>, {}) BY Nothing
  <2>2. QED BY <2>1, Keep, TokenKinds
<1>3. Good(m, T1, p, T1)
  <2>1. CASE "limit" \in dram BY <2>1, PowerLimits DEF print_dram_power_limit
  <2>2. CASE "limit" \notin dram BY <2>2, <1>2
  <2>3. QED BY <2>1, <2>2
<1>4. Good(m, T1, print_package_power_info, T1) BY PowerInfo DEF print_package_power_info
<1>5. Good(m, T1, q, T1)
  <2>1. CASE "info" \in dram BY <2>1, PowerInfo DEF print_dram_power_info
  <2>2. CASE "info" \notin dram BY <2>2, <1>2
  <2>3. QED BY <2>1, <2>2
<1>6. Good(m, T1, print_rapl_power_unit, {})
  <2>1. Good(m, T1, get_rapl_power_unit(R("RAPL_POWER_UNIT")), {Flag("RAPL_UNIT"), WasRead("RAPL_UNIT")})
    BY TranslateIs
  <2>2. "RAPL_UNIT" \in Batch /\ "RAPL_UNIT" \notin RatioBatches BY DEF Batch, RatioBatches
  <2>3. Good(m, {Flag("RAPL_UNIT"), WasRead("RAPL_UNIT")}, Show("RAPL_UNIT"), {}) BY <2>2, ShowIs
  <2>4. QED BY <2>1, <2>3, Then DEF print_rapl_power_unit
<1> HIDE DEF T1, p, q
<1>7. Good(m, {}, print_package_power_limit \o p \o print_package_power_info \o q
                    \o print_rapl_power_unit, {})
  BY <1>1, <1>3, <1>4, <1>5, <1>6, Then
<1>8. QED BY <1>7 DEF get_power_limits, p, q

LEMMA PowerShown ==
  ASSUME NEW m, HasEnergy(m)
  PROVE  /\ Good(m, {}, print_power_data, {}) /\ Good(m, {}, json_get_power_data, {})
         /\ Good(m, {}, print_energy_data, {}) /\ Good(m, {}, json_get_power_domain_info, {})
         /\ Good(m, {}, get_all_power_data, {})
<1> DEFINE W == WasRead("RAPL_DATA")
           D == {Flag("translate"), W}
           then == get_package_rapl_limit \o get_dram_rapl_limit
           f == "get_all_power_data"
<1>1. "RAPL_POWER_UNIT" \in Table[m] BY DEF HasEnergy, Rapl
<1>2. Good(m, {}, get_power, D) BY GetPower
<1>3. Good(m, D, Show("RAPL_DATA"), {}) /\ Good(m, {W}, Show("RAPL_DATA"), {})
  <2>1. "RAPL_DATA" \in Batch /\ "RAPL_DATA" \notin RatioBatches BY DEF Batch, RatioBatches
  <2>2. QED BY <2>1, ShowIs
<1>4. Good(m, D, get_package_rapl_limit, {W})
  <2>1. Good(m, D, get_package_rapl_limit, {Flag("translate")}) BY <1>1, PowerLimits
  <2>2. QED BY <2>1, Keep, TokenKinds
<1>5. Good(m, D, Once(f, then), {W})
  <2>1. Good(m, D, then, {Flag("translate")}) /\ AllPlain(then)
    BY <1>1, <1>4, PowerLimits, PlainCat, Then
  <2>2. f \in StaticFlag /\ f \notin StorageFlag /\ Implied(f) = {}
    BY DEF StaticFlag, StorageFlag, FlagOf, Batch, Implied
  <2> HIDE DEF then, f, D
  <2>3. Good(m, D, Once(f, then), {Flag(f)} \union Implied(f)) BY <2>1, <2>2, OnceOther
  <2>4. QED BY <2>3, Keep, TokenKinds DEF D
<1>6. Good(m, {}, json_get_power_domain_info, {})
  <2> DEFINE T1 == {Flag("translate")}
  <2>1. Good(m, {}, get_package_rapl_limit, T1) BY <1>1, PowerLimits
  <2>2. Good(m, T1, get_rapl_pkg_power_info, T1) BY PowerInfo
  <2>3. Good(m, T1, get_rapl_dram_power_info, {})
    <3>1. Good(m, T1, get_rapl_dram_power_info, T1) BY PowerInfo
    <3>2. QED BY <3>1, Weaken
  <2>4. QED BY <2>1, <2>2, <2>3, Then DEF json_get_power_domain_info
<1> HIDE DEF D, W
<1>7. QED BY <1>2, <1>3, <1>4, <1>5, <1>6, Then
          DEF print_power_data, json_get_power_data, print_energy_data, get_all_power_data

\* The monitor reads three batches, and starts the counters the first time.
LEMMA MonitorShown ==
  ASSUME NEW m, HasEnergy(m), Fixed \subseteq Table[m]
  PROVE  Good(m, {}, get_all_power_data_fixed, {})
<1> DEFINE w == "RAPL_DATA"
           b == "FIXED_COUNTERS_DATA"
           c == "CLOCKS_DATA"
           fb == Flag("fixed_counter_storage")
           fc == Flag("clocks_storage")
           D == {Flag("translate"), WasRead(w)}
           D0 == {WasRead(w), fb, fc}
           D1 == {WasRead(w), fc, WasRead(b)}
           D2 == {WasRead(w), WasRead(b), WasRead(c)}
           D3 == {WasRead(b), WasRead(c)}
           store == fixed_counter_storage \o enable_fixed_counters \o clocks_storage
           then == store \o get_package_rapl_limit \o get_dram_rapl_limit
           f == "get_all_power_data_fixed"
<1>1. {"APERF", "MPERF", "TIME_STAMP_COUNTER", "FIXED_CTR", "RAPL_POWER_UNIT"} \subseteq Table[m]
  BY DEF HasEnergy, Rapl, Fixed
<1>2. /\ w \in Batch /\ w \notin RatioBatches /\ b \in Batch /\ b \notin RatioBatches
      /\ c \in Batch /\ c \notin RatioBatches
      /\ FlagOf(b) = "fixed_counter_storage" /\ FlagOf(c) = "clocks_storage"
  BY DEF Batch, RatioBatches, FlagOf
<1>3. Good(m, {}, get_power, D) BY GetPower
<1>4. Good(m, D, then, {Flag("translate")})
  <2>1. Good(m, D, fixed_counter_storage, {}) /\ Good(m, {}, enable_fixed_counters, {})
    <3>1. Good(m, D, fixed_counter_storage, {fb}) BY <1>1, FixedCounterStorage
    <3>2. Good(m, {}, enable_fixed_counters, {fb}) BY FixedCounters
    <3>3. QED BY <3>1, <3>2, Weaken
  <2>2. Good(m, {}, clocks_storage, {})
    <3>1. Good(m, {}, clocks_storage, {fc}) BY <1>1, ClocksStorage
    <3>2. QED BY <3>1, Weaken
  <2>3. Good(m, D, store, {}) BY <2>1, <2>2, Then
  <2>4. Good(m, {}, get_package_rapl_limit, {Flag("translate")})
        /\ Good(m, {Flag("translate")}, get_dram_rapl_limit, {Flag("translate")})
    BY <1>1, PowerLimits
  <2>5. QED BY <2>3, <2>4, Then
<1>5. AllPlain(then) /\ LeadsTo(then, fb) /\ LeadsTo(then, fc)
  <2> DEFINE first == fixed_counter_storage \o enable_fixed_counters
  <2>1. IsSeq(first) /\ AllSimple(first) /\ LeadsTo(first, fb)
    BY StorageIsSimple, EnableIsSimple, CatIs, SimpleCat, LeadsSooner
  <2> HIDE DEF first
  <2>2. IsSeq(first \o clocks_storage) /\ AllSimple(first \o clocks_storage)
        /\ LeadsTo(first \o clocks_storage, fb) /\ LeadsTo(first \o clocks_storage, fc)
    BY <2>1, StorageIsSimple, CatIs, SimpleCat, LeadsSooner, LeadsLater
  <2>3. IsSeq(store) /\ AllPlain(store) /\ LeadsTo(store, fb) /\ LeadsTo(store, fc)
    BY <2>2, SimpleIsPlain DEF first
  <2> HIDE DEF store
  <2>4. IsSeq(get_package_rapl_limit) /\ AllPlain(get_package_rapl_limit)
        /\ IsSeq(get_dram_rapl_limit) /\ AllPlain(get_dram_rapl_limit)
    BY <1>1, PowerLimits
  <2> DEFINE q == store \o get_package_rapl_limit
  <2>5. IsSeq(q) /\ AllPlain(q) /\ LeadsTo(q, fb) /\ LeadsTo(q, fc)
    BY <2>3, <2>4, CatIs, PlainCat, LeadsSooner
  <2> HIDE DEF q
  <2>6. /\ AllPlain(q \o get_dram_rapl_limit)
        /\ LeadsTo(q \o get_dram_rapl_limit, fb) /\ LeadsTo(q \o get_dram_rapl_limit, fc)
    BY <2>4, <2>5, CatIs, PlainCat, LeadsSooner
  <2>7. QED BY <2>6 DEF q
<1>6. f \in StaticFlag /\ f \notin StorageFlag /\ Implied(f) = {fb, fc}
  BY DEF StaticFlag, StorageFlag, FlagOf, Batch, Implied
<1>7. Good(m, D, Once(f, then), D0)
  <2> HIDE DEF then, f, D, D0
  <2>1. Good(m, D, Once(f, then), {Flag(f)} \union Implied(f)) BY <1>4, <1>5, <1>6, OnceOther
  <2>2. \A t \in D0 : t \in {Flag(f)} \union Implied(f) \/ (t \in D /\ t[1] # "checked")
    BY <1>6, TokenKinds DEF D, D0
  <2>3. QED BY <2>1, <2>2, Keep
<1>8. Good(m, D0, Read(b), D1)
  <2>1. Ready(m, D0, b) BY <1>2, FlagMakesReady
  <2>2. Good(m, D0, Read(b), {WasRead(b)}) BY <1>2, <2>1, ReadIs
  <2>3. QED BY <2>2, Keep, TokenKinds
<1>9. Good(m, D1, Read(c), D2)
  <2>1. Ready(m, D1, c) BY <1>2, FlagMakesReady
  <2>2. Good(m, D1, Read(c), {WasRead(c)}) BY <1>2, <2>1, ReadIs
  <2>3. QED BY <2>2, Keep, TokenKinds
<1>10. Good(m, D2, get_package_rapl_limit, D2) /\ Good(m, D2, get_dram_rapl_limit, D2)
  <2>1. Good(m, D2, get_package_rapl_limit, {Flag("translate")})
        /\ Good(m, D2, get_dram_rapl_limit, {Flag("translate")})
    BY <1>1, PowerLimits
  <2>2. QED BY <2>1, Keep, TokenKinds
<1>11. Good(m, D2, Show(w), D3)
  <2>1. Good(m, D2, Show(w), {}) BY <1>2, ShowIs
  <2>2. QED BY <2>1, Keep, TokenKinds
<1>12. Good(m, D3, Show(b), {WasRead(c)})
  <2>1. Good(m, D3, Show(b), {}) BY <1>2, ShowIs
  <2>2. QED BY <2>1, Keep, TokenKinds
<1>13. Good(m, {WasRead(c)}, Show(c), {}) BY <1>2, ShowIs
<1> HIDE DEF D, D0, D1, D2, D3, then
<1>14. Good(m, {}, get_power \o Once(f, then) \o Read(b) \o Read(c) \o get_package_rapl_limit
                     \o get_dram_rapl_limit, D2)
  BY <1>3, <1>7, <1>8, <1>9, <1>10, Then
<1>15. Good(m, {}, get_power \o Once(f, then) \o Read(b) \o Read(c) \o get_package_rapl_limit
                     \o get_dram_rapl_limit \o Show(w) \o Show(b) \o Show(c), {})
  BY <1>14, <1>11, <1>12, <1>13, Then
<1>16. QED BY <1>15 DEF get_all_power_data_fixed, then

\* One socket after the other: three steps each to cap its limit, one for turbo.
LEMMA CapPowerLimits ==
  ASSUME NEW m, "RAPL_POWER_UNIT" \in Table[m]
  PROVE  Good(m, {}, cap_power_limits, {})
<1> DEFINE o == [do |-> "once", flag |-> "translate",
                 then |-> get_rapl_power_unit(R("RAPL_POWER_UNIT")) \o TakeUnits]
           c == [do |-> "convert"]
           p == cap_power_limits
           n == Len(cap_package_power_limit(0))
<1>1. Good(m, {}, translate(R("RAPL_POWER_UNIT")), {Flag("translate")}) BY TranslateIs
<1>2. translate(R("RAPL_POWER_UNIT")) = <<o>> \o <<c>> BY DEF translate, Once, Convert
<1> HIDE DEF o, c
<1>3. PICK G : Sound(m, G) /\ Proper(G, {}, <<o>> \o <<c>>) BY <1>1, <1>2 DEF Good
<1>4. /\ IsSeq(<<o>> \o <<c>>) /\ Len(<<o>> \o <<c>>) = 2
      /\ (<<o>> \o <<c>>)[1] = o /\ (<<o>> \o <<c>>)[2] = c
  <2>1. (<<o>> \o <<c>>)[1 + 1] = c BY CatIs, OneIs
  <2>2. QED BY <2>1, CatIs, OneIs
<1>5. <<{}, o>> \in G
  <2>1. PICK D : <<D, o>> \in G /\ D \subseteq Before({}, <<o>> \o <<c>>, 1) BY <1>3, <1>4 DEF Proper
  <2>2. Before({}, <<o>> \o <<c>>, 1) = {} BY DEF Before
  <2>3. QED BY <2>1, <2>2
<1>6. PICK D : <<D, c>> \in G /\ D \subseteq Gives(o)
  <2>1. PICK D : <<D, c>> \in G /\ D \subseteq Before({}, <<o>> \o <<c>>, 2) BY <1>3, <1>4 DEF Proper
  <2>2. 1..(2 - 1) = {1} OBVIOUS
  <2>3. Before({}, <<o>> \o <<c>>, 2) = Gives(o) BY <1>4, <2>2 DEF Before
  <2>4. QED BY <2>1, <2>3
<1>7. \A s : /\ Len(cap_package_power_limit(s)) = 3
             /\ cap_package_power_limit(s)[1] = o /\ cap_package_power_limit(s)[2] = c
             /\ cap_package_power_limit(s)[3] = CapSocket(s)
  <2>1. SUFFICES ASSUME NEW s
                 PROVE  /\ Len(cap_package_power_limit(s)) = 3
                        /\ cap_package_power_limit(s)[1] = o /\ cap_package_power_limit(s)[2] = c
                        /\ cap_package_power_limit(s)[3] = CapSocket(s)
    OBVIOUS
  <2> DEFINE q == <<o>> \o <<c>>
  <2>2. IsSeq(q) /\ Len(q) = 2 /\ q[1] = o /\ q[2] = c BY <1>4
  <2>3. cap_package_power_limit(s) = (q \o << >>) \o <<CapSocket(s)>>
    BY <1>2 DEF cap_package_power_limit, calc_package_rapl_limit, calc_rapl_bits
  <2> HIDE DEF q
  <2>4. IsSeq(q \o << >>) /\ Len(q \o << >>) = 2 /\ (q \o << >>)[1] = o /\ (q \o << >>)[2] = c
    BY <2>2, NoneIs, CatIs
  <2> DEFINE r == q \o << >>
             x == CapSocket(s)
  <2> HIDE DEF r, x
  <2>5. IsSeq(r) /\ Len(r) = 2 /\ r[1] = o /\ r[2] = c BY <2>4 DEF r
  <2>6. Len(r \o <<x>>) = 3 /\ (r \o <<x>>)[1] = o /\ (r \o <<x>>)[2] = c /\ (r \o <<x>>)[3] = x
    <3>1. 1 \in 1..Len(r) /\ 2 \in 1..Len(r) /\ Len(r) + 1 = 3 BY <2>5
    <3>2. IsSeq(r) BY <2>5
    <3>3. /\ IsSeq(r \o <<x>>) /\ Len(r \o <<x>>) = Len(r) + 1 /\ (r \o <<x>>)[Len(r) + 1] = x
          /\ \A k \in 1..Len(r) : (r \o <<x>>)[k] = r[k]
      BY <3>2, OneMoreIs
    <3>4. QED BY <2>5, <3>1, <3>3
  <2>7. QED BY <2>3, <2>6 DEF r, x
<1>8. n = 3 BY <1>7
<1>9. p = [k \in 1..3 * NSOCKETS |-> cap_package_power_limit((k - 1) \div 3)[1 + ((k - 1) % 3)]]
  BY <1>8 DEF cap_power_limits
<1> HIDE DEF p, n
<1>10. IsSeq(p) /\ Len(p) = 3 * NSOCKETS
  <2>1. 3 * NSOCKETS \in Nat BY Topology
  <2>2. p = [k \in 1..3 * NSOCKETS |-> p[k]] BY <1>9
  <2>3. QED BY <2>1, <2>2, FunIs
<1> DEFINE H == G \union {<<{}, CapSocket(s)>> : s \in Socket}
<1>11. Sound(m, H)
  <2>1. SUFFICES ASSUME NEW E, NEW s, <<E, s>> \in H PROVE StepOK(m, H, E, s) BY DEF Sound
  <2>2. CASE <<E, s>> \in G
    <3>1. StepOK(m, G, E, s) BY <1>3, <2>2 DEF Sound
    <3>2. QED BY <3>1, StepGrows
  <2>3. CASE <<E, s>> \notin G
    <3>1. PICK k \in Socket : s = CapSocket(k) BY <2>1, <2>3
    <3>2. StepOK(m, {}, E, s) BY <3>1, CapIs
    <3> HIDE DEF H
    <3>3. {} \subseteq H OBVIOUS
    <3>4. QED BY <3>2, <3>3, StepGrows
  <2>4. QED BY <2>2, <2>3
<1>12. ASSUME NEW k \in 1..Len(p)
       PROVE  \E F : <<F, p[k]>> \in H /\ F \subseteq Before({}, p, k)
  <2> DEFINE s == (k - 1) \div 3
             r == (k - 1) % 3
  <2>1. s \in Socket /\ r \in 0..2 /\ k - 1 = 3 * s + r /\ k \in 1..3 * NSOCKETS
    BY <1>10, Topology DEF Socket
  <2> DEFINE none == {}
  <2>0. /\ \A x : none \subseteq Before({}, p, x)
        /\ \A x \in G : x \in H
        /\ \A x \in Socket : <<none, CapSocket(x)>> \in H
        /\ <<none, o>> \in G
    BY <1>5
  <2> HIDE DEF s, r, H, none
  <2>2. p[k] = cap_package_power_limit(s)[1 + r] BY <1>9, <2>1 DEF s, r
  <2>3. CASE r = 0
    <3>1. p[k] = o BY <1>7, <2>2, <2>3
    <3>2. QED BY <2>0, <3>1
  <2>4. CASE r = 1
    <3>1. p[k] = c BY <1>7, <2>2, <2>4
    <3>2. k - 1 \in 1..3 * NSOCKETS /\ ((k - 1) - 1) % 3 = 0 BY <2>1, <2>4, Topology DEF Socket
    <3>3. p[k - 1] = o BY <1>7, <1>9, <3>2
    <3>4. Gives(o) \subseteq Before({}, p, k) BY <3>2, <3>3 DEF Before
    <3>5. QED BY <1>6, <2>0, <3>1, <3>4
  <2>5. CASE r = 2
    <3>1. p[k] = CapSocket(s) BY <1>7, <2>2, <2>5
    <3>2. QED BY <2>0, <2>1, <3>1
  <2>6. r = 0 \/ r = 1 \/ r = 2 BY <2>1
  <2>7. QED BY <2>3, <2>4, <2>5, <2>6
<1>13. Proper(H, {}, p) BY <1>10, <1>12 DEF Proper
<1> HIDE DEF H
<1>14. Good(m, {}, p, {}) BY <1>11, <1>13 DEF Good
<1>15. QED BY <1>14 DEF p

LEMMA SetTurbo ==
  ASSUME NEW m
  PROVE  Good(m, {}, set_turbo_on, {}) /\ Good(m, {}, set_turbo_off, {})
<1> DEFINE p == set_turbo
           H == {<<{}, TurboSocket(s)>> : s \in Socket}
<1>1. p = [k \in 1..NSOCKETS |-> TurboSocket(k - 1)] BY DEF set_turbo
<1> HIDE DEF p
<1>2. IsSeq(p) /\ Len(p) = NSOCKETS
  <2>1. NSOCKETS \in Nat BY Topology
  <2>2. p = [k \in 1..NSOCKETS |-> p[k]] BY <1>1
  <2>3. QED BY <2>1, <2>2, FunIs
<1>3. Sound(m, H)
  <2>1. SUFFICES ASSUME NEW E, NEW s, <<E, s>> \in H PROVE StepOK(m, H, E, s) BY DEF Sound
  <2>2. PICK k \in Socket : s = TurboSocket(k) BY <2>1
  <2>3. StepOK(m, {}, E, s) BY <2>2, CapIs
  <2> HIDE DEF H
  <2>4. {} \subseteq H OBVIOUS
  <2>5. QED BY <2>3, <2>4, StepGrows
<1>4. ASSUME NEW k \in 1..Len(p)
      PROVE  \E F : <<F, p[k]>> \in H /\ F \subseteq Before({}, p, k)
  <2>1. k - 1 \in Socket /\ p[k] = TurboSocket(k - 1) BY <1>1, <1>2, Topology DEF Socket
  <2> DEFINE none == {}
  <2>2. <<none, TurboSocket(k - 1)>> \in H /\ none \subseteq Before({}, p, k) BY <2>1
  <2> HIDE DEF none, H
  <2>3. QED BY <2>1, <2>2
<1>5. Proper(H, {}, p) BY <1>2, <1>4 DEF Proper
<1> HIDE DEF H
<1>6. Good(m, {}, p, {}) BY <1>3, <1>5 DEF Good
<1>7. QED BY <1>6 DEF p, set_turbo_on, set_turbo_off

-----------------------------------------------------------------------------
\* The entry points of the models.

\* Every feature of a table has a good plan.
AllGood(m, f) == \A x \in DOMAIN f : Good(m, {}, f[x], {})

LEMMA Merge ==
  ASSUME NEW f, NEW g
  PROVE  /\ DOMAIN (f ++ g) = DOMAIN f \union DOMAIN g
         /\ \A m : AllGood(m, f) /\ AllGood(m, g) => AllGood(m, f ++ g)
<1>1. \A x \in DOMAIN (f ++ g) : (f ++ g)[x] = IF x \in DOMAIN f THEN f[x] ELSE g[x] BY DEF ++
<1>2. DOMAIN (f ++ g) = DOMAIN f \union DOMAIN g BY DEF ++
<1>3. QED BY <1>1, <1>2 DEF AllGood

LEMMA MergeIn == \A f, g, x : x \in DOMAIN (f ++ g) <=> x \in DOMAIN f \/ x \in DOMAIN g
  BY DEF ++

LEMMA EnergyFeatures ==
  ASSUME NEW m, HasEnergy(m)
  PROVE  /\ \A dram : AllGood(m, Limits(dram))
         /\ AllGood(m, Power) /\ AllGood(m, PowerJson) /\ AllGood(m, DomainJson) /\ AllGood(m, Energy)
         /\ AllGood(m, Poll) /\ AllGood(m, BestEffort)
         /\ AllGood(m, limits_6a) /\ AllGood(m, limits_8f)
<1>1. "RAPL_POWER_UNIT" \in Table[m] BY DEF HasEnergy, Rapl
<1>2. \A dram : Good(m, {}, get_power_limits(dram), {}) BY <1>1, PowerLimitsShown
<1>3. Good(m, {}, cap_power_limits, {}) BY <1>1, CapPowerLimits
<1>4. Good(m, {}, << >>, {}) BY Nothing
<1>5. \A dram : AllGood(m, Limits(dram)) BY <1>2, <1>3 DEF AllGood, Limits
<1>6. AllGood(m, Power) /\ AllGood(m, PowerJson) /\ AllGood(m, DomainJson) /\ AllGood(m, Energy)
      /\ AllGood(m, Poll)
  BY PowerShown DEF AllGood, Power, PowerJson, DomainJson, Energy, Poll
<1>7. AllGood(m, BestEffort) BY <1>3 DEF AllGood, BestEffort
<1>8. AllGood(m, limits_6a) /\ AllGood(m, limits_8f) BY <1>2, <1>4 DEF AllGood, limits_6a, limits_8f
<1>9. QED BY <1>5, <1>6, <1>7, <1>8

LEMMA CoreFeatures ==
  ASSUME NEW m, Core \subseteq Table[m]
  PROVE  /\ AllGood(m, Shown) /\ AllGood(m, Counters) /\ AllGood(m, Clocks) /\ AllGood(m, ClocksJson)
         /\ AllGood(m, Turbo) /\ AllGood(m, ThermalsJson) /\ AllGood(m, CapFrequency)
         /\ \A limit1 \in {"TURBO_RATIO_LIMIT1"}, haslimit1, haslevels \in BOOLEAN :
              m \notin NewTurbo /\ (haslimit1 => limit1 \in Table[m])
                /\ (haslevels => TdpLevel \subseteq Table[m])
              => AllGood(m, Available(limit1, haslimit1, haslevels))
         /\ m \in NewTurbo /\ "TURBO_RATIO_LIMIT_CORES" \in Table[m] /\ TdpLevel \subseteq Table[m]
              => AllGood(m, AvailableSkx)
<1>1. Good(m, {}, << >>, {}) BY Nothing
<1>2. Good(m, {}, print_therm_temp_reading, {}) BY Thermals
<1>3. AllGood(m, Shown) /\ AllGood(m, ThermalsJson) BY <1>1, <1>2 DEF AllGood, Shown, ThermalsJson
<1>4. AllGood(m, Counters) BY AllCounters DEF AllGood, Counters
<1>5. AllGood(m, Clocks) /\ AllGood(m, ClocksJson)
  BY ClocksData DEF AllGood, Clocks, ClocksJson, get_clocks_data_json
<1>6. AllGood(m, Turbo) BY <1>1, SetTurbo DEF AllGood, Turbo
<1>7. AllGood(m, CapFrequency) BY CapFrequencyIs DEF AllGood, CapFrequency
<1>8. ASSUME NEW limit1 \in {"TURBO_RATIO_LIMIT1"}, NEW haslimit1 \in BOOLEAN, NEW haslevels \in BOOLEAN,
             m \notin NewTurbo, haslimit1 => limit1 \in Table[m], haslevels => TdpLevel \subseteq Table[m]
      PROVE  AllGood(m, Available(limit1, haslimit1, haslevels))
  <2>1. Good(m, {}, get_available_frequencies(limit1, haslimit1, haslevels), {})
    BY <1>8, AvailableFrequencies
  <2>2. QED BY <2>1 DEF AllGood, Available
<1>9. ASSUME m \in NewTurbo, "TURBO_RATIO_LIMIT_CORES" \in Table[m], TdpLevel \subseteq Table[m]
      PROVE  AllGood(m, AvailableSkx)
  <2> DEFINE b2 == "TURBO_RATIO_LIMIT_CORES"
             yes == TRUE
  <2>1. /\ b2 \in {"TURBO_RATIO_LIMIT1", "TURBO_RATIO_LIMIT_CORES"} /\ yes \in BOOLEAN
        /\ b2 = "TURBO_RATIO_LIMIT_CORES" <=> m \in NewTurbo
        /\ yes => b2 \in Table[m]
        /\ yes => TdpLevel \subseteq Table[m]
    BY <1>9
  <2> HIDE DEF b2, yes
  <2>2. Good(m, {}, get_available_frequencies(b2, yes, yes), {}) BY <2>1, AvailableFrequencies
  <2>3. Good(m, {}, get_available_frequencies_skx, {}) BY <2>2 DEF get_available_frequencies_skx, b2, yes
  <2>4. QED BY <2>3 DEF AllGood, AvailableSkx
<1>10. QED BY <1>3, <1>4, <1>5, <1>6, <1>7, <1>8, <1>9

LEMMA MonitoringFeature ==
  ASSUME NEW m, HasEnergy(m), Fixed \subseteq Table[m]
  PROVE  AllGood(m, Monitoring)
  BY MonitorShown DEF AllGood, Monitoring

\* The entry points of a table.
LEMMA Domains ==
  /\ \A dram : {"print_power_limit", "cap_each_socket_power_limit"} \subseteq DOMAIN Limits(dram)
  /\ {"print_features", "print_thermals"} \subseteq DOMAIN Shown
  /\ {"print_counters", "print_verbose_counters"} \subseteq DOMAIN Counters
  /\ {"print_frequency", "print_verbose_frequency"} \subseteq DOMAIN Clocks
  /\ {"get_frequency_json"} \subseteq DOMAIN ClocksJson /\ {"print_power"} \subseteq DOMAIN Power
  /\ {"enable_turbo", "disable_turbo", "print_turbo"} \subseteq DOMAIN Turbo
  /\ {"poll_power"} \subseteq DOMAIN Poll /\ {"monitoring"} \subseteq DOMAIN Monitoring
  /\ {"get_power_json"} \subseteq DOMAIN PowerJson /\ {"get_node_power_domain_info_json"} \subseteq DOMAIN DomainJson
  /\ {"get_thermals_json"} \subseteq DOMAIN ThermalsJson
  /\ {"cap_best_effort_node_power_limit"} \subseteq DOMAIN BestEffort
  /\ \A l, h, v : {"print_available_frequencies"} \subseteq DOMAIN Available(l, h, v)
  /\ {"print_available_frequencies"} \subseteq DOMAIN AvailableSkx
  /\ {"cap_each_core_frequency_limit"} \subseteq DOMAIN CapFrequency
  /\ {"print_energy", "get_energy_json"} \subseteq DOMAIN Energy
  /\ {"print_power_limit", "print_features"} \subseteq DOMAIN limits_6a
  /\ {"print_power_limit", "print_features"} \subseteq DOMAIN limits_8f
  BY DEF Limits, Shown, Counters, Clocks, ClocksJson, Power, Turbo, Poll, Monitoring, PowerJson,
         DomainJson, ThermalsJson, BestEffort, Available, AvailableSkx, CapFrequency, Energy,
         limits_6a, limits_8f

\* Sandy Bridge to Broadwell.
LEMMA FiveModels ==
  ASSUME NEW m \in {"2A", "2D", "3E", "3F", "4F"}, NEW haslimit1 \in BOOLEAN, NEW haslevels \in BOOLEAN,
         HasEnergy(m), Core \subseteq Table[m], haslimit1 => "TURBO_RATIO_LIMIT1" \in Table[m],
         haslevels => TdpLevel \subseteq Table[m],
         Functions[m] = Limits({"limit", "info"}) ++ Shown
                          ++ (Counters ++ Clocks ++ ClocksJson ++ Power ++ Turbo)
                          ++ (Poll ++ Monitoring ++ PowerJson ++ DomainJson ++ ThermalsJson ++ BestEffort)
                          ++ (Available("TURBO_RATIO_LIMIT1", haslimit1, haslevels) ++ Energy)
  PROVE  /\ AllGood(m, Functions[m])
         /\ T!IntelCommon \union T!Turbo \union {"get_frequency_json", "get_energy_json",
              "print_verbose_counters", "print_verbose_frequency"}
              \subseteq DOMAIN Functions[m] \union {"cap_gpu_power_ratio"}
<1>1. m \notin NewTurbo BY DEF NewTurbo
<1>2. AllGood(m, Available("TURBO_RATIO_LIMIT1", haslimit1, haslevels))
  <2> DEFINE l == "TURBO_RATIO_LIMIT1"
  <2>1. l \in {"TURBO_RATIO_LIMIT1"} /\ (haslimit1 => l \in Table[m]) OBVIOUS
  <2> HIDE DEF l
  <2>2. AllGood(m, Available(l, haslimit1, haslevels)) BY <1>1, <2>1, CoreFeatures
  <2>3. QED BY <2>2 DEF l
<1>3. Fixed \subseteq Table[m] BY DEF Core
<1> DEFINE av == Available("TURBO_RATIO_LIMIT1", haslimit1, haslevels)
           li == Limits({"limit", "info"})
<1>4. AllGood(m, av) /\ AllGood(m, li) /\ AllGood(m, Monitoring)
  BY <1>2, <1>3, EnergyFeatures, MonitoringFeature
<1>5. {"print_available_frequencies"} \subseteq DOMAIN av
      /\ {"print_power_limit", "cap_each_socket_power_limit"} \subseteq DOMAIN li
  BY Domains
<1> DEFINE f1 == Counters ++ Clocks ++ ClocksJson ++ Power ++ Turbo
           f2 == Poll ++ Monitoring ++ PowerJson ++ DomainJson ++ ThermalsJson ++ BestEffort
           f3 == av ++ Energy
           f4 == li ++ Shown
<1>8. Functions[m] = f4 ++ f1 ++ f2 ++ f3 OBVIOUS
<1> HIDE DEF av, li
<1>6. AllGood(m, f1) /\ AllGood(m, f2) /\ AllGood(m, f3) /\ AllGood(m, f4)
  BY <1>4, EnergyFeatures, CoreFeatures, Merge
<1>7. /\ {"print_counters", "print_verbose_counters", "print_frequency", "print_verbose_frequency",
          "get_frequency_json", "print_power", "enable_turbo", "disable_turbo", "print_turbo"}
            \subseteq DOMAIN f1
      /\ {"poll_power", "monitoring", "get_power_json", "get_node_power_domain_info_json",
          "get_thermals_json", "cap_best_effort_node_power_limit"} \subseteq DOMAIN f2
      /\ {"print_available_frequencies", "print_energy", "get_energy_json"} \subseteq DOMAIN f3
      /\ {"print_power_limit", "cap_each_socket_power_limit", "print_features", "print_thermals"}
            \subseteq DOMAIN f4
  BY <1>5, Domains, MergeIn
<1> HIDE DEF f1, f2, f3, f4
<1>9. AllGood(m, Functions[m]) BY <1>6, <1>8, Merge
<1>10. \A x : x \in DOMAIN f4 \union DOMAIN f1 \union DOMAIN f2 \union DOMAIN f3
                => x \in DOMAIN Functions[m]
  BY <1>8, MergeIn
<1>11. \A x \in T!IntelCommon \union T!Turbo \union {"get_frequency_json", "get_energy_json",
                "print_verbose_counters", "print_verbose_frequency"} :
         x \in DOMAIN Functions[m] \/ x = "cap_gpu_power_ratio"
  BY <1>7, <1>10 DEF T!IntelCommon, T!IntelAlways, T!Turbo
<1>12. QED BY <1>9, <1>11

LEMMA BridgeModels ==
  ASSUME NEW m \in {"2A", "2D", "3E", "3F", "4F"}
  PROVE  AllGood(m, Functions[m]) /\ Api(m) \subseteq DOMAIN Functions[m]
<1> DEFINE haslimit1 == m \notin {"2A", "2D"}
           haslevels == m \in {"3F", "4F"}
<1>1. m \in IntelModel BY DEF IntelModel
<1>2. Core \subseteq Table[m] /\ (haslimit1 => Dram \subseteq Table[m])
      /\ (haslimit1 => "TURBO_RATIO_LIMIT1" \in Table[m]) /\ (haslevels => TdpLevel \subseteq Table[m])
  BY <1>1 DEF Table, msrs_2a, msrs_2d, msrs_3e, msrs_3f, msrs_4f
<1>3. HasEnergy(m) BY <1>2 DEF HasEnergy, Core, Dram
<1>4. haslimit1 \in BOOLEAN /\ haslevels \in BOOLEAN OBVIOUS
<1>5. Functions[m] = Limits({"limit", "info"}) ++ Shown
                       ++ (Counters ++ Clocks ++ ClocksJson ++ Power ++ Turbo)
                       ++ (Poll ++ Monitoring ++ PowerJson ++ DomainJson ++ ThermalsJson ++ BestEffort)
                       ++ (Available("TURBO_RATIO_LIMIT1", haslimit1, haslevels) ++ Energy)
  <2>1. CASE m = "2A"
    <3>1. haslimit1 = FALSE /\ haslevels = FALSE BY <2>1
    <3> HIDE DEF haslimit1, haslevels
    <3>2. QED BY <1>1, <2>1, <3>1
              DEF Functions, limits_2a, shown_2a, measured_2a, monitored_2a, available_2a
  <2>2. CASE m = "2D"
    <3>1. haslimit1 = FALSE /\ haslevels = FALSE BY <2>2
    <3> HIDE DEF haslimit1, haslevels
    <3>2. QED BY <1>1, <2>2, <3>1
              DEF Functions, limits_2d, shown_2d, measured_2d, monitored_2d, available_2d
  <2>3. CASE m = "3E"
    <3>1. haslimit1 = TRUE /\ haslevels = FALSE BY <2>3
    <3> HIDE DEF haslimit1, haslevels
    <3>2. QED BY <1>1, <2>3, <3>1
              DEF Functions, limits_3e, shown_3e, measured_3e, monitored_3e, available_3e
  <2>4. CASE m = "3F"
    <3>1. haslimit1 = TRUE /\ haslevels = TRUE BY <2>4
    <3> HIDE DEF haslimit1, haslevels
    <3>2. QED BY <1>1, <2>4, <3>1
              DEF Functions, limits_3f, shown_3f, measured_3f, monitored_3f, available_3f
  <2>5. CASE m = "4F"
    <3>1. haslimit1 = TRUE /\ haslevels = TRUE BY <2>5
    <3> HIDE DEF haslimit1, haslevels
    <3>2. QED BY <1>1, <2>5, <3>1
              DEF Functions, limits_4f, shown_4f, measured_4f, monitored_4f, available_4f
  <2>6. QED BY <2>1, <2>2, <2>3, <2>4, <2>5
<1>6. Pointers[m] \subseteq T!IntelCommon \union T!Turbo \union {"get_frequency_json", "get_energy_json"}
  BY <1>1 DEF Pointers, T!FM_06_2A, T!FM_06_2D, T!FM_06_3E, T!FM_06_3F, T!FM_06_4F
<1>7. Verbose(Pointers[m]) \subseteq {"print_verbose_counters", "print_verbose_frequency"} BY DEF Verbose
<1> HIDE DEF haslimit1, haslevels
<1>8. /\ AllGood(m, Functions[m])
      /\ T!IntelCommon \union T!Turbo \union {"get_frequency_json", "get_energy_json",
           "print_verbose_counters", "print_verbose_frequency"}
           \subseteq DOMAIN Functions[m] \union {"cap_gpu_power_ratio"}
  BY <1>2, <1>3, <1>4, <1>5, FiveModels
<1>9. QED BY <1>6, <1>7, <1>8 DEF Api

\* Skylake and Kaby Lake.
LEMMA LakeModels ==
  ASSUME NEW m \in {"55", "9E"}
  PROVE  AllGood(m, Functions[m]) /\ Api(m) \subseteq DOMAIN Functions[m]
<1>1. m \in IntelModel /\ m \in NewTurbo BY DEF IntelModel, NewTurbo
<1>2. Core \subseteq Table[m] /\ Dram \subseteq Table[m] /\ TdpLevel \subseteq Table[m]
      /\ "TURBO_RATIO_LIMIT_CORES" \in Table[m]
  BY <1>1 DEF Table, msrs_55, msrs_9e
<1>3. HasEnergy(m) /\ Fixed \subseteq Table[m] BY <1>2 DEF HasEnergy, Core, Dram
<1> DEFINE li == Limits({"info"})
<1>4. AllGood(m, li) /\ AllGood(m, Monitoring) /\ AllGood(m, AvailableSkx)
  BY <1>1, <1>2, <1>3, EnergyFeatures, MonitoringFeature, CoreFeatures
<1>5. {"print_power_limit", "cap_each_socket_power_limit"} \subseteq DOMAIN li BY Domains
<1>6. Verbose(Pointers[m]) \subseteq {"print_verbose_counters", "print_verbose_frequency"} BY DEF Verbose
<1> DEFINE g1 == Counters ++ Clocks ++ ClocksJson ++ Power ++ Poll ++ Monitoring ++ PowerJson
           g2 == DomainJson ++ ThermalsJson ++ BestEffort ++ CapFrequency
           h1 == Counters ++ Clocks ++ Power ++ Poll ++ Monitoring ++ PowerJson
           h2 == DomainJson ++ ThermalsJson ++ ClocksJson ++ BestEffort
           f3 == AvailableSkx ++ Energy
           f4 == li ++ Shown
<1>7. /\ m = "55" => Functions[m] = f4 ++ g1 ++ g2 ++ f3
      /\ m = "9E" => Functions[m] = f4 ++ h1 ++ h2 ++ f3
  BY <1>1 DEF Functions, limits_55, shown_55, measured_55, monitored_55, available_55,
              limits_9e, shown_9e, measured_9e, monitored_9e, available_9e
<1> HIDE DEF li
<1>8. /\ AllGood(m, g1) /\ AllGood(m, g2) /\ AllGood(m, h1) /\ AllGood(m, h2)
      /\ AllGood(m, f3) /\ AllGood(m, f4)
  BY <1>2, <1>3, <1>4, EnergyFeatures, CoreFeatures, Merge
<1>9. /\ {"print_counters", "print_verbose_counters", "print_frequency", "print_verbose_frequency",
          "print_power", "poll_power", "monitoring", "get_power_json"}
            \subseteq DOMAIN g1 \intersect DOMAIN h1
      /\ "get_frequency_json" \in DOMAIN g1 /\ "get_frequency_json" \in DOMAIN h2
      /\ {"get_node_power_domain_info_json", "get_thermals_json", "cap_best_effort_node_power_limit"}
            \subseteq DOMAIN g2 \intersect DOMAIN h2
      /\ "cap_each_core_frequency_limit" \in DOMAIN g2
      /\ {"print_available_frequencies", "print_energy", "get_energy_json"} \subseteq DOMAIN f3
      /\ {"print_power_limit", "cap_each_socket_power_limit", "print_features", "print_thermals"}
            \subseteq DOMAIN f4
  BY <1>5, Domains, MergeIn
<1> HIDE DEF g1, g2, h1, h2, f3, f4
<1>10. AllGood(m, Functions[m]) BY <1>7, <1>8, Merge
<1>11. /\ m = "55" => \A x : x \in DOMAIN f4 \union DOMAIN g1 \union DOMAIN g2 \union DOMAIN f3
                               => x \in DOMAIN Functions[m]
       /\ m = "9E" => \A x : x \in DOMAIN f4 \union DOMAIN h1 \union DOMAIN h2 \union DOMAIN f3
                               => x \in DOMAIN Functions[m]
  BY <1>7, MergeIn
<1>12. \A x \in Pointers[m] \union {"print_verbose_counters", "print_verbose_frequency"} :
         x \in DOMAIN Functions[m] \/ x = "cap_gpu_power_ratio"
  <2>1. Pointers[m] = IF m = "55" THEN T!FM_06_55 ELSE T!FM_06_9E BY <1>1 DEF Pointers
  <2>2. CASE m = "55" BY <1>9, <1>11, <2>1, <2>2 DEF T!FM_06_55, T!IntelCommon, T!IntelAlways
  <2>3. CASE m = "9E" BY <1>9, <1>11, <2>1, <2>3 DEF T!FM_06_9E, T!IntelCommon, T!IntelAlways
  <2>4. QED BY <2>2, <2>3
<1>13. QED BY <1>6, <1>10, <1>12 DEF Api

\* Ice Lake and Sapphire Rapids.
LEMMA RapidModels ==
  ASSUME NEW m \in {"6A", "8F"}
  PROVE  AllGood(m, Functions[m]) /\ Api(m) \subseteq DOMAIN Functions[m]
<1>1. m \in IntelModel BY DEF IntelModel
<1>2. /\ Rapl \subseteq Table[m] /\ Dram \subseteq Table[m]
      /\ m = "8F" => Fixed \subseteq Table[m]
  BY <1>1 DEF Table, msrs_6a, msrs_8f
<1>3. HasEnergy(m) BY <1>2 DEF HasEnergy, Dram
<1>4. m = "8F" => AllGood(m, Monitoring) BY <1>2, <1>3, MonitoringFeature
<1> DEFINE g == Power ++ PowerJson ++ DomainJson ++ Energy
           h == Power ++ PowerJson ++ DomainJson ++ Monitoring ++ Energy
<1>5. /\ m = "6A" => Functions[m] = limits_6a ++ g
      /\ m = "8F" => Functions[m] = limits_8f ++ h
  BY <1>1 DEF Functions, power_6a, power_8f
<1>6. AllGood(m, g) /\ (m = "8F" => AllGood(m, h)) /\ AllGood(m, limits_6a) /\ AllGood(m, limits_8f)
  BY <1>3, <1>4, EnergyFeatures, Merge
<1>7. /\ {"print_power", "get_power_json", "get_node_power_domain_info_json", "print_energy"}
           \subseteq DOMAIN g \intersect DOMAIN h
      /\ "monitoring" \in DOMAIN h
      /\ {"print_power_limit", "print_features"} \subseteq DOMAIN limits_6a \intersect DOMAIN limits_8f
  BY Domains, MergeIn
<1> HIDE DEF g, h
<1>8. AllGood(m, Functions[m]) BY <1>5, <1>6, Merge
<1>9. /\ m = "6A" => \A x : x \in DOMAIN limits_6a \union DOMAIN g => x \in DOMAIN Functions[m]
      /\ m = "8F" => \A x : x \in DOMAIN limits_8f \union DOMAIN h => x \in DOMAIN Functions[m]
  BY <1>5, MergeIn
<1>10. \A x \in Pointers[m] :
         x \in DOMAIN Functions[m] \/ x = "cap_gpu_power_ratio"
  <2>1. Pointers[m] = IF m = "6A" THEN T!FM_06_6A ELSE T!FM_06_8F BY <1>1 DEF Pointers
  <2>2. CASE m = "6A" BY <1>7, <1>9, <2>1, <2>2 DEF T!FM_06_6A, T!IntelAlways
  <2>3. CASE m = "8F" BY <1>7, <1>9, <2>1, <2>3 DEF T!FM_06_8F, T!IntelAlways
  <2>4. QED BY <2>2, <2>3
<1>11. Verbose(Pointers[m]) = {}
  <2>1. Pointers[m] = IF m = "6A" THEN T!FM_06_6A ELSE T!FM_06_8F BY <1>1 DEF Pointers
  <2>2. QED BY <2>1 DEF Verbose, T!FM_06_6A, T!FM_06_8F, T!IntelAlways
<1>12. QED BY <1>8, <1>10, <1>11 DEF Api

\* Whatever entry point of whatever model set_intel_func_ptrs has put into
\* g_platform, what the feature files do for it keeps the rules: nothing is read,
\* printed, written or converted but behind the flags and reads it relies on,
\* on any number of sockets, cores and threads.
THEOREM PlansAreGood ==
  ASSUME NEW m \in IntelModel, NEW api \in Api(m)
  PROVE  Good(m, {}, Plan(m, api), {})
<1>1. AllGood(m, Functions[m]) /\ Api(m) \subseteq DOMAIN Functions[m]
  BY BridgeModels, LakeModels, RapidModels DEF IntelModel
<1>2. QED BY <1>1 DEF AllGood, Plan

-----------------------------------------------------------------------------
\* The tokens of the state.

LEMMA NowIs ==
  /\ \A f : Flag(f) \in Now <=> f \in done
  /\ \A b : WasRead(b) \in Now <=> b \in (IF refused THEN Batch ELSE fresh)
  /\ \A b : WasChecked(b) \in Now <=> b \in RatioBatches /\ (batchfd = -1 \/ b \in fresh)
  /\ UnitsReady \in Now <=> UnitsOK
  /\ \A t \in Now : \/ \E f \in done : t = Flag(f)
                    \/ \E b \in IF refused THEN Batch ELSE fresh : t = WasRead(b)
                    \/ \E b \in RatioBatches : t = WasChecked(b)
                    \/ t = UnitsReady
  BY DEF Now, Flag, WasRead, WasChecked, UnitsReady

LEMMA NextNowIs ==
  /\ \A f : Flag(f) \in Now' <=> f \in done'
  /\ \A b : WasRead(b) \in Now' <=> b \in (IF refused' THEN Batch ELSE fresh')
  /\ \A b : WasChecked(b) \in Now' <=> b \in RatioBatches /\ (batchfd' = -1 \/ b \in fresh')
  /\ UnitsReady \in Now' <=> UnitsOK'
  BY DEF Now, Flag, WasRead, WasChecked, UnitsReady

\* What a step does to the flags, to what was read and to the units keeps the tokens.
LEMMA TokensKept ==
  ASSUME done \subseteq done', refused => refused', ~refused' => fresh \subseteq fresh',
         fresh \subseteq Batch, UnitsOK => UnitsOK'
  PROVE  \A t \in Now : t[1] # "checked" => t \in Now'
<1>1. SUFFICES ASSUME NEW t \in Now, t[1] # "checked" PROVE t \in Now' OBVIOUS
<1>2. CASE \E f \in done : t = Flag(f) BY <1>2, NextNowIs
<1>3. CASE \E b \in IF refused THEN Batch ELSE fresh : t = WasRead(b) BY <1>3, NextNowIs
<1>4. CASE t = UnitsReady BY <1>1, <1>4, NowIs, NextNowIs
<1>5. QED BY <1>1, <1>2, <1>3, <1>4, NowIs, TokenKinds

LEMMA ChecksKept ==
  ASSUME batchfd = -1 => batchfd' = -1, \A r \in RatioBatches : r \in fresh => r \in fresh'
  PROVE  \A t \in Now : t[1] = "checked" => t \in Now'
<1>1. SUFFICES ASSUME NEW t \in Now, t[1] = "checked" PROVE t \in Now' OBVIOUS
<1>2. PICK b \in RatioBatches : t = WasChecked(b) BY <1>1, NowIs, TokenKinds
<1>3. QED BY <1>2, NowIs, NextNowIs

\* The units stay what they are; a refusal is not forgotten.
LEMMA UnitsKept ==
  ASSUME units' = units, refusals' = 0 => refusals = 0
  PROVE  UnitsOK => UnitsOK'
  BY DEF UnitsOK

\* What a step needs is there, and more does no harm.
LEMMA MoreTokens ==
  ASSUME NEW m, NEW G, NEW E, NEW F, NEW s, E \subseteq F, StepOK(m, G, E, s)
  PROVE  StepOK(m, G, F, s)
<1>2. \A p : Proper(G, E, p) => Proper(G, F, p) BY ProperGrows
<1>3. \A x : Compound(G, E, x) => Compound(G, F, x) BY <1>2 DEF Compound
<1>4. \A b : Ready(m, E, b) => Ready(m, F, b) BY DEF Ready
<1>5. s.do = "check" => Proper(G, F \union {WasRead(s.b)} \union Tested(s.b), s.then)
  <2>1. SUFFICES ASSUME s.do = "check" PROVE Proper(G, F \union {WasRead(s.b)} \union Tested(s.b), s.then)
    OBVIOUS
  <2>2. Proper(G, E \union {WasRead(s.b)} \union Tested(s.b), s.then) BY <2>1 DEF StepOK
  <2>3. E \union {WasRead(s.b)} \union Tested(s.b) \subseteq F \union {WasRead(s.b)} \union Tested(s.b)
    OBVIOUS
  <2>4. QED BY <2>2, <2>3, ProperGrows
<1>6. QED BY <1>2, <1>3, <1>4, <1>5 DEF StepOK

\* The first step of the plan at hand keeps the rules, with the tokens of the state.
LEMMA HeadIs ==
  ASSUME NEW m, NEW G, NEW E, NEW p, Sound(m, G), TodoOK(m, G, E, p), p # << >>
  PROVE  InitStepOK(m, Head(p)) \/ StepOK(m, G, E, Head(p))
<1>1. IsSeq(p) BY DEF TodoOK
<1>2. Head(p) = p[1] /\ 1 \in 1..Len(p) BY <1>1, RestIs
<1>3. CASE \E D : <<D, p[1]>> \in G /\ D \subseteq Before(E, p, 1)
  <2>1. PICK D : <<D, p[1]>> \in G /\ D \subseteq Before(E, p, 1) BY <1>3
  <2>2. Before(E, p, 1) \subseteq E BY DEF Before
  <2>3. StepOK(m, G, D, p[1]) BY <2>1 DEF Sound
  <2>4. QED BY <1>2, <2>1, <2>2, <2>3, MoreTokens
<1>4. QED BY <1>2, <1>3 DEF TodoOK

\* What a step gives is for good, until the next call.
LEMMA GivesKinds ==
  ASSUME NEW s, NEW t \in Gives(s)
  PROVE  t[1] # "checked"
<1>1. t \in GivesFirst(s) \/ (s.do = "once" /\ t \in Implied(s.flag)) BY DEF Gives
<1>2. t \in GivesFirst(s) => t[1] # "checked" BY TokenKinds DEF GivesFirst
<1>3. \A f : \A x \in Implied(f) : x[1] # "checked" BY TokenKinds DEF Implied
<1>4. QED BY <1>1, <1>2, <1>3

LEMMA ProperTodo ==
  ASSUME NEW m, NEW G, NEW E, NEW p, Proper(G, E, p)
  PROVE  TodoOK(m, G, E, p)
  BY DEF Proper, TodoOK

\* The first step is done, and gives way to the steps q: the plan goes on.
LEMMA TodoStep ==
  ASSUME NEW m, NEW G, NEW H, NEW E, NEW F, NEW p, NEW q, p # << >>,
         TodoOK(m, G, E, p), TodoOK(m, H, F, q),
         \A t \in E : t[1] # "checked" => t \in F,
         \A t \in E : t[1] = "checked" /\ Plain(Head(p)) => t \in F /\ AllPlain(q),
         \A t \in Gives(Head(p)) : t \in F \/ \E j \in 1..Len(q) : t \in Gives(q[j])
  PROVE  TodoOK(m, G \union H, F, q \o Tail(p))
<1> DEFINE r == Tail(p)
<1>1. IsSeq(p) /\ IsSeq(q) BY DEF TodoOK
<1>2. /\ IsSeq(r) /\ Len(p) \in Nat \ {0} /\ Len(r) = Len(p) - 1 /\ Head(p) = p[1]
      /\ \A k \in 1..Len(r) : r[k] = p[k + 1]
  BY <1>1, RestIs
<1> HIDE DEF r
<1>3. /\ IsSeq(q \o r) /\ Len(q) \in Nat /\ Len(r) \in Nat /\ Len(q \o r) = Len(q) + Len(r)
      /\ \A k \in 1..Len(q) : (q \o r)[k] = q[k]
      /\ \A k \in 1..Len(r) : (q \o r)[Len(q) + k] = r[k]
  <2>1. IsSeq(q) /\ IsSeq(r) BY <1>1, <1>2
  <2>2. Len(q) \in Nat /\ Len(r) \in Nat BY <2>1, SeqIs
  <2>3. QED BY <2>1, <2>2, CatIs
<1>4. ASSUME NEW k \in 1..Len(q)
      PROVE  \/ InitStepOK(m, (q \o r)[k])
             \/ \E D : <<D, (q \o r)[k]>> \in G \union H /\ D \subseteq Before(F, q \o r, k)
  <2>1. (q \o r)[k] = q[k] BY <1>3
  <2>2. CASE InitStepOK(m, q[k]) BY <2>1, <2>2
  <2>3. CASE \E D : <<D, q[k]>> \in H /\ D \subseteq Before(F, q, k)
    <3>1. PICK D : <<D, q[k]>> \in H /\ D \subseteq Before(F, q, k) BY <2>3
    <3>2. Before(F, q \o r, k) = Before(F, q, k) BY <1>1, <1>2, <1>3, BeforeFirst
    <3>3. QED BY <2>1, <3>1, <3>2
  <2>4. QED BY <2>2, <2>3 DEF TodoOK
<1>5. ASSUME NEW k \in 1..Len(r)
      PROVE  Before(E, p, k + 1) \subseteq Before(F, q \o r, Len(q) + k)
  <2>1. SUFFICES ASSUME NEW t \in Before(E, p, k + 1) PROVE t \in Before(F, q \o r, Len(q) + k)
    OBVIOUS
  <2>2. ASSUME t \in F, t[1] # "checked" PROVE t \in Before(F, q \o r, Len(q) + k) BY <2>2 DEF Before
  <2>3. CASE \E j \in 2..k : t \in Gives(p[j])
    <3>1. PICK j \in 2..k : t \in Gives(p[j]) BY <2>3
    <3>2. j - 1 \in 1..Len(r) /\ j = (j - 1) + 1 BY <1>2
    <3>3. (q \o r)[Len(q) + (j - 1)] = p[j] BY <1>2, <1>3, <3>2
    <3>4. Len(q) + (j - 1) \in 1..(Len(q) + k - 1) BY <1>3
    <3>5. QED BY <3>1, <3>3, <3>4 DEF Before
  <2>4. CASE t \in Gives(p[1])
    <3>1. t[1] # "checked" BY <2>4, GivesKinds
    <3>2. CASE t \in F BY <2>2, <3>1, <3>2
    <3>3. CASE \E j \in 1..Len(q) : t \in Gives(q[j])
      <4>1. PICK j \in 1..Len(q) : t \in Gives(q[j]) BY <3>3
      <4>2. (q \o r)[j] = q[j] /\ j \in 1..(Len(q) + k - 1) BY <1>3
      <4>3. QED BY <4>1, <4>2 DEF Before
    <3>4. QED BY <1>2, <2>4, <3>2, <3>3
  <2>5. CASE t \in E /\ (t[1] = "checked" => \A j \in 1..k : Plain(p[j]))
    <3>1. CASE t[1] # "checked" BY <2>2, <2>5, <3>1
    <3>2. CASE t[1] = "checked"
      <4>1. Plain(Head(p)) /\ \A j \in 1..k : Plain(p[j]) BY <1>2, <2>5, <3>2
      <4>2. t \in F /\ AllPlain(q) BY <2>5, <3>2, <4>1
      <4>3. ASSUME NEW j \in 1..(Len(q) + k - 1) PROVE Plain((q \o r)[j])
        <5>1. CASE j \in 1..Len(q) BY <1>3, <4>2, <5>1 DEF AllPlain
        <5>2. CASE j \notin 1..Len(q)
          <6> DEFINE i == j - Len(q)
          <6>1. i \in 1..Len(r) /\ j = Len(q) + i /\ i + 1 \in 1..k BY <1>3, <5>2
          <6> HIDE DEF i
          <6>2. (q \o r)[j] = p[i + 1] BY <1>2, <1>3, <6>1
          <6>3. QED BY <4>1, <6>1, <6>2
        <5>3. QED BY <5>1, <5>2
      <4>4. \A j \in 1..((Len(q) + k) - 1) : Plain((q \o r)[j]) BY <4>3
      <4>5. QED BY ONLY <4>2, <4>4 DEF Before
    <3>3. QED BY <3>1, <3>2
  <2>6. QED
    <3>1. k + 1 - 1 = k /\ \A j \in 1..k : j = 1 \/ j \in 2..k OBVIOUS
    <3>2. (\E j \in 1..k : t \in Gives(p[j])) \/ (t \in E /\ (t[1] = "checked" => \A j \in 1..k : Plain(p[j])))
      BY <2>1, <3>1 DEF Before
    <3>3. QED BY <2>3, <2>4, <2>5, <3>1, <3>2
<1>6. ASSUME NEW k \in 1..Len(r)
      PROVE  \/ InitStepOK(m, (q \o r)[Len(q) + k])
             \/ \E D : /\ <<D, (q \o r)[Len(q) + k]>> \in G \union H
                       /\ D \subseteq Before(F, q \o r, Len(q) + k)
  <2>1. (q \o r)[Len(q) + k] = p[k + 1] /\ k + 1 \in 1..Len(p) BY <1>2, <1>3
  <2>2. CASE InitStepOK(m, p[k + 1]) BY <2>1, <2>2
  <2>3. CASE \E D : <<D, p[k + 1]>> \in G /\ D \subseteq Before(E, p, k + 1)
    <3>1. PICK D : <<D, p[k + 1]>> \in G /\ D \subseteq Before(E, p, k + 1) BY <2>3
    <3>2. D \subseteq Before(F, q \o r, Len(q) + k) BY <1>5, <3>1
    <3>3. QED BY <2>1, <3>1, <3>2
  <2>4. QED BY <2>1, <2>2, <2>3 DEF TodoOK
<1>7. ASSUME NEW k \in 1..Len(q \o r)
      PROVE  \/ InitStepOK(m, (q \o r)[k])
             \/ \E D : <<D, (q \o r)[k]>> \in G \union H /\ D \subseteq Before(F, q \o r, k)
  <2>1. CASE k \in 1..Len(q) BY <1>4, <2>1
  <2>2. CASE k \notin 1..Len(q)
    <3> DEFINE i == k - Len(q)
    <3>1. i \in 1..Len(r) /\ k = Len(q) + i BY <1>2, <1>3, <2>2
    <3> HIDE DEF i
    <3>2. QED BY <1>6, <3>1
  <2>3. QED BY <2>1, <2>2
<1>8. TodoOK(m, G \union H, F, q \o r) BY <1>3, <1>7 DEF TodoOK
<1>9. QED BY <1>8 DEF r

\* The plan goes on: the steps q take the place of the first one.
LEMMA PlanGoes ==
  ASSUME PlanInv, todo # << >>, model' = model, call' = call,
         NEW G, Sound(model, G), TodoOK(model, G, Now, todo),
         NEW H, NEW q, Sound(model, H), TodoOK(model, H, Now', q), todo' = q \o Tail(todo),
         \A t \in Now : t[1] # "checked" => t \in Now',
         Plain(Head(todo)) => AllPlain(q) /\ \A t \in Now : t[1] = "checked" => t \in Now',
         \A t \in Gives(Head(todo)) : t \in Now' \/ \E j \in 1..Len(q) : t \in Gives(q[j])
  PROVE  PlanInv'
<1>1. TodoOK(model, G \union H, Now', q \o Tail(todo)) BY TodoStep
<1>2. Sound(model, G \union H) BY SoundUnion
<1>3. call \notin {"none", "crashed"} BY DEF PlanInv
<1>4. QED BY <1>1, <1>2, <1>3 DEF PlanInv

LEMMA ImpliedKinds ==
  ASSUME NEW f, NEW t \in Implied(f)
  PROVE  (t = UnitsReady \/ \E g : t = Flag(g)) /\ t[1] # "checked" /\ t[1] # "read"
<1>1. t = UnitsReady \/ \E g : t = Flag(g) BY DEF Implied
<1>2. QED BY <1>1, TokenKinds

\* What the flags stand for is still there or on its way.
LEMMA ImpliedGoes ==
  ASSUME ImpliedInv, todo # << >>, IsSeq(todo), NEW q, IsSeq(q), todo' = q \o Tail(todo),
         \A t \in Now : t[1] # "checked" => t \in Now',
         Simple(Head(todo)) => AllSimple(q),
         \A t \in GivesFirst(Head(todo)) : t \in Now',
         \A f \in done' \ done : \A t \in Implied(f) : t \in Now' \/ LeadsTo(q, t)
  PROVE  ImpliedInv'
<1>1. IsSeq(Tail(todo)) /\ Head(todo) = todo[1] /\ Len(todo) \in Nat \ {0}
      /\ Len(Tail(todo)) = Len(todo) - 1 /\ \A k \in 1..Len(Tail(todo)) : Tail(todo)[k] = todo[k + 1]
  BY RestIs
<1>2. SUFFICES ASSUME NEW f \in done', NEW t \in Implied(f), t \notin Now'
               PROVE  LeadsTo(todo', t)
  BY DEF ImpliedInv
<1>3. CASE f \notin done
  <2>1. LeadsTo(q, t) BY <1>2, <1>3
  <2>2. QED BY <1>1, <2>1, LeadsSooner
<1>4. CASE f \in done
  <2>1. LeadsTo(todo, t) BY <1>2, <1>4, ImpliedKinds DEF ImpliedInv
  <2>2. PICK k \in 1..Len(todo) : t \in GivesFirst(todo[k]) /\ \A j \in 1..(k - 1) : Simple(todo[j])
    BY <2>1 DEF LeadsTo
  <2>3. k # 1 BY <1>1, <1>2, <2>2
  <2>4. Simple(Head(todo)) BY <1>1, <2>2, <2>3
  <2>5. LeadsTo(Tail(todo), t)
    <3> DEFINE i == k - 1
    <3>1. i \in 1..Len(Tail(todo)) /\ k = i + 1 /\ 1..(i - 1) \subseteq 1..Len(Tail(todo))
      BY <1>1, <2>2, <2>3
    <3>2. \A j \in 1..(i - 1) : j + 1 \in 1..(k - 1) BY <3>1
    <3> HIDE DEF i
    <3>3. t \in GivesFirst(Tail(todo)[i]) BY <1>1, <2>2, <3>1
    <3>4. \A j \in 1..(i - 1) : Simple(Tail(todo)[j]) BY <1>1, <2>2, <3>1, <3>2
    <3>5. QED BY <3>1, <3>3, <3>4 DEF LeadsTo
  <2>6. QED BY <1>1, <2>4, <2>5, LeadsLater
<1>5. QED BY <1>3, <1>4

-----------------------------------------------------------------------------
\* Storage.

\* A plan of a good set of pairs allocates and loads nothing by itself.
LEMMA ProperIsSettled ==
  ASSUME NEW m, NEW G, NEW E, NEW p, Sound(m, G), Proper(G, E, p)
  PROVE  NoInit(p)
<1>1. ASSUME NEW k \in 1..Len(p) PROVE ~IsInit(p[k])
  <2>1. PICK D : <<D, p[k]>> \in G BY DEF Proper
  <2>2. StepOK(m, G, D, p[k]) BY <2>1 DEF Sound
  <2>3. QED BY <2>2 DEF StepOK, IsInit
<1>2. QED BY <1>1 DEF NoInit

LEMMA NoInitCat ==
  ASSUME NEW p, NEW q, IsSeq(p), IsSeq(q), NoInit(p), NoInit(q)
  PROVE  NoInit(p \o q)
<1>1. SUFFICES ASSUME NEW k \in 1..Len(p \o q) PROVE ~IsInit((p \o q)[k]) BY DEF NoInit
<1>2. CASE k \in 1..Len(p) BY <1>2, CatIs DEF NoInit
<1>3. CASE k \notin 1..Len(p)
  <2>1. k - Len(p) \in 1..Len(q) /\ k = Len(p) + (k - Len(p)) BY <1>3, CatIs, SeqIs
  <2>2. QED BY <2>1, CatIs DEF NoInit
<1>4. QED BY <1>2, <1>3

LEMMA NoInitTail ==
  ASSUME NEW p, IsSeq(p), p # << >>, NoInit(p)
  PROVE  NoInit(Tail(p))
<1>1. Len(p) \in Nat /\ \A k \in 1..Len(Tail(p)) : Tail(p)[k] = p[k + 1] /\ k + 1 \in 1..Len(p)
  BY RestIs
<1>2. QED BY <1>1 DEF NoInit

\* Nothing is left to be loaded.
LEMMA Settled ==
  ASSUME NEW m, NEW p, NoInit(p)
  PROVE  \A b, o, n : LoadsOf(p, b) = {} /\ AllocatesOf(p, b) = {} /\ Filling(m, p, b, o, n)
<1>1. TAKE b, o, n
<1>2. LoadsOf(p, b) = {} BY DEF NoInit, IsInit, LoadsOf
<1>3. AllocatesOf(p, b) = {} BY DEF NoInit, IsInit, AllocatesOf
<1>4. \A x : FitIn(p, b, x) BY <1>2 DEF FitIn
<1>5. QED BY <1>2, <1>3, <1>4 DEF Filling

\* Once the plan at hand does something else, all storage is there.
LEMMA SettledNow ==
  ASSUME StorageInv, IsSeq(todo), todo # << >>, ~IsInit(Head(todo))
  PROVE  NoInit(todo)
<1>1. Head(todo) = todo[1] /\ \A k \in 1..Len(todo) : 1 \in 1..k BY RestIs
<1>2. QED BY <1>1 DEF StorageInv, NoInit

\* A step that is not of storage leaves the storage as it is, up to the direction
\* of the operations.
LEMMA StorageRest ==
  ASSUME StorageInv, IsSeq(todo), NoInit(todo'), NoInit(todo),
         model' = model, size' = size, StorageFlag \intersect done' \subseteq done, done \subseteq done',
         \A b \in Batch : /\ WellLaid(model, b, ops'[b]) /\ Len(ops'[b]) = Len(ops[b])
                          /\ ops[b] = << >> <=> ops'[b] = << >>
                          /\ b \in fresh' => b \in fresh \/ FlagOf(b) \in done
  PROVE  StorageInv'
<1>1. \A k \in 1..Len(todo') : ~IsInit(todo'[k]) BY DEF NoInit
<1>2. ASSUME NEW b \in Batch
      PROVE  /\ Filling(model, todo', b, ops'[b], size'[b])
             /\ FlagOf(b) \in done' /\ Uses(model, b) => ops'[b] # << >> \/ LoadsOf(todo', b) # {}
             /\ FlagOf(b) \notin done' => ops'[b] = << >> /\ b \notin fresh'
             /\ LoadsOf(todo', b) # {} => b \notin fresh'
             /\ WellLaid(model, b, ops'[b])
             /\ Len(ops'[b]) <= size'[b]
  <2>1. FlagOf(b) \in StorageFlag BY DEF StorageFlag
  <2>2. Filling(model, todo', b, ops'[b], size'[b]) /\ LoadsOf(todo', b) = {} /\ LoadsOf(todo, b) = {}
    BY Settled
  <2>3. /\ FlagOf(b) \in done /\ Uses(model, b) => ops[b] # << >> \/ LoadsOf(todo, b) # {}
        /\ FlagOf(b) \notin done => ops[b] = << >> /\ b \notin fresh
        /\ Len(ops[b]) <= size[b]
    BY DEF StorageInv
  <2>4. QED BY <2>1, <2>2, <2>3
<1>3. QED BY <1>1, <1>2 DEF StorageInv

\* What happens to a batch in the steps that follow a storage step.
LEMMA FillShift ==
  ASSUME NEW m, NEW p, NEW b, NEW o, NEW n, IsSeq(p), p # << >>, Filling(m, p, b, o, n),
         p[1].b # b \/ ~IsInit(p[1])
  PROVE  Filling(m, Tail(p), b, o, n) /\ (LoadsOf(p, b) # {} <=> LoadsOf(Tail(p), b) # {})
<1> DEFINE r == Tail(p)
<1>1. Len(p) \in Nat \ {0} /\ Len(r) = Len(p) - 1 /\ \A k \in 1..Len(r) : r[k] = p[k + 1]
  BY RestIs
<1> HIDE DEF r
<1>2. \A k : k \in LoadsOf(r, b) => k \in Nat /\ k + 1 \in LoadsOf(p, b) /\ p[k + 1] = r[k]
  BY <1>1 DEF LoadsOf
<1>3. \A k : k \in AllocatesOf(r, b) => k \in Nat /\ k + 1 \in AllocatesOf(p, b) /\ p[k + 1] = r[k]
  BY <1>1 DEF AllocatesOf
<1>4. ASSUME NEW k \in LoadsOf(p, b) PROVE k - 1 \in LoadsOf(r, b)
  <2>1. k # 1 BY DEF LoadsOf, IsInit
  <2>2. k - 1 \in 1..Len(r) /\ k = (k - 1) + 1 BY <1>1, <2>1 DEF LoadsOf
  <2>3. QED BY <1>1, <2>2 DEF LoadsOf
<1>5. ASSUME NEW k \in AllocatesOf(p, b) PROVE k - 1 \in AllocatesOf(r, b)
  <2>1. k # 1 BY DEF AllocatesOf, IsInit
  <2>2. k - 1 \in 1..Len(r) /\ k = (k - 1) + 1 BY <1>1, <2>1 DEF AllocatesOf
  <2>3. QED BY <1>1, <2>2 DEF AllocatesOf
<1>6. ASSUME NEW x, FitIn(p, b, x) PROVE FitIn(r, b, x)
  <2>1. SUFFICES ASSUME NEW j \in LoadsOf(r, b), NEW k \in LoadsOf(r, b), j <= k
                 PROVE  (k - j + 1) * Width(b) <= x
    BY DEF FitIn
  <2>2. ((k + 1) - (j + 1) + 1) * Width(b) <= x BY <1>2, <1>6, <2>1 DEF FitIn
  <2>3. (k + 1) - (j + 1) + 1 = k - j + 1 BY <1>2
  <2>4. QED BY <2>2, <2>3
<1>7. \A i, j \in AllocatesOf(r, b) : i = j BY <1>3 DEF Filling
<1>8. ASSUME NEW i \in AllocatesOf(r, b)
      PROVE  o = << >> /\ FitIn(r, b, r[i].n) /\ \A k \in LoadsOf(r, b) : i < k
  <2>1. o = << >> /\ FitIn(p, b, p[i + 1].n) /\ \A k \in LoadsOf(p, b) : i + 1 < k BY <1>3 DEF Filling
  <2>2. \A k \in LoadsOf(r, b) : i < k BY <1>2, <1>3, <2>1
  <2>3. QED BY <1>3, <1>6, <2>1, <2>2
<1>9. ASSUME AllocatesOf(r, b) = {} PROVE FitIn(r, b, n - Len(o))
  <2>1. AllocatesOf(p, b) = {} BY <1>5, <1>9
  <2>2. QED BY <1>6, <2>1 DEF Filling
<1>10. ASSUME NEW j \in LoadsOf(r, b), Address(m, r[j].msr) # Absent
       PROVE  /\ \A k \in LoadsOf(r, b) : j # k => Address(m, r[k].msr) # Address(m, r[j].msr)
              /\ \A i \in DOMAIN o : o[i].msr # Address(m, r[j].msr)
  <2>1. j + 1 \in LoadsOf(p, b) /\ p[j + 1] = r[j] BY <1>2
  <2>2. /\ \A k \in LoadsOf(p, b) : j + 1 # k => Address(m, p[k].msr) # Address(m, p[j + 1].msr)
        /\ \A i \in DOMAIN o : o[i].msr # Address(m, p[j + 1].msr)
    BY <1>10, <2>1 DEF Filling
  <2>3. QED BY <1>2, <2>1, <2>2
<1>11. LoadsOf(r, b) # {} => AllReads(o)
  <2>1. LoadsOf(p, b) # {} => AllReads(o) BY DEF Filling
  <2>2. QED BY <1>2, <2>1
<1>12. Filling(m, r, b, o, n) BY <1>7, <1>8, <1>9, <1>10, <1>11 DEF Filling
<1>13. QED BY <1>2, <1>4, <1>12 DEF r

-----------------------------------------------------------------------------
\* The processors.

\* The quotient of a multiple, with something less than the divisor.
LEMMA Quotient ==
  ASSUME NEW q \in Nat, NEW d \in Nat \ {0}, NEW r \in 0..(d - 1)
  PROVE  (q * d + r) \div d = q /\ (q * d + r) % d = r
  OBVIOUS

LEMMA Divides ==
  ASSUME NEW a \in Nat, NEW d \in Nat \ {0}
  PROVE  /\ a \div d \in Nat /\ a % d \in 0..(d - 1)
         /\ a = (a \div d) * d + (a % d)
  OBVIOUS

\* NCORES is a multiple of NSOCKETS, and there are as many threads as cores.
LEMMA Stride ==
  LET stride == NCORES \div NSOCKETS
  IN /\ stride \in Nat \ {0} /\ NCORES = stride * NSOCKETS
     /\ NCORES <= NTHREADS
     /\ (NCORES + stride - 1) \div stride = NSOCKETS
     /\ \A s \in Socket : (s * NCORES) \div NSOCKETS = s * stride /\ s * stride \in Cpu
<1> DEFINE stride == NCORES \div NSOCKETS
<1>1. /\ NSOCKETS \in Nat \ {0} /\ NCORES \in Nat \ {0} /\ NTHREADS \in Nat \ {0} BY Topology
<1>2. NCORES % NSOCKETS = 0 /\ NTHREADS % NCORES = 0 BY TopologyAssumption
<1>3. stride \in Nat /\ NCORES = stride * NSOCKETS
  <2>1. NCORES = (NCORES \div NSOCKETS) * NSOCKETS + (NCORES % NSOCKETS) BY <1>1, Divides
  <2>2. NCORES \div NSOCKETS \in Nat BY <1>1, Divides
  <2>3. QED BY <1>1, <1>2, <2>1, <2>2
<1> HIDE DEF stride
<1>4. stride # 0 BY <1>1, <1>3
<1>5. NCORES <= NTHREADS
  <2> DEFINE k == NTHREADS \div NCORES
  <2>1. k \in Nat /\ NTHREADS = k * NCORES
    <3>1. NTHREADS = (NTHREADS \div NCORES) * NCORES + (NTHREADS % NCORES) BY <1>1, Divides
    <3>2. NTHREADS \div NCORES \in Nat BY <1>1, Divides
    <3>3. QED BY <1>1, <1>2, <3>1, <3>2
  <2> HIDE DEF k
  <2>2. k # 0 BY <1>1, <2>1
  <2>3. 1 * NCORES <= k * NCORES BY <1>1, <2>1, <2>2, TimesMonotone
  <2>4. QED BY <1>1, <2>1, <2>3
<1>6. (NCORES + stride - 1) \div stride = NSOCKETS
  <2>1. NCORES + stride - 1 = NSOCKETS * stride + (stride - 1) BY <1>1, <1>3
  <2>2. stride - 1 \in 0..(stride - 1) BY <1>3, <1>4
  <2>3. QED BY <1>1, <1>3, <1>4, <2>1, <2>2, Quotient
<1>7. ASSUME NEW s \in Socket PROVE (s * NCORES) \div NSOCKETS = s * stride /\ s * stride \in Cpu
  <2>1. s \in Nat /\ s <= NSOCKETS - 1 BY <1>1 DEF Socket
  <2>2. s * stride \in Nat BY <1>3, <2>1
  <2>3. s * NCORES = (s * stride) * NSOCKETS + 0 BY <1>1, <1>3, <2>1
  <2>4. (s * NCORES) \div NSOCKETS = s * stride
    <3>1. 0 \in 0..(NSOCKETS - 1) BY <1>1
    <3> DEFINE x == s * stride
    <3>2. x \in Nat BY <2>2
    <3> HIDE DEF x
    <3>3. (x * NSOCKETS + 0) \div NSOCKETS = x BY <1>1, <3>1, <3>2, Quotient
    <3>4. QED BY <2>3, <3>3 DEF x
  <2>5. (s + 1) * stride <= NSOCKETS * stride BY <1>1, <1>3, <2>1, TimesMonotone
  <2>6. (s + 1) * stride = s * stride + stride BY <1>3, <2>1
  <2>7. s * stride + stride <= NCORES BY <1>1, <1>3, <2>5, <2>6
  <2>8. s * stride <= NTHREADS - 1 BY <1>1, <1>3, <1>4, <1>5, <2>2, <2>7
  <2>9. QED BY <1>1, <2>2, <2>4, <2>8 DEF Cpu
<1>8. QED BY <1>3, <1>4, <1>5, <1>6, <1>7 DEF stride

\* The first thread of a socket, as devidx counts and as load_socket_batch does.
LEMMA SocketCpusAre ==
  /\ IsSeq(SocketCpus) /\ Len(SocketCpus) = NSOCKETS
  /\ \A k \in 1..NSOCKETS : SocketCpus[k] = devidx(k - 1, 0, 0) /\ SocketCpus[k] \in Cpu
<1> DEFINE stride == NCORES \div NSOCKETS
           n == (NCORES + stride - 1) \div stride
<1>1. /\ stride \in Nat \ {0} /\ n = NSOCKETS
      /\ \A s \in Socket : (s * NCORES) \div NSOCKETS = s * stride /\ s * stride \in Cpu
  BY Stride
<1>2. NSOCKETS \in Nat \ {0} /\ Cpu \subseteq Int BY Topology DEF Cpu
<1>3. SocketCpus = [k \in 1..n |-> (k - 1) * stride] BY DEF SocketCpus
<1>4. \A s \in Socket : devidx(s, 0, 0) = 0 * NSOCKETS * stride + (s * NCORES) \div NSOCKETS + 0
  BY DEF devidx
<1> HIDE DEF stride, n
<1>5. SocketCpus = [k \in 1..NSOCKETS |-> (k - 1) * stride] BY <1>1, <1>3
<1>6. SocketCpus = [k \in 1..NSOCKETS |-> SocketCpus[k]] BY <1>5
<1>7. IsSeq(SocketCpus) /\ Len(SocketCpus) = NSOCKETS BY <1>2, <1>6, FunIs
<1>8. ASSUME NEW k \in 1..NSOCKETS
      PROVE  SocketCpus[k] = devidx(k - 1, 0, 0) /\ SocketCpus[k] \in Cpu
  <2>1. k - 1 \in Socket BY <1>2 DEF Socket
  <2>2. SocketCpus[k] = (k - 1) * stride BY <1>5
  <2>3. ((k - 1) * NCORES) \div NSOCKETS = (k - 1) * stride /\ (k - 1) * stride \in Cpu BY <1>1, <2>1
  <2>4. devidx(k - 1, 0, 0) = 0 * NSOCKETS * stride + ((k - 1) * NCORES) \div NSOCKETS + 0
    BY <1>4, <2>1
  <2>5. 0 * NSOCKETS * stride = 0 BY <1>1, <1>2
  <2>6. (k - 1) * stride \in Int BY <1>1
  <2>7. QED BY <2>2, <2>3, <2>4, <2>5, <2>6
<1>9. QED BY <1>7, <1>8

LEMMA CpusAre ==
  ASSUME NEW b
  PROVE  /\ Len(CpusOf(b)) = Width(b) /\ DOMAIN CpusOf(b) = 1..Width(b)
         /\ \A k \in 1..Width(b) : CpusOf(b)[k] \in Cpu
<1>1. CASE b \in PerSocket
  <2>1. DOMAIN SocketCpus = 1..NSOCKETS BY SocketCpusAre, SeqIs
  <2>2. QED BY <1>1, <2>1, SocketCpusAre DEF CpusOf, Width
<1>2. CASE b \notin PerSocket
  <2>1. NTHREADS \in Nat \ {0} BY Topology
  <2>2. ThreadCpus = [k \in 1..NTHREADS |-> ThreadCpus[k]] BY DEF ThreadCpus
  <2>3. Len(ThreadCpus) = NTHREADS /\ DOMAIN ThreadCpus = 1..NTHREADS BY <2>1, <2>2, FunIs
  <2>4. \A k \in 1..NTHREADS : ThreadCpus[k] \in Cpu BY <2>1 DEF ThreadCpus, Cpu
  <2>5. QED BY <1>2, <2>3, <2>4 DEF CpusOf, Width
<1>3. QED BY <1>1, <1>2

-----------------------------------------------------------------------------
\* The layout of a batch.
Operation == [msr : Register, cpu : Cpu, isrdmsr : BOOLEAN]

\* The i-th operation is on a register and on a processor that there are.
LEMMA PlaceIs ==
  ASSUME NEW n \in Nat, NEW w \in Nat \ {0}, NEW i \in 1..(n * w)
  PROVE  ((i - 1) \div w) + 1 \in 1..n /\ ((i - 1) % w) + 1 \in 1..w
<1>1. n * w \in Nat OBVIOUS
<1>2. i - 1 \in Nat /\ i - 1 < n * w BY <1>1
<1> DEFINE q == (i - 1) \div w
           r == (i - 1) % w
<1>3. q \in Nat /\ r \in 0..(w - 1) /\ i - 1 = q * w + r BY <1>2, Divides
<1> HIDE DEF q, r
<1>4. q < n
  <2>1. SUFFICES ASSUME n <= q PROVE FALSE BY <1>3
  <2>2. n * w <= q * w BY <1>3, <2>1, TimesMonotone
  <2>3. q * w \in Nat BY <1>3
  <2>4. QED BY <1>1, <1>2, <1>3, <2>2, <2>3
<1>5. q + 1 \in 1..n /\ r + 1 \in 1..w BY <1>3, <1>4
<1>6. QED BY <1>5 DEF q, r

\* And each of them has its place.
LEMMA PlaceOf ==
  ASSUME NEW n \in Nat, NEW w \in Nat \ {0}, NEW k \in 1..n, NEW c \in 1..w
  PROVE  LET i == (k - 1) * w + c
         IN /\ i \in 1..(n * w)
            /\ (i - 1) \div w = k - 1 /\ (i - 1) % w = c - 1
<1> DEFINE i == (k - 1) * w + c
<1>1. k - 1 \in Nat /\ (k - 1) * w \in Nat /\ c - 1 \in 0..(w - 1) OBVIOUS
<1>2. k * w = (k - 1) * w + w /\ k * w \in Nat OBVIOUS
<1>3. k * w <= n * w BY TimesMonotone
<1>4. n * w \in Nat OBVIOUS
<1>5. i \in 1..(n * w) BY <1>1, <1>2, <1>3, <1>4
<1>6. i - 1 = (k - 1) * w + (c - 1) BY <1>1
<1>7. (i - 1) \div w = k - 1 /\ (i - 1) % w = c - 1
  <2> DEFINE q == k - 1
             r == c - 1
  <2>1. q \in Nat /\ r \in 0..(w - 1) BY <1>1
  <2>2. i - 1 = q * w + r BY <1>6
  <2> HIDE DEF q, r, i
  <2>3. (q * w + r) \div w = q /\ (q * w + r) % w = r BY <2>1, Quotient
  <2>4. QED BY <2>2, <2>3 DEF q, r
<1>8. QED BY <1>5, <1>7

LEMMA LaidIs ==
  ASSUME NEW b, NEW regs \in Seq(Register), NEW rd \in BOOLEAN
  PROVE  LET o == Laid(b, regs, rd)
             n == Len(regs) * Width(b)
         IN /\ n \in Nat /\ o \in Seq(Operation) /\ Len(o) = n /\ DOMAIN o = 1..n
            /\ \A i \in 1..n : o[i].msr = regs[((i - 1) \div Width(b)) + 1]
            /\ \A i \in 1..n : o[i].cpu = CpusOf(b)[((i - 1) % Width(b)) + 1]
            /\ \A i \in 1..n : o[i].isrdmsr = rd
            /\ \A i \in 1..n : ((i - 1) \div Width(b)) + 1 \in 1..Len(regs)
<1> DEFINE w == Width(b)
           n == Len(regs) * w
           o == Laid(b, regs, rd)
           op(i) == [msr |-> regs[((i - 1) \div w) + 1], cpu |-> CpusOf(b)[((i - 1) % w) + 1],
                     isrdmsr |-> rd]
<1>1. w \in Nat \ {0} /\ Len(regs) \in Nat BY Topology
<1>2. n \in Nat BY <1>1
<1>3. o = [i \in 1..n |-> op(i)] BY DEF Laid
<1>4. \A k \in 1..w : CpusOf(b)[k] \in Cpu BY CpusAre
<1>5. \A i \in 1..n : ((i - 1) \div w) + 1 \in 1..Len(regs) /\ ((i - 1) % w) + 1 \in 1..w
  BY <1>1, PlaceIs
<1> HIDE DEF w, n, o
<1>6. ASSUME NEW i \in 1..n PROVE op(i) \in Operation
  <2>1. regs[((i - 1) \div w) + 1] \in Register BY <1>5
  <2>2. CpusOf(b)[((i - 1) % w) + 1] \in Cpu BY <1>4, <1>5
  <2>3. QED BY <2>1, <2>2 DEF Operation
<1>7. o \in [1..n -> Operation] BY <1>3, <1>6
<1>8. o \in Seq(Operation) /\ Len(o) = n /\ DOMAIN o = 1..n BY <1>2, <1>7
<1>9. \A i \in 1..n : /\ o[i].msr = regs[((i - 1) \div w) + 1]
                      /\ o[i].cpu = CpusOf(b)[((i - 1) % w) + 1]
                      /\ o[i].isrdmsr = rd
  BY <1>3
<1>10. QED BY <1>2, <1>5, <1>8, <1>9 DEF o, w, n

LEMMA LaidLength ==
  ASSUME NEW b, NEW regs \in Seq(Register), NEW rd \in BOOLEAN
  PROVE  /\ Laid(b, regs, rd) \in Seq(Operation)
         /\ Len(Laid(b, regs, rd)) = Len(regs) * Width(b)
         /\ \A i \in DOMAIN Laid(b, regs, rd) : Laid(b, regs, rd)[i].isrdmsr = rd
<1> DEFINE n == Len(regs) * Width(b)
           o == Laid(b, regs, rd)
<1>1. o \in Seq(Operation) /\ Len(o) = n /\ DOMAIN o = 1..n /\ \A i \in 1..n : o[i].isrdmsr = rd
  BY LaidIs
<1> HIDE DEF n, o
<1>2. o \in Seq(Operation) /\ Len(o) = n /\ \A i \in DOMAIN o : o[i].isrdmsr = rd BY <1>1
<1>3. QED BY <1>2 DEF n, o

\* One more register, on every processor.
LEMMA LaidAppend ==
  ASSUME NEW b, NEW regs \in Seq(Register), NEW a \in Register
  PROVE  Laid(b, regs, TRUE) \o [i \in 1..Width(b) |-> Op(a, CpusOf(b)[i])]
           = Laid(b, Append(regs, a), TRUE)
<1> DEFINE w == Width(b)
           q == [i \in 1..w |-> Op(a, CpusOf(b)[i])]
           p == Laid(b, regs, TRUE)
           more == Append(regs, a)
           o == Laid(b, more, TRUE)
           n == Len(regs) * w
           yes == TRUE
<1>1. w \in Nat \ {0} /\ Len(regs) \in Nat BY Topology
<1>2. more \in Seq(Register) /\ Len(more) = Len(regs) + 1 /\ more[Len(regs) + 1] = a
      /\ \A k \in 1..Len(regs) : more[k] = regs[k]
  BY <1>1
<1>3. \A k \in 1..w : CpusOf(b)[k] \in Cpu BY CpusAre
<1>4. q \in [1..w -> Operation] BY <1>3 DEF Op, Operation
<1>5. q \in Seq(Operation) /\ Len(q) = w BY <1>1, <1>4
<1>6. \A i \in 1..w : q[i] = [msr |-> a, cpu |-> CpusOf(b)[i], isrdmsr |-> TRUE] BY DEF Op
<1>7. yes \in BOOLEAN OBVIOUS
<1>8. p = Laid(b, regs, yes) /\ o = Laid(b, more, yes) OBVIOUS
<1>9. p = [i \in 1..n |-> [msr |-> regs[((i - 1) \div w) + 1],
                           cpu |-> CpusOf(b)[((i - 1) % w) + 1], isrdmsr |-> TRUE]]
  BY DEF Laid
<1>10. o = [i \in 1..(Len(more) * w) |-> [msr |-> more[((i - 1) \div w) + 1],
                                     cpu |-> CpusOf(b)[((i - 1) % w) + 1], isrdmsr |-> TRUE]]
  BY DEF Laid
<1>11. n \in Nat /\ Len(more) * w = n + w /\ n + w \in Nat
  <2>1. Len(more) * w = (Len(regs) + 1) * w BY <1>2
  <2>2. (Len(regs) + 1) * w = Len(regs) * w + w BY <1>1
  <2>3. n \in Nat BY <1>1
  <2>4. QED BY <1>1, <2>1, <2>2, <2>3
<1> HIDE DEF yes
<1>12. p \in Seq(Operation) /\ Len(p) = n BY <1>7, <1>8, LaidIs
<1>13. o \in Seq(Operation) /\ Len(o) = Len(more) * w BY <1>2, <1>7, <1>8, LaidIs
<1> HIDE DEF p, q, o, more, w, n
<1>14. p \o q \in Seq(Operation) /\ Len(p \o q) = n + w BY <1>5, <1>12
<1>15. ASSUME NEW i \in 1..(n + w) PROVE (p \o q)[i] = o[i]
  <2>1. CASE i \in 1..n
    <3>1. (p \o q)[i] = p[i] BY <1>5, <1>12, <2>1
    <3>2. ((i - 1) \div w) + 1 \in 1..Len(regs) BY <1>1, <2>1, PlaceIs DEF n
    <3>3. more[((i - 1) \div w) + 1] = regs[((i - 1) \div w) + 1] BY <1>2, <3>2
    <3>4. QED BY <1>9, <1>10, <1>11, <2>1, <3>1, <3>3
  <2>2. CASE i \notin 1..n
    <3> DEFINE c == i - n
    <3>1. c \in 1..w /\ i = n + c BY <1>1, <1>11, <2>2
    <3> HIDE DEF c
    <3>2. (p \o q)[i] = q[c] BY <1>5, <1>12, <3>1
    <3>3. (i - 1) \div w = Len(regs) /\ (i - 1) % w = c - 1
      <4> DEFINE r == c - 1
      <4>1. r \in 0..(w - 1) /\ c = r + 1 BY <1>1, <3>1
      <4>2. i - 1 = Len(regs) * w + r BY <1>1, <1>11, <3>1, <4>1 DEF n
      <4> HIDE DEF r
      <4>3. (Len(regs) * w + r) \div w = Len(regs) /\ (Len(regs) * w + r) % w = r
        BY <1>1, <4>1, Quotient
      <4>4. QED BY <4>2, <4>3 DEF r
    <3>4. (c - 1) + 1 = c BY <3>1
    <3>5. more[((i - 1) \div w) + 1] = a BY <1>2, <3>3
    <3>6. CpusOf(b)[((i - 1) % w) + 1] = CpusOf(b)[c] BY <3>3, <3>4
    <3>7. QED BY <1>6, <1>10, <1>11, <3>1, <3>2, <3>5, <3>6
  <2>3. QED BY <2>1, <2>2
<1>16. p \o q = o BY <1>11, <1>13, <1>14, <1>15
<1>17. QED BY <1>16 DEF p, q, o, more, w

\* What the layout says of a batch.
LEMMA WellLaidIs ==
  ASSUME NEW m, NEW b, NEW o, WellLaid(m, b, o)
  PROVE  /\ o \in Seq(Operation) /\ IsSeq(o) /\ DOMAIN o = 1..Len(o) /\ Len(o) \in Nat
         /\ \A i \in DOMAIN o : Belongs(m, b, o[i].msr) /\ o[i].cpu \in Cpu
         /\ \A i, j \in DOMAIN o : o[i].isrdmsr = o[j].isrdmsr
<1>1. PICK regs \in Seq(Register), rd \in BOOLEAN :
        o = Laid(b, regs, rd) /\ \A k \in 1..Len(regs) : Belongs(m, b, regs[k])
  BY DEF WellLaid
<1> DEFINE n == Len(regs) * Width(b)
<1>2. /\ n \in Nat /\ o \in Seq(Operation) /\ Len(o) = n /\ DOMAIN o = 1..n
      /\ \A i \in 1..n : o[i].msr = regs[((i - 1) \div Width(b)) + 1]
      /\ \A i \in 1..n : o[i].isrdmsr = rd
      /\ \A i \in 1..n : ((i - 1) \div Width(b)) + 1 \in 1..Len(regs)
  BY <1>1, LaidIs
<1> HIDE DEF n
<1>3. \A i \in 1..n : o[i] \in Operation BY <1>2
<1>4. \A i \in 1..n : o[i].cpu \in Cpu BY <1>3 DEF Operation
<1>5. \A i \in 1..n : Belongs(m, b, o[i].msr) BY <1>1, <1>2
<1>6. QED BY <1>2, <1>4, <1>5 DEF IsSeq

\* Nothing is laid out.
LEMMA NoneLaid ==
  ASSUME NEW m, NEW b
  PROVE  WellLaid(m, b, << >>)
<1> DEFINE none == << >>
           rd == TRUE
<1>1. none \in Seq(Register) /\ Len(none) = 0 OBVIOUS
<1>6. rd \in BOOLEAN OBVIOUS
<1> HIDE DEF none, rd
<1>2. Laid(b, none, rd) \in Seq(Operation) /\ Len(Laid(b, none, rd)) = Len(none) * Width(b)
  BY <1>1, <1>6, LaidLength
<1>3. Len(none) * Width(b) = 0
  <2>1. Width(b) \in Nat BY Topology
  <2>2. 0 * Width(b) = 0 BY <2>1
  <2>3. QED BY <1>1, <2>2
<1>4. Laid(b, none, rd) = << >> BY <1>2, <1>3
<1>5. \A k \in 1..Len(none) : FALSE BY <1>1
<1>7. << >> = Laid(b, none, rd) BY <1>4
<1>8. QED BY <1>1, <1>5, <1>6, <1>7 DEF WellLaid

\* The device turns every operation in the same direction.
TurnedOps(o, t) == [i \in DOMAIN o |-> [o[i] EXCEPT !.isrdmsr = t[i]]]
LEMMA Turned ==
  ASSUME NEW m, NEW b, NEW o, WellLaid(m, b, o), NEW rd2 \in BOOLEAN,
         NEW t, \A i \in DOMAIN o : t[i] = rd2
  PROVE  LET o2 == TurnedOps(o, t)
         IN /\ WellLaid(m, b, o2) /\ Len(o2) = Len(o) /\ DOMAIN o2 = DOMAIN o
            /\ o = << >> <=> o2 = << >>
            /\ \A i \in DOMAIN o : o2[i].msr = o[i].msr /\ o2[i].cpu = o[i].cpu
<1>1. PICK regs \in Seq(Register), rd \in BOOLEAN :
        /\ o = Laid(b, regs, rd)
        /\ \A k \in 1..Len(regs) : Belongs(m, b, regs[k])
        /\ \A j, k \in 1..Len(regs) : j # k /\ regs[j] # Absent => regs[j] # regs[k]
  BY DEF WellLaid
<1> DEFINE n == Len(regs) * Width(b)
           o2 == [i \in DOMAIN o |-> [o[i] EXCEPT !.isrdmsr = t[i]]]
           l == Laid(b, regs, rd2)
           new == [i \in 1..n |-> [msr |-> regs[((i - 1) \div Width(b)) + 1],
                                   cpu |-> CpusOf(b)[((i - 1) % Width(b)) + 1], isrdmsr |-> rd2]]
<1>2. n \in Nat /\ o \in Seq(Operation) /\ Len(o) = n /\ DOMAIN o = 1..n BY <1>1, LaidIs
<1>3. l \in Seq(Operation) /\ Len(l) = n /\ DOMAIN l = 1..n BY LaidIs
<1>4. l = new BY DEF Laid
<1>5. \A i \in 1..n : o[i] = [msr |-> regs[((i - 1) \div Width(b)) + 1],
                              cpu |-> CpusOf(b)[((i - 1) % Width(b)) + 1], isrdmsr |-> rd]
  BY <1>1 DEF Laid
<1> HIDE DEF n, l
<1>6. \A i \in 1..n : o2[i] = [o[i] EXCEPT !.isrdmsr = rd2] BY <1>2
<1>7. \A i \in 1..n : [o[i] EXCEPT !.isrdmsr = rd2]
        = [msr |-> regs[((i - 1) \div Width(b)) + 1],
           cpu |-> CpusOf(b)[((i - 1) % Width(b)) + 1], isrdmsr |-> rd2]
  <2>1. TAKE i \in 1..n
  <2> DEFINE x == regs[((i - 1) \div Width(b)) + 1]
             c == CpusOf(b)[((i - 1) % Width(b)) + 1]
  <2>2. o[i] = [msr |-> x, cpu |-> c, isrdmsr |-> rd] BY <1>5
  <2> HIDE DEF x, c
  <2>3. [o[i] EXCEPT !.isrdmsr = rd2] = [msr |-> x, cpu |-> c, isrdmsr |-> rd2] BY <2>2
  <2>4. QED BY <2>3 DEF x, c
<1>8. o2 = new BY <1>2, <1>6, <1>7
<1>9. o2 = l BY <1>4, <1>8
<1>10. WellLaid(m, b, o2) BY <1>1, <1>9 DEF WellLaid, l
<1>11. \A i \in DOMAIN o : o2[i].msr = o[i].msr /\ o2[i].cpu = o[i].cpu BY <1>2, <1>5, <1>8
<1>12. Len(o2) = Len(o) /\ DOMAIN o2 = DOMAIN o BY <1>2, <1>3, <1>9
<1>13. o = << >> <=> o2 = << >>
  <2>1. o2 \in Seq(Operation) BY <1>3, <1>9
  <2>2. QED BY <1>2, <1>12, <2>1
<1>14. o2 = TurnedOps(o, t) BY DEF TurnedOps
<1> HIDE DEF o2
<1>15. QED BY <1>10, <1>11, <1>12, <1>13, <1>14

\* A register that is loaded on its processors.
LoadOps(b, a) == [i \in 1..Width(b) |-> Op(a, CpusOf(b)[i])]
LEMMA Loaded ==
  ASSUME NEW m, NEW b, NEW o, WellLaid(m, b, o), AllReads(o),
         NEW a, Belongs(m, b, a), a # Absent => \A i \in DOMAIN o : o[i].msr # a
  PROVE  LET o2 == o \o LoadOps(b, a)
         IN /\ WellLaid(m, b, o2) /\ Len(o2) = Len(o) + Width(b)
            /\ AllReads(o2)
            /\ \A i \in DOMAIN o2 : (i \in DOMAIN o /\ o2[i] = o[i]) \/ o2[i].msr = a
<1>1. PICK regs \in Seq(Register), rd \in BOOLEAN :
        /\ o = Laid(b, regs, rd)
        /\ \A k \in 1..Len(regs) : Belongs(m, b, regs[k])
        /\ \A j, k \in 1..Len(regs) : j # k /\ regs[j] # Absent => regs[j] # regs[k]
  BY DEF WellLaid
<1> DEFINE w == Width(b)
           n == Len(regs) * w
           q == [i \in 1..w |-> Op(a, CpusOf(b)[i])]
           o2 == o \o q
           more == Append(regs, a)
           yes == TRUE
<1>2. a \in Register BY DEF Belongs
<1>3. w \in Nat \ {0} /\ Len(regs) \in Nat /\ n \in Nat BY Topology
<1>4. /\ o \in Seq(Operation) /\ Len(o) = n /\ DOMAIN o = 1..n
      /\ \A i \in 1..n : o[i].msr = regs[((i - 1) \div w) + 1]
      /\ \A i \in 1..n : o[i].isrdmsr = rd
  BY <1>1, LaidIs
<1>5. o = Laid(b, regs, TRUE)
  <2>1. CASE n = 0
    <3>1. yes \in BOOLEAN OBVIOUS
    <3> HIDE DEF yes
    <3>3. Laid(b, regs, yes) \in Seq(Operation) /\ Len(Laid(b, regs, yes)) = n BY <3>1, LaidIs
    <3>4. Laid(b, regs, yes) = << >> BY <2>1, <3>3
    <3>5. o = << >> BY <1>4, <2>1
    <3>2. QED BY <3>4, <3>5 DEF yes
  <2>2. CASE n # 0
    <3>1. 1 \in 1..n BY <1>3, <2>2
    <3>2. rd = TRUE BY <1>4, <3>1 DEF AllReads
    <3>3. QED BY <1>1, <3>2
  <2>3. QED BY <2>1, <2>2
<1>6. o2 = Laid(b, more, TRUE) BY <1>2, <1>5, LaidAppend
<1>7. more \in Seq(Register) /\ Len(more) = Len(regs) + 1 /\ more[Len(regs) + 1] = a
      /\ \A k \in 1..Len(regs) : more[k] = regs[k]
  BY <1>2
<1>8. \A i \in 1..w : q[i].msr = a /\ q[i].isrdmsr = TRUE BY DEF Op
<1>9. q = [i \in 1..w |-> q[i]] OBVIOUS
<1>10. IsSeq(q) /\ Len(q) = w BY <1>3, <1>9, FunIs
<1>11. o2 = Laid(b, more, yes) BY <1>6
<1>22. yes \in BOOLEAN OBVIOUS
<1> HIDE DEF q, o2, more, yes, w, n
<1>12. IsSeq(o) BY <1>4 DEF IsSeq
<1>13. IsSeq(o2) /\ Len(o2) = n + w /\ (\A i \in 1..n : o2[i] = o[i]) /\ \A i \in 1..w : o2[n + i] = q[i]
  <2>1. IsSeq(o) /\ IsSeq(q) BY <1>10, <1>12
  <2>2. /\ IsSeq(o \o q) /\ Len(o \o q) = Len(o) + Len(q)
        /\ \A k \in 1..Len(o) : (o \o q)[k] = o[k]
        /\ \A k \in 1..Len(q) : (o \o q)[Len(o) + k] = q[k]
    BY <2>1, CatIs
  <2>3. Len(o) = n /\ Len(q) = w BY <1>4, <1>10
  <2>4. QED BY <2>2, <2>3 DEF o2
<1>14. DOMAIN o2 = 1..(n + w) BY <1>13, SeqIs
<1>15. ASSUME NEW i \in DOMAIN o2 PROVE (i \in DOMAIN o /\ o2[i] = o[i]) \/ o2[i].msr = a
  <2>1. CASE i \in 1..n BY <1>4, <1>13, <2>1
  <2>2. CASE i \notin 1..n
    <3>1. i - n \in 1..w /\ i = n + (i - n) BY <1>3, <1>14, <2>2
    <3>2. o2[i] = q[i - n] BY <1>13, <3>1
    <3>3. QED BY <1>8, <3>1, <3>2
  <2>3. QED BY <2>1, <2>2
<1>16. ASSUME NEW i \in DOMAIN o2 PROVE o2[i].isrdmsr
  <2>1. CASE i \in 1..n BY <1>4, <1>13, <2>1 DEF AllReads
  <2>2. CASE i \notin 1..n
    <3>1. i - n \in 1..w /\ i = n + (i - n) BY <1>3, <1>14, <2>2
    <3>2. o2[i] = q[i - n] BY <1>13, <3>1
    <3>3. QED BY <1>8, <3>1, <3>2
  <2>3. QED BY <2>1, <2>2
<1>17. ASSUME NEW k \in 1..Len(more) PROVE Belongs(m, b, more[k])
  <2>1. k \in 1..Len(regs) \/ k = Len(regs) + 1 BY <1>3, <1>7
  <2>2. QED BY <1>1, <1>7, <2>1
<1>18. ASSUME NEW k \in 1..Len(regs), a # Absent PROVE regs[k] # a
  <2> DEFINE c == 1
             i == (k - 1) * w + c
  <2>1. c \in 1..w BY <1>3
  <2> HIDE DEF c
  <2>2. i \in 1..n /\ (i - 1) \div w = k - 1 BY <1>3, <2>1, PlaceOf DEF n
  <2>3. o[i].msr # a BY <1>4, <1>18, <2>2
  <2> HIDE DEF i
  <2>4. o[i].msr = regs[(k - 1) + 1] BY <1>4, <2>2
  <2>5. (k - 1) + 1 = k OBVIOUS
  <2>6. QED BY <2>3, <2>4, <2>5
<1>19. ASSUME NEW j \in 1..Len(more), NEW k \in 1..Len(more), j # k, more[j] # Absent
       PROVE  more[j] # more[k]
  <2>1. j \in 1..Len(regs) \/ j = Len(regs) + 1 BY <1>3, <1>7
  <2>2. k \in 1..Len(regs) \/ k = Len(regs) + 1 BY <1>3, <1>7
  <2>3. CASE j \in 1..Len(regs) /\ k \in 1..Len(regs) BY <1>1, <1>7, <1>19, <2>3
  <2>4. CASE j \in 1..Len(regs) /\ k = Len(regs) + 1 BY <1>7, <1>18, <1>19, <2>4
  <2>5. CASE j = Len(regs) + 1 /\ k \in 1..Len(regs) BY <1>7, <1>18, <1>19, <2>5
  <2>6. QED BY <1>19, <2>1, <2>2, <2>3, <2>4, <2>5
<1>20. WellLaid(m, b, o2) BY <1>7, <1>11, <1>17, <1>19, <1>22 DEF WellLaid
<1>23. AllReads(o2) BY <1>16 DEF AllReads
<1>21. QED BY <1>4, <1>13, <1>15, <1>23, <1>20 DEF o2, q, w, LoadOps

-----------------------------------------------------------------------------
\* The storage steps.

\* The storage of a flag comes before the rest of a plan that has none of its own.
LEMMA BlockThen ==
  ASSUME NEW m, NEW p, NEW r, IsSeq(p), IsSeq(r), NoInit(r)
  PROVE  LET q == p \o r
         IN /\ \A b : LoadsOf(q, b) = LoadsOf(p, b) /\ AllocatesOf(q, b) = AllocatesOf(p, b)
            /\ \A k \in 1..Len(q) : IsInit(q[k]) => k \in 1..Len(p) /\ q[k] = p[k]
            /\ \A k \in 1..Len(p) : q[k] = p[k]
            /\ \A k \in 1..Len(p) : 1..k \subseteq 1..Len(p)
<1> DEFINE q == p \o r
<1>1. /\ IsSeq(q) /\ Len(q) = Len(p) + Len(r) /\ Len(p) \in Nat /\ Len(r) \in Nat
      /\ \A k \in 1..Len(p) : q[k] = p[k]
      /\ \A k \in 1..Len(r) : q[Len(p) + k] = r[k]
  BY CatIs, SeqIs
<1> HIDE DEF q
<1>2. ASSUME NEW k \in 1..Len(q), IsInit(q[k]) PROVE k \in 1..Len(p) /\ q[k] = p[k]
  <2>1. CASE k \in 1..Len(p) BY <1>1, <2>1
  <2>2. CASE k \notin 1..Len(p)
    <3>1. k - Len(p) \in 1..Len(r) /\ k = Len(p) + (k - Len(p)) BY <1>1, <2>2
    <3>2. q[k] = r[k - Len(p)] BY <1>1, <3>1
    <3>3. ~IsInit(q[k]) BY <3>1, <3>2 DEF NoInit
    <3>4. QED BY <1>2, <3>3
  <2>3. QED BY <2>1, <2>2
<1>3. 1..Len(p) \subseteq 1..Len(q) BY <1>1
<1>4. ASSUME NEW b PROVE LoadsOf(q, b) = LoadsOf(p, b) /\ AllocatesOf(q, b) = AllocatesOf(p, b)
  <2>1. \A k : k \in LoadsOf(q, b) <=> k \in LoadsOf(p, b)
    BY <1>1, <1>2, <1>3 DEF LoadsOf, IsInit
  <2>2. \A k : k \in AllocatesOf(q, b) <=> k \in AllocatesOf(p, b)
    BY <1>1, <1>2, <1>3 DEF AllocatesOf, IsInit
  <2>3. QED BY <2>1, <2>2
<1>5. \A k \in 1..Len(p) : 1..k \subseteq 1..Len(p) BY <1>1
<1>6. QED BY <1>1, <1>2, <1>4, <1>5 DEF q

\* More room is asked for than is used.
LEMMA FitMore ==
  ASSUME NEW p, NEW b, NEW x \in Int, NEW y \in Int, x <= y, FitIn(p, b, x), LoadsOf(p, b) \subseteq Nat
  PROVE  FitIn(p, b, y)
<1>1. SUFFICES ASSUME NEW j \in LoadsOf(p, b), NEW k \in LoadsOf(p, b), j <= k
               PROVE  (k - j + 1) * Width(b) <= y
  BY DEF FitIn
<1>2. (k - j + 1) * Width(b) <= x BY <1>1 DEF FitIn
<1>3. (k - j + 1) * Width(b) \in Int BY Topology
<1>4. QED BY <1>2, <1>3

\* The code behind a storage flag is entered for the first time.
LEMMA StorageBlock ==
  ASSUME StorageInv, IsSeq(todo), todo # << >>, ~IsInit(Head(todo)),
         NEW f, f \notin done, NEW p, Block(model, f, p),
         todo' = p \o Tail(todo), done' = done \union {f}, size \in [Batch -> Nat],
         UNCHANGED <<model, size, ops, fresh>>
  PROVE  StorageInv'
<1> DEFINE r == Tail(todo)
           q == p \o r
<1>1. NoInit(todo) BY SettledNow
<1>2. IsSeq(r) /\ NoInit(r) /\ IsSeq(p) BY <1>1, NoInitTail, RestIs DEF Block
<1>3. /\ \A b : LoadsOf(q, b) = LoadsOf(p, b) /\ AllocatesOf(q, b) = AllocatesOf(p, b)
      /\ \A k \in 1..Len(q) : IsInit(q[k]) => k \in 1..Len(p) /\ q[k] = p[k]
      /\ \A k \in 1..Len(p) : q[k] = p[k]
      /\ \A k \in 1..Len(p) : 1..k \subseteq 1..Len(p)
  BY <1>2, BlockThen
<1>4. \A k \in 1..Len(p) : InitStepOK(model, p[k]) /\ FlagOf(p[k].b) = f BY DEF Block
<1>5. todo' = q OBVIOUS
<1> HIDE DEF q, r
<1>6. \A k \in 1..Len(q) : IsInit(q[k]) => \A j \in 1..k : IsInit(q[j])
  BY <1>3, <1>4 DEF InitStepOK
<1>7. \A k \in 1..Len(q) : IsInit(q[k]) => FlagOf(q[k].b) \in done'
  BY <1>3, <1>4
<1>8. ASSUME NEW b \in Batch
      PROVE  /\ Filling(model, q, b, ops[b], size[b])
             /\ FlagOf(b) \in done' /\ Uses(model, b) => ops[b] # << >> \/ LoadsOf(q, b) # {}
             /\ FlagOf(b) \notin done' => ops[b] = << >> /\ b \notin fresh
             /\ LoadsOf(q, b) # {} => b \notin fresh
             /\ WellLaid(model, b, ops[b])
             /\ Len(ops[b]) <= size[b]
  <2>1. /\ FlagOf(b) \in done /\ Uses(model, b) => ops[b] # << >> \/ LoadsOf(todo, b) # {}
        /\ FlagOf(b) \notin done => ops[b] = << >> /\ b \notin fresh
        /\ WellLaid(model, b, ops[b])
        /\ Len(ops[b]) <= size[b]
    BY DEF StorageInv
  <2>2. LoadsOf(todo, b) = {} BY <1>1, Settled
  <2>3. /\ Filling(model, p, b, << >>, 0)
        /\ FlagOf(b) = f /\ Uses(model, b) => LoadsOf(p, b) # {}
    BY DEF Block
  <2>4. CASE FlagOf(b) = f
    <3>1. ops[b] = << >> /\ b \notin fresh BY <2>1, <2>4
    <3> DEFINE none == << >>
    <3>2. Len(none) = 0 /\ size[b] \in Nat /\ DOMAIN none = {} OBVIOUS
    <3>3. ops[b] = none /\ Filling(model, p, b, none, 0) BY <2>3, <3>1
    <3> HIDE DEF none
    <3>4. LoadsOf(p, b) \subseteq Nat BY <1>2, SeqIs DEF LoadsOf
    <3>5. AllocatesOf(p, b) = {} => FitIn(p, b, 0) BY <3>2, <3>3 DEF Filling
    <3>6. AllocatesOf(p, b) = {} => FitIn(p, b, size[b] - Len(none)) BY <3>2, <3>4, <3>5, FitMore
    <3>7. \A k \in LoadsOf(p, b) : k \in 1..Len(p) BY DEF LoadsOf
    <3>8. \A k \in AllocatesOf(p, b) : k \in 1..Len(p) BY DEF AllocatesOf
    <3>9. \A x : FitIn(p, b, x) => FitIn(q, b, x) BY <1>3 DEF FitIn
    <3>10. Filling(model, q, b, none, size[b])
      <4>1. LoadsOf(q, b) = LoadsOf(p, b) /\ AllocatesOf(q, b) = AllocatesOf(p, b) BY <1>3
      <4>2. /\ \A j \in AllocatesOf(p, b) : q[j] = p[j]
            /\ \A j \in LoadsOf(p, b) : q[j] = p[j]
        BY <1>3, <3>7, <3>8
      <4>3. /\ \A i, j \in AllocatesOf(q, b) : i = j
            /\ \A i \in AllocatesOf(q, b) : none = << >> /\ \A k \in LoadsOf(q, b) : i < k
            /\ LoadsOf(q, b) # {} => AllReads(none)
        BY <3>3, <4>1 DEF Filling
      <4>4. \A i \in AllocatesOf(q, b) : FitIn(q, b, q[i].n)
        <5>1. \A i \in AllocatesOf(p, b) : FitIn(p, b, p[i].n) BY <3>3 DEF Filling
        <5>2. QED BY <3>9, <4>1, <4>2, <5>1
      <4>5. AllocatesOf(q, b) = {} => FitIn(q, b, size[b] - Len(none)) BY <3>6, <3>9, <4>1
      <4>6. \A j \in LoadsOf(q, b) : Address(model, q[j].msr) # Absent =>
              /\ \A k \in LoadsOf(q, b) : j # k => Address(model, q[k].msr) # Address(model, q[j].msr)
              /\ \A i \in DOMAIN none : none[i].msr # Address(model, q[j].msr)
        <5>1. \A j \in LoadsOf(p, b) : Address(model, p[j].msr) # Absent =>
                /\ \A k \in LoadsOf(p, b) : j # k => Address(model, p[k].msr) # Address(model, p[j].msr)
                /\ \A i \in DOMAIN none : none[i].msr # Address(model, p[j].msr)
          BY <3>3 DEF Filling
        <5>2. QED BY <4>1, <4>2, <5>1
      <4>7. QED BY ONLY <4>3, <4>4, <4>5, <4>6 DEF Filling
    <3>11. QED BY <1>3, <2>1, <2>3, <2>4, <3>1, <3>3, <3>10
  <2>5. CASE FlagOf(b) # f
    <3>1. LoadsOf(p, b) = {} /\ AllocatesOf(p, b) = {} BY <1>4, <2>5 DEF LoadsOf, AllocatesOf
    <3>2. LoadsOf(q, b) = {} /\ AllocatesOf(q, b) = {} BY <1>3, <3>1
    <3>3. Filling(model, q, b, ops[b], size[b]) BY <3>2 DEF Filling, FitIn
    <3>4. QED BY <2>1, <2>2, <2>5, <3>2, <3>3
  <2>6. QED BY <2>4, <2>5
<1>9. QED BY <1>5, <1>6, <1>7, <1>8 DEF StorageInv

\* The rest of a plan begins with the storage that is left, if the plan did.
LEMMA InitTail ==
  ASSUME StorageInv, IsSeq(todo), todo # << >>
  PROVE  /\ \A k \in 1..Len(Tail(todo)) : IsInit(Tail(todo)[k]) => \A j \in 1..k : IsInit(Tail(todo)[j])
         /\ \A k \in 1..Len(Tail(todo)) : IsInit(Tail(todo)[k]) => FlagOf(Tail(todo)[k].b) \in done
<1> DEFINE r == Tail(todo)
<1>1. Len(todo) \in Nat \ {0} /\ Len(r) = Len(todo) - 1 /\ \A k \in 1..Len(r) : r[k] = todo[k + 1]
  BY RestIs
<1> HIDE DEF r
<1>2. \A k \in 1..Len(r) : k + 1 \in 1..Len(todo) BY <1>1
<1>3. ASSUME NEW k \in 1..Len(r), IsInit(r[k]), NEW j \in 1..k PROVE IsInit(r[j])
  <2>1. IsInit(todo[k + 1]) /\ k + 1 \in 1..Len(todo) BY <1>1, <1>2, <1>3
  <2>2. j + 1 \in 1..(k + 1) /\ j \in 1..Len(r) BY <1>1
  <2>3. IsInit(todo[j + 1]) BY <2>1, <2>2 DEF StorageInv
  <2>4. QED BY <1>1, <2>2, <2>3
<1>4. ASSUME NEW k \in 1..Len(r), IsInit(r[k]) PROVE FlagOf(r[k].b) \in done
  BY <1>1, <1>2, <1>4 DEF StorageInv
<1>5. QED BY <1>3, <1>4 DEF r

\* calloc gives a batch room: there is nothing in it yet.
LEMMA StorageAllocate ==
  ASSUME StorageInv, IsSeq(todo), todo # << >>, InitStepOK(model, Head(todo)),
         Head(todo).do = "allocate", todo' = Tail(todo),
         size \in [Batch -> Nat], ops \in [Batch -> Seq(Operation)],
         allocate_batch(Head(todo).b, Head(todo).n),
         UNCHANGED <<model, done, fresh>>
  PROVE  StorageInv' /\ ops' = ops /\ ops[Head(todo).b] = << >>
<1> DEFINE s == Head(todo)
           r == Tail(todo)
<1>1. s = todo[1] /\ 1 \in 1..Len(todo) /\ Len(todo) \in Nat \ {0} /\ Len(r) = Len(todo) - 1
      /\ \A k \in 1..Len(r) : r[k] = todo[k + 1] /\ k + 1 \in 1..Len(todo)
  BY RestIs
<1>2. s.do = "allocate" /\ s.b \in Batch /\ s.n \in Nat BY DEF InitStepOK
<1>3. /\ size' = [size EXCEPT ![s.b] = s.n]
      /\ ops' = [ops EXCEPT ![s.b] = [i \in DOMAIN @ |-> NoOp]]
  BY DEF allocate_batch
<1>4. todo' = r OBVIOUS
<1>5. /\ \A k \in 1..Len(r) : IsInit(r[k]) => \A j \in 1..k : IsInit(r[j])
      /\ \A k \in 1..Len(r) : IsInit(r[k]) => FlagOf(r[k].b) \in done
  BY InitTail
<1>6. \A b \in Batch :
       /\ Filling(model, todo, b, ops[b], size[b])
       /\ FlagOf(b) \in done /\ Uses(model, b) => ops[b] # << >> \/ LoadsOf(todo, b) # {}
       /\ FlagOf(b) \notin done => ops[b] = << >> /\ b \notin fresh
       /\ LoadsOf(todo, b) # {} => b \notin fresh
       /\ WellLaid(model, b, ops[b])
       /\ Len(ops[b]) <= size[b]
  BY DEF StorageInv
<1> HIDE DEF s, r
<1>7. 1 \in AllocatesOf(todo, s.b) BY <1>1, <1>2 DEF AllocatesOf
<1>8. ops[s.b] = << >> /\ FitIn(todo, s.b, s.n) /\ (\A k \in LoadsOf(todo, s.b) : 1 < k)
      /\ \A k \in AllocatesOf(todo, s.b) : k = 1
  <2>1. Filling(model, todo, s.b, ops[s.b], size[s.b]) BY <1>2, <1>6
  <2>2. ops[s.b] = << >> /\ FitIn(todo, s.b, todo[1].n) /\ \A k \in LoadsOf(todo, s.b) : 1 < k
    BY <1>7, <2>1 DEF Filling
  <2>3. \A k \in AllocatesOf(todo, s.b) : k = 1 BY <1>7, <2>1 DEF Filling
  <2>4. QED BY <1>1, <2>2, <2>3
<1>9. ops' = ops
  <2>1. [i \in DOMAIN ops[s.b] |-> NoOp] = << >> BY <1>8
  <2>2. QED BY <1>3, <1>8, <2>1
<1>10. /\ \A k : k \in LoadsOf(r, s.b) => k \in Nat /\ k + 1 \in LoadsOf(todo, s.b) /\ todo[k + 1] = r[k]
       /\ \A k \in LoadsOf(todo, s.b) : k - 1 \in LoadsOf(r, s.b)
  <2>1. \A k : k \in LoadsOf(r, s.b) => k \in Nat /\ k + 1 \in LoadsOf(todo, s.b) /\ todo[k + 1] = r[k]
    BY <1>1 DEF LoadsOf
  <2>2. ASSUME NEW k \in LoadsOf(todo, s.b) PROVE k - 1 \in LoadsOf(r, s.b)
    <3>1. k # 1 /\ k \in 1..Len(todo) BY <1>8 DEF LoadsOf
    <3>2. k - 1 \in 1..Len(r) /\ k = (k - 1) + 1 BY <1>1, <3>1
    <3>3. r[k - 1] = todo[k] BY <1>1, <3>2
    <3>4. QED BY <3>2, <3>3 DEF LoadsOf
  <2>3. QED BY <2>1, <2>2
<1>11. AllocatesOf(r, s.b) = {}
  <2>1. SUFFICES ASSUME NEW k \in AllocatesOf(r, s.b) PROVE FALSE OBVIOUS
  <2>2. k \in 1..Len(r) /\ k + 1 \in AllocatesOf(todo, s.b) BY <1>1 DEF AllocatesOf
  <2>3. QED BY <1>8, <2>2
<1>12. Filling(model, r, s.b, ops[s.b], s.n)
  <2>1. FitIn(r, s.b, s.n)
    <3>1. SUFFICES ASSUME NEW j \in LoadsOf(r, s.b), NEW k \in LoadsOf(r, s.b), j <= k
                   PROVE  (k - j + 1) * Width(s.b) <= s.n
      BY DEF FitIn
    <3>2. ((k + 1) - (j + 1) + 1) * Width(s.b) <= s.n BY <1>8, <1>10, <3>1 DEF FitIn
    <3>3. (k + 1) - (j + 1) + 1 = k - j + 1 BY <1>10
    <3>4. QED BY <3>2, <3>3
  <2>2. s.n - Len(ops[s.b]) = s.n /\ DOMAIN ops[s.b] = {} BY <1>2, <1>8
  <2>3. ASSUME NEW j \in LoadsOf(r, s.b), NEW k \in LoadsOf(r, s.b), j # k,
               Address(model, r[j].msr) # Absent
        PROVE  Address(model, r[k].msr) # Address(model, r[j].msr)
    <3>1. Filling(model, todo, s.b, ops[s.b], size[s.b]) BY <1>2, <1>6
    <3>2. j + 1 \in LoadsOf(todo, s.b) /\ k + 1 \in LoadsOf(todo, s.b) /\ j + 1 # k + 1
          /\ todo[j + 1] = r[j] /\ todo[k + 1] = r[k]
      BY <1>10, <2>3
    <3>3. Address(model, todo[j + 1].msr) # Absent BY <2>3, <3>2
    <3>4. QED BY <3>1, <3>2, <3>3 DEF Filling
  <2>4. QED BY <1>11, <2>1, <2>2, <2>3 DEF Filling, AllReads
<1>13. ASSUME NEW b \in Batch
       PROVE  /\ Filling(model, r, b, ops'[b], size'[b])
              /\ FlagOf(b) \in done /\ Uses(model, b) => ops'[b] # << >> \/ LoadsOf(r, b) # {}
              /\ FlagOf(b) \notin done => ops'[b] = << >> /\ b \notin fresh
              /\ LoadsOf(r, b) # {} => b \notin fresh
              /\ WellLaid(model, b, ops'[b])
              /\ Len(ops'[b]) <= size'[b]
  <2>1. CASE b = s.b
    <3>1. size'[b] = s.n BY <1>3, <2>1
    <3>2. Len(ops[b]) <= s.n BY <1>2, <1>8, <2>1
    <3>3. LoadsOf(r, b) # {} <=> LoadsOf(todo, b) # {} BY <1>10, <2>1
    <3>4. QED BY <1>6, <1>9, <1>12, <2>1, <3>1, <3>2, <3>3
  <2>2. CASE b # s.b
    <3>1. size'[b] = size[b] BY <1>3, <2>2
    <3>2. todo[1].b # b BY <1>1, <2>2
    <3>3. Filling(model, r, b, ops[b], size[b]) /\ (LoadsOf(todo, b) # {} <=> LoadsOf(r, b) # {})
      BY <1>6, <3>2, FillShift DEF r
    <3>4. QED BY <1>6, <1>9, <3>1, <3>3
  <2>3. QED BY <2>1, <2>2
<1>14. StorageInv' BY <1>4, <1>5, <1>13 DEF StorageInv
<1>15. QED BY <1>8, <1>9, <1>14 DEF s

\* The loads of a register fit in what is left, one operation per processor.
LEMMA LoadFits ==
  ASSUME NEW m, NEW p, IsSeq(p), p # << >>, NEW o, NEW n \in Nat, Len(o) \in Nat, Len(o) <= n,
         p[1].do = "load", Filling(m, p, p[1].b, o, n)
  PROVE  LET b == p[1].b
             w == Width(b)
             a == Address(m, p[1].msr)
         IN /\ Len(o) + w <= n
            /\ AllocatesOf(p, b) = {} /\ 1 \in LoadsOf(p, b)
            /\ AllReads(o)
            /\ a # Absent => \A i \in DOMAIN o : o[i].msr # a
            /\ \A o2 : /\ Len(o2) = Len(o) + w
                       /\ AllReads(o2)
                       /\ \A i \in DOMAIN o2 : (i \in DOMAIN o /\ o2[i] = o[i]) \/ o2[i].msr = a
                       => Filling(m, Tail(p), b, o2, n)
<1> DEFINE b == p[1].b
           w == Width(b)
           a == Address(m, p[1].msr)
           r == Tail(p)
<1>1. Len(p) \in Nat \ {0} /\ Len(r) = Len(p) - 1
      /\ \A k \in 1..Len(r) : r[k] = p[k + 1] /\ k + 1 \in 1..Len(p)
  BY RestIs
<1>2. p[1].b = b /\ p[1].do = "load" /\ Filling(m, p, b, o, n) /\ Address(m, p[1].msr) = a OBVIOUS
<1>3. w \in Nat \ {0} /\ w = Width(b) BY Topology
<1> HIDE DEF b, w, a, r
<1>4. 1 \in LoadsOf(p, b) BY <1>1, <1>2 DEF LoadsOf
<1>5. AllocatesOf(p, b) = {}
  <2>1. SUFFICES ASSUME NEW i \in AllocatesOf(p, b) PROVE FALSE OBVIOUS
  <2>2. i \in 1..Len(p) BY DEF AllocatesOf
  <2>3. i < 1 BY <1>2, <1>4, <2>1 DEF Filling
  <2>4. QED BY <1>1, <2>2, <2>3
<1>6. FitIn(p, b, n - Len(o)) BY <1>2, <1>5 DEF Filling
<1>7. \A k : k \in LoadsOf(r, b) => k \in Nat \ {0} /\ k + 1 \in LoadsOf(p, b) /\ p[k + 1] = r[k]
  BY <1>1 DEF LoadsOf
<1>8. Len(o) + w <= n
  <2>1. (1 - 1 + 1) * Width(b) <= n - Len(o) BY <1>4, <1>6 DEF FitIn
  <2>2. (1 - 1 + 1) * Width(b) = w BY <1>3
  <2>3. QED BY <1>3, <2>1, <2>2
<1>9. AllReads(o)
  <2>1. LoadsOf(p, b) # {} BY <1>4
  <2>2. QED BY <1>2, <2>1 DEF Filling
<1>10. a # Absent => \A i \in DOMAIN o : o[i].msr # a BY <1>2, <1>4 DEF Filling
<1>11. AllocatesOf(r, b) = {}
  <2>1. SUFFICES ASSUME NEW k \in AllocatesOf(r, b) PROVE FALSE OBVIOUS
  <2>2. k + 1 \in AllocatesOf(p, b) BY <1>1 DEF AllocatesOf
  <2>3. QED BY <1>5, <2>2
<1>12. ASSUME NEW o2, Len(o2) = Len(o) + w, AllReads(o2),
              \A i \in DOMAIN o2 : (i \in DOMAIN o /\ o2[i] = o[i]) \/ o2[i].msr = a
       PROVE  Filling(m, r, b, o2, n)
  <2>1. FitIn(r, b, n - Len(o2))
    <3>1. SUFFICES ASSUME NEW j \in LoadsOf(r, b), NEW k \in LoadsOf(r, b), j <= k
                   PROVE  (k - j + 1) * Width(b) <= n - Len(o2)
      BY DEF FitIn
    <3>2. j \in Nat \ {0} /\ k \in Nat \ {0} /\ k + 1 \in LoadsOf(p, b) BY <1>7
    <3>3. ((k + 1) - 1 + 1) * Width(b) <= n - Len(o)
      <4>1. 1 <= k + 1 BY <3>2
      <4>2. QED BY <1>4, <1>6, <3>2, <4>1 DEF FitIn
    <3>4. (k + 1) - 1 + 1 = k + 1 /\ k - j + 2 \in Nat /\ k - j + 2 <= k + 1 BY <3>1, <3>2
    <3>5. (k - j + 2) * w <= (k + 1) * w BY <1>3, <3>2, <3>4, TimesMonotone
    <3>6. (k - j + 2) * w = (k - j + 1) * w + w BY <1>3, <3>2
    <3>7. (k - j + 1) * w \in Int /\ (k + 1) * w \in Int BY <1>3, <3>2
    <3>8. (k + 1) * w <= n - Len(o) BY <1>3, <3>3, <3>4
    <3>9. QED BY <1>3, <1>12, <3>5, <3>6, <3>7, <3>8
  <2>2. ASSUME NEW j \in LoadsOf(r, b), Address(m, r[j].msr) # Absent
        PROVE  /\ \A k \in LoadsOf(r, b) : j # k => Address(m, r[k].msr) # Address(m, r[j].msr)
               /\ \A i \in DOMAIN o2 : o2[i].msr # Address(m, r[j].msr)
    <3>1. j + 1 \in LoadsOf(p, b) /\ p[j + 1] = r[j] /\ j \in Nat \ {0} BY <1>7
    <3>2. Address(m, p[j + 1].msr) # Absent BY <2>2, <3>1
    <3>3. /\ \A k \in LoadsOf(p, b) : j + 1 # k => Address(m, p[k].msr) # Address(m, p[j + 1].msr)
          /\ \A i \in DOMAIN o : o[i].msr # Address(m, p[j + 1].msr)
      BY <1>2, <3>1, <3>2 DEF Filling
    <3>4. j + 1 # 1 BY <3>1
    <3>5. a # Address(m, p[j + 1].msr) BY <1>2, <1>4, <3>3, <3>4
    <3>6. \A i \in DOMAIN o2 : o2[i].msr # Address(m, r[j].msr) BY <1>12, <3>1, <3>3, <3>5
    <3>7. \A k \in LoadsOf(r, b) : j # k => Address(m, r[k].msr) # Address(m, r[j].msr)
      BY <1>7, <3>1, <3>3
    <3>8. QED BY <3>6, <3>7
  <2>3. QED BY <1>11, <1>12, <2>1, <2>2 DEF Filling
<1>13. QED BY <1>4, <1>5, <1>8, <1>9, <1>10, <1>12 DEF a, w, b, r

\* A register is loaded on every processor: there is room for all of them.
LEMMA StorageLoad ==
  ASSUME StorageInv, IsSeq(todo), todo # << >>, InitStepOK(model, Head(todo)),
         Head(todo).do = "load", todo' = Tail(todo),
         size \in [Batch -> Nat], ops \in [Batch -> Seq(Operation)],
         load_batch(Head(todo).b, Address(model, Head(todo).msr), Head(todo).cpus),
         UNCHANGED <<model, done, fresh>>
  PROVE  LET b == Head(todo).b
         IN /\ StorageInv' /\ b \in Batch
            /\ ops' = [ops EXCEPT ![b] = ops'[b]] /\ ops'[b] \in Seq(Operation)
            /\ Len(ops'[b]) = Len(ops[b]) + Width(b)
            /\ data' = [data EXCEPT ![b] = @ \o [i \in 1..Width(b) |-> "zero"]]
<1> DEFINE s == Head(todo)
           r == Tail(todo)
           b == s.b
           w == Width(b)
           a == Address(model, s.msr)
           n == IF Len(s.cpus) <= Room(b) THEN Len(s.cpus) ELSE IF Room(b) < 0 THEN 0 ELSE Room(b)
           new == ops[b] \o [i \in 1..n |-> Op(a, s.cpus[i])]
<1>1. s = todo[1] /\ s.do = "load" /\ b \in Batch /\ s.cpus = CpusOf(b) /\ Belongs(model, b, a)
  BY RestIs DEF InitStepOK
<1>2. /\ ops' = [ops EXCEPT ![b] = new]
      /\ data' = [data EXCEPT ![b] = @ \o [i \in 1..n |-> "zero"]]
      /\ UNCHANGED size
  BY DEF load_batch
<1>3. n = IF Len(s.cpus) <= Room(b) THEN Len(s.cpus) ELSE IF Room(b) < 0 THEN 0 ELSE Room(b) OBVIOUS
<1>4. todo' = r OBVIOUS
<1>5. /\ \A k \in 1..Len(r) : IsInit(r[k]) => \A j \in 1..k : IsInit(r[j])
      /\ \A k \in 1..Len(r) : IsInit(r[k]) => FlagOf(r[k].b) \in done
  BY InitTail
<1>6. \A c \in Batch :
       /\ Filling(model, todo, c, ops[c], size[c])
       /\ FlagOf(c) \in done /\ Uses(model, c) => ops[c] # << >> \/ LoadsOf(todo, c) # {}
       /\ FlagOf(c) \notin done => ops[c] = << >> /\ c \notin fresh
       /\ LoadsOf(todo, c) # {} => c \notin fresh
       /\ WellLaid(model, c, ops[c])
       /\ Len(ops[c]) <= size[c]
  BY DEF StorageInv
<1>7. w \in Nat \ {0} /\ Len(CpusOf(b)) = w BY Topology, CpusAre
<1>8. new = ops[b] \o [i \in 1..n |-> Op(a, s.cpus[i])] OBVIOUS
<1>9. w = Width(b) /\ a = Address(model, todo[1].msr) BY <1>1
<1>10. r = Tail(todo) OBVIOUS
<1>11. s.b = b /\ todo[1].b = b BY <1>1
<1> HIDE DEF s, r, b, w, a, n, new
<1>12. size[b] \in Nat /\ Len(ops[b]) \in Nat /\ Len(ops[b]) <= size[b] /\ WellLaid(model, b, ops[b])
       /\ Filling(model, todo, b, ops[b], size[b])
  BY <1>1, <1>6
<1>13. /\ Len(ops[b]) + w <= size[b]
       /\ 1 \in LoadsOf(todo, b)
       /\ AllReads(ops[b])
       /\ a # Absent => \A i \in DOMAIN ops[b] : ops[b][i].msr # a
       /\ \A o2 : /\ Len(o2) = Len(ops[b]) + w
                  /\ AllReads(o2)
                  /\ \A i \in DOMAIN o2 : (i \in DOMAIN ops[b] /\ o2[i] = ops[b][i]) \/ o2[i].msr = a
                  => Filling(model, r, b, o2, size[b])
  <2>1. todo[1].do = "load" BY <1>1
  <2>2. Filling(model, todo, todo[1].b, ops[b], size[b]) BY <1>11, <1>12
  <2> DEFINE o == ops[b]
             room == size[b]
  <2>3. room \in Nat /\ Len(o) \in Nat /\ Len(o) <= room /\ Filling(model, todo, todo[1].b, o, room)
    BY <1>12, <2>2
  <2> HIDE DEF o, room
  <2>4. /\ Len(o) + Width(todo[1].b) <= room
        /\ 1 \in LoadsOf(todo, todo[1].b)
        /\ AllReads(o)
        /\ Address(model, todo[1].msr) # Absent
             => \A i \in DOMAIN o : o[i].msr # Address(model, todo[1].msr)
        /\ \A o2 : /\ Len(o2) = Len(o) + Width(todo[1].b)
                   /\ AllReads(o2)
                   /\ \A i \in DOMAIN o2 : \/ i \in DOMAIN o /\ o2[i] = o[i]
                                           \/ o2[i].msr = Address(model, todo[1].msr)
                   => Filling(model, Tail(todo), todo[1].b, o2, room)
    BY <2>1, <2>3, LoadFits
  <2>5. QED BY <1>9, <1>10, <1>11, <2>4 DEF o, room
<1>14. n = w
  <2>1. Room(b) = size[b] + 1 - Len(ops[b]) BY DEF Room
  <2>2. Len(s.cpus) = w BY <1>1, <1>7
  <2>3. w <= Room(b) BY <1>7, <1>12, <1>13, <2>1
  <2>4. QED BY <1>3, <2>2, <2>3
<1>15. new = ops[b] \o [i \in 1..Width(b) |-> Op(a, CpusOf(b)[i])] BY <1>1, <1>8, <1>9, <1>14
<1>16. /\ WellLaid(model, b, new) /\ Len(new) = Len(ops[b]) + Width(b)
       /\ AllReads(new)
       /\ \A i \in DOMAIN new : (i \in DOMAIN ops[b] /\ new[i] = ops[b][i]) \/ new[i].msr = a
  <2> DEFINE o == ops[b]
             o2 == o \o LoadOps(b, a)
  <2>1. /\ WellLaid(model, b, o) /\ AllReads(o)
    BY <1>12, <1>13
  <2>2. Belongs(model, b, a) /\ (a # Absent => \A i \in DOMAIN o : o[i].msr # a) BY <1>1, <1>13
  <2>3. new = o2 BY <1>15 DEF LoadOps
  <2> HIDE DEF o
  <2>6. WellLaid(model, b, o) BY <2>1
  <2>7. AllReads(o) BY <2>1
  <2>8. Belongs(model, b, a) BY <2>2
  <2>9. a # Absent => \A i \in DOMAIN o : o[i].msr # a BY <2>2
  <2>4. /\ WellLaid(model, b, o2) /\ Len(o2) = Len(o) + Width(b)
        /\ AllReads(o2)
        /\ \A i \in DOMAIN o2 : (i \in DOMAIN o /\ o2[i] = o[i]) \/ o2[i].msr = a
    BY ONLY <2>6, <2>7, <2>8, <2>9, Loaded
  <2> HIDE DEF o2
  <2>5. QED BY <2>3, <2>4 DEF o
<1>17. Filling(model, r, b, new, size[b]) BY <1>9, <1>13, <1>16
<1>18. new \in Seq(Operation) /\ new # << >>
  <2>1. new \in Seq(Operation) BY <1>16, WellLaidIs
  <2>2. Len(new) # 0 BY <1>7, <1>9, <1>12, <1>16
  <2>3. QED BY <2>1, <2>2
<1>19. FlagOf(b) \in done /\ b \notin fresh
  <2>1. 1 \in 1..Len(todo) /\ IsInit(todo[1]) BY <1>1, RestIs DEF IsInit
  <2>2. FlagOf(b) \in done BY <1>11, <2>1 DEF StorageInv
  <2>3. QED BY <1>1, <1>6, <1>13, <2>2
<1>20. ops'[b] = new /\ \A c \in Batch : c # b => ops'[c] = ops[c] BY <1>1, <1>2
<1>21. ASSUME NEW c \in Batch
       PROVE  /\ Filling(model, r, c, ops'[c], size[c])
              /\ FlagOf(c) \in done /\ Uses(model, c) => ops'[c] # << >> \/ LoadsOf(r, c) # {}
              /\ FlagOf(c) \notin done => ops'[c] = << >> /\ c \notin fresh
              /\ LoadsOf(r, c) # {} => c \notin fresh
              /\ WellLaid(model, c, ops'[c])
              /\ Len(ops'[c]) <= size[c]
  <2>1. CASE c = b
    <3>1. Len(new) <= size[b] BY <1>9, <1>13, <1>16
    <3>2. QED BY <1>16, <1>17, <1>18, <1>19, <1>20, <2>1, <3>1
  <2>2. CASE c # b
    <3>1. todo[1].b # c BY <1>11, <2>2
    <3>2. Filling(model, r, c, ops[c], size[c]) /\ (LoadsOf(todo, c) # {} <=> LoadsOf(r, c) # {})
      BY <1>6, <1>10, <3>1, FillShift
    <3>3. QED BY <1>6, <1>20, <2>2, <3>2
  <2>3. QED BY <2>1, <2>2
<1>22. StorageInv' BY <1>2, <1>4, <1>5, <1>21 DEF StorageInv
<1>23. ops' = [ops EXCEPT ![b] = ops'[b]] BY <1>2, <1>20
<1>24. data' = [data EXCEPT ![b] = @ \o [i \in 1..Width(b) |-> "zero"]] BY <1>2, <1>9, <1>14
<1>25. QED BY <1>1, <1>16, <1>18, <1>20, <1>22, <1>23, <1>24 DEF b, s

-----------------------------------------------------------------------------
\* Transfers.

\* There is a last one of some places: what CHOOSE picks in Transfer.
LEMMA MaxIs ==
  ASSUME NEW n \in Nat, NEW P, P \subseteq 1..n, P # {}
  PROVE  \E i \in P : \A j \in P : j <= i
<1> DEFINE D == {n - i : i \in P}
           less == OpToRel(<, Nat)
<1>0. \A i \in P : n - i \in Nat OBVIOUS
<1>1. D \subseteq Nat /\ D # {} BY <1>0
<1>2. IsWellFoundedOn(less, Nat) BY NatLessThanWellFounded
<1>3. \A x, y \in Nat : <<y, x>> \in less <=> y < x BY DEF OpToRel
<1> HIDE DEF less, D
<1>4. PICK d \in D : \A y \in D : ~(<<y, d>> \in less) BY <1>1, <1>2, WFMin
<1>5. \A y \in D : ~(y < d) BY <1>1, <1>3, <1>4
<1>6. PICK i \in P : d = n - i BY <1>4 DEF D
<1>7. \A j \in P : n - j \in D BY DEF D
<1>8. \A j \in P : j <= i BY <1>5, <1>6, <1>7
<1>9. QED BY <1>6, <1>8

\* The device transfers every operation of a batch in the direction asked for.
LEMMA Directions ==
  ASSUME NEW m, NEW b, NEW o, WellLaid(m, b, o), o # << >>, NEW up \in BOOLEAN
  PROVE  LET switch == Len(o) > 0 /\ o[1].isrdmsr # up
         IN \A i \in DOMAIN o : (IF switch THEN up ELSE o[i].isrdmsr) = up
<1>1. o \in Seq(Operation) /\ DOMAIN o = 1..Len(o) /\ Len(o) \in Nat
      /\ \A i, j \in DOMAIN o : o[i].isrdmsr = o[j].isrdmsr
  BY WellLaidIs
<1>2. Len(o) # 0 BY <1>1
<1>3. Len(o) > 0 /\ 1 \in DOMAIN o BY <1>1, <1>2
<1>4. CASE o[1].isrdmsr # up BY <1>3, <1>4
<1>5. CASE o[1].isrdmsr = up
  <2>1. \A i \in DOMAIN o : o[i].isrdmsr = up BY <1>1, <1>3, <1>5
  <2>2. QED BY <1>5, <2>1
<1>6. QED BY <1>4, <1>5

\* What is read.
LEMMA TransferIn ==
  ASSUME NEW b \in Batch, NEW rd, NEW S, Transfer(b, rd, S), \A i \in DOMAIN ops[b] : rd[i],
         reg \in [Written -> [Cpu -> Tag]], data \in [Batch -> Seq(Tag)],
         ops \in [Batch -> Seq(Operation)], Len(data[b]) = Len(ops[b])
  PROVE  /\ reg' = reg
         /\ data' = [data EXCEPT ![b] = data'[b]]
         /\ DOMAIN data'[b] = DOMAIN ops[b]
         /\ \A i \in DOMAIN ops[b] :
              data'[b][i] = IF ops[b][i].cpu \notin S THEN Value(ops[b][i].msr, ops[b][i].cpu)
                            ELSE data[b][i]
         /\ data'[b] \in Seq(Tag) /\ Len(data'[b]) = Len(ops[b])
<1> DEFINE reach == Reached(b, rd, S)
           new == [i \in DOMAIN data[b] |->
                     IF i \in reach /\ rd[i] THEN Value(ops[b][i].msr, ops[b][i].cpu) ELSE data[b][i]]
<1>1. \A i : i \in reach <=> i \in DOMAIN ops[b] /\ ops[b][i].cpu \notin S BY DEF Reached
<1>2. data' = [data EXCEPT ![b] = new] BY DEF Transfer
<1>3. reg' = [msr \in Written |-> [c \in Cpu |->
                IF {i \in reach : ~rd[i] /\ ops[b][i].msr = msr /\ ops[b][i].cpu = c} = {}
                THEN reg[msr][c]
                ELSE data[b][CHOOSE i \in {i \in reach : ~rd[i] /\ ops[b][i].msr = msr /\ ops[b][i].cpu = c} :
                               \A j \in {k \in reach : ~rd[k] /\ ops[b][k].msr = msr /\ ops[b][k].cpu = c} :
                                 j <= i]]]
  BY DEF Transfer
<1>4. \A msr, c : {i \in reach : ~rd[i] /\ ops[b][i].msr = msr /\ ops[b][i].cpu = c} = {}
  BY <1>1
<1>5. reg' = [msr \in Written |-> [c \in Cpu |-> reg[msr][c]]] BY <1>3, <1>4
<1>6. reg' = reg BY <1>5
<1>7. /\ DOMAIN data[b] = 1..Len(data[b]) /\ DOMAIN ops[b] = 1..Len(ops[b])
      /\ Len(data[b]) \in Nat /\ ops[b] \in Seq(Operation)
  OBVIOUS
<1>8. data'[b] = new BY <1>2
<1> HIDE DEF reach
<1>9. \A i \in DOMAIN ops[b] :
        new[i] = IF ops[b][i].cpu \notin S THEN Value(ops[b][i].msr, ops[b][i].cpu) ELSE data[b][i]
  BY <1>1, <1>7
<1>10. \A i \in DOMAIN ops[b] : Value(ops[b][i].msr, ops[b][i].cpu) \in Tag
  <2>1. SUFFICES ASSUME NEW i \in DOMAIN ops[b] PROVE Value(ops[b][i].msr, ops[b][i].cpu) \in Tag
    OBVIOUS
  <2>2. ops[b][i].cpu \in Cpu
    <3>1. ops[b][i] \in Operation BY <1>7
    <3>2. QED BY <3>1 DEF Operation
  <2>3. QED BY <2>2 DEF Value, Tag
<1>11. \A i \in DOMAIN ops[b] : data[b][i] \in Tag BY <1>7
<1>12. DOMAIN new = 1..Len(ops[b]) /\ \A i \in DOMAIN ops[b] : new[i] \in Tag BY <1>7, <1>9, <1>10, <1>11
<1>13. new \in [1..Len(ops[b]) -> Tag] BY <1>7, <1>12
<1>14. new \in Seq(Tag) /\ Len(new) = Len(ops[b]) BY <1>7, <1>13
<1> HIDE DEF new
<1>15. data' = [data EXCEPT ![b] = data'[b]] BY <1>2, <1>8
<1>16. QED BY <1>6, <1>7, <1>8, <1>9, <1>12, <1>14, <1>15

\* What is written: to each register, the last operation on it, if one reached it.
LEMMA TransferOut ==
  ASSUME NEW b \in Batch, NEW rd, NEW S, Transfer(b, rd, S), \A i \in DOMAIN ops[b] : ~rd[i],
         reg \in [Written -> [Cpu -> Tag]], data \in [Batch -> Seq(Tag)],
         ops \in [Batch -> Seq(Operation)], Len(data[b]) = Len(ops[b])
  PROVE  /\ data' = data
         /\ reg' \in [Written -> [Cpu -> Tag]]
         /\ \A msr \in Written, c \in Cpu :
              \/ reg'[msr][c] = reg[msr][c]
              \/ \E i \in DOMAIN ops[b] : /\ ops[b][i].msr = msr /\ ops[b][i].cpu = c
                                          /\ reg'[msr][c] = data[b][i]
<1> DEFINE reach == Reached(b, rd, S)
           Writer(msr, c) == {i \in reach : ~rd[i] /\ ops[b][i].msr = msr /\ ops[b][i].cpu = c}
           last(msr, c) == CHOOSE i \in Writer(msr, c) : \A j \in Writer(msr, c) : j <= i
           new == [msr \in Written |-> [c \in Cpu |->
                     IF Writer(msr, c) = {} THEN reg[msr][c] ELSE data[b][last(msr, c)]]]
<1>1. data' = [data EXCEPT ![b] = [i \in DOMAIN data[b] |->
                 IF i \in reach /\ rd[i] THEN Value(ops[b][i].msr, ops[b][i].cpu) ELSE data[b][i]]]
  BY DEF Transfer
<1>2. reg' = new BY DEF Transfer
<1>3. reach \subseteq DOMAIN ops[b] BY DEF Reached
<1>4. /\ DOMAIN data[b] = 1..Len(data[b]) /\ DOMAIN ops[b] = 1..Len(ops[b])
      /\ Len(ops[b]) \in Nat /\ data[b] \in Seq(Tag)
  OBVIOUS
<1> HIDE DEF reach
<1>5. data' = data
  <2>1. [i \in DOMAIN data[b] |->
           IF i \in reach /\ rd[i] THEN Value(ops[b][i].msr, ops[b][i].cpu) ELSE data[b][i]] = data[b]
    BY <1>3, <1>4
  <2>2. QED BY <1>1, <2>1
<1>6. ASSUME NEW msr \in Written, NEW c \in Cpu, Writer(msr, c) # {}
      PROVE  /\ last(msr, c) \in DOMAIN ops[b] /\ ops[b][last(msr, c)].msr = msr
             /\ ops[b][last(msr, c)].cpu = c
  <2> DEFINE P == Writer(msr, c)
  <2>1. P \subseteq 1..Len(ops[b]) BY <1>3, <1>4
  <2>2. \A i \in P : i \in DOMAIN ops[b] /\ ops[b][i].msr = msr /\ ops[b][i].cpu = c BY <1>3
  <2>3. P # {} BY <1>6
  <2>4. last(msr, c) = CHOOSE i \in P : \A j \in P : j <= i OBVIOUS
  <2> HIDE DEF P
  <2>5. \E i \in P : \A j \in P : j <= i BY <1>4, <2>1, <2>3, MaxIs
  <2>6. (CHOOSE i \in P : \A j \in P : j <= i) \in P BY <2>5
  <2>7. QED BY <2>2, <2>4, <2>6
<1>7. ASSUME NEW msr \in Written, NEW c \in Cpu
      PROVE  /\ new[msr][c] \in Tag
             /\ \/ new[msr][c] = reg[msr][c]
                \/ \E i \in DOMAIN ops[b] : /\ ops[b][i].msr = msr /\ ops[b][i].cpu = c
                                            /\ new[msr][c] = data[b][i]
  <2>1. new[msr][c] = IF Writer(msr, c) = {} THEN reg[msr][c] ELSE data[b][last(msr, c)] OBVIOUS
  <2>2. CASE Writer(msr, c) = {}
    <3>1. reg[msr][c] \in Tag OBVIOUS
    <3>2. QED BY <2>1, <2>2, <3>1
  <2>3. CASE Writer(msr, c) # {}
    <3> HIDE DEF Writer, last, new
    <3>1. /\ last(msr, c) \in DOMAIN ops[b] /\ ops[b][last(msr, c)].msr = msr
          /\ ops[b][last(msr, c)].cpu = c
      BY <1>6, <2>3
    <3>2. new[msr][c] = data[b][last(msr, c)] BY <2>1, <2>3
    <3>3. data[b][last(msr, c)] \in Tag BY <1>4, <3>1
    <3>4. QED BY <3>1, <3>2, <3>3
  <2>4. QED BY <2>2, <2>3
<1>8. new = [msr \in Written |-> [c \in Cpu |-> new[msr][c]]] OBVIOUS
<1> HIDE DEF new
<1>9. new \in [Written -> [Cpu -> Tag]] BY <1>7, <1>8
<1>10. QED BY <1>2, <1>5, <1>7, <1>9

\* do_batch_op, with the device and without it: one direction, for all operations.
LEMMA OneDirection ==
  ASSUME NEW b \in Batch, NEW type \in {"read", "write"}, NEW S, do_batch_op(b, type, S),
         NEW m, WellLaid(m, b, ops[b]), ops[b] # << >>, ops \in [Batch -> Seq(Operation)]
  PROVE  /\ size' = size /\ batchfd' \in {-1, 1} /\ (batchfd = -1 => batchfd' = -1)
         /\ \E rd : Transfer(b, rd, S) /\ \A i \in DOMAIN ops[b] : rd[i] = (type = "read")
         /\ ops' = [ops EXCEPT ![b] = ops'[b]]
         /\ WellLaid(m, b, ops'[b]) /\ Len(ops'[b]) = Len(ops[b])
         /\ \A i \in DOMAIN ops[b] : ops'[b][i].msr = ops[b][i].msr /\ ops'[b][i].cpu = ops[b][i].cpu
<1>1. PICK fd \in {-1, 1} :
        /\ OpenBatch(fd) /\ batchfd' = fd
        /\ fd = -1 => compatibility_batch(b, type, S)
        /\ fd # -1 => ioctl_batch(b, type, S)
  BY DEF do_batch_op
<1>2. batchfd' \in {-1, 1} /\ (batchfd = -1 => batchfd' = -1) BY <1>1 DEF OpenBatch
<1>3. CASE fd = -1
  <2> DEFINE rd == [i \in DOMAIN ops[b] |-> type = "read"]
  <2>1. Transfer(b, rd, S) /\ UNCHANGED <<size, ops>> BY <1>1, <1>3 DEF compatibility_batch
  <2>2. \A i \in DOMAIN ops[b] : rd[i] = (type = "read") OBVIOUS
  <2> HIDE DEF rd
  <2>3. ops' = [ops EXCEPT ![b] = ops'[b]] BY <2>1
  <2>4. \E r : Transfer(b, r, S) /\ \A i \in DOMAIN ops[b] : r[i] = (type = "read") BY <2>1, <2>2
  <2>5. QED BY <1>2, <2>1, <2>3, <2>4
<1>4. CASE fd # -1
  <2> DEFINE o == ops[b]
             up == type = "read"
             switch == Len(o) > 0 /\ o[1].isrdmsr # up
             rd == [i \in DOMAIN o |-> IF switch THEN up ELSE o[i].isrdmsr]
             new == TurnedOps(o, rd)
  <2>1. /\ Transfer(b, rd, S) /\ UNCHANGED size
        /\ ops' = [ops EXCEPT ![b] = new]
    BY <1>1, <1>4 DEF ioctl_batch, TurnedOps
  <2>2. up \in BOOLEAN OBVIOUS
  <2>3. \A i \in DOMAIN o : rd[i] = (IF switch THEN up ELSE o[i].isrdmsr) OBVIOUS
  <2>4. \A i \in DOMAIN o : (IF switch THEN up ELSE o[i].isrdmsr) = up
    <3> HIDE DEF up, rd
    <3>1. o # << >> /\ WellLaid(m, b, o) OBVIOUS
    <3> HIDE DEF o
    <3>2. QED BY <2>2, <3>1, Directions
  <2>5. \A i \in DOMAIN o : rd[i] = up
    <3> HIDE DEF up, rd, switch, o
    <3>1. QED BY <2>3, <2>4
  <2>6. o = ops[b] /\ WellLaid(m, b, o) OBVIOUS
  <2> HIDE DEF rd, o, switch
  <2>8. /\ WellLaid(m, b, new) /\ Len(new) = Len(o) /\ DOMAIN new = DOMAIN o
        /\ \A i \in DOMAIN o : new[i].msr = o[i].msr /\ new[i].cpu = o[i].cpu
    <3> HIDE DEF up
    <3>1. QED BY <2>2, <2>5, <2>6, Turned
  <2>9. \E r : Transfer(b, r, S) /\ \A i \in DOMAIN ops[b] : r[i] = (type = "read")
    BY <2>1, <2>5, <2>6
  <2> HIDE DEF new
  <2>10. ops'[b] = new BY <2>1
  <2>11. ops' = [ops EXCEPT ![b] = ops'[b]] BY <2>1, <2>10
  <2>12. QED BY <1>2, <2>1, <2>6, <2>8, <2>9, <2>10, <2>11
<1>5. QED BY <1>3, <1>4

-----------------------------------------------------------------------------
\* The invariant, step by step.
IInv == TypeOK /\ StorageInv /\ ValuesInv /\ ImpliedInv /\ PlanInv

LEMMA Current ==
  ASSUME IInv, todo # << >>
  PROVE  /\ IsSeq(todo) /\ IsSeq(Tail(todo)) /\ call \notin {"none", "crashed"}
         /\ \E G : /\ Sound(model, G) /\ TodoOK(model, G, Now, todo)
                   /\ InitStepOK(model, Head(todo)) \/ StepOK(model, G, Now, Head(todo))
<1>1. PICK G : Sound(model, G) /\ TodoOK(model, G, Now, todo) BY DEF IInv, PlanInv
<1>2. IsSeq(todo) BY <1>1 DEF TodoOK
<1>3. IsSeq(Tail(todo)) BY <1>2, RestIs
<1>4. call \notin {"none", "crashed"} BY DEF IInv, PlanInv
<1>5. InitStepOK(model, Head(todo)) \/ StepOK(model, G, Now, Head(todo)) BY <1>1, HeadIs
<1>6. QED BY <1>1, <1>2, <1>3, <1>4, <1>5

\* A step that is not of storage: it keeps the rules, and all storage is there.
LEMMA CurrentRule ==
  ASSUME IInv, todo # << >>, Head(todo).do \notin {"allocate", "load"}
  PROVE  /\ IsSeq(todo) /\ IsSeq(Tail(todo)) /\ call \notin {"none", "crashed"}
         /\ NoInit(todo) /\ NoInit(Tail(todo))
         /\ \E G : /\ Sound(model, G) /\ TodoOK(model, G, Now, todo)
                   /\ StepOK(model, G, Now, Head(todo))
<1>1. ~IsInit(Head(todo)) BY DEF IsInit
<1>2. /\ IsSeq(todo) /\ IsSeq(Tail(todo)) /\ call \notin {"none", "crashed"}
      /\ \E G : /\ Sound(model, G) /\ TodoOK(model, G, Now, todo)
                /\ InitStepOK(model, Head(todo)) \/ StepOK(model, G, Now, Head(todo))
  BY Current
<1>3. ~InitStepOK(model, Head(todo)) BY <1>1 DEF InitStepOK
<1>4. NoInit(todo) BY <1>1, <1>2, SettledNow DEF IInv
<1>5. NoInit(Tail(todo)) BY <1>2, <1>4, NoInitTail
<1>6. QED BY <1>2, <1>3, <1>4, <1>5

LEMMA AllTokensKept ==
  ASSUME done \subseteq done', refused => refused', ~refused' => fresh \subseteq fresh',
         fresh \subseteq Batch, UnitsOK => UnitsOK', batchfd = -1 => batchfd' = -1,
         \A r \in RatioBatches : r \in fresh => r \in fresh'
  PROVE  \A t \in Now : t \in Now'
<1>1. \A t \in Now : t[1] # "checked" => t \in Now' BY TokensKept
<1>2. \A t \in Now : t[1] = "checked" => t \in Now' BY ChecksKept
<1>3. QED BY <1>1, <1>2

LEMMA NoneGoes ==
  /\ Sound(model, {}) /\ \A E : TodoOK(model, {}, E, << >>)
  /\ AllPlain(<< >>) /\ AllSimple(<< >>) /\ NoInit(<< >>)
  /\ \A p : IsSeq(p) => << >> \o p = p
<1>1. IsSeq(<< >>) /\ Len(<< >>) = 0 BY NoneIs
<1>2. \A p : IsSeq(p) => << >> \o p = p
  <2>1. SUFFICES ASSUME NEW p, IsSeq(p) PROVE << >> \o p = p OBVIOUS
  <2>2. PICK S : p \in Seq(S) BY <2>1 DEF IsSeq
  <2>3. QED BY <2>2
<1>3. QED BY <1>1, <1>2, NothingSound DEF TodoOK, AllPlain, AllSimple, NoInit

\* The step is done and the rest of the plan goes on.
LEMMA PlanRest ==
  ASSUME IInv, todo # << >>, todo' = << >> \o Tail(todo), model' = model, call' = call,
         done' = done, \A t \in Now : t \in Now', \A t \in Gives(Head(todo)) : t \in Now'
  PROVE  PlanInv' /\ ImpliedInv'
<1> DEFINE q == << >>
           H == {}
<1>1. PICK G : Sound(model, G) /\ TodoOK(model, G, Now, todo) /\ IsSeq(todo) BY Current
<1>2. PlanInv /\ ImpliedInv BY DEF IInv
<1>3. /\ Sound(model, H) /\ TodoOK(model, H, Now', q) /\ AllPlain(q) /\ AllSimple(q) /\ IsSeq(q)
      /\ todo' = q \o Tail(todo)
  BY NoneGoes, NoneIs
<1>4. \A t \in GivesFirst(Head(todo)) : t \in Now' BY DEF Gives
<1> HIDE DEF q, H
<1>5. PlanInv' BY <1>1, <1>2, <1>3, PlanGoes
<1>6. ImpliedInv' BY <1>1, <1>2, <1>3, <1>4, ImpliedGoes
<1>7. QED BY <1>5, <1>6

\* The step is done, and the steps p that it holds are next.
LEMMA PlanMore ==
  ASSUME IInv, todo # << >>, model' = model, call' = call, done' = done,
         ~Simple(Head(todo)), ~Plain(Head(todo)), Gives(Head(todo)) = {},
         NEW G, Sound(model, G), TodoOK(model, G, Now, todo),
         NEW E, NEW p, Proper(G, E, p), todo' = p \o Tail(todo),
         \A t \in E : t \in Now', \A t \in Now : t[1] # "checked" => t \in Now'
  PROVE  PlanInv' /\ ImpliedInv'
<1>1. IsSeq(todo) /\ PlanInv /\ ImpliedInv BY Current DEF IInv
<1>2. Proper(G, Now', p) BY ProperGrows
<1>3. TodoOK(model, G, Now', p) /\ IsSeq(p) BY <1>2, ProperTodo DEF Proper
<1>4. GivesFirst(Head(todo)) = {} BY DEF Gives
<1>5. PlanInv' BY <1>1, <1>3, PlanGoes
<1>6. ImpliedInv' BY <1>1, <1>3, <1>4, ImpliedGoes
<1>7. QED BY <1>5, <1>6

\* Nothing happens to the batches.
LEMMA StorageQuiet ==
  ASSUME IInv, IsSeq(todo), NoInit(todo), NoInit(todo'), model' = model,
         UNCHANGED <<size, ops>>, done' = done, fresh' \subseteq fresh
  PROVE  StorageInv'
<1>1. StorageInv BY DEF IInv
<1>2. \A b \in Batch : WellLaid(model, b, ops'[b]) BY <1>1 DEF StorageInv
<1>3. QED BY <1>1, <1>2, StorageRest

LEMMA ValuesQuiet ==
  ASSUME ValuesInv, UNCHANGED <<data, reg, refusals>>, fresh' \subseteq fresh, refused' => refused
  PROVE  ValuesInv'
  BY DEF ValuesInv

LEMMA TypeQuiet ==
  ASSUME TypeOK, UNCHANGED batchVars
  PROVE  BatchTypeOK'
  BY DEF TypeOK, BatchTypeOK, batchVars

\* What is printed or converted leaves no trace.
LEMMA ShowStep ==
  ASSUME IInv, DoShow \/ DoConvert
  PROVE  IInv'
<1> DEFINE s == Head(todo)
<1>1. /\ todo # << >> /\ s.do \in {"show", "convert"} /\ todo' = << >> \o Tail(todo)
      /\ UNCHANGED <<batchVars, controlVars, fresh, refused, refusals>>
  BY DEF DoShow, DoConvert, At, GoOn
<1>2. IsSeq(todo) /\ IsSeq(Tail(todo)) /\ NoInit(todo) /\ NoInit(Tail(todo)) BY <1>1, CurrentRule
<1>3. todo' = Tail(todo) BY <1>1, <1>2, NoneGoes
<1>4. TypeOK' BY <1>1, TypeQuiet DEF IInv, TypeOK, controlVars
<1>5. StorageInv' BY <1>1, <1>2, <1>3, StorageQuiet DEF batchVars, controlVars
<1>6. ValuesInv' BY <1>1, ValuesQuiet DEF IInv, batchVars
<1>7. Gives(s) = {} BY <1>1 DEF Gives, GivesFirst
<1>8. \A t \in Now : t \in Now'
  <2>1. UnitsOK => UnitsOK' BY <1>1 DEF controlVars, UnitsOK
  <2>2. fresh \subseteq Batch BY DEF IInv, TypeOK
  <2>3. QED BY <1>1, <2>1, <2>2, AllTokensKept DEF batchVars, controlVars
<1>9. PlanInv' /\ ImpliedInv' BY <1>1, <1>7, <1>8, PlanRest DEF controlVars
<1>10. QED BY <1>4, <1>5, <1>6, <1>9 DEF IInv

\* What is left of a plan after a test, or without one, has no storage of its own.
LEMMA MoreIsSettled ==
  ASSUME NEW G, NEW E, NEW p, NEW r, Sound(model, G), Proper(G, E, p), IsSeq(r), NoInit(r)
  PROVE  IsSeq(p) /\ NoInit(p \o r)
<1>1. NoInit(p) /\ IsSeq(p) BY ProperIsSettled DEF Proper
<1>2. QED BY <1>1, NoInitCat

LEMMA AgreeStep ==
  ASSUME IInv, DoAgree
  PROVE  IInv'
<1> DEFINE s == Head(todo)
           r == Tail(todo)
<1>1. /\ todo # << >> /\ s.do = "agree"
      /\ todo' = s.then \o r \/ todo' = << >> \o r
      /\ UNCHANGED <<batchVars, controlVars, fresh, refused, refusals>>
  BY DEF DoAgree, At, GoOn, Step
<1>2. IsSeq(todo) /\ IsSeq(r) /\ NoInit(todo) /\ NoInit(r) BY <1>1, CurrentRule
<1>3. PICK G : Sound(model, G) /\ TodoOK(model, G, Now, todo) /\ StepOK(model, G, Now, s)
  BY <1>1, CurrentRule
<1>4. Proper(G, Now, s.then) BY <1>1, <1>3 DEF StepOK
<1>5. TypeOK' BY <1>1, TypeQuiet DEF IInv, TypeOK, controlVars
<1>6. NoInit(todo')
  <2>1. NoInit(s.then \o r) BY <1>2, <1>3, <1>4, MoreIsSettled
  <2>2. << >> \o r = r BY <1>2, NoneGoes
  <2>3. QED BY <1>1, <1>2, <2>1, <2>2
<1>7. StorageInv' BY <1>1, <1>2, <1>6, StorageQuiet DEF batchVars, controlVars
<1>8. ValuesInv' BY <1>1, ValuesQuiet DEF IInv, batchVars
<1>9. Gives(s) = {} /\ ~Simple(s) /\ ~Plain(s) BY <1>1 DEF Gives, GivesFirst, Simple, Plain
<1>10. \A t \in Now : t \in Now'
  <2>1. UnitsOK => UnitsOK' BY <1>1 DEF controlVars, UnitsOK
  <2>2. fresh \subseteq Batch BY DEF IInv, TypeOK
  <2>3. QED BY <1>1, <2>1, <2>2, AllTokensKept DEF batchVars, controlVars
<1>11. model' = model /\ call' = call /\ done' = done BY <1>1 DEF controlVars
<1> HIDE DEF s, r
<1>12. PlanInv' /\ ImpliedInv'
  <2>1. CASE todo' = s.then \o r
    BY <1>1, <1>3, <1>4, <1>9, <1>10, <1>11, <2>1, PlanMore DEF s, r
  <2>2. CASE todo' = << >> \o r BY <1>1, <1>9, <1>10, <1>11, <2>2, PlanRest DEF s, r
  <2>3. QED BY <1>1, <2>1, <2>2
<1>13. QED BY <1>5, <1>7, <1>8, <1>12 DEF IInv

\* The processor has none, one or two levels.
LEMMA LevelsStep ==
  ASSUME IInv, DoLevels
  PROVE  IInv'
<1> DEFINE s == Head(todo)
           r == Tail(todo)
<1>1. PICK levels \in TdpLevels :
        /\ todo # << >> /\ s.do = "levels" /\ tdp' = levels
        /\ todo' = s.then[1 + IF data["TDP_DEFS"][1] = "zero" THEN 0 ELSE levels] \o r
        /\ UNCHANGED <<batchVars, model, done, units, call, calls, fresh, refused, refusals>>
  BY DEF DoLevels, At, GoOn, Step
<1> DEFINE i == 1 + IF data["TDP_DEFS"][1] = "zero" THEN 0 ELSE levels
           p == s.then[i]
<1>2. IsSeq(todo) /\ IsSeq(r) /\ NoInit(todo) /\ NoInit(r) BY <1>1, CurrentRule
<1>3. PICK G : Sound(model, G) /\ TodoOK(model, G, Now, todo) /\ StepOK(model, G, Now, s)
  BY <1>1, CurrentRule
<1>4. i \in 1..3
  <2>1. levels \in 0..2 BY ModelAssumption
  <2>2. QED BY <2>1
<1>5. todo' = p \o r BY <1>1
<1> HIDE DEF i
<1>6. Proper(G, Now, p) BY <1>1, <1>3, <1>4 DEF StepOK
<1>7. TypeOK' BY <1>1, TypeQuiet DEF IInv, TypeOK
<1> HIDE DEF p
<1>8. NoInit(todo') BY <1>2, <1>3, <1>5, <1>6, MoreIsSettled
<1>9. StorageInv' BY <1>1, <1>2, <1>8, StorageQuiet DEF batchVars
<1>10. ValuesInv' BY <1>1, ValuesQuiet DEF IInv, batchVars
<1>11. Gives(s) = {} /\ ~Simple(s) /\ ~Plain(s) BY <1>1 DEF Gives, GivesFirst, Simple, Plain
<1>12. \A t \in Now : t \in Now'
  <2>1. UnitsOK => UnitsOK' BY <1>1 DEF UnitsOK
  <2>2. fresh \subseteq Batch BY DEF IInv, TypeOK
  <2>3. QED BY <1>1, <2>1, <2>2, AllTokensKept DEF batchVars
<1>13. PlanInv' /\ ImpliedInv' BY <1>1, <1>3, <1>5, <1>6, <1>11, <1>12, PlanMore
<1>14. QED BY <1>7, <1>9, <1>10, <1>13 DEF IInv

\* Without a plan there is nothing left to keep a rule.
LEMMA NoPlan ==
  ASSUME IInv, todo' = << >>, model' = model, done' = done,
         \A t \in Now : t[1] # "checked" /\ t[1] # "read" => t \in Now',
         todo = << >> \/ (~Simple(Head(todo)) /\ Gives(Head(todo)) = {})
  PROVE  PlanInv' /\ ImpliedInv'
<1>1. Sound(model, {}) /\ TodoOK(model, {}, Now', << >>) BY NoneGoes
<1>2. PlanInv' BY <1>1 DEF PlanInv
<1>3. ASSUME NEW f \in done, NEW t \in Implied(f) PROVE t \in Now'
  <2>1. t \in Now \/ LeadsTo(todo, t) BY DEF IInv, ImpliedInv
  <2>2. ~LeadsTo(todo, t)
    <3>1. CASE todo = << >> BY <3>1 DEF LeadsTo
    <3>2. CASE todo # << >> /\ ~Simple(Head(todo)) /\ Gives(Head(todo)) = {}
      <4>1. IsSeq(todo) BY <3>2, Current
      <4>2. Head(todo) = todo[1] /\ Len(todo) \in Nat \ {0} BY <3>2, <4>1, RestIs
      <4>3. GivesFirst(todo[1]) = {} /\ ~Simple(todo[1]) BY <3>2, <4>2 DEF Gives
      <4>4. \A k \in 1..Len(todo) : k = 1 \/ 1 \in 1..(k - 1) OBVIOUS
      <4>5. QED BY <4>3, <4>4 DEF LeadsTo
    <3>3. QED BY <3>1, <3>2
  <2>3. QED BY <2>1, <2>2, ImpliedKinds
<1>4. ImpliedInv' BY <1>3 DEF ImpliedInv
<1>5. QED BY <1>2, <1>4

\* The process is gone.
LEMMA CrashStep ==
  ASSUME IInv, Crash
  PROVE  IInv'
<1> DEFINE s == Head(todo)
<1>1. /\ todo # << >> /\ s.do = "crash" /\ call' = "crashed" /\ todo' = << >>
      /\ UNCHANGED <<batchVars, model, tdp, done, units, calls, fresh, refused, refusals>>
  BY DEF Crash, At
<1>2. IsSeq(todo) /\ NoInit(todo) BY <1>1, CurrentRule
<1>3. TypeOK' BY <1>1, TypeQuiet DEF IInv, TypeOK
<1>4. NoInit(todo') BY <1>1, NoneGoes
<1>5. StorageInv' BY <1>1, <1>2, <1>4, StorageQuiet DEF batchVars
<1>6. ValuesInv' BY <1>1, ValuesQuiet DEF IInv, batchVars
<1>7. Gives(s) = {} /\ ~Simple(s) BY <1>1 DEF Gives, GivesFirst, Simple
<1>8. \A t \in Now : t \in Now'
  <2>1. UnitsOK => UnitsOK' BY <1>1 DEF UnitsOK
  <2>2. fresh \subseteq Batch BY DEF IInv, TypeOK
  <2>3. QED BY <1>1, <2>1, <2>2, AllTokensKept DEF batchVars
<1>9. PlanInv' /\ ImpliedInv' BY <1>1, <1>7, <1>8, NoPlan
<1>10. QED BY <1>3, <1>5, <1>6, <1>9 DEF IInv

LEMMA ReturnStep ==
  ASSUME IInv, Return
  PROVE  IInv'
<1>1. /\ todo = << >> /\ call' = "none" /\ todo' = << >>
      /\ UNCHANGED <<batchVars, model, tdp, done, units, calls, fresh, refused, refusals>>
  BY DEF Return
<1>2. IsSeq(todo) /\ NoInit(todo) /\ NoInit(todo') BY <1>1, NoneGoes, NoneIs
<1>3. TypeOK' BY <1>1, TypeQuiet DEF IInv, TypeOK
<1>4. StorageInv' BY <1>1, <1>2, StorageQuiet DEF batchVars
<1>5. ValuesInv' BY <1>1, ValuesQuiet DEF IInv, batchVars
<1>6. \A t \in Now : t \in Now'
  <2>1. UnitsOK => UnitsOK' BY <1>1 DEF UnitsOK
  <2>2. fresh \subseteq Batch BY DEF IInv, TypeOK
  <2>3. QED BY <1>1, <2>1, <2>2, AllTokensKept DEF batchVars
<1>7. PlanInv' /\ ImpliedInv' BY <1>1, <1>6, NoPlan
<1>8. QED BY <1>3, <1>4, <1>5, <1>7 DEF IInv

\* No entry point is called none or crashed.
LEMMA ApiIsNamed ==
  ASSUME NEW m \in IntelModel, NEW api \in Api(m)
  PROVE  api \notin {"none", "crashed"}
<1>1. api \in Pointers[m] \union {"print_verbose_counters", "print_verbose_frequency"}
  BY DEF Api, Verbose
<1>2. Pointers[m] \subseteq T!FM_06_2A \union T!FM_06_2D \union T!FM_06_3E \union T!FM_06_3F
        \union T!FM_06_4F \union T!FM_06_55 \union T!FM_06_9E \union T!FM_06_6A \union T!FM_06_8F
  BY DEF Pointers, IntelModel
<1>3. \A x \in {"none", "crashed"} : x \notin T!IntelAlways /\ x \notin T!IntelCommon
  BY DEF T!IntelAlways, T!IntelCommon
<1>4. ASSUME NEW x \in {"none", "crashed"} PROVE x \notin Pointers[m]
  <2>1. x \notin T!FM_06_2A BY <1>3 DEF T!FM_06_2A, T!Turbo
  <2>2. x \notin T!FM_06_2D BY <1>3 DEF T!FM_06_2D, T!Turbo
  <2>3. x \notin T!FM_06_3E BY <1>3 DEF T!FM_06_3E, T!Turbo
  <2>4. x \notin T!FM_06_3F BY <1>3 DEF T!FM_06_3F, T!Turbo
  <2>5. x \notin T!FM_06_4F BY <1>3 DEF T!FM_06_4F, T!Turbo
  <2>6. x \notin T!FM_06_55 BY <1>3 DEF T!FM_06_55, T!Turbo
  <2>7. x \notin T!FM_06_9E BY <1>3 DEF T!FM_06_9E, T!Turbo
  <2>8. x \notin T!FM_06_6A BY <1>3 DEF T!FM_06_6A, T!Turbo
  <2>9. x \notin T!FM_06_8F BY <1>3 DEF T!FM_06_8F, T!Turbo
  <2>10. QED BY <1>2, <2>1, <2>2, <2>3, <2>4, <2>5, <2>6, <2>7, <2>8, <2>9
<1>5. QED BY <1>1, <1>4

\* A call begins with a good plan, and has read nothing yet.
LEMMA CallStep ==
  ASSUME IInv, NEW api \in Api(model), Call(api)
  PROVE  IInv'
<1>1. /\ call = "none" /\ calls < MaxCalls /\ call' = api /\ calls' = calls + 1
      /\ todo' = Plan(model, api) /\ fresh' = {} /\ refused' = FALSE
      /\ UNCHANGED <<batchVars, model, tdp, done, units, refusals>>
  BY DEF Call
<1>2. todo = << >> BY <1>1 DEF IInv, PlanInv
<1>3. model \in IntelModel BY ModelAssumption DEF IInv, TypeOK
<1>4. PICK G : Sound(model, G) /\ Proper(G, {}, Plan(model, api)) BY <1>3, PlansAreGood DEF Good
<1>5. IsSeq(todo) /\ NoInit(todo) /\ NoInit(todo')
  BY <1>1, <1>2, <1>4, NoneGoes, NoneIs, ProperIsSettled
<1>6. TypeOK'
  <2>1. calls + 1 \in 0..MaxCalls BY <1>1, RefusalAssumption DEF IInv, TypeOK
  <2>2. QED BY <1>1, <2>1, TypeQuiet DEF IInv, TypeOK
<1>7. StorageInv' BY <1>1, <1>5, StorageQuiet DEF batchVars
<1>8. ValuesInv' BY <1>1, ValuesQuiet DEF IInv, batchVars
<1>9. api \notin {"none", "crashed"}
  BY <1>3, ApiIsNamed
<1>10. PlanInv'
  <2>1. Proper(G, Now', Plan(model, api)) BY <1>4, ProperGrows
  <2>2. TodoOK(model, G, Now', todo') BY <1>1, <2>1, ProperTodo
  <2>3. QED BY <1>1, <1>4, <1>9, <2>2 DEF PlanInv
<1>11. ImpliedInv'
  <2>1. SUFFICES ASSUME NEW f \in done, NEW t \in Implied(f) PROVE t \in Now'
    BY <1>1 DEF ImpliedInv
  <2>2. t \in Now
    <3>1. t \in Now \/ LeadsTo(todo, t) BY DEF IInv, ImpliedInv
    <3>2. QED BY <1>2, <3>1 DEF LeadsTo
  <2>3. CASE t = UnitsReady BY <1>1, <2>2, <2>3, NowIs, NextNowIs DEF UnitsOK
  <2>4. CASE \E g : t = Flag(g) BY <1>1, <2>2, <2>4, NowIs, NextNowIs
  <2>5. QED BY <2>3, <2>4, ImpliedKinds
<1>12. QED BY <1>6, <1>7, <1>8, <1>10, <1>11 DEF IInv

\* Nothing more stands behind the flag of a storage.
LEMMA StorageImplies ==
  ASSUME NEW f \in StorageFlag
  PROVE  Implied(f) = {}
<1>1. PICK b \in Batch : f = FlagOf(b) BY DEF StorageFlag
<1>2. \A c \in Batch : FlagOf(c) \notin
        {"translate", "print_perfmon", "print_verbose_perfmon", "print_clocks_data", "cap_p_state",
         "get_all_power_data_fixed"}
  BY DEF Batch, FlagOf
<1>3. QED BY <1>1, <1>2 DEF Implied

\* A static flag: what it stands before is entered, or passed by.
LEMMA OnceStep ==
  ASSUME IInv, RunOnce
  PROVE  IInv'
<1> DEFINE s == Head(todo)
           r == Tail(todo)
           f == s.flag
           none == << >>
           nopairs == {}
<1>1. /\ todo # << >> /\ s.do = "once"
      /\ f \in done => todo' = << >> \o r
      /\ f \notin done => todo' = s.then \o r
      /\ done' = done \union {f}
      /\ UNCHANGED <<batchVars, model, tdp, units, call, calls, fresh, refused, refusals>>
  BY DEF RunOnce, At, GoOn, Step
<1>2. IsSeq(todo) /\ IsSeq(r) /\ NoInit(todo) /\ NoInit(r) BY <1>1, CurrentRule
<1>3. PICK G : Sound(model, G) /\ TodoOK(model, G, Now, todo) /\ StepOK(model, G, Now, s)
  BY <1>1, CurrentRule
<1>4. /\ f \in StaticFlag
      /\ \/ Flag(f) \in Now
         \/ f \in StorageFlag /\ Block(model, f, s.then)
         \/ Compound(G, Now, s)
  BY <1>1, <1>3 DEF StepOK
<1>5. TypeOK' BY <1>1, <1>4, TypeQuiet DEF IInv, TypeOK
<1>6. ValuesInv' BY <1>1, ValuesQuiet DEF IInv, batchVars
<1>7. (\A t \in Now : t \in Now') /\ Flag(f) \in Now'
  <2>1. UnitsOK => UnitsOK' BY <1>1 DEF UnitsOK
  <2>2. fresh \subseteq Batch BY DEF IInv, TypeOK
  <2>3. QED BY <1>1, <2>1, <2>2, AllTokensKept, NextNowIs DEF batchVars
<1>8. GivesFirst(s) = {Flag(f)} /\ Gives(s) = {Flag(f)} \union Implied(f) /\ Plain(s)
      /\ (Simple(s) => f \in StorageFlag)
  BY <1>1 DEF Gives, GivesFirst, Plain, Simple
<1>9. IInv => StorageInv /\ PlanInv /\ ImpliedInv /\ size \in [Batch -> Nat]
  BY DEF IInv, TypeOK, BatchTypeOK
<1>10. s = Head(todo) /\ r = Tail(todo) /\ ~IsInit(s) BY <1>1 DEF IsInit
<1> HIDE DEF s, r, f
<1>11. CASE f \in done
  <2>1. done' = done /\ todo' = << >> \o r BY <1>1, <1>11
  <2>2. NoInit(todo') BY <1>2, <2>1, NoneGoes
  <2>3. StorageInv' BY <1>1, <1>2, <2>1, <2>2, StorageQuiet DEF batchVars
  <2>4. \A t \in Implied(f) : t \in Now
    <3>1. SUFFICES ASSUME NEW t \in Implied(f), t \notin Now PROVE FALSE OBVIOUS
    <3>2. LeadsTo(todo, t) BY <1>9, <1>11, <3>1 DEF ImpliedInv
    <3>3. PICK k \in 1..Len(todo) : t \in GivesFirst(todo[k]) /\ \A j \in 1..(k - 1) : Simple(todo[j])
      BY <3>2 DEF LeadsTo
    <3>4. s = todo[1] /\ k \in Nat /\ 1 <= k BY <1>1, <1>2, <1>10, <3>3, RestIs
    <3>5. CASE k = 1 BY <1>8, <1>11, <3>1, <3>3, <3>4, <3>5, NowIs
    <3>6. CASE k # 1
      <4>1. 1 \in 1..(k - 1) BY <3>4, <3>6
      <4>2. f \in StorageFlag BY <1>8, <3>3, <3>4, <4>1
      <4>3. QED BY <3>1, <4>2, StorageImplies
    <3>7. QED BY <3>5, <3>6
  <2>5. PlanInv' /\ ImpliedInv' BY <1>1, <1>7, <1>8, <1>10, <2>1, <2>4, PlanRest
  <2>6. QED BY <1>5, <1>6, <2>3, <2>5 DEF IInv
<1>12. CASE f \notin done /\ f \in StorageFlag /\ Block(model, f, s.then)
  <2> DEFINE q == s.then
  <2>1. todo' = q \o r BY <1>1, <1>12
  <2>2. Block(model, f, q) BY <1>12
  <2> HIDE DEF q
  <2>3. StorageInv' BY <1>1, <1>2, <1>9, <1>10, <1>12, <2>1, <2>2, StorageBlock DEF batchVars
  <2>4. IsSeq(q) /\ \A k \in 1..Len(q) : InitStepOK(model, q[k]) BY <2>2 DEF Block
  <2>5. AllPlain(q) /\ AllSimple(q)
    BY <2>4 DEF AllPlain, AllSimple, Plain, Simple, InitStepOK, IsInit
  <2>6. TodoOK(model, nopairs, Now', q) BY <2>4 DEF TodoOK
  <2>7. Sound(model, nopairs) BY NothingSound
  <2>8. Implied(f) = {} BY <1>12, StorageImplies
  <2>9. \A t \in Gives(s) : t \in Now' BY <1>7, <1>8, <2>8
  <2> HIDE DEF nopairs
  <2>10. PlanInv' BY <1>1, <1>3, <1>7, <1>9, <1>10, <2>1, <2>5, <2>6, <2>7, <2>9, PlanGoes
  <2>11. ImpliedInv'
    <3>1. \A x \in done' \ done : \A t \in Implied(x) : t \in Now' \/ LeadsTo(q, t) BY <1>1, <2>8
    <3>2. QED BY <1>1, <1>2, <1>7, <1>8, <1>9, <1>10, <2>1, <2>4, <2>5, <3>1, ImpliedGoes
  <2>12. QED BY <1>5, <1>6, <2>3, <2>10, <2>11 DEF IInv
<1>13. CASE f \notin done /\ Compound(G, Now, s)
  <2> DEFINE q == s.then
  <2>1. todo' = q \o r BY <1>1, <1>13
  <2>2. /\ f \notin StorageFlag /\ Proper(G, Now, q) /\ AllPlain(q)
        /\ \A t \in Implied(f) : LeadsTo(q, t)
    BY <1>13 DEF Compound, f
  <2> HIDE DEF q
  <2>3. Proper(G, Now', q) BY <1>7, <2>2, ProperGrows
  <2>4. TodoOK(model, G, Now', q) /\ IsSeq(q) BY <2>3, ProperTodo DEF Proper
  <2>5. \A t \in Gives(s) : t \in Now' \/ \E j \in 1..Len(q) : t \in Gives(q[j])
    BY <1>7, <1>8, <2>2 DEF LeadsTo, Gives
  <2>6. PlanInv' BY <1>1, <1>3, <1>7, <1>9, <1>10, <2>1, <2>2, <2>4, <2>5, PlanGoes
  <2>7. ImpliedInv'
    <3>1. \A x \in done' \ done : \A t \in Implied(x) : t \in Now' \/ LeadsTo(q, t) BY <1>1, <2>2
    <3>2. ~Simple(s) BY <1>8, <2>2
    <3>3. QED BY <1>1, <1>2, <1>7, <1>8, <1>9, <1>10, <2>1, <2>4, <3>1, <3>2, ImpliedGoes
  <2>8. NoInit(todo') BY <1>2, <1>3, <2>1, <2>2, MoreIsSettled
  <2>9. StorageInv'
    <3>1. \A b \in Batch : WellLaid(model, b, ops'[b])
      BY <1>1, <1>9 DEF StorageInv, batchVars
    <3>2. StorageFlag \intersect done' \subseteq done BY <1>1, <2>2
    <3>3. QED BY <1>1, <1>2, <1>9, <2>8, <3>1, <3>2, StorageRest DEF batchVars
  <2>10. QED BY <1>5, <1>6, <2>6, <2>7, <2>9 DEF IInv
<1>14. QED BY <1>4, <1>11, <1>12, <1>13, NowIs

LEMMA BatchTypes ==
  ASSUME IInv
  PROVE  /\ size \in [Batch -> Nat] /\ ops \in [Batch -> Seq(Operation)] /\ data \in [Batch -> Seq(Tag)]
         /\ (\A b \in Batch : Len(data[b]) = Len(ops[b])) /\ reg \in [Written -> [Cpu -> Tag]]
         /\ batchfd \in {-1, 0, 1} /\ fresh \subseteq Batch
         /\ \A b \in Batch : /\ ops[b] \in Seq(Operation) /\ DOMAIN ops[b] = 1..Len(ops[b])
                             /\ data[b] \in Seq(Tag) /\ DOMAIN data[b] = DOMAIN ops[b]
                             /\ Len(ops[b]) \in Nat
<1>1. /\ size \in [Batch -> Nat] /\ ops \in [Batch -> Seq(Operation)] /\ data \in [Batch -> Seq(Tag)]
      /\ (\A b \in Batch : Len(data[b]) = Len(ops[b])) /\ reg \in [Written -> [Cpu -> Tag]]
      /\ batchfd \in {-1, 0, 1} /\ fresh \subseteq Batch
  BY DEF IInv, TypeOK, BatchTypeOK, Operation
<1>2. ASSUME NEW b \in Batch
      PROVE  /\ ops[b] \in Seq(Operation) /\ DOMAIN ops[b] = 1..Len(ops[b])
             /\ data[b] \in Seq(Tag) /\ DOMAIN data[b] = DOMAIN ops[b]
             /\ Len(ops[b]) \in Nat
  <2>1. ops[b] \in Seq(Operation) /\ data[b] \in Seq(Tag) /\ Len(data[b]) = Len(ops[b]) BY <1>1
  <2>2. DOMAIN ops[b] = 1..Len(ops[b]) /\ DOMAIN data[b] = 1..Len(data[b]) BY <2>1
  <2>3. QED BY <2>1, <2>2
<1>3. QED BY <1>1, <1>2

\* The data of one batch change.
LEMMA DataTypes ==
  ASSUME IInv, NEW b \in Batch, data' = [data EXCEPT ![b] = data'[b]], data'[b] \in Seq(Tag),
         ops' = [ops EXCEPT ![b] = ops'[b]], ops'[b] \in Seq(Operation), Len(data'[b]) = Len(ops'[b]),
         size' \in [Batch -> Nat], reg' \in [Written -> [Cpu -> Tag]], batchfd' \in {-1, 0, 1}
  PROVE  BatchTypeOK'
<1>1. /\ ops \in [Batch -> Seq(Operation)] /\ data \in [Batch -> Seq(Tag)]
      /\ (\A c \in Batch : Len(data[c]) = Len(ops[c]))
  BY BatchTypes
<1>2. ops' \in [Batch -> Seq(Operation)] /\ data' \in [Batch -> Seq(Tag)] BY <1>1
<1>3. \A c \in Batch : Len(data'[c]) = Len(ops'[c]) BY <1>1
<1>4. QED BY <1>2, <1>3 DEF BatchTypeOK, Operation

\* The values are as good as those of the batch whose data change.
LEMMA ValuesData ==
  ASSUME ValuesInv, NEW b \in Batch, \A c \in Batch : c # b => data'[c] = data[c],
         UNCHANGED reg, refusals' = 0 => refusals = 0, refused' => refusals' > 0,
         \A c \in fresh' : c \in fresh \/ c = b,
         refusals' = 0 =>
           /\ \A i \in DOMAIN data'[b] : data'[b][i] # "wiped"
           /\ b = "FIXED_COUNTERS_CTRL_DATA" /\ b \in fresh' => \A i \in DOMAIN data'[b] : data'[b][i] \in Kept
           /\ b = "RAPL_UNIT" /\ b \in fresh' => \A i \in DOMAIN data'[b] : data'[b][i] = "hw"
  PROVE  ValuesInv'
<1>1. {"FIXED_COUNTERS_CTRL_DATA", "RAPL_UNIT"} \subseteq Batch BY DEF Batch
<1>2. ASSUME refusals' = 0
      PROVE  /\ \A c \in Batch : \A i \in DOMAIN data'[c] : data'[c][i] # "wiped"
             /\ "FIXED_COUNTERS_CTRL_DATA" \in fresh' =>
                  \A i \in DOMAIN data'["FIXED_COUNTERS_CTRL_DATA"] :
                    data'["FIXED_COUNTERS_CTRL_DATA"][i] \in Kept
             /\ "RAPL_UNIT" \in fresh' => \A i \in DOMAIN data'["RAPL_UNIT"] : data'["RAPL_UNIT"][i] = "hw"
  <2>1. /\ \A c \in Batch : \A i \in DOMAIN data[c] : data[c][i] # "wiped"
        /\ "FIXED_COUNTERS_CTRL_DATA" \in fresh =>
             \A i \in DOMAIN data["FIXED_COUNTERS_CTRL_DATA"] : data["FIXED_COUNTERS_CTRL_DATA"][i] \in Kept
        /\ "RAPL_UNIT" \in fresh => \A i \in DOMAIN data["RAPL_UNIT"] : data["RAPL_UNIT"][i] = "hw"
    BY <1>2 DEF ValuesInv
  <2>2. \A c \in Batch : \A i \in DOMAIN data'[c] : data'[c][i] # "wiped" BY <1>2, <2>1
  <2>3. ASSUME "FIXED_COUNTERS_CTRL_DATA" \in fresh'
        PROVE  \A i \in DOMAIN data'["FIXED_COUNTERS_CTRL_DATA"] :
                 data'["FIXED_COUNTERS_CTRL_DATA"][i] \in Kept
    BY <1>1, <1>2, <2>1, <2>3
  <2>4. ASSUME "RAPL_UNIT" \in fresh'
        PROVE  \A i \in DOMAIN data'["RAPL_UNIT"] : data'["RAPL_UNIT"][i] = "hw"
    BY <1>1, <1>2, <2>1, <2>4
  <2>5. QED BY <2>2, <2>3, <2>4
<1>3. QED BY <1>2 DEF ValuesInv

\* The head of the plan allocates or loads.
LEMMA CurrentInit ==
  ASSUME IInv, todo # << >>, IsInit(Head(todo))
  PROVE  /\ IsSeq(todo) /\ IsSeq(Tail(todo)) /\ InitStepOK(model, Head(todo))
         /\ << >> \o Tail(todo) = Tail(todo) /\ Gives(Head(todo)) = {}
<1>1. /\ IsSeq(todo) /\ IsSeq(Tail(todo))
      /\ \E G : InitStepOK(model, Head(todo)) \/ StepOK(model, G, Now, Head(todo))
  BY Current
<1>2. \A G : ~StepOK(model, G, Now, Head(todo)) BY DEF StepOK, IsInit
<1>3. Gives(Head(todo)) = {} BY DEF Gives, GivesFirst, IsInit
<1>4. QED BY <1>1, <1>2, <1>3, NoneGoes

\* Room for a batch.
LEMMA AllocateStep ==
  ASSUME IInv, DoAllocate
  PROVE  IInv'
<1> DEFINE s == Head(todo)
           r == Tail(todo)
           b == s.b
           n == s.n
<1>1. /\ todo # << >> /\ s.do = "allocate" /\ todo' = << >> \o r
      /\ allocate_batch(b, n)
      /\ UNCHANGED <<controlVars, fresh, refused, refusals>>
  BY DEF DoAllocate, At, GoOn, Step
<1>2. IsInit(s) BY <1>1 DEF IsInit
<1>3. IsSeq(todo) /\ IsSeq(r) /\ InitStepOK(model, s) /\ << >> \o r = r /\ Gives(s) = {}
  BY <1>1, <1>2, CurrentInit
<1>4. todo' = r BY <1>1, <1>3
<1>5. b \in Batch /\ n \in Nat BY <1>1, <1>3 DEF InitStepOK
<1>6. /\ size \in [Batch -> Nat] /\ ops \in [Batch -> Seq(Operation)]
      /\ ops[b] \in Seq(Operation) /\ data[b] \in Seq(Tag) /\ DOMAIN data[b] = DOMAIN ops[b]
      /\ data \in [Batch -> Seq(Tag)]
  BY <1>5, BatchTypes
<1>7. StorageInv BY DEF IInv
<1>8. StorageInv' /\ ops' = ops /\ ops[b] = << >>
  BY <1>1, <1>3, <1>4, <1>6, <1>7, StorageAllocate DEF controlVars
<1> HIDE DEF s, r, b, n
<1>9. data' = data
  <2>1. data' = [data EXCEPT ![b] = [i \in DOMAIN data[b] |-> "zero"]] BY <1>1 DEF allocate_batch
  <2>2. data[b] = << >>
    <3>1. Len(data[b]) = 0 BY <1>5, <1>8, BatchTypes
    <3>2. QED BY <1>6, <3>1
  <2>3. [i \in DOMAIN data[b] |-> "zero"] = data[b] BY <2>2
  <2>4. QED BY <1>6, <2>1, <2>3
<1>10. size' \in [Batch -> Nat] /\ UNCHANGED <<batchfd, reg>> BY <1>1, <1>5, <1>6 DEF allocate_batch
<1>11. TypeOK' BY <1>1, <1>8, <1>9, <1>10 DEF IInv, TypeOK, BatchTypeOK, controlVars
<1>12. ValuesInv' BY <1>1, <1>9, <1>10, ValuesQuiet DEF IInv
<1>13. \A t \in Now : t \in Now'
  <2>1. UnitsOK => UnitsOK' BY <1>1 DEF controlVars, UnitsOK
  <2>2. fresh \subseteq Batch BY DEF IInv, TypeOK
  <2>3. QED BY <1>1, <1>10, <2>1, <2>2, AllTokensKept DEF controlVars
<1>14. PlanInv' /\ ImpliedInv'
  BY <1>1, <1>3, <1>13, PlanRest DEF controlVars, s, r
<1>15. QED BY <1>8, <1>11, <1>12, <1>14 DEF IInv

\* A register on every processor of a batch.
LEMMA LoadStep ==
  ASSUME IInv, DoLoad
  PROVE  IInv'
<1> DEFINE s == Head(todo)
           r == Tail(todo)
           b == s.b
           w == Width(b)
           zeros == [i \in 1..w |-> "zero"]
<1>1. /\ todo # << >> /\ s.do = "load" /\ todo' = << >> \o r
      /\ load_batch(b, Address(model, s.msr), s.cpus)
      /\ UNCHANGED <<controlVars, fresh, refused, refusals>>
  BY DEF DoLoad, At, GoOn, Step
<1>2. IsInit(s) BY <1>1 DEF IsInit
<1>3. IsSeq(todo) /\ IsSeq(r) /\ InitStepOK(model, s) /\ << >> \o r = r /\ Gives(s) = {}
  BY <1>1, <1>2, CurrentInit
<1>4. todo' = r BY <1>1, <1>3
<1>5. StorageInv /\ size \in [Batch -> Nat] /\ ops \in [Batch -> Seq(Operation)] BY BatchTypes DEF IInv
<1>6. /\ StorageInv' /\ b \in Batch
      /\ ops' = [ops EXCEPT ![b] = ops'[b]] /\ ops'[b] \in Seq(Operation)
      /\ Len(ops'[b]) = Len(ops[b]) + w
      /\ data' = [data EXCEPT ![b] = @ \o zeros]
  BY <1>1, <1>3, <1>4, <1>5, StorageLoad DEF controlVars
<1>7. b \notin fresh
  <2>1. s = todo[1] /\ 1 \in 1..Len(todo) BY <1>1, <1>3, RestIs
  <2>2. 1 \in LoadsOf(todo, b) BY <1>1, <2>1 DEF LoadsOf
  <2>3. QED BY <1>5, <1>6, <2>2 DEF StorageInv
<1>8. w \in Nat BY Topology
<1>9. zeros \in Seq(Tag) /\ Len(zeros) = w /\ \A i \in 1..w : zeros[i] = "zero"
  <2>1. zeros \in [1..w -> Tag] BY DEF Tag
  <2>2. \A i \in 1..w : zeros[i] = "zero" OBVIOUS
  <2> HIDE DEF zeros, w
  <2>3. QED BY <1>8, <2>1, <2>2
<1> HIDE DEF s, r, b, w, zeros
<1>10. /\ data[b] \in Seq(Tag) /\ data \in [Batch -> Seq(Tag)] /\ Len(data[b]) = Len(ops[b])
  BY <1>6, BatchTypes
<1>11. /\ data'[b] = data[b] \o zeros
       /\ data'[b] \in Seq(Tag) /\ Len(data'[b]) = Len(ops'[b]) /\ data' = [data EXCEPT ![b] = data'[b]]
       /\ \A c \in Batch : c # b => data'[c] = data[c]
  <2> DEFINE x == data[b] \o zeros
  <2>1. data' = [data EXCEPT ![b] = x] BY <1>6
  <2>2. x \in Seq(Tag) /\ Len(x) = Len(data[b]) + Len(zeros)
    <3>1. data[b] \in Seq(Tag) /\ zeros \in Seq(Tag) BY <1>9, <1>10
    <3>2. QED BY <3>1
  <2>3. x = data[b] \o zeros OBVIOUS
  <2> HIDE DEF x
  <2>4. data'[b] = x /\ \A c \in Batch : c # b => data'[c] = data[c] BY <1>6, <1>10, <2>1
  <2>5. data' = [data EXCEPT ![b] = data'[b]] BY <2>1, <2>4
  <2>6. Len(x) = Len(ops'[b]) BY <1>6, <1>9, <1>10, <2>2
  <2>7. QED BY <2>2, <2>3, <2>4, <2>5, <2>6
<1>12. \A i \in DOMAIN data'[b] : (i \in DOMAIN data[b] /\ data'[b][i] = data[b][i]) \/ data'[b][i] = "zero"
  BY <1>9, <1>10, <1>11
<1>13. UNCHANGED <<batchfd, size, reg>> BY <1>1 DEF load_batch
<1>14. TypeOK'
  <2>1. reg \in [Written -> [Cpu -> Tag]] /\ batchfd \in {-1, 0, 1} BY BatchTypes
  <2>2. BatchTypeOK' BY <1>5, <1>6, <1>11, <1>13, <2>1, DataTypes
  <2>3. QED BY <1>1, <2>2 DEF IInv, TypeOK, controlVars
<1>15. ValuesInv'
  <2>1. ValuesInv BY DEF IInv
  <2>2. refusals = 0 => \A i \in DOMAIN data'[b] : data'[b][i] # "wiped" BY <1>6, <1>12, <2>1 DEF ValuesInv
  <2>3. refused => refusals > 0 BY <2>1 DEF ValuesInv
  <2>4. UNCHANGED <<fresh, refused, refusals, reg>> BY <1>1, <1>13
  <2>5. QED BY <1>6, <1>7, <1>11, <2>1, <2>2, <2>3, <2>4, ValuesData
<1>16. \A t \in Now : t \in Now'
  <2>1. UnitsOK => UnitsOK' BY <1>1 DEF controlVars, UnitsOK
  <2>2. fresh \subseteq Batch BY DEF IInv, TypeOK
  <2>3. QED BY <1>1, <1>13, <2>1, <2>2, AllTokensKept DEF controlVars
<1>17. PlanInv' /\ ImpliedInv'
  BY <1>1, <1>3, <1>16, PlanRest DEF controlVars, s, r
<1>18. QED BY <1>6, <1>14, <1>15, <1>17 DEF IInv

\* The program stores into a batch, over what it has read if it stores a field.
LEMMA PutStep ==
  ASSUME IInv, DoPut
  PROVE  IInv'
<1> DEFINE s == Head(todo)
           r == Tail(todo)
           b == s.b
           how == s.how
<1>1. /\ todo # << >> /\ s.do = "put" /\ todo' = << >> \o r
      /\ Store(b, s.msrs, how)
      /\ UNCHANGED <<controlVars, fresh, refused, refusals>>
  BY DEF DoPut, At, GoOn, Step
<1>2. /\ IsSeq(todo) /\ IsSeq(r) /\ NoInit(todo) /\ NoInit(r)
      /\ \E G : StepOK(model, G, Now, s)
  BY <1>1, CurrentRule
<1>3. /\ b \in Batch /\ b # "RAPL_UNIT" /\ how \in {"zero", "whole", "field"}
      /\ how = "field" <=> b = "FIXED_COUNTERS_CTRL_DATA"
      /\ how = "field" => WasRead(b) \in Now
  BY <1>1, <1>2 DEF StepOK
<1>4. << >> \o r = r /\ Gives(s) = {} BY <1>1, <1>2, NoneGoes DEF Gives, GivesFirst
<1>5. todo' = r BY <1>1, <1>4
<1> DEFINE new == [i \in DOMAIN data[b] |->
                     IF ops[b][i].msr \notin s.msrs THEN data[b][i]
                     ELSE IF how = "field" THEN Around(data[b][i]) ELSE how]
<1>6. data' = [data EXCEPT ![b] = new] /\ UNCHANGED <<batchfd, size, ops, reg>> BY <1>1 DEF Store
<1>7. /\ data[b] \in Seq(Tag) /\ data \in [Batch -> Seq(Tag)] /\ Len(data[b]) = Len(ops[b])
      /\ Len(data[b]) \in Nat /\ DOMAIN data[b] = 1..Len(data[b])
  BY <1>3, BatchTypes
<1>8. \A i \in DOMAIN data[b] : new[i] \in {data[b][i], Around(data[b][i]), how}
                                /\ (how = "field" => new[i] \in {data[b][i], Around(data[b][i])})
                                /\ (how # "field" => new[i] \in {data[b][i], how})
  OBVIOUS
<1>9. DOMAIN new = DOMAIN data[b] /\ new = [i \in 1..Len(data[b]) |-> new[i]] BY <1>7
<1> HIDE DEF s, r, b, how, new
<1>10. \A i \in DOMAIN data[b] : new[i] \in Tag
  <2>1. \A x : Around(x) \in Tag BY DEF Around, Tag
  <2>2. \A i \in DOMAIN data[b] : data[b][i] \in Tag BY <1>7
  <2>3. how # "field" => how \in Tag BY <1>3 DEF Tag
  <2>4. QED BY <1>8, <2>1, <2>2, <2>3
<1>11. new \in Seq(Tag) /\ Len(new) = Len(data[b])
  <2>1. new \in [1..Len(data[b]) -> Tag] BY <1>7, <1>9, <1>10
  <2>2. QED BY <1>7, <2>1
<1>12. /\ data'[b] = new /\ data' = [data EXCEPT ![b] = data'[b]]
       /\ \A c \in Batch : c # b => data'[c] = data[c]
  BY <1>3, <1>6, <1>7
<1>13. TypeOK'
  <2>1. /\ reg \in [Written -> [Cpu -> Tag]] /\ batchfd \in {-1, 0, 1} /\ size \in [Batch -> Nat]
        /\ ops \in [Batch -> Seq(Operation)] /\ ops[b] \in Seq(Operation)
    BY <1>3, BatchTypes
  <2>2. ops' = [ops EXCEPT ![b] = ops'[b]] /\ ops'[b] \in Seq(Operation) BY <1>6, <2>1
  <2>3. data'[b] \in Seq(Tag) /\ Len(data'[b]) = Len(ops'[b]) BY <1>6, <1>7, <1>11, <1>12
  <2>4. BatchTypeOK' BY <1>3, <1>6, <1>12, <2>1, <2>2, <2>3, DataTypes
  <2>5. QED BY <1>1, <2>4 DEF IInv, TypeOK, controlVars
<1>14. ValuesInv'
  <2>1. ValuesInv /\ (refused => refusals > 0) BY DEF IInv, ValuesInv
  <2>2. UNCHANGED <<fresh, refused, refusals, reg>> BY <1>1, <1>6
  <2>3. ASSUME refusals' = 0
        PROVE  /\ \A i \in DOMAIN data'[b] : data'[b][i] # "wiped"
               /\ b = "FIXED_COUNTERS_CTRL_DATA" => \A i \in DOMAIN data'[b] : data'[b][i] \in Kept
    <3>1. refusals = 0 /\ ~refused BY <2>1, <2>2, <2>3
    <3>2. \A i \in DOMAIN data[b] : data[b][i] # "wiped" BY <1>3, <2>1, <3>1 DEF ValuesInv
    <3>3. CASE how = "field"
      <4>1. b = "FIXED_COUNTERS_CTRL_DATA" /\ b \in fresh BY <1>3, <3>1, <3>3, NowIs
      <4>2. \A i \in DOMAIN data[b] : data[b][i] \in Kept BY <2>1, <3>1, <4>1 DEF ValuesInv
      <4>3. \A x \in Kept : Around(x) \in Kept BY DEF Kept, Around
      <4>4. \A i \in DOMAIN data[b] : new[i] \in Kept BY <1>8, <3>3, <4>2, <4>3
      <4>5. \A x \in Kept : x # "wiped" BY DEF Kept
      <4>6. QED BY <1>9, <1>12, <4>4, <4>5
    <3>4. CASE how # "field"
      <4>1. b # "FIXED_COUNTERS_CTRL_DATA" /\ how # "wiped" BY <1>3, <3>4
      <4>2. \A i \in DOMAIN data[b] : new[i] # "wiped" BY <1>8, <3>2, <3>4, <4>1
      <4>3. QED BY <1>9, <1>12, <4>1, <4>2
    <3>5. QED BY <3>3, <3>4
  <2>4. QED BY <1>3, <1>12, <2>1, <2>2, <2>3, ValuesData
<1>15. StorageInv' BY <1>1, <1>2, <1>5, <1>6, StorageQuiet DEF controlVars
<1>16. \A t \in Now : t \in Now'
  <2>1. UnitsOK => UnitsOK' BY <1>1 DEF controlVars, UnitsOK
  <2>2. fresh \subseteq Batch BY DEF IInv, TypeOK
  <2>3. QED BY <1>1, <1>6, <2>1, <2>2, AllTokensKept DEF controlVars
<1>17. PlanInv' /\ ImpliedInv'
  BY <1>1, <1>4, <1>16, PlanRest DEF controlVars, s, r
<1>18. QED BY <1>13, <1>14, <1>15, <1>17 DEF IInv

\* A refusal is not forgotten.
LEMMA RefuseIs ==
  ASSUME IInv, NEW S, Refuse(S)
  PROVE  /\ refusals' \in 0..MaxRefusals /\ refused' \in BOOLEAN
         /\ refusals' = 0 => refusals = 0 /\ S = {}
         /\ refused => refused'
         /\ S # {} => refused'
         /\ refused' => refusals' > 0
<1>1. /\ refusals \in 0..MaxRefusals /\ refused \in BOOLEAN /\ (refused => refusals > 0)
      /\ MaxRefusals \in Nat
  BY RefusalAssumption DEF IInv, TypeOK, ValuesInv
<1>2. CASE S = {}
  <2>1. refusals' = refusals /\ (refused' <=> refused) /\ refused' \in BOOLEAN BY <1>1, <1>2 DEF Refuse
  <2>2. QED BY <1>1, <1>2, <2>1
<1>3. CASE S # {}
  <2>1. refusals < MaxRefusals /\ refusals' = refusals + 1 BY <1>3 DEF Refuse
  <2>2. refused' /\ refused' \in BOOLEAN BY <1>3 DEF Refuse
  <2>3. refusals' \in 0..MaxRefusals /\ refusals' > 0 BY <1>1, <2>1
  <2>4. QED BY <1>3, <2>2, <2>3
<1>4. QED BY <1>2, <1>3

\* A batch that is ready is loaded.
LEMMA LoadedNow ==
  ASSUME IInv, NoInit(todo), NEW b, Ready(model, Now, b)
  PROVE  b \in Batch /\ FlagOf(b) \in done /\ ops[b] # << >> /\ WellLaid(model, b, ops[b])
<1>1. b \in Batch /\ FlagOf(b) \in done /\ Uses(model, b) BY NowIs DEF Ready
<1>2. LoadsOf(todo, b) = {} BY Settled
<1>3. QED BY <1>1, <1>2 DEF IInv, StorageInv

\* A transfer leaves every batch laid out as it was.
LEMMA StorageTransfer ==
  ASSUME IInv, IsSeq(todo), NoInit(todo), NoInit(todo'), UNCHANGED <<model, size, done>>,
         NEW b \in Batch, FlagOf(b) \in done, ops' = [ops EXCEPT ![b] = ops'[b]],
         WellLaid(model, b, ops'[b]), Len(ops'[b]) = Len(ops[b]), ops[b] # << >>,
         \A c \in fresh' : c \in fresh \/ c = b
  PROVE  StorageInv'
<1>1. StorageInv BY DEF IInv
<1>2. ops \in [Batch -> Seq(Operation)] /\ Len(ops[b]) \in Nat /\ ops[b] \in Seq(Operation)
  BY BatchTypes
<1>3. ops'[b] # << >>
  <2>1. Len(ops[b]) # 0 BY <1>2
  <2>2. ops'[b] \in Seq(Operation) BY WellLaidIs
  <2>3. QED BY <2>1, <2>2
<1>4. \A c \in Batch : c # b => ops'[c] = ops[c] BY <1>2
<1>5. \A c \in Batch : WellLaid(model, c, ops[c]) BY <1>1 DEF StorageInv
<1>6. ASSUME NEW c \in Batch
      PROVE  /\ WellLaid(model, c, ops'[c]) /\ Len(ops'[c]) = Len(ops[c])
             /\ ops[c] = << >> <=> ops'[c] = << >>
             /\ c \in fresh' => c \in fresh \/ FlagOf(c) \in done
  <2>1. CASE c = b BY <1>3, <2>1
  <2>2. CASE c # b BY <1>4, <1>5, <2>2
  <2>3. QED BY <2>1, <2>2
<1>7. QED BY <1>1, <1>6, StorageRest

\* What is read, as long as nothing refuses.
LEMMA ReadValues ==
  ASSUME IInv, NEW b \in Batch, WellLaid(model, b, ops[b]), refusals = 0
  PROVE  \A i \in DOMAIN ops[b] :
           LET v == Value(ops[b][i].msr, ops[b][i].cpu)
           IN /\ v # "wiped"
              /\ b = "FIXED_COUNTERS_CTRL_DATA" => v \in Kept
              /\ b = "RAPL_UNIT" => v = "hw"
<1>1. SUFFICES ASSUME NEW i \in DOMAIN ops[b]
               PROVE  LET v == Value(ops[b][i].msr, ops[b][i].cpu)
                      IN /\ v # "wiped"
                         /\ b = "FIXED_COUNTERS_CTRL_DATA" => v \in Kept
                         /\ b = "RAPL_UNIT" => v = "hw"
  OBVIOUS
<1> DEFINE msr == ops[b][i].msr
           c == ops[b][i].cpu
           v == Value(msr, c)
<1>2. Belongs(model, b, msr) /\ c \in Cpu BY WellLaidIs
<1>3. /\ msr \in Written => v = reg[msr][c]
      /\ msr \notin Written => v = "hw"
  BY DEF Value
<1> HIDE DEF msr, c, v
<1>4. /\ msr \in Written => reg[msr][c] # "wiped"
      /\ msr \in Controls => reg[msr][c] \in Kept
  BY <1>2 DEF IInv, ValuesInv
<1>5. v # "wiped" BY <1>3, <1>4
<1>6. b = "FIXED_COUNTERS_CTRL_DATA" => v \in Kept
  <2>1. b = "FIXED_COUNTERS_CTRL_DATA" => msr \in Controls BY <1>2 DEF Belongs
  <2>2. "hw" \in Kept BY DEF Kept
  <2>3. QED BY <1>3, <1>4, <2>1, <2>2
<1>7. b = "RAPL_UNIT" => v = "hw"
  <2>1. R("RAPL_POWER_UNIT") \notin Written
    BY DEF R, Written, PerfEvtSel, PerfMon, Registers, Absent
  <2>2. b = "RAPL_UNIT" => msr = R("RAPL_POWER_UNIT") BY <1>2 DEF Belongs
  <2>3. QED BY <1>3, <2>1, <2>2
<1>8. QED BY <1>5, <1>6, <1>7 DEF v, msr, c

\* A batch is read: what its values are for is there, unless a register refused.
LEMMA ReadStep ==
  ASSUME IInv, DoRead
  PROVE  IInv'
<1> DEFINE s == Head(todo)
           r == Tail(todo)
           b == s.b
           type == "read"
<1>1. PICK S \in RefusalSets \union {{}} :
        /\ todo # << >> /\ s.do \in {"read", "check"}
        /\ Refuse(S)
        /\ do_batch_op(b, type, S)
        /\ Failed(b, type, S) => todo' = << >> \o r
        /\ ~Failed(b, type, S) => todo' = s.then \o r
        /\ (\E i \in DOMAIN ops[b] : ops[b][i].cpu \in S) => fresh' = fresh \ {b}
        /\ ~(\E i \in DOMAIN ops[b] : ops[b][i].cpu \in S) => fresh' = fresh \union {b}
        /\ UNCHANGED controlVars
  BY DEF DoRead, At, GoOn, Step
<1>2. /\ IsSeq(todo) /\ IsSeq(r) /\ NoInit(todo) /\ NoInit(r) /\ << >> \o r = r
  BY <1>1, CurrentRule, NoneGoes
<1>3. PICK G : Sound(model, G) /\ TodoOK(model, G, Now, todo) /\ StepOK(model, G, Now, s)
  BY <1>1, CurrentRule
<1>4. /\ Ready(model, Now, b)
      /\ s.do = "read" => b \notin RatioBatches /\ s.then = << >>
      /\ s.do = "check" => Proper(G, Now \union {WasRead(b)} \union Tested(b), s.then)
  BY <1>1, <1>3 DEF StepOK
<1>5. /\ GivesFirst(s) = IF s.do = "read" THEN {WasRead(b)} ELSE {}
      /\ Gives(s) = IF s.do = "read" THEN {WasRead(b)} ELSE {}
      /\ s.do = "check" => ~Simple(s) /\ ~Plain(s)
  BY <1>1 DEF Gives, GivesFirst, Simple, Plain
<1>6. b \in Batch /\ FlagOf(b) \in done /\ ops[b] # << >> /\ WellLaid(model, b, ops[b])
  BY <1>2, <1>4, LoadedNow
<1>7. type \in {"read", "write"} /\ type = "read" OBVIOUS
<1> DEFINE hit == \E i \in DOMAIN ops[b] : ops[b][i].cpu \in S
<1>8. (hit => fresh' = fresh \ {b}) /\ (~hit => fresh' = fresh \union {b}) BY <1>1
<1>9. ~Failed(b, type, S) => batchfd' = -1 \/ ~hit BY <1>6 DEF Failed, Reached
<1>10. s = Head(todo) /\ r = Tail(todo) OBVIOUS
<1> HIDE DEF s, r, b, type
<1>11. /\ ops \in [Batch -> Seq(Operation)] /\ data \in [Batch -> Seq(Tag)]
       /\ reg \in [Written -> [Cpu -> Tag]] /\ Len(data[b]) = Len(ops[b])
       /\ size \in [Batch -> Nat] /\ fresh \subseteq Batch
  BY <1>6, BatchTypes
<1>12. /\ size' = size /\ batchfd' \in {-1, 1} /\ (batchfd = -1 => batchfd' = -1)
       /\ \E rd : Transfer(b, rd, S) /\ \A i \in DOMAIN ops[b] : rd[i] = (type = "read")
       /\ ops' = [ops EXCEPT ![b] = ops'[b]]
       /\ WellLaid(model, b, ops'[b]) /\ Len(ops'[b]) = Len(ops[b])
  BY <1>1, <1>6, <1>7, <1>11, OneDirection
<1>13. PICK rd : Transfer(b, rd, S) /\ \A i \in DOMAIN ops[b] : rd[i] BY <1>7, <1>12
<1>14. /\ reg' = reg
       /\ data' = [data EXCEPT ![b] = data'[b]]
       /\ DOMAIN data'[b] = DOMAIN ops[b]
       /\ \A i \in DOMAIN ops[b] :
            data'[b][i] = IF ops[b][i].cpu \notin S THEN Value(ops[b][i].msr, ops[b][i].cpu)
                          ELSE data[b][i]
       /\ data'[b] \in Seq(Tag) /\ Len(data'[b]) = Len(ops'[b])
  BY <1>6, <1>11, <1>12, <1>13, TransferIn
<1>15. /\ refusals' \in 0..MaxRefusals /\ refused' \in BOOLEAN
       /\ refusals' = 0 => refusals = 0 /\ S = {}
       /\ refused => refused'
       /\ S # {} => refused'
       /\ refused' => refusals' > 0
  BY <1>1, RefuseIs
<1>16. hit => refused' BY <1>15
<1>17. \A c \in fresh' : c \in fresh \/ c = b BY <1>8
<1> HIDE DEF hit
<1>18. TypeOK'
  <2>1. ops'[b] \in Seq(Operation) BY <1>12, WellLaidIs
  <2>2. BatchTypeOK' BY <1>6, <1>11, <1>12, <1>14, <2>1, DataTypes
  <2>3. fresh' \subseteq Batch BY <1>6, <1>11, <1>17
  <2>4. QED BY <1>1, <1>15, <2>2, <2>3 DEF IInv, TypeOK, controlVars
<1>19. NoInit(todo')
  <2>1. CASE todo' = << >> \o r BY <1>2, <2>1
  <2>2. CASE todo' = s.then \o r
    <3>1. CASE s.do = "read" BY <1>2, <1>4, <2>2, <3>1
    <3>2. CASE s.do = "check" BY <1>2, <1>3, <1>4, <2>2, <3>2, MoreIsSettled
    <3>3. QED BY <1>1, <3>1, <3>2
  <2>3. QED BY <1>1, <2>1, <2>2
<1>20. StorageInv'
  <2>1. UNCHANGED <<model, size, done>> BY <1>1, <1>12 DEF controlVars
  <2>2. QED BY <1>2, <1>6, <1>12, <1>17, <1>19, <2>1, StorageTransfer
<1>21. ValuesInv'
  <2>1. ValuesInv /\ \A c \in Batch : c # b => data'[c] = data[c] BY <1>11, <1>14 DEF IInv
  <2>2. ASSUME refusals' = 0
        PROVE  /\ \A i \in DOMAIN data'[b] : data'[b][i] # "wiped"
               /\ b = "FIXED_COUNTERS_CTRL_DATA" => \A i \in DOMAIN data'[b] : data'[b][i] \in Kept
               /\ b = "RAPL_UNIT" => \A i \in DOMAIN data'[b] : data'[b][i] = "hw"
    <3>1. refusals = 0 /\ S = {} BY <1>15, <2>2
    <3>2. \A i \in DOMAIN ops[b] : data'[b][i] = Value(ops[b][i].msr, ops[b][i].cpu) BY <1>14, <3>1
    <3>3. QED BY <1>6, <1>14, <3>1, <3>2, ReadValues
  <2>3. QED BY <1>6, <1>14, <1>15, <1>17, <2>1, <2>2, ValuesData
<1>22. \A t \in Now : t[1] # "checked" => t \in Now'
  <2>1. UnitsOK => UnitsOK' BY <1>1, <1>15, UnitsKept DEF controlVars
  <2>2. ~refused' => fresh \subseteq fresh' BY <1>8, <1>16
  <2>3. QED BY <1>1, <1>11, <1>15, <2>1, <2>2, TokensKept DEF controlVars
<1>23. WasRead(b) \in Now'
  <2>1. b \in (IF refused' THEN Batch ELSE fresh') BY <1>6, <1>8, <1>16
  <2>2. QED BY <2>1, NextNowIs
<1>24. model' = model /\ call' = call /\ done' = done BY <1>1 DEF controlVars
<1>25. PlanInv' /\ ImpliedInv'
  <2>1. CASE s.do = "read"
    <3>1. todo' = << >> \o r BY <1>1, <1>4, <2>1
    <3>2. \A t \in Now : t[1] = "checked" => t \in Now' BY <1>4, <1>8, <1>12, <2>1, ChecksKept
    <3>3. \A t \in Now : t \in Now' BY <1>22, <3>2
    <3>4. \A t \in Gives(Head(todo)) : t \in Now' BY <1>5, <1>10, <1>23, <2>1
    <3>5. QED BY <1>1, <1>10, <1>24, <3>1, <3>3, <3>4, PlanRest
  <2>2. CASE s.do = "check" /\ Failed(b, type, S)
    <3> DEFINE p == << >>
               E == {}
    <3>1. Proper(G, E, p) /\ todo' = p \o Tail(todo) BY <1>1, <1>10, <2>2, NoneIs DEF Proper
    <3>2. Gives(Head(todo)) = {} /\ ~Simple(Head(todo)) /\ ~Plain(Head(todo)) BY <1>5, <1>10, <2>2
    <3>3. \A t \in E : t \in Now' OBVIOUS
    <3> HIDE DEF p, E
    <3>4. QED BY <1>1, <1>3, <1>22, <1>24, <3>1, <3>2, <3>3, PlanMore
  <2>3. CASE s.do = "check" /\ ~Failed(b, type, S)
    <3> DEFINE E == Now \union {WasRead(b)} \union Tested(b)
    <3>1. batchfd' = -1 \/ ~hit BY <1>9, <2>3
    <3>2. \A t \in Now : t[1] = "checked" => t \in Now'
      <4>1. SUFFICES ASSUME NEW t \in Now, t[1] = "checked" PROVE t \in Now' OBVIOUS
      <4>2. PICK c \in RatioBatches : t = WasChecked(c) /\ (batchfd = -1 \/ c \in fresh)
        BY <4>1, NowIs, TokenKinds
      <4>3. batchfd' = -1 \/ c \in fresh' BY <1>8, <1>12, <3>1, <4>2
      <4>4. QED BY <4>2, <4>3, NextNowIs
    <3>3. \A t \in Tested(b) : t \in Now'
      <4>1. \A t \in Tested(b) : t = WasChecked(b) /\ b \in RatioBatches BY DEF Tested
      <4>2. batchfd' = -1 \/ b \in fresh' BY <1>8, <3>1
      <4>3. QED BY <4>1, <4>2, NextNowIs
    <3>4. \A t \in E : t \in Now' BY <1>22, <1>23, <3>2, <3>3
    <3>5. Proper(G, E, s.then) /\ todo' = s.then \o Tail(todo) BY <1>1, <1>4, <1>10, <2>3
    <3>6. Gives(Head(todo)) = {} /\ ~Simple(Head(todo)) /\ ~Plain(Head(todo)) BY <1>5, <1>10, <2>3
    <3> HIDE DEF E
    <3>7. QED BY <1>1, <1>3, <1>22, <1>24, <3>4, <3>5, <3>6, PlanMore
  <2>4. QED BY <1>1, <2>1, <2>2, <2>3
<1>26. QED BY <1>18, <1>20, <1>21, <1>25 DEF IInv

\* The control registers are written by nobody but their own features.
LEMMA ControlsAre ==
  /\ Controls \union {R("PKG_POWER_LIMIT"), R("MISC_ENABLE")} \subseteq Written
  /\ R("MISC_ENABLE") \notin Controls /\ R("PKG_POWER_LIMIT") \notin Controls
  /\ R("MISC_ENABLE") # R("PKG_POWER_LIMIT")
  BY DEF Controls, Written, R

\* The registers change, and the values stay what they may be.
LEMMA ValuesWritten ==
  ASSUME ValuesInv, UNCHANGED <<data, fresh>>, refusals' = 0 => refusals = 0, refused' => refusals' > 0,
         \A c \in Cpu : reg'[R("MISC_ENABLE")][c] \in Kept,
         refusals' = 0 =>
           /\ \A c \in Cpu : \A msr \in Written : reg'[msr][c] # "wiped"
           /\ \A c \in Cpu : \A msr \in Controls \union {R("PKG_POWER_LIMIT")} : reg'[msr][c] \in Kept
  PROVE  ValuesInv'
  BY DEF ValuesInv

\* A batch is written: what it puts over other bits it has read.
LEMMA WriteStep ==
  ASSUME IInv, DoWrite
  PROVE  IInv'
<1> DEFINE s == Head(todo)
           r == Tail(todo)
           b == s.b
           type == "write"
<1>1. PICK S \in RefusalSets \union {{}} :
        /\ todo # << >> /\ s.do = "write"
        /\ Refuse(S)
        /\ do_batch_op(b, type, S)
        /\ todo' = << >> \o r
        /\ UNCHANGED <<controlVars, fresh>>
  BY DEF DoWrite, At, GoOn, Step
<1>2. /\ IsSeq(todo) /\ IsSeq(r) /\ NoInit(todo) /\ NoInit(r) /\ << >> \o r = r
      /\ \E G : StepOK(model, G, Now, s)
  BY <1>1, CurrentRule, NoneGoes
<1>3. /\ Ready(model, Now, b)
      /\ b = "FIXED_COUNTERS_CTRL_DATA" => WasRead(b) \in Now
  BY <1>1, <1>2 DEF StepOK
<1>4. Gives(s) = {} BY <1>1 DEF Gives, GivesFirst
<1>5. b \in Batch /\ FlagOf(b) \in done /\ ops[b] # << >> /\ WellLaid(model, b, ops[b])
  BY <1>2, <1>3, LoadedNow
<1>6. type \in {"read", "write"} /\ type # "read" OBVIOUS
<1>7. s = Head(todo) /\ r = Tail(todo) OBVIOUS
<1> HIDE DEF s, r, b, type
<1>8. /\ ops \in [Batch -> Seq(Operation)] /\ data \in [Batch -> Seq(Tag)]
      /\ reg \in [Written -> [Cpu -> Tag]] /\ Len(data[b]) = Len(ops[b])
      /\ size \in [Batch -> Nat] /\ fresh \subseteq Batch /\ DOMAIN data[b] = DOMAIN ops[b]
  BY <1>5, BatchTypes
<1>9. /\ size' = size /\ batchfd' \in {-1, 1} /\ (batchfd = -1 => batchfd' = -1)
      /\ \E rd : Transfer(b, rd, S) /\ \A i \in DOMAIN ops[b] : rd[i] = (type = "read")
      /\ ops' = [ops EXCEPT ![b] = ops'[b]]
      /\ WellLaid(model, b, ops'[b]) /\ Len(ops'[b]) = Len(ops[b])
  <2>1. do_batch_op(b, type, S) BY <1>1
  <2>2. WellLaid(model, b, ops[b]) /\ ops[b] # << >> /\ b \in Batch BY <1>5
  <2>3. type \in {"read", "write"} BY <1>6
  <2>4. ops \in [Batch -> Seq(Operation)] BY <1>8
  <2>5. QED BY ONLY <2>1, <2>2, <2>3, <2>4, OneDirection
<1>10. PICK rd : Transfer(b, rd, S) /\ \A i \in DOMAIN ops[b] : ~rd[i] BY <1>6, <1>9
<1>11. /\ data' = data
       /\ reg' \in [Written -> [Cpu -> Tag]]
       /\ \A msr \in Written, c \in Cpu :
            \/ reg'[msr][c] = reg[msr][c]
            \/ \E i \in DOMAIN ops[b] : /\ ops[b][i].msr = msr /\ ops[b][i].cpu = c
                                        /\ reg'[msr][c] = data[b][i]
  BY <1>5, <1>8, <1>10, TransferOut
<1>12. /\ refusals' \in 0..MaxRefusals /\ refused' \in BOOLEAN
       /\ refusals' = 0 => refusals = 0 /\ S = {}
       /\ refused => refused'
       /\ refused' => refusals' > 0
  BY <1>1, RefuseIs
<1>13. TypeOK'
  <2>1. ops'[b] \in Seq(Operation) /\ data[b] \in Seq(Tag) BY <1>5, <1>9, BatchTypes, WellLaidIs
  <2>2. data' = [data EXCEPT ![b] = data'[b]] BY <1>8, <1>11
  <2>3. data'[b] \in Seq(Tag) /\ Len(data'[b]) = Len(ops'[b]) BY <1>8, <1>9, <1>11, <2>1
  <2>4. size' \in [Batch -> Nat] /\ batchfd' \in {-1, 0, 1} BY <1>8, <1>9
  <2>5. BatchTypeOK' BY <1>5, <1>9, <1>11, <2>1, <2>2, <2>3, <2>4, DataTypes
  <2>6. QED BY <1>1, <1>12, <2>5 DEF IInv, TypeOK, controlVars
<1>14. StorageInv'
  <2>1. UNCHANGED <<model, size, done>> BY <1>1, <1>9 DEF controlVars
  <2>2. NoInit(todo') /\ \A c \in fresh' : c \in fresh \/ c = b BY <1>1, <1>2
  <2>3. QED BY <1>2, <1>5, <1>9, <2>1, <2>2, StorageTransfer
<1>15. ValuesInv'
  <2>1. ValuesInv BY DEF IInv
  <2>2. ASSUME NEW msr, msr \in Written, ~Belongs(model, b, msr), NEW c \in Cpu PROVE reg'[msr][c] = reg[msr][c]
    BY <1>5, <1>11, <2>2, WellLaidIs
  <2>3. ~Belongs(model, b, R("MISC_ENABLE")) /\ ~Belongs(model, b, R("PKG_POWER_LIMIT")) BY DEF Belongs
  <2>4. \A c \in Cpu : reg'[R("MISC_ENABLE")][c] \in Kept
    BY <2>1, <2>2, <2>3, ControlsAre DEF ValuesInv
  <2>5. ASSUME refusals' = 0
        PROVE  /\ \A c \in Cpu : \A msr \in Written : reg'[msr][c] # "wiped"
               /\ \A c \in Cpu : \A msr \in Controls \union {R("PKG_POWER_LIMIT")} : reg'[msr][c] \in Kept
    <3>1. refusals = 0 /\ ~refused BY <1>12, <2>1, <2>5 DEF ValuesInv
    <3>2. /\ \A c \in Cpu : \A msr \in Written : reg[msr][c] # "wiped"
          /\ \A c \in Cpu : \A msr \in Controls \union {R("PKG_POWER_LIMIT")} : reg[msr][c] \in Kept
          /\ \A i \in DOMAIN data[b] : data[b][i] # "wiped"
      BY <1>5, <2>1, <3>1 DEF ValuesInv
    <3>3. ASSUME NEW c \in Cpu, NEW msr \in Written PROVE reg'[msr][c] # "wiped"
      <4>1. CASE reg'[msr][c] = reg[msr][c] BY <3>2, <4>1
      <4>2. CASE \E i \in DOMAIN ops[b] : reg'[msr][c] = data[b][i]
        <5>1. PICK i \in DOMAIN ops[b] : reg'[msr][c] = data[b][i] BY <4>2
        <5>2. i \in DOMAIN data[b] BY <1>8
        <5>3. data[b][i] # "wiped" BY <3>2, <5>2
        <5>4. QED BY <5>1, <5>3
      <4>3. QED BY <1>11, <4>1, <4>2
    <3>4. \A c \in Cpu : reg'[R("PKG_POWER_LIMIT")][c] \in Kept BY <2>2, <2>3, <3>2, ControlsAre
    <3>5. ASSUME NEW c \in Cpu, NEW msr \in Controls PROVE reg'[msr][c] \in Kept
      <4>1. CASE ~Belongs(model, b, msr) BY <2>2, <3>2, <4>1, ControlsAre
      <4>2. CASE Belongs(model, b, msr)
        <5>1. b = "FIXED_COUNTERS_CTRL_DATA" BY <4>2 DEF Belongs
        <5>2. b \in fresh BY <1>3, <3>1, <5>1, NowIs
        <5>3. \A i \in DOMAIN data[b] : data[b][i] \in Kept BY <2>1, <3>1, <5>1, <5>2 DEF ValuesInv
        <5>4. msr \in Written /\ reg[msr][c] \in Kept BY <3>2, ControlsAre
        <5>5. CASE reg'[msr][c] = reg[msr][c] BY <5>4, <5>5
        <5>6. CASE \E i \in DOMAIN ops[b] : reg'[msr][c] = data[b][i]
          <6>1. PICK i \in DOMAIN ops[b] : reg'[msr][c] = data[b][i] BY <5>6
          <6>2. i \in DOMAIN data[b] BY <1>8
          <6>3. data[b][i] \in Kept BY <5>3, <6>2
          <6>4. QED BY <6>1, <6>3
        <5>7. QED BY <1>11, <5>4, <5>5, <5>6
      <4>3. QED BY <4>1, <4>2
    <3>6. QED BY <3>3, <3>4, <3>5
  <2>6. QED BY <1>1, <1>11, <1>12, <2>1, <2>4, <2>5, ValuesWritten
<1>16. \A t \in Now : t \in Now'
  <2>1. UnitsOK => UnitsOK' BY <1>1, <1>12, UnitsKept DEF controlVars
  <2>2. QED BY <1>1, <1>8, <1>9, <1>12, <2>1, AllTokensKept DEF controlVars
<1>17. PlanInv' /\ ImpliedInv' BY <1>1, <1>4, <1>7, <1>16, PlanRest DEF controlVars
<1>18. QED BY <1>13, <1>14, <1>15, <1>17 DEF IInv

\* The first processor of a socket is one.
LEMMA SocketCpuIs ==
  ASSUME NEW s \in Socket
  PROVE  devidx(s, 0, 0) \in Cpu
<1>1. s + 1 \in 1..NSOCKETS /\ (s + 1) - 1 = s BY Topology DEF Socket
<1>2. SocketCpus[s + 1] = devidx((s + 1) - 1, 0, 0) /\ SocketCpus[s + 1] \in Cpu BY <1>1, SocketCpusAre
<1>3. QED BY <1>1, <1>2

\* A field is replaced.
LEMMA AroundIs ==
  ASSUME NEW x
  PROVE  Around(x) \in Tag /\ (x \in Kept => Around(x) \in Kept)
  BY DEF Around, Tag, Kept

\* One register of one processor changes, or none.
LEMMA OneWritten ==
  ASSUME NEW f \in [Written -> [Cpu -> Tag]], NEW msr \in Written, NEW c \in Cpu, NEW v, NEW g,
         g = [f EXCEPT ![msr][c] = v], v \in Tag
  PROVE  /\ g \in [Written -> [Cpu -> Tag]] /\ g[msr][c] = v
         /\ \A m \in Written, d \in Cpu : g[m][d] = f[m][d] \/ (m = msr /\ d = c /\ g[m][d] = v)
  OBVIOUS

\* The power limit of a socket.
LEMMA CapStep ==
  ASSUME IInv, DoCap
  PROVE  IInv'
<1> DEFINE s == Head(todo)
           r == Tail(todo)
           c == devidx(s.socket, 0, 0)
           msr == R("PKG_POWER_LIMIT")
<1>1. PICK Rd \in RefusalSets \union {{}}, Wr \in RefusalSets \union {{}}, fits \in BOOLEAN :
        /\ todo # << >> /\ s.do = "cap"
        /\ Refuse(Rd \union Wr)
        /\ reg' = [reg EXCEPT ![msr][c] = IF fits /\ c \notin Wr
                                          THEN Around(IF c \in Rd THEN "zero" ELSE reg[msr][c])
                                          ELSE @]
        /\ todo' = << >> \o r
        /\ UNCHANGED <<batchfd, size, ops, data, controlVars, fresh>>
  BY DEF DoCap, At, GoOn, Step
<1>2. /\ IsSeq(todo) /\ IsSeq(r) /\ NoInit(todo) /\ NoInit(r) /\ << >> \o r = r
      /\ \E G : StepOK(model, G, Now, s)
  BY <1>1, CurrentRule, NoneGoes
<1>3. c \in Cpu
  <2>1. s.socket \in Socket BY <1>1, <1>2 DEF StepOK
  <2>2. QED BY <2>1, SocketCpuIs
<1>4. Gives(s) = {} BY <1>1 DEF Gives, GivesFirst
<1>5. s = Head(todo) /\ r = Tail(todo) /\ msr = R("PKG_POWER_LIMIT") OBVIOUS
<1> DEFINE v == IF fits /\ c \notin Wr
                THEN Around(IF c \in Rd THEN "zero" ELSE reg[msr][c])
                ELSE reg[msr][c]
<1>6. reg' = [reg EXCEPT ![msr][c] = v] BY <1>1
<1>7. Rd \union Wr = {} /\ reg[msr][c] \in Kept => v \in Kept BY AroundIs
<1>8. reg[msr][c] \in Tag => v \in Tag BY AroundIs
<1> HIDE DEF s, r, c, msr, v
<1>9. msr \in Written /\ reg \in [Written -> [Cpu -> Tag]] /\ fresh \subseteq Batch
  BY <1>5, ControlsAre, BatchTypes
<1>10. v \in Tag BY <1>3, <1>8, <1>9
<1>11. /\ reg' \in [Written -> [Cpu -> Tag]]
       /\ \A m \in Written, d \in Cpu : reg'[m][d] = reg[m][d] \/ (m = msr /\ d = c /\ reg'[m][d] = v)
  BY <1>3, <1>6, <1>9, <1>10, OneWritten
<1>12. /\ refusals' \in 0..MaxRefusals /\ refused' \in BOOLEAN
       /\ refusals' = 0 => refusals = 0 /\ Rd \union Wr = {}
       /\ refused => refused'
       /\ refused' => refusals' > 0
  BY <1>1, RefuseIs
<1>13. TypeOK' BY <1>1, <1>11, <1>12 DEF IInv, TypeOK, BatchTypeOK, controlVars
<1>14. StorageInv' BY <1>1, <1>2, StorageQuiet DEF controlVars
<1>15. ValuesInv'
  <2>1. ValuesInv BY DEF IInv
  <2>2. \A d \in Cpu : reg'[R("MISC_ENABLE")][d] \in Kept
    BY <1>5, <1>11, <2>1, ControlsAre DEF ValuesInv
  <2>3. ASSUME refusals' = 0
        PROVE  /\ \A d \in Cpu : \A m \in Written : reg'[m][d] # "wiped"
               /\ \A d \in Cpu : \A m \in Controls \union {R("PKG_POWER_LIMIT")} : reg'[m][d] \in Kept
    <3>1. /\ \A d \in Cpu : \A m \in Written : reg[m][d] # "wiped"
          /\ \A d \in Cpu : \A m \in Controls \union {R("PKG_POWER_LIMIT")} : reg[m][d] \in Kept
      BY <1>12, <2>1, <2>3 DEF ValuesInv
    <3>2. v \in Kept BY <1>3, <1>5, <1>7, <1>12, <2>3, <3>1
    <3>3. \A x \in Kept : x # "wiped" BY DEF Kept
    <3>4. QED BY <1>11, <3>1, <3>2, <3>3, ControlsAre
  <2>4. QED BY <1>1, <1>12, <2>1, <2>2, <2>3, ValuesWritten
<1>16. \A t \in Now : t \in Now'
  <2>1. UnitsOK => UnitsOK' BY <1>1, <1>12, UnitsKept DEF controlVars
  <2>2. QED BY <1>1, <1>9, <1>12, <2>1, AllTokensKept DEF controlVars
<1>17. PlanInv' /\ ImpliedInv' BY <1>1, <1>4, <1>5, <1>16, PlanRest DEF controlVars
<1>18. QED BY <1>13, <1>14, <1>15, <1>17 DEF IInv

\* The turbo bit of a socket: what is written was read, whatever refuses.
LEMMA TurboStep ==
  ASSUME IInv, DoTurbo
  PROVE  IInv'
<1> DEFINE s == Head(todo)
           r == Tail(todo)
           c == devidx(s.socket, 0, 0)
           msr == R("MISC_ENABLE")
<1>1. PICK Rd \in RefusalSets \union {{}}, Wr \in RefusalSets \union {{}}, differs \in BOOLEAN :
        /\ todo # << >> /\ s.do = "turbo"
        /\ Refuse(Rd \union Wr)
        /\ reg' = [reg EXCEPT ![msr][c] = IF (c \notin Rd /\ differs) /\ c \notin Wr
                                          THEN Around(reg[msr][c]) ELSE @]
        /\ todo' = << >> \/ todo' = r
        /\ UNCHANGED <<batchfd, size, ops, data, controlVars, fresh>>
  BY DEF DoTurbo, At, Step
<1>2. /\ IsSeq(todo) /\ IsSeq(r) /\ NoInit(todo) /\ NoInit(r) /\ << >> \o r = r /\ NoInit(<< >>)
      /\ \E G : StepOK(model, G, Now, s)
  BY <1>1, CurrentRule, NoneGoes
<1>3. c \in Cpu
  <2>1. s.socket \in Socket BY <1>1, <1>2 DEF StepOK
  <2>2. QED BY <2>1, SocketCpuIs
<1>4. Gives(s) = {} /\ ~Simple(s) BY <1>1 DEF Gives, GivesFirst, Simple
<1>5. s = Head(todo) /\ r = Tail(todo) /\ msr = R("MISC_ENABLE") OBVIOUS
<1> DEFINE v == IF (c \notin Rd /\ differs) /\ c \notin Wr THEN Around(reg[msr][c]) ELSE reg[msr][c]
<1>6. reg' = [reg EXCEPT ![msr][c] = v] BY <1>1
<1>7. reg[msr][c] \in Kept => v \in Kept BY AroundIs
<1> HIDE DEF s, r, c, msr, v
<1>8. msr \in Written /\ reg \in [Written -> [Cpu -> Tag]] /\ fresh \subseteq Batch
  BY <1>5, ControlsAre, BatchTypes
<1>9. v \in Kept BY <1>3, <1>5, <1>7 DEF IInv, ValuesInv
<1>10. v \in Tag BY <1>9 DEF Kept, Tag
<1>11. /\ reg' \in [Written -> [Cpu -> Tag]]
       /\ \A m \in Written, d \in Cpu : reg'[m][d] = reg[m][d] \/ (m = msr /\ d = c /\ reg'[m][d] = v)
  BY <1>3, <1>6, <1>8, <1>10, OneWritten
<1>12. /\ refusals' \in 0..MaxRefusals /\ refused' \in BOOLEAN
       /\ refusals' = 0 => refusals = 0
       /\ refused => refused'
       /\ refused' => refusals' > 0
  BY <1>1, RefuseIs
<1>13. TypeOK' BY <1>1, <1>11, <1>12 DEF IInv, TypeOK, BatchTypeOK, controlVars
<1>14. StorageInv' BY <1>1, <1>2, StorageQuiet DEF controlVars
<1>15. ValuesInv'
  <2>1. ValuesInv BY DEF IInv
  <2>2. \A d \in Cpu : reg'[R("MISC_ENABLE")][d] \in Kept
    BY <1>5, <1>8, <1>9, <1>11, <2>1 DEF ValuesInv
  <2>3. ASSUME refusals' = 0
        PROVE  /\ \A d \in Cpu : \A m \in Written : reg'[m][d] # "wiped"
               /\ \A d \in Cpu : \A m \in Controls \union {R("PKG_POWER_LIMIT")} : reg'[m][d] \in Kept
    <3>1. /\ \A d \in Cpu : \A m \in Written : reg[m][d] # "wiped"
          /\ \A d \in Cpu : \A m \in Controls \union {R("PKG_POWER_LIMIT")} : reg[m][d] \in Kept
      BY <1>12, <2>1, <2>3 DEF ValuesInv
    <3>2. \A x \in Kept : x # "wiped" BY DEF Kept
    <3>3. QED BY <1>5, <1>9, <1>11, <3>1, <3>2, ControlsAre
  <2>4. QED BY <1>1, <1>12, <2>1, <2>2, <2>3, ValuesWritten
<1>16. \A t \in Now : t \in Now'
  <2>1. UnitsOK => UnitsOK' BY <1>1, <1>12, UnitsKept DEF controlVars
  <2>2. QED BY <1>1, <1>8, <1>12, <2>1, AllTokensKept DEF controlVars
<1>17. PlanInv' /\ ImpliedInv'
  <2>1. model' = model /\ done' = done /\ call' = call BY <1>1 DEF controlVars
  <2>2. CASE todo' = << >> BY <1>4, <1>5, <1>16, <2>1, <2>2, NoPlan
  <2>3. CASE todo' = r
    <3>1. todo' = << >> \o Tail(todo) BY <1>2, <1>5, <2>3
    <3>2. QED BY <1>1, <1>4, <1>5, <1>16, <2>1, <3>1, PlanRest
  <2>4. QED BY <1>1, <2>2, <2>3
<1>18. QED BY <1>13, <1>14, <1>15, <1>17 DEF IInv

\* The batch of the units has one operation on the unit register of each socket.
LEMMA UnitBatch ==
  ASSUME NEW m, NEW o, WellLaid(m, "RAPL_UNIT", o), o # << >>
  PROVE  /\ Len(o) = NSOCKETS /\ DOMAIN o = 1..NSOCKETS
         /\ \A s \in Socket : /\ s + 1 \in 1..NSOCKETS /\ o[s + 1].msr = R("RAPL_POWER_UNIT")
                              /\ o[s + 1].cpu = devidx(s, 0, 0)
<1> DEFINE b == "RAPL_UNIT"
<1>1. b \in PerSocket /\ (\A msr : Belongs(m, b, msr) => msr = R("RAPL_POWER_UNIT"))
  BY DEF PerSocket, Belongs
<1>2. R("RAPL_POWER_UNIT") # Absent BY DEF R, Absent
<1>3. CpusOf(b) = SocketCpus /\ Width(b) = NSOCKETS BY <1>1 DEF CpusOf, Width
<1>4. WellLaid(m, b, o) OBVIOUS
<1> HIDE DEF b
<1>5. PICK regs \in Seq(Register), rd \in BOOLEAN :
        /\ o = Laid(b, regs, rd)
        /\ \A k \in 1..Len(regs) : Belongs(m, b, regs[k])
        /\ \A j, k \in 1..Len(regs) : j # k /\ regs[j] # Absent => regs[j] # regs[k]
  BY <1>4 DEF WellLaid
<1> DEFINE n == Len(regs) * NSOCKETS
<1>6. NSOCKETS \in Nat \ {0} /\ Len(regs) \in Nat BY Topology
<1>7. /\ o \in Seq(Operation) /\ Len(o) = n /\ DOMAIN o = 1..n
      /\ \A i \in 1..n : o[i].msr = regs[((i - 1) \div NSOCKETS) + 1]
      /\ \A i \in 1..n : o[i].cpu = SocketCpus[((i - 1) % NSOCKETS) + 1]
      /\ \A i \in 1..n : ((i - 1) \div NSOCKETS) + 1 \in 1..Len(regs)
  BY <1>3, <1>5, LaidIs
<1>8. \A k \in 1..Len(regs) : regs[k] = R("RAPL_POWER_UNIT") BY <1>1, <1>5
<1>9. Len(regs) = 1
  <2>1. Len(regs) # 0
    <3>1. SUFFICES ASSUME Len(regs) = 0 PROVE FALSE OBVIOUS
    <3>2. n = 0 BY <1>6, <3>1
    <3>3. QED BY <1>7, <3>2
  <2>2. ~(Len(regs) > 1)
    <3>1. SUFFICES ASSUME Len(regs) > 1 PROVE FALSE OBVIOUS
    <3>2. 1 \in 1..Len(regs) /\ 2 \in 1..Len(regs) BY <1>6, <3>1
    <3>3. regs[1] # regs[2] BY <1>2, <1>5, <1>8, <3>2
    <3>4. QED BY <1>8, <3>2, <3>3
  <2>3. \A l \in Nat : l # 0 /\ ~(l > 1) => l = 1 OBVIOUS
  <2>4. QED BY <1>6, <2>1, <2>2, <2>3
<1>10. n = NSOCKETS BY <1>6, <1>9
<1> HIDE DEF n
<1>11. ASSUME NEW s \in Socket
       PROVE  /\ s + 1 \in 1..NSOCKETS /\ o[s + 1].msr = R("RAPL_POWER_UNIT")
              /\ o[s + 1].cpu = devidx(s, 0, 0)
  <2>1. s \in Nat /\ s + 1 \in 1..NSOCKETS /\ (s + 1) - 1 = s /\ s \in 0..(NSOCKETS - 1)
    BY <1>6 DEF Socket
  <2>2. o[s + 1].msr = R("RAPL_POWER_UNIT") BY <1>7, <1>8, <1>10, <2>1
  <2>3. s % NSOCKETS = s
    <3> DEFINE q == 0
    <3>1. q \in Nat /\ q * NSOCKETS + s = s BY <1>6, <2>1
    <3> HIDE DEF q
    <3>2. (q * NSOCKETS + s) % NSOCKETS = s BY <1>6, <2>1, <3>1, Quotient
    <3>3. QED BY <3>1, <3>2
  <2>4. ((s + 1) - 1) % NSOCKETS = s BY <2>1, <2>3
  <2>5. o[s + 1].cpu = SocketCpus[(((s + 1) - 1) % NSOCKETS) + 1] BY <1>7, <1>10, <2>1
  <2>6. SocketCpus[s + 1] = devidx((s + 1) - 1, 0, 0) BY <2>1, SocketCpusAre
  <2>7. QED BY <2>1, <2>2, <2>4, <2>5, <2>6
<1>12. QED BY <1>7, <1>10, <1>11

\* The units are taken from the batch: they were read, unless a register refused.
LEMMA TakeUnitsStep ==
  ASSUME IInv, DoTakeUnits
  PROVE  IInv'
<1> DEFINE s == Head(todo)
           r == Tail(todo)
           b == "RAPL_UNIT"
           o == ops[b]
           d == data[b]
<1>1. /\ todo # << >> /\ s.do = "take_units"
      /\ units' = [i \in DOMAIN o |-> [from |-> o[i].msr, cpu |-> o[i].cpu, val |-> d[i]]]
      /\ todo' = << >> \o r
      /\ UNCHANGED <<batchVars, model, tdp, done, call, calls, fresh, refused, refusals>>
  BY DEF DoTakeUnits, At, GoOn
<1>2. /\ IsSeq(todo) /\ IsSeq(r) /\ NoInit(todo) /\ NoInit(r) /\ << >> \o r = r
      /\ \E G : StepOK(model, G, Now, s)
  BY <1>1, CurrentRule, NoneGoes
<1>3. Flag(b) \in Now /\ WasRead(b) \in Now BY <1>1, <1>2 DEF StepOK
<1>4. b \in Batch /\ FlagOf(b) = b /\ Uses(model, b) BY DEF Batch, FlagOf, Uses
<1>5. Ready(model, Now, b) BY <1>3, <1>4 DEF Ready
<1>6. Gives(s) = {UnitsReady} BY <1>1 DEF Gives, GivesFirst
<1>7. o # << >> /\ WellLaid(model, "RAPL_UNIT", o) BY <1>2, <1>5, LoadedNow
<1> HIDE DEF o
<1>8. /\ Len(o) = NSOCKETS /\ DOMAIN o = 1..NSOCKETS
      /\ \A k \in Socket : /\ k + 1 \in 1..NSOCKETS /\ o[k + 1].msr = R("RAPL_POWER_UNIT")
                           /\ o[k + 1].cpu = devidx(k, 0, 0)
  BY <1>7, UnitBatch
<1>9. o \in Seq(Operation) /\ d \in Seq(Tag) /\ DOMAIN d = DOMAIN o /\ fresh \subseteq Batch
  BY <1>4, BatchTypes DEF o
<1>10. refusals = 0 => \A i \in DOMAIN d : d[i] = "hw"
  <2>1. SUFFICES ASSUME refusals = 0 PROVE \A i \in DOMAIN d : d[i] = "hw" OBVIOUS
  <2>2. ~refused /\ ValuesInv BY <2>1 DEF IInv, ValuesInv
  <2>3. b \in fresh BY <1>3, <2>2, NowIs
  <2>4. QED BY <2>1, <2>2, <2>3 DEF ValuesInv
<1> HIDE DEF s, r, b, d
<1> DEFINE unit(i) == [from |-> o[i].msr, cpu |-> o[i].cpu, val |-> d[i]]
           Unit == [from : Register, cpu : Cpu, val : Tag]
<1>11. ASSUME NEW i \in 1..NSOCKETS PROVE unit(i) \in Unit
  <2>1. o[i] \in Operation BY <1>8, <1>9
  <2>2. o[i].msr \in Register /\ o[i].cpu \in Cpu BY <2>1 DEF Operation
  <2>3. d[i] \in Tag BY <1>8, <1>9
  <2>4. QED BY <2>2, <2>3
<1>12. units' = [i \in 1..NSOCKETS |-> unit(i)] BY <1>1, <1>8
<1> HIDE DEF Unit
<1>13. units' \in Seq(Unit) /\ Len(units') = NSOCKETS
  <2>1. NSOCKETS \in Nat BY Topology
  <2>2. units' \in [1..NSOCKETS -> Unit] BY <1>11, <1>12
  <2>3. QED BY <2>1, <2>2
<1>14. UnitsOK'
  <2>1. refusals' = refusals BY <1>1
  <2>2. ASSUME NEW k \in Socket
        PROVE  /\ units'[k + 1].from = R("RAPL_POWER_UNIT")
               /\ units'[k + 1].cpu = devidx(k, 0, 0)
               /\ refusals' = 0 => units'[k + 1].val = "hw"
    <3>1. k + 1 \in 1..NSOCKETS BY <1>8
    <3>2. units'[k + 1] = unit(k + 1) BY <1>12, <3>1
    <3>3. QED BY <1>8, <1>9, <1>10, <2>1, <3>1, <3>2
  <2>3. QED BY <1>13, <2>2 DEF UnitsOK
<1>15. TypeOK' BY <1>1, <1>13, TypeQuiet DEF IInv, TypeOK, Unit
<1>16. StorageInv' BY <1>1, <1>2, StorageQuiet DEF batchVars
<1>17. ValuesInv' BY <1>1, ValuesQuiet DEF IInv, batchVars
<1>18. \A t \in Now : t \in Now' BY <1>1, <1>9, <1>14, AllTokensKept DEF batchVars
<1>19. PlanInv' /\ ImpliedInv'
  <2>1. \A t \in Gives(Head(todo)) : t \in Now' BY <1>6, <1>14, NextNowIs DEF s
  <2>2. QED BY <1>1, <1>18, <2>1, PlanRest DEF r
<1>20. QED BY <1>15, <1>16, <1>17, <1>19 DEF IInv

\* In the beginning nothing is allocated and nothing is to be done.
LEMMA InitIInv ==
  ASSUME Init
  PROVE  IInv
<1> DEFINE none == << >>
<1>1. /\ BatchInit /\ model \in CpuModels /\ tdp = -1 /\ todo = none /\ done = {} /\ units = none
      /\ call = "none" /\ fresh = {} /\ refused = FALSE /\ calls = 0 /\ refusals = 0
  BY DEF Init
<1>2. /\ batchfd = 0 /\ size = [b \in Batch |-> 0]
      /\ ops = [b \in Batch |-> none] /\ data = [b \in Batch |-> none]
      /\ reg = [msr \in Written |-> [c \in Cpu |-> "hw"]]
  BY <1>1 DEF BatchInit
<1>3. /\ \A S : none \in Seq(S)
      /\ Len(none) = 0 /\ DOMAIN none = {} /\ none = << >> /\ IsSeq(none) /\ NoInit(none)
  BY NoneGoes, NoneIs
<1>4. \A m, b : WellLaid(m, b, none) BY NoneLaid
<1> HIDE DEF none
<1>5. TypeOK
  <2>1. ops \in [Batch -> Seq([msr : Register, cpu : Cpu, isrdmsr : BOOLEAN])] BY <1>2, <1>3
  <2>2. data \in [Batch -> Seq(Tag)] BY <1>2, <1>3
  <2>3. size \in [Batch -> Nat] /\ batchfd \in {-1, 0, 1} BY <1>2
  <2>4. reg \in [Written -> [Cpu -> Tag]] BY <1>2 DEF Tag
  <2>5. \A b \in Batch : Len(data[b]) = Len(ops[b]) BY <1>2
  <2>6. BatchTypeOK BY <2>1, <2>2, <2>3, <2>4, <2>5 DEF BatchTypeOK
  <2>7. calls \in 0..MaxCalls /\ refusals \in 0..MaxRefusals BY <1>1, RefusalAssumption
  <2>9. refused \in BOOLEAN BY <1>1
  <2>8. QED BY <1>1, <1>3, <2>6, <2>7, <2>9 DEF TypeOK
<1>6. StorageInv
  <2>1. \A b \in Batch : ops[b] = none /\ size[b] = 0 /\ b \notin fresh BY <1>1, <1>2
  <2>2. \A k \in 1..Len(todo) : FALSE BY <1>1, <1>3
  <2>3. \A b : Filling(model, todo, b, none, 0) /\ LoadsOf(todo, b) = {} BY <1>1, <1>3, Settled
  <2>4. QED BY <1>1, <1>3, <1>4, <2>1, <2>2, <2>3 DEF StorageInv
<1>7. ValuesInv
  <2>1. \A msr \in Written, c \in Cpu : reg[msr][c] = "hw" BY <1>2
  <2>2. \A b \in Batch : DOMAIN data[b] = {} BY <1>2, <1>3
  <2>3. "hw" \in Kept BY DEF Kept
  <2>4. QED BY <1>1, <2>1, <2>2, <2>3, ControlsAre DEF ValuesInv
<1>8. ImpliedInv BY <1>1 DEF ImpliedInv
<1>9. PlanInv
  <2>1. Sound(model, {}) /\ TodoOK(model, {}, Now, todo) BY <1>1, <1>3, NoneGoes
  <2>2. QED BY <1>1, <1>3, <2>1 DEF PlanInv
<1>10. QED BY <1>5, <1>6, <1>7, <1>8, <1>9 DEF IInv

LEMMA StutterStep ==
  ASSUME IInv, UNCHANGED vars
  PROVE  IInv'
<1>1. UNCHANGED <<batchVars, controlVars, todo, fresh, refused, refusals>> BY DEF vars
<1>2. Now' = Now BY <1>1 DEF Now, UnitsOK, batchVars, controlVars
<1>3. TypeOK' BY <1>1, TypeQuiet DEF IInv, TypeOK, controlVars
<1>4. StorageInv' BY <1>1 DEF IInv, StorageInv, batchVars, controlVars
<1>5. ValuesInv' BY <1>1, ValuesQuiet DEF IInv, batchVars
<1>6. ImpliedInv' BY <1>1, <1>2 DEF IInv, ImpliedInv, controlVars
<1>7. PlanInv' BY <1>1, <1>2 DEF IInv, PlanInv, controlVars
<1>8. QED BY <1>3, <1>4, <1>5, <1>6, <1>7 DEF IInv

\* The invariant holds at every step of every call.
LEMMA IInvHolds == Spec => []IInv
<1>1. IInv /\ [Next]_vars => IInv'
  <2>1. SUFFICES ASSUME IInv, [Next]_vars PROVE IInv' OBVIOUS
  <2>2. CASE UNCHANGED vars BY <2>1, <2>2, StutterStep
  <2>3. CASE \E api \in Api(model) : Call(api) BY <2>1, <2>3, CallStep
  <2>4. CASE RunOnce BY <2>1, <2>4, OnceStep
  <2>5. CASE DoAllocate BY <2>1, <2>5, AllocateStep
  <2>6. CASE DoLoad BY <2>1, <2>6, LoadStep
  <2>7. CASE DoPut BY <2>1, <2>7, PutStep
  <2>8. CASE DoRead BY <2>1, <2>8, ReadStep
  <2>9. CASE DoWrite BY <2>1, <2>9, WriteStep
  <2>10. CASE DoShow \/ DoConvert BY <2>1, <2>10, ShowStep
  <2>11. CASE DoAgree BY <2>1, <2>11, AgreeStep
  <2>12. CASE DoTakeUnits BY <2>1, <2>12, TakeUnitsStep
  <2>13. CASE DoLevels BY <2>1, <2>13, LevelsStep
  <2>14. CASE DoCap BY <2>1, <2>14, CapStep
  <2>15. CASE DoTurbo BY <2>1, <2>15, TurboStep
  <2>16. CASE Crash BY <2>1, <2>16, CrashStep
  <2>17. CASE Return BY <2>1, <2>17, ReturnStep
  <2>18. QED BY <2>1, <2>2, <2>3, <2>4, <2>5, <2>6, <2>7, <2>8, <2>9, <2>10, <2>11, <2>12, <2>13,
                <2>14, <2>15, <2>16, <2>17 DEF Next
<1>2. QED BY InitIInv, <1>1, PTL DEF Spec

-----------------------------------------------------------------------------
\* The k-th operation of a register of its own is on the k-th processor.
LEMMA PlaceAmong ==
  ASSUME NEW m, NEW b \in PerSocket, NEW o, WellLaid(m, b, o),
         NEW i \in DOMAIN o, o[i].msr # Absent
  PROVE  LET before == {j \in 1..i : o[j].msr = o[i].msr}
         IN o[i].cpu = devidx(Cardinality(before) - 1, 0, 0)
<1>1. PICK regs \in Seq(Register), rd \in BOOLEAN :
        /\ o = Laid(b, regs, rd)
        /\ \A j, k \in 1..Len(regs) : j # k /\ regs[j] # Absent => regs[j] # regs[k]
  BY DEF WellLaid
<1> DEFINE w == NSOCKETS
           n == Len(regs) * w
           before == {j \in 1..i : o[j].msr = o[i].msr}
           q == (i - 1) \div w
           r == (i - 1) % w
           first == q * w + 1
<1>2. w \in Nat \ {0} /\ Len(regs) \in Nat BY Topology
<1>3. CpusOf(b) = SocketCpus /\ Width(b) = w BY DEF CpusOf, Width
<1>4. /\ n \in Nat /\ DOMAIN o = 1..n
      /\ \A j \in 1..n : o[j].msr = regs[((j - 1) \div w) + 1]
      /\ \A j \in 1..n : o[j].cpu = SocketCpus[((j - 1) % w) + 1]
      /\ \A j \in 1..n : ((j - 1) \div w) + 1 \in 1..Len(regs)
  BY <1>1, <1>3, LaidIs
<1>5. i \in 1..n /\ i - 1 \in Nat BY <1>4
<1>6. q \in Nat /\ r \in 0..(w - 1) /\ i - 1 = q * w + r BY <1>2, <1>5, Divides
<1>7. o[i].msr = regs[q + 1] /\ o[i].cpu = SocketCpus[r + 1] /\ q + 1 \in 1..Len(regs)
  BY <1>4, <1>5
<1>8. before = {j \in 1..i : o[j].msr = o[i].msr} OBVIOUS
<1>9. first = q * w + 1 OBVIOUS
<1> HIDE DEF w, n, q, r, first, before
<1>10. q * w \in Nat /\ first \in Nat \ {0} /\ first <= i /\ i = first + r
  <2>1. q * w \in Nat BY <1>2, <1>6
  <2>2. QED BY <1>5, <1>6, <1>9, <2>1
<1>11. 1..i \subseteq 1..n BY <1>4, <1>5
<1>12. ASSUME NEW j \in 1..i PROVE o[j].msr = o[i].msr <=> first <= j
  <2> DEFINE p == (j - 1) \div w
             x == (j - 1) % w
  <2>1. j \in 1..n /\ j - 1 \in Nat BY <1>11
  <2>2. p \in Nat /\ x \in 0..(w - 1) /\ j - 1 = p * w + x BY <1>2, <2>1, Divides
  <2>3. o[j].msr = regs[p + 1] /\ p + 1 \in 1..Len(regs) BY <1>4, <2>1
  <2> HIDE DEF p, x
  <2>4. p * w \in Nat BY <1>2, <2>2
  <2>5. o[j].msr = o[i].msr <=> p = q
    <3>1. regs[q + 1] # Absent BY <1>7
    <3>2. p # q => p + 1 # q + 1 BY <1>6, <2>2
    <3>3. QED BY <1>1, <1>7, <2>3, <3>1, <3>2
  <2>6. p = q => first <= j BY <1>10, <1>9, <2>1, <2>2, <2>4
  <2>7. ASSUME first <= j PROVE p = q
    <3>1. ASSUME p < q PROVE FALSE
      <4>1. (p + 1) * w <= q * w BY <1>2, <1>6, <2>2, <3>1, TimesMonotone
      <4>2. (p + 1) * w = p * w + w BY <1>2, <2>2
      <4>3. j - 1 < q * w BY <1>2, <1>10, <2>1, <2>2, <2>4, <4>1, <4>2
      <4>4. QED BY <1>10, <1>9, <2>1, <2>7, <4>3
    <3>2. ASSUME q < p PROVE FALSE
      <4>1. (q + 1) * w <= p * w BY <1>2, <1>6, <2>2, <3>2, TimesMonotone
      <4>2. (q + 1) * w = q * w + w BY <1>2, <1>6
      <4>3. i - 1 < p * w BY <1>2, <1>6, <1>10, <2>4, <4>1, <4>2
      <4>4. p * w <= j - 1 BY <1>2, <2>1, <2>2, <2>4
      <4>5. QED BY <1>5, <2>1, <2>4, <4>3, <4>4
    <3>3. QED BY <1>6, <2>2, <3>1, <3>2
  <2>8. QED BY <2>5, <2>6, <2>7
<1>13. before = first..i
  <2>1. \A j : j \in before <=> j \in first..i BY <1>5, <1>10, <1>8, <1>12
  <2>2. QED BY <2>1
<1>14. Cardinality(first..i) = i - first + 1 BY <1>5, <1>10, FS_Interval
<1>15. Cardinality(before) - 1 = r
  <2>1. i - first + 1 = r + 1 /\ (r + 1) - 1 = r BY <1>2, <1>6, <1>10
  <2>2. QED BY <1>13, <1>14, <2>1
<1>16. r + 1 \in 1..NSOCKETS /\ (r + 1) - 1 = r BY <1>2, <1>6 DEF w
<1>17. SocketCpus[r + 1] = devidx((r + 1) - 1, 0, 0) BY <1>16, SocketCpusAre
<1>18. QED BY <1>7, <1>15, <1>16, <1>17 DEF before

-----------------------------------------------------------------------------
\* What the invariant says of the batches, the reports and the registers.

\* The batches of batch_storage hold an operation and a value for each entry, the
\* static flags and units and the registers have values of their types, after any
\* calls of the entry points.
THEOREM FeaturesTyped == Spec => []TypeOK
<1>1. IInv => TypeOK BY DEF IInv
<1>2. QED BY IInvHolds, <1>1, PTL

\* create_batch_op never finds a batch full: no sequence of entry points loads more
\* operations into a batch than its storage function has allocated, whoever came
\* first; and read_batch and write_batch never find one empty.
THEOREM FeaturesFit == Spec => []OpsFit
<1>1. ASSUME IInv PROVE OpsFit
  <2>1. \A b \in Batch : Len(ops[b]) <= size[b] BY <1>1 DEF IInv, StorageInv
  <2>2. ASSUME todo # << >>, Head(todo).do \in {"read", "check", "write"}
        PROVE  ops[Head(todo).b] # << >>
    <3>1. NoInit(todo) /\ \E G : StepOK(model, G, Now, Head(todo)) BY <1>1, <2>2, CurrentRule
    <3>2. Ready(model, Now, Head(todo).b) BY <2>2, <3>1 DEF StepOK
    <3>3. QED BY <1>1, <3>1, <3>2, LoadedNow
  <2>3. QED BY <2>1, <2>2 DEF OpsFit, At, Step
<1>2. QED BY IInvHolds, <1>1, PTL

\* What the printing functions show was read by the call that prints it, unless a
\* register refused in this call: no entry point relies on the reading another one
\* has left in the static storage.  The uncore counters are the exception.
THEOREM ReportsFresh == Spec => []ReportsAreFresh
<1>1. ASSUME IInv PROVE ReportsAreFresh
  <2> DEFINE b == Head(todo).b
  <2>1. ASSUME todo # << >>, Head(todo).do = "show"
        PROVE  /\ b # "UNCORE_COUNT" /\ ~refused => b \in fresh
               /\ batchfd # -1 /\ b \in RatioBatches => b \in fresh
    <3>1. \E G : StepOK(model, G, Now, Head(todo)) BY <1>1, <2>1, CurrentRule
    <3>2. \/ b = "UNCORE_COUNT"
          \/ WasRead(b) \in Now /\ (b \in RatioBatches => WasChecked(b) \in Now)
      BY <2>1, <3>1 DEF StepOK
    <3>3. "UNCORE_COUNT" \notin RatioBatches BY DEF RatioBatches
    <3> HIDE DEF b
    <3>4. QED BY <3>2, <3>3, NowIs
  <2>2. QED BY <2>1 DEF ReportsAreFresh, At, Step
<1>2. QED BY IInvHolds, <1>1, PTL

\* The operations load_socket_batch has made are in the order of the sockets, each on
\* the first processor of its own, so that the value printed as that of a socket is
\* its own; and their addresses are in the table of the model, but for the uncore
\* event selectors and the DRAM of two models.
THEOREM FeaturesReach == Spec => []OpsReachTheirRegister
<1>1. ASSUME IInv PROVE OpsReachTheirRegister
  <2>1. \A b \in Batch : WellLaid(model, b, ops[b]) BY <1>1 DEF IInv, StorageInv
  <2>2. PerSocket \subseteq Batch BY DEF PerSocket, Batch
  <2>3. ASSUME NEW b \in PerSocket, NEW i \in DOMAIN ops[b]
        PROVE  LET before == {j \in 1..i : ops[b][j].msr = ops[b][i].msr}
               IN ops[b][i].msr # Absent => ops[b][i].cpu = devidx(Cardinality(before) - 1, 0, 0)
    BY <2>1, <2>2, PlaceAmong
  <2>4. ASSUME NEW b \in Batch, NEW i \in DOMAIN ops[b], ops[b][i].msr = Absent
        PROVE  b = "UNCORE_EVTSEL" \/ (b = "RAPL_DATA" /\ model \in {"2A", "2D"})
    <3>1. Belongs(model, b, ops[b][i].msr) BY <2>1, WellLaidIs
    <3>2. QED BY <2>4, <3>1 DEF Belongs
  <2>5. QED BY <2>3, <2>4 DEF OpsReachTheirRegister
<1>2. QED BY IInvHolds, <1>1, PTL

\* Of the registers the library writes, all but those it writes without a read
\* before hold what the machine had there, but for the fields replaced in what was
\* read: set_fixed_counter_ctrl and the power caps as long as no access is refused, the
\* turbo functions even where accesses are, in any sequence of calls.
THEOREM FeaturesKeepBits == Spec => []OtherBitsSurvive
<1>1. ASSUME IInv PROVE OtherBitsSurvive
  <2>1. SUFFICES ASSUME NEW msr \in Written \ WrittenWhole, NEW c \in Cpu,
                        refusals = 0 \/ msr = R("MISC_ENABLE")
                 PROVE  reg[msr][c] \in Kept
    BY DEF OtherBitsSurvive, Kept
  <2>2. msr \in Controls \union {R("PKG_POWER_LIMIT"), R("MISC_ENABLE")}
    BY DEF Written, WrittenWhole, Controls
  <2>3. CASE msr = R("MISC_ENABLE") BY <1>1, <2>3 DEF IInv, ValuesInv
  <2>4. CASE msr \in Controls \union {R("PKG_POWER_LIMIT")} /\ refusals = 0
    BY <1>1, <2>4 DEF IInv, ValuesInv
  <2>5. QED BY <2>1, <2>2, <2>3, <2>4
<1>2. QED BY IInvHolds, <1>1, PTL

\* translate has the units of every socket before it converts, taken from the unit
\* register of that socket, although the first caller decides and two callers pass
\* another register: none of them ever comes first.
THEOREM FeaturesHaveUnits == Spec => []UnitsAreTheUnits
<1>1. ASSUME IInv PROVE UnitsAreTheUnits
  <2>1. ASSUME todo # << >>, Head(todo).do = "convert" PROVE UnitsOK
    <3>1. \E G : StepOK(model, G, Now, Head(todo)) BY <1>1, <2>1, CurrentRule
    <3>2. UnitsReady \in Now BY <2>1, <3>1 DEF StepOK
    <3>3. QED BY <3>2, NowIs
  <2>2. QED BY <2>1 DEF UnitsAreTheUnits, UnitsOK, At
<1>2. QED BY IInvHolds, <1>1, PTL
=============================================================================
