----------------------- MODULE VendorFeatures_proofs -----------------------
(***************************************************************************)
(* The features of the vendor platforms, for any numbers of sockets, cores *)
(* and GPUs, any requests and any number of calls and refusals: every      *)
(* feature of every platform is a good plan, and so what it gives out is   *)
(* what it says, the caps are as asked when it says so, and what it opens  *)
(* it closes.                                                              *)
(***************************************************************************)
EXTENDS VendorRules_proofs

-----------------------------------------------------------------------------
\* AMD EPYC.

\* The library around a body.
LEMMA GoodESMI ==
  ASSUME NEW m, NEW g, NEW a, NEW c, NEW plan, NEW without,
         Good(m, g, Refused(a), without, Opened(a, esmi)), Good(m, c, Opened(a, esmi), plan, c),
         Entails(m, Closed(c, {esmi}), g)
  PROVE  Good(m, g, a, Open(esmi, << >>, without) \o Function(plan) \o Close({esmi}), g)
<1>1. Good(m, g, Opened(a, esmi), << >>, Opened(a, esmi)) BY EntailsSame, GoodNone
<1>2. Good(m, g, a, Open(esmi, << >>, without), Opened(a, esmi)) BY <1>1, GoodOpen
<1>3. Good(m, g, Opened(a, esmi), Function(plan), c) BY EntailsSame, GoodCall
<1>4. Good(m, g, c, Close({esmi}), g) BY GoodClose
<1>5. Good(m, g, Opened(a, esmi), Function(plan) \o Close({esmi}), g) BY <1>3, <1>4, GoodThen
<1>6. Good(m, g, a, Open(esmi, << >>, without) \o Function(plan), c) BY <1>2, <1>3, GoodThen
<1>7. QED BY <1>4, <1>6, GoodThen

\* Opened with nothing open before.
LEMMA OpenedBase ==
  ASSUME NEW x
  PROVE  Opened(Base({}), x) = Base({x})
<1>1. {} \union {x} = {x} OBVIOUS
<1>2. QED BY <1>1 DEF Opened, Base, Outcome, Facts

\* What is up already stays up.
LEMMA OpenedTwice ==
  ASSUME NEW x
  PROVE  Opened(Base({x}), x) = Base({x})
<1>1. {x} \union {x} = {x} OBVIOUS
<1>2. QED BY <1>1 DEF Opened, Base, Outcome, Facts

\* Closed, a file is open no more.
LEMMA ClosedOutcome ==
  ASSUME NEW m, NEW x, NEW C, NEW T, NEW H
  PROVE  Entails(m, Closed(Outcome({x}, C, T, H), {x}), Outcome({}, C, T, H))
<1>1. {x} \ {x} = {} OBVIOUS
<1>2. Closed(Outcome({x}, C, T, H), {x}) = Outcome({}, C, T, H) BY <1>1 DEF Closed, Outcome, Facts
<1>3. QED BY <1>2, EntailsSame

\* A feature of EPYC within the opening and closing of the batch device.
LEMMA ESMIFine ==
  ASSUME NEW m, NEW F, NEW H, NEW plan, NEW claims, NEW devs,
         F = [plan |-> plan, claims |-> claims, caps |-> devs], Fine(m, {esmi}, F, H)
  PROVE  Fine(m, {}, IfESMI(F), H)
<1> DEFINE g == Outcome({}, claims, devs, H)
           c == Outcome({esmi}, claims, devs, H)
           whole == Open(esmi, << >>, Complain \o Return(0)) \o Function(plan) \o Close({esmi})
<1>0. IfESMI(F) = [plan |-> whole, claims |-> claims, caps |-> devs]
  <2>1. F.plan = plan OBVIOUS
  <2>2. IfESMI(F) = [F EXCEPT !.plan = whole] BY <2>1 DEF IfESMI, WithESMI
  <2> HIDE DEF whole
  <2>3. QED BY <2>2
<1>1. IfESMI(F).plan = whole /\ IfESMI(F).claims = claims /\ IfESMI(F).caps = devs
  <2> HIDE DEF whole
  <2>1. QED BY <1>0
<1>2. Good(m, c, Base({esmi}), plan, c)
  <2>1. F.plan = plan /\ F.claims = claims /\ F.caps = devs OBVIOUS
  <2>2. QED BY <2>1 DEF Fine, Reached
<1>3. Easy(g) BY OutcomeIs
<1>4. Entails(m, Closed(c, {esmi}), g) BY ClosedOutcome
<1>5. Fine(m, {}, IfESMI(F), H) <=> Good(m, g, Base({}), whole, g) BY <1>1 DEF Fine, Reached
<1> HIDE DEF g, c
<1>6. Opened(Base({}), esmi) = Base({esmi}) BY OpenedBase
<1>7. Good(m, g, Refused(Base({})), Complain \o Return(0), Base({esmi})) BY <1>3, GoodGiveUp
<1>8. Good(m, g, Base({}), whole, g) BY <1>2, <1>4, <1>6, <1>7, GoodESMI
<1>9. QED BY <1>5, <1>8

\* The power of each socket.
LEMMA EpycPower ==
  ASSUME NEW m
  PROVE  Fine(m, {esmi}, amd_cpu_epyc_get_power, {})
<1>1. \E v, what : v = Var("current_power") /\ what = "power" OBVIOUS
<1>2. PICK v, what : v = Var("current_power") /\ what = "power" BY <1>1
<1>3. \E bodies : bodies = [k \in 0..(NSOCKETS - 1) |->
                              Reset(v) \o Get(v, <<what, k>>, esmi, Fail) \o Show({<<what, k>>}, v)]
  OBVIOUS
<1>4. PICK bodies : bodies = [k \in 0..(NSOCKETS - 1) |->
                                Reset(v) \o Get(v, <<what, k>>, esmi, Fail) \o Show({<<what, k>>}, v)]
  BY <1>3
<1>5. amd_cpu_epyc_get_power = Reporting(LoopFrom(0, NSOCKETS - 1, bodies) \o Return(0), Claims(what, 0..(NSOCKETS - 1)))
  BY <1>2, <1>4 DEF amd_cpu_epyc_get_power, EachSocket, Each, ReadOr, Of, Sockets
<1>6. \A k \in 0..(NSOCKETS - 1) : bodies[k] = Reset(v) \o Get(v, <<what, k>>, esmi, Fail) \o Show({<<what, k>>}, v)
  BY <1>4
<1>7. 0 \in Int /\ NSOCKETS - 1 \in Int /\ 0 <= (NSOCKETS - 1) + 1 BY NumbersOfDevices
<1>8. Fine(m, {esmi}, Reporting(LoopFrom(0, NSOCKETS - 1, bodies) \o Return(0), Claims(what, 0..(NSOCKETS - 1))), {})
  BY <1>6, <1>7, ListFine
<1>9. QED BY <1>5, <1>8

-----------------------------------------------------------------------------
\* The features of EPYC, their library up.

\* Power, its limit and the highest limit of each socket.
LEMMA EpycPowerLimits ==
  ASSUME NEW m
  PROVE  Fine(m, {esmi}, amd_cpu_epyc_get_power_limits, {})
<1> DEFINE t == Var("power")
           u == Var("pcap_current")
           v == Var("pcap_max")
           c(k) == <<"power", k>>
           d(k) == <<"cap", k>>
           e(k) == <<"max", k>>
           turn(k) == Reset(t) \o Reset(u) \o Reset(v)
                         \o Get(t, c(k), esmi, Fail) \o Get(u, d(k), esmi, Fail) \o Get(v, e(k), esmi, Fail)
                         \o Show({c(k)}, t) \o Show({d(k)}, u) \o Show({e(k)}, v)
           bodies == [k \in 0..(NSOCKETS - 1) |-> turn(k)]
           C == [k \in 0..(NSOCKETS - 1) |-> {{c(k)}, {d(k)}, {e(k)}}]
           all == Claims("power", Sockets) \union Claims("cap", Sockets) \union Claims("max", Sockets)
<1>1. amd_cpu_epyc_get_power_limits = Reporting(LoopFrom(0, NSOCKETS - 1, bodies) \o Return(0), all)
  BY DEF amd_cpu_epyc_get_power_limits, EachSocket, Each, Of
<1>2. t # u /\ u # v /\ t # v BY DEF Var
<1>3. \A k \in 0..(NSOCKETS - 1) : bodies[k] = turn(k) OBVIOUS
<1>4. \A k \in 0..(NSOCKETS - 1) : C[k] = {{c(k)}, {d(k)}, {e(k)}} OBVIOUS
<1>5. UNION {C[k] : k \in 0..(NSOCKETS - 1)} = all
  <2>1. ASSUME NEW z
        PROVE  z \in UNION {C[k] : k \in 0..(NSOCKETS - 1)}
                 <=> \E k \in 0..(NSOCKETS - 1) : z = {c(k)} \/ z = {d(k)} \/ z = {e(k)}
    <3> HIDE DEF C, c, d, e
    <3>1. QED BY <1>4
  <2>2. ASSUME NEW z
        PROVE  z \in all <=> \E k \in 0..(NSOCKETS - 1) : z = {c(k)} \/ z = {d(k)} \/ z = {e(k)}
    BY NumbersOfDevices DEF Claims, Of
  <2> HIDE DEF C, c, d, e, all
  <2>3. QED BY <2>1, <2>2
<1> HIDE DEF bodies, C, all, t, u, v, c, d, e
<1>6. ASSUME NEW k \in 0..(NSOCKETS - 1), NEW r, NEW x, Easy(r), Blank(x)
      PROVE  Good(m, r, x, bodies[k], Plus(x, C[k], {}, {}))
  <2>1. Good(m, r, x, turn(k), Plus(x, {{c(k)}, {d(k)}, {e(k)}}, {}, {})) BY <1>2, <1>6, ThreeReports
  <2>2. QED BY <2>1, <1>3, <1>4
<1>7. \A k \in 0..(NSOCKETS - 1) : \A r, x : Easy(r) /\ Blank(x) => Good(m, r, x, bodies[k], Plus(x, C[k], {}, {}))
  BY <1>6
<1>8. 0 \in Int /\ NSOCKETS - 1 \in Int /\ 0 <= (NSOCKETS - 1) + 1 BY NumbersOfDevices
<1>9. Fine(m, {esmi}, Reporting(LoopFrom(0, NSOCKETS - 1, bodies) \o Return(0),
                                UNION {C[k] : k \in 0..(NSOCKETS - 1)}), {})
  BY <1>7, <1>8, ReporterFine
<1>10. QED BY <1>1, <1>5, <1>9

\* The boost limit of each core.
LEMMA EpycBoostlimit ==
  ASSUME NEW m
  PROVE  Fine(m, {esmi}, amd_cpu_epyc_print_boostlimit, {})
<1> DEFINE v == Var("boostlimit")
           what == "boost"
           bodies == [k \in 0..(NCORES - 1) |->
                        Reset(v) \o Get(v, <<what, k>>, esmi, Fail) \o Show({<<what, k>>}, v)]
<1>1. \A k \in 0..(NCORES - 1) : bodies[k] = Reset(v) \o Get(v, <<what, k>>, esmi, Fail) \o Show({<<what, k>>}, v)
  OBVIOUS
<1>2. amd_cpu_epyc_print_boostlimit = Reporting(LoopFrom(0, NCORES - 1, bodies) \o Return(0), Claims(what, 0..(NCORES - 1)))
  BY DEF amd_cpu_epyc_print_boostlimit, Each, ReadOr, Of, Cores
<1>3. 0 \in Int /\ NCORES - 1 \in Int /\ 0 <= (NCORES - 1) + 1 BY NumbersOfDevices
<1> HIDE DEF v, what, bodies
<1>4. Fine(m, {esmi}, Reporting(LoopFrom(0, NCORES - 1, bodies) \o Return(0), Claims(what, 0..(NCORES - 1))), {})
  BY <1>1, <1>3, ListFine
<1>5. QED BY <1>2, <1>4

\* The same as JSON, where a reading that failed gives out the one before.
LEMMA EpycJsonBoostlimit ==
  ASSUME NEW m, "old" \in m.traits
  PROVE  Fine(m, {esmi}, amd_cpu_epyc_get_json_boostlimit, {})
<1> DEFINE v == Var("boostlimit")
           what == "boost"
           last == (NCORES \div NSOCKETS) * NSOCKETS - 1
           bodies == [k \in 0..last |-> Get(v, <<what, k>>, esmi, << >>) \o Show({<<what, k>>}, v)]
<1>1. \A k \in 0..last : bodies[k] = Get(v, <<what, k>>, esmi, << >>) \o Show({<<what, k>>}, v)
  OBVIOUS
<1>2. amd_cpu_epyc_get_json_boostlimit = Reporting(LoopFrom(0, last, bodies) \o Return(0), Claims(what, 0..last))
  BY DEF amd_cpu_epyc_get_json_boostlimit, Each, Of
<1>3. 0 \in Int /\ last \in Int /\ 0 <= last + 1
  <2>1. NCORES \div NSOCKETS \in Nat BY NumbersOfDevices
  <2>2. ASSUME NEW q \in Nat, NEW n \in Nat PROVE q * n \in Nat OBVIOUS
  <2>3. (NCORES \div NSOCKETS) * NSOCKETS \in Nat BY <2>1, <2>2, NumbersOfDevices
  <2>4. QED BY <2>3
<1> HIDE DEF v, what, bodies, last
<1>4. Fine(m, {esmi}, Reporting(LoopFrom(0, last, bodies) \o Return(0), Claims(what, 0..last)), {})
  BY <1>1, <1>3, OldListFine
<1>5. QED BY <1>2, <1>4

\* The limits of the node.
LEMMA EpycDomainInfo ==
  ASSUME NEW m
  PROVE  Fine(m, {esmi}, amd_cpu_epyc_get_node_power_domain_info_json, {})
<1> DEFINE v == Var("max_power")
           src == <<"max", 0>>
           g == Outcome({esmi}, {{src}}, {}, {})
           plan == Reset(v) \o Get(v, src, esmi, Fail) \o Show({src}, v)
<1>1. amd_cpu_epyc_get_node_power_domain_info_json = Reporting(plan \o Return(0), {{src}})
  BY DEF amd_cpu_epyc_get_node_power_domain_info_json, ReadOr, Of, Claims
<1>2. Easy(g) /\ Plus(Base({esmi}), {{src}}, {}, {}) = g /\ Blank(Base({esmi})) BY OutcomeIs DEF Base
<1> HIDE DEF v, src, g
<1>3. Mild(g, Base({esmi}), Fail) /\ v \notin DOMAIN Base({esmi}).vals BY <1>2, MildWays DEF Blank
<1>4. Good(m, g, Base({esmi}), plan, g) BY <1>2, <1>3, GoodReport
<1>5. Good(m, g, Base({esmi}), plan \o Return(0), g) BY <1>4, GoodEnd
<1>6. QED BY <1>1, <1>5 DEF Fine, Reached, Reporting, g

-----------------------------------------------------------------------------
\* The caps of EPYC.

\* A request is lowered and told to a socket.
LEMMA GoodCapSocket ==
  ASSUME NEW m, NEW r, NEW x, NEW i, Easy(r), Blank(x), <<"socket", i>> \in m.devs
  PROVE  Good(m, r, x, CapSocket(i), Plus(x, {}, {<<"socket", i>>}, {}))
<1> DEFINE dev == <<"socket", i>>
           b == Plus(x, {}, {dev}, {})
<1>1. Easy(x) /\ x.wanted = "share" BY PlusEasy DEF Blank
<1>2. Entails(m, x, x) /\ Entails(m, Refused(x), x) BY <1>1, RefusedStands, EntailsSame
<1>3. Good(m, r, x, Lower(dev, esmi), x) BY <1>1, <1>2, GoodLower
<1>4. Good(m, r, Refused(x), Fail, b) BY GoodFail
<1> HIDE DEF dev, b
<1>5. Good(m, r, x, Cap(dev, esmi, Fail), b) BY <1>1, <1>4, GoodToldCap DEF b, dev
<1>6. Good(m, r, x, Lower(dev, esmi) \o Cap(dev, esmi, Fail), b) BY <1>3, <1>5, GoodThen
<1>7. QED BY <1>6 DEF CapSocket, dev, b

\* A cap for each socket.
LEMMA EpycCapSockets ==
  ASSUME NEW m, {<<"socket", i>> : i \in Sockets} \subseteq m.devs
  PROVE  Fine(m, {esmi}, amd_cpu_epyc_set_socket_power_limit, {})
<1> DEFINE bodies == [k \in 0..(NSOCKETS - 1) |-> CapSocket(k)]
           D == [k \in 0..(NSOCKETS - 1) |-> <<"socket", k>>]
           T == [k \in 0..(NSOCKETS - 1) |-> {D[k]}]
<1>1. \A k \in 0..(NSOCKETS - 1) : bodies[k] = CapSocket(k) /\ D[k] = <<"socket", k>> OBVIOUS
<1>2. \A k \in 0..(NSOCKETS - 1) : T[k] = {D[k]} OBVIOUS
<1>3. {D[k] : k \in 0..(NSOCKETS - 1)} = {<<"socket", i>> : i \in Sockets} BY NumbersOfDevices
<1>4. amd_cpu_epyc_set_socket_power_limit
        = Capping(LoopFrom(0, NSOCKETS - 1, bodies) \o Return(0), {<<"socket", i>> : i \in Sockets})
  BY DEF amd_cpu_epyc_set_socket_power_limit, EachSocket, Each
<1> HIDE DEF bodies, D, T
<1>5. UNION {T[k] : k \in 0..(NSOCKETS - 1)} = {<<"socket", i>> : i \in Sockets} BY <1>2, <1>3, DevicesAre
<1>6. ASSUME NEW k \in 0..(NSOCKETS - 1), NEW r, NEW x, Easy(r), Blank(x)
      PROVE  Good(m, r, x, bodies[k], Plus(x, {}, T[k], {}))
  <2>1. <<"socket", k>> \in m.devs BY NumbersOfDevices
  <2>2. Good(m, r, x, CapSocket(k), Plus(x, {}, {<<"socket", k>>}, {})) BY <2>1, <1>6, GoodCapSocket
  <2>3. QED BY <1>1, <1>2, <2>2
<1>7. \A k \in 0..(NSOCKETS - 1) : \A r, x : Easy(r) /\ Blank(x) => Good(m, r, x, bodies[k], Plus(x, {}, T[k], {}))
  BY <1>6
<1>8. 0 \in Int /\ NSOCKETS - 1 \in Int /\ 0 <= (NSOCKETS - 1) + 1 BY NumbersOfDevices
<1>9. Fine(m, {esmi}, Capping(LoopFrom(0, NSOCKETS - 1, bodies) \o Return(0), UNION {T[k] : k \in 0..(NSOCKETS - 1)}), {})
  BY <1>7, <1>8, CapperFine
<1>10. QED BY <1>4, <1>5, <1>9

\* The share of each socket is read back.
LEMMA GoodBestEffort ==
  ASSUME NEW m, NEW r, NEW x, NEW i, Easy(r), Blank(x), <<"socket", i>> \in m.devs
  PROVE  Good(m, r, x, CapSocket(i) \o Verify(<<"socket", i>>, esmi, Fail, Fail),
              Plus(x, {}, {<<"socket", i>>}, {<<"socket", i>>}))
<1>1. \E dev : dev = <<"socket", i>> OBVIOUS
<1>2. PICK dev : dev = <<"socket", i>> BY <1>1
<1>3. \E y : y = Plus(x, {}, {dev}, {}) OBVIOUS
<1>4. PICK y : y = Plus(x, {}, {dev}, {}) BY <1>3
<1>5. Good(m, r, x, CapSocket(i), y) BY <1>2, <1>4, GoodCapSocket
<1>6. dev \in y.taken /\ y.wanted = "share" BY <1>4 DEF Plus, Facts, Blank
<1>7. Plus(y, {}, {}, {dev}) = Plus(x, {}, {dev}, {dev})
  <2>1. {} \union {} = {} /\ {dev} \union {} = {dev} /\ {} \union {dev} = {dev} OBVIOUS
  <2>2. Plus(y, {}, {}, {dev}) = Plus(x, {} \union {}, {dev} \union {}, {} \union {dev}) BY <1>4, PlusPlus
  <2>3. QED BY <2>1, <2>2
<1>8. Good(m, r, y, Fail, Plus(y, {}, {}, {dev})) /\ Good(m, r, Refused(y), Fail, Plus(y, {}, {}, {dev})) BY GoodFail
<1>9. Good(m, r, y, Verify(dev, esmi, Fail, Fail), Plus(y, {}, {}, {dev})) BY <1>6, <1>8, EntailsSame, GoodVerify
<1>10. Good(m, r, x, CapSocket(i) \o Verify(dev, esmi, Fail, Fail), Plus(x, {}, {dev}, {dev}))
  BY <1>5, <1>7, <1>9, GoodThen
<1>11. QED BY <1>2, <1>10

\* The node cap: the request is halved, and each socket takes its half and is read back.
LEMMA EpycBestEffort ==
  ASSUME NEW m, "halves" \in m.traits, {<<"socket", i>> : i \in Sockets} \subseteq m.devs,
         NEW F, F = IfESMI(amd_cpu_epyc_set_and_verify_best_effort_node_power_limit)
  PROVE  /\ Good(m, Outcome({}, {}, F.caps, F.caps), Start(m), F.plan, Outcome({}, {}, F.caps, F.caps))
         /\ F.claims = {}
<1> DEFINE body(k) == CapSocket(k) \o Verify(<<"socket", k>>, esmi, Fail, Fail)
           bodies == [k \in 0..(NSOCKETS - 1) |-> body(k)]
           D == [k \in 0..(NSOCKETS - 1) |-> <<"socket", k>>]
           T == [k \in 0..(NSOCKETS - 1) |-> {D[k]}]
           N == [k \in 0..(NSOCKETS - 1) |-> {}]
           devs == {<<"socket", i>> : i \in Sockets}
           inner == Divide(2) \o LoopFrom(0, NSOCKETS - 1, bodies) \o Return(0)
           whole == Open(esmi, << >>, Complain \o Return(0)) \o Function(inner) \o Close({esmi})
           c == Outcome({esmi}, {}, devs, devs)
           g == Outcome({}, {}, devs, devs)
           a == Facts(NoVals, {}, {}, {}, {}, "asked", "none")
<1>1. \A k \in 0..(NSOCKETS - 1) : bodies[k] = body(k) /\ D[k] = <<"socket", k>> /\ N[k] = {} OBVIOUS
<1>2. \A k \in 0..(NSOCKETS - 1) : T[k] = {D[k]} OBVIOUS
<1>3. {D[k] : k \in 0..(NSOCKETS - 1)} = devs BY NumbersOfDevices
<1>4. UNION {N[k] : k \in 0..(NSOCKETS - 1)} = {} OBVIOUS
<1>5. F.plan = whole /\ F.caps = devs /\ F.claims = {}
  <2>1. amd_cpu_epyc_set_and_verify_best_effort_node_power_limit = [plan |-> inner, claims |-> {}, caps |-> devs]
    BY DEF amd_cpu_epyc_set_and_verify_best_effort_node_power_limit, EachSocket, Each, Capping, BestEffort
  <2> HIDE DEF inner, devs
  <2>2. F = [[plan |-> inner, claims |-> {}, caps |-> devs] EXCEPT !.plan = whole] BY <2>1 DEF IfESMI, WithESMI
  <2> HIDE DEF whole
  <2>3. QED BY <2>2
<1>6. Easy(g) /\ Easy(c) /\ Blank(Base({esmi})) /\ Plus(Base({esmi}), {}, devs, devs) = c BY OutcomeIs DEF Base
<1>7. Entails(m, Closed(c, {esmi}), g) BY ClosedOutcome
<1>8. Entails(m, Start(m), a)
  <2>1. /\ Start(m).claims = {} /\ Start(m).opened = {} /\ Start(m).taken = {} /\ Start(m).bound = {}
        /\ Start(m).wanted = "asked" /\ Start(m).mark = "none"
    BY DEF Start, Facts
  <2>2. /\ a.claims = {} /\ a.opened = {} /\ a.taken = {} /\ a.bound = {} /\ a.wanted = "asked" /\ a.mark = "none"
        /\ DOMAIN a.vals = {}
    BY DEF Facts, NoVals
  <2> HIDE DEF a
  <2>3. QED BY <2>1, <2>2, ForgetAll
<1>9. Opened(a, esmi).wanted = "asked" /\ Shared(Opened(a, esmi)) = Base({esmi})
  <2>1. {} \union {esmi} = {esmi} OBVIOUS
  <2>2. QED BY <2>1 DEF Opened, Shared, Base, Outcome, Facts
<1> HIDE DEF a, c, g, devs, bodies, D, T, N, body
<1>10. UNION {T[k] : k \in 0..(NSOCKETS - 1)} = devs BY <1>2, <1>3, DevicesAre
<1>11. Good(m, c, Opened(a, esmi), Divide(2), Base({esmi})) BY <1>9, EntailsSame, GoodDivide
<1>12. ASSUME NEW k \in 0..(NSOCKETS - 1), NEW x, Alike(x, Base({esmi}))
       PROVE  Good(m, c, x, bodies[k], Plus(x, N[k], T[k], T[k]))
  <2>1. <<"socket", k>> \in m.devs BY NumbersOfDevices
  <2>2. Blank(x) BY <1>6, <1>12 DEF Alike, Blank
  <2>3. Good(m, c, x, body(k), Plus(x, {}, {<<"socket", k>>}, {<<"socket", k>>}))
    BY <1>6, <2>1, <2>2, GoodBestEffort DEF body
  <2>4. QED BY <1>1, <1>2, <2>3
<1>13. 0 \in Int /\ NSOCKETS - 1 \in Int /\ 0 <= (NSOCKETS - 1) + 1 BY NumbersOfDevices
<1>14. \A k \in 0..(NSOCKETS - 1) : \A x :
         Alike(x, Base({esmi})) => Good(m, c, x, bodies[k], Plus(x, N[k], T[k], T[k]))
  BY <1>12
<1>15. Good(m, c, Base({esmi}), LoopFrom(0, NSOCKETS - 1, bodies),
            Plus(Base({esmi}), UNION {N[k] : k \in 0..(NSOCKETS - 1)}, UNION {T[k] : k \in 0..(NSOCKETS - 1)},
                               UNION {T[k] : k \in 0..(NSOCKETS - 1)}))
  <2>1. \E u, last : u = Base({esmi}) /\ last = NSOCKETS - 1 OBVIOUS
  <2>2. PICK u, last : u = Base({esmi}) /\ last = NSOCKETS - 1 BY <2>1
  <2>3. \A k \in 0..last : \A x : Alike(x, u) => Good(m, c, x, bodies[k], Plus(x, N[k], T[k], T[k]))
    BY <1>14, <2>2
  <2>4. last \in Int /\ 0 <= last + 1 BY <1>13, <2>2
  <2>5. Good(m, c, u, LoopFrom(0, last, bodies),
             Plus(u, UNION {N[k] : k \in 0..last}, UNION {T[k] : k \in 0..last}, UNION {T[k] : k \in 0..last}))
    BY ONLY <2>3, <2>4, GoodEach
  <2>6. QED BY <2>2, <2>5
<1>16. Good(m, c, Base({esmi}), LoopFrom(0, NSOCKETS - 1, bodies), c) BY <1>4, <1>6, <1>10, <1>15
<1>17. Good(m, c, Opened(a, esmi), Divide(2) \o LoopFrom(0, NSOCKETS - 1, bodies), c) BY <1>11, <1>16, GoodThen
<1>18. Good(m, c, Opened(a, esmi), inner, c) BY <1>17, GoodEnd
<1>19. Good(m, g, Refused(a), Complain \o Return(0), Opened(a, esmi)) BY <1>6, GoodGiveUp
<1>20. Good(m, g, a, whole, g)
  <2> HIDE DEF inner
  <2>1. QED BY <1>7, <1>18, <1>19, GoodESMI
<1>21. Good(m, g, Start(m), whole, g) BY <1>8, <1>20, EntailsSame, GoodWeaker
<1>22. QED BY <1>5, <1>21 DEF g

\* A core that refuses ends the loop or is passed over with a message.
LEMMA EpycCapCores ==
  ASSUME NEW m, {<<"core", i>> : i \in Cores} \subseteq m.devs
  PROVE  Fine(m, {esmi}, amd_cpu_epyc_set_each_core_boostlimit, {})
<1> DEFINE no == Complain \o Fork(<< >>, Return(-1))
           bodies == [k \in 0..(NCORES - 1) |-> Cap(<<"core", k>>, esmi, no)]
           D == [k \in 0..(NCORES - 1) |-> <<"core", k>>]
           T == [k \in 0..(NCORES - 1) |-> {D[k]}]
<1>1. \A k \in 0..(NCORES - 1) : bodies[k] = Cap(D[k], esmi, no) /\ D[k] = <<"core", k>> OBVIOUS
<1>2. \A k \in 0..(NCORES - 1) : T[k] = {D[k]} OBVIOUS
<1>3. {D[k] : k \in 0..(NCORES - 1)} = {<<"core", i>> : i \in Cores} BY NumbersOfDevices
<1>4. amd_cpu_epyc_set_each_core_boostlimit
        = Capping(LoopFrom(0, NCORES - 1, bodies) \o Return(0), {<<"core", i>> : i \in Cores})
  BY DEF amd_cpu_epyc_set_each_core_boostlimit, Each
<1> HIDE DEF bodies, D, T
<1>5. UNION {T[k] : k \in 0..(NCORES - 1)} = {<<"core", i>> : i \in Cores} BY <1>2, <1>3, DevicesAre
<1>6. ASSUME NEW r, NEW x, NEW b, Easy(r), Easy(b) PROVE Good(m, r, x, no, b)
  <2>1. \E y : y = Complained(x) OBVIOUS
  <2>2. PICK y : y = Complained(x) BY <2>1
  <2>3. Good(m, r, x, Complain, y) BY <2>2, EntailsSame, GoodComplain
  <2>4. Entails(m, y, b) /\ Entails(m, y, r) BY <2>2, <1>6, ComplainedIs, Lost
  <2>5. Good(m, r, y, << >>, b) BY <2>4, GoodNone
  <2>6. Good(m, r, y, Return(-1), b) BY <2>4, GoodReturn
  <2>7. Good(m, r, y, Fork(<< >>, Return(-1)), b) BY <2>5, <2>6, GoodFork
  <2>8. QED BY <2>3, <2>7, GoodThen
<1> HIDE DEF no
<1>7. ASSUME NEW k \in 0..(NCORES - 1), NEW r, NEW x, Easy(r), Blank(x)
      PROVE  Good(m, r, x, bodies[k], Plus(x, {}, T[k], {}))
  <2>1. D[k] \in m.devs BY <1>1, NumbersOfDevices
  <2>2. Easy(Plus(x, {}, {D[k]}, {})) BY <1>7, PlusEasy
  <2>3. Good(m, r, Refused(x), no, Plus(x, {}, {D[k]}, {})) BY <1>6, <1>7, <2>2
  <2>4. Good(m, r, x, Cap(D[k], esmi, no), Plus(x, {}, {D[k]}, {})) BY <1>7, <2>1, <2>3, GoodToldCap DEF Blank
  <2>5. QED BY <1>1, <1>2, <2>4
<1>8. \A k \in 0..(NCORES - 1) : \A r, x : Easy(r) /\ Blank(x) => Good(m, r, x, bodies[k], Plus(x, {}, T[k], {}))
  BY <1>7
<1>9. 0 \in Int /\ NCORES - 1 \in Int /\ 0 <= (NCORES - 1) + 1 BY NumbersOfDevices
<1>10. Fine(m, {esmi}, Capping(LoopFrom(0, NCORES - 1, bodies) \o Return(0), UNION {T[k] : k \in 0..(NCORES - 1)}), {})
  BY <1>8, <1>9, CapperFine
<1>11. QED BY <1>4, <1>5, <1>10

\* A boost limit for a socket.
LEMMA EpycCapBoost ==
  ASSUME NEW m, NEW socket, <<"boost", socket>> \in m.devs
  PROVE  Fine(m, {esmi}, amd_cpu_epyc_set_socket_boostlimit(socket), {})
<1> DEFINE dev == <<"boost", socket>>
           g == Outcome({esmi}, {}, {dev}, {})
<1>1. amd_cpu_epyc_set_socket_boostlimit(socket) = Capping(Cap(dev, esmi, Fail) \o Return(0), {dev})
  BY DEF amd_cpu_epyc_set_socket_boostlimit
<1>2. Easy(g) /\ Plus(Base({esmi}), {}, {dev}, {}) = g /\ Base({esmi}).wanted = "share" BY OutcomeIs DEF Base
<1> HIDE DEF dev, g
<1>3. Good(m, g, Refused(Base({esmi})), Fail, g) BY <1>2, GoodFail
<1>4. Good(m, g, Base({esmi}), Cap(dev, esmi, Fail), g) BY <1>2, <1>3, GoodToldCap DEF dev
<1>5. Good(m, g, Base({esmi}), Cap(dev, esmi, Fail) \o Return(0), g) BY <1>4, GoodEnd
<1>6. QED BY <1>1, <1>5 DEF Fine, Reached, Capping, g

-----------------------------------------------------------------------------
\* The bounds of loops over sockets and over cores.
LEMMA Spans ==
  /\ 0 \in Int /\ NSOCKETS - 1 \in Int /\ 0 <= (NSOCKETS - 1) + 1 /\ NCORES - 1 \in Int /\ 0 <= (NCORES - 1) + 1
  BY NumbersOfDevices

\* A feature that gives out is fine when its plan is good.
LEMMA ReportingFine ==
  ASSUME NEW m, NEW o, NEW plan, NEW C, Good(m, Outcome(o, C, {}, {}), Base(o), plan, Outcome(o, C, {}, {}))
  PROVE  Fine(m, o, Reporting(plan, C), {})
  BY DEF Fine, Reached, Reporting

\* A feature that caps is fine when its plan is good.
LEMMA CappingFine ==
  ASSUME NEW m, NEW o, NEW plan, NEW T, NEW H, Good(m, Outcome(o, {}, T, H), Base(o), plan, Outcome(o, {}, T, H))
  PROVE  Fine(m, o, Capping(plan, T), H)
  BY DEF Fine, Reached, Capping

\* The power of each socket and of the node as JSON.
LEMMA EpycPowerJson ==
  ASSUME NEW m
  PROVE  Fine(m, {esmi}, amd_cpu_epyc_get_power_json, {})
<1> DEFINE v == Var("current_power")
           total == Var("node_power")
           what == "power"
           last == NSOCKETS - 1
           body(k) == Reset(v) \o Get(v, <<what, k>>, esmi, Fail) \o Show({<<what, k>>}, v) \o Add(total, v)
           bodies == [k \in 0..last |-> body(k)]
           all == Sum(what, 0..last)
           claims == Claims(what, 0..last) \union {all}
           g == Outcome({esmi}, claims, {}, {})
           plan == Reset(total) \o LoopFrom(0, last, bodies) \o Show(all, total)
<1>1. amd_cpu_epyc_get_power_json = Reporting(plan \o Return(0), claims)
  BY DEF amd_cpu_epyc_get_power_json, EachSocket, Each, ReadOr, Of, Sockets
<1>2. v # total BY DEF Var
<1>3. \A k \in 0..last : bodies[k] = body(k) OBVIOUS
<1>4. 0 \in Int /\ last \in Int /\ 0 <= last + 1 BY NumbersOfDevices
<1>5. Easy(g) /\ Plus(Base({esmi}), claims, {}, {}) = g /\ Blank(Base({esmi})) BY OutcomeIs DEF Base
<1>6. \E a : a = Base({esmi}) OBVIOUS
<1>7. PICK a : a = Base({esmi}) BY <1>6
<1> HIDE DEF v, total, what, last, bodies, g
<1>8. Good(m, g, a, Reset(total), WithVal(a, total, {})) BY GoodReset
<1>9. ASSUME NEW k \in 0..last, NEW x, NEW S, Alike(x, a), <<what, k>> \notin S
      PROVE  Good(m, g, WithVal(x, total, S), bodies[k],
                  WithVal(Plus(x, {{<<what, k>>}}, {}, {}), total, S \union {<<what, k>>}))
  <2>1. \E src, y, z, w : /\ src = <<what, k>> /\ y = WithVal(x, total, S)
                          /\ z = WithVal(WithVal(Plus(x, {{src}}, {}, {}), total, S), v, {src})
                          /\ w = WithVal(Plus(x, {{src}}, {}, {}), total, S \union {src})
    OBVIOUS
  <2>2. PICK src, y, z, w : /\ src = <<what, k>> /\ y = WithVal(x, total, S)
                            /\ z = WithVal(WithVal(Plus(x, {{src}}, {}, {}), total, S), v, {src})
                            /\ w = WithVal(Plus(x, {{src}}, {}, {}), total, S \union {src})
    BY <2>1
  <2>3. DOMAIN x.vals = {} /\ x.mark = "none" BY <1>5, <1>7, <1>9 DEF Alike, Blank
  <2>4. y.mark = "none" BY <2>2, <2>3, ValsAre
  <2>5. Mild(g, y, Fail) BY <1>5, <2>4, MildWays
  <2>6. Good(m, g, y, Reset(v) \o Get(v, src, esmi, Fail), WithVal(y, v, {src})) BY <2>5, GoodReadOr
  <2>7. Good(m, g, WithVal(y, v, {src}), Show({src}, v), z) /\ Good(m, g, z, Add(total, v), w)
    BY <1>2, <1>9, <2>2, <2>3, GoodAdded
  <2>8. Good(m, g, y, Reset(v) \o Get(v, src, esmi, Fail) \o Show({src}, v), z) BY <2>6, <2>7, GoodThen
  <2>9. Good(m, g, y, Reset(v) \o Get(v, src, esmi, Fail) \o Show({src}, v) \o Add(total, v), w)
    BY <2>7, <2>8, GoodThen
  <2>10. QED BY <1>3, <2>2, <2>9
<1>10. \A k \in 0..last : \A x, S :
         Alike(x, a) /\ <<what, k>> \notin S =>
           Good(m, g, WithVal(x, total, S), bodies[k],
                WithVal(Plus(x, {{<<what, k>>}}, {}, {}), total, S \union {<<what, k>>}))
  BY <1>9
<1>11. total \notin DOMAIN a.vals BY <1>5, <1>7 DEF Blank
<1>12. \E B : B = {} OBVIOUS
<1>13. PICK B : B = {} BY <1>12
<1>14. B \intersect Sum(what, 0..last) = {} /\ B \union Sum(what, 0..last) = all BY <1>13
<1>15. Good(m, g, WithVal(a, total, B), LoopFrom(0, last, bodies),
            WithVal(Plus(a, Claims(what, 0..last), {}, {}), total, B \union Sum(what, 0..last)))
  BY <1>4, <1>10, <1>11, <1>14, GoodTotals
<1>16. \E b : b = Plus(a, Claims(what, 0..last), {}, {}) OBVIOUS
<1>17. PICK b : b = Plus(a, Claims(what, 0..last), {}, {}) BY <1>16
<1> HIDE DEF all, claims
<1>18. total \notin DOMAIN b.vals BY <1>11, <1>17, PlusIs
<1>19. Good(m, g, WithVal(b, total, all), Show(all, total), Plus(b, {all}, {}, {})) BY <1>18, GoodGivenOut
<1>20. Plus(b, {all}, {}, {}) = g
  <2>1. {} \union {} = {} /\ Claims(what, 0..last) \union {all} = claims BY DEF claims
  <2>2. Plus(b, {all}, {}, {}) = Plus(a, Claims(what, 0..last) \union {all}, {} \union {}, {} \union {})
    BY <1>17, PlusPlus
  <2>3. QED BY <2>1, <2>2, <1>5, <1>7
<1>21. Good(m, g, a, Reset(total) \o LoopFrom(0, last, bodies), WithVal(b, total, all))
  BY <1>8, <1>13, <1>14, <1>15, <1>17, GoodThen
<1>22. Good(m, g, a, plan, g) BY <1>19, <1>20, <1>21, GoodThen
<1>23. Good(m, g, a, plan \o Return(0), g) BY <1>22, GoodEnd
<1>24. QED BY <1>1, <1>7, <1>23 DEF Fine, Reached, Reporting, g

-----------------------------------------------------------------------------
\* The energies of EPYC.  The batch: whatever has been done before it, after it
\* the feature returns.
LEMMA GoodEnergyData ==
  ASSUME NEW m, NEW g, NEW a, NEW b, Easy(g), "leaves" \in m.traits, a.mark \in {"none", "refused", "complained"},
         a.mark = "none" => a.claims \union Claims("core energy", Cores) = g.claims,
         g.taken = {}, g.bound = {}, g.wanted = a.wanted
  PROVE  Good(m, g, a, print_energy_data, b)
<1> DEFINE what == "core energy"
           last == NCORES - 1
           V == [k \in 0..last |-> CoreBits(k)]
           W == [v \in {CoreBits(k) : k \in 0..last} |-> {<<what, v[2]>>}]
           reads == [k \in 0..last |-> Reset(CoreBits(k)) \o Get(CoreBits(k), <<what, k>>, batchfd, << >>)]
           shows == [k \in 0..last |-> Show({<<what, k>>}, CoreBits(k))]
<1>1. print_energy_data
        = OpenOr0(batchfd, << >>, Complain \o Return(-1), << >>) \o LoopFrom(0, last, reads) \o Fork(<< >>, Crash)
            \o LoopFrom(0, last, shows) \o Return(0)
  BY DEF print_energy_data, OpenFile, Each, Of, get_rapl_unit
<1>2. ASSUME NEW k \in 0..last PROVE V[k] = CoreBits(k) /\ W[V[k]] = {<<what, k>>}
  <2>1. V[k] = CoreBits(k) OBVIOUS
  <2>2. CoreBits(k)[2] = k BY DEF CoreBits
  <2>3. W[CoreBits(k)] = {<<what, CoreBits(k)[2]>>} OBVIOUS
  <2>4. QED BY <2>1, <2>2, <2>3
<1>3. \A k \in 0..last : /\ reads[k] = Reset(CoreBits(k)) \o Get(CoreBits(k), <<what, k>>, batchfd, << >>)
                         /\ shows[k] = Show({<<what, k>>}, CoreBits(k))
  OBVIOUS
<1>4. 0 \in Int /\ last \in Int /\ 0 <= last + 1 BY ONLY Spans
<1>5. Claims(what, Cores) = {{<<what, k>>} : k \in 0..last} BY NumbersOfDevices DEF Claims, Of
<1>6. batchfd # rsmi BY DEF batchfd, rsmi
<1>7. \E o : o = Opened(a, batchfd) OBVIOUS
<1>8. PICK o : o = Opened(a, batchfd) BY <1>7
<1>9. o.claims = a.claims /\ o.wanted = a.wanted /\ o.mark = a.mark /\ o.taken = a.taken /\ o.bound = a.bound
  BY <1>8 DEF Opened, Facts
<1> HIDE DEF what, last, V, W, reads, shows
<1>10. Good(m, g, o, << >>, o) BY EntailsSame, GoodNone
<1>11. Good(m, g, Refused(a), Complain \o Return(-1), o) BY GoodGiveUp
<1>12. Good(m, g, a, OpenOr0(batchfd, << >>, Complain \o Return(-1), << >>), o)
  BY <1>6, <1>8, <1>10, <1>11, GoodOpenOr0
<1>13. ASSUME NEW k \in 0..last, NEW x, Besides(x, o)
       PROVE  Good(m, g, x, reads[k], WithVal(x, V[k], W[V[k]]))
  <2>1. Mild(g, x, << >>) BY <1>9, <1>13 DEF Mild, Besides
  <2>2. \E v, src : v = CoreBits(k) /\ src = <<what, k>> OBVIOUS
  <2>3. PICK v, src : v = CoreBits(k) /\ src = <<what, k>> BY <2>2
  <2>4. Good(m, g, x, Reset(v) \o Get(v, src, batchfd, << >>), WithVal(x, v, {src})) BY <2>1, GoodReadOr
  <2>5. QED BY <1>2, <1>3, <2>3, <2>4
<1>14. \A k \in 0..last : \A x : Besides(x, o) => Good(m, g, x, reads[k], WithVal(x, V[k], W[V[k]])) BY <1>13
<1>15. Good(m, g, o, LoopFrom(0, last, reads), Filled(o, V, W, 0..last)) BY <1>4, <1>14, GoodFill
<1>16. \A k \in 0..last : shows[k] = Show(W[V[k]], V[k]) BY <1>2, <1>3
<1>17. {W[V[k]] : k \in 0..last} = Claims(what, Cores)
  <2>1. \A k \in 0..last : W[V[k]] = {<<what, k>>} BY <1>2
  <2>2. QED BY <1>5, <2>1
<1>18. \E e, f : e = Filled(o, V, W, 0..last) /\ f = Plus(e, Claims(what, Cores), {}, {}) OBVIOUS
<1>19. PICK e, f : e = Filled(o, V, W, 0..last) /\ f = Plus(e, Claims(what, Cores), {}, {}) BY <1>18
<1>20. Good(m, g, e, LoopFrom(0, last, shows), f)
  <2>1. Good(m, g, Filled(o, V, W, 0..last), LoopFrom(0, last, shows),
             Plus(Filled(o, V, W, 0..last), {W[V[k]] : k \in 0..last}, {}, {}))
    BY ONLY <1>4, <1>16, GoodShowFilled
  <2>2. QED BY <2>1, <1>17, <1>19
<1>21. Good(m, g, e, Fork(<< >>, Crash), e) BY EntailsSame, GoodNone, GoodCrash, GoodFork
<1>22. Entails(m, f, g)
  <2>1. e.claims = o.claims /\ e.wanted = o.wanted /\ e.mark = o.mark BY <1>19 DEF Filled, Facts
  <2>2. f.claims = e.claims \union Claims(what, Cores) /\ f.wanted = e.wanted /\ f.mark = e.mark
    BY <1>19 DEF Plus, Facts
  <2>3. f.mark = "none" => f.claims = g.claims BY <2>1, <2>2, <1>9 DEF what
  <2>4. f.wanted = g.wanted BY <2>1, <2>2, <1>9
  <2>5. QED BY <2>3, <2>4 DEF Entails, Easy, Tidy, Exact
<1>23. Good(m, g, f, Return(0), b) BY <1>22, GoodReturn
<1>24. Good(m, g, a, OpenOr0(batchfd, << >>, Complain \o Return(-1), << >>) \o LoopFrom(0, last, reads), e)
  BY <1>12, <1>15, <1>19, GoodThen
<1>25. Good(m, g, a, OpenOr0(batchfd, << >>, Complain \o Return(-1), << >>) \o LoopFrom(0, last, reads)
                       \o Fork(<< >>, Crash) \o LoopFrom(0, last, shows), f)
  BY <1>20, <1>21, <1>24, GoodThen
<1>26. QED BY <1>1, <1>23, <1>25, GoodThen

\* The long form: the batch alone.
LEMMA EpycVerboseEnergy ==
  ASSUME NEW m, "leaves" \in m.traits
  PROVE  Fine(m, {esmi}, amd_cpu_epyc_print_energy(TRUE), {})
<1> DEFINE claims == Claims("core energy", Cores)
           g == Outcome({esmi}, claims, {}, {})
           plan == Open(esmi, print_energy_data, print_energy_data)
<1>1. amd_cpu_epyc_print_energy(TRUE) = Reporting(plan, claims)
  <2>1. claims \union {} = claims OBVIOUS
  <2>2. QED BY <2>1 DEF amd_cpu_epyc_print_energy
<1>2. \E a, b : a = Base({esmi}) /\ b = Refused(a) OBVIOUS
<1>3. PICK a, b : a = Base({esmi}) /\ b = Refused(a) BY <1>2
<1>4. Easy(g) /\ g.taken = {} /\ g.bound = {} /\ g.wanted = "share" /\ g.claims = claims
  BY DEF Easy, Outcome, Facts, NoVals
<1>5. a.mark = "none" /\ a.wanted = "share" /\ a.claims = {} BY <1>3, OutcomeIs DEF Base
<1>6. b.mark = "refused" /\ b.wanted = a.wanted /\ b.claims = a.claims BY <1>3, <1>5 DEF Refused, Facts
<1>7. {} \union claims = claims OBVIOUS
<1> HIDE DEF claims, g
<1>8. Good(m, g, a, print_energy_data, g) BY <1>4, <1>5, <1>7, GoodEnergyData DEF claims
<1>9. Good(m, g, b, print_energy_data, g) BY <1>4, <1>5, <1>6, <1>7, GoodEnergyData DEF claims
<1>10. Good(m, g, a, plan, g) BY <1>3, <1>8, <1>9, OpenedTwice, GoodOpen
<1>11. QED BY <1>1, <1>3, <1>10, ReportingFine DEF g

\* The short form: the sockets, then the cores, each on its own.
LEMMA EpycEnergy ==
  ASSUME NEW m, "leaves" \in m.traits
  PROVE  Fine(m, {esmi}, amd_cpu_epyc_print_energy(FALSE), {})
<1> DEFINE v == Var("energy")
           of == "socket energy"
           on == "core energy"
           S == 0..(NSOCKETS - 1)
           T == 0..(NCORES - 1)
           no == Complain \o print_energy_data
           sockets == [k \in S |-> Reset(v) \o Get(v, <<of, k>>, esmi, no) \o Show({<<of, k>>}, v)]
           cores == [k \in T |-> Reset(v) \o GetOr(v, <<on, k>>, esmi, Show({<<on, k>>}, v), Complain, Complain)]
           C == [k \in S |-> {{<<of, k>>}}]
           D == [k \in T |-> {{<<on, k>>}}]
           claims == Claims(of, S) \union Claims(on, T)
           g == Outcome({esmi}, claims, {}, {})
           short == LoopFrom(0, NSOCKETS - 1, sockets) \o LoopFrom(0, NCORES - 1, cores) \o Return(0)
           plan == Open(esmi, short, print_energy_data)
<1>1. amd_cpu_epyc_print_energy(FALSE) = Reporting(plan, claims)
  <2>1. Claims(on, Cores) \union Claims(of, Sockets) = claims BY NumbersOfDevices
  <2>2. QED BY <2>1 DEF amd_cpu_epyc_print_energy, EachSocket, Each, GetThen, Of
<1>2. \A k \in S : /\ sockets[k] = Reset(v) \o Get(v, <<of, k>>, esmi, no) \o Show({<<of, k>>}, v)
                   /\ C[k] = {{<<of, k>>}}
  OBVIOUS
<1>3. \A k \in T : /\ cores[k] = Reset(v) \o GetOr(v, <<on, k>>, esmi, Show({<<on, k>>}, v), Complain, Complain)
                   /\ D[k] = {{<<on, k>>}}
  OBVIOUS
<1>4. Easy(g) /\ g.taken = {} /\ g.bound = {} /\ g.wanted = "share" BY DEF Easy, Outcome, Facts, NoVals
<1>5. \E a, b : a = Base({esmi}) /\ b = Refused(a) OBVIOUS
<1>6. PICK a, b : a = Base({esmi}) /\ b = Refused(a) BY <1>5
<1>7. Blank(a) BY <1>6, OutcomeIs DEF Base
<1>8. b.mark = "refused" /\ b.wanted = "share" BY <1>6, <1>7 DEF Refused, Facts, Blank
<1>9. Plus(a, claims, {}, {}) = g
  <2> HIDE DEF claims
  <2>1. Plus(Base({esmi}), claims, {}, {}) = Outcome({esmi}, claims, {}, {}) BY OutcomeIs
  <2>2. QED BY <1>6, <2>1
<1> HIDE DEF v, of, on, C, D, g, sockets, cores
<1>10. ASSUME NEW y, NEW z, y.wanted = "share" PROVE Good(m, g, y, no, z)
  <2>1. \E w : w = Complained(y) OBVIOUS
  <2>2. PICK w : w = Complained(y) BY <2>1
  <2>3. w.mark = "complained" /\ w.wanted = "share" BY <2>2, <1>10 DEF Complained, Facts
  <2>4. Good(m, g, y, Complain, w) BY <2>2, EntailsSame, GoodComplain
  <2>5. Good(m, g, w, print_energy_data, z) BY <1>4, <2>3, GoodEnergyData
  <2>6. QED BY <2>4, <2>5, GoodThen
<1> HIDE DEF no
<1>11. ASSUME NEW k \in S, NEW x, Alike(x, a) PROVE Good(m, g, x, sockets[k], Plus(x, C[k], {}, {}))
  <2>1. \E src, y, z : src = <<of, k>> /\ y = WithVal(x, v, {}) /\ z = WithVal(x, v, {src}) OBVIOUS
  <2>2. PICK src, y, z : src = <<of, k>> /\ y = WithVal(x, v, {}) /\ z = WithVal(x, v, {src}) BY <2>1
  <2>3. v \notin DOMAIN x.vals /\ x.wanted = "share" BY <1>7, <1>11 DEF Alike, Blank
  <2>4. Good(m, g, x, Reset(v), y) BY <2>2, GoodReset
  <2>5. WithVal(y, v, {src}) = z BY <2>2, SetTwice
  <2>6. Refused(y).wanted = "share" BY <2>2, <2>3 DEF Refused, WithVal, Facts
  <2>7. Good(m, g, z, << >>, z) BY EntailsSame, GoodNone
  <2>8. Good(m, g, Refused(y), no, z) BY <1>10, <2>6
  <2>9. Good(m, g, y, GetOr(v, src, esmi, << >>, no, no), z) BY <2>5, <2>7, <2>8, GoodGet
  <2>10. Good(m, g, y, Get(v, src, esmi, no), z) BY <2>9 DEF Get, GetThen
  <2>11. Good(m, g, z, Show({src}, v), Plus(x, {{src}}, {}, {})) BY <2>2, <2>3, GoodGivenOut
  <2>12. Good(m, g, x, Reset(v) \o Get(v, src, esmi, no) \o Show({src}, v), Plus(x, {{src}}, {}, {}))
    BY <2>4, <2>10, <2>11, GoodThen
  <2>13. QED BY <1>2, <2>2, <2>12
<1>12. ASSUME NEW k \in T, NEW x, Alike(x, a) PROVE Good(m, g, x, cores[k], Plus(x, D[k], {}, {}))
  <2>1. \E src, y, z, w : /\ src = <<on, k>> /\ y = WithVal(x, v, {}) /\ z = WithVal(x, v, {src})
                          /\ w = Plus(x, {{src}}, {}, {})
    OBVIOUS
  <2>2. PICK src, y, z, w : /\ src = <<on, k>> /\ y = WithVal(x, v, {}) /\ z = WithVal(x, v, {src})
                            /\ w = Plus(x, {{src}}, {}, {})
    BY <2>1
  <2>3. v \notin DOMAIN x.vals /\ Blank(x) BY <1>7, <1>12 DEF Alike, Blank
  <2>4. Good(m, g, x, Reset(v), y) BY <2>2, GoodReset
  <2>5. WithVal(y, v, {src}) = z BY <2>2, SetTwice
  <2>6. Good(m, g, z, Show({src}, v), w) BY <2>2, <2>3, GoodGivenOut
  <2>7. Easy(w) BY <2>2, <2>3, PlusEasy
  <2>8. Good(m, g, Refused(y), Complain, w) BY <2>7, GoodMessage
  <2>9. Good(m, g, y, GetOr(v, src, esmi, Show({src}, v), Complain, Complain), w) BY <2>5, <2>6, <2>8, GoodGet
  <2>10. Good(m, g, x, Reset(v) \o GetOr(v, src, esmi, Show({src}, v), Complain, Complain), w)
    BY <2>4, <2>9, GoodThen
  <2>11. QED BY <1>3, <2>2, <2>10
<1>13. \A k \in S : \A x : Alike(x, a) => Good(m, g, x, sockets[k], Plus(x, C[k], {}, {})) BY <1>11
<1>14. Good(m, g, a, LoopFrom(0, NSOCKETS - 1, sockets), Plus(a, UNION {C[k] : k \in S}, {}, {}))
  BY ONLY <1>13, Spans, GoodReports
<1>15. UNION {C[k] : k \in S} = Claims(of, S)
  <2>1. \A k \in S : C[k] = {{<<of, k>>}} BY <1>2
  <2>2. QED BY ONLY <2>1, ClaimsAre
<1>16. UNION {D[k] : k \in T} = Claims(on, T)
  <2>1. \A k \in T : D[k] = {{<<on, k>>}} BY <1>3
  <2>2. QED BY ONLY <2>1, ClaimsAre
<1>17. \E d : d = Plus(a, Claims(of, S), {}, {}) OBVIOUS
<1>18. PICK d : d = Plus(a, Claims(of, S), {}, {}) BY <1>17
<1>19. Alike(d, a) BY <1>18 DEF Alike, Plus, Facts
<1>20. \A k \in T : \A x : Alike(x, d) => Good(m, g, x, cores[k], Plus(x, D[k], {}, {}))
  <2>1. \A x : Alike(x, d) => Alike(x, a) BY <1>19 DEF Alike
  <2>2. QED BY <2>1, <1>12
<1>21. Good(m, g, d, LoopFrom(0, NCORES - 1, cores), Plus(d, UNION {D[k] : k \in T}, {}, {}))
  BY ONLY <1>20, Spans, GoodReports
<1>22. Plus(d, Claims(on, T), {}, {}) = g
  <2>1. {} \union {} = {} OBVIOUS
  <2>2. Plus(d, Claims(on, T), {}, {}) = Plus(a, Claims(of, S) \union Claims(on, T), {} \union {}, {} \union {})
    BY <1>18, PlusPlus
  <2>3. QED BY <2>1, <2>2, <1>9
<1>23. Good(m, g, a, LoopFrom(0, NSOCKETS - 1, sockets), d) BY <1>14, <1>15, <1>18
<1>24. Good(m, g, d, LoopFrom(0, NCORES - 1, cores), g) BY <1>16, <1>21, <1>22
<1>25. Good(m, g, a, LoopFrom(0, NSOCKETS - 1, sockets) \o LoopFrom(0, NCORES - 1, cores), g) BY <1>23, <1>24, GoodThen
<1>26. Good(m, g, a, short, g) BY <1>25, GoodEnd
<1>27. Good(m, g, b, print_energy_data, g) BY <1>4, <1>8, GoodEnergyData
<1>28. Good(m, g, a, plan, g)
  <2> HIDE DEF short
  <2>1. QED BY <1>6, <1>26, <1>27, OpenedTwice, GoodOpen
<1>29. QED BY <1>1, <1>6, <1>28, ReportingFine DEF g

-----------------------------------------------------------------------------
\* Energies are given out with or without the library.
LEMMA EnergyFine ==
  ASSUME NEW m, NEW F, NEW plan, NEW claims, "leaves" \in m.traits,
         F = [plan |-> plan, claims |-> claims, caps |-> {}], Fine(m, {esmi}, F, {})
  PROVE  Fine(m, {}, WithESMI(F, << >>), {})
<1> DEFINE g == Outcome({}, claims, {}, {})
           c == Outcome({esmi}, claims, {}, {})
           whole == Open(esmi, << >>, << >>) \o Function(plan) \o Close({esmi})
<1>1. WithESMI(F, << >>) = Reporting(whole, claims)
  <2>1. F.plan = plan OBVIOUS
  <2>2. WithESMI(F, << >>) = [F EXCEPT !.plan = whole] BY <2>1 DEF WithESMI
  <2> HIDE DEF whole
  <2>3. QED BY <2>2 DEF Reporting
<1>2. Good(m, c, Base({esmi}), plan, c)
  <2>1. F.plan = plan /\ F.claims = claims /\ F.caps = {} OBVIOUS
  <2>2. QED BY <2>1 DEF Fine, Reached
<1>3. Entails(m, Closed(c, {esmi}), g) BY ClosedOutcome
<1>4. Opened(Base({}), esmi) = Base({esmi}) BY OpenedBase
<1>5. Entails(m, Refused(Base({})), Base({esmi}))
  <2>1. \E a, b : a = Refused(Base({})) /\ b = Base({esmi}) OBVIOUS
  <2>2. PICK a, b : a = Refused(Base({})) /\ b = Base({esmi}) BY <2>1
  <2>3. a.mark = "refused" /\ a.opened = {} /\ a.taken = {} /\ a.bound = {} /\ a.wanted = "share"
    BY <2>2 DEF Refused, Base, Outcome, Facts
  <2>4. Easy(b) /\ b.taken = {} /\ b.bound = {} /\ b.wanted = "share"
    BY <2>2 DEF Base, Outcome, Facts, Easy, NoVals
  <2>5. Entails(m, a, b) BY <2>3, <2>4 DEF Entails, Easy, Exact
  <2>6. QED BY <2>2, <2>5
<1> HIDE DEF g, c
<1>6. Good(m, g, Refused(Base({})), << >>, Base({esmi})) BY <1>5, GoodNone
<1>7. Good(m, g, Base({}), whole, g) BY <1>2, <1>3, <1>4, <1>6, GoodESMI
<1>8. QED BY <1>1, <1>7, ReportingFine DEF g

-----------------------------------------------------------------------------
\* From a feature that is fine to its goal.

\* A feature that is fine reaches its goal.
LEMMA FineFeature ==
  ASSUME NEW p, NEW f, NEW F, NEW H, Features[p][f] = F, <<p, f>> \notin Halves,
         H = IF <<p, f>> \in CapsNode THEN F.caps ELSE {}, Fine(Mode(p, f), {}, F, H)
  PROVE  Good(Mode(p, f), Goal(p, f), Start(Mode(p, f)), Features[p][f].plan, Goal(p, f))
<1> DEFINE m == Mode(p, f)
<1>1. "halves" \notin m.traits BY DEF Mode, Traits
<1>2. Goal(p, f) = Reached({}, F, H) BY DEF Goal, Reached, Outcome
<1>3. Entails(m, Start(m), Base({}))
  <2>1. \E a, b : a = Start(m) /\ b = Base({}) OBVIOUS
  <2>2. PICK a, b : a = Start(m) /\ b = Base({}) BY <2>1
  <2>3. /\ a.claims = {} /\ a.opened = {} /\ a.taken = {} /\ a.bound = {} /\ a.mark = "none" /\ a.wanted = "share"
    BY <2>2, <1>1 DEF Start, Facts
  <2>4. /\ b.claims = {} /\ b.opened = {} /\ b.taken = {} /\ b.bound = {} /\ b.mark = "none" /\ b.wanted = "share"
        /\ DOMAIN b.vals = {}
    BY <2>2 DEF Base, Outcome, Facts, NoVals
  <2>5. Entails(m, a, b) BY <2>3, <2>4, ForgetAll
  <2>6. QED BY <2>2, <2>5
<1>4. Good(m, Reached({}, F, H), Base({}), F.plan, Reached({}, F, H)) BY DEF Fine
<1> HIDE DEF m
<1>5. Good(m, Reached({}, F, H), Start(m), F.plan, Reached({}, F, H)) BY <1>3, <1>4, EntailsSame, GoodWeaker
<1>6. QED BY <1>2, <1>5 DEF m

\* The devices a feature caps are devices of its platform.
LEMMA CappedDevices ==
  ASSUME NEW p, NEW f, NEW h \in DOMAIN Features[p], NEW S, S = Features[p][h].caps
  PROVE  S \subseteq Mode(p, f).devs
  BY DEF Mode, DevicesOf, FeaturesOf

IsFeature(F) == F = [plan |-> F.plan, claims |-> F.claims, caps |-> F.caps]

\* The claims of a feature that gives out, and that it caps nothing.
LEMMA ReportingIs ==
  ASSUME NEW plan, NEW claims
  PROVE  IsFeature(Reporting(plan, claims)) /\ Reporting(plan, claims).caps = {}
         /\ Reporting(plan, claims).claims = claims
  BY DEF IsFeature, Reporting

\* The devices of a feature that caps.
LEMMA CappingIs ==
  ASSUME NEW plan, NEW devs
  PROVE  IsFeature(Capping(plan, devs)) /\ Capping(plan, devs).caps = devs
  BY DEF IsFeature, Capping

\* The features of EPYC are records, and these are their devices.
LEMMA EpycAre ==
  /\ IsFeature(amd_cpu_epyc_get_power) /\ IsFeature(amd_cpu_epyc_get_power_limits)
  /\ IsFeature(amd_cpu_epyc_set_and_verify_best_effort_node_power_limit)
  /\ amd_cpu_epyc_set_and_verify_best_effort_node_power_limit.caps = {<<"socket", i>> : i \in Sockets}
  /\ IsFeature(amd_cpu_epyc_set_socket_power_limit)
  /\ amd_cpu_epyc_set_socket_power_limit.caps = {<<"socket", i>> : i \in Sockets}
  /\ IsFeature(amd_cpu_epyc_print_energy(FALSE)) /\ amd_cpu_epyc_print_energy(FALSE).caps = {}
  /\ IsFeature(amd_cpu_epyc_print_energy(TRUE)) /\ amd_cpu_epyc_print_energy(TRUE).caps = {}
  /\ IsFeature(amd_cpu_epyc_print_boostlimit) /\ IsFeature(amd_cpu_epyc_get_json_boostlimit)
  /\ IsFeature(amd_cpu_epyc_set_each_core_boostlimit)
  /\ amd_cpu_epyc_set_each_core_boostlimit.caps = {<<"core", i>> : i \in Cores}
  /\ IsFeature(amd_cpu_epyc_set_socket_boostlimit(0))
  /\ amd_cpu_epyc_set_socket_boostlimit(0).caps = {<<"boost", 0>>}
  /\ IsFeature(amd_cpu_epyc_get_power_json) /\ IsFeature(amd_cpu_epyc_get_node_power_domain_info_json)
<1>1. /\ IsFeature(amd_cpu_epyc_get_power) /\ IsFeature(amd_cpu_epyc_get_power_limits)
      /\ IsFeature(amd_cpu_epyc_print_boostlimit) /\ IsFeature(amd_cpu_epyc_get_json_boostlimit)
      /\ IsFeature(amd_cpu_epyc_get_power_json) /\ IsFeature(amd_cpu_epyc_get_node_power_domain_info_json)
  BY ReportingIs
     DEF amd_cpu_epyc_get_power, amd_cpu_epyc_get_power_limits, amd_cpu_epyc_print_boostlimit,
         amd_cpu_epyc_get_json_boostlimit, amd_cpu_epyc_get_power_json, amd_cpu_epyc_get_node_power_domain_info_json
<1>2. /\ IsFeature(amd_cpu_epyc_set_and_verify_best_effort_node_power_limit)
      /\ amd_cpu_epyc_set_and_verify_best_effort_node_power_limit.caps = {<<"socket", i>> : i \in Sockets}
  BY CappingIs DEF amd_cpu_epyc_set_and_verify_best_effort_node_power_limit
<1>3. /\ IsFeature(amd_cpu_epyc_set_socket_power_limit)
      /\ amd_cpu_epyc_set_socket_power_limit.caps = {<<"socket", i>> : i \in Sockets}
  BY CappingIs DEF amd_cpu_epyc_set_socket_power_limit
<1>4. /\ IsFeature(amd_cpu_epyc_print_energy(FALSE)) /\ amd_cpu_epyc_print_energy(FALSE).caps = {}
  BY ReportingIs DEF amd_cpu_epyc_print_energy
<1>5. /\ IsFeature(amd_cpu_epyc_print_energy(TRUE)) /\ amd_cpu_epyc_print_energy(TRUE).caps = {}
  BY ReportingIs DEF amd_cpu_epyc_print_energy
<1>6. /\ IsFeature(amd_cpu_epyc_set_each_core_boostlimit)
      /\ amd_cpu_epyc_set_each_core_boostlimit.caps = {<<"core", i>> : i \in Cores}
  BY CappingIs DEF amd_cpu_epyc_set_each_core_boostlimit
<1>7. /\ IsFeature(amd_cpu_epyc_set_socket_boostlimit(0))
      /\ amd_cpu_epyc_set_socket_boostlimit(0).caps = {<<"boost", 0>>}
  BY CappingIs DEF amd_cpu_epyc_set_socket_boostlimit
<1>8. QED BY <1>1, <1>2, <1>3, <1>4, <1>5, <1>6, <1>7

\* A feature that is fine within the batch device is fine.
LEMMA IfESMIFine ==
  ASSUME NEW m, NEW F, IsFeature(F), Fine(m, {esmi}, F, {})
  PROVE  Fine(m, {}, IfESMI(F), {})
  BY ESMIFine DEF IsFeature

\* The opening and closing change neither claims nor devices.
LEMMA IfESMIIs ==
  ASSUME NEW F, IsFeature(F)
  PROVE  IfESMI(F).caps = F.caps /\ IfESMI(F).claims = F.claims
<1>1. PICK whole : IfESMI(F) = [F EXCEPT !.plan = whole] BY DEF IfESMI, WithESMI
<1>2. \E plan, claims, devs : F = [plan |-> plan, claims |-> claims, caps |-> devs] BY DEF IsFeature
<1>3. QED BY <1>1, <1>2

\* The features of the platform epyc.
LEMMA EpycNames ==
  /\ Features["epyc"] = EpycFeatures
  /\ DOMAIN EpycFeatures =
       {"get_power", "get_power_limits", "cap_best_effort_node_power_limit", "cap_each_socket_power_limit",
        "print_energy", "print_verbose_energy", "print_boostlimit", "get_json_boostlimit",
        "cap_each_core_frequency_limit", "cap_socket_frequency_limit", "get_power_json",
        "get_node_power_domain_info_json"}
  /\ EpycFeatures["get_power"] = IfESMI(amd_cpu_epyc_get_power)
  /\ EpycFeatures["get_power_limits"] = IfESMI(amd_cpu_epyc_get_power_limits)
  /\ EpycFeatures["cap_best_effort_node_power_limit"]
       = IfESMI(amd_cpu_epyc_set_and_verify_best_effort_node_power_limit)
  /\ EpycFeatures["cap_each_socket_power_limit"] = IfESMI(amd_cpu_epyc_set_socket_power_limit)
  /\ EpycFeatures["print_energy"] = WithESMI(amd_cpu_epyc_print_energy(FALSE), << >>)
  /\ EpycFeatures["print_verbose_energy"] = WithESMI(amd_cpu_epyc_print_energy(TRUE), << >>)
  /\ EpycFeatures["print_boostlimit"] = IfESMI(amd_cpu_epyc_print_boostlimit)
  /\ EpycFeatures["get_json_boostlimit"] = IfESMI(amd_cpu_epyc_get_json_boostlimit)
  /\ EpycFeatures["cap_each_core_frequency_limit"] = IfESMI(amd_cpu_epyc_set_each_core_boostlimit)
  /\ EpycFeatures["cap_socket_frequency_limit"] = IfESMI(amd_cpu_epyc_set_socket_boostlimit(0))
  /\ EpycFeatures["get_power_json"] = IfESMI(amd_cpu_epyc_get_power_json)
  /\ EpycFeatures["get_node_power_domain_info_json"] = IfESMI(amd_cpu_epyc_get_node_power_domain_info_json)
<1>1. Features["epyc"] = EpycFeatures BY DEF Features
<1>2. QED BY <1>1 DEF EpycFeatures

\* The devices the caps of EPYC are for.
LEMMA EpycDevices ==
  ASSUME NEW f
  PROVE  /\ {<<"socket", i>> : i \in Sockets} \subseteq Mode("epyc", f).devs
         /\ {<<"core", i>> : i \in Cores} \subseteq Mode("epyc", f).devs
         /\ <<"boost", 0>> \in Mode("epyc", f).devs
<1>1. \E p, h, i, j : /\ p = "epyc" /\ h = "cap_each_socket_power_limit" /\ i = "cap_each_core_frequency_limit"
                      /\ j = "cap_socket_frequency_limit"
  OBVIOUS
<1>2. PICK p, h, i, j : /\ p = "epyc" /\ h = "cap_each_socket_power_limit" /\ i = "cap_each_core_frequency_limit"
                        /\ j = "cap_socket_frequency_limit"
  BY <1>1
<1>3. h \in DOMAIN Features[p] /\ i \in DOMAIN Features[p] /\ j \in DOMAIN Features[p] BY <1>2, EpycNames
<1>4. /\ Features[p][h].caps = {<<"socket", k>> : k \in Sockets} /\ Features[p][i].caps = {<<"core", k>> : k \in Cores}
      /\ Features[p][j].caps = {<<"boost", 0>>}
  <2>1. Features[p][h] = IfESMI(amd_cpu_epyc_set_socket_power_limit) BY <1>2, EpycNames
  <2>2. Features[p][i] = IfESMI(amd_cpu_epyc_set_each_core_boostlimit) BY <1>2, EpycNames
  <2>3. Features[p][j] = IfESMI(amd_cpu_epyc_set_socket_boostlimit(0)) BY <1>2, EpycNames
  <2>4. QED BY <2>1, <2>2, <2>3, EpycAre, IfESMIIs
<1>5. {<<"socket", k>> : k \in Sockets} \subseteq Mode(p, f).devs BY <1>3, <1>4, CappedDevices
<1>6. {<<"core", k>> : k \in Cores} \subseteq Mode(p, f).devs BY <1>3, <1>4, CappedDevices
<1>7. {<<"boost", 0>>} \subseteq Mode(p, f).devs BY <1>3, <1>4, CappedDevices
<1>8. QED BY <1>2, <1>5, <1>6, <1>7

\* What a feature of the platform p may leave aside.
LEMMA TraitsOf ==
  ASSUME NEW p, NEW f
  PROVE  /\ <<p, f>> \in KeepOldValues => "old" \in Mode(p, f).traits
         /\ <<p, f>> \in NeverAsks => "never" \in Mode(p, f).traits
         /\ <<p, f>> \in NeverCloses => "leaves" \in Mode(p, f).traits
         /\ <<p, f>> \in CapBlindly => "blind" \in Mode(p, f).traits
         /\ <<p, f>> \in Halves => "halves" \in Mode(p, f).traits
  BY DEF Mode, Traits

\* Each feature of EPYC is good.
LEMMA EpycGood ==
  ASSUME NEW f \in DOMAIN Features["epyc"]
  PROVE  Good(Mode("epyc", f), Goal("epyc", f), Start(Mode("epyc", f)), Features["epyc"][f].plan, Goal("epyc", f))
<1> DEFINE p == "epyc"
           m == Mode(p, f)
           F == Features[p][f]
<1>1. F = EpycFeatures[f] /\ f \in DOMAIN EpycFeatures BY EpycNames
<1>2. <<p, f>> \in KeepOldValues <=> f = "get_json_boostlimit" BY DEF KeepOldValues
<1>3. /\ f \in {"print_energy", "print_verbose_energy"} => <<p, f>> \in NeverCloses
      /\ f = "get_json_boostlimit" => <<p, f>> \in KeepOldValues
      /\ <<p, f>> \in Halves <=> f = "cap_best_effort_node_power_limit"
      /\ <<p, f>> \in CapsNode <=> f = "cap_best_effort_node_power_limit"
  BY DEF KeepOldValues, NeverCloses, Halves, CapsNode
<1>4. /\ f \in {"print_energy", "print_verbose_energy"} => "leaves" \in m.traits
      /\ f = "get_json_boostlimit" => "old" \in m.traits
      /\ f = "cap_best_effort_node_power_limit" => "halves" \in m.traits
  BY <1>3, TraitsOf
<1>5. /\ {<<"socket", i>> : i \in Sockets} \subseteq m.devs /\ {<<"core", i>> : i \in Cores} \subseteq m.devs
      /\ <<"boost", 0>> \in m.devs
  BY EpycDevices
<1> HIDE DEF m, F
<1>6. CASE f # "cap_best_effort_node_power_limit"
  <2>1. Fine(m, {}, F, {})
    <3>1. CASE f = "get_power"
      <4>1. F = IfESMI(amd_cpu_epyc_get_power) BY <3>1, <1>1, EpycNames
      <4>2. Fine(m, {esmi}, amd_cpu_epyc_get_power, {}) BY EpycPower
      <4>3. IsFeature(amd_cpu_epyc_get_power) BY EpycAre
      <4>4. QED BY <4>1, <4>2, <4>3, IfESMIFine
    <3>2. CASE f = "get_power_limits"
      <4>1. F = IfESMI(amd_cpu_epyc_get_power_limits) BY <3>2, <1>1, EpycNames
      <4>2. Fine(m, {esmi}, amd_cpu_epyc_get_power_limits, {}) BY EpycPowerLimits
      <4>3. IsFeature(amd_cpu_epyc_get_power_limits) BY EpycAre
      <4>4. QED BY <4>1, <4>2, <4>3, IfESMIFine
    <3>3. CASE f = "cap_each_socket_power_limit"
      <4>1. F = IfESMI(amd_cpu_epyc_set_socket_power_limit) BY <3>3, <1>1, EpycNames
      <4>2. Fine(m, {esmi}, amd_cpu_epyc_set_socket_power_limit, {}) BY <3>3, <1>5, EpycCapSockets
      <4>3. IsFeature(amd_cpu_epyc_set_socket_power_limit) BY EpycAre
      <4>4. QED BY <4>1, <4>2, <4>3, IfESMIFine
    <3>4. CASE f = "print_energy"
      <4>1. F = WithESMI(amd_cpu_epyc_print_energy(FALSE), << >>) BY <3>4, <1>1, EpycNames
      <4>2. IsFeature(amd_cpu_epyc_print_energy(FALSE)) /\ amd_cpu_epyc_print_energy(FALSE).caps = {} BY EpycAre
      <4>3. "leaves" \in m.traits BY <3>4, <1>4
      <4>4. Fine(m, {esmi}, amd_cpu_epyc_print_energy(FALSE), {}) BY <4>3, EpycEnergy
      <4>5. QED BY <4>1, <4>2, <4>3, <4>4, EnergyFine DEF IsFeature
    <3>5. CASE f = "print_verbose_energy"
      <4>1. F = WithESMI(amd_cpu_epyc_print_energy(TRUE), << >>) BY <3>5, <1>1, EpycNames
      <4>2. IsFeature(amd_cpu_epyc_print_energy(TRUE)) /\ amd_cpu_epyc_print_energy(TRUE).caps = {} BY EpycAre
      <4>3. "leaves" \in m.traits BY <3>5, <1>4
      <4>4. Fine(m, {esmi}, amd_cpu_epyc_print_energy(TRUE), {}) BY <4>3, EpycVerboseEnergy
      <4>5. QED BY <4>1, <4>2, <4>3, <4>4, EnergyFine DEF IsFeature
    <3>6. CASE f = "print_boostlimit"
      <4>1. F = IfESMI(amd_cpu_epyc_print_boostlimit) BY <3>6, <1>1, EpycNames
      <4>2. Fine(m, {esmi}, amd_cpu_epyc_print_boostlimit, {}) BY EpycBoostlimit
      <4>3. IsFeature(amd_cpu_epyc_print_boostlimit) BY EpycAre
      <4>4. QED BY <4>1, <4>2, <4>3, IfESMIFine
    <3>7. CASE f = "get_json_boostlimit"
      <4>1. F = IfESMI(amd_cpu_epyc_get_json_boostlimit) BY <3>7, <1>1, EpycNames
      <4>2. Fine(m, {esmi}, amd_cpu_epyc_get_json_boostlimit, {}) BY <3>7, <1>4, EpycJsonBoostlimit
      <4>3. IsFeature(amd_cpu_epyc_get_json_boostlimit) BY EpycAre
      <4>4. QED BY <4>1, <4>2, <4>3, IfESMIFine
    <3>8. CASE f = "cap_each_core_frequency_limit"
      <4>1. F = IfESMI(amd_cpu_epyc_set_each_core_boostlimit) BY <3>8, <1>1, EpycNames
      <4>2. Fine(m, {esmi}, amd_cpu_epyc_set_each_core_boostlimit, {}) BY <3>8, <1>5, EpycCapCores
      <4>3. IsFeature(amd_cpu_epyc_set_each_core_boostlimit) BY EpycAre
      <4>4. QED BY <4>1, <4>2, <4>3, IfESMIFine
    <3>9. CASE f = "cap_socket_frequency_limit"
      <4>1. F = IfESMI(amd_cpu_epyc_set_socket_boostlimit(0)) BY <3>9, <1>1, EpycNames
      <4>2. Fine(m, {esmi}, amd_cpu_epyc_set_socket_boostlimit(0), {}) BY <3>9, <1>5, EpycCapBoost
      <4>3. IsFeature(amd_cpu_epyc_set_socket_boostlimit(0)) BY EpycAre
      <4>4. QED BY <4>1, <4>2, <4>3, IfESMIFine
    <3>10. CASE f = "get_power_json"
      <4>1. F = IfESMI(amd_cpu_epyc_get_power_json) BY <3>10, <1>1, EpycNames
      <4>2. Fine(m, {esmi}, amd_cpu_epyc_get_power_json, {}) BY EpycPowerJson
      <4>3. IsFeature(amd_cpu_epyc_get_power_json) BY EpycAre
      <4>4. QED BY <4>1, <4>2, <4>3, IfESMIFine
    <3>11. CASE f = "get_node_power_domain_info_json"
      <4>1. F = IfESMI(amd_cpu_epyc_get_node_power_domain_info_json) BY <3>11, <1>1, EpycNames
      <4>2. Fine(m, {esmi}, amd_cpu_epyc_get_node_power_domain_info_json, {}) BY EpycDomainInfo
      <4>3. IsFeature(amd_cpu_epyc_get_node_power_domain_info_json) BY EpycAre
      <4>4. QED BY <4>1, <4>2, <4>3, IfESMIFine
    <3>12. QED
      BY <1>1, <1>6, EpycNames, <3>1, <3>2, <3>3, <3>4, <3>5, <3>6, <3>7, <3>8, <3>9, <3>10, <3>11
  <2>2. <<p, f>> \notin Halves /\ <<p, f>> \notin CapsNode BY <1>3, <1>6
  <2> HIDE DEF p
  <2>3. QED BY <2>1, <2>2, FineFeature DEF m, p, F
<1>7. CASE f = "cap_best_effort_node_power_limit"
  <2>1. F = IfESMI(amd_cpu_epyc_set_and_verify_best_effort_node_power_limit) BY <1>1, <1>7, EpycNames
  <2>2. Good(m, Outcome({}, {}, F.caps, F.caps), Start(m), F.plan, Outcome({}, {}, F.caps, F.caps)) /\ F.claims = {}
    BY <2>1, <1>4, <1>5, <1>7, EpycBestEffort
  <2>3. Goal(p, f) = Outcome({}, {}, F.caps, F.caps) BY <2>2, <1>3, <1>7 DEF Goal, Outcome, F
  <2>4. QED BY <2>2, <2>3 DEF m, F
<1>8. QED BY <1>6, <1>7

-----------------------------------------------------------------------------
\* IBM Power9.

\* A block of sensors is read for each socket, and given out.
LEMMA BlocksFine ==
  ASSUME NEW m, NEW sensors, NEW v, NEW what, NEW claims, NEW bodies, NEW last, last = NSOCKETS - 1,
         v = Var("buf"), what = "occ", claims = Claims(what, 0..last),
         bodies = [k \in 0..last |-> GetOr(v, <<what, k>>, occ, sensors[k], Fail, Fail)],
         \A k \in 0..last : \A r, x :
           Easy(r) /\ Blank(x) => Good(m, r, WithVal(x, v, {<<what, k>>}), sensors[k], Plus(x, {{<<what, k>>}}, {}, {}))
  PROVE  Fine(m, {}, Reporting(OpenFile(occ, Fail) \o LoopFrom(0, last, bodies) \o Close({occ}) \o Return(0), claims), {})
<1> DEFINE C == [k \in 0..last |-> {{<<what, k>>}}]
           g == Outcome({}, claims, {}, {})
           c == Outcome({occ}, claims, {}, {})
<1>1. \A k \in 0..last : C[k] = {{<<what, k>>}} /\ bodies[k] = GetOr(v, <<what, k>>, occ, sensors[k], Fail, Fail)
  OBVIOUS
<1>2. occ # rsmi BY DEF occ, rsmi
<1>3. \E a, o : a = Base({}) /\ o = Base({occ}) OBVIOUS
<1>4. PICK a, o : a = Base({}) /\ o = Base({occ}) BY <1>3
<1>5. Easy(g) BY DEF Easy, Outcome, Facts, NoVals
<1>6. Blank(o) /\ Plus(o, claims, {}, {}) = c BY <1>4, OutcomeIs DEF Base
<1>7. Entails(m, Closed(c, {occ}), g) BY ClosedOutcome
<1>8. Opened(a, occ) = o BY <1>4, OpenedBase
<1> HIDE DEF C, g, c
<1>9. Good(m, g, Opened(a, occ), << >>, o) BY <1>8, EntailsSame, GoodNone
<1>10. Good(m, g, Refused(a), Fail, o) BY <1>5, GoodFail
<1>11. Good(m, g, a, OpenOr0(occ, << >>, Fail, << >>), o) BY <1>2, <1>9, <1>10, GoodOpenOr0
<1>12. Good(m, g, a, OpenFile(occ, Fail), o) BY <1>11 DEF OpenFile
<1>13. ASSUME NEW k \in 0..last, NEW x, Alike(x, o) PROVE Good(m, g, x, bodies[k], Plus(x, C[k], {}, {}))
  <2>1. Blank(x) BY <1>6, <1>13 DEF Alike, Blank
  <2>2. \E src, b : src = <<what, k>> /\ b = Plus(x, C[k], {}, {}) OBVIOUS
  <2>3. PICK src, b : src = <<what, k>> /\ b = Plus(x, C[k], {}, {}) BY <2>2
  <2>4. Good(m, g, WithVal(x, v, {src}), sensors[k], b) BY <1>1, <1>5, <2>1, <2>3
  <2>5. Good(m, g, Refused(x), Fail, b) BY <1>5, GoodFail
  <2>6. Good(m, g, x, GetOr(v, src, occ, sensors[k], Fail, Fail), b) BY <2>4, <2>5, GoodGet
  <2>7. QED BY <1>1, <2>3, <2>6
<1>14. \A k \in 0..last : \A x : Alike(x, o) => Good(m, g, x, bodies[k], Plus(x, C[k], {}, {})) BY <1>13
<1>15. 0 \in Int /\ last \in Int /\ 0 <= last + 1 BY Spans
<1>16. Good(m, g, o, LoopFrom(0, last, bodies), Plus(o, UNION {C[k] : k \in 0..last}, {}, {}))
  BY ONLY <1>14, <1>15, GoodReports
<1>17. UNION {C[k] : k \in 0..last} = claims
  <2>1. \A k \in 0..last : C[k] = {{<<what, k>>}} BY <1>1
  <2>2. UNION {C[k] : k \in 0..last} = Claims(what, 0..last) BY ONLY <2>1, ClaimsAre
  <2>3. QED BY <2>2
<1>18. Good(m, g, o, LoopFrom(0, last, bodies), c) BY <1>6, <1>16, <1>17
<1>19. Good(m, g, c, Close({occ}), g) BY <1>7, GoodClose
<1>20. Good(m, g, a, OpenFile(occ, Fail) \o LoopFrom(0, last, bodies) \o Close({occ}), g)
  BY <1>12, <1>18, <1>19, GoodThen
<1>21. Good(m, g, a, OpenFile(occ, Fail) \o LoopFrom(0, last, bodies) \o Close({occ}) \o Return(0), g)
  BY <1>20, GoodEnd
<1>22. QED BY <1>4, <1>21, ReportingFine DEF g

\* Whatever is made of a block, it is the block that is given out.
LEMMA ShowBlockFine ==
  ASSUME NEW m, NEW F,
         F = Reporting(OpenFile(occ, Fail)
                         \o LoopFrom(0, NSOCKETS - 1,
                                     [k \in 0..(NSOCKETS - 1) |->
                                        GetOr(Var("buf"), <<"occ", k>>, occ, ShowBlock(k), Fail, Fail)])
                         \o Close({occ}) \o Return(0), BlockClaims)
  PROVE  Fine(m, {}, F, {})
<1>1. \E v, what, last : v = Var("buf") /\ what = "occ" /\ last = NSOCKETS - 1 OBVIOUS
<1>2. PICK v, what, last : v = Var("buf") /\ what = "occ" /\ last = NSOCKETS - 1 BY <1>1
<1>3. \E sensors : sensors = [k \in 0..last |-> ShowBlock(k)] OBVIOUS
<1>4. PICK sensors : sensors = [k \in 0..last |-> ShowBlock(k)] BY <1>3
<1>5. \E bodies : bodies = [k \in 0..last |-> GetOr(v, <<what, k>>, occ, sensors[k], Fail, Fail)] OBVIOUS
<1>6. PICK bodies : bodies = [k \in 0..last |-> GetOr(v, <<what, k>>, occ, sensors[k], Fail, Fail)] BY <1>5
<1>7. \A k \in 0..last : sensors[k] = Show({<<what, k>>}, v) BY <1>2, <1>4 DEF ShowBlock, Of
<1>8. ASSUME NEW k \in 0..last, NEW r, NEW x, Blank(x)
      PROVE  Good(m, r, WithVal(x, v, {<<what, k>>}), sensors[k], Plus(x, {{<<what, k>>}}, {}, {}))
  <2>1. \E src : src = <<what, k>> OBVIOUS
  <2>2. PICK src : src = <<what, k>> BY <2>1
  <2>3. v \notin DOMAIN x.vals BY <1>8 DEF Blank
  <2>4. Good(m, r, WithVal(x, v, {src}), Show({src}, v), Plus(x, {{src}}, {}, {})) BY <2>3, GoodGivenOut
  <2>5. QED BY <1>7, <2>2, <2>4
<1>9. \A k \in 0..last : \A r, x :
        Easy(r) /\ Blank(x) => Good(m, r, WithVal(x, v, {<<what, k>>}), sensors[k], Plus(x, {{<<what, k>>}}, {}, {}))
  BY <1>8
<1>10. Fine(m, {}, Reporting(OpenFile(occ, Fail) \o LoopFrom(0, last, bodies) \o Close({occ}) \o Return(0),
                             Claims(what, 0..last)), {})
  BY <1>2, <1>6, <1>9, BlocksFine
<1>11. bodies = [k \in 0..last |-> GetOr(Var("buf"), <<"occ", k>>, occ, ShowBlock(k), Fail, Fail)]
  BY <1>2, <1>4, <1>6
<1>12. Claims(what, 0..last) = BlockClaims BY <1>2, NumbersOfDevices DEF BlockClaims
<1>13. QED BY <1>2, <1>10, <1>11, <1>12

\* The features of Power9 that show the sensors of each socket.
LEMMA P9BlocksFine ==
  ASSUME NEW m
  PROVE  /\ Fine(m, {}, ibm_cpu_p9_get_power, {}) /\ Fine(m, {}, ibm_cpu_p9_monitoring, {})
         /\ Fine(m, {}, ibm_cpu_p9_get_node_thermal_json, {}) /\ Fine(m, {}, ibm_cpu_p9_get_node_frequency_json, {})
<1>1. Fine(m, {}, ibm_cpu_p9_get_power, {})
  BY ShowBlockFine DEF ibm_cpu_p9_get_power, EachBlock, EachSocket, Each, GetThen, print_power_sensors
<1>2. Fine(m, {}, ibm_cpu_p9_monitoring, {})
  BY ShowBlockFine DEF ibm_cpu_p9_monitoring, EachBlock, EachSocket, Each, GetThen, print_all_sensors
<1>3. Fine(m, {}, ibm_cpu_p9_get_node_thermal_json, {})
  BY ShowBlockFine DEF ibm_cpu_p9_get_node_thermal_json, EachBlock, EachSocket, Each, GetThen, json_get_thermal_sensors
<1>4. Fine(m, {}, ibm_cpu_p9_get_node_frequency_json, {})
  BY ShowBlockFine
     DEF ibm_cpu_p9_get_node_frequency_json, EachBlock, EachSocket, Each, GetThen, json_get_frequency_sensors
<1>5. QED BY <1>1, <1>2, <1>3, <1>4

\* A variable is copied.
LEMMA GoodCopy ==
  ASSUME NEW m, NEW r, NEW a, NEW v, NEW w, NEW S, w \in DOMAIN a.vals, a.vals[w] = S, v # w
  PROVE  Good(m, r, a, Copy(v, w), WithVal(a, v, S))
<1>1. \E b : b = WithVal(a, v, {}) OBVIOUS
<1>2. PICK b : b = WithVal(a, v, {}) BY <1>1
<1>3. /\ {v, w} \subseteq DOMAIN b.vals /\ b.vals[v] = {} /\ b.vals[w] = S
  BY <1>2, ValsAre
<1>4. b.vals[v] \intersect b.vals[w] = {} /\ b.vals[v] \union b.vals[w] = S BY <1>3
<1>5. WithVal(b, v, S) = WithVal(a, v, S) BY <1>2, SetTwice
<1>6. Good(m, r, a, Reset(v), b) BY <1>2, GoodReset
<1>7. Entails(m, WithVal(b, v, b.vals[v] \union b.vals[w]), WithVal(a, v, S)) BY <1>4, <1>5, EntailsSame
<1>8. Good(m, r, b, Add(v, w), WithVal(a, v, S)) BY <1>3, <1>4, <1>7, GoodAdd
<1>9. QED BY <1>6, <1>8, GoodThen DEF Copy

\* The power of Power9 as JSON: that of the node is a sensor in the block of socket 0.
LEMMA P9PowerJson ==
  ASSUME NEW m
  PROVE  Fine(m, {}, ibm_cpu_p9_get_power_json, {})
<1>1. \E v, node, what, last : v = Var("buf") /\ node = Var("node") /\ what = "occ" /\ last = NSOCKETS - 1 OBVIOUS
<1>2. PICK v, node, what, last : v = Var("buf") /\ node = Var("node") /\ what = "occ" /\ last = NSOCKETS - 1 BY <1>1
<1>3. \E sensors : sensors = [k \in 0..last |-> json_get_power_sensors(k)] OBVIOUS
<1>4. PICK sensors : sensors = [k \in 0..last |-> json_get_power_sensors(k)] BY <1>3
<1>5. \E bodies : bodies = [k \in 0..last |-> GetOr(v, <<what, k>>, occ, sensors[k], Fail, Fail)] OBVIOUS
<1>6. PICK bodies : bodies = [k \in 0..last |-> GetOr(v, <<what, k>>, occ, sensors[k], Fail, Fail)] BY <1>5
<1>7. \A k \in 0..last : sensors[k] = (IF k = 0 THEN Copy(node, v) ELSE << >>) \o Show({<<what, k>>}, v)
  BY <1>2, <1>4 DEF json_get_power_sensors, ShowBlock, Of
<1>8. node # v BY <1>2 DEF Var
<1>9. ASSUME NEW k \in 0..last, NEW r, NEW x, Blank(x)
      PROVE  Good(m, r, WithVal(x, v, {<<what, k>>}), sensors[k], Plus(x, {{<<what, k>>}}, {}, {}))
  <2>1. \E src, y, z, t, b : /\ src = <<what, k>> /\ y = WithVal(x, v, {src}) /\ z = WithVal(y, node, {src})
                             /\ t = Plus(z, {{src}}, {}, {}) /\ b = Plus(x, {{src}}, {}, {})
    OBVIOUS
  <2>2. PICK src, y, z, t, b : /\ src = <<what, k>> /\ y = WithVal(x, v, {src}) /\ z = WithVal(y, node, {src})
                               /\ t = Plus(z, {{src}}, {}, {}) /\ b = Plus(x, {{src}}, {}, {})
    BY <2>1
  <2>3. v \notin DOMAIN x.vals /\ DOMAIN x.vals = {} BY <1>9 DEF Blank
  <2>4. v \in DOMAIN y.vals /\ y.vals[v] = {src} BY ONLY <2>2, SetIs
  <2>5. v \in DOMAIN z.vals /\ z.vals[v] = {src} BY <2>2, <2>4, <1>8, SetIs
  <2>6. Good(m, r, y, Copy(node, v), z) BY <2>2, <2>4, <1>8, GoodCopy
  <2>7. Good(m, r, z, Show({src}, v), t) BY <2>2, <2>5, GoodShown
  <2>8. Entails(m, t, b)
    <3>1. y.claims = x.claims /\ Rest(y, x) BY ONLY <2>2, SetIs
    <3>2. z.claims = y.claims /\ Rest(z, y) BY ONLY <2>2, SetIs
    <3>3. t.claims = z.claims \union {{src}} /\ Rest(t, z) BY ONLY <2>2, ShownIs
    <3>4. b.vals = x.vals /\ b.claims = x.claims \union {{src}} /\ Rest(b, x) BY ONLY <2>2, ShownIs
    <3>5. Rest(b, t) BY <3>1, <3>2, <3>3, <3>4 DEF Rest
    <3>6. b.claims = t.claims /\ DOMAIN b.vals = {} BY <3>1, <3>2, <3>3, <3>4, <2>3
    <3>7. QED BY <3>5, <3>6, ForgetAll DEF Rest
  <2>9. Good(m, r, y, Copy(node, v) \o Show({src}, v), b) BY <2>6, <2>7, <2>8, GoodThen, EntailsSame, GoodWeaker
  <2>10. Good(m, r, y, << >> \o Show({src}, v), b)
    <3>1. Good(m, r, y, << >>, y) BY EntailsSame, GoodNone
    <3>2. Good(m, r, y, Show({src}, v), b) BY <2>2, <2>3, GoodGivenOut
    <3>3. QED BY <3>1, <3>2, GoodThen
  <2>11. Good(m, r, y, sensors[k], b)
    <3>1. CASE k = 0 BY <3>1, <1>7, <2>2, <2>9
    <3>2. CASE k # 0 BY <3>2, <1>7, <2>2, <2>10
    <3>3. QED BY <3>1, <3>2
  <2>12. QED BY <2>2, <2>11
<1>10. \A k \in 0..last : \A r, x :
        Easy(r) /\ Blank(x) => Good(m, r, WithVal(x, v, {<<what, k>>}), sensors[k], Plus(x, {{<<what, k>>}}, {}, {}))
  BY <1>9
<1>11. Fine(m, {}, Reporting(OpenFile(occ, Fail) \o LoopFrom(0, last, bodies) \o Close({occ}) \o Return(0),
                             Claims(what, 0..last)), {})
  BY <1>2, <1>6, <1>10, BlocksFine
<1>12. bodies = [k \in 0..last |-> GetOr(Var("buf"), <<"occ", k>>, occ, json_get_power_sensors(k), Fail, Fail)]
  BY <1>2, <1>4, <1>6
<1>13. Claims(what, 0..last) = BlockClaims BY <1>2, NumbersOfDevices DEF BlockClaims
<1>14. ibm_cpu_p9_get_power_json
         = Reporting(OpenFile(occ, Fail) \o LoopFrom(0, last, bodies) \o Close({occ}) \o Return(0), Claims(what, 0..last))
  BY <1>2, <1>12, <1>13 DEF ibm_cpu_p9_get_power_json, EachBlock, EachSocket, Each, GetThen
<1>15. QED BY <1>11, <1>14

-----------------------------------------------------------------------------
\* A file is opened; a feature that cannot do so gives up.
LEMMA GoodOpenFile ==
  ASSUME NEW m, NEW r, NEW a, NEW file, Easy(r), file # rsmi
  PROVE  Good(m, r, a, OpenFile(file, Fail), Opened(a, file))
<1>1. \E o : o = Opened(a, file) OBVIOUS
<1>2. PICK o : o = Opened(a, file) BY <1>1
<1>3. Good(m, r, o, << >>, o) BY EntailsSame, GoodNone
<1>4. Good(m, r, Refused(a), Fail, o) BY GoodFail
<1>5. Good(m, r, a, OpenOr0(file, << >>, Fail, << >>), o) BY <1>2, <1>3, <1>4, GoodOpenOr0
<1>6. QED BY <1>2, <1>5 DEF OpenFile

\* It is read and closed again.
LEMMA GoodReadOpal ==
  ASSUME NEW m, NEW r, NEW a, NEW file, Easy(r), a.mark = "none", a.opened = {}, file # rsmi
  PROVE  Good(m, r, a, ReadOpal(file), WithVal(a, file, {file}))
<1>1. \E o, b : o = Opened(a, file) /\ b = WithVal(o, file, {file}) OBVIOUS
<1>2. PICK o, b : o = Opened(a, file) /\ b = WithVal(o, file, {file}) BY <1>1
<1>3. o.mark = "none" /\ o.opened = {file}
  <2>1. {} \union {file} = {file} OBVIOUS
  <2>2. QED BY <1>2, <2>1 DEF Opened, Facts
<1>4. Mild(r, o, << >>) BY <1>3, MildWays
<1>5. Good(m, r, o, Reset(file) \o Get(file, file, file, << >>), b) BY <1>2, <1>4, GoodReadOr
<1>6. Closed(b, {file}) = WithVal(a, file, {file})
  <2>1. b.opened = {file} BY <1>2, <1>3 DEF WithVal, Facts
  <2>2. {file} \ {file} = a.opened OBVIOUS
  <2>3. /\ b.vals = Extend(a.vals, file, {file}) /\ b.claims = a.claims /\ b.taken = a.taken /\ b.bound = a.bound
        /\ b.wanted = a.wanted /\ b.mark = a.mark
    BY <1>2 DEF WithVal, Opened, Facts
  <2>4. QED BY <2>1, <2>2, <2>3 DEF Closed, WithVal, Facts
<1>7. Good(m, r, b, Close({file}), WithVal(a, file, {file})) BY <1>6, EntailsSame, GoodClose
<1>8. Good(m, r, a, OpenFile(file, Fail), o) BY <1>2, GoodOpenFile
<1>9. \E p : p = Reset(file) \o Get(file, file, file, << >>) OBVIOUS
<1>10. Good(m, r, o, Reset(file), WithVal(o, file, {})) BY GoodReset
<1>11. Good(m, r, WithVal(o, file, {}), Get(file, file, file, << >>), b)
  <2>1. \E y : y = WithVal(o, file, {}) OBVIOUS
  <2>2. PICK y : y = WithVal(o, file, {}) BY <2>1
  <2>3. y.mark = "none" /\ file \in DOMAIN y.vals /\ y.vals[file] \subseteq {file} BY <2>2, <1>3, ValsAre
  <2>4. Mild(r, y, << >>) BY <2>3, MildWays
  <2>5. Good(m, r, y, Get(file, file, file, << >>), WithVal(y, file, {file})) BY <2>3, <2>4, GoodAsk
  <2>6. WithVal(y, file, {file}) = b BY <1>2, <2>2, SetTwice
  <2>7. QED BY <2>2, <2>5, <2>6
<1>12. Good(m, r, a, OpenFile(file, Fail) \o Reset(file), WithVal(o, file, {})) BY <1>8, <1>10, GoodThen
<1>13. Good(m, r, a, OpenFile(file, Fail) \o Reset(file) \o Get(file, file, file, << >>), b)
  BY <1>11, <1>12, GoodThen
<1>14. QED BY <1>7, <1>13, GoodThen DEF ReadOpal

\* The five limits of Power9.
LEMMA P9Limits ==
  ASSUME NEW m
  PROVE  Fine(m, {}, ibm_cpu_p9_get_power_limits, {})
<1> DEFINE S == 1..5
           W == [f \in {limits[k] : k \in S} |-> {f}]
           reads == [k \in S |-> ReadOpal(limits[k])]
           shows == [k \in S |-> Show({limits[k]}, limits[k])]
           claims == {{limits[k]} : k \in S}
           g == Outcome({}, claims, {}, {})
<1>1. ibm_cpu_p9_get_power_limits = Reporting(LoopFrom(1, 5, reads) \o LoopFrom(1, 5, shows) \o Return(0), claims)
  BY DEF ibm_cpu_p9_get_power_limits, Each
<1>2. \A k \in S : limits[k] # rsmi
  <2>1. limits[1] # rsmi /\ limits[2] # rsmi /\ limits[3] # rsmi /\ limits[4] # rsmi /\ limits[5] # rsmi
    BY DEF limits, OpalFile, rsmi
  <2>2. ASSUME NEW k \in S PROVE k = 1 \/ k = 2 \/ k = 3 \/ k = 4 \/ k = 5 OBVIOUS
  <2>3. QED BY <2>1, <2>2
<1>3. \A k \in S : W[limits[k]] = {limits[k]} /\ reads[k] = ReadOpal(limits[k]) /\ shows[k] = Show({limits[k]}, limits[k])
  OBVIOUS
<1>4. \E a : a = Base({}) OBVIOUS
<1>5. PICK a : a = Base({}) BY <1>4
<1>6. Easy(g) BY DEF Easy, Outcome, Facts, NoVals
<1>7. a.mark = "none" /\ a.opened = {} BY <1>5 DEF Base, Outcome, Facts
<1>8. 1 \in Int /\ 5 \in Int /\ 1 <= 5 + 1 OBVIOUS
<1> HIDE DEF S, W, reads, shows, g
<1>9. ASSUME NEW k \in S, NEW x, Besides(x, a)
      PROVE  Good(m, g, x, reads[k], WithVal(x, limits[k], W[limits[k]]))
  <2>1. x.mark = "none" /\ x.opened = {} BY <1>7, <1>9 DEF Besides
  <2>2. \E file : file = limits[k] OBVIOUS
  <2>3. PICK file : file = limits[k] BY <2>2
  <2>4. file # rsmi BY <1>2, <2>3
  <2>5. Good(m, g, x, ReadOpal(file), WithVal(x, file, {file})) BY <1>6, <2>1, <2>4, GoodReadOpal
  <2>6. QED BY <1>3, <2>3, <2>5
<1>10. \A k \in 1..5 : \A x : Besides(x, a) => Good(m, g, x, reads[k], WithVal(x, limits[k], W[limits[k]]))
  BY <1>9 DEF S
<1>11. Good(m, g, a, LoopFrom(1, 5, reads), Filled(a, limits, W, 1..5)) BY ONLY <1>8, <1>10, GoodFill
<1>12. \A k \in 1..5 : shows[k] = Show(W[limits[k]], limits[k]) BY <1>3 DEF S
<1>13. Good(m, g, Filled(a, limits, W, 1..5), LoopFrom(1, 5, shows),
             Plus(Filled(a, limits, W, 1..5), {W[limits[k]] : k \in 1..5}, {}, {}))
  <2>1. \E L, lo, hi : L = limits /\ lo = 1 /\ hi = 5 OBVIOUS
  <2>2. PICK L, lo, hi : L = limits /\ lo = 1 /\ hi = 5 BY <2>1
  <2>3. lo \in Int /\ hi \in Int /\ lo <= hi + 1 BY <2>2
  <2>4. \A k \in lo..hi : shows[k] = Show(W[L[k]], L[k]) BY <1>12, <2>2
  <2>5. Good(m, g, Filled(a, L, W, lo..hi), LoopFrom(lo, hi, shows),
               Plus(Filled(a, L, W, lo..hi), {W[L[k]] : k \in lo..hi}, {}, {}))
    BY ONLY <2>3, <2>4, GoodShowFilled
  <2>6. QED BY <2>2, <2>5
<1>14. {W[limits[k]] : k \in 1..5} = claims
  <2>1. \A k \in 1..5 : W[limits[k]] = {limits[k]} BY <1>3 DEF S
  <2>2. QED BY <2>1 DEF S
<1>15. \E e, f : e = Filled(a, limits, W, 1..5) /\ f = Plus(e, claims, {}, {}) OBVIOUS
<1>16. PICK e, f : e = Filled(a, limits, W, 1..5) /\ f = Plus(e, claims, {}, {}) BY <1>15
<1> HIDE DEF claims
<1>17. Good(m, g, e, LoopFrom(1, 5, shows), f) BY <1>13, <1>14, <1>16
<1>18. Entails(m, f, g)
  <2>1. e.claims = a.claims /\ e.wanted = a.wanted /\ e.mark = a.mark /\ e.opened = a.opened
        /\ e.taken = a.taken /\ e.bound = a.bound
    BY <1>16 DEF Filled, Facts
  <2>2. f.claims = e.claims \union claims /\ Rest(f, e) BY ONLY <1>16, ShownIs
  <2>3. a.claims = {} /\ a.wanted = "share" /\ a.taken = {} /\ a.bound = {} BY <1>5 DEF Base, Outcome, Facts
  <2>4. /\ DOMAIN g.vals = {} /\ g.mark = "none" /\ g.claims = claims /\ g.opened = {} /\ g.taken = {} /\ g.bound = {}
        /\ g.wanted = "share"
    BY DEF g, Outcome, Facts, NoVals
  <2>5. f.claims = g.claims BY <2>1, <2>2, <2>3, <2>4
  <2>6. Rest(g, f) BY <1>7, <2>1, <2>2, <2>3, <2>4 DEF Rest
  <2>7. QED BY <2>4, <2>5, <2>6, ForgetAll DEF Rest
<1>19. Good(m, g, a, LoopFrom(1, 5, reads), e) BY <1>11, <1>16
<1>20. Good(m, g, a, LoopFrom(1, 5, reads) \o LoopFrom(1, 5, shows), f) BY <1>17, <1>19, GoodThen
<1>21. Good(m, g, a, LoopFrom(1, 5, reads) \o LoopFrom(1, 5, shows), g) BY <1>18, <1>20, EntailsSame, GoodWeaker
<1>22. Good(m, g, a, LoopFrom(1, 5, reads) \o LoopFrom(1, 5, shows) \o Return(0), g) BY <1>21, GoodEnd
<1>23. QED BY <1>1, <1>5, <1>22, ReportingFine DEF g

\* A device that is not heard is excused.
LEMMA BlindStands ==
  ASSUME NEW m, NEW x, NEW T, NEW H, Easy(x), "blind" \in m.traits
  PROVE  Entails(m, Refused(x), Plus(x, {}, T, H))
<1>1. \E a, b : a = Refused(x) /\ b = Plus(x, {}, T, H) OBVIOUS
<1>2. PICK a, b : a = Refused(x) /\ b = Plus(x, {}, T, H) BY <1>1
<1>3. a.mark = "refused" /\ a.vals = x.vals /\ a.opened = x.opened BY <1>2 DEF Refused, Facts, Easy
<1>4. b.mark = "none" /\ b.vals = x.vals /\ b.opened = x.opened BY <1>2 DEF Plus, Facts, Easy
<1>5. DOMAIN x.vals = {} BY DEF Easy
<1>6. Entails(m, a, b) BY <1>3, <1>4, <1>5 DEF Entails, Exact, Caps
<1>7. QED BY <1>2, <1>6

\* A cap whose refusal is not looked at.
LEMMA GoodBlindCap ==
  ASSUME NEW m, NEW r, NEW x, NEW dev, NEW via, Easy(x), "blind" \in m.traits, x.wanted = "share", dev \in m.devs
  PROVE  Good(m, r, x, Cap(dev, via, << >>), Plus(x, {}, {dev}, {}))
<1>1. Good(m, r, Refused(x), << >>, Plus(x, {}, {dev}, {})) BY BlindStands, GoodNone
<1>2. QED BY <1>1, GoodToldCap

\* The node cap of Power9 is written, whether heard or not, and read back.
LEMMA P9NodeCap ==
  ASSUME NEW m, NEW dev, dev = OpalFile("powercap-current"), "blind" \in m.traits, dev \in m.devs
  PROVE  Fine(m, {}, ibm_cpu_p9_cap_and_verify_node_power_limit, {dev})
<1> DEFINE g == Outcome({}, {}, {dev}, {dev})
           b1 == Outcome({dev}, {}, {}, {})
           b2 == Outcome({dev}, {}, {dev}, {})
           b3 == Outcome({}, {}, {dev}, {})
           b4 == Outcome({dev}, {}, {dev}, {dev})
           close == Close({dev})
           fail == close \o Fail
<1>1. ibm_cpu_p9_cap_and_verify_node_power_limit
        = Capping(OpenFile(dev, Fail) \o Cap(dev, dev, << >>) \o close
                    \o (OpenFile(dev, Fail) \o Verify(dev, dev, fail, fail) \o close) \o Return(0), {dev})
  BY DEF ibm_cpu_p9_cap_and_verify_node_power_limit, VerifyCap
<1>2. dev # rsmi BY DEF OpalFile, rsmi
<1>3. \E a : a = Base({}) OBVIOUS
<1>4. PICK a : a = Base({}) BY <1>3
<1>5. Easy(g) BY DEF Easy, Outcome, Facts, NoVals
<1>6. Opened(a, dev) = b1 BY <1>4, OpenedBase DEF Base
<1>7. /\ Easy(b1) /\ b1.wanted = "share" /\ b2.wanted = "share" /\ b2.taken = {dev} /\ b4.taken = {dev}
      /\ b4.wanted = "share"
  BY DEF Easy, Outcome, Facts, NoVals
<1>8. Plus(b1, {}, {dev}, {}) = b2
  <2>1. {} \union {dev} = {dev} /\ {} \union {} = {} OBVIOUS
  <2>2. QED BY <2>1 DEF Plus, Outcome, Facts
<1>9. Opened(b3, dev) = b2
  <2>1. {} \union {dev} = {dev} OBVIOUS
  <2>2. QED BY <2>1 DEF Opened, Outcome, Facts
<1>10. Plus(b2, {}, {}, {dev}) = b4
  <2>1. {dev} \union {} = {dev} /\ {} \union {} = {} /\ {} \union {dev} = {dev} OBVIOUS
  <2>2. QED BY <2>1 DEF Plus, Outcome, Facts
<1>11. Entails(m, Closed(b2, {dev}), b3) /\ Entails(m, Closed(b4, {dev}), g) BY ClosedOutcome
<1> HIDE DEF g, b1, b2, b3, b4, close, fail
<1>12. Good(m, g, a, OpenFile(dev, Fail), b1)
  <2>1. Good(m, g, a, OpenFile(dev, Fail), Opened(a, dev)) BY <1>2, <1>5, GoodOpenFile
  <2>2. QED BY <1>6, <2>1
<1>13. Good(m, g, b1, Cap(dev, dev, << >>), b2)
  <2>1. Good(m, g, b1, Cap(dev, dev, << >>), Plus(b1, {}, {dev}, {})) BY <1>7, GoodBlindCap
  <2>2. QED BY <1>8, <2>1
<1>14. Good(m, g, b2, close, b3) BY <1>11, GoodClose DEF close
<1>15. Good(m, g, b3, OpenFile(dev, Fail), b2)
  <2>1. Good(m, g, b3, OpenFile(dev, Fail), Opened(b3, dev)) BY <1>2, <1>5, GoodOpenFile
  <2>2. QED BY <1>9, <2>1
<1>16. ASSUME NEW x, NEW b PROVE Good(m, g, x, fail, b)
  <2>1. Good(m, g, x, close, Closed(x, {dev})) BY EntailsSame, GoodClose DEF close
  <2>2. Good(m, g, Closed(x, {dev}), Fail, b) BY <1>5, GoodFail
  <2>3. QED BY <2>1, <2>2, GoodThen DEF fail
<1>17. Good(m, g, b2, Verify(dev, dev, fail, fail), b4)
  <2>1. dev \in b2.taken BY <1>7
  <2>2. Entails(m, Plus(b2, {}, {}, {dev}), b4) BY <1>10, EntailsSame
  <2>3. QED BY <1>7, <1>16, <2>1, <2>2, GoodVerify
<1>18. Good(m, g, b4, close, g) BY <1>11, GoodClose DEF close
<1>19. Good(m, g, b3, OpenFile(dev, Fail) \o Verify(dev, dev, fail, fail) \o close, g)
  BY <1>15, <1>17, <1>18, GoodThen
<1>20. Good(m, g, a, OpenFile(dev, Fail) \o Cap(dev, dev, << >>) \o close, b3) BY <1>12, <1>13, <1>14, GoodThen
<1>21. Good(m, g, a, OpenFile(dev, Fail) \o Cap(dev, dev, << >>) \o close
                       \o (OpenFile(dev, Fail) \o Verify(dev, dev, fail, fail) \o close), g)
  BY <1>19, <1>20, GoodThen
<1>22. Good(m, g, a, OpenFile(dev, Fail) \o Cap(dev, dev, << >>) \o close
                       \o (OpenFile(dev, Fail) \o Verify(dev, dev, fail, fail) \o close) \o Return(0), g)
  BY <1>21, GoodEnd
<1>23. QED BY <1>1, <1>4, <1>22, CappingFine DEF g

\* The ratio of Power9 is written to two files.
LEMMA P9Ratio ==
  ASSUME NEW m, NEW u, NEW v, u = OpalFile("cpu_to_gpu_0"), v = OpalFile("cpu_to_gpu_8"), "blind" \in m.traits,
         {u, v} \subseteq m.devs
  PROVE  Fine(m, {}, ibm_cpu_p9_cap_gpu_power_ratio, {})
<1> DEFINE g == Outcome({}, {}, {u, v}, {})
           b1 == Outcome({u}, {}, {}, {})
           b2 == Outcome({u, v}, {}, {}, {})
           b3 == Outcome({u, v}, {}, {u}, {})
           b4 == Outcome({u, v}, {}, {u, v}, {})
           first == OpenFile(v, << >>) \o Fail
           opened == Cap(u, u, << >>) \o Cap(v, v, << >>) \o Close({u, v}) \o Return(0)
<1>1. ibm_cpu_p9_cap_gpu_power_ratio = Capping(OpenFile(u, first) \o OpenFile(v, Fail) \o opened, {u, v})
  BY DEF ibm_cpu_p9_cap_gpu_power_ratio
<1>2. u # rsmi /\ v # rsmi BY DEF OpalFile, rsmi
<1>3. \E a : a = Base({}) OBVIOUS
<1>4. PICK a : a = Base({}) BY <1>3
<1>5. Easy(g) BY DEF Easy, Outcome, Facts, NoVals
<1>6. Opened(a, u) = b1 BY <1>4, OpenedBase DEF Base
<1>7. Opened(b1, v) = b2
  <2>1. {u} \union {v} = {u, v} OBVIOUS
  <2>2. QED BY <2>1 DEF Opened, Outcome, Facts
<1>8. Easy(b2) /\ b2.wanted = "share" /\ Easy(b3) /\ b3.wanted = "share" BY DEF Easy, Outcome, Facts, NoVals
<1>9. Plus(b2, {}, {u}, {}) = b3 /\ Plus(b3, {}, {v}, {}) = b4
  <2>1. {} \union {u} = {u} /\ {} \union {} = {} /\ {u} \union {v} = {u, v} OBVIOUS
  <2>2. QED BY <2>1 DEF Plus, Outcome, Facts
<1>10. Closed(b4, {u, v}) = g
  <2>1. {u, v} \ {u, v} = {} OBVIOUS
  <2>2. QED BY <2>1 DEF Closed, Outcome, Facts
<1> HIDE DEF g, b1, b2, b3, b4
<1>11. Good(m, g, Refused(a), first, b1)
  <2>1. \E x, y : x = Refused(a) /\ y = Opened(x, v) OBVIOUS
  <2>2. PICK x, y : x = Refused(a) /\ y = Opened(x, v) BY <2>1
  <2>3. Entails(m, Refused(x), y)
    <3>1. /\ x.mark = "refused" /\ x.vals = NoVals /\ x.opened = {} /\ x.taken = {} /\ x.bound = {}
          /\ x.wanted = "share"
      BY <1>4, <2>2 DEF Base, Outcome, Refused, Facts
    <3>2. /\ y.mark = "refused" /\ y.vals = NoVals /\ y.opened = {v} /\ y.taken = {} /\ y.bound = {}
          /\ y.wanted = "share"
      BY <2>2, <3>1 DEF Opened, Facts
    <3>3. \E z : z = Refused(x) OBVIOUS
    <3>4. PICK z : z = Refused(x) BY <3>3
    <3>5. /\ z.mark = "refused" /\ z.vals = NoVals /\ z.opened = {} /\ z.taken = {} /\ z.bound = {}
          /\ z.wanted = "share"
      BY <3>1, <3>4 DEF Refused, Facts
    <3>6. Entails(m, z, y) BY <3>2, <3>5 DEF Entails, Exact, Tidy, Caps, NoVals
    <3>7. QED BY <3>4, <3>6
  <2>4. Good(m, g, Refused(x), << >>, y) BY <2>3, GoodNone
  <2>5. Good(m, g, Opened(x, v), << >>, y) BY <2>2, EntailsSame, GoodNone
  <2>6. Good(m, g, x, OpenOr0(v, << >>, << >>, << >>), y) BY <1>2, <2>4, <2>5, GoodOpenOr0
  <2>7. Good(m, g, x, OpenFile(v, << >>), y) BY <2>6 DEF OpenFile
  <2>8. Good(m, g, y, Fail, b1) BY <1>5, GoodFail
  <2>9. Good(m, g, x, first, b1) BY <2>7, <2>8, GoodThen DEF first
  <2>10. QED BY <2>2, <2>9
<1>12. Good(m, g, a, OpenFile(u, first), b1)
  <2>1. Good(m, g, b1, << >>, b1) BY EntailsSame, GoodNone
  <2>2. Good(m, g, a, OpenOr0(u, << >>, first, << >>), b1) BY <1>2, <1>6, <1>11, <2>1, GoodOpenOr0
  <2>3. QED BY <2>2 DEF OpenFile
<1>13. Good(m, g, b1, OpenFile(v, Fail), b2)
  <2>1. Good(m, g, b1, OpenFile(v, Fail), Opened(b1, v)) BY <1>2, <1>5, GoodOpenFile
  <2>2. QED BY <1>7, <2>1
<1>14. u \in m.devs /\ v \in m.devs OBVIOUS
<1>15. Good(m, g, b2, Cap(u, u, << >>), b3)
  <2>1. Good(m, g, b2, Cap(u, u, << >>), Plus(b2, {}, {u}, {})) BY <1>8, <1>14, GoodBlindCap
  <2>2. QED BY <1>9, <2>1
<1>16. Good(m, g, b3, Cap(v, v, << >>), b4)
  <2>1. Good(m, g, b3, Cap(v, v, << >>), Plus(b3, {}, {v}, {})) BY <1>8, <1>14, GoodBlindCap
  <2>2. QED BY <1>9, <2>1
<1>17. Good(m, g, b4, Close({u, v}), g) BY <1>10, EntailsSame, GoodClose
<1>18. Good(m, g, b2, Cap(u, u, << >>) \o Cap(v, v, << >>) \o Close({u, v}), g)
  BY <1>15, <1>16, <1>17, GoodThen
<1>19. Good(m, g, b2, opened, g) BY <1>18, GoodEnd DEF opened
<1>20. Good(m, g, a, OpenFile(u, first) \o OpenFile(v, Fail), b2) BY <1>12, <1>13, GoodThen
<1>21. Good(m, g, a, OpenFile(u, first) \o OpenFile(v, Fail) \o opened, g) BY <1>19, <1>20, GoodThen
<1> HIDE DEF first, opened
<1>22. QED BY <1>1, <1>4, <1>21, CappingFine DEF g

\* No device is told anything.
LEMMA P9CapSocket ==
  ASSUME NEW m
  PROVE  Fine(m, {}, ibm_cpu_p9_cap_socket_power_limit, {})
<1> DEFINE g == Outcome({}, {}, {}, {})
<1>1. ibm_cpu_p9_cap_socket_power_limit = Capping(Fork(<< >>, Complain) \o Return(0), {})
  BY DEF ibm_cpu_p9_cap_socket_power_limit
<1>2. \E a : a = Base({}) OBVIOUS
<1>3. PICK a : a = Base({}) BY <1>2
<1>4. Easy(g) /\ a = g BY <1>3 DEF Easy, Outcome, Facts, NoVals, Base
<1> HIDE DEF g
<1>5. Good(m, g, a, << >>, g) BY <1>4, EntailsSame, GoodNone
<1>6. Good(m, g, a, Complain, g) BY <1>4, GoodMessage
<1>7. Good(m, g, a, Fork(<< >>, Complain), g) BY <1>5, <1>6, GoodFork
<1>8. Good(m, g, a, Fork(<< >>, Complain) \o Return(0), g) BY <1>7, GoodEnd
<1>9. QED BY <1>1, <1>3, <1>8, CappingFine DEF g

\* The features of the platform p9.
LEMMA P9Names ==
  /\ Features["p9"] = P9Features
  /\ DOMAIN P9Features =
       {"get_power", "monitoring", "get_node_thermal_json", "get_node_frequency_json", "get_power_json",
        "get_power_limits", "cap_and_verify_node_power_limit", "cap_gpu_power_ratio", "cap_socket_power_limit"}
  /\ P9Features["get_power"] = ibm_cpu_p9_get_power
  /\ P9Features["monitoring"] = ibm_cpu_p9_monitoring
  /\ P9Features["get_node_thermal_json"] = ibm_cpu_p9_get_node_thermal_json
  /\ P9Features["get_node_frequency_json"] = ibm_cpu_p9_get_node_frequency_json
  /\ P9Features["get_power_json"] = ibm_cpu_p9_get_power_json
  /\ P9Features["get_power_limits"] = ibm_cpu_p9_get_power_limits
  /\ P9Features["cap_and_verify_node_power_limit"] = ibm_cpu_p9_cap_and_verify_node_power_limit
  /\ P9Features["cap_gpu_power_ratio"] = ibm_cpu_p9_cap_gpu_power_ratio
  /\ P9Features["cap_socket_power_limit"] = ibm_cpu_p9_cap_socket_power_limit
<1>1. Features["p9"] = P9Features BY DEF Features
<1>2. QED BY <1>1 DEF P9Features

\* The devices the caps of Power9 are for.
LEMMA P9Devices ==
  ASSUME NEW f
  PROVE  {OpalFile("powercap-current"), OpalFile("cpu_to_gpu_0"), OpalFile("cpu_to_gpu_8")}
           \subseteq Mode("p9", f).devs
<1>1. \E p, h, i : p = "p9" /\ h = "cap_and_verify_node_power_limit" /\ i = "cap_gpu_power_ratio" OBVIOUS
<1>2. PICK p, h, i : p = "p9" /\ h = "cap_and_verify_node_power_limit" /\ i = "cap_gpu_power_ratio" BY <1>1
<1>3. h \in DOMAIN Features[p] /\ i \in DOMAIN Features[p] BY <1>2, P9Names
<1>4. /\ Features[p][h].caps = {OpalFile("powercap-current")}
      /\ Features[p][i].caps = {OpalFile("cpu_to_gpu_0"), OpalFile("cpu_to_gpu_8")}
  <2>1. Features[p][h] = ibm_cpu_p9_cap_and_verify_node_power_limit BY <1>2, P9Names
  <2>2. Features[p][i] = ibm_cpu_p9_cap_gpu_power_ratio BY <1>2, P9Names
  <2>3. ibm_cpu_p9_cap_and_verify_node_power_limit.caps = {OpalFile("powercap-current")}
    BY CappingIs DEF ibm_cpu_p9_cap_and_verify_node_power_limit
  <2>4. ibm_cpu_p9_cap_gpu_power_ratio.caps = {OpalFile("cpu_to_gpu_0"), OpalFile("cpu_to_gpu_8")}
    BY CappingIs DEF ibm_cpu_p9_cap_gpu_power_ratio
  <2>5. QED BY <2>1, <2>2, <2>3, <2>4
<1>5. \E S : S = Features[p][h].caps OBVIOUS
<1>6. PICK S : S = Features[p][h].caps BY <1>5
<1>7. \E T : T = Features[p][i].caps OBVIOUS
<1>8. PICK T : T = Features[p][i].caps BY <1>7
<1>9. S \subseteq Mode(p, f).devs BY <1>3, <1>6, CappedDevices
<1>10. T \subseteq Mode(p, f).devs BY <1>3, <1>8, CappedDevices
<1>11. QED BY <1>2, <1>4, <1>6, <1>8, <1>9, <1>10

\* Each feature of the platform p9 is good.
LEMMA P9Good ==
  ASSUME NEW f \in DOMAIN Features["p9"]
  PROVE  Good(Mode("p9", f), Goal("p9", f), Start(Mode("p9", f)), Features["p9"][f].plan, Goal("p9", f))
<1> DEFINE p == "p9"
           m == Mode(p, f)
           F == Features[p][f]
           dev == OpalFile("powercap-current")
           H == IF f = "cap_and_verify_node_power_limit" THEN {dev} ELSE {}
<1>1. F = P9Features[f] /\ f \in DOMAIN P9Features BY P9Names
<1>2. /\ f \in {"cap_gpu_power_ratio", "cap_and_verify_node_power_limit"} => <<p, f>> \in CapBlindly
      /\ <<p, f>> \notin Halves
      /\ <<p, f>> \in CapsNode <=> f = "cap_and_verify_node_power_limit"
  BY DEF CapBlindly, Halves, CapsNode
<1>3. f \in {"cap_gpu_power_ratio", "cap_and_verify_node_power_limit"} => "blind" \in m.traits
  BY <1>2, TraitsOf
<1>4. dev \in m.devs /\ {OpalFile("cpu_to_gpu_0"), OpalFile("cpu_to_gpu_8")} \subseteq m.devs BY P9Devices
<1>5. f = "cap_and_verify_node_power_limit" => F.caps = {dev}
  BY <1>1, P9Names, CappingIs DEF ibm_cpu_p9_cap_and_verify_node_power_limit
<1>6. H = IF <<p, f>> \in CapsNode THEN F.caps ELSE {} BY <1>2, <1>5
<1> HIDE DEF m, F, H
<1>7. Fine(m, {}, F, H)
  <2>1. CASE f = "get_power"
    <3>1. F = ibm_cpu_p9_get_power /\ H = {} BY <2>1, <1>1, P9Names DEF H
    <3>2. QED BY <3>1, P9BlocksFine
  <2>2. CASE f = "monitoring"
    <3>1. F = ibm_cpu_p9_monitoring /\ H = {} BY <2>2, <1>1, P9Names DEF H
    <3>2. QED BY <3>1, P9BlocksFine
  <2>3. CASE f = "get_node_thermal_json"
    <3>1. F = ibm_cpu_p9_get_node_thermal_json /\ H = {} BY <2>3, <1>1, P9Names DEF H
    <3>2. QED BY <3>1, P9BlocksFine
  <2>4. CASE f = "get_node_frequency_json"
    <3>1. F = ibm_cpu_p9_get_node_frequency_json /\ H = {} BY <2>4, <1>1, P9Names DEF H
    <3>2. QED BY <3>1, P9BlocksFine
  <2>5. CASE f = "get_power_json"
    <3>1. F = ibm_cpu_p9_get_power_json /\ H = {} BY <2>5, <1>1, P9Names DEF H
    <3>2. QED BY <3>1, P9PowerJson
  <2>6. CASE f = "get_power_limits"
    <3>1. F = ibm_cpu_p9_get_power_limits /\ H = {} BY <2>6, <1>1, P9Names DEF H
    <3>2. QED BY <3>1, P9Limits
  <2>7. CASE f = "cap_and_verify_node_power_limit"
    <3>1. F = ibm_cpu_p9_cap_and_verify_node_power_limit /\ H = {dev} BY <2>7, <1>1, P9Names DEF H
    <3>2. "blind" \in m.traits BY <2>7, <1>3
    <3>3. Fine(m, {}, ibm_cpu_p9_cap_and_verify_node_power_limit, {dev}) BY <3>2, <1>4, P9NodeCap
    <3>4. QED BY <3>1, <3>3
  <2>8. CASE f = "cap_gpu_power_ratio"
    <3>1. F = ibm_cpu_p9_cap_gpu_power_ratio /\ H = {} BY <2>8, <1>1, P9Names DEF H
    <3>2. "blind" \in m.traits BY <2>8, <1>3
    <3>3. Fine(m, {}, ibm_cpu_p9_cap_gpu_power_ratio, {}) BY <3>2, <1>4, P9Ratio
    <3>4. QED BY <3>1, <3>3
  <2>9. CASE f = "cap_socket_power_limit"
    <3>1. F = ibm_cpu_p9_cap_socket_power_limit /\ H = {} BY <2>9, <1>1, P9Names DEF H
    <3>2. QED BY <3>1, P9CapSocket
  <2>10. QED BY <1>1, P9Names, <2>1, <2>2, <2>3, <2>4, <2>5, <2>6, <2>7, <2>8, <2>9
<1> HIDE DEF p
<1>8. QED BY <1>2, <1>6, <1>7, FineFeature DEF m, p, F

-----------------------------------------------------------------------------
\* GPUs, socket by socket.

\* The GPUs of the sockets are those in reach, each of one socket.
LEMMA SocketsCover ==
  ASSUME NEW g \in Nat, NEW N \in Nat \ {0}
  PROVE  /\ \A s \in 0..(N - 1) : /\ s * g \in Int /\ (s + 1) * g - 1 \in Int /\ s * g <= ((s + 1) * g - 1) + 1
                                  /\ (s * g)..((s + 1) * g - 1) \subseteq 0..(g * N - 1)
         /\ \A k \in 0..(g * N - 1) : \E s \in 0..(N - 1) : k \in (s * g)..((s + 1) * g - 1)
<1>1. ASSUME NEW s \in 0..(N - 1)
      PROVE  /\ s * g \in Int /\ (s + 1) * g - 1 \in Int /\ s * g <= ((s + 1) * g - 1) + 1
             /\ (s * g)..((s + 1) * g - 1) \subseteq 0..(g * N - 1)
  <2>1. s \in Nat /\ s + 1 <= N /\ s + 1 \in Nat OBVIOUS
  <2>2. s * g \in Nat /\ (s + 1) * g \in Nat /\ g * N \in Nat /\ (s + 1) * g = s * g + g BY <2>1
  <2>3. (s + 1) * g <= g * N
    <3>1. \E d \in Nat : N = s + 1 + d
      <4>1. N - (s + 1) \in Nat /\ N = s + 1 + (N - (s + 1)) BY <2>1
      <4>2. QED BY <4>1
    <3>2. PICK d \in Nat : N = s + 1 + d BY <3>1
    <3>3. g * (s + 1 + d) = (s + 1) * g + g * d /\ g * d \in Nat BY <2>1
    <3>4. QED BY <2>2, <3>2, <3>3
  <2>4. QED BY <2>2, <2>3
<1>2. ASSUME NEW k \in 0..(g * N - 1) PROVE \E s \in 0..(N - 1) : k \in (s * g)..((s + 1) * g - 1)
  <2>1. g > 0
    <3>1. CASE g = 0
      <4>1. g * N = 0 BY <3>1
      <4>2. QED BY <4>1
    <3>2. QED BY <3>1
  <2>2. \E s, t : s = k \div g /\ t = k % g OBVIOUS
  <2>3. PICK s, t : s = k \div g /\ t = k % g BY <2>2
  <2>4. k \in Nat OBVIOUS
  <2>5. s \in Nat /\ t \in 0..(g - 1) /\ k = g * s + t BY <2>1, <2>3, <2>4
  <2>6. (s + 1) * g = g * s + g /\ s * g = g * s /\ g * s \in Nat BY <2>5
  <2>7. s <= N - 1
    <3>1. CASE s >= N
      <4>1. \E d \in Nat : s = N + d
        <5>1. s - N \in Nat /\ s = N + (s - N) BY <2>5, <3>1
        <5>2. QED BY <5>1
      <4>2. PICK d \in Nat : s = N + d BY <4>1
      <4>3. g * (N + d) = g * N + g * d /\ g * d \in Nat /\ g * N \in Nat OBVIOUS
      <4>4. QED BY <2>5, <4>2, <4>3
    <3>2. QED BY <2>5, <3>1
  <2>8. QED BY <2>5, <2>6, <2>7
<1>3. QED BY <1>1, <1>2

Span(s, n) == (s * GpusPerSocket(n))..((s + 1) * GpusPerSocket(n) - 1)
OnGpus(s, n, B) == LoopFrom(s * GpusPerSocket(n), (s + 1) * GpusPerSocket(n) - 1, B)

\* What the GPUs of a socket, and all in reach, contribute.
From(C, s) == UNION {C[k] : k \in Span(s, NGPUS)}
InAll(C) == UNION {C[k] : k \in GpusInReach}

\* The GPUs of the sockets are GPUs of the node, and cover those in reach.
LEMMA SpansOfSockets ==
  /\ GpusPerSocket(NGPUS) \in Nat /\ GpusPerSocket(0) = 0
  /\ \A s \in 0..(NSOCKETS - 1) :
       /\ s * GpusPerSocket(NGPUS) \in Int /\ (s + 1) * GpusPerSocket(NGPUS) - 1 \in Int
       /\ s * GpusPerSocket(NGPUS) <= ((s + 1) * GpusPerSocket(NGPUS) - 1) + 1
       /\ Span(s, NGPUS) \subseteq GpusInReach
  /\ \A k \in GpusInReach : \E s \in 0..(NSOCKETS - 1) : k \in Span(s, NGPUS)
<1>1. NSOCKETS \in Nat \ {0} /\ NGPUS \in Nat \ {0} BY NumbersOfDevices
<1>2. GpusPerSocket(NGPUS) \in Nat BY <1>1 DEF GpusPerSocket
<1>3. GpusPerSocket(0) = 0 BY <1>1 DEF GpusPerSocket
<1>4. \E g : g = GpusPerSocket(NGPUS) OBVIOUS
<1>5. PICK g : g = GpusPerSocket(NGPUS) BY <1>4
<1>6. g \in Nat BY <1>2, <1>5
<1>7. /\ \A s \in 0..(NSOCKETS - 1) : /\ s * g \in Int /\ (s + 1) * g - 1 \in Int /\ s * g <= ((s + 1) * g - 1) + 1
                                      /\ (s * g)..((s + 1) * g - 1) \subseteq 0..(g * NSOCKETS - 1)
      /\ \A k \in 0..(g * NSOCKETS - 1) : \E s \in 0..(NSOCKETS - 1) : k \in (s * g)..((s + 1) * g - 1)
  BY ONLY <1>1, <1>6, SocketsCover
<1>8. GpusInReach = 0..(g * NSOCKETS - 1) /\ (\A s : Span(s, NGPUS) = (s * g)..((s + 1) * g - 1))
  BY <1>5 DEF GpusInReach, Span
<1>9. QED BY <1>2, <1>3, <1>5, <1>7, <1>8

\* What the sockets give together.
LEMMA UnionOfSockets ==
  ASSUME NEW C
  PROVE  UNION {From(C, s) : s \in 0..(NSOCKETS - 1)} = InAll(C)
<1>1. \A s \in 0..(NSOCKETS - 1) : Span(s, NGPUS) \subseteq GpusInReach BY SpansOfSockets
<1>2. \A k \in GpusInReach : \E s \in 0..(NSOCKETS - 1) : k \in Span(s, NGPUS) BY SpansOfSockets
<1>3. QED BY <1>1, <1>2 DEF From, InAll

\* A loop over the GPUs of a socket.
LEMMA GoodSpan ==
  ASSUME NEW m, NEW r, NEW x, NEW s \in 0..(NSOCKETS - 1), NEW B, NEW C, NEW T, NEW H,
         \A d \in GpusInReach : \A y : d \in Span(s, NGPUS) /\ Alike(y, x) => Good(m, r, y, B[d], Plus(y, C[d], T[d], H[d]))
  PROVE  Good(m, r, x, OnGpus(s, NGPUS, B),
              Plus(x, From(C, s), From(T, s),
                      From(H, s)))
<1>1. \E lo, hi : lo = s * GpusPerSocket(NGPUS) /\ hi = (s + 1) * GpusPerSocket(NGPUS) - 1 OBVIOUS
<1>2. PICK lo, hi : lo = s * GpusPerSocket(NGPUS) /\ hi = (s + 1) * GpusPerSocket(NGPUS) - 1 BY <1>1
<1>3. lo \in Int /\ hi \in Int /\ lo <= hi + 1 BY <1>2, SpansOfSockets
<1>4. Span(s, NGPUS) = lo..hi BY <1>2 DEF Span
<1>5. lo..hi \subseteq GpusInReach BY <1>4, SpansOfSockets
<1>6. \A d \in lo..hi : \A y : Alike(y, x) => Good(m, r, y, B[d], Plus(y, C[d], T[d], H[d])) BY <1>4, <1>5
<1>7. Good(m, r, x, LoopFrom(lo, hi, B),
           Plus(x, UNION {C[k] : k \in lo..hi}, UNION {T[k] : k \in lo..hi}, UNION {H[k] : k \in lo..hi}))
  BY ONLY <1>3, <1>6, GoodEach
<1>8. OnGpus(s, NGPUS, B) = LoopFrom(lo, hi, B) BY <1>2 DEF OnGpus
<1>9. \E U, V, W : U = From(C, s) /\ V = From(T, s) /\ W = From(H, s) OBVIOUS
<1>10. PICK U, V, W : U = From(C, s) /\ V = From(T, s) /\ W = From(H, s) BY <1>9
<1>11. UNION {C[k] : k \in lo..hi} = U BY <1>4, <1>10 DEF From
<1>12. UNION {T[k] : k \in lo..hi} = V BY <1>4, <1>10 DEF From
<1>13. UNION {H[k] : k \in lo..hi} = W BY <1>4, <1>10 DEF From
<1>14. QED BY <1>7, <1>8, <1>10, <1>11, <1>12, <1>13

\* There are none.
LEMMA GoodNoSpan ==
  ASSUME NEW m, NEW r, NEW x, NEW s \in 0..(NSOCKETS - 1), NEW B
  PROVE  Good(m, r, x, OnGpus(s, 0, B), x)
<1>1. \E lo, hi : lo = s * GpusPerSocket(0) /\ hi = (s + 1) * GpusPerSocket(0) - 1 OBVIOUS
<1>2. PICK lo, hi : lo = s * GpusPerSocket(0) /\ hi = (s + 1) * GpusPerSocket(0) - 1 BY <1>1
<1>3. NSOCKETS \in Nat BY NumbersOfDevices
<1>4. lo = 0 /\ hi = -1 BY <1>2, <1>3, SpansOfSockets
<1>5. lo \in Int /\ hi \in Int /\ lo <= hi + 1 BY <1>4
<1>6. \A k \in lo..hi : Good(m, r, x, B[k], x) BY <1>4
<1>7. Good(m, r, x, LoopFrom(lo, hi, B), x) BY ONLY <1>5, <1>6, GoodSteady
<1>8. QED BY <1>2, <1>7 DEF OnGpus

\* One function after the other, for each socket.
LEMMA GoodChips ==
  ASSUME NEW m, NEW r, NEW x, NEW F, NEW loop, NEW C, NEW T, NEW H,
         \A s \in 0..(NSOCKETS - 1) : loop[s] = Function(F[s]),
         \A s \in 0..(NSOCKETS - 1) : \A c, y : Alike(y, x) =>
           Good(m, c, y, F[s], Plus(y, From(C, s), From(T, s),
                                       From(H, s)))
  PROVE  Good(m, r, x, LoopFrom(0, NSOCKETS - 1, loop),
              Plus(x, InAll(C), InAll(T),
                      InAll(H)))
<1>1. \E A, U, V : /\ A = [s \in 0..(NSOCKETS - 1) |-> From(C, s)]
                   /\ U = [s \in 0..(NSOCKETS - 1) |-> From(T, s)]
                   /\ V = [s \in 0..(NSOCKETS - 1) |-> From(H, s)]
  OBVIOUS
<1>2. PICK A, U, V : /\ A = [s \in 0..(NSOCKETS - 1) |-> From(C, s)]
                     /\ U = [s \in 0..(NSOCKETS - 1) |-> From(T, s)]
                     /\ V = [s \in 0..(NSOCKETS - 1) |-> From(H, s)]
  BY <1>1
<1>3. \E lo, hi : lo = 0 /\ hi = NSOCKETS - 1 OBVIOUS
<1>4. PICK lo, hi : lo = 0 /\ hi = NSOCKETS - 1 BY <1>3
<1>5. lo \in Int /\ hi \in Int /\ lo <= hi + 1 BY <1>4, Spans
<1>6. ASSUME NEW s \in lo..hi, NEW y, Alike(y, x) PROVE Good(m, r, y, loop[s], Plus(y, A[s], U[s], V[s]))
  <2>1. s \in 0..(NSOCKETS - 1) BY <1>4
  <2>2. \E c : c = Plus(y, A[s], U[s], V[s]) OBVIOUS
  <2>3. PICK c : c = Plus(y, A[s], U[s], V[s]) BY <2>2
  <2>4. c = Plus(y, From(C, s), From(T, s),
                    From(H, s))
    BY <1>2, <2>1, <2>3
  <2>5. Good(m, c, y, F[s], c) BY <1>6, <2>1, <2>4
  <2>6. Entails(m, c, c) BY EntailsSame
  <2>7. Good(m, r, y, Function(F[s]), c) BY <2>5, <2>6, GoodCall
  <2>8. loop[s] = Function(F[s]) BY <2>1
  <2>9. QED BY <2>3, <2>7, <2>8
<1>7. \A s \in lo..hi : \A y : Alike(y, x) => Good(m, r, y, loop[s], Plus(y, A[s], U[s], V[s])) BY <1>6
<1>8. Good(m, r, x, LoopFrom(lo, hi, loop),
           Plus(x, UNION {A[s] : s \in lo..hi}, UNION {U[s] : s \in lo..hi}, UNION {V[s] : s \in lo..hi}))
  BY ONLY <1>5, <1>7, GoodEach
<1>9. UNION {A[s] : s \in lo..hi} = InAll(C)
  <2>1. {A[s] : s \in lo..hi} = {From(C, s) : s \in 0..(NSOCKETS - 1)} BY <1>2, <1>4
  <2>2. QED BY <2>1, UnionOfSockets
<1>10. UNION {U[s] : s \in lo..hi} = InAll(T)
  <2>1. {U[s] : s \in lo..hi} = {From(T, s) : s \in 0..(NSOCKETS - 1)} BY <1>2, <1>4
  <2>2. QED BY <2>1, UnionOfSockets
<1>11. UNION {V[s] : s \in lo..hi} = InAll(H)
  <2>1. {V[s] : s \in lo..hi} = {From(H, s) : s \in 0..(NSOCKETS - 1)} BY <1>2, <1>4
  <2>2. QED BY <2>1, UnionOfSockets
<1>12. QED BY <1>4, <1>8, <1>9, <1>10, <1>11

\* None of the functions has a GPU.
LEMMA GoodNoChips ==
  ASSUME NEW m, NEW r, NEW x, NEW F, NEW loop,
         \A s \in 0..(NSOCKETS - 1) : loop[s] = Function(F[s]),
         \A s \in 0..(NSOCKETS - 1) : \A c : Good(m, c, x, F[s], x)
  PROVE  Good(m, r, x, LoopFrom(0, NSOCKETS - 1, loop), x)
<1>1. \E lo, hi : lo = 0 /\ hi = NSOCKETS - 1 OBVIOUS
<1>2. PICK lo, hi : lo = 0 /\ hi = NSOCKETS - 1 BY <1>1
<1>3. lo \in Int /\ hi \in Int /\ lo <= hi + 1 BY <1>2, Spans
<1>4. ASSUME NEW s \in lo..hi PROVE Good(m, r, x, loop[s], x)
  <2>1. s \in 0..(NSOCKETS - 1) BY <1>2
  <2>2. Good(m, x, x, F[s], x) BY <2>1
  <2>3. Entails(m, x, x) BY EntailsSame
  <2>4. Good(m, r, x, Function(F[s]), x) BY <2>2, <2>3, GoodCall
  <2>5. QED BY <2>1, <2>4
<1>5. Good(m, r, x, LoopFrom(lo, hi, loop), x) BY ONLY <1>3, <1>4, GoodSteady
<1>6. QED BY <1>2, <1>5

-----------------------------------------------------------------------------
\* What the function F of a socket does with its GPUs, and that it does nothing without.
ChipDone(m, s, F, C, T) ==
  \A r, y : Blank(y) =>
    Good(m, r, y, F, Plus(y, From(C, s), From(T, s), {}))
ChipIdle(m, F) == \A r, y : DOMAIN y.vals = {} => Good(m, r, y, F, y)

\* The bodies of a feature for the number of GPUs, and for none.
Serves(m, Q, C, T) ==
  /\ DOMAIN Q = {0, NGPUS}
  /\ \A n \in {0, NGPUS} : \E loop :
       /\ Q[n] = LoopFrom(0, NSOCKETS - 1, loop) \o Return(0)
       /\ \A s \in 0..(NSOCKETS - 1) : \E F : /\ loop[s] = Function(F)
                                              /\ n = NGPUS => ChipDone(m, s, F, C, T)
                                              /\ n = 0 => ChipIdle(m, F)

\* A loop over the GPUs of a socket does what each of its turns does.
LEMMA SpanDone ==
  ASSUME NEW m, NEW s \in 0..(NSOCKETS - 1), NEW B, NEW C, NEW T,
         \A d \in Span(s, NGPUS) : \A r, y : Blank(y) => Good(m, r, y, B[d], Plus(y, C[d], T[d], {}))
  PROVE  ChipDone(m, s, OnGpus(s, NGPUS, B), C, T)
<1>1. ASSUME NEW r, NEW x, Blank(x)
      PROVE  Good(m, r, x, OnGpus(s, NGPUS, B),
                  Plus(x, From(C, s), From(T, s), {}))
  <2>1. \E H : H = [d \in GpusInReach |-> {}] OBVIOUS
  <2>2. PICK H : H = [d \in GpusInReach |-> {}] BY <2>1
  <2>3. ASSUME NEW d \in GpusInReach, NEW y, d \in Span(s, NGPUS), Alike(y, x)
        PROVE  Good(m, r, y, B[d], Plus(y, C[d], T[d], H[d]))
    <3>1. Blank(y) BY <1>1, <2>3 DEF Alike, Blank
    <3>2. Good(m, r, y, B[d], Plus(y, C[d], T[d], {})) BY <2>3, <3>1
    <3>3. QED BY <2>2, <3>2
  <2>4. \A d \in GpusInReach : \A y : d \in Span(s, NGPUS) /\ Alike(y, x) => Good(m, r, y, B[d], Plus(y, C[d], T[d], H[d]))
    BY <2>3
  <2>5. Good(m, r, x, OnGpus(s, NGPUS, B),
             Plus(x, From(C, s), From(T, s),
                     From(H, s)))
    BY <2>4, GoodSpan
  <2>6. From(H, s) = {}
    <3>1. Span(s, NGPUS) \subseteq GpusInReach BY SpansOfSockets
    <3>2. QED BY <2>2, <3>1 DEF From
  <2>7. QED BY <2>5, <2>6
<1>2. \E F : F = OnGpus(s, NGPUS, B) OBVIOUS
<1>3. PICK F : F = OnGpus(s, NGPUS, B) BY <1>2
<1>4. ChipDone(m, s, F, C, T) BY <1>1, <1>3 DEF ChipDone
<1>5. QED BY <1>3, <1>4

\* And nothing where there are none.
LEMMA SpanIdle ==
  ASSUME NEW m, NEW s \in 0..(NSOCKETS - 1), NEW B
  PROVE  ChipIdle(m, OnGpus(s, 0, B))
  BY GoodNoSpan DEF ChipIdle

\* A feature that does the same for each GPU.
LEMMA ServesGpus ==
  ASSUME NEW m, NEW C, NEW T, NEW body, NEW Q,
         Q = [n \in {0, NGPUS} |->
                LoopFrom(0, NSOCKETS - 1,
                         [s \in 0..(NSOCKETS - 1) |-> Function(OnGpus(s, n, [k \in Span(s, n) |-> body[k]]))])
                  \o Return(0)],
         \A d \in GpusInReach : \A r, y : Blank(y) => Good(m, r, y, body[d], Plus(y, C[d], T[d], {}))
  PROVE  Serves(m, Q, C, T)
<1>1. DOMAIN Q = {0, NGPUS} OBVIOUS
<1>2. ASSUME NEW n \in {0, NGPUS}
      PROVE  \E loop : /\ Q[n] = LoopFrom(0, NSOCKETS - 1, loop) \o Return(0)
                       /\ \A s \in 0..(NSOCKETS - 1) : \E F : /\ loop[s] = Function(F)
                                                              /\ n = NGPUS => ChipDone(m, s, F, C, T)
                                                              /\ n = 0 => ChipIdle(m, F)
  <2>1. \E loop : loop = [s \in 0..(NSOCKETS - 1) |-> Function(OnGpus(s, n, [k \in Span(s, n) |-> body[k]]))] OBVIOUS
  <2>2. PICK loop : loop = [s \in 0..(NSOCKETS - 1) |-> Function(OnGpus(s, n, [k \in Span(s, n) |-> body[k]]))] BY <2>1
  <2>3. Q[n] = LoopFrom(0, NSOCKETS - 1, loop) \o Return(0) BY <2>2
  <2>4. ASSUME NEW s \in 0..(NSOCKETS - 1)
        PROVE  \E F : loop[s] = Function(F) /\ (n = NGPUS => ChipDone(m, s, F, C, T)) /\ (n = 0 => ChipIdle(m, F))
    <3>1. \E B : B = [k \in Span(s, n) |-> body[k]] OBVIOUS
    <3>2. PICK B : B = [k \in Span(s, n) |-> body[k]] BY <3>1
    <3>3. loop[s] = Function(OnGpus(s, n, B)) BY <2>2, <3>2
    <3>4. ASSUME n = NGPUS PROVE ChipDone(m, s, OnGpus(s, n, B), C, T)
      <4>1. ASSUME NEW d \in Span(s, NGPUS), NEW r, NEW y, Blank(y) PROVE Good(m, r, y, B[d], Plus(y, C[d], T[d], {}))
        <5>1. d \in GpusInReach BY SpansOfSockets
        <5>2. B[d] = body[d] BY <3>2, <3>4
        <5>3. QED BY <4>1, <5>1, <5>2
      <4>2. ChipDone(m, s, OnGpus(s, NGPUS, B), C, T) BY <4>1, SpanDone
      <4>3. QED BY <3>4, <4>2
    <3>5. n = 0 => ChipIdle(m, OnGpus(s, n, B)) BY SpanIdle
    <3>6. QED BY <3>3, <3>4, <3>5
  <2>5. QED BY <2>3, <2>4
<1>3. QED BY <1>1, <1>2 DEF Serves

\* The bodies give out and cap what the GPUs in reach do; after a refusal, the body
\* for no GPU will do.
LEMMA ServedBodies ==
  ASSUME NEW m, NEW Q, NEW C, NEW T, NEW E, NEW c, NEW r, Serves(m, Q, C, T),
         c = Outcome(E, InAll(C), InAll(T), {}),
         "blind" \in m.traits \/ InAll(T) = {}
  PROVE  /\ Good(m, r, Base(E), Function(Q[NGPUS]), c)
         /\ Good(m, r, Refused(Base(E)), Function(Q[NGPUS]), c)
         /\ Good(m, r, Refused(Base(E)), Function(Q[0]), c)
<1>1. \E o, z : o = Base(E) /\ z = Refused(o) OBVIOUS
<1>2. PICK o, z : o = Base(E) /\ z = Refused(o) BY <1>1
<1>3. Blank(o) /\ Easy(o) /\ Easy(c) BY <1>2, OutcomeIs DEF Base
<1>4. Good(m, r, o, Function(Q[NGPUS]), c)
  <2>1. NGPUS \in {0, NGPUS} OBVIOUS
  <2>2. PICK loop : /\ Q[NGPUS] = LoopFrom(0, NSOCKETS - 1, loop) \o Return(0)
                    /\ \A s \in 0..(NSOCKETS - 1) : \E F : loop[s] = Function(F) /\ ChipDone(m, s, F, C, T)
    BY <2>1 DEF Serves
  <2>3. \E F : F = [s \in 0..(NSOCKETS - 1) |-> CHOOSE f : loop[s] = Function(f) /\ ChipDone(m, s, f, C, T)] OBVIOUS
  <2>4. PICK F : F = [s \in 0..(NSOCKETS - 1) |-> CHOOSE f : loop[s] = Function(f) /\ ChipDone(m, s, f, C, T)] BY <2>3
  <2>5. \A s \in 0..(NSOCKETS - 1) : loop[s] = Function(F[s]) /\ ChipDone(m, s, F[s], C, T) BY <2>2, <2>4
  <2>6. \E H : H = [d \in GpusInReach |-> {}] OBVIOUS
  <2>7. PICK H : H = [d \in GpusInReach |-> {}] BY <2>6
  <2>8. \A s \in 0..(NSOCKETS - 1) : From(H, s) = {}
    <3>1. \A s \in 0..(NSOCKETS - 1) : Span(s, NGPUS) \subseteq GpusInReach BY SpansOfSockets
    <3>2. QED BY <2>7, <3>1 DEF From
  <2>9. ASSUME NEW s \in 0..(NSOCKETS - 1), NEW b, NEW y, Alike(y, o)
        PROVE  Good(m, b, y, F[s], Plus(y, From(C, s), From(T, s),
                                           From(H, s)))
    <3>1. Blank(y) BY <1>3, <2>9 DEF Alike, Blank
    <3>2. Good(m, b, y, F[s], Plus(y, From(C, s), From(T, s), {}))
      BY <2>5, <3>1 DEF ChipDone
    <3>3. QED BY <2>8, <3>2
  <2>10. \A s \in 0..(NSOCKETS - 1) : loop[s] = Function(F[s]) BY <2>5
  <2>11. Good(m, c, o, LoopFrom(0, NSOCKETS - 1, loop),
              Plus(o, InAll(C), InAll(T),
                      InAll(H)))
    <3>1. \A s \in 0..(NSOCKETS - 1) : \A b, y : Alike(y, o) =>
            Good(m, b, y, F[s], Plus(y, From(C, s), From(T, s),
                                        From(H, s)))
      BY <2>9
    <3>2. QED BY ONLY <2>10, <3>1, GoodChips
  <2>12. InAll(H) = {} BY <2>7 DEF InAll
  <2>13. Plus(o, InAll(C), InAll(T), {}) = c BY <1>2, OutcomeIs
  <2>14. Good(m, c, o, LoopFrom(0, NSOCKETS - 1, loop), c) BY <2>11, <2>12, <2>13
  <2>15. Good(m, c, o, Q[NGPUS], c) BY <2>2, <2>14, GoodEnd
  <2>16. QED BY <2>15, EntailsSame, GoodCall
<1>5. Entails(m, z, o) BY <1>2, <1>3, RefusedStands
<1>6. Good(m, r, z, Function(Q[NGPUS]), c) BY <1>4, <1>5, EntailsSame, GoodWeaker
<1>7. Good(m, r, z, Function(Q[0]), c)
  <2>1. PICK loop : /\ Q[0] = LoopFrom(0, NSOCKETS - 1, loop) \o Return(0)
                    /\ \A s \in 0..(NSOCKETS - 1) : \E F : loop[s] = Function(F) /\ ChipIdle(m, F)
    BY DEF Serves
  <2>2. \E F : F = [s \in 0..(NSOCKETS - 1) |-> CHOOSE f : loop[s] = Function(f) /\ ChipIdle(m, f)] OBVIOUS
  <2>3. PICK F : F = [s \in 0..(NSOCKETS - 1) |-> CHOOSE f : loop[s] = Function(f) /\ ChipIdle(m, f)] BY <2>2
  <2>4. \A s \in 0..(NSOCKETS - 1) : loop[s] = Function(F[s]) /\ ChipIdle(m, F[s]) BY <2>1, <2>3
  <2>5. DOMAIN z.vals = {} BY <1>2, <1>3 DEF Refused, Facts, Easy
  <2>6. \A s \in 0..(NSOCKETS - 1) : \A b : Good(m, b, z, F[s], z) BY <2>4, <2>5 DEF ChipIdle
  <2>7. \A s \in 0..(NSOCKETS - 1) : loop[s] = Function(F[s]) BY <2>4
  <2>8. Good(m, c, z, LoopFrom(0, NSOCKETS - 1, loop), z) BY ONLY <2>6, <2>7, GoodNoChips
  <2>9. Entails(m, z, c)
    <3>1. z.mark = "refused" /\ z.opened = E /\ z.taken = {} /\ z.bound = {} /\ z.wanted = "share"
      BY <1>2 DEF Base, Outcome, Refused, Facts
    <3>2. /\ c.mark = "none" /\ c.opened = E /\ c.bound = {} /\ c.wanted = "share" /\ DOMAIN c.vals = {}
          /\ "blind" \in m.traits \/ c.taken = {}
      BY DEF Outcome, Facts, NoVals
    <3>3. QED BY <3>1, <3>2 DEF Entails, Exact, Tidy, Caps
  <2>10. Good(m, c, z, LoopFrom(0, NSOCKETS - 1, loop), c) BY <2>8, <2>9, EntailsSame, GoodWeaker
  <2>11. Good(m, c, z, Q[0], c) BY <2>1, <2>10, GoodEnd
  <2>12. QED BY <2>11, EntailsSame, GoodCall
<1>8. QED BY <1>2, <1>4, <1>6, <1>7

\* A resource that is counted among those open is brought up, or the work goes on without.
LEMMA GoodBringUp ==
  ASSUME NEW m, NEW r, NEW E, NEW x \in E, NEW no \in {<< >>, Complain}
  PROVE  Good(m, r, Base(E), Open(x, << >>, no), Base(E))
<1>1. \E o : o = Base(E) OBVIOUS
<1>2. PICK o : o = Base(E) BY <1>1
<1>3. Easy(o) BY <1>2, OutcomeIs DEF Base
<1>4. Opened(o, x) = o
  <2>1. E \union {x} = E OBVIOUS
  <2>2. QED BY <1>2, <2>1 DEF Opened, Base, Outcome, Facts
<1>5. Good(m, r, Opened(o, x), << >>, o) BY <1>4, EntailsSame, GoodNone
<1>6. Good(m, r, Refused(o), no, o)
  <2>1. CASE no = << >> BY <2>1, <1>3, RefusedStands, GoodNone
  <2>2. CASE no = Complain BY <2>2, <1>3, GoodMessage
  <2>3. QED BY <2>1, <2>2
<1>7. QED BY <1>2, <1>5, <1>6, GoodOpen

\* What may be open is forgotten.
LEMMA MayBeOpen ==
  ASSUME NEW m, NEW E
  PROVE  Entails(m, Base({}), Base(E))
<1>1. \E a, o : a = Base({}) /\ o = Base(E) OBVIOUS
<1>2. PICK a, o : a = Base({}) /\ o = Base(E) BY <1>1
<1>3. /\ a.vals = o.vals /\ a.claims = o.claims /\ a.taken = o.taken /\ a.bound = o.bound /\ a.mark = o.mark
      /\ a.wanted = o.wanted /\ a.opened = {}
  BY <1>2 DEF Base, Outcome, Facts
<1>4. QED BY <1>2, <1>3 DEF Entails

\* Intel GPUs.
LEMMA IntelGpuFine ==
  ASSUME NEW m, NEW Q, NEW C, NEW T, NEW g, Serves(m, Q, C, T),
         g = Outcome({}, InAll(C), InAll(T), {}),
         "blind" \in m.traits \/ InAll(T) = {}
  PROVE  Good(m, g, Base({}), initAPMIDG(Q) \o shutdownAPMIDG, g)
<1>1. \E E, o, c, P, D, R : /\ E = {apmidg} /\ o = Base(E) /\ D = InAll(C)
                            /\ R = InAll(T) /\ c = Outcome(E, D, R, {})
                            /\ P = [n \in DOMAIN Q |-> Function(Q[n])]
  OBVIOUS
<1>2. PICK E, o, c, P, D, R : /\ E = {apmidg} /\ o = Base(E) /\ D = InAll(C)
                              /\ R = InAll(T) /\ c = Outcome(E, D, R, {})
                              /\ P = [n \in DOMAIN Q |-> Function(Q[n])]
  BY <1>1
<1>3. P[NGPUS] = Function(Q[NGPUS]) /\ P[0] = Function(Q[0])
  <2>1. DOMAIN Q = {0, NGPUS} BY DEF Serves
  <2>2. QED BY <1>2, <2>1
<1>4. "blind" \in m.traits \/ R = {} BY <1>2
<1>5. Good(m, g, o, P[NGPUS], c) /\ Good(m, g, Refused(o), P[0], c) BY <1>2, <1>3, ServedBodies
<1>6. Good(m, g, Refused(o), << >>, Refused(o)) BY EntailsSame, GoodNone
<1>7. Good(m, g, Refused(o), << >> \o P[0], c) BY <1>5, <1>6, GoodThen
<1>8. \A n \in {0} : Good(m, g, Refused(o), << >> \o P[n], c) BY <1>7
<1>9. {0} = {} => Good(m, g, Refused(o), << >>, c) OBVIOUS
<1>10. Good(m, g, o, Count(P, apmidg, {0}, << >>), c)
  <2>1. \E S : S = {0} OBVIOUS
  <2>2. PICK S : S = {0} BY <2>1
  <2>3. Good(m, g, o, P[NGPUS], c) BY <1>5
  <2>4. S = {} => Good(m, g, Refused(o), << >>, c) BY <2>2
  <2>5. \A n \in S : Good(m, g, Refused(o), << >> \o P[n], c) BY <1>8, <2>2
  <2>6. Good(m, g, o, Count(P, apmidg, S, << >>), c) BY ONLY <2>3, <2>4, <2>5, GoodCount
  <2>7. QED BY <2>2, <2>6
<1>11. Good(m, g, o, Open(apmidg, << >>, << >>), o)
  <2>1. apmidg \in E BY <1>2
  <2>2. \E x : x = apmidg OBVIOUS
  <2>3. PICK x : x = apmidg BY <2>2
  <2>4. \E no : no = << >> OBVIOUS
  <2>5. PICK no : no = << >> BY <2>4
  <2>6. x \in E /\ no \in {<< >>, Complain} BY <2>1, <2>3, <2>5
  <2>7. Good(m, g, Base(E), Open(x, << >>, no), Base(E)) BY <2>6, GoodBringUp
  <2>8. QED BY <1>2, <2>3, <2>5, <2>7
<1>12. Good(m, g, Base({}), Open(apmidg, << >>, << >>), o) BY <1>2, <1>11, MayBeOpen, EntailsSame, GoodWeaker
<1>13. Good(m, g, c, Close({apmidg}), g)
  <2>1. Entails(m, Closed(c, {apmidg}), g) BY <1>2, ClosedOutcome
  <2>2. QED BY <2>1, GoodClose
<1>14. Good(m, g, Base({}), Open(apmidg, << >>, << >>) \o Count(P, apmidg, {0}, << >>), c) BY <1>10, <1>12, GoodThen
<1>15. Good(m, g, Base({}), Open(apmidg, << >>, << >>) \o Count(P, apmidg, {0}, << >>) \o Close({apmidg}), g)
  BY <1>13, <1>14, GoodThen
<1>16. QED BY <1>2, <1>15 DEF initAPMIDG, shutdownAPMIDG

-----------------------------------------------------------------------------
\* The bodies of a feature that does the same for each GPU.
GpuBodies(body) ==
  [n \in {0, NGPUS} |->
     LoopFrom(0, NSOCKETS - 1, [s \in 0..(NSOCKETS - 1) |-> Function(OnGpus(s, n, [k \in Span(s, n) |-> body[k]]))])
       \o Return(0)]

\* A loop over sockets and GPUs, for either number of GPUs found.
LEMMA GpuBodiesServe ==
  ASSUME NEW m, NEW body, NEW C, NEW T,
         \A d \in GpusInReach : \A r, y : Blank(y) => Good(m, r, y, body[d], Plus(y, C[d], T[d], {}))
  PROVE  Serves(m, GpuBodies(body), C, T)
<1>1. \E Q : Q = GpuBodies(body) OBVIOUS
<1>2. PICK Q : Q = GpuBodies(body) BY <1>1
<1>3. Q = [n \in {0, NGPUS} |->
             LoopFrom(0, NSOCKETS - 1,
                      [s \in 0..(NSOCKETS - 1) |-> Function(OnGpus(s, n, [k \in Span(s, n) |-> body[k]]))])
               \o Return(0)]
  BY <1>2 DEF GpuBodies
<1>4. Serves(m, Q, C, T) BY <1>3, ServesGpus
<1>5. QED BY <1>2, <1>4

\* One reading of each GPU.
LEMMA ReadingsOfGpus ==
  ASSUME NEW m, NEW body, NEW what, NEW C, NEW T,
         C = [d \in GpusInReach |-> {{<<what, d>>}}], T = [d \in GpusInReach |-> {}],
         \A d \in GpusInReach : \A r, y : Blank(y) => Good(m, r, y, body[d], Plus(y, {{<<what, d>>}}, {}, {}))
  PROVE  Serves(m, GpuBodies(body), C, T) /\ InAll(C) = Claims(what, GpusInReach) /\ InAll(T) = {}
<1>1. \A d \in GpusInReach : \A r, y : Blank(y) => Good(m, r, y, body[d], Plus(y, C[d], T[d], {})) OBVIOUS
<1>2. Serves(m, GpuBodies(body), C, T) BY <1>1, GpuBodiesServe
<1>3. \A k \in GpusInReach : C[k] = {{<<what, k>>}} OBVIOUS
<1>4. UNION {C[k] : k \in GpusInReach} = Claims(what, GpusInReach) BY ONLY <1>3, ClaimsAre
<1>5. UNION {T[k] : k \in GpusInReach} = {} OBVIOUS
<1>6. QED BY <1>2, <1>4, <1>5 DEF InAll

\* A feature of the Intel GPUs that gives out one reading of each.
LEMMA IntelGpuReports ==
  ASSUME NEW m, NEW body, NEW what,
         \A d \in GpusInReach : \A r, y : Blank(y) => Good(m, r, y, body[d], Plus(y, {{<<what, d>>}}, {}, {}))
  PROVE  Fine(m, {}, Reporting(initAPMIDG(GpuBodies(body)) \o shutdownAPMIDG, Claims(what, GpusInReach)), {})
<1>1. \E Q, C, T, g : /\ Q = GpuBodies(body) /\ C = [d \in GpusInReach |-> {{<<what, d>>}}]
                      /\ T = [d \in GpusInReach |-> {}] /\ g = Outcome({}, InAll(C), InAll(T), {})
  OBVIOUS
<1>2. PICK Q, C, T, g : /\ Q = GpuBodies(body) /\ C = [d \in GpusInReach |-> {{<<what, d>>}}]
                        /\ T = [d \in GpusInReach |-> {}] /\ g = Outcome({}, InAll(C), InAll(T), {})
  BY <1>1
<1>3. Serves(m, Q, C, T) /\ InAll(C) = Claims(what, GpusInReach) /\ InAll(T) = {} BY <1>2, ReadingsOfGpus
<1>4. Good(m, g, Base({}), initAPMIDG(Q) \o shutdownAPMIDG, g) BY <1>2, <1>3, IntelGpuFine
<1>5. QED BY <1>2, <1>3, <1>4, ReportingFine

\* What a variable holds that is not set is not known.
LEMMA GoodUninit ==
  ASSUME NEW m, NEW r, NEW x, NEW v, v \notin DOMAIN x.vals
  PROVE  Good(m, r, x, Uninit(v), x)
<1>1. Entails(m, WithVal(x, v, {Junk}), x) BY Forget
<1>2. Good(m, r, x, Let(v, {Junk}), x) BY <1>1, GoodLet
<1>3. Good(m, r, x, << >>, x) BY EntailsSame, GoodNone
<1>4. QED BY <1>2, <1>3, GoodFork DEF Uninit

\* The power of each Intel GPU, whose failed reading is not looked at.
LEMMA IntelGpuPower ==
  ASSUME NEW m, "old" \in m.traits
  PROVE  Fine(m, {}, intel_gpu_get_power, {})
<1> DEFINE E(d) == Get(Var("value"), <<"power", d>>, apmidg, Let(Var("value"), {Junk})) \o Show(Of("power", d), Var("value"))
           body == [d \in Int |-> E(d)]
<1>1. ASSUME NEW s, NEW n PROVE apmidg_get_power_data(s, n) = OnGpus(s, n, [k \in Span(s, n) |-> body[k]])
  <2>1. [k \in Span(s, n) |-> E(k)] = [k \in Span(s, n) |-> body[k]] BY DEF Span
  <2>2. QED BY <2>1 DEF apmidg_get_power_data, EachGpuOf, Each, OnGpus, Span
<1>2. intel_gpu_get_power = Reporting(initAPMIDG(GpuBodies(body)) \o shutdownAPMIDG, Claims("power", GpusInReach))
  <2>1. \A n : [s \in 0..(NSOCKETS - 1) |-> Function(apmidg_get_power_data(s, n))]
                 = [s \in 0..(NSOCKETS - 1) |-> Function(OnGpus(s, n, [k \in Span(s, n) |-> body[k]]))]
    BY <1>1
  <2>2. [n \in {0, NGPUS} |->
           LoopFrom(0, NSOCKETS - 1, [s \in 0..(NSOCKETS - 1) |-> Function(apmidg_get_power_data(s, n))]) \o Return(0)]
          = GpuBodies(body)
    BY <2>1 DEF GpuBodies
  <2>3. QED BY <2>2 DEF intel_gpu_get_power, IntelGpuChips, WithAPMIDG, EachSocket, Each
<1>3. \E v, what, p : v = Var("value") /\ what = "power" /\ p = body OBVIOUS
<1>4. PICK v, what, p : v = Var("value") /\ what = "power" /\ p = body BY <1>3
<1>5. \A d \in GpusInReach : p[d] = Get(v, <<what, d>>, apmidg, Let(v, {Junk})) \o Show({<<what, d>>}, v)
  <2>1. ASSUME NEW d \in GpusInReach PROVE p[d] = Get(v, <<what, d>>, apmidg, Let(v, {Junk})) \o Show({<<what, d>>}, v)
    <3>1. d \in Int BY DEF GpusInReach
    <3>2. body[d] = E(d) BY <3>1
    <3>3. QED BY <3>2, <1>4 DEF Of
  <2>2. QED BY <2>1
<1>6. ASSUME NEW d \in GpusInReach, NEW r, NEW y, Blank(y) PROVE Good(m, r, y, p[d], Plus(y, {{<<what, d>>}}, {}, {}))
  <2>1. \E src, b : src = <<what, d>> /\ b = WithVal(y, v, {src}) OBVIOUS
  <2>2. PICK src, b : src = <<what, d>> /\ b = WithVal(y, v, {src}) BY <2>1
  <2>3. v \notin DOMAIN y.vals BY <1>6 DEF Blank
  <2>4. Good(m, r, b, << >>, b) BY EntailsSame, GoodNone
  <2>5. Good(m, r, Refused(y), Let(v, {Junk}), b)
    <3>1. \E e : e = WithVal(Refused(y), v, {Junk}) OBVIOUS
    <3>2. PICK e : e = WithVal(Refused(y), v, {Junk}) BY <3>1
    <3>3. /\ e.mark = "refused" /\ e.opened = y.opened /\ e.taken = y.taken /\ e.bound = y.bound
          /\ e.wanted = y.wanted
      BY <1>6, <3>2 DEF WithVal, Refused, Facts, Blank
    <3>4. /\ b.mark = "none" /\ b.opened = y.opened /\ b.taken = y.taken /\ b.bound = y.bound
          /\ b.wanted = y.wanted
      BY <1>6, <2>2 DEF WithVal, Facts, Blank
    <3>5. Entails(m, e, b) BY <3>3, <3>4 DEF Entails, Exact
    <3>6. QED BY <3>2, <3>5, GoodLet
  <2>6. Good(m, r, y, GetOr(v, src, apmidg, << >>, Let(v, {Junk}), Let(v, {Junk})), b)
    BY <2>2, <2>4, <2>5, GoodGet
  <2>7. Good(m, r, b, Show({src}, v), Plus(y, {{src}}, {}, {})) BY <2>2, <2>3, GoodGivenOut
  <2>8. Good(m, r, y, Get(v, src, apmidg, Let(v, {Junk})) \o Show({src}, v), Plus(y, {{src}}, {}, {}))
    BY <2>6, <2>7, GoodThen DEF Get, GetThen
  <2>9. QED BY <1>5, <2>2, <2>8
<1> HIDE DEF body
<1>7. Fine(m, {}, Reporting(initAPMIDG(GpuBodies(p)) \o shutdownAPMIDG, Claims(what, GpusInReach)), {})
  BY <1>6, IntelGpuReports
<1>8. QED BY <1>2, <1>4, <1>7

\* A variable that is not set is read, and given out.
LEMMA GoodUninitReport ==
  ASSUME NEW m, NEW r, NEW x, NEW v, NEW src, NEW via, NEW no, "old" \in m.traits, Mild(r, x, no), v \notin DOMAIN x.vals
  PROVE  Good(m, r, x, Uninit(v) \o Get(v, src, via, no) \o Show({src}, v), Plus(x, {{src}}, {}, {}))
<1>1. Good(m, r, x, Uninit(v), x) BY GoodUninit
<1>2. Good(m, r, x, Get(v, src, via, no), WithVal(x, v, {src})) BY GoodAsk
<1>3. Good(m, r, WithVal(x, v, {src}), Show({src}, v), Plus(x, {{src}}, {}, {})) BY GoodGivenOut
<1>4. Good(m, r, x, Uninit(v) \o Get(v, src, via, no), WithVal(x, v, {src})) BY <1>1, <1>2, GoodThen
<1>5. QED BY <1>3, <1>4, GoodThen

\* The temperature of each GPU.
LEMMA IntelGpuThermals ==
  ASSUME NEW m, "old" \in m.traits
  PROVE  Fine(m, {}, intel_gpu_get_thermals, {})
<1> DEFINE E(d) == Uninit(Var("temp_C")) \o Get(Var("temp_C"), <<"temp", d>>, apmidg, << >>) \o Show(Of("temp", d), Var("temp_C"))
           body == [d \in Int |-> E(d)]
<1>1. ASSUME NEW s, NEW n PROVE apmidg_get_thermal_data(s, n) = OnGpus(s, n, [k \in Span(s, n) |-> body[k]])
  <2>1. [k \in Span(s, n) |-> E(k)] = [k \in Span(s, n) |-> body[k]] BY DEF Span
  <2>2. QED BY <2>1 DEF apmidg_get_thermal_data, EachGpuOf, Each, OnGpus, Span
<1>2. intel_gpu_get_thermals = Reporting(initAPMIDG(GpuBodies(body)) \o shutdownAPMIDG, Claims("temp", GpusInReach))
  <2>1. \A n : [s \in 0..(NSOCKETS - 1) |-> Function(apmidg_get_thermal_data(s, n))]
                 = [s \in 0..(NSOCKETS - 1) |-> Function(OnGpus(s, n, [k \in Span(s, n) |-> body[k]]))]
    BY <1>1
  <2>2. [n \in {0, NGPUS} |->
           LoopFrom(0, NSOCKETS - 1, [s \in 0..(NSOCKETS - 1) |-> Function(apmidg_get_thermal_data(s, n))]) \o Return(0)]
          = GpuBodies(body)
    BY <2>1 DEF GpuBodies
  <2>3. QED BY <2>2 DEF intel_gpu_get_thermals, IntelGpuChips, WithAPMIDG, EachSocket, Each
<1>3. \E v, what, p : v = Var("temp_C") /\ what = "temp" /\ p = body OBVIOUS
<1>4. PICK v, what, p : v = Var("temp_C") /\ what = "temp" /\ p = body BY <1>3
<1>5. ASSUME NEW d \in GpusInReach, NEW r, NEW y, Blank(y) PROVE Good(m, r, y, p[d], Plus(y, {{<<what, d>>}}, {}, {}))
  <2>1. d \in Int BY DEF GpusInReach
  <2>2. body[d] = E(d) BY <2>1
  <2>3. \E src : src = <<what, d>> OBVIOUS
  <2>4. PICK src : src = <<what, d>> BY <2>3
  <2>5. p[d] = Uninit(v) \o Get(v, src, apmidg, << >>) \o Show({src}, v) BY <2>2, <2>4, <1>4 DEF Of
  <2>6. Mild(r, y, << >>) /\ v \notin DOMAIN y.vals BY <1>5 DEF Mild, Blank
  <2>7. Good(m, r, y, Uninit(v) \o Get(v, src, apmidg, << >>) \o Show({src}, v), Plus(y, {{src}}, {}, {}))
    BY <2>6, GoodUninitReport
  <2>8. QED BY <2>4, <2>5, <2>7
<1> HIDE DEF body
<1>6. Fine(m, {}, Reporting(initAPMIDG(GpuBodies(p)) \o shutdownAPMIDG, Claims(what, GpusInReach)), {})
  BY <1>5, IntelGpuReports
<1>7. QED BY <1>2, <1>4, <1>6

\* The frequency of each GPU.
LEMMA IntelGpuClocks ==
  ASSUME NEW m, "old" \in m.traits
  PROVE  Fine(m, {}, intel_gpu_get_clocks, {})
<1> DEFINE E(d) ==
             Uninit(Var("freq_MHz")) \o Get(Var("freq_MHz"), <<"clk", d>>, apmidg, << >>) \o Show(Of("clk", d), Var("freq_MHz"))
           body == [d \in Int |-> E(d)]
<1>1. ASSUME NEW s, NEW n PROVE apmidg_get_clocks_data(s, n) = OnGpus(s, n, [k \in Span(s, n) |-> body[k]])
  <2>1. [k \in Span(s, n) |-> E(k)] = [k \in Span(s, n) |-> body[k]] BY DEF Span
  <2>2. QED BY <2>1 DEF apmidg_get_clocks_data, EachGpuOf, Each, OnGpus, Span
<1>2. intel_gpu_get_clocks = Reporting(initAPMIDG(GpuBodies(body)) \o shutdownAPMIDG, Claims("clk", GpusInReach))
  <2>1. \A n : [s \in 0..(NSOCKETS - 1) |-> Function(apmidg_get_clocks_data(s, n))]
                 = [s \in 0..(NSOCKETS - 1) |-> Function(OnGpus(s, n, [k \in Span(s, n) |-> body[k]]))]
    BY <1>1
  <2>2. [n \in {0, NGPUS} |->
           LoopFrom(0, NSOCKETS - 1, [s \in 0..(NSOCKETS - 1) |-> Function(apmidg_get_clocks_data(s, n))]) \o Return(0)]
          = GpuBodies(body)
    BY <2>1 DEF GpuBodies
  <2>3. QED BY <2>2 DEF intel_gpu_get_clocks, IntelGpuChips, WithAPMIDG, EachSocket, Each
<1>3. \E v, what, p : v = Var("freq_MHz") /\ what = "clk" /\ p = body OBVIOUS
<1>4. PICK v, what, p : v = Var("freq_MHz") /\ what = "clk" /\ p = body BY <1>3
<1>5. ASSUME NEW d \in GpusInReach, NEW r, NEW y, Blank(y) PROVE Good(m, r, y, p[d], Plus(y, {{<<what, d>>}}, {}, {}))
  <2>1. d \in Int BY DEF GpusInReach
  <2>2. body[d] = E(d) BY <2>1
  <2>3. \E src : src = <<what, d>> OBVIOUS
  <2>4. PICK src : src = <<what, d>> BY <2>3
  <2>5. p[d] = Uninit(v) \o Get(v, src, apmidg, << >>) \o Show({src}, v) BY <2>2, <2>4, <1>4 DEF Of
  <2>6. Mild(r, y, << >>) /\ v \notin DOMAIN y.vals BY <1>5 DEF Mild, Blank
  <2>7. Good(m, r, y, Uninit(v) \o Get(v, src, apmidg, << >>) \o Show({src}, v), Plus(y, {{src}}, {}, {}))
    BY <2>6, GoodUninitReport
  <2>8. QED BY <2>4, <2>5, <2>7
<1> HIDE DEF body
<1>6. Fine(m, {}, Reporting(initAPMIDG(GpuBodies(p)) \o shutdownAPMIDG, Claims(what, GpusInReach)), {})
  BY <1>5, IntelGpuReports
<1>7. QED BY <1>2, <1>4, <1>6

\* The cap of each GPU.
LEMMA IntelGpuPowerLimit ==
  ASSUME NEW m
  PROVE  Fine(m, {}, intel_gpu_get_power_limit, {})
<1> DEFINE E(d) == Reset(Var("current_powerlimit_mwatts")) \o Get(Var("current_powerlimit_mwatts"), <<"cap", d>>, apmidg, << >>)
             \o Show(Of("cap", d), Var("current_powerlimit_mwatts"))
           body == [d \in Int |-> E(d)]
<1>1. ASSUME NEW s, NEW n PROVE apmidg_get_power_limit_data(s, n) = OnGpus(s, n, [k \in Span(s, n) |-> body[k]])
  <2>1. [k \in Span(s, n) |-> E(k)] = [k \in Span(s, n) |-> body[k]] BY DEF Span
  <2>2. QED BY <2>1 DEF apmidg_get_power_limit_data, EachGpuOf, Each, OnGpus, Span
<1>2. intel_gpu_get_power_limit = Reporting(initAPMIDG(GpuBodies(body)) \o shutdownAPMIDG, Claims("cap", GpusInReach))
  <2>1. \A n : [s \in 0..(NSOCKETS - 1) |-> Function(apmidg_get_power_limit_data(s, n))]
                 = [s \in 0..(NSOCKETS - 1) |-> Function(OnGpus(s, n, [k \in Span(s, n) |-> body[k]]))]
    BY <1>1
  <2>2. [n \in {0, NGPUS} |->
           LoopFrom(0, NSOCKETS - 1, [s \in 0..(NSOCKETS - 1) |-> Function(apmidg_get_power_limit_data(s, n))]) \o Return(0)]
          = GpuBodies(body)
    BY <2>1 DEF GpuBodies
  <2>3. QED BY <2>2 DEF intel_gpu_get_power_limit, IntelGpuChips, WithAPMIDG, EachSocket, Each
<1>3. \E v, what, p : v = Var("current_powerlimit_mwatts") /\ what = "cap" /\ p = body OBVIOUS
<1>4. PICK v, what, p : v = Var("current_powerlimit_mwatts") /\ what = "cap" /\ p = body BY <1>3
<1>5. ASSUME NEW d \in GpusInReach, NEW r, NEW y, Blank(y) PROVE Good(m, r, y, p[d], Plus(y, {{<<what, d>>}}, {}, {}))
  <2>1. d \in Int BY DEF GpusInReach
  <2>2. body[d] = E(d) BY <2>1
  <2>3. \E src : src = <<what, d>> OBVIOUS
  <2>4. PICK src : src = <<what, d>> BY <2>3
  <2>5. p[d] = Reset(v) \o Get(v, src, apmidg, << >>) \o Show({src}, v) BY <2>2, <2>4, <1>4 DEF Of
  <2>6. Mild(r, y, << >>) /\ v \notin DOMAIN y.vals BY <1>5 DEF Mild, Blank
  <2>7. Good(m, r, y, Reset(v) \o Get(v, src, apmidg, << >>) \o Show({src}, v), Plus(y, {{src}}, {}, {}))
    BY <2>6, GoodReport
  <2>8. QED BY <2>4, <2>5, <2>7
<1> HIDE DEF body
<1>6. Fine(m, {}, Reporting(initAPMIDG(GpuBodies(p)) \o shutdownAPMIDG, Claims(what, GpusInReach)), {})
  BY <1>5, IntelGpuReports
<1>7. QED BY <1>2, <1>4, <1>6

\* Each GPU is told its cap, and what it then says is compared.
LEMMA IntelGpuCap ==
  ASSUME NEW m, "blind" \in m.traits, {<<"gpu", d>> : d \in GpusInReach} \subseteq m.devs
  PROVE  Fine(m, {}, intel_gpu_cap_each_gpu_power_limit, {})
<1> DEFINE E(d) == Cap(<<"gpu", d>>, apmidg, << >>) \o Verify(<<"gpu", d>>, apmidg, Complain, Complain)
           body == [d \in Int |-> E(d)]
<1>1. ASSUME NEW s, NEW n PROVE apmidg_cap_each_gpu_power_limit(s, n) = OnGpus(s, n, [k \in Span(s, n) |-> body[k]])
  <2>1. [k \in Span(s, n) |-> E(k)] = [k \in Span(s, n) |-> body[k]] BY DEF Span
  <2>2. QED BY <2>1 DEF apmidg_cap_each_gpu_power_limit, EachGpuOf, Each, OnGpus, Span
<1>2. intel_gpu_cap_each_gpu_power_limit =
        Capping(initAPMIDG(GpuBodies(body)) \o shutdownAPMIDG, {<<"gpu", d>> : d \in GpusInReach})
  <2>1. \A n : [s \in 0..(NSOCKETS - 1) |-> Function(apmidg_cap_each_gpu_power_limit(s, n))]
                 = [s \in 0..(NSOCKETS - 1) |-> Function(OnGpus(s, n, [k \in Span(s, n) |-> body[k]]))]
    BY <1>1
  <2>2. [n \in {0, NGPUS} |->
           LoopFrom(0, NSOCKETS - 1, [s \in 0..(NSOCKETS - 1) |-> Function(apmidg_cap_each_gpu_power_limit(s, n))]) \o Return(0)]
          = GpuBodies(body)
    BY <2>1 DEF GpuBodies
  <2>3. QED BY <2>2 DEF intel_gpu_cap_each_gpu_power_limit, IntelGpuChips, WithAPMIDG, EachSocket, Each
<1>3. \E what, p : what = "gpu" /\ p = body OBVIOUS
<1>4. PICK what, p : what = "gpu" /\ p = body BY <1>3
<1>5. \E Q, C, T, g : /\ Q = GpuBodies(p) /\ C = [d \in GpusInReach |-> {}] /\ T = [d \in GpusInReach |-> {<<what, d>>}]
                      /\ g = Outcome({}, InAll(C), InAll(T), {})
  OBVIOUS
<1>6. PICK Q, C, T, g : /\ Q = GpuBodies(p) /\ C = [d \in GpusInReach |-> {}] /\ T = [d \in GpusInReach |-> {<<what, d>>}]
                        /\ g = Outcome({}, InAll(C), InAll(T), {})
  BY <1>5
<1>7. ASSUME NEW d \in GpusInReach, NEW r, NEW y, Blank(y) PROVE Good(m, r, y, p[d], Plus(y, C[d], T[d], {}))
  <2>1. d \in Int BY DEF GpusInReach
  <2>2. body[d] = E(d) BY <2>1
  <2>3. \E dev, b : dev = <<what, d>> /\ b = Plus(y, {}, {dev}, {}) OBVIOUS
  <2>4. PICK dev, b : dev = <<what, d>> /\ b = Plus(y, {}, {dev}, {}) BY <2>3
  <2>5. p[d] = Cap(dev, apmidg, << >>) \o Verify(dev, apmidg, Complain, Complain) BY <2>2, <2>4, <1>4
  <2>6. dev \in m.devs BY <2>4, <1>4
  <2>7. Easy(y) /\ y.wanted = "share" BY <1>7 DEF Blank, Easy
  <2>8. Good(m, r, y, Cap(dev, apmidg, << >>), b) BY <2>4, <2>6, <2>7, GoodBlindCap
  <2>9. /\ b.wanted = "share" /\ dev \in b.taken /\ Easy(b) BY <1>7, <2>4 DEF Plus, Facts, Blank, Easy
  <2>10. Entails(m, Plus(b, {}, {}, {dev}), b)
    <3>1. \E e : e = Plus(b, {}, {}, {dev}) OBVIOUS
    <3>2. PICK e : e = Plus(b, {}, {}, {dev}) BY <3>1
    <3>3. /\ e.vals = b.vals /\ e.claims = b.claims /\ e.opened = b.opened /\ b.taken \subseteq e.taken
          /\ b.bound \subseteq e.bound /\ e.wanted = b.wanted /\ e.mark = b.mark
      <4>1. b.claims \union {} = b.claims
        <5>1. b.claims = y.claims \union {} BY <2>4 DEF Plus, Facts
        <5>2. QED BY <5>1
      <4>2. QED BY <3>2, <4>1 DEF Plus, Facts
    <3>4. QED BY <3>2, <3>3 DEF Entails
  <2>11. Good(m, r, b, Complain, b) /\ Good(m, r, Refused(b), Complain, b) BY <2>9, GoodMessage
  <2>12. Good(m, r, b, Verify(dev, apmidg, Complain, Complain), b) BY <2>9, <2>10, <2>11, GoodVerify
  <2>13. Good(m, r, y, Cap(dev, apmidg, << >>) \o Verify(dev, apmidg, Complain, Complain), b) BY <2>8, <2>12, GoodThen
  <2>14. C[d] = {} /\ T[d] = {dev} BY <1>6, <2>4
  <2>15. QED BY <2>4, <2>5, <2>13, <2>14
<1> HIDE DEF body
<1>8. Serves(m, Q, C, T) BY <1>6, <1>7, GpuBodiesServe
<1>9. Good(m, g, Base({}), initAPMIDG(Q) \o shutdownAPMIDG, g) BY <1>6, <1>8, IntelGpuFine
<1>10. InAll(C) = {} /\ InAll(T) = {<<what, d>> : d \in GpusInReach} BY <1>6 DEF InAll
<1>11. \E S, F : S = {<<what, d>> : d \in GpusInReach} /\ F = Capping(initAPMIDG(Q) \o shutdownAPMIDG, S) OBVIOUS
<1>12. PICK S, F : S = {<<what, d>> : d \in GpusInReach} /\ F = Capping(initAPMIDG(Q) \o shutdownAPMIDG, S) BY <1>11
<1>13. g = Outcome({}, {}, S, {}) BY <1>6, <1>10, <1>12
<1>14. Fine(m, {}, F, {}) BY <1>9, <1>12, <1>13, CappingFine
<1>15. intel_gpu_cap_each_gpu_power_limit = F BY <1>2, <1>4, <1>6, <1>12
<1>16. QED BY <1>14, <1>15

-----------------------------------------------------------------------------
\* Intel GPUs, put together.
LEMMA IntelGpuNames ==
  /\ Features["intel_gpu"] = IntelGpuFeatures
  /\ DOMAIN IntelGpuFeatures =
       {"get_power", "get_thermals", "get_clocks", "cap_each_gpu_power_limit", "get_power_limit"}
  /\ IntelGpuFeatures["get_power"] = intel_gpu_get_power
  /\ IntelGpuFeatures["get_thermals"] = intel_gpu_get_thermals
  /\ IntelGpuFeatures["get_clocks"] = intel_gpu_get_clocks
  /\ IntelGpuFeatures["cap_each_gpu_power_limit"] = intel_gpu_cap_each_gpu_power_limit
  /\ IntelGpuFeatures["get_power_limit"] = intel_gpu_get_power_limit
<1>1. Features["intel_gpu"] = IntelGpuFeatures BY DEF Features
<1>2. QED BY <1>1 DEF IntelGpuFeatures

\* The devices the cap of the Intel GPUs is for.
LEMMA IntelGpuDevices ==
  ASSUME NEW f
  PROVE  {<<"gpu", d>> : d \in GpusInReach} \subseteq Mode("intel_gpu", f).devs
<1>1. \E p, h : p = "intel_gpu" /\ h = "cap_each_gpu_power_limit" OBVIOUS
<1>2. PICK p, h : p = "intel_gpu" /\ h = "cap_each_gpu_power_limit" BY <1>1
<1>3. h \in DOMAIN Features[p] BY <1>2, IntelGpuNames
<1>4. Features[p][h].caps = {<<"gpu", d>> : d \in GpusInReach}
  <2>1. Features[p][h] = intel_gpu_cap_each_gpu_power_limit BY <1>2, IntelGpuNames
  <2>2. intel_gpu_cap_each_gpu_power_limit.caps = {<<"gpu", d>> : d \in GpusInReach}
    BY CappingIs DEF intel_gpu_cap_each_gpu_power_limit
  <2>3. QED BY <2>1, <2>2
<1>5. \E S : S = Features[p][h].caps OBVIOUS
<1>6. PICK S : S = Features[p][h].caps BY <1>5
<1>7. S \subseteq Mode(p, f).devs BY <1>3, <1>6, CappedDevices
<1>8. QED BY <1>2, <1>4, <1>6, <1>7

\* Each feature of the platform intel_gpu is good.
LEMMA IntelGpuGood ==
  ASSUME NEW f \in DOMAIN Features["intel_gpu"]
  PROVE  Good(Mode("intel_gpu", f), Goal("intel_gpu", f), Start(Mode("intel_gpu", f)),
              Features["intel_gpu"][f].plan, Goal("intel_gpu", f))
<1> DEFINE p == "intel_gpu"
           m == Mode(p, f)
           F == Features[p][f]
<1>1. F = IntelGpuFeatures[f] /\ f \in DOMAIN IntelGpuFeatures BY IntelGpuNames
<1>2. <<p, f>> \notin Halves /\ <<p, f>> \notin CapsNode BY DEF Halves, CapsNode
<1>3. f \in {"cap_each_gpu_power_limit"} => <<p, f>> \in CapBlindly BY DEF CapBlindly, FeaturesOf
<1>4. f \in {"cap_each_gpu_power_limit"} => "blind" \in m.traits BY <1>3, TraitsOf
<1>5. f \in {"get_power", "get_thermals", "get_clocks"} => <<p, f>> \in KeepOldValues BY DEF KeepOldValues, FeaturesOf
<1>6. f \in {"get_power", "get_thermals", "get_clocks"} => "old" \in m.traits BY <1>5, TraitsOf
<1>7. {<<"gpu", d>> : d \in GpusInReach} \subseteq m.devs BY IntelGpuDevices
<1> HIDE DEF m, F
<1>8. Fine(m, {}, F, {})
  <2>1. CASE f = "get_power"
    <3>1. F = intel_gpu_get_power BY <2>1, <1>1, IntelGpuNames
    <3>2. Fine(m, {}, intel_gpu_get_power, {}) BY <2>1, <1>6, IntelGpuPower
    <3>3. QED BY <3>1, <3>2
  <2>2. CASE f = "get_thermals"
    <3>1. F = intel_gpu_get_thermals BY <2>2, <1>1, IntelGpuNames
    <3>2. Fine(m, {}, intel_gpu_get_thermals, {}) BY <2>2, <1>6, IntelGpuThermals
    <3>3. QED BY <3>1, <3>2
  <2>3. CASE f = "get_clocks"
    <3>1. F = intel_gpu_get_clocks BY <2>3, <1>1, IntelGpuNames
    <3>2. Fine(m, {}, intel_gpu_get_clocks, {}) BY <2>3, <1>6, IntelGpuClocks
    <3>3. QED BY <3>1, <3>2
  <2>4. CASE f = "cap_each_gpu_power_limit"
    <3>1. F = intel_gpu_cap_each_gpu_power_limit BY <2>4, <1>1, IntelGpuNames
    <3>2. Fine(m, {}, intel_gpu_cap_each_gpu_power_limit, {}) BY <2>4, <1>4, <1>7, IntelGpuCap
    <3>3. QED BY <3>1, <3>2
  <2>5. CASE f = "get_power_limit"
    <3>1. F = intel_gpu_get_power_limit BY <2>5, <1>1, IntelGpuNames
    <3>2. Fine(m, {}, intel_gpu_get_power_limit, {}) BY <2>5, IntelGpuPowerLimit
    <3>3. QED BY <3>1, <3>2
  <2>6. QED BY <1>1, IntelGpuNames, <2>1, <2>2, <2>3, <2>4, <2>5
<1> HIDE DEF p
<1>9. QED BY <1>2, <1>8, FineFeature DEF m, p, F

-----------------------------------------------------------------------------
\* NVIDIA Volta.

\* After a refusal, nothing is said of the variables of these features.
LEMMA OldStands ==
  ASSUME NEW m, NEW o, "old" \in m.traits, o.mark = "none"
  PROVE  Entails(m, Refused(o), o) /\ (\A a : a.mark = "complained" => Entails(m, a, o))
<1>1. \E z : z = Refused(o) OBVIOUS
<1>2. PICK z : z = Refused(o) BY <1>1
<1>3. /\ z.mark = "refused" /\ z.opened = o.opened /\ z.taken = o.taken /\ z.bound = o.bound /\ z.wanted = o.wanted
  BY <1>2 DEF Refused, Facts
<1>4. Entails(m, z, o) BY <1>3 DEF Entails, Exact
<1>5. ASSUME NEW a, a.mark = "complained" PROVE Entails(m, a, o) BY <1>5 DEF Entails, Exact, Tidy, Caps
<1>6. QED BY <1>2, <1>4, <1>5

\* A resource that is counted among those open is brought up, or the work goes on without.
LEMMA OldBringUp ==
  ASSUME NEW m, NEW r, NEW o, NEW x \in o.opened, NEW no \in {<< >>, Complain}, "old" \in m.traits, o.mark = "none"
  PROVE  Good(m, r, o, Open(x, << >>, no), o)
<1>1. \E z : z = Opened(o, x) OBVIOUS
<1>2. PICK z : z = Opened(o, x) BY <1>1
<1>3. /\ z.mark = o.mark /\ z.opened = o.opened \union {x} /\ z.taken = o.taken /\ z.bound = o.bound /\ z.wanted = o.wanted
      /\ z.vals = o.vals /\ z.claims = o.claims
  BY <1>2 DEF Opened, Facts
<1>4. o.opened \union {x} \subseteq o.opened OBVIOUS
<1>5. Entails(m, z, o) BY <1>3, <1>4 DEF Entails
<1>6. Good(m, r, Opened(o, x), << >>, o) BY <1>2, <1>5, GoodNone
<1>7. Good(m, r, Refused(o), no, o)
  <2>1. CASE no = << >> BY <2>1, OldStands, GoodNone
  <2>2. CASE no = Complain
    <3>1. Entails(m, Complained(Refused(o)), o) BY OldStands, ComplainedIs
    <3>2. QED BY <2>2, <3>1, GoodComplain
  <2>3. QED BY <2>1, <2>2
<1>8. QED BY <1>6, <1>7, GoodOpen

AllHandles == {nvml} \union {Handle(d) : d \in Gpus}

\* The library is brought up, and the body runs for the GPUs or, after a refusal,
\* for none.
LEMMA GoodInitNVML ==
  ASSUME NEW m, NEW g, NEW o, NEW c, NEW Q, "old" \in m.traits, o.mark = "none", o.opened = AllHandles,
         DOMAIN Q = {0, NGPUS},
         Good(m, g, o, Function(Q[NGPUS]), c), Good(m, g, Refused(o), Function(Q[0]), c)
  PROVE  Good(m, g, o, initNVML(Q), c)
<1>1. \E P, z, h : /\ P = [n \in DOMAIN Q |-> LoopFrom(0, n - 1, [k \in 0..(n - 1) |-> Open(Handle(k), << >>, Complain)])
                                               \o Function(Q[n])]
                   /\ z = Refused(o) /\ h = [n \in {0, NGPUS} |-> [k \in 0..(n - 1) |-> Open(Handle(k), << >>, Complain)]]
  OBVIOUS
<1>2. PICK P, z, h : /\ P = [n \in DOMAIN Q |-> LoopFrom(0, n - 1, [k \in 0..(n - 1) |-> Open(Handle(k), << >>, Complain)])
                                                 \o Function(Q[n])]
                     /\ z = Refused(o) /\ h = [n \in {0, NGPUS} |-> [k \in 0..(n - 1) |-> Open(Handle(k), << >>, Complain)]]
  BY <1>1
<1>3. NGPUS \in Nat /\ Gpus = 0..(NGPUS - 1) BY NumbersOfDevices
<1>4. P[NGPUS] = LoopFrom(0, NGPUS - 1, h[NGPUS]) \o Function(Q[NGPUS]) /\ P[0] = LoopFrom(0, 0 - 1, h[0]) \o Function(Q[0])
  BY <1>2
<1>5. Good(m, g, o, LoopFrom(0, NGPUS - 1, h[NGPUS]), o)
  <2>1. \E lo, hi, p : lo = 0 /\ hi = NGPUS - 1 /\ p = h[NGPUS] OBVIOUS
  <2>2. PICK lo, hi, p : lo = 0 /\ hi = NGPUS - 1 /\ p = h[NGPUS] BY <2>1
  <2>3. lo \in Int /\ hi \in Int /\ lo <= hi + 1 BY <1>3, <2>2
  <2>4. ASSUME NEW k \in lo..hi PROVE Good(m, g, o, p[k], o)
    <3>1. k \in 0..(NGPUS - 1) BY <2>2
    <3>2. p = [j \in 0..(NGPUS - 1) |-> Open(Handle(j), << >>, Complain)] BY <1>2, <2>2
    <3>3. \E x, no : x = Handle(k) /\ no = Complain OBVIOUS
    <3>4. PICK x, no : x = Handle(k) /\ no = Complain BY <3>3
    <3>5. p[k] = Open(x, << >>, no) BY <3>1, <3>2, <3>4
    <3>6. x \in o.opened BY <1>3, <3>1, <3>4 DEF AllHandles
    <3>7. no \in {<< >>, Complain} BY <3>4
    <3>8. Good(m, g, o, Open(x, << >>, no), o) BY <3>6, <3>7, OldBringUp
    <3>9. QED BY <3>5, <3>8
  <2>5. Good(m, g, o, LoopFrom(lo, hi, p), o) BY ONLY <2>3, <2>4, GoodSteady
  <2>6. QED BY <2>2, <2>5
<1>6. Good(m, g, z, LoopFrom(0, 0 - 1, h[0]), z)
  <2>1. \E lo, hi, p : lo = 0 /\ hi = 0 - 1 /\ p = h[0] OBVIOUS
  <2>2. PICK lo, hi, p : lo = 0 /\ hi = 0 - 1 /\ p = h[0] BY <2>1
  <2>3. lo \in Int /\ hi \in Int /\ lo <= hi + 1 BY <2>2
  <2>4. \A k \in lo..hi : Good(m, g, z, p[k], z) BY <2>2
  <2>5. Good(m, g, z, LoopFrom(lo, hi, p), z) BY ONLY <2>3, <2>4, GoodSteady
  <2>6. QED BY <2>2, <2>5
<1>7. Good(m, g, o, P[NGPUS], c) BY <1>4, <1>5, GoodThen
<1>8. Good(m, g, z, P[0], c) BY <1>2, <1>4, <1>6, GoodThen
<1>9. Good(m, g, z, P[NGPUS], c) BY <1>2, <1>7, OldStands, EntailsSame, GoodWeaker
<1>10. Good(m, g, z, << >>, z) BY EntailsSame, GoodNone
<1>11. \A n \in DOMAIN Q : Good(m, g, z, << >> \o P[n], c)
  <2>1. \A n \in DOMAIN Q : n = 0 \/ n = NGPUS OBVIOUS
  <2>2. Good(m, g, z, << >> \o P[0], c) /\ Good(m, g, z, << >> \o P[NGPUS], c) BY <1>8, <1>9, <1>10, GoodThen
  <2>3. QED BY <2>1, <2>2
<1>12. Good(m, g, o, Count(P, nvml, DOMAIN Q, << >>), c)
  <2>1. \E S : S = DOMAIN Q OBVIOUS
  <2>2. PICK S : S = DOMAIN Q BY <2>1
  <2>3. S # {} BY <2>2
  <2>4. S = {} => Good(m, g, Refused(o), << >>, c) BY <2>3
  <2>5. \A n \in S : Good(m, g, Refused(o), << >> \o P[n], c) BY <1>2, <1>11, <2>2
  <2>6. Good(m, g, o, Count(P, nvml, S, << >>), c) BY ONLY <1>7, <2>4, <2>5, GoodCount
  <2>7. QED BY <2>2, <2>6
<1>13. Good(m, g, o, Open(nvml, << >>, << >>), o)
  <2>1. \E x, no : x = nvml /\ no = << >> OBVIOUS
  <2>2. PICK x, no : x = nvml /\ no = << >> BY <2>1
  <2>3. x \in o.opened /\ no \in {<< >>, Complain} BY <2>2 DEF AllHandles
  <2>4. Good(m, g, o, Open(x, << >>, no), o) BY <2>3, OldBringUp
  <2>5. QED BY <2>2, <2>4
<1>14. Good(m, g, o, Open(nvml, << >>, << >>) \o Count(P, nvml, DOMAIN Q, << >>), c) BY <1>12, <1>13, GoodThen
<1>15. initNVML(Q) = Open(nvml, << >>, << >>) \o Count(P, nvml, DOMAIN Q, << >>) BY <1>2 DEF initNVML, Each
<1>16. QED BY <1>14, <1>15

\* All that may be open is closed.
LEMMA AllClosed ==
  ASSUME NEW m, NEW E, NEW C, NEW T, NEW H
  PROVE  Entails(m, Closed(Outcome(E, C, T, H), E), Outcome({}, C, T, H))
<1>1. E \ E = {} OBVIOUS
<1>2. Closed(Outcome(E, C, T, H), E) = Outcome({}, C, T, H) BY <1>1 DEF Closed, Outcome, Facts
<1>3. QED BY <1>2, EntailsSame

\* A feature of Volta between bringing NVML up and shutting it down.
LEMMA VoltaFine ==
  ASSUME NEW m, NEW Q, NEW C, NEW T, NEW g, Serves(m, Q, C, T), "old" \in m.traits,
         g = Outcome({}, InAll(C), InAll(T), {}), "blind" \in m.traits \/ InAll(T) = {}
  PROVE  Good(m, g, Base({}), initNVML(Q) \o shutdownNVML, g)
<1>1. \E E, o, c, D, R : E = AllHandles /\ o = Base(E) /\ D = InAll(C) /\ R = InAll(T) /\ c = Outcome(E, D, R, {}) OBVIOUS
<1>2. PICK E, o, c, D, R : E = AllHandles /\ o = Base(E) /\ D = InAll(C) /\ R = InAll(T) /\ c = Outcome(E, D, R, {})
  BY <1>1
<1>3. DOMAIN Q = {0, NGPUS} BY DEF Serves
<1>4. Good(m, g, o, Function(Q[NGPUS]), c) /\ Good(m, g, Refused(o), Function(Q[0]), c) BY <1>2, ServedBodies
<1>5. o.mark = "none" /\ o.opened = AllHandles BY <1>2, OutcomeIs DEF Base
<1>6. Good(m, g, o, initNVML(Q), c) BY <1>3, <1>4, <1>5, GoodInitNVML
<1>7. Good(m, g, Base({}), initNVML(Q), c) BY <1>2, <1>6, MayBeOpen, EntailsSame, GoodWeaker
<1>8. Entails(m, Closed(c, E), g) BY <1>2, AllClosed
<1>9. Good(m, g, c, Close(E), g) BY <1>8, GoodClose
<1>10. shutdownNVML = Close(E) BY <1>2 DEF shutdownNVML, AllHandles
<1>11. QED BY <1>7, <1>9, <1>10, GoodThen

\* A feature of Volta that gives out one reading of each GPU.
LEMMA VoltaReports ==
  ASSUME NEW m, NEW body, NEW what, "old" \in m.traits,
         \A d \in GpusInReach : \A r, y : Blank(y) => Good(m, r, y, body[d], Plus(y, {{<<what, d>>}}, {}, {}))
  PROVE  Fine(m, {}, Reporting(initNVML(GpuBodies(body)) \o shutdownNVML, Claims(what, GpusInReach)), {})
<1>1. \E Q, C, T, g : /\ Q = GpuBodies(body) /\ C = [d \in GpusInReach |-> {{<<what, d>>}}]
                      /\ T = [d \in GpusInReach |-> {}] /\ g = Outcome({}, InAll(C), InAll(T), {})
  OBVIOUS
<1>2. PICK Q, C, T, g : /\ Q = GpuBodies(body) /\ C = [d \in GpusInReach |-> {{<<what, d>>}}]
                        /\ T = [d \in GpusInReach |-> {}] /\ g = Outcome({}, InAll(C), InAll(T), {})
  BY <1>1
<1>3. Serves(m, Q, C, T) /\ InAll(C) = Claims(what, GpusInReach) /\ InAll(T) = {} BY <1>2, ReadingsOfGpus
<1>4. Good(m, g, Base({}), initNVML(Q) \o shutdownNVML, g) BY <1>2, <1>3, VoltaFine
<1>5. QED BY <1>2, <1>3, <1>4, ReportingFine

\* A device is asked, and may have no handle.
LEMMA GoodAskHandle ==
  ASSUME NEW m, NEW r, NEW x, NEW v, NEW src, NEW via, NEW no, "old" \in m.traits, Mild(r, x, no), x.mark = "none"
  PROVE  Good(m, r, x, GetOr(v, src, via, << >>, no, Fork(no, Crash)), WithVal(x, v, {src}))
<1>1. \E b : b = WithVal(x, v, {src}) OBVIOUS
<1>2. PICK b : b = WithVal(x, v, {src}) BY <1>1
<1>3. Good(m, r, b, << >>, b) BY EntailsSame, GoodNone
<1>4. Good(m, r, Refused(x), no, b)
  <2>1. \E z : z = Refused(x) OBVIOUS
  <2>2. PICK z : z = Refused(x) BY <2>1
  <2>3. /\ z.mark = "refused" /\ z.opened = x.opened /\ z.taken = x.taken /\ z.bound = x.bound /\ z.wanted = x.wanted
    BY <2>2 DEF Refused, Facts
  <2>4. /\ b.mark = "none" /\ b.opened = x.opened /\ b.taken = x.taken /\ b.bound = x.bound /\ b.wanted = x.wanted
    BY <1>2 DEF WithVal, Facts
  <2>5. Entails(m, z, b) BY <2>3, <2>4 DEF Entails, Exact
  <2>6. b.mark = x.mark BY <2>4
  <2>7. QED BY <2>2, <2>5, <2>6, GoodMild
<1>5. Good(m, r, Refused(x), Crash, b) BY GoodCrash
<1>6. Good(m, r, Refused(x), Fork(no, Crash), b) BY <1>4, <1>5, GoodFork
<1>7. QED BY <1>2, <1>3, <1>4, <1>6, GoodGet

\* A reading asked for by handle and given out.
LEMMA GoodAskAndShow ==
  ASSUME NEW m, NEW r, NEW x, NEW v, NEW what, NEW d, NEW no \in {<< >>, Complain}, "old" \in m.traits, Blank(x)
  PROVE  Good(m, r, x, AskAndShow(v, what, d, no), Plus(x, {{<<what, d>>}}, {}, {}))
<1>1. \E src, via : src = <<what, d>> /\ via = Handle(d) OBVIOUS
<1>2. PICK src, via : src = <<what, d>> /\ via = Handle(d) BY <1>1
<1>3. v \notin DOMAIN x.vals /\ x.mark = "none" /\ Mild(r, x, no) BY DEF Blank, Mild
<1>4. Good(m, r, x, GetOr(v, src, via, << >>, no, Fork(no, Crash)), WithVal(x, v, {src})) BY <1>3, GoodAskHandle
<1>5. Good(m, r, WithVal(x, v, {src}), Show({src}, v), Plus(x, {{src}}, {}, {})) BY <1>3, GoodGivenOut
<1>6. Good(m, r, x, GetOr(v, src, via, << >>, no, Fork(no, Crash)) \o Show({src}, v), Plus(x, {{src}}, {}, {}))
  BY <1>4, <1>5, GoodThen
<1>7. QED BY <1>2, <1>6 DEF AskAndShow, Ask, Of

\* The temperature of each GPU.
LEMMA VoltaThermals ==
  ASSUME NEW m, "old" \in m.traits
  PROVE  Fine(m, {}, volta_get_thermals, {})
<1> DEFINE E(d) == AskAndShow(Var("gpu_temp"), "temp", d, << >>)
           body == [d \in Int |-> E(d)]
<1>1. ASSUME NEW s, NEW n PROVE nvidia_gpu_get_thermal_data(s, n) = OnGpus(s, n, [k \in Span(s, n) |-> body[k]])
  <2>1. [k \in Span(s, n) |-> E(k)] = [k \in Span(s, n) |-> body[k]] BY DEF Span
  <2>2. QED BY <2>1 DEF nvidia_gpu_get_thermal_data, EachGpuOf, Each, OnGpus, Span
<1>2. volta_get_thermals = Reporting(initNVML(GpuBodies(body)) \o shutdownNVML, Claims("temp", GpusInReach))
  <2>1. \A n : [s \in 0..(NSOCKETS - 1) |-> Function(nvidia_gpu_get_thermal_data(s, n))]
                 = [s \in 0..(NSOCKETS - 1) |-> Function(OnGpus(s, n, [k \in Span(s, n) |-> body[k]]))]
    BY <1>1
  <2>2. [n \in {0, NGPUS} |->
           LoopFrom(0, NSOCKETS - 1, [s \in 0..(NSOCKETS - 1) |-> Function(nvidia_gpu_get_thermal_data(s, n))]) \o Return(0)]
          = GpuBodies(body)
    BY <2>1 DEF GpuBodies
  <2>3. QED BY <2>2 DEF volta_get_thermals, VoltaChips, WithNVML, EachSocket, Each
<1>3. \E v, what, p : v = Var("gpu_temp") /\ what = "temp" /\ p = body OBVIOUS
<1>4. PICK v, what, p : v = Var("gpu_temp") /\ what = "temp" /\ p = body BY <1>3
<1>5. ASSUME NEW d \in GpusInReach, NEW r, NEW y, Blank(y) PROVE Good(m, r, y, p[d], Plus(y, {{<<what, d>>}}, {}, {}))
  <2>1. d \in Int BY DEF GpusInReach
  <2>2. body[d] = E(d) BY <2>1
  <2>3. \E src : src = <<what, d>> OBVIOUS
  <2>4. PICK src : src = <<what, d>> BY <2>3
  <2>5. p[d] = AskAndShow(v, what, d, << >>) BY <2>2, <2>4, <1>4 DEF Of
  <2>6. \E no : no = << >> OBVIOUS
  <2>7. PICK no : no = << >> BY <2>6
  <2>8. Good(m, r, y, AskAndShow(v, what, d, no), Plus(y, {{<<what, d>>}}, {}, {})) BY <1>5, <2>7, GoodAskAndShow
  <2>9. QED BY <2>5, <2>7, <2>8
<1> HIDE DEF body
<1>6. Fine(m, {}, Reporting(initNVML(GpuBodies(p)) \o shutdownNVML, Claims(what, GpusInReach)), {})
  BY <1>5, VoltaReports
<1>7. QED BY <1>2, <1>4, <1>6

\* The same, as JSON.
LEMMA VoltaThermalsJson ==
  ASSUME NEW m, "old" \in m.traits
  PROVE  Fine(m, {}, volta_get_thermals_json, {})
<1> DEFINE E(d) == AskAndShow(Var("gpu_temp"), "temp", d, << >>)
           body == [d \in Int |-> E(d)]
<1>1. ASSUME NEW s, NEW n PROVE nvidia_gpu_get_thermal_json(s, n) = OnGpus(s, n, [k \in Span(s, n) |-> body[k]])
  <2>1. [k \in Span(s, n) |-> E(k)] = [k \in Span(s, n) |-> body[k]] BY DEF Span
  <2>2. QED BY <2>1 DEF nvidia_gpu_get_thermal_json, EachGpuOf, Each, OnGpus, Span
<1>2. volta_get_thermals_json = Reporting(initNVML(GpuBodies(body)) \o shutdownNVML, Claims("temp", GpusInReach))
  <2>1. \A n : [s \in 0..(NSOCKETS - 1) |-> Function(nvidia_gpu_get_thermal_json(s, n))]
                 = [s \in 0..(NSOCKETS - 1) |-> Function(OnGpus(s, n, [k \in Span(s, n) |-> body[k]]))]
    BY <1>1
  <2>2. [n \in {0, NGPUS} |->
           LoopFrom(0, NSOCKETS - 1, [s \in 0..(NSOCKETS - 1) |-> Function(nvidia_gpu_get_thermal_json(s, n))]) \o Return(0)]
          = GpuBodies(body)
    BY <2>1 DEF GpuBodies
  <2>3. QED BY <2>2 DEF volta_get_thermals_json, VoltaChips, WithNVML, EachSocket, Each
<1>3. \E v, what, p : v = Var("gpu_temp") /\ what = "temp" /\ p = body OBVIOUS
<1>4. PICK v, what, p : v = Var("gpu_temp") /\ what = "temp" /\ p = body BY <1>3
<1>5. ASSUME NEW d \in GpusInReach, NEW r, NEW y, Blank(y) PROVE Good(m, r, y, p[d], Plus(y, {{<<what, d>>}}, {}, {}))
  <2>1. d \in Int BY DEF GpusInReach
  <2>2. body[d] = E(d) BY <2>1
  <2>3. \E src : src = <<what, d>> OBVIOUS
  <2>4. PICK src : src = <<what, d>> BY <2>3
  <2>5. p[d] = AskAndShow(v, what, d, << >>) BY <2>2, <2>4, <1>4 DEF Of
  <2>6. \E no : no = << >> OBVIOUS
  <2>7. PICK no : no = << >> BY <2>6
  <2>8. Good(m, r, y, AskAndShow(v, what, d, no), Plus(y, {{<<what, d>>}}, {}, {})) BY <1>5, <2>7, GoodAskAndShow
  <2>9. QED BY <2>5, <2>7, <2>8
<1> HIDE DEF body
<1>6. Fine(m, {}, Reporting(initNVML(GpuBodies(p)) \o shutdownNVML, Claims(what, GpusInReach)), {})
  BY <1>5, VoltaReports
<1>7. QED BY <1>2, <1>4, <1>6

\* The clock of each GPU.
LEMMA VoltaClocks ==
  ASSUME NEW m, "old" \in m.traits
  PROVE  Fine(m, {}, volta_get_clocks, {})
<1> DEFINE E(d) == AskAndShow(Var("gpu_clock"), "sm_clk", d, << >>)
           body == [d \in Int |-> E(d)]
<1>1. ASSUME NEW s, NEW n PROVE nvidia_gpu_get_clocks_data(s, n) = OnGpus(s, n, [k \in Span(s, n) |-> body[k]])
  <2>1. [k \in Span(s, n) |-> E(k)] = [k \in Span(s, n) |-> body[k]] BY DEF Span
  <2>2. QED BY <2>1 DEF nvidia_gpu_get_clocks_data, EachGpuOf, Each, OnGpus, Span
<1>2. volta_get_clocks = Reporting(initNVML(GpuBodies(body)) \o shutdownNVML, Claims("sm_clk", GpusInReach))
  <2>1. \A n : [s \in 0..(NSOCKETS - 1) |-> Function(nvidia_gpu_get_clocks_data(s, n))]
                 = [s \in 0..(NSOCKETS - 1) |-> Function(OnGpus(s, n, [k \in Span(s, n) |-> body[k]]))]
    BY <1>1
  <2>2. [n \in {0, NGPUS} |->
           LoopFrom(0, NSOCKETS - 1, [s \in 0..(NSOCKETS - 1) |-> Function(nvidia_gpu_get_clocks_data(s, n))]) \o Return(0)]
          = GpuBodies(body)
    BY <2>1 DEF GpuBodies
  <2>3. QED BY <2>2 DEF volta_get_clocks, VoltaChips, WithNVML, EachSocket, Each
<1>3. \E v, what, p : v = Var("gpu_clock") /\ what = "sm_clk" /\ p = body OBVIOUS
<1>4. PICK v, what, p : v = Var("gpu_clock") /\ what = "sm_clk" /\ p = body BY <1>3
<1>5. ASSUME NEW d \in GpusInReach, NEW r, NEW y, Blank(y) PROVE Good(m, r, y, p[d], Plus(y, {{<<what, d>>}}, {}, {}))
  <2>1. d \in Int BY DEF GpusInReach
  <2>2. body[d] = E(d) BY <2>1
  <2>3. \E src : src = <<what, d>> OBVIOUS
  <2>4. PICK src : src = <<what, d>> BY <2>3
  <2>5. p[d] = AskAndShow(v, what, d, << >>) BY <2>2, <2>4, <1>4 DEF Of
  <2>6. \E no : no = << >> OBVIOUS
  <2>7. PICK no : no = << >> BY <2>6
  <2>8. Good(m, r, y, AskAndShow(v, what, d, no), Plus(y, {{<<what, d>>}}, {}, {})) BY <1>5, <2>7, GoodAskAndShow
  <2>9. QED BY <2>5, <2>7, <2>8
<1> HIDE DEF body
<1>6. Fine(m, {}, Reporting(initNVML(GpuBodies(p)) \o shutdownNVML, Claims(what, GpusInReach)), {})
  BY <1>5, VoltaReports
<1>7. QED BY <1>2, <1>4, <1>6

\* The cap of each GPU.
LEMMA VoltaPowerLimits ==
  ASSUME NEW m, "old" \in m.traits
  PROVE  Fine(m, {}, volta_get_power_limits, {})
<1> DEFINE E(d) == AskAndShow(Var("power_limit"), "cap", d, Complain)
           body == [d \in Int |-> E(d)]
<1>1. ASSUME NEW s, NEW n PROVE nvidia_gpu_get_power_limits_data(s, n) = OnGpus(s, n, [k \in Span(s, n) |-> body[k]])
  <2>1. [k \in Span(s, n) |-> E(k)] = [k \in Span(s, n) |-> body[k]] BY DEF Span
  <2>2. QED BY <2>1 DEF nvidia_gpu_get_power_limits_data, EachGpuOf, Each, OnGpus, Span
<1>2. volta_get_power_limits = Reporting(initNVML(GpuBodies(body)) \o shutdownNVML, Claims("cap", GpusInReach))
  <2>1. \A n : [s \in 0..(NSOCKETS - 1) |-> Function(nvidia_gpu_get_power_limits_data(s, n))]
                 = [s \in 0..(NSOCKETS - 1) |-> Function(OnGpus(s, n, [k \in Span(s, n) |-> body[k]]))]
    BY <1>1
  <2>2. [n \in {0, NGPUS} |->
           LoopFrom(0, NSOCKETS - 1, [s \in 0..(NSOCKETS - 1) |-> Function(nvidia_gpu_get_power_limits_data(s, n))]) \o Return(0)]
          = GpuBodies(body)
    BY <2>1 DEF GpuBodies
  <2>3. QED BY <2>2 DEF volta_get_power_limits, VoltaChips, WithNVML, EachSocket, Each
<1>3. \E v, what, p : v = Var("power_limit") /\ what = "cap" /\ p = body OBVIOUS
<1>4. PICK v, what, p : v = Var("power_limit") /\ what = "cap" /\ p = body BY <1>3
<1>5. ASSUME NEW d \in GpusInReach, NEW r, NEW y, Blank(y) PROVE Good(m, r, y, p[d], Plus(y, {{<<what, d>>}}, {}, {}))
  <2>1. d \in Int BY DEF GpusInReach
  <2>2. body[d] = E(d) BY <2>1
  <2>3. \E src : src = <<what, d>> OBVIOUS
  <2>4. PICK src : src = <<what, d>> BY <2>3
  <2>5. p[d] = AskAndShow(v, what, d, Complain) BY <2>2, <2>4, <1>4 DEF Of
  <2>6. \E no : no = Complain OBVIOUS
  <2>7. PICK no : no = Complain BY <2>6
  <2>8. Good(m, r, y, AskAndShow(v, what, d, no), Plus(y, {{<<what, d>>}}, {}, {})) BY <1>5, <2>7, GoodAskAndShow
  <2>9. QED BY <2>5, <2>7, <2>8
<1> HIDE DEF body
<1>6. Fine(m, {}, Reporting(initNVML(GpuBodies(p)) \o shutdownNVML, Claims(what, GpusInReach)), {})
  BY <1>5, VoltaReports
<1>7. QED BY <1>2, <1>4, <1>6

\* The utilization of each GPU.
LEMMA VoltaUtilization ==
  ASSUME NEW m, "old" \in m.traits
  PROVE  Fine(m, {}, volta_get_gpu_utilization, {})
<1> DEFINE E(d) == AskAndShow(Var("util"), "util", d, << >>)
           body == [d \in Int |-> E(d)]
<1>1. ASSUME NEW s, NEW n PROVE nvidia_gpu_get_gpu_utilization_data(s, n) = OnGpus(s, n, [k \in Span(s, n) |-> body[k]])
  <2>1. [k \in Span(s, n) |-> E(k)] = [k \in Span(s, n) |-> body[k]] BY DEF Span
  <2>2. QED BY <2>1 DEF nvidia_gpu_get_gpu_utilization_data, EachGpuOf, Each, OnGpus, Span
<1>2. volta_get_gpu_utilization = Reporting(initNVML(GpuBodies(body)) \o shutdownNVML, Claims("util", GpusInReach))
  <2>1. \A n : [s \in 0..(NSOCKETS - 1) |-> Function(nvidia_gpu_get_gpu_utilization_data(s, n))]
                 = [s \in 0..(NSOCKETS - 1) |-> Function(OnGpus(s, n, [k \in Span(s, n) |-> body[k]]))]
    BY <1>1
  <2>2. [n \in {0, NGPUS} |->
           LoopFrom(0, NSOCKETS - 1, [s \in 0..(NSOCKETS - 1) |-> Function(nvidia_gpu_get_gpu_utilization_data(s, n))]) \o Return(0)]
          = GpuBodies(body)
    BY <2>1 DEF GpuBodies
  <2>3. QED BY <2>2 DEF volta_get_gpu_utilization, VoltaChips, WithNVML, EachSocket, Each
<1>3. \E v, what, p : v = Var("util") /\ what = "util" /\ p = body OBVIOUS
<1>4. PICK v, what, p : v = Var("util") /\ what = "util" /\ p = body BY <1>3
<1>5. ASSUME NEW d \in GpusInReach, NEW r, NEW y, Blank(y) PROVE Good(m, r, y, p[d], Plus(y, {{<<what, d>>}}, {}, {}))
  <2>1. d \in Int BY DEF GpusInReach
  <2>2. body[d] = E(d) BY <2>1
  <2>3. \E src : src = <<what, d>> OBVIOUS
  <2>4. PICK src : src = <<what, d>> BY <2>3
  <2>5. p[d] = AskAndShow(v, what, d, << >>) BY <2>2, <2>4, <1>4 DEF Of
  <2>6. \E no : no = << >> OBVIOUS
  <2>7. PICK no : no = << >> BY <2>6
  <2>8. Good(m, r, y, AskAndShow(v, what, d, no), Plus(y, {{<<what, d>>}}, {}, {})) BY <1>5, <2>7, GoodAskAndShow
  <2>9. QED BY <2>5, <2>7, <2>8
<1> HIDE DEF body
<1>6. Fine(m, {}, Reporting(initNVML(GpuBodies(p)) \o shutdownNVML, Claims(what, GpusInReach)), {})
  BY <1>5, VoltaReports
<1>7. QED BY <1>2, <1>4, <1>6

\* The same, as JSON.
LEMMA VoltaUtilizationJson ==
  ASSUME NEW m, "old" \in m.traits
  PROVE  Fine(m, {}, volta_get_gpu_utilization_json, {})
<1> DEFINE E(d) == AskAndShow(Var("util"), "util", d, << >>)
           body == [d \in Int |-> E(d)]
<1>1. ASSUME NEW s, NEW n PROVE nvidia_get_gpu_utilization_json(s, n) = OnGpus(s, n, [k \in Span(s, n) |-> body[k]])
  <2>1. [k \in Span(s, n) |-> E(k)] = [k \in Span(s, n) |-> body[k]] BY DEF Span
  <2>2. QED BY <2>1 DEF nvidia_get_gpu_utilization_json, EachGpuOf, Each, OnGpus, Span
<1>2. volta_get_gpu_utilization_json = Reporting(initNVML(GpuBodies(body)) \o shutdownNVML, Claims("util", GpusInReach))
  <2>1. \A n : [s \in 0..(NSOCKETS - 1) |-> Function(nvidia_get_gpu_utilization_json(s, n))]
                 = [s \in 0..(NSOCKETS - 1) |-> Function(OnGpus(s, n, [k \in Span(s, n) |-> body[k]]))]
    BY <1>1
  <2>2. [n \in {0, NGPUS} |->
           LoopFrom(0, NSOCKETS - 1, [s \in 0..(NSOCKETS - 1) |-> Function(nvidia_get_gpu_utilization_json(s, n))]) \o Return(0)]
          = GpuBodies(body)
    BY <2>1 DEF GpuBodies
  <2>3. QED BY <2>2 DEF volta_get_gpu_utilization_json, VoltaChips, WithNVML, EachSocket, Each
<1>3. \E v, what, p : v = Var("util") /\ what = "util" /\ p = body OBVIOUS
<1>4. PICK v, what, p : v = Var("util") /\ what = "util" /\ p = body BY <1>3
<1>5. ASSUME NEW d \in GpusInReach, NEW r, NEW y, Blank(y) PROVE Good(m, r, y, p[d], Plus(y, {{<<what, d>>}}, {}, {}))
  <2>1. d \in Int BY DEF GpusInReach
  <2>2. body[d] = E(d) BY <2>1
  <2>3. \E src : src = <<what, d>> OBVIOUS
  <2>4. PICK src : src = <<what, d>> BY <2>3
  <2>5. p[d] = AskAndShow(v, what, d, << >>) BY <2>2, <2>4, <1>4 DEF Of
  <2>6. \E no : no = << >> OBVIOUS
  <2>7. PICK no : no = << >> BY <2>6
  <2>8. Good(m, r, y, AskAndShow(v, what, d, no), Plus(y, {{<<what, d>>}}, {}, {})) BY <1>5, <2>7, GoodAskAndShow
  <2>9. QED BY <2>5, <2>7, <2>8
<1> HIDE DEF body
<1>6. Fine(m, {}, Reporting(initNVML(GpuBodies(p)) \o shutdownNVML, Claims(what, GpusInReach)), {})
  BY <1>5, VoltaReports
<1>7. QED BY <1>2, <1>4, <1>6

-----------------------------------------------------------------------------
\* A variable that is set to nothing, and not used.
LEMMA SkipReset ==
  ASSUME NEW m, NEW r, NEW x, NEW v, v \notin DOMAIN x.vals
  PROVE  Good(m, r, x, Reset(v), x)
  BY GoodReset, Forget, EntailsSame, GoodWeaker

\* The power of each GPU; a variable that is not used is set before.
LEMMA VoltaPower ==
  ASSUME NEW m, "old" \in m.traits
  PROVE  Fine(m, {}, volta_get_power, {})
<1> DEFINE E(d) == AskAndShow(Var("power"), "power", d, << >>)
           B(s, n) == [k \in Span(s, n) |-> E(k)]
           X(s, n) == nvidia_gpu_get_power_data(s, n)
           Q == [n \in {0, NGPUS} |-> LoopFrom(0, NSOCKETS - 1, [s \in 0..(NSOCKETS - 1) |-> Function(X(s, n))]) \o Return(0)]
<1>1. \A s, n : X(s, n) = Reset(Var("value")) \o OnGpus(s, n, B(s, n))
  BY DEF nvidia_gpu_get_power_data, EachGpuOf, Each, OnGpus, Span
<1>2. volta_get_power = Reporting(initNVML(Q) \o shutdownNVML, Claims("power", GpusInReach))
  BY DEF volta_get_power, VoltaChips, WithNVML, EachSocket, Each
<1>3. \E v, u, what, no : v = Var("power") /\ u = Var("value") /\ what = "power" /\ no = << >> OBVIOUS
<1>4. PICK v, u, what, no : v = Var("power") /\ u = Var("value") /\ what = "power" /\ no = << >> BY <1>3
<1>5. \E C, T, g : /\ C = [d \in GpusInReach |-> {{<<what, d>>}}] /\ T = [d \in GpusInReach |-> {}]
                   /\ g = Outcome({}, InAll(C), InAll(T), {})
  OBVIOUS
<1>6. PICK C, T, g : /\ C = [d \in GpusInReach |-> {{<<what, d>>}}] /\ T = [d \in GpusInReach |-> {}]
                     /\ g = Outcome({}, InAll(C), InAll(T), {})
  BY <1>5
<1>7. ASSUME NEW s \in 0..(NSOCKETS - 1) PROVE ChipDone(m, s, X(s, NGPUS), C, T) /\ ChipIdle(m, X(s, 0))
  <2>1. \E b, e : b = B(s, NGPUS) /\ e = B(s, 0) OBVIOUS
  <2>2. PICK b, e : b = B(s, NGPUS) /\ e = B(s, 0) BY <2>1
  <2>3. X(s, NGPUS) = Reset(u) \o OnGpus(s, NGPUS, b) /\ X(s, 0) = Reset(u) \o OnGpus(s, 0, e) BY <1>1, <1>4, <2>2
  <2>4. \A d \in Span(s, NGPUS) : b[d] = AskAndShow(v, what, d, no) BY <1>4, <2>2
  <2> HIDE DEF X, B, E, Q
  <2>5. ASSUME NEW d \in Span(s, NGPUS), NEW r, NEW y, Blank(y) PROVE Good(m, r, y, b[d], Plus(y, C[d], T[d], {}))
    <3>1. d \in GpusInReach BY SpansOfSockets
    <3>2. C[d] = {{<<what, d>>}} /\ T[d] = {} BY <1>6, <3>1
    <3>3. no \in {<< >>, Complain} BY <1>4
    <3>4. Good(m, r, y, AskAndShow(v, what, d, no), Plus(y, {{<<what, d>>}}, {}, {})) BY <2>5, <3>3, GoodAskAndShow
    <3>5. QED BY <2>4, <3>2, <3>4
  <2>6. ChipDone(m, s, OnGpus(s, NGPUS, b), C, T) BY <2>5, SpanDone
  <2>7. ChipIdle(m, OnGpus(s, 0, e)) BY SpanIdle
  <2>8. \A r, y : DOMAIN y.vals = {} => Good(m, r, y, Reset(u), y) BY SkipReset
  <2>9. \E p, q : p = OnGpus(s, NGPUS, b) /\ q = OnGpus(s, 0, e) OBVIOUS
  <2>10. PICK p, q : p = OnGpus(s, NGPUS, b) /\ q = OnGpus(s, 0, e) BY <2>9
  <2>11. ChipDone(m, s, p, C, T) /\ ChipIdle(m, q) BY <2>6, <2>7, <2>10
  <2>12. ASSUME NEW r, NEW y, Blank(y) PROVE Good(m, r, y, Reset(u) \o p, Plus(y, From(C, s), From(T, s), {}))
    <3>1. Good(m, r, y, Reset(u), y) BY <2>8, <2>12 DEF Blank
    <3>2. Good(m, r, y, p, Plus(y, From(C, s), From(T, s), {})) BY <2>11, <2>12 DEF ChipDone
    <3>3. QED BY <3>1, <3>2, GoodThen
  <2>13. ASSUME NEW r, NEW y, DOMAIN y.vals = {} PROVE Good(m, r, y, Reset(u) \o q, y)
    <3>1. Good(m, r, y, Reset(u), y) BY <2>8, <2>13
    <3>2. Good(m, r, y, q, y) BY <2>11, <2>13 DEF ChipIdle
    <3>3. QED BY <3>1, <3>2, GoodThen
  <2>14. ChipDone(m, s, Reset(u) \o p, C, T) BY <2>12 DEF ChipDone
  <2>15. ChipIdle(m, Reset(u) \o q) BY <2>13 DEF ChipIdle
  <2>16. QED BY <2>3, <2>10, <2>14, <2>15
<1> HIDE DEF E, B
<1>8. Serves(m, Q, C, T)
  <2>1. DOMAIN Q = {0, NGPUS} OBVIOUS
  <2>2. ASSUME NEW n \in {0, NGPUS}
        PROVE  \E loop : /\ Q[n] = LoopFrom(0, NSOCKETS - 1, loop) \o Return(0)
                         /\ \A s \in 0..(NSOCKETS - 1) : \E F : /\ loop[s] = Function(F)
                                                                /\ n = NGPUS => ChipDone(m, s, F, C, T)
                                                                /\ n = 0 => ChipIdle(m, F)
    <3>1. \E loop : loop = [s \in 0..(NSOCKETS - 1) |-> Function(X(s, n))] OBVIOUS
    <3>2. PICK loop : loop = [s \in 0..(NSOCKETS - 1) |-> Function(X(s, n))] BY <3>1
    <3>3. Q[n] = LoopFrom(0, NSOCKETS - 1, loop) \o Return(0) BY <3>2
    <3> HIDE DEF X, Q
    <3>4. ASSUME NEW s \in 0..(NSOCKETS - 1)
          PROVE  \E F : loop[s] = Function(F) /\ (n = NGPUS => ChipDone(m, s, F, C, T)) /\ (n = 0 => ChipIdle(m, F))
      <4>1. \E F : F = X(s, n) OBVIOUS
      <4>2. PICK F : F = X(s, n) BY <4>1
      <4>3. loop[s] = Function(F) BY <3>2, <4>2
      <4>4. n = NGPUS => ChipDone(m, s, F, C, T)
        <5>1. ASSUME n = NGPUS PROVE ChipDone(m, s, F, C, T)
          <6>1. F = X(s, NGPUS) BY <4>2, <5>1
          <6>2. QED BY <1>7, <6>1
        <5>2. QED BY <5>1
      <4>5. n = 0 => ChipIdle(m, F)
        <5>1. ASSUME n = 0 PROVE ChipIdle(m, F)
          <6>1. F = X(s, 0) BY <4>2, <5>1
          <6>2. QED BY <1>7, <6>1
        <5>2. QED BY <5>1
      <4>6. QED BY <4>3, <4>4, <4>5
    <3>5. QED BY <3>3, <3>4
  <2>3. QED BY <2>1, <2>2 DEF Serves
<1>9. \E P : P = Q OBVIOUS
<1>10. PICK P : P = Q BY <1>9
<1> HIDE DEF Q, X
<1>11. UNION {C[k] : k \in GpusInReach} = Claims(what, GpusInReach)
  <2>1. \A k \in GpusInReach : C[k] = {{<<what, k>>}} BY <1>6
  <2>2. QED BY ONLY <2>1, ClaimsAre
<1>12. InAll(T) = {} BY <1>6 DEF InAll
<1>13. Good(m, g, Base({}), initNVML(P) \o shutdownNVML, g) BY <1>6, <1>8, <1>10, <1>12, VoltaFine
<1>14. g = Outcome({}, Claims(what, GpusInReach), {}, {}) BY <1>6, <1>11, <1>12 DEF InAll
<1>15. Fine(m, {}, Reporting(initNVML(P) \o shutdownNVML, Claims(what, GpusInReach)), {}) BY <1>13, <1>14, ReportingFine
<1>16. QED BY <1>2, <1>4, <1>10, <1>15

\* Each GPU is told its cap.
LEMMA VoltaCap ==
  ASSUME NEW m, "old" \in m.traits, "blind" \in m.traits, {<<"gpu", d>> : d \in GpusInReach} \subseteq m.devs
  PROVE  Fine(m, {}, volta_cap_each_gpu_power_limit, {})
<1> DEFINE E(d) == Cap(<<"gpu", d>>, Handle(d), Complain)
           body == [d \in Int |-> E(d)]
<1>1. ASSUME NEW s, NEW n PROVE nvml_cap_each_gpu_power_limit(s, n) = OnGpus(s, n, [k \in Span(s, n) |-> body[k]])
  <2>1. [k \in Span(s, n) |-> E(k)] = [k \in Span(s, n) |-> body[k]] BY DEF Span
  <2>2. QED BY <2>1 DEF nvml_cap_each_gpu_power_limit, EachGpuOf, Each, OnGpus, Span
<1>2. volta_cap_each_gpu_power_limit = Capping(initNVML(GpuBodies(body)) \o shutdownNVML, {<<"gpu", d>> : d \in GpusInReach})
  <2>1. \A n : [s \in 0..(NSOCKETS - 1) |-> Function(nvml_cap_each_gpu_power_limit(s, n))]
                 = [s \in 0..(NSOCKETS - 1) |-> Function(OnGpus(s, n, [k \in Span(s, n) |-> body[k]]))]
    BY <1>1
  <2>2. [n \in {0, NGPUS} |->
           LoopFrom(0, NSOCKETS - 1, [s \in 0..(NSOCKETS - 1) |-> Function(nvml_cap_each_gpu_power_limit(s, n))]) \o Return(0)]
          = GpuBodies(body)
    BY <2>1 DEF GpuBodies
  <2>3. QED BY <2>2 DEF volta_cap_each_gpu_power_limit, VoltaChips, WithNVML, EachSocket, Each
<1>3. \E what, p : what = "gpu" /\ p = body OBVIOUS
<1>4. PICK what, p : what = "gpu" /\ p = body BY <1>3
<1>5. \E Q, C, T, g : /\ Q = GpuBodies(p) /\ C = [d \in GpusInReach |-> {}] /\ T = [d \in GpusInReach |-> {<<what, d>>}]
                      /\ g = Outcome({}, InAll(C), InAll(T), {})
  OBVIOUS
<1>6. PICK Q, C, T, g : /\ Q = GpuBodies(p) /\ C = [d \in GpusInReach |-> {}] /\ T = [d \in GpusInReach |-> {<<what, d>>}]
                        /\ g = Outcome({}, InAll(C), InAll(T), {})
  BY <1>5
<1>7. ASSUME NEW d \in GpusInReach, NEW r, NEW y, Blank(y) PROVE Good(m, r, y, p[d], Plus(y, C[d], T[d], {}))
  <2>1. d \in Int BY DEF GpusInReach
  <2>2. body[d] = E(d) BY <2>1
  <2>3. \E dev, via, b : dev = <<what, d>> /\ via = Handle(d) /\ b = Plus(y, {}, {dev}, {}) OBVIOUS
  <2>4. PICK dev, via, b : dev = <<what, d>> /\ via = Handle(d) /\ b = Plus(y, {}, {dev}, {}) BY <2>3
  <2>5. p[d] = Cap(dev, via, Complain) BY <2>2, <2>4, <1>4
  <2>6. dev \in m.devs BY <2>4, <1>4
  <2>7. y.wanted = "share" /\ Easy(b) BY <1>7, <2>4 DEF Plus, Facts, Blank, Easy
  <2>8. Good(m, r, Refused(y), Complain, Plus(y, {}, {dev}, {})) BY <2>4, <2>7, GoodMessage
  <2>9. Good(m, r, y, Cap(dev, via, Complain), b) BY <2>4, <2>6, <2>7, <2>8, GoodToldCap
  <2>10. C[d] = {} /\ T[d] = {dev} BY <1>6, <2>4
  <2>11. QED BY <2>4, <2>5, <2>9, <2>10
<1> HIDE DEF body
<1>8. Serves(m, Q, C, T) BY <1>6, <1>7, GpuBodiesServe
<1>9. Good(m, g, Base({}), initNVML(Q) \o shutdownNVML, g) BY <1>6, <1>8, VoltaFine
<1>10. InAll(C) = {} /\ InAll(T) = {<<what, d>> : d \in GpusInReach} BY <1>6 DEF InAll
<1>11. \E S, F : S = {<<what, d>> : d \in GpusInReach} /\ F = Capping(initNVML(Q) \o shutdownNVML, S) OBVIOUS
<1>12. PICK S, F : S = {<<what, d>> : d \in GpusInReach} /\ F = Capping(initNVML(Q) \o shutdownNVML, S) BY <1>11
<1>13. g = Outcome({}, {}, S, {}) BY <1>6, <1>10, <1>12
<1>14. Fine(m, {}, F, {}) BY <1>9, <1>12, <1>13, CappingFine
<1>15. volta_cap_each_gpu_power_limit = F BY <1>2, <1>4, <1>6, <1>12
<1>16. QED BY <1>14, <1>15

\* Two clocks of each GPU.
LEMMA VoltaClocksJson ==
  ASSUME NEW m, "old" \in m.traits
  PROVE  Fine(m, {}, volta_get_clocks_json, {})
<1> DEFINE E(d) == Ask(Var("gpu_clock"), "sm_clk", d, << >>) \o Ask(Var("mem_clock"), "mem_clk", d, << >>)
                     \o Show(Of("sm_clk", d), Var("gpu_clock")) \o Show(Of("mem_clk", d), Var("mem_clock"))
           body == [d \in Int |-> E(d)]
<1>1. ASSUME NEW s, NEW n PROVE nvidia_gpu_get_clocks_json(s, n) = OnGpus(s, n, [k \in Span(s, n) |-> body[k]])
  <2>1. [k \in Span(s, n) |-> E(k)] = [k \in Span(s, n) |-> body[k]] BY DEF Span
  <2>2. QED BY <2>1 DEF nvidia_gpu_get_clocks_json, EachGpuOf, Each, OnGpus, Span
<1>2. volta_get_clocks_json = Reporting(initNVML(GpuBodies(body)) \o shutdownNVML,
             Claims("sm_clk", GpusInReach) \union Claims("mem_clk", GpusInReach))
  <2>1. \A n : [s \in 0..(NSOCKETS - 1) |-> Function(nvidia_gpu_get_clocks_json(s, n))]
                 = [s \in 0..(NSOCKETS - 1) |-> Function(OnGpus(s, n, [k \in Span(s, n) |-> body[k]]))]
    BY <1>1
  <2>2. [n \in {0, NGPUS} |->
           LoopFrom(0, NSOCKETS - 1, [s \in 0..(NSOCKETS - 1) |-> Function(nvidia_gpu_get_clocks_json(s, n))]) \o Return(0)]
          = GpuBodies(body)
    BY <2>1 DEF GpuBodies
  <2>3. QED BY <2>2 DEF volta_get_clocks_json, VoltaChips, WithNVML, EachSocket, Each
<1>3. \E u, v, cu, cv, p : /\ u = Var("gpu_clock") /\ v = Var("mem_clock") /\ cu = "sm_clk" /\ cv = "mem_clk" /\ p = body
  OBVIOUS
<1>4. PICK u, v, cu, cv, p : /\ u = Var("gpu_clock") /\ v = Var("mem_clock") /\ cu = "sm_clk" /\ cv = "mem_clk" /\ p = body
  BY <1>3
<1>5. u # v BY <1>4 DEF Var
<1>6. \E Q, C, T, g : /\ Q = GpuBodies(p) /\ C = [d \in GpusInReach |-> {{<<cu, d>>}, {<<cv, d>>}}]
                      /\ T = [d \in GpusInReach |-> {}] /\ g = Outcome({}, InAll(C), InAll(T), {})
  OBVIOUS
<1>7. PICK Q, C, T, g : /\ Q = GpuBodies(p) /\ C = [d \in GpusInReach |-> {{<<cu, d>>}, {<<cv, d>>}}]
                        /\ T = [d \in GpusInReach |-> {}] /\ g = Outcome({}, InAll(C), InAll(T), {})
  BY <1>6
<1>8. ASSUME NEW d \in GpusInReach, NEW r, NEW y, Blank(y) PROVE Good(m, r, y, p[d], Plus(y, C[d], T[d], {}))
  <2>1. d \in Int BY DEF GpusInReach
  <2>2. body[d] = E(d) BY <2>1
  <2>3. \E src, two, via : src = <<cu, d>> /\ two = <<cv, d>> /\ via = Handle(d) OBVIOUS
  <2>4. PICK src, two, via : src = <<cu, d>> /\ two = <<cv, d>> /\ via = Handle(d) BY <2>3
  <2>5. p[d] = GetOr(u, src, via, << >>, << >>, Fork(<< >>, Crash)) \o GetOr(v, two, via, << >>, << >>, Fork(<< >>, Crash))
                 \o Show({src}, u) \o Show({two}, v)
    BY <2>2, <2>4, <1>4 DEF Ask, Of
  <2>6. \E b, e : b = WithVal(y, u, {src}) /\ e = WithVal(b, v, {two}) OBVIOUS
  <2>7. PICK b, e : b = WithVal(y, u, {src}) /\ e = WithVal(b, v, {two}) BY <2>6
  <2>8. u \in DOMAIN b.vals /\ b.vals[u] = {src} /\ b.claims = y.claims /\ Rest(b, y) BY ONLY <2>7, SetIs
  <2>9. u \in DOMAIN e.vals /\ v \in DOMAIN e.vals /\ e.vals[v] = {two} /\ e.vals[u] = {src} /\ e.claims = b.claims
        /\ Rest(e, b)
    BY <1>5, <2>7, <2>8, SetIs
  <2>10. y.mark = "none" /\ b.mark = "none" BY <1>8, <2>8 DEF Rest, Blank
  <2>11. Mild(r, y, << >>) /\ Mild(r, b, << >>) BY <2>10 DEF Mild
  <2>12. Good(m, r, y, GetOr(u, src, via, << >>, << >>, Fork(<< >>, Crash)), b) BY <2>7, <2>10, <2>11, GoodAskHandle
  <2>13. Good(m, r, b, GetOr(v, two, via, << >>, << >>, Fork(<< >>, Crash)), e) BY <2>7, <2>10, <2>11, GoodAskHandle
  <2>14. \E x : x = Plus(y, {{src}, {two}}, {}, {}) OBVIOUS
  <2>15. PICK x : x = Plus(y, {{src}, {two}}, {}, {}) BY <2>14
  <2>16. Good(m, r, e, Show({src}, u), Plus(e, {{src}}, {}, {}))
    BY <2>9, GoodShown
  <2>17. Good(m, r, Plus(e, {{src}}, {}, {}), Show({two}, v), x)
    <3>1. \E h, j : h = Plus(e, {{src}}, {}, {}) /\ j = Plus(h, {{two}}, {}, {}) OBVIOUS
    <3>2. PICK h, j : h = Plus(e, {{src}}, {}, {}) /\ j = Plus(h, {{two}}, {}, {}) BY <3>1
    <3>3. h.vals = e.vals /\ h.claims = e.claims \union {{src}} /\ Rest(h, e) BY ONLY <3>2, ShownIs
    <3>4. j.claims = h.claims \union {{two}} /\ Rest(j, h) BY ONLY <3>2, ShownIs
    <3>5. Good(m, r, h, Show({two}, v), j) BY <2>9, <3>2, <3>3, GoodShown
    <3>6. x.vals = y.vals /\ x.claims = y.claims \union {{src}, {two}} /\ Rest(x, y) BY ONLY <2>15, ShownIs
    <3>7. DOMAIN x.vals = {} BY <1>8, <3>6 DEF Blank
    <3>8. x.claims = j.claims BY <2>8, <2>9, <3>3, <3>4, <3>6
    <3>9. /\ x.mark = j.mark /\ x.opened = j.opened /\ x.taken = j.taken /\ x.bound = j.bound /\ x.wanted = j.wanted
      BY <2>8, <2>9, <3>3, <3>4, <3>6 DEF Rest
    <3>10. Entails(m, j, x) BY <3>7, <3>8, <3>9, ForgetAll
    <3>11. QED BY <3>2, <3>5, <3>10, EntailsSame, GoodWeaker
  <2>18. Good(m, r, y, GetOr(u, src, via, << >>, << >>, Fork(<< >>, Crash))
                         \o GetOr(v, two, via, << >>, << >>, Fork(<< >>, Crash)), e)
    BY <2>12, <2>13, GoodThen
  <2>19. Good(m, r, y, p[d], x) BY <2>5, <2>16, <2>17, <2>18, GoodThen
  <2>20. C[d] = {{src}, {two}} /\ T[d] = {} BY <1>7, <2>4
  <2>21. QED BY <2>15, <2>19, <2>20
<1> HIDE DEF body
<1>9. Serves(m, Q, C, T) BY <1>7, <1>8, GpuBodiesServe
<1>10. InAll(T) = {} BY <1>7 DEF InAll
<1>11. Good(m, g, Base({}), initNVML(Q) \o shutdownNVML, g) BY <1>7, <1>9, <1>10, VoltaFine
<1>12. InAll(C) = Claims(cu, GpusInReach) \union Claims(cv, GpusInReach) BY <1>7 DEF InAll, Claims, Of
<1>13. \E D, F : D = Claims(cu, GpusInReach) \union Claims(cv, GpusInReach) /\ F = Reporting(initNVML(Q) \o shutdownNVML, D)
  OBVIOUS
<1>14. PICK D, F : D = Claims(cu, GpusInReach) \union Claims(cv, GpusInReach) /\ F = Reporting(initNVML(Q) \o shutdownNVML, D)
  BY <1>13
<1>15. g = Outcome({}, D, {}, {}) BY <1>7, <1>10, <1>12, <1>14
<1>16. Fine(m, {}, F, {}) BY <1>11, <1>14, <1>15, ReportingFine
<1>17. volta_get_clocks_json = F BY <1>2, <1>4, <1>7, <1>14
<1>18. QED BY <1>16, <1>17

-----------------------------------------------------------------------------
\* The power of the GPUs is summed up, perhaps with that of the node.

\* The GPUs of the sockets before s.
Upto(s) == 0..(s * GpusPerSocket(NGPUS) - 1)

\* With each socket its GPUs come to those before it; behind the last these are
\* all in reach.
LEMMA UptoSockets ==
  /\ Upto(0) = {} /\ Upto(NSOCKETS) = GpusInReach
  /\ \A s \in 0..(NSOCKETS - 1) : /\ Upto(s + 1) = Upto(s) \union Span(s, NGPUS)
                                  /\ Upto(s) \intersect Span(s, NGPUS) = {}
                                  /\ Span(s, NGPUS) \subseteq GpusInReach
<1>1. NSOCKETS \in Nat \ {0} BY NumbersOfDevices
<1>2. \E g : g = GpusPerSocket(NGPUS) OBVIOUS
<1>3. PICK g : g = GpusPerSocket(NGPUS) BY <1>2
<1>4. g \in Nat BY <1>3, SpansOfSockets
<1>5. 0 * g = 0 /\ NSOCKETS * g = g * NSOCKETS BY <1>1, <1>4
<1>6. Upto(0) = {} /\ Upto(NSOCKETS) = GpusInReach BY <1>3, <1>5 DEF Upto, GpusInReach
<1>7. ASSUME NEW s \in 0..(NSOCKETS - 1)
      PROVE  Upto(s + 1) = Upto(s) \union Span(s, NGPUS) /\ Upto(s) \intersect Span(s, NGPUS) = {}
  <2>1. \E u, w : u = s * g /\ w = (s + 1) * g OBVIOUS
  <2>2. PICK u, w : u = s * g /\ w = (s + 1) * g BY <2>1
  <2>3. s \in Nat BY <1>1
  <2>4. (s + 1) * g = s * g + g /\ s * g \in Nat BY ONLY <1>4, <2>3
  <2>5. u \in Nat /\ w = u + g BY <2>2, <2>4
  <2>6. Upto(s + 1) = 0..(w - 1) /\ Upto(s) = 0..(u - 1) /\ Span(s, NGPUS) = u..(w - 1) BY <1>3, <2>2 DEF Upto, Span
  <2>7. 0..(w - 1) = 0..(u - 1) \union u..(w - 1) /\ 0..(u - 1) \intersect u..(w - 1) = {} BY ONLY <1>4, <2>5
  <2>8. QED BY <2>6, <2>7
<1>8. QED BY <1>6, <1>7, SpansOfSockets

\* A sum grows, socket by socket, by what is read.
LEMMA SocketTotals ==
  ASSUME NEW m, NEW r, NEW a, NEW loop, NEW total, NEW what, NEW B,
         total \notin DOMAIN a.vals, B \intersect Sum(what, GpusInReach) = {},
         \A s \in 0..(NSOCKETS - 1) : \A x, S :
           Alike(x, a) /\ S \intersect Sum(what, Span(s, NGPUS)) = {} =>
             Good(m, r, WithVal(x, total, S), loop[s],
                  WithVal(Plus(x, Claims(what, Span(s, NGPUS)), {}, {}), total, S \union Sum(what, Span(s, NGPUS))))
  PROVE  Good(m, r, WithVal(a, total, B), LoopFrom(0, NSOCKETS - 1, loop),
              WithVal(Plus(a, Claims(what, GpusInReach), {}, {}), total, B \union Sum(what, GpusInReach)))
<1>1. \E n, I : /\ n = NSOCKETS - 1
                /\ I = [s \in 0..NSOCKETS |-> WithVal(Plus(a, Claims(what, Upto(s)), {}, {}), total, B \union Sum(what, Upto(s)))]
  OBVIOUS
<1>2. PICK n, I : /\ n = NSOCKETS - 1
                  /\ I = [s \in 0..NSOCKETS |-> WithVal(Plus(a, Claims(what, Upto(s)), {}, {}), total, B \union Sum(what, Upto(s)))]
  BY <1>1
<1>3. \A s \in 0..NSOCKETS : I[s] = WithVal(Plus(a, Claims(what, Upto(s)), {}, {}), total, B \union Sum(what, Upto(s)))
  BY <1>2
<1>4. NSOCKETS \in Nat \ {0} BY NumbersOfDevices
<1>5. ASSUME NEW s \in 0..n PROVE Good(m, r, I[s], loop[s], I[s + 1])
  <2>1. s \in 0..(NSOCKETS - 1) /\ s \in 0..NSOCKETS /\ s + 1 \in 0..NSOCKETS BY <1>2, <1>4
  <2>2. \E U, W, x, S : U = Upto(s) /\ W = Span(s, NGPUS) /\ x = Plus(a, Claims(what, U), {}, {}) /\ S = B \union Sum(what, U)
    OBVIOUS
  <2>3. PICK U, W, x, S : U = Upto(s) /\ W = Span(s, NGPUS) /\ x = Plus(a, Claims(what, U), {}, {}) /\ S = B \union Sum(what, U)
    BY <2>2
  <2>4. Upto(s + 1) = U \union W /\ U \intersect W = {} /\ W \subseteq GpusInReach BY <2>1, <2>3, UptoSockets
  <2>5. Alike(x, a) BY <2>3 DEF Alike, Plus, Facts
  <2>6. S \intersect Sum(what, W) = {}
    <3>1. Sum(what, U) \intersect Sum(what, W) = {} BY <2>4 DEF Sum
    <3>2. Sum(what, W) \subseteq Sum(what, GpusInReach) BY <2>4 DEF Sum
    <3>3. QED BY <2>3, <3>1, <3>2
  <2>7. Good(m, r, WithVal(x, total, S), loop[s],
             WithVal(Plus(x, Claims(what, W), {}, {}), total, S \union Sum(what, W)))
    BY <2>1, <2>3, <2>5, <2>6
  <2>8. I[s] = WithVal(x, total, S) BY <1>3, <2>1, <2>3
  <2>9. Claims(what, U \union W) = Claims(what, U) \union Claims(what, W) BY DEF Claims
  <2>10. Sum(what, U \union W) = Sum(what, U) \union Sum(what, W) BY DEF Sum
  <2>11. I[s + 1] = WithVal(Plus(a, Claims(what, U \union W), {}, {}), total, B \union Sum(what, U \union W))
    BY <1>3, <2>1, <2>4
  <2>12. Plus(x, Claims(what, W), {}, {}) = Plus(a, Claims(what, U \union W), {}, {})
    <3>1. {} \union {} = {} OBVIOUS
    <3>2. \E C, D, e : C = Claims(what, U) /\ D = Claims(what, W) /\ e = {} OBVIOUS
    <3>3. PICK C, D, e : C = Claims(what, U) /\ D = Claims(what, W) /\ e = {} BY <3>2
    <3>4. Plus(Plus(a, C, e, e), D, e, e) = Plus(a, C \union D, e \union e, e \union e) BY ONLY PlusPlus
    <3>5. QED BY <2>3, <2>9, <3>3, <3>4
  <2>13. S \union Sum(what, W) = B \union Sum(what, U \union W) BY <2>3, <2>10
  <2>14. I[s + 1] = WithVal(Plus(x, Claims(what, W), {}, {}), total, S \union Sum(what, W)) BY <2>11, <2>12, <2>13
  <2>15. QED BY <2>7, <2>8, <2>14
<1>6. 0 \in Int /\ n \in Int /\ 0 <= n + 1 /\ n + 1 = NSOCKETS BY <1>2, <1>4
<1>7. Good(m, r, I[0], LoopFrom(0, n, loop), I[NSOCKETS])
  <2>1. \E z : z = 0 OBVIOUS
  <2>2. PICK z : z = 0 BY <2>1
  <2>3. z \in Int /\ n \in Int /\ z <= n + 1 BY <1>6, <2>2
  <2>4. \A s \in z..n : Good(m, r, I[s], loop[s], I[s + 1]) BY <1>5, <2>2
  <2>5. Good(m, r, I[z], LoopFrom(z, n, loop), I[n + 1]) BY ONLY <2>3, <2>4, GoodLoop
  <2>6. QED BY <2>2, <2>5, <1>6
<1>8. Claims(what, {}) = {} /\ Sum(what, {}) = {} /\ B \union {} = B BY DEF Claims, Sum
<1>9. 0 \in 0..NSOCKETS /\ NSOCKETS \in 0..NSOCKETS BY <1>4
<1>10. I[0] = WithVal(Plus(a, {}, {}, {}), total, B) BY <1>3, <1>8, <1>9, UptoSockets
<1>11. Entails(m, WithVal(a, total, B), I[0])
  <2>1. \E b : b = WithVal(a, total, B) OBVIOUS
  <2>2. PICK b : b = WithVal(a, total, B) BY <2>1
  <2>3. I[0] = Plus(b, {}, {}, {}) BY <1>10, <2>2, WithValPlus
  <2>4. QED BY <2>2, <2>3, PlusNothing
<1>12. I[NSOCKETS] = WithVal(Plus(a, Claims(what, GpusInReach), {}, {}), total, B \union Sum(what, GpusInReach))
  BY <1>3, <1>9, UptoSockets
<1>13. QED BY <1>2, <1>7, <1>11, <1>12, EntailsSame, GoodWeaker

\* A socket sums up its GPUs.
LEMMA SpanTotals ==
  ASSUME NEW m, NEW r, NEW a, NEW s \in 0..(NSOCKETS - 1), NEW body, NEW total, NEW what, NEW B,
         total \notin DOMAIN a.vals, B \intersect Sum(what, Span(s, NGPUS)) = {},
         \A k \in Span(s, NGPUS) : \A x, S :
           Alike(x, a) /\ <<what, k>> \notin S =>
             Good(m, r, WithVal(x, total, S), body[k],
                  WithVal(Plus(x, {{<<what, k>>}}, {}, {}), total, S \union {<<what, k>>}))
  PROVE  Good(m, r, WithVal(a, total, B), OnGpus(s, NGPUS, body),
              WithVal(Plus(a, Claims(what, Span(s, NGPUS)), {}, {}), total, B \union Sum(what, Span(s, NGPUS))))
<1>1. \E u, w : u = s * GpusPerSocket(NGPUS) /\ w = (s + 1) * GpusPerSocket(NGPUS) - 1 OBVIOUS
<1>2. PICK u, w : u = s * GpusPerSocket(NGPUS) /\ w = (s + 1) * GpusPerSocket(NGPUS) - 1 BY <1>1
<1>3. u \in Int /\ w \in Int /\ u <= w + 1 BY <1>2, SpansOfSockets
<1>4. Span(s, NGPUS) = u..w /\ OnGpus(s, NGPUS, body) = LoopFrom(u, w, body) BY <1>2 DEF Span, OnGpus
<1>5. B \intersect Sum(what, u..w) = {} BY <1>4
<1>6. \A k \in u..w : \A x, S :
        Alike(x, a) /\ <<what, k>> \notin S =>
          Good(m, r, WithVal(x, total, S), body[k],
               WithVal(Plus(x, {{<<what, k>>}}, {}, {}), total, S \union {<<what, k>>}))
  BY <1>4
<1>7. total \notin DOMAIN a.vals OBVIOUS
<1>8. Good(m, r, WithVal(a, total, B), LoopFrom(u, w, body),
           WithVal(Plus(a, Claims(what, u..w), {}, {}), total, B \union Sum(what, u..w)))
  BY ONLY <1>3, <1>5, <1>6, <1>7, GoodTotals
<1>9. QED BY <1>4, <1>8

-----------------------------------------------------------------------------
\* A variable is added to another, and forgotten.
LEMMA GoodAddOff ==
  ASSUME NEW m, NEW r, NEW a, NEW u, NEW w, NEW S, NEW T,
         u \notin DOMAIN a.vals, w \notin DOMAIN a.vals, u # w, S \intersect T = {}
  PROVE  Good(m, r, WithVal(WithVal(a, u, S), w, T), Add(u, w), WithVal(a, u, S \union T))
<1>1. \E b, c, d, e : b = WithVal(a, u, S) /\ c = WithVal(b, w, T) /\ d = WithVal(c, u, S \union T) /\ e = WithVal(a, u, S \union T)
  OBVIOUS
<1>2. PICK b, c, d, e : b = WithVal(a, u, S) /\ c = WithVal(b, w, T) /\ d = WithVal(c, u, S \union T) /\ e = WithVal(a, u, S \union T)
  BY <1>1
<1>3. /\ u \in DOMAIN b.vals /\ b.vals[u] = S /\ DOMAIN b.vals = DOMAIN a.vals \union {u}
      /\ \A v \in DOMAIN a.vals : v # u => b.vals[v] = a.vals[v]
  BY ONLY <1>2, ValsAre
<1>4. /\ w \in DOMAIN c.vals /\ c.vals[w] = T /\ DOMAIN c.vals = DOMAIN b.vals \union {w}
      /\ \A v \in DOMAIN b.vals : v # w => c.vals[v] = b.vals[v]
  BY ONLY <1>2, ValsAre
<1>5. /\ u \in DOMAIN d.vals /\ d.vals[u] = S \union T /\ DOMAIN d.vals = DOMAIN c.vals \union {u}
      /\ \A v \in DOMAIN c.vals : v # u => d.vals[v] = c.vals[v]
  BY ONLY <1>2, ValsAre
<1>6. /\ u \in DOMAIN e.vals /\ e.vals[u] = S \union T /\ DOMAIN e.vals = DOMAIN a.vals \union {u}
      /\ \A v \in DOMAIN a.vals : v # u => e.vals[v] = a.vals[v]
  BY ONLY <1>2, ValsAre
<1>7. {u, w} \subseteq DOMAIN c.vals /\ c.vals[u] = S /\ c.vals[w] = T BY <1>3, <1>4
<1>8. /\ d.mark = e.mark /\ d.claims = e.claims /\ d.opened = e.opened /\ d.wanted = e.wanted
      /\ d.taken = e.taken /\ d.bound = e.bound
  BY <1>2 DEF WithVal, Facts
<1>9. DOMAIN e.vals \subseteq DOMAIN d.vals /\ \A v \in DOMAIN e.vals : d.vals[v] = e.vals[v]
  BY <1>3, <1>4, <1>5, <1>6
<1>10. Entails(m, d, e) BY <1>8, <1>9 DEF Entails
<1>11. Good(m, r, c, Add(u, w), e)
  <2>1. c.vals[u] \intersect c.vals[w] = {} /\ c.vals[u] \union c.vals[w] = S \union T BY <1>7
  <2>2. Entails(m, WithVal(c, u, c.vals[u] \union c.vals[w]), e) BY <1>2, <1>10, <2>1
  <2>3. QED BY <1>7, <2>1, <2>2, GoodAdd
<1>12. QED BY <1>2, <1>11

\* The power of a GPU is asked for, given out and added to a sum.
LEMMA VoltaAdds ==
  ASSUME NEW m, NEW r, NEW x, NEW v, NEW total, NEW what, NEW d, NEW S, "old" \in m.traits, x.mark = "none",
         v \notin DOMAIN x.vals, total \notin DOMAIN x.vals, v # total, <<what, d>> \notin S
  PROVE  Good(m, r, WithVal(x, total, S), AskAndShow(v, what, d, << >>) \o Add(total, v),
              WithVal(Plus(x, {{<<what, d>>}}, {}, {}), total, S \union {<<what, d>>}))
<1>1. \E src, via, b, c : src = <<what, d>> /\ via = Handle(d) /\ b = WithVal(x, total, S) /\ c = WithVal(b, v, {src})
  OBVIOUS
<1>2. PICK src, via, b, c : src = <<what, d>> /\ via = Handle(d) /\ b = WithVal(x, total, S) /\ c = WithVal(b, v, {src})
  BY <1>1
<1>3. b.mark = "none" BY <1>2 DEF WithVal, Facts
<1>4. Mild(r, b, << >>) BY <1>3 DEF Mild
<1>5. Good(m, r, b, GetOr(v, src, via, << >>, << >>, Fork(<< >>, Crash)), c) BY <1>2, <1>3, <1>4, GoodAskHandle
<1>6. \E e, h : e = WithVal(WithVal(Plus(x, {{src}}, {}, {}), total, S), v, {src})
                /\ h = WithVal(Plus(x, {{src}}, {}, {}), total, S \union {src})
  OBVIOUS
<1>7. PICK e, h : e = WithVal(WithVal(Plus(x, {{src}}, {}, {}), total, S), v, {src})
                  /\ h = WithVal(Plus(x, {{src}}, {}, {}), total, S \union {src})
  BY <1>6
<1>8. src \notin S BY <1>2
<1>9. Good(m, r, c, Show({src}, v), e) /\ Good(m, r, e, Add(total, v), h)
  BY <1>2, <1>7, <1>8, GoodAdded
<1>10. AskAndShow(v, what, d, << >>) = GetOr(v, src, via, << >>, << >>, Fork(<< >>, Crash)) \o Show({src}, v)
  BY <1>2 DEF AskAndShow, Ask, Of
<1>11. Good(m, r, b, GetOr(v, src, via, << >>, << >>, Fork(<< >>, Crash)) \o Show({src}, v), e) BY <1>5, <1>9, GoodThen
<1>12. Good(m, r, b, AskAndShow(v, what, d, << >>) \o Add(total, v), h) BY <1>9, <1>10, <1>11, GoodThen
<1>13. QED BY <1>2, <1>7, <1>12

\* What the function of a socket asks and sums up, with what is known before.
LEMMA VoltaSums ==
  ASSUME NEW m, NEW r, NEW a, NEW s \in 0..(NSOCKETS - 1), NEW body, NEW v, NEW total, NEW what, "old" \in m.traits,
         a.mark = "none", v \notin DOMAIN a.vals, total \notin DOMAIN a.vals, v # total,
         \A k \in Span(s, NGPUS) : body[k] = AskAndShow(v, what, k, << >>) \o Add(total, v)
  PROVE  Good(m, r, a, Reset(total) \o OnGpus(s, NGPUS, body),
              WithVal(Plus(a, Claims(what, Span(s, NGPUS)), {}, {}), total, Sum(what, Span(s, NGPUS))))
<1>1. \E B, W : B = {} /\ W = Span(s, NGPUS) OBVIOUS
<1>2. PICK B, W : B = {} /\ W = Span(s, NGPUS) BY <1>1
<1>3. ASSUME NEW k \in Span(s, NGPUS), NEW x, NEW S, Alike(x, a), <<what, k>> \notin S
      PROVE  Good(m, r, WithVal(x, total, S), body[k],
                  WithVal(Plus(x, {{<<what, k>>}}, {}, {}), total, S \union {<<what, k>>}))
  <2>1. x.mark = "none" /\ v \notin DOMAIN x.vals /\ total \notin DOMAIN x.vals BY <1>3 DEF Alike
  <2>2. Good(m, r, WithVal(x, total, S), AskAndShow(v, what, k, << >>) \o Add(total, v),
             WithVal(Plus(x, {{<<what, k>>}}, {}, {}), total, S \union {<<what, k>>}))
    BY <1>3, <2>1, VoltaAdds
  <2>3. QED BY <2>2
<1>4. \A k \in Span(s, NGPUS) : \A x, S :
        Alike(x, a) /\ <<what, k>> \notin S =>
          Good(m, r, WithVal(x, total, S), body[k],
               WithVal(Plus(x, {{<<what, k>>}}, {}, {}), total, S \union {<<what, k>>}))
  BY <1>3
<1>5. B \intersect Sum(what, W) = {} /\ B \union Sum(what, W) = Sum(what, W) BY <1>2
<1>6. Good(m, r, WithVal(a, total, B), OnGpus(s, NGPUS, body),
           WithVal(Plus(a, Claims(what, W), {}, {}), total, B \union Sum(what, W)))
  BY <1>2, <1>4, <1>5, SpanTotals
<1>7. Good(m, r, a, Reset(total), WithVal(a, total, B)) BY <1>2, GoodReset
<1>8. Good(m, r, a, Reset(total) \o OnGpus(s, NGPUS, body), WithVal(Plus(a, Claims(what, W), {}, {}), total, B \union Sum(what, W)))
  BY <1>6, <1>7, GoodThen
<1>9. QED BY <1>2, <1>5, <1>8

\* The JSON function of a socket, without a total of the node ...
LEMMA VoltaSumsAlone ==
  ASSUME NEW m, NEW r, NEW a, NEW s \in 0..(NSOCKETS - 1), "old" \in m.traits, Blank(a)
  PROVE  Good(m, r, a, nvidia_gpu_get_power_json(s, NGPUS, FALSE), Plus(a, Claims("power", Span(s, NGPUS)), {}, {}))
<1>1. \E v, total, what, body : /\ v = Var("gpu_power") /\ total = Var("total_gpu_power") /\ what = "power"
        /\ body = [k \in Span(s, NGPUS) |-> AskAndShow(v, what, k, << >>) \o Add(total, v)]
  OBVIOUS
<1>2. PICK v, total, what, body : /\ v = Var("gpu_power") /\ total = Var("total_gpu_power") /\ what = "power"
        /\ body = [k \in Span(s, NGPUS) |-> AskAndShow(v, what, k, << >>) \o Add(total, v)]
  BY <1>1
<1>3. v # total BY <1>2 DEF Var
<1>4. nvidia_gpu_get_power_json(s, NGPUS, FALSE) = Reset(total) \o OnGpus(s, NGPUS, body) \o << >>
  BY <1>2 DEF nvidia_gpu_get_power_json, EachGpuOf, Each, OnGpus, Span
<1>5. \E b, W : W = Span(s, NGPUS) /\ b = Plus(a, Claims(what, W), {}, {}) OBVIOUS
<1>6. PICK b, W : W = Span(s, NGPUS) /\ b = Plus(a, Claims(what, W), {}, {}) BY <1>5
<1>7. a.mark = "none" /\ DOMAIN a.vals = {} BY DEF Blank
<1>8. \A k \in Span(s, NGPUS) : body[k] = AskAndShow(v, what, k, << >>) \o Add(total, v) BY <1>2
<1>9. Good(m, r, a, Reset(total) \o OnGpus(s, NGPUS, body), WithVal(b, total, Sum(what, W)))
  BY <1>3, <1>6, <1>7, <1>8, VoltaSums
<1>10. total \notin DOMAIN b.vals BY <1>6, <1>7, PlusIs
<1>11. Good(m, r, WithVal(b, total, Sum(what, W)), << >>, b) BY <1>10, Forget, GoodNone
<1>12. Good(m, r, a, Reset(total) \o OnGpus(s, NGPUS, body) \o << >>, b) BY <1>9, <1>11, GoodThen
<1>13. QED BY <1>2, <1>4, <1>6, <1>12

\* ... and with it.
LEMMA VoltaSumsNode ==
  ASSUME NEW m, NEW r, NEW a, NEW s \in 0..(NSOCKETS - 1), NEW S, "old" \in m.traits, Blank(a),
         S \intersect Sum("power", Span(s, NGPUS)) = {}
  PROVE  Good(m, r, WithVal(a, Var("node"), S), nvidia_gpu_get_power_json(s, NGPUS, TRUE),
              WithVal(Plus(a, Claims("power", Span(s, NGPUS)), {}, {}), Var("node"), S \union Sum("power", Span(s, NGPUS))))
<1>1. \E v, total, node, what, body : /\ v = Var("gpu_power") /\ total = Var("total_gpu_power") /\ what = "power"
        /\ node = Var("node") /\ body = [k \in Span(s, NGPUS) |-> AskAndShow(v, what, k, << >>) \o Add(total, v)]
  OBVIOUS
<1>2. PICK v, total, node, what, body : /\ v = Var("gpu_power") /\ total = Var("total_gpu_power") /\ what = "power"
        /\ node = Var("node") /\ body = [k \in Span(s, NGPUS) |-> AskAndShow(v, what, k, << >>) \o Add(total, v)]
  BY <1>1
<1>3. v # total /\ v # node /\ total # node BY <1>2 DEF Var
<1>4. nvidia_gpu_get_power_json(s, NGPUS, TRUE) = Reset(total) \o OnGpus(s, NGPUS, body) \o Add(node, total)
  BY <1>2 DEF nvidia_gpu_get_power_json, EachGpuOf, Each, OnGpus, Span
<1>5. \E b, x, W, U, C : /\ W = Span(s, NGPUS) /\ C = Claims(what, W) /\ b = Plus(a, C, {}, {})
                         /\ x = WithVal(a, node, S) /\ U = Sum(what, W)
  OBVIOUS
<1>6. PICK b, x, W, U, C : /\ W = Span(s, NGPUS) /\ C = Claims(what, W) /\ b = Plus(a, C, {}, {})
                           /\ x = WithVal(a, node, S) /\ U = Sum(what, W)
  BY <1>5
<1>7. a.mark = "none" /\ DOMAIN a.vals = {} BY DEF Blank
<1>8. \A k \in Span(s, NGPUS) : body[k] = AskAndShow(v, what, k, << >>) \o Add(total, v) BY <1>2
<1>9. x.mark = "none" /\ DOMAIN x.vals = DOMAIN a.vals \union {node} BY <1>6, <1>7, ValsAre
<1>10. v \notin DOMAIN x.vals /\ total \notin DOMAIN x.vals BY <1>3, <1>7, <1>9
<1>11. Good(m, r, x, Reset(total) \o OnGpus(s, NGPUS, body), WithVal(Plus(x, C, {}, {}), total, U))
  BY <1>3, <1>6, <1>8, <1>9, <1>10, VoltaSums
<1>12. Plus(x, C, {}, {}) = WithVal(b, node, S) BY <1>6, WithValPlus
<1>13. DOMAIN b.vals = {} BY <1>6, <1>7, PlusIs
<1>14. S \intersect U = {} BY <1>2, <1>6
<1>15. Good(m, r, WithVal(WithVal(b, node, S), total, U), Add(node, total), WithVal(b, node, S \union U))
  BY <1>3, <1>13, <1>14, GoodAddOff
<1>16. Good(m, r, x, Reset(total) \o OnGpus(s, NGPUS, body) \o Add(node, total), WithVal(b, node, S \union U))
  BY <1>11, <1>12, <1>15, GoodThen
<1>17. QED BY <1>2, <1>4, <1>6, <1>16

\* Without GPUs the sum is nothing.
LEMMA VoltaSumsNothing ==
  ASSUME NEW m, NEW r, NEW a, NEW s \in 0..(NSOCKETS - 1), NEW S, DOMAIN a.vals = {}
  PROVE  /\ Good(m, r, WithVal(a, Var("node"), S), nvidia_gpu_get_power_json(s, 0, TRUE), WithVal(a, Var("node"), S))
         /\ Good(m, r, a, nvidia_gpu_get_power_json(s, 0, FALSE), a)
<1>1. \E v, total, node, B, none : /\ v = Var("gpu_power") /\ total = Var("total_gpu_power") /\ node = Var("node") /\ none = {}
        /\ B = [k \in Span(s, 0) |-> AskAndShow(v, "power", k, << >>) \o Add(total, v)]
  OBVIOUS
<1>2. PICK v, total, node, B, none : /\ v = Var("gpu_power") /\ total = Var("total_gpu_power") /\ node = Var("node") /\ none = {}
        /\ B = [k \in Span(s, 0) |-> AskAndShow(v, "power", k, << >>) \o Add(total, v)]
  BY <1>1
<1>3. total # node BY <1>2 DEF Var
<1>4. /\ nvidia_gpu_get_power_json(s, 0, TRUE) = Reset(total) \o OnGpus(s, 0, B) \o Add(node, total)
      /\ nvidia_gpu_get_power_json(s, 0, FALSE) = Reset(total) \o OnGpus(s, 0, B) \o << >>
  BY <1>2 DEF nvidia_gpu_get_power_json, EachGpuOf, Each, OnGpus, Span
<1>5. \E x, y : x = WithVal(a, node, S) /\ y = WithVal(x, total, none) OBVIOUS
<1>6. PICK x, y : x = WithVal(a, node, S) /\ y = WithVal(x, total, none) BY <1>5
<1>7. Good(m, r, x, Reset(total), y) BY <1>2, <1>6, GoodReset
<1>8. Good(m, r, y, OnGpus(s, 0, B), y) BY GoodNoSpan
<1>9. S \intersect none = {} /\ S \union none = S BY <1>2
<1>10. node \notin DOMAIN a.vals /\ total \notin DOMAIN a.vals OBVIOUS
<1>11. Good(m, r, y, Add(node, total), x)
  <2>1. node # total BY <1>3
  <2>2. Good(m, r, WithVal(WithVal(a, node, S), total, none), Add(node, total), WithVal(a, node, S \union none))
    BY ONLY <1>9, <1>10, <2>1, GoodAddOff
  <2>3. QED BY <1>6, <1>9, <2>2
<1>12. Good(m, r, x, Reset(total) \o OnGpus(s, 0, B) \o Add(node, total), x) BY <1>7, <1>8, <1>11, GoodThen
<1>13. Good(m, r, a, Reset(total), a) BY <1>10, SkipReset
<1>14. Good(m, r, a, OnGpus(s, 0, B), a) BY GoodNoSpan
<1>15. Good(m, r, a, << >>, a) BY EntailsSame, GoodNone
<1>16. Good(m, r, a, Reset(total) \o OnGpus(s, 0, B) \o << >>, a) BY <1>13, <1>14, <1>15, GoodThen
<1>17. QED BY <1>2, <1>4, <1>6, <1>12, <1>16

-----------------------------------------------------------------------------
\* The JSON function of Volta where no other platform has put a total.
LEMMA VoltaPowerJson ==
  ASSUME NEW m, "old" \in m.traits
  PROVE  Fine(m, {}, volta_get_power_json(FALSE), {})
<1> DEFINE X(s, n) == nvidia_gpu_get_power_json(s, n, FALSE)
           Q == [n \in {0, NGPUS} |->
                   LoopFrom(0, NSOCKETS - 1, [s \in 0..(NSOCKETS - 1) |-> Function(X(s, n))]) \o << >> \o Return(0)]
           P == [n \in {0, NGPUS} |->
                   LoopFrom(0, NSOCKETS - 1, [s \in 0..(NSOCKETS - 1) |-> Function(X(s, n))]) \o Return(0)]
<1>1. volta_get_power_json(FALSE) = Reporting(initNVML(Q) \o shutdownNVML, Claims("power", GpusInReach))
  <2>1. Claims("power", GpusInReach) \union {} = Claims("power", GpusInReach) OBVIOUS
  <2>2. QED BY <2>1 DEF volta_get_power_json, WithNVML, EachSocket, Each
<1>2. \E what, C, T, g : /\ what = "power" /\ C = [d \in GpusInReach |-> {{<<what, d>>}}] /\ T = [d \in GpusInReach |-> {}]
                         /\ g = Outcome({}, InAll(C), InAll(T), {})
  OBVIOUS
<1>3. PICK what, C, T, g : /\ what = "power" /\ C = [d \in GpusInReach |-> {{<<what, d>>}}] /\ T = [d \in GpusInReach |-> {}]
                           /\ g = Outcome({}, InAll(C), InAll(T), {})
  BY <1>2
<1>4. ASSUME NEW s \in 0..(NSOCKETS - 1) PROVE ChipDone(m, s, X(s, NGPUS), C, T) /\ ChipIdle(m, X(s, 0))
  <2>1. From(C, s) = Claims(what, Span(s, NGPUS)) /\ From(T, s) = {}
    <3>1. Span(s, NGPUS) \subseteq GpusInReach BY SpansOfSockets
    <3>2. \A k \in Span(s, NGPUS) : C[k] = {{<<what, k>>}} BY <1>3, <3>1
    <3>3. UNION {C[k] : k \in Span(s, NGPUS)} = Claims(what, Span(s, NGPUS)) BY ONLY <3>2, ClaimsAre
    <3>4. QED BY <1>3, <3>1, <3>3 DEF From
  <2>2. ASSUME NEW r, NEW y, Blank(y) PROVE Good(m, r, y, X(s, NGPUS), Plus(y, From(C, s), From(T, s), {}))
    <3>1. Good(m, r, y, nvidia_gpu_get_power_json(s, NGPUS, FALSE), Plus(y, Claims("power", Span(s, NGPUS)), {}, {}))
      BY <2>2, VoltaSumsAlone
    <3>2. QED BY <1>3, <2>1, <3>1
  <2>3. ASSUME NEW r, NEW y, DOMAIN y.vals = {} PROVE Good(m, r, y, X(s, 0), y) BY <2>3, VoltaSumsNothing
  <2> HIDE DEF X, P, Q
  <2>4. QED BY <2>2, <2>3 DEF ChipDone, ChipIdle
<1>5. Serves(m, P, C, T)
  <2>1. DOMAIN P = {0, NGPUS} OBVIOUS
  <2>2. ASSUME NEW n \in {0, NGPUS}
        PROVE  \E loop : /\ P[n] = LoopFrom(0, NSOCKETS - 1, loop) \o Return(0)
                         /\ \A s \in 0..(NSOCKETS - 1) : \E F : /\ loop[s] = Function(F)
                                                                /\ n = NGPUS => ChipDone(m, s, F, C, T)
                                                                /\ n = 0 => ChipIdle(m, F)
    <3>1. \E loop : loop = [s \in 0..(NSOCKETS - 1) |-> Function(X(s, n))] OBVIOUS
    <3>2. PICK loop : loop = [s \in 0..(NSOCKETS - 1) |-> Function(X(s, n))] BY <3>1
    <3>3. P[n] = LoopFrom(0, NSOCKETS - 1, loop) \o Return(0) BY <3>2
    <3> HIDE DEF X, P, Q
    <3>4. ASSUME NEW s \in 0..(NSOCKETS - 1)
          PROVE  \E F : loop[s] = Function(F) /\ (n = NGPUS => ChipDone(m, s, F, C, T)) /\ (n = 0 => ChipIdle(m, F))
      <4>1. \E F : F = X(s, n) OBVIOUS
      <4>2. PICK F : F = X(s, n) BY <4>1
      <4>3. loop[s] = Function(F) BY <3>2, <4>2
      <4>4. ASSUME n = NGPUS PROVE ChipDone(m, s, F, C, T)
        <5>1. F = X(s, NGPUS) BY <4>2, <4>4
        <5>2. QED BY <1>4, <5>1
      <4>5. ASSUME n = 0 PROVE ChipIdle(m, F)
        <5>1. F = X(s, 0) BY <4>2, <4>5
        <5>2. QED BY <1>4, <5>1
      <4>6. QED BY <4>3, <4>4, <4>5
    <3>5. QED BY <3>3, <3>4
  <2>3. QED BY <2>1, <2>2 DEF Serves
<1>6. Q = P
  <2>1. ASSUME NEW n PROVE LoopFrom(0, NSOCKETS - 1, [s \in 0..(NSOCKETS - 1) |-> Function(X(s, n))]) \o << >>
                               = LoopFrom(0, NSOCKETS - 1, [s \in 0..(NSOCKETS - 1) |-> Function(X(s, n))])
    <3>1. \E e : e = [do |-> "each", i |-> 0, last |-> NSOCKETS - 1, bodies |-> [s \in 0..(NSOCKETS - 1) |-> Function(X(s, n))]]
      OBVIOUS
    <3>2. PICK e : e = [do |-> "each", i |-> 0, last |-> NSOCKETS - 1, bodies |-> [s \in 0..(NSOCKETS - 1) |-> Function(X(s, n))]]
      BY <3>1
    <3>3. LoopFrom(0, NSOCKETS - 1, [s \in 0..(NSOCKETS - 1) |-> Function(X(s, n))]) = <<e>> BY <3>2 DEF LoopFrom
    <3>4. <<e>> \o << >> = <<e>> OBVIOUS
    <3>5. QED BY <3>3, <3>4
  <2>2. QED BY <2>1
<1> HIDE DEF X, P
<1>7. UNION {C[k] : k \in GpusInReach} = Claims(what, GpusInReach)
  <2>1. \A k \in GpusInReach : C[k] = {{<<what, k>>}} BY <1>3
  <2>2. QED BY ONLY <2>1, ClaimsAre
<1>8. InAll(T) = {} BY <1>3 DEF InAll
<1>9. Good(m, g, Base({}), initNVML(P) \o shutdownNVML, g) BY <1>3, <1>5, <1>8, VoltaFine
<1>10. g = Outcome({}, Claims(what, GpusInReach), {}, {}) BY <1>3, <1>7, <1>8 DEF InAll
<1>11. Fine(m, {}, Reporting(initNVML(P) \o shutdownNVML, Claims(what, GpusInReach)), {}) BY <1>9, <1>10, ReportingFine
<1> HIDE DEF Q
<1>12. QED BY <1>1, <1>3, <1>6, <1>11

-----------------------------------------------------------------------------
\* Features that find the power of the node among their variables.
Noted(m, F) == Good(m, Reached({}, F, {}), WithVal(Base({}), Var("node"), NodePower), F.plan, Reached({}, F, {}))

\* From such a feature to its goal.
LEMMA NotedFeature ==
  ASSUME NEW p, NEW f, NEW F, Features[p][f] = F, <<p, f>> \notin Halves, F.caps = {}, Noted(Mode(p, f), F)
  PROVE  Good(Mode(p, f), Goal(p, f), Start(Mode(p, f)), Features[p][f].plan, Goal(p, f))
<1>1. \E m, a, b, g : m = Mode(p, f) /\ a = Start(m) /\ b = WithVal(Base({}), Var("node"), NodePower) /\ g = Goal(p, f)
  OBVIOUS
<1>2. PICK m, a, b, g : m = Mode(p, f) /\ a = Start(m) /\ b = WithVal(Base({}), Var("node"), NodePower) /\ g = Goal(p, f)
  BY <1>1
<1>3. "halves" \notin m.traits BY <1>2 DEF Mode, Traits
<1>4. g = Reached({}, F, {}) BY <1>2 DEF Goal, Reached, Outcome
<1>5. /\ a.claims = {} /\ a.opened = {} /\ a.taken = {} /\ a.bound = {} /\ a.mark = "none" /\ a.wanted = "share"
      /\ a.vals = [v \in {Var("node")} |-> NodePower]
  BY <1>2, <1>3 DEF Start, Facts
<1>6. /\ b.claims = {} /\ b.opened = {} /\ b.taken = {} /\ b.bound = {} /\ b.mark = "none" /\ b.wanted = "share"
      /\ DOMAIN b.vals = {Var("node")} /\ b.vals[Var("node")] = NodePower
  BY <1>2 DEF Base, Outcome, WithVal, Extend, Facts, NoVals
<1>7. DOMAIN b.vals = DOMAIN a.vals /\ \A v \in DOMAIN b.vals : a.vals[v] = b.vals[v] BY <1>5, <1>6
<1>8. Entails(m, a, b) BY <1>5, <1>6, <1>7 DEF Entails
<1>9. Good(m, g, b, F.plan, g) BY <1>2, <1>4 DEF Noted
<1>10. Good(m, g, a, F.plan, g) BY <1>8, <1>9, EntailsSame, GoodWeaker
<1>11. QED BY <1>2, <1>10

\* The JSON function of Volta that adds to the total of the node.
LEMMA VoltaPowerNode ==
  ASSUME NEW m, "old" \in m.traits
  PROVE  Noted(m, volta_get_power_json(TRUE))
<1> DEFINE X(s, n) == nvidia_gpu_get_power_json(s, n, TRUE)
           loop(n) == [s \in 0..(NSOCKETS - 1) |-> Function(X(s, n))]
           Q == [n \in {0, NGPUS} |->
                   LoopFrom(0, NSOCKETS - 1, loop(n)) \o Show(Sum("power", GpusInReach) \union NodePower, Var("node"))
                     \o Return(0)]
<1>1. volta_get_power_json(TRUE)
        = Reporting(initNVML(Q) \o shutdownNVML,
                    Claims("power", GpusInReach) \union {Sum("power", GpusInReach) \union NodePower})
  BY DEF volta_get_power_json, WithNVML, EachSocket, Each
<1>2. \E what, node, D, total, none, N : /\ what = "power" /\ node = Var("node") /\ D = Claims("power", GpusInReach)
        /\ total = Sum("power", GpusInReach) \union NodePower /\ none = {} /\ N = NodePower
  OBVIOUS
<1>3. PICK what, node, D, total, none, N : /\ what = "power" /\ node = Var("node") /\ D = Claims("power", GpusInReach)
        /\ total = Sum("power", GpusInReach) \union NodePower /\ none = {} /\ N = NodePower
  BY <1>2
<1>4. \E a, o, z, b, c, h, g : /\ a = Base(AllHandles) /\ o = WithVal(a, node, N) /\ z = Refused(o)
                               /\ b = Plus(a, D, none, none) /\ c = WithVal(b, node, total)
                               /\ h = Outcome(AllHandles, D \union {total}, none, none)
                               /\ g = Outcome(none, D \union {total}, none, none)
  OBVIOUS
<1>5. PICK a, o, z, b, c, h, g : /\ a = Base(AllHandles) /\ o = WithVal(a, node, N) /\ z = Refused(o)
                                 /\ b = Plus(a, D, none, none) /\ c = WithVal(b, node, total)
                                 /\ h = Outcome(AllHandles, D \union {total}, none, none)
                                 /\ g = Outcome(none, D \union {total}, none, none)
  BY <1>4
<1>6. Blank(a) /\ Easy(a) /\ a.opened = AllHandles BY <1>5, OutcomeIs DEF Base
<1>7. DOMAIN a.vals = {} /\ a.mark = "none" BY <1>6 DEF Blank
<1>8. N \intersect Sum(what, GpusInReach) = {} BY <1>3 DEF NodePower, Sum
<1>9. ASSUME NEW r PROVE Good(m, r, o, LoopFrom(0, NSOCKETS - 1, loop(NGPUS)), c)
  <2>1. \E L : L = loop(NGPUS) OBVIOUS
  <2>2. PICK L : L = loop(NGPUS) BY <2>1
  <2>3. \A s \in 0..(NSOCKETS - 1) : L[s] = Function(nvidia_gpu_get_power_json(s, NGPUS, TRUE)) BY <2>2
  <2> HIDE DEF Q, loop, X
  <2>4. ASSUME NEW s \in 0..(NSOCKETS - 1), NEW x, NEW S, Alike(x, a), S \intersect Sum(what, Span(s, NGPUS)) = {}
        PROVE  Good(m, r, WithVal(x, node, S), L[s],
                    WithVal(Plus(x, Claims(what, Span(s, NGPUS)), {}, {}), node, S \union Sum(what, Span(s, NGPUS))))
    <3>1. Blank(x) BY <1>6, <2>4 DEF Alike, Blank
    <3>2. \E e : e = WithVal(Plus(x, Claims("power", Span(s, NGPUS)), {}, {}), Var("node"),
                             S \union Sum("power", Span(s, NGPUS)))
      OBVIOUS
    <3>3. PICK e : e = WithVal(Plus(x, Claims("power", Span(s, NGPUS)), {}, {}), Var("node"),
                               S \union Sum("power", Span(s, NGPUS)))
      BY <3>2
    <3>4. S \intersect Sum("power", Span(s, NGPUS)) = {} BY <1>3, <2>4
    <3>5. Good(m, e, WithVal(x, Var("node"), S), nvidia_gpu_get_power_json(s, NGPUS, TRUE), e)
      BY <3>1, <3>3, <3>4, VoltaSumsNode
    <3>6. Good(m, r, WithVal(x, Var("node"), S), Function(nvidia_gpu_get_power_json(s, NGPUS, TRUE)), e)
      BY <3>5, EntailsSame, GoodCall
    <3>7. QED BY <1>3, <2>3, <3>3, <3>6
  <2>5. \A s \in 0..(NSOCKETS - 1) : \A x, S :
          Alike(x, a) /\ S \intersect Sum(what, Span(s, NGPUS)) = {} =>
            Good(m, r, WithVal(x, node, S), L[s],
                 WithVal(Plus(x, Claims(what, Span(s, NGPUS)), {}, {}), node, S \union Sum(what, Span(s, NGPUS))))
    BY <2>4
  <2>6. node \notin DOMAIN a.vals BY <1>7
  <2>7. Good(m, r, WithVal(a, node, N), LoopFrom(0, NSOCKETS - 1, L),
             WithVal(Plus(a, Claims(what, GpusInReach), {}, {}), node, N \union Sum(what, GpusInReach)))
    BY ONLY <1>8, <2>5, <2>6, SocketTotals
  <2>8. N \union Sum(what, GpusInReach) = total BY <1>3
  <2>9. QED BY <1>3, <1>5, <2>2, <2>7, <2>8
<1>10. ASSUME NEW r PROVE Good(m, r, z, LoopFrom(0, NSOCKETS - 1, loop(0)), c)
  <2>1. \E L, x : L = loop(0) /\ x = Refused(a) OBVIOUS
  <2>2. PICK L, x : L = loop(0) /\ x = Refused(a) BY <2>1
  <2>3. \A s \in 0..(NSOCKETS - 1) : L[s] = Function(nvidia_gpu_get_power_json(s, 0, TRUE)) BY <2>2
  <2> HIDE DEF Q, loop, X
  <2>4. z = WithVal(x, node, N) BY <1>5, <2>2 DEF WithVal, Refused, Facts
  <2>5. DOMAIN x.vals = {} BY <1>7, <2>2 DEF Refused, Facts
  <2>6. \E F : F = [s \in 0..(NSOCKETS - 1) |-> nvidia_gpu_get_power_json(s, 0, TRUE)] OBVIOUS
  <2>7. PICK F : F = [s \in 0..(NSOCKETS - 1) |-> nvidia_gpu_get_power_json(s, 0, TRUE)] BY <2>6
  <2>8. \A s \in 0..(NSOCKETS - 1) : L[s] = Function(F[s]) BY <2>3, <2>7
  <2>9. ASSUME NEW s \in 0..(NSOCKETS - 1), NEW e PROVE Good(m, e, z, F[s], z)
    <3>1. Good(m, e, WithVal(x, Var("node"), N), nvidia_gpu_get_power_json(s, 0, TRUE), WithVal(x, Var("node"), N))
      BY <2>5, VoltaSumsNothing
    <3>2. QED BY <1>3, <2>4, <2>7, <3>1
  <2>10. \A s \in 0..(NSOCKETS - 1) : \A e : Good(m, e, z, F[s], z) BY <2>9
  <2>11. Good(m, r, z, LoopFrom(0, NSOCKETS - 1, L), z) BY ONLY <2>8, <2>10, GoodNoChips
  <2>12. Entails(m, z, c)
    <3>1. /\ o.opened = a.opened /\ o.taken = a.taken /\ o.bound = a.bound /\ o.wanted = a.wanted /\ o.mark = "none"
      BY <1>5, <1>7 DEF WithVal, Facts
    <3>2. /\ z.mark = "refused" /\ z.opened = o.opened /\ z.taken = o.taken /\ z.bound = o.bound /\ z.wanted = o.wanted
      BY <1>5, <3>1 DEF Refused, Facts
    <3>3. a.taken \union none = a.taken /\ a.bound \union none = a.bound BY <1>3
    <3>4. /\ b.opened = a.opened /\ b.taken = a.taken /\ b.bound = a.bound /\ b.wanted = a.wanted /\ b.mark = a.mark
      BY <1>5, <3>3 DEF Plus, Facts
    <3>5. /\ c.opened = a.opened /\ c.taken = a.taken /\ c.bound = a.bound /\ c.wanted = a.wanted /\ c.mark = "none"
      BY <1>5, <1>7, <3>4 DEF WithVal, Facts
    <3>6. QED BY <3>1, <3>2, <3>5 DEF Entails, Exact
  <2>13. QED BY <2>2, <2>11, <2>12, EntailsSame, GoodWeaker
<1>11. ASSUME NEW r PROVE Good(m, r, c, Show(total, node), h)
  <2>1. node \notin DOMAIN b.vals BY <1>5, <1>7, PlusIs
  <2>2. Good(m, r, WithVal(b, node, total), Show(total, node), Plus(b, {total}, {}, {})) BY <2>1, GoodGivenOut
  <2>3. Plus(b, {total}, {}, {}) = h
    <3>1. none \union {} = none BY <1>3
    <3>2. \E t, e : t = {total} /\ e = {} OBVIOUS
    <3>3. PICK t, e : t = {total} /\ e = {} BY <3>2
    <3>4. Plus(Plus(a, D, none, none), t, e, e) = Plus(a, D \union t, none \union e, none \union e) BY ONLY PlusPlus
    <3>5. Plus(b, t, e, e) = Plus(a, D \union {total}, none, none) BY <1>5, <3>1, <3>3, <3>4
    <3>6. Plus(Base(AllHandles), D \union {total}, none, none) = Outcome(AllHandles, D \union {total}, none, none)
      BY OutcomeIs
    <3>7. QED BY <1>5, <3>3, <3>5, <3>6
  <2>4. QED BY <1>5, <2>2, <2>3
<1>12. Q[NGPUS] = LoopFrom(0, NSOCKETS - 1, loop(NGPUS)) \o Show(total, node) \o Return(0)
       /\ Q[0] = LoopFrom(0, NSOCKETS - 1, loop(0)) \o Show(total, node) \o Return(0)
       /\ DOMAIN Q = {0, NGPUS}
  BY <1>3
<1> HIDE DEF Q, loop, X
<1>13. Good(m, g, o, Function(Q[NGPUS]), h)
  <2>1. Good(m, h, o, LoopFrom(0, NSOCKETS - 1, loop(NGPUS)) \o Show(total, node), h) BY <1>9, <1>11, GoodThen
  <2>2. Good(m, h, o, Q[NGPUS], h) BY <1>12, <2>1, GoodEnd
  <2>3. QED BY <2>2, EntailsSame, GoodCall
<1>14. Good(m, g, z, Function(Q[0]), h)
  <2>1. Good(m, h, z, LoopFrom(0, NSOCKETS - 1, loop(0)) \o Show(total, node), h) BY <1>10, <1>11, GoodThen
  <2>2. Good(m, h, z, Q[0], h) BY <1>12, <2>1, GoodEnd
  <2>3. QED BY <2>2, EntailsSame, GoodCall
<1>15. \E P : P = Q OBVIOUS
<1>16. PICK P : P = Q BY <1>15
<1>17. o.mark = "none" /\ o.opened = AllHandles BY <1>5, <1>6, <1>7 DEF WithVal, Facts
<1>18. Good(m, g, o, initNVML(P), h) BY <1>5, <1>12, <1>13, <1>14, <1>16, <1>17, GoodInitNVML
<1>19. Entails(m, WithVal(Base({}), node, N), o)
  <2>1. \E y : y = WithVal(Base({}), node, N) OBVIOUS
  <2>2. PICK y : y = WithVal(Base({}), node, N) BY <2>1
  <2>3. /\ y.vals = o.vals /\ y.claims = o.claims /\ y.taken = o.taken /\ y.bound = o.bound /\ y.mark = o.mark
        /\ y.wanted = o.wanted /\ y.opened = {}
    BY <1>5, <2>2 DEF Base, Outcome, WithVal, Facts
  <2>4. Entails(m, y, o) BY <2>3 DEF Entails
  <2>5. QED BY <2>2, <2>4
<1>20. Good(m, g, WithVal(Base({}), node, N), initNVML(P), h) BY <1>18, <1>19, EntailsSame, GoodWeaker
<1>21. Good(m, g, h, Close(AllHandles), g)
  <2>1. Entails(m, Closed(h, AllHandles), g) BY <1>3, <1>5, AllClosed
  <2>2. QED BY <2>1, GoodClose
<1>22. shutdownNVML = Close(AllHandles) BY DEF shutdownNVML, AllHandles
<1>23. Good(m, g, WithVal(Base({}), node, N), initNVML(P) \o shutdownNVML, g) BY <1>20, <1>21, <1>22, GoodThen
<1>24. \E F : F = Reporting(initNVML(P) \o shutdownNVML, D \union {total}) OBVIOUS
<1>25. PICK F : F = Reporting(initNVML(P) \o shutdownNVML, D \union {total}) BY <1>24
<1>26. F.plan = initNVML(P) \o shutdownNVML /\ Reached({}, F, {}) = g BY <1>3, <1>5, <1>25 DEF Reporting, Reached
<1>27. Noted(m, F) BY <1>3, <1>23, <1>26 DEF Noted
<1>28. volta_get_power_json(TRUE) = F BY <1>1, <1>3, <1>16, <1>25
<1>29. QED BY <1>27, <1>28

-----------------------------------------------------------------------------
\* The features of the platform volta.
LEMMA VoltaNames ==
  /\ Features["volta"] = VoltaFeatures
  /\ DOMAIN VoltaFeatures =
       {"get_power", "get_thermals", "get_thermals_json", "get_clocks", "get_clocks_json",
        "get_power_limits", "get_gpu_utilization", "get_gpu_utilization_json",
        "cap_each_gpu_power_limit", "get_power_json", "get_power_json_node"}
  /\ VoltaFeatures["get_power"] = volta_get_power
  /\ VoltaFeatures["get_thermals"] = volta_get_thermals
  /\ VoltaFeatures["get_thermals_json"] = volta_get_thermals_json
  /\ VoltaFeatures["get_clocks"] = volta_get_clocks
  /\ VoltaFeatures["get_clocks_json"] = volta_get_clocks_json
  /\ VoltaFeatures["get_power_limits"] = volta_get_power_limits
  /\ VoltaFeatures["get_gpu_utilization"] = volta_get_gpu_utilization
  /\ VoltaFeatures["get_gpu_utilization_json"] = volta_get_gpu_utilization_json
  /\ VoltaFeatures["cap_each_gpu_power_limit"] = volta_cap_each_gpu_power_limit
  /\ VoltaFeatures["get_power_json"] = volta_get_power_json(FALSE)
  /\ VoltaFeatures["get_power_json_node"] = volta_get_power_json(TRUE)
<1>1. Features["volta"] = VoltaFeatures BY DEF Features
<1>2. QED BY <1>1 DEF VoltaFeatures

\* The devices its caps are for.
LEMMA VoltaDevices ==
  ASSUME NEW f
  PROVE  {<<"gpu", d>> : d \in GpusInReach} \subseteq Mode("volta", f).devs
<1>1. \E p, h : p = "volta" /\ h = "cap_each_gpu_power_limit" OBVIOUS
<1>2. PICK p, h : p = "volta" /\ h = "cap_each_gpu_power_limit" BY <1>1
<1>3. h \in DOMAIN Features[p] BY <1>2, VoltaNames
<1>4. Features[p][h].caps = {<<"gpu", d>> : d \in GpusInReach}
  <2>1. Features[p][h] = volta_cap_each_gpu_power_limit BY <1>2, VoltaNames
  <2>2. volta_cap_each_gpu_power_limit.caps = {<<"gpu", d>> : d \in GpusInReach} BY CappingIs DEF volta_cap_each_gpu_power_limit
  <2>3. QED BY <2>1, <2>2
<1>5. \E S : S = Features[p][h].caps OBVIOUS
<1>6. PICK S : S = Features[p][h].caps BY <1>5
<1>7. S \subseteq Mode(p, f).devs BY <1>3, <1>6, CappedDevices
<1>8. QED BY <1>2, <1>4, <1>6, <1>7

\* Each feature of NVIDIA Volta is good.
LEMMA VoltaGood ==
  ASSUME NEW f \in DOMAIN Features["volta"]
  PROVE  Good(Mode("volta", f), Goal("volta", f), Start(Mode("volta", f)), Features["volta"][f].plan, Goal("volta", f))
<1> DEFINE p == "volta"
           m == Mode(p, f)
           F == Features[p][f]
<1>1. F = VoltaFeatures[f] /\ f \in DOMAIN VoltaFeatures BY VoltaNames
<1>2. <<p, f>> \notin Halves /\ <<p, f>> \notin CapsNode BY DEF Halves, CapsNode
<1>3. f \in {"cap_each_gpu_power_limit"} => <<p, f>> \in CapBlindly BY DEF CapBlindly, FeaturesOf
<1>4. f \in {"cap_each_gpu_power_limit"} => "blind" \in m.traits BY <1>3, TraitsOf
<1>5. <<p, f>> \in KeepOldValues BY DEF KeepOldValues, FeaturesOf
<1>6. "old" \in m.traits BY <1>5, TraitsOf
<1>7. {<<"gpu", d>> : d \in GpusInReach} \subseteq m.devs BY VoltaDevices
<1> HIDE DEF m, F
<1>8. ASSUME f \notin {"get_power_json_node"} PROVE Fine(m, {}, F, {})
  <2>1. CASE f = "get_power"
    <3>1. F = volta_get_power BY <2>1, <1>1, VoltaNames
    <3>2. Fine(m, {}, volta_get_power, {}) BY <2>1, <1>6, VoltaPower
    <3>3. QED BY <3>1, <3>2
  <2>2. CASE f = "get_thermals"
    <3>1. F = volta_get_thermals BY <2>2, <1>1, VoltaNames
    <3>2. Fine(m, {}, volta_get_thermals, {}) BY <2>2, <1>6, VoltaThermals
    <3>3. QED BY <3>1, <3>2
  <2>3. CASE f = "get_thermals_json"
    <3>1. F = volta_get_thermals_json BY <2>3, <1>1, VoltaNames
    <3>2. Fine(m, {}, volta_get_thermals_json, {}) BY <2>3, <1>6, VoltaThermalsJson
    <3>3. QED BY <3>1, <3>2
  <2>4. CASE f = "get_clocks"
    <3>1. F = volta_get_clocks BY <2>4, <1>1, VoltaNames
    <3>2. Fine(m, {}, volta_get_clocks, {}) BY <2>4, <1>6, VoltaClocks
    <3>3. QED BY <3>1, <3>2
  <2>5. CASE f = "get_clocks_json"
    <3>1. F = volta_get_clocks_json BY <2>5, <1>1, VoltaNames
    <3>2. Fine(m, {}, volta_get_clocks_json, {}) BY <2>5, <1>6, VoltaClocksJson
    <3>3. QED BY <3>1, <3>2
  <2>6. CASE f = "get_power_limits"
    <3>1. F = volta_get_power_limits BY <2>6, <1>1, VoltaNames
    <3>2. Fine(m, {}, volta_get_power_limits, {}) BY <2>6, <1>6, VoltaPowerLimits
    <3>3. QED BY <3>1, <3>2
  <2>7. CASE f = "get_gpu_utilization"
    <3>1. F = volta_get_gpu_utilization BY <2>7, <1>1, VoltaNames
    <3>2. Fine(m, {}, volta_get_gpu_utilization, {}) BY <2>7, <1>6, VoltaUtilization
    <3>3. QED BY <3>1, <3>2
  <2>8. CASE f = "get_gpu_utilization_json"
    <3>1. F = volta_get_gpu_utilization_json BY <2>8, <1>1, VoltaNames
    <3>2. Fine(m, {}, volta_get_gpu_utilization_json, {}) BY <2>8, <1>6, VoltaUtilizationJson
    <3>3. QED BY <3>1, <3>2
  <2>9. CASE f = "cap_each_gpu_power_limit"
    <3>1. F = volta_cap_each_gpu_power_limit BY <2>9, <1>1, VoltaNames
    <3>2. Fine(m, {}, volta_cap_each_gpu_power_limit, {}) BY <2>9, <1>4, <1>6, <1>7, VoltaCap
    <3>3. QED BY <3>1, <3>2
  <2>10. CASE f = "get_power_json"
    <3>1. F = volta_get_power_json(FALSE) BY <2>10, <1>1, VoltaNames
    <3>2. Fine(m, {}, volta_get_power_json(FALSE), {}) BY <2>10, <1>6, VoltaPowerJson
    <3>3. QED BY <3>1, <3>2
  <2>11. QED BY <1>1, <1>8,  VoltaNames, <2>1, <2>2, <2>3, <2>4, <2>5, <2>6, <2>7, <2>8, <2>9, <2>10
<1>9. ASSUME f = "get_power_json_node" PROVE Noted(m, F) /\ F.caps = {}
  <2>1. F = volta_get_power_json(TRUE) BY <1>9, <1>1, VoltaNames
  <2>2. Noted(m, volta_get_power_json(TRUE)) BY <1>9, <1>6, VoltaPowerNode
  <2>3. volta_get_power_json(TRUE).caps = {} BY ReportingIs DEF volta_get_power_json
  <2>4. QED BY <2>1, <2>2, <2>3
<1> HIDE DEF p
<1>10. CASE f \notin {"get_power_json_node"} BY <1>2, <1>8, <1>10, FineFeature DEF m, p, F
<1>11. CASE f \in {"get_power_json_node"}
  <2>1. f = "get_power_json_node" BY <1>11
  <2>2. Noted(m, F) /\ F.caps = {} BY <2>1, <1>9
  <2>3. QED BY <1>2, <2>2, NotedFeature DEF m, p, F
<1>12. QED BY <1>10, <1>11

-----------------------------------------------------------------------------
\* AMD Instinct.

\* No variable is known, and if something went wrong there was a message.
Bare(y) == DOMAIN y.vals = {} /\ y.wanted = "share" /\ y.mark \in {"none", "complained"}

\* What is done with a GPU, also with one that is not there, once there was a message.
Suits(m, body, C, T) ==
  \A d \in Int : \A r, y : Bare(y) /\ (d \in GpusInReach \/ y.mark = "complained") =>
    Good(m, r, y, body[d], Plus(y, C[d], T[d], {}))

\* The function of a socket.
OnChip(s, fails, body) ==
  Open(rsmi, << >>, fails)
    \o Count([n \in AnyCount |-> OnGpus(s, n, [k \in Span(s, n) |-> body[k]])], rsmi, AnyCount, Complain)
    \o Shutdown(rsmi, Complain)

\* After a message such facts stand, whatever is added.
LEMMA SpentStands ==
  ASSUME NEW m, NEW x, NEW C, NEW T, NEW H, x.mark = "complained", DOMAIN x.vals = {}
  PROVE  Entails(m, Plus(x, C, T, H), x)
<1>1. \E b : b = Plus(x, C, T, H) OBVIOUS
<1>2. PICK b : b = Plus(x, C, T, H) BY <1>1
<1>3. b.mark = "complained" /\ b.vals = x.vals BY <1>2 DEF Plus, Facts
<1>4. Entails(m, b, x) BY <1>3 DEF Entails, Exact, Tidy, Caps
<1>5. QED BY <1>2, <1>4

\* After a message, any number of GPUs may be gone through.
LEMMA SpentSpan ==
  ASSUME NEW m, NEW r, NEW x, NEW s \in 0..(NSOCKETS - 1), NEW n \in AnyCount, NEW body, NEW C, NEW T,
         Suits(m, body, C, T), Bare(x), x.mark = "complained"
  PROVE  Good(m, r, x, OnGpus(s, n, [k \in Span(s, n) |-> body[k]]), x)
<1>1. \E g, u, w, B : /\ g = GpusPerSocket(n) /\ u = s * g /\ w = (s + 1) * g - 1
                      /\ B = [k \in Span(s, n) |-> body[k]]
  OBVIOUS
<1>2. PICK g, u, w, B : /\ g = GpusPerSocket(n) /\ u = s * g /\ w = (s + 1) * g - 1
                        /\ B = [k \in Span(s, n) |-> body[k]]
  BY <1>1
<1>3. NSOCKETS \in Nat \ {0} /\ NGPUS \in Nat \ {0} BY NumbersOfDevices
<1>4. n \in Nat BY <1>3 DEF AnyCount
<1>5. g \in Nat BY <1>2, <1>3, <1>4 DEF GpusPerSocket
<1>6. u \in Int /\ w \in Int /\ u <= w + 1
  <2>1. \A t \in 0..(NSOCKETS - 1) : t * g \in Int /\ (t + 1) * g - 1 \in Int /\ t * g <= ((t + 1) * g - 1) + 1
    BY ONLY <1>3, <1>5, SocketsCover
  <2>2. QED BY <1>2, <2>1
<1>7. ASSUME NEW k \in u..w PROVE Good(m, r, x, B[k], x)
  <2>1. k \in Span(s, n) /\ k \in Int BY <1>2, <1>6 DEF Span
  <2>2. B[k] = body[k] BY <1>2, <2>1
  <2>3. Good(m, r, x, body[k], Plus(x, C[k], T[k], {})) BY <2>1 DEF Suits
  <2>4. Entails(m, Plus(x, C[k], T[k], {}), x) BY SpentStands DEF Bare
  <2>5. QED BY <2>2, <2>3, <2>4, EntailsSame, GoodWeaker
<1>8. Good(m, r, x, LoopFrom(u, w, B), x) BY ONLY <1>6, <1>7, GoodSteady
<1>9. QED BY <1>2, <1>8 DEF OnGpus

\* Nothing happens behind a message and the end of the process.
LEMMA GoodExit ==
  ASSUME NEW m, NEW r, NEW a, NEW b
  PROVE  Good(m, r, a, Exit, b)
<1>1. \E c : c = Complained(a) OBVIOUS
<1>2. PICK c : c = Complained(a) BY <1>1
<1>3. Good(m, r, a, Complain, c) BY <1>2, EntailsSame, GoodComplain
<1>4. Good(m, r, c, Crash, b) BY GoodCrash
<1>5. QED BY <1>3, <1>4, GoodThen DEF Exit, Crash

\* The function of a socket does what is to be done with its GPUs.
LEMMA ChipServed ==
  ASSUME NEW m, NEW s \in 0..(NSOCKETS - 1), NEW fails \in {Exit, Complain}, NEW body, NEW C, NEW T, Suits(m, body, C, T)
  PROVE  ChipDone(m, s, OnChip(s, fails, body), C, T)
<1>1. ASSUME NEW r, NEW y, Blank(y) PROVE Good(m, r, y, OnChip(s, fails, body), Plus(y, From(C, s), From(T, s), {}))
  <2>1. \E P, z, b, c, B : /\ P = [n \in AnyCount |-> OnGpus(s, n, [k \in Span(s, n) |-> body[k]])]
                           /\ z = Opened(y, rsmi) /\ b = Plus(y, From(C, s), From(T, s), {})
                           /\ c = Plus(z, From(C, s), From(T, s), {})
                           /\ B = [k \in Span(s, NGPUS) |-> body[k]]
    OBVIOUS
  <2>2. PICK P, z, b, c, B : /\ P = [n \in AnyCount |-> OnGpus(s, n, [k \in Span(s, n) |-> body[k]])]
                             /\ z = Opened(y, rsmi) /\ b = Plus(y, From(C, s), From(T, s), {})
                             /\ c = Plus(z, From(C, s), From(T, s), {})
                             /\ B = [k \in Span(s, NGPUS) |-> body[k]]
    BY <2>1
  <2>3. /\ z.vals = y.vals /\ z.claims = y.claims /\ z.taken = y.taken /\ z.bound = y.bound /\ z.wanted = y.wanted
        /\ z.mark = y.mark /\ z.opened = y.opened \union {rsmi}
    BY <2>2 DEF Opened, Facts
  <2>4. Blank(z) BY <1>1, <2>3 DEF Blank
  <2>5. Easy(b) /\ Easy(c) /\ Easy(z) BY <1>1, <2>2, <2>4, PlusEasy
  <2>6. Good(m, r, y, Open(rsmi, << >>, fails), z)
    <3>1. Good(m, r, Opened(y, rsmi), << >>, z) BY <2>2, EntailsSame, GoodNone
    <3>2. Good(m, r, Refused(y), fails, z)
      <4>1. CASE fails = Exit BY <4>1, GoodExit
      <4>2. CASE fails = Complain BY <4>2, <2>5, GoodMessage
      <4>3. QED BY <4>1, <4>2
    <3>3. QED BY <3>1, <3>2, GoodOpen
  <2>7. P[NGPUS] = OnGpus(s, NGPUS, B) BY <2>2 DEF AnyCount
  <2>8. Good(m, r, z, P[NGPUS], c)
    <3>1. ASSUME NEW d \in Span(s, NGPUS), NEW e, NEW x, Blank(x) PROVE Good(m, e, x, B[d], Plus(x, C[d], T[d], {}))
      <4>1. d \in GpusInReach BY SpansOfSockets
      <4>2. d \in Int BY <4>1 DEF GpusInReach
      <4>3. Bare(x) BY <3>1 DEF Blank, Bare
      <4>4. Good(m, e, x, body[d], Plus(x, C[d], T[d], {})) BY <4>1, <4>2, <4>3 DEF Suits
      <4>5. QED BY <2>2, <4>4
    <3>2. ChipDone(m, s, OnGpus(s, NGPUS, B), C, T) BY <3>1, SpanDone
    <3>3. \E F : F = P[NGPUS] OBVIOUS
    <3>4. PICK F : F = P[NGPUS] BY <3>3
    <3>5. ChipDone(m, s, F, C, T) BY <2>7, <3>2, <3>4
    <3>6. Good(m, r, z, F, Plus(z, From(C, s), From(T, s), {})) BY <2>4, <3>5 DEF ChipDone
    <3>7. QED BY <2>2, <3>4, <3>6
  <2>9. ASSUME NEW n \in AnyCount PROVE Good(m, r, Refused(z), Complain \o P[n], c)
    <3>1. \E x : x = Complained(Refused(z)) OBVIOUS
    <3>2. PICK x : x = Complained(Refused(z)) BY <3>1
    <3>3. x.mark = "complained" /\ x.vals = z.vals /\ x.wanted = z.wanted BY <3>2 DEF Complained, Refused, Facts
    <3>4. Bare(x) BY <2>4, <3>3 DEF Bare, Blank
    <3>5. Good(m, r, Refused(z), Complain, x) BY <3>2, EntailsSame, GoodComplain
    <3>6. P[n] = OnGpus(s, n, [k \in Span(s, n) |-> body[k]]) BY <2>2
    <3>7. Good(m, r, x, P[n], x) BY <3>3, <3>4, <3>6, SpentSpan
    <3>8. Entails(m, x, c) BY <2>5, <3>3, Lost
    <3>9. Good(m, r, x, P[n], c) BY <3>7, <3>8, EntailsSame, GoodWeaker
    <3>10. QED BY <3>5, <3>9, GoodThen
  <2>10. Good(m, r, z, Count(P, rsmi, AnyCount, Complain), c)
    <3>1. \E S : S = AnyCount OBVIOUS
    <3>2. PICK S : S = AnyCount BY <3>1
    <3>3. S = {} => Good(m, r, Refused(z), Complain, c) BY <3>2 DEF AnyCount
    <3>4. \A n \in S : Good(m, r, Refused(z), Complain \o P[n], c) BY <2>9, <3>2
    <3>5. Good(m, r, z, Count(P, rsmi, S, Complain), c) BY ONLY <2>8, <3>3, <3>4, GoodCount
    <3>6. QED BY <3>2, <3>5
  <2>11. Good(m, r, c, Shutdown(rsmi, Complain), b)
    <3>1. \E w : w = Closed(c, {rsmi}) OBVIOUS
    <3>2. PICK w : w = Closed(c, {rsmi}) BY <3>1
    <3>3. /\ c.vals = z.vals /\ c.claims = z.claims \union From(C, s) /\ c.taken = z.taken \union From(T, s)
          /\ c.bound = z.bound \union {} /\ c.wanted = z.wanted /\ c.mark = z.mark /\ c.opened = z.opened
      BY <2>2 DEF Plus, Facts
    <3>4. /\ b.vals = y.vals /\ b.claims = y.claims \union From(C, s) /\ b.taken = y.taken \union From(T, s)
          /\ b.bound = y.bound \union {} /\ b.wanted = y.wanted /\ b.mark = y.mark /\ b.opened = y.opened
      BY <2>2 DEF Plus, Facts
    <3>5. /\ w.vals = c.vals /\ w.claims = c.claims /\ w.taken = c.taken /\ w.bound = c.bound /\ w.wanted = c.wanted
          /\ w.mark = c.mark /\ w.opened = c.opened \ {rsmi}
      BY <3>2 DEF Closed, Facts
    <3>6. /\ w.vals = b.vals /\ w.claims = b.claims /\ w.taken = b.taken /\ w.bound = b.bound /\ w.wanted = b.wanted
          /\ w.mark = b.mark
      BY <2>3, <3>3, <3>4, <3>5
    <3>7. w.opened \subseteq b.opened BY <2>3, <3>3, <3>4, <3>5
    <3>8. Entails(m, w, b) BY <3>6, <3>7 DEF Entails
    <3>9. Good(m, r, Refused(c), Complain, b) BY <2>5, GoodMessage
    <3>10. QED BY <3>2, <3>8, <3>9, GoodShutdown
  <2>12. Good(m, r, y, Open(rsmi, << >>, fails) \o Count(P, rsmi, AnyCount, Complain), c) BY <2>6, <2>10, GoodThen
  <2>13. Good(m, r, y, Open(rsmi, << >>, fails) \o Count(P, rsmi, AnyCount, Complain) \o Shutdown(rsmi, Complain), b)
    BY <2>11, <2>12, GoodThen
  <2>14. OnChip(s, fails, body) = Open(rsmi, << >>, fails) \o Count(P, rsmi, AnyCount, Complain) \o Shutdown(rsmi, Complain)
    BY <2>2 DEF OnChip
  <2>15. QED BY <2>2, <2>13, <2>14
<1>2. \E F : F = OnChip(s, fails, body) OBVIOUS
<1>3. PICK F : F = OnChip(s, fails, body) BY <1>2
<1>4. ChipDone(m, s, F, C, T) BY <1>1, <1>3 DEF ChipDone
<1>5. QED BY <1>3, <1>4

\* One socket after the other.
LEMMA InstinctFine ==
  ASSUME NEW m, NEW fails \in {Exit, Complain}, NEW body, NEW C, NEW T, NEW g, Suits(m, body, C, T),
         g = Outcome({}, InAll(C), InAll(T), {})
  PROVE  Good(m, g, Base({}),
              LoopFrom(0, NSOCKETS - 1, [s \in 0..(NSOCKETS - 1) |-> Function(OnChip(s, fails, body))]) \o Return(0), g)
<1>1. \E F, loop, H, o : /\ F = [s \in 0..(NSOCKETS - 1) |-> OnChip(s, fails, body)] /\ o = Base({})
                         /\ loop = [s \in 0..(NSOCKETS - 1) |-> Function(OnChip(s, fails, body))]
                         /\ H = [d \in GpusInReach |-> {}]
  OBVIOUS
<1>2. PICK F, loop, H, o : /\ F = [s \in 0..(NSOCKETS - 1) |-> OnChip(s, fails, body)] /\ o = Base({})
                           /\ loop = [s \in 0..(NSOCKETS - 1) |-> Function(OnChip(s, fails, body))]
                           /\ H = [d \in GpusInReach |-> {}]
  BY <1>1
<1>3. \A s \in 0..(NSOCKETS - 1) : loop[s] = Function(F[s]) BY <1>2
<1>4. \A s \in 0..(NSOCKETS - 1) : From(H, s) = {}
  <2>1. \A s \in 0..(NSOCKETS - 1) : Span(s, NGPUS) \subseteq GpusInReach BY SpansOfSockets
  <2>2. QED BY <1>2, <2>1 DEF From
<1>5. Blank(o) BY <1>2, OutcomeIs DEF Base
<1>6. ASSUME NEW s \in 0..(NSOCKETS - 1), NEW c, NEW y, Alike(y, o)
      PROVE  Good(m, c, y, F[s], Plus(y, From(C, s), From(T, s), From(H, s)))
  <2>1. Blank(y) BY <1>5, <1>6 DEF Alike, Blank
  <2>2. \E f : f = F[s] OBVIOUS
  <2>3. PICK f : f = F[s] BY <2>2
  <2>4. f = OnChip(s, fails, body) BY <1>2, <2>3
  <2>5. ChipDone(m, s, f, C, T) BY <2>4, ChipServed
  <2>6. Good(m, c, y, f, Plus(y, From(C, s), From(T, s), {})) BY <2>1, <2>5 DEF ChipDone
  <2>7. QED BY <1>4, <2>3, <2>6
<1>7. \A s \in 0..(NSOCKETS - 1) : \A c, y : Alike(y, o) =>
        Good(m, c, y, F[s], Plus(y, From(C, s), From(T, s), From(H, s)))
  BY <1>6
<1>8. Good(m, g, o, LoopFrom(0, NSOCKETS - 1, loop), Plus(o, InAll(C), InAll(T), InAll(H))) BY ONLY <1>3, <1>7, GoodChips
<1>9. InAll(H) = {} BY <1>2 DEF InAll
<1>10. Plus(o, InAll(C), InAll(T), {}) = g BY <1>2, OutcomeIs
<1>11. Good(m, g, o, LoopFrom(0, NSOCKETS - 1, loop), g) BY <1>8, <1>9, <1>10
<1>12. Good(m, g, o, LoopFrom(0, NSOCKETS - 1, loop) \o Return(0), g) BY <1>11, GoodEnd
<1>13. QED BY <1>2, <1>12

-----------------------------------------------------------------------------
\* The sockets, one after the other.
OnChips(fails, body) ==
  LoopFrom(0, NSOCKETS - 1, [s \in 0..(NSOCKETS - 1) |-> Function(OnChip(s, fails, body))]) \o Return(0)

\* A feature that gives out one reading of each GPU.
LEMMA InstinctReports ==
  ASSUME NEW m, NEW fails \in {Exit, Complain}, NEW body, NEW what,
         \A d \in Int : \A r, y : Bare(y) => Good(m, r, y, body[d], Plus(y, {{<<what, d>>}}, {}, {}))
  PROVE  Fine(m, {}, Reporting(OnChips(fails, body), Claims(what, GpusInReach)), {})
<1>1. \E C, T, g : /\ C = [d \in Int |-> {{<<what, d>>}}] /\ T = [d \in Int |-> {}]
                   /\ g = Outcome({}, InAll(C), InAll(T), {})
  OBVIOUS
<1>2. PICK C, T, g : /\ C = [d \in Int |-> {{<<what, d>>}}] /\ T = [d \in Int |-> {}]
                     /\ g = Outcome({}, InAll(C), InAll(T), {})
  BY <1>1
<1>3. Suits(m, body, C, T)
  <2>1. ASSUME NEW d \in Int, NEW r, NEW y, Bare(y) PROVE Good(m, r, y, body[d], Plus(y, C[d], T[d], {}))
    <3>1. C[d] = {{<<what, d>>}} /\ T[d] = {} BY <1>2
    <3>2. QED BY <2>1, <3>1
  <2>2. QED BY <2>1 DEF Suits
<1>4. GpusInReach \subseteq Int BY DEF GpusInReach
<1>5. \A k \in GpusInReach : C[k] = {{<<what, k>>}} /\ T[k] = {} BY <1>2, <1>4
<1>6. UNION {C[k] : k \in GpusInReach} = Claims(what, GpusInReach) BY ONLY <1>5, ClaimsAre
<1>7. InAll(T) = {} BY <1>5 DEF InAll
<1>8. g = Outcome({}, Claims(what, GpusInReach), {}, {}) BY <1>2, <1>6, <1>7 DEF InAll
<1>9. Good(m, g, Base({}), OnChips(fails, body), g) BY <1>2, <1>3, InstinctFine DEF OnChips
<1>10. QED BY <1>8, <1>9, ReportingFine

\* And one that gives out two.
LEMMA InstinctReportsTwo ==
  ASSUME NEW m, NEW fails \in {Exit, Complain}, NEW body, NEW one, NEW other,
         \A d \in Int : \A r, y : Bare(y) => Good(m, r, y, body[d], Plus(y, {{<<one, d>>}, {<<other, d>>}}, {}, {}))
  PROVE  Fine(m, {}, Reporting(OnChips(fails, body), Claims(one, GpusInReach) \union Claims(other, GpusInReach)), {})
<1>1. \E C, T, g : /\ C = [d \in Int |-> {{<<one, d>>}, {<<other, d>>}}] /\ T = [d \in Int |-> {}]
                   /\ g = Outcome({}, InAll(C), InAll(T), {})
  OBVIOUS
<1>2. PICK C, T, g : /\ C = [d \in Int |-> {{<<one, d>>}, {<<other, d>>}}] /\ T = [d \in Int |-> {}]
                     /\ g = Outcome({}, InAll(C), InAll(T), {})
  BY <1>1
<1>3. Suits(m, body, C, T)
  <2>1. ASSUME NEW d \in Int, NEW r, NEW y, Bare(y) PROVE Good(m, r, y, body[d], Plus(y, C[d], T[d], {}))
    <3>1. C[d] = {{<<one, d>>}, {<<other, d>>}} /\ T[d] = {} BY <1>2
    <3>2. QED BY <2>1, <3>1
  <2>2. QED BY <2>1 DEF Suits
<1>4. GpusInReach \subseteq Int BY DEF GpusInReach
<1>5. \A k \in GpusInReach : C[k] = {{<<one, k>>}, {<<other, k>>}} /\ T[k] = {} BY <1>2, <1>4
<1>6. UNION {C[k] : k \in GpusInReach} = Claims(one, GpusInReach) \union Claims(other, GpusInReach)
  BY <1>5 DEF Claims, Of
<1>7. InAll(T) = {} BY <1>5 DEF InAll
<1>8. g = Outcome({}, Claims(one, GpusInReach) \union Claims(other, GpusInReach), {}, {}) BY <1>2, <1>6, <1>7 DEF InAll
<1>9. Good(m, g, Base({}), OnChips(fails, body), g) BY <1>2, <1>3, InstinctFine DEF OnChips
<1>10. QED BY <1>8, <1>9, ReportingFine

\* Two variables are given out, and forgotten.
LEMMA GiveTwo ==
  ASSUME NEW m, NEW r, NEW y, NEW e, NEW u, NEW v, NEW src, NEW two, DOMAIN y.vals = {},
         u \in DOMAIN e.vals, v \in DOMAIN e.vals, e.vals[u] = {src}, e.vals[v] = {two}, e.claims = y.claims, Rest(e, y)
  PROVE  /\ Good(m, r, e, Show({src}, u), Plus(e, {{src}}, {}, {}))
         /\ Good(m, r, Plus(e, {{src}}, {}, {}), Show({two}, v), Plus(y, {{src}, {two}}, {}, {}))
<1>1. Good(m, r, e, Show({src}, u), Plus(e, {{src}}, {}, {})) BY GoodShown
<1>2. \E x, h, j : x = Plus(y, {{src}, {two}}, {}, {}) /\ h = Plus(e, {{src}}, {}, {}) /\ j = Plus(h, {{two}}, {}, {})
  OBVIOUS
<1>3. PICK x, h, j : x = Plus(y, {{src}, {two}}, {}, {}) /\ h = Plus(e, {{src}}, {}, {}) /\ j = Plus(h, {{two}}, {}, {})
  BY <1>2
<1>4. h.vals = e.vals /\ h.claims = e.claims \union {{src}} /\ Rest(h, e) BY ONLY <1>3, ShownIs
<1>5. j.claims = h.claims \union {{two}} /\ Rest(j, h) BY ONLY <1>3, ShownIs
<1>6. Good(m, r, h, Show({two}, v), j) BY <1>3, <1>4, GoodShown
<1>7. x.vals = y.vals /\ x.claims = y.claims \union {{src}, {two}} /\ Rest(x, y) BY ONLY <1>3, ShownIs
<1>8. DOMAIN x.vals = {} BY <1>7
<1>9. x.claims = j.claims BY <1>4, <1>5, <1>7
<1>10. /\ x.mark = j.mark /\ x.opened = j.opened /\ x.taken = j.taken /\ x.bound = j.bound /\ x.wanted = j.wanted
  BY <1>4, <1>5, <1>7 DEF Rest
<1>11. Entails(m, j, x) BY <1>8, <1>9, <1>10, ForgetAll
<1>12. Good(m, r, h, Show({two}, v), x) BY <1>6, <1>11, EntailsSame, GoodWeaker
<1>13. QED BY <1>1, <1>3, <1>12

\* Two variables are set to 0, read and given out.
LEMMA ReadTwo ==
  ASSUME NEW m, NEW r, NEW y, NEW u, NEW v, NEW src, NEW two, NEW via, Bare(y), u # v
  PROVE  Good(m, r, y, Reset(u) \o Reset(v) \o Get(u, src, via, Complain) \o Get(v, two, via, Complain)
                         \o Show({src}, u) \o Show({two}, v),
              Plus(y, {{src}, {two}}, {}, {}))
<1>1. \E e : e = {} OBVIOUS
<1>2. PICK e : e = {} BY <1>1
<1>3. \E a, b, c, d : a = WithVal(y, u, e) /\ b = WithVal(a, v, e) /\ c = WithVal(b, u, {src}) /\ d = WithVal(c, v, {two})
  OBVIOUS
<1>4. PICK a, b, c, d : a = WithVal(y, u, e) /\ b = WithVal(a, v, e) /\ c = WithVal(b, u, {src}) /\ d = WithVal(c, v, {two})
  BY <1>3
<1>5. u \in DOMAIN a.vals /\ a.vals[u] = e /\ a.claims = y.claims /\ Rest(a, y) BY ONLY <1>4, SetIs
<1>6. /\ v \in DOMAIN b.vals /\ b.vals[v] = e /\ DOMAIN b.vals = DOMAIN a.vals \union {v}
      /\ \A w \in DOMAIN a.vals : w # v => b.vals[w] = a.vals[w]
      /\ b.claims = a.claims /\ Rest(b, a)
  BY ONLY <1>4, SetIs
<1>7. u \in DOMAIN b.vals /\ b.vals[u] = e BY <1>5, <1>6
<1>8. /\ u \in DOMAIN c.vals /\ c.vals[u] = {src} /\ DOMAIN c.vals = DOMAIN b.vals \union {u}
      /\ \A w \in DOMAIN b.vals : w # u => c.vals[w] = b.vals[w]
      /\ c.claims = b.claims /\ Rest(c, b)
  BY ONLY <1>4, SetIs
<1>9. v \in DOMAIN c.vals /\ c.vals[v] = e BY <1>6, <1>8
<1>10. /\ v \in DOMAIN d.vals /\ d.vals[v] = {two} /\ DOMAIN d.vals = DOMAIN c.vals \union {v}
       /\ \A w \in DOMAIN c.vals : w # v => d.vals[w] = c.vals[w]
       /\ d.claims = c.claims /\ Rest(d, c)
  BY ONLY <1>4, SetIs
<1>11. u \in DOMAIN d.vals /\ d.vals[u] = {src} BY <1>8, <1>10
<1>12. y.mark \in {"none", "complained"} /\ DOMAIN y.vals = {} BY DEF Bare
<1>13. Mild(r, b, Complain) /\ Mild(r, c, Complain) BY <1>5, <1>6, <1>8, <1>12 DEF Rest, Mild
<1>14. b.vals[u] \subseteq {src} /\ c.vals[v] \subseteq {two} BY <1>2, <1>7, <1>9
<1>15. Good(m, r, y, Reset(u), a) /\ Good(m, r, a, Reset(v), b) BY <1>2, <1>4, GoodReset
<1>16. \E no : no = Complain OBVIOUS
<1>17. PICK no : no = Complain BY <1>16
<1>18. Good(m, r, b, Get(u, src, via, no), c) BY <1>4, <1>7, <1>13, <1>14, <1>17, GoodAsk
<1>19. Good(m, r, c, Get(v, two, via, no), d) BY <1>4, <1>9, <1>13, <1>14, <1>17, GoodAsk
<1>20. Rest(d, y) /\ d.claims = y.claims BY <1>5, <1>6, <1>8, <1>10 DEF Rest
<1>21. /\ Good(m, r, d, Show({src}, u), Plus(d, {{src}}, {}, {}))
       /\ Good(m, r, Plus(d, {{src}}, {}, {}), Show({two}, v), Plus(y, {{src}, {two}}, {}, {}))
  BY <1>10, <1>11, <1>12, <1>20, GiveTwo
<1>22. Good(m, r, y, Reset(u) \o Reset(v), b) BY <1>15, GoodThen
<1>23. Good(m, r, y, Reset(u) \o Reset(v) \o Get(u, src, via, no), c) BY <1>18, <1>22, GoodThen
<1>24. Good(m, r, y, Reset(u) \o Reset(v) \o Get(u, src, via, no) \o Get(v, two, via, no), d) BY <1>19, <1>23, GoodThen
<1>25. Good(m, r, y, Reset(u) \o Reset(v) \o Get(u, src, via, no) \o Get(v, two, via, no) \o Show({src}, u),
            Plus(d, {{src}}, {}, {}))
  BY <1>21, <1>24, GoodThen
<1>26. QED BY <1>17, <1>21, <1>25, GoodThen

\* A read that fails is told of; what is done with its result may end the process.
LEMMA GoodAskOrCrash ==
  ASSUME NEW m, NEW r, NEW x, NEW v, NEW src, NEW via, "old" \in m.traits, x.mark \in {"none", "complained"}
  PROVE  Good(m, r, x, Get(v, src, via, Complain \o Fork(<< >>, Crash)), WithVal(x, v, {src}))
<1>1. \E b, w : b = WithVal(x, v, {src}) /\ w = Complained(Refused(x)) OBVIOUS
<1>2. PICK b, w : b = WithVal(x, v, {src}) /\ w = Complained(Refused(x)) BY <1>1
<1>3. w.mark = "complained" BY <1>2, ComplainedIs
<1>4. b.mark = x.mark BY <1>2 DEF WithVal, Facts
<1>5. Entails(m, w, b) BY <1>3, <1>4 DEF Entails, Exact, Tidy, Caps
<1>6. Good(m, r, w, << >>, b) BY <1>5, GoodNone
<1>7. Good(m, r, w, Crash, b) BY GoodCrash
<1>8. Good(m, r, w, Fork(<< >>, Crash), b) BY <1>6, <1>7, GoodFork
<1>9. Good(m, r, Refused(x), Complain, w) BY <1>2, EntailsSame, GoodComplain
<1>10. Good(m, r, Refused(x), Complain \o Fork(<< >>, Crash), b) BY <1>8, <1>9, GoodThen
<1>11. Good(m, r, b, << >>, b) BY EntailsSame, GoodNone
<1>12. QED BY <1>2, <1>10, <1>11, GoodGet DEF Get, GetThen

\* Two variables that are not set are read and given out.
LEMMA AskTwo ==
  ASSUME NEW m, NEW r, NEW y, NEW u, NEW v, NEW src, NEW two, NEW via, NEW no, "old" \in m.traits, Bare(y), u # v,
         no = Complain \o Fork(<< >>, Crash)
  PROVE  Good(m, r, y, Uninit(u) \o Uninit(v) \o Get(u, src, via, no) \o Get(v, two, via, no)
                         \o Show({src}, u) \o Show({two}, v),
              Plus(y, {{src}, {two}}, {}, {}))
<1>1. \E c, d : c = WithVal(y, u, {src}) /\ d = WithVal(c, v, {two}) OBVIOUS
<1>2. PICK c, d : c = WithVal(y, u, {src}) /\ d = WithVal(c, v, {two}) BY <1>1
<1>3. u \in DOMAIN c.vals /\ c.vals[u] = {src} /\ c.claims = y.claims /\ Rest(c, y) BY ONLY <1>2, SetIs
<1>4. /\ v \in DOMAIN d.vals /\ d.vals[v] = {two} /\ DOMAIN d.vals = DOMAIN c.vals \union {v}
      /\ \A w \in DOMAIN c.vals : w # v => d.vals[w] = c.vals[w]
      /\ d.claims = c.claims /\ Rest(d, c)
  BY ONLY <1>2, SetIs
<1>5. u \in DOMAIN d.vals /\ d.vals[u] = {src} BY <1>3, <1>4
<1>6. y.mark \in {"none", "complained"} /\ DOMAIN y.vals = {} BY DEF Bare
<1>7. c.mark \in {"none", "complained"} BY <1>3, <1>6 DEF Rest
<1>8. Good(m, r, y, Uninit(u), y) /\ Good(m, r, y, Uninit(v), y) BY <1>6, GoodUninit
<1>9. Good(m, r, y, Get(u, src, via, no), c) BY <1>2, <1>6, GoodAskOrCrash
<1>10. Good(m, r, c, Get(v, two, via, no), d) BY <1>2, <1>7, GoodAskOrCrash
<1>11. Rest(d, y) /\ d.claims = y.claims BY <1>3, <1>4 DEF Rest
<1>12. /\ Good(m, r, d, Show({src}, u), Plus(d, {{src}}, {}, {}))
       /\ Good(m, r, Plus(d, {{src}}, {}, {}), Show({two}, v), Plus(y, {{src}, {two}}, {}, {}))
  BY <1>4, <1>5, <1>6, <1>11, GiveTwo
<1>13. Good(m, r, y, Uninit(u) \o Uninit(v), y) BY <1>8, GoodThen
<1>14. Good(m, r, y, Uninit(u) \o Uninit(v) \o Get(u, src, via, no), c) BY <1>9, <1>13, GoodThen
<1>15. Good(m, r, y, Uninit(u) \o Uninit(v) \o Get(u, src, via, no) \o Get(v, two, via, no), d) BY <1>10, <1>14, GoodThen
<1>16. Good(m, r, y, Uninit(u) \o Uninit(v) \o Get(u, src, via, no) \o Get(v, two, via, no) \o Show({src}, u),
            Plus(d, {{src}}, {}, {}))
  BY <1>12, <1>15, GoodThen
<1>17. QED BY <1>12, <1>16, GoodThen

-----------------------------------------------------------------------------
\* The power of the GPUs of Instinct.
LEMMA InstinctPower ==
  ASSUME NEW m
  PROVE  Fine(m, {}, amd_gpu_instinct_get_power, {})
<1> DEFINE E(d) ==
             Reset(Var("pwr_val")) \o Get(Var("pwr_val"), <<"power", d>>, rsmi, Complain) \o Show(Of("power", d), Var("pwr_val"))
           body == [d \in Int |-> E(d)]
<1>1. ASSUME NEW s PROVE rsmi_get_power_data(s) = OnChip(s, Exit, body)
  <2>1. \A n : [k \in Span(s, n) |-> E(k)] = [k \in Span(s, n) |-> body[k]] BY DEF Span
  <2>2. [n \in AnyCount |-> OnGpus(s, n, [k \in Span(s, n) |-> E(k)])]
          = [n \in AnyCount |-> OnGpus(s, n, [k \in Span(s, n) |-> body[k]])]
    BY <2>1
  <2> HIDE DEF body
  <2>3. QED BY <2>2 DEF rsmi_get_power_data, OnSocket, WithDevices, EachGpuOf, Each, OnGpus, Span, OnChip, AnyCount
<1>2. amd_gpu_instinct_get_power = Reporting(OnChips(Exit, body), Claims("power", GpusInReach))
  <2>1. [s \in 0..(NSOCKETS - 1) |-> Function(rsmi_get_power_data(s))] =
          [s \in 0..(NSOCKETS - 1) |-> Function(OnChip(s, Exit, body))]
    BY <1>1
  <2>2. QED BY <2>1 DEF amd_gpu_instinct_get_power, InstinctChips, EachSocket, Each, OnChips
<1>3. \E v, what, p, fails : v = Var("pwr_val") /\ what = "power" /\ p = body /\ fails = Exit OBVIOUS
<1>4. PICK v, what, p, fails : v = Var("pwr_val") /\ what = "power" /\ p = body /\ fails = Exit BY <1>3
<1>5. ASSUME NEW d \in Int, NEW r, NEW y, Bare(y) PROVE Good(m, r, y, p[d], Plus(y, {{<<what, d>>}}, {}, {}))
  <2>1. body[d] = E(d) OBVIOUS
  <2>2. \E src : src = <<what, d>> OBVIOUS
  <2>3. PICK src : src = <<what, d>> BY <2>2
  <2>4. p[d] = Reset(v) \o Get(v, src, rsmi, Complain) \o Show({src}, v) BY <2>1, <2>3, <1>4 DEF Of
  <2>5. v \notin DOMAIN y.vals /\ Mild(r, y, Complain) BY <1>5 DEF Bare, Mild
  <2> HIDE DEF body, E
  <2>6. Good(m, r, y, Reset(v) \o Get(v, src, rsmi, Complain) \o Show({src}, v), Plus(y, {{src}}, {}, {})) BY <2>5, GoodReport
  <2>7. QED BY <2>3, <2>4, <2>6
<1> HIDE DEF body
<1>6. Fine(m, {}, Reporting(OnChips(fails, p), Claims(what, GpusInReach)), {})
  <2>1. fails \in {Exit, Complain} BY <1>4
  <2>2. QED BY <1>5, <2>1, InstinctReports
<1>7. QED BY <1>2, <1>4, <1>6

\* Their temperatures, printed.
LEMMA InstinctThermals ==
  ASSUME NEW m
  PROVE  Fine(m, {}, amd_gpu_instinct_get_thermals, {})
<1> DEFINE E(d) == ShowTemperature(d)
           body == [d \in Int |-> E(d)]
<1>1. ASSUME NEW s PROVE rsmi_get_thermals_data(s) = OnChip(s, Exit, body)
  <2>1. \A n : [k \in Span(s, n) |-> E(k)] = [k \in Span(s, n) |-> body[k]] BY DEF Span
  <2>2. [n \in AnyCount |-> OnGpus(s, n, [k \in Span(s, n) |-> E(k)])]
          = [n \in AnyCount |-> OnGpus(s, n, [k \in Span(s, n) |-> body[k]])]
    BY <2>1
  <2> HIDE DEF body
  <2>3. QED BY <2>2 DEF rsmi_get_thermals_data, OnSocket, WithDevices, EachGpuOf, Each, OnGpus, Span, OnChip, AnyCount
<1>2. amd_gpu_instinct_get_thermals = Reporting(OnChips(Exit, body), Claims("temp", GpusInReach))
  <2>1. [s \in 0..(NSOCKETS - 1) |-> Function(rsmi_get_thermals_data(s))] =
          [s \in 0..(NSOCKETS - 1) |-> Function(OnChip(s, Exit, body))]
    BY <1>1
  <2>2. QED BY <2>1 DEF amd_gpu_instinct_get_thermals, InstinctChips, EachSocket, Each, OnChips
<1>3. \E v, what, p, fails : v = Var("temp_val") /\ what = "temp" /\ p = body /\ fails = Exit OBVIOUS
<1>4. PICK v, what, p, fails : v = Var("temp_val") /\ what = "temp" /\ p = body /\ fails = Exit BY <1>3
<1>5. ASSUME NEW d \in Int, NEW r, NEW y, Bare(y) PROVE Good(m, r, y, p[d], Plus(y, {{<<what, d>>}}, {}, {}))
  <2>1. body[d] = E(d) OBVIOUS
  <2>2. \E src : src = <<what, d>> OBVIOUS
  <2>3. PICK src : src = <<what, d>> BY <2>2
  <2>4. p[d] = Reset(v) \o Get(v, src, rsmi, Complain) \o Show({src}, v) BY <2>1, <2>3, <1>4 DEF Of, ShowTemperature
  <2>5. v \notin DOMAIN y.vals /\ Mild(r, y, Complain) BY <1>5 DEF Bare, Mild
  <2> HIDE DEF body, E
  <2>6. Good(m, r, y, Reset(v) \o Get(v, src, rsmi, Complain) \o Show({src}, v), Plus(y, {{src}}, {}, {})) BY <2>5, GoodReport
  <2>7. QED BY <2>3, <2>4, <2>6
<1> HIDE DEF body
<1>6. Fine(m, {}, Reporting(OnChips(fails, p), Claims(what, GpusInReach)), {})
  <2>1. fails \in {Exit, Complain} BY <1>4
  <2>2. QED BY <1>5, <2>1, InstinctReports
<1>7. QED BY <1>2, <1>4, <1>6

\* Their temperatures, in JSON.
LEMMA InstinctThermalsJson ==
  ASSUME NEW m
  PROVE  Fine(m, {}, amd_gpu_instinct_get_thermals_json, {})
<1> DEFINE E(d) == ShowTemperature(d)
           body == [d \in Int |-> E(d)]
<1>1. ASSUME NEW s PROVE rsmi_get_thermals_json(s) = OnChip(s, Exit, body)
  <2>1. \A n : [k \in Span(s, n) |-> E(k)] = [k \in Span(s, n) |-> body[k]] BY DEF Span
  <2>2. [n \in AnyCount |-> OnGpus(s, n, [k \in Span(s, n) |-> E(k)])]
          = [n \in AnyCount |-> OnGpus(s, n, [k \in Span(s, n) |-> body[k]])]
    BY <2>1
  <2> HIDE DEF body
  <2>3. QED BY <2>2 DEF rsmi_get_thermals_json, OnSocket, WithDevices, EachGpuOf, Each, OnGpus, Span, OnChip, AnyCount
<1>2. amd_gpu_instinct_get_thermals_json = Reporting(OnChips(Exit, body), Claims("temp", GpusInReach))
  <2>1. [s \in 0..(NSOCKETS - 1) |-> Function(rsmi_get_thermals_json(s))] =
          [s \in 0..(NSOCKETS - 1) |-> Function(OnChip(s, Exit, body))]
    BY <1>1
  <2>2. QED BY <2>1 DEF amd_gpu_instinct_get_thermals_json, InstinctChips, EachSocket, Each, OnChips
<1>3. \E v, what, p, fails : v = Var("temp_val") /\ what = "temp" /\ p = body /\ fails = Exit OBVIOUS
<1>4. PICK v, what, p, fails : v = Var("temp_val") /\ what = "temp" /\ p = body /\ fails = Exit BY <1>3
<1>5. ASSUME NEW d \in Int, NEW r, NEW y, Bare(y) PROVE Good(m, r, y, p[d], Plus(y, {{<<what, d>>}}, {}, {}))
  <2>1. body[d] = E(d) OBVIOUS
  <2>2. \E src : src = <<what, d>> OBVIOUS
  <2>3. PICK src : src = <<what, d>> BY <2>2
  <2>4. p[d] = Reset(v) \o Get(v, src, rsmi, Complain) \o Show({src}, v) BY <2>1, <2>3, <1>4 DEF Of, ShowTemperature
  <2>5. v \notin DOMAIN y.vals /\ Mild(r, y, Complain) BY <1>5 DEF Bare, Mild
  <2> HIDE DEF body, E
  <2>6. Good(m, r, y, Reset(v) \o Get(v, src, rsmi, Complain) \o Show({src}, v), Plus(y, {{src}}, {}, {})) BY <2>5, GoodReport
  <2>7. QED BY <2>3, <2>4, <2>6
<1> HIDE DEF body
<1>6. Fine(m, {}, Reporting(OnChips(fails, p), Claims(what, GpusInReach)), {})
  <2>1. fails \in {Exit, Complain} BY <1>4
  <2>2. QED BY <1>5, <2>1, InstinctReports
<1>7. QED BY <1>2, <1>4, <1>6

\* Their utilization, printed.
LEMMA InstinctUtilization ==
  ASSUME NEW m, "old" \in m.traits
  PROVE  Fine(m, {}, amd_gpu_instinct_get_gpu_utilization, {})
<1> DEFINE E(d) ==
             Uninit(Var("utilpercent")) \o Get(Var("utilpercent"), <<"util", d>>, rsmi, Complain) \o Show(Of("util", d), Var("utilpercent"))
           body == [d \in Int |-> E(d)]
<1>1. ASSUME NEW s PROVE rsmi_get_gpu_utilization_data(s) = OnChip(s, Exit, body)
  <2>1. \A n : [k \in Span(s, n) |-> E(k)] = [k \in Span(s, n) |-> body[k]] BY DEF Span
  <2>2. [n \in AnyCount |-> OnGpus(s, n, [k \in Span(s, n) |-> E(k)])]
          = [n \in AnyCount |-> OnGpus(s, n, [k \in Span(s, n) |-> body[k]])]
    BY <2>1
  <2> HIDE DEF body
  <2>3. QED BY <2>2 DEF rsmi_get_gpu_utilization_data, OnSocket, WithDevices, EachGpuOf, Each, OnGpus, Span, OnChip, AnyCount
<1>2. amd_gpu_instinct_get_gpu_utilization = Reporting(OnChips(Exit, body), Claims("util", GpusInReach))
  <2>1. [s \in 0..(NSOCKETS - 1) |-> Function(rsmi_get_gpu_utilization_data(s))] =
          [s \in 0..(NSOCKETS - 1) |-> Function(OnChip(s, Exit, body))]
    BY <1>1
  <2>2. QED BY <2>1 DEF amd_gpu_instinct_get_gpu_utilization, InstinctChips, EachSocket, Each, OnChips
<1>3. \E v, what, p, fails : v = Var("utilpercent") /\ what = "util" /\ p = body /\ fails = Exit OBVIOUS
<1>4. PICK v, what, p, fails : v = Var("utilpercent") /\ what = "util" /\ p = body /\ fails = Exit BY <1>3
<1>5. ASSUME NEW d \in Int, NEW r, NEW y, Bare(y) PROVE Good(m, r, y, p[d], Plus(y, {{<<what, d>>}}, {}, {}))
  <2>1. body[d] = E(d) OBVIOUS
  <2>2. \E src : src = <<what, d>> OBVIOUS
  <2>3. PICK src : src = <<what, d>> BY <2>2
  <2>4. p[d] = Uninit(v) \o Get(v, src, rsmi, Complain) \o Show({src}, v) BY <2>1, <2>3, <1>4 DEF Of
  <2>5. v \notin DOMAIN y.vals /\ Mild(r, y, Complain) BY <1>5 DEF Bare, Mild
  <2> HIDE DEF body, E
  <2>6. Good(m, r, y, Uninit(v) \o Get(v, src, rsmi, Complain) \o Show({src}, v), Plus(y, {{src}}, {}, {}))
    BY <2>5, GoodUninitReport
  <2>7. QED BY <2>3, <2>4, <2>6
<1> HIDE DEF body
<1>6. Fine(m, {}, Reporting(OnChips(fails, p), Claims(what, GpusInReach)), {})
  <2>1. fails \in {Exit, Complain} BY <1>4
  <2>2. QED BY <1>5, <2>1, InstinctReports
<1>7. QED BY <1>2, <1>4, <1>6

\* Their utilization in JSON, which is the 0 the variable is set to.
LEMMA InstinctUtilizationJson ==
  ASSUME NEW m, "never" \in m.traits
  PROVE  Fine(m, {}, amd_gpu_instinct_get_gpu_utilization_json, {})
<1> DEFINE E(d) == Reset(Var("utilpercent")) \o Show(Of("util", d), Var("utilpercent"))
           body == [d \in Int |-> E(d)]
<1>1. ASSUME NEW s PROVE rsmi_get_gpu_utilization_data_json(s) = OnChip(s, Complain, body)
  <2>1. \A n : [k \in Span(s, n) |-> E(k)] = [k \in Span(s, n) |-> body[k]] BY DEF Span
  <2>2. [n \in AnyCount |-> OnGpus(s, n, [k \in Span(s, n) |-> E(k)])]
          = [n \in AnyCount |-> OnGpus(s, n, [k \in Span(s, n) |-> body[k]])]
    BY <2>1
  <2> HIDE DEF body
  <2>3. QED BY <2>2 DEF rsmi_get_gpu_utilization_data_json, OnSocket, WithDevices, EachGpuOf, Each, OnGpus, Span, OnChip, AnyCount
<1>2. amd_gpu_instinct_get_gpu_utilization_json = Reporting(OnChips(Complain, body), Claims("util", GpusInReach))
  <2>1. [s \in 0..(NSOCKETS - 1) |-> Function(rsmi_get_gpu_utilization_data_json(s))] =
          [s \in 0..(NSOCKETS - 1) |-> Function(OnChip(s, Complain, body))]
    BY <1>1
  <2>2. QED BY <2>1 DEF amd_gpu_instinct_get_gpu_utilization_json, InstinctChips, EachSocket, Each, OnChips
<1>3. \E v, what, p, fails : v = Var("utilpercent") /\ what = "util" /\ p = body /\ fails = Complain OBVIOUS
<1>4. PICK v, what, p, fails : v = Var("utilpercent") /\ what = "util" /\ p = body /\ fails = Complain BY <1>3
<1>5. ASSUME NEW d \in Int, NEW r, NEW y, Bare(y) PROVE Good(m, r, y, p[d], Plus(y, {{<<what, d>>}}, {}, {}))
  <2>1. body[d] = E(d) OBVIOUS
  <2>2. \E src : src = <<what, d>> OBVIOUS
  <2>3. PICK src : src = <<what, d>> BY <2>2
  <2>4. p[d] = Reset(v) \o Show({src}, v) BY <2>1, <2>3, <1>4 DEF Of
  <2>5. v \notin DOMAIN y.vals /\ Mild(r, y, Complain) BY <1>5 DEF Bare, Mild
  <2> HIDE DEF body, E
  <2>6. \E a, b, x : a = WithVal(y, v, {}) /\ b = Plus(a, {{src}}, {}, {}) /\ x = Plus(y, {{src}}, {}, {}) OBVIOUS
  <2>7. PICK a, b, x : a = WithVal(y, v, {}) /\ b = Plus(a, {{src}}, {}, {}) /\ x = Plus(y, {{src}}, {}, {}) BY <2>6
  <2>8. v \in DOMAIN a.vals /\ a.vals[v] = {} BY <2>7, ValsAre
  <2>9. a.vals[v] \subseteq {src} BY <2>8
  <2>10. Good(m, r, y, Reset(v), a) BY <2>7, GoodReset
  <2>11. Good(m, r, a, Show({src}, v), b) BY <2>7, <2>8, <2>9, EntailsSame, GoodShow
  <2>12. b = WithVal(x, v, {}) BY <2>7, WithValPlus
  <2>13. v \notin DOMAIN x.vals BY <2>5, <2>7 DEF Plus, Facts
  <2>14. Entails(m, b, x) BY <2>12, <2>13, Forget
  <2>15. Good(m, r, a, Show({src}, v), x) BY <2>11, <2>14, EntailsSame, GoodWeaker
  <2>16. Good(m, r, y, Reset(v) \o Show({src}, v), x) BY <2>10, <2>15, GoodThen
  <2>17. QED BY <2>3, <2>4, <2>7, <2>16
<1> HIDE DEF body
<1>6. Fine(m, {}, Reporting(OnChips(fails, p), Claims(what, GpusInReach)), {})
  <2>1. fails \in {Exit, Complain} BY <1>4
  <2>2. QED BY <1>5, <2>1, InstinctReports
<1>7. QED BY <1>2, <1>4, <1>6

-----------------------------------------------------------------------------
\* The caps of the GPUs of Instinct and their ranges.
LEMMA InstinctPowerLimit ==
  ASSUME NEW m
  PROVE  Fine(m, {}, amd_gpu_instinct_get_power_limit, {})
<1> DEFINE E(d) == Reset(Var("pwr_val")) \o Reset(Var("pwr_range"))
                     \o Get(Var("pwr_val"), <<"cap", d>>, rsmi, Complain) \o Get(Var("pwr_range"), <<"range", d>>, rsmi, Complain)
                     \o Show(Of("cap", d), Var("pwr_val")) \o Show(Of("range", d), Var("pwr_range"))
           body == [d \in Int |-> E(d)]
<1>1. ASSUME NEW s PROVE rsmi_get_power_limit_data(s) = OnChip(s, Exit, body)
  <2>1. \A n : [k \in Span(s, n) |-> E(k)] = [k \in Span(s, n) |-> body[k]] BY DEF Span
  <2>2. [n \in AnyCount |-> OnGpus(s, n, [k \in Span(s, n) |-> E(k)])]
          = [n \in AnyCount |-> OnGpus(s, n, [k \in Span(s, n) |-> body[k]])]
    BY <2>1
  <2> HIDE DEF body
  <2>3. QED BY <2>2 DEF rsmi_get_power_limit_data, OnSocket, WithDevices, EachGpuOf, Each, OnGpus, Span, OnChip, AnyCount
<1>2. amd_gpu_instinct_get_power_limit =
        Reporting(OnChips(Exit, body), Claims("cap", GpusInReach) \union Claims("range", GpusInReach))
  <2>1. [s \in 0..(NSOCKETS - 1) |-> Function(rsmi_get_power_limit_data(s))] =
          [s \in 0..(NSOCKETS - 1) |-> Function(OnChip(s, Exit, body))]
    BY <1>1
  <2>2. QED BY <2>1 DEF amd_gpu_instinct_get_power_limit, InstinctChips, EachSocket, Each, OnChips
<1>3. \E u, v, one, other, p, fails, no :
        /\ u = Var("pwr_val") /\ v = Var("pwr_range") /\ one = "cap" /\ other = "range" /\ p = body /\ fails = Exit
        /\ no = Complain \o Fork(<< >>, Crash)
  OBVIOUS
<1>4. PICK u, v, one, other, p, fails, no :
        /\ u = Var("pwr_val") /\ v = Var("pwr_range") /\ one = "cap" /\ other = "range" /\ p = body /\ fails = Exit
        /\ no = Complain \o Fork(<< >>, Crash)
  BY <1>3
<1>5. u # v BY <1>4 DEF Var
<1>6. ASSUME NEW d \in Int, NEW r, NEW y, Bare(y)
      PROVE  Good(m, r, y, p[d], Plus(y, {{<<one, d>>}, {<<other, d>>}}, {}, {}))
  <2>1. body[d] = E(d) OBVIOUS
  <2>2. \E src, two : src = <<one, d>> /\ two = <<other, d>> OBVIOUS
  <2>3. PICK src, two : src = <<one, d>> /\ two = <<other, d>> BY <2>2
  <2>4. p[d] = Reset(u) \o Reset(v) \o Get(u, src, rsmi, Complain) \o Get(v, two, rsmi, Complain)
                  \o Show({src}, u) \o Show({two}, v) BY <2>1, <2>3, <1>4 DEF Of
  <2> HIDE DEF body, E
  <2>5. Good(m, r, y, Reset(u) \o Reset(v) \o Get(u, src, rsmi, Complain) \o Get(v, two, rsmi, Complain)
                  \o Show({src}, u) \o Show({two}, v), Plus(y, {{src}, {two}}, {}, {}))
    BY <1>4, <1>5, <1>6, ReadTwo
  <2>6. QED BY <2>3, <2>4, <2>5
<1> HIDE DEF body
<1>7. Fine(m, {}, Reporting(OnChips(fails, p), Claims(one, GpusInReach) \union Claims(other, GpusInReach)), {})
  <2>1. fails \in {Exit, Complain} BY <1>4
  <2>2. QED BY <1>6, <2>1, InstinctReportsTwo
<1>8. QED BY <1>2, <1>4, <1>7

\* Their clocks, printed.
LEMMA InstinctClocks ==
  ASSUME NEW m, "old" \in m.traits
  PROVE  Fine(m, {}, amd_gpu_instinct_get_clocks, {})
<1> DEFINE E(d) == ShowClocks(d)
           body == [d \in Int |-> E(d)]
<1>1. ASSUME NEW s PROVE rsmi_get_clocks_data(s) = OnChip(s, Exit, body)
  <2>1. \A n : [k \in Span(s, n) |-> E(k)] = [k \in Span(s, n) |-> body[k]] BY DEF Span
  <2>2. [n \in AnyCount |-> OnGpus(s, n, [k \in Span(s, n) |-> E(k)])]
          = [n \in AnyCount |-> OnGpus(s, n, [k \in Span(s, n) |-> body[k]])]
    BY <2>1
  <2> HIDE DEF body
  <2>3. QED BY <2>2 DEF rsmi_get_clocks_data, OnSocket, WithDevices, EachGpuOf, Each, OnGpus, Span, OnChip, AnyCount
<1>2. amd_gpu_instinct_get_clocks =
        Reporting(OnChips(Exit, body), Claims("sys_clk", GpusInReach) \union Claims("mem_clk", GpusInReach))
  <2>1. [s \in 0..(NSOCKETS - 1) |-> Function(rsmi_get_clocks_data(s))] =
          [s \in 0..(NSOCKETS - 1) |-> Function(OnChip(s, Exit, body))]
    BY <1>1
  <2>2. QED BY <2>1 DEF amd_gpu_instinct_get_clocks, InstinctChips, EachSocket, Each, OnChips
<1>3. \E u, v, one, other, p, fails, no :
        /\ u = Var("f_sys") /\ v = Var("f_mem") /\ one = "sys_clk" /\ other = "mem_clk" /\ p = body /\ fails = Exit
        /\ no = Complain \o Fork(<< >>, Crash)
  OBVIOUS
<1>4. PICK u, v, one, other, p, fails, no :
        /\ u = Var("f_sys") /\ v = Var("f_mem") /\ one = "sys_clk" /\ other = "mem_clk" /\ p = body /\ fails = Exit
        /\ no = Complain \o Fork(<< >>, Crash)
  BY <1>3
<1>5. u # v BY <1>4 DEF Var
<1>6. ASSUME NEW d \in Int, NEW r, NEW y, Bare(y)
      PROVE  Good(m, r, y, p[d], Plus(y, {{<<one, d>>}, {<<other, d>>}}, {}, {}))
  <2>1. body[d] = E(d) OBVIOUS
  <2>2. \E src, two : src = <<one, d>> /\ two = <<other, d>> OBVIOUS
  <2>3. PICK src, two : src = <<one, d>> /\ two = <<other, d>> BY <2>2
  <2>4. p[d] = Uninit(u) \o Uninit(v) \o Get(u, src, rsmi, no) \o Get(v, two, rsmi, no)
                  \o Show({src}, u) \o Show({two}, v) BY <2>1, <2>3, <1>4 DEF Of, ShowClocks
  <2> HIDE DEF body, E
  <2>5. Good(m, r, y, Uninit(u) \o Uninit(v) \o Get(u, src, rsmi, no) \o Get(v, two, rsmi, no)
                  \o Show({src}, u) \o Show({two}, v), Plus(y, {{src}, {two}}, {}, {}))
    BY <1>4, <1>5, <1>6, AskTwo
  <2>6. QED BY <2>3, <2>4, <2>5
<1> HIDE DEF body
<1>7. Fine(m, {}, Reporting(OnChips(fails, p), Claims(one, GpusInReach) \union Claims(other, GpusInReach)), {})
  <2>1. fails \in {Exit, Complain} BY <1>4
  <2>2. QED BY <1>6, <2>1, InstinctReportsTwo
<1>8. QED BY <1>2, <1>4, <1>7

\* Their clocks, in JSON.
LEMMA InstinctClocksJson ==
  ASSUME NEW m, "old" \in m.traits
  PROVE  Fine(m, {}, amd_gpu_instinct_get_clocks_json, {})
<1> DEFINE E(d) == ShowClocks(d)
           body == [d \in Int |-> E(d)]
<1>1. ASSUME NEW s PROVE rsmi_get_clocks_json(s) = OnChip(s, Complain, body)
  <2>1. \A n : [k \in Span(s, n) |-> E(k)] = [k \in Span(s, n) |-> body[k]] BY DEF Span
  <2>2. [n \in AnyCount |-> OnGpus(s, n, [k \in Span(s, n) |-> E(k)])]
          = [n \in AnyCount |-> OnGpus(s, n, [k \in Span(s, n) |-> body[k]])]
    BY <2>1
  <2> HIDE DEF body
  <2>3. QED BY <2>2 DEF rsmi_get_clocks_json, OnSocket, WithDevices, EachGpuOf, Each, OnGpus, Span, OnChip, AnyCount
<1>2. amd_gpu_instinct_get_clocks_json =
        Reporting(OnChips(Complain, body), Claims("sys_clk", GpusInReach) \union Claims("mem_clk", GpusInReach))
  <2>1. [s \in 0..(NSOCKETS - 1) |-> Function(rsmi_get_clocks_json(s))] =
          [s \in 0..(NSOCKETS - 1) |-> Function(OnChip(s, Complain, body))]
    BY <1>1
  <2>2. QED BY <2>1 DEF amd_gpu_instinct_get_clocks_json, InstinctChips, EachSocket, Each, OnChips
<1>3. \E u, v, one, other, p, fails, no :
        /\ u = Var("f_sys") /\ v = Var("f_mem") /\ one = "sys_clk" /\ other = "mem_clk" /\ p = body /\ fails = Complain
        /\ no = Complain \o Fork(<< >>, Crash)
  OBVIOUS
<1>4. PICK u, v, one, other, p, fails, no :
        /\ u = Var("f_sys") /\ v = Var("f_mem") /\ one = "sys_clk" /\ other = "mem_clk" /\ p = body /\ fails = Complain
        /\ no = Complain \o Fork(<< >>, Crash)
  BY <1>3
<1>5. u # v BY <1>4 DEF Var
<1>6. ASSUME NEW d \in Int, NEW r, NEW y, Bare(y)
      PROVE  Good(m, r, y, p[d], Plus(y, {{<<one, d>>}, {<<other, d>>}}, {}, {}))
  <2>1. body[d] = E(d) OBVIOUS
  <2>2. \E src, two : src = <<one, d>> /\ two = <<other, d>> OBVIOUS
  <2>3. PICK src, two : src = <<one, d>> /\ two = <<other, d>> BY <2>2
  <2>4. p[d] = Uninit(u) \o Uninit(v) \o Get(u, src, rsmi, no) \o Get(v, two, rsmi, no)
                  \o Show({src}, u) \o Show({two}, v) BY <2>1, <2>3, <1>4 DEF Of, ShowClocks
  <2> HIDE DEF body, E
  <2>5. Good(m, r, y, Uninit(u) \o Uninit(v) \o Get(u, src, rsmi, no) \o Get(v, two, rsmi, no)
                  \o Show({src}, u) \o Show({two}, v), Plus(y, {{src}, {two}}, {}, {}))
    BY <1>4, <1>5, <1>6, AskTwo
  <2>6. QED BY <2>3, <2>4, <2>5
<1> HIDE DEF body
<1>7. Fine(m, {}, Reporting(OnChips(fails, p), Claims(one, GpusInReach) \union Claims(other, GpusInReach)), {})
  <2>1. fails \in {Exit, Complain} BY <1>4
  <2>2. QED BY <1>6, <2>1, InstinctReportsTwo
<1>8. QED BY <1>2, <1>4, <1>7

\* The caps of the GPUs of Instinct; a GPU that is not there is only capped after a message.
LEMMA InstinctCap ==
  ASSUME NEW m, {<<"gpu", d>> : d \in GpusInReach} \subseteq m.devs
  PROVE  Fine(m, {}, amd_gpu_instinct_cap_each_gpu_power_limit, {})
<1> DEFINE E(d) == Cap(<<"gpu", d>>, rsmi, Complain)
           body == [d \in Int |-> E(d)]
<1>1. ASSUME NEW s PROVE rsmi_cap_each_gpu_power_limit(s) = OnChip(s, Exit, body)
  <2>1. \A n : [k \in Span(s, n) |-> E(k)] = [k \in Span(s, n) |-> body[k]] BY DEF Span
  <2>2. [n \in AnyCount |-> OnGpus(s, n, [k \in Span(s, n) |-> E(k)])]
          = [n \in AnyCount |-> OnGpus(s, n, [k \in Span(s, n) |-> body[k]])]
    BY <2>1
  <2> HIDE DEF body
  <2>3. QED BY <2>2 DEF rsmi_cap_each_gpu_power_limit, OnSocket, WithDevices, EachGpuOf, Each, OnGpus, Span, OnChip, AnyCount
<1>2. amd_gpu_instinct_cap_each_gpu_power_limit = Capping(OnChips(Exit, body), {<<"gpu", i>> : i \in GpusInReach})
  <2>1. [s \in 0..(NSOCKETS - 1) |-> Function(rsmi_cap_each_gpu_power_limit(s))] =
          [s \in 0..(NSOCKETS - 1) |-> Function(OnChip(s, Exit, body))]
    BY <1>1
  <2>2. QED BY <2>1 DEF amd_gpu_instinct_cap_each_gpu_power_limit, InstinctChips, EachSocket, Each, OnChips
<1>3. \E what, p, C, T, g, S, fails :
        /\ what = "gpu" /\ p = body /\ C = [d \in Int |-> {}] /\ T = [d \in Int |-> {<<what, d>>}]
        /\ S = {<<what, i>> : i \in GpusInReach} /\ g = Outcome({}, {}, S, {}) /\ fails = Exit
  OBVIOUS
<1>4. PICK what, p, C, T, g, S, fails :
        /\ what = "gpu" /\ p = body /\ C = [d \in Int |-> {}] /\ T = [d \in Int |-> {<<what, d>>}]
        /\ S = {<<what, i>> : i \in GpusInReach} /\ g = Outcome({}, {}, S, {}) /\ fails = Exit
  BY <1>3
<1>5. ASSUME NEW d \in Int, NEW r, NEW y, Bare(y), d \in GpusInReach \/ y.mark = "complained"
      PROVE  Good(m, r, y, p[d], Plus(y, C[d], T[d], {}))
  <2>1. body[d] = E(d) OBVIOUS
  <2>2. \E dev, b, w : dev = <<what, d>> /\ b = Plus(y, {}, {dev}, {}) /\ w = Complained(Refused(y)) OBVIOUS
  <2>3. PICK dev, b, w : dev = <<what, d>> /\ b = Plus(y, {}, {dev}, {}) /\ w = Complained(Refused(y)) BY <2>2
  <2>4. p[d] = Cap(dev, rsmi, Complain) BY <2>1, <2>3, <1>4
  <2>5. C[d] = {} /\ T[d] = {dev} BY <1>4, <2>3
  <2> HIDE DEF body, E
  <2>6. dev \in m.devs \/ y.mark = "complained" BY <1>4, <1>5, <2>3
  <2>7. w.mark = "complained" BY <2>3, ComplainedIs
  <2>8. b.mark = y.mark /\ b.vals = y.vals BY <2>3 DEF Plus, Facts
  <2>9. DOMAIN b.vals = {} /\ b.mark \in {"none", "complained"} /\ y.wanted = "share" BY <1>5, <2>8 DEF Bare
  <2>10. Entails(m, w, b) BY <2>7, <2>9 DEF Entails, Exact, Tidy, Caps
  <2>11. Good(m, r, Refused(y), Complain, b) BY <2>3, <2>10, GoodComplain
  <2>12. Entails(m, Plus(y, {}, {dev}, {}), b) BY <2>3, EntailsSame
  <2>13. Good(m, r, y, Cap(dev, rsmi, Complain), b) BY ONLY <2>6, <2>9, <2>11, <2>12, GoodCap
  <2>14. QED BY <2>3, <2>4, <2>5, <2>13
<1> HIDE DEF body
<1>6. Suits(m, p, C, T) BY <1>5 DEF Suits
<1>7. GpusInReach \subseteq Int BY DEF GpusInReach
<1>8. InAll(C) = {} /\ InAll(T) = S BY <1>4, <1>7 DEF InAll
<1>9. g = Outcome({}, InAll(C), InAll(T), {}) BY <1>4, <1>8
<1>10. fails \in {Exit, Complain} BY <1>4
<1>11. Good(m, g, Base({}), OnChips(fails, p), g) BY <1>6, <1>9, <1>10, InstinctFine DEF OnChips
<1>12. Fine(m, {}, Capping(OnChips(fails, p), S), {}) BY <1>4, <1>11, CappingFine
<1>13. QED BY <1>2, <1>4, <1>12

-----------------------------------------------------------------------------
\* One reading is asked, given out and added.
LEMMA InstinctAdds ==
  ASSUME NEW m, NEW r, NEW x, NEW v, NEW total, NEW src, NEW S, "old" \in m.traits, x.mark = "none",
         v \notin DOMAIN x.vals, total \notin DOMAIN x.vals, v # total, src \notin S
  PROVE  Good(m, r, WithVal(x, total, S), Get(v, src, rsmi, << >>) \o Show({src}, v) \o Add(total, v),
              WithVal(Plus(x, {{src}}, {}, {}), total, S \union {src}))
<1>1. \E b, c, e, h, no : /\ b = WithVal(x, total, S) /\ c = WithVal(b, v, {src}) /\ no = << >>
                          /\ e = WithVal(WithVal(Plus(x, {{src}}, {}, {}), total, S), v, {src})
                          /\ h = WithVal(Plus(x, {{src}}, {}, {}), total, S \union {src})
  OBVIOUS
<1>2. PICK b, c, e, h, no : /\ b = WithVal(x, total, S) /\ c = WithVal(b, v, {src}) /\ no = << >>
                            /\ e = WithVal(WithVal(Plus(x, {{src}}, {}, {}), total, S), v, {src})
                            /\ h = WithVal(Plus(x, {{src}}, {}, {}), total, S \union {src})
  BY <1>1
<1>3. b.mark = "none" BY <1>2 DEF WithVal, Facts
<1>4. Mild(r, b, no) BY <1>2, <1>3 DEF Mild
<1>5. Good(m, r, b, Get(v, src, rsmi, no), c) BY <1>2, <1>4, GoodAsk
<1>6. Good(m, r, c, Show({src}, v), e) /\ Good(m, r, e, Add(total, v), h) BY <1>2, GoodAdded
<1>7. Good(m, r, b, Get(v, src, rsmi, no) \o Show({src}, v), e) BY <1>5, <1>6, GoodThen
<1>8. Good(m, r, b, Get(v, src, rsmi, no) \o Show({src}, v) \o Add(total, v), h) BY <1>6, <1>7, GoodThen
<1>9. QED BY <1>2, <1>8

\* What the JSON function of Instinct does with the GPUs.
SumsOf(n) ==
  LoopFrom(0, NSOCKETS - 1,
           [s \in 0..(NSOCKETS - 1) |->
              OnGpus(s, n, [k \in Span(s, n) |->
                         Get(Var("pwr_val"), <<"power", k>>, rsmi, << >>) \o Show(Of("power", k), Var("pwr_val"))
                           \o Add(Var("total_gpu_power"), Var("pwr_val"))])])

\* It sums up the power of the GPUs.
LEMMA InstinctSums ==
  ASSUME NEW m, NEW r, NEW a, "old" \in m.traits, a.mark = "none",
         Var("pwr_val") \notin DOMAIN a.vals, Var("total_gpu_power") \notin DOMAIN a.vals
  PROVE  Good(m, r, WithVal(a, Var("total_gpu_power"), {}), SumsOf(NGPUS),
              WithVal(Plus(a, Claims("power", GpusInReach), {}, {}), Var("total_gpu_power"), Sum("power", GpusInReach)))
<1> DEFINE body(s) == [k \in Span(s, NGPUS) |->
                         Get(Var("pwr_val"), <<"power", k>>, rsmi, << >>) \o Show(Of("power", k), Var("pwr_val"))
                           \o Add(Var("total_gpu_power"), Var("pwr_val"))]
<1>1. \E v, total, what, B : v = Var("pwr_val") /\ total = Var("total_gpu_power") /\ what = "power" /\ B = {} OBVIOUS
<1>2. PICK v, total, what, B : v = Var("pwr_val") /\ total = Var("total_gpu_power") /\ what = "power" /\ B = {} BY <1>1
<1>3. v # total BY <1>2 DEF Var
<1>4. \E loop : loop = [s \in 0..(NSOCKETS - 1) |-> OnGpus(s, NGPUS, body(s))] OBVIOUS
<1>5. PICK loop : loop = [s \in 0..(NSOCKETS - 1) |-> OnGpus(s, NGPUS, body(s))] BY <1>4
<1>6. SumsOf(NGPUS) = LoopFrom(0, NSOCKETS - 1, loop) BY <1>5 DEF SumsOf
<1>7. ASSUME NEW s \in 0..(NSOCKETS - 1), NEW x, NEW S, Alike(x, a), S \intersect Sum(what, Span(s, NGPUS)) = {}
      PROVE  Good(m, r, WithVal(x, total, S), loop[s],
                  WithVal(Plus(x, Claims(what, Span(s, NGPUS)), {}, {}), total, S \union Sum(what, Span(s, NGPUS))))
  <2>1. \E p : p = body(s) OBVIOUS
  <2>2. PICK p : p = body(s) BY <2>1
  <2>3. loop[s] = OnGpus(s, NGPUS, p) BY <1>5, <2>2
  <2>4. ASSUME NEW k \in Span(s, NGPUS), NEW y, NEW W, Alike(y, x), <<what, k>> \notin W
        PROVE  Good(m, r, WithVal(y, total, W), p[k],
                    WithVal(Plus(y, {{<<what, k>>}}, {}, {}), total, W \union {<<what, k>>}))
    <3>1. \E src : src = <<what, k>> OBVIOUS
    <3>2. PICK src : src = <<what, k>> BY <3>1
    <3>3. p[k] = Get(v, src, rsmi, << >>) \o Show({src}, v) \o Add(total, v) BY <1>2, <2>2, <3>2 DEF Of
    <3> HIDE DEF body
    <3>4. y.mark = "none" /\ v \notin DOMAIN y.vals /\ total \notin DOMAIN y.vals BY <1>2, <1>7, <2>4 DEF Alike
    <3>5. src \notin W BY <2>4, <3>2
    <3>6. Good(m, r, WithVal(y, total, W), Get(v, src, rsmi, << >>) \o Show({src}, v) \o Add(total, v),
               WithVal(Plus(y, {{src}}, {}, {}), total, W \union {src}))
      BY <1>3, <3>4, <3>5, InstinctAdds
    <3>7. QED BY <3>2, <3>3, <3>6
  <2> HIDE DEF body
  <2>5. total \notin DOMAIN x.vals BY <1>2, <1>7 DEF Alike
  <2>6. \A k \in Span(s, NGPUS) : \A y, W :
          Alike(y, x) /\ <<what, k>> \notin W =>
            Good(m, r, WithVal(y, total, W), p[k],
                 WithVal(Plus(y, {{<<what, k>>}}, {}, {}), total, W \union {<<what, k>>}))
    BY <2>4
  <2>7. Good(m, r, WithVal(x, total, S), OnGpus(s, NGPUS, p),
             WithVal(Plus(x, Claims(what, Span(s, NGPUS)), {}, {}), total, S \union Sum(what, Span(s, NGPUS))))
    BY <1>7, <2>5, <2>6, SpanTotals
  <2>8. QED BY <2>3, <2>7
<1> HIDE DEF body
<1>8. \A s \in 0..(NSOCKETS - 1) : \A x, S :
        Alike(x, a) /\ S \intersect Sum(what, Span(s, NGPUS)) = {} =>
          Good(m, r, WithVal(x, total, S), loop[s],
               WithVal(Plus(x, Claims(what, Span(s, NGPUS)), {}, {}), total, S \union Sum(what, Span(s, NGPUS))))
  BY <1>7
<1>9. total \notin DOMAIN a.vals /\ B \intersect Sum(what, GpusInReach) = {} BY <1>2
<1>10. Good(m, r, WithVal(a, total, B), LoopFrom(0, NSOCKETS - 1, loop),
            WithVal(Plus(a, Claims(what, GpusInReach), {}, {}), total, B \union Sum(what, GpusInReach)))
  BY ONLY <1>8, <1>9, SocketTotals
<1>11. B \union Sum(what, GpusInReach) = Sum(what, GpusInReach) BY <1>2
<1>12. QED BY <1>2, <1>6, <1>10, <1>11

\* The library around it.
LEMMA InstinctBrackets ==
  ASSUME NEW m, NEW r, NEW o, NEW v, NEW total, NEW P, NEW c, NEW b, "old" \in m.traits, rsmi \in o.opened,
         v \notin DOMAIN o.vals, Good(m, r, WithVal(o, total, {}), P[NGPUS], c),
         Entails(m, Closed(c, {rsmi}), b), b.mark = "none"
  PROVE  Good(m, r, o, Reset(v) \o Reset(total)
                         \o (Open(rsmi, << >>, Exit) \o Count(P, rsmi, {}, Exit) \o Shutdown(rsmi, Complain)), b)
<1>1. \E t, junk : t = WithVal(o, total, {}) /\ junk = {} OBVIOUS
<1>2. PICK t, junk : t = WithVal(o, total, {}) /\ junk = {} BY <1>1
<1>3. Good(m, r, o, Reset(v), o)
  <2>1. Entails(m, WithVal(o, v, {}), o) BY Forget
  <2>2. Good(m, r, o, Reset(v), WithVal(o, v, {})) BY GoodReset
  <2>3. QED BY <2>1, <2>2, EntailsSame, GoodWeaker
<1>4. Good(m, r, o, Reset(total), t) BY <1>2, GoodReset
<1>5. Entails(m, Opened(t, rsmi), t)
  <2>1. \E w : w = Opened(t, rsmi) OBVIOUS
  <2>2. PICK w : w = Opened(t, rsmi) BY <2>1
  <2>3. t.opened = o.opened BY <1>2 DEF WithVal, Facts
  <2>4. /\ w.vals = t.vals /\ w.claims = t.claims /\ w.taken = t.taken /\ w.bound = t.bound /\ w.wanted = t.wanted
        /\ w.mark = t.mark /\ w.opened = t.opened
    BY <2>2, <2>3 DEF Opened, Facts
  <2>5. Entails(m, w, t) BY <2>4 DEF Entails
  <2>6. QED BY <2>2, <2>5
<1>6. Good(m, r, t, Open(rsmi, << >>, Exit), t)
  <2>1. Good(m, r, Opened(t, rsmi), << >>, t) BY <1>5, GoodNone
  <2>2. Good(m, r, Refused(t), Exit, t) BY GoodExit
  <2>3. QED BY <2>1, <2>2, GoodOpen
<1>7. Good(m, r, t, Count(P, rsmi, junk, Exit), c)
  <2>1. Good(m, r, t, P[NGPUS], c) BY <1>2
  <2>2. Good(m, r, Refused(t), Exit, c) BY GoodExit
  <2>3. junk = {} => Good(m, r, Refused(t), Exit, c) BY <2>2
  <2>4. \A n \in junk : Good(m, r, Refused(t), Exit \o P[n], c) BY <1>2
  <2>5. QED BY ONLY <2>1, <2>3, <2>4, GoodCount
<1>8. Good(m, r, c, Shutdown(rsmi, Complain), b)
  <2>1. Entails(m, Complained(Refused(c)), b) BY ComplainedIs, OldStands
  <2>2. Good(m, r, Refused(c), Complain, b) BY <2>1, GoodComplain
  <2>3. QED BY <2>2, GoodShutdown
<1>9. Good(m, r, t, Open(rsmi, << >>, Exit) \o Count(P, rsmi, junk, Exit), c) BY <1>6, <1>7, GoodThen
<1>10. Good(m, r, t, Open(rsmi, << >>, Exit) \o Count(P, rsmi, junk, Exit) \o Shutdown(rsmi, Complain), b)
  BY <1>8, <1>9, GoodThen
<1>11. Good(m, r, o, Reset(v) \o Reset(total), t) BY <1>3, <1>4, GoodThen
<1>12. Good(m, r, o, Reset(v) \o Reset(total)
              \o (Open(rsmi, << >>, Exit) \o Count(P, rsmi, junk, Exit) \o Shutdown(rsmi, Complain)), b)
  BY <1>10, <1>11, GoodThen
<1>13. QED BY <1>2, <1>12

-----------------------------------------------------------------------------
\* The JSON function as it stands, without and with the total of the node.
LEMMA InstinctJsonIs ==
  ASSUME NEW node \in BOOLEAN, NEW tail, tail = IF node THEN Add(Var("node"), Var("total_gpu_power")) ELSE << >>
  PROVE  rsmi_get_json_power_data(node)
           = Reset(Var("pwr_val")) \o Reset(Var("total_gpu_power"))
               \o (Open(rsmi, << >>, Exit) \o Count([n \in AnyCount |-> SumsOf(n) \o tail], rsmi, {}, Exit)
                     \o Shutdown(rsmi, Complain))
BY DEF rsmi_get_json_power_data, WithDevices, EachSocket, EachGpuOf, Each, SumsOf, OnGpus, Span, AnyCount

\* The JSON function of Instinct where no other platform has put a total.
LEMMA InstinctPowerJson ==
  ASSUME NEW m, "old" \in m.traits
  PROVE  Fine(m, {}, amd_gpu_instinct_get_power_json(FALSE), {})
<1> DEFINE R == rsmi_get_json_power_data(FALSE)
<1>1. amd_gpu_instinct_get_power_json(FALSE) = Reporting(R \o << >> \o Return(0), Claims("power", GpusInReach))
  <2>1. Claims("power", GpusInReach) \union {} = Claims("power", GpusInReach) OBVIOUS
  <2>2. QED BY <2>1 DEF amd_gpu_instinct_get_power_json
<1>2. \E v, total, D, none, tail, up, P :
        /\ v = Var("pwr_val") /\ total = Var("total_gpu_power") /\ D = Claims("power", GpusInReach) /\ none = {}
        /\ tail = << >> /\ up = {rsmi} /\ P = [n \in AnyCount |-> SumsOf(n) \o tail]
  OBVIOUS
<1>3. PICK v, total, D, none, tail, up, P :
        /\ v = Var("pwr_val") /\ total = Var("total_gpu_power") /\ D = Claims("power", GpusInReach) /\ none = {}
        /\ tail = << >> /\ up = {rsmi} /\ P = [n \in AnyCount |-> SumsOf(n) \o tail]
  BY <1>2
<1>4. \E o, q, g : o = Base(up) /\ q = Outcome(up, D, none, none) /\ g = Outcome(none, D, none, none) OBVIOUS
<1>5. PICK o, q, g : o = Base(up) /\ q = Outcome(up, D, none, none) /\ g = Outcome(none, D, none, none) BY <1>4
<1>6. Blank(o) /\ Blank(q) /\ Easy(g) /\ o.opened = up BY <1>5, OutcomeIs DEF Base
<1>7. DOMAIN o.vals = {} /\ o.mark = "none" /\ DOMAIN q.vals = {} /\ g.mark = "none" BY <1>6 DEF Blank, Easy
<1>8. R = Reset(v) \o Reset(total)
            \o (Open(rsmi, << >>, Exit) \o Count(P, rsmi, none, Exit) \o Shutdown(rsmi, Complain))
  <2>1. tail = IF FALSE THEN Add(Var("node"), Var("total_gpu_power")) ELSE << >> BY <1>3
  <2>2. rsmi_get_json_power_data(FALSE)
          = Reset(Var("pwr_val")) \o Reset(Var("total_gpu_power"))
              \o (Open(rsmi, << >>, Exit) \o Count([n \in AnyCount |-> SumsOf(n) \o tail], rsmi, {}, Exit)
                    \o Shutdown(rsmi, Complain))
    BY <2>1, InstinctJsonIs
  <2>3. QED BY <1>3, <2>2
<1> HIDE DEF R
<1>9. P[NGPUS] = SumsOf(NGPUS) \o tail BY <1>3 DEF AnyCount
<1>10. Good(m, g, WithVal(o, total, {}), P[NGPUS], q)
  <2>1. Good(m, g, WithVal(o, Var("total_gpu_power"), {}), SumsOf(NGPUS),
             WithVal(Plus(o, Claims("power", GpusInReach), {}, {}), Var("total_gpu_power"), Sum("power", GpusInReach)))
    BY <1>7, InstinctSums
  <2>2. Plus(o, Claims("power", GpusInReach), {}, {}) = q BY <1>3, <1>5, OutcomeIs
  <2>3. \E S, w : S = Sum("power", GpusInReach) /\ w = WithVal(q, total, S) OBVIOUS
  <2>4. PICK S, w : S = Sum("power", GpusInReach) /\ w = WithVal(q, total, S) BY <2>3
  <2>5. Good(m, g, WithVal(o, total, {}), SumsOf(NGPUS), w) BY <1>3, <2>1, <2>2, <2>4
  <2>6. total \notin DOMAIN q.vals BY <1>7
  <2>7. Entails(m, w, q) BY <2>4, <2>6, Forget
  <2>8. Good(m, g, w, tail, q) BY <1>3, <2>7, GoodNone
  <2>9. QED BY <1>9, <2>5, <2>8, GoodThen
<1>11. Entails(m, Closed(q, {rsmi}), g) BY <1>3, <1>5, ClosedOutcome
<1>12. rsmi \in o.opened /\ v \notin DOMAIN o.vals BY <1>3, <1>6, <1>7
<1>13. Good(m, g, o, Reset(v) \o Reset(total)
              \o (Open(rsmi, << >>, Exit) \o Count(P, rsmi, {}, Exit) \o Shutdown(rsmi, Complain)), g)
  BY <1>7, <1>10, <1>11, <1>12, InstinctBrackets
<1>14. Good(m, g, o, R, g) BY <1>3, <1>8, <1>13
<1>15. Entails(m, Base({}), o) BY <1>5, MayBeOpen
<1>16. Good(m, g, Base({}), R, g) BY <1>14, <1>15, EntailsSame, GoodWeaker
<1>17. Good(m, g, g, tail, g) BY <1>3, EntailsSame, GoodNone
<1>18. Good(m, g, Base({}), R \o tail, g) BY <1>16, <1>17, GoodThen
<1>19. Good(m, g, Base({}), R \o tail \o Return(0), g) BY <1>18, GoodEnd
<1>20. Fine(m, {}, Reporting(R \o tail \o Return(0), D), {}) BY <1>3, <1>5, <1>19, ReportingFine
<1>21. QED BY <1>1, <1>3, <1>20

\* And the one that adds to the total of the node.
LEMMA InstinctPowerNode ==
  ASSUME NEW m, "old" \in m.traits
  PROVE  Noted(m, amd_gpu_instinct_get_power_json(TRUE))
<1> DEFINE R == rsmi_get_json_power_data(TRUE)
<1>1. amd_gpu_instinct_get_power_json(TRUE)
        = Reporting(R \o Show(Sum("power", GpusInReach) \union NodePower, Var("node")) \o Return(0),
                    Claims("power", GpusInReach) \union {Sum("power", GpusInReach) \union NodePower})
  BY DEF amd_gpu_instinct_get_power_json
<1>2. \E v, total, node, D, none, tail, up, P, S, N, sum :
        /\ v = Var("pwr_val") /\ total = Var("total_gpu_power") /\ node = Var("node")
        /\ D = Claims("power", GpusInReach) /\ none = {} /\ S = Sum("power", GpusInReach) /\ N = NodePower
        /\ sum = S \union N /\ tail = Add(node, total) /\ up = {rsmi} /\ P = [n \in AnyCount |-> SumsOf(n) \o tail]
  OBVIOUS
<1>3. PICK v, total, node, D, none, tail, up, P, S, N, sum :
        /\ v = Var("pwr_val") /\ total = Var("total_gpu_power") /\ node = Var("node")
        /\ D = Claims("power", GpusInReach) /\ none = {} /\ S = Sum("power", GpusInReach) /\ N = NodePower
        /\ sum = S \union N /\ tail = Add(node, total) /\ up = {rsmi} /\ P = [n \in AnyCount |-> SumsOf(n) \o tail]
  BY <1>2
<1>4. \E e, o, q, c, h, b, g :
        /\ e = Base(up) /\ o = WithVal(e, node, N) /\ q = Outcome(up, D, none, none) /\ c = WithVal(q, node, sum)
        /\ h = Outcome(none, D, none, none) /\ b = WithVal(h, node, sum) /\ g = Outcome(none, D \union {sum}, none, none)
  OBVIOUS
<1>5. PICK e, o, q, c, h, b, g :
        /\ e = Base(up) /\ o = WithVal(e, node, N) /\ q = Outcome(up, D, none, none) /\ c = WithVal(q, node, sum)
        /\ h = Outcome(none, D, none, none) /\ b = WithVal(h, node, sum) /\ g = Outcome(none, D \union {sum}, none, none)
  BY <1>4
<1>6. Blank(e) /\ Blank(q) /\ Blank(h) /\ e.opened = up BY <1>5, OutcomeIs DEF Base
<1>7. DOMAIN e.vals = {} /\ e.mark = "none" /\ DOMAIN q.vals = {} /\ DOMAIN h.vals = {} /\ h.mark = "none" BY <1>6 DEF Blank
<1>8. R = Reset(v) \o Reset(total)
            \o (Open(rsmi, << >>, Exit) \o Count(P, rsmi, none, Exit) \o Shutdown(rsmi, Complain))
  <2>1. tail = IF TRUE THEN Add(Var("node"), Var("total_gpu_power")) ELSE << >> BY <1>3
  <2>2. rsmi_get_json_power_data(TRUE)
          = Reset(Var("pwr_val")) \o Reset(Var("total_gpu_power"))
              \o (Open(rsmi, << >>, Exit) \o Count([n \in AnyCount |-> SumsOf(n) \o tail], rsmi, {}, Exit)
                    \o Shutdown(rsmi, Complain))
    BY <2>1, InstinctJsonIs
  <2>3. QED BY <1>3, <2>2
<1> HIDE DEF R
<1>9. P[NGPUS] = SumsOf(NGPUS) \o tail BY <1>3 DEF AnyCount
<1>10. v # node /\ total # node /\ v # total BY <1>3 DEF Var
<1>11. DOMAIN o.vals = {node} /\ o.opened = up /\ o.mark = "none" BY <1>5, <1>6, <1>7, ValsAre
<1>12. Good(m, g, WithVal(o, total, {}), P[NGPUS], c)
  <2>1. \E y, w : y = Plus(o, D, none, none) /\ w = WithVal(y, total, S) OBVIOUS
  <2>2. PICK y, w : y = Plus(o, D, none, none) /\ w = WithVal(y, total, S) BY <2>1
  <2>3. Good(m, g, WithVal(o, Var("total_gpu_power"), {}), SumsOf(NGPUS),
             WithVal(Plus(o, Claims("power", GpusInReach), {}, {}), Var("total_gpu_power"), Sum("power", GpusInReach)))
    BY <1>3, <1>10, <1>11, InstinctSums
  <2>4. Good(m, g, WithVal(o, total, {}), SumsOf(NGPUS), w) BY <1>3, <2>2, <2>3
  <2>5. y = WithVal(q, node, N)
    <3>1. Plus(WithVal(e, node, N), D, none, none) = WithVal(Plus(e, D, none, none), node, N) BY WithValPlus
    <3>2. Plus(e, D, none, none) = q BY <1>5, OutcomeIs
    <3>3. QED BY <1>5, <2>2, <3>1, <3>2
  <2>6. N \intersect S = {} BY <1>3 DEF NodePower, Sum
  <2>7. node \notin DOMAIN q.vals /\ total \notin DOMAIN q.vals BY <1>7
  <2>8. Good(m, g, WithVal(WithVal(q, node, N), total, S), Add(node, total), WithVal(q, node, N \union S))
    BY <1>10, <2>6, <2>7, GoodAddOff
  <2>9. N \union S = sum BY <1>3
  <2>10. Good(m, g, w, tail, c) BY <1>3, <1>5, <2>2, <2>5, <2>8, <2>9
  <2>11. QED BY <1>9, <2>4, <2>10, GoodThen
<1>13. Entails(m, Closed(c, {rsmi}), b)
  <2>1. \E w : w = Closed(c, {rsmi}) OBVIOUS
  <2>2. PICK w : w = Closed(c, {rsmi}) BY <2>1
  <2>3. /\ c.vals = b.vals /\ c.claims = b.claims /\ c.opened = up /\ c.taken = b.taken /\ c.bound = b.bound
        /\ c.wanted = b.wanted /\ c.mark = b.mark /\ b.opened = {}
    <3>1. q.vals = h.vals BY <1>5 DEF Outcome, Facts
    <3>2. /\ q.claims = h.claims /\ q.opened = up /\ h.opened = {} /\ q.taken = h.taken /\ q.bound = h.bound
          /\ q.wanted = h.wanted /\ q.mark = h.mark
      BY <1>3, <1>5, OutcomeIs
    <3>3. QED BY <1>5, <3>1, <3>2 DEF WithVal, Facts
  <2>4. /\ w.vals = b.vals /\ w.claims = b.claims /\ w.opened = up \ {rsmi} /\ w.taken = b.taken /\ w.bound = b.bound
        /\ w.wanted = b.wanted /\ w.mark = b.mark
    BY <2>2, <2>3 DEF Closed, Facts
  <2>5. w.opened \subseteq b.opened BY <1>3, <2>4
  <2>6. Entails(m, w, b) BY <2>4, <2>5 DEF Entails
  <2>7. QED BY <2>2, <2>6
<1>14. rsmi \in o.opened /\ v \notin DOMAIN o.vals BY <1>3, <1>10, <1>11
<1>15. b.mark = "none" BY <1>5, <1>7, ValsAre
<1>16. Good(m, g, o, Reset(v) \o Reset(total)
              \o (Open(rsmi, << >>, Exit) \o Count(P, rsmi, {}, Exit) \o Shutdown(rsmi, Complain)), b)
  BY <1>12, <1>13, <1>14, <1>15, InstinctBrackets
<1>17. Good(m, g, o, R, b) BY <1>3, <1>8, <1>16
<1>18. \E y : y = WithVal(Base({}), node, N) OBVIOUS
<1>19. PICK y : y = WithVal(Base({}), node, N) BY <1>18
<1>20. Entails(m, y, o)
  <2>1. /\ y.vals = o.vals /\ y.claims = o.claims /\ y.taken = o.taken /\ y.bound = o.bound /\ y.mark = o.mark
        /\ y.wanted = o.wanted /\ y.opened = {}
    BY <1>5, <1>19 DEF Base, Outcome, WithVal, Facts
  <2>2. QED BY <2>1 DEF Entails
<1>21. Good(m, g, y, R, b) BY <1>17, <1>20, EntailsSame, GoodWeaker
<1>22. Good(m, g, b, Show(sum, node), g)
  <2>1. node \notin DOMAIN h.vals BY <1>7
  <2>2. Good(m, g, WithVal(h, node, sum), Show(sum, node), Plus(h, {sum}, {}, {})) BY <2>1, GoodGivenOut
  <2>3. Plus(h, {sum}, {}, {}) = g
    <3>1. \E t, f, z : t = {sum} /\ f = {} /\ z = Base(none) OBVIOUS
    <3>2. PICK t, f, z : t = {sum} /\ f = {} /\ z = Base(none) BY <3>1
    <3>3. Plus(Plus(z, D, none, none), t, f, f) = Plus(z, D \union t, none \union f, none \union f) BY ONLY PlusPlus
    <3>4. Plus(z, D, none, none) = h BY <1>5, <3>2, OutcomeIs
    <3>5. Plus(z, D \union {sum}, none, none) = g BY <1>5, <3>2, OutcomeIs
    <3>6. none \union f = none BY <1>3, <3>2
    <3>7. QED BY <3>2, <3>3, <3>4, <3>5, <3>6
  <2>4. QED BY <1>5, <2>2, <2>3
<1>23. Good(m, g, y, R \o Show(sum, node), g) BY <1>21, <1>22, GoodThen
<1>24. Good(m, g, y, R \o Show(sum, node) \o Return(0), g) BY <1>23, GoodEnd
<1>25. \E F : F = Reporting(R \o Show(sum, node) \o Return(0), D \union {sum}) OBVIOUS
<1>26. PICK F : F = Reporting(R \o Show(sum, node) \o Return(0), D \union {sum}) BY <1>25
<1>27. F.plan = R \o Show(sum, node) \o Return(0) /\ Reached({}, F, {}) = g BY <1>3, <1>5, <1>26 DEF Reporting, Reached
<1>28. Noted(m, F) BY <1>3, <1>19, <1>24, <1>27 DEF Noted
<1>29. amd_gpu_instinct_get_power_json(TRUE) = F BY <1>1, <1>3, <1>26
<1>30. QED BY <1>28, <1>29

\* The features of the platform instinct.
LEMMA InstinctNames ==
  /\ Features["instinct"] = InstinctFeatures
  /\ DOMAIN InstinctFeatures =
       {"get_power", "get_power_limit", "get_thermals", "get_thermals_json", "get_clocks",
        "get_clocks_json", "get_gpu_utilization", "get_gpu_utilization_json",
        "cap_each_gpu_power_limit", "get_power_json", "get_power_json_node"}
  /\ InstinctFeatures["get_power"] = amd_gpu_instinct_get_power
  /\ InstinctFeatures["get_power_limit"] = amd_gpu_instinct_get_power_limit
  /\ InstinctFeatures["get_thermals"] = amd_gpu_instinct_get_thermals
  /\ InstinctFeatures["get_thermals_json"] = amd_gpu_instinct_get_thermals_json
  /\ InstinctFeatures["get_clocks"] = amd_gpu_instinct_get_clocks
  /\ InstinctFeatures["get_clocks_json"] = amd_gpu_instinct_get_clocks_json
  /\ InstinctFeatures["get_gpu_utilization"] = amd_gpu_instinct_get_gpu_utilization
  /\ InstinctFeatures["get_gpu_utilization_json"] = amd_gpu_instinct_get_gpu_utilization_json
  /\ InstinctFeatures["cap_each_gpu_power_limit"] = amd_gpu_instinct_cap_each_gpu_power_limit
  /\ InstinctFeatures["get_power_json"] = amd_gpu_instinct_get_power_json(FALSE)
  /\ InstinctFeatures["get_power_json_node"] = amd_gpu_instinct_get_power_json(TRUE)
<1>1. Features["instinct"] = InstinctFeatures BY DEF Features
<1>2. QED BY <1>1 DEF InstinctFeatures

\* The devices its caps are for.
LEMMA InstinctDevices ==
  ASSUME NEW f
  PROVE  {<<"gpu", d>> : d \in GpusInReach} \subseteq Mode("instinct", f).devs
<1>1. \E p, h : p = "instinct" /\ h = "cap_each_gpu_power_limit" OBVIOUS
<1>2. PICK p, h : p = "instinct" /\ h = "cap_each_gpu_power_limit" BY <1>1
<1>3. h \in DOMAIN Features[p] BY <1>2, InstinctNames
<1>4. Features[p][h].caps = {<<"gpu", d>> : d \in GpusInReach}
  <2>1. Features[p][h] = amd_gpu_instinct_cap_each_gpu_power_limit BY <1>2, InstinctNames
  <2>2. amd_gpu_instinct_cap_each_gpu_power_limit.caps = {<<"gpu", d>> : d \in GpusInReach}
    BY CappingIs DEF amd_gpu_instinct_cap_each_gpu_power_limit
  <2>3. QED BY <2>1, <2>2
<1>5. \E S : S = Features[p][h].caps OBVIOUS
<1>6. PICK S : S = Features[p][h].caps BY <1>5
<1>7. S \subseteq Mode(p, f).devs BY <1>3, <1>6, CappedDevices
<1>8. QED BY <1>2, <1>4, <1>6, <1>7

\* Each feature of AMD Instinct is good.
LEMMA InstinctGood ==
  ASSUME NEW f \in DOMAIN Features["instinct"]
  PROVE  Good(Mode("instinct", f), Goal("instinct", f), Start(Mode("instinct", f)),
              Features["instinct"][f].plan, Goal("instinct", f))
<1> DEFINE p == "instinct"
           m == Mode(p, f)
           F == Features[p][f]
<1>1. F = InstinctFeatures[f] /\ f \in DOMAIN InstinctFeatures BY InstinctNames
<1>2. <<p, f>> \notin Halves /\ <<p, f>> \notin CapsNode BY DEF Halves, CapsNode
<1>3. f \in {"get_gpu_utilization_json"} => <<p, f>> \in NeverAsks BY DEF NeverAsks, FeaturesOf
<1>4. f \in {"get_gpu_utilization_json"} => "never" \in m.traits BY <1>3, TraitsOf
<1>5. f \in {"get_clocks", "get_clocks_json", "get_gpu_utilization", "get_power_json", "get_power_json_node"}
        => <<p, f>> \in KeepOldValues
  BY DEF KeepOldValues, FeaturesOf
<1>6. f \in {"get_clocks", "get_clocks_json", "get_gpu_utilization", "get_power_json", "get_power_json_node"}
        => "old" \in m.traits
  BY <1>5, TraitsOf
<1>7. {<<"gpu", d>> : d \in GpusInReach} \subseteq m.devs BY InstinctDevices
<1> HIDE DEF m, F
<1>8. ASSUME f \notin {"get_power_json_node"} PROVE Fine(m, {}, F, {})
  <2>1. CASE f = "get_power"
    <3>1. F = amd_gpu_instinct_get_power BY <2>1, <1>1, InstinctNames
    <3>2. Fine(m, {}, amd_gpu_instinct_get_power, {}) BY <2>1, InstinctPower
    <3>3. QED BY <3>1, <3>2
  <2>2. CASE f = "get_power_limit"
    <3>1. F = amd_gpu_instinct_get_power_limit BY <2>2, <1>1, InstinctNames
    <3>2. Fine(m, {}, amd_gpu_instinct_get_power_limit, {}) BY <2>2, InstinctPowerLimit
    <3>3. QED BY <3>1, <3>2
  <2>3. CASE f = "get_thermals"
    <3>1. F = amd_gpu_instinct_get_thermals BY <2>3, <1>1, InstinctNames
    <3>2. Fine(m, {}, amd_gpu_instinct_get_thermals, {}) BY <2>3, InstinctThermals
    <3>3. QED BY <3>1, <3>2
  <2>4. CASE f = "get_thermals_json"
    <3>1. F = amd_gpu_instinct_get_thermals_json BY <2>4, <1>1, InstinctNames
    <3>2. Fine(m, {}, amd_gpu_instinct_get_thermals_json, {}) BY <2>4, InstinctThermalsJson
    <3>3. QED BY <3>1, <3>2
  <2>5. CASE f = "get_clocks"
    <3>1. F = amd_gpu_instinct_get_clocks BY <2>5, <1>1, InstinctNames
    <3>2. Fine(m, {}, amd_gpu_instinct_get_clocks, {}) BY <2>5, <1>6, InstinctClocks
    <3>3. QED BY <3>1, <3>2
  <2>6. CASE f = "get_clocks_json"
    <3>1. F = amd_gpu_instinct_get_clocks_json BY <2>6, <1>1, InstinctNames
    <3>2. Fine(m, {}, amd_gpu_instinct_get_clocks_json, {}) BY <2>6, <1>6, InstinctClocksJson
    <3>3. QED BY <3>1, <3>2
  <2>7. CASE f = "get_gpu_utilization"
    <3>1. F = amd_gpu_instinct_get_gpu_utilization BY <2>7, <1>1, InstinctNames
    <3>2. Fine(m, {}, amd_gpu_instinct_get_gpu_utilization, {}) BY <2>7, <1>6, InstinctUtilization
    <3>3. QED BY <3>1, <3>2
  <2>8. CASE f = "get_gpu_utilization_json"
    <3>1. F = amd_gpu_instinct_get_gpu_utilization_json BY <2>8, <1>1, InstinctNames
    <3>2. Fine(m, {}, amd_gpu_instinct_get_gpu_utilization_json, {}) BY <2>8, <1>4, InstinctUtilizationJson
    <3>3. QED BY <3>1, <3>2
  <2>9. CASE f = "cap_each_gpu_power_limit"
    <3>1. F = amd_gpu_instinct_cap_each_gpu_power_limit BY <2>9, <1>1, InstinctNames
    <3>2. Fine(m, {}, amd_gpu_instinct_cap_each_gpu_power_limit, {}) BY <2>9, <1>7, InstinctCap
    <3>3. QED BY <3>1, <3>2
  <2>10. CASE f = "get_power_json"
    <3>1. F = amd_gpu_instinct_get_power_json(FALSE) BY <2>10, <1>1, InstinctNames
    <3>2. Fine(m, {}, amd_gpu_instinct_get_power_json(FALSE), {}) BY <2>10, <1>6, InstinctPowerJson
    <3>3. QED BY <3>1, <3>2
  <2>11. QED BY <1>1, <1>8,  InstinctNames, <2>1, <2>2, <2>3, <2>4, <2>5, <2>6, <2>7, <2>8, <2>9, <2>10
<1>9. ASSUME f = "get_power_json_node" PROVE Noted(m, F) /\ F.caps = {}
  <2>1. F = amd_gpu_instinct_get_power_json(TRUE) BY <1>9, <1>1, InstinctNames
  <2>2. Noted(m, amd_gpu_instinct_get_power_json(TRUE)) BY <1>9, <1>6, InstinctPowerNode
  <2>3. amd_gpu_instinct_get_power_json(TRUE).caps = {} BY ReportingIs DEF amd_gpu_instinct_get_power_json
  <2>4. QED BY <2>1, <2>2, <2>3
<1> HIDE DEF p
<1>10. CASE f \notin {"get_power_json_node"} BY <1>2, <1>8, <1>10, FineFeature DEF m, p, F
<1>11. CASE f \in {"get_power_json_node"}
  <2>1. f = "get_power_json_node" BY <1>11
  <2>2. Noted(m, F) /\ F.caps = {} BY <2>1, <1>9
  <2>3. QED BY <1>2, <2>2, NotedFeature DEF m, p, F
<1>12. QED BY <1>10, <1>11

-----------------------------------------------------------------------------
\* ARM.

\* Where old values are given out, a refusal voids what is known of the variables.
LEMMA OldForm ==
  ASSUME NEW m, NEW a, NEW b, "old" \in m.traits, a.mark \in {"refused", "complained"}, b.mark = "none",
         a.opened \subseteq b.opened, a.taken = b.taken, a.bound = b.bound, a.wanted = b.wanted
  PROVE  Entails(m, a, b)
BY DEF Entails, Exact

\* There, whatever is said of a function that fails is void.
LEMMA OldFail ==
  ASSUME NEW m, NEW r, NEW a, NEW b, "old" \in m.traits, r.mark = "none"
  PROVE  Good(m, r, a, Fail, b)
<1>1. \E c : c = Complained(a) OBVIOUS
<1>2. PICK c : c = Complained(a) BY <1>1
<1>3. Good(m, r, a, Complain, c) BY <1>2, EntailsSame, GoodComplain
<1>4. c.mark = "complained" BY <1>2, ComplainedIs
<1>5. Entails(m, c, r) BY <1>4, OldStands
<1>6. Good(m, r, c, Return(-1), b) BY <1>5, GoodReturn
<1>7. QED BY <1>3, <1>6, GoodThen DEF Fail

\* A file is opened; on descriptor 0 something else may be done first.
LEMMA OldOpen ==
  ASSUME NEW m, NEW r, NEW x, NEW z, NEW file, NEW on0, "old" \in m.traits, x.mark = "none", file # rsmi,
         Entails(m, Opened(x, file), z), z.mark = "none", x.opened \subseteq z.opened, x.taken = z.taken,
         x.bound = z.bound, x.wanted = z.wanted, Good(m, r, z, on0, z)
  PROVE  Good(m, r, x, OpenOr0(file, << >>, << >>, on0), z)
<1>1. Good(m, r, Opened(x, file), << >>, z) BY GoodNone
<1>2. Good(m, r, Refused(x), << >>, z)
  <2>1. \E w : w = Refused(x) OBVIOUS
  <2>2. PICK w : w = Refused(x) BY <2>1
  <2>3. w.mark = "refused" /\ w.opened = x.opened /\ w.taken = x.taken /\ w.bound = x.bound /\ w.wanted = x.wanted
    BY <2>2 DEF Refused, Facts
  <2>4. Entails(m, w, z) BY <2>3, OldForm
  <2>5. QED BY <2>2, <2>4, GoodNone
<1>3. Good(m, r, Opened(x, file), on0, z) BY EntailsSame, GoodWeaker
<1>4. QED BY <1>1, <1>2, <1>3, GoodOpenOr0

\* A number is read from a file.
LEMMA ReadFile ==
  ASSUME NEW m, NEW r, NEW x, NEW v, NEW file, "old" \in m.traits, r.mark = "none", x.mark = "none",
         Var("buf") \notin DOMAIN x.vals, v # Var("buf")
  PROVE  Good(m, r, x, read_file_ui64(v, file), WithVal(x, v, {file}))
<1>1. \E buf, c, d, b, w, u, junk :
        /\ buf = Var("buf") /\ junk = {Junk} /\ c = WithVal(x, buf, {file}) /\ d = WithVal(c, v, {file})
        /\ b = WithVal(x, v, {file}) /\ w = Refused(x) /\ u = WithVal(w, buf, junk)
  OBVIOUS
<1>2. PICK buf, c, d, b, w, u, junk :
        /\ buf = Var("buf") /\ junk = {Junk} /\ c = WithVal(x, buf, {file}) /\ d = WithVal(c, v, {file})
        /\ b = WithVal(x, v, {file}) /\ w = Refused(x) /\ u = WithVal(w, buf, junk)
  BY <1>1
<1>3. buf \in DOMAIN c.vals /\ c.vals[buf] = {file} /\ DOMAIN c.vals = DOMAIN x.vals \union {buf}
      /\ (\A t \in DOMAIN x.vals : t # buf => c.vals[t] = x.vals[t]) /\ c.claims = x.claims /\ Rest(c, x)
  BY ONLY <1>2, SetIs
<1>4. v \in DOMAIN d.vals /\ d.vals[v] = {file} /\ DOMAIN d.vals = DOMAIN c.vals \union {v}
      /\ (\A t \in DOMAIN c.vals : t # v => d.vals[t] = c.vals[t]) /\ d.claims = c.claims /\ Rest(d, c)
  BY ONLY <1>2, SetIs
<1>5. v \in DOMAIN b.vals /\ b.vals[v] = {file} /\ DOMAIN b.vals = DOMAIN x.vals \union {v}
      /\ (\A t \in DOMAIN x.vals : t # v => b.vals[t] = x.vals[t]) /\ b.claims = x.claims /\ Rest(b, x)
  BY ONLY <1>2, SetIs
<1>6. w.mark = "refused" /\ w.opened = x.opened /\ w.taken = x.taken /\ w.bound = x.bound /\ w.wanted = x.wanted
  BY <1>2 DEF Refused, Facts
<1>7. u.mark = w.mark /\ u.opened = w.opened /\ u.taken = w.taken /\ u.bound = w.bound /\ u.wanted = w.wanted
  BY <1>2 DEF WithVal, Facts
<1>8. c.mark = "none" /\ x.opened = c.opened /\ x.taken = c.taken /\ x.bound = c.bound /\ x.wanted = c.wanted
  BY <1>3 DEF Rest
<1>9. Entails(m, w, c) BY <1>6, <1>8, OldForm
<1>10. Entails(m, u, c) BY <1>6, <1>7, <1>8, OldForm
<1>11. \E stale : stale = Fork(<< >>, Let(buf, junk)) OBVIOUS
<1>12. PICK stale : stale = Fork(<< >>, Let(buf, junk)) BY <1>11
<1>13. Good(m, r, w, stale, c)
  <2>1. Good(m, r, w, << >>, c) BY <1>9, GoodNone
  <2>2. Good(m, r, w, Let(buf, junk), c) BY <1>2, <1>10, GoodLet
  <2>3. QED BY <1>12, <2>1, <2>2, GoodFork
<1>14. Good(m, r, w, Fork(Fail, stale), c) BY <1>13, OldFail, GoodFork
<1>15. Good(m, r, c, << >>, c) BY EntailsSame, GoodNone
<1>16. Good(m, r, x, GetOr(buf, file, file, << >>, Fork(Fail, stale), stale), c)
  BY <1>2, <1>13, <1>14, <1>15, GoodGet
<1>17. Good(m, r, c, Copy(v, buf), d) BY <1>2, <1>3, GoodCopy
<1>18. Entails(m, d, b)
  <2>1. DOMAIN b.vals \subseteq DOMAIN d.vals BY <1>3, <1>4, <1>5
  <2>2. \A t \in DOMAIN b.vals : d.vals[t] = b.vals[t]
    <3>1. ASSUME NEW t \in DOMAIN x.vals, t # v PROVE d.vals[t] = b.vals[t]
      <4>1. t # buf BY <1>2, <3>1
      <4>2. c.vals[t] = x.vals[t] /\ t \in DOMAIN c.vals BY <1>3, <3>1, <4>1
      <4>3. QED BY <1>4, <1>5, <3>1, <4>2
    <3>2. QED BY <1>4, <1>5, <3>1
  <2>3. d.claims = b.claims /\ d.mark = b.mark /\ d.opened = b.opened /\ d.taken = b.taken /\ d.bound = b.bound
        /\ d.wanted = b.wanted
    BY <1>3, <1>4, <1>5 DEF Rest
  <2>4. QED BY <2>1, <2>2, <2>3 DEF Entails
<1>19. Good(m, r, c, Copy(v, buf), b) BY <1>17, <1>18, EntailsSame, GoodWeaker
<1>20. Good(m, r, x, GetOr(buf, file, file, << >>, Fork(Fail, stale), stale) \o Copy(v, buf), b) BY <1>16, <1>19, GoodThen
<1>21. read_file_ui64(v, file) = GetOr(buf, file, file, << >>, Fork(Fail, stale), stale) \o Copy(v, buf)
  BY <1>2, <1>12 DEF read_file_ui64
<1>22. QED BY <1>2, <1>20, <1>21

\* Several files are opened.
LEMMA FilesOpen ==
  ASSUME NEW m, NEW r, NEW o, NEW F, NEW n \in Nat, n = Len(F), "old" \in m.traits, o.mark = "none", r.mark = "none",
         \A k \in 1..n : F[k] # rsmi /\ F[k] \in o.opened
  PROVE  Good(m, r, o, OpenAll(F), o)
<1>1. \E no, none : no = Fail /\ none = << >> OBVIOUS
<1>2. PICK no, none : no = Fail /\ none = << >> BY <1>1
<1>3. \E rest : rest = [k \in 1..n |-> LoopFrom(k + 1, n, [j \in (k + 1)..n |-> OpenOr0(F[j], none, none, none)])] OBVIOUS
<1>4. PICK rest : rest = [k \in 1..n |-> LoopFrom(k + 1, n, [j \in (k + 1)..n |-> OpenOr0(F[j], none, none, none)])] BY <1>3
<1>5. \E bodies : bodies = [k \in 1..n |-> OpenOr0(F[k], none, none, rest[k] \o no)] OBVIOUS
<1>6. PICK bodies : bodies = [k \in 1..n |-> OpenOr0(F[k], none, none, rest[k] \o no)] BY <1>5
<1>7. OpenAll(F) = LoopFrom(1, n, bodies)
  BY <1>2, <1>4, <1>6 DEF OpenAll, Each, OpenFile
<1>8. ASSUME NEW k \in 1..n, NEW on0, Good(m, r, o, on0, o) PROVE Good(m, r, o, OpenOr0(F[k], none, none, on0), o)
  <2>1. \E w : w = Opened(o, F[k]) OBVIOUS
  <2>2. PICK w : w = Opened(o, F[k]) BY <2>1
  <2>3. /\ w.vals = o.vals /\ w.claims = o.claims /\ w.taken = o.taken /\ w.bound = o.bound /\ w.wanted = o.wanted
        /\ w.mark = o.mark /\ w.opened = o.opened
    BY <2>2 DEF Opened, Facts
  <2>4. Entails(m, w, o) BY <2>3 DEF Entails
  <2>5. QED BY <1>2, <1>8, <2>2, <2>4, OldOpen
<1>9. ASSUME NEW k \in 1..n PROVE Good(m, r, o, bodies[k], o)
  <2>1. \E B : B = [j \in (k + 1)..n |-> OpenOr0(F[j], none, none, none)] OBVIOUS
  <2>2. PICK B : B = [j \in (k + 1)..n |-> OpenOr0(F[j], none, none, none)] BY <2>1
  <2>3. rest[k] = LoopFrom(k + 1, n, B) BY <1>4, <2>2
  <2>4. Good(m, r, o, none, o) BY <1>2, EntailsSame, GoodNone
  <2>5. ASSUME NEW j \in (k + 1)..n PROVE Good(m, r, o, B[j], o)
    <3>1. j \in 1..n OBVIOUS
    <3>2. B[j] = OpenOr0(F[j], none, none, none) BY <2>2
    <3>3. QED BY <1>8, <2>4, <3>1, <3>2
  <2>6. k + 1 \in Int /\ n \in Int /\ k + 1 <= n + 1 OBVIOUS
  <2>7. Good(m, r, o, LoopFrom(k + 1, n, B), o) BY ONLY <2>5, <2>6, GoodSteady
  <2>8. Good(m, r, o, no, o) BY <1>2, OldFail
  <2>9. Good(m, r, o, rest[k] \o no, o) BY <2>3, <2>7, <2>8, GoodThen
  <2>10. QED BY <1>6, <1>8, <2>9
<1>10. 1 \in Int /\ n \in Int /\ 1 <= n + 1 OBVIOUS
<1>11. Good(m, r, o, LoopFrom(1, n, bodies), o) BY ONLY <1>9, <1>10, GoodSteady
<1>12. QED BY <1>7, <1>11

-----------------------------------------------------------------------------
\* What is known of the variables of some files.
FilesOf(F) == {F[k] : k \in 1..Len(F)}
OwnNumbers(F) == [v \in FilesOf(F) |-> {v}]
AreFiles(F) ==
  Len(F) \in Nat /\ \A k \in 1..Len(F) : F[k] # rsmi /\ F[k] # Var("buf") /\ F[k] # Var("node")

\* The variables that are filled are these.
LEMMA FilledIs ==
  ASSUME NEW a, NEW V, NEW W, NEW S, NEW b, b = Filled(a, V, W, S)
  PROVE  /\ DOMAIN b.vals = {V[j] : j \in S} /\ \A v \in DOMAIN b.vals : b.vals[v] = W[v]
         /\ b.claims = a.claims /\ b.opened = a.opened /\ b.taken = a.taken /\ b.bound = a.bound /\ b.wanted = a.wanted
         /\ b.mark = a.mark
BY DEF Filled, Facts

\* Files are read each into its own variable.
LEMMA FilesFill ==
  ASSUME NEW m, NEW r, NEW o, NEW F, NEW n, NEW W, "old" \in m.traits, r.mark = "none", o.mark = "none",
         DOMAIN o.vals = {}, AreFiles(F), n = Len(F), W = OwnNumbers(F)
  PROVE  Good(m, r, o, Each(1, n, LAMBDA k : read_file_ui64(F[k], F[k])), Filled(o, F, W, 1..n))
<1>1. \E I, bodies : /\ I = [k \in 1..(n + 1) |-> Filled(o, F, W, 1..(k - 1))]
                     /\ bodies = [k \in 1..n |-> read_file_ui64(F[k], F[k])]
  OBVIOUS
<1>2. PICK I, bodies : /\ I = [k \in 1..(n + 1) |-> Filled(o, F, W, 1..(k - 1))]
                       /\ bodies = [k \in 1..n |-> read_file_ui64(F[k], F[k])]
  BY <1>1
<1>3. n \in Nat BY DEF AreFiles
<1>4. ASSUME NEW k \in 1..n PROVE Good(m, r, I[k], bodies[k], I[k + 1])
  <2>1. \E S, S2, x, v : S = 1..(k - 1) /\ S2 = 1..k /\ x = Filled(o, F, W, S) /\ v = F[k] OBVIOUS
  <2>2. PICK S, S2, x, v : S = 1..(k - 1) /\ S2 = 1..k /\ x = Filled(o, F, W, S) /\ v = F[k] BY <2>1
  <2>3. S2 = S \union {k} BY <1>3, <2>2
  <2>4. (k + 1) - 1 = k /\ k \in 1..(n + 1) /\ k + 1 \in 1..(n + 1) BY <1>3
  <2>5. I[k] = x /\ I[k + 1] = Filled(o, F, W, S2) BY <1>2, <2>2, <2>4
  <2>6. WithVal(x, v, W[v]) = Filled(o, F, W, S2)
    <3>1. WithVal(Filled(o, F, W, S), F[k], W[F[k]]) = Filled(o, F, W, S2) BY ONLY <2>3, FilledMore
    <3>2. QED BY <2>2, <3>1
  <2>7. W[v] = {v} BY <2>2 DEF OwnNumbers, FilesOf
  <2>8. v # Var("buf") BY <2>2 DEF AreFiles
  <2>9. DOMAIN x.vals = {F[j] : j \in S} /\ x.mark = "none" BY <2>2, FilledIs
  <2>10. Var("buf") \notin DOMAIN x.vals
    <3>1. \A j \in S : j \in 1..n BY <1>3, <2>2
    <3>2. \A j \in S : F[j] # Var("buf") BY <3>1 DEF AreFiles
    <3>3. QED BY <2>9, <3>2
  <2>11. Good(m, r, x, read_file_ui64(v, v), WithVal(x, v, {v})) BY <2>8, <2>9, <2>10, ReadFile
  <2>12. bodies[k] = read_file_ui64(v, v) BY <1>2, <2>2
  <2>13. QED BY <2>5, <2>6, <2>7, <2>11, <2>12
<1>5. 1 \in Int /\ n \in Int /\ 1 <= n + 1 BY <1>3
<1>6. Good(m, r, I[1], LoopFrom(1, n, bodies), I[n + 1]) BY ONLY <1>4, <1>5, GoodLoop
<1>7. I[1] = Filled(o, F, W, {}) /\ I[n + 1] = Filled(o, F, W, 1..n)
  <2>1. 1..(1 - 1) = {} /\ (n + 1) - 1 = n /\ 1 \in 1..(n + 1) /\ n + 1 \in 1..(n + 1) BY <1>3
  <2>2. QED BY <1>2, <2>1
<1>8. Entails(m, o, I[1]) BY <1>7, FilledNothing
<1>9. Good(m, r, o, LoopFrom(1, n, bodies), Filled(o, F, W, 1..n)) BY <1>6, <1>7, <1>8, EntailsSame, GoodWeaker
<1>10. Each(1, n, LAMBDA k : read_file_ui64(F[k], F[k])) = LoopFrom(1, n, bodies) BY <1>2 DEF Each
<1>11. QED BY <1>9, <1>10

\* They are opened, read and closed.
LEMMA FilesRead ==
  ASSUME NEW m, NEW r, NEW F, NEW y, "old" \in m.traits, r.mark = "none", AreFiles(F),
         y = Filled(Base({}), F, OwnNumbers(F), 1..Len(F))
  PROVE  Good(m, r, Base({}), ReadFiles(F), y)
<1>1. \E n, S, W, o, c, w : /\ n = Len(F) /\ S = FilesOf(F) /\ W = OwnNumbers(F) /\ o = Base(S)
                            /\ c = Filled(o, F, W, 1..n) /\ w = Closed(c, S)
  OBVIOUS
<1>2. PICK n, S, W, o, c, w : /\ n = Len(F) /\ S = FilesOf(F) /\ W = OwnNumbers(F) /\ o = Base(S)
                              /\ c = Filled(o, F, W, 1..n) /\ w = Closed(c, S)
  BY <1>1
<1>3. n \in Nat BY <1>2 DEF AreFiles
<1>4. Blank(o) /\ o.opened = S BY <1>2, OutcomeIs DEF Base
<1>5. o.mark = "none" /\ DOMAIN o.vals = {} BY <1>4 DEF Blank
<1>6. \A k \in 1..n : F[k] # rsmi /\ F[k] \in o.opened BY <1>2, <1>4 DEF AreFiles, FilesOf
<1>7. Good(m, r, o, OpenAll(F), o) BY <1>2, <1>3, <1>5, <1>6, FilesOpen
<1>8. Good(m, r, o, Each(1, n, LAMBDA k : read_file_ui64(F[k], F[k])), c) BY <1>2, <1>5, FilesFill
<1>9. Entails(m, w, y)
  <2>1. /\ DOMAIN y.vals = {F[j] : j \in 1..n} /\ \A v \in DOMAIN y.vals : y.vals[v] = W[v]
        /\ y.claims = {} /\ y.opened = {} /\ y.taken = {} /\ y.bound = {} /\ y.wanted = "share" /\ y.mark = "none"
    <3>1. \E z : z = Base({}) OBVIOUS
    <3>2. PICK z : z = Base({}) BY <3>1
    <3>3. z.claims = {} /\ z.opened = {} /\ z.taken = {} /\ z.bound = {} /\ z.wanted = "share" /\ z.mark = "none"
      BY <3>2, OutcomeIs DEF Base
    <3>4. y = Filled(z, F, W, 1..n) BY <1>2, <3>2
    <3>5. DOMAIN y.vals = {F[j] : j \in 1..n} BY ONLY <3>4 DEF Filled, Facts
    <3>6. \A v \in {F[j] : j \in 1..n} : y.vals[v] = W[v] BY ONLY <3>4 DEF Filled, Facts
    <3>7. /\ y.claims = z.claims /\ y.opened = z.opened /\ y.taken = z.taken /\ y.bound = z.bound /\ y.wanted = z.wanted
          /\ y.mark = z.mark
      BY <3>4 DEF Filled, Facts
    <3>8. QED BY <3>3, <3>5, <3>6, <3>7
  <2>2. /\ DOMAIN c.vals = {F[j] : j \in 1..n} /\ \A v \in DOMAIN c.vals : c.vals[v] = W[v]
        /\ c.claims = o.claims /\ c.opened = o.opened /\ c.taken = o.taken /\ c.bound = o.bound /\ c.wanted = o.wanted
        /\ c.mark = o.mark
    BY <1>2, FilledIs
  <2>3. /\ o.claims = {} /\ o.taken = {} /\ o.bound = {} /\ o.wanted = "share" BY <1>2, OutcomeIs DEF Base
  <2>4. /\ w.vals = c.vals /\ w.claims = c.claims /\ w.opened = c.opened \ S /\ w.taken = c.taken /\ w.bound = c.bound
        /\ w.wanted = c.wanted /\ w.mark = c.mark
    BY <1>2 DEF Closed, Facts
  <2>5. w.opened = {} BY <1>4, <2>2, <2>4
  <2>6. DOMAIN w.vals = DOMAIN y.vals /\ \A v \in DOMAIN y.vals : w.vals[v] = y.vals[v] BY <2>1, <2>2, <2>4
  <2>7. /\ w.claims = y.claims /\ w.opened = y.opened /\ w.taken = y.taken /\ w.bound = y.bound /\ w.wanted = y.wanted
        /\ w.mark = y.mark
    BY <1>5, <2>1, <2>2, <2>3, <2>4, <2>5
  <2>8. QED BY <2>6, <2>7 DEF Entails
<1>10. Good(m, r, c, Close(S), y) BY <1>2, <1>9, GoodClose
<1>11. Good(m, r, o, OpenAll(F) \o Each(1, n, LAMBDA k : read_file_ui64(F[k], F[k])), c) BY <1>7, <1>8, GoodThen
<1>12. Good(m, r, o, OpenAll(F) \o Each(1, n, LAMBDA k : read_file_ui64(F[k], F[k])) \o Close(S), y)
  BY <1>10, <1>11, GoodThen
<1>13. ReadFiles(F) = OpenAll(F) \o Each(1, n, LAMBDA k : read_file_ui64(F[k], F[k])) \o Close(S)
  BY <1>2 DEF ReadFiles, FilesOf
<1>14. Entails(m, Base({}), o) BY <1>2, MayBeOpen
<1>15. QED BY <1>12, <1>13, <1>14, EntailsSame, GoodWeaker

\* Their numbers are given out.
LEMMA FilesShown ==
  ASSUME NEW m, NEW r, NEW F, NEW y, NEW g, AreFiles(F),
         y = Filled(Base({}), F, OwnNumbers(F), 1..Len(F)), g = Outcome({}, FileClaims(F), {}, {})
  PROVE  Good(m, r, y, ShowFiles(F), g)
<1>1. \E n, W, o, bodies, C, z : /\ n = Len(F) /\ W = OwnNumbers(F) /\ o = Base({}) /\ C = {W[F[k]] : k \in 1..n}
                                 /\ bodies = [k \in 1..n |-> Show({F[k]}, F[k])] /\ z = Plus(y, C, {}, {})
  OBVIOUS
<1>2. PICK n, W, o, bodies, C, z : /\ n = Len(F) /\ W = OwnNumbers(F) /\ o = Base({}) /\ C = {W[F[k]] : k \in 1..n}
                                   /\ bodies = [k \in 1..n |-> Show({F[k]}, F[k])] /\ z = Plus(y, C, {}, {})
  BY <1>1
<1>3. n \in Nat BY <1>2 DEF AreFiles
<1>4. \A k \in 1..n : W[F[k]] = {F[k]} BY <1>2 DEF OwnNumbers, FilesOf
<1>5. \A k \in 1..n : bodies[k] = Show(W[F[k]], F[k]) BY <1>2, <1>4
<1>6. 1 \in Int /\ n \in Int /\ 1 <= n + 1 BY <1>3
<1>7. Good(m, r, Filled(o, F, W, 1..n), LoopFrom(1, n, bodies),
           Plus(Filled(o, F, W, 1..n), {W[F[k]] : k \in 1..n}, {}, {}))
  BY ONLY <1>5, <1>6, GoodShowFilled
<1>8. y = Filled(o, F, W, 1..n) BY <1>2
<1>9. Good(m, r, y, LoopFrom(1, n, bodies), z) BY <1>2, <1>7, <1>8
<1>10. C = FileClaims(F) BY <1>2, <1>4 DEF FileClaims
<1>11. Entails(m, z, g)
  <2>1. z.claims = y.claims \union C /\ Rest(z, y) BY ONLY <1>2, ShownIs
  <2>2. /\ y.claims = o.claims /\ y.opened = o.opened /\ y.taken = o.taken /\ y.bound = o.bound /\ y.wanted = o.wanted
        /\ y.mark = o.mark
    BY <1>8, FilledIs
  <2>3. o.claims = {} /\ o.opened = {} /\ o.taken = {} /\ o.bound = {} /\ o.wanted = "share" /\ o.mark = "none"
    BY <1>2, OutcomeIs DEF Base
  <2>4. /\ g.claims = FileClaims(F) /\ g.opened = {} /\ g.taken = {} /\ g.bound = {} /\ g.wanted = "share"
        /\ g.mark = "none" /\ Blank(g)
    BY OutcomeIs
  <2>5. DOMAIN g.vals = {} BY <2>4 DEF Blank
  <2>6. g.mark = z.mark /\ g.claims = z.claims /\ g.opened = z.opened /\ g.taken = z.taken /\ g.bound = z.bound
        /\ g.wanted = z.wanted
    BY <1>10, <2>1, <2>2, <2>3, <2>4 DEF Rest
  <2>7. QED BY <2>5, <2>6, ForgetAll
<1>12. Good(m, r, y, LoopFrom(1, n, bodies), g) BY <1>9, <1>11, EntailsSame, GoodWeaker
<1>13. ShowFiles(F) = LoopFrom(1, n, bodies) BY <1>2 DEF ShowFiles, Each
<1>14. QED BY <1>12, <1>13

\* Files that are read, and given out when something else has been done.
LEMMA FilesFine ==
  ASSUME NEW m, NEW F, NEW middle, "old" \in m.traits, AreFiles(F),
         \A r, y : y = Filled(Base({}), F, OwnNumbers(F), 1..Len(F)) => Good(m, r, y, middle, y)
  PROVE  Fine(m, {}, Reporting(ReadFiles(F) \o middle \o ShowFiles(F) \o Return(0), FileClaims(F)), {})
<1>1. \E y, g : y = Filled(Base({}), F, OwnNumbers(F), 1..Len(F)) /\ g = Outcome({}, FileClaims(F), {}, {}) OBVIOUS
<1>2. PICK y, g : y = Filled(Base({}), F, OwnNumbers(F), 1..Len(F)) /\ g = Outcome({}, FileClaims(F), {}, {}) BY <1>1
<1>3. g.mark = "none" BY <1>2, OutcomeIs
<1>4. Good(m, g, Base({}), ReadFiles(F), y) BY <1>2, <1>3, FilesRead
<1>5. Good(m, g, y, middle, y) BY <1>2
<1>6. Good(m, g, y, ShowFiles(F), g) BY <1>2, FilesShown
<1>7. Good(m, g, Base({}), ReadFiles(F) \o middle, y) BY <1>4, <1>5, GoodThen
<1>8. Good(m, g, Base({}), ReadFiles(F) \o middle \o ShowFiles(F), g) BY <1>6, <1>7, GoodThen
<1>9. Good(m, g, Base({}), ReadFiles(F) \o middle \o ShowFiles(F) \o Return(0), g) BY <1>8, GoodEnd
<1>10. QED BY <1>2, <1>9, ReportingFine

\* Files that are read and given out.
LEMMA ReadAndShowFine ==
  ASSUME NEW m, NEW F, "old" \in m.traits, AreFiles(F)
  PROVE  Fine(m, {}, ReadAndShow(F), {})
<1>1. \E y, g : y = Filled(Base({}), F, OwnNumbers(F), 1..Len(F)) /\ g = Outcome({}, FileClaims(F), {}, {}) OBVIOUS
<1>2. PICK y, g : y = Filled(Base({}), F, OwnNumbers(F), 1..Len(F)) /\ g = Outcome({}, FileClaims(F), {}, {}) BY <1>1
<1>3. g.mark = "none" BY <1>2, OutcomeIs
<1>4. Good(m, g, Base({}), ReadFiles(F), y) BY <1>2, <1>3, FilesRead
<1>5. Good(m, g, y, ShowFiles(F), g) BY <1>2, FilesShown
<1>6. Good(m, g, Base({}), ReadFiles(F) \o ShowFiles(F), g) BY <1>4, <1>5, GoodThen
<1>7. Good(m, g, Base({}), ReadFiles(F) \o ShowFiles(F) \o Return(0), g) BY <1>6, GoodEnd
<1>8. Fine(m, {}, Reporting(ReadFiles(F) \o ShowFiles(F) \o Return(0), FileClaims(F)), {}) BY <1>2, <1>7, ReportingFine
<1>9. QED BY <1>8 DEF ReadAndShow

-----------------------------------------------------------------------------
\* The files of the boards.
LEMMA ArmFiles == AreFiles(juno_power) /\ AreFiles(juno_therm) /\ AreFiles(n1_power) /\ AreFiles(n1_therm)
<1>1. ASSUME NEW F, NEW n \in Nat, Len(F) = n, \A k \in 1..n : F[k] \notin {rsmi, Var("buf"), Var("node")}
      PROVE  AreFiles(F)
  BY <1>1 DEF AreFiles
<1>2. ASSUME NEW a, NEW b, NEW c, NEW d, {a, b, c, d} \intersect {rsmi, Var("buf"), Var("node")} = {}
      PROVE  AreFiles(<<a, b, c, d>>)
  <2>1. \E F : F = <<a, b, c, d>> OBVIOUS
  <2>2. PICK F : F = <<a, b, c, d>> BY <2>1
  <2>3. Len(F) = 4 /\ F[1] = a /\ F[2] = b /\ F[3] = c /\ F[4] = d BY <2>2
  <2>4. \A k \in 1..4 : F[k] \notin {rsmi, Var("buf"), Var("node")}
    <3>1. ASSUME NEW k \in 1..4 PROVE F[k] \in {a, b, c, d} BY <2>3
    <3>2. \A e \in {a, b, c, d} : e \notin {rsmi, Var("buf"), Var("node")} BY ONLY <1>2
    <3>3. QED BY ONLY <3>1, <3>2
  <2>5. AreFiles(F) BY <1>1, <2>3, <2>4
  <2>6. QED BY <2>2, <2>5
<1>3. ASSUME NEW a, NEW b, {a, b} \intersect {rsmi, Var("buf"), Var("node")} = {}
      PROVE  AreFiles(<<a, b>>)
  <2>1. \E F : F = <<a, b>> OBVIOUS
  <2>2. PICK F : F = <<a, b>> BY <2>1
  <2>3. Len(F) = 2 /\ F[1] = a /\ F[2] = b BY <2>2
  <2>4. \A k \in 1..2 : F[k] \notin {rsmi, Var("buf"), Var("node")}
    <3>1. ASSUME NEW k \in 1..2 PROVE F[k] \in {a, b} BY <2>3
    <3>2. \A e \in {a, b} : e \notin {rsmi, Var("buf"), Var("node")} BY ONLY <1>3
    <3>3. QED BY ONLY <3>1, <3>2
  <2>5. AreFiles(F) BY <1>1, <2>3, <2>4
  <2>6. QED BY <2>2, <2>5
<1>4. AreFiles(juno_power)
  <2>1. {<<"sys_power", 0>>, <<"big_power", 0>>, <<"little_power", 0>>, <<"gpu_power", 0>>}
          \intersect {rsmi, Var("buf"), Var("node")} = {}
    BY DEF rsmi, Var
  <2>2. QED BY <1>2, <2>1 DEF juno_power
<1>5. AreFiles(juno_therm)
  <2>1. {<<"sys_therm", 0>>, <<"big_therm", 0>>, <<"little_therm", 0>>, <<"gpu_therm", 0>>}
          \intersect {rsmi, Var("buf"), Var("node")} = {}
    BY DEF rsmi, Var
  <2>2. QED BY <1>2, <2>1 DEF juno_therm
<1>6. AreFiles(n1_power)
  <2>1. {<<"cpu_power", 0>>, <<"io_power", 0>>} \intersect {rsmi, Var("buf"), Var("node")} = {} BY DEF rsmi, Var
  <2>2. QED BY <1>3, <2>1 DEF n1_power
<1>7. AreFiles(n1_therm)
  <2>1. {<<"loc1_therm", 0>>, <<"soc_therm", 0>>} \intersect {rsmi, Var("buf"), Var("node")} = {} BY DEF rsmi, Var
  <2>2. QED BY <1>3, <2>1 DEF n1_therm
<1>8. QED BY <1>4, <1>5, <1>6, <1>7

\* What is printed of the boards.
LEMMA ArmPrints ==
  ASSUME NEW m, "old" \in m.traits
  PROVE  /\ Fine(m, {}, arm_cpu_juno_r2_get_power_data, {}) /\ Fine(m, {}, arm_cpu_juno_r2_get_thermal_data, {})
         /\ Fine(m, {}, arm_cpu_neoverse_n1_get_power_data, {}) /\ Fine(m, {}, arm_cpu_neoverse_n1_get_thermal_data, {})
BY ArmFiles, ReadAndShowFine DEF arm_cpu_juno_r2_get_power_data, arm_cpu_juno_r2_get_thermal_data,
     arm_cpu_neoverse_n1_get_power_data, arm_cpu_neoverse_n1_get_thermal_data

\* The power of Juno in JSON, with that of the node, which ends the process below two sockets.
LEMMA JunoJson ==
  ASSUME NEW m, "old" \in m.traits
  PROVE  Fine(m, {}, arm_cpu_juno_r2_json_get_power_data, {})
<1>1. \E F, middle : F = juno_power /\ middle = (IF NSOCKETS < 2 THEN Exit ELSE Copy(Var("node"), Var("sys_power"))) OBVIOUS
<1>2. PICK F, middle : F = juno_power /\ middle = (IF NSOCKETS < 2 THEN Exit ELSE Copy(Var("node"), Var("sys_power")))
  BY <1>1
<1>3. AreFiles(F) BY <1>2, ArmFiles
<1>4. Len(F) = 4 /\ F[1] = Var("sys_power") BY <1>2 DEF juno_power, Var
<1>5. ASSUME NEW r, NEW y, y = Filled(Base({}), F, OwnNumbers(F), 1..Len(F)) PROVE Good(m, r, y, middle, y)
  <2>1. \E o, W, n, node, sys : /\ o = Base({}) /\ W = OwnNumbers(F) /\ n = Len(F) /\ node = Var("node") /\ sys = Var("sys_power")
    OBVIOUS
  <2>2. PICK o, W, n, node, sys : /\ o = Base({}) /\ W = OwnNumbers(F) /\ n = Len(F) /\ node = Var("node") /\ sys = Var("sys_power")
    BY <2>1
  <2>3. y = Filled(o, F, W, 1..n) BY <1>5, <2>2
  <2>4. DOMAIN y.vals = {F[j] : j \in 1..n} BY ONLY <2>3 DEF Filled, Facts
  <2>5. sys \in DOMAIN y.vals /\ node \notin DOMAIN y.vals
    <3>1. \A j \in 1..n : F[j] # node BY <1>3, <2>2 DEF AreFiles
    <3>2. QED BY <1>4, <2>2, <2>4, <3>1
  <2>6. node # sys BY <2>2 DEF Var
  <2>7. Good(m, r, y, Copy(node, sys), WithVal(y, node, y.vals[sys])) BY <2>5, <2>6, GoodCopy
  <2>8. Entails(m, WithVal(y, node, y.vals[sys]), y) BY <2>5, Forget
  <2>9. Good(m, r, y, Copy(node, sys), y) BY <2>7, <2>8, EntailsSame, GoodWeaker
  <2>10. Good(m, r, y, Exit, y) BY GoodExit
  <2>11. QED BY <1>2, <2>2, <2>9, <2>10
<1>6. Fine(m, {}, Reporting(ReadFiles(F) \o middle \o ShowFiles(F) \o Return(0), FileClaims(F)), {})
  BY <1>3, <1>5, FilesFine
<1>7. QED BY <1>2, <1>6 DEF arm_cpu_juno_r2_json_get_power_data

\* The power of Neoverse in JSON, of which nothing is given out.
LEMMA NeoverseJson ==
  ASSUME NEW m, "old" \in m.traits
  PROVE  Fine(m, {}, arm_cpu_neoverse_n1_json_get_power_data, {})
<1>1. \E F, y, g, C : /\ F = n1_power /\ y = Filled(Base({}), F, OwnNumbers(F), 1..Len(F)) /\ C = {}
                      /\ g = Outcome({}, C, {}, {})
  OBVIOUS
<1>2. PICK F, y, g, C : /\ F = n1_power /\ y = Filled(Base({}), F, OwnNumbers(F), 1..Len(F)) /\ C = {}
                        /\ g = Outcome({}, C, {}, {})
  BY <1>1
<1>3. AreFiles(F) BY <1>2, ArmFiles
<1>4. g.mark = "none" BY <1>2, OutcomeIs
<1>5. Good(m, g, Base({}), ReadFiles(F), y) BY <1>2, <1>3, <1>4, FilesRead
<1>6. Entails(m, y, g)
  <2>1. \E o : o = Base({}) OBVIOUS
  <2>2. PICK o : o = Base({}) BY <2>1
  <2>3. y = Filled(o, F, OwnNumbers(F), 1..Len(F)) BY <1>2, <2>2
  <2>4. /\ y.claims = o.claims /\ y.opened = o.opened /\ y.taken = o.taken /\ y.bound = o.bound /\ y.wanted = o.wanted
        /\ y.mark = o.mark
    BY ONLY <2>3 DEF Filled, Facts
  <2>5. g = o BY <1>2, <2>2 DEF Base
  <2>6. DOMAIN o.vals = {} BY <2>2, OutcomeIs DEF Base, Blank
  <2>7. Entails(m, y, o) BY <2>4, <2>6, ForgetAll
  <2>8. QED BY <2>5, <2>7
<1>7. Good(m, g, Base({}), ReadFiles(F), g) BY <1>5, <1>6, EntailsSame, GoodWeaker
<1>8. Good(m, g, Base({}), ReadFiles(F) \o Return(0), g) BY <1>7, GoodEnd
<1>9. Fine(m, {}, Reporting(ReadFiles(F) \o Return(0), C), {}) BY <1>2, <1>8, ReportingFine
<1>10. QED BY <1>2, <1>9 DEF arm_cpu_neoverse_n1_json_get_power_data

\* A file is opened, something done with it, and it is closed.
LEMMA WithFile ==
  ASSUME NEW m, NEW r, NEW x, NEW file, NEW work, NEW z, NEW c, NEW b, "old" \in m.traits, r.mark = "none",
         x.mark = "none", file # rsmi, z = Opened(x, file), Good(m, r, z, work, c), Entails(m, Closed(c, {file}), b)
  PROVE  Good(m, r, x, OpenArm(file) \o work \o Close({file}), b)
<1>1. z.mark = x.mark /\ x.opened \subseteq z.opened /\ z.taken = x.taken /\ z.bound = x.bound /\ z.wanted = x.wanted
  BY DEF Opened, Facts
<1>2. Entails(m, Opened(x, file), z) BY EntailsSame
<1>3. \E no : no = Fail OBVIOUS
<1>4. PICK no : no = Fail BY <1>3
<1>5. Good(m, r, z, no, z) BY <1>4, OldFail
<1>6. Good(m, r, x, OpenOr0(file, << >>, << >>, no), z) BY <1>1, <1>2, <1>5, OldOpen
<1>7. Good(m, r, c, Close({file}), b) BY GoodClose
<1>8. Good(m, r, x, OpenOr0(file, << >>, << >>, no) \o work, c) BY <1>6, GoodThen
<1>9. Good(m, r, x, OpenOr0(file, << >>, << >>, no) \o work \o Close({file}), b) BY <1>7, <1>8, GoodThen
<1>10. QED BY <1>4, <1>9 DEF OpenArm

\* A variable that was read from the file is still known when the file is closed.
LEMMA ClosedVal ==
  ASSUME NEW m, NEW x, NEW file, NEW z, NEW v, NEW X, NEW c, NEW b, z = Opened(x, file), c = WithVal(z, v, X),
         b = WithVal(x, v, X)
  PROVE  Entails(m, Closed(c, {file}), b)
<1>1. \E w : w = Closed(c, {file}) OBVIOUS
<1>2. PICK w : w = Closed(c, {file}) BY <1>1
<1>3. /\ z.vals = x.vals /\ z.claims = x.claims /\ z.taken = x.taken /\ z.bound = x.bound /\ z.wanted = x.wanted
      /\ z.mark = x.mark /\ z.opened = x.opened \union {file}
  BY ONLY z = Opened(x, file) DEF Opened, Facts
<1>4. /\ c.vals = Extend(z.vals, v, X) /\ c.claims = z.claims /\ c.taken = z.taken /\ c.bound = z.bound
      /\ c.wanted = z.wanted /\ c.mark = z.mark /\ c.opened = z.opened
  BY ONLY c = WithVal(z, v, X) DEF WithVal, Facts
<1>5. /\ b.vals = Extend(x.vals, v, X) /\ b.claims = x.claims /\ b.taken = x.taken /\ b.bound = x.bound
      /\ b.wanted = x.wanted /\ b.mark = x.mark /\ b.opened = x.opened
  BY ONLY b = WithVal(x, v, X) DEF WithVal, Facts
<1>6. /\ w.vals = c.vals /\ w.claims = c.claims /\ w.taken = c.taken /\ w.bound = c.bound /\ w.wanted = c.wanted
      /\ w.mark = c.mark /\ w.opened = c.opened \ {file}
  BY ONLY <1>2 DEF Closed, Facts
<1>7. /\ w.vals = b.vals /\ w.claims = b.claims /\ w.taken = b.taken /\ w.bound = b.bound /\ w.wanted = b.wanted
      /\ w.mark = b.mark
  BY ONLY <1>3, <1>4, <1>5, <1>6
<1>8. w.opened \subseteq b.opened BY ONLY <1>3, <1>4, <1>5, <1>6
<1>9. Entails(m, w, b) BY <1>7, <1>8 DEF Entails
<1>10. QED BY <1>2, <1>9

-----------------------------------------------------------------------------
\* A file of a policy is read, closed and given out.
LEMMA PolicyRead ==
  ASSUME NEW m, NEW x, NEW v, NEW file, NEW work, NEW b, "old" \in m.traits, file # rsmi, Blank(x), b = Plus(x, {{file}}, {}, {}),
         \A r, z : r.mark = "none" /\ z.mark = "none" /\ DOMAIN z.vals = {} => Good(m, r, z, work, WithVal(z, v, {file}))
  PROVE  Good(m, b, x, OpenArm(file) \o work \o Close({file}) \o Show({file}, v) \o Return(0), b)
<1>1. \E z, c, d : z = Opened(x, file) /\ c = WithVal(z, v, {file}) /\ d = WithVal(x, v, {file}) OBVIOUS
<1>2. PICK z, c, d : z = Opened(x, file) /\ c = WithVal(z, v, {file}) /\ d = WithVal(x, v, {file}) BY <1>1
<1>3. DOMAIN x.vals = {} /\ x.mark = "none" BY DEF Blank
<1>4. z.mark = "none" /\ DOMAIN z.vals = {} BY <1>2, <1>3 DEF Opened, Facts
<1>5. b.mark = "none" BY <1>3, PlusIs
<1>6. Good(m, b, z, work, c) BY <1>2, <1>4, <1>5
<1>7. Entails(m, Closed(c, {file}), d) BY <1>2, ClosedVal
<1>8. Good(m, b, x, OpenArm(file) \o work \o Close({file}), d) BY <1>2, <1>3, <1>5, <1>6, <1>7, WithFile
<1>9. v \notin DOMAIN x.vals BY <1>3
<1>10. Good(m, b, WithVal(x, v, {file}), Show({file}, v), Plus(x, {{file}}, {}, {})) BY <1>9, GoodGivenOut
<1>11. Good(m, b, d, Show({file}, v), b) BY <1>2, <1>10
<1>12. Good(m, b, x, OpenArm(file) \o work \o Close({file}) \o Show({file}, v), b) BY <1>8, <1>11, GoodThen
<1>13. QED BY <1>12, GoodEnd

\* The files of the sockets, one after the other.
LEMMA PoliciesFine ==
  ASSUME NEW m, NEW F, NEW what, \A s \in 0..(NSOCKETS - 1) : \A x, b :
           Blank(x) /\ b = Plus(x, {{<<what, s>>}}, {}, {}) => Good(m, b, x, F[s], b)
  PROVE  Fine(m, {}, Reporting(LoopFrom(0, NSOCKETS - 1, [s \in 0..(NSOCKETS - 1) |-> Function(F[s])]), Claims(what, Sockets)), {})
<1>1. \E S, C, o, loop, g : /\ S = 0..(NSOCKETS - 1) /\ C = [s \in S |-> {{<<what, s>>}}] /\ o = Base({})
                            /\ loop = [s \in S |-> Function(F[s])] /\ g = Outcome({}, Claims(what, S), {}, {})
  OBVIOUS
<1>2. PICK S, C, o, loop, g : /\ S = 0..(NSOCKETS - 1) /\ C = [s \in S |-> {{<<what, s>>}}] /\ o = Base({})
                              /\ loop = [s \in S |-> Function(F[s])] /\ g = Outcome({}, Claims(what, S), {}, {})
  BY <1>1
<1>3. Blank(o) BY <1>2, OutcomeIs DEF Base
<1>4. \A s \in S : C[s] = {{<<what, s>>}} BY <1>2
<1>5. ASSUME NEW s \in S, NEW x, Alike(x, o) PROVE Good(m, g, x, loop[s], Plus(x, C[s], {}, {}))
  <2>1. Blank(x) BY <1>3, <1>5 DEF Alike, Blank
  <2>2. \E b, f : b = Plus(x, {{<<what, s>>}}, {}, {}) /\ f = F[s] OBVIOUS
  <2>3. PICK b, f : b = Plus(x, {{<<what, s>>}}, {}, {}) /\ f = F[s] BY <2>2
  <2>4. Good(m, b, x, f, b) BY <1>2, <2>1, <2>3
  <2>5. Good(m, g, x, Function(f), b) BY <2>4, EntailsSame, GoodCall
  <2>6. loop[s] = Function(f) BY <1>2, <2>3
  <2>7. QED BY <1>4, <2>3, <2>5, <2>6
<1>6. \A k \in 0..(NSOCKETS - 1) : \A x : Alike(x, o) => Good(m, g, x, loop[k], Plus(x, C[k], {}, {})) BY <1>2, <1>5
<1>7. 0 \in Int /\ NSOCKETS - 1 \in Int /\ 0 <= (NSOCKETS - 1) + 1 BY Spans
<1>8. Good(m, g, o, LoopFrom(0, NSOCKETS - 1, loop), Plus(o, UNION {C[k] : k \in 0..(NSOCKETS - 1)}, {}, {}))
  BY ONLY <1>6, <1>7, GoodReports
<1>9. UNION {C[k] : k \in S} = Claims(what, S) BY ONLY <1>4, ClaimsAre
<1>10. Plus(o, Claims(what, S), {}, {}) = g BY <1>2, OutcomeIs
<1>11. Good(m, g, o, LoopFrom(0, NSOCKETS - 1, loop), g) BY <1>2, <1>8, <1>9, <1>10
<1>12. Fine(m, {}, Reporting(LoopFrom(0, NSOCKETS - 1, loop), Claims(what, S)), {}) BY <1>2, <1>11, ReportingFine
<1>13. QED BY <1>2, <1>12 DEF Sockets

\* The clocks of the sockets of Juno.
LEMMA JunoClocks ==
  ASSUME NEW m, "old" \in m.traits
  PROVE  Fine(m, {}, arm_juno_r2_get_clocks, {})
<1>1. \E F, what, v : /\ F = [s \in 0..(NSOCKETS - 1) |-> arm_cpu_juno_r2_get_clocks_data(s)] /\ what = "scaling_cur_freq"
                      /\ v = Var("freq_val")
  OBVIOUS
<1>2. PICK F, what, v : /\ F = [s \in 0..(NSOCKETS - 1) |-> arm_cpu_juno_r2_get_clocks_data(s)] /\ what = "scaling_cur_freq"
                        /\ v = Var("freq_val")
  BY <1>1
<1>3. v # Var("buf") BY <1>2 DEF Var
<1>4. ASSUME NEW s \in 0..(NSOCKETS - 1), NEW x, NEW b, Blank(x), b = Plus(x, {{<<what, s>>}}, {}, {})
      PROVE  Good(m, b, x, F[s], b)
  <2>1. \E file : file = <<what, s>> OBVIOUS
  <2>2. PICK file : file = <<what, s>> BY <2>1
  <2>3. file # rsmi BY <1>2, <2>2 DEF rsmi
  <2>4. \E work : work = read_file_ui64(v, file) OBVIOUS
  <2>5. PICK work : work = read_file_ui64(v, file) BY <2>4
  <2>6. ASSUME NEW r, NEW z, r.mark = "none", z.mark = "none", DOMAIN z.vals = {}
        PROVE  Good(m, r, z, work, WithVal(z, v, {file}))
    BY <1>3, <2>5, <2>6, ReadFile
  <2>7. Good(m, b, x, OpenArm(file) \o work \o Close({file}) \o Show({file}, v) \o Return(0), b)
    BY <1>4, <2>2, <2>3, <2>6, PolicyRead
  <2>8. F[s] = OpenArm(file) \o work \o Close({file}) \o Show({file}, v) \o Return(0)
    BY <1>2, <2>2, <2>5 DEF arm_cpu_juno_r2_get_clocks_data, ReadPolicy, PolicyFile
  <2>9. QED BY <2>7, <2>8
<1>5. Fine(m, {}, Reporting(LoopFrom(0, NSOCKETS - 1, [s \in 0..(NSOCKETS - 1) |-> Function(F[s])]), Claims(what, Sockets)), {})
  BY <1>4, PoliciesFine
<1>6. [s \in 0..(NSOCKETS - 1) |-> Function(F[s])]
        = [s \in 0..(NSOCKETS - 1) |-> Function(arm_cpu_juno_r2_get_clocks_data(s))]
  BY <1>2
<1>7. QED BY <1>2, <1>5, <1>6 DEF arm_juno_r2_get_clocks, LastOfEach, EachSocket, Each

\* The frequencies they can have.
LEMMA JunoFrequencies ==
  ASSUME NEW m, "old" \in m.traits
  PROVE  Fine(m, {}, arm_juno_r2_get_frequencies, {})
<1>1. \E F, what, v : /\ F = [s \in 0..(NSOCKETS - 1) |-> arm_cpu_juno_r2_get_frequencies(s)]
                      /\ what = "scaling_available_frequencies" /\ v = Var("freq_array")
  OBVIOUS
<1>2. PICK F, what, v : /\ F = [s \in 0..(NSOCKETS - 1) |-> arm_cpu_juno_r2_get_frequencies(s)]
                        /\ what = "scaling_available_frequencies" /\ v = Var("freq_array")
  BY <1>1
<1>3. \E content, no : content = {Junk} /\ no = Fork(Fail, Let(v, content)) OBVIOUS
<1>4. PICK content, no : content = {Junk} /\ no = Fork(Fail, Let(v, content)) BY <1>3
<1>5. ASSUME NEW s \in 0..(NSOCKETS - 1), NEW x, NEW b, Blank(x), b = Plus(x, {{<<what, s>>}}, {}, {})
      PROVE  Good(m, b, x, F[s], b)
  <2>1. \E file : file = <<what, s>> OBVIOUS
  <2>2. PICK file : file = <<what, s>> BY <2>1
  <2>3. file # rsmi BY <1>2, <2>2 DEF rsmi
  <2>4. \E work : work = GetOr(v, file, file, << >>, no, no) OBVIOUS
  <2>5. PICK work : work = GetOr(v, file, file, << >>, no, no) BY <2>4
  <2>6. ASSUME NEW r, NEW z, r.mark = "none", z.mark = "none", DOMAIN z.vals = {}
        PROVE  Good(m, r, z, work, WithVal(z, v, {file}))
    <3>1. \E c, w, u : c = WithVal(z, v, {file}) /\ w = Refused(z) /\ u = WithVal(w, v, content) OBVIOUS
    <3>2. PICK c, w, u : c = WithVal(z, v, {file}) /\ w = Refused(z) /\ u = WithVal(w, v, content) BY <3>1
    <3>3. w.mark = "refused" /\ w.opened = z.opened /\ w.taken = z.taken /\ w.bound = z.bound /\ w.wanted = z.wanted
      BY <2>6, <3>2 DEF Refused, Facts
    <3>4. u.mark = w.mark /\ u.opened = w.opened /\ u.taken = w.taken /\ u.bound = w.bound /\ u.wanted = w.wanted
      BY <3>2 DEF WithVal, Facts
    <3>5. c.mark = "none" /\ c.opened = z.opened /\ c.taken = z.taken /\ c.bound = z.bound /\ c.wanted = z.wanted
      BY <2>6, <3>2 DEF WithVal, Facts
    <3>6. Entails(m, u, c) BY <3>3, <3>4, <3>5, OldForm
    <3>7. Good(m, r, w, Let(v, content), c) BY <3>2, <3>6, GoodLet
    <3>8. Good(m, r, w, Fail, c) BY <2>6, OldFail
    <3>9. Good(m, r, w, no, c) BY <1>4, <3>7, <3>8, GoodFork
    <3>10. Good(m, r, c, << >>, c) BY EntailsSame, GoodNone
    <3>11. Good(m, r, z, GetOr(v, file, file, << >>, no, no), c) BY <3>2, <3>9, <3>10, GoodGet
    <3>12. QED BY <2>5, <3>2, <3>11
  <2>7. Good(m, b, x, OpenArm(file) \o work \o Close({file}) \o Show({file}, v) \o Return(0), b)
    BY <1>5, <2>2, <2>3, <2>6, PolicyRead
  <2>8. F[s] = OpenArm(file) \o work \o Close({file}) \o Show({file}, v) \o Return(0)
    BY <1>2, <1>4, <2>2, <2>5 DEF arm_cpu_juno_r2_get_frequencies, GetThen, PolicyFile
  <2>9. QED BY <2>7, <2>8
<1>6. Fine(m, {}, Reporting(LoopFrom(0, NSOCKETS - 1, [s \in 0..(NSOCKETS - 1) |-> Function(F[s])]), Claims(what, Sockets)), {})
  BY <1>5, PoliciesFine
<1>7. [s \in 0..(NSOCKETS - 1) |-> Function(F[s])]
        = [s \in 0..(NSOCKETS - 1) |-> Function(arm_cpu_juno_r2_get_frequencies(s))]
  BY <1>2
<1>8. QED BY <1>2, <1>6, <1>7 DEF arm_juno_r2_get_frequencies, LastOfEach, EachSocket, Each

\* A cap is written to a file.
LEMMA SpeedWritten ==
  ASSUME NEW m, NEW r, NEW x, NEW k, "old" \in m.traits, r.mark = "none", x.mark = "none", x.wanted = "share",
         <<"scaling_setspeed", k>> \in m.devs
  PROVE  Good(m, r, x, WriteSpeed(k), Plus(x, {}, {<<"scaling_setspeed", k>>}, {}))
<1>1. \E file, z, c, b : /\ file = <<"scaling_setspeed", k>> /\ z = Opened(x, file)
                         /\ c = Plus(z, {}, {file}, {}) /\ b = Plus(x, {}, {file}, {})
  OBVIOUS
<1>2. PICK file, z, c, b : /\ file = <<"scaling_setspeed", k>> /\ z = Opened(x, file)
                           /\ c = Plus(z, {}, {file}, {}) /\ b = Plus(x, {}, {file}, {})
  BY <1>1
<1>3. file # rsmi BY <1>2 DEF rsmi
<1>4. /\ z.vals = x.vals /\ z.claims = x.claims /\ z.taken = x.taken /\ z.bound = x.bound /\ z.wanted = x.wanted
      /\ z.mark = x.mark /\ z.opened = x.opened \union {file}
  BY <1>2 DEF Opened, Facts
<1>5. \E no : no = Fail OBVIOUS
<1>6. PICK no : no = Fail BY <1>5
<1>7. Good(m, r, Refused(z), no, c) BY <1>6, OldFail
<1>8. Good(m, r, z, Cap(file, file, no), c) BY <1>2, <1>4, <1>7, GoodToldCap
<1>9. Entails(m, Closed(c, {file}), b)
  <2>1. \E w : w = Closed(c, {file}) OBVIOUS
  <2>2. PICK w : w = Closed(c, {file}) BY <2>1
  <2>3. /\ c.vals = z.vals /\ c.claims = z.claims \union {} /\ c.opened = z.opened /\ c.taken = z.taken \union {file}
        /\ c.bound = z.bound \union {} /\ c.wanted = z.wanted /\ c.mark = z.mark
    BY ONLY <1>2 DEF Plus, Facts
  <2>4. /\ b.vals = x.vals /\ b.claims = x.claims \union {} /\ b.opened = x.opened /\ b.taken = x.taken \union {file}
        /\ b.bound = x.bound \union {} /\ b.wanted = x.wanted /\ b.mark = x.mark
    BY ONLY <1>2 DEF Plus, Facts
  <2>5. /\ w.vals = c.vals /\ w.claims = c.claims /\ w.opened = c.opened \ {file} /\ w.taken = c.taken
        /\ w.bound = c.bound /\ w.wanted = c.wanted /\ w.mark = c.mark
    BY <2>2 DEF Closed, Facts
  <2>6. /\ w.vals = b.vals /\ w.claims = b.claims /\ w.taken = b.taken /\ w.bound = b.bound /\ w.wanted = b.wanted
        /\ w.mark = b.mark
    BY ONLY <1>4, <2>3, <2>4, <2>5
  <2>7. w.opened \subseteq b.opened BY ONLY <1>4, <2>3, <2>4, <2>5
  <2>8. Entails(m, w, b) BY <2>6, <2>7 DEF Entails
  <2>9. QED BY <2>2, <2>8
<1>10. Good(m, r, x, OpenArm(file) \o Cap(file, file, no) \o Close({file}), b) BY <1>2, <1>3, <1>8, <1>9, WithFile
<1>11. WriteSpeed(k) = OpenArm(file) \o Cap(file, file, no) \o Close({file})
  BY <1>2, <1>6 DEF WriteSpeed, PolicyFile, write_file_ui64
<1>12. QED BY <1>2, <1>10, <1>11

-----------------------------------------------------------------------------
\* A cap that a function of its own takes.
LEMMA CapCallFine ==
  ASSUME NEW m, NEW plan, NEW T,
         \A r, x : r.mark = "none" /\ Blank(x) => Good(m, r, x, plan, Plus(x, {}, T, {}))
  PROVE  Fine(m, {}, Capping(Function(plan \o Return(0)), T), {})
<1>1. \E none, x, c : none = {} /\ x = Base({}) /\ c = Outcome({}, {}, T, {}) OBVIOUS
<1>2. PICK none, x, c : none = {} /\ x = Base({}) /\ c = Outcome({}, {}, T, {}) BY <1>1
<1>3. Blank(x) /\ c.mark = "none" BY <1>2, OutcomeIs DEF Base
<1>4. Plus(x, none, T, none) = c BY <1>2, OutcomeIs
<1>5. Plus(x, {}, T, {}) = c BY <1>2, <1>4
<1>6. Good(m, c, x, plan, Plus(x, {}, T, {})) BY <1>3
<1>7. Good(m, c, x, plan, c) BY <1>5, <1>6
<1>8. Good(m, c, x, plan \o Return(0), c) BY <1>7, GoodEnd
<1>9. Good(m, c, x, Function(plan \o Return(0)), c) BY <1>8, EntailsSame, GoodCall
<1>10. QED BY <1>2, <1>9, CappingFine

\* What caps the processor named first, and what refuses one that is not there.
LEMMA SocketCapsAre ==
  /\ arm_cpu_juno_r2_cap_socket_frequency(0)
       = Capping(Function(WriteSpeed(0) \o Return(0)), {<<"scaling_setspeed", 0>>})
  /\ arm_cpu_juno_r2_cap_socket_frequency(NSOCKETS) = Capping(Fail, {})
  /\ arm_cpu_neoverse_n1_cap_socket_frequency(0)
       = Capping(Function(Each(0, NCORES - 1, WriteSpeed) \o Return(0)), {<<"scaling_setspeed", k>> : k \in Cores})
<1>1. 0 \in Sockets /\ NSOCKETS \notin Sockets BY NumbersOfDevices
<1>2. QED BY <1>1 DEF arm_cpu_juno_r2_cap_socket_frequency, arm_cpu_neoverse_n1_cap_socket_frequency, PolicyFile

\* A frequency of Juno is written to the file of its processor.
LEMMA JunoCap ==
  ASSUME NEW m, "old" \in m.traits, {<<"scaling_setspeed", 0>>} \subseteq m.devs
  PROVE  Fine(m, {}, arm_cpu_juno_r2_cap_socket_frequency(0), {})
<1>1. <<"scaling_setspeed", 0>> \in m.devs OBVIOUS
<1>2. \E first : first = 0 OBVIOUS
<1>3. PICK first : first = 0 BY <1>2
<1>4. ASSUME NEW r, NEW x, r.mark = "none", Blank(x)
      PROVE  Good(m, r, x, WriteSpeed(first), Plus(x, {}, {<<"scaling_setspeed", first>>}, {}))
  <2>1. x.mark = "none" /\ x.wanted = "share" BY <1>4 DEF Blank
  <2>2. <<"scaling_setspeed", first>> \in m.devs BY <1>1, <1>3
  <2>3. QED BY <1>4, <2>1, <2>2, SpeedWritten
<1>5. \E T, plan : T = {<<"scaling_setspeed", first>>} /\ plan = WriteSpeed(first) OBVIOUS
<1>6. PICK T, plan : T = {<<"scaling_setspeed", first>>} /\ plan = WriteSpeed(first) BY <1>5
<1>7. \A r, x : r.mark = "none" /\ Blank(x) => Good(m, r, x, plan, Plus(x, {}, T, {})) BY <1>4, <1>6
<1>8. Fine(m, {}, Capping(Function(plan \o Return(0)), T), {}) BY ONLY <1>7, CapCallFine
<1>9. QED BY <1>3, <1>6, <1>8, SocketCapsAre

\* A processor that is not there is refused.
LEMMA JunoCapNone ==
  ASSUME NEW m, "old" \in m.traits
  PROVE  Fine(m, {}, arm_cpu_juno_r2_cap_socket_frequency(NSOCKETS), {})
<1>1. \E none, c, no : none = {} /\ c = Outcome({}, {}, {}, {}) /\ no = Fail OBVIOUS
<1>2. PICK none, c, no : none = {} /\ c = Outcome({}, {}, {}, {}) /\ no = Fail BY <1>1
<1>3. c.mark = "none" BY <1>2, OutcomeIs
<1>4. Good(m, c, Base({}), Fail, c) BY <1>3, OldFail
<1>5. Good(m, Outcome({}, {}, none, {}), Base({}), no, Outcome({}, {}, none, {})) BY <1>2, <1>4
<1>6. Fine(m, {}, Capping(no, none), {})
  <2>1. \E o, H : o = {} /\ H = {} OBVIOUS
  <2>2. PICK o, H : o = {} /\ H = {} BY <2>1
  <2>3. Good(m, Outcome(o, {}, none, H), Base(o), no, Outcome(o, {}, none, H)) BY <1>5, <2>2
  <2>4. Fine(m, o, Capping(no, none), H) BY ONLY <2>3, CappingFine
  <2>5. QED BY <2>2, <2>4
<1>7. QED BY <1>2, <1>6, SocketCapsAre

\* A frequency of Neoverse is written to the files of all cores.
LEMMA NeoverseCap ==
  ASSUME NEW m, "old" \in m.traits, {<<"scaling_setspeed", k>> : k \in Cores} \subseteq m.devs
  PROVE  Fine(m, {}, arm_cpu_neoverse_n1_cap_socket_frequency(0), {})
<1>1. \E last, B, D, T : /\ last = NCORES - 1 /\ B = [k \in 0..last |-> WriteSpeed(k)]
                          /\ D = [k \in 0..last |-> <<"scaling_setspeed", k>>] /\ T = [k \in 0..last |-> {D[k]}]
  OBVIOUS
<1>2. PICK last, B, D, T : /\ last = NCORES - 1 /\ B = [k \in 0..last |-> WriteSpeed(k)]
                           /\ D = [k \in 0..last |-> <<"scaling_setspeed", k>>] /\ T = [k \in 0..last |-> {D[k]}]
  BY <1>1
<1>3. last \in Int /\ 0 \in Int /\ 0 <= last + 1 BY <1>2, Spans
<1>4. Cores = 0..last BY <1>2, NumbersOfDevices
<1>5. ASSUME NEW r, NEW x, r.mark = "none", Blank(x)
      PROVE  Good(m, r, x, LoopFrom(0, last, B), Plus(x, {}, {D[k] : k \in 0..last}, {}))
  <2>1. x.mark = "none" /\ x.wanted = "share" BY <1>5 DEF Blank
  <2>2. ASSUME NEW k \in 0..last, NEW y, Alike(y, x)
        PROVE  Good(m, r, y, B[k], Plus(y, {}, T[k], {}))
    <3>1. y.mark = "none" /\ y.wanted = "share" BY <2>1, <2>2 DEF Alike
    <3>2. <<"scaling_setspeed", k>> \in m.devs BY <1>4
    <3>3. Good(m, r, y, WriteSpeed(k), Plus(y, {}, {<<"scaling_setspeed", k>>}, {}))
      BY <1>5, <3>1, <3>2, SpeedWritten
    <3>4. B[k] = WriteSpeed(k) /\ T[k] = {<<"scaling_setspeed", k>>} BY <1>2
    <3>5. QED BY <3>3, <3>4
  <2>3. \A k \in 0..last : \A y : Alike(y, x) => Good(m, r, y, B[k], Plus(y, {}, T[k], {})) BY <2>2
  <2>4. Good(m, r, x, LoopFrom(0, last, B), Plus(x, {}, UNION {T[k] : k \in 0..last}, {}))
    BY ONLY <1>3, <2>3, GoodCaps
  <2>5. UNION {T[k] : k \in 0..last} = {D[k] : k \in 0..last}
    <3>1. \A k \in 0..last : T[k] = {D[k]} BY <1>2
    <3>2. QED BY ONLY <3>1, DevicesAre
  <2>6. QED BY <2>4, <2>5
<1>6. {D[k] : k \in 0..last} = {<<"scaling_setspeed", k>> : k \in Cores} BY <1>2, <1>4
<1>7. \E U, plan : U = {D[k] : k \in 0..last} /\ plan = LoopFrom(0, last, B) OBVIOUS
<1>8. PICK U, plan : U = {D[k] : k \in 0..last} /\ plan = LoopFrom(0, last, B) BY <1>7
<1>9. \A r, x : r.mark = "none" /\ Blank(x) => Good(m, r, x, plan, Plus(x, {}, U, {})) BY <1>5, <1>8
<1>10. Fine(m, {}, Capping(Function(plan \o Return(0)), U), {}) BY ONLY <1>9, CapCallFine
<1>11. plan = Each(0, NCORES - 1, WriteSpeed) BY <1>2, <1>8 DEF Each
<1>12. U = {<<"scaling_setspeed", k>> : k \in Cores} BY <1>6, <1>8
<1>13. QED BY <1>10, <1>11, <1>12, SocketCapsAre

\* The number of a core is read from its file and added to those before it.
LEMMA CoreAdded ==
  ASSUME NEW m, NEW r, NEW x, NEW v, NEW total, NEW file, NEW S, "old" \in m.traits, r.mark = "none", Blank(x),
         file # rsmi, v # total, v # Var("buf"), total # Var("buf"), file \notin S
  PROVE  Good(m, r, WithVal(x, total, S),
              OpenArm(file) \o read_file_ui64(v, file) \o Close({file}) \o Add(total, v), WithVal(x, total, S \union {file}))
<1>1. \E X, t, z, c, b : /\ X = {file} /\ t = WithVal(x, total, S) /\ z = Opened(t, file) /\ c = WithVal(z, v, X)
                          /\ b = WithVal(t, v, X)
  OBVIOUS
<1>2. PICK X, t, z, c, b : /\ X = {file} /\ t = WithVal(x, total, S) /\ z = Opened(t, file) /\ c = WithVal(z, v, X)
                           /\ b = WithVal(t, v, X)
  BY <1>1
<1>3. DOMAIN x.vals = {} /\ x.mark = "none" BY DEF Blank
<1>4. t.mark = "none" /\ DOMAIN t.vals = {total} BY <1>2, <1>3, ValsAre
<1>5. z.mark = "none" /\ z.vals = t.vals BY <1>2, <1>4 DEF Opened, Facts
<1>6. Var("buf") \notin DOMAIN z.vals BY <1>4, <1>5
<1>7. Good(m, r, z, read_file_ui64(v, file), WithVal(z, v, {file})) BY <1>5, <1>6, ReadFile
<1>8. Good(m, r, z, read_file_ui64(v, file), c) BY <1>2, <1>7
<1>9. Entails(m, Closed(c, {file}), b)
  <2>1. z = Opened(t, file) /\ c = WithVal(z, v, X) /\ b = WithVal(t, v, X) BY <1>2
  <2>2. QED BY ONLY <2>1, ClosedVal
<1>10. Good(m, r, t, OpenArm(file) \o read_file_ui64(v, file) \o Close({file}), b)
  <2>1. z = Opened(t, file) BY <1>2
  <2>2. QED BY ONLY <1>4, <1>8, <1>9, <2>1, WithFile, "old" \in m.traits, r.mark = "none", file # rsmi
<1>11. Good(m, r, b, Add(total, v), WithVal(x, total, S \union X))
  <2>1. v \notin DOMAIN x.vals /\ total \notin DOMAIN x.vals /\ S \intersect X = {} BY <1>2, <1>3
  <2>2. Good(m, r, WithVal(WithVal(x, total, S), v, X), Add(total, v), WithVal(x, total, S \union X))
    BY <2>1, GoodAddOff
  <2>3. QED BY <1>2, <2>2
<1>12. QED BY <1>2, <1>10, <1>11, GoodThen

\* For each socket the mean of the cores.
LEMMA NeoverseClocks ==
  ASSUME NEW m, "old" \in m.traits
  PROVE  Fine(m, {}, arm_neoverse_n1_get_clocks, {})
<1>1. \E last, what, v, total, B, F, S, C :
        /\ last = NCORES - 1 /\ what = "scaling_cur_freq" /\ v = Var("freq_val") /\ total = Var("aggregate_freq")
        /\ B = [k \in 0..last |-> OpenArm(<<what, k>>) \o read_file_ui64(v, <<what, k>>) \o Close({<<what, k>>})
                                     \o Add(total, v)]
        /\ S = Sum(what, Cores) /\ C = {S}
        /\ F = [s \in 0..(NSOCKETS - 1) |-> Function(arm_cpu_neoverse_n1_get_clocks_data(s))]
  OBVIOUS
<1>2. PICK last, what, v, total, B, F, S, C :
        /\ last = NCORES - 1 /\ what = "scaling_cur_freq" /\ v = Var("freq_val") /\ total = Var("aggregate_freq")
        /\ B = [k \in 0..last |-> OpenArm(<<what, k>>) \o read_file_ui64(v, <<what, k>>) \o Close({<<what, k>>})
                                     \o Add(total, v)]
        /\ S = Sum(what, Cores) /\ C = {S}
        /\ F = [s \in 0..(NSOCKETS - 1) |-> Function(arm_cpu_neoverse_n1_get_clocks_data(s))]
  BY <1>1
<1>3. last \in Int /\ 0 \in Int /\ 0 <= last + 1 BY <1>2, Spans
<1>4. v # total /\ v # Var("buf") /\ total # Var("buf") BY <1>2 DEF Var
<1>5. \A k \in 0..last : <<what, k>> # rsmi BY <1>2 DEF rsmi
<1>6. ASSUME NEW r, NEW x, r.mark = "none", Blank(x)
      PROVE  Good(m, r, WithVal(x, total, {}), LoopFrom(0, last, B), WithVal(x, total, S))
  <2>1. \E I : I = [k \in 0..(last + 1) |-> WithVal(x, total, Sum(what, 0..(k - 1)))] OBVIOUS
  <2>2. PICK I : I = [k \in 0..(last + 1) |-> WithVal(x, total, Sum(what, 0..(k - 1)))] BY <2>1
  <2>3. ASSUME NEW k \in 0..last
        PROVE  Good(m, r, I[k], B[k], I[k + 1])
    <3>1. \E file, T, U : file = <<what, k>> /\ T = Sum(what, 0..(k - 1)) /\ U = Sum(what, 0..k) OBVIOUS
    <3>2. PICK file, T, U : file = <<what, k>> /\ T = Sum(what, 0..(k - 1)) /\ U = Sum(what, 0..k) BY <3>1
    <3>3. k \in 0..(last + 1) /\ k + 1 \in 0..(last + 1) /\ (k + 1) - 1 = k BY <1>3
    <3>4. file \notin T
      <4>1. k \notin 0..(k - 1) BY <1>3
      <4>2. QED BY <3>2, <4>1 DEF Sum
    <3>5. T \union {file} = U
      <4>1. 0..k = 0..(k - 1) \union {k} BY <1>3
      <4>2. QED BY <3>2, <4>1 DEF Sum
    <3>6. I[k] = WithVal(x, total, T) /\ I[k + 1] = WithVal(x, total, U) BY <2>2, <3>2, <3>3
    <3>7. file # rsmi BY <1>5, <3>2
    <3>8. Good(m, r, WithVal(x, total, T), OpenArm(file) \o read_file_ui64(v, file) \o Close({file}) \o Add(total, v),
               WithVal(x, total, T \union {file}))
      BY ONLY <1>4, <1>6, <3>4, <3>7, CoreAdded, "old" \in m.traits
    <3>9. B[k] = OpenArm(file) \o read_file_ui64(v, file) \o Close({file}) \o Add(total, v) BY <1>2, <3>2
    <3>10. QED BY <3>5, <3>6, <3>8, <3>9
  <2>4. \A k \in 0..last : Good(m, r, I[k], B[k], I[k + 1]) BY <2>3
  <2>5. Good(m, r, I[0], LoopFrom(0, last, B), I[last + 1]) BY ONLY <1>3, <2>4, GoodLoop
  <2>6. I[0] = WithVal(x, total, {})
    <3>1. 0 \in 0..(last + 1) /\ 0..(0 - 1) = {} BY <1>3
    <3>2. Sum(what, 0..(0 - 1)) = {} BY <3>1 DEF Sum
    <3>3. QED BY <2>2, <3>1, <3>2
  <2>7. I[last + 1] = WithVal(x, total, S)
    <3>1. last + 1 \in 0..(last + 1) /\ (last + 1) - 1 = last BY <1>3
    <3>2. Cores = 0..last BY <1>2, NumbersOfDevices
    <3>3. QED BY <1>2, <2>2, <3>1, <3>2
  <2>8. QED BY <2>5, <2>6, <2>7
<1>7. ASSUME NEW s \in 0..(NSOCKETS - 1), NEW x, NEW b, Blank(x), b = Plus(x, C, {}, {})
      PROVE  Good(m, b, x, arm_cpu_neoverse_n1_get_clocks_data(s), b)
  <2>1. b.mark = "none" /\ DOMAIN x.vals = {} BY <1>7 DEF Blank, Plus, Facts
  <2>2. Good(m, b, x, Reset(total), WithVal(x, total, {})) BY GoodReset
  <2>3. Good(m, b, WithVal(x, total, {}), LoopFrom(0, last, B), WithVal(x, total, S)) BY <1>6, <1>7, <2>1
  <2>4. total \notin DOMAIN x.vals BY <2>1
  <2>5. Good(m, b, WithVal(x, total, S), Show(S, total), Plus(x, {S}, {}, {})) BY <2>4, GoodGivenOut
  <2>6. Good(m, b, WithVal(x, total, S), Show(S, total), b) BY <1>2, <1>7, <2>5
  <2>7. Good(m, b, x, Reset(total) \o LoopFrom(0, last, B), WithVal(x, total, S)) BY <2>2, <2>3, GoodThen
  <2>8. Good(m, b, x, Reset(total) \o LoopFrom(0, last, B) \o Show(S, total), b) BY <2>6, <2>7, GoodThen
  <2>9. Good(m, b, x, Reset(total) \o LoopFrom(0, last, B) \o Show(S, total) \o Return(0), b) BY <2>8, GoodEnd
  <2>10. arm_cpu_neoverse_n1_get_clocks_data(s) = Reset(total) \o LoopFrom(0, last, B) \o Show(S, total) \o Return(0)
    BY <1>2 DEF arm_cpu_neoverse_n1_get_clocks_data, PolicyFile, Each
  <2>11. QED BY <2>9, <2>10
<1>8. \E last2, none, G, o, c :
        /\ last2 = NSOCKETS - 1 /\ none = {} /\ o = Base({}) /\ c = Outcome({}, C, {}, {})
        /\ G = [s \in 0..last2 |-> C]
  OBVIOUS
<1>9. PICK last2, none, G, o, c :
        /\ last2 = NSOCKETS - 1 /\ none = {} /\ o = Base({}) /\ c = Outcome({}, C, {}, {})
        /\ G = [s \in 0..last2 |-> C]
  BY <1>8
<1>10. last2 \in Int /\ 0 <= last2 + 1 BY <1>9, Spans
<1>11. Blank(o) BY <1>9, OutcomeIs DEF Base
<1>12. ASSUME NEW s \in 0..last2, NEW x, Alike(x, o)
       PROVE  Good(m, c, x, F[s], Plus(x, G[s], {}, {}))
  <2>1. Blank(x) BY <1>11, <1>12 DEF Blank, Alike
  <2>2. \E b : b = Plus(x, C, {}, {}) OBVIOUS
  <2>3. PICK b : b = Plus(x, C, {}, {}) BY <2>2
  <2>4. Good(m, b, x, arm_cpu_neoverse_n1_get_clocks_data(s), b) BY <1>7, <1>9, <2>1, <2>3
  <2>5. Good(m, c, x, Function(arm_cpu_neoverse_n1_get_clocks_data(s)), b) BY <2>4, EntailsSame, GoodCall
  <2>6. F[s] = Function(arm_cpu_neoverse_n1_get_clocks_data(s)) /\ G[s] = C BY <1>2, <1>9
  <2>7. QED BY <2>3, <2>5, <2>6
<1>13. \A s \in 0..last2 : \A x : Alike(x, o) => Good(m, c, x, F[s], Plus(x, G[s], {}, {})) BY <1>12
<1>14. Good(m, c, o, LoopFrom(0, last2, F), Plus(o, UNION {G[s] : s \in 0..last2}, {}, {}))
  BY ONLY <1>3, <1>10, <1>13, GoodReports
<1>15. UNION {G[s] : s \in 0..last2} = C
  <2>1. 0 \in 0..last2 BY <1>9, NumbersOfDevices
  <2>2. QED BY <1>9, <2>1
<1>16. Plus(o, C, none, none) = c BY <1>9, OutcomeIs
<1>17. Plus(o, C, {}, {}) = c BY <1>9, <1>16
<1>18. Good(m, c, o, LoopFrom(0, last2, F), c) BY <1>14, <1>15, <1>17
<1>19. Fine(m, {}, Reporting(LoopFrom(0, last2, F), C), {})
  <2>1. Good(m, Outcome(none, C, {}, {}), Base(none), LoopFrom(0, last2, F), Outcome(none, C, {}, {})) BY <1>9, <1>18
  <2>2. Fine(m, none, Reporting(LoopFrom(0, last2, F), C), {}) BY ONLY <2>1, ReportingFine
  <2>3. QED BY <1>9, <2>2
<1>20. QED BY <1>2, <1>9, <1>19 DEF arm_neoverse_n1_get_clocks, LastOfEach, EachSocket, Each

\* The features of the platform juno.
LEMMA JunoNames ==
  /\ Features["juno"] = JunoFeatures
  /\ DOMAIN JunoFeatures =
       {"get_power", "get_thermals", "get_clocks", "get_frequencies", "cap_socket_frequency",
        "cap_no_socket", "get_power_json"}
  /\ JunoFeatures["get_power"] = arm_cpu_juno_r2_get_power_data
  /\ JunoFeatures["get_thermals"] = arm_cpu_juno_r2_get_thermal_data
  /\ JunoFeatures["get_clocks"] = arm_juno_r2_get_clocks
  /\ JunoFeatures["get_frequencies"] = arm_juno_r2_get_frequencies
  /\ JunoFeatures["cap_socket_frequency"] = arm_cpu_juno_r2_cap_socket_frequency(0)
  /\ JunoFeatures["cap_no_socket"] = arm_cpu_juno_r2_cap_socket_frequency(NSOCKETS)
  /\ JunoFeatures["get_power_json"] = arm_cpu_juno_r2_json_get_power_data
<1>1. Features["juno"] = JunoFeatures BY DEF Features
<1>2. QED BY <1>1 DEF JunoFeatures

\* The devices its caps are for.
LEMMA JunoDevices ==
  ASSUME NEW f
  PROVE  {<<"scaling_setspeed", 0>>} \subseteq Mode("juno", f).devs
<1>1. \E p, h : p = "juno" /\ h = "cap_socket_frequency" OBVIOUS
<1>2. PICK p, h : p = "juno" /\ h = "cap_socket_frequency" BY <1>1
<1>3. h \in DOMAIN Features[p] BY <1>2, JunoNames
<1>4. Features[p][h].caps = {<<"scaling_setspeed", 0>>}
  <2>1. Features[p][h] = arm_cpu_juno_r2_cap_socket_frequency(0) BY <1>2, JunoNames
  <2>2. arm_cpu_juno_r2_cap_socket_frequency(0).caps = {<<"scaling_setspeed", 0>>} BY SocketCapsAre, CappingIs
  <2>3. QED BY <2>1, <2>2
<1>5. \E S : S = Features[p][h].caps OBVIOUS
<1>6. PICK S : S = Features[p][h].caps BY <1>5
<1>7. S \subseteq Mode(p, f).devs BY <1>3, <1>6, CappedDevices
<1>8. QED BY <1>2, <1>4, <1>6, <1>7

\* Each feature of Juno is good.
LEMMA JunoGood ==
  ASSUME NEW f \in DOMAIN Features["juno"]
  PROVE  Good(Mode("juno", f), Goal("juno", f), Start(Mode("juno", f)), Features["juno"][f].plan, Goal("juno", f))
<1> DEFINE p == "juno"
           m == Mode(p, f)
           F == Features[p][f]
<1>1. F = JunoFeatures[f] /\ f \in DOMAIN JunoFeatures BY JunoNames
<1>2. <<p, f>> \notin Halves /\ <<p, f>> \notin CapsNode BY DEF Halves, CapsNode
<1>3. <<p, f>> \in KeepOldValues BY DEF KeepOldValues, FeaturesOf
<1>4. "old" \in m.traits BY <1>3, TraitsOf
<1>5. {<<"scaling_setspeed", 0>>} \subseteq m.devs BY JunoDevices
<1> HIDE DEF m, F
<1>6. Fine(m, {}, F, {})
  <2>1. CASE f = "get_power"
    <3>1. F = arm_cpu_juno_r2_get_power_data BY <2>1, <1>1, JunoNames
    <3>2. Fine(m, {}, arm_cpu_juno_r2_get_power_data, {}) BY <2>1, <1>4, ArmPrints
    <3>3. QED BY <3>1, <3>2
  <2>2. CASE f = "get_thermals"
    <3>1. F = arm_cpu_juno_r2_get_thermal_data BY <2>2, <1>1, JunoNames
    <3>2. Fine(m, {}, arm_cpu_juno_r2_get_thermal_data, {}) BY <2>2, <1>4, ArmPrints
    <3>3. QED BY <3>1, <3>2
  <2>3. CASE f = "get_clocks"
    <3>1. F = arm_juno_r2_get_clocks BY <2>3, <1>1, JunoNames
    <3>2. Fine(m, {}, arm_juno_r2_get_clocks, {}) BY <2>3, <1>4, JunoClocks
    <3>3. QED BY <3>1, <3>2
  <2>4. CASE f = "get_frequencies"
    <3>1. F = arm_juno_r2_get_frequencies BY <2>4, <1>1, JunoNames
    <3>2. Fine(m, {}, arm_juno_r2_get_frequencies, {}) BY <2>4, <1>4, JunoFrequencies
    <3>3. QED BY <3>1, <3>2
  <2>5. CASE f = "cap_socket_frequency"
    <3>1. F = arm_cpu_juno_r2_cap_socket_frequency(0) BY <2>5, <1>1, JunoNames
    <3>2. Fine(m, {}, arm_cpu_juno_r2_cap_socket_frequency(0), {}) BY <2>5, <1>4, <1>5, JunoCap
    <3>3. QED BY <3>1, <3>2
  <2>6. CASE f = "cap_no_socket"
    <3>1. F = arm_cpu_juno_r2_cap_socket_frequency(NSOCKETS) BY <2>6, <1>1, JunoNames
    <3>2. Fine(m, {}, arm_cpu_juno_r2_cap_socket_frequency(NSOCKETS), {}) BY <2>6, <1>4, <1>5, JunoCapNone
    <3>3. QED BY <3>1, <3>2
  <2>7. CASE f = "get_power_json"
    <3>1. F = arm_cpu_juno_r2_json_get_power_data BY <2>7, <1>1, JunoNames
    <3>2. Fine(m, {}, arm_cpu_juno_r2_json_get_power_data, {}) BY <2>7, <1>4, JunoJson
    <3>3. QED BY <3>1, <3>2
  <2>8. QED BY <1>1,  JunoNames, <2>1, <2>2, <2>3, <2>4, <2>5, <2>6, <2>7
<1> HIDE DEF p
<1>7. QED BY <1>2, <1>6, FineFeature DEF m, p, F

\* The features of the platform neoverse.
LEMMA NeoverseNames ==
  /\ Features["neoverse"] = NeoverseFeatures
  /\ DOMAIN NeoverseFeatures =
       {"get_power", "get_thermals", "get_clocks", "cap_socket_frequency", "get_power_json"}
  /\ NeoverseFeatures["get_power"] = arm_cpu_neoverse_n1_get_power_data
  /\ NeoverseFeatures["get_thermals"] = arm_cpu_neoverse_n1_get_thermal_data
  /\ NeoverseFeatures["get_clocks"] = arm_neoverse_n1_get_clocks
  /\ NeoverseFeatures["cap_socket_frequency"] = arm_cpu_neoverse_n1_cap_socket_frequency(0)
  /\ NeoverseFeatures["get_power_json"] = arm_cpu_neoverse_n1_json_get_power_data
<1>1. Features["neoverse"] = NeoverseFeatures BY DEF Features
<1>2. QED BY <1>1 DEF NeoverseFeatures

\* The devices its caps are for.
LEMMA NeoverseDevices ==
  ASSUME NEW f
  PROVE  {<<"scaling_setspeed", k>> : k \in Cores} \subseteq Mode("neoverse", f).devs
<1>1. \E p, h : p = "neoverse" /\ h = "cap_socket_frequency" OBVIOUS
<1>2. PICK p, h : p = "neoverse" /\ h = "cap_socket_frequency" BY <1>1
<1>3. h \in DOMAIN Features[p] BY <1>2, NeoverseNames
<1>4. Features[p][h].caps = {<<"scaling_setspeed", k>> : k \in Cores}
  <2>1. Features[p][h] = arm_cpu_neoverse_n1_cap_socket_frequency(0) BY <1>2, NeoverseNames
  <2>2. arm_cpu_neoverse_n1_cap_socket_frequency(0).caps = {<<"scaling_setspeed", k>> : k \in Cores} BY SocketCapsAre, CappingIs
  <2>3. QED BY <2>1, <2>2
<1>5. \E S : S = Features[p][h].caps OBVIOUS
<1>6. PICK S : S = Features[p][h].caps BY <1>5
<1>7. S \subseteq Mode(p, f).devs BY <1>3, <1>6, CappedDevices
<1>8. QED BY <1>2, <1>4, <1>6, <1>7

\* Each feature of Neoverse is good.
LEMMA NeoverseGood ==
  ASSUME NEW f \in DOMAIN Features["neoverse"]
  PROVE  Good(Mode("neoverse", f), Goal("neoverse", f), Start(Mode("neoverse", f)),
              Features["neoverse"][f].plan, Goal("neoverse", f))
<1> DEFINE p == "neoverse"
           m == Mode(p, f)
           F == Features[p][f]
<1>1. F = NeoverseFeatures[f] /\ f \in DOMAIN NeoverseFeatures BY NeoverseNames
<1>2. <<p, f>> \notin Halves /\ <<p, f>> \notin CapsNode BY DEF Halves, CapsNode
<1>3. <<p, f>> \in KeepOldValues BY DEF KeepOldValues, FeaturesOf
<1>4. "old" \in m.traits BY <1>3, TraitsOf
<1>5. {<<"scaling_setspeed", k>> : k \in Cores} \subseteq m.devs BY NeoverseDevices
<1> HIDE DEF m, F
<1>6. Fine(m, {}, F, {})
  <2>1. CASE f = "get_power"
    <3>1. F = arm_cpu_neoverse_n1_get_power_data BY <2>1, <1>1, NeoverseNames
    <3>2. Fine(m, {}, arm_cpu_neoverse_n1_get_power_data, {}) BY <2>1, <1>4, ArmPrints
    <3>3. QED BY <3>1, <3>2
  <2>2. CASE f = "get_thermals"
    <3>1. F = arm_cpu_neoverse_n1_get_thermal_data BY <2>2, <1>1, NeoverseNames
    <3>2. Fine(m, {}, arm_cpu_neoverse_n1_get_thermal_data, {}) BY <2>2, <1>4, ArmPrints
    <3>3. QED BY <3>1, <3>2
  <2>3. CASE f = "get_clocks"
    <3>1. F = arm_neoverse_n1_get_clocks BY <2>3, <1>1, NeoverseNames
    <3>2. Fine(m, {}, arm_neoverse_n1_get_clocks, {}) BY <2>3, <1>4, NeoverseClocks
    <3>3. QED BY <3>1, <3>2
  <2>4. CASE f = "cap_socket_frequency"
    <3>1. F = arm_cpu_neoverse_n1_cap_socket_frequency(0) BY <2>4, <1>1, NeoverseNames
    <3>2. Fine(m, {}, arm_cpu_neoverse_n1_cap_socket_frequency(0), {}) BY <2>4, <1>4, <1>5, NeoverseCap
    <3>3. QED BY <3>1, <3>2
  <2>5. CASE f = "get_power_json"
    <3>1. F = arm_cpu_neoverse_n1_json_get_power_data BY <2>5, <1>1, NeoverseNames
    <3>2. Fine(m, {}, arm_cpu_neoverse_n1_json_get_power_data, {}) BY <2>5, <1>4, NeoverseJson
    <3>3. QED BY <3>1, <3>2
  <2>6. QED BY <1>1,  NeoverseNames, <2>1, <2>2, <2>3, <2>4, <2>5
<1> HIDE DEF p
<1>7. QED BY <1>2, <1>6, FineFeature DEF m, p, F

-----------------------------------------------------------------------------
\* What the properties say follows from the goals.

\* What the goal of the call says.
LEMMA GoalIs ==
  /\ Goal(platform, api).vals = NoVals /\ Goal(platform, api).claims = Features[platform][api].claims
  /\ Goal(platform, api).opened = {} /\ Goal(platform, api).taken = Features[platform][api].caps
  /\ Goal(platform, api).bound =
       IF <<platform, api>> \in CapsNode THEN Features[platform][api].caps ELSE {}
  BY DEF Goal, Facts

\* What the feature of the call is excused from.
LEMMA TraitsAre ==
  /\ "old" \in mode.traits <=> <<platform, api>> \in KeepOldValues
  /\ "never" \in mode.traits <=> <<platform, api>> \in NeverAsks
  /\ "leaves" \in mode.traits <=> <<platform, api>> \in NeverCloses
  /\ "blind" \in mode.traits <=> <<platform, api>> \in CapBlindly
  BY DEF mode, Mode, Traits

\* From the invariant: what is given out is true.
LEMMA InvReports ==
  ASSUME VendorInv
  PROVE  ReportsAreTrue
<1>1. ASSUME Quietly, ~refused, <<platform, api>> \notin NeverAsks
      PROVE  shown = {[claim |-> c, value |-> c] : c \in feature.claims}
  <2>1. Fits(mode, Goal(platform, api)) BY <1>1 DEF VendorInv, DoneInv, Quietly, Succeeded
  <2>2. "never" \notin mode.traits BY <1>1, TraitsAre
  <2>3. shown = {[claim |-> c, value |-> c] : c \in Goal(platform, api).claims}
    BY <1>1, <2>1, <2>2 DEF Fits, Quietly
  <2>4. QED BY <2>3, GoalIs DEF feature
<1>2. ASSUME <<platform, api>> \notin KeepOldValues PROVE \A s \in shown : s.value \subseteq s.claim
  BY <1>2, TraitsAre DEF VendorInv, OwnInv
<1>3. QED BY <1>1, <1>2 DEF ReportsAreTrue

\* From the invariant: caps are as asked.
LEMMA InvCaps ==
  ASSUME VendorInv
  PROVE  CapsAreAsAsked
<1>1. SUFFICES ASSUME Quietly, Heard, NEW d \in feature.caps
               PROVE  accepted[d] = Lesser(share, CEILING)
  BY DEF CapsAreAsAsked
<1>2. Fits(mode, Goal(platform, api)) BY <1>1 DEF VendorInv, DoneInv, Quietly, Succeeded
<1>3. Heeded(Goal(platform, api)) BY <1>1, <1>2, TraitsAre DEF Fits, Quietly, Heard
<1>4. QED BY <1>3, GoalIs DEF Heeded, feature

\* From the invariant: files are closed.
LEMMA InvGivesBack ==
  ASSUME VendorInv
  PROVE  GivesBack
<1>1. SUFFICES ASSUME Quietly, <<platform, api>> \notin NeverCloses PROVE open = {}
  BY DEF GivesBack
<1>2. Fits(mode, Goal(platform, api)) BY <1>1 DEF VendorInv, DoneInv, Quietly, Succeeded
<1>3. open \subseteq Goal(platform, api).opened BY <1>1, <1>2, TraitsAre DEF Fits, Quietly
<1>4. QED BY <1>3, GoalIs

-----------------------------------------------------------------------------
\* Together: every feature of every platform is good.
THEOREM VendorFeaturesGood == FeaturesAreGood
<1>1. SUFFICES ASSUME NEW p \in DOMAIN Features, NEW f \in DOMAIN Features[p]
               PROVE  Good(Mode(p, f), Goal(p, f), Start(Mode(p, f)), Features[p][f].plan, Goal(p, f))
  BY DEF FeaturesAreGood, Platforms, FeaturesOf
<1>2. p \in {"p9", "epyc", "volta", "instinct", "intel_gpu", "juno", "neoverse"} BY DEF Features
<1>3. CASE p = "p9" BY <1>3, P9Good
<1>4. CASE p = "epyc" BY <1>4, EpycGood
<1>5. CASE p = "volta" BY <1>5, VoltaGood
<1>6. CASE p = "instinct" BY <1>6, InstinctGood
<1>7. CASE p = "intel_gpu" BY <1>7, IntelGpuGood
<1>8. CASE p = "juno" BY <1>8, JunoGood
<1>9. CASE p = "neoverse" BY <1>9, NeoverseGood
<1>10. QED BY <1>2, <1>3, <1>4, <1>5, <1>6, <1>7, <1>8, <1>9

\* Hence the invariant of the vendor platforms, whatever their numbers of sockets,
\* cores and GPUs.
THEOREM VendorInvHolds == Spec => []VendorInv
BY VendorFeaturesGood, GoodGivesInv

\* Types.
THEOREM VendorTyped == Spec => []TypeOK
<1>1. VendorInv => TypeOK BY DEF VendorInv
<1>2. QED BY <1>1, VendorInvHolds, PTL

\* A feature that returns 0, prints no error and was refused nothing has given out
\* what it is said to; and no value comes from another device, but where old values
\* are kept.
THEOREM ReportsTrue == Spec => []ReportsAreTrue
BY InvReports, VendorInvHolds, PTL

\* A feature that caps, returns 0 and prints no error has been heard by every device.
THEOREM CapsTaken == Spec => []CapsAreAsAsked
BY InvCaps, VendorInvHolds, PTL

\* A feature that returns 0 and prints no error has closed its files.
THEOREM FilesGivenBack == Spec => []GivesBack
BY InvGivesBack, VendorInvHolds, PTL

\* The sum over two things, the second of which may be the first.
LEMMA SumOfTwo ==
  ASSUME NEW F, NEW a, NEW b, F[a] \in Int, F[b] \in Int
  PROVE  MapThenSumSet(LAMBDA d : F[d], {a, b}) = IF a = b THEN F[a] ELSE F[a] + F[b]
<1> DEFINE S == {a, b}
           pick(s) == CHOOSE x \in s : TRUE
           E(g, s) == IF s = {} THEN 0 ELSE F[pick(s)] + g[s \ {pick(s)}]
           iter == CHOOSE g : g = [s \in SUBSET S |-> E(g, s)]
           h == [s \in SUBSET S |-> (IF a \in s THEN F[a] ELSE 0) + (IF b \in s /\ b # a THEN F[b] ELSE 0)]
<1>1. MapThenSumSet(LAMBDA d : F[d], {a, b}) = iter[S]
  BY DEF MapThenSumSet, MapThenFoldSet
<1>2. \A s \in SUBSET S : s # {} => pick(s) \in s OBVIOUS
<1> HIDE DEF pick
<1>3. ASSUME NEW s \in SUBSET S
      PROVE  h[s] = E(h, s)
  <2>1. CASE s = {} BY <2>1
  <2>2. CASE s # {}
    <3>1. PICK x : x = pick(s) /\ x \in s BY <1>2, <2>2
    <3>2. s \ {x} \in SUBSET S OBVIOUS
    <3>3. h[s] = (IF a \in s THEN F[a] ELSE 0) + (IF b \in s /\ b # a THEN F[b] ELSE 0) OBVIOUS
    <3>4. h[s \ {x}] = (IF a \in s \ {x} THEN F[a] ELSE 0) + (IF b \in s \ {x} /\ b # a THEN F[b] ELSE 0) BY <3>2
    <3>5. E(h, s) = F[x] + h[s \ {x}] BY <2>2, <3>1
    <3>6. x = a \/ x = b BY <3>1
    <3>7. h[s] = F[x] + h[s \ {x}]
      <4> HIDE DEF h
      <4>1. CASE x = a BY <3>1, <3>3, <3>4, <4>1
      <4>2. CASE x = b /\ x # a BY <3>1, <3>3, <3>4, <4>2
      <4>3. QED BY <3>6, <4>1, <4>2
    <3>8. QED BY <3>5, <3>7
  <2>3. QED BY <2>1, <2>2
<1>4. h = [s \in SUBSET S |-> E(h, s)] BY <1>3
<1>5. iter = [s \in SUBSET S |-> E(iter, s)]
  <2> HIDE DEF h, E
  <2>1. \E g : g = [s \in SUBSET S |-> E(g, s)] BY <1>4
  <2>2. QED BY <2>1
<1> HIDE DEF iter
<1>6. iter[{}] = 0 BY <1>5
<1>7. ASSUME NEW x \in S
      PROVE  iter[{x}] = F[x]
  <2>1. pick({x}) = x /\ {x} \ {x} = {} BY <1>2
  <2>2. iter[{x}] = E(iter, {x}) BY <1>5
  <2>3. iter[{x}] = F[x] + iter[{}] BY <2>1, <2>2
  <2>4. F[x] \in Int OBVIOUS
  <2>5. QED BY <1>6, <2>3, <2>4
<1>8. CASE a = b BY <1>1, <1>7, <1>8
<1>9. CASE a # b
  <2>1. iter[S] = F[pick(S)] + iter[S \ {pick(S)}]
    <3>1. S # {} /\ S \in SUBSET S OBVIOUS
    <3>2. iter[S] = E(iter, S) BY <1>5, <3>1
    <3>3. QED BY <3>1, <3>2
  <2>2. pick(S) = a \/ pick(S) = b BY <1>2
  <2>3. CASE pick(S) = a
    <3>1. S \ {a} = {b} /\ iter[{b}] = F[b] BY <1>7, <1>9
    <3>2. iter[S] = F[a] + F[b] BY <2>1, <2>3, <3>1
    <3>3. QED BY <1>1, <1>9, <3>2
  <2>4. CASE pick(S) = b
    <3>1. S \ {b} = {a} /\ iter[{a}] = F[a] BY <1>7, <1>9
    <3>2. iter[S] = F[b] + F[a] BY <2>1, <2>4, <3>1
    <3>3. QED BY <1>1, <1>9, <3>2
  <2>5. QED BY <2>2, <2>3, <2>4
<1>10. QED BY <1>8, <1>9

\* What is capped by a node cap: on Power9 the node, on EPYC each socket, for half of
\* what was asked.
LEMMA NodeCapsAre ==
  ASSUME <<platform, api>> \in CapsNode, NSOCKETS <= 2
  PROVE  /\ platform \in Platforms /\ api \in FeaturesOf(platform)
         /\ \E a, b : feature.caps = {a, b} /\ (a # b => <<platform, api>> \in Halves)
<1>1. CASE platform = "p9" /\ api = "cap_and_verify_node_power_limit"
  <2>1. api \in DOMAIN Features[platform] /\ feature = ibm_cpu_p9_cap_and_verify_node_power_limit
    BY <1>1, P9Names DEF feature
  <2>2. ibm_cpu_p9_cap_and_verify_node_power_limit.caps = {OpalFile("powercap-current")}
    BY CappingIs DEF ibm_cpu_p9_cap_and_verify_node_power_limit
  <2>3. PICK a : feature.caps = {a} BY <2>1, <2>2
  <2>4. feature.caps = {a, a} BY <2>3
  <2>5. QED BY <1>1, <2>1, <2>4 DEF Platforms, Features, FeaturesOf
<1>2. CASE platform = "epyc" /\ api = "cap_best_effort_node_power_limit"
  <2>1. api \in DOMAIN Features[platform]
        /\ feature = IfESMI(amd_cpu_epyc_set_and_verify_best_effort_node_power_limit)
    BY <1>2, EpycNames DEF feature
  <2>2. feature.caps = {<<"socket", i>> : i \in Sockets} BY <2>1, EpycAre, IfESMIIs
  <2>3. \A i \in Sockets : i = 0 \/ i = NSOCKETS - 1 BY NumbersOfDevices
  <2>4. 0 \in Sockets /\ NSOCKETS - 1 \in Sockets BY NumbersOfDevices
  <2>5. feature.caps = {<<"socket", 0>>, <<"socket", NSOCKETS - 1>>} BY <2>2, <2>3, <2>4
  <2>6. <<platform, api>> \in Halves BY <1>2 DEF Halves
  <2>7. QED BY <1>2, <2>1, <2>5, <2>6 DEF Platforms, Features, FeaturesOf
<1>3. QED BY <1>1, <1>2 DEF CapsNode

\* What the devices of a node hold themselves to is together no more than was asked,
\* when a function that verifies a node cap returns; on EPYC because there are two
\* sockets at most: each is given half of the request, however many there are.
THEOREM NodeCap == NSOCKETS <= 2 => (Spec => NodeCapHolds)
<1> SUFFICES ASSUME NSOCKETS <= 2 PROVE Spec => NodeCapHolds OBVIOUS
<1>1. ASSUME VendorInv, VendorInv', Returned, ~complained, <<platform, api>> \in CapsNode, Heard
      PROVE  MapThenSumSet(LAMBDA d : inforce[d], feature.caps) <= asked
  <2>1. /\ UNCHANGED <<platform, api, rc, complained, refused, asked, want, accepted, inforce>> /\ status' = "returned"
    BY <1>1 DEF Returned, call, caps, trouble
  <2>2. \A d \in feature.caps : inforce[d] <= share
    <3>1. Fits(mode, Goal(platform, api))' BY <1>1, <2>1 DEF VendorInv, DoneInv
    <3>2. mode' = mode /\ share' = share /\ Goal(platform, api)' = Goal(platform, api)
      BY <2>1 DEF mode, share
    <3>3. Heeded(Goal(platform, api))' BY <1>1, <2>1, <3>1, <3>2, TraitsAre DEF Fits, Heard
    <3>4. \A d \in Goal(platform, api).bound : inforce'[d] <= share' BY <3>2, <3>3 DEF Heeded
    <3>5. QED BY <1>1, <2>1, <3>2, <3>4, GoalIs DEF feature
  <2>3. /\ asked \in Nat /\ share \in Nat /\ share <= asked /\ \A d \in feature.caps : inforce[d] \in Int
    <3>1. TypeOK BY <1>1 DEF VendorInv
    <3>2. asked \in Nat /\ share \in Nat /\ share <= asked /\ CEILING \in Nat BY <3>1, NumbersAre
    <3>3. feature.caps \subseteq DevicesOf(platform)
      <4>1. api \in FeaturesOf(platform) BY <1>1, NodeCapsAre
      <4>2. QED BY <4>1 DEF DevicesOf, feature
    <3>4. inforce \in [DevicesOf(platform) -> 0..CEILING] BY <3>1 DEF TypeOK
    <3>5. QED BY <3>2, <3>3, <3>4
  <2>4. PICK a, b : feature.caps = {a, b} /\ (a # b => <<platform, api>> \in Halves) BY <1>1, NodeCapsAre
  <2>5. PICK F : F = inforce OBVIOUS
  <2>6. F[a] \in Int /\ F[b] \in Int /\ F[a] <= share /\ F[b] <= share BY <2>2, <2>3, <2>4, <2>5
  <2>7. MapThenSumSet(LAMBDA d : F[d], {a, b}) = IF a = b THEN F[a] ELSE F[a] + F[b] BY ONLY <2>6, SumOfTwo
  <2>8. MapThenSumSet(LAMBDA d : inforce[d], {a, b}) = IF a = b THEN F[a] ELSE F[a] + F[b] BY <2>5, <2>7
  <2>9. a # b => share = asked \div 2 BY <2>4 DEF share
  <2>10. (IF a = b THEN F[a] ELSE F[a] + F[b]) <= asked
    <3> HIDE DEF share
    <3>1. QED BY <2>3, <2>6, <2>9
  <2>11. QED BY <2>4, <2>8, <2>10
<1>2. VendorInv /\ VendorInv' /\ [Next]_vars
        => [Returned /\ rc = 0 /\ ~complained /\ <<platform, api>> \in CapsNode /\ Heard
              => MapThenSumSet(LAMBDA d : inforce[d], feature.caps) <= asked]_vars
  BY <1>1
<1>3. QED BY <1>2, VendorInvHolds, PTL DEF Spec, NodeCapHolds

=============================================================================
