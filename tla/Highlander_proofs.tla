-------------------------- MODULE Highlander_proofs --------------------------
(***************************************************************************)
(* Proofs about Highlander, for any finite set of processes, any           *)
(* directories, and any number of removals.                                *)
(***************************************************************************)
EXTENDS Highlander, FiniteSetTheorems, TLAPS

\* The types of the variables, but for the bound of the semaphores.
Shape ==
  /\ pc \in [Procs -> Locations]
  /\ dir \in [Procs -> Dirs]
  /\ nameK \in Procs \cup {None} /\ nameL \in Procs \cup {None}
  /\ valK \in [Procs -> Nat] /\ valL \in [Procs -> Nat]
  /\ semk \in [Procs -> Procs \cup {None}] /\ seml \in [Procs -> Procs \cup {None}]
  /\ dat \in [Dirs -> Procs \cup {None}] /\ summary \in [Dirs -> Procs \cup {None}]
  /\ removals \in 0 .. MaxRemovals

\* A process posts K and L once each: a semaphore has no more posts than there
\* are processes past the place where they post it.
Posted == {p \in Procs : pc[p] \notin {"start", "highlander_opens_l", "foe_opens_k", "foe_opens_l", "foe_posts"}}
Signalled == {p \in Procs : pc[p] \in {"cleans_k", "cleans_l", "done", "failed"}}
PostsCounted == \A k \in Procs : valK[k] <= Cardinality(Posted) /\ valL[k] <= Cardinality(Signalled)

\* Whoever makes a name unlinks it later, or fails; until then somebody is
\* between the two.
NamesInv ==
  /\ nameK # None => \E p \in Procs : pc[p] \notin {"start", "cleans_l", "done"}
  /\ nameL # None => \E p \in Procs : pc[p] \notin {"start", "done"}

Inv == Shape /\ PostsCounted /\ KCoversItsFoes /\ FilesAreOfOneRun /\ NamesInv

-----------------------------------------------------------------------------
LEMMA ShapeInit == Init => Shape
BY HighlanderAssumption DEF Init, Shape, Locations

\* Every step keeps the types.
LEMMA ShapeStep == Shape /\ [Next]_vars => Shape'
<1> SUFFICES ASSUME Shape, [Next]_vars PROVE Shape'
  OBVIOUS
<1> USE HighlanderAssumption DEF Shape, Locations, Monitoring, names, values, handles, files
<1>1. ASSUME NEW p \in Procs, Step(p) PROVE Shape'
  <2>1. CASE TryToBeHighlander(p)
    BY <2>1 DEF TryToBeHighlander, Goto, OpenK
  <2>2. CASE HighlanderOpensL(p)
    BY <2>2 DEF HighlanderOpensL, Goto, OpenL
  <2>3. CASE FoeOpensK(p)
    BY <2>3 DEF FoeOpensK, Goto, OpenK
  <2>4. CASE FoeOpensL(p)
    BY <2>4 DEF FoeOpensL, Goto, OpenL
  <2>5. CASE FoePosts(p)
    <3>1. valK' \in [Procs -> Nat]
      <4>1. \A k \in Procs : valK[k] + 1 \in Nat
        OBVIOUS
      <4> QED
        BY <2>5, <4>1 DEF FoePosts
    <3> QED
      BY <2>5, <3>1 DEF FoePosts, Goto
  <2>6. CASE CreateTrace(p)
    BY <2>6 DEF CreateTrace, Goto
  <2>7. CASE AppEnds(p) \/ ReadK(p)
    BY <2>7 DEF AppEnds, ReadK, Goto
  <2>8. CASE WaitL(p)
    <3>1. \A l \in Procs : valL[l] > 0 => valL[l] - 1 \in Nat
      OBVIOUS
    <3> QED
      BY <2>8, <3>1 DEF WaitL
  <2>9. CASE CreateSummary(p)
    BY <2>9 DEF CreateSummary, Goto
  <2>10. CASE FoeWaits(p)
    <3>1. \A k \in Procs : valK[k] > 0 => valK[k] - 1 \in Nat
      OBVIOUS
    <3> QED
      BY <2>10, <3>1 DEF FoeWaits, Goto
  <2>11. CASE FoeSignals(p)
    <3>1. valL' \in [Procs -> Nat]
      <4>1. \A l \in Procs : valL[l] + 1 \in Nat
        OBVIOUS
      <4> QED
        BY <2>11, <4>1 DEF FoeSignals
    <3> QED
      BY <2>11, <3>1 DEF FoeSignals, Goto
  <2>12. CASE Unlinks(p)
    BY <2>12 DEF Unlinks, UnlinkK, UnlinkL, Goto
  <2> QED
    BY <1>1, <2>1, <2>2, <2>3, <2>4, <2>5, <2>6, <2>7, <2>8, <2>9, <2>10, <2>11, <2>12 DEF Step
<1>2. ASSUME NEW p \in Procs, StartToClean(p) \/ Killed(p) PROVE Shape'
  BY <1>2 DEF StartToClean, Killed, Goto
<1>3. ASSUME NEW d \in Dirs, RemoveFiles(d) PROVE Shape'
  BY <1>3 DEF RemoveFiles
<1>4. CASE UNCHANGED vars
  BY <1>4 DEF vars
<1> QED
  BY <1>1, <1>2, <1>3, <1>4 DEF Next

\* Which places a process can come from: the posts it has made stay made.
LEMMA PlacesAhead ==
  ASSUME Shape, [Next]_vars
  PROVE  Posted \subseteq Posted' /\ Signalled \subseteq Signalled'
<1> USE DEF Shape, Posted, Signalled, Locations, Monitoring
<1>1. ASSUME NEW p \in Procs, Step(p) PROVE Posted \subseteq Posted' /\ Signalled \subseteq Signalled'
  <2>1. CASE TryToBeHighlander(p) \/ HighlanderOpensL(p) \/ FoeOpensK(p) \/ FoeOpensL(p)
    BY <2>1 DEF TryToBeHighlander, HighlanderOpensL, FoeOpensK, FoeOpensL, Goto
  <2>2. CASE FoePosts(p) \/ CreateTrace(p) \/ AppEnds(p) \/ ReadK(p) \/ WaitL(p)
    BY <2>2 DEF FoePosts, CreateTrace, AppEnds, ReadK, WaitL, Goto
  <2>3. CASE CreateSummary(p) \/ FoeWaits(p) \/ FoeSignals(p)
    BY <2>3 DEF CreateSummary, FoeWaits, FoeSignals, Goto
  <2>4. CASE Unlinks(p)
    BY <2>4 DEF Unlinks, UnlinkK, UnlinkL, Goto
  <2> QED
    BY <1>1, <2>1, <2>2, <2>3, <2>4 DEF Step
<1>2. ASSUME NEW p \in Procs, StartToClean(p) \/ Killed(p)
      PROVE  Posted \subseteq Posted' /\ Signalled \subseteq Signalled'
  BY <1>2 DEF StartToClean, Killed, Goto
<1>3. CASE UNCHANGED pc
  BY <1>3
<1> QED
  BY <1>1, <1>2, <1>3 DEF Next, RemoveFiles, vars

LEMMA CountsGrow ==
  ASSUME Shape, [Next]_vars
  PROVE  /\ Cardinality(Posted) \in Nat /\ Cardinality(Posted') \in Nat
         /\ Cardinality(Signalled) \in Nat /\ Cardinality(Signalled') \in Nat
         /\ Cardinality(Posted) <= Cardinality(Posted')
         /\ Cardinality(Signalled) <= Cardinality(Signalled')
<1>1. Posted \subseteq Posted' /\ Signalled \subseteq Signalled'
  BY PlacesAhead
<1>2. IsFiniteSet(Posted') /\ IsFiniteSet(Signalled')
  BY HighlanderAssumption, FS_Subset DEF Posted, Signalled
<1>3. IsFiniteSet(Posted) /\ IsFiniteSet(Signalled)
  BY HighlanderAssumption, FS_Subset DEF Posted, Signalled
<1>4. Cardinality(Posted) <= Cardinality(Posted')
  BY <1>1, <1>2, FS_Subset
<1>5. Cardinality(Signalled) <= Cardinality(Signalled')
  BY <1>1, <1>2, FS_Subset
<1> QED
  BY <1>2, <1>3, <1>4, <1>5, FS_CardinalityType

\* The step in which a process posts makes it one of those that have.
LEMMA PostCounts ==
  ASSUME Shape, NEW p \in Procs
  PROVE  /\ FoePosts(p) => Cardinality(Posted') = Cardinality(Posted) + 1
         /\ FoeSignals(p) => Cardinality(Signalled') = Cardinality(Signalled) + 1
<1>1. IsFiniteSet(Posted) /\ IsFiniteSet(Signalled)
  BY HighlanderAssumption, FS_Subset DEF Posted, Signalled
<1>2. ASSUME FoePosts(p) PROVE Cardinality(Posted') = Cardinality(Posted) + 1
  <2>1. Posted' = Posted \cup {p} /\ p \notin Posted
    BY <1>2 DEF FoePosts, Goto, Posted, Shape
  <2> QED
    BY <1>1, <2>1, FS_AddElement
<1>3. ASSUME FoeSignals(p) PROVE Cardinality(Signalled') = Cardinality(Signalled) + 1
  <2>1. Signalled' = Signalled \cup {p} /\ p \notin Signalled
    BY <1>3 DEF FoeSignals, Goto, Signalled, Shape
  <2> QED
    BY <1>1, <2>1, FS_AddElement
<1> QED
  BY <1>2, <1>3

LEMMA CountedStep == Shape /\ PostsCounted /\ [Next]_vars => PostsCounted'
<1> SUFFICES ASSUME Shape, PostsCounted, [Next]_vars PROVE PostsCounted'
  OBVIOUS
<1>1. Shape'
  BY ShapeStep
<1> DEFINE Grown == \A k \in Procs : valK'[k] <= valK[k] /\ valL'[k] <= valL[k]
<1>2. CASE Grown
  <2> SUFFICES ASSUME NEW k \in Procs
               PROVE  valK'[k] <= Cardinality(Posted') /\ valL'[k] <= Cardinality(Signalled')
    BY DEF PostsCounted
  <2>1. /\ valK[k] \in Nat /\ valK'[k] \in Nat /\ valL[k] \in Nat /\ valL'[k] \in Nat
    BY <1>1 DEF Shape
  <2>2. valK'[k] <= valK[k] /\ valL'[k] <= valL[k]
    BY <1>2
  <2>3. valK[k] <= Cardinality(Posted) /\ valL[k] <= Cardinality(Signalled)
    BY DEF PostsCounted
  <2> QED
    BY <2>1, <2>2, <2>3, CountsGrow
<1>3. ASSUME NEW p \in Procs, FoePosts(p) PROVE PostsCounted'
  <2>1. \A k \in Procs : valK'[k] <= valK[k] + 1 /\ valL'[k] = valL[k]
    BY <1>3 DEF FoePosts, Shape
  <2> QED
    BY <1>1, <1>3, <2>1, CountsGrow, PostCounts DEF PostsCounted, Shape
<1>4. ASSUME NEW p \in Procs, FoeSignals(p) PROVE PostsCounted'
  <2>1. \A k \in Procs : valL'[k] <= valL[k] + 1 /\ valK'[k] = valK[k]
    BY <1>4 DEF FoeSignals, Shape
  <2> QED
    BY <1>1, <1>4, <2>1, CountsGrow, PostCounts DEF PostsCounted, Shape
<1>5. ASSUME NEW p \in Procs, WaitL(p) \/ FoeWaits(p) PROVE Grown
  BY <1>5 DEF WaitL, FoeWaits, Shape
<1>6. \/ \E p \in Procs : FoePosts(p) \/ FoeSignals(p) \/ WaitL(p) \/ FoeWaits(p)
      \/ UNCHANGED values
  BY DEF Next, Step, TryToBeHighlander, HighlanderOpensL, FoeOpensK, FoeOpensL, CreateTrace, AppEnds,
         ReadK, CreateSummary, Unlinks, UnlinkK, UnlinkL, StartToClean, Killed, RemoveFiles, vars, values
<1>7. UNCHANGED values => Grown
  BY DEF values, Shape
<1> QED
  BY <1>2, <1>3, <1>4, <1>5, <1>6, <1>7

\* The foes attached to a semaphore change only where one posts on it or takes
\* its post back: everybody else stays where it was or fails.
LEMMA CoverStep == Shape /\ KCoversItsFoes /\ [Next]_vars => KCoversItsFoes'
<1> SUFFICES ASSUME Shape, KCoversItsFoes, [Next]_vars, NEW k \in Procs
             PROVE  valK'[k] >= Cardinality(Attached(k)')
  BY DEF KCoversItsFoes
<1>1. Shape'
  BY ShapeStep
<1>2. IsFiniteSet(Attached(k)) /\ IsFiniteSet(Attached(k)')
  BY HighlanderAssumption, FS_Subset DEF Attached
<1>3. Cardinality(Attached(k)) \in Nat /\ Cardinality(Attached(k)') \in Nat
  BY <1>2, FS_CardinalityType
<1>4. valK[k] \in Nat /\ valK'[k] \in Nat /\ valK[k] >= Cardinality(Attached(k))
  BY <1>1 DEF Shape, KCoversItsFoes
<1>5. CASE valK'[k] = valK[k] /\ Attached(k)' \subseteq Attached(k)
  <2>1. Cardinality(Attached(k)') <= Cardinality(Attached(k))
    BY <1>2, <1>5, FS_Subset
  <2> QED
    BY <1>3, <1>4, <1>5, <2>1
<1>6. ASSUME NEW p \in Procs, FoePosts(p) PROVE valK'[k] >= Cardinality(Attached(k)')
  <2>1. CASE semk[p] = k
    <3>1. valK'[k] = valK[k] + 1
      BY <1>6, <2>1 DEF FoePosts, Shape
    <3>2. Attached(k)' = Attached(k) \cup {p} /\ p \notin Attached(k)
      BY <1>6, <2>1 DEF FoePosts, Goto, Attached, Shape, handles
    <3>3. Cardinality(Attached(k)') = Cardinality(Attached(k)) + 1
      BY <1>2, <3>2, FS_AddElement
    <3> QED
      BY <1>3, <1>4, <3>1, <3>3
  <2>2. CASE semk[p] # k
    <3>1. valK'[k] = valK[k] /\ Attached(k)' \subseteq Attached(k)
      BY <1>6, <2>2 DEF FoePosts, Goto, Attached, Shape, handles
    <3> QED
      BY <1>5, <3>1
  <2> QED
    BY <2>1, <2>2
<1>7. ASSUME NEW p \in Procs, FoeWaits(p) PROVE valK'[k] >= Cardinality(Attached(k)')
  <2>1. CASE semk[p] = k
    <3>1. valK'[k] = valK[k] - 1
      BY <1>7, <2>1 DEF FoeWaits, Shape
    <3>2. Attached(k)' = Attached(k) \ {p} /\ p \in Attached(k)
      BY <1>7, <2>1 DEF FoeWaits, Goto, Attached, Shape, handles
    <3>3. Cardinality(Attached(k)') = Cardinality(Attached(k)) - 1
      BY <1>2, <3>2, FS_RemoveElement
    <3> QED
      BY <1>3, <1>4, <3>1, <3>3
  <2>2. CASE semk[p] # k
    <3>1. valK'[k] = valK[k] /\ Attached(k)' \subseteq Attached(k)
      BY <1>7, <2>2 DEF FoeWaits, Goto, Attached, Shape, handles
    <3> QED
      BY <1>5, <3>1
  <2> QED
    BY <2>1, <2>2
<1>8. ASSUME NEW p \in Procs, Step(p), ~FoePosts(p), ~FoeWaits(p)
      PROVE  valK'[k] = valK[k] /\ Attached(k)' \subseteq Attached(k)
  <2>1. CASE TryToBeHighlander(p) \/ HighlanderOpensL(p) \/ FoeOpensK(p) \/ FoeOpensL(p)
    BY <2>1 DEF TryToBeHighlander, HighlanderOpensL, FoeOpensK, FoeOpensL, Goto, OpenK, OpenL, Attached, Shape, values
  <2>2. CASE CreateTrace(p) \/ AppEnds(p) \/ ReadK(p) \/ WaitL(p) \/ CreateSummary(p) \/ FoeSignals(p)
    BY <2>2 DEF CreateTrace, AppEnds, ReadK, WaitL, CreateSummary, FoeSignals, Goto, Attached, Shape, values, handles
  <2>3. CASE Unlinks(p)
    BY <2>3 DEF Unlinks, UnlinkK, UnlinkL, Goto, Attached, Shape, values, handles
  <2> QED
    BY <1>8, <2>1, <2>2, <2>3 DEF Step
<1>9. ASSUME NEW p \in Procs, StartToClean(p) \/ Killed(p)
      PROVE  valK'[k] = valK[k] /\ Attached(k)' \subseteq Attached(k)
  BY <1>9 DEF StartToClean, Killed, Goto, Attached, Shape, values, handles
<1>10. CASE (\E d \in Dirs : RemoveFiles(d)) \/ UNCHANGED vars
  BY <1>5, <1>10 DEF RemoveFiles, vars, Attached, values, handles
<1> QED
  BY <1>5, <1>6, <1>7, <1>8, <1>9, <1>10 DEF Next

\* A monitor is in its directory alone, because the trace it made is there and
\* nobody else's can be made; its summary is the only one beside that trace.
LEMMA FilesStep == Shape /\ FilesAreOfOneRun /\ [Next]_vars => FilesAreOfOneRun'
<1> SUFFICES ASSUME Shape, FilesAreOfOneRun, [Next]_vars PROVE FilesAreOfOneRun'
  OBVIOUS
<1> USE HighlanderAssumption DEF Shape, FilesAreOfOneRun, Monitoring, names, values, handles, files
<1>1. ASSUME NEW p \in Procs, Step(p) PROVE FilesAreOfOneRun'
  <2>1. CASE TryToBeHighlander(p) \/ HighlanderOpensL(p) \/ FoeOpensK(p) \/ FoeOpensL(p)
    BY <2>1 DEF TryToBeHighlander, HighlanderOpensL, FoeOpensK, FoeOpensL, Goto
  <2>2. CASE CreateTrace(p)
    BY <2>2 DEF CreateTrace, Goto
  <2>3. CASE CreateSummary(p)
    BY <2>3 DEF CreateSummary, Goto
  <2>4. CASE FoePosts(p) \/ AppEnds(p) \/ ReadK(p) \/ WaitL(p) \/ FoeWaits(p) \/ FoeSignals(p)
    BY <2>4 DEF FoePosts, AppEnds, ReadK, WaitL, FoeWaits, FoeSignals, Goto
  <2>5. CASE Unlinks(p)
    BY <2>5 DEF Unlinks, UnlinkK, UnlinkL, Goto
  <2> QED
    BY <1>1, <2>1, <2>2, <2>3, <2>4, <2>5 DEF Step
<1>2. ASSUME NEW p \in Procs, StartToClean(p) \/ Killed(p) PROVE FilesAreOfOneRun'
  BY <1>2 DEF StartToClean, Killed, Goto
<1>3. ASSUME NEW d \in Dirs, RemoveFiles(d) PROVE FilesAreOfOneRun'
  BY <1>3 DEF RemoveFiles
<1>4. CASE UNCHANGED vars
  BY <1>4 DEF vars
<1> QED
  BY <1>1, <1>2, <1>3, <1>4 DEF Next

\* Of the processes between making a name and unlinking it, one at most leaves
\* in a step, and unlinks the name as it does.
LEMMA NamesStep == Shape /\ NamesInv /\ [Next]_vars => NamesInv'
<1> SUFFICES ASSUME Shape, NamesInv, [Next]_vars PROVE NamesInv'
  OBVIOUS
<1> DEFINE HasK(q) == pc[q] \notin {"start", "cleans_l", "done"}
           HasL(q) == pc[q] \notin {"start", "done"}
<1>1. ASSUME NEW p \in Procs, Step(p) \/ StartToClean(p) \/ Killed(p)
      PROVE  \A q \in Procs : q # p => pc'[q] = pc[q]
  BY <1>1 DEF Step, TryToBeHighlander, HighlanderOpensL, FoeOpensK, FoeOpensL, FoePosts, CreateTrace,
              AppEnds, ReadK, WaitL, CreateSummary, FoeWaits, FoeSignals, Unlinks, UnlinkK, UnlinkL,
              StartToClean, Killed, Goto, Shape
<1>2. ASSUME NEW p \in Procs, Step(p) \/ StartToClean(p) \/ Killed(p)
      PROVE  /\ nameK' = None \/ HasK(p)' \/ (nameK' = nameK /\ ~HasK(p))
             /\ nameL' = None \/ HasL(p)' \/ (nameL' = nameL /\ ~HasL(p))
  <2> USE DEF Goto, Shape, names
  <2>1. CASE TryToBeHighlander(p) \/ HighlanderOpensL(p)
    BY <2>1 DEF TryToBeHighlander, HighlanderOpensL
  <2>2. CASE FoeOpensK(p) \/ FoeOpensL(p) \/ FoePosts(p) \/ CreateTrace(p)
    BY <2>2 DEF FoeOpensK, FoeOpensL, FoePosts, CreateTrace
  <2>3. CASE AppEnds(p) \/ ReadK(p) \/ WaitL(p) \/ CreateSummary(p)
    BY <2>3 DEF AppEnds, ReadK, WaitL, CreateSummary
  <2>4. CASE FoeWaits(p) \/ FoeSignals(p)
    BY <2>4 DEF FoeWaits, FoeSignals
  <2>5. CASE Unlinks(p)
    BY <2>5 DEF Unlinks, UnlinkK, UnlinkL
  <2>6. CASE StartToClean(p) \/ Killed(p)
    BY <2>6 DEF StartToClean, Killed
  <2> QED
    BY <1>2, <2>1, <2>2, <2>3, <2>4, <2>5, <2>6 DEF Step
<1>3. ASSUME NEW p \in Procs, Step(p) \/ StartToClean(p) \/ Killed(p) PROVE NamesInv'
  <2>1. ASSUME nameK' # None PROVE \E q \in Procs : HasK(q)'
    <3>1. CASE HasK(p)'
      BY <3>1
    <3>2. CASE ~HasK(p)'
      <4>1. nameK' = nameK /\ ~HasK(p)
        BY <1>2, <1>3, <2>1, <3>2
      <4>2. PICK q \in Procs : HasK(q)
        BY <2>1, <4>1 DEF NamesInv
      <4>3. pc'[q] = pc[q]
        BY <1>1, <1>3, <4>1, <4>2
      <4> QED
        BY <4>2, <4>3
    <3> QED
      BY <3>1, <3>2
  <2>2. ASSUME nameL' # None PROVE \E q \in Procs : HasL(q)'
    <3>1. CASE HasL(p)'
      BY <3>1
    <3>2. CASE ~HasL(p)'
      <4>1. nameL' = nameL /\ ~HasL(p)
        BY <1>2, <1>3, <2>2, <3>2
      <4>2. PICK q \in Procs : HasL(q)
        BY <2>2, <4>1 DEF NamesInv
      <4>3. pc'[q] = pc[q]
        BY <1>1, <1>3, <4>1, <4>2
      <4> QED
        BY <4>2, <4>3
    <3> QED
      BY <3>1, <3>2
  <2> QED
    BY <2>1, <2>2 DEF NamesInv
<1>4. CASE (\E d \in Dirs : RemoveFiles(d)) \/ UNCHANGED vars
  BY <1>4 DEF RemoveFiles, vars, NamesInv, names
<1> QED
  BY <1>3, <1>4 DEF Next

-----------------------------------------------------------------------------
LEMMA InvInit == Init => Inv
<1> SUFFICES ASSUME Init PROVE Inv
  OBVIOUS
<1>1. Shape
  BY ShapeInit
<1>2. IsFiniteSet(Posted) /\ IsFiniteSet(Signalled)
  BY HighlanderAssumption, FS_Subset DEF Posted, Signalled
<1>3. PostsCounted
  BY <1>2, FS_CardinalityType DEF PostsCounted, Init
<1>4. \A k \in Procs : Attached(k) = {}
  BY DEF Attached, Init
<1>5. KCoversItsFoes
  BY <1>4, FS_EmptySet DEF KCoversItsFoes, Init
<1>6. FilesAreOfOneRun /\ NamesInv
  BY HighlanderAssumption DEF FilesAreOfOneRun, NamesInv, Init, Monitoring
<1> QED
  BY <1>1, <1>3, <1>5, <1>6 DEF Inv

LEMMA InvStep == Inv /\ [Next]_vars => Inv'
BY ShapeStep, CountedStep, CoverStep, FilesStep, NamesStep DEF Inv

LEMMA Invariant == Spec => []Inv
BY InvInit, InvStep, PTL DEF Spec

\* The variables keep to their types: in particular no semaphore is posted more
\* often than there are processes (highlander, highlander_wait).
THEOREM HighlanderTypeCorrect == Spec => []TypeOK
<1>1. Inv => TypeOK
  <2> SUFFICES ASSUME Inv PROVE TypeOK
    OBVIOUS
  <2>1. Posted \subseteq Procs /\ Signalled \subseteq Procs
    BY DEF Posted, Signalled
  <2>2. /\ Cardinality(Posted) <= Cardinality(Procs)
        /\ Cardinality(Signalled) <= Cardinality(Procs)
    BY <2>1, HighlanderAssumption, FS_Subset
  <2>3. Cardinality(Posted) \in Nat /\ Cardinality(Signalled) \in Nat /\ Cardinality(Procs) \in Nat
    BY <2>1, HighlanderAssumption, FS_Subset, FS_CardinalityType
  <2>4. \A k \in Procs : valK[k] \in 0 .. Cardinality(Procs) /\ valL[k] \in 0 .. Cardinality(Procs)
    BY <2>2, <2>3 DEF Inv, Shape, PostsCounted
  <2> QED
    BY <2>4 DEF Inv, Shape, TypeOK
<1> QED
  BY <1>1, Invariant, PTL

\* The wait of a foe never blocks (highlander_wait): the semaphore it holds has a
\* post for each foe that holds it, whoever has been killed or has unlinked the name.
THEOREM FoesAreCovered == Spec => []KCoversItsFoes
BY Invariant, PTL DEF Inv

\* A directory has one monitor, and its summary and its trace come from the same
\* run (main of var_monitor and of the wrappers, O_EXCL).
THEOREM FilesStayOfOneRun == Spec => []FilesAreOfOneRun
BY Invariant, PTL DEF Inv

\* Only a process that failed leaves a name behind (highlander_clean).
THEOREM NamesDoNotOutlive == Spec => []NamesAreCleaned
<1>1. Inv => NamesAreCleaned
  BY DEF Inv, NamesInv, NamesAreCleaned
<1> QED
  BY <1>1, Invariant, PTL
=============================================================================
