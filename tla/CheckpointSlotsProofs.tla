----------------------- MODULE CheckpointSlotsProofs -----------------------
(* Facts about the slot transitions and the inheritance law that hold for  *)
(* every host tree and every set of trees.                                 *)
EXTENDS CheckpointSlots, TLAPS, WellFoundedInduction

(* A bounded non-empty set of naturals has a greatest element.             *)
LEMMA GreatestExists ==
    ASSUME NEW n \in Nat, NEW B \in SUBSET (1..n), B # {}
    PROVE  \E i \in B : \A j \in B : j <= i
<1> DEFINE Bounds == {m \in Nat : \A j \in B : j <= m}
<1>1. n \in Bounds
  OBVIOUS
<1>2. PICK m \in Bounds : \A k \in Bounds : ~ (<<k, m>> \in OpToRel(<, Nat))
  BY <1>1, WFMin, NatLessThanWellFounded
<1>3. \A k \in Bounds : ~ (k < m)
  BY <1>2 DEF OpToRel
<1>4. ASSUME m \notin B PROVE FALSE
  <2>1. \A j \in B : j < m
    BY <1>4
  <2>0. PICK k \in B : TRUE
    OBVIOUS
  <2>2. m - 1 \in Nat /\ \A j \in B : j <= m - 1
    BY <2>1, <2>0
  <2>3. m - 1 \in Bounds
    BY <2>2
  <2> QED
    BY <1>3, <2>3
<1> QED
  BY <1>4

LEMMA PathTyped ==
    ASSUME NEW e \in Entries
    PROVE  /\ Len(Path[e]) \in Nat \ {0}
           /\ \A i \in 1..Len(Path[e]) : Path[e][i] \in Entries
           /\ Path[e][Len(Path[e])] = e
           /\ Ancestors(e) \subseteq Entries
<1>1. Path[e] \in Seq(Entries) /\ Len(Path[e]) > 0 /\ Path[e][Len(Path[e])] = e
  BY PathAssumption
<1> QED
  BY <1>1 DEF Ancestors

(* The prefix of an ancestry is the ancestry of its own end.               *)
LEMMA PathPrefix ==
    ASSUME NEW e \in Entries, NEW i \in 1..Len(Path[e]), NEW d, d = Path[e][i]
    PROVE  /\ d \in Entries
           /\ Len(Path[d]) = i
           /\ \A j \in 1..i : Path[d][j] = Path[e][j]
<1>1. d \in Entries
  BY PathTyped
<1>2. Path[e] \in Seq(Entries) /\ Path[d] = SubSeq(Path[e], 1, i)
  BY PathAssumption
<1> QED
  BY <1>1, <1>2

LEMMA InheritedFromNearest ==
    ASSUME NEW sl \in [Entries -> Slot], NEW e \in Entries, NEW i, IsNearest(sl, e, i)
    PROVE  /\ Inherited(sl, e) = [at |-> Path[e][i], tree |-> sl[Path[e][i]].tree]
           /\ HasTree(sl[Path[e][i]])
           /\ i \in 1..Len(Path[e])
<1> DEFINE k == CHOOSE j \in 1..Len(Path[e]) : IsNearest(sl, e, j)
<1>1. i \in 1..Len(Path[e]) /\ i \in Bearing(sl, e) /\ HasTree(sl[Path[e][i]])
  BY DEF IsNearest, Bearing
<1>2. k \in 1..Len(Path[e]) /\ IsNearest(sl, e, k)
  BY <1>1
<1>3. k = i
  <2>1. k <= i /\ i <= k
    BY <1>1, <1>2 DEF IsNearest
  <2> QED
    BY <2>1, <1>1, <1>2, PathTyped
<1>4. Bearing(sl, e) # {}
  BY <1>1
<1> QED
  BY <1>1, <1>3, <1>4 DEF Inherited

LEMMA NearestExists ==
    ASSUME NEW sl \in [Entries -> Slot], NEW e \in Entries, Bearing(sl, e) # {}
    PROVE  \E i \in 1..Len(Path[e]) : IsNearest(sl, e, i)
<1>1. Len(Path[e]) \in Nat /\ Bearing(sl, e) \in SUBSET (1..Len(Path[e]))
  BY PathTyped DEF Bearing
<1>2. \E i \in Bearing(sl, e) : \A j \in Bearing(sl, e) : j <= i
  BY <1>1, GreatestExists
<1> QED
  BY <1>1, <1>2 DEF IsNearest

LEMMA InheritedTyped ==
    ASSUME NEW sl \in [Entries -> Slot], NEW e \in Entries
    PROVE  /\ Inherited(sl, e) \in Resolutions
           /\ Inherited(sl, e).tree \in Trees \cup {NoTree}
           /\ Resolve(sl, e) \in Resolutions
           /\ Resolve(sl, e).tree \in Trees \cup {NoTree}
<1>1. Missing \in Resolutions
  BY DEF Missing, Resolutions
<1>2. Inherited(sl, e) \in Resolutions
  <2>1. CASE Bearing(sl, e) = {}
    BY <2>1, <1>1 DEF Inherited
  <2>2. CASE Bearing(sl, e) # {}
    <3>1. PICK i \in 1..Len(Path[e]) : IsNearest(sl, e, i)
      BY <2>2, NearestExists
    <3>2. Inherited(sl, e) = [at |-> Path[e][i], tree |-> sl[Path[e][i]].tree]
      BY <3>1, InheritedFromNearest
    <3>3. Path[e][i] \in Entries
      BY PathTyped
    <3> QED
      BY <3>2, <3>3 DEF Resolutions, Slot
  <2> QED
    BY <2>1, <2>2
<1>3. Resolve(sl, e) \in Resolutions
  BY <1>1, <1>2 DEF Resolve
<1> QED
  BY <1>2, <1>3 DEF Resolutions

LEMMA BlockSlotTyped ==
    ASSUME NEW slot \in Slot, NEW t \in Trees \cup {NoTree}
    PROVE  /\ BlockSlot(slot, t) \in Slot
           /\ IsBlocked(BlockSlot(slot, t))
           /\ HasTree(slot) => BlockSlot(slot, t).tree = slot.tree
           /\ ~ HasTree(slot) /\ IsBlocked(slot) => BlockSlot(slot, t).tree = NoTree
           /\ ~ HasTree(slot) /\ ~ IsBlocked(slot) => BlockSlot(slot, t).tree = t
BY DEF BlockSlot, Slot, IsBlocked, HasTree

LEMMA ConstantSlotsTyped ==
    /\ OpenMissing \in Slot
    /\ BlockedMissing \in Slot
    /\ \A t \in Trees : OpenCheckpoint(t) \in Slot
BY DEF OpenMissing, BlockedMissing, OpenCheckpoint, Slot
-----------------------------------------------------------------------------
(* Each coordinate keeps its slot or is blocked on what it inherits.       *)
BlocksOnInherited(old, new) ==
    \A d \in Entries :
        new[d] = old[d] \/ new[d] = BlockSlot(old[d], Inherited(old, d).tree)

LEMMA BlockedSlotCases ==
    ASSUME NEW old \in [Entries -> Slot], NEW new \in [Entries -> Slot],
           BlocksOnInherited(old, new), NEW d \in Entries
    PROVE  /\ HasTree(old[d]) => HasTree(new[d]) /\ new[d].tree = old[d].tree
           /\ ~ HasTree(old[d]) /\ HasTree(new[d])
                 => new[d].tree = Inherited(old, d).tree
           /\ old[d] = BlockedMissing => new[d] = BlockedMissing
           /\ new[d] = BlockedMissing /\ old[d] # BlockedMissing
                 => Inherited(old, d).tree = NoTree
<1> DEFINE t == Inherited(old, d).tree
<1>1. old[d] \in Slot /\ t \in Trees \cup {NoTree}
  BY InheritedTyped
<1>2. new[d] = old[d] \/ new[d] = BlockSlot(old[d], t)
  BY DEF BlocksOnInherited
<1>3. CASE new[d] = old[d]
  BY <1>3 DEF HasTree
<1>4. CASE new[d] = BlockSlot(old[d], t)
  <2>1. HasTree(old[d]) => HasTree(new[d]) /\ new[d].tree = old[d].tree
    BY <1>1, <1>4, BlockSlotTyped DEF HasTree
  <2>2. ~ HasTree(old[d]) /\ HasTree(new[d]) => new[d].tree = t
    BY <1>1, <1>4, BlockSlotTyped DEF HasTree
  <2>3. old[d] = BlockedMissing => new[d] = BlockedMissing
    BY <1>1, <1>4 DEF BlockSlot, BlockedMissing, IsBlocked, HasTree, Slot
  <2>4. new[d] = BlockedMissing /\ old[d] # BlockedMissing => t = NoTree
    BY <1>1, <1>4 DEF BlockSlot, BlockedMissing, IsBlocked, HasTree, Slot
  <2> QED
    BY <2>1, <2>2, <2>3, <2>4
<1> QED
  BY <1>2, <1>3, <1>4

(* Blocking any set of coordinates on what they inherit leaves what every  *)
(* coordinate inherits as it was.                                          *)
LEMMA InheritedSurvivesBlocking ==
    ASSUME NEW old \in [Entries -> Slot], NEW new \in [Entries -> Slot],
           BlocksOnInherited(old, new), NEW e \in Entries
    PROVE  Inherited(new, e).tree = Inherited(old, e).tree
<1>1. \A i \in 1..Len(Path[e]) : Path[e][i] \in Entries
  BY PathTyped
<1>2. Bearing(old, e) \subseteq Bearing(new, e)
  BY <1>1, BlockedSlotCases DEF Bearing
<1>3. CASE Bearing(new, e) = {}
  BY <1>2, <1>3 DEF Inherited
<1>4. CASE Bearing(new, e) # {}
  <2>1. PICK i \in 1..Len(Path[e]) : IsNearest(new, e, i)
    BY <1>4, NearestExists
  <2> DEFINE d == Path[e][i]
  <2>2. d \in Entries
    BY <1>1
  <2>3. Inherited(new, e).tree = new[d].tree /\ HasTree(new[d])
    BY <2>1, InheritedFromNearest
  <2>4. CASE HasTree(old[d])
    <3>1. IsNearest(old, e, i)
      BY <1>2, <2>1, <2>4 DEF IsNearest, Bearing
    <3>2. Inherited(old, e).tree = old[d].tree
      BY <3>1, InheritedFromNearest
    <3> QED
      BY <2>2, <2>3, <2>4, <3>2, BlockedSlotCases
  <2>5. CASE ~ HasTree(old[d])
    <3>1. new[d].tree = Inherited(old, d).tree
      BY <2>2, <2>3, <2>5, BlockedSlotCases
    <3>2. Inherited(old, d).tree # NoTree
      BY <2>3, <3>1 DEF HasTree
    <3>3. Bearing(old, d) # {}
      BY <3>2 DEF Inherited, Missing
    <3>4. PICK k \in 1..Len(Path[d]) : IsNearest(old, d, k)
      BY <2>2, <3>3, NearestExists
    <3>5. Len(Path[d]) = i /\ \A j \in 1..i : Path[d][j] = Path[e][j]
      BY PathPrefix
    <3>6. i \in Nat /\ Len(Path[e]) \in Nat
      BY PathTyped
    <3>7. IsNearest(old, e, k)
      <4>1. k \in Bearing(old, e)
        BY <3>4, <3>5, <3>6 DEF IsNearest, Bearing
      <4>2. ASSUME NEW j \in Bearing(old, e) PROVE j <= k
        <5>1. j \in 1..Len(Path[e]) /\ HasTree(old[Path[e][j]]) /\ j <= i
          BY <1>2, <2>1 DEF IsNearest, Bearing
        <5>2. j \in 1..i
          BY <5>1, <3>6
        <5>3. j \in Bearing(old, d)
          BY <5>1, <5>2, <3>5 DEF Bearing
        <5> QED
          BY <5>3, <3>4 DEF IsNearest
      <4> QED
        BY <4>1, <4>2 DEF IsNearest
    <3>8. Inherited(old, e).tree = old[Path[e][k]].tree
      BY <3>7, InheritedFromNearest
    <3>9. Inherited(old, d).tree = old[Path[d][k]].tree
      BY <2>2, <3>4, InheritedFromNearest
    <3>10. Path[d][k] = Path[e][k]
      BY <3>4, <3>5
    <3> QED
      BY <2>3, <3>1, <3>8, <3>9, <3>10
  <2> QED
    BY <2>4, <2>5
<1> QED
  BY <1>3, <1>4

(* ... and so does what it resolves to.                                    *)
LEMMA ResolutionSurvivesBlocking ==
    ASSUME NEW old \in [Entries -> Slot], NEW new \in [Entries -> Slot],
           BlocksOnInherited(old, new), NEW e \in Entries
    PROVE  Resolve(new, e).tree = Resolve(old, e).tree
<1>1. Inherited(new, e).tree = Inherited(old, e).tree
  BY InheritedSurvivesBlocking
<1>2. CASE old[e] = BlockedMissing
  BY <1>2, BlockedSlotCases DEF Resolve
<1>3. CASE old[e] # BlockedMissing /\ new[e] = BlockedMissing
  BY <1>3, BlockedSlotCases DEF Resolve, Missing
<1>4. CASE old[e] # BlockedMissing /\ new[e] # BlockedMissing
  BY <1>1, <1>4 DEF Resolve
<1> QED
  BY <1>2, <1>3, <1>4
-----------------------------------------------------------------------------
(* The loop of the source and the law give the same answer, on a path of   *)
(* any length: the law solves the equation of the loop, and the least      *)
(* place where the two differ would follow one where they agree.           *)
LEMMA LoopIsLaw ==
    ASSUME NEW sl \in [Entries -> Slot], NEW e \in Entries
    PROVE  ReduceLineage(sl, Path[e]) = Resolve(sl, e)
<1> DEFINE path == Path[e]
           L == Len(path)
           At(i) == [at |-> path[i], tree |-> sl[path[i]].tree]
           B(i) == {k \in 1..i : HasTree(sl[path[k]])}
           Near(i) == CHOOSE k \in 1..i : k \in B(i) /\ \A j \in B(i) : j <= k
           law == [i \in 0..L |-> IF B(i) = {} THEN Missing ELSE At(Near(i))]
           Solves(f) == f = [i \in 0..L |->
                               IF i = 0 THEN Missing
                               ELSE IF HasTree(sl[path[i]]) THEN At(i) ELSE f[i - 1]]
           loop == CHOOSE f : Solves(f)
<1>0. L \in Nat \ {0} /\ path[L] = e
  BY PathTyped
<1>1. ASSUME NEW i \in 0..L, i # 0, HasTree(sl[path[i]]) PROVE law[i] = At(i)
  <2>1. i \in B(i) /\ \A j \in B(i) : j <= i
    BY <1>0, <1>1
  <2>2. \A k \in 1..i : k \in B(i) /\ (\A j \in B(i) : j <= k) => k = i
    BY <1>0, <2>1
  <2>3. Near(i) = i
    <3> HIDE DEF B
    <3>1. i \in 1..i
      BY <1>0, <1>1
    <3> QED
      BY <2>1, <2>2, <3>1
  <2> QED
    BY <2>1, <2>3
<1>2. ASSUME NEW i \in 0..L, i # 0, ~ HasTree(sl[path[i]]) PROVE law[i] = law[i - 1]
  <2>0. i - 1 \in 0..L
    BY <1>0, <1>2
  <2>1. B(i) = B(i - 1)
    BY <1>0, <1>2
  <2>2. CASE B(i) = {}
    BY <2>0, <2>1, <2>2
  <2>3. CASE B(i) # {}
    <3>1. \A k \in 1..i : k \in B(i) => k \in 1..(i - 1)
      BY <2>1
    <3>2. \E k \in 1..(i - 1) : k \in B(i) /\ \A j \in B(i) : j <= k
      <4>1. i - 1 \in Nat /\ B(i) \in SUBSET (1..(i - 1))
        BY <1>0, <1>2, <2>1
      <4>2. \E k \in B(i) : \A j \in B(i) : j <= k
        <5> HIDE DEF B
        <5> QED
          BY <2>3, <4>1, GreatestExists
      <4> QED
        BY <4>1, <4>2
    <3>3. \A a, b \in 1..i : /\ a \in B(i) /\ \A j \in B(i) : j <= a
                             /\ b \in B(i) /\ \A j \in B(i) : j <= b
                             => a = b
      BY <1>0
    <3>4. Near(i) = Near(i - 1)
      <4> DEFINE P(k) == k \in B(i) /\ \A j \in B(i) : j <= k
      <4>1. PICK k \in 1..(i - 1) : P(k)
        BY <3>2
      <4>2. k \in 1..i /\ \A a \in 1..i : P(a) => a = k
        BY <1>0, <4>1, <3>3
      <4>3. (CHOOSE a \in 1..i : P(a)) = k
        <5> HIDE DEF P
        <5> QED
          BY <4>1, <4>2
      <4>4. \A a \in 1..(i - 1) : P(a) => a = k
        BY <1>0, <4>1, <3>3
      <4>5. (CHOOSE a \in 1..(i - 1) : P(a)) = k
        <5> HIDE DEF P
        <5> QED
          BY <4>1, <4>4
      <4> QED
        BY <4>3, <4>5, <2>1
    <3> QED
      BY <2>0, <2>1, <2>3, <3>4
  <2> QED
    BY <2>2, <2>3
<1>3. law[0] = Missing
  <2>1. B(0) = {}
    OBVIOUS
  <2>2. 0 \in 0..L
    BY <1>0
  <2> QED
    BY <2>1, <2>2
<1>4. Solves(law)
  <2>1. \A i \in 0..L : law[i] = IF i = 0 THEN Missing
                                 ELSE IF HasTree(sl[path[i]]) THEN At(i) ELSE law[i - 1]
    <3> HIDE DEF law, At
    <3> QED
      BY <1>1, <1>2, <1>3
  <2>2. law = [i \in 0..L |-> law[i]]
    OBVIOUS
  <2> HIDE DEF law, At
  <2> QED
    BY <2>1, <2>2
<1>5. Solves(loop)
  <2> HIDE DEF Solves, law
  <2> QED
    BY <1>4
<1>6. \A i \in 0..L : loop[i] = law[i]
  <2> DEFINE Bad == {i \in Nat : i \in 0..L /\ loop[i] # law[i]}
  <2>1. ASSUME Bad # {} PROVE FALSE
    <3>1. PICK n \in Bad : \A k \in Bad : ~ (<<k, n>> \in OpToRel(<, Nat))
      <4> HIDE DEF loop, law
      <4> QED
        BY <2>1, WFMin, NatLessThanWellFounded
    <3>2. \A k \in Bad : ~ (k < n)
      <4> HIDE DEF loop, law
      <4> QED
        BY <3>1 DEF OpToRel
    <3>3. \A f : Solves(f) => \A i \in 0..L : f[i] = IF i = 0 THEN Missing
                                 ELSE IF HasTree(sl[path[i]]) THEN At(i) ELSE f[i - 1]
      <4> HIDE DEF At
      <4> QED
        OBVIOUS
    <3>4. \A i \in 0..L : loop[i] = IF i = 0 THEN Missing
                                 ELSE IF HasTree(sl[path[i]]) THEN At(i) ELSE loop[i - 1]
      <4> HIDE DEF At, loop, Solves
      <4> QED
        BY <1>5, <3>3
    <3>5. \A i \in 0..L : law[i] = IF i = 0 THEN Missing
                                 ELSE IF HasTree(sl[path[i]]) THEN At(i) ELSE law[i - 1]
      <4> HIDE DEF At, law, Solves
      <4> QED
        BY <1>4, <3>3
    <3> HIDE DEF loop, law, At
    <3>6. n # 0 /\ ~ HasTree(sl[path[n]]) /\ n \in 0..L
      BY <3>4, <3>5
    <3>7. n - 1 \in 0..L /\ n - 1 \in Nat /\ n - 1 < n
      BY <3>6, <1>0
    <3>8. loop[n - 1] # law[n - 1]
      BY <3>4, <3>5, <3>6
    <3> QED
      BY <3>2, <3>7, <3>8
  <2>2. ASSUME NEW i \in 0..L PROVE loop[i] = law[i]
    <3>1. i \in Nat
      BY <1>0
    <3> HIDE DEF loop, law
    <3> QED
      BY <2>1, <3>1
  <2> HIDE DEF loop, law
  <2> QED
    BY <2>2
<1>7. ReduceLineage(sl, path) = IF sl[path[L]] = BlockedMissing THEN Missing ELSE loop[L]
  BY DEF ReduceLineage
<1>8. law[L] = Inherited(sl, e)
  <2>1. B(L) = Bearing(sl, e)
    BY DEF Bearing
  <2>2. L \in 0..L
    BY <1>0
  <2>3. CASE B(L) = {}
    BY <2>1, <2>2, <2>3 DEF Inherited
  <2>4. CASE B(L) # {}
    <3>1. PICK i \in 1..L : IsNearest(sl, e, i)
      BY <2>1, <2>4, NearestExists
    <3>2. Inherited(sl, e) = At(i)
      BY <3>1, InheritedFromNearest
    <3>3. \A k \in 1..L : (k \in B(L) /\ \A j \in B(L) : j <= k) <=> IsNearest(sl, e, k)
      BY <2>1 DEF IsNearest
    <3>4. \A k \in 1..L : IsNearest(sl, e, k) => k = i
      <4>1. \A k \in 1..L : k \in Int
        OBVIOUS
      <4> QED
        BY <1>0, <3>1, <4>1 DEF IsNearest
    <3>5. Near(L) = i
      <4> HIDE DEF B
      <4> QED
        BY <3>1, <3>3, <3>4
    <3> QED
      BY <2>2, <2>4, <3>2, <3>5
  <2> QED
    BY <2>3, <2>4
<1>9. L \in 0..L
  BY <1>0
<1> HIDE DEF loop, law
<1> QED
  BY <1>0, <1>6, <1>7, <1>8, <1>9 DEF Resolve
=============================================================================
