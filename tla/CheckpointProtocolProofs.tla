----------------------- MODULE CheckpointProtocolProofs -----------------------
(***************************************************************************)
(* Theorems about CheckpointProtocol, for any tree of entries, any trees   *)
(* and any disturbances.                                                   *)
(***************************************************************************)
EXTENDS CheckpointProtocol, CheckpointSlotsProofs

(* What is pinned on a checkpoint stays as it is.                          *)
Pins(old, new) ==
    \A e \in Entries : IsBlocked(old[e]) /\ HasTree(old[e]) => new[e] = old[e]

(* No transition begins, and one that goes on is the same.                 *)
Yields(a, b) ==
    /\ b.kind = "arrival" => a.kind = "arrival" /\ b.attempt = a.attempt
    /\ b.preparing # NoPrep => b.preparing = a.preparing

(* What an operation other than a release does to a state.                 *)
Tame(s, t) ==
    /\ t \in States
    /\ Pins(s.slots, t.slots)
    /\ Yields(s.adm, t.adm)
    /\ t.active => s.active

Steady(a) == a.kind # "arrival" /\ a.preparing = NoPrep
-----------------------------------------------------------------------------
(* The operations on the authority.                                        *)

LEMMA AtTyped ==
  ASSUME NEW v \in Views
  PROVE  At(v) \in Entries \cup {NoEntry}
BY LabelAssumption DEF At, StableOf, Views, Raw

LEMMA AuthorityTyped ==
  ASSUME NEW a \in Authorities, NEW v \in Views
  PROVE  /\ Reset(a) \in Authorities /\ Steady(Reset(a))
         /\ WithoutProposal(a) \in Authorities /\ Yields(a, WithoutProposal(a))
         /\ LiveAt(a, v) \in Authorities /\ Yields(a, LiveAt(a, v)) /\ LiveAt(a, v).kind = "live"
         /\ \A p \in Preps :
               /\ BeginPreparation(a, p) \in Authorities
               /\ FinishPreparation(a, p) \in Authorities
               /\ Yields(a, FinishPreparation(a, p)) /\ FinishPreparation(a, p).preparing # p
               /\ BeginPreparation(a, p).kind = a.kind
               /\ BeginPreparation(a, p).attempt = a.attempt
               /\ BeginPreparation(a, p).preparing \in {a.preparing, p}
               /\ \A way \in Plans :
                     /\ Propose(a, p, way) \in Authorities
                     /\ Yields(a, Propose(a, p, way))
                     /\ Propose(a, p, way).preparing # p
         /\ \A h \in Attempts :
               /\ BeginTreeArrival(a, h) \in Authorities
               /\ BeginTreeArrival(a, h).kind = "arrival"
               /\ BeginTreeArrival(a, h).attempt = h
               /\ BeginTreeArrival(a, h).preparing = NoPrep
<1> USE NoTokenAssumption DEF Authorities, Yields, Steady
<1>1. Reset(a) \in Authorities /\ Steady(Reset(a)) BY DEF Reset, NoAuthority
<1>2. WithoutProposal(a) \in Authorities /\ Yields(a, WithoutProposal(a)) BY DEF WithoutProposal
<1>3. LiveAt(a, v) \in Authorities /\ Yields(a, LiveAt(a, v)) /\ LiveAt(a, v).kind = "live"
  BY DEF LiveAt
<1>4. ASSUME NEW p \in Preps
      PROVE  /\ BeginPreparation(a, p) \in Authorities
             /\ FinishPreparation(a, p) \in Authorities
             /\ Yields(a, FinishPreparation(a, p)) /\ FinishPreparation(a, p).preparing # p
             /\ BeginPreparation(a, p).kind = a.kind
             /\ BeginPreparation(a, p).attempt = a.attempt
             /\ BeginPreparation(a, p).preparing \in {a.preparing, p}
  BY DEF BeginPreparation, FinishPreparation, WithoutProposal
<1>5. ASSUME NEW p \in Preps, NEW way \in Plans
      PROVE  /\ Propose(a, p, way) \in Authorities
             /\ Yields(a, Propose(a, p, way))
             /\ Propose(a, p, way).preparing # p
  <2>1. CASE a.preparing # p \/ a.kind # "live"
    BY <2>1 DEF Propose, FinishPreparation, WithoutProposal
  <2>2. CASE ~ (a.preparing # p \/ a.kind # "live") /\ a.proposal # NoPlan
    BY <2>2 DEF Propose, FinishPreparation, WithoutProposal
  <2>3. CASE ~ (a.preparing # p \/ a.kind # "live") /\ a.proposal = NoPlan
    <3> DEFINE b == [a EXCEPT !.proposal = way, !.origin = a.view, !.preparing = NoPrep]
    <3>1. Propose(a, p, way) = b BY <2>3 DEF Propose
    <3>2. b \in Authorities OBVIOUS
    <3>3. b.kind = a.kind /\ b.attempt = a.attempt /\ b.preparing = NoPrep OBVIOUS
    <3>4. p # NoPrep OBVIOUS
    <3> HIDE DEF b
    <3> QED BY <3>1, <3>2, <3>3, <3>4
  <2> QED BY <2>1, <2>2, <2>3
<1>6. ASSUME NEW h \in Attempts
      PROVE  /\ BeginTreeArrival(a, h) \in Authorities
             /\ BeginTreeArrival(a, h).kind = "arrival"
             /\ BeginTreeArrival(a, h).attempt = h
             /\ BeginTreeArrival(a, h).preparing = NoPrep
  <2> DEFINE b == BeginTreeArrival(a, h)
             view == IF a.kind # "live" THEN NoView
                     ELSE IF a.proposal # NoPlan THEN a.origin ELSE a.view
             given == IF a.kind = "live" THEN a.proposal ELSE NoPlan
  <2>1. view \in Views \cup {NoView} /\ given \in Plans \cup {NoPlan} OBVIOUS
  <2>2. b = [NoAuthority EXCEPT !.kind = "arrival", !.attempt = h, !.view = view, !.plan = given]
    BY DEF BeginTreeArrival
  <2> HIDE DEF b, view, given
  <2>3. b \in Authorities BY <2>1, <2>2 DEF NoAuthority
  <2>4. b.kind = "arrival" /\ b.attempt = h /\ b.preparing = NoPrep BY <2>2 DEF NoAuthority
  <2> QED BY <2>3, <2>4 DEF b
<1> QED BY <1>1, <1>2, <1>3, <1>4, <1>5, <1>6

LEMMA AuthorityYields ==
  ASSUME NEW a \in Authorities, NEW v \in Views
  PROVE  /\ RejectTransitionConflict(a) \in Authorities
         /\ Yields(a, RejectTransitionConflict(a))
         /\ ClaimOrdinaryMutation(a, v) \in Authorities
         /\ Yields(a, ClaimOrdinaryMutation(a, v))
         /\ CanClaim(a) => Steady(ClaimOrdinaryMutation(a, v))
         /\ \A h \in Attempts :
               /\ CloseArrival(a, h) \in Authorities /\ Yields(a, CloseArrival(a, h))
               /\ SettleArrival(a, h, v) \in Authorities /\ Yields(a, SettleArrival(a, h, v))
               /\ ArrivalIsCurrent(a, h) => Steady(SettleArrival(a, h, v))
               /\ AdmitArrival(a, h, v) \in Authorities /\ Yields(a, AdmitArrival(a, h, v))
               /\ ArrivalIsCurrent(a, h) => Steady(AdmitArrival(a, h, v))
               /\ CarryArrival(a, h, v) \in Authorities /\ Yields(a, CarryArrival(a, h, v))
               /\ ArrivalIsCurrent(a, h) => Steady(CarryArrival(a, h, v))
         /\ \A b \in BOOLEAN, o \in Ops :
               Decided(a, v, b, o) \in Authorities /\ Yields(a, Decided(a, v, b, o))
<1>1. Reset(a) \in Authorities /\ Steady(Reset(a)) /\ Yields(a, Reset(a))
  BY AuthorityTyped DEF Steady, Yields
<1>2. RejectTransitionConflict(a) \in Authorities /\ Yields(a, RejectTransitionConflict(a))
  BY AuthorityTyped DEF RejectTransitionConflict, Yields
<1>3. LiveAt(Reset(a), v) \in Authorities /\ Steady(LiveAt(Reset(a), v))
  <2> DEFINE r == Reset(a)
  <2>1. r \in Authorities /\ Steady(r) BY <1>1
  <2> HIDE DEF r
  <2>2. LiveAt(r, v) \in Authorities /\ Yields(r, LiveAt(r, v)) /\ LiveAt(r, v).kind = "live"
    BY <2>1, AuthorityTyped
  <2>3. Steady(LiveAt(r, v)) BY <2>1, <2>2 DEF Steady, Yields
  <2> QED BY <2>2, <2>3 DEF r
<1>4. ClaimOrdinaryMutation(a, v) \in Authorities /\ Yields(a, ClaimOrdinaryMutation(a, v))
      /\ (CanClaim(a) => Steady(ClaimOrdinaryMutation(a, v)))
  BY <1>2, <1>3 DEF ClaimOrdinaryMutation, Steady, Yields
<1>5. ASSUME NEW h \in Attempts
      PROVE  /\ CloseArrival(a, h) \in Authorities /\ Yields(a, CloseArrival(a, h))
             /\ SettleArrival(a, h, v) \in Authorities /\ Yields(a, SettleArrival(a, h, v))
             /\ ArrivalIsCurrent(a, h) => Steady(SettleArrival(a, h, v))
             /\ ArrivalIsCurrent(a, h) => Steady(CloseArrival(a, h))
  <2> DEFINE b == [a EXCEPT !.preparing = NoPrep]
  <2>1. b \in Authorities /\ Yields(a, b) /\ b.preparing = NoPrep BY DEF Authorities, Yields
  <2>2. LiveAt(b, v) \in Authorities /\ Yields(b, LiveAt(b, v)) /\ LiveAt(b, v).kind = "live"
    BY <2>1, AuthorityTyped
  <2>3. Yields(a, a) BY DEF Yields
  <2> HIDE DEF b
  <2>4. Steady(LiveAt(b, v)) /\ Yields(a, LiveAt(b, v)) BY <2>1, <2>2 DEF Steady, Yields
  <2>5. SettleArrival(a, h, v) = IF ArrivalIsCurrent(a, h) THEN LiveAt(b, v) ELSE a
    BY DEF SettleArrival, b
  <2> QED BY <1>1, <2>2, <2>3, <2>4, <2>5 DEF CloseArrival
<1>6. ASSUME NEW h \in Attempts
      PROVE  /\ AdmitArrival(a, h, v) \in Authorities /\ Yields(a, AdmitArrival(a, h, v))
             /\ ArrivalIsCurrent(a, h) => Steady(AdmitArrival(a, h, v))
             /\ CarryArrival(a, h, v) \in Authorities /\ Yields(a, CarryArrival(a, h, v))
             /\ ArrivalIsCurrent(a, h) => Steady(CarryArrival(a, h, v))
  BY <1>5 DEF AdmitArrival, CarryArrival
<1>7. ASSUME NEW b \in BOOLEAN, NEW o \in Ops
      PROVE  Decided(a, v, b, o) \in Authorities /\ Yields(a, Decided(a, v, b, o))
  <2> DEFINE c == IF At(v) = At(a.view) THEN Carried(a, v) ELSE LiveAt(a, v)
  <2>1. c \in Authorities /\ Yields(a, c) BY AuthorityTyped DEF Carried, Yields
  <2> HIDE DEF c
  <2>2. [c EXCEPT !.leases = @ \cup {o}] \in Authorities
        /\ Yields(a, [c EXCEPT !.leases = @ \cup {o}])
    BY <2>1 DEF Authorities, Yields
  <2>3. Yields(a, a) BY DEF Yields
  <2>4. Decided(a, v, b, o) \in {a, Reset(a), [c EXCEPT !.leases = @ \cup {o}], c}
    BY DEF Decided, c
  <2> QED BY <1>1, <2>1, <2>2, <2>3, <2>4
<1> QED BY <1>2, <1>4, <1>5, <1>6, <1>7
-----------------------------------------------------------------------------
(* The operations on the slots.                                            *)

LEMMA ResolvesHere ==
  ASSUME NEW sl \in [Entries -> Slot], NEW e \in Entries, HasTree(sl[e])
  PROVE  Resolve(sl, e) = [at |-> e, tree |-> sl[e].tree]
<1> DEFINE n == Len(Path[e])
<1>1. n \in Nat \ {0} /\ Path[e][n] = e BY PathTyped
<1>2. IsNearest(sl, e, n) BY <1>1 DEF IsNearest, Bearing
<1>3. Inherited(sl, e) = [at |-> e, tree |-> sl[e].tree] BY <1>1, <1>2, InheritedFromNearest
<1> QED BY <1>3 DEF Resolve, HasTree, BlockedMissing

LEMMA ResolvedHasTree ==
  ASSUME NEW sl \in [Entries -> Slot], NEW e \in Entries, Resolve(sl, e) # Missing
  PROVE  Resolve(sl, e).tree \in Trees /\ sl[e] # BlockedMissing
<1>1. Bearing(sl, e) # {} /\ sl[e] # BlockedMissing BY DEF Resolve, Inherited
<1>2. PICK i \in 1..Len(Path[e]) : IsNearest(sl, e, i) BY <1>1, NearestExists
<1>3. Inherited(sl, e).tree = sl[Path[e][i]].tree /\ HasTree(sl[Path[e][i]])
  BY <1>2, InheritedFromNearest
<1> QED BY <1>1, <1>3, InheritedTyped DEF Resolve, HasTree

LEMMA BlockPins ==
  ASSUME NEW slot \in Slot, IsBlocked(slot), HasTree(slot), NEW t
  PROVE  BlockSlot(slot, t) = slot
BY DEF BlockSlot, Slot, IsBlocked, HasTree

LEMMA EffectiveTyped ==
  ASSUME NEW s \in States, NEW v \in Views
  PROVE  /\ Effective(s, v) \in Resolutions
         /\ Effective(s, v).tree \in Trees \cup {NoTree}
         /\ At(v) # NoEntry => Effective(s, v) = Resolve(s.slots, At(v))
<1>1. s.slots \in [Entries -> Slot] BY DEF States
<1>2. Missing \in Resolutions /\ Missing.tree = NoTree BY DEF Missing, Resolutions
<1> QED BY <1>1, <1>2, AtTyped, InheritedTyped DEF Effective, EffectiveAt

LEMMA TameSelf == ASSUME NEW s \in States PROVE Tame(s, s)
BY DEF Tame, Pins, Yields

LEMMA TameTwice ==
  ASSUME NEW s, NEW t, NEW u, Tame(s, t), Tame(t, u)
  PROVE  Tame(s, u)
BY DEF Tame, Pins, Yields

LEMMA AdmissionTame ==
  ASSUME NEW s \in States, NEW a \in Authorities, Yields(s.adm, a)
  PROVE  /\ Tame(s, WithAdmission(s, a))
         /\ WithAdmission(s, a).adm = a
         /\ WithAdmission(s, a).slots = s.slots
         /\ WithAdmission(s, a).active = s.active
BY DEF Tame, Pins, WithAdmission, States

LEMMA SlotTame ==
  ASSUME NEW s \in States, NEW e, NEW x \in Slot,
         e \in Entries => s.slots[e] = x \/ ~ IsBlocked(s.slots[e]) \/ ~ HasTree(s.slots[e])
  PROVE  /\ Tame(s, [s EXCEPT !.slots[e] = x])
         /\ [s EXCEPT !.slots[e] = x].adm = s.adm
         /\ [s EXCEPT !.slots[e] = x].active = s.active
         /\ [s EXCEPT !.slots[e] = x].slots = [s.slots EXCEPT ![e] = x]
<1> DEFINE sl == [s.slots EXCEPT ![e] = x]
<1>1. s.slots \in [Entries -> Slot] BY DEF States
<1>2. sl \in [Entries -> Slot] /\ Pins(s.slots, sl) BY <1>1 DEF Pins
<1>3. [s EXCEPT !.slots[e] = x] = [s EXCEPT !.slots = sl] OBVIOUS
<1> HIDE DEF sl
<1>4. Tame(s, [s EXCEPT !.slots = sl]) /\ [s EXCEPT !.slots = sl].adm = s.adm
      /\ [s EXCEPT !.slots = sl].slots = sl /\ [s EXCEPT !.slots = sl].active = s.active
  BY <1>2 DEF Tame, Yields, States
<1> QED BY <1>3, <1>4 DEF sl

LEMMA QuarantinedTame ==
  ASSUME NEW s \in States
  PROVE  /\ Tame(s, Quarantined(s)) /\ Steady(Quarantined(s).adm)
         /\ Tame(s, Withdrawn(s)) /\ Steady(Withdrawn(s).adm) /\ ~ Withdrawn(s).active
         /\ Quarantined(s).slots = s.slots /\ Withdrawn(s).slots = s.slots
         /\ Quarantined(s).active = s.active
         /\ Tame(s, Barred(s)) /\ Steady(Barred(s).adm)
         /\ Quarantined(s) \in States
<1> DEFINE a == Reset(s.adm)
           q == Quarantined(s)
<1>1. s.adm \in Authorities BY DEF States
<1>2. a \in Authorities /\ Steady(a) BY <1>1, NoTokenAssumption DEF Reset, NoAuthority, Authorities, Steady
<1>3. Yields(s.adm, a) BY <1>2 DEF Yields, Steady
<1> HIDE DEF a
<1>4. Tame(s, q) /\ q.adm = a /\ q.slots = s.slots /\ q.active = s.active /\ q \in States
  BY <1>2, <1>3, AdmissionTame DEF Quarantined, Tame, a
<1> HIDE DEF q
<1>5. Tame(q, [q EXCEPT !.active = FALSE]) /\ [q EXCEPT !.active = FALSE].adm = q.adm
      /\ [q EXCEPT !.active = FALSE].slots = q.slots /\ ~ [q EXCEPT !.active = FALSE].active
  BY <1>4 DEF Tame, Yields, Pins, States
<1>6. Tame(q, [q EXCEPT !.barrier = TRUE]) /\ [q EXCEPT !.barrier = TRUE].adm = q.adm
  BY <1>4 DEF Tame, Yields, Pins, States
<1> QED BY <1>2, <1>4, <1>5, <1>6, TameTwice DEF Withdrawn, Barred, q

LEMMA ClaimTame ==
  ASSUME NEW s \in States, NEW v \in Views
  PROVE  /\ Tame(s, Claim(s, v)) /\ Claim(s, v).slots = s.slots /\ Claim(s, v).active = s.active
         /\ CanClaim(s.adm) \/ Steady(s.adm) => Steady(Claim(s, v).adm)
         /\ Claim(s, v) \in States
<1>1. s.adm \in Authorities BY DEF States
<1>2. ClaimOrdinaryMutation(s.adm, v) \in Authorities
      /\ Yields(s.adm, ClaimOrdinaryMutation(s.adm, v))
      /\ (CanClaim(s.adm) => Steady(ClaimOrdinaryMutation(s.adm, v)))
  BY <1>1, AuthorityYields
<1>3. Steady(s.adm) => Steady(ClaimOrdinaryMutation(s.adm, v)) BY <1>2 DEF Steady, Yields
<1>4. Tame(s, Claim(s, v)) /\ Claim(s, v).slots = s.slots /\ Claim(s, v).active = s.active
  BY <1>2, AdmissionTame, QuarantinedTame DEF Claim
<1>5. CanClaim(s.adm) \/ Steady(s.adm) => Steady(Claim(s, v).adm)
  BY <1>2, <1>3, AdmissionTame, QuarantinedTame DEF Claim
<1> QED BY <1>4, <1>5 DEF Tame

(* What pinning a location leaves there.                                   *)
LEMMA ProtectTame ==
  ASSUME NEW s \in States, NEW v \in Views
  PROVE  /\ Tame(s, ProtectLocation(s, v)) /\ ProtectLocation(s, v).adm = s.adm
         /\ ProtectLocation(s, v).active = s.active /\ ProtectLocation(s, v) \in States
         /\ At(v) # NoEntry /\ Effective(s, v).tree # NoTree =>
               ProtectLocation(s, v).slots[At(v)] = BlockedCheckpoint(Effective(s, v).tree)
<1> DEFINE e == At(v)
           t == Effective(s, v).tree
<1>1. CASE e = NoEntry
  <2>1. ProtectLocation(s, v) = [s EXCEPT !.barrier = TRUE] BY <1>1 DEF ProtectLocation
  <2>2. Tame(s, [s EXCEPT !.barrier = TRUE]) /\ [s EXCEPT !.barrier = TRUE].adm = s.adm
        /\ [s EXCEPT !.barrier = TRUE].active = s.active
    BY DEF Tame, Pins, Yields, States
  <2> QED BY <1>1, <2>1, <2>2 DEF Tame
<1>2. CASE e # NoEntry
  <2>1. e \in Entries /\ s.slots \in [Entries -> Slot] BY <1>2, AtTyped DEF States
  <2>2. t \in Trees \cup {NoTree} BY EffectiveTyped
  <2> DEFINE x == BlockSlot(s.slots[e], t)
  <2>3. x \in Slot BY <2>1, <2>2, BlockSlotTyped
  <2>4. IsBlocked(s.slots[e]) /\ HasTree(s.slots[e]) => x = s.slots[e] BY <2>1, BlockPins
  <2>5. ASSUME t # NoTree PROVE x = BlockedCheckpoint(t)
    <3>1. t = Resolve(s.slots, e).tree /\ Resolve(s.slots, e) # Missing
      BY <1>2, <2>5, EffectiveTyped DEF Missing
    <3>2. s.slots[e] # BlockedMissing BY <2>1, <3>1, ResolvedHasTree
    <3>3. HasTree(s.slots[e]) => s.slots[e].tree = t BY <2>1, <3>1, ResolvesHere
    <3>4. s.slots[e] \in Slot BY <2>1
    <3> QED BY <3>2, <3>3, <3>4 DEF BlockSlot, BlockedCheckpoint, BlockedMissing, IsBlocked, HasTree, Slot
  <2>6. ProtectLocation(s, v) = [s EXCEPT !.slots[e] = x] BY <1>2 DEF ProtectLocation
  <2> HIDE DEF e, x, t
  <2>7. Tame(s, [s EXCEPT !.slots[e] = x]) /\ [s EXCEPT !.slots[e] = x].adm = s.adm
        /\ [s EXCEPT !.slots[e] = x].active = s.active
        /\ [s EXCEPT !.slots[e] = x].slots = [s.slots EXCEPT ![e] = x]
    BY <2>3, <2>4, SlotTame
  <2>8. [s.slots EXCEPT ![e] = x][e] = x BY <2>1
  <2> QED BY <2>5, <2>6, <2>7, <2>8 DEF Tame, e, t
<1> QED BY <1>1, <1>2

LEMMA ReconcilePins ==
  ASSUME NEW sl \in [Entries -> Slot], NEW path
  PROVE  Reconciled(sl, path) \in [Entries -> Slot] /\ Pins(sl, Reconciled(sl, path))
<1>1. \A e \in Entries : Inherited(sl, e).tree \in Trees \cup {NoTree} BY InheritedTyped
<1>2. \A e \in Entries : BlockSlot(sl[e], Inherited(sl, e).tree) \in Slot
  BY <1>1, BlockSlotTyped
<1>3. \A e \in Entries : IsBlocked(sl[e]) /\ HasTree(sl[e]) =>
        BlockSlot(sl[e], Inherited(sl, e).tree) = sl[e]
  BY BlockPins
<1> QED BY <1>2, <1>3 DEF Reconciled, Pins

LEMMA ReconcileTame ==
  ASSUME NEW s \in States, NEW path
  PROVE  /\ Tame(s, [s EXCEPT !.slots = Reconciled(@, path), !.barrier = FALSE])
         /\ [s EXCEPT !.slots = Reconciled(@, path), !.barrier = FALSE].adm = s.adm
         /\ [s EXCEPT !.slots = Reconciled(@, path), !.barrier = FALSE].active = s.active
<1> DEFINE sl == Reconciled(s.slots, path)
<1>1. sl \in [Entries -> Slot] /\ Pins(s.slots, sl) BY ReconcilePins DEF States
<1>2. [s EXCEPT !.slots = Reconciled(@, path), !.barrier = FALSE]
        = [s EXCEPT !.slots = sl, !.barrier = FALSE]
  OBVIOUS
<1> HIDE DEF sl
<1> QED BY <1>1, <1>2 DEF Tame, Yields, States

LEMMA CompositesTame ==
  ASSUME NEW s \in States, NEW v \in Views
  PROVE  /\ Tame(s, ReconcileBarrier(s, v)) /\ ReconcileBarrier(s, v).adm = s.adm
         /\ ReconcileBarrier(s, v).active = s.active /\ ReconcileBarrier(s, v) \in States
         /\ Tame(s, ProtectNode(s, v)) /\ ProtectNode(s, v) \in States
         /\ CanClaim(s.adm) \/ Steady(s.adm) => Steady(ProtectNode(s, v).adm)
         /\ Tame(s, Protected(s, v)) /\ Steady(Protected(s, v).adm)
         /\ Tame(s, Recover(s, v)) /\ Steady(Recover(s, v).adm)
<1>1. Tame(s, ReconcileBarrier(s, v)) /\ ReconcileBarrier(s, v).adm = s.adm
      /\ ReconcileBarrier(s, v).active = s.active /\ ReconcileBarrier(s, v) \in States
  BY TameSelf, ReconcileTame DEF ReconcileBarrier, Tame
<1> DEFINE p == ProtectLocation(s, v)
           q == Quarantined(s)
           r == ProtectLocation(q, v)
<1>2. Tame(s, p) /\ p \in States /\ p.adm = s.adm BY ProtectTame
<1>3. Tame(s, q) /\ q \in States /\ Steady(q.adm) BY QuarantinedTame
<1> HIDE DEF p, q
<1>4. Tame(p, Claim(p, v)) /\ (CanClaim(p.adm) \/ Steady(p.adm) => Steady(Claim(p, v).adm))
  BY <1>2, ClaimTame
<1>5. Tame(q, r) /\ r \in States /\ r.adm = q.adm BY <1>3, ProtectTame
<1>6. Tame(s, r) BY <1>3, <1>5, TameTwice
<1> HIDE DEF r
<1>7. Tame(r, Claim(r, v)) /\ (Steady(r.adm) => Steady(Claim(r, v).adm))
  BY <1>5, ClaimTame
<1>8. Tame(s, Claim(p, v)) /\ Tame(s, Claim(r, v)) BY <1>2, <1>4, <1>6, <1>7, TameTwice
<1>9. ProtectNode(s, v) = Claim(p, v) /\ Protected(s, v) = r
      /\ Recover(s, v) \in {r, Claim(r, v)}
  BY DEF ProtectNode, Protected, Recover, p, q, r
<1> QED BY <1>1, <1>2, <1>3, <1>4, <1>5, <1>6, <1>7, <1>8, <1>9 DEF Tame

BoundaryKinds == SourceKinds \cup {"not-admitted"}

LEMMA BoundaryTame ==
  ASSUME NEW s \in States, NEW v \in Views, NEW o \in Ops
  PROVE  /\ Tame(s, Boundary(s, v, o).state)
         /\ Boundary(s, v, o).kind \in BoundaryKinds
         /\ Boundary(s, v, o).kind = "capture" =>
               At(v) \in Entries /\ Boundary(s, v, o).state.slots = s.slots
<1> DEFINE b == LocationIsBlocked(s, v)
           d == WithAdmission(s, Decided(s.adm, v, b, o))
           k == ReconcileBarrier(s, v)
<1>1. b \in BOOLEAN BY DEF LocationIsBlocked, IsBlocked
<1>2. s.adm \in Authorities BY DEF States
<1> HIDE DEF b
<1>3. Decided(s.adm, v, b, o) \in Authorities /\ Yields(s.adm, Decided(s.adm, v, b, o))
  BY <1>1, <1>2, AuthorityYields
<1>4. Tame(s, d) /\ d \in States /\ d.slots = s.slots BY <1>3, AdmissionTame DEF Tame
<1>5. Tame(s, k) /\ k \in States BY CompositesTame
<1> HIDE DEF d, k
<1>6. Tame(s, ProtectNode(d, v)) BY <1>4, CompositesTame, TameTwice
<1>7. Tame(s, Claim(k, v)) BY <1>5, ClaimTame, TameTwice
<1>8. Tame(s, Protected(s, v)) BY CompositesTame
<1>9. Decision(s.adm, v, b) \in BoundaryKinds
      /\ (Decision(s.adm, v, b) = "capture" => At(v) \in Entries)
  BY AtTyped DEF Decision, BoundaryKinds, SourceKinds
<1>10. CASE At(v) # NoEntry /\ s.barrier
  BY <1>7, <1>10 DEF Boundary, k, BoundaryKinds, SourceKinds
<1>11. CASE ~ (At(v) # NoEntry /\ s.barrier) /\ ~ s.active
  BY <1>8, <1>11 DEF Boundary, BoundaryKinds, SourceKinds
<1>12. CASE ~ (At(v) # NoEntry /\ s.barrier) /\ s.active
  <2>1. Boundary(s, v, o) =
          [kind |-> Decision(s.adm, v, b),
           state |-> IF Decision(s.adm, v, b) = "not-admitted" /\ At(v) # NoEntry
                       THEN ProtectNode(d, v) ELSE d]
    BY <1>12 DEF Boundary, b, d
  <2> QED BY <2>1, <1>4, <1>6, <1>9
<1> QED BY <1>10, <1>11, <1>12
-----------------------------------------------------------------------------
(* Captures of a tree, and releases.                                       *)

(* The slot at e, pinned on tree, may be open afterwards.                  *)
PinsBut(old, new, e, tree) ==
    \A d \in Entries : IsBlocked(old[d]) /\ HasTree(old[d]) =>
        new[d] = old[d] \/ (d = e /\ old[d] = BlockedCheckpoint(tree))

TameBut(s, t, e, tree) ==
    /\ t \in States
    /\ PinsBut(s.slots, t.slots, e, tree)
    /\ Yields(s.adm, t.adm)
    /\ t.active => s.active

LEMMA CapturedTame ==
  ASSUME NEW s \in States, NEW e, e \in Entries => ~ IsBlocked(s.slots[e]) \/ ~ HasTree(s.slots[e]),
         NEW tree \in Trees \cup {NoTree}
  PROVE  /\ Tame(s, Captured(s, e, tree))
         /\ Captured(s, e, tree).adm = s.adm
         /\ Captured(s, e, tree).active = s.active
         /\ Captured(s, e, tree) \in States
         /\ e \in Entries => ~ IsBlocked(Captured(s, e, tree).slots[e])
<1> DEFINE x == OpenCheckpoint(tree)
<1>1. x \in Slot /\ ~ IsBlocked(x) BY DEF OpenCheckpoint, Slot, IsBlocked
<1>2. Captured(s, e, tree) = [s EXCEPT !.slots[e] = x] BY DEF Captured
<1> HIDE DEF x
<1> DEFINE t == [s EXCEPT !.slots[e] = x]
<1>3. Tame(s, t) /\ t.adm = s.adm /\ t.active = s.active /\ t.slots = [s.slots EXCEPT ![e] = x]
  <2>1. e \in Entries => s.slots[e] = x \/ ~ IsBlocked(s.slots[e]) \/ ~ HasTree(s.slots[e])
    OBVIOUS
  <2> QED BY <1>1, <2>1, SlotTame, SMTT(30)
<1>4. e \in Entries => [s.slots EXCEPT ![e] = x][e] = x BY DEF States
<1> HIDE DEF t
<1> QED BY <1>1, <1>2, <1>3, <1>4 DEF Tame, t

LEMMA AfterCaptureTame ==
  ASSUME NEW s \in States, NEW e, NEW slot, NEW tree \in Trees \cup {NoTree}
  PROVE  /\ Tame(s, AfterCapture(s, e, slot, tree))
         /\ AfterCapture(s, e, slot, tree).adm = s.adm
         /\ AfterCapture(s, e, slot, tree).active = s.active
         /\ AfterCapture(s, e, slot, tree) \in States
         /\ CaptureVerdict(s, e, slot) = "committed" /\ e \in Entries =>
               ~ IsBlocked(AfterCapture(s, e, slot, tree).slots[e])
<1>1. CASE CaptureVerdict(s, e, slot) = "settled"
  BY <1>1, ReconcileTame DEF AfterCapture, Tame
<1>2. CASE CaptureVerdict(s, e, slot) = "committed"
  <2>1. ~ IsBlocked(s.slots[e]) BY <1>2 DEF CaptureVerdict, CanCapture
  <2>2. AfterCapture(s, e, slot, tree) = Captured(s, e, tree) BY <1>2 DEF AfterCapture
  <2> QED BY <2>1, <2>2, CapturedTame
<1>3. CASE CaptureVerdict(s, e, slot) \notin {"settled", "committed"}
  BY <1>3, TameSelf DEF AfterCapture
<1> QED BY <1>1, <1>2, <1>3

LEMMA ReleasedTame ==
  ASSUME NEW s \in States, NEW v \in Views, NEW res, At(v) # NoEntry, MetadataAdmits(s, v, res)
  PROVE  /\ TameBut(s, Released(s, v, res), At(v), res.tree)
         /\ Released(s, v, res).adm = s.adm
         /\ Released(s, v, res) \in States
<1> DEFINE e == At(v)
           x == [s.slots[e] EXCEPT !.capture = "open"]
           sl == [s.slots EXCEPT ![e] = x]
<1>1. e \in Entries /\ s.slots \in [Entries -> Slot] BY AtTyped DEF States
<1>2. x \in Slot BY <1>1 DEF Slot
<1>3. IsBlocked(s.slots[e]) => s.slots[e] = BlockedCheckpoint(res.tree)
  BY DEF MetadataAdmits, CanRelease
<1>4. Released(s, v, res) = [s EXCEPT !.slots = sl] BY DEF Released
<1> HIDE DEF x, e
<1>5. sl \in [Entries -> Slot] /\ PinsBut(s.slots, sl, e, res.tree)
  BY <1>1, <1>2, <1>3 DEF PinsBut
<1> HIDE DEF sl
<1>6. TameBut(s, [s EXCEPT !.slots = sl], e, res.tree) /\ [s EXCEPT !.slots = sl].adm = s.adm
  BY <1>5 DEF TameBut, Yields, States
<1> QED BY <1>4, <1>6 DEF e, TameBut

(* What is released where a checkpoint has just been recorded was open.    *)
LEMMA ReleaseOfTheOpen ==
  ASSUME NEW s \in States, NEW v \in Views, NEW res, NEW t, TameBut(s, t, At(v), res.tree),
         Effective(s, v) = res, res.tree # NoTree,
         res.at \in Entries => ~ IsBlocked(s.slots[res.at])
  PROVE  Tame(s, t)
<1>1. ASSUME NEW e \in Entries, IsBlocked(s.slots[e]), HasTree(s.slots[e]), t.slots[e] # s.slots[e]
      PROVE  FALSE
  <2>1. e = At(v) /\ s.slots \in [Entries -> Slot] BY <1>1 DEF TameBut, PinsBut, States
  <2>2. e # NoEntry BY NoEntryAssumption
  <2>3. Resolve(s.slots, e) = res BY <2>1, <2>2, EffectiveTyped
  <2>4. res.at = e BY <1>1, <2>1, <2>3, ResolvesHere
  <2> QED BY <1>1, <2>4
<1> QED BY <1>1 DEF Tame, TameBut, Pins
-----------------------------------------------------------------------------
(* Admissions and cutovers.                                                *)

(* What a release rests on.                                                *)
Frees(s, t, v, res) ==
    /\ s.active /\ At(v) \in Entries /\ Effective(s, v) = res /\ res.tree # NoTree
    /\ TameBut(s, t, At(v), res.tree)

LEMMA AdmitCurrentTame ==
  ASSUME NEW s \in States, NEW v \in Views
  PROVE  Tame(s, AdmitCurrentLocation(s, v).state)
BY ClaimTame, TameSelf DEF AdmitCurrentLocation, Outcome

LEMMA AdmitLocationTame ==
  ASSUME NEW s \in States, NEW v \in Views, NEW res
  PROVE  LET o == AdmitLocationIfResolution(s, v, res)
         IN  /\ o.ok \in BOOLEAN
             /\ o.ok => Frees(s, o.state, v, res) /\ Steady(o.state.adm)
             /\ ~ o.ok => Tame(s, o.state)
             /\ o.state \in States
<1> DEFINE o == AdmitLocationIfResolution(s, v, res)
           c == Claim(s, v)
<1>1. Tame(s, c) /\ c \in States /\ c.slots = s.slots /\ c.active = s.active
      /\ (CanClaim(s.adm) => Steady(c.adm))
  BY ClaimTame
<1>2. Tame(s, Quarantined(s)) BY QuarantinedTame
<1>3. CASE ~ s.active \/ At(v) = NoEntry
  BY <1>3, TameSelf DEF AdmitLocationIfResolution, Outcome, Tame
<1>4. CASE s.active /\ At(v) # NoEntry /\ ~ CanClaim(s.adm)
  BY <1>1, <1>4 DEF AdmitLocationIfResolution, Outcome, Tame
<1>5. CASE s.active /\ At(v) # NoEntry /\ CanClaim(s.adm) /\ ~ MetadataAdmits(s, v, res)
  BY <1>2, <1>5 DEF AdmitLocationIfResolution, Outcome, Tame
<1>6. CASE s.active /\ At(v) # NoEntry /\ CanClaim(s.adm) /\ MetadataAdmits(s, v, res)
  <2> DEFINE r == Released(c, v, res)
  <2>1. o = [ok |-> TRUE, state |-> r]
    BY <1>6 DEF AdmitLocationIfResolution, Outcome
  <2>2. c = Claim(s, v) OBVIOUS
  <2> HIDE DEF c
  <2>3. c.barrier = s.barrier
    BY <1>1, <1>6, <2>2 DEF Claim, WithAdmission, States
  <2>4. Effective(c, v) = Effective(s, v) BY <1>1 DEF Effective, EffectiveAt
  <2>5. MetadataAdmits(c, v, res) BY <1>1, <1>6, <2>3, <2>4 DEF MetadataAdmits
  <2>6. TameBut(c, r, At(v), res.tree) /\ r.adm = c.adm /\ r \in States
    BY <1>1, <1>6, <2>5, ReleasedTame
  <2> HIDE DEF r
  <2>7. TameBut(s, r, At(v), res.tree)
    BY <1>1, <2>6 DEF TameBut, PinsBut, Tame, Yields
  <2>8. Frees(s, r, v, res) BY <1>6, <2>7, AtTyped DEF Frees, MetadataAdmits
  <2> QED BY <1>1, <1>6, <2>1, <2>6, <2>8
<1> QED BY <1>3, <1>4, <1>5, <1>6

LEMMA ProtectArrivalTame ==
  ASSUME NEW s \in States, NEW v \in Views, NEW h \in Attempts
  PROVE  LET o == ProtectTreeArrival(s, h, v)
         IN  /\ o.ok \in BOOLEAN
             /\ Tame(s, o.state)
             /\ o.ok => Steady(o.state.adm)
<1> DEFINE o == ProtectTreeArrival(s, h, v)
           p == ProtectLocation(s, v)
<1>1. CASE s.active /\ ~ ArrivalIsCurrent(s.adm, h)
  BY <1>1, TameSelf DEF ProtectTreeArrival, Outcome
<1>2. CASE ~ (s.active /\ ~ ArrivalIsCurrent(s.adm, h))
  <2>1. Tame(s, p) /\ p \in States /\ p.adm = s.adm BY ProtectTame
  <2>2. o = [ok |-> TRUE,
             state |-> IF s.active THEN WithAdmission(p, SettleArrival(p.adm, h, v))
                                   ELSE Quarantined(p)]
    BY <1>2 DEF ProtectTreeArrival, Outcome
  <2> HIDE DEF p
  <2>3. Tame(s, Quarantined(p)) /\ Steady(Quarantined(p).adm)
    BY <2>1, QuarantinedTame, TameTwice
  <2>4. p.adm \in Authorities BY <2>1 DEF States
  <2>5. SettleArrival(p.adm, h, v) \in Authorities /\ Yields(p.adm, SettleArrival(p.adm, h, v))
        /\ (ArrivalIsCurrent(p.adm, h) => Steady(SettleArrival(p.adm, h, v)))
    BY <2>4, AuthorityYields
  <2>6. Tame(p, WithAdmission(p, SettleArrival(p.adm, h, v)))
        /\ WithAdmission(p, SettleArrival(p.adm, h, v)).adm = SettleArrival(p.adm, h, v)
    BY <2>1, <2>5, AdmissionTame
  <2>7. Tame(s, WithAdmission(p, SettleArrival(p.adm, h, v))) BY <2>1, <2>6, TameTwice
  <2> QED BY <1>2, <2>1, <2>2, <2>3, <2>5, <2>6, <2>7
<1> QED BY <1>1, <1>2

LEMMA CloseTame ==
  ASSUME NEW s \in States, NEW v \in Views, NEW h \in Attempts
  PROVE  /\ Tame(s, WithAdmission(s, CloseArrival(s.adm, h)))
         /\ Tame(s, WithAdmission(s, AdmitArrival(s.adm, h, v)))
         /\ ArrivalIsCurrent(s.adm, h) => Steady(WithAdmission(s, AdmitArrival(s.adm, h, v)).adm)
         /\ WithAdmission(s, AdmitArrival(s.adm, h, v)).slots = s.slots
<1>1. s.adm \in Authorities BY DEF States
<1>2. CloseArrival(s.adm, h) \in Authorities /\ Yields(s.adm, CloseArrival(s.adm, h))
  BY <1>1, AuthorityYields
<1>3. AdmitArrival(s.adm, h, v) \in Authorities /\ Yields(s.adm, AdmitArrival(s.adm, h, v))
      /\ (ArrivalIsCurrent(s.adm, h) => Steady(AdmitArrival(s.adm, h, v)))
  BY <1>1, AuthorityYields
<1> QED BY <1>2, <1>3, AdmissionTame

LEMMA AdmitCurrentArrivalTame ==
  ASSUME NEW s \in States, NEW v \in Views, NEW h \in Attempts
  PROVE  LET o == AdmitCurrentTreeArrival(s, h, v)
         IN  /\ o.ok \in BOOLEAN
             /\ Tame(s, o.state)
             /\ o.ok => Steady(o.state.adm)
<1> USE CloseTame, ProtectArrivalTame DEF AdmitCurrentTreeArrival, Outcome, ArrivalCanProceed
<1>1. CASE ~ s.active BY <1>1
<1>2. CASE s.active /\ ~ ArrivalCanProceed(s.adm, h, v) BY <1>2
<1>3. CASE s.active /\ ArrivalCanProceed(s.adm, h, v) /\ ~ OpenAt(s, v) BY <1>3
<1>4. CASE s.active /\ ArrivalCanProceed(s.adm, h, v) /\ OpenAt(s, v) BY <1>4
<1> QED BY <1>1, <1>2, <1>3, <1>4

LEMMA AdmitArrivalTame ==
  ASSUME NEW s \in States, NEW v \in Views, NEW h \in Attempts, NEW res
  PROVE  LET o == AdmitTreeArrivalIfResolution(s, h, v, res)
         IN  /\ o.ok \in BOOLEAN
             /\ o.ok => Steady(o.state.adm)
             /\ Tame(s, o.state) \/ (o.ok /\ Frees(s, o.state, v, res))
<1> DEFINE o == AdmitTreeArrivalIfResolution(s, h, v, res)
<1>1. CASE ~ s.active
  BY <1>1, ProtectArrivalTame DEF AdmitTreeArrivalIfResolution
<1>2. CASE s.active /\ (At(v) = NoEntry \/ ~ ArrivalCanProceed(s.adm, h, v))
  BY <1>2, CloseTame DEF AdmitTreeArrivalIfResolution, Outcome
<1>3. CASE s.active /\ At(v) # NoEntry /\ ArrivalCanProceed(s.adm, h, v) /\ ~ MetadataAdmits(s, v, res)
  BY <1>3, ProtectArrivalTame DEF AdmitTreeArrivalIfResolution
<1>4. CASE s.active /\ At(v) # NoEntry /\ ArrivalCanProceed(s.adm, h, v) /\ MetadataAdmits(s, v, res)
  <2> DEFINE r == Released(s, v, res)
             t == WithAdmission(r, AdmitArrival(s.adm, h, v))
  <2>1. o = [ok |-> TRUE, state |-> t] BY <1>4 DEF AdmitTreeArrivalIfResolution, Outcome
  <2>2. TameBut(s, r, At(v), res.tree) /\ r.adm = s.adm /\ r \in States
    BY <1>4, ReleasedTame
  <2> HIDE DEF r
  <2>3. Tame(r, t) /\ Steady(t.adm) /\ t.slots = r.slots
    BY <1>4, <2>2, CloseTame DEF ArrivalCanProceed
  <2> HIDE DEF t
  <2>4. TameBut(s, t, At(v), res.tree) BY <2>2, <2>3 DEF TameBut, PinsBut, Tame, Yields
  <2>5. Frees(s, t, v, res) BY <1>4, <2>4, AtTyped DEF Frees, MetadataAdmits
  <2> QED BY <2>1, <2>3, <2>5
<1> QED BY <1>1, <1>2, <1>3, <1>4

LEMMA CutoverTame ==
  ASSUME NEW s \in States, NEW v \in Views, NEW res, NEW granted
  PROVE  LET o == CutoverIf(granted, s, v, res)
         IN  /\ o.ok \in BOOLEAN
             /\ Tame(s, o.state)
             /\ o.ok => /\ s.active /\ Steady(o.state.adm)
                        /\ res.tree # NoTree =>
                              At(v) \in Entries /\ o.state.slots[At(v)] = BlockedCheckpoint(res.tree)
<1> DEFINE p == ProtectLocation(s, v)
<1>1. Tame(s, p) /\ p \in States
      /\ (At(v) # NoEntry /\ Effective(s, v).tree # NoTree =>
            p.slots[At(v)] = BlockedCheckpoint(Effective(s, v).tree))
  BY ProtectTame
<1>2. Tame(s, Quarantined(p)) /\ Steady(Quarantined(p).adm) /\ Quarantined(p).slots = p.slots
  BY <1>1, QuarantinedTame, TameTwice
<1>3. CASE ~ s.active BY <1>3, TameSelf DEF CutoverIf, Outcome
<1>4. CASE s.active /\ ~ (~ s.barrier /\ Effective(s, v) = res /\ granted)
  BY <1>1, <1>4 DEF CutoverIf, Outcome
<1>5. CASE s.active /\ ~ s.barrier /\ Effective(s, v) = res /\ granted
  <2>1. CutoverIf(granted, s, v, res) = [ok |-> TRUE, state |-> Quarantined(p)]
    BY <1>5 DEF CutoverIf, Outcome
  <2>2. At(v) = NoEntry => res.tree = NoTree BY <1>5 DEF Effective, EffectiveAt, Missing
  <2>3. res.tree # NoTree => At(v) \in Entries /\ p.slots[At(v)] = BlockedCheckpoint(res.tree)
    BY <1>1, <1>5, <2>2, AtTyped
  <2> DEFINE q == Quarantined(p)
  <2>4. q.slots = p.slots /\ Tame(s, q) /\ Steady(q.adm) BY <1>2
  <2> HIDE DEF p, q
  <2>5. CutoverIf(granted, s, v, res).ok = TRUE /\ CutoverIf(granted, s, v, res).state = q
    BY <2>1 DEF q
  <2> QED BY <1>5, <2>3, <2>4, <2>5
<1> QED BY <1>3, <1>4, <1>5
-----------------------------------------------------------------------------
(* The invariant.                                                          *)

(* Everything but the ghosts has its type.                                 *)
Typed ==
    /\ w \in States
    /\ host \in Views
    /\ event \in Events
    /\ content \in Trees
    /\ edits \in 0..MaxEdits /\ moves \in 0..MaxMoves
    /\ job \in Jobs
    /\ call \in Calls /\ trip \in Trips /\ plan \in PlansMade
    /\ arr \in Arrivals /\ ask \in Asks
    /\ queue \in Seq(Handlers)
    /\ owed \in [Handlers -> Protections]

GhostsTyped ==
    /\ home \in Coordinates \cup {Nowhere}
    /\ torn \subseteq [at : Entries, tree : Trees]

(* Whoever put the authority in transition is still at work.               *)
Owned ==
    /\ w.adm.kind = "arrival" => arr.attempt = w.adm.attempt
    /\ w.adm.preparing = CapturePrep => call.phase # "none" /\ call.manner = "prepared"
    /\ w.adm.preparing = DepartPrep => trip.phase \notin {"none", "accepted"}

(* What is to be restored is there, and what is inherited is what was      *)
(* previewed.                                                              *)
Sound(p) ==
    /\ p.kind = "restore" => p.res.tree # NoTree
    /\ p.kind = "inherit-source" => p.res.tree = p.preview

Informed ==
    /\ trip.phase # "none" => trip.view \in Views
    /\ trip.kind = "restore" => trip.res.tree # NoTree
    /\ Sound(plan) /\ Sound(arr.plan)
    /\ arr.phase # "none" => arr.attempt \in Attempts
    /\ ask.phase \in {"asked", "answered", "applying"} => ask.res.tree # NoTree

(* Pi owes no second event while the first is being handled.               *)
Due == event.due => arr.phase = "none"

(* The steps of a restore from its cutover on, and those between which its *)
(* files are at risk.                                                      *)
Destructive ==
    {"cutover", "write", "rest", "verify", "failed", "done", "noop", "unchanged"}

AtRisk == {"write", "rest", "verify", "done"}

(* A job works for the handler that began it, on what that handler knows.  *)
JobKnows ==
    /\ job.kind = "arrival" => arr.phase = "running" /\ arr.view = job.view
    /\ job.kind = "restore" => ask.phase \in {"looking", "applying", "initializing"}
    /\ job.kind = "departure" => trip.phase \in {"looking", "leaving"}
    /\ job.kind = "restore" /\ job.step \in {"scan", "settle", "rescan"} =>
          job.res.tree # NoTree
    /\ job.step \in Destructive =>
          job.kind \in {"arrival", "restore"} /\ job.res.tree # NoTree
    /\ job.step \in {"noop", "unchanged"} => job.kind = "arrival"
    /\ job.kind = "arrival" /\ job.step \in Destructive => arr.plan.kind = "restore"
    /\ job.kind = "arrival" /\ job.step \in {"settle", "cutover", "write"}
          /\ arr.plan.kind \in {"restore", "inherit-source"} => job.seen = arr.plan.preview
    /\ job.kind = "restore" /\ job.step \in {"cutover", "write"} => job.seen = ask.shown

(* While files are at risk, and when a restore that nobody navigates to    *)
(* has failed, their checkpoint is pinned where it belongs.                *)
JobPins ==
    job.step \in AtRisk \/ (job.step = "failed" /\ job.kind = "restore") =>
        At(job.view) \in Entries /\ w.slots[At(job.view)] = BlockedCheckpoint(job.res.tree)

(* The session or the authority the job began with is gone for good.       *)
Lost ==
    \/ host.graph # job.view.graph
    \/ host # job.view /\ trip.phase \notin {"ready", "accepted"}
    \/ ~ w.active

JobHere ==
    job.kind # "none" =>
        /\ job.view \in Views
        /\ job.view.graph \subseteq host.graph
        /\ host = job.view \/ Lost

(* The job has found the files to be the checkpoint it restores.           *)
FoundRestored ==
    \/ job.step \in {"done", "unchanged"}
    \/ /\ job.kind = "restore" /\ job.step = "settle"
       /\ ask.mode # "reload" \/ job.seen = job.res.tree

(* The job has found the files to be what it scanned.                      *)
FoundInherited ==
    job.kind = "arrival" /\ job.step = "settle" /\ arr.plan.kind = "inherit-source"

Whole(tree) == Lost \/ [at |-> At(job.view), tree |-> tree] \notin torn

JobFound ==
    /\ FoundRestored => Whole(job.res.tree)
    /\ FoundInherited => Whole(job.seen)

ProtocolInv ==
    /\ Typed /\ GhostsTyped /\ Owned /\ Informed /\ Due
    /\ JobKnows /\ JobPins /\ JobHere /\ JobFound
    /\ TornStaysBlocked
-----------------------------------------------------------------------------
(* What every step owes the invariant.                                     *)

JobOK == JobKnows /\ JobPins /\ JobHere /\ JobFound

WaitOK == queue \in Seq(Handlers) /\ owed \in [Handlers -> Protections]

(* No pin is lost, or the one that is belongs to files that are complete.  *)
Spares ==
    \/ Pins(w.slots, w'.slots)
    \/ \E tree : /\ PinsBut(w.slots, w'.slots, At(host), tree)
                 /\ [at |-> At(host), tree |-> tree] \notin torn
                 /\ job.step # "write"

StepOK == Typed' /\ Owned' /\ Informed' /\ Due' /\ JobOK' /\ Spares

LEMMA TokensDiffer ==
    /\ CapturePrep \in Preps /\ DepartPrep \in Preps
    /\ CapturePrep # NoPrep /\ DepartPrep # NoPrep /\ CapturePrep # DepartPrep
    /\ CaptureOp \in Ops /\ DepartOp \in Ops
    /\ ThisPlan \in Plans /\ ThisAttempt \in Attempts /\ ThisPlan # NoPlan
BY OperationAssumption, NoTokenAssumption, TokenAssumption

LEMMA GhostsKept ==
  ASSUME ProtocolInv, HomeMoves, TornMoves, host' \in Views, Spares
  PROVE  GhostsTyped' /\ TornStaysBlocked'
<1> USE DEF ProtocolInv
<1>1. home' \in Coordinates \cup {Nowhere}
  <2>1. At(host') \in Coordinates BY AtTyped DEF Coordinates
  <2>2. home' \in {At(host'), Nowhere, home} BY DEF HomeMoves
  <2> QED BY <2>1, <2>2 DEF GhostsTyped
<1>2. job.step = "write" =>
        /\ HalfWritten \in [at : Entries, tree : Trees]
        /\ w.slots[HalfWritten.at] = BlockedCheckpoint(HalfWritten.tree)
  BY DEF JobPins, AtRisk, Destructive, JobKnows, Typed, Jobs, Resolutions, HalfWritten
<1>3. torn' \subseteq torn \cup IF job.step = "write" THEN {HalfWritten} ELSE {}
  BY DEF TornMoves
<1>4. torn' \subseteq [at : Entries, tree : Trees]
  BY <1>2, <1>3 DEF GhostsTyped
<1>5. ASSUME NEW t \in torn' PROVE w'.slots[t.at] = BlockedCheckpoint(t.tree)
  <2>1. w.slots[t.at] = BlockedCheckpoint(t.tree)
    BY <1>2, <1>3, <1>5 DEF TornStaysBlocked
  <2>2. t.at \in Entries /\ t.tree \in Trees /\ t = [at |-> t.at, tree |-> t.tree]
    BY <1>4, <1>5
  <2>3. IsBlocked(w.slots[t.at]) /\ HasTree(w.slots[t.at])
    BY <2>1, <2>2, NoTreeAssumption DEF IsBlocked, HasTree, BlockedCheckpoint
  <2>4. CASE Pins(w.slots, w'.slots) BY <2>1, <2>2, <2>3, <2>4 DEF Pins
  <2>5. ASSUME NEW tree, PinsBut(w.slots, w'.slots, At(host), tree),
               [at |-> At(host), tree |-> tree] \notin torn, job.step # "write"
        PROVE  w'.slots[t.at] = BlockedCheckpoint(t.tree)
    <3>1. t \in torn BY <1>3, <1>5, <2>5
    <3>2. CASE w'.slots[t.at] = w.slots[t.at] BY <2>1, <3>2
    <3>3. CASE t.at = At(host) /\ w.slots[t.at] = BlockedCheckpoint(tree)
      <4>1. t.tree = tree BY <2>1, <3>3 DEF BlockedCheckpoint
      <4> QED BY <2>2, <2>5, <3>1, <3>3, <4>1
    <3> QED BY <2>2, <2>3, <2>5, <3>2, <3>3 DEF PinsBut
  <2> QED BY <2>4, <2>5 DEF Spares
<1> QED BY <1>1, <1>4, <1>5 DEF GhostsTyped, TornStaysBlocked

LEMMA OwnedKept ==
  ASSUME Owned, Yields(w.adm, w'.adm),
         arr'.attempt = arr.attempt \/ w'.adm.kind # "arrival",
         \/ call' = call \/ w'.adm.preparing # CapturePrep
         \/ call'.phase # "none" /\ call'.manner = call.manner,
         \/ trip' = trip \/ w'.adm.preparing # DepartPrep
         \/ trip'.phase \notin {"none", "accepted"}
  PROVE  Owned'
BY TokensDiffer DEF Owned, Yields

LEMMA JobOver ==
  ASSUME job' = NoJob
  PROVE  JobOK'
BY DEF NoJob, JobOK, JobKnows, JobPins, JobHere, JobFound, FoundRestored, FoundInherited,
       Destructive, AtRisk

LEMMA Between ==
  ASSUME NEW A, NEW B, NEW C, A \subseteq B, B \subseteq C, C = A
  PROVE  B = A
<1>1. \A x : x \in B <=> x \in A OBVIOUS
<1> QED BY <1>1

(* The job under way is not touched.                                       *)
LEMMA JobStands ==
  ASSUME ProtocolInv, TornMoves, job' = job,
         \/ job.kind = "none"
         \/ /\ Pins(w.slots, w'.slots) /\ (w'.active => w.active)
            /\ host.graph \subseteq host'.graph
            /\ \/ host' = host \/ host'.graph # host.graph \/ ~ w'.active
               \/ trip'.phase = "none" /\ trip.phase \in {"ready", "accepted"}
            /\ trip'.phase \in {"ready", "accepted"} => trip.phase \in {"ready", "accepted"}
            /\ job.kind = "arrival" => arr' = arr
            /\ job.kind = "restore" => ask' = ask
            /\ job.kind = "departure" => trip'.phase = trip.phase
  PROVE  JobOK'
<1> USE DEF ProtocolInv
<1>1. CASE job.kind = "none"
  BY <1>1 DEF JobOK, JobKnows, JobPins, JobHere, JobFound, FoundRestored, FoundInherited,
              Destructive, AtRisk
<1>2. CASE job.kind # "none"
  <2>1. JobKnows' BY <1>2 DEF JobKnows, Destructive
  <2>2. JobPins'
    <3>1. HasTree(BlockedCheckpoint(job.res.tree)) <=> job.res.tree # NoTree
      BY DEF HasTree, BlockedCheckpoint
    <3>2. IsBlocked(BlockedCheckpoint(job.res.tree)) BY DEF IsBlocked, BlockedCheckpoint
    <3> QED BY <1>2, <3>1, <3>2 DEF JobPins, JobKnows, AtRisk, Destructive, Pins
  <2>3. Lost => Lost'
    <3>1. job.view.graph \subseteq host.graph /\ host.graph \subseteq host'.graph
      BY <1>2 DEF JobHere
    <3>2. host.graph # job.view.graph \/ host'.graph # host.graph => Lost'
      <4>1. SUFFICES ASSUME host'.graph = job.view.graph
                     PROVE  host.graph = job.view.graph /\ host'.graph = host.graph
        BY DEF Lost
      <4>2. host.graph = job.view.graph BY <3>1, <4>1, Between
      <4> QED BY <4>1, <4>2
    <3>3. ~ w.active => Lost' BY <1>2, SMT DEF Lost
    <3>4. host # job.view /\ trip.phase \notin {"ready", "accepted"} => Lost'
      <4>1. host' = host \/ host'.graph # host.graph \/ ~ w'.active
            \/ trip.phase \in {"ready", "accepted"}
        BY <1>2
      <4>2. trip.phase \notin {"ready", "accepted"} => trip'.phase \notin {"ready", "accepted"}
        BY <1>2
      <4> QED BY <3>2, <4>1, <4>2, SMT DEF Lost
    <3> QED BY <3>2, <3>3, <3>4, SMT DEF Lost
  <2>4. JobHere'
    <3>1. host' # host /\ host = job.view => Lost' BY <1>2 DEF Lost
    <3> QED BY <1>2, <2>3, <3>1 DEF JobHere
  <2>5. JobFound'
    <3>1. FoundRestored' => FoundRestored BY <1>2 DEF FoundRestored
    <3>2. FoundInherited' => FoundInherited BY <1>2 DEF FoundInherited
    <3>3. (FoundRestored \/ FoundInherited) => job.step # "write"
      BY DEF FoundRestored, FoundInherited
    <3>4. job.step # "write" => torn' \subseteq torn BY DEF TornMoves
    <3> QED BY <2>3, <3>1, <3>2, <3>3, <3>4 DEF JobFound, Whole
  <2> QED BY <2>1, <2>2, <2>4, <2>5 DEF JobOK
<1> QED BY <1>1, <1>2
-----------------------------------------------------------------------------
(* Waiting, and protections.                                               *)

LEMMA QueueTyped ==
  ASSUME Typed, NEW h \in Handlers
  PROVE  /\ Waits(queue, h) \in Seq(Handlers)
         /\ queue # <<>> => Others \in Seq(Handlers) /\ Waits(Others, h) \in Seq(Handlers)
BY DEF Typed, Waits, Others

LEMMA GoesTyped ==
  ASSUME Typed, NEW q \in Seq(Handlers), Goes(q)
  PROVE  WaitOK'
BY DEF Typed, Goes, WaitOK

LEMMA StaysTyped ==
  ASSUME Typed, Stays
  PROVE  WaitOK'
BY DEF Typed, Stays, WaitOK

LEMMA OwesTyped ==
  ASSUME Typed, NEW q \in Seq(Handlers), NEW h \in Handlers, NEW p \in Protections,
         Owes(h, p, q)
  PROVE  WaitOK'
BY DEF Typed, Owes, Waits, WaitOK

LEMMA OwesRecoveryKeeps ==
  ASSUME Typed, NEW s \in States, NEW q \in Seq(Handlers), NEW h \in Handlers,
         OwesRecovery(s, h, q)
  PROVE  Tame(s, w') /\ Steady(w'.adm) /\ WaitOK'
<1>1. Tame(s, w') /\ Steady(w'.adm) BY QuarantinedTame DEF OwesRecovery
<1>2. (IF s.active THEN "recover" ELSE "retire") \in Protections BY DEF Protections
<1> QED BY <1>1, <1>2, OwesTyped DEF OwesRecovery

LEMMA WithdrawsKeeps ==
  ASSUME Typed, NEW s \in States, NEW q \in Seq(Handlers), NEW h \in Handlers,
         Withdraws(s, h, q)
  PROVE  Tame(s, w') /\ Steady(w'.adm) /\ WaitOK'
<1>1. Tame(s, w') /\ Steady(w'.adm) BY QuarantinedTame DEF Withdraws
<1> QED BY <1>1, OwesTyped DEF Withdraws, Protections

LEMMA RecoversKeeps ==
  ASSUME Typed, NEW s \in States, NEW q \in Seq(Handlers), NEW h \in Handlers,
         RecoversInLock(s, h, q)
  PROVE  Tame(s, w') /\ Steady(w'.adm) /\ WaitOK'
<1>1. host \in Views BY DEF Typed
<1>2. CASE w' = Recover(s, host) /\ Goes(q)
  BY <1>1, <1>2, CompositesTame, GoesTyped
<1>3. CASE w' = Barred(s) /\ Goes(q)
  BY <1>3, QuarantinedTame, GoesTyped
<1>4. CASE w' = Quarantined(s) /\ Owes(h, "recover", q)
  BY <1>4, QuarantinedTame, OwesTyped DEF Protections
<1> QED BY <1>2, <1>3, <1>4 DEF RecoversInLock

LEMMA TameSpares ==
  ASSUME Typed, Tame(w, w')
  PROVE  /\ w' \in States /\ Pins(w.slots, w'.slots) /\ Yields(w.adm, w'.adm)
         /\ w'.active => w.active
         /\ Spares
BY DEF Typed, Tame, Spares
-----------------------------------------------------------------------------
(* Pi, the user, crashes and protections.                                  *)

LEMMA NothingTyped ==
  /\ NoJob \in Jobs /\ NoCall \in Calls /\ NoTrip \in Trips /\ NoArrival \in Arrivals
  /\ NoAsk \in Asks /\ NothingPlanned \in PlansMade /\ NoEvent \in Events
  /\ NoCall.phase = "none" /\ NoTrip.phase = "none" /\ NoTrip.kind # "restore"
  /\ NoArrival.phase = "none" /\ NoAsk.phase = "none" /\ NoArrival.plan = NothingPlanned
  /\ Sound(NothingPlanned)
<1> USE DEF OpenMissing, Slot, Missing, Resolutions, Coordinates, SourceKinds, TargetKinds, Leaves
<1>1. NoJob \in Jobs BY DEF NoJob, Jobs
<1>2. NoCall \in Calls /\ NoCall.phase = "none" BY DEF NoCall, Calls
<1>3. NoTrip \in Trips /\ NoTrip.phase = "none" /\ NoTrip.kind # "restore" BY DEF NoTrip, Trips
<1>4. NothingPlanned \in PlansMade /\ Sound(NothingPlanned)
  BY DEF NothingPlanned, PlansMade, Sound
<1>5. NoArrival \in Arrivals /\ NoArrival.phase = "none" /\ NoArrival.plan = NothingPlanned
  BY <1>4 DEF NoArrival, Arrivals
<1>6. NoAsk \in Asks /\ NoAsk.phase = "none" BY DEF NoAsk, Asks
<1>7. NoEvent \in Events BY DEF NoEvent, Events
<1> QED BY <1>1, <1>2, <1>3, <1>4, <1>5, <1>6, <1>7

LEMMA HandlersStay ==
  ASSUME ProtocolInv, UNCHANGED handlers
  PROVE  /\ call' \in Calls /\ trip' \in Trips /\ plan' \in PlansMade
         /\ arr' \in Arrivals /\ ask' \in Asks /\ Informed'
         /\ arr' = arr /\ call' = call /\ trip' = trip /\ ask' = ask /\ plan' = plan
BY DEF ProtocolInv, Typed, handlers, Informed, Sound

LEMMA AppendKeeps ==
  ASSUME ProtocolInv, TornMoves, NEW e \in Entries, HostAppend(e)
  PROVE  StepOK
<1> USE DEF ProtocolInv
<1>1. w' = w /\ job' = job /\ queue' = queue /\ owed' = owed /\ UNCHANGED handlers
      /\ event' = event /\ content' = content /\ edits' = edits /\ moves' = moves
  BY DEF HostAppend, runtimeVars
<1>2. w \in States BY DEF Typed
<1>3. Tame(w, w') BY <1>1, <1>2, TameSelf
<1>4. host' \in Views /\ host.graph \subseteq host'.graph /\ host'.graph # host.graph
  BY DEF HostAppend, Typed, Views, Raw
<1>5. Typed' BY <1>1, <1>2, <1>4, HandlersStay DEF Typed
<1>6. Owned' BY <1>1, <1>3, HandlersStay, TameSpares, OwnedKept
<1>7. JobOK' BY <1>1, <1>3, <1>4, HandlersStay, TameSpares, JobStands
<1> QED BY <1>1, <1>3, <1>5, <1>6, <1>7, HandlersStay, TameSpares DEF StepOK, Due

LEMMA NavigateKeeps ==
  ASSUME ProtocolInv, TornMoves, NEW t \in Coordinates, NEW s \in Coordinates,
         HostNavigate(t, s)
  PROVE  StepOK
<1> USE DEF ProtocolInv
<1>1. w' = w /\ job' = job /\ queue' = queue /\ owed' = owed /\ trip' = NoTrip
      /\ call' = call /\ plan' = plan /\ arr' = arr /\ ask' = ask
      /\ content' = content /\ edits' = edits
  BY DEF HostNavigate, runtimeVars
<1>2. w \in States BY DEF Typed
<1>3. Tame(w, w') BY <1>1, <1>2, TameSelf
<1>4. host' \in Views /\ host.graph \subseteq host'.graph /\ host'.leaf \in Coordinates
  <2>1. CASE s = NoEntry /\ host' = [host EXCEPT !.leaf = t]
    BY <2>1 DEF Typed, Views, Raw, Coordinates
  <2>2. CASE s \in Entries /\ host' = [graph |-> host.graph \cup {s}, leaf |-> s]
    BY <2>2 DEF Typed, Views, Raw, Coordinates
  <2> QED BY <2>1, <2>2 DEF HostNavigate
<1>5. event' \in Events /\ moves' \in 0..MaxMoves
  <2>1. event' = [old |-> host.leaf, new |-> host'.leaf, landing |-> t, due |-> TRUE]
        /\ moves' = moves + 1 /\ moves < MaxMoves
    BY DEF HostNavigate
  <2>2. host.leaf \in Leaves BY DEF Typed, Views, Leaves
  <2> QED BY <1>4, <2>1, <2>2, BoundsAssumption DEF Typed, Events
<1>6. NoTrip \in Trips /\ NoTrip.phase = "none" /\ NoTrip.kind # "restore"
  BY NothingTyped
<1>7. Typed' BY <1>1, <1>2, <1>4, <1>5, <1>6 DEF Typed
<1>8. Informed' BY <1>1, <1>6 DEF Informed, Sound
<1>9. Owned'
  <2>1. trip.phase \in {"none", "accepted"} BY <1>6 DEF HostNavigate
  <2> QED BY <1>1, <2>1 DEF Owned
<1>10. JobOK'
  <2>1. job.kind # "departure" BY <1>6 DEF HostNavigate, JobKnows
  <2>2. trip.phase = "accepted" \/ ~ w'.active BY <1>1 DEF HostNavigate
  <2> QED BY <1>1, <1>3, <1>4, <1>6, <2>1, <2>2, TameSpares, JobStands
<1> QED BY <1>1, NothingTyped, <1>3, <1>7, <1>8, <1>9, <1>10, TameSpares DEF HostNavigate, StepOK, Due

LEMMA HostStaysKeeps ==
  ASSUME ProtocolInv, TornMoves, HostStays
  PROVE  StepOK
<1> USE DEF ProtocolInv
<1>1. w' = w /\ job' = job /\ queue' = queue /\ owed' = owed /\ trip' = NoTrip
      /\ call' = call /\ plan' = plan /\ arr' = arr /\ ask' = ask
      /\ host' = host /\ event' = event /\ content' = content /\ edits' = edits /\ moves' = moves
      /\ trip.phase = "accepted"
  BY DEF HostStays, runtimeVars, hostVars
<1>2. w \in States BY DEF Typed
<1>3. Tame(w, w') BY <1>1, <1>2, TameSelf
<1>4. NoTrip \in Trips /\ NoTrip.phase = "none" /\ NoTrip.kind # "restore"
  BY NothingTyped
<1>5. Typed' BY <1>1, <1>2, <1>4 DEF Typed
<1>6. Informed' BY <1>1, <1>4 DEF Informed, Sound
<1>7. Owned' BY <1>1 DEF Owned
<1>8. JobOK'
  <2>1. job.kind # "departure" BY <1>1 DEF JobKnows
  <2> QED BY <1>1, <1>3, <1>4, <2>1, TameSpares, JobStands
<1> QED BY <1>1, <1>3, <1>5, <1>6, <1>7, <1>8, TameSpares DEF StepOK, Due

LEMMA EditsKeep ==
  ASSUME ProtocolInv, TornMoves, NEW tree \in Trees, UserEdits(tree)
  PROVE  StepOK
<1> USE DEF ProtocolInv
<1>1. w' = w /\ job' = job /\ queue' = queue /\ owed' = owed /\ UNCHANGED handlers
      /\ event' = event /\ content' = tree /\ moves' = moves /\ host' = host
      /\ edits' = edits + 1 /\ edits < MaxEdits
  BY DEF UserEdits, runtimeVars
<1>2. w \in States BY DEF Typed
<1>3. Tame(w, w') BY <1>1, <1>2, TameSelf
<1>4. edits' \in 0..MaxEdits BY <1>1, BoundsAssumption DEF Typed
<1>5. Typed' BY <1>1, <1>2, <1>4, HandlersStay DEF Typed
<1>6. Owned' BY <1>1, <1>3, HandlersStay, TameSpares, OwnedKept
<1>7. JobOK' BY <1>1, <1>3, HandlersStay, TameSpares, JobStands
<1> QED BY <1>1, <1>3, <1>5, <1>6, <1>7, HandlersStay, TameSpares DEF StepOK, Due

LEMMA CrashKeeps ==
  ASSUME ProtocolInv, TornMoves, Crash
  PROVE  StepOK
<1> USE DEF ProtocolInv
<1>1. w \in States BY DEF Typed
<1>2. Tame(w, w') /\ Steady(w'.adm) BY <1>1, QuarantinedTame DEF Crash
<1>3. /\ job' = NoJob /\ call' = NoCall /\ trip' = NoTrip /\ arr' = NoArrival
      /\ ask' = NoAsk /\ plan' = NothingPlanned /\ event' = NoEvent
      /\ host' = host /\ content' = content /\ edits' = edits /\ moves' = moves
      /\ queue' = <<>> /\ owed' = [h \in Handlers |-> "none"]
  BY DEF Crash
<1>4. queue' \in Seq(Handlers) /\ owed' \in [Handlers -> Protections] BY <1>3 DEF Protections
<1>5. Typed' BY <1>1, <1>2, <1>3, <1>4, NothingTyped, TameSpares DEF Typed
<1>6. Informed' BY <1>3, NothingTyped DEF Informed
<1>7. Owned' BY <1>2, TokensDiffer DEF Owned, Steady
<1> QED BY NothingTyped, <1>2, <1>3, <1>5, <1>6, <1>7, JobOver, TameSpares DEF StepOK, Due

LEMMA ProtectsKeeps ==
  ASSUME ProtocolInv, TornMoves, NEW h \in Handlers, Protects(h)
  PROVE  StepOK
<1> USE DEF ProtocolInv
<1>1. w \in States /\ host \in Views BY DEF Typed
<1>2. Tame(w, w')
  <2>1. w' \in {Recover(w, host), Protected(w, host), Barred(w), Withdrawn(w)} BY DEF Protects
  <2> QED BY <1>1, <2>1, CompositesTame, QuarantinedTame
<1>3. job' = job /\ UNCHANGED handlers /\ event' = event /\ content' = content
      /\ moves' = moves /\ host' = host /\ edits' = edits /\ queue' = Others
      /\ owed' = [owed EXCEPT ![h] = "none"] /\ queue # <<>>
  BY DEF Protects, hostVars
<1>4. queue' \in Seq(Handlers) BY <1>3, QueueTyped
<1>5. owed' \in [Handlers -> Protections] BY <1>3 DEF Typed, Protections
<1>6. Typed' BY <1>2, <1>3, <1>4, <1>5, HandlersStay, TameSpares DEF Typed
<1>7. Owned' BY <1>2, <1>3, HandlersStay, TameSpares, OwnedKept
<1>8. JobOK' BY <1>2, <1>3, HandlersStay, TameSpares, JobStands
<1> QED BY <1>2, <1>3, <1>6, <1>7, <1>8, HandlersStay, TameSpares DEF StepOK, Due
-----------------------------------------------------------------------------
(* Captures.                                                               *)

CaptureFrame == UNCHANGED <<hostVars, trip, plan, arr, ask>>

(* Whoever called keeps the preparation, or gives it up.                   *)
CallKeeps ==
    \/ call' = call \/ w'.adm.preparing # CapturePrep
    \/ call'.phase # "none" /\ call'.manner = call.manner

LEMMA CaptureStep ==
  ASSUME ProtocolInv, CaptureFrame, Tame(w, w'), WaitOK', call' \in Calls, CallKeeps,
         job' \in Jobs, JobOK'
  PROVE  StepOK
<1> USE DEF ProtocolInv
<1>1. host' = host /\ event' = event /\ content' = content /\ edits' = edits /\ moves' = moves
      /\ trip' = trip /\ plan' = plan /\ arr' = arr /\ ask' = ask
  BY DEF CaptureFrame, hostVars
<1>2. Typed' BY <1>1, TameSpares DEF Typed, WaitOK
<1>3. Informed' BY <1>1 DEF Informed, Sound
<1>4. Owned' BY <1>1, TameSpares, OwnedKept DEF CallKeeps
<1> QED BY <1>1, <1>2, <1>3, <1>4, TameSpares DEF StepOK, Due

LEMMA CaptureStands ==
  ASSUME ProtocolInv, TornMoves, CaptureFrame, Tame(w, w'), job' = job
  PROVE  JobOK' /\ job' \in Jobs
<1> USE DEF ProtocolInv
<1>1. host' = host /\ trip' = trip /\ arr' = arr /\ ask' = ask BY DEF CaptureFrame, hostVars
<1> QED BY <1>1, TameSpares, JobStands DEF Typed

LEMMA CaptureEnds ==
  ASSUME Ends
  PROVE  JobOK' /\ job' \in Jobs
BY JobOver, NothingTyped DEF Ends

LEMMA FinishTame ==
  ASSUME NEW s \in States, NEW p \in Preps
  PROVE  /\ Tame(s, WithAdmission(s, FinishPreparation(s.adm, p)))
         /\ WithAdmission(s, FinishPreparation(s.adm, p)).adm.preparing # p
<1>1. s.adm \in Authorities BY DEF States
<1>2. /\ FinishPreparation(s.adm, p) \in Authorities
      /\ Yields(s.adm, FinishPreparation(s.adm, p))
      /\ FinishPreparation(s.adm, p).preparing # p
  BY <1>1, NoTokenAssumption DEF FinishPreparation, Authorities, Yields
<1> QED BY <1>2, AdmissionTame

LEMMA ReturnsKeep ==
  ASSUME Typed, Owned, NEW s \in States, Tame(w, s), NEW q \in Seq(Handlers), Returns(s, q)
  PROVE  Tame(w, w') /\ WaitOK' /\ call' \in Calls /\ CallKeeps
<1>1. WaitOK' /\ call' = NoCall /\ w' = Finished(s) BY GoesTyped DEF Returns, Returned
<1>2. CASE call.manner = "prepared"
  <2>1. Tame(s, w') /\ w'.adm.preparing # CapturePrep
    BY <1>1, <1>2, FinishTame, TokensDiffer DEF Finished
  <2> QED BY <1>1, <2>1, NothingTyped, TameTwice DEF CallKeeps
<1>3. CASE call.manner # "prepared"
  <2>1. w' = s BY <1>1, <1>3 DEF Finished
  <2>2. w'.adm.preparing # CapturePrep BY <1>3, <2>1, TokensDiffer DEF Owned, Tame, Yields
  <2> QED BY <1>1, <2>1, <2>2, NothingTyped DEF CallKeeps
<1> QED BY <1>2, <1>3

LEMMA FailsByKeeps ==
  ASSUME Typed, Owned, NEW s \in States, Tame(w, s), NEW q \in Seq(Handlers), NEW impact,
         FailsBy(impact, s, q)
  PROVE  Tame(w, w') /\ WaitOK' /\ call' \in Calls /\ CallKeeps
<1>1. "call" \in Handlers BY DEF Handlers
<1>2. CASE Returned /\ OwesRecovery(s, "call", q)
  <2>1. Tame(s, w') /\ Steady(w'.adm) /\ WaitOK' BY <1>1, <1>2, OwesRecoveryKeeps
  <2>2. w'.adm.preparing # CapturePrep BY <2>1, TokensDiffer DEF Steady
  <2> QED BY <1>2, <2>1, <2>2, NothingTyped, TameTwice DEF CallKeeps, Returned
<1>3. CASE Returns(s, q) BY <1>3, ReturnsKeep
<1>4. CASE w' = s /\ call' = [call EXCEPT !.phase = "protecting"] /\ Goes(Waits(q, "call"))
  <2>1. Waits(q, "call") \in Seq(Handlers) BY <1>1 DEF Waits
  <2>2. call' \in Calls /\ call'.phase = "protecting" /\ call'.manner = call.manner
    BY <1>4 DEF Typed, Calls
  <2> QED BY <1>4, <2>1, <2>2, GoesTyped DEF CallKeeps
<1>5. CASE Returned /\ Withdraws(s, "call", q)
  <2>1. Tame(s, w') /\ Steady(w'.adm) /\ WaitOK' BY <1>1, <1>5, WithdrawsKeeps
  <2>2. w'.adm.preparing # CapturePrep BY <2>1, TokensDiffer DEF Steady
  <2> QED BY <1>5, <2>1, <2>2, NothingTyped, TameTwice DEF CallKeeps, Returned
<1> QED BY <1>2, <1>3, <1>4, <1>5 DEF FailsBy

LEMMA CaptureCalledKeeps ==
  ASSUME ProtocolInv, TornMoves, CaptureFrame,
         NEW manner \in {"observed", "prepared", "bash", "context"}, CaptureCalled(manner)
  PROVE  StepOK
<1> USE DEF ProtocolInv
<1> DEFINE a == CASE manner = "prepared" -> BeginPreparation(w.adm, CapturePrep)
                  [] manner = "bash" -> RejectTransitionConflict(w.adm)
                  [] OTHER -> w.adm
<1>1. w \in States /\ w.adm \in Authorities /\ host \in Views BY DEF Typed, States
<1>2. w' = WithAdmission(w, a) /\ job' = job BY DEF CaptureCalled
<1>3. a \in Authorities /\ a.kind = w.adm.kind /\ a.attempt = w.adm.attempt
      /\ (a.preparing \in {w.adm.preparing} \/ (manner = "prepared" /\ MayPrepare(w)
                                                  /\ a.preparing = CapturePrep))
  <2>1. CASE manner = "prepared"
    <3>1. BeginPreparation(w.adm, CapturePrep) \in Authorities
      BY <1>1, AuthorityTyped, TokensDiffer
    <3>2. a = BeginPreparation(w.adm, CapturePrep) BY <2>1
    <3> QED BY <1>1, <2>1, <3>1, <3>2 DEF BeginPreparation, WithoutProposal, Authorities, MayPrepare
  <2>2. CASE manner = "bash"
    <3>1. RejectTransitionConflict(w.adm) \in Authorities BY <1>1, AuthorityYields
    <3>2. a = RejectTransitionConflict(w.adm) BY <2>2
    <3> QED BY <1>1, <3>1, <3>2 DEF RejectTransitionConflict, WithoutProposal, Authorities
  <2>3. CASE manner \notin {"prepared", "bash"}
    <3>1. a = w.adm BY <2>3
    <3> QED BY <1>1, <3>1
  <2> QED BY <2>1, <2>2, <2>3
<1> HIDE DEF a
<1>4. w' \in States /\ w'.adm = a /\ w'.slots = w.slots /\ w'.active = w.active
      /\ Pins(w.slots, w'.slots)
  BY <1>1, <1>2, <1>3 DEF WithAdmission, States, Pins
<1>5. CASE manner = "prepared" /\ ~ MayPrepare(w)
  <2>1. call' = call /\ Goes(queue) BY <1>5 DEF CaptureCalled
  <2>2. Yields(w.adm, w'.adm) BY <1>3, <1>4, <1>5 DEF Yields
  <2>3. Tame(w, w') BY <1>4, <2>2 DEF Tame
  <2>4. WaitOK' /\ call' \in Calls BY <2>1, GoesTyped DEF Typed
  <2> QED BY <1>2, <2>1, <2>3, <2>4, CaptureStands, CaptureStep DEF CallKeeps
<1>6. CASE ~ (manner = "prepared" /\ ~ MayPrepare(w))
  <2>1. call' = [manner |-> manner, phase |-> "queued", view |-> host]
        /\ Goes(Waits(queue, "call")) /\ call = NoCall
    BY <1>6 DEF CaptureCalled
  <2>2. WaitOK' BY <2>1, QueueTyped, GoesTyped DEF Handlers
  <2>3. call' \in Calls BY <1>1, <2>1 DEF Calls
  <2>4. host' = host /\ event' = event /\ content' = content /\ edits' = edits /\ moves' = moves
        /\ trip' = trip /\ plan' = plan /\ arr' = arr /\ ask' = ask
    BY DEF CaptureFrame, hostVars
  <2>5. Typed' BY <1>2, <1>4, <2>2, <2>3, <2>4 DEF Typed, WaitOK
  <2>6. Informed' BY <2>4 DEF Informed, Sound
  <2>7. JobOK' BY <1>2, <1>4, <2>4, JobStands
  <2>8. Owned'
    <3>1. w.adm.preparing # CapturePrep BY <2>1, NothingTyped DEF Owned
    <3> QED BY <1>3, <1>4, <2>1, <2>4, <3>1, TokensDiffer DEF Owned
  <2> QED BY <2>4, <1>4, <2>5, <2>6, <2>7, <2>8 DEF StepOK, Due, Spares
<1> QED BY <1>5, <1>6

(* A job that begins where the session is, with its files still untouched. *)
LEMMA JobBegins ==
  ASSUME ProtocolInv, host' = host, job'.view = host, JobKnows',
         job'.step \notin Destructive, job'.step # "settle" \/ job'.kind \notin {"arrival", "restore"}
  PROVE  JobOK'
<1>1. JobHere' BY DEF ProtocolInv, Typed, JobHere
<1>2. JobPins' BY DEF JobPins, AtRisk, Destructive
<1>3. JobFound' BY DEF JobFound, FoundRestored, FoundInherited, Destructive
<1> QED BY <1>1, <1>2, <1>3 DEF JobOK

LEMMA CaptureBeginsKeeps ==
  ASSUME ProtocolInv, TornMoves, CaptureFrame, CaptureBegins
  PROVE  StepOK
<1> USE DEF ProtocolInv
<1> DEFINE b == Boundary(w, call.view, CaptureOp)
<1>1. w \in States /\ host \in Views /\ Tame(w, w) BY TameSelf DEF Typed
<1>2. queue # <<>> /\ call.phase = "queued" BY DEF CaptureBegins, IsNext
<1>3. Others \in Seq(Handlers) BY <1>2, QueueTyped DEF Handlers
<1>4. call.view = host =>
        /\ Tame(w, b.state) /\ b.state \in States
        /\ b.kind = "capture" => At(host) \in Entries
  BY <1>1, BoundaryTame, TokensDiffer DEF Tame
<1>5. host' = host BY DEF CaptureFrame, hostVars
<1> HIDE DEF b
<1>6. CASE FailsBy("cancel-operation", w, Others) /\ Ends
  BY <1>1, <1>3, <1>6, FailsByKeeps, CaptureEnds, CaptureStep
<1>7. CASE /\ Exact(call.view) /\ b.kind = "capture" /\ w' = b.state
           /\ job' = [NoJob EXCEPT !.kind = "capture", !.step = "scan",
                                   !.view = call.view, !.slot = w.slots[Here]]
           /\ call' = [call EXCEPT !.phase = "running"]
           /\ Goes(Others)
  <2>1. w.slots[Here] \in Slot /\ call.view = host BY <1>1, <1>4, <1>7 DEF Exact, Here, States
  <2>2. job' \in Jobs BY <1>1, <1>7, <2>1, NothingTyped DEF Jobs
  <2>3. job'.kind = "capture" /\ job'.step = "scan" /\ job'.view = host
    BY <1>7, <2>1 DEF NoJob
  <2>4. JobKnows' BY <2>3 DEF JobKnows, Destructive
  <2>5. JobOK' BY <1>5, <2>3, <2>4, JobBegins DEF Destructive
  <2>6. call' \in Calls /\ call'.phase = "running" /\ call'.manner = call.manner
    BY <1>7 DEF Typed, Calls
  <2>7. WaitOK' BY <1>3, <1>7, GoesTyped
  <2> QED BY <1>4, <1>7, <2>1, <2>2, <2>5, <2>6, <2>7, CaptureStep DEF CallKeeps
<1>8. CASE Exact(call.view) /\ Returns(b.state, Others) /\ Ends
  BY <1>3, <1>4, <1>8, ReturnsKeep, CaptureEnds, CaptureStep DEF Exact
<1>9. CASE Exact(call.view) /\ FailsBy("cancel-operation", b.state, Others) /\ Ends
  BY <1>3, <1>4, <1>9, FailsByKeeps, CaptureEnds, CaptureStep DEF Exact
<1> QED BY <1>6, <1>7, <1>8, <1>9 DEF CaptureBegins, b

LEMMA ProjectBarrierKeeps ==
  ASSUME ProtocolInv, TornMoves, CaptureFrame, ProjectBarrier
  PROVE  StepOK
<1> USE DEF ProtocolInv
<1> DEFINE s == Boundary(w, host, CaptureOp).state
           u == IF Exact(call.view) /\ w.barrier THEN s ELSE w
<1>1. w \in States /\ host \in Views /\ Tame(w, w) BY TameSelf DEF Typed
<1>2. queue # <<>> BY DEF ProjectBarrier, IsNext
<1>3. Others \in Seq(Handlers) BY <1>2, QueueTyped DEF Handlers
<1>4. Tame(w, s) BY <1>1, BoundaryTame, TokensDiffer
<1> HIDE DEF s
<1>5. Tame(w, u) /\ u \in States BY <1>1, <1>4 DEF Tame
<1>6. Ends /\ (Returns(u, Others) \/ FailsBy("cancel-operation", w, Others))
  BY DEF ProjectBarrier, u, s
<1> HIDE DEF u
<1> QED BY <1>1, <1>3, <1>5, <1>6, ReturnsKeep, FailsByKeeps, CaptureEnds, CaptureStep

LEMMA CaptureScansKeeps ==
  ASSUME ProtocolInv, TornMoves, CaptureFrame, CaptureScans
  PROVE  StepOK
<1> USE DEF ProtocolInv
<1>1. w \in States /\ Tame(w, w) BY TameSelf DEF Typed
<1>2. w' = w /\ call' = call /\ Stays /\ job' = [job EXCEPT !.step = "commit", !.seen = content]
      /\ job.kind = "capture"
  BY DEF CaptureScans, Runs
<1>3. job' \in Jobs /\ job'.step = "commit" /\ job'.view = job.view /\ job'.kind = "capture"
  BY <1>2 DEF Typed, Jobs
<1>4. host' = host /\ trip' = trip BY DEF CaptureFrame, hostVars
<1>5. JobKnows' BY <1>3 DEF JobKnows, Destructive
<1>6. JobPins' BY <1>3 DEF JobPins, AtRisk
<1>7. JobHere' BY <1>2, <1>3, <1>4 DEF JobHere, Lost
<1>8. JobFound' BY <1>3 DEF JobFound, FoundRestored, FoundInherited
<1>9. JobOK' BY <1>5, <1>6, <1>7, <1>8 DEF JobOK
<1> QED BY <1>1, <1>2, <1>3, <1>9, StaysTyped, CaptureStep DEF CallKeeps, Typed

LEMMA CaptureCommitsKeeps ==
  ASSUME ProtocolInv, TornMoves, CaptureFrame, CaptureCommits
  PROVE  StepOK
<1> USE DEF ProtocolInv
<1> DEFINE after == AfterCapture(w, At(job.view), job.slot, job.seen)
<1>1. w \in States /\ Tame(w, w) /\ queue \in Seq(Handlers) BY TameSelf DEF Typed
<1>2. job.seen \in Trees \cup {NoTree} BY DEF Typed, Jobs
<1>3. Tame(w, after) /\ after \in States BY <1>1, <1>2, AfterCaptureTame
<1>4. Ends /\ (Returns(after, queue) \/ FailsBy("cancel-operation", w, queue))
  BY DEF CaptureCommits
<1> HIDE DEF after
<1> QED BY <1>1, <1>3, <1>4, ReturnsKeep, FailsByKeeps, CaptureEnds, CaptureStep

LEMMA CaptureFailsKeeps ==
  ASSUME ProtocolInv, TornMoves, CaptureFrame, CaptureFails
  PROVE  StepOK
<1> USE DEF ProtocolInv
<1>1. w \in States /\ Tame(w, w) /\ queue \in Seq(Handlers) BY TameSelf DEF Typed
<1>2. PICK impact \in Impacts : Ends /\ FailsBy(impact, w, queue) BY DEF CaptureFails
<1> QED BY <1>1, <1>2, FailsByKeeps, CaptureEnds, CaptureStep

LEMMA ProtectFailedSourceKeeps ==
  ASSUME ProtocolInv, TornMoves, CaptureFrame, ProtectFailedSource
  PROVE  StepOK
<1> USE DEF ProtocolInv
<1>1. w \in States /\ host \in Views BY DEF Typed
<1>2. queue # <<>> /\ job' = job BY DEF ProtectFailedSource, IsNext
<1>3. Others \in Seq(Handlers) BY <1>2, QueueTyped DEF Handlers
<1>4. CASE Withdraws(w, "call", Others) /\ Returned
  <2>1. Tame(w, w') /\ Steady(w'.adm) /\ WaitOK' BY <1>1, <1>3, <1>4, WithdrawsKeeps DEF Handlers
  <2>2. CallKeeps BY <2>1, TokensDiffer DEF CallKeeps, Steady
  <2> QED BY <1>2, <1>4, <2>1, <2>2, NothingTyped, CaptureStands, CaptureStep DEF Returned
<1>5. CASE Returns(ProtectNode(w, host), Others)
  <2> DEFINE s == ProtectNode(w, host)
  <2>1. Tame(w, s) /\ s \in States BY <1>1, CompositesTame
  <2>2. Returns(s, Others) BY <1>5
  <2> HIDE DEF s
  <2> QED BY <1>2, <1>3, <2>1, <2>2, ReturnsKeep, CaptureStands, CaptureStep
<1> QED BY <1>4, <1>5 DEF ProtectFailedSource

LEMMA CaptureKeeps ==
  ASSUME ProtocolInv, TornMoves, CaptureNext
  PROVE  StepOK
<1>1. CaptureFrame BY DEF CaptureNext, CaptureFrame
<1> QED BY <1>1, CaptureCalledKeeps, CaptureBeginsKeeps, CaptureScansKeeps, CaptureCommitsKeeps,
           CaptureFailsKeeps, ProtectFailedSourceKeeps, ProjectBarrierKeeps DEF CaptureNext
-----------------------------------------------------------------------------
(* Departures.                                                             *)

DepartureFrame == UNCHANGED <<hostVars, call, arr, ask>>

TripKeeps ==
    \/ trip' = trip \/ w'.adm.preparing # DepartPrep
    \/ trip'.phase \notin {"none", "accepted"}

TripInformed ==
    /\ trip.phase # "none" => trip.view \in Views
    /\ trip.kind = "restore" => trip.res.tree # NoTree

DepartureOK ==
    /\ Tame(w, w') /\ WaitOK'
    /\ trip' \in Trips /\ TripKeeps /\ TripInformed'
    /\ job' \in Jobs /\ JobOK'

LEMMA DepartureStep ==
  ASSUME ProtocolInv, DepartureFrame, plan' = plan, DepartureOK
  PROVE  StepOK
<1> USE DEF ProtocolInv, DepartureOK
<1>1. host' = host /\ event' = event /\ content' = content /\ edits' = edits /\ moves' = moves
      /\ call' = call /\ arr' = arr /\ ask' = ask
  BY DEF DepartureFrame, hostVars
<1>2. Typed' BY <1>1, TameSpares DEF Typed, WaitOK
<1>3. Informed' BY <1>1 DEF Informed, Sound, TripInformed
<1>4. Owned' BY <1>1, TameSpares, OwnedKept DEF TripKeeps
<1> QED BY <1>1, <1>2, <1>3, <1>4, TameSpares DEF StepOK, Due

LEMMA DepartureStands ==
  ASSUME ProtocolInv, TornMoves, DepartureFrame, Tame(w, w'), job' = job,
         \/ job.kind = "none" \/ trip'.phase = trip.phase
         \/ /\ job.kind # "departure"
            /\ trip'.phase \in {"ready", "accepted"} => trip.phase \in {"ready", "accepted"}
  PROVE  JobOK' /\ job' \in Jobs
<1> USE DEF ProtocolInv
<1>1. host' = host /\ arr' = arr /\ ask' = ask BY DEF DepartureFrame, hostVars
<1> QED BY <1>1, TameSpares, JobStands DEF Typed

LEMMA DepartureGoes ==
  ASSUME ProtocolInv, DepartureFrame, w'.active => w.active, job.kind = "departure",
         NEW x \in {"preview", "publish", "commit", "settle"}, StepsTo(x),
         trip'.phase = trip.phase
  PROVE  JobOK' /\ job' \in Jobs
<1> USE DEF ProtocolInv
<1>1. host' = host BY DEF DepartureFrame, hostVars
<1>2. job' \in Jobs /\ job'.step = x /\ job'.view = job.view /\ job'.kind = "departure"
  BY DEF Typed, Jobs, StepsTo
<1>3. JobKnows' BY <1>2 DEF JobKnows, Destructive
<1>4. JobPins' BY <1>2 DEF JobPins, AtRisk
<1>5. JobHere' BY <1>1, <1>2 DEF JobHere, Lost
<1>6. JobFound' BY <1>2 DEF JobFound, FoundRestored, FoundInherited
<1> QED BY <1>2, <1>3, <1>4, <1>5, <1>6 DEF JobOK

LEMMA DepartureBegins ==
  ASSUME ProtocolInv, DepartureFrame, trip.view = host,
         NEW x \in {"scan", "preview", "rescan"}, Begins("departure", x, trip.view),
         trip'.phase \in {"looking", "leaving"}
  PROVE  JobOK' /\ job' \in Jobs
<1> USE DEF ProtocolInv
<1>1. host' = host /\ host \in Views BY DEF DepartureFrame, hostVars, Typed
<1>2. job' \in Jobs /\ job'.step = x /\ job'.view = host /\ job'.kind = "departure"
  BY <1>1, NothingTyped DEF Begins, Jobs, NoJob
<1>3. JobKnows' BY <1>2 DEF JobKnows, Destructive
<1> QED BY <1>1, <1>2, <1>3, JobBegins DEF Destructive

LEMMA CancelsKeeps ==
  ASSUME Typed, NEW s \in States, Tame(w, s), NEW q \in Seq(Handlers), Cancels(s, q)
  PROVE  DepartureOK
<1>1. Tame(s, w') /\ w'.adm.preparing # DepartPrep
  BY FinishTame, TokensDiffer DEF Cancels
<1>2. WaitOK' /\ trip' = NoTrip /\ Ends BY GoesTyped DEF Cancels
<1> QED BY <1>1, <1>2, TameTwice, NothingTyped, CaptureEnds DEF DepartureOK, TripKeeps, TripInformed

LEMMA DepartureCalledKeeps ==
  ASSUME ProtocolInv, TornMoves, DepartureFrame, plan' = plan,
         NEW t \in Coordinates, DepartureCalled(t)
  PROVE  StepOK
<1> USE DEF ProtocolInv
<1> DEFINE a == BeginPreparation(w.adm, DepartPrep)
<1>1. w \in States /\ w.adm \in Authorities /\ host \in Views BY DEF Typed, States
<1>2. w' = WithAdmission(w, a) /\ job' = job /\ trip = NoTrip BY DEF DepartureCalled
<1>3. a \in Authorities /\ a.kind = w.adm.kind /\ a.attempt = w.adm.attempt
      /\ (a.preparing = w.adm.preparing \/ (MayPrepare(w) /\ a.preparing = DepartPrep))
  <2>1. DepartPrep \in Preps BY TokensDiffer
  <2>2. a \in Authorities /\ a.kind = w.adm.kind /\ a.attempt = w.adm.attempt
        /\ a.preparing \in {w.adm.preparing, DepartPrep}
    BY <1>1, <2>1, AuthorityTyped
  <2>3. ~ MayPrepare(w) => a.preparing = w.adm.preparing
    BY <1>1 DEF BeginPreparation, WithoutProposal, Authorities, MayPrepare
  <2> HIDE DEF a
  <2> QED BY <2>2, <2>3
<1> HIDE DEF a
<1>4. w' \in States /\ w'.adm = a /\ w'.slots = w.slots /\ w'.active = w.active
      /\ Pins(w.slots, w'.slots)
  BY <1>1, <1>2, <1>3 DEF WithAdmission, States, Pins
<1>5. CASE ~ MayPrepare(w)
  <2>1. trip' = trip /\ Stays BY <1>5 DEF DepartureCalled
  <2>2. Yields(w.adm, w'.adm) BY <1>3, <1>4, <1>5 DEF Yields
  <2>3. Tame(w, w') BY <1>4, <2>2 DEF Tame
  <2>4. JobOK' /\ job' \in Jobs BY <1>2, <2>1, <2>3, DepartureStands
  <2>5. trip' \in Trips /\ TripInformed' /\ TripKeeps
    BY <2>1 DEF Typed, TripInformed, Informed, TripKeeps
  <2> QED BY <2>1, <2>3, <2>4, <2>5, StaysTyped, DepartureStep DEF DepartureOK
<1>6. CASE MayPrepare(w)
  <2>1. trip' = [NoTrip EXCEPT !.phase = "queued", !.view = host, !.target = t]
        /\ Goes(Waits(queue, "trip"))
    BY <1>6 DEF DepartureCalled
  <2>2. WaitOK' BY <2>1, QueueTyped, GoesTyped DEF Handlers
  <2>3. trip' \in Trips /\ trip'.phase = "queued" /\ trip'.view = host /\ trip'.kind # "restore"
    BY <1>1, <2>1, NothingTyped DEF Trips
  <2>4. host' = host /\ event' = event /\ content' = content /\ edits' = edits /\ moves' = moves
        /\ call' = call /\ arr' = arr /\ ask' = ask
    BY DEF DepartureFrame, hostVars
  <2>5. Typed' BY <1>2, <1>4, <2>2, <2>3, <2>4 DEF Typed, WaitOK
  <2>6. Informed' BY <1>1, <2>3, <2>4 DEF Informed, Sound
  <2>7. JobOK'
    <3>1. job.kind # "departure" BY <1>2, NothingTyped DEF JobKnows
    <3> QED BY <1>2, <1>4, <2>3, <2>4, <3>1, JobStands
  <2>8. Owned'
    <3>1. w.adm.preparing # DepartPrep BY <1>2, NothingTyped DEF Owned
    <3> QED BY <1>3, <1>4, <2>3, <2>4, <3>1, TokensDiffer DEF Owned
  <2> QED BY <2>4, <1>4, <2>5, <2>6, <2>7, <2>8 DEF StepOK, Due, Spares
<1> QED BY <1>5, <1>6

LEMMA DepartureLooksKeeps ==
  ASSUME ProtocolInv, TornMoves, DepartureFrame, DepartureLooks
  PROVE  DepartureOK
<1> USE DEF ProtocolInv
<1> DEFINE b == Boundary(w, trip.view, DepartOp)
<1>1. w \in States /\ host \in Views /\ Tame(w, w) BY TameSelf DEF Typed
<1>2. queue # <<>> /\ trip.phase = "queued" BY DEF DepartureLooks, IsNext
<1>3. Others \in Seq(Handlers) BY <1>2, QueueTyped DEF Handlers
<1>4. trip.view = host =>
        /\ Tame(w, b.state) /\ b.state \in States /\ b.kind \in BoundaryKinds
        /\ b.kind = "capture" => At(host) \in Entries
  BY <1>1, BoundaryTame, TokensDiffer DEF Tame
<1> HIDE DEF b
<1>5. CASE Cancels(w, Others) BY <1>1, <1>3, <1>5, CancelsKeeps
<1>6. CASE Exact(trip.view) /\ Cancels(b.state, Others)
  BY <1>3, <1>4, <1>6, CancelsKeeps DEF Exact
<1>7. CASE /\ Exact(trip.view) /\ b.kind # "not-admitted"
           /\ w' = b.state
           /\ trip' = [trip EXCEPT !.phase = "looking", !.source = b.kind,
                         !.slot = IF b.kind = "capture" THEN w.slots[Here] ELSE @]
           /\ Begins("departure", IF b.kind = "capture" THEN "scan" ELSE "preview", trip.view)
           /\ Goes(Others)
  <2>1. trip.view = host /\ b.kind \in SourceKinds BY <1>4, <1>7 DEF Exact, BoundaryKinds
  <2> DEFINE x == IF b.kind = "capture" THEN "scan" ELSE "preview"
             y == IF b.kind = "capture" THEN w.slots[Here] ELSE trip.slot
  <2>2. y \in Slot BY <1>1, <1>4, <2>1 DEF Here, States, Typed, Trips
  <2>3. trip' = [trip EXCEPT !.phase = "looking", !.source = b.kind, !.slot = y] BY <1>7
  <2>4. x \in {"scan", "preview", "rescan"} OBVIOUS
  <2>5. Begins("departure", x, trip.view) BY <1>7
  <2> HIDE DEF x, y
  <2>6. trip' \in Trips /\ trip'.phase = "looking" /\ trip'.view = host
        /\ trip'.kind = trip.kind /\ trip'.res = trip.res
    BY <2>1, <2>2, <2>3 DEF Typed, Trips
  <2>7. TripInformed' BY <1>1, <2>6 DEF TripInformed, Informed
  <2>8. JobOK' /\ job' \in Jobs BY <2>1, <2>4, <2>5, <2>6, DepartureBegins
  <2>9. WaitOK' BY <1>3, <1>7, GoesTyped
  <2> QED BY <1>4, <1>7, <2>1, <2>6, <2>7, <2>8, <2>9 DEF DepartureOK, TripKeeps
<1> QED BY <1>5, <1>6, <1>7 DEF DepartureLooks, b

LEMMA DepartureScansKeeps ==
  ASSUME ProtocolInv, TornMoves, DepartureFrame, DepartureScans
  PROVE  DepartureOK
<1> USE DEF ProtocolInv
<1>1. w \in States /\ Tame(w, w) /\ queue \in Seq(Handlers) BY TameSelf DEF Typed
<1>2. CASE Cancels(w, queue) BY <1>1, <1>2, CancelsKeeps
<1>3. CASE /\ trip' = [trip EXCEPT !.seen = content]
           /\ StepsTo("preview") /\ w' = w /\ Stays
  <2>1. trip' \in Trips /\ trip'.phase = trip.phase /\ trip'.view = trip.view
        /\ trip'.kind = trip.kind /\ trip'.res = trip.res
    BY <1>3 DEF Typed, Trips
  <2>2. JobOK' /\ job' \in Jobs BY <1>3, <2>1, DepartureGoes DEF DepartureScans, Runs
  <2>3. TripInformed' BY <2>1 DEF TripInformed, Informed
  <2>4. TripKeeps BY <1>3, <2>1 DEF TripKeeps, Owned
  <2> QED BY <1>1, <1>3, <2>1, <2>2, <2>3, <2>4, StaysTyped DEF DepartureOK
<1> QED BY <1>2, <1>3 DEF DepartureScans

LEMMA ReadableTyped ==
  ASSUME NEW s \in States, NEW e \in Coordinates
  PROVE  /\ Readable(s, e) \in Resolutions
         /\ Readable(s, e) # Missing => Readable(s, e).tree \in Trees /\ e \in Entries
<1>1. s.slots \in [Entries -> Slot] BY DEF States
<1>2. Missing \in Resolutions BY DEF Missing, Resolutions
<1>3. CASE Readable(s, e) = Missing BY <1>2, <1>3
<1>4. CASE Readable(s, e) # Missing
  <2>1. e \in Entries /\ Readable(s, e) = Resolve(s.slots, e) BY <1>4 DEF Readable, Coordinates
  <2> QED BY <1>1, <1>4, <2>1, ResolvedHasTree, InheritedTyped
<1> QED BY <1>3, <1>4

LEMMA TargetKindTyped ==
  ASSUME NEW s, NEW d, NEW t, NEW k
  PROVE  /\ TargetKind(s, d, t, k, FALSE) \in TargetKinds
         /\ TargetKind(s, d, t, k, FALSE) \notin {"restore", "detach"}
BY DEF TargetKind, TargetKinds

LEMMA DeparturePreviewsKeeps ==
  ASSUME ProtocolInv, TornMoves, DepartureFrame, DeparturePreviews
  PROVE  DepartureOK
<1> USE DEF ProtocolInv
<1> DEFINE kind == TargetKind(w, Source, trip.target, trip.source, FALSE)
           res  == Readable(w, trip.target)
           plain == kind \in {"no-node", "same-location", "inherit-source"} \/ res = Missing
           ph == IF content = res.tree THEN "answered" ELSE "asked"
<1>1. w \in States /\ Tame(w, w) /\ queue \in Seq(Handlers) BY TameSelf DEF Typed
<1>2. kind \in TargetKinds /\ kind # "restore" BY TargetKindTyped
<1>3. res \in Resolutions /\ (res # Missing => res.tree \in Trees)
  BY <1>1, ReadableTyped DEF Typed, Trips
<1>4. trip' = IF plain THEN [trip EXCEPT !.phase = "answered", !.kind = kind]
              ELSE [trip EXCEPT !.phase = ph, !.kind = "restore", !.res = res, !.shown = content]
  BY DEF DeparturePreviews
<1>5. Ends /\ w' = w /\ Goes(IF trip'.phase = "asked" THEN queue ELSE Waits(queue, "trip"))
  BY DEF DeparturePreviews
<1>6. ph \in {"answered", "asked"} OBVIOUS
<1>7. plain \in BOOLEAN /\ (~ plain => res # Missing) OBVIOUS
<1> HIDE DEF kind, res, plain, ph
<1>8. trip.phase # "none" BY DEF DeparturePreviews, Runs, JobKnows
<1>9. trip' \in Trips /\ trip'.view = trip.view /\ trip'.phase \in {"answered", "asked"}
      /\ (trip'.kind = "restore" => trip'.res.tree \in Trees)
  <2>1. CASE plain BY <1>2, <1>4, <2>1 DEF Typed, Trips
  <2>2. CASE ~ plain BY <1>3, <1>4, <1>6, <1>7, <2>2 DEF Typed, Trips, TargetKinds
  <2> QED BY <2>1, <2>2
<1>10. TripInformed' BY <1>8, <1>9, NoTreeAssumption DEF TripInformed, Informed
<1>11. WaitOK' BY <1>1, <1>5, QueueTyped, GoesTyped DEF Handlers
<1>12. TripKeeps BY <1>9 DEF TripKeeps
<1> QED BY <1>1, <1>5, <1>9, <1>10, <1>11, <1>12, CaptureEnds DEF DepartureOK

LEMMA DepartureAnsweredKeeps ==
  ASSUME ProtocolInv, TornMoves, DepartureFrame, DepartureAnswered
  PROVE  DepartureOK
<1> USE DEF ProtocolInv
<1>1. w \in States /\ Tame(w, w) BY TameSelf DEF Typed
<1>2. trip.phase = "asked" /\ trip.view \in Views /\ job' = job
  BY DEF DepartureAnswered, Informed
<1>3. job.kind # "departure" BY <1>2 DEF JobKnows
<1>4. CASE /\ trip' \in {[trip EXCEPT !.phase = "answered"],
                         [trip EXCEPT !.phase = "answered", !.kind = "detach"]}
           /\ w' = w /\ Goes(Waits(queue, "trip"))
  <2>1. trip' \in Trips /\ trip'.phase = "answered" /\ trip'.view = trip.view
        /\ trip'.res = trip.res /\ trip'.kind \in {trip.kind, "detach"}
    BY <1>4 DEF Typed, Trips, TargetKinds
  <2>2. TripInformed' BY <1>2, <2>1 DEF TripInformed, Informed
  <2>3. WaitOK' BY <1>4, QueueTyped, GoesTyped DEF Handlers
  <2>4. JobOK' /\ job' \in Jobs BY <1>1, <1>2, <1>3, <1>4, <2>1, DepartureStands
  <2> QED BY <1>1, <1>4, <2>1, <2>2, <2>3, <2>4 DEF DepartureOK, TripKeeps
<1>5. CASE /\ w' = WithAdmission(w, FinishPreparation(w.adm, DepartPrep))
           /\ trip' = NoTrip /\ Stays
  <2>1. Tame(w, w') /\ w'.adm.preparing # DepartPrep
    BY <1>1, <1>5, FinishTame, TokensDiffer
  <2>2. JobOK' /\ job' \in Jobs BY <1>2, <1>3, <1>5, <2>1, NothingTyped, DepartureStands
  <2> QED BY <1>5, <2>1, <2>2, NothingTyped, StaysTyped DEF DepartureOK, TripKeeps, TripInformed
<1> QED BY <1>4, <1>5 DEF DepartureAnswered

LEMMA DepartureRechecksKeeps ==
  ASSUME ProtocolInv, TornMoves, DepartureFrame, DepartureRechecks
  PROVE  DepartureOK
<1> USE DEF ProtocolInv
<1> DEFINE b == Boundary(w, trip.view, DepartOp)
<1>1. w \in States /\ host \in Views /\ Tame(w, w) BY TameSelf DEF Typed
<1>2. queue # <<>> /\ trip.phase = "answered" BY DEF DepartureRechecks, IsNext
<1>3. Others \in Seq(Handlers) BY <1>2, QueueTyped DEF Handlers
<1>4. trip.view = host => Tame(w, b.state) /\ b.state \in States
  BY <1>1, BoundaryTame, TokensDiffer DEF Tame
<1> HIDE DEF b
<1>5. CASE Cancels(w, Others) BY <1>1, <1>3, <1>5, CancelsKeeps
<1>6. CASE Exact(trip.view) /\ Cancels(b.state, Others)
  BY <1>3, <1>4, <1>6, CancelsKeeps DEF Exact
<1>7. CASE /\ Exact(trip.view) /\ w' = b.state
           /\ trip' = [trip EXCEPT !.phase = "leaving"]
           /\ Begins("departure", "rescan", trip.view) /\ Goes(Others)
  <2>1. trip.view = host BY <1>7 DEF Exact
  <2>2. trip' \in Trips /\ trip'.phase = "leaving" /\ trip'.view = host
        /\ trip'.kind = trip.kind /\ trip'.res = trip.res
    BY <1>7, <2>1 DEF Typed, Trips
  <2>3. TripInformed' BY <1>1, <2>2 DEF TripInformed, Informed
  <2>4. JobOK' /\ job' \in Jobs BY <1>7, <2>1, <2>2, DepartureBegins
  <2>5. WaitOK' BY <1>3, <1>7, GoesTyped
  <2> QED BY <1>4, <1>7, <2>1, <2>2, <2>3, <2>4, <2>5 DEF DepartureOK, TripKeeps
<1> QED BY <1>5, <1>6, <1>7 DEF DepartureRechecks, b

(* The departure goes on with its next step.                               *)
LEMMA DepartureProceeds ==
  ASSUME ProtocolInv, DepartureFrame, job.kind = "departure", Tame(w, w'), trip' = trip,
         NEW x \in {"preview", "publish", "commit", "settle"}, StepsTo(x), Stays
  PROVE  DepartureOK
<1> USE DEF ProtocolInv
<1>1. JobOK' /\ job' \in Jobs BY TameSpares, DepartureGoes
<1>2. trip' \in Trips /\ TripInformed' /\ TripKeeps
  BY DEF Typed, TripInformed, Informed, TripKeeps
<1> QED BY <1>1, <1>2, StaysTyped DEF DepartureOK

LEMMA DepartureRescansKeeps ==
  ASSUME ProtocolInv, TornMoves, DepartureFrame, DepartureRescans
  PROVE  DepartureOK
<1> USE DEF ProtocolInv
<1>1. w \in States /\ Tame(w, w) /\ queue \in Seq(Handlers) BY TameSelf DEF Typed
<1>2. CASE Cancels(w, queue) BY <1>1, <1>2, CancelsKeeps
<1>3. CASE /\ StepsTo(IF trip.source = "capture" THEN "publish" ELSE "settle")
           /\ w' = w /\ trip' = trip /\ Stays
  <2>1. job.kind = "departure" BY DEF DepartureRescans, Runs
  <2>2. CASE trip.source = "capture"
    <3>1. StepsTo("publish") BY <1>3, <2>2
    <3> QED BY <1>1, <1>3, <2>1, <3>1, DepartureProceeds
  <2>3. CASE trip.source # "capture"
    <3>1. StepsTo("settle") BY <1>3, <2>3
    <3> QED BY <1>1, <1>3, <2>1, <3>1, DepartureProceeds
  <2> QED BY <2>2, <2>3
<1> QED BY <1>2, <1>3 DEF DepartureRescans

LEMMA DeparturePublishesKeeps ==
  ASSUME ProtocolInv, TornMoves, DepartureFrame, DeparturePublishes
  PROVE  DepartureOK
<1> USE DEF ProtocolInv
<1>1. w \in States /\ Tame(w, w) /\ queue \in Seq(Handlers) BY TameSelf DEF Typed
<1>2. CASE Cancels(w, queue) BY <1>1, <1>2, CancelsKeeps
<1>3. CASE StepsTo("commit") /\ w' = w /\ trip' = trip /\ Stays
  BY <1>1, <1>3, DepartureProceeds DEF DeparturePublishes, Runs
<1> QED BY <1>2, <1>3 DEF DeparturePublishes

LEMMA DepartureCommitsKeeps ==
  ASSUME ProtocolInv, TornMoves, DepartureFrame, DepartureCommits
  PROVE  DepartureOK
<1> USE DEF ProtocolInv
<1> DEFINE after == AfterCapture(w, Source, trip.slot, trip.seen)
           p == ProtectNode(after, host)
<1>1. w \in States /\ host \in Views /\ Tame(w, w) /\ queue \in Seq(Handlers)
  BY TameSelf DEF Typed
<1>2. trip.seen \in Trees \cup {NoTree} BY DEF Typed, Trips
<1>3. Tame(w, after) /\ after \in States BY <1>1, <1>2, AfterCaptureTame
<1>4. Cancels(w, queue) \/ Cancels(p, queue)
      \/ (w' = after /\ StepsTo("settle") /\ trip' = trip /\ Stays)
  BY DEF DepartureCommits
<1> HIDE DEF after
<1>5. Tame(w, p) /\ p \in States BY <1>1, <1>3, CompositesTame, TameTwice
<1> HIDE DEF p
<1>6. CASE Cancels(w, queue) BY <1>1, <1>6, CancelsKeeps
<1>7. CASE Cancels(p, queue) BY <1>1, <1>5, <1>7, CancelsKeeps
<1>8. CASE w' = after /\ StepsTo("settle") /\ trip' = trip /\ Stays
  BY <1>3, <1>8, DepartureProceeds DEF DepartureCommits, Runs
<1> QED BY <1>4, <1>6, <1>7, <1>8

LEMMA DepartureSettlesKeeps ==
  ASSUME ProtocolInv, TornMoves, DepartureFrame, DepartureSettles
  PROVE  DepartureOK
<1> USE DEF ProtocolInv
<1>1. w \in States /\ Tame(w, w) /\ queue \in Seq(Handlers) BY TameSelf DEF Typed
<1>2. CASE Cancels(w, queue) BY <1>1, <1>2, CancelsKeeps
<1>3. CASE trip' = [trip EXCEPT !.phase = "ready"] /\ Ends /\ w' = w /\ Stays
  <2>1. trip.phase # "none" BY DEF DepartureSettles, Runs, JobKnows
  <2>2. trip' \in Trips /\ trip'.phase = "ready" /\ trip'.view = trip.view
        /\ trip'.kind = trip.kind /\ trip'.res = trip.res
    BY <1>3 DEF Typed, Trips
  <2>3. TripInformed' BY <2>1, <2>2 DEF TripInformed, Informed
  <2> QED BY <1>1, <1>3, <2>2, <2>3, CaptureEnds, StaysTyped DEF DepartureOK, TripKeeps
<1> QED BY <1>2, <1>3 DEF DepartureSettles

LEMMA DepartureFailsKeeps ==
  ASSUME ProtocolInv, TornMoves, DepartureFrame, DepartureFails
  PROVE  DepartureOK
<1> USE DEF ProtocolInv
<1>1. w \in States /\ Tame(w, w) /\ queue \in Seq(Handlers) BY TameSelf DEF Typed
<1>2. CASE Cancels(w, queue) BY <1>1, <1>2, CancelsKeeps
<1>3. CASE Withdraws(w, "trip", queue) /\ trip' = NoTrip /\ Ends
  <2>1. Tame(w, w') /\ Steady(w'.adm) /\ WaitOK' BY <1>1, <1>3, WithdrawsKeeps DEF Handlers
  <2>2. w'.adm.preparing # DepartPrep BY <2>1, TokensDiffer DEF Steady
  <2> QED BY <1>3, <2>1, <2>2, NothingTyped, CaptureEnds DEF DepartureOK, TripKeeps, TripInformed
<1> QED BY <1>2, <1>3 DEF DepartureFails

LEMMA DepartureProposedKeeps ==
  ASSUME ProtocolInv, TornMoves, DepartureFrame, DepartureProposed
  PROVE  StepOK
<1> USE DEF ProtocolInv
<1> DEFINE a == Propose(w.adm, DepartPrep, ThisPlan)
<1>1. w \in States /\ w.adm \in Authorities /\ host \in Views BY DEF Typed, States
<1>2. trip.phase = "ready" /\ trip.view \in Views /\ job' = job /\ w' = WithAdmission(w, a) /\ Stays
  BY DEF DepartureProposed, Informed
<1>3. a \in Authorities /\ Yields(w.adm, a) /\ a.preparing # DepartPrep
  BY <1>1, TokensDiffer
     DEF Propose, FinishPreparation, WithoutProposal, Authorities, Yields
<1> HIDE DEF a
<1>4. Tame(w, w') /\ w'.adm = a BY <1>1, <1>2, <1>3, AdmissionTame
<1>5. PlanOf(trip) \in PlansMade /\ Sound(PlanOf(trip))
  <2> DEFINE res == IF trip.kind = "inherit-source"
                      THEN [at |-> At(trip.view), tree |-> trip.seen] ELSE trip.res
             preview == CASE trip.kind = "restore" -> trip.shown
                          [] trip.kind = "inherit-source" -> trip.seen
                          [] OTHER -> NoTree
  <2>1. PlanOf(trip) = [old |-> trip.view.leaf, destination |-> trip.target, kind |-> trip.kind,
                        res |-> res, preview |-> preview]
    BY DEF PlanOf
  <2>2. trip \in Trips BY DEF Typed
  <2>3. res \in Resolutions BY <1>2, <2>2, AtTyped DEF Trips, Resolutions
  <2>4. preview \in Trees \cup {NoTree} BY <2>2 DEF Trips
  <2>5. trip.view.leaf \in Leaves BY <1>2 DEF Views, Leaves
  <2>6. trip.kind = "restore" => res.tree # NoTree BY DEF Informed
  <2>7. trip.kind = "inherit-source" => res.tree = preview OBVIOUS
  <2> HIDE DEF res, preview
  <2> QED BY <2>1, <2>2, <2>3, <2>4, <2>5, <2>6, <2>7 DEF PlansMade, Trips, Sound
<1>6. \/ trip' = [trip EXCEPT !.phase = "accepted"] /\ plan' = PlanOf(trip)
      \/ trip' = NoTrip /\ plan' = plan
  BY DEF DepartureProposed
<1>7. trip' \in Trips /\ trip'.phase \in {"accepted", "none"} /\ TripInformed'
      /\ plan' \in PlansMade /\ Sound(plan')
  <2>1. CASE trip' = [trip EXCEPT !.phase = "accepted"] /\ plan' = PlanOf(trip)
    BY <1>2, <1>5, <2>1 DEF Typed, Trips, TripInformed, Informed
  <2>2. CASE trip' = NoTrip /\ plan' = plan
    BY <2>2, NothingTyped DEF Typed, TripInformed, Informed
  <2> QED BY <1>6, <2>1, <2>2
<1>8. host' = host /\ event' = event /\ content' = content /\ edits' = edits /\ moves' = moves
      /\ call' = call /\ arr' = arr /\ ask' = ask
  BY DEF DepartureFrame, hostVars
<1>9. WaitOK' BY <1>2, StaysTyped
<1>10. Typed' BY <1>2, <1>4, <1>7, <1>8, <1>9, TameSpares DEF Typed, WaitOK
<1>11. Informed' BY <1>7, <1>8 DEF Informed, TripInformed, Sound
<1>12. Owned' BY <1>3, <1>4, <1>8, OwnedKept
<1>13. JobOK'
  <2>1. job.kind # "departure" BY <1>2 DEF JobKnows
  <2> QED BY <1>2, <1>4, <1>8, <2>1, TameSpares, JobStands
<1> QED BY <1>4, <1>8, <1>10, <1>11, <1>12, <1>13, TameSpares DEF StepOK, Due

LEMMA DepartureKeeps ==
  ASSUME ProtocolInv, TornMoves, DepartureNext
  PROVE  StepOK
<1>1. DepartureFrame BY DEF DepartureNext, DepartureFrame
<1>2. CASE DepartureProposed BY <1>1, <1>2, DepartureProposedKeeps
<1>3. ASSUME NEW t \in Coordinates, DepartureCalled(t), plan' = plan PROVE StepOK
  BY <1>1, <1>3, DepartureCalledKeeps
<1>4. CASE /\ \/ DepartureLooks \/ DepartureScans \/ DeparturePreviews
              \/ DepartureAnswered \/ DepartureRechecks \/ DepartureRescans
              \/ DeparturePublishes \/ DepartureCommits \/ DepartureSettles
              \/ DepartureFails
           /\ plan' = plan
  <2>1. DepartureOK
    BY <1>1, <1>4, DepartureLooksKeeps, DepartureScansKeeps, DeparturePreviewsKeeps,
       DepartureAnsweredKeeps, DepartureRechecksKeeps, DepartureRescansKeeps,
       DeparturePublishesKeeps, DepartureCommitsKeeps, DepartureSettlesKeeps, DepartureFailsKeeps
  <2> QED BY <1>1, <1>4, <2>1, DepartureStep
<1> QED BY <1>2, <1>3, <1>4 DEF DepartureNext
-----------------------------------------------------------------------------
(* Arrivals.                                                               *)

(* A release where the job found the files complete.                       *)
LEMMA FreedSpares ==
  ASSUME ProtocolInv, NEW res, Frees(w, w', host, res), host = job.view, Whole(res.tree),
         job.step # "write"
  PROVE  w' \in States /\ Yields(w.adm, w'.adm) /\ Spares
<1>1. ~ Lost BY DEF Lost, Frees
<1> QED BY <1>1 DEF Whole, Frees, TameBut, Spares

ArrivalFrame == UNCHANGED <<host, content, edits, moves, call, trip, ask>>

ArrivalOK ==
    /\ w' \in States /\ Yields(w.adm, w'.adm) /\ Spares /\ WaitOK'
    /\ arr' \in Arrivals /\ Sound(arr'.plan)
    /\ arr'.attempt = arr.attempt \/ w'.adm.kind # "arrival"
    /\ arr'.phase # "none" => arr.phase # "none" /\ arr'.attempt = arr.attempt
    /\ job' \in Jobs /\ JobOK'

LEMMA ArrivalStep ==
  ASSUME ProtocolInv, ArrivalFrame, event' = event, plan' = plan, ArrivalOK
  PROVE  StepOK
<1> USE DEF ProtocolInv, ArrivalOK
<1>1. host' = host /\ content' = content /\ edits' = edits /\ moves' = moves
      /\ call' = call /\ trip' = trip /\ ask' = ask
  BY DEF ArrivalFrame
<1>2. Typed' BY <1>1 DEF Typed, WaitOK
<1>3. Informed' BY <1>1 DEF Informed, Sound
<1>4. Owned' BY <1>1, OwnedKept
<1> QED BY <1>2, <1>3, <1>4 DEF StepOK, Due

(* The arrival is over, and the authority out of transition.               *)
LEMMA ArrivalOver ==
  ASSUME ProtocolInv, ArrivalEnds, w' \in States, Yields(w.adm, w'.adm), Spares, WaitOK',
         Steady(w'.adm)
  PROVE  ArrivalOK
BY NothingTyped, CaptureEnds DEF ArrivalOK, ArrivalEnds, Steady

LEMMA ArrivalRecoversKeeps ==
  ASSUME ProtocolInv, NEW q \in Seq(Handlers), ArrivalRecovers(q)
  PROVE  ArrivalOK
<1> USE DEF ProtocolInv
<1>1. w \in States BY DEF Typed
<1>2. Tame(w, w') /\ Steady(w'.adm) /\ WaitOK'
  BY <1>1, OwesRecoveryKeeps DEF ArrivalRecovers, Handlers
<1> QED BY <1>2, TameSpares, ArrivalOver DEF ArrivalRecovers

LEMMA ArrivalSettlesKeeps ==
  ASSUME ProtocolInv, NEW q \in Seq(Handlers), NEW o, ArrivalSettlesBy(o, q),
         o.ok => Steady(o.state.adm),
         Tame(w, o.state)
  PROVE  ArrivalOK
<1> USE DEF ProtocolInv
<1>1. CASE o.ok /\ w' = o.state /\ Goes(q)
  BY <1>1, GoesTyped, TameSpares, ArrivalOver DEF ArrivalSettlesBy
<1>2. CASE OwesRecovery(o.state, "arr", q)
  <2>1. o.state \in States BY DEF Tame
  <2>2. Tame(o.state, w') /\ Steady(w'.adm) /\ WaitOK'
    BY <1>2, <2>1, OwesRecoveryKeeps DEF Handlers
  <2> QED BY <2>2, TameTwice, TameSpares, ArrivalOver DEF ArrivalSettlesBy
<1> QED BY <1>1, <1>2 DEF ArrivalSettlesBy, SettlesOr

LEMMA ProtectsOrRecoversKeeps ==
  ASSUME Typed, NEW s \in States, Tame(w, s), arr.attempt \in Attempts, ProtectsArrivalOrRecovers(s)
  PROVE  Tame(w, w') /\ Steady(w'.adm) /\ WaitOK'
<1> DEFINE o == ProtectTreeArrival(s, arr.attempt, host)
<1>1. host \in Views /\ queue \in Seq(Handlers) /\ Handler \in Handlers
  BY DEF Typed, Handler, Handlers
<1>2. Tame(s, o.state) /\ (o.ok => Steady(o.state.adm)) BY <1>1, ProtectArrivalTame
<1>3. (o.ok /\ w' = o.state /\ Stays) \/ Recovers(s) BY DEF ProtectsArrivalOrRecovers
<1> HIDE DEF o
<1>4. CASE o.ok /\ w' = o.state /\ Stays BY <1>2, <1>4, TameTwice, StaysTyped
<1>5. CASE Recovers(s)
  <2>1. Tame(s, w') /\ Steady(w'.adm) /\ WaitOK' BY <1>1, <1>5, RecoversKeeps DEF Recovers
  <2> QED BY <2>1, TameTwice
<1> QED BY <1>3, <1>4, <1>5

LEMMA CarryTame ==
  ASSUME NEW s \in States, NEW a \in Authorities, Yields(a, a), NEW v \in Views, NEW h \in Attempts
  PROVE  /\ WithAdmission(s, CarryArrival(a, h, v)) \in States
         /\ WithAdmission(s, CarryArrival(a, h, v)).slots = s.slots
         /\ WithAdmission(s, CarryArrival(a, h, v)).active = s.active
         /\ CanCarryArrival(a, h, v) => Steady(WithAdmission(s, CarryArrival(a, h, v)).adm)
<1>1. CarryArrival(a, h, v) \in Authorities
      /\ (ArrivalIsCurrent(a, h) => Steady(CarryArrival(a, h, v)))
  BY AuthorityYields
<1>2. CanCarryArrival(a, h, v) => ArrivalIsCurrent(a, h)
  BY DEF CanCarryArrival, ArrivalCanProceed
<1> QED BY <1>1, <1>2 DEF WithAdmission, States

LEMMA TreeEventKeeps ==
  ASSUME ProtocolInv, TornMoves, ArrivalFrame, TreeEvent
  PROVE  StepOK
<1> USE DEF ProtocolInv
<1> DEFINE a == BeginTreeArrival(w.adm, ThisAttempt)
           begun == WithAdmission(w, a)
           carried == WithAdmission(w, CarryArrival(a, ThisAttempt, host))
<1>1. w \in States /\ w.adm \in Authorities /\ host \in Views /\ ThisAttempt \in Attempts
  BY TokensDiffer DEF Typed, States
<1>2. a \in Authorities /\ a.kind = "arrival" /\ a.attempt = ThisAttempt /\ a.preparing = NoPrep
  BY <1>1, AuthorityTyped
<1>3. /\ event.due /\ event' = NoEvent /\ plan' = NothingPlanned /\ job' = job
      /\ \/ w' = w /\ arr' = arr /\ Stays
         \/ OwesRecovery(begun, "arr", queue) /\ arr' = arr
         \/ /\ SettlesOr(Outcome(CanCarryArrival(a, ThisAttempt, host), carried),
                         queue, OwesRecovery(carried, "arr", queue))
            /\ arr' = arr
         \/ /\ w' = begun
            /\ arr' = [phase |-> "queued", attempt |-> ThisAttempt, view |-> host, plan |-> plan]
            /\ Goes(Waits(queue, "arr"))
  BY DEF TreeEvent
<1>4. host' = host /\ content' = content /\ edits' = edits /\ moves' = moves
      /\ call' = call /\ trip' = trip /\ ask' = ask
  BY DEF ArrivalFrame
<1> HIDE DEF a
<1>5. begun \in States /\ begun.adm = a /\ begun.slots = w.slots /\ begun.active = w.active
  BY <1>1, <1>2 DEF WithAdmission, States
<1>6. carried \in States /\ carried.slots = w.slots /\ carried.active = w.active
      /\ (CanCarryArrival(a, ThisAttempt, host) => Steady(carried.adm))
  BY <1>1, <1>2, CarryTame DEF Yields
<1> HIDE DEF begun, carried
<1>7. job.kind # "arrival" BY <1>3 DEF Due, JobKnows
<1>8. Informed' /\ Due' /\ plan' \in PlansMade /\ event' \in Events /\ arr' \in Arrivals
  <2>1. Sound(plan) /\ plan \in PlansMade /\ arr \in Arrivals BY DEF Informed, Typed
  <2>2. Sound(arr'.plan) /\ (arr'.phase # "none" => arr'.attempt \in Attempts) /\ arr' \in Arrivals
    <3>1. CASE arr' = arr BY <2>1, <3>1 DEF Informed
    <3>2. CASE arr' = [phase |-> "queued", attempt |-> ThisAttempt, view |-> host, plan |-> plan]
      BY <1>1, <2>1, <3>2 DEF Arrivals
    <3> QED BY <1>3, <3>1, <3>2
  <2>3. Informed' BY <1>3, <1>4, <2>2, NothingTyped DEF Informed
  <2>4. Due' BY <1>3 DEF Due, NoEvent
  <2> QED BY <1>3, <2>2, <2>3, <2>4, NothingTyped
<1>9. ASSUME w' \in States, w'.slots = w.slots \/ Pins(w.slots, w'.slots), w'.active => w.active,
             WaitOK', Owned'
      PROVE  StepOK
  <2>1. Pins(w.slots, w'.slots) BY <1>9 DEF Pins
  <2>2. Typed' BY <1>3, <1>4, <1>8, <1>9 DEF Typed, WaitOK
  <2>3. JobOK' BY <1>3, <1>4, <1>7, <1>9, <2>1, JobStands
  <2> QED BY <1>8, <1>9, <2>1, <2>2, <2>3 DEF StepOK, Spares
<1>10. ASSUME Steady(w'.adm), arr' = arr PROVE Owned'
  BY <1>10, TokensDiffer DEF Owned, Steady
<1>11. CASE w' = w /\ arr' = arr /\ Stays
  <2>1. Owned' BY <1>4, <1>11 DEF Owned
  <2> QED BY <1>1, <1>9, <1>11, <2>1, StaysTyped
<1>12. CASE OwesRecovery(begun, "arr", queue) /\ arr' = arr
  <2>1. Tame(begun, w') /\ Steady(w'.adm) /\ WaitOK'
    BY <1>5, <1>12, OwesRecoveryKeeps DEF Typed, Handlers
  <2>2. w' \in States /\ Pins(w.slots, w'.slots) /\ (w'.active => w.active)
    BY <1>5, <2>1 DEF Tame
  <2> QED BY <1>9, <1>10, <1>12, <2>1, <2>2
<1>13. CASE /\ SettlesOr(Outcome(CanCarryArrival(a, ThisAttempt, host), carried),
                         queue, OwesRecovery(carried, "arr", queue))
            /\ arr' = arr
  <2>1. CASE CanCarryArrival(a, ThisAttempt, host) /\ w' = carried /\ Goes(queue)
    <3>1. WaitOK' BY <2>1, GoesTyped DEF Typed
    <3> QED BY <1>6, <1>9, <1>10, <1>13, <2>1, <3>1
  <2>2. CASE OwesRecovery(carried, "arr", queue)
    <3>1. Tame(carried, w') /\ Steady(w'.adm) /\ WaitOK'
      BY <1>6, <2>2, OwesRecoveryKeeps DEF Typed, Handlers
    <3>2. w' \in States /\ Pins(w.slots, w'.slots) /\ (w'.active => w.active)
      BY <1>6, <3>1 DEF Tame
    <3> QED BY <1>9, <1>10, <1>13, <3>1, <3>2
  <2> QED BY <1>13, <2>1, <2>2 DEF SettlesOr, Outcome
<1>14. CASE /\ w' = begun
            /\ arr' = [phase |-> "queued", attempt |-> ThisAttempt, view |-> host, plan |-> plan]
            /\ Goes(Waits(queue, "arr"))
  <2>1. WaitOK' BY <1>14, QueueTyped, GoesTyped DEF Handlers
  <2>2. Owned' BY <1>2, <1>5, <1>14, TokensDiffer DEF Owned
  <2> QED BY <1>5, <1>9, <1>14, <2>1, <2>2
<1> QED BY <1>3, <1>11, <1>12, <1>13, <1>14

LEMMA ArrivalBeginsJob ==
  ASSUME ProtocolInv, ArrivalFrame, arr.view = host, arr.phase # "none",
         NEW x, x = "scan" \/ (x = "settle" /\ arr.plan.kind = "detach"),
         Begins("arrival", x, arr.view), arr' = [arr EXCEPT !.phase = "running"],
         w' = w, WaitOK'
  PROVE  ArrivalOK
<1> USE DEF ProtocolInv
<1>1. host' = host /\ host \in Views /\ w \in States BY DEF ArrivalFrame, Typed
<1>2. job' \in Jobs /\ job'.step = x /\ job'.view = host /\ job'.kind = "arrival"
  BY <1>1, NothingTyped DEF Begins, Jobs, NoJob
<1>3. arr' \in Arrivals /\ arr'.phase = "running" /\ arr'.view = host /\ arr'.plan = arr.plan
      /\ arr'.attempt = arr.attempt
  BY DEF Typed, Arrivals
<1>4. JobKnows' BY <1>2, <1>3 DEF JobKnows, Destructive
<1>5. JobPins' BY <1>2 DEF JobPins, AtRisk
<1>6. JobHere' BY <1>1, <1>2 DEF JobHere
<1>7. JobFound' BY <1>2, <1>3 DEF JobFound, FoundRestored, FoundInherited
<1>8. JobOK' BY <1>4, <1>5, <1>6, <1>7 DEF JobOK
<1> QED BY <1>1, <1>2, <1>3, <1>8, TameSelf, TameSpares DEF ArrivalOK, Informed

LEMMA ArrivalBeginsKeeps ==
  ASSUME ProtocolInv, TornMoves, ArrivalFrame, ArrivalBegins
  PROVE  ArrivalOK
<1> USE DEF ProtocolInv
<1>1. w \in States /\ host \in Views /\ Tame(w, w) BY TameSelf DEF Typed
<1>2. queue # <<>> /\ arr.phase # "none" /\ arr.attempt \in Attempts
  BY DEF ArrivalBegins, IsNext, Informed
<1>3. Others \in Seq(Handlers) BY <1>2, QueueTyped DEF Handlers
<1>4. CASE ArrivalRecovers(Others) BY <1>3, <1>4, ArrivalRecoversKeeps
<1>5. CASE ArrivalSettlesBy(ProtectTreeArrival(w, arr.attempt, host), Others)
  <2> DEFINE o == ProtectTreeArrival(w, arr.attempt, host)
  <2>1. Tame(w, o.state) /\ (o.ok => Steady(o.state.adm)) BY <1>1, <1>2, ProtectArrivalTame
  <2>2. ArrivalSettlesBy(o, Others) BY <1>5
  <2> HIDE DEF o
  <2> QED BY <1>3, <2>1, <2>2, ArrivalSettlesKeeps
<1>6. CASE ArrivalSettlesBy(AdmitCurrentTreeArrival(w, arr.attempt, host), Others)
  <2> DEFINE o == AdmitCurrentTreeArrival(w, arr.attempt, host)
  <2>1. Tame(w, o.state) /\ (o.ok => Steady(o.state.adm)) BY <1>1, <1>2, AdmitCurrentArrivalTame
  <2>2. ArrivalSettlesBy(o, Others) BY <1>6
  <2> HIDE DEF o
  <2> QED BY <1>3, <2>1, <2>2, ArrivalSettlesKeeps
<1>7. ASSUME NEW x, x = "scan" \/ (x = "settle" /\ arr.plan.kind = "detach"), Exact(arr.view),
             Begins("arrival", x, arr.view), arr' = [arr EXCEPT !.phase = "running"],
             w' = w, Goes(Others)
      PROVE  ArrivalOK
  BY <1>2, <1>3, <1>7, GoesTyped, ArrivalBeginsJob DEF Exact
<1> DEFINE starts(x) == /\ Begins("arrival", x, arr.view)
                        /\ arr' = [arr EXCEPT !.phase = "running"]
                        /\ w' = w /\ Goes(Others)
<1>8. \/ ArrivalRecovers(Others)
      \/ ArrivalSettlesBy(ProtectTreeArrival(w, arr.attempt, host), Others)
      \/ ArrivalSettlesBy(AdmitCurrentTreeArrival(w, arr.attempt, host), Others)
      \/ Exact(arr.view) /\ starts("scan")
      \/ Exact(arr.view) /\ arr.plan.kind = "detach" /\ starts("settle")
  BY DEF ArrivalBegins
<1> QED BY <1>4, <1>5, <1>6, <1>7, <1>8

LEMMA ArrivalScansKeeps ==
  ASSUME ProtocolInv, TornMoves, ArrivalFrame, ArrivalScans
  PROVE  ArrivalOK
<1> USE DEF ProtocolInv
<1>1. w \in States /\ queue \in Seq(Handlers) BY DEF Typed
<1>2. job.kind = "arrival" /\ job.step = "scan" /\ arr.phase # "none"
  BY DEF ArrivalScans, Runs, JobKnows
<1>3. CASE ArrivalRecovers(queue) BY <1>1, <1>3, ArrivalRecoversKeeps
<1>4. CASE /\ Materializes \/ content = arr.plan.preview
           /\ job' = [job EXCEPT !.step = "settle", !.seen = content]
           /\ w' = w /\ arr' = arr /\ Stays
  <2>1. host' = host /\ content' = content /\ trip' = trip /\ content \in Trees
    BY DEF ArrivalFrame, Typed
  <2>2. job' \in Jobs /\ job'.step = "settle" /\ job'.kind = "arrival" /\ job'.view = job.view
        /\ job'.seen = content
    BY <1>2, <1>4, <2>1 DEF Typed, Jobs
  <2>3. arr.plan.kind \in {"restore", "inherit-source"} => content = arr.plan.preview
    BY <1>4 DEF Materializes
  <2>4. JobKnows' BY <1>2, <1>4, <2>2, <2>3 DEF JobKnows, Destructive
  <2>5. JobPins' BY <2>2 DEF JobPins, AtRisk
  <2>6. JobHere' /\ (host = job.view \/ Lost')
    BY <1>2, <1>4, <2>1, <2>2 DEF JobHere, Lost
  <2>7. JobFound'
    <3>1. ~ FoundRestored' BY <2>2 DEF FoundRestored
    <3>2. host = job.view => [at |-> At(job'.view), tree |-> job'.seen] \notin torn'
      BY <2>1, <2>2 DEF TornMoves
    <3> QED BY <2>6, <3>1, <3>2 DEF JobFound, Whole
  <2>8. JobOK' BY <2>4, <2>5, <2>6, <2>7 DEF JobOK
  <2> QED BY <1>1, <1>2, <1>4, <2>2, <2>8, TameSelf, TameSpares, StaysTyped
          DEF ArrivalOK, Informed, Typed
<1> QED BY <1>3, <1>4 DEF ArrivalScans

LEMMA ArrivalDetachesKeeps ==
  ASSUME ProtocolInv, TornMoves, ArrivalFrame, ArrivalDetaches
  PROVE  ArrivalOK
<1> USE DEF ProtocolInv
<1> DEFINE o == ProtectTreeArrival(w, arr.attempt, host)
<1>1. w \in States /\ host \in Views /\ queue \in Seq(Handlers) /\ arr.attempt \in Attempts
  BY DEF Typed, ArrivalDetaches, Runs, JobKnows, Informed
<1>2. Tame(w, o.state) /\ (o.ok => Steady(o.state.adm)) BY <1>1, ProtectArrivalTame
<1>3. ArrivalRecovers(queue) \/ ArrivalSettlesBy(o, queue) BY DEF ArrivalDetaches
<1> HIDE DEF o
<1> QED BY <1>1, <1>2, <1>3, ArrivalRecoversKeeps, ArrivalSettlesKeeps

LEMMA ArrivalMaterializesKeeps ==
  ASSUME ProtocolInv, TornMoves, ArrivalFrame, ArrivalMaterializes
  PROVE  ArrivalOK
<1> USE DEF ProtocolInv
<1> DEFINE slot  == w.slots[MissingTarget]
           after == AfterCapture(w, MissingTarget, slot, job.seen)
           res   == [at |-> MissingTarget, tree |-> job.seen]
           p     == ProtectTreeArrival(after, arr.attempt, host)
           o     == AdmitTreeArrivalIfResolution(after, arr.attempt, host, res)
<1>1. w \in States /\ host \in Views /\ queue \in Seq(Handlers) /\ arr.attempt \in Attempts
  BY DEF Typed, ArrivalMaterializes, Runs, JobKnows, Informed
<1>2. job.seen \in Trees \cup {NoTree} BY DEF Typed, Jobs
<1>3. Tame(w, after) /\ after \in States
      /\ (CaptureVerdict(w, MissingTarget, slot) = "committed" /\ MissingTarget \in Entries =>
            ~ IsBlocked(after.slots[MissingTarget]))
  BY <1>1, <1>2, AfterCaptureTame
<1>4. \/ ArrivalRecovers(queue)
      \/ ArrivalSettlesBy(p, queue)
      \/ /\ CaptureVerdict(w, MissingTarget, slot) = "committed" /\ ArrivalEnds
         /\ SettlesOr(o, queue, RecoversInLock(o.state, "arr", queue))
  BY DEF ArrivalMaterializes
<1> HIDE DEF after
<1>5. Tame(after, p.state) /\ (p.ok => Steady(p.state.adm)) BY <1>1, <1>3, ProtectArrivalTame
<1>6. /\ o.ok => Steady(o.state.adm)
      /\ Tame(after, o.state) \/ (o.ok /\ Frees(after, o.state, host, res))
  BY <1>1, <1>3, AdmitArrivalTame
<1> HIDE DEF p, o
<1>7. CASE ArrivalRecovers(queue) BY <1>1, <1>7, ArrivalRecoversKeeps
<1>8. CASE ArrivalSettlesBy(p, queue)
  BY <1>1, <1>3, <1>5, <1>8, TameTwice, ArrivalSettlesKeeps
<1>9. CASE /\ CaptureVerdict(w, MissingTarget, slot) = "committed" /\ ArrivalEnds
           /\ SettlesOr(o, queue, RecoversInLock(o.state, "arr", queue))
  <2>1. Tame(after, o.state)
    <3>1. CASE Frees(after, o.state, host, res)
      <4>1. res.at = MissingTarget OBVIOUS
      <4> HIDE DEF res
      <4>2. res.at \in Entries => ~ IsBlocked(after.slots[res.at]) BY <1>3, <1>9, <4>1
      <4> QED BY <1>1, <1>3, <3>1, <4>2, ReleaseOfTheOpen DEF Frees
    <3> QED BY <1>6, <3>1
  <2>2. Tame(w, o.state) /\ o.state \in States BY <1>3, <2>1, TameTwice DEF Tame
  <2>3. CASE o.ok /\ w' = o.state /\ Goes(queue)
    BY <1>1, <1>6, <1>9, <2>2, <2>3, GoesTyped, TameSpares, ArrivalOver
  <2>4. CASE RecoversInLock(o.state, "arr", queue)
    <3>1. Tame(o.state, w') /\ Steady(w'.adm) /\ WaitOK'
      BY <1>1, <2>2, <2>4, RecoversKeeps DEF Handlers
    <3> QED BY <1>9, <2>2, <3>1, TameTwice, TameSpares, ArrivalOver
  <2> QED BY <1>9, <2>3, <2>4 DEF SettlesOr
<1> QED BY <1>4, <1>7, <1>8, <1>9

LEMMA ArrivalInheritsKeeps ==
  ASSUME ProtocolInv, TornMoves, ArrivalFrame, ArrivalInherits
  PROVE  ArrivalOK
<1> USE DEF ProtocolInv
<1> DEFINE o == AdmitTreeArrivalIfResolution(w, arr.attempt, host, arr.plan.res)
<1>1. w \in States /\ host \in Views /\ queue \in Seq(Handlers) /\ arr.attempt \in Attempts
  BY DEF Typed, ArrivalInherits, Runs, JobKnows, Informed
<1>2. /\ o.ok => Steady(o.state.adm)
      /\ Tame(w, o.state) \/ (o.ok /\ Frees(w, o.state, host, arr.plan.res))
  BY <1>1, AdmitArrivalTame
<1>3. ArrivalRecovers(queue) \/ (Exact(arr.view) /\ ArrivalSettlesBy(o, queue))
  BY DEF ArrivalInherits
<1>4. CASE ArrivalRecovers(queue) BY <1>1, <1>4, ArrivalRecoversKeeps
<1>5. CASE Exact(arr.view) /\ ArrivalSettlesBy(o, queue) /\ Tame(w, o.state)
  <2> HIDE DEF o
  <2> QED BY <1>1, <1>2, <1>5, ArrivalSettlesKeeps
<1>6. CASE Exact(arr.view) /\ ArrivalSettlesBy(o, queue) /\ o.ok
           /\ Frees(w, o.state, host, arr.plan.res)
  <2> HIDE DEF o
  <2>1. w' = o.state /\ Goes(queue) /\ ArrivalEnds BY <1>6 DEF ArrivalSettlesBy, SettlesOr
  <2>2. Whole(arr.plan.res.tree) /\ job.step # "write" /\ host = job.view
    BY <1>6 DEF ArrivalInherits, Runs, JobKnows, JobFound, FoundInherited, Informed, Sound, Exact
  <2>3. w' \in States /\ Yields(w.adm, w'.adm) /\ Spares
    BY <1>6, <2>1, <2>2, FreedSpares
  <2> QED BY <1>1, <1>2, <1>6, <2>1, <2>3, GoesTyped, ArrivalOver
<1> QED BY <1>2, <1>3, <1>4, <1>5, <1>6

LEMMA ArrivalRestoresKeeps ==
  ASSUME ProtocolInv, TornMoves, ArrivalFrame, ArrivalRestores
  PROVE  ArrivalOK
<1> USE DEF ProtocolInv
<1>1. w \in States /\ host \in Views /\ queue \in Seq(Handlers) /\ arr.attempt \in Attempts
      /\ arr.phase # "none" /\ Tame(w, w)
  BY TameSelf DEF Typed, ArrivalRestores, Runs, JobKnows, Informed
<1>2. CASE ArrivalRecovers(queue) BY <1>1, <1>2, ArrivalRecoversKeeps
<1>3. CASE ArrivalEnds /\ ProtectsArrivalOrRecovers(w)
  <2>1. Tame(w, w') /\ Steady(w'.adm) /\ WaitOK' BY <1>1, <1>3, ProtectsOrRecoversKeeps
  <2> QED BY <1>3, <2>1, TameSpares, ArrivalOver
<1>4. CASE /\ job' = [job EXCEPT !.step = IF job.seen = arr.plan.res.tree
                                            THEN "noop" ELSE "cutover",
                                 !.res = arr.plan.res]
           /\ w' = w /\ arr' = arr /\ Stays
  <2> DEFINE x == IF job.seen = arr.plan.res.tree THEN "noop" ELSE "cutover"
  <2>1. host' = host /\ trip' = trip /\ arr.plan.res \in Resolutions
    BY DEF ArrivalFrame, Typed, Arrivals, PlansMade
  <2>2. x \in {"noop", "cutover"} OBVIOUS
  <2>3. job' = [job EXCEPT !.step = x, !.res = arr.plan.res] BY <1>4
  <2> HIDE DEF x
  <2>4. job' \in Jobs /\ job'.step = x /\ job'.kind = "arrival" /\ job'.view = job.view
        /\ job'.seen = job.seen /\ job'.res = arr.plan.res /\ job.kind = "arrival"
        /\ job.step = "settle" /\ arr.plan.kind = "restore"
    BY <2>1, <2>2, <2>3 DEF Typed, Jobs, ArrivalRestores, Runs
  <2>5. JobKnows' BY <1>4, <2>2, <2>4 DEF JobKnows, Destructive, Informed, Sound
  <2>6. JobPins' BY <2>2, <2>4 DEF JobPins, AtRisk
  <2>7. JobHere' BY <1>4, <2>1, <2>4 DEF JobHere, Lost
  <2>8. JobFound' BY <2>2, <2>4 DEF JobFound, FoundRestored, FoundInherited
  <2>9. JobOK' BY <2>5, <2>6, <2>7, <2>8 DEF JobOK
  <2> QED BY <1>1, <1>4, <2>4, <2>9, TameSpares, StaysTyped DEF ArrivalOK, Informed, Typed
<1> QED BY <1>2, <1>3, <1>4 DEF ArrivalRestores

LEMMA ArrivalKeeps ==
  ASSUME ProtocolInv, TornMoves, ArrivalNext
  PROVE  StepOK
<1>1. ArrivalFrame BY DEF ArrivalNext, ArrivalFrame
<1>2. CASE TreeEvent BY <1>1, <1>2, TreeEventKeeps
<1>3. CASE /\ \/ ArrivalBegins \/ ArrivalScans \/ ArrivalDetaches
              \/ ArrivalMaterializes \/ ArrivalInherits \/ ArrivalRestores
              \/ ArrivalFails
           /\ event' = event /\ plan' = plan
  <2>1. ArrivalFails => ArrivalOK BY ArrivalRecoversKeeps DEF ArrivalFails, ProtocolInv, Typed
  <2>2. ArrivalOK
    BY <1>1, <1>3, <2>1, ArrivalBeginsKeeps, ArrivalScansKeeps, ArrivalDetachesKeeps,
       ArrivalMaterializesKeeps, ArrivalInheritsKeeps, ArrivalRestoresKeeps
  <2> QED BY <1>1, <1>3, <2>2, ArrivalStep
<1> QED BY <1>2, <1>3 DEF ArrivalNext
-----------------------------------------------------------------------------
(* The destructive part of a restore.                                      *)

MutationFrame == UNCHANGED <<host, event, edits, moves, call, trip, plan>>

MutationOK ==
    /\ w' \in States /\ Yields(w.adm, w'.adm) /\ Spares /\ WaitOK'
    /\ content' \in Trees
    /\ (arr' = arr /\ ask' = ask) \/ (arr' = NoArrival /\ w'.adm.kind # "arrival" /\ ask' = ask)
       \/ (arr' = arr /\ ask' = NoAsk)
    /\ job' \in Jobs /\ JobOK'

LEMMA MutationStep ==
  ASSUME ProtocolInv, MutationFrame, MutationOK
  PROVE  StepOK
<1> USE DEF ProtocolInv, MutationOK
<1>1. host' = host /\ event' = event /\ edits' = edits /\ moves' = moves
      /\ call' = call /\ trip' = trip /\ plan' = plan
  BY DEF MutationFrame
<1>2. arr' \in Arrivals /\ ask' \in Asks BY NothingTyped DEF Typed
<1>3. Typed' BY <1>1, <1>2 DEF Typed, WaitOK
<1>4. Informed'
  <2>1. Sound(arr'.plan) /\ (arr'.phase # "none" => arr'.attempt \in Attempts)
    BY NothingTyped DEF Informed
  <2>2. ask'.phase \in {"asked", "answered", "applying"} => ask'.res.tree # NoTree
    BY NothingTyped DEF Informed
  <2> QED BY <1>1, <2>1, <2>2 DEF Informed, Sound
<1>5. Owned' BY <1>1, OwnedKept
<1>6. Due' BY <1>1, NothingTyped DEF Due
<1> QED BY <1>3, <1>4, <1>5, <1>6 DEF StepOK

LEMMA MutationOver ==
  ASSUME ProtocolInv, Ends, HandlerReturns, content' = content,
         w' \in States, Yields(w.adm, w'.adm), Spares, WaitOK',
         Arriving => Steady(w'.adm)
  PROVE  MutationOK
BY CaptureEnds DEF MutationOK, HandlerReturns, Steady, ProtocolInv, Typed

LEMMA MutationOverTamely ==
  ASSUME ProtocolInv, Ends, HandlerReturns, content' = content, Tame(w, w'), WaitOK',
         Arriving => Steady(w'.adm)
  PROVE  MutationOK
BY MutationOver, TameSpares DEF ProtocolInv

(* What the handler of a destructive step is.                              *)
LEMMA HandlerKnown ==
  ASSUME ProtocolInv
  PROVE  /\ w \in States /\ host \in Views /\ Tame(w, w) /\ queue \in Seq(Handlers)
         /\ Handler \in Handlers
         /\ Arriving => arr.attempt \in Attempts
BY TameSelf DEF ProtocolInv, Typed, Handler, Handlers, Arriving, JobKnows, Informed

LEMMA NotRestoredKeeps ==
  ASSUME ProtocolInv, NEW s \in States, Tame(w, s), NotRestored(s)
  PROVE  Tame(w, w') /\ WaitOK' /\ (Arriving => Steady(w'.adm))
<1>1. CASE Arriving /\ ProtectsArrivalOrRecovers(s)
  BY <1>1, HandlerKnown, ProtectsOrRecoversKeeps DEF ProtocolInv
<1>2. CASE ~ Arriving /\ w' = s /\ Stays
  BY <1>2, StaysTyped DEF ProtocolInv
<1>3. CASE ~ Arriving /\ OwesRecovery(s, "ask", queue)
  <2>1. Tame(s, w') /\ WaitOK'
    BY <1>3, HandlerKnown, OwesRecoveryKeeps DEF ProtocolInv, Handlers
  <2> QED BY <1>3, <2>1, TameTwice
<1> QED BY <1>1, <1>2, <1>3 DEF NotRestored

(* A step that leaves the handlers and the rows alone.                     *)
LEMMA MutationGoesOn ==
  ASSUME ProtocolInv, Remains, Stays, w' = w, content' \in Trees, job' \in Jobs, JobOK'
  PROVE  MutationOK
<1>1. w \in States /\ Tame(w, w) BY HandlerKnown
<1> QED BY <1>1, TameSpares, StaysTyped DEF MutationOK, Remains, ProtocolInv

LEMMA CutOverKeeps ==
  ASSUME ProtocolInv, TornMoves, MutationFrame, CutOver
  PROVE  MutationOK
<1> USE DEF ProtocolInv
<1> DEFINE o == IF Arriving
                  THEN CutoverTreeArrival(w, arr.attempt, host, job.res)
                  ELSE CutoverLocation(w, host, job.res)
<1>1. w \in States /\ host \in Views /\ Tame(w, w) BY HandlerKnown
<1>2. /\ o.ok \in BOOLEAN
      /\ Tame(w, o.state)
      /\ o.ok => /\ w.active /\ Steady(o.state.adm)
                 /\ job.res.tree # NoTree =>
                      At(host) \in Entries
                      /\ o.state.slots[At(host)] = BlockedCheckpoint(job.res.tree)
  BY <1>1, CutoverTame DEF CutoverTreeArrival, CutoverLocation
<1>3. o.state \in States BY <1>2 DEF Tame
<1>4. /\ job.step = "cutover" /\ content' = content
      /\ \/ /\ Exact(job.view) /\ o.ok
            /\ w' = o.state
            /\ job' = [job EXCEPT !.step = "write", !.res = Pinned(host, job.res)]
            /\ Remains /\ Stays
         \/ NotRestored(o.state) /\ Ends /\ HandlerReturns
         \/ NotRestored(w) /\ Ends /\ HandlerReturns
  BY DEF CutOver
<1> HIDE DEF o
<1>5. CASE NotRestored(o.state) /\ Ends /\ HandlerReturns
  BY <1>2, <1>3, <1>4, <1>5, NotRestoredKeeps, MutationOverTamely
<1>6. CASE NotRestored(w) /\ Ends /\ HandlerReturns
  BY <1>1, <1>4, <1>6, NotRestoredKeeps, MutationOverTamely
<1>7. CASE /\ Exact(job.view) /\ o.ok
           /\ w' = o.state
           /\ job' = [job EXCEPT !.step = "write", !.res = Pinned(host, job.res)]
           /\ Remains /\ Stays
  <2>1. job \in Jobs /\ job.kind \in {"arrival", "restore"} /\ job.res.tree # NoTree
        /\ job.view = host
    BY <1>4, <1>7 DEF Typed, JobKnows, Destructive, Exact
  <2>2. At(host) \in Entries /\ w'.slots[At(host)] = BlockedCheckpoint(job.res.tree)
    BY <1>2, <1>7, <2>1
  <2> DEFINE r == Pinned(host, job.res)
  <2>3. r \in Resolutions /\ r.tree = job.res.tree
    BY <2>1, <2>2 DEF Pinned, Resolutions, Jobs
  <2>4. job' = [job EXCEPT !.step = "write", !.res = r] BY <1>7
  <2> HIDE DEF r
  <2>5. job' \in Jobs /\ job'.step = "write" /\ job'.res = r /\ job'.view = host
        /\ job'.kind = job.kind /\ job'.seen = job.seen
    BY <2>1, <2>3, <2>4 DEF Jobs
  <2>6. host' = host /\ arr' = arr /\ ask' = ask /\ trip' = trip
    BY <1>7 DEF MutationFrame, Remains
  <2>7. JobKnows' BY <1>4, <2>1, <2>3, <2>5, <2>6 DEF JobKnows, Destructive
  <2>8. JobPins' BY <2>2, <2>3, <2>5 DEF JobPins
  <2>9. JobHere' BY <1>1, <2>5, <2>6 DEF JobHere
  <2>10. JobFound' BY <2>5 DEF JobFound, FoundRestored, FoundInherited
  <2>11. JobOK' BY <2>7, <2>8, <2>9, <2>10 DEF JobOK
  <2>12. Tame(w, w') /\ content \in Trees BY <1>2, <1>7 DEF Typed
  <2> QED BY <1>4, <1>7, <2>5, <2>6, <2>11, <2>12, TameSpares, StaysTyped DEF MutationOK
<1> QED BY <1>4, <1>5, <1>6, <1>7

(* The step of the job is all that changes in it.                          *)
LEMMA StepTaken ==
  ASSUME ProtocolInv, MutationFrame, Remains, Stays, w' = w, NEW x, StepsTo(x),
         x \in {"rest", "verify", "failed", "unchanged", "done"},
         job.step \in Destructive,
         x \in AtRisk => job.step \in AtRisk,
         x = "failed" => job.step \in AtRisk \/ job.kind = "arrival",
         x = "unchanged" => job.step \in {"noop", "unchanged"},
         x \in {"unchanged", "done"} => content = job.res.tree /\ content' = content,
         TornMoves, content' \in Trees
  PROVE  MutationOK
<1> USE DEF ProtocolInv
<1>1. job' \in Jobs /\ job'.step = x /\ job'.kind = job.kind /\ job'.view = job.view
      /\ job'.seen = job.seen /\ job'.res = job.res
  BY DEF StepsTo, Typed, Jobs
<1>2. host' = host /\ arr' = arr /\ ask' = ask /\ trip' = trip BY DEF MutationFrame, Remains
<1>3. JobKnows' BY <1>1, <1>2 DEF JobKnows, Destructive
<1>4. JobPins' BY <1>1 DEF JobPins
<1>5. job.kind # "none" BY DEF JobKnows
<1>6. Lost => Lost' BY <1>1, <1>2 DEF Lost
<1>7. JobHere' BY <1>1, <1>2, <1>5, <1>6 DEF JobHere
<1>8. JobFound'
  <2>1. ~ FoundInherited' BY <1>1 DEF FoundInherited
  <2>2. FoundRestored' => x \in {"done", "unchanged"} BY <1>1 DEF FoundRestored
  <2>3. ASSUME x \in {"done", "unchanged"} PROVE Whole(job.res.tree)'
    <3>1. CASE Lost BY <1>6, <3>1 DEF Whole
    <3>2. CASE host = job.view
      <4>1. [at |-> At(job'.view), tree |-> job'.res.tree] \notin torn'
        BY <1>1, <1>2, <2>3, <3>2 DEF TornMoves
      <4> QED BY <4>1 DEF Whole
    <3> QED BY <1>5, <3>1, <3>2 DEF JobHere
  <2> QED BY <2>1, <2>2, <2>3 DEF JobFound
<1>9. JobOK' BY <1>3, <1>4, <1>7, <1>8 DEF JobOK
<1> QED BY <1>1, <1>9, MutationGoesOn

LEMMA WritesKeep ==
  ASSUME ProtocolInv, TornMoves, MutationFrame,
         WritesSome \/ WritesTheRest \/ BreaksOff \/ Verifies
  PROVE  MutationOK
<1> USE DEF ProtocolInv, Destructive, AtRisk
<1>1. content \in Trees BY DEF Typed
<1>2. CASE WritesSome BY <1>2, StepTaken, MixAssumption DEF WritesSome
<1>3. CASE WritesTheRest
  <2>1. job.step = "rest" /\ content' = job.res.tree BY <1>3 DEF WritesTheRest
  <2>2. content' \in Trees
    BY <2>1 DEF Typed, Jobs, Resolutions, JobKnows
  <2> QED BY <1>3, <2>1, <2>2, StepTaken DEF WritesTheRest
<1>4. CASE BreaksOff BY <1>1, <1>4, StepTaken DEF BreaksOff
<1>5. CASE Verifies
  <2> DEFINE x == IF content # job.res.tree THEN "failed"
                  ELSE IF job.step = "noop" THEN "unchanged" ELSE "done"
  <2>1. /\ x \in {"failed", "unchanged", "done"}
        /\ x # "failed" => content = job.res.tree
        /\ x = "unchanged" => job.step = "noop"
        /\ x = "done" => job.step = "verify"
    BY <1>5 DEF Verifies
  <2>2. StepsTo(x) /\ Remains /\ Stays /\ w' = w /\ content' = content
        /\ job.step \in {"verify", "noop"} /\ (job.step = "noop" => job.kind = "arrival")
    BY <1>5 DEF Verifies, JobKnows
  <2> HIDE DEF x
  <2> QED BY <1>1, <2>1, <2>2, StepTaken
<1> QED BY <1>2, <1>3, <1>4, <1>5

LEMMA RecoversEnds ==
  ASSUME ProtocolInv, NEW s \in States, Tame(w, s), Recovers(s), Ends, HandlerReturns,
         content' = content
  PROVE  MutationOK
<1>1. Tame(s, w') /\ Steady(w'.adm) /\ WaitOK'
  BY HandlerKnown, RecoversKeeps DEF Recovers, ProtocolInv
<1> QED BY <1>1, TameTwice, MutationOverTamely

LEMMA AdmitsKeeps ==
  ASSUME ProtocolInv, Admits
  PROVE  MutationOK
<1> USE DEF ProtocolInv
<1> DEFINE o == AdmitLocationIfResolution(w, host, job.res)
<1>1. w \in States /\ host \in Views /\ Tame(w, w) /\ queue \in Seq(Handlers) BY HandlerKnown
<1>2. /\ o.ok => Frees(w, o.state, host, job.res) /\ Steady(o.state.adm)
      /\ ~ o.ok => Tame(w, o.state)
      /\ o.state \in States
  BY <1>1, AdmitLocationTame
<1>3. /\ \/ StillPinned /\ o.ok /\ w' = o.state /\ Goes(queue)
         \/ ~ o.ok /\ Recovers(o.state)
         \/ Recovers(w)
      /\ job.step = "done" /\ Ends /\ HandlerReturns /\ content' = content
  BY DEF Admits, SettlesOr
<1> HIDE DEF o
<1>4. CASE StillPinned /\ o.ok /\ w' = o.state /\ Goes(queue)
  <2>1. Whole(job.res.tree) /\ host = job.view
    BY <1>3, <1>4 DEF JobFound, FoundRestored, StillPinned, Exact
  <2>2. w' \in States /\ Yields(w.adm, w'.adm) /\ Spares
    BY <1>2, <1>3, <1>4, <2>1, FreedSpares
  <2> QED BY <1>1, <1>2, <1>3, <1>4, <2>2, GoesTyped, MutationOver
<1>5. CASE ~ o.ok /\ Recovers(o.state) BY <1>2, <1>3, <1>5, RecoversEnds
<1>6. CASE Recovers(w) BY <1>1, <1>3, <1>6, RecoversEnds
<1> QED BY <1>3, <1>4, <1>5, <1>6

LEMMA AdmitsUnchangedKeeps ==
  ASSUME ProtocolInv, AdmitsUnchanged
  PROVE  MutationOK
<1> USE DEF ProtocolInv
<1> DEFINE o == AdmitTreeArrivalIfResolution(w, arr.attempt, host, job.res)
<1>1. w \in States /\ host \in Views /\ Tame(w, w) /\ queue \in Seq(Handlers) BY HandlerKnown
<1>2. Arriving BY DEF AdmitsUnchanged, JobKnows, Arriving
<1>3. /\ o.ok => Steady(o.state.adm)
      /\ Tame(w, o.state) \/ (o.ok /\ Frees(w, o.state, host, job.res))
  BY <1>1, <1>2, HandlerKnown, AdmitArrivalTame
<1>4. /\ \/ StillPinned /\ o.ok /\ w' = o.state /\ Goes(queue)
         \/ ~ o.ok /\ OwesRecovery(o.state, "arr", queue)
         \/ Recovers(w)
      /\ job.step = "unchanged" /\ Ends /\ HandlerReturns /\ content' = content
  BY DEF AdmitsUnchanged, SettlesOr
<1> HIDE DEF o
<1>5. CASE StillPinned /\ o.ok /\ w' = o.state /\ Goes(queue)
  <2>1. Whole(job.res.tree) /\ host = job.view
    BY <1>4, <1>5 DEF JobFound, FoundRestored, StillPinned, Exact
  <2>2. CASE Frees(w, o.state, host, job.res)
    <3>1. w' \in States /\ Yields(w.adm, w'.adm) /\ Spares
      BY <1>4, <1>5, <2>1, <2>2, FreedSpares
    <3> QED BY <1>1, <1>3, <1>4, <1>5, <3>1, GoesTyped, MutationOver
  <2>3. CASE Tame(w, o.state)
    BY <1>1, <1>3, <1>4, <1>5, <2>3, GoesTyped, MutationOverTamely
  <2> QED BY <1>3, <2>2, <2>3
<1>6. CASE ~ o.ok /\ OwesRecovery(o.state, "arr", queue)
  <2>1. Tame(w, o.state) /\ o.state \in States BY <1>3, <1>6 DEF Tame
  <2>2. Tame(o.state, w') /\ Steady(w'.adm) /\ WaitOK'
    BY <1>1, <1>6, <2>1, OwesRecoveryKeeps DEF Handlers
  <2> QED BY <1>4, <2>1, <2>2, TameTwice, MutationOverTamely
<1>7. CASE Recovers(w) BY <1>1, <1>4, <1>7, RecoversEnds
<1> QED BY <1>4, <1>5, <1>6, <1>7

LEMMA MutationKeeps ==
  ASSUME ProtocolInv, TornMoves, MutationNext
  PROVE  StepOK
<1>1. MutationFrame BY DEF MutationNext, MutationFrame
<1>2. w \in States /\ Tame(w, w) BY HandlerKnown
<1>3. CASE FailsToRestore
  <2>1. Ends /\ HandlerReturns /\ content' = content /\ (NotRestored(w) \/ Recovers(w))
    BY <1>3 DEF FailsToRestore
  <2> QED BY <1>1, <1>2, <2>1, NotRestoredKeeps, MutationOverTamely, RecoversEnds, MutationStep
<1>4. MutationOK => StepOK BY <1>1, MutationStep
<1> QED BY <1>1, <1>3, <1>4, CutOverKeeps, WritesKeep, AdmitsKeeps, AdmitsUnchangedKeeps
        DEF MutationNext
-----------------------------------------------------------------------------
(* Restores.                                                               *)

RestoreFrame == UNCHANGED <<hostVars, call, trip, plan, arr>>

AskInformed == ask.phase \in {"asked", "answered", "applying"} => ask.res.tree # NoTree

RestoreOK ==
    /\ w' \in States /\ Yields(w.adm, w'.adm) /\ Spares /\ WaitOK'
    /\ ask' \in Asks /\ AskInformed'
    /\ job' \in Jobs /\ JobOK'

LEMMA RestoreStep ==
  ASSUME ProtocolInv, RestoreFrame, RestoreOK
  PROVE  StepOK
<1> USE DEF ProtocolInv, RestoreOK
<1>1. host' = host /\ event' = event /\ content' = content /\ edits' = edits /\ moves' = moves
      /\ call' = call /\ trip' = trip /\ plan' = plan /\ arr' = arr
  BY DEF RestoreFrame, hostVars
<1>2. Typed' BY <1>1 DEF Typed, WaitOK
<1>3. Informed' BY <1>1 DEF Informed, Sound, AskInformed
<1>4. Owned' BY <1>1, OwnedKept
<1> QED BY <1>1, <1>2, <1>3, <1>4 DEF StepOK, Due

LEMMA Unasked ==
  ASSUME Handled
  PROVE  ask' \in Asks /\ AskInformed'
BY NothingTyped DEF Handled, AskInformed

LEMMA RestoreOver ==
  ASSUME ProtocolInv, Handled, Ends, Tame(w, w'), WaitOK'
  PROVE  RestoreOK
BY Unasked, CaptureEnds, TameSpares DEF RestoreOK, ProtocolInv

LEMMA AbandonsTame ==
  ASSUME Typed, NEW s, Tame(w, s), NEW q \in Seq(Handlers), Abandons(s, q)
  PROVE  Tame(w, w') /\ WaitOK' /\ Handled
<1>1. s \in States BY DEF Tame
<1>2. CASE w' = s /\ Goes(q) BY <1>2, GoesTyped DEF Abandons
<1>3. CASE OwesRecovery(s, "ask", q)
  BY <1>1, <1>3, OwesRecoveryKeeps, TameTwice DEF Handlers, Abandons
<1> QED BY <1>2, <1>3 DEF Abandons

LEMMA AbandonsKeeps ==
  ASSUME ProtocolInv, NEW s, Tame(w, s), NEW q \in Seq(Handlers), Abandons(s, q), Ends
  PROVE  RestoreOK
BY AbandonsTame, RestoreOver DEF ProtocolInv

LEMMA SettlesAtKeeps ==
  ASSUME ProtocolInv, NEW s, Tame(w, s), NEW q \in Seq(Handlers), SettlesAt(s, q), Ends
  PROVE  RestoreOK
BY GoesTyped, RestoreOver DEF ProtocolInv, SettlesAt

LEMMA RecoversAskKeeps ==
  ASSUME ProtocolInv, NEW s, Tame(w, s), NEW q \in Seq(Handlers), RecoversAsk(s, q), Ends
  PROVE  RestoreOK
<1>1. s \in States BY DEF Tame
<1>2. Tame(s, w') /\ WaitOK'
  BY <1>1, RecoversKeeps DEF RecoversAsk, Handlers, ProtocolInv
<1> QED BY <1>2, TameTwice, RestoreOver DEF RecoversAsk

(* The session and the rows, as a restore finds them.                      *)
LEMMA AskKnown ==
  ASSUME ProtocolInv
  PROVE  /\ w \in States /\ host \in Views /\ Tame(w, w) /\ queue \in Seq(Handlers)
         /\ IsNext("ask") => Others \in Seq(Handlers) /\ Waits(Others, "ask") \in Seq(Handlers)
         /\ Waits(queue, "ask") \in Seq(Handlers)
         /\ Here \in Coordinates
<1>1. "ask" \in Handlers BY DEF Handlers
<1> QED BY <1>1, TameSelf, QueueTyped, AtTyped
        DEF ProtocolInv, Typed, IsNext, Here, Coordinates

(* A request that is only begun or answered, and no job of it is running.  *)
LEMMA AskMoves ==
  ASSUME ProtocolInv, TornMoves, RestoreFrame, job' = job, job.kind # "restore",
         Tame(w, w'), WaitOK', ask' \in Asks, AskInformed'
  PROVE  RestoreOK
<1>1. host' = host /\ trip' = trip /\ arr' = arr BY DEF RestoreFrame, hostVars
<1>2. JobOK' BY <1>1, TameSpares, JobStands DEF ProtocolInv
<1> QED BY <1>2, TameSpares DEF RestoreOK, ProtocolInv, Typed

LEMMA RestoreBeginsJob ==
  ASSUME ProtocolInv, RestoreFrame, NEW x \in {"scan", "first", "rescan"},
         NEW r \in Resolutions, x # "first" => r.tree # NoTree,
         job' = [NoJob EXCEPT !.kind = "restore", !.step = x, !.view = host, !.res = r],
         NEW p \in {"looking", "applying", "initializing"}, AskGoes(p),
         p = "applying" => ask.res.tree # NoTree,
         Tame(w, w'), WaitOK'
  PROVE  RestoreOK
<1> USE DEF ProtocolInv
<1>1. host' = host /\ host \in Views BY DEF RestoreFrame, hostVars, Typed
<1>2. job' \in Jobs /\ job'.step = x /\ job'.view = host /\ job'.kind = "restore" /\ job'.res = r
  BY <1>1, NothingTyped DEF Jobs, NoJob
<1>3. ask' \in Asks /\ ask'.phase = p /\ ask'.res = ask.res BY DEF AskGoes, Typed, Asks
<1>4. AskInformed' BY <1>3 DEF AskInformed
<1>5. JobKnows' BY <1>2, <1>3 DEF JobKnows, Destructive
<1>6. JobPins' BY <1>2 DEF JobPins, AtRisk
<1>7. JobHere' BY <1>1, <1>2 DEF JobHere
<1>8. JobFound' BY <1>2 DEF JobFound, FoundRestored, FoundInherited
<1>9. JobOK' BY <1>5, <1>6, <1>7, <1>8 DEF JobOK
<1> QED BY <1>2, <1>3, <1>4, <1>9, TameSpares DEF RestoreOK

LEMMA RestoreCommandKeeps ==
  ASSUME ProtocolInv, TornMoves, RestoreFrame, RestoreCommand
  PROVE  RestoreOK
<1> USE DEF ProtocolInv
<1> DEFINE a == RejectTransitionConflict(w.adm)
<1>1. w \in States /\ w.adm \in Authorities /\ host \in Views BY DEF Typed, States
<1>2. a \in Authorities /\ Yields(w.adm, a) BY <1>1, AuthorityYields
<1>3. w' = WithAdmission(w, a) /\ job' = job /\ ask = NoAsk BY DEF RestoreCommand
<1> HIDE DEF a
<1>4. Tame(w, w') BY <1>1, <1>2, <1>3, AdmissionTame
<1>5. job.kind # "restore" BY <1>3, NothingTyped DEF JobKnows
<1>6. CASE ask' = [NoAsk EXCEPT !.phase = "queued", !.view = host] /\ Goes(Waits(queue, "ask"))
  <2>1. ask' \in Asks /\ ask'.phase = "queued" BY <1>1, <1>6, NothingTyped DEF Asks, NoAsk
  <2>2. WaitOK' BY <1>6, AskKnown, GoesTyped
  <2> QED BY <1>3, <1>4, <1>5, <2>1, <2>2, AskMoves DEF AskInformed
<1>7. CASE ask' = ask /\ Stays
  BY <1>3, <1>4, <1>5, <1>7, NothingTyped, StaysTyped, AskMoves DEF AskInformed
<1> QED BY <1>6, <1>7 DEF RestoreCommand

LEMMA SessionStartKeeps ==
  ASSUME ProtocolInv, TornMoves, RestoreFrame, NEW mode \in {"loaded", "reload"},
         SessionStart(mode)
  PROVE  RestoreOK
<1> USE DEF ProtocolInv
<1> DEFINE s == [w EXCEPT !.active = TRUE]
<1>1. w \in States /\ host \in Views BY DEF Typed
<1>2. s \in States /\ s.slots = w.slots /\ s.adm = w.adm BY <1>1 DEF States
<1>3. /\ job' = job /\ job.kind = "none" /\ ask = NoAsk
      /\ \/ w' = Quarantined(s) /\ ask' = ask /\ Stays
         \/ w' = AdmitCurrentLocation(s, host).state /\ ask' = ask /\ Stays
         \/ /\ w' = s /\ Goes(Waits(queue, "ask"))
            /\ ask' = [NoAsk EXCEPT !.mode = mode, !.phase = "queued", !.view = host]
  BY DEF SessionStart, Idle, NoJob
<1> HIDE DEF s
<1>4. Tame(s, w')
  BY <1>1, <1>2, <1>3, TameSelf, QuarantinedTame, AdmitCurrentTame
<1>5. w' \in States /\ Pins(w.slots, w'.slots) /\ Yields(w.adm, w'.adm)
  BY <1>2, <1>4 DEF Tame
<1>6. JobOK' BY <1>3, JobStands
<1>7. ask' \in Asks /\ AskInformed' /\ WaitOK'
  <2>1. CASE ask' = ask /\ Stays
    BY <1>3, <2>1, NothingTyped, StaysTyped DEF AskInformed
  <2>2. CASE /\ Goes(Waits(queue, "ask"))
             /\ ask' = [NoAsk EXCEPT !.mode = mode, !.phase = "queued", !.view = host]
    <3>1. ask' \in Asks /\ ask'.phase = "queued" BY <1>1, <2>2, NothingTyped DEF Asks, NoAsk
    <3>2. WaitOK' BY <2>2, AskKnown, GoesTyped
    <3> QED BY <3>1, <3>2 DEF AskInformed
  <2> QED BY <1>3, <2>1, <2>2
<1> QED BY <1>3, <1>5, <1>6, <1>7 DEF RestoreOK, Spares, Typed

LEMMA RestoreLooksKeeps ==
  ASSUME ProtocolInv, TornMoves, RestoreFrame, RestoreLooks
  PROVE  RestoreOK
<1> USE DEF ProtocolInv
<1> DEFINE s == ReconcileBarrier(w, host)
           res == Readable(s, Here)
           pinned == IF Manual THEN res ELSE Pinned(host, res)
           p == ProtectNode(s, host)
           begins(x) == job' = [NoJob EXCEPT !.kind = "restore", !.step = x,
                                             !.view = host, !.res = pinned]
<1>1. w \in States /\ host \in Views /\ Tame(w, w) /\ queue \in Seq(Handlers)
      /\ Others \in Seq(Handlers) /\ Waits(Others, "ask") \in Seq(Handlers)
      /\ Here \in Coordinates
  BY AskKnown DEF RestoreLooks, Looks
<1>2. Tame(w, s) /\ s \in States BY <1>1, CompositesTame
<1>3. /\ \/ Abandons(w, Others) /\ Ends
         \/ /\ res # Missing
            /\ w' = s \/ w' = p
            /\ begins("scan") /\ AskGoes("looking")
            /\ Goes(Others)
         \/ w' = s /\ begins("first") /\ AskGoes("looking") /\ Goes(Others)
         \/ SettlesAt(p, Others) /\ Ends
         \/ SettlesAt(s, Others) /\ Ends
         \/ w' = s /\ AskGoes("initialize") /\ Goes(Waits(Others, "ask")) /\ Ends
  BY DEF RestoreLooks
<1> HIDE DEF s
<1>4. Tame(w, p) /\ p \in States BY <1>1, <1>2, CompositesTame, TameTwice
<1>5. res \in Resolutions /\ (res # Missing => res.tree \in Trees /\ Here \in Entries)
  BY <1>1, <1>2, ReadableTyped
<1>6. Pinned(host, res) \in Resolutions
  BY <1>1, <1>5 DEF Pinned, Resolutions, Here, Coordinates
<1> HIDE DEF res
<1>7. pinned \in Resolutions /\ (res # Missing => pinned.tree # NoTree)
  BY <1>5, <1>6, NoTreeAssumption DEF Pinned
<1> HIDE DEF p, pinned
<1>8. CASE Abandons(w, Others) /\ Ends BY <1>1, <1>8, AbandonsKeeps
<1>9. CASE /\ res # Missing
           /\ w' = s \/ w' = p
           /\ begins("scan") /\ AskGoes("looking")
           /\ Goes(Others)
  BY <1>1, <1>2, <1>4, <1>7, <1>9, GoesTyped, RestoreBeginsJob
<1>10. CASE w' = s /\ begins("first") /\ AskGoes("looking") /\ Goes(Others)
  BY <1>1, <1>2, <1>7, <1>10, GoesTyped, RestoreBeginsJob
<1>11. CASE SettlesAt(p, Others) /\ Ends BY <1>1, <1>4, <1>11, SettlesAtKeeps
<1>12. CASE SettlesAt(s, Others) /\ Ends BY <1>1, <1>2, <1>12, SettlesAtKeeps
<1>13. CASE w' = s /\ AskGoes("initialize") /\ Goes(Waits(Others, "ask")) /\ Ends
  <2>1. ask' \in Asks /\ AskInformed' BY <1>13 DEF AskGoes, Typed, Asks, AskInformed
  <2>2. WaitOK' BY <1>1, <1>13, GoesTyped
  <2> QED BY <1>2, <1>13, <2>1, <2>2, CaptureEnds, TameSpares DEF RestoreOK
<1> QED BY <1>3, <1>8, <1>9, <1>10, <1>11, <1>12, <1>13

(* A restore that goes on with its job.                                    *)
LEMMA RestoreGoesOn ==
  ASSUME ProtocolInv, RestoreFrame, ask' = ask, WaitOK', Tame(w, w'), job' \in Jobs,
         job.kind = "restore", job.step \notin Destructive,
         job'.kind = "restore", job'.view = job.view, job'.res = job.res,
         job'.step \in {"settle", "cutover", "commit"},
         job'.step \in {"settle", "cutover"} => job.res.tree # NoTree,
         job'.step = "cutover" => job'.seen = ask.shown,
         FoundRestored' /\ host = job.view => [at |-> At(host), tree |-> job.res.tree] \notin torn'
  PROVE  RestoreOK
<1> USE DEF ProtocolInv
<1>1. host' = host /\ trip' = trip /\ arr' = arr BY DEF RestoreFrame, hostVars
<1>2. JobKnows' BY <1>1 DEF JobKnows, Destructive
<1>3. JobPins' BY DEF JobPins, AtRisk
<1>4. Lost => Lost' BY <1>1, TameSpares DEF Lost
<1>5. JobHere' BY <1>1, <1>4 DEF JobHere
<1>6. JobFound'
  <2>1. ~ FoundInherited' BY DEF FoundInherited
  <2>2. FoundRestored' => Whole(job.res.tree)' BY <1>1, <1>4 DEF JobHere, Whole
  <2> QED BY <2>1, <2>2 DEF JobFound
<1>7. JobOK' BY <1>2, <1>3, <1>5, <1>6 DEF JobOK
<1> QED BY <1>7, TameSpares DEF RestoreOK, Typed, AskInformed, Informed

LEMMA RestoreScansKeeps ==
  ASSUME ProtocolInv, TornMoves, RestoreFrame, RestoreScans
  PROVE  RestoreOK
<1> USE DEF ProtocolInv
<1>1. /\ job.kind = "restore" /\ job.step = "scan" /\ w' = w /\ Stays /\ job.res.tree # NoTree
      /\ content \in Trees /\ job \in Jobs /\ ask \in Asks
      /\ content' = content /\ host' = host
  BY DEF RestoreScans, Runs, JobKnows, Typed, RestoreFrame, hostVars
<1>2. Tame(w, w') /\ WaitOK' BY <1>1, AskKnown, StaysTyped
<1>3. CASE content = job.res.tree /\ StepsTo("settle") /\ ask' = ask
  <2>1. job' \in Jobs /\ job'.kind = "restore" /\ job'.view = job.view /\ job'.res = job.res
        /\ job'.step = "settle"
    BY <1>1, <1>3 DEF StepsTo, Jobs
  <2>2. [at |-> At(host), tree |-> job.res.tree] \notin torn' BY <1>1, <1>3 DEF TornMoves
  <2> QED BY <1>1, <1>2, <1>3, <2>1, <2>2, RestoreGoesOn DEF Destructive
<1>4. CASE /\ Ends
           /\ ask' = [ask EXCEPT !.phase = "asked", !.res = job.res, !.shown = content]
  <2>1. ask' \in Asks /\ AskInformed' BY <1>1, <1>4 DEF Asks, Jobs, AskInformed
  <2> QED BY <1>2, <1>4, <2>1, CaptureEnds, TameSpares DEF RestoreOK
<1> QED BY <1>3, <1>4 DEF RestoreScans

LEMMA RestoreMatchesKeeps ==
  ASSUME ProtocolInv, TornMoves, RestoreFrame, RestoreMatches
  PROVE  RestoreOK
<1> USE DEF ProtocolInv
<1> DEFINE o == AdmitLocationIfResolution(w, host, job.res)
<1>1. w \in States /\ host \in Views /\ Tame(w, w) /\ queue \in Seq(Handlers) BY AskKnown
<1>2. /\ o.ok => Frees(w, o.state, host, job.res)
      /\ ~ o.ok => Tame(w, o.state)
  BY <1>1, AdmitLocationTame
<1>3. /\ \/ StillPinned /\ o.ok /\ SettlesAt(o.state, queue)
         \/ ~ o.ok /\ Abandons(o.state, queue)
         \/ Abandons(w, queue)
      /\ Runs("restore", "settle") /\ ask.mode # "reload" /\ Ends
  BY DEF RestoreMatches
<1> HIDE DEF o
<1>4. CASE StillPinned /\ o.ok /\ SettlesAt(o.state, queue)
  <2>1. Whole(job.res.tree) /\ host = job.view /\ job.step # "write"
    BY <1>3, <1>4 DEF JobFound, FoundRestored, StillPinned, Exact, Runs
  <2>2. w' \in States /\ Yields(w.adm, w'.adm) /\ Spares
    BY <1>2, <1>4, <2>1, FreedSpares DEF SettlesAt
  <2>3. Handled /\ WaitOK' BY <1>1, <1>4, GoesTyped DEF SettlesAt
  <2> QED BY <1>3, <2>2, <2>3, Unasked, CaptureEnds DEF RestoreOK
<1>5. CASE ~ o.ok /\ Abandons(o.state, queue) BY <1>1, <1>2, <1>3, <1>5, AbandonsKeeps
<1>6. CASE Abandons(w, queue) BY <1>1, <1>3, <1>6, AbandonsKeeps
<1> QED BY <1>3, <1>4, <1>5, <1>6

LEMMA RestoreAnsweredKeeps ==
  ASSUME ProtocolInv, TornMoves, RestoreFrame, RestoreAnswered
  PROVE  RestoreOK
<1> USE DEF ProtocolInv
<1>1. w \in States /\ Tame(w, w) /\ queue \in Seq(Handlers) /\ Waits(queue, "ask") \in Seq(Handlers)
  BY AskKnown
<1>2. job' = job /\ job.kind # "restore" /\ ask.res.tree # NoTree
  BY DEF RestoreAnswered, JobKnows, Informed
<1>3. CASE AskGoes("answered") /\ w' = w /\ Goes(Waits(queue, "ask"))
  <2>1. ask' \in Asks /\ AskInformed' BY <1>2, <1>3 DEF AskGoes, Typed, Asks, AskInformed
  <2>2. WaitOK' BY <1>1, <1>3, GoesTyped
  <2> QED BY <1>1, <1>2, <1>3, <2>1, <2>2, AskMoves
<1>4. CASE Abandons(w, queue)
  <2>1. Tame(w, w') /\ WaitOK' /\ Handled BY <1>1, <1>4, AbandonsTame
  <2> QED BY <1>2, <2>1, Unasked, AskMoves
<1> QED BY <1>3, <1>4 DEF RestoreAnswered

LEMMA RestoreRechecksKeeps ==
  ASSUME ProtocolInv, TornMoves, RestoreFrame, RestoreRechecks
  PROVE  RestoreOK
<1> USE DEF ProtocolInv
<1> DEFINE a == RejectTransitionConflict(w.adm)
           s == IF Manual THEN WithAdmission(w, a) ELSE w
<1>1. w \in States /\ w.adm \in Authorities /\ host \in Views /\ Tame(w, w)
      /\ Others \in Seq(Handlers)
  BY AskKnown DEF RestoreRechecks, States
<1>2. a \in Authorities /\ Yields(w.adm, a) BY <1>1, AuthorityYields
<1>3. /\ \/ Abandons(s, Others) /\ Ends
         \/ /\ job' = [NoJob EXCEPT !.kind = "restore", !.step = "rescan",
                                    !.view = host, !.res = ask.res]
            /\ AskGoes("applying") /\ w' = w /\ Goes(Others)
      /\ ask.phase = "answered"
  BY DEF RestoreRechecks
<1> HIDE DEF a
<1>4. Tame(w, s) BY <1>1, <1>2, AdmissionTame
<1> HIDE DEF s
<1>5. ask.res.tree # NoTree /\ ask.res \in Resolutions BY <1>3 DEF Informed, Typed, Asks
<1>6. CASE Abandons(s, Others) /\ Ends BY <1>1, <1>4, <1>6, AbandonsKeeps
<1>7. CASE /\ job' = [NoJob EXCEPT !.kind = "restore", !.step = "rescan",
                                   !.view = host, !.res = ask.res]
           /\ AskGoes("applying") /\ w' = w /\ Goes(Others)
  BY <1>1, <1>5, <1>7, GoesTyped, RestoreBeginsJob
<1> QED BY <1>3, <1>6, <1>7

LEMMA RestoreRescansKeeps ==
  ASSUME ProtocolInv, TornMoves, RestoreFrame, RestoreRescans
  PROVE  RestoreOK
<1> USE DEF ProtocolInv
<1>1. w \in States /\ host \in Views /\ Tame(w, w) /\ queue \in Seq(Handlers) BY AskKnown
<1>2. Tame(w, Claim(w, host)) BY <1>1, ClaimTame
<1>3. job.kind = "restore" /\ job.step = "rescan" /\ job.res.tree # NoTree
      /\ content \in Trees /\ job \in Jobs
  BY DEF RestoreRescans, Runs, JobKnows, Typed
<1>4. CASE Abandons(w, queue) /\ Ends BY <1>1, <1>4, AbandonsKeeps
<1>5. CASE Abandons(Claim(w, host), queue) /\ Ends BY <1>1, <1>2, <1>5, AbandonsKeeps
<1>6. CASE /\ content = ask.shown /\ w' = Claim(w, host)
           /\ job' = [job EXCEPT !.step = "cutover", !.seen = content]
           /\ ask' = ask /\ Stays
  <2>1. job' \in Jobs /\ job'.kind = "restore" /\ job'.view = job.view /\ job'.res = job.res
        /\ job'.step = "cutover" /\ job'.seen = content
    BY <1>3, <1>6 DEF Jobs
  <2>2. ~ FoundRestored' BY <2>1 DEF FoundRestored
  <2> QED BY <1>2, <1>3, <1>6, <2>1, <2>2, StaysTyped, RestoreGoesOn DEF Destructive
<1> QED BY <1>4, <1>5, <1>6 DEF RestoreRescans

LEMMA InitializeBeginsKeeps ==
  ASSUME ProtocolInv, TornMoves, RestoreFrame, InitializeBegins
  PROVE  RestoreOK
<1> USE DEF ProtocolInv
<1>1. Tame(w, w) /\ Others \in Seq(Handlers) BY AskKnown DEF InitializeBegins
<1>2. CASE Abandons(w, Others) /\ Ends BY <1>1, <1>2, AbandonsKeeps
<1>3. CASE /\ Begins("restore", "first", host) /\ AskGoes("initializing")
           /\ w' = w /\ Goes(Others)
  <2> DEFINE r == Missing
  <2>1. job' = [NoJob EXCEPT !.kind = "restore", !.step = "first", !.view = host, !.res = r]
    <3>1. NoJob.res = r BY DEF NoJob
    <3>2. NoJob \in Jobs BY NothingTyped
    <3> HIDE DEF r
    <3> QED BY <1>3, <3>1, <3>2 DEF Begins, Jobs
  <2>2. r \in Resolutions BY DEF Missing, Resolutions
  <2>3. WaitOK' /\ Tame(w, w') BY <1>1, <1>3, GoesTyped
  <2> HIDE DEF r
  <2> QED BY <1>3, <2>1, <2>2, <2>3, RestoreBeginsJob
<1> QED BY <1>2, <1>3 DEF InitializeBegins

LEMMA FirstScansKeeps ==
  ASSUME ProtocolInv, TornMoves, RestoreFrame, FirstScans
  PROVE  RestoreOK
<1> USE DEF ProtocolInv
<1>1. Tame(w, w) /\ job \in Jobs /\ content \in Trees BY AskKnown DEF Typed
<1>2. job.kind = "restore" /\ job.step = "first"
      /\ job' = [job EXCEPT !.step = "commit", !.seen = content]
      /\ w' = w /\ ask' = ask /\ Stays
  BY DEF FirstScans, Runs
<1>3. job' \in Jobs /\ job'.kind = "restore" /\ job'.view = job.view /\ job'.res = job.res
      /\ job'.step = "commit"
  BY <1>1, <1>2 DEF Jobs
<1>4. ~ FoundRestored' BY <1>3 DEF FoundRestored
<1> QED BY <1>1, <1>2, <1>3, <1>4, StaysTyped, RestoreGoesOn DEF Destructive

LEMMA AdmitsFirstKeeps ==
  ASSUME ProtocolInv, NEW s, Tame(w, s), Here \in Entries => ~ IsBlocked(s.slots[Here]),
         AdmitsFirst(s), Ends
  PROVE  RestoreOK
<1> USE DEF ProtocolInv
<1> DEFINE res == [at |-> Here, tree |-> job.seen]
           o == AdmitLocationIfResolution(s, host, res)
<1>1. s \in States /\ host \in Views /\ queue \in Seq(Handlers) BY AskKnown DEF Tame
<1>2. /\ o.ok => Frees(s, o.state, host, res)
      /\ ~ o.ok => Tame(s, o.state)
  BY <1>1, AdmitLocationTame
<1>3. Handled /\ SettlesOr(o, queue, RecoversInLock(o.state, "ask", queue))
  BY DEF AdmitsFirst
<1> HIDE DEF o
<1>4. Tame(s, o.state)
  <2>1. res.at \in Entries => ~ IsBlocked(s.slots[res.at]) OBVIOUS
  <2> HIDE DEF res
  <2> QED BY <1>1, <1>2, <2>1, ReleaseOfTheOpen DEF Frees
<1>5. Tame(w, o.state) BY <1>4, TameTwice
<1>6. CASE w' = o.state /\ Goes(queue) BY <1>1, <1>3, <1>5, <1>6, GoesTyped, RestoreOver
<1>7. CASE RecoversInLock(o.state, "ask", queue)
  BY <1>1, <1>3, <1>5, <1>7, RecoversAskKeeps DEF RecoversAsk, Handled
<1> QED BY <1>3, <1>6, <1>7 DEF SettlesOr

LEMMA AdoptsKeeps ==
  ASSUME ProtocolInv, TornMoves, RestoreFrame, Adopts
  PROVE  RestoreOK
<1> USE DEF ProtocolInv
<1> DEFINE s == Captured(w, Here, job.seen)
<1>1. w \in States /\ Tame(w, w) /\ queue \in Seq(Handlers) BY AskKnown
<1>2. job.seen \in Trees \cup {NoTree} BY DEF Typed, Jobs
<1>3. /\ Ends
      /\ Abandons(w, queue) \/ (w.slots[Here] = BlockedMissing /\ AdmitsFirst(s))
  BY DEF Adopts, CanAdopt
<1>4. ASSUME w.slots[Here] = BlockedMissing
      PROVE  Tame(w, s) /\ (Here \in Entries => ~ IsBlocked(s.slots[Here]))
  <2>1. ~ HasTree(w.slots[Here]) BY <1>4 DEF HasTree, BlockedMissing
  <2> QED BY <1>1, <1>2, <2>1, CapturedTame
<1> HIDE DEF s
<1> QED BY <1>1, <1>3, <1>4, AbandonsKeeps, AdmitsFirstKeeps

LEMMA InitializesKeeps ==
  ASSUME ProtocolInv, TornMoves, RestoreFrame, Initializes
  PROVE  RestoreOK
<1> USE DEF ProtocolInv
<1> DEFINE after == AfterCapture(w, Here, OpenMissing, job.seen)
           p == ProtectNode(after, host)
<1>1. w \in States /\ host \in Views /\ Tame(w, w) /\ queue \in Seq(Handlers) BY AskKnown
<1>2. job.seen \in Trees \cup {NoTree} BY DEF Typed, Jobs
<1>3. Tame(w, after) /\ after \in States
      /\ (CaptureVerdict(w, Here, OpenMissing) = "committed" /\ Here \in Entries =>
            ~ IsBlocked(after.slots[Here]))
  BY <1>1, <1>2, AfterCaptureTame
<1>4. /\ Ends
      /\ \/ Abandons(w, queue)
         \/ CaptureVerdict(w, Here, OpenMissing) = "committed" /\ AdmitsFirst(after)
         \/ SettlesAt(p, queue)
         \/ Abandons(after, queue)
  BY DEF Initializes
<1> HIDE DEF after
<1>5. Tame(w, p) BY <1>1, <1>3, CompositesTame, TameTwice
<1> HIDE DEF p
<1> QED BY <1>1, <1>3, <1>4, <1>5, AbandonsKeeps, AdmitsFirstKeeps, SettlesAtKeeps

LEMMA ReloadLooksKeeps ==
  ASSUME ProtocolInv, TornMoves, RestoreFrame, ReloadLooks
  PROVE  RestoreOK
<1> USE DEF ProtocolInv
<1> DEFINE res == Readable(w, Here)
           o == AdmitCurrentLocation(w, host).state
           p == ProtectNode(o, host)
<1>1. w \in States /\ host \in Views /\ Tame(w, w) /\ Others \in Seq(Handlers)
      /\ Here \in Coordinates
  BY AskKnown DEF ReloadLooks
<1>2. Tame(w, o) /\ o \in States BY <1>1, AdmitCurrentTame DEF Tame
<1>3. \/ RecoversAsk(w, Others) /\ Ends
      \/ SettlesAt(o, Others) /\ Ends
      \/ SettlesAt(p, Others) /\ Ends
      \/ /\ res # Missing
         /\ job' = [NoJob EXCEPT !.kind = "restore", !.step = "scan",
                                 !.view = host, !.res = res]
         /\ AskGoes("looking") /\ w' = w /\ Goes(Others)
  BY DEF ReloadLooks
<1> HIDE DEF o
<1>4. Tame(w, p) BY <1>1, <1>2, CompositesTame, TameTwice
<1>5. res \in Resolutions /\ (res # Missing => res.tree # NoTree)
  BY <1>1, ReadableTyped, NoTreeAssumption
<1> HIDE DEF p, res
<1>6. CASE RecoversAsk(w, Others) /\ Ends BY <1>1, <1>6, RecoversAskKeeps
<1>7. CASE SettlesAt(o, Others) /\ Ends BY <1>1, <1>2, <1>7, SettlesAtKeeps
<1>8. CASE SettlesAt(p, Others) /\ Ends BY <1>1, <1>4, <1>8, SettlesAtKeeps
<1>9. CASE /\ res # Missing
           /\ job' = [NoJob EXCEPT !.kind = "restore", !.step = "scan",
                                   !.view = host, !.res = res]
           /\ AskGoes("looking") /\ w' = w /\ Goes(Others)
  BY <1>1, <1>5, <1>9, GoesTyped, RestoreBeginsJob
<1> QED BY <1>3, <1>6, <1>7, <1>8, <1>9

LEMMA ReloadScansKeeps ==
  ASSUME ProtocolInv, TornMoves, RestoreFrame, ReloadScans
  PROVE  RestoreOK
<1> USE DEF ProtocolInv
<1>1. Tame(w, w) /\ job \in Jobs /\ content \in Trees BY AskKnown DEF Typed
<1>2. job.kind = "restore" /\ job.step = "scan" /\ job.res.tree # NoTree
      /\ job' = [job EXCEPT !.step = "settle", !.seen = content]
      /\ w' = w /\ ask' = ask /\ Stays /\ ask.mode = "reload"
      /\ host' = host /\ content' = content
  BY DEF ReloadScans, Runs, JobKnows, RestoreFrame, hostVars
<1>3. job' \in Jobs /\ job'.kind = "restore" /\ job'.view = job.view /\ job'.res = job.res
      /\ job'.step = "settle" /\ job'.seen = content
  BY <1>1, <1>2 DEF Jobs
<1>4. FoundRestored' => [at |-> At(host), tree |-> job.res.tree] \notin torn'
  BY <1>2, <1>3 DEF FoundRestored, TornMoves
<1> QED BY <1>1, <1>2, <1>3, <1>4, StaysTyped, RestoreGoesOn DEF Destructive

LEMMA ReloadSettlesKeeps ==
  ASSUME ProtocolInv, TornMoves, RestoreFrame, ReloadSettles
  PROVE  RestoreOK
<1> USE DEF ProtocolInv
<1> DEFINE o == AdmitLocationIfResolution(w, host, job.res)
           s == o.state
<1>1. w \in States /\ host \in Views /\ Tame(w, w) /\ queue \in Seq(Handlers) BY AskKnown
<1>2. /\ o.ok => Frees(w, s, host, job.res)
      /\ ~ o.ok => Tame(w, s)
  BY <1>1, AdmitLocationTame
<1>3. /\ Runs("restore", "settle") /\ ask.mode = "reload" /\ Ends
      /\ \/ RecoversAsk(w, queue)
         \/ Exact(job.view) /\ job.seen = job.res.tree /\ o.ok /\ SettlesAt(s, queue)
         \/ ~ o.ok /\ SettlesAt(ProtectNode(s, host), queue)
         \/ SettlesAt(ProtectNode(w, host), queue)
  BY DEF ReloadSettles
<1> HIDE DEF o, s
<1>4. CASE RecoversAsk(w, queue) BY <1>1, <1>3, <1>4, RecoversAskKeeps
<1>5. CASE Exact(job.view) /\ job.seen = job.res.tree /\ o.ok /\ SettlesAt(s, queue)
  <2>1. Whole(job.res.tree) /\ host = job.view /\ job.step # "write"
    BY <1>3, <1>5 DEF JobFound, FoundRestored, Exact, Runs
  <2>2. w' \in States /\ Yields(w.adm, w'.adm) /\ Spares
    BY <1>2, <1>5, <2>1, FreedSpares DEF SettlesAt
  <2>3. Handled /\ WaitOK' BY <1>1, <1>5, GoesTyped DEF SettlesAt
  <2> QED BY <1>3, <2>2, <2>3, Unasked, CaptureEnds DEF RestoreOK
<1>6. CASE ~ o.ok /\ SettlesAt(ProtectNode(s, host), queue)
  <2>1. Tame(w, s) /\ s \in States BY <1>2, <1>6 DEF Tame
  <2>2. Tame(w, ProtectNode(s, host)) BY <1>1, <2>1, CompositesTame, TameTwice
  <2> QED BY <1>1, <1>3, <1>6, <2>2, SettlesAtKeeps
<1>7. CASE SettlesAt(ProtectNode(w, host), queue)
  <2>1. Tame(w, ProtectNode(w, host)) BY <1>1, CompositesTame
  <2> QED BY <1>1, <1>3, <1>7, <2>1, SettlesAtKeeps
<1> QED BY <1>3, <1>4, <1>5, <1>6, <1>7

LEMMA RestoreFailsKeeps ==
  ASSUME ProtocolInv, TornMoves, RestoreFrame, RestoreFails
  PROVE  RestoreOK
<1> USE DEF ProtocolInv
<1>1. w \in States /\ Tame(w, w) /\ queue \in Seq(Handlers) BY AskKnown
<1>2. Ends /\ (Abandons(w, queue) \/ RecoversAsk(w, queue)
               \/ (Handled /\ Withdraws(w, "ask", queue)))
  BY DEF RestoreFails
<1>3. CASE Handled /\ Withdraws(w, "ask", queue)
  <2>1. Tame(w, w') /\ WaitOK' BY <1>1, <1>3, WithdrawsKeeps DEF Handlers
  <2> QED BY <1>2, <1>3, <2>1, RestoreOver
<1> QED BY <1>1, <1>2, <1>3, AbandonsKeeps, RecoversAskKeeps

LEMMA RestoreKeeps ==
  ASSUME ProtocolInv, TornMoves, RestoreNext
  PROVE  StepOK
<1>1. RestoreFrame BY DEF RestoreNext, RestoreFrame
<1>2. RestoreOK
  BY <1>1, RestoreCommandKeeps, SessionStartKeeps, RestoreLooksKeeps, RestoreScansKeeps,
     RestoreMatchesKeeps, RestoreAnsweredKeeps, RestoreRechecksKeeps, RestoreRescansKeeps,
     InitializeBeginsKeeps, FirstScansKeeps, AdoptsKeeps, InitializesKeeps,
     ReloadLooksKeeps, ReloadScansKeeps, ReloadSettlesKeeps, RestoreFailsKeeps
     DEF RestoreNext
<1> QED BY <1>1, <1>2, RestoreStep
-----------------------------------------------------------------------------
(* The invariant, and what follows from it.                                *)

LEMMA InitOK == ASSUME Init PROVE ProtocolInv
<1>2. PICK given \in Settings : \E slots \in given.slots :
        /\ host \in given.views
        /\ content \in given.contents
        /\ w = [slots |-> slots, barrier |-> FALSE, adm |-> NoAuthority, active |-> FALSE]
  BY DEF Init
<1>1. host \in Views BY <1>2, InitialAssumption
<1>3. content \in Trees BY <1>2, InitialAssumption
<1>4. PICK slots \in given.slots :
        w = [slots |-> slots, barrier |-> FALSE, adm |-> NoAuthority, active |-> FALSE]
  BY <1>2
<1>5. slots \in [Entries -> Slot] BY <1>4, InitialAssumption
<1>6. NoAuthority \in Authorities BY DEF NoAuthority, Authorities
<1>7. w \in States /\ w.adm = NoAuthority BY <1>4, <1>5, <1>6 DEF States
<1>8. edits \in 0..MaxEdits /\ moves \in 0..MaxMoves
  BY <1>2, InitialAssumption, BoundsAssumption DEF Init
<1>9. queue \in Seq(Handlers) /\ owed \in [Handlers -> Protections] BY DEF Init, Protections
<1>10. Typed BY <1>1, <1>3, <1>7, <1>8, <1>9, NothingTyped DEF Init, Typed
<1>11. GhostsTyped BY <1>1, AtTyped DEF Init, GhostsTyped, Here, Coordinates
<1>12. Owned BY <1>7, TokensDiffer DEF Owned, NoAuthority
<1>13. Informed /\ Due BY NothingTyped DEF Init, Informed, Sound, Due, NoEvent
<1>14. JobKnows /\ JobPins /\ JobHere /\ JobFound
  BY DEF Init, NoJob, JobKnows, JobPins, JobHere, JobFound, FoundRestored, FoundInherited,
         Destructive, AtRisk
<1>15. TornStaysBlocked BY DEF Init, TornStaysBlocked
<1> QED BY <1>10, <1>11, <1>12, <1>13, <1>14, <1>15 DEF ProtocolInv

LEMMA HostKeeps ==
  ASSUME ProtocolInv, TornMoves, HostNext
  PROVE  StepOK
BY AppendKeeps, NavigateKeeps, HostStaysKeeps, EditsKeep DEF HostNext

LEMMA StepsKeep == ASSUME ProtocolInv, Next PROVE StepOK
<1>1. TornMoves BY DEF Next
<1>2. ASSUME NEW h \in Handlers, Protects(h) PROVE StepOK BY <1>1, <1>2, ProtectsKeeps
<1> QED BY <1>1, <1>2, HostKeeps, CrashKeeps, CaptureKeeps, MutationKeeps, DepartureKeeps,
           ArrivalKeeps, RestoreKeeps DEF Next

LEMMA NextKeeps == ProtocolInv /\ [Next]_vars => ProtocolInv'
<1> SUFFICES ASSUME ProtocolInv, [Next]_vars PROVE ProtocolInv' OBVIOUS
<1>1. CASE Next
  <2>1. StepOK BY <1>1, StepsKeep
  <2>2. GhostsTyped' /\ TornStaysBlocked'
    BY <1>1, <2>1, GhostsKept DEF Next, StepOK, Typed
  <2> QED BY <2>1, <2>2 DEF ProtocolInv, StepOK, JobOK
<1>2. CASE UNCHANGED vars
  <2>1. w' = w /\ host' = host /\ event' = event /\ content' = content /\ edits' = edits
        /\ moves' = moves /\ job' = job /\ call' = call /\ trip' = trip /\ plan' = plan
        /\ arr' = arr /\ ask' = ask /\ queue' = queue /\ owed' = owed
        /\ home' = home /\ torn' = torn
    BY <1>2 DEF vars, hostVars, handlers, ghostVars
  <2>2. Typed' /\ GhostsTyped' /\ Owned' /\ Informed' /\ Due' /\ TornStaysBlocked'
    BY <2>1 DEF ProtocolInv, Typed, GhostsTyped, Owned, Informed, Sound, Due, TornStaysBlocked
  <2>3. JobKnows' /\ JobPins' /\ JobHere' /\ JobFound'
    BY <2>1 DEF ProtocolInv, JobKnows, JobPins, JobHere, JobFound, FoundRestored,
                FoundInherited, Whole, Lost
  <2> QED BY <2>2, <2>3 DEF ProtocolInv
<1> QED BY <1>1, <1>2

LEMMA ProtocolInvariant == Spec => []ProtocolInv
<1>1. Init => ProtocolInv BY InitOK
<1> QED BY <1>1, NextKeeps, PTL DEF Spec

(* Whatever the interleaving of handlers, Pi, the user and crashes, every  *)
(* variable keeps its type: no handler is left holding a view, a token or  *)
(* a checkpoint it was not given.                                          *)
THEOREM ProtocolTypeCorrect == Spec => []TypeOK
<1>1. ProtocolInv => TypeOK BY DEF ProtocolInv, Typed, GhostsTyped, TypeOK
<1> QED BY <1>1, ProtocolInvariant, PTL

(* A preparation or an arrival that refuses commands and captures always   *)
(* has the handler that began it still at work.                            *)
THEOREM TransitionsHaveOwners == Spec => []TransitionHasOwner
<1>1. ProtocolInv => TransitionHasOwner
  BY NothingTyped DEF ProtocolInv, Owned, TransitionHasOwner
<1> QED BY <1>1, ProtocolInvariant, PTL

(* A checkpoint whose files are half written stays recorded and pinned     *)
(* where it belongs until they are complete: no capture, admission, crash  *)
(* or recovery in between replaces or releases it.                         *)
THEOREM TornStaysPinned == Spec => []TornStaysBlocked
<1>1. ProtocolInv => TornStaysBlocked BY DEF ProtocolInv
<1> QED BY <1>1, ProtocolInvariant, PTL

(* Files change without the user only in the two steps of a restore: the   *)
(* first replaces exactly what its preview showed, the second writes the   *)
(* checkpoint that is still pinned at the location.                        *)
THEOREM OnlyWhatWasShownIsOverwritten == Spec => OverwritesOnlyWhatWasShown
<1> DEFINE Shown ==
      content' # content /\ edits' = edits =>
        /\ job.step = "write" =>
             content = IF Arriving THEN arr.plan.preview ELSE ask.shown
        /\ job.step = "rest" =>
             w.slots[At(job.view)] = BlockedCheckpoint(content')
<1>1. ProtocolInv /\ [Next]_vars => [Shown]_vars
  <2> SUFFICES ASSUME ProtocolInv, Next, content' # content, edits' = edits PROVE Shown
    OBVIOUS
  <2>1. WritesSome \/ WritesTheRest
    <3>1. ~ \E e \in Entries : HostAppend(e) BY DEF HostAppend
    <3>2. ~ \E t \in Coordinates, s \in Coordinates : HostNavigate(t, s) BY DEF HostNavigate
    <3>3. ~ \E tree \in Trees : UserEdits(tree)
      BY BoundsAssumption DEF UserEdits, ProtocolInv, Typed
    <3>4. ~ HostNext BY <3>1, <3>2, <3>3 DEF HostNext, HostStays, hostVars
    <3>5. ~ Crash BY DEF Crash
    <3>6. ~ \E h \in Handlers : Protects(h) BY DEF Protects, hostVars
    <3>7. ~ CaptureNext BY DEF CaptureNext, hostVars
    <3>8. ~ DepartureNext BY DEF DepartureNext, hostVars
    <3>9. ~ ArrivalNext BY DEF ArrivalNext
    <3>10. ~ RestoreNext BY DEF RestoreNext, hostVars
    <3>11. MutationNext BY <3>4, <3>5, <3>6, <3>7, <3>8, <3>9, <3>10 DEF Next
    <3> QED BY <3>11 DEF MutationNext, CutOver, BreaksOff, Verifies, Admits, AdmitsUnchanged,
                         FailsToRestore
  <2>2. CASE WritesSome
    <3>1. job.step = "write" /\ content = job.seen BY <2>2 DEF WritesSome
    <3>2. job.seen = IF Arriving THEN arr.plan.preview ELSE ask.shown
      BY <3>1 DEF ProtocolInv, JobKnows, Destructive, Arriving
    <3> QED BY <3>1, <3>2
  <2>3. CASE WritesTheRest
    <3>1. job.step = "rest" /\ content' = job.res.tree BY <2>3 DEF WritesTheRest
    <3> QED BY <3>1 DEF ProtocolInv, JobPins, AtRisk
  <2> QED BY <2>1, <2>2, <2>3
<1> QED BY <1>1, ProtocolInvariant, PTL DEF Spec, OverwritesOnlyWhatWasShown
=============================================================================
