------------------------- MODULE AdmissionHostProofs -------------------------
(***************************************************************************)
(* Theorems about AdmissionHost, for any tree of entries and any number of *)
(* captures, preparations and arrivals: leases and proposals are as good   *)
(* as they claim, and an arrival is ended by its own handler.              *)
(***************************************************************************)
EXTENDS AdmissionHost, TLAPS

(* The host's graph only grows, and while a session_tree event is on its   *)
(* way the leaf moves by appending alone.  So a leaf that has left the     *)
(* place of a live lease has either left a trace in the graph, or not come *)
(* back yet.                                                               *)
LeaseLaw ==
    \A o \in adm.leases :
        /\ expected[o] \in Views
        /\ Extends(host, expected[o])
        /\ o \notin left => expected[o].leaf = host.leaf
        /\ o \in left =>
              \/ expected[o].graph # host.graph
              \/ event /\ expected[o].leaf # host.leaf

AdmInv == AdmTypeOK /\ LeaseLaw /\ ProposalIsBacked
-----------------------------------------------------------------------------
(* What the operations of the authority return.                            *)

LEMMA NothingIsView == NoAuthority \in Authorities /\ NoAuthority.leases = {}
  BY DEF NoAuthority, Authorities

(* Whatever an operation leaves of live or closed authority is well formed.*)
WellFormed(a) ==
    /\ a \in Authorities
    /\ a.leases # {} => a.kind = "live"
    /\ a.kind = "arrival" <=> a.attempt # NoAttempt
    /\ a.kind = "live" => a.view # NoView

Backed(a) ==
    a.proposal # NoPlan =>
        /\ a.kind = "live"
        /\ a.preparing = NoPrep
        /\ a.origin # NoView
        /\ Extends(a.view, a.origin)

LEMMA OperationsAreSound ==
  ASSUME NEW a, WellFormed(a), Backed(a), NEW v \in Views
  PROVE  /\ WellFormed(Reset(a)) /\ Backed(Reset(a))
         /\ \A p \in Preps :
               /\ WellFormed(BeginPreparation(a, p)) /\ Backed(BeginPreparation(a, p))
               /\ WellFormed(FinishPreparation(a, p)) /\ Backed(FinishPreparation(a, p))
               /\ \A plan \in Plans :
                     WellFormed(Propose(a, p, plan)) /\ Backed(Propose(a, p, plan))
         /\ WellFormed(RejectTransitionConflict(a)) /\ Backed(RejectTransitionConflict(a))
         /\ WellFormed(ClaimOrdinaryMutation(a, v)) /\ Backed(ClaimOrdinaryMutation(a, v))
         /\ \A h \in Attempts :
               /\ WellFormed(BeginTreeArrival(a, h)) /\ Backed(BeginTreeArrival(a, h))
               /\ WellFormed(CloseArrival(a, h)) /\ Backed(CloseArrival(a, h))
               /\ WellFormed(SettleArrival(a, h, v)) /\ Backed(SettleArrival(a, h, v))
         /\ \A protected \in BOOLEAN, o \in Ops :
               WellFormed(Decided(a, v, protected, o)) /\ Backed(Decided(a, v, protected, o))
<1> USE NoTokenAssumption, NoViewAssumption DEF WellFormed, Backed, Authorities, NoAuthority, Reset
<1>1. WellFormed(Reset(a)) /\ Backed(Reset(a)) OBVIOUS
<1>2. ASSUME NEW p \in Preps
      PROVE  /\ WellFormed(BeginPreparation(a, p)) /\ Backed(BeginPreparation(a, p))
             /\ WellFormed(FinishPreparation(a, p)) /\ Backed(FinishPreparation(a, p))
  BY DEF BeginPreparation, FinishPreparation, WithoutProposal
<1>3. ASSUME NEW p \in Preps, NEW plan \in Plans
      PROVE  WellFormed(Propose(a, p, plan)) /\ Backed(Propose(a, p, plan))
  <2>1. CASE a.preparing # p \/ a.kind # "live"
    BY <2>1 DEF Propose, FinishPreparation, WithoutProposal
  <2>2. CASE ~ (a.preparing # p \/ a.kind # "live") /\ a.proposal # NoPlan
    BY <2>2 DEF Propose, FinishPreparation, WithoutProposal
  <2>3. CASE ~ (a.preparing # p \/ a.kind # "live") /\ a.proposal = NoPlan
    <3> DEFINE b == [a EXCEPT !.proposal = plan, !.origin = a.view, !.preparing = NoPrep]
    <3>1. Propose(a, p, plan) = b BY <2>3 DEF Propose
    <3>2. b \in Authorities OBVIOUS
    <3>3. /\ b.kind = a.kind /\ b.attempt = a.attempt /\ b.preparing = NoPrep
          /\ b.leases = a.leases /\ b.view = a.view /\ b.origin = a.view
      OBVIOUS
    <3>4. Extends(a.view, a.view) BY DEF Extends
    <3> HIDE DEF b
    <3> QED BY <2>3, <3>1, <3>2, <3>3, <3>4
  <2> QED BY <2>1, <2>2, <2>3
<1>4. WellFormed(RejectTransitionConflict(a)) /\ Backed(RejectTransitionConflict(a))
  BY DEF RejectTransitionConflict, WithoutProposal
<1>5. WellFormed(ClaimOrdinaryMutation(a, v)) /\ Backed(ClaimOrdinaryMutation(a, v))
  <2>1. CASE ~ CanClaim(a) BY <1>4, <2>1 DEF ClaimOrdinaryMutation
  <2>2. CASE CanClaim(a)
    <3>1. ClaimOrdinaryMutation(a, v) = LiveAt(Reset(a), v) BY <2>2 DEF ClaimOrdinaryMutation
    <3>2. WellFormed(LiveAt(Reset(a), v)) /\ Backed(LiveAt(Reset(a), v)) BY DEF LiveAt
    <3> QED BY <3>1, <3>2
  <2> QED BY <2>1, <2>2
<1>6. ASSUME NEW h \in Attempts
      PROVE  /\ WellFormed(BeginTreeArrival(a, h)) /\ Backed(BeginTreeArrival(a, h))
             /\ WellFormed(CloseArrival(a, h)) /\ Backed(CloseArrival(a, h))
             /\ WellFormed(SettleArrival(a, h, v)) /\ Backed(SettleArrival(a, h, v))
  <2>1. WellFormed(BeginTreeArrival(a, h)) /\ Backed(BeginTreeArrival(a, h))
    <3> DEFINE b == BeginTreeArrival(a, h)
               view == IF a.kind # "live" THEN NoView
                       ELSE IF a.proposal # NoPlan THEN a.origin ELSE a.view
               plan == IF a.kind = "live" THEN a.proposal ELSE NoPlan
    <3>1. view \in Views \cup {NoView} /\ plan \in Plans \cup {NoPlan} OBVIOUS
    <3>2. b = [NoAuthority EXCEPT !.kind = "arrival", !.attempt = h, !.view = view, !.plan = plan]
      BY DEF BeginTreeArrival
    <3> HIDE DEF b, view, plan
    <3>3. b \in Authorities BY <3>1, <3>2
    <3>4. b.kind = "arrival" /\ b.attempt = h /\ b.leases = {} /\ b.proposal = NoPlan BY <3>2
    <3>5. h # NoAttempt OBVIOUS
    <3>6. WellFormed(b) /\ Backed(b) BY <3>3, <3>4, <3>5
    <3> QED BY <3>6 DEF b
  <2>2. WellFormed(CloseArrival(a, h)) /\ Backed(CloseArrival(a, h))
    BY DEF CloseArrival, ArrivalIsCurrent
  <2>3. WellFormed(SettleArrival(a, h, v)) /\ Backed(SettleArrival(a, h, v))
    BY DEF SettleArrival, ArrivalIsCurrent, LiveAt
  <2> QED BY <2>1, <2>2, <2>3
<1>7. ASSUME NEW protected \in BOOLEAN, NEW o \in Ops
      PROVE  WellFormed(Decided(a, v, protected, o)) /\ Backed(Decided(a, v, protected, o))
  <2> DEFINE b == IF At(v) = At(a.view) THEN Carried(a, v) ELSE LiveAt(a, v)
  <2>1. ASSUME a.kind = "live", Extends(v, a.view)
        PROVE  WellFormed(b) /\ Backed(b) /\ b.kind = "live"
    BY <2>1 DEF Carried, LiveAt, Extends
  <2>2. Decision(a, v, protected) # "not-admitted" => a.kind = "live" /\ Extends(v, a.view)
    BY DEF Decision
  <2>3. \/ /\ WellFormed([b EXCEPT !.leases = @ \cup {o}])
           /\ Backed([b EXCEPT !.leases = @ \cup {o}])
        \/ Decision(a, v, protected) = "not-admitted"
    BY <2>1, <2>2
  <2> QED BY <1>1, <2>1, <2>2, <2>3 DEF Decided
<1> QED BY <1>1, <1>2, <1>3, <1>4, <1>5, <1>6, <1>7

(* No operation but a capture's own decision hands out a lease.            *)
LEMMA LeasesAreDecided ==
  ASSUME NEW a \in Authorities, NEW v
  PROVE  /\ Reset(a).leases \subseteq a.leases
         /\ \A p \in Preps :
               /\ BeginPreparation(a, p).leases \subseteq a.leases
               /\ FinishPreparation(a, p).leases \subseteq a.leases
               /\ \A plan \in Plans : Propose(a, p, plan).leases \subseteq a.leases
         /\ RejectTransitionConflict(a).leases \subseteq a.leases
         /\ ClaimOrdinaryMutation(a, v).leases \subseteq a.leases
         /\ \A h \in Attempts :
               /\ BeginTreeArrival(a, h).leases = {}
               /\ CloseArrival(a, h).leases \subseteq a.leases
               /\ SettleArrival(a, h, v).leases \subseteq a.leases
         /\ \A protected \in BOOLEAN, o \in Ops :
               Decided(a, v, protected, o).leases \subseteq
                  IF Decision(a, v, protected) = "capture" THEN a.leases \cup {o} ELSE a.leases
<1> USE DEF Authorities, Reset, NoAuthority
<1>1. Reset(a).leases \subseteq a.leases OBVIOUS
<1>2. ASSUME NEW p \in Preps
      PROVE  /\ BeginPreparation(a, p).leases \subseteq a.leases
             /\ FinishPreparation(a, p).leases \subseteq a.leases
             /\ \A plan \in Plans : Propose(a, p, plan).leases \subseteq a.leases
  BY DEF BeginPreparation, FinishPreparation, Propose, WithoutProposal
<1>3. RejectTransitionConflict(a).leases \subseteq a.leases
  BY DEF RejectTransitionConflict, WithoutProposal
<1>4. ClaimOrdinaryMutation(a, v).leases \subseteq a.leases
  BY <1>3 DEF ClaimOrdinaryMutation, LiveAt
<1>5. ASSUME NEW h \in Attempts
      PROVE  /\ BeginTreeArrival(a, h).leases = {}
             /\ CloseArrival(a, h).leases \subseteq a.leases
             /\ SettleArrival(a, h, v).leases \subseteq a.leases
  BY DEF BeginTreeArrival, CloseArrival, SettleArrival, LiveAt
<1>6. ASSUME NEW protected \in BOOLEAN, NEW o \in Ops
      PROVE  Decided(a, v, protected, o).leases \subseteq
                IF Decision(a, v, protected) = "capture" THEN a.leases \cup {o} ELSE a.leases
  BY DEF Decided, Carried, LiveAt
<1> QED BY <1>1, <1>2, <1>3, <1>4, <1>5, <1>6
-----------------------------------------------------------------------------
LEMMA AdmInitHolds == AdmInit => AdmInv
<1> SUFFICES ASSUME AdmInit PROVE AdmInv OBVIOUS
<1>1. host \in Views BY DEF AdmInit, Views
<1>2. AdmTypeOK BY <1>1, NothingIsView DEF AdmInit, AdmTypeOK, NoAuthority
<1>3. LeaseLaw BY NothingIsView DEF AdmInit, LeaseLaw
<1>4. ProposalIsBacked BY DEF AdmInit, ProposalIsBacked, NoAuthority
<1> QED BY <1>2, <1>3, <1>4 DEF AdmInv

(* A step of the authority that hands out no lease, while the host stays.  *)
LEMMA AuthorityStepKeepsInv ==
  ASSUME AdmInv, UNCHANGED <<host, expected, left>>, event' \in BOOLEAN,
         arriving' \in SUBSET Attempts,
         WellFormed(adm'), Backed(adm'), adm'.leases \subseteq adm.leases,
         event' = event \/ adm'.leases = {}
  PROVE  AdmInv'
<1>1. AdmTypeOK' BY DEF AdmInv, AdmTypeOK, WellFormed
<1>2. LeaseLaw' BY DEF AdmInv, LeaseLaw
<1>3. ProposalIsBacked' BY DEF Backed, ProposalIsBacked
<1> QED BY <1>1, <1>2, <1>3 DEF AdmInv

LEMMA HostStepKeepsInv ==
  ASSUME AdmInv, NEW r, HostAppend(r) \/ HostNavigate(r), r \in Raw \cup {NoEntry}
  PROVE  AdmInv'
<1> USE DEF AdmInv, AdmTypeOK, HostMoves
<1>0. adm.leases \subseteq Ops BY DEF Authorities
<1>1. CASE HostAppend(r)
  <2>1. host' \in Views BY <1>1 DEF HostAppend, Views
  <2>2. AdmTypeOK' BY <1>1, <2>1 DEF HostAppend
  <2>3. UNCHANGED <<adm, expected, event>>
        /\ host'.graph = host.graph \cup {r} /\ host'.leaf = r /\ r \notin host.graph
        /\ left' = IF r = host.leaf THEN left ELSE Ops
    BY <1>1 DEF HostAppend
  <2>4. LeaseLaw' BY <1>0, <2>3 DEF LeaseLaw, Extends
  <2>5. ProposalIsBacked' BY <2>3 DEF ProposalIsBacked
  <2> QED BY <2>2, <2>4, <2>5
<1>2. CASE HostNavigate(r)
  <2>1. host' \in Views /\ host'.graph = host.graph /\ host'.leaf = r
    BY <1>2 DEF HostNavigate, Views
  <2>2. AdmTypeOK' BY <1>2, <2>1 DEF HostNavigate
  <2>3. event' /\ ~ event /\ UNCHANGED <<adm, expected>>
        /\ left' = IF r = host.leaf THEN left ELSE Ops
    BY <1>2 DEF HostNavigate, Views
  <2>4. LeaseLaw' BY <1>0, <2>1, <2>3 DEF LeaseLaw, Extends
  <2>5. ProposalIsBacked' BY <2>3 DEF ProposalIsBacked
  <2> QED BY <2>2, <2>4, <2>5
<1> QED BY <1>1, <1>2

LEMMA AuthorityIsSound == AdmInv => WellFormed(adm) /\ Backed(adm) /\ host \in Views
  BY DEF AdmInv, AdmTypeOK, ProposalIsBacked, WellFormed, Backed

LEMMA ArrivalStepKeepsInv ==
  ASSUME AdmInv, NEW h \in Attempts, Tree(h) \/ Arrive(h) \/ CutoverArrival(h)
  PROVE  AdmInv'
<1> USE AuthorityIsSound
<1>0. adm \in Authorities /\ event \in BOOLEAN /\ arriving \in SUBSET Attempts
  BY DEF AdmInv, AdmTypeOK
<1>1. CASE Tree(h)
  <2>1. adm' = BeginTreeArrival(adm, h) /\ event' = FALSE
        /\ UNCHANGED <<host, expected, left>> /\ arriving' = arriving \cup {h}
    BY <1>1 DEF Tree
  <2>2. WellFormed(adm') /\ Backed(adm') BY <2>1, OperationsAreSound
  <2>3. adm'.leases = {} BY <1>0, <2>1, LeasesAreDecided
  <2> QED BY <1>0, <2>1, <2>2, <2>3, AuthorityStepKeepsInv
<1>2. ASSUME NEW a, Returns(h, a), a \in {SettleArrival(adm, h, host), CloseArrival(adm, h)}
      PROVE  AdmInv'
  <2>1. adm' = a /\ UNCHANGED <<host, event, expected, left>> /\ arriving' = arriving \ {h}
    BY <1>2 DEF Returns
  <2>2. WellFormed(adm') /\ Backed(adm') BY <1>2, <2>1, OperationsAreSound
  <2>3. adm'.leases \subseteq adm.leases BY <1>0, <1>2, <2>1, LeasesAreDecided
  <2> QED BY <1>0, <2>1, <2>2, <2>3, AuthorityStepKeepsInv
<1>3. CASE Arrive(h)
  BY <1>2, <1>3 DEF Arrive, AdmitArrival, CarryArrival
<1>4. CASE CutoverArrival(h)
  <2>1. adm' = Reset(adm) /\ UNCHANGED <<host, event, arriving, expected, left>>
    BY <1>4 DEF CutoverArrival, Becomes
  <2>2. WellFormed(adm') /\ Backed(adm') BY <2>1, OperationsAreSound
  <2>3. adm'.leases \subseteq adm.leases BY <1>0, <2>1, LeasesAreDecided
  <2> QED BY <1>0, <2>1, <2>2, <2>3, AuthorityStepKeepsInv
<1> QED BY <1>1, <1>3, <1>4

LEMMA QuietStepKeepsInv ==
  ASSUME AdmInv, Cutover \/ Quarantine \/ Claim \/ (\E p \in Preps : Prepare(p))
  PROVE  AdmInv'
<1> USE AuthorityIsSound
<1>0. adm \in Authorities /\ event \in BOOLEAN /\ arriving \in SUBSET Attempts
  BY DEF AdmInv, AdmTypeOK
<1>1. ASSUME NEW a, Becomes(a), UNCHANGED expected,
             WellFormed(a), Backed(a), a.leases \subseteq adm.leases
      PROVE  AdmInv'
  BY <1>0, <1>1, AuthorityStepKeepsInv DEF Becomes
<1>2. CASE Cutover \/ Quarantine
  BY <1>0, <1>1, <1>2, OperationsAreSound, LeasesAreDecided DEF Cutover, Quarantine
<1>3. CASE Claim
  BY <1>0, <1>1, <1>3, OperationsAreSound, LeasesAreDecided DEF Claim
<1>4. CASE \E p \in Preps : Prepare(p)
  BY <1>0, <1>1, <1>4, OperationsAreSound, LeasesAreDecided DEF Prepare
<1> QED BY <1>2, <1>3, <1>4

LEMMA CaptureStepKeepsInv ==
  ASSUME AdmInv, NEW o \in Ops, NEW protected \in BOOLEAN, DecideCapture(o, protected)
  PROVE  AdmInv'
<1> USE AuthorityIsSound
<1>0. AdmTypeOK /\ LeaseLaw BY DEF AdmInv
<1>1. adm' = Decided(adm, host, protected, o) /\ UNCHANGED <<host, event, arriving>>
  BY DEF DecideCapture
<1>2. WellFormed(adm') /\ Backed(adm') BY <1>1, OperationsAreSound
<1>3. adm'.leases \subseteq
        IF Decision(adm, host, protected) = "capture" THEN adm.leases \cup {o} ELSE adm.leases
  BY <1>0, <1>1, LeasesAreDecided DEF AdmTypeOK
<1>4. CASE Decision(adm, host, protected) = "capture"
  <2>1. expected' = [expected EXCEPT ![o] = host] /\ left' = left \ {o}
    BY <1>4 DEF DecideCapture
  <2>2. AdmTypeOK' BY <1>0, <1>1, <1>2, <2>1 DEF AdmTypeOK, WellFormed
  <2>3. LeaseLaw' BY <1>0, <1>1, <1>3, <1>4, <2>1 DEF LeaseLaw, AdmTypeOK, Extends
  <2> QED BY <1>2, <2>2, <2>3 DEF AdmInv, Backed, ProposalIsBacked
<1>5. CASE Decision(adm, host, protected) # "capture"
  <2>1. UNCHANGED <<expected, left>> BY <1>5 DEF DecideCapture
  <2>2. AdmTypeOK' BY <1>0, <1>1, <1>2, <2>1 DEF AdmTypeOK, WellFormed
  <2>3. LeaseLaw' BY <1>0, <1>1, <1>3, <1>5, <2>1 DEF LeaseLaw
  <2> QED BY <1>2, <2>2, <2>3 DEF AdmInv, Backed, ProposalIsBacked
<1> QED BY <1>4, <1>5

LEMMA AdmInvIsInvariant == AdmSpec => []AdmInv
<1>1. AdmInv /\ [AdmNext]_admVars => AdmInv'
  <2> SUFFICES ASSUME AdmInv, [AdmNext]_admVars PROVE AdmInv' OBVIOUS
  <2>1. CASE \E r \in Raw : HostAppend(r) BY <2>1, HostStepKeepsInv
  <2>2. CASE \E r \in Raw \cup {NoEntry} : HostNavigate(r) BY <2>2, HostStepKeepsInv
  <2>3. CASE \E h \in Attempts : Tree(h) \/ Arrive(h) \/ CutoverArrival(h)
    BY <2>3, ArrivalStepKeepsInv
  <2>4. CASE Cutover \/ Quarantine \/ Claim \/ (\E p \in Preps : Prepare(p))
    BY <2>4, QuietStepKeepsInv
  <2>5. CASE \E o \in Ops, protected \in BOOLEAN : DecideCapture(o, protected)
    BY <2>5, CaptureStepKeepsInv
  <2>6. CASE UNCHANGED admVars
    BY <2>6 DEF admVars, AdmInv, AdmTypeOK, LeaseLaw, ProposalIsBacked
  <2> QED BY <2>1, <2>2, <2>3, <2>4, <2>5, <2>6 DEF AdmNext
<1> QED BY <1>1, AdmInitHolds, PTL DEF AdmSpec
-----------------------------------------------------------------------------
(* The variables keep their types; leases come with live authority only,   *)
(* and an attempt with an arrival only.                                    *)
THEOREM AdmissionTypeCorrect == AdmSpec => []AdmTypeOK
<1>1. AdmInv => AdmTypeOK BY DEF AdmInv
<1> QED BY <1>1, AdmInvIsInvariant, PTL

(* The snapshot a capture was admitted for and its lease prove together    *)
(* that the session never left the place in between.                       *)
THEOREM LeasesStayPut == AdmSpec => []LeaseStayedPut
<1>1. AdmInv => LeaseStayedPut BY DEF AdmInv, LeaseLaw, LeaseStayedPut, LeaseIsCurrent
<1> QED BY <1>1, AdmInvIsInvariant, PTL

(* A navigation's proposal waits only on live authority that nobody is     *)
(* replacing, and that has seen all the proposal was made from.            *)
THEOREM ProposalsAreBacked == AdmSpec => []ProposalIsBacked
<1>1. AdmInv => ProposalIsBacked BY DEF AdmInv
<1> QED BY <1>1, AdmInvIsInvariant, PTL

(* No operation of another makes an arrival's authority live.              *)
LEMMA ArrivalsAreLeftAlone ==
  ASSUME NEW a \in Authorities, NEW v, NEW h \in Attempts, ArrivalIsCurrent(a, h)
  PROVE  /\ \A p \in Preps :
               /\ BeginPreparation(a, p).kind # "live"
               /\ FinishPreparation(a, p).kind # "live"
               /\ \A plan \in Plans : Propose(a, p, plan).kind # "live"
         /\ RejectTransitionConflict(a).kind # "live"
         /\ ClaimOrdinaryMutation(a, v).kind # "live"
         /\ Reset(a).kind # "live"
         /\ \A i \in Attempts :
               /\ BeginTreeArrival(a, i).kind # "live"
               /\ CloseArrival(a, i).kind # "live"
               /\ i # h => SettleArrival(a, i, v).kind # "live"
         /\ \A protected \in BOOLEAN, o \in Ops : Decided(a, v, protected, o).kind # "live"
<1> USE DEF Authorities, Reset, NoAuthority, ArrivalIsCurrent, WithoutProposal
<1>1. ASSUME NEW p \in Preps
      PROVE  /\ BeginPreparation(a, p).kind # "live"
             /\ FinishPreparation(a, p).kind # "live"
             /\ \A plan \in Plans : Propose(a, p, plan).kind # "live"
  BY DEF BeginPreparation, FinishPreparation, Propose
<1>2. RejectTransitionConflict(a).kind # "live" /\ ClaimOrdinaryMutation(a, v).kind # "live"
  BY DEF RejectTransitionConflict, ClaimOrdinaryMutation, CanClaim, InTransition
<1>3. ASSUME NEW i \in Attempts
      PROVE  /\ BeginTreeArrival(a, i).kind # "live"
             /\ CloseArrival(a, i).kind # "live"
             /\ i # h => SettleArrival(a, i, v).kind # "live"
  BY DEF BeginTreeArrival, CloseArrival, SettleArrival
<1>4. ASSUME NEW protected \in BOOLEAN, NEW o \in Ops
      PROVE  Decided(a, v, protected, o).kind # "live"
  <2>1. a.kind # "live" BY DEF ArrivalIsCurrent
  <2>2. Decision(a, v, protected) = "not-admitted" BY <2>1 DEF Decision
  <2>3. Decided(a, v, protected, o) = a BY <2>1, <2>2 DEF Decided
  <2> QED BY <2>1, <2>3
<1> QED BY <1>1, <1>2, <1>3, <1>4

LEMMA StepsLeaveArrivals ==
  ASSUME AdmInv, [AdmNext]_admVars,
         NEW h \in Attempts, ArrivalIsCurrent(adm, h), adm'.kind = "live"
  PROVE  h \in arriving /\ h \notin arriving'
<1>0. adm \in Authorities /\ adm.kind # "live"
  BY DEF AdmInv, AdmTypeOK, ArrivalIsCurrent
<1>1. CASE \E r \in Raw : HostAppend(r) BY <1>0, <1>1 DEF HostAppend
<1>2. CASE \E r \in Raw \cup {NoEntry} : HostNavigate(r) BY <1>0, <1>2 DEF HostNavigate
<1>3. ASSUME NEW i \in Attempts, Tree(i) \/ CutoverArrival(i) PROVE FALSE
  BY <1>0, <1>3, ArrivalsAreLeftAlone DEF Tree, CutoverArrival, Becomes
<1>4. ASSUME NEW i \in Attempts, Arrive(i) PROVE h \in arriving /\ h \notin arriving'
  <2>1. i \in arriving /\ i \notin arriving'
    BY <1>4 DEF Arrive, Returns
  <2>2. adm' \in {SettleArrival(adm, i, host), CloseArrival(adm, i)}
    BY <1>4 DEF Arrive, Returns, AdmitArrival, CarryArrival
  <2>3. i = h BY <1>0, <2>2, ArrivalsAreLeftAlone
  <2> QED BY <2>1, <2>3
<1>5. CASE Cutover \/ Quarantine \/ Claim \/ (\E p \in Preps : Prepare(p))
  BY <1>0, <1>5, ArrivalsAreLeftAlone DEF Cutover, Quarantine, Claim, Prepare, Becomes
<1>6. CASE \E o \in Ops, protected \in BOOLEAN : DecideCapture(o, protected)
  BY <1>0, <1>6, ArrivalsAreLeftAlone DEF DecideCapture
<1>7. CASE UNCHANGED admVars BY <1>0, <1>7 DEF admVars
<1> QED BY <1>1, <1>2, <1>3, <1>4, <1>5, <1>6, <1>7 DEF AdmNext

(* An arrival that has taken over the authority is made live only by its   *)
(* own handler as it returns: no capture, claim or preparation slips in.   *)
THEOREM ArrivalsKeepAuthority == AdmSpec => ArrivalOwnsAuthority
<1>1. AdmInv /\ [AdmNext]_admVars =>
        \A h \in Attempts :
           ArrivalIsCurrent(adm, h) /\ adm'.kind = "live" => h \in arriving /\ h \notin arriving'
  BY StepsLeaveArrivals
<1>2. AdmInv /\ [AdmNext]_admVars =>
        [\A h \in Attempts :
           ArrivalIsCurrent(adm, h) /\ adm'.kind = "live" =>
              h \in arriving /\ h \notin arriving']_admVars
  BY <1>1
<1> QED BY <1>2, AdmInvIsInvariant, PTL DEF AdmSpec, ArrivalOwnsAuthority
=============================================================================
