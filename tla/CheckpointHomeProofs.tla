------------------------ MODULE CheckpointHomeProofs ------------------------
(***************************************************************************)
(* The files are admitted for capture only where they belong, and recorded *)
(* only there: the proofs of AdmittedAtHome and CapturesBelong of          *)
(* CheckpointProtocol, on top of its ProtocolInv.  HomeInv says where the  *)
(* files are at every moment, QueueInv in which order handlers come to it. *)
(***************************************************************************)
EXTENDS CheckpointProtocolProofs
-----------------------------------------------------------------------------
(* Where Pi's session, a departure and its proposal say they are.          *)

HostRooted ==
    /\ Here \in host.graph \cup {NoEntry}
    /\ \A e \in host.graph \cap Entries : Ancestors(e) \subseteq host.graph

Targets ==
    /\ trip.target \in host.graph \cup {NoEntry}
    /\ plan.destination \in host.graph \cup {NoEntry}
    /\ arr.plan.destination \in host.graph \cup {NoEntry}

TripSame == trip.kind = "same-location" => trip.target = At(trip.view)

PlanSame == plan.kind = "same-location" => plan.destination = StableOf(plan.old)

EventSame == event.due /\ event.new = event.old => event.landing = StableOf(event.old)

MapInv == HostRooted /\ Targets /\ TripSame /\ PlanSame /\ EventSame

LEMMA ParentLine ==
  ASSUME NEW e \in Entries
  PROVE  \/ Parent(e) = NoEntry /\ Ancestors(e) = {e}
         \/ Parent(e) \in Entries /\ Ancestors(e) = Ancestors(Parent(e)) \cup {e}
<1> DEFINE s == Path[e]
           n == Len(s)
<1>1. s \in Seq(Entries) /\ n \in Nat /\ n > 0 /\ s[n] = e
      /\ \A i \in 1..n : Path[s[i]] = SubSeq(s, 1, i)
  BY PathAssumption, SMTT(30)
<1>2. Parent(e) = (IF n = 1 THEN NoEntry ELSE s[n - 1])
      /\ Ancestors(e) = {s[i] : i \in 1..n}
  BY DEF Parent, Ancestors
<1> HIDE DEF s
<1>3. CASE n = 1
  BY <1>1, <1>2, <1>3
<1>4. CASE n # 1
  <2> DEFINE p == s[n - 1]
  <2> HIDE DEF n
  <2>1. n - 1 \in 1..n /\ n - 1 \in Nat BY <1>1, <1>4
  <2> USE DEF n
  <2>2. p \in Entries BY <1>1, <2>1
  <2>3. Path[p] = SubSeq(s, 1, n - 1) BY <1>1, <2>1
  <2>4. Len(Path[p]) = n - 1 /\ \A i \in 1..(n - 1) : Path[p][i] = s[i]
    BY <1>1, <2>1, <2>3
  <2>5. Ancestors(p) = {s[i] : i \in 1..(n - 1)} BY <2>4 DEF Ancestors
  <2>6. {s[i] : i \in 1..n} = {s[i] : i \in 1..(n - 1)} \cup {s[n]} BY <1>1
  <2> QED BY <1>1, <1>2, <1>4, <2>2, <2>5, <2>6
<1> QED BY <1>3, <1>4

LEMMA SelfInLine ==
  ASSUME NEW e \in Entries
  PROVE  e \in Ancestors(e)
BY ParentLine

LEMMA StableStays ==
  /\ \A e \in Coordinates : StableOf(e) = e
  /\ \A v \in Views : v.leaf \in Coordinates => At(v) = v.leaf
BY LabelAssumption DEF Coordinates, StableOf, At

(* A coordinate that Pi appends below the one it stands on.                *)
LEMMA Grows ==
  ASSUME NEW e \in Entries, HostRooted, Parent(e) \in host.graph \cup {NoEntry},
         host' = [graph |-> host.graph \cup {e}, leaf |-> e]
  PROVE  HostRooted' /\ Here' = e
<1>1. Here' = e BY StableStays, LabelAssumption DEF Here, At, StableOf, Coordinates
<1>2. host'.graph = host.graph \cup {e} OBVIOUS
<1>3. Ancestors(e) \subseteq host.graph \cup {e} BY ParentLine, NoEntryAssumption DEF HostRooted
<1> QED BY <1>1, <1>2, <1>3 DEF HostRooted

LEMMA NoTripSays == NoTrip.target = NoEntry /\ NoTrip.kind = "no-node"
BY DEF NoTrip

(* What a step of a departure under way leaves of where it goes.           *)
TripMoves ==
    \/ trip' = NoTrip
    \/ /\ trip'.target = trip.target /\ trip'.view = trip.view
       /\ trip'.kind = "same-location" =>
             trip.kind = "same-location" \/ trip.target = At(trip.view)

LEMMA TripMapped ==
  ASSUME MapInv, TripMoves, host' = host
  PROVE  trip'.target \in host'.graph \cup {NoEntry} /\ TripSame'
BY NoTripSays DEF MapInv, Targets, TripSame, TripMoves

LEMMA TripsMove ==
  ASSUME ProtocolInv,
         \/ DepartureLooks \/ DepartureScans \/ DeparturePreviews
         \/ DepartureAnswered \/ DepartureRechecks \/ DepartureRescans
         \/ DeparturePublishes \/ DepartureCommits \/ DepartureSettles
         \/ DepartureFails \/ DepartureProposed
  PROVE  TripMoves
<1>1. trip \in Trips BY DEF ProtocolInv, Typed
<1>2. CASE DepartureLooks
  <2>1. CASE trip' = NoTrip BY <2>1 DEF TripMoves
  <2>2. ASSUME NEW p, NEW so, NEW sl,
               trip' = [trip EXCEPT !.phase = p, !.source = so, !.slot = sl]
        PROVE  TripMoves
    BY <1>1, <2>2 DEF TripMoves, Trips
  <2>3. trip' = NoTrip \/ \E p, so, sl : trip' = [trip EXCEPT !.phase = p, !.source = so, !.slot = sl]
    <3> DEFINE b == Boundary(w, trip.view, DepartOp)
               sl == IF b.kind = "capture" THEN w.slots[Here] ELSE trip.slot
    <3>1. \/ trip' = NoTrip
          \/ trip' = [trip EXCEPT !.phase = "looking", !.source = b.kind,
                            !.slot = IF b.kind = "capture" THEN w.slots[Here] ELSE @]
      BY <1>2 DEF DepartureLooks, Cancels
    <3>2. [trip EXCEPT !.phase = "looking", !.source = b.kind,
                            !.slot = IF b.kind = "capture" THEN w.slots[Here] ELSE @]
            = [trip EXCEPT !.phase = "looking", !.source = b.kind, !.slot = sl]
      BY <1>1 DEF Trips
    <3> QED BY <3>1, <3>2
  <2> QED BY <2>1, <2>2, <2>3
<1>3. CASE DepartureScans
  BY <1>1, <1>3 DEF DepartureScans, Cancels, TripMoves, Trips
<1>4. CASE DeparturePreviews
  <2> DEFINE kind == TargetKind(w, Source, trip.target, trip.source, FALSE)
             res  == Readable(w, trip.target)
             plain == kind \in {"no-node", "same-location", "inherit-source"} \/ res = Missing
             ph == IF content = res.tree THEN "answered" ELSE "asked"
  <2>1. trip' = IF plain
                  THEN [trip EXCEPT !.phase = "answered", !.kind = kind]
                  ELSE [trip EXCEPT !.phase = ph, !.kind = "restore", !.res = res, !.shown = content]
    BY <1>4 DEF DeparturePreviews
  <2>2. kind = "same-location" => trip.target = At(trip.view)
    BY DEF TargetKind, Source
  <2> HIDE DEF kind, res, plain, ph
  <2> QED BY <1>1, <2>1, <2>2 DEF TripMoves, Trips
<1>5. CASE DepartureAnswered
  BY <1>1, <1>5 DEF DepartureAnswered, TripMoves, Trips
<1>6. CASE DepartureRechecks
  BY <1>1, <1>6 DEF DepartureRechecks, Cancels, TripMoves, Trips
<1>7. CASE DepartureRescans BY <1>7 DEF DepartureRescans, Cancels, TripMoves
<1>8. CASE DeparturePublishes BY <1>8 DEF DeparturePublishes, Cancels, TripMoves
<1>9. CASE DepartureCommits BY <1>9 DEF DepartureCommits, Cancels, TripMoves
<1>10. CASE DepartureSettles
  BY <1>1, <1>10 DEF DepartureSettles, Cancels, TripMoves, Trips
<1>11. CASE DepartureFails BY <1>11 DEF DepartureFails, Cancels, TripMoves
<1>12. CASE DepartureProposed
  BY <1>1, <1>12 DEF DepartureProposed, TripMoves, Trips
<1> QED BY <1>2, <1>3, <1>4, <1>5, <1>6, <1>7, <1>8, <1>9, <1>10, <1>11, <1>12

LEMMA MapOfPi ==
  ASSUME ProtocolInv, MapInv, HostNext
  PROVE  MapInv'
<1> USE DEF MapInv
<1>1. ASSUME NEW e \in Entries, HostAppend(e) PROVE MapInv'
  <2>1. host' = [graph |-> host.graph \cup {e}, leaf |-> e] /\ Parent(e) = Here
        /\ event' = event /\ trip' = trip /\ plan' = plan /\ arr' = arr
    BY <1>1 DEF HostAppend, handlers
  <2>2. HostRooted' BY <2>1, Grows DEF HostRooted
  <2>3. host.graph \subseteq host'.graph BY <2>1
  <2> QED BY <2>1, <2>2, <2>3 DEF Targets, TripSame, PlanSame, EventSame
<1>2. ASSUME NEW t \in Coordinates, NEW s \in Coordinates, HostNavigate(t, s) PROVE MapInv'
  <2>1. /\ trip' = NoTrip /\ plan' = plan /\ arr' = arr
        /\ event' = [old |-> host.leaf, new |-> host'.leaf, landing |-> t, due |-> TRUE]
        /\ t \in host.graph \cup {NoEntry}
        /\ \/ s = NoEntry /\ host' = [host EXCEPT !.leaf = t]
           \/ /\ s \in Entries \ host.graph
              /\ Parent(s) = t
              /\ host' = [graph |-> host.graph \cup {s}, leaf |-> s]
    BY <1>2 DEF HostNavigate
  <2>2. host \in Views BY DEF ProtocolInv, Typed
  <2>3. CASE s = NoEntry /\ host' = [host EXCEPT !.leaf = t]
    <3>1. host'.graph = host.graph /\ host'.leaf = t BY <2>2, <2>3 DEF Views
    <3>2. Here' = t BY <3>1, StableStays DEF Here, At
    <3>3. HostRooted' BY <2>1, <3>1, <3>2 DEF HostRooted
    <3>4. EventSame' BY <2>1, <3>1, StableStays DEF EventSame
    <3> QED BY <2>1, <3>1, <3>3, <3>4, NoTripSays DEF Targets, TripSame, PlanSame
  <2>4. CASE /\ s \in Entries \ host.graph
             /\ Parent(s) = t
             /\ host' = [graph |-> host.graph \cup {s}, leaf |-> s]
    <3>1. HostRooted' BY <2>1, <2>4, Grows
    <3>2. host.graph \subseteq host'.graph /\ host'.leaf = s BY <2>4
    <3>3. host.leaf # s
      <4>1. SUFFICES ASSUME host.leaf = s PROVE FALSE OBVIOUS
      <4>2. Here = s BY <2>2, <2>4, <4>1, StableStays DEF Here, Coordinates
      <4> QED BY <2>4, <4>2, NoEntryAssumption DEF HostRooted
    <3>4. EventSame' BY <2>1, <3>2, <3>3 DEF EventSame
    <3> QED BY <2>1, <3>1, <3>2, <3>4, NoTripSays DEF Targets, TripSame, PlanSame
  <2> QED BY <2>1, <2>3, <2>4
<1>3. CASE HostStays
  BY <1>3, NoTripSays
     DEF HostStays, hostVars, HostRooted, Targets, TripSame, PlanSame, EventSame, Here
<1>4. ASSUME NEW tree \in Trees, UserEdits(tree) PROVE MapInv'
  BY <1>4 DEF UserEdits, handlers, HostRooted, Targets, TripSame, PlanSame, EventSame, Here
<1> QED BY <1>1, <1>2, <1>3, <1>4 DEF HostNext

LEMMA NothingSays ==
  /\ NothingPlanned.destination = NoEntry /\ NothingPlanned.kind = "no-node"
  /\ NoArrival.plan = NothingPlanned
  /\ ~ NoEvent.due
BY DEF NothingPlanned, NoArrival, NoEvent

(* A step that leaves Pi's session where it is.                            *)
LEMMA MapStands ==
  ASSUME MapInv, host' = host,
         trip' = trip \/ TripMoves,
         plan' = plan \/ plan' = NothingPlanned,
         event' = event \/ event' = NoEvent,
         arr'.plan \in {arr.plan, NothingPlanned, plan}
  PROVE  MapInv'
<1>1. TripMoves BY DEF TripMoves, TripSame, MapInv
<1>2. trip'.target \in host'.graph \cup {NoEntry} /\ TripSame' BY <1>1, TripMapped
<1>3. HostRooted' BY DEF MapInv, HostRooted, Here
<1>4. PlanSame' /\ EventSame' BY NothingSays DEF MapInv, PlanSame, EventSame
<1> QED BY <1>2, <1>3, <1>4, NothingSays DEF MapInv, Targets

LEMMA MapOfDepartures ==
  ASSUME ProtocolInv, MapInv, DepartureNext
  PROVE  MapInv'
<1>1. host' = host /\ event' = event /\ arr' = arr BY DEF DepartureNext, hostVars
<1>2. ASSUME NEW t \in Coordinates, DepartureCalled(t), plan' = plan PROVE MapInv'
  <2>1. t \in host.graph \cup {NoEntry} /\ trip = NoTrip BY <1>2 DEF DepartureCalled
  <2>2. trip' = trip \/ trip' = [NoTrip EXCEPT !.phase = "queued", !.view = host, !.target = t]
    BY <1>2 DEF DepartureCalled
  <2>3. CASE trip' = trip BY <1>1, <1>2, <2>3, MapStands
  <2>4. CASE trip' = [NoTrip EXCEPT !.phase = "queued", !.view = host, !.target = t]
    <3>1. trip'.target = t /\ trip'.kind = "no-node" BY <2>4 DEF NoTrip
    <3> QED BY <1>1, <1>2, <2>1, <3>1
            DEF MapInv, HostRooted, Here, Targets, TripSame, PlanSame, EventSame
  <2> QED BY <2>2, <2>3, <2>4
<1>3. CASE DepartureProposed
  <2>1. TripMoves BY <1>3, TripsMove
  <2>2. CASE plan' = plan BY <1>1, <2>1, <2>2, MapStands
  <2>3. CASE plan' = PlanOf(trip)
    <3>1. plan'.destination = trip.target /\ plan'.kind = trip.kind
          /\ plan'.old = trip.view.leaf
      BY <2>3 DEF PlanOf
    <3>2. PlanSame' BY <3>1 DEF PlanSame, MapInv, TripSame, At
    <3>3. trip'.target \in host'.graph \cup {NoEntry} /\ TripSame'
      BY <1>1, <2>1, TripMapped
    <3> QED BY <1>1, <3>1, <3>2, <3>3 DEF MapInv, HostRooted, Here, Targets, EventSame
  <2> QED BY <1>3, <2>2, <2>3 DEF DepartureProposed
<1>4. CASE /\ \/ DepartureLooks \/ DepartureScans \/ DeparturePreviews
              \/ DepartureAnswered \/ DepartureRechecks \/ DepartureRescans
              \/ DeparturePublishes \/ DepartureCommits \/ DepartureSettles
              \/ DepartureFails
           /\ plan' = plan
  BY <1>1, <1>4, TripsMove, MapStands
<1> QED BY <1>2, <1>3, <1>4 DEF DepartureNext

LEMMA ArrivalPlans ==
  ASSUME ProtocolInv, ArrivalNext
  PROVE  arr'.plan \in {arr.plan, NothingPlanned, plan}
<1>1. arr \in Arrivals BY DEF ProtocolInv, Typed
<1>2. CASE TreeEvent BY <1>2 DEF TreeEvent
<1>3. CASE ArrivalEnds BY <1>3, NothingSays DEF ArrivalEnds
<1>4. CASE arr' = arr BY <1>4
<1>5. CASE arr' = [arr EXCEPT !.phase = "running"] BY <1>1, <1>5 DEF Arrivals
<1>6. CASE ArrivalBegins
  BY <1>3, <1>5, <1>6 DEF ArrivalBegins, ArrivalRecovers, ArrivalSettlesBy
<1>7. CASE ArrivalScans BY <1>3, <1>4, <1>7 DEF ArrivalScans, ArrivalRecovers
<1>8. CASE ArrivalDetaches BY <1>3, <1>8 DEF ArrivalDetaches, ArrivalRecovers, ArrivalSettlesBy
<1>9. CASE ArrivalMaterializes
  BY <1>3, <1>9 DEF ArrivalMaterializes, ArrivalRecovers, ArrivalSettlesBy
<1>10. CASE ArrivalInherits BY <1>3, <1>10 DEF ArrivalInherits, ArrivalRecovers, ArrivalSettlesBy
<1>11. CASE ArrivalRestores BY <1>3, <1>4, <1>11 DEF ArrivalRestores, ArrivalRecovers
<1>12. CASE ArrivalFails BY <1>3, <1>12 DEF ArrivalFails, ArrivalRecovers
<1> QED BY <1>2, <1>6, <1>7, <1>8, <1>9, <1>10, <1>11, <1>12 DEF ArrivalNext

LEMMA MutationArrivals ==
  ASSUME MutationNext
  PROVE  arr' = arr \/ arr' = NoArrival
BY DEF MutationNext, CutOver, WritesSome, WritesTheRest, BreaksOff, Verifies, Admits,
       AdmitsUnchanged, FailsToRestore, Remains, HandlerReturns

LEMMA MapKeeps ==
  ASSUME ProtocolInv, MapInv, Next
  PROVE  MapInv'
<1>1. CASE HostNext BY <1>1, MapOfPi
<1>2. CASE Crash
  <2>1. host' = host /\ trip' = NoTrip /\ plan' = NothingPlanned /\ event' = NoEvent
        /\ arr'.plan = NothingPlanned
    BY <1>2, NothingSays DEF Crash
  <2> QED BY <2>1, MapStands DEF TripMoves
<1>3. ASSUME NEW h \in Handlers, Protects(h) PROVE MapInv'
  <2>1. host' = host /\ trip' = trip /\ plan' = plan /\ event' = event /\ arr' = arr
    BY <1>3 DEF Protects, hostVars, handlers
  <2> QED BY <2>1, MapStands
<1>4. CASE CaptureNext
  <2>1. host' = host /\ trip' = trip /\ plan' = plan /\ event' = event /\ arr' = arr
    BY <1>4 DEF CaptureNext, hostVars
  <2> QED BY <2>1, MapStands
<1>5. CASE MutationNext
  <2>1. host' = host /\ trip' = trip /\ plan' = plan /\ event' = event BY <1>5 DEF MutationNext
  <2> QED BY <1>5, <2>1, MutationArrivals, NothingSays, MapStands
<1>6. CASE DepartureNext BY <1>6, MapOfDepartures
<1>7. CASE ArrivalNext
  <2>1. host' = host /\ trip' = trip BY <1>7 DEF ArrivalNext
  <2>2. (plan' = plan /\ event' = event) \/ (plan' = NothingPlanned /\ event' = NoEvent)
    BY <1>7 DEF ArrivalNext, TreeEvent
  <2> QED BY <1>7, <2>1, <2>2, ArrivalPlans, MapStands
<1>8. CASE RestoreNext
  <2>1. host' = host /\ trip' = trip /\ plan' = plan /\ event' = event /\ arr' = arr
    BY <1>8 DEF RestoreNext, hostVars
  <2> QED BY <2>1, MapStands
<1> QED BY <1>1, <1>2, <1>3, <1>4, <1>5, <1>6, <1>7, <1>8 DEF Next
-----------------------------------------------------------------------------
(* What the operations leave of a location.                                *)

(* No capture is let through at v.                                         *)
Shut(s, v) == At(v) = NoEntry \/ s.barrier \/ IsBlocked(s.slots[At(v)])

(* Whoever does not participate gets no authority, and only coordinates of *)
(* the session are recorded.                                               *)
Contained(s, t, v) ==
    /\ ~ t.active => t.adm.kind = "closed" \/ (~ s.active /\ t.adm.kind = s.adm.kind)
    /\ \A e \in Entries \ v.graph : t.slots[e] = s.slots[e]

(* No location is opened, and authority is granted only where it is shut.  *)
Modest(s, t, v) ==
    /\ Contained(s, t, v)
    /\ Shut(s, v) => Shut(t, v)
    /\ Shut(t, v) \/ t.adm.kind = s.adm.kind \/ s.adm.kind = "live"

Rooted(v) == v \in Views /\ Line(At(v)) \subseteq v.graph

SameRows(s, t) == t.slots = s.slots /\ t.barrier = s.barrier

LEMMA Kinds ==
  ASSUME NEW a \in Authorities
  PROVE  /\ Reset(a).kind = "closed"
         /\ WithoutProposal(a).kind = a.kind
         /\ RejectTransitionConflict(a).kind = a.kind
         /\ \A p \in Preps : BeginPreparation(a, p).kind = a.kind
                             /\ FinishPreparation(a, p).kind = a.kind
         /\ \A v : /\ LiveAt(a, v).kind = "live"
                   /\ CanClaim(a) => ClaimOrdinaryMutation(a, v).kind = "live"
                   /\ ~ CanClaim(a) => ClaimOrdinaryMutation(a, v).kind = a.kind
         /\ \A p \in Preps, way \in Plans : Propose(a, p, way).kind = a.kind
<1>1. /\ Reset(a).kind = "closed" /\ WithoutProposal(a).kind = a.kind
      /\ \A v : LiveAt(a, v).kind = "live"
  BY DEF Reset, NoAuthority, WithoutProposal, LiveAt, Authorities
<1>2. RejectTransitionConflict(a).kind = a.kind BY <1>1 DEF RejectTransitionConflict
<1>3. \A p \in Preps : FinishPreparation(a, p).kind = a.kind
  BY DEF FinishPreparation, Authorities
<1>4. \A p \in Preps : BeginPreparation(a, p).kind = a.kind
  BY <1>1 DEF BeginPreparation, Authorities
<1>5. ASSUME NEW v
      PROVE  /\ CanClaim(a) => ClaimOrdinaryMutation(a, v).kind = "live"
             /\ ~ CanClaim(a) => ClaimOrdinaryMutation(a, v).kind = a.kind
  BY <1>2 DEF ClaimOrdinaryMutation, LiveAt, Reset, NoAuthority
<1>6. ASSUME NEW p \in Preps, NEW way \in Plans PROVE Propose(a, p, way).kind = a.kind
  <2> DEFINE b == WithoutProposal(a)
  <2>1. b.kind = a.kind /\ b \in Authorities BY DEF WithoutProposal, Authorities
  <2>2. FinishPreparation(b, p).kind = a.kind BY <2>1 DEF FinishPreparation, Authorities
  <2>3. [a EXCEPT !.proposal = way, !.origin = a.view, !.preparing = NoPrep].kind = a.kind
    BY DEF Authorities
  <2> QED BY <1>3, <2>2, <2>3 DEF Propose
<1> QED BY <1>1, <1>2, <1>3, <1>4, <1>5, <1>6

LEMMA RowsKept ==
  ASSUME NEW s \in States, NEW v
  PROVE  /\ \A a \in Authorities :
               /\ SameRows(s, WithAdmission(s, a))
               /\ WithAdmission(s, a).adm = a /\ WithAdmission(s, a).active = s.active
         /\ SameRows(s, Quarantined(s)) /\ Quarantined(s).active = s.active
         /\ Quarantined(s).adm.kind = "closed"
         /\ SameRows(s, Withdrawn(s)) /\ ~ Withdrawn(s).active
         /\ Withdrawn(s).adm.kind = "closed"
         /\ SameRows(s, Claim(s, v)) /\ Claim(s, v).active = s.active
         /\ ~ s.active => Claim(s, v).adm.kind = "closed"
         /\ s.active /\ CanClaim(s.adm) => Claim(s, v).adm.kind = "live"
         /\ s.active /\ ~ CanClaim(s.adm) => Claim(s, v).adm.kind = s.adm.kind
<1>1. ASSUME NEW a
      PROVE  /\ SameRows(s, WithAdmission(s, a))
             /\ WithAdmission(s, a).adm = a /\ WithAdmission(s, a).active = s.active
  BY DEF WithAdmission, States, SameRows
<1>2. s.adm \in Authorities BY DEF States
<1>3. SameRows(s, Quarantined(s)) /\ Quarantined(s).active = s.active
      /\ Quarantined(s).adm.kind = "closed"
  BY <1>1, <1>2, Kinds DEF Quarantined
<1>4. Quarantined(s) \in States BY QuarantinedTame
<1>5. SameRows(s, Withdrawn(s)) /\ ~ Withdrawn(s).active /\ Withdrawn(s).adm.kind = "closed"
  BY <1>3, <1>4 DEF Withdrawn, States, SameRows
<1>6. SameRows(s, Claim(s, v)) /\ Claim(s, v).active = s.active
      /\ (~ s.active => Claim(s, v).adm.kind = "closed")
      /\ (s.active /\ CanClaim(s.adm) => Claim(s, v).adm.kind = "live")
      /\ (s.active /\ ~ CanClaim(s.adm) => Claim(s, v).adm.kind = s.adm.kind)
  BY <1>1, <1>2, <1>3, Kinds DEF Claim
<1> QED BY <1>1, <1>3, <1>5, <1>6

LEMMA ModestTwice ==
  ASSUME NEW s, NEW t, NEW u, NEW v, Contained(s, t, v), Contained(t, u, v)
  PROVE  /\ Contained(s, u, v)
         /\ Modest(s, t, v) /\ Modest(t, u, v) => Modest(s, u, v)
BY DEF Contained, Modest

LEMMA AdmissionModest ==
  ASSUME NEW s \in States, NEW a \in Authorities, NEW v, a.kind = s.adm.kind
  PROVE  Modest(s, WithAdmission(s, a), v)
<1> DEFINE t == WithAdmission(s, a)
<1>1. SameRows(s, t) /\ t.adm = a /\ t.active = s.active BY RowsKept
<1> HIDE DEF t
<1>2. Modest(s, t, v) BY <1>1 DEF SameRows, Contained, Shut, Modest
<1> QED BY <1>2 DEF t

LEMMA ClaimModest ==
  ASSUME NEW s \in States, NEW v
  PROVE  /\ Contained(s, Claim(s, v), v) /\ Contained(s, Quarantined(s), v)
         /\ Contained(s, Withdrawn(s), v)
         /\ Shut(s, v) <=> Shut(Claim(s, v), v)
         /\ Shut(s, v) <=> Shut(Quarantined(s), v)
         /\ Shut(s, v) \/ (~ (s.active /\ CanClaim(s.adm)) /\ (s.active \/ s.adm.kind = "closed"))
               => Modest(s, Claim(s, v), v)
         /\ CanClaim(s.adm) => Modest(s, Quarantined(s), v)
<1> DEFINE c == Claim(s, v)
           q == Quarantined(s)
           u == Withdrawn(s)
<1>1. SameRows(s, c) /\ c.active = s.active
      /\ (~ s.active => c.adm.kind = "closed")
      /\ (s.active /\ ~ CanClaim(s.adm) => c.adm.kind = s.adm.kind)
  BY RowsKept
<1>2. SameRows(s, q) /\ q.active = s.active /\ q.adm.kind = "closed" BY RowsKept
<1>3. SameRows(s, u) /\ ~ u.active /\ u.adm.kind = "closed" BY RowsKept
<1>4. CanClaim(s.adm) => s.adm.kind \in {"live", "closed"}
  BY DEF CanClaim, InTransition, States, Authorities
<1> HIDE DEF c, q, u
<1>5. Contained(s, c, v) /\ Contained(s, q, v) /\ Contained(s, u, v)
  BY <1>1, <1>2, <1>3 DEF SameRows, Contained
<1>6. (Shut(s, v) <=> Shut(c, v)) /\ (Shut(s, v) <=> Shut(q, v))
  BY <1>1, <1>2 DEF SameRows, Shut
<1>7. Shut(s, v) \/ (~ (s.active /\ CanClaim(s.adm)) /\ (s.active \/ s.adm.kind = "closed"))
        => Modest(s, c, v)
  BY <1>1, <1>5, <1>6 DEF Modest
<1>8. CanClaim(s.adm) => Modest(s, q, v) BY <1>2, <1>4, <1>5, <1>6 DEF Modest
<1> QED BY <1>5, <1>6, <1>7, <1>8 DEF c, q, u

LEMMA LineSelf ==
  ASSUME NEW v, Rooted(v), At(v) # NoEntry
  PROVE  At(v) \in Entries /\ At(v) \in v.graph /\ At(v) \in Ancestors(At(v))
         /\ Ancestors(At(v)) \subseteq v.graph
<1>1. At(v) \in Entries BY AtTyped DEF Rooted
<1> QED BY <1>1, SelfInLine DEF Rooted, Line

LEMMA BlockSlotBlocks ==
  ASSUME NEW slot \in Slot, NEW tree
  PROVE  IsBlocked(BlockSlot(slot, tree))
BY DEF BlockSlot, IsBlocked, Slot

LEMMA ProtectModest ==
  ASSUME NEW s \in States, NEW v, Rooted(v)
  PROVE  /\ Shut(ProtectLocation(s, v), v)
         /\ Modest(s, ProtectLocation(s, v), v)
<1> DEFINE e == At(v)
           tree == Effective(s, v).tree
           p == ProtectLocation(s, v)
<1>1. p.adm = s.adm /\ p.active = s.active BY ProtectTame DEF Rooted
<1>2. CASE e = NoEntry
  <2>1. p = [s EXCEPT !.barrier = TRUE] BY <1>2 DEF ProtectLocation
  <2>2. p.slots = s.slots BY <2>1 DEF States
  <2> QED BY <1>1, <1>2, <2>2 DEF Shut, Modest, Contained
<1>3. CASE e # NoEntry
  <2>1. e \in Entries /\ e \in v.graph BY <1>3, LineSelf
  <2>2. p = [s EXCEPT !.slots[e] = BlockSlot(s.slots[e], tree)] BY <1>3 DEF ProtectLocation, States
  <2>3. p.slots = [s.slots EXCEPT ![e] = BlockSlot(s.slots[e], tree)] BY <2>2 DEF States
  <2>4. s.slots \in [Entries -> Slot] BY DEF States
  <2>5. IsBlocked(p.slots[e])
    <3>1. p.slots[e] = BlockSlot(s.slots[e], tree) BY <2>1, <2>3, <2>4
    <3>2. s.slots[e] \in Slot BY <2>1, <2>4
    <3> QED BY <3>1, <3>2, BlockSlotBlocks
  <2>6. \A d \in Entries \ v.graph : p.slots[d] = s.slots[d] BY <2>1, <2>3, <2>4
  <2> QED BY <1>1, <2>5, <2>6 DEF Shut, Modest, Contained
<1> QED BY <1>2, <1>3

LEMMA ShutModest ==
  ASSUME NEW s, NEW t, NEW v, Contained(s, t, v), Shut(t, v)
  PROVE  Modest(s, t, v)
BY DEF Modest

LEMMA ProtectsModest ==
  ASSUME NEW s \in States, NEW v, Rooted(v)
  PROVE  /\ Shut(ProtectNode(s, v), v) /\ Modest(s, ProtectNode(s, v), v)
         /\ Shut(Protected(s, v), v) /\ Modest(s, Protected(s, v), v)
         /\ Shut(Recover(s, v), v) /\ Modest(s, Recover(s, v), v)
         /\ Shut(Barred(s), v) /\ Modest(s, Barred(s), v)
<1>1. v \in Views BY DEF Rooted
<1>2. Shut(ProtectNode(s, v), v) /\ Contained(s, ProtectNode(s, v), v)
  <2> DEFINE p == ProtectLocation(s, v)
  <2>1. p \in States BY <1>1, ProtectTame
  <2>2. Shut(p, v) /\ Contained(s, p, v) BY ProtectModest DEF Modest
  <2> HIDE DEF p
  <2>3. Shut(Claim(p, v), v) /\ Contained(p, Claim(p, v), v) BY <2>1, <2>2, ClaimModest
  <2>4. Contained(s, Claim(p, v), v) BY <2>2, <2>3, ModestTwice
  <2> QED BY <2>3, <2>4 DEF ProtectNode, p
<1>3. Shut(Protected(s, v), v) /\ Contained(s, Protected(s, v), v) /\ Protected(s, v) \in States
  <2> DEFINE q == Quarantined(s)
  <2>1. q \in States BY QuarantinedTame
  <2>2. Contained(s, q, v) BY ClaimModest
  <2> HIDE DEF q
  <2> DEFINE p == ProtectLocation(q, v)
  <2>3. Shut(p, v) /\ Contained(q, p, v) BY <2>1, ProtectModest DEF Modest
  <2>4. p \in States BY <1>1, <2>1, ProtectTame
  <2> HIDE DEF p
  <2>5. Contained(s, p, v) BY <2>2, <2>3, ModestTwice
  <2> QED BY <2>3, <2>4, <2>5 DEF Protected, p, q
<1>4. Shut(Recover(s, v), v) /\ Contained(s, Recover(s, v), v)
  <2> DEFINE r == Protected(s, v)
  <2>1. r \in States /\ Shut(r, v) /\ Contained(s, r, v) BY <1>3
  <2> HIDE DEF r
  <2>2. Shut(Claim(r, v), v) /\ Contained(r, Claim(r, v), v) BY <2>1, ClaimModest
  <2>3. Contained(s, Claim(r, v), v) BY <2>1, <2>2, ModestTwice
  <2> QED BY <2>1, <2>2, <2>3 DEF Recover, r
<1>5. Shut(Barred(s), v) /\ Contained(s, Barred(s), v)
  <2> DEFINE q == Quarantined(s)
             b == [q EXCEPT !.barrier = TRUE]
  <2>1. q \in States BY QuarantinedTame
  <2>2. Contained(s, q, v) BY ClaimModest
  <2> HIDE DEF q
  <2>3. b.barrier /\ b.adm = q.adm /\ b.active = q.active /\ b.slots = q.slots
    BY <2>1 DEF States
  <2> HIDE DEF b
  <2>4. Shut(b, v) /\ Contained(s, b, v) BY <2>2, <2>3 DEF Shut, Contained
  <2> QED BY <2>4 DEF Barred, b, q
<1> QED BY <1>2, <1>3, <1>4, <1>5, ShutModest

LEMMA ReconciledModest ==
  ASSUME NEW s \in States, NEW v, Rooted(v), At(v) # NoEntry
  PROVE  LET r == [s EXCEPT !.slots = Reconciled(@, Ancestors(At(v))), !.barrier = FALSE]
         IN  /\ Shut(r, v) /\ Modest(s, r, v) /\ ~ r.barrier
             /\ \A e \in Entries : IsBlocked(s.slots[e]) => r.slots[e].capture = "blocked"
<1> DEFINE path == Ancestors(At(v))
           sl == Reconciled(s.slots, path)
           r == [s EXCEPT !.slots = sl, !.barrier = FALSE]
<1>1. At(v) \in Entries /\ At(v) \in path /\ path \subseteq v.graph BY LineSelf
<1>2. s.slots \in [Entries -> Slot] BY DEF States
<1>3. \A e \in Entries : e \in path => IsBlocked(sl[e])
  BY <1>2, BlockSlotBlocks DEF Reconciled
<1>4. \A e \in Entries : e \notin path => sl[e] = s.slots[e] BY DEF Reconciled
<1> HIDE DEF sl
<1>5. r.slots = sl /\ r.adm = s.adm /\ r.active = s.active /\ ~ r.barrier BY DEF States
<1> HIDE DEF r, path
<1>6. Shut(r, v) /\ Contained(s, r, v) BY <1>1, <1>3, <1>4, <1>5 DEF Shut, Contained
<1>7. \A e \in Entries : IsBlocked(s.slots[e]) => r.slots[e].capture = "blocked"
  BY <1>3, <1>4, <1>5 DEF IsBlocked
<1>8. Modest(s, r, v) BY <1>6, ShutModest
<1> QED BY <1>5, <1>6, <1>7, <1>8 DEF r, sl, path

LEMMA ReconcileModest ==
  ASSUME NEW s \in States, NEW v, Rooted(v)
  PROVE  /\ Modest(s, ReconcileBarrier(s, v), v)
         /\ At(v) # NoEntry => ~ ReconcileBarrier(s, v).barrier
         /\ s.barrier => Shut(ReconcileBarrier(s, v), v)
<1>1. CASE s.barrier /\ At(v) # NoEntry
  BY <1>1, ReconciledModest DEF ReconcileBarrier
<1>2. CASE ~ (s.barrier /\ At(v) # NoEntry)
  <2>1. ReconcileBarrier(s, v) = s BY <1>2 DEF ReconcileBarrier
  <2> QED BY <1>2, <2>1 DEF Modest, Contained, Shut
<1> QED BY <1>1, <1>2

LEMMA BoundaryModest ==
  ASSUME NEW s \in States, NEW v, Rooted(v), NEW o \in Ops
  PROVE  Modest(s, Boundary(s, v, o).state, v)
<1> DEFINE b == LocationIsBlocked(s, v)
           a == Decided(s.adm, v, b, o)
           d == WithAdmission(s, a)
           k == ReconcileBarrier(s, v)
           verdict == Decision(s.adm, v, b)
<1>1. v \in Views /\ s.adm \in Authorities BY DEF Rooted, States
<1>2. CASE At(v) # NoEntry /\ s.barrier
  <2>1. Boundary(s, v, o).state = Claim(k, v) BY <1>2 DEF Boundary
  <2>2. k \in States BY <1>1, CompositesTame
  <2>3. Modest(s, k, v) /\ Shut(k, v) BY <1>2, ReconcileModest
  <2> HIDE DEF k
  <2>4. Modest(k, Claim(k, v), v) BY <2>2, <2>3, ClaimModest
  <2>5. Modest(s, Claim(k, v), v) BY <2>3, <2>4, ModestTwice DEF Modest
  <2> QED BY <2>1, <2>5
<1>3. CASE ~ (At(v) # NoEntry /\ s.barrier) /\ ~ s.active
  BY <1>3, ProtectsModest DEF Boundary
<1>4. CASE ~ (At(v) # NoEntry /\ s.barrier) /\ s.active
  <2>1. Boundary(s, v, o).state =
          IF verdict = "not-admitted" /\ At(v) # NoEntry THEN ProtectNode(d, v) ELSE d
    BY <1>4 DEF Boundary
  <2>2. a.kind = s.adm.kind \/ s.adm.kind = "live"
    <3> SUFFICES ASSUME s.adm.kind # "live" PROVE a = s.adm OBVIOUS
    <3> HIDE DEF b
    <3> QED BY DEF Decided, Decision
  <2>3. d.adm = a /\ d.active = s.active /\ SameRows(s, d)
    BY DEF WithAdmission, States, SameRows
  <2>4. Contained(s, d, v) BY <1>4, <2>3 DEF Contained, SameRows
  <2>5. Modest(s, d, v) BY <2>2, <2>3, <2>4 DEF Modest, SameRows, Shut
  <2>6. d \in States
    <3>1. b \in BOOLEAN BY DEF LocationIsBlocked, IsBlocked
    <3>2. a \in Authorities
      <4> HIDE DEF b
      <4> QED BY <1>1, <3>1, AuthorityYields
    <3> QED BY <3>2 DEF WithAdmission, States
  <2> HIDE DEF d
  <2>7. Modest(d, ProtectNode(d, v), v) BY <2>6, ProtectsModest
  <2>8. Modest(s, ProtectNode(d, v), v) BY <2>5, <2>7, ModestTwice DEF Modest
  <2> QED BY <2>1, <2>5, <2>8
<1> QED BY <1>2, <1>3, <1>4
-----------------------------------------------------------------------------
(* Captures, admissions and cutovers at a location.                        *)

LEMMA ReconciledContained ==
  ASSUME NEW s \in States, NEW v, NEW path, path \subseteq v.graph
  PROVE  Contained(s, [s EXCEPT !.slots = Reconciled(@, path), !.barrier = FALSE], v)
<1> DEFINE sl == Reconciled(s.slots, path)
           r == [s EXCEPT !.slots = sl, !.barrier = FALSE]
<1>1. \A e \in Entries : e \notin path => sl[e] = s.slots[e] BY DEF Reconciled
<1> HIDE DEF sl
<1>2. r.slots = sl /\ r.adm = s.adm /\ r.active = s.active BY DEF States
<1> HIDE DEF r
<1>3. Contained(s, r, v) BY <1>1, <1>2 DEF Contained
<1> QED BY <1>3 DEF r, sl

LEMMA SlotContained ==
  ASSUME NEW s \in States, NEW v, NEW e, e \in Entries => e \in v.graph, NEW x
  PROVE  LET t == [s EXCEPT !.slots[e] = x]
         IN  /\ Contained(s, t, v) /\ t.adm = s.adm /\ t.active = s.active
             /\ t.barrier = s.barrier /\ t.slots = [s.slots EXCEPT ![e] = x]
<1> DEFINE t == [s EXCEPT !.slots[e] = x]
<1>1. t.slots = [s.slots EXCEPT ![e] = x] /\ t.adm = s.adm /\ t.active = s.active
      /\ t.barrier = s.barrier
  BY DEF States
<1> HIDE DEF t
<1>2. s.slots \in [Entries -> Slot] BY DEF States
<1>3. \A d \in Entries \ v.graph : t.slots[d] = s.slots[d] BY <1>1, <1>2
<1>4. Contained(s, t, v) BY <1>1, <1>3 DEF Contained
<1> QED BY <1>1, <1>4 DEF t

LEMMA AfterCaptureModest ==
  ASSUME NEW s \in States, NEW v, Rooted(v), NEW e, Line(e) \subseteq v.graph,
         e \in Entries => e \in v.graph, NEW x, NEW tree
  PROVE  LET t == AfterCapture(s, e, x, tree)
         IN  /\ Contained(s, t, v) /\ t.active = s.active
             /\ e = At(v) => Modest(s, t, v)
<1> DEFINE verdict == CaptureVerdict(s, e, x)
           r == [s EXCEPT !.slots = Reconciled(@, Line(e)), !.barrier = FALSE]
           c == Captured(s, e, tree)
<1>1. AfterCapture(s, e, x, tree) =
        IF verdict = "settled" THEN r ELSE IF verdict = "committed" THEN c ELSE s
  BY DEF AfterCapture
<1>2. Contained(s, r, v) /\ r.active = s.active BY ReconciledContained DEF States
<1>3. e = At(v) => Modest(s, r, v)
  <2>1. CASE At(v) = NoEntry BY <1>2, <2>1 DEF Modest, Shut
  <2>2. CASE At(v) # NoEntry /\ e = At(v) BY <2>2, ReconciledModest DEF Line
  <2> QED BY <2>1, <2>2
<1>4. Contained(s, c, v) /\ c.adm = s.adm /\ c.active = s.active /\ c.barrier = s.barrier
  <2> DEFINE y == OpenCheckpoint(tree)
             t == [s EXCEPT !.slots[e] = y]
  <2>1. c = t BY DEF Captured
  <2> HIDE DEF y, c
  <2>2. /\ t.slots = [s.slots EXCEPT ![e] = y]
        /\ t.adm = s.adm /\ t.active = s.active /\ t.barrier = s.barrier
    BY DEF States
  <2> HIDE DEF t
  <2>3. s.slots \in [Entries -> Slot] BY DEF States
  <2>4. \A d \in Entries \ v.graph : t.slots[d] = s.slots[d] BY <2>2, <2>3
  <2>5. Contained(s, t, v) BY <2>2, <2>4 DEF Contained
  <2> QED BY <2>1, <2>2, <2>5
<1>5. e = At(v) /\ verdict = "committed" => Modest(s, c, v)
  BY <1>4 DEF CaptureVerdict, CanCapture, Modest, Shut
<1>6. Modest(s, s, v) BY DEF Modest, Contained
<1> HIDE DEF r, c, verdict
<1> QED BY <1>1, <1>2, <1>3, <1>4, <1>5, <1>6 DEF Modest

LEMMA ReleasedContained ==
  ASSUME NEW s \in States, NEW v, Rooted(v), At(v) # NoEntry, NEW res
  PROVE  /\ Contained(s, Released(s, v, res), v)
         /\ Released(s, v, res).adm = s.adm /\ Released(s, v, res).active = s.active
<1> DEFINE e == At(v)
           x == [s.slots[e] EXCEPT !.capture = "open"]
           t == [s EXCEPT !.slots[e] = x]
<1>1. e \in Entries /\ e \in v.graph BY LineSelf
<1>2. Released(s, v, res) = t BY <1>1 DEF Released, States
<1> HIDE DEF e, x
<1>3. Contained(s, t, v) /\ t.adm = s.adm /\ t.active = s.active BY <1>1, SlotContained
<1> QED BY <1>2, <1>3

(* What an admission that granted authority has found.                     *)
FoundAt(s, v, res) ==
    s.active /\ At(v) \in Entries /\ Effective(s, v) = res /\ res.tree # NoTree

LEMMA AdmitLocationHome ==
  ASSUME NEW s \in States, NEW v, Rooted(v), NEW res
  PROVE  LET o == AdmitLocationIfResolution(s, v, res)
         IN  /\ Contained(s, o.state, v) /\ o.state.active = s.active
             /\ o.ok => FoundAt(s, v, res)
             /\ ~ o.ok => Modest(s, o.state, v)
<1> DEFINE o == AdmitLocationIfResolution(s, v, res)
           c == Claim(s, v)
<1>1. c \in States /\ c.slots = s.slots BY ClaimTame DEF Rooted
<1>2. Contained(s, c, v) /\ c.active = s.active BY ClaimModest, RowsKept
<1>3. At(v) # NoEntry => Effective(c, v) = Effective(s, v)
  BY <1>1 DEF Effective, EffectiveAt
<1>4. CASE ~ s.active \/ At(v) = NoEntry
  <2>1. o = Outcome(FALSE, s) BY <1>4 DEF AdmitLocationIfResolution
  <2> QED BY <2>1 DEF Outcome, Modest, Contained
<1>5. CASE s.active /\ At(v) # NoEntry /\ ~ CanClaim(s.adm)
  <2>1. o = Outcome(FALSE, c) BY <1>5 DEF AdmitLocationIfResolution
  <2>2. Modest(s, c, v) BY <1>5, ClaimModest
  <2> HIDE DEF c
  <2> QED BY <1>2, <2>1, <2>2 DEF Outcome
<1>6. CASE s.active /\ At(v) # NoEntry /\ CanClaim(s.adm) /\ MetadataAdmits(s, v, res)
  <2>1. o = Outcome(TRUE, Released(c, v, res)) BY <1>6 DEF AdmitLocationIfResolution
  <2> HIDE DEF c
  <2>2. Contained(c, Released(c, v, res), v) /\ Released(c, v, res).active = c.active
    BY <1>1, <1>6, ReleasedContained
  <2>3. Contained(s, Released(c, v, res), v) BY <1>2, <2>2, ModestTwice
  <2>4. FoundAt(s, v, res) BY <1>6, LineSelf DEF MetadataAdmits, FoundAt
  <2> QED BY <1>2, <2>1, <2>2, <2>3, <2>4 DEF Outcome
<1>7. CASE s.active /\ At(v) # NoEntry /\ CanClaim(s.adm) /\ ~ MetadataAdmits(s, v, res)
  <2>1. o = Outcome(FALSE, Quarantined(s)) BY <1>7 DEF AdmitLocationIfResolution
  <2>2. Modest(s, Quarantined(s), v) /\ Quarantined(s).active = s.active
    BY <1>7, ClaimModest, RowsKept
  <2> QED BY <2>1, <2>2 DEF Outcome, Modest
<1> QED BY <1>4, <1>5, <1>6, <1>7

LEMMA ProtectArrivalHome ==
  ASSUME NEW s \in States, NEW v, Rooted(v), NEW h
  PROVE  LET o == ProtectTreeArrival(s, h, v)
         IN  /\ Contained(s, o.state, v) /\ o.state.active = s.active
             /\ o.ok => Shut(o.state, v)
<1> DEFINE o == ProtectTreeArrival(s, h, v)
           p == ProtectLocation(s, v)
           a == SettleArrival(p.adm, h, v)
<1>1. CASE s.active /\ ~ ArrivalIsCurrent(s.adm, h)
  <2>1. o = Outcome(FALSE, s) BY <1>1 DEF ProtectTreeArrival
  <2> QED BY <2>1 DEF Outcome, Contained
<1>2. CASE ~ (s.active /\ ~ ArrivalIsCurrent(s.adm, h))
  <2>1. p \in States /\ p.active = s.active BY ProtectTame DEF Rooted
  <2>2. Shut(p, v) /\ Contained(s, p, v) BY ProtectModest DEF Modest
  <2>3. o = Outcome(TRUE, IF s.active THEN WithAdmission(p, a) ELSE Quarantined(p))
    BY <1>2 DEF ProtectTreeArrival
  <2> HIDE DEF p, a
  <2>4. SameRows(p, WithAdmission(p, a)) /\ WithAdmission(p, a).active = p.active
    BY <2>1 DEF WithAdmission, States, SameRows
  <2>5. s.active => Contained(p, WithAdmission(p, a), v) /\ Shut(WithAdmission(p, a), v)
    BY <2>1, <2>2, <2>4 DEF Contained, Shut, SameRows
  <2>6. Contained(p, Quarantined(p), v) /\ Shut(Quarantined(p), v)
        /\ Quarantined(p).active = p.active
    BY <2>1, <2>2, ClaimModest, RowsKept
  <2>7. o.ok /\ o.state = IF s.active THEN WithAdmission(p, a) ELSE Quarantined(p)
    BY <2>3 DEF Outcome
  <2> HIDE DEF o
  <2>8. Contained(p, o.state, v) /\ Shut(o.state, v) /\ o.state.active = p.active
    BY <2>4, <2>5, <2>6, <2>7
  <2>9. Contained(s, o.state, v) BY <2>2, <2>8, ModestTwice
  <2> QED BY <2>1, <2>8, <2>9 DEF o
<1> QED BY <1>1, <1>2

LEMMA ActiveContained ==
  ASSUME NEW s \in States, s.active, NEW a, NEW v
  PROVE  Contained(s, WithAdmission(s, a), v) /\ WithAdmission(s, a).active
BY DEF WithAdmission, States, Contained

LEMMA AdmitCurrentArrivalHome ==
  ASSUME NEW s \in States, NEW v, Rooted(v), NEW h
  PROVE  Contained(s, AdmitCurrentTreeArrival(s, h, v).state, v)
<1>1. Contained(s, ProtectTreeArrival(s, h, v).state, v) BY ProtectArrivalHome
<1> QED BY <1>1, ActiveContained DEF AdmitCurrentTreeArrival, Outcome

LEMMA AdmitArrivalHome ==
  ASSUME NEW s \in States, NEW v, Rooted(v), NEW h, NEW res
  PROVE  LET o == AdmitTreeArrivalIfResolution(s, h, v, res)
         IN  /\ Contained(s, o.state, v) /\ o.state.active = s.active
             /\ o.ok => Shut(o.state, v) \/ FoundAt(s, v, res)
<1> DEFINE o == AdmitTreeArrivalIfResolution(s, h, v, res)
           p == ProtectTreeArrival(s, h, v)
           r == Released(s, v, res)
<1>1. Contained(s, p.state, v) /\ p.state.active = s.active /\ (p.ok => Shut(p.state, v))
  BY ProtectArrivalHome
<1>2. CASE ~ s.active BY <1>1, <1>2 DEF AdmitTreeArrivalIfResolution
<1>3. CASE s.active /\ (At(v) = NoEntry \/ ~ ArrivalCanProceed(s.adm, h, v))
  <2>1. o = Outcome(FALSE, WithAdmission(s, CloseArrival(s.adm, h)))
    BY <1>3 DEF AdmitTreeArrivalIfResolution
  <2> DEFINE a == CloseArrival(s.adm, h)
  <2> HIDE DEF a
  <2>2. Contained(s, WithAdmission(s, a), v) /\ WithAdmission(s, a).active
    BY <1>3, ActiveContained
  <2>3. o.ok = FALSE /\ o.state = WithAdmission(s, a) BY <2>1 DEF Outcome, a
  <2> HIDE DEF o
  <2> QED BY <1>3, <2>2, <2>3 DEF o
<1>4. CASE /\ s.active /\ At(v) # NoEntry /\ ArrivalCanProceed(s.adm, h, v)
           /\ ~ MetadataAdmits(s, v, res)
  <2>1. o = p BY <1>4 DEF AdmitTreeArrivalIfResolution
  <2> QED BY <1>1, <2>1
<1>5. CASE /\ s.active /\ At(v) # NoEntry /\ ArrivalCanProceed(s.adm, h, v)
           /\ MetadataAdmits(s, v, res)
  <2> DEFINE a == AdmitArrival(s.adm, h, v)
  <2>1. o = Outcome(TRUE, WithAdmission(r, a)) BY <1>5 DEF AdmitTreeArrivalIfResolution
  <2>2. Contained(s, r, v) /\ r.active BY <1>5, ReleasedContained
  <2>3. r \in States BY <1>5, ReleasedTame DEF Rooted
  <2> HIDE DEF r, a
  <2>4. Contained(r, WithAdmission(r, a), v) /\ WithAdmission(r, a).active
    BY <2>2, <2>3, ActiveContained
  <2>5. Contained(s, WithAdmission(r, a), v) BY <2>2, <2>4, ModestTwice
  <2>6. FoundAt(s, v, res) BY <1>5, LineSelf DEF MetadataAdmits, FoundAt
  <2>7. o.ok = TRUE /\ o.state = WithAdmission(r, a) BY <2>1 DEF Outcome
  <2> HIDE DEF o
  <2>8. Contained(s, o.state, v) /\ o.state.active = s.active BY <1>5, <2>4, <2>5, <2>7
  <2> QED BY <2>6, <2>8 DEF o
<1> QED BY <1>2, <1>3, <1>4, <1>5

LEMMA CutoverHome ==
  ASSUME NEW s \in States, NEW v, Rooted(v), NEW res, NEW granted
  PROVE  LET o == CutoverIf(granted, s, v, res)
         IN  /\ Contained(s, o.state, v)
             /\ o.ok => o.state.adm.kind = "closed"
             /\ ~ o.ok => Modest(s, o.state, v)
<1> DEFINE o == CutoverIf(granted, s, v, res)
           p == ProtectLocation(s, v)
<1>1. p \in States BY ProtectTame DEF Rooted
<1>2. Modest(s, p, v) BY ProtectModest
<1>3. Contained(p, Quarantined(p), v) /\ Quarantined(p).adm.kind = "closed"
  BY <1>1, ClaimModest, RowsKept
<1>4. Modest(s, s, v) BY DEF Modest, Contained
<1>5. o = Outcome(FALSE, s) \/ o = Outcome(TRUE, Quarantined(p)) \/ o = Outcome(FALSE, p)
  BY DEF CutoverIf
<1> HIDE DEF p
<1>6. Contained(s, Quarantined(p), v) BY <1>2, <1>3, ModestTwice DEF Modest
<1> QED BY <1>2, <1>3, <1>4, <1>5, <1>6 DEF Outcome, Modest
-----------------------------------------------------------------------------
(* The invariant.                                                          *)

Unpaid == \E h \in Handlers : ~ Free(h)

Sheltered == Shut(w, host) \/ home = Here \/ Unpaid

(* A session start has not looked at its location yet.                     *)
Pending ==
    \/ ask.mode = "reload" /\ ask.phase \in {"queued", "looking"}
    \/ ask.mode = "loaded" /\ ask.phase = "queued"

(* A restore has spent the authority and not settled its location yet.     *)
Writing == job.step \in {"write", "rest", "verify", "failed", "done"}

(* Pi has landed elsewhere and not told the runtime yet.                   *)
Elsewhere == event.due /\ StableOf(event.old) # event.landing

InTransit == w.adm.kind = "arrival" /\ arr.plan.kind # "same-location"

(* Nobody may capture here now, and whoever lets a capture through next    *)
(* settles the location first.                                             *)
Exposed ==
    \/ ~ w.active
    \/ Elsewhere
    \/ InTransit
    \/ w.adm.kind = "closed" /\ (Pending \/ Writing)

Guarded == Exposed \/ Sheltered

Fresh == \A e \in Entries \ host.graph : w.slots[e] = OpenMissing

Dormant == ~ w.active => w.adm.kind = "closed"

Spent == job.step \in {"write", "rest", "verify"} => w.adm.kind = "closed"

FitsHome == Fits(w, content, host) => home = Here

(* Files found to be a checkpoint belong where it is still resolved.       *)
JobHome ==
    /\ FoundRestored => Lost \/ (Effective(w, host) = job.res => home = Here)
    /\ FoundInherited => Lost \/ (Effective(w, host) = arr.plan.res => home = Here)

Applying == Runs("restore", "rescan") => ask.phase = "applying"

HomeInv ==
    /\ MapInv /\ Fresh /\ Dormant /\ Spent /\ FitsHome /\ JobHome /\ Applying
    /\ Guarded

(* What every step owes the invariant.                                     *)
JobKept == Spent' /\ JobHome' /\ Applying'

HomeKept == Contained(w, w', host) /\ JobKept /\ Guarded'

(* The files are not the program's to change in the step.                  *)
FilesStay == content' = content \/ edits' # edits

LEMMA HostRootedHere ==
  ASSUME ProtocolInv, HostRooted
  PROVE  Rooted(host) /\ host \in Views /\ w \in States /\ Contained(w, w, host)
         /\ Modest(w, w, host)
<1>1. host \in Views /\ w \in States BY DEF ProtocolInv, Typed
<1>2. Here \in Entries \cup {NoEntry} BY <1>1, AtTyped DEF Here
<1>3. Line(At(host)) \subseteq host.graph BY <1>2 DEF HostRooted, Line, Here
<1> QED BY <1>1, <1>3 DEF Rooted, Contained, Modest

(* What the ghost says once a step is over.                                *)
LEMMA HomeMoved ==
  ASSUME HomeMoves
  PROVE  /\ FitsHome'
         /\ Follows => home' = Here'
         /\ home' = home \/ home' = Here' \/ (content' # content /\ edits' = edits /\ ~ Appended)
<1> DEFINE fits == Fits(w', content', host')
           lost == ~ fits /\ ~ Appended /\ content' # content /\ edits' = edits
<1>1. Here' = At(host') BY DEF Here
<1>2. home' = CASE fits -> At(host')
                [] ~ fits /\ Follows -> At(host')
                [] lost -> Nowhere
                [] OTHER -> home
  BY DEF HomeMoves
<1>3. fits => home' = At(host') BY <1>2
<1>4. Follows => Appended BY DEF Follows
<1>5. FitsHome' BY <1>1, <1>3 DEF FitsHome
<1> HIDE DEF fits
<1>6. Follows => home' = At(host') BY <1>2, <1>3, <1>4
<1>7. ~ fits /\ ~ Follows /\ ~ lost => home' = home BY <1>2
<1> QED BY <1>1, <1>3, <1>5, <1>6, <1>7

LEMMA HomeStands ==
  ASSUME HomeMoves, host' = host, FilesStay, home = Here
  PROVE  home' = Here'
<1>1. Here' = Here BY DEF Here
<1> QED BY <1>1, HomeMoved DEF FilesStay

(* Files that are what a location resolves to belong there.                *)
LEMMA Matching ==
  ASSUME HomeMoves, Here' # NoEntry, Effective(w', host').tree \in {content', NoTree}
  PROVE  home' = Here'
BY HomeMoved DEF FitsHome, Fits, Here

LEMMA ResolvedMatches ==
  ASSUME ProtocolInv, HomeMoves, host' = host, w' = w, content' = content,
         NEW res, Effective(w, host) = res, res.tree = content
  PROVE  home' = Here'
<1>1. content # NoTree BY NoTreeAssumption DEF ProtocolInv, Typed
<1>2. Here # NoEntry BY <1>1 DEF Effective, EffectiveAt, Missing, Here
<1>3. Here' # NoEntry BY <1>2 DEF Here
<1>4. Effective(w', host').tree = content' OBVIOUS
<1> QED BY <1>3, <1>4, Matching

LEMMA UnresolvedIsHome ==
  ASSUME FitsHome, Here # NoEntry, Resolve(w.slots, Here) = Missing
  PROVE  home = Here
BY DEF FitsHome, Fits, Effective, EffectiveAt, Missing, Here
-----------------------------------------------------------------------------
(* What the steps have in common.                                          *)

(* The location stays as shut as it was, or a protection is owed.          *)
Modestly ==
    \/ Modest(w, w', host) /\ owed' = owed
    \/ Contained(w, w', host) /\ Unpaid'

LEMMA OwesIsUnpaid ==
  ASSUME Typed, NEW h \in Handlers, NEW p, p # "none", NEW q, Owes(h, p, q)
  PROVE  Unpaid'
<1>1. owed'[h] = p BY DEF Typed, Owes
<1> QED BY <1>1 DEF Unpaid, Free

LEMMA OwesHome ==
  ASSUME Typed, NEW s \in States, Contained(w, s, host), NEW h \in Handlers, NEW q
  PROVE  /\ OwesRecovery(s, h, q) => Contained(w, w', host) /\ Unpaid' /\ w'.adm.kind = "closed"
                                     /\ w'.active = s.active
         /\ Withdraws(s, h, q) => Contained(w, w', host) /\ Unpaid' /\ ~ w'.active
<1>1. ASSUME OwesRecovery(s, h, q)
      PROVE  Contained(w, w', host) /\ Unpaid' /\ w'.adm.kind = "closed" /\ w'.active = s.active
  <2>1. w' = Quarantined(s) BY <1>1 DEF OwesRecovery
  <2>2. Contained(w, w', host) BY <2>1, ClaimModest, ModestTwice
  <2>3. (IF s.active THEN "recover" ELSE "retire") # "none" OBVIOUS
  <2>4. Unpaid' BY <1>1, <2>3, OwesIsUnpaid DEF OwesRecovery
  <2> QED BY <2>1, <2>2, <2>4, RowsKept
<1>2. ASSUME Withdraws(s, h, q) PROVE Contained(w, w', host) /\ Unpaid' /\ ~ w'.active
  <2>1. w' = Withdrawn(s) BY <1>2 DEF Withdraws
  <2>2. Contained(w, w', host) BY <2>1, ClaimModest, ModestTwice
  <2>3. Unpaid' BY <1>2, OwesIsUnpaid DEF Withdraws
  <2> QED BY <2>1, <2>2, <2>3, RowsKept
<1> QED BY <1>1, <1>2

LEMMA RecoversHome ==
  ASSUME Typed, NEW s \in States, Contained(w, s, host), Rooted(host), NEW h \in Handlers, NEW q,
         RecoversInLock(s, h, q)
  PROVE  Contained(w, w', host) /\ (Shut(w', host) \/ Unpaid') /\ Modestly
<1>1. CASE w' = Recover(s, host) /\ Goes(q)
  <2>1. Shut(w', host) /\ Contained(s, w', host) BY <1>1, ProtectsModest DEF Modest
  <2>2. Contained(w, w', host) BY <2>1, ModestTwice
  <2> QED BY <1>1, <2>1, <2>2 DEF Modestly, Modest, Goes
<1>2. CASE w' = Barred(s) /\ Goes(q)
  <2>1. Shut(w', host) /\ Contained(s, w', host) BY <1>2, ProtectsModest DEF Modest
  <2>2. Contained(w, w', host) BY <2>1, ModestTwice
  <2> QED BY <1>2, <2>1, <2>2 DEF Modestly, Modest, Goes
<1>3. CASE w' = Quarantined(s) /\ Owes(h, "recover", q)
  <2>1. Contained(w, w', host) BY <1>3, ClaimModest, ModestTwice
  <2>2. Unpaid' BY <1>3, OwesIsUnpaid
  <2> QED BY <2>1, <2>2 DEF Modestly
<1> QED BY <1>1, <1>2, <1>3 DEF RecoversInLock

(* A step in which Pi does nothing and the program writes no file.         *)
Quiet == host' = host /\ event' = event /\ FilesStay

LEMMA Guards ==
  ASSUME Guarded, HomeMoves, Quiet, w'.active => w.active, Modestly, arr'.plan = arr.plan,
         Pending \/ Writing => Pending' \/ Writing'
  PROVE  Contained(w, w', host) /\ Guarded'
<1>1. Contained(w, w', host) BY DEF Modestly, Modest
<1>2. CASE Unpaid' BY <1>1, <1>2 DEF Guarded, Sheltered
<1>3. CASE Shut(w', host) BY <1>1, <1>3 DEF Guarded, Sheltered, Quiet
<1>4. CASE ~ Unpaid' /\ ~ Shut(w', host)
  <2>1. Modest(w, w', host) /\ owed' = owed BY <1>4 DEF Modestly
  <2>2. ~ Shut(w, host) /\ (w'.adm.kind = w.adm.kind \/ w.adm.kind = "live")
    BY <1>4, <2>1 DEF Modest
  <2>3. ~ Unpaid BY <1>4, <2>1 DEF Unpaid, Free
  <2>4. CASE home = Here
    <3>1. home' = Here' BY <2>4, HomeStands DEF Quiet
    <3> QED BY <1>1, <3>1 DEF Guarded, Sheltered
  <2>5. CASE Exposed
    <3>1. CASE ~ w.active
      <4>1. ~ w'.active BY <3>1
      <4> QED BY <1>1, <4>1 DEF Guarded, Exposed
    <3>2. CASE Elsewhere
      <4>1. Elsewhere' BY <3>2 DEF Elsewhere, Quiet
      <4> QED BY <1>1, <4>1 DEF Guarded, Exposed
    <3>3. CASE InTransit
      <4>1. w'.adm.kind = "arrival" BY <2>2, <3>3 DEF InTransit
      <4>2. InTransit' BY <3>3, <4>1 DEF InTransit
      <4> QED BY <1>1, <4>2 DEF Guarded, Exposed
    <3>4. CASE w.adm.kind = "closed" /\ (Pending \/ Writing)
      <4>1. w'.adm.kind = "closed" BY <2>2, <3>4
      <4>2. Pending' \/ Writing' BY <3>4
      <4>3. Exposed' BY <4>1, <4>2 DEF Exposed
      <4> QED BY <1>1, <4>3 DEF Guarded
    <3> QED BY <2>5, <3>1, <3>2, <3>3, <3>4 DEF Exposed
  <2> QED BY <2>2, <2>3, <2>4, <2>5 DEF Guarded, Sheltered
<1> QED BY <1>2, <1>3, <1>4

LEMMA JobPlain ==
  ASSUME job'.kind \notin {"arrival", "restore"},
         job'.step \notin {"write", "rest", "verify", "done", "unchanged"}
  PROVE  JobKept
BY DEF JobKept, Spent, JobHome, Applying, FoundRestored, FoundInherited, Runs

LEMMA NoJobPlain ==
  ASSUME job' = NoJob
  PROVE  JobKept /\ ~ Writing'
<1>1. job'.kind = "none" /\ job'.step = "none" BY DEF NoJob
<1> QED BY <1>1, JobPlain DEF Writing

(* The job under way is not touched.                                       *)
LEMMA JobAside ==
  ASSUME HomeMoves, Spent, JobHome, Applying, job' = job, host' = host, FilesStay,
         w'.slots = w.slots, w'.active => w.active,
         w.adm.kind = "closed" => w'.adm.kind = "closed",
         trip'.phase \in {"ready", "accepted"} => trip.phase \in {"ready", "accepted"},
         job.kind = "arrival" => arr' = arr,
         job.kind = "restore" => ask' = ask
  PROVE  JobKept /\ (Writing <=> Writing')
<1>1. Lost => Lost' BY DEF Lost
<1>2. Effective(w', host') = Effective(w, host) BY DEF Effective, EffectiveAt
<1>3. home = Here => home' = Here' BY HomeStands
<1>4. FoundRestored' => FoundRestored BY DEF FoundRestored
<1>5. FoundInherited' => FoundInherited /\ arr' = arr BY DEF FoundInherited
<1>6. JobHome'
  <2>1. FoundRestored' => Lost' \/ (Effective(w', host') = job'.res => home' = Here')
    BY <1>1, <1>2, <1>3, <1>4 DEF JobHome
  <2>2. FoundInherited' => Lost' \/ (Effective(w', host') = arr'.plan.res => home' = Here')
    BY <1>1, <1>2, <1>3, <1>5 DEF JobHome
  <2> QED BY <2>1, <2>2 DEF JobHome
<1>7. Spent' /\ Applying' BY DEF Spent, Applying, Runs
<1> QED BY <1>6, <1>7 DEF JobKept, Writing

(* A step of the program keeps the invariant.                              *)
LEMMA HomeKeeps ==
  ASSUME HomeInv, MapInv', HomeMoves, host.graph \subseteq host'.graph, HomeKept
  PROVE  HomeInv'
<1>1. Fresh'
  <2>1. ASSUME NEW e \in Entries \ host'.graph PROVE w'.slots[e] = OpenMissing
    BY <2>1 DEF HomeKept, Contained, HomeInv, Fresh
  <2> QED BY <2>1 DEF Fresh
<1>2. Dormant' BY DEF HomeKept, Contained, HomeInv, Dormant
<1>3. FitsHome' BY HomeMoved
<1> QED BY <1>1, <1>2, <1>3 DEF HomeInv, HomeKept, JobKept
-----------------------------------------------------------------------------
(* Captures.                                                               *)

LEMMA CaptureStill ==
  ASSUME HomeInv, HomeMoves, CaptureFrame, Modestly, w'.active => w.active,
         JobKept, Writing => Writing'
  PROVE  HomeKept
<1>1. Quiet /\ arr' = arr /\ ask' = ask BY DEF CaptureFrame, hostVars, Quiet, FilesStay
<1>2. Pending => Pending' BY <1>1 DEF Pending
<1> QED BY <1>1, <1>2, Guards DEF HomeInv, HomeKept

LEMMA ReturnsHome ==
  ASSUME NEW s \in States, Modest(w, s, host), NEW q, Returns(s, q)
  PROVE  Modestly
<1>1. w' = Finished(s) /\ owed' = owed BY DEF Returns, Goes
<1>2. Modest(s, Finished(s), host)
  <2>1. s.adm \in Authorities BY DEF States
  <2> DEFINE a == FinishPreparation(s.adm, CapturePrep)
  <2>2. a.kind = s.adm.kind BY <2>1, Kinds, TokensDiffer
  <2>3. a \in Authorities BY <2>1, NoTokenAssumption DEF FinishPreparation, Authorities
  <2> HIDE DEF a
  <2>4. Modest(s, WithAdmission(s, a), host) BY <2>2, <2>3, AdmissionModest
  <2>5. Modest(s, s, host) BY DEF Modest, Contained
  <2> QED BY <2>4, <2>5 DEF Finished, a
<1>3. Modest(w, w', host)
  <2>1. Contained(w, s, host) /\ Contained(s, w', host) BY <1>1, <1>2 DEF Modest
  <2>2. Modest(w, s, host) /\ Modest(s, w', host) BY <1>1, <1>2
  <2>3. Shut(w', host) \/ w'.adm.kind = s.adm.kind \/ s.adm.kind = "live" BY <2>2 DEF Modest
  <2> QED BY <2>1, <2>2, ModestTwice
<1> QED BY <1>1, <1>3 DEF Modestly

LEMMA FailsByHome ==
  ASSUME Typed, NEW s \in States, Modest(w, s, host), NEW impact, NEW q, FailsBy(impact, s, q)
  PROVE  Modestly
<1>1. "call" \in Handlers /\ Contained(w, s, host) BY DEF Handlers, Modest
<1>2. CASE OwesRecovery(s, "call", q) BY <1>1, <1>2, OwesHome DEF Modestly
<1>3. CASE Returns(s, q) BY <1>3, ReturnsHome
<1>4. CASE w' = s /\ Goes(Waits(q, "call")) BY <1>4 DEF Modestly, Goes
<1>5. CASE Withdraws(s, "call", q) BY <1>1, <1>5, OwesHome DEF Modestly
<1> QED BY <1>2, <1>3, <1>4, <1>5 DEF FailsBy

LEMMA CaptureCalledHome ==
  ASSUME ProtocolInv, HomeInv, HomeMoves, CaptureFrame,
         NEW manner \in {"observed", "prepared", "bash", "context"}, CaptureCalled(manner)
  PROVE  HomeKept
<1> DEFINE a == CASE manner = "prepared" -> BeginPreparation(w.adm, CapturePrep)
                  [] manner = "bash" -> RejectTransitionConflict(w.adm)
                  [] OTHER -> w.adm
<1>1. w \in States /\ w.adm \in Authorities /\ host \in Views
  BY DEF ProtocolInv, Typed, States
<1>2. w' = WithAdmission(w, a) /\ job' = job /\ owed' = owed BY DEF CaptureCalled, Goes
<1>3. a \in Authorities /\ a.kind = w.adm.kind
  <2>1. CASE manner = "prepared"
    <3>1. /\ BeginPreparation(w.adm, CapturePrep) \in Authorities
          /\ BeginPreparation(w.adm, CapturePrep).kind = w.adm.kind
      BY <1>1, AuthorityTyped, TokensDiffer
    <3> QED BY <2>1, <3>1
  <2>2. CASE manner = "bash"
    <3>1. RejectTransitionConflict(w.adm) \in Authorities BY <1>1, AuthorityYields
    <3>2. RejectTransitionConflict(w.adm).kind = w.adm.kind BY <1>1, Kinds
    <3> QED BY <2>2, <3>1, <3>2
  <2>3. CASE manner \notin {"prepared", "bash"} BY <1>1, <2>3
  <2> QED BY <2>1, <2>2, <2>3
<1> HIDE DEF a
<1>4. SameRows(w, w') /\ w'.adm = a /\ w'.active = w.active BY <1>1, <1>2, <1>3, RowsKept
<1>5. Modestly BY <1>1, <1>2, <1>3, AdmissionModest DEF Modestly
<1>6. host' = host /\ trip' = trip /\ arr' = arr /\ ask' = ask /\ FilesStay
  BY DEF CaptureFrame, hostVars, FilesStay
<1>7. JobKept /\ (Writing <=> Writing')
  BY <1>2, <1>3, <1>4, <1>6, JobAside DEF HomeInv, SameRows
<1> QED BY <1>4, <1>5, <1>7, CaptureStill

LEMMA CaptureBeginsHome ==
  ASSUME ProtocolInv, HomeInv, HomeMoves, CaptureFrame, CaptureBegins
  PROVE  HomeKept
<1> DEFINE b == Boundary(w, call.view, CaptureOp)
<1>1. w \in States /\ Rooted(host) /\ Modest(w, w, host) /\ host \in Views
  BY HostRootedHere DEF HomeInv, MapInv
<1>2. Typed /\ Owned /\ Tame(w, w) BY <1>1, TameSelf DEF ProtocolInv
<1>3. job = NoJob /\ Others \in Seq(Handlers)
  BY <1>2, QueueTyped DEF CaptureBegins, IsNext, Idle, Handlers
<1>4. ~ Writing BY <1>3 DEF Writing, NoJob
<1>5. Exact(call.view) => Modest(w, b.state, host) /\ Tame(w, b.state) /\ b.state \in States
  BY <1>1, BoundaryModest, BoundaryTame, TokensDiffer DEF Exact, Tame
<1> HIDE DEF b
<1>6. CASE FailsBy("cancel-operation", w, Others) /\ Ends
  <2>1. Modestly BY <1>1, <1>2, <1>6, FailsByHome
  <2>2. Tame(w, w') BY <1>1, <1>2, <1>3, <1>6, FailsByKeeps
  <2> QED BY <1>4, <1>6, <2>1, <2>2, NoJobPlain, CaptureStill DEF Ends, Tame
<1>7. CASE /\ Exact(call.view) /\ w' = b.state
           /\ job' = [NoJob EXCEPT !.kind = "capture", !.step = "scan",
                                   !.view = call.view, !.slot = w.slots[Here]]
           /\ Goes(Others)
  <2>1. job'.kind = "capture" /\ job'.step = "scan" BY <1>7 DEF NoJob
  <2>2. JobKept BY <2>1, JobPlain
  <2>3. Modestly BY <1>5, <1>7 DEF Modestly, Goes
  <2> QED BY <1>4, <1>5, <1>7, <2>2, <2>3, CaptureStill DEF Tame
<1>8. CASE Exact(call.view) /\ Returns(b.state, Others) /\ Ends
  <2>1. Modestly BY <1>5, <1>8, ReturnsHome
  <2>2. Tame(w, w') BY <1>2, <1>3, <1>5, <1>8, ReturnsKeep
  <2> QED BY <1>4, <1>8, <2>1, <2>2, NoJobPlain, CaptureStill DEF Ends, Tame
<1>9. CASE Exact(call.view) /\ FailsBy("cancel-operation", b.state, Others) /\ Ends
  <2>1. Modestly BY <1>2, <1>5, <1>9, FailsByHome
  <2>2. Tame(w, w') BY <1>2, <1>3, <1>5, <1>9, FailsByKeeps
  <2> QED BY <1>4, <1>9, <2>1, <2>2, NoJobPlain, CaptureStill DEF Ends, Tame
<1> QED BY <1>6, <1>7, <1>8, <1>9 DEF CaptureBegins, b

LEMMA CaptureJobsHome ==
  ASSUME ProtocolInv, HomeInv, HomeMoves, CaptureFrame,
         CaptureScans \/ CaptureCommits \/ CaptureFails
  PROVE  HomeKept
<1> DEFINE after == AfterCapture(w, At(job.view), job.slot, job.seen)
<1>1. w \in States /\ Rooted(host) /\ Modest(w, w, host) /\ host \in Views
  BY HostRootedHere DEF HomeInv, MapInv
<1>2. Typed /\ Owned /\ Tame(w, w) /\ queue \in Seq(Handlers) /\ JobKnows
  BY <1>1, TameSelf DEF ProtocolInv, Typed
<1>3. job.kind = "capture" BY DEF CaptureScans, CaptureCommits, CaptureFails, Runs
<1>4. ~ Writing BY <1>2, <1>3 DEF Writing, JobKnows, Destructive
<1>5. CASE CaptureScans
  <2>1. w' = w /\ owed' = owed /\ job' = [job EXCEPT !.step = "commit", !.seen = content]
    BY <1>5 DEF CaptureScans, Stays
  <2>2. job'.kind = "capture" /\ job'.step = "commit" BY <1>2, <1>3, <2>1 DEF Typed, Jobs
  <2>3. JobKept BY <2>2, JobPlain
  <2>4. Modestly BY <1>1, <2>1 DEF Modestly
  <2> QED BY <1>4, <2>1, <2>3, <2>4, CaptureStill
<1>6. CASE \E impact : Ends /\ FailsBy(impact, w, queue)
  <2>1. PICK impact : Ends /\ FailsBy(impact, w, queue) BY <1>6
  <2>2. Modestly BY <1>1, <1>2, <2>1, FailsByHome
  <2>3. Tame(w, w') BY <1>1, <1>2, <2>1, FailsByKeeps
  <2> QED BY <1>4, <2>1, <2>2, <2>3, NoJobPlain, CaptureStill DEF Ends, Tame
<1>7. CASE CaptureIsDue /\ Ends /\ Returns(after, queue)
  <2>1. host = job.view BY <1>7 DEF CaptureIsDue, Exact
  <2>2. Line(At(host)) \subseteq host.graph BY <1>1 DEF Rooted
  <2>3. At(host) \in Entries => At(host) \in host.graph
    BY <1>1, LineSelf, NoEntryAssumption
  <2>4. job.seen \in Trees \cup {NoTree} BY <1>2 DEF Typed, Jobs
  <2>5. Tame(w, after) /\ after \in States BY <1>1, <2>4, AfterCaptureTame
  <2>6. Modest(w, after, host) BY <1>1, <2>1, <2>2, <2>3, AfterCaptureModest
  <2> HIDE DEF after
  <2>7. Modestly BY <1>7, <2>5, <2>6, ReturnsHome
  <2>8. Tame(w, w') BY <1>2, <1>7, <2>5, ReturnsKeep
  <2> QED BY <1>4, <1>7, <2>7, <2>8, NoJobPlain, CaptureStill DEF Ends, Tame
<1>8. CaptureCommits => (CaptureIsDue /\ Ends /\ Returns(after, queue))
                        \/ (Ends /\ FailsBy("cancel-operation", w, queue))
  BY DEF CaptureCommits
<1>9. CaptureFails => \E impact : Ends /\ FailsBy(impact, w, queue) BY DEF CaptureFails
<1> QED BY <1>5, <1>6, <1>7, <1>8, <1>9

LEMMA CaptureCallsHome ==
  ASSUME ProtocolInv, HomeInv, HomeMoves, CaptureFrame, ProjectBarrier \/ ProtectFailedSource
  PROVE  HomeKept
<1> DEFINE s == Boundary(w, host, CaptureOp).state
           p == ProtectNode(w, host)
<1>1. w \in States /\ Rooted(host) /\ Modest(w, w, host) /\ host \in Views
      /\ Contained(w, w, host)
  BY HostRootedHere DEF HomeInv, MapInv
<1>2. Typed /\ Owned /\ Tame(w, w) BY <1>1, TameSelf DEF ProtocolInv
<1>3. job = NoJob /\ Others \in Seq(Handlers) /\ "call" \in Handlers
  BY <1>2, QueueTyped DEF ProjectBarrier, ProtectFailedSource, IsNext, Idle, Handlers
<1>4. ~ Writing BY <1>3 DEF Writing, NoJob
<1>5. job' = NoJob BY <1>3 DEF ProjectBarrier, ProtectFailedSource, Ends
<1>6. Modest(w, s, host) /\ Tame(w, s) /\ s \in States
  BY <1>1, BoundaryModest, BoundaryTame, TokensDiffer DEF Tame
<1>7. Modest(w, p, host) /\ Tame(w, p) /\ p \in States
  BY <1>1, ProtectsModest, CompositesTame
<1> HIDE DEF s, p
<1>8. ASSUME NEW u \in States, Modest(w, u, host), Tame(w, u), Returns(u, Others)
      PROVE  HomeKept
  <2>1. Modestly BY <1>8, ReturnsHome
  <2>2. Tame(w, w') BY <1>2, <1>3, <1>8, ReturnsKeep
  <2> QED BY <1>4, <1>5, <2>1, <2>2, NoJobPlain, CaptureStill DEF Tame
<1>9. CASE FailsBy("cancel-operation", w, Others)
  <2>1. Modestly BY <1>1, <1>2, <1>9, FailsByHome
  <2>2. Tame(w, w') BY <1>1, <1>2, <1>3, <1>9, FailsByKeeps
  <2> QED BY <1>4, <1>5, <2>1, <2>2, NoJobPlain, CaptureStill DEF Tame
<1>10. CASE Withdraws(w, "call", Others)
  <2>1. Modestly /\ ~ w'.active BY <1>1, <1>2, <1>3, <1>10, OwesHome DEF Modestly
  <2> QED BY <1>4, <1>5, <2>1, NoJobPlain, CaptureStill
<1>11. ProjectBarrier => Returns(s, Others) \/ Returns(w, Others)
                         \/ FailsBy("cancel-operation", w, Others)
  BY DEF ProjectBarrier, s
<1>12. ProtectFailedSource => Withdraws(w, "call", Others) \/ Returns(p, Others)
  BY DEF ProtectFailedSource, p
<1> QED BY <1>1, <1>2, <1>6, <1>7, <1>8, <1>9, <1>10, <1>11, <1>12

LEMMA CaptureHome ==
  ASSUME ProtocolInv, HomeInv, HomeMoves, CaptureNext
  PROVE  HomeKept
<1>1. CaptureFrame BY DEF CaptureNext, CaptureFrame
<1> QED BY <1>1, CaptureCalledHome, CaptureBeginsHome, CaptureJobsHome, CaptureCallsHome
        DEF CaptureNext
-----------------------------------------------------------------------------
(* Departures.                                                             *)

LEMMA DepartureStill ==
  ASSUME HomeInv, HomeMoves, DepartureFrame, Modestly, w'.active => w.active,
         JobKept, Writing => Writing'
  PROVE  HomeKept
<1>1. Quiet /\ arr' = arr /\ ask' = ask BY DEF DepartureFrame, hostVars, Quiet, FilesStay
<1>2. Pending => Pending' BY <1>1 DEF Pending
<1> QED BY <1>1, <1>2, Guards DEF HomeInv, HomeKept

LEMMA FinishHome ==
  ASSUME NEW s \in States, Modest(w, s, host), NEW p \in Preps,
         w' = WithAdmission(s, FinishPreparation(s.adm, p)), owed' = owed
  PROVE  Modestly /\ w'.active = s.active /\ w'.slots = s.slots /\ w'.adm.kind = s.adm.kind
<1> DEFINE a == FinishPreparation(s.adm, p)
<1>1. s.adm \in Authorities BY DEF States
<1>2. a.kind = s.adm.kind BY <1>1, Kinds
<1>3. a \in Authorities BY <1>1, NoTokenAssumption DEF FinishPreparation, Authorities
<1> HIDE DEF a
<1>4. Modest(s, WithAdmission(s, a), host) BY <1>2, <1>3, AdmissionModest
<1>5. SameRows(s, WithAdmission(s, a)) /\ WithAdmission(s, a).active = s.active
      /\ WithAdmission(s, a).adm = a
  BY <1>3, RowsKept
<1>6. w' = WithAdmission(s, a) BY DEF a
<1>7. Contained(w, w', host) BY <1>4, <1>6, ModestTwice DEF Modest
<1>8. Modest(w, w', host) BY <1>2, <1>4, <1>5, <1>6, <1>7 DEF Modest
<1> QED BY <1>2, <1>5, <1>6, <1>8 DEF Modestly, SameRows

LEMMA CancelsHome ==
  ASSUME NEW s \in States, Modest(w, s, host), NEW q, Cancels(s, q)
  PROVE  Modestly /\ job' = NoJob
<1>1. w' = WithAdmission(s, FinishPreparation(s.adm, DepartPrep)) /\ owed' = owed /\ job' = NoJob
  BY DEF Cancels, Goes, Ends
<1> QED BY <1>1, FinishHome, TokensDiffer

(* A job of a departure, or one that began or ended.                       *)
LEMMA DepartureJob ==
  ASSUME HomeInv, HomeMoves, DepartureFrame, Modestly, w'.active => w.active,
         ~ Writing, job'.kind \in {"none", "departure"},
         job'.step \in {"none", "scan", "preview", "rescan", "publish", "commit", "settle"}
  PROVE  HomeKept
<1>1. JobKept BY JobPlain
<1> QED BY <1>1, DepartureStill

LEMMA DepartureCalledHome ==
  ASSUME ProtocolInv, HomeInv, HomeMoves, DepartureFrame, NEW t, DepartureCalled(t)
  PROVE  HomeKept
<1> DEFINE a == BeginPreparation(w.adm, DepartPrep)
<1>1. w \in States /\ w.adm \in Authorities /\ host \in Views BY DEF ProtocolInv, Typed, States
<1>2. w' = WithAdmission(w, a) /\ job' = job /\ owed' = owed
  BY DEF DepartureCalled, Goes, Stays
<1>3. a \in Authorities /\ a.kind = w.adm.kind BY <1>1, AuthorityTyped, TokensDiffer
<1> HIDE DEF a
<1>4. SameRows(w, w') /\ w'.adm = a /\ w'.active = w.active BY <1>1, <1>2, <1>3, RowsKept
<1>5. Modestly BY <1>1, <1>2, <1>3, AdmissionModest DEF Modestly
<1>6. host' = host /\ arr' = arr /\ ask' = ask /\ FilesStay
  BY DEF DepartureFrame, hostVars, FilesStay
<1>7. trip'.phase \in {"ready", "accepted"} => trip.phase \in {"ready", "accepted"}
  <2>1. trip' = trip \/ trip' = [NoTrip EXCEPT !.phase = "queued", !.view = host, !.target = t]
    BY DEF DepartureCalled
  <2>2. [NoTrip EXCEPT !.phase = "queued", !.view = host, !.target = t].phase = "queued"
    BY DEF NoTrip
  <2> QED BY <2>1, <2>2
<1>8. JobKept /\ (Writing <=> Writing')
  BY <1>2, <1>3, <1>4, <1>6, <1>7, JobAside DEF HomeInv, SameRows
<1> QED BY <1>4, <1>5, <1>8, DepartureStill

LEMMA DepartureProposedHome ==
  ASSUME ProtocolInv, HomeInv, HomeMoves, DepartureFrame, DepartureProposed
  PROVE  HomeKept
<1> DEFINE a == Propose(w.adm, DepartPrep, ThisPlan)
<1>1. w \in States /\ w.adm \in Authorities /\ host \in Views BY DEF ProtocolInv, Typed, States
<1>2. w' = WithAdmission(w, a) /\ job' = job /\ owed' = owed /\ trip.phase = "ready"
  BY DEF DepartureProposed, Stays
<1>3. a \in Authorities /\ a.kind = w.adm.kind
  <2>1. a \in Authorities BY <1>1, AuthorityTyped, TokensDiffer
  <2>2. a.kind = w.adm.kind BY <1>1, Kinds, TokensDiffer
  <2> QED BY <2>1, <2>2
<1> HIDE DEF a
<1>4. SameRows(w, w') /\ w'.adm = a /\ w'.active = w.active BY <1>1, <1>2, <1>3, RowsKept
<1>5. Modestly BY <1>1, <1>2, <1>3, AdmissionModest DEF Modestly
<1>6. host' = host /\ arr' = arr /\ ask' = ask /\ FilesStay
  BY DEF DepartureFrame, hostVars, FilesStay
<1>7. JobKept /\ (Writing <=> Writing')
  BY <1>2, <1>3, <1>4, <1>6, JobAside DEF HomeInv, SameRows
<1> QED BY <1>4, <1>5, <1>7, DepartureStill

LEMMA DepartureAnsweredHome ==
  ASSUME ProtocolInv, HomeInv, HomeMoves, DepartureFrame, DepartureAnswered
  PROVE  HomeKept
<1>1. w \in States /\ Modest(w, w, host) BY HostRootedHere DEF HomeInv, MapInv
<1>2. job' = job /\ owed' = owed /\ trip.phase = "asked"
      /\ (w' = w \/ w' = WithAdmission(w, FinishPreparation(w.adm, DepartPrep)))
  BY DEF DepartureAnswered, Goes, Stays
<1>3. Modestly /\ w'.active = w.active /\ w'.slots = w.slots /\ w'.adm.kind = w.adm.kind
  <2>1. CASE w' = w BY <1>1, <1>2, <2>1 DEF Modestly
  <2>2. CASE w' = WithAdmission(w, FinishPreparation(w.adm, DepartPrep))
    BY <1>1, <1>2, <2>2, FinishHome, TokensDiffer
  <2> QED BY <1>2, <2>1, <2>2
<1>4. host' = host /\ arr' = arr /\ ask' = ask /\ FilesStay
  BY DEF DepartureFrame, hostVars, FilesStay
<1>5. trip'.phase \in {"ready", "accepted"} => trip.phase \in {"ready", "accepted"}
  <2>1. \/ trip' = [trip EXCEPT !.phase = "answered"]
        \/ trip' = [trip EXCEPT !.phase = "answered", !.kind = "detach"]
        \/ trip' = NoTrip
    BY DEF DepartureAnswered
  <2>2. [trip EXCEPT !.phase = "answered"].phase = "answered"
        /\ [trip EXCEPT !.phase = "answered", !.kind = "detach"].phase = "answered"
    BY DEF ProtocolInv, Typed, Trips
  <2>3. NoTrip.phase = "none" BY DEF NoTrip
  <2> QED BY <2>1, <2>2, <2>3
<1>6. JobKept /\ (Writing <=> Writing') BY <1>2, <1>3, <1>4, <1>5, JobAside DEF HomeInv
<1> QED BY <1>3, <1>6, DepartureStill

LEMMA DepartureJobsHome ==
  ASSUME ProtocolInv, HomeInv, HomeMoves, TornMoves, DepartureFrame,
         \/ DepartureLooks \/ DepartureScans \/ DeparturePreviews \/ DepartureRechecks
         \/ DepartureRescans \/ DeparturePublishes \/ DepartureCommits
         \/ DepartureSettles \/ DepartureFails
  PROVE  HomeKept
<1> DEFINE b == Boundary(w, trip.view, DepartOp)
           after == AfterCapture(w, Source, trip.slot, trip.seen)
           p == ProtectNode(after, host)
<1>1. w \in States /\ Rooted(host) /\ Modest(w, w, host) /\ host \in Views
      /\ Contained(w, w, host)
  BY HostRootedHere DEF HomeInv, MapInv
<1>2. Typed /\ JobKnows /\ job \in Jobs BY DEF ProtocolInv, Typed
<1>3. job = NoJob \/ job.kind = "departure"
  BY DEF DepartureLooks, DepartureScans, DeparturePreviews, DepartureRechecks, DepartureRescans,
         DeparturePublishes, DepartureCommits, DepartureSettles, DepartureFails, IsNext, Idle, Runs
<1>4. ~ Writing BY <1>2, <1>3 DEF Writing, JobKnows, Destructive, NoJob
<1>5. w'.active => w.active
  <2>1. DepartureOK
    BY DepartureLooksKeeps, DepartureScansKeeps, DeparturePreviewsKeeps,
       DepartureRechecksKeeps, DepartureRescansKeeps,
       DeparturePublishesKeeps, DepartureCommitsKeeps, DepartureSettlesKeeps, DepartureFailsKeeps
  <2> QED BY <2>1 DEF DepartureOK, Tame
<1>6. Exact(trip.view) => Modest(w, b.state, host) /\ b.state \in States
  BY <1>1, BoundaryModest, BoundaryTame, TokensDiffer DEF Exact, Tame
<1>7. Exact(trip.view) => Modest(w, after, host) /\ after \in States
                          /\ Modest(w, p, host) /\ p \in States
  <2>1. SUFFICES ASSUME host = trip.view
                 PROVE  Modest(w, after, host) /\ after \in States
                        /\ Modest(w, p, host) /\ p \in States
    BY DEF Exact
  <2>2. Source = At(host) BY <2>1 DEF Source
  <2>3. Line(At(host)) \subseteq host.graph BY <1>1 DEF Rooted
  <2>4. At(host) \in Entries => At(host) \in host.graph BY <1>1, LineSelf, NoEntryAssumption
  <2>5. trip.seen \in Trees \cup {NoTree} BY <1>2 DEF Typed, Trips
  <2>6. after \in States BY <1>1, <2>5, AfterCaptureTame
  <2>7. Modest(w, after, host) BY <1>1, <2>2, <2>3, <2>4, AfterCaptureModest
  <2> HIDE DEF after
  <2>8. p \in States BY <1>1, <2>6, CompositesTame
  <2>9. Shut(p, host) /\ Modest(after, p, host) BY <1>1, <2>6, ProtectsModest
  <2>10. Contained(w, p, host) BY <2>7, <2>9, ModestTwice DEF Modest
  <2>11. Modest(w, p, host) BY <2>9, <2>10, ShutModest
  <2> QED BY <2>6, <2>7, <2>8, <2>11
<1> HIDE DEF b, after, p
<1>8. ASSUME NEW s \in States, Modest(w, s, host), NEW q, Cancels(s, q) PROVE HomeKept
  <2>1. Modestly /\ job' = NoJob BY <1>8, CancelsHome
  <2>2. job'.kind = "none" /\ job'.step = "none" BY <2>1 DEF NoJob
  <2> QED BY <1>4, <1>5, <2>1, <2>2, DepartureJob
<1>9. ASSUME NEW s \in States, Modest(w, s, host), w' = s, owed' = owed, job' = NoJob
      PROVE  HomeKept
  <2>1. job'.kind = "none" /\ job'.step = "none" BY <1>9 DEF NoJob
  <2>2. Modestly BY <1>9 DEF Modestly
  <2> QED BY <1>4, <1>5, <2>1, <2>2, DepartureJob
<1>10. ASSUME NEW s \in States, Modest(w, s, host), w' = s, owed' = owed,
              NEW x \in {"scan", "preview", "rescan", "publish", "commit", "settle"},
              (job.kind = "departure" /\ StepsTo(x)) \/ Begins("departure", x, trip.view)
       PROVE  HomeKept
  <2>1. job'.kind = "departure" /\ job'.step = x BY <1>2, <1>10 DEF StepsTo, Begins, Jobs, NoJob
  <2>2. Modestly BY <1>10 DEF Modestly
  <2> QED BY <1>4, <1>5, <2>1, <2>2, DepartureJob
<1>11. CASE DepartureLooks
  <2>1. \/ Cancels(w, Others)
        \/ Exact(trip.view) /\ Cancels(b.state, Others)
        \/ /\ Exact(trip.view) /\ w' = b.state /\ owed' = owed
           /\ Begins("departure", IF b.kind = "capture" THEN "scan" ELSE "preview", trip.view)
    BY <1>11 DEF DepartureLooks, Goes, b
  <2> QED BY <1>1, <1>6, <1>8, <1>10, <2>1
<1>12. CASE DepartureScans
  <2>1. job.kind = "departure"
        /\ (Cancels(w, queue) \/ (w' = w /\ owed' = owed /\ StepsTo("preview")))
    BY <1>12 DEF DepartureScans, Stays, Runs
  <2> QED BY <1>1, <1>8, <1>10, <2>1
<1>13. CASE DeparturePreviews
  <2>1. w' = w /\ owed' = owed /\ job' = NoJob BY <1>13 DEF DeparturePreviews, Goes, Ends
  <2> QED BY <1>1, <1>9, <2>1
<1>14. CASE DepartureRechecks
  <2>1. \/ Cancels(w, Others)
        \/ Exact(trip.view) /\ Cancels(b.state, Others)
        \/ /\ Exact(trip.view) /\ w' = b.state /\ owed' = owed
           /\ Begins("departure", "rescan", trip.view)
    BY <1>14 DEF DepartureRechecks, Goes, b
  <2> QED BY <1>1, <1>6, <1>8, <1>10, <2>1
<1>15. CASE DepartureRescans
  <2>1. job.kind = "departure"
        /\ (Cancels(w, queue)
            \/ (w' = w /\ owed' = owed
                  /\ StepsTo(IF trip.source = "capture" THEN "publish" ELSE "settle")))
    BY <1>15 DEF DepartureRescans, Stays, Runs
  <2> QED BY <1>1, <1>8, <1>10, <2>1
<1>16. CASE DeparturePublishes
  <2>1. job.kind = "departure"
        /\ (Cancels(w, queue) \/ (w' = w /\ owed' = owed /\ StepsTo("commit")))
    BY <1>16 DEF DeparturePublishes, Stays, Runs
  <2> QED BY <1>1, <1>8, <1>10, <2>1
<1>17. CASE DepartureCommits
  <2>1. job.kind = "departure"
        /\ \/ Cancels(w, queue)
           \/ Exact(trip.view) /\ Cancels(p, queue)
           \/ Exact(trip.view) /\ w' = after /\ owed' = owed /\ StepsTo("settle")
    BY <1>17 DEF DepartureCommits, Stays, Runs, p, after
  <2> QED BY <1>1, <1>7, <1>8, <1>10, <2>1
<1>18. CASE DepartureSettles
  <2>1. Cancels(w, queue) \/ (w' = w /\ owed' = owed /\ job' = NoJob)
    BY <1>18 DEF DepartureSettles, Stays, Ends
  <2> QED BY <1>1, <1>8, <1>9, <2>1
<1>19. CASE DepartureFails
  <2>1. Cancels(w, queue) \/ (Withdraws(w, "trip", queue) /\ job' = NoJob)
    BY <1>19 DEF DepartureFails, Ends
  <2>2. ASSUME Withdraws(w, "trip", queue), job' = NoJob PROVE HomeKept
    <3>1. "trip" \in Handlers BY DEF Handlers
    <3>2. Modestly BY <1>1, <1>2, <2>2, <3>1, OwesHome DEF Modestly
    <3>3. job'.kind = "none" /\ job'.step = "none" BY <2>2 DEF NoJob
    <3> QED BY <1>4, <1>5, <3>2, <3>3, DepartureJob
  <2> QED BY <1>1, <1>8, <2>1, <2>2
<1> QED BY <1>11, <1>12, <1>13, <1>14, <1>15, <1>16, <1>17, <1>18, <1>19

LEMMA DepartureHome ==
  ASSUME ProtocolInv, HomeInv, HomeMoves, TornMoves, DepartureNext
  PROVE  HomeKept
<1>1. DepartureFrame BY DEF DepartureNext, DepartureFrame
<1>2. \/ \E t : DepartureCalled(t)
      \/ DepartureLooks \/ DepartureScans \/ DeparturePreviews
      \/ DepartureAnswered \/ DepartureRechecks \/ DepartureRescans
      \/ DeparturePublishes \/ DepartureCommits \/ DepartureSettles
      \/ DepartureFails \/ DepartureProposed
  BY DEF DepartureNext
<1> QED BY <1>1, <1>2, DepartureCalledHome, DepartureAnsweredHome, DepartureProposedHome,
           DepartureJobsHome
-----------------------------------------------------------------------------
(* Pi, the user, crashes and protections.                                  *)

LEMMA JobMoved ==
  ASSUME JobKnows, Spent, JobHome, Applying, HomeMoves,
         job' = job, arr' = arr, ask' = ask, w' = w,
         job.kind # "none" =>
            Lost' \/ (host' = host /\ content' = content /\ (Lost => Lost'))
  PROVE  JobKept
<1>1. FoundRestored' <=> FoundRestored BY DEF FoundRestored
<1>2. FoundInherited' <=> FoundInherited BY DEF FoundInherited
<1>3. FoundRestored \/ FoundInherited => job.kind # "none"
  BY DEF FoundRestored, FoundInherited, JobKnows, Destructive
<1>4. host' = host /\ content' = content =>
        /\ Effective(w', host') = Effective(w, host)
        /\ home = Here => home' = Here'
  BY HomeStands DEF FilesStay
<1>5. FoundRestored' => Lost' \/ (Effective(w', host') = job'.res => home' = Here')
  BY <1>1, <1>3, <1>4 DEF JobHome
<1>6. FoundInherited' => Lost' \/ (Effective(w', host') = arr'.plan.res => home' = Here')
  BY <1>2, <1>3, <1>4 DEF JobHome
<1>7. Spent' /\ Applying' BY DEF Spent, Applying, Runs
<1> QED BY <1>5, <1>6, <1>7 DEF JobKept, JobHome

LEMMA AloneIsMissing ==
  ASSUME NEW e \in Entries, Ancestors(e) = {e}, NEW sl, sl[e] = OpenMissing
  PROVE  Resolve(sl, e) = Missing
<1>1. sl[e] # BlockedMissing /\ ~ HasTree(sl[e])
  BY DEF OpenMissing, BlockedMissing, HasTree
<1>2. \A i \in 1..Len(Path[e]) : Path[e][i] = e BY DEF Ancestors
<1>3. Bearing(sl, e) = {} BY <1>1, <1>2 DEF Bearing
<1> QED BY <1>1, <1>3 DEF Resolve, Inherited

(* Where an entry is appended below the location, either it may not be     *)
(* captured there, or its files are those of the location.                 *)
LEMMA AppendsHome ==
  ASSUME ProtocolInv, MapInv, Fresh, Sheltered, HomeMoves,
         NEW e \in Entries \ host.graph, Parent(e) = Here,
         host' = [graph |-> host.graph \cup {e}, leaf |-> e], w' = w, owed' = owed
  PROVE  Sheltered'
<1>1. Here' = e BY Grows DEF MapInv, HostRooted
<1>2. Appended BY DEF Appended
<1>3. At(host') = e BY <1>1 DEF Here
<1>4. CASE Unpaid BY <1>4 DEF Sheltered, Unpaid, Free
<1>5. CASE home = Here
  <2>1. Follows BY <1>2, <1>3, <1>5 DEF Follows
  <2> QED BY <2>1, HomeMoved DEF Sheltered
<1>6. CASE w.barrier BY <1>6 DEF Sheltered, Shut
<1>7. CASE Here # NoEntry /\ IsBlocked(w.slots[Here])
  <2>1. ~ OpenAt(w, host) BY <1>7 DEF OpenAt, LocationIsBlocked, Here
  <2>2. Follows BY <1>2, <1>3, <2>1 DEF Follows
  <2> QED BY <2>2, HomeMoved DEF Sheltered
<1>8. CASE Here = NoEntry
  <2>1. Ancestors(e) = {e} BY <1>8, ParentLine, NoEntryAssumption
  <2>2. w.slots[e] = OpenMissing BY DEF Fresh
  <2>3. Resolve(w.slots, e) = Missing BY <2>1, <2>2, AloneIsMissing
  <2>4. e # NoEntry BY NoEntryAssumption
  <2>5. Effective(w', host').tree = NoTree BY <1>3, <2>3, <2>4 DEF Effective, EffectiveAt, Missing
  <2>6. home' = Here' BY <1>1, <2>4, <2>5, Matching
  <2> QED BY <2>6 DEF Sheltered
<1> QED BY <1>4, <1>5, <1>6, <1>7, <1>8 DEF Sheltered, Shut, Here

LEMMA HostAppendHome ==
  ASSUME ProtocolInv, HomeInv, MapInv', HomeMoves, NEW e \in Entries, HostAppend(e)
  PROVE  HomeInv'
<1>1. /\ e \in Entries \ host.graph /\ Parent(e) = Here
      /\ host' = [graph |-> host.graph \cup {e}, leaf |-> e]
      /\ event' = event /\ content' = content /\ edits' = edits
      /\ w' = w /\ job' = job /\ owed' = owed
      /\ trip' = trip /\ arr' = arr /\ ask' = ask
  BY DEF HostAppend, runtimeVars, handlers
<1>2. host.graph \subseteq host'.graph /\ e \in host'.graph BY <1>1
<1>3. Sheltered => Sheltered' BY <1>1, AppendsHome DEF HomeInv
<1>4. Exposed => Exposed'
  BY <1>1 DEF Exposed, Elsewhere, InTransit, Pending, Writing
<1>5. job.kind # "none" => Lost'
  <2>1. job.kind # "none" => e \notin job.view.graph BY <1>1 DEF ProtocolInv, JobHere
  <2> QED BY <1>1, <1>2, <2>1 DEF Lost
<1>6. JobKept BY <1>1, <1>5, JobMoved DEF ProtocolInv, HomeInv
<1>7. Contained(w, w', host) BY <1>1 DEF Contained
<1>8. Guarded' BY <1>3, <1>4 DEF HomeInv, Guarded
<1> QED BY <1>2, <1>6, <1>7, <1>8, HomeKeeps DEF HomeKept

LEMMA HostNavigateHome ==
  ASSUME ProtocolInv, HomeInv, MapInv', HomeMoves, NEW t \in Coordinates, NEW s \in Coordinates,
         HostNavigate(t, s)
  PROVE  HomeInv'
<1>1. /\ ~ event.due /\ trip' = NoTrip
      /\ trip.phase = "accepted" \/ ~ w.active
      /\ content' = content /\ edits' = edits
      /\ w' = w /\ job' = job /\ owed' = owed /\ arr' = arr /\ ask' = ask
      /\ event' = [old |-> host.leaf, new |-> host'.leaf, landing |-> t, due |-> TRUE]
  BY DEF HostNavigate, runtimeVars
<1>2. \/ host' = [host EXCEPT !.leaf = t]
      \/ /\ s \in Entries \ host.graph
         /\ Parent(s) = t
         /\ host' = [graph |-> host.graph \cup {s}, leaf |-> s]
  BY DEF HostNavigate
<1>3. host \in Views /\ NoTrip.phase = "none" BY NothingTyped DEF ProtocolInv, Typed
<1>4. host.graph \subseteq host'.graph
  <2>1. CASE host' = [host EXCEPT !.leaf = t] BY <1>3, <2>1 DEF Views
  <2>2. CASE host' = [graph |-> host.graph \cup {s}, leaf |-> s] BY <2>2
  <2> QED BY <1>2, <2>1, <2>2
<1>5. Contained(w, w', host) BY <1>1 DEF Contained
<1>6. job.kind # "none" => Lost' \/ (host' = host /\ content' = content /\ (Lost => Lost'))
  <2>1. SUFFICES ASSUME job.kind # "none", ~ Lost'
                 PROVE  host' = host /\ (Lost => Lost')
    BY <1>1
  <2>2. w.active /\ trip.phase = "accepted" BY <1>1, <2>1 DEF Lost
  <2>3. host'.graph = job.view.graph /\ host' = job.view BY <1>1, <1>3, <2>1 DEF Lost
  <2>4. job.view.graph \subseteq host.graph BY <2>1 DEF ProtocolInv, JobHere
  <2>5. host.graph = job.view.graph BY <1>4, <2>3, <2>4, Between
  <2>6. ~ Lost BY <2>2, <2>5 DEF Lost
  <2>7. host = job.view BY <2>1, <2>6 DEF ProtocolInv, JobHere
  <2> QED BY <2>3, <2>6, <2>7
<1>7. JobKept BY <1>1, <1>6, JobMoved DEF ProtocolInv, HomeInv
<1>8. Guarded'
  <2>1. CASE ~ w.active BY <1>1, <2>1 DEF Guarded, Exposed
  <2>2. CASE Here # t
    <3>1. StableOf(host.leaf) # t BY <2>2 DEF Here, At
    <3>2. Elsewhere' BY <1>1, <3>1 DEF Elsewhere
    <3> QED BY <3>2 DEF Guarded, Exposed
  <2>3. CASE w.active /\ Here = t
    <3>1. CASE Exposed
      <4>1. ~ Elsewhere BY <1>1 DEF Elsewhere
      <4>2. Exposed' BY <1>1, <2>3, <3>1, <4>1 DEF Exposed, InTransit, Pending, Writing
      <4> QED BY <4>2 DEF Guarded
    <3>2. CASE Sheltered /\ host' = [host EXCEPT !.leaf = t]
      <4>1. host'.leaf = t /\ host'.graph = host.graph BY <1>3, <3>2 DEF Views
      <4>2. At(host') = t BY <4>1, StableStays DEF At
      <4>3. Here' = Here BY <2>3, <4>2 DEF Here
      <4>4. home = Here => home' = Here' BY <1>1, <4>3, HomeMoved
      <4>5. Shut(w, host) => Shut(w', host') BY <1>1, <2>3, <4>2 DEF Shut, Here
      <4>6. Unpaid => Unpaid' BY <1>1 DEF Unpaid, Free
      <4> QED BY <3>2, <4>4, <4>5, <4>6 DEF Guarded, Sheltered
    <3>3. CASE /\ Sheltered /\ s \in Entries \ host.graph /\ Parent(s) = t
               /\ host' = [graph |-> host.graph \cup {s}, leaf |-> s]
      <4>1. Sheltered' BY <1>1, <2>3, <3>3, AppendsHome DEF HomeInv
      <4> QED BY <4>1 DEF Guarded
    <3> QED BY <1>2, <3>1, <3>2, <3>3 DEF HomeInv, Guarded
  <2> QED BY <2>1, <2>2, <2>3
<1> QED BY <1>4, <1>5, <1>7, <1>8, HomeKeeps DEF HomeKept

(* A step of Pi or the user that leaves the session where it is.           *)
LEMMA UserHome ==
  ASSUME ProtocolInv, HomeInv, HomeMoves, HostStays \/ \E tree \in Trees : UserEdits(tree)
  PROVE  HomeKept
<1>1. /\ host' = host /\ event' = event /\ w' = w /\ job' = job /\ owed' = owed
      /\ arr' = arr /\ ask' = ask /\ (trip' = trip \/ trip' = NoTrip)
  BY DEF HostStays, UserEdits, hostVars, runtimeVars, handlers
<1>2. FilesStay
  <2>1. CASE HostStays BY <2>1 DEF HostStays, hostVars, FilesStay
  <2>2. ASSUME NEW tree \in Trees, UserEdits(tree) PROVE FilesStay
    <3>1. edits' = edits + 1 /\ edits \in Nat
      BY <2>2, BoundsAssumption DEF UserEdits, ProtocolInv, Typed
    <3> QED BY <3>1 DEF FilesStay
  <2> QED BY <2>1, <2>2
<1>3. trip'.phase \in {"ready", "accepted"} => trip.phase \in {"ready", "accepted"}
  BY <1>1, NothingTyped
<1>4. JobKept /\ (Writing <=> Writing') BY <1>1, <1>2, <1>3, JobAside DEF HomeInv
<1>5. Modestly BY <1>1 DEF Modestly, Modest, Contained
<1>6. Pending => Pending' BY <1>1 DEF Pending
<1>7. Quiet BY <1>1, <1>2 DEF Quiet
<1> QED BY <1>1, <1>4, <1>5, <1>6, <1>7, Guards DEF HomeInv, HomeKept

LEMMA CrashHome ==
  ASSUME ProtocolInv, HomeInv, HomeMoves, Crash
  PROVE  HomeKept
<1>1. w \in States /\ w' = Withdrawn(w) /\ job' = NoJob BY DEF Crash, ProtocolInv, Typed
<1>2. Contained(w, w', host) /\ ~ w'.active BY <1>1, ClaimModest, RowsKept
<1> QED BY <1>1, <1>2, NoJobPlain DEF HomeKept, Guarded, Exposed

LEMMA ProtectsHome ==
  ASSUME ProtocolInv, HomeInv, HomeMoves, NEW h \in Handlers, Protects(h)
  PROVE  HomeKept
<1>1. w \in States /\ Rooted(host) BY HostRootedHere DEF HomeInv, MapInv
<1>2. w' \in {Recover(w, host), Protected(w, host), Barred(w), Withdrawn(w)}
      /\ job' = NoJob /\ host' = host
  BY DEF Protects, Idle, hostVars
<1>3. CASE w' # Withdrawn(w)
  <2>1. Contained(w, w', host) /\ Shut(w', host) BY <1>1, <1>2, <1>3, ProtectsModest DEF Modest
  <2> QED BY <1>2, <2>1, NoJobPlain DEF HomeKept, Guarded, Sheltered
<1>4. CASE w' = Withdrawn(w)
  <2>1. Contained(w, w', host) /\ ~ w'.active BY <1>1, <1>4, ClaimModest, RowsKept
  <2> QED BY <1>2, <2>1, NoJobPlain DEF HomeKept, Guarded, Exposed
<1> QED BY <1>3, <1>4
-----------------------------------------------------------------------------
(* Arrivals.                                                               *)

(* An arrival whose departure the authority remembers left a live          *)
(* observation, and whoever goes nowhere has not been elsewhere.           *)
LEMMA AuthenticStays ==
  ASSUME MapInv, event.due, Authentic(BeginTreeArrival(w.adm, ThisAttempt))
  PROVE  /\ w.adm.kind = "live"
         /\ NothingMoves \/ plan.kind = "same-location" => ~ Elsewhere
<1>1. w.adm.kind = "live" BY DEF Authentic, BeginTreeArrival, NoAuthority
<1>2. event.new = event.old => ~ Elsewhere BY DEF MapInv, EventSame, Elsewhere
<1>3. plan.kind = "same-location" => ~ Elsewhere
  BY DEF MapInv, PlanSame, Elsewhere, Authentic
<1> QED BY <1>1, <1>2, <1>3 DEF NothingMoves

LEMMA TreeEventHome ==
  ASSUME ProtocolInv, HomeInv, HomeMoves, ArrivalFrame, TreeEvent
  PROVE  HomeKept
<1> DEFINE a == BeginTreeArrival(w.adm, ThisAttempt)
           c == CarryArrival(a, ThisAttempt, host)
           begun == WithAdmission(w, a)
           carried == WithAdmission(w, c)
           found == [phase |-> "queued", attempt |-> ThisAttempt, view |-> host, plan |-> plan]
<1>1. w \in States /\ Rooted(host) /\ w.adm \in Authorities /\ host \in Views
      /\ Contained(w, w, host)
  BY HostRootedHere DEF HomeInv, MapInv, States
<1>2. a \in Authorities /\ a.kind = "arrival"
  <2>1. a.kind = "arrival" BY DEF BeginTreeArrival, NoAuthority
  <2>2. a \in Authorities BY <1>1, AuthorityTyped, TokensDiffer
  <2> QED BY <2>1, <2>2
<1>3. Authentic(a) =>
        w.adm.kind = "live" /\ (NothingMoves \/ plan.kind = "same-location" => ~ Elsewhere)
  BY AuthenticStays DEF HomeInv, TreeEvent
<1>4. \/ ~ w.active /\ w' = w /\ arr' = arr /\ owed' = owed
      \/ w.active /\ OwesRecovery(begun, "arr", queue) /\ arr' = arr
      \/ w.active /\ Authentic(a) /\ NothingMoves /\ w' = carried /\ owed' = owed /\ arr' = arr
      \/ w.active /\ OwesRecovery(carried, "arr", queue) /\ arr' = arr
      \/ w.active /\ Authentic(a) /\ w' = begun /\ owed' = owed /\ arr' = found
  BY DEF TreeEvent, SettlesOr, Outcome, Stays, Goes
<1>5. host' = host /\ trip' = trip /\ ask' = ask /\ job' = job /\ FilesStay /\ event.due
      /\ arr.phase = "none"
  BY DEF ArrivalFrame, TreeEvent, FilesStay, ProtocolInv, Due
<1>6. c \in Authorities BY <1>1, <1>2, AuthorityYields, TokensDiffer
<1> HIDE DEF a, c
<1>7. /\ begun \in States /\ SameRows(w, begun) /\ begun.active = w.active /\ begun.adm = a
      /\ carried \in States /\ SameRows(w, carried) /\ carried.active = w.active
  <2>1. begun \in States /\ carried \in States BY <1>1, <1>2, <1>6 DEF WithAdmission, States
  <2> QED BY <1>1, <1>2, <1>6, <2>1, RowsKept
<1>8. w.active => Contained(w, begun, host) /\ Contained(w, carried, host)
  BY <1>1, ActiveContained
<1> HIDE DEF begun, carried
<1>9. job.kind # "arrival" BY <1>5 DEF ProtocolInv, JobKnows
<1>10. ASSUME w'.slots = w.slots, w'.active => w.active, w.adm.kind = "closed" => w'.adm.kind = "closed"
       PROVE  JobKept
  BY <1>5, <1>9, <1>10, JobAside DEF HomeInv
<1>11. ASSUME ~ w.active, w' = w, arr' = arr PROVE HomeKept
  BY <1>1, <1>10, <1>11 DEF HomeKept, Guarded, Exposed
<1>12. ASSUME w.active, NEW s \in States, Contained(w, s, host), SameRows(w, s),
              OwesRecovery(s, "arr", queue)
       PROVE  HomeKept
  <2>1. Typed /\ "arr" \in Handlers BY DEF ProtocolInv, Handlers
  <2>2. Contained(w, w', host) /\ Unpaid' /\ w'.adm.kind = "closed"
    BY <1>12, <2>1, OwesHome
  <2>3. w' = Quarantined(s) BY <1>12 DEF OwesRecovery
  <2>4. w'.slots = w.slots BY <1>12, <2>3, RowsKept DEF SameRows
  <2> QED BY <1>10, <1>12, <2>2, <2>4 DEF HomeKept, Guarded, Sheltered
<1>13. ASSUME w.active, Authentic(a), ~ Elsewhere, SameRows(w, w'), owed' = owed
       PROVE  Sheltered'
  <2>1. ~ Exposed BY <1>3, <1>13 DEF Exposed, InTransit
  <2>2. Sheltered BY <2>1 DEF HomeInv, Guarded
  <2>3. home = Here => home' = Here' BY <1>5, HomeStands
  <2>4. Shut(w, host) => Shut(w', host') BY <1>5, <1>13 DEF Shut, SameRows
  <2>5. Unpaid => Unpaid' BY <1>13 DEF Unpaid, Free
  <2> QED BY <2>2, <2>3, <2>4, <2>5 DEF Sheltered
<1>14. ASSUME w.active, Authentic(a), NothingMoves, w' = carried, owed' = owed
       PROVE  HomeKept
  <2>1. Sheltered' BY <1>3, <1>7, <1>13, <1>14
  <2>2. JobKept BY <1>3, <1>7, <1>10, <1>14 DEF SameRows
  <2> QED BY <1>8, <1>14, <2>1, <2>2 DEF HomeKept, Guarded
<1>15. ASSUME w.active, Authentic(a), w' = begun, owed' = owed, arr' = found
       PROVE  HomeKept
  <2>1. JobKept BY <1>3, <1>7, <1>10, <1>15 DEF SameRows
  <2>2. CASE plan.kind = "same-location"
    <3>1. Sheltered' BY <1>3, <1>7, <1>13, <1>15, <2>2
    <3> QED BY <1>8, <1>15, <2>1, <3>1 DEF HomeKept, Guarded
  <2>3. CASE plan.kind # "same-location"
    <3>1. InTransit' BY <1>2, <1>7, <1>15, <2>3 DEF InTransit
    <3> QED BY <1>8, <1>15, <2>1, <3>1 DEF HomeKept, Guarded, Exposed
  <2> QED BY <2>2, <2>3
<1> QED BY <1>4, <1>7, <1>8, <1>11, <1>12, <1>14, <1>15
LEMMA MissingBearsNothing ==
  ASSUME NEW sl \in [Entries -> Slot], NEW e \in Entries,
         sl[e] # BlockedMissing, Resolve(sl, e) = Missing
  PROVE  Bearing(sl, e) = {}
<1>1. SUFFICES ASSUME Bearing(sl, e) # {} PROVE FALSE OBVIOUS
<1>2. PICK i \in 1..Len(Path[e]) : IsNearest(sl, e, i) BY <1>1, NearestExists
<1>3. Inherited(sl, e).tree = sl[Path[e][i]].tree /\ HasTree(sl[Path[e][i]])
  BY <1>2, InheritedFromNearest
<1>4. Resolve(sl, e) = Inherited(sl, e) BY DEF Resolve
<1> QED BY <1>3, <1>4 DEF HasTree, Missing

(* What inherits the checkpoint recorded where nothing was inherited, had  *)
(* nothing to inherit.                                                     *)
LEMMA InheritsTheFirst ==
  ASSUME NEW sl \in [Entries -> Slot], NEW d \in Entries, NEW e \in Entries,
         ~ IsBlocked(sl[d]), Resolve(sl, d) = Missing, NEW t \in Trees,
         Resolve([sl EXCEPT ![d] = OpenCheckpoint(t)], e).at = d
  PROVE  Resolve(sl, e) = Missing
<1> DEFINE new == [sl EXCEPT ![d] = OpenCheckpoint(t)]
<1>1. new \in [Entries -> Slot] /\ new[d] = OpenCheckpoint(t)
      /\ \A c \in Entries : c # d => new[c] = sl[c]
  BY DEF OpenCheckpoint, Slot
<1>2. Resolve(new, e).at = d OBVIOUS
<1> HIDE DEF new
<1>3. HasTree(new[d]) BY <1>1, NoTreeAssumption DEF HasTree, OpenCheckpoint
<1>4. Bearing(sl, d) = {}
  <2>1. sl[d] # BlockedMissing BY DEF IsBlocked, BlockedMissing
  <2> QED BY <2>1, MissingBearsNothing
<1>5. d # NoEntry BY NoEntryAssumption
<1>6. Resolve(new, e) = Inherited(new, e) /\ Bearing(new, e) # {}
  BY <1>2, <1>5 DEF Resolve, Inherited, Missing
<1>7. PICK k \in 1..Len(Path[e]) : IsNearest(new, e, k) BY <1>1, <1>6, NearestExists
<1>8. Path[e][k] = d BY <1>1, <1>2, <1>6, <1>7, InheritedFromNearest
<1>9. Len(Path[d]) = k /\ \A j \in 1..k : Path[d][j] = Path[e][j]
  BY <1>7, <1>8, PathPrefix
<1>10. Bearing(sl, e) = {}
  <2>1. SUFFICES ASSUME NEW i \in Bearing(sl, e) PROVE FALSE OBVIOUS
  <2>2. i \in 1..Len(Path[e]) /\ HasTree(sl[Path[e][i]]) BY DEF Bearing
  <2>3. Path[e][i] \in Entries BY <2>2, PathTyped
  <2>4. HasTree(new[Path[e][i]]) BY <1>1, <1>3, <2>2, <2>3
  <2>5. i <= k BY <1>7, <2>2, <2>4 DEF IsNearest, Bearing
  <2>6. i \in 1..k BY <1>7, <2>2, <2>5, PathTyped
  <2>7. i \in Bearing(sl, d) BY <1>9, <2>2, <2>6 DEF Bearing
  <2> QED BY <1>4, <2>7
<1>11. Inherited(sl, e) = Missing BY <1>10 DEF Inherited
<1> QED BY <1>11 DEF Resolve

LEMMA ArrivalOverHome ==
  ASSUME HomeInv, HomeMoves, ArrivalFrame, job' = NoJob, Contained(w, w', host),
         Shut(w', host) \/ Unpaid' \/ home = Here
  PROVE  HomeKept
<1>1. host' = host /\ FilesStay BY DEF ArrivalFrame, FilesStay
<1>2. home = Here => home' = Here' BY <1>1, HomeStands
<1> QED BY <1>1, <1>2, NoJobPlain DEF HomeKept, Guarded, Sheltered

LEMMA ArrivalRecoversHome ==
  ASSUME ProtocolInv, HomeInv, HomeMoves, ArrivalFrame, NEW q, ArrivalRecovers(q)
  PROVE  HomeKept
<1>1. Typed /\ w \in States /\ Contained(w, w, host) /\ "arr" \in Handlers
  BY HostRootedHere DEF HomeInv, MapInv, ProtocolInv, Handlers
<1>2. Contained(w, w', host) /\ Unpaid' BY <1>1, OwesHome DEF ArrivalRecovers
<1> QED BY <1>2, ArrivalOverHome DEF ArrivalRecovers, ArrivalEnds, Ends

LEMMA ArrivalSettlesHome ==
  ASSUME ProtocolInv, HomeInv, HomeMoves, ArrivalFrame, NEW q, NEW o, ArrivalSettlesBy(o, q),
         o.state \in States, Contained(w, o.state, host),
         o.ok => Shut(o.state, host) \/ home = Here
  PROVE  HomeKept
<1>1. Typed /\ "arr" \in Handlers BY DEF ProtocolInv, Handlers
<1>2. job' = NoJob /\ ((o.ok /\ w' = o.state) \/ OwesRecovery(o.state, "arr", q))
  BY DEF ArrivalSettlesBy, ArrivalEnds, Ends, SettlesOr
<1>3. OwesRecovery(o.state, "arr", q) => Contained(w, w', host) /\ Unpaid' BY <1>1, OwesHome
<1> QED BY <1>2, <1>3, ArrivalOverHome

(* A job of the arrival that begins or goes on.                            *)
LEMMA ArrivalGoesHome ==
  ASSUME HomeInv, HomeMoves, ArrivalFrame, event' = event, w' = w, owed' = owed,
         arr'.plan = arr.plan, ~ Writing, job'.kind = "arrival",
         job'.step \in {"scan", "settle", "noop", "cutover"},
         FoundInherited' => Lost' \/ (Effective(w', host') = arr'.plan.res => home' = Here')
  PROVE  HomeKept
<1>1. Quiet /\ ask' = ask BY DEF ArrivalFrame, Quiet, FilesStay
<1>2. Modestly BY DEF Modestly, Modest, Contained
<1>3. Pending => Pending' BY <1>1 DEF Pending
<1>4. Contained(w, w', host) /\ Guarded' BY <1>1, <1>2, <1>3, Guards DEF HomeInv
<1>5. Spent' /\ Applying' /\ ~ FoundRestored' BY DEF Spent, Applying, FoundRestored, Runs
<1> QED BY <1>4, <1>5 DEF HomeKept, JobKept, JobHome

LEMMA ArrivalProtectsHome ==
  ASSUME ProtocolInv, HomeInv, HomeMoves, ArrivalFrame, arr.attempt \in Attempts,
         NEW s \in States, Contained(w, s, host), NEW q,
         ArrivalSettlesBy(ProtectTreeArrival(s, arr.attempt, host), q)
  PROVE  HomeKept
<1> DEFINE o == ProtectTreeArrival(s, arr.attempt, host)
<1>1. Rooted(host) /\ host \in Views BY HostRootedHere DEF HomeInv, MapInv
<1>2. o.state \in States BY <1>1, ProtectArrivalTame DEF Tame
<1>3. Contained(s, o.state, host) /\ (o.ok => Shut(o.state, host)) BY <1>1, ProtectArrivalHome
<1>4. ArrivalSettlesBy(o, q) OBVIOUS
<1> HIDE DEF o
<1>5. Contained(w, o.state, host) BY <1>3, ModestTwice
<1> QED BY <1>2, <1>3, <1>4, <1>5, ArrivalSettlesHome

LEMMA ArrivalBeginsHome ==
  ASSUME ProtocolInv, HomeInv, HomeMoves, ArrivalFrame, event' = event, ArrivalBegins
  PROVE  HomeKept
<1>1. w \in States /\ Rooted(host) /\ host \in Views /\ Contained(w, w, host)
  BY HostRootedHere DEF HomeInv, MapInv
<1>2. arr.phase # "none" /\ arr.attempt \in Attempts /\ arr \in Arrivals
  BY DEF ArrivalBegins, ProtocolInv, Informed, Typed
<1>3. ~ Writing BY DEF ArrivalBegins, IsNext, Idle, Writing, NoJob
<1>4. CASE ArrivalRecovers(Others) BY <1>4, ArrivalRecoversHome
<1>5. CASE ArrivalSettlesBy(ProtectTreeArrival(w, arr.attempt, host), Others)
  BY <1>1, <1>2, <1>5, ArrivalProtectsHome
<1>6. CASE /\ Here = NoEntry
           /\ ArrivalSettlesBy(AdmitCurrentTreeArrival(w, arr.attempt, host), Others)
  <2> DEFINE o == AdmitCurrentTreeArrival(w, arr.attempt, host)
  <2>1. o.state \in States BY <1>1, <1>2, AdmitCurrentArrivalTame DEF Tame
  <2>2. Contained(w, o.state, host) BY <1>1, AdmitCurrentArrivalHome
  <2>3. ArrivalSettlesBy(o, Others) BY <1>6
  <2> HIDE DEF o
  <2>4. Shut(o.state, host) BY <1>6 DEF Shut, Here
  <2> QED BY <2>1, <2>2, <2>3, <2>4, ArrivalSettlesHome
<1>7. ASSUME NEW x, x = "scan" \/ (x = "settle" /\ arr.plan.kind = "detach"),
             Begins("arrival", x, arr.view), arr' = [arr EXCEPT !.phase = "running"],
             w' = w, Goes(Others)
      PROVE  HomeKept
  <2>1. job'.kind = "arrival" /\ job'.step = x BY <1>7 DEF Begins, NoJob
  <2>2. arr'.plan = arr.plan BY <1>2, <1>7 DEF Arrivals
  <2>3. ~ FoundInherited' BY <1>7, <2>1, <2>2 DEF FoundInherited
  <2> QED BY <1>3, <1>7, <2>1, <2>2, <2>3, ArrivalGoesHome DEF Goes
<1> DEFINE starts(x) == /\ Begins("arrival", x, arr.view)
                        /\ arr' = [arr EXCEPT !.phase = "running"]
                        /\ w' = w /\ Goes(Others)
<1>8. \/ ArrivalRecovers(Others)
      \/ ArrivalSettlesBy(ProtectTreeArrival(w, arr.attempt, host), Others)
      \/ /\ Exact(arr.view) /\ arr.plan.kind = "no-node" /\ ~ Materializes
         /\ ArrivalSettlesBy(AdmitCurrentTreeArrival(w, arr.attempt, host), Others)
      \/ starts("scan")
      \/ arr.plan.kind = "detach" /\ starts("settle")
  BY DEF ArrivalBegins
<1>9. Exact(arr.view) /\ arr.plan.kind = "no-node" /\ ~ Materializes => Here = NoEntry
  BY DEF Materializes, Landed, Exact, Here
<1> QED BY <1>4, <1>5, <1>6, <1>7, <1>8, <1>9

LEMMA ArrivalScansHome ==
  ASSUME ProtocolInv, HomeInv, HomeMoves, ArrivalFrame, event' = event, ArrivalScans
  PROVE  HomeKept
<1>1. job.kind = "arrival" /\ job.step = "scan" BY DEF ArrivalScans, Runs
<1>2. CASE ArrivalRecovers(queue) BY <1>2, ArrivalRecoversHome
<1>3. CASE /\ Materializes \/ content = arr.plan.preview
           /\ job' = [job EXCEPT !.step = "settle", !.seen = content]
           /\ w' = w /\ arr' = arr /\ Stays
  <2>1. job'.kind = "arrival" /\ job'.step = "settle"
    BY <1>1, <1>3 DEF ProtocolInv, Typed, Jobs
  <2>2. ~ Writing BY <1>1 DEF Writing
  <2>3. ASSUME FoundInherited', Effective(w', host') = arr'.plan.res
        PROVE  home' = Here'
    <3>1. arr.plan.kind = "inherit-source" BY <1>3, <2>3 DEF FoundInherited
    <3>2. ~ Materializes BY <3>1 DEF Materializes
    <3>3. arr.plan.res.tree = content BY <1>3, <3>1, <3>2 DEF ProtocolInv, Informed, Sound
    <3>4. host' = host /\ content' = content BY DEF ArrivalFrame
    <3>5. Effective(w, host) = arr.plan.res BY <1>3, <2>3, <3>4
    <3> QED BY <1>3, <3>3, <3>4, <3>5, ResolvedMatches
  <2> QED BY <1>3, <2>1, <2>2, <2>3, ArrivalGoesHome DEF Stays
<1> QED BY <1>2, <1>3 DEF ArrivalScans

LEMMA ArrivalDetachesHome ==
  ASSUME ProtocolInv, HomeInv, HomeMoves, ArrivalFrame, ArrivalDetaches
  PROVE  HomeKept
<1>1. w \in States /\ Contained(w, w, host) /\ arr.attempt \in Attempts
  BY HostRootedHere
     DEF HomeInv, MapInv, ArrivalDetaches, Runs, ProtocolInv, JobKnows, Informed
<1>2. \/ ArrivalRecovers(queue)
      \/ ArrivalSettlesBy(ProtectTreeArrival(w, arr.attempt, host), queue)
  BY DEF ArrivalDetaches
<1> QED BY <1>1, <1>2, ArrivalRecoversHome, ArrivalProtectsHome

LEMMA ArrivalInheritsHome ==
  ASSUME ProtocolInv, HomeInv, HomeMoves, ArrivalFrame, ArrivalInherits
  PROVE  HomeKept
<1> DEFINE o == AdmitTreeArrivalIfResolution(w, arr.attempt, host, arr.plan.res)
<1>1. w \in States /\ Rooted(host) /\ host \in Views /\ arr.attempt \in Attempts
      /\ arr.view = job.view /\ FoundInherited
  BY HostRootedHere
     DEF HomeInv, MapInv, ArrivalInherits, Runs, ProtocolInv, JobKnows, Informed, FoundInherited
<1>2. o.state \in States BY <1>1, AdmitArrivalTame DEF Tame, Frees, TameBut
<1>3. Contained(w, o.state, host)
      /\ (o.ok => Shut(o.state, host) \/ FoundAt(w, host, arr.plan.res))
  BY <1>1, AdmitArrivalHome
<1>4. ArrivalRecovers(queue) \/ (Exact(arr.view) /\ ArrivalSettlesBy(o, queue))
  BY DEF ArrivalInherits
<1> HIDE DEF o
<1>5. Exact(arr.view) /\ FoundAt(w, host, arr.plan.res) => home = Here
  BY <1>1 DEF FoundAt, Exact, Lost, HomeInv, JobHome
<1> QED BY <1>2, <1>3, <1>4, <1>5, ArrivalRecoversHome, ArrivalSettlesHome

LEMMA ArrivalRestoresHome ==
  ASSUME ProtocolInv, HomeInv, HomeMoves, ArrivalFrame, event' = event, ArrivalRestores
  PROVE  HomeKept
<1>1. w \in States /\ Rooted(host) /\ host \in Views /\ Contained(w, w, host)
      /\ arr.attempt \in Attempts /\ job.kind = "arrival" /\ job.step = "settle"
      /\ arr.plan.kind = "restore" /\ Typed
  BY HostRootedHere DEF HomeInv, MapInv, ArrivalRestores, Runs, ProtocolInv, JobKnows, Informed
<1>2. CASE ArrivalRecovers(queue) BY <1>2, ArrivalRecoversHome
<1>3. CASE ArrivalEnds /\ ProtectsArrivalOrRecovers(w)
  <2> DEFINE o == ProtectTreeArrival(w, arr.attempt, host)
  <2>1. Contained(w, o.state, host) /\ (o.ok => Shut(o.state, host))
    BY <1>1, ProtectArrivalHome
  <2>2. (o.ok /\ w' = o.state) \/ RecoversInLock(w, Handler, queue)
    BY <1>3 DEF ProtectsArrivalOrRecovers, Recovers
  <2> HIDE DEF o
  <2>3. Handler \in Handlers BY DEF Handler, Handlers
  <2>4. RecoversInLock(w, Handler, queue) => Contained(w, w', host) /\ (Shut(w', host) \/ Unpaid')
    BY <1>1, <2>3, RecoversHome
  <2>5. job' = NoJob BY <1>3 DEF ArrivalEnds, Ends
  <2> QED BY <2>1, <2>2, <2>4, <2>5, ArrivalOverHome
<1>4. CASE /\ job' = [job EXCEPT !.step = IF job.seen = arr.plan.res.tree
                                            THEN "noop" ELSE "cutover",
                                 !.res = arr.plan.res]
           /\ w' = w /\ arr' = arr /\ Stays
  <2> DEFINE x == IF job.seen = arr.plan.res.tree THEN "noop" ELSE "cutover"
  <2>1. x \in {"noop", "cutover"} OBVIOUS
  <2>2. job' = [job EXCEPT !.step = x, !.res = arr.plan.res] BY <1>4
  <2> HIDE DEF x
  <2>3. job'.kind = "arrival" /\ job'.step = x BY <1>1, <2>2 DEF Typed, Jobs
  <2>4. ~ FoundInherited' /\ ~ Writing BY <1>1, <2>1, <2>3 DEF FoundInherited, Writing
  <2> QED BY <1>4, <2>1, <2>3, <2>4, ArrivalGoesHome DEF Stays
<1> QED BY <1>2, <1>3, <1>4 DEF ArrivalRestores

LEMMA ResolvedAt ==
  ASSUME NEW sl \in [Entries -> Slot], NEW e \in Entries, Resolve(sl, e).tree # NoTree
  PROVE  Resolve(sl, e).at \in Entries
<1>1. Bearing(sl, e) # {} /\ Resolve(sl, e) = Inherited(sl, e)
  BY DEF Resolve, Inherited, Missing
<1>2. PICK i \in 1..Len(Path[e]) : IsNearest(sl, e, i) BY <1>1, NearestExists
<1>3. Inherited(sl, e) = [at |-> Path[e][i], tree |-> sl[Path[e][i]].tree]
  BY <1>2, InheritedFromNearest
<1> QED BY <1>1, <1>3, PathTyped

(* What an arrival records a checkpoint for belongs where it arrives.      *)
LEMMA MaterializedHome ==
  ASSUME ProtocolInv, HomeInv, Exact(arr.view), Materializes, MayMaterialize, w.active,
         ArrivalGoesOn, arr.phase # "none", ~ w.barrier, NEW t \in Trees \cup {NoTree},
         FoundAt(Captured(w, MissingTarget, t), host, [at |-> MissingTarget, tree |-> t])
  PROVE  home = Here \/ Unpaid
<1> DEFINE after == Captured(w, MissingTarget, t)
<1>1. w \in States /\ host \in Views /\ Typed BY DEF ProtocolInv, Typed
<1>2. Here \in Entries /\ Effective(after, host) = [at |-> MissingTarget, tree |-> t] /\ t \in Trees
      /\ Effective(after, host).tree # NoTree
  BY DEF FoundAt, Here
<1>3. Landed = Here BY DEF Landed, Exact, Here
<1>4. CASE arr.plan.kind = "same-location"
  <2>1. w.adm.kind = "arrival" BY DEF ArrivalGoesOn, ArrivalCanProceed, ArrivalIsCurrent
  <2>2. ~ event.due BY DEF ProtocolInv, Due
  <2>3. ~ Exposed BY <1>4, <2>1, <2>2 DEF Exposed, Elsewhere, InTransit
  <2>4. ~ IsBlocked(w.slots[Here]) BY <1>3, <1>4 DEF MayMaterialize, MissingTarget
  <2>5. ~ Shut(w, host) BY <1>2, <2>4, NoEntryAssumption DEF Shut, Here
  <2> QED BY <2>3, <2>5 DEF HomeInv, Guarded, Sheltered
<1>5. CASE arr.plan.kind = "no-node"
  <2>1. Resolve(w.slots, Here) = Missing BY <1>3, <1>5 DEF MayMaterialize, MissingTarget
  <2> QED BY <1>2, <2>1, NoEntryAssumption, UnresolvedIsHome DEF HomeInv
<1>6. CASE arr.plan.kind = "materialize-missing"
  <2> DEFINE d == arr.plan.destination
  <2>1. MissingTarget = d /\ ~ IsBlocked(w.slots[d]) /\ Resolve(w.slots, d) = Missing
    BY <1>6 DEF MayMaterialize, MissingTarget
  <2>2. after.slots = [w.slots EXCEPT ![d] = OpenCheckpoint(t)]
    BY <1>1, <2>1 DEF Captured, States
  <2>3. after \in States
    BY <1>1, <2>1, CapturedTame
  <2>4. Effective(after, host) = Resolve(after.slots, Here)
    BY <1>2, NoEntryAssumption DEF Effective, EffectiveAt, Here
  <2>5. after.slots \in [Entries -> Slot] BY <2>3 DEF States
  <2> HIDE DEF after, d
  <2>6. Resolve(after.slots, Here).at \in Entries BY <1>2, <2>4, <2>5, ResolvedAt
  <2>7. d \in Entries /\ Resolve(after.slots, Here).at = d BY <1>2, <2>1, <2>4, <2>6
  <2>8. Resolve(w.slots, Here) = Missing
    BY <1>1, <1>2, <2>1, <2>2, <2>7, InheritsTheFirst DEF States
  <2> QED BY <1>2, <2>8, NoEntryAssumption, UnresolvedIsHome DEF HomeInv
<1> QED BY <1>4, <1>5, <1>6 DEF Materializes

LEMMA ArrivalMaterializesHome ==
  ASSUME ProtocolInv, HomeInv, HomeMoves, ArrivalFrame, ArrivalMaterializes
  PROVE  HomeKept
<1> DEFINE m     == MissingTarget
           slot  == w.slots[m]
           after == AfterCapture(w, m, slot, job.seen)
           res   == [at |-> m, tree |-> job.seen]
           o     == AdmitTreeArrivalIfResolution(after, arr.attempt, host, res)
           now   == Exact(arr.view) /\ MayMaterialize /\ w.active /\ ArrivalGoesOn
           done  == CaptureVerdict(w, m, slot) = "committed"
<1>1. w \in States /\ Rooted(host) /\ host \in Views /\ Typed /\ arr.attempt \in Attempts
      /\ arr.phase # "none" /\ Materializes /\ "arr" \in Handlers
  BY HostRootedHere
     DEF HomeInv, MapInv, ArrivalMaterializes, Runs, ProtocolInv, JobKnows, Informed, Handlers
<1>2. job.seen \in Trees \cup {NoTree} BY <1>1 DEF Typed, Jobs
<1>3. after \in States BY <1>1, <1>2, AfterCaptureTame
<1>4. \/ ArrivalRecovers(queue)
      \/ now /\ ArrivalSettlesBy(ProtectTreeArrival(after, arr.attempt, host), queue)
      \/ /\ now /\ done /\ ArrivalEnds
         /\ SettlesOr(o, queue, RecoversInLock(o.state, "arr", queue))
  BY DEF ArrivalMaterializes
<1>5. now => m \in host.graph \cup {NoEntry}
  <2>1. ASSUME now PROVE m \in {arr.plan.destination, Here}
    BY <2>1 DEF MissingTarget, Landed, Exact, Here
  <2> QED BY <2>1 DEF HomeInv, MapInv, HostRooted, Targets
<1>6. now => Line(m) \subseteq host.graph /\ (m \in Entries => m \in host.graph)
  <2>1. m \in Entries \cup {NoEntry} \/ ~ now
    <3>1. arr.plan.destination \in Entries \cup {NoEntry}
      BY <1>1 DEF Typed, Arrivals, PlansMade, Coordinates
    <3>2. Landed \in Entries \cup {NoEntry} \/ ~ now BY <1>1, AtTyped DEF Landed, Exact
    <3> QED BY <3>1, <3>2 DEF MissingTarget
  <2> QED BY <1>5, <2>1, NoEntryAssumption DEF Line, HomeInv, MapInv, HostRooted
<1>7. now => Contained(w, after, host) BY <1>1, <1>6, AfterCaptureModest
<1> HIDE DEF now
<1>8. CASE ArrivalRecovers(queue) BY <1>8, ArrivalRecoversHome
<1>9. CASE now /\ ArrivalSettlesBy(ProtectTreeArrival(after, arr.attempt, host), queue)
  <2> HIDE DEF after
  <2> QED BY <1>1, <1>3, <1>7, <1>9, ArrivalProtectsHome
<1>10. CASE /\ now /\ done /\ ArrivalEnds
            /\ SettlesOr(o, queue, RecoversInLock(o.state, "arr", queue))
  <2>1. after = Captured(w, m, job.seen) /\ ~ w.barrier
    BY <1>10 DEF AfterCapture, CaptureVerdict
  <2> HIDE DEF after, m
  <2>2. Contained(after, o.state, host)
        /\ (o.ok => Shut(o.state, host) \/ FoundAt(after, host, res))
    BY <1>1, <1>3, AdmitArrivalHome
  <2>3. o.state \in States BY <1>1, <1>3, AdmitArrivalTame DEF Tame, Frees, TameBut
  <2>4. FoundAt(after, host, res) => home = Here \/ Unpaid
    BY <1>1, <1>2, <1>10, <2>1, MaterializedHome DEF now, m
  <2> HIDE DEF o
  <2>5. Contained(w, o.state, host) BY <1>7, <1>10, <2>2, ModestTwice
  <2>6. job' = NoJob BY <1>10 DEF ArrivalEnds, Ends
  <2>7. CASE o.ok /\ w' = o.state /\ Goes(queue)
    <3>1. Unpaid => Unpaid' BY <2>7 DEF Goes, Unpaid, Free
    <3> QED BY <2>2, <2>4, <2>5, <2>6, <2>7, <3>1, ArrivalOverHome
  <2>8. CASE RecoversInLock(o.state, "arr", queue)
    <3>1. Contained(w, w', host) /\ (Shut(w', host) \/ Unpaid')
      BY <1>1, <2>3, <2>5, <2>8, RecoversHome
    <3> QED BY <2>6, <3>1, ArrivalOverHome
  <2> QED BY <1>10, <2>7, <2>8 DEF SettlesOr
<1> QED BY <1>4, <1>8, <1>9, <1>10

LEMMA ArrivalHome ==
  ASSUME ProtocolInv, HomeInv, HomeMoves, ArrivalNext
  PROVE  HomeKept
<1>1. ArrivalFrame BY DEF ArrivalNext, ArrivalFrame
<1>2. CASE TreeEvent BY <1>1, <1>2, TreeEventHome
<1>3. CASE /\ \/ ArrivalBegins \/ ArrivalScans \/ ArrivalDetaches
              \/ ArrivalMaterializes \/ ArrivalInherits \/ ArrivalRestores
              \/ ArrivalFails
           /\ event' = event /\ plan' = plan
  <2>1. ArrivalFails => HomeKept BY <1>1, ArrivalRecoversHome DEF ArrivalFails
  <2> QED BY <1>1, <1>3, <2>1, ArrivalBeginsHome, ArrivalScansHome, ArrivalDetachesHome,
             ArrivalMaterializesHome, ArrivalInheritsHome, ArrivalRestoresHome
<1> QED BY <1>2, <1>3 DEF ArrivalNext
-----------------------------------------------------------------------------
(* The destructive part of a restore.                                      *)

(* A job is over, and what it leaves is shut, owed a protection or right.  *)
LEMMA OverHome ==
  ASSUME HomeInv, HomeMoves, host' = host, FilesStay, job' = NoJob, Contained(w, w', host),
         Shut(w', host) \/ Unpaid' \/ home = Here
  PROVE  HomeKept
<1>1. home = Here => home' = Here' BY HomeStands
<1> QED BY <1>1, NoJobPlain DEF HomeKept, Guarded, Sheltered

LEMMA ProtectsOrRecoversHome ==
  ASSUME ProtocolInv, HomeInv, NEW s \in States, Contained(w, s, host),
         ProtectsArrivalOrRecovers(s)
  PROVE  Contained(w, w', host) /\ (Shut(w', host) \/ Unpaid')
<1> DEFINE o == ProtectTreeArrival(s, arr.attempt, host)
<1>1. Rooted(host) /\ Typed BY HostRootedHere DEF HomeInv, MapInv, ProtocolInv
<1>2. Contained(s, o.state, host) /\ (o.ok => Shut(o.state, host))
  BY <1>1, ProtectArrivalHome
<1>3. (o.ok /\ w' = o.state) \/ RecoversInLock(s, Handler, queue)
  BY DEF ProtectsArrivalOrRecovers, Recovers
<1> HIDE DEF o
<1>4. Contained(w, o.state, host) BY <1>2, ModestTwice
<1>5. Handler \in Handlers BY DEF Handler, Handlers
<1>6. RecoversInLock(s, Handler, queue) => Contained(w, w', host) /\ (Shut(w', host) \/ Unpaid')
  BY <1>1, <1>5, RecoversHome
<1> QED BY <1>2, <1>3, <1>4, <1>6

LEMMA NotRestoredHome ==
  ASSUME ProtocolInv, HomeInv, HomeMoves, MutationFrame, NEW s \in States, Modest(w, s, host),
         s.active => w.active, NotRestored(s), content' = content, Ends, HandlerReturns,
         Arriving \/ ~ Writing \/ Shut(s, host)
  PROVE  HomeKept
<1>1. host' = host /\ event' = event /\ FilesStay /\ job' = NoJob /\ Contained(w, s, host) /\ Typed
  BY DEF MutationFrame, FilesStay, Ends, Modest, ProtocolInv
<1>2. CASE Arriving /\ ProtectsArrivalOrRecovers(s)
  BY <1>1, <1>2, ProtectsOrRecoversHome, OverHome
<1>3. CASE ~ Arriving /\ ask.mode = "manual" /\ w' = s /\ Stays
  <2>1. CASE Shut(s, host) BY <1>1, <1>3, <2>1, OverHome
  <2>2. CASE ~ Writing
    <3>1. ~ Pending BY <1>3 DEF Pending
    <3>2. Modestly /\ arr' = arr BY <1>3 DEF Modestly, Stays, HandlerReturns
    <3>3. Contained(w, w', host) /\ Guarded'
      BY <1>1, <1>3, <2>2, <3>1, <3>2, Guards DEF HomeInv, Quiet
    <3> QED BY <1>1, <3>3, NoJobPlain DEF HomeKept
  <2> QED BY <1>3, <2>1, <2>2
<1>4. CASE ~ Arriving /\ OwesRecovery(s, "ask", queue)
  <2>1. Contained(w, w', host) /\ Unpaid' BY <1>1, <1>4, OwesHome DEF Handlers
  <2> QED BY <1>1, <2>1, OverHome
<1> QED BY <1>2, <1>3, <1>4 DEF NotRestored

LEMMA CutOverHome ==
  ASSUME ProtocolInv, HomeInv, HomeMoves, MutationFrame, CutOver
  PROVE  HomeKept
<1> DEFINE g == IF Arriving THEN ArrivalCanProceed(w.adm, arr.attempt, host)
                            ELSE CanCutover(w.adm, host)
           o == CutoverIf(g, w, host, job.res)
<1>1. w \in States /\ Rooted(host) /\ host \in Views /\ Modest(w, w, host) /\ job \in Jobs
  BY HostRootedHere DEF HomeInv, MapInv, ProtocolInv, Typed
<1>2. Contained(w, o.state, host) /\ (o.ok => o.state.adm.kind = "closed")
      /\ (~ o.ok => Modest(w, o.state, host))
  BY <1>1, CutoverHome
<1>3. Tame(w, o.state) BY <1>1, CutoverTame
<1>4. job.step = "cutover" /\ content' = content BY DEF CutOver
<1>5. ~ Writing BY <1>4 DEF Writing
<1>6. \/ /\ o.ok /\ w' = o.state
         /\ job' = [job EXCEPT !.step = "write", !.res = Pinned(host, job.res)]
      \/ ~ o.ok /\ NotRestored(o.state) /\ Ends /\ HandlerReturns
      \/ NotRestored(w) /\ Ends /\ HandlerReturns
  BY DEF CutOver, CutoverTreeArrival, CutoverLocation
<1> HIDE DEF o
<1>7. CASE /\ o.ok /\ w' = o.state
           /\ job' = [job EXCEPT !.step = "write", !.res = Pinned(host, job.res)]
  <2>1. job'.step = "write" BY <1>1, <1>7 DEF Jobs
  <2>2. w'.adm.kind = "closed" BY <1>2, <1>7
  <2>3. Exposed' BY <2>1, <2>2 DEF Exposed, Writing
  <2>4. Spent' /\ Applying' /\ ~ FoundRestored' /\ ~ FoundInherited'
    BY <2>1, <2>2 DEF Spent, Applying, Runs, FoundRestored, FoundInherited
  <2> QED BY <1>2, <1>7, <2>3, <2>4 DEF HomeKept, JobKept, JobHome, Guarded
<1>8. CASE ~ o.ok /\ NotRestored(o.state) /\ Ends /\ HandlerReturns
  BY <1>2, <1>3, <1>4, <1>5, <1>8, NotRestoredHome DEF Tame
<1>9. CASE NotRestored(w) /\ Ends /\ HandlerReturns
  BY <1>1, <1>4, <1>5, <1>9, NotRestoredHome
<1> QED BY <1>6, <1>7, <1>8, <1>9

(* A step of the writing itself.                                           *)
LEMMA WritesHome ==
  ASSUME ProtocolInv, HomeInv, HomeMoves, MutationFrame,
         WritesSome \/ WritesTheRest \/ BreaksOff
  PROVE  HomeKept
<1>1. w \in States /\ Contained(w, w, host) /\ job \in Jobs
  BY HostRootedHere DEF HomeInv, MapInv, ProtocolInv, Typed
<1>2. job.step \in {"write", "rest"} /\ w' = w
  BY DEF WritesSome, WritesTheRest, BreaksOff
<1>3. PICK x \in {"rest", "verify", "failed"} : job' = [job EXCEPT !.step = x]
  BY DEF WritesSome, WritesTheRest, BreaksOff, StepsTo
<1>4. job'.step = x BY <1>1, <1>3 DEF Jobs
<1>5. w'.adm.kind = "closed" BY <1>2 DEF HomeInv, Spent
<1>6. Exposed' BY <1>4, <1>5 DEF Exposed, Writing
<1>7. Spent' /\ Applying' /\ ~ FoundRestored' /\ ~ FoundInherited'
  BY <1>4, <1>5 DEF Spent, Applying, Runs, FoundRestored, FoundInherited
<1> QED BY <1>1, <1>2, <1>6, <1>7 DEF HomeKept, JobKept, JobHome, Guarded

LEMMA VerifiesHome ==
  ASSUME ProtocolInv, HomeInv, HomeMoves, MutationFrame, Verifies
  PROVE  HomeKept
<1> DEFINE x == IF content # job.res.tree THEN "failed"
                ELSE IF job.step = "noop" THEN "unchanged" ELSE "done"
<1>1. w \in States /\ Contained(w, w, host) /\ Modest(w, w, host) /\ job \in Jobs
  BY HostRootedHere DEF HomeInv, MapInv, ProtocolInv, Typed
<1>2. /\ job.step \in {"verify", "noop"} /\ w' = w /\ content' = content /\ host' = host
      /\ event' = event /\ arr' = arr /\ ask' = ask /\ owed' = owed /\ FilesStay
  BY DEF Verifies, MutationFrame, Remains, Stays, FilesStay
<1>3. job' = [job EXCEPT !.step = x] BY DEF Verifies, StepsTo
<1>4. /\ x \in {"failed", "done", "unchanged"}
      /\ x \in {"done", "unchanged"} => content = job.res.tree
      /\ job.step = "verify" => x \in {"failed", "done"}
  OBVIOUS
<1> HIDE DEF x
<1>5. job'.step = x /\ job'.res = job.res BY <1>1, <1>3 DEF Jobs
<1>6. JobKept
  <2>1. Spent' /\ Applying' /\ ~ FoundInherited'
    BY <1>4, <1>5 DEF Spent, Applying, Runs, FoundInherited
  <2>2. ASSUME FoundRestored', Effective(w', host') = job'.res PROVE home' = Here'
    <3>1. x \in {"done", "unchanged"} BY <1>4, <1>5, <2>2 DEF FoundRestored
    <3> QED BY <1>2, <1>4, <1>5, <2>2, <3>1, ResolvedMatches
  <2> QED BY <2>1, <2>2 DEF JobKept, JobHome
<1>7. CASE job.step = "verify"
  <2>1. w'.adm.kind = "closed" BY <1>2, <1>7 DEF HomeInv, Spent
  <2>2. Exposed' BY <1>4, <1>5, <1>7, <2>1 DEF Exposed, Writing
  <2> QED BY <1>1, <1>2, <1>6, <2>2 DEF HomeKept, Guarded
<1>8. CASE job.step = "noop"
  <2>1. ~ Writing BY <1>8 DEF Writing
  <2>2. Pending => Pending' BY <1>2 DEF Pending
  <2>3. Modestly /\ Quiet BY <1>1, <1>2 DEF Modestly, Quiet
  <2>4. Contained(w, w', host) /\ Guarded'
    BY <1>2, <2>1, <2>2, <2>3, Guards DEF HomeInv
  <2> QED BY <1>6, <2>4 DEF HomeKept
<1> QED BY <1>2, <1>7, <1>8

LEMMA AdmitsHome ==
  ASSUME ProtocolInv, HomeInv, HomeMoves, MutationFrame, Admits
  PROVE  HomeKept
<1> DEFINE o == AdmitLocationIfResolution(w, host, job.res)
<1>1. w \in States /\ Rooted(host) /\ host \in Views /\ Contained(w, w, host) /\ Typed
      /\ Handler \in Handlers
  BY HostRootedHere, HandlerKnown DEF HomeInv, MapInv, ProtocolInv
<1>2. job.step = "done" /\ job' = NoJob /\ content' = content /\ host' = host /\ FilesStay
  BY DEF Admits, Ends, MutationFrame, FilesStay
<1>3. o.state \in States BY <1>1, AdmitLocationTame
<1>4. Contained(w, o.state, host) /\ (o.ok => FoundAt(w, host, job.res))
  BY <1>1, AdmitLocationHome
<1>5. \/ StillPinned /\ o.ok /\ w' = o.state
      \/ RecoversInLock(o.state, Handler, queue)
      \/ RecoversInLock(w, Handler, queue)
  BY DEF Admits, SettlesOr, Recovers
<1> HIDE DEF o
<1>6. StillPinned /\ o.ok => home = Here
  BY <1>2, <1>4 DEF FoundAt, StillPinned, Exact, Lost, FoundRestored, HomeInv, JobHome
<1>7. RecoversInLock(o.state, Handler, queue) \/ RecoversInLock(w, Handler, queue)
        => Contained(w, w', host) /\ (Shut(w', host) \/ Unpaid')
  BY <1>1, <1>3, <1>4, RecoversHome
<1> QED BY <1>2, <1>4, <1>5, <1>6, <1>7, OverHome

LEMMA AdmitsUnchangedHome ==
  ASSUME ProtocolInv, HomeInv, HomeMoves, MutationFrame, AdmitsUnchanged
  PROVE  HomeKept
<1> DEFINE o == AdmitTreeArrivalIfResolution(w, arr.attempt, host, job.res)
<1>1. w \in States /\ Rooted(host) /\ host \in Views /\ Contained(w, w, host) /\ Typed
      /\ Handler \in Handlers /\ "arr" \in Handlers
  BY HostRootedHere, HandlerKnown DEF HomeInv, MapInv, ProtocolInv, Handlers
<1>2. job.step = "unchanged" /\ job' = NoJob /\ content' = content /\ host' = host /\ FilesStay
      /\ arr.attempt \in Attempts
  BY HandlerKnown DEF AdmitsUnchanged, Ends, MutationFrame, FilesStay, ProtocolInv, JobKnows,
     Arriving
<1>3. o.state \in States BY <1>1, <1>2, AdmitArrivalTame DEF Tame, Frees, TameBut
<1>4. Contained(w, o.state, host)
      /\ (o.ok => Shut(o.state, host) \/ FoundAt(w, host, job.res))
  BY <1>1, AdmitArrivalHome
<1>5. \/ StillPinned /\ o.ok /\ w' = o.state
      \/ OwesRecovery(o.state, "arr", queue)
      \/ RecoversInLock(w, Handler, queue)
  BY DEF AdmitsUnchanged, SettlesOr, Recovers
<1> HIDE DEF o
<1>6. StillPinned /\ o.ok => home = Here \/ Shut(o.state, host)
  BY <1>2, <1>4 DEF FoundAt, StillPinned, Exact, Lost, FoundRestored, HomeInv, JobHome
<1>7. RecoversInLock(w, Handler, queue) => Contained(w, w', host) /\ (Shut(w', host) \/ Unpaid')
  BY <1>1, RecoversHome
<1>8. OwesRecovery(o.state, "arr", queue) => Contained(w, w', host) /\ Unpaid'
  BY <1>1, <1>3, <1>4, OwesHome
<1> QED BY <1>2, <1>4, <1>5, <1>6, <1>7, <1>8, OverHome

LEMMA FailsToRestoreHome ==
  ASSUME ProtocolInv, HomeInv, HomeMoves, MutationFrame, FailsToRestore
  PROVE  HomeKept
<1>1. w \in States /\ Rooted(host) /\ Contained(w, w, host) /\ Modest(w, w, host) /\ Typed
      /\ Handler \in Handlers
  BY HostRootedHere, HandlerKnown DEF HomeInv, MapInv, ProtocolInv
<1>2. job.step = "failed" /\ job' = NoJob /\ content' = content /\ host' = host /\ FilesStay
  BY DEF FailsToRestore, Ends, MutationFrame, FilesStay
<1>3. CASE StillPinned /\ NotRestored(w)
  <2>1. ~ Arriving => job.kind = "restore"
    BY <1>2 DEF Arriving, ProtocolInv, JobKnows, Destructive
  <2>2. ~ Arriving => Shut(w, host)
    BY <1>2, <1>3, <2>1
       DEF ProtocolInv, JobPins, StillPinned, Exact, Shut, IsBlocked, BlockedCheckpoint
  <2> QED BY <1>1, <1>2, <1>3, <2>2, NotRestoredHome DEF FailsToRestore
<1>4. CASE RecoversInLock(w, Handler, queue)
  <2>1. Contained(w, w', host) /\ (Shut(w', host) \/ Unpaid') BY <1>1, <1>4, RecoversHome
  <2> QED BY <1>2, <2>1, OverHome
<1> QED BY <1>3, <1>4 DEF FailsToRestore, Recovers

LEMMA MutationHome ==
  ASSUME ProtocolInv, HomeInv, HomeMoves, MutationNext
  PROVE  HomeKept
<1>1. MutationFrame BY DEF MutationNext, MutationFrame
<1> QED BY <1>1, CutOverHome, WritesHome, VerifiesHome, AdmitsHome, AdmitsUnchangedHome,
           FailsToRestoreHome
        DEF MutationNext
-----------------------------------------------------------------------------
(* Restores and session starts.                                            *)

LEMMA RestoreFacts ==
  ASSUME ProtocolInv, HomeInv, RestoreFrame
  PROVE  /\ w \in States /\ Rooted(host) /\ host \in Views /\ Typed /\ "ask" \in Handlers
         /\ Contained(w, w, host) /\ Modest(w, w, host) /\ Tame(w, w)
         /\ host' = host /\ content' = content /\ arr' = arr /\ FilesStay /\ Quiet
         /\ job \in Jobs /\ ask \in Asks
BY HostRootedHere, TameSelf
   DEF HomeInv, MapInv, ProtocolInv, Typed, Handlers, RestoreFrame, hostVars, FilesStay, Quiet

LEMMA RestoreStill ==
  ASSUME ProtocolInv, HomeInv, HomeMoves, RestoreFrame, Modestly, w'.active => w.active,
         JobKept, Pending \/ Writing => Pending' \/ Writing'
  PROVE  HomeKept
<1>1. Quiet /\ arr' = arr BY RestoreFacts
<1> QED BY <1>1, Guards DEF HomeInv, HomeKept

LEMMA RestoreOverHome ==
  ASSUME ProtocolInv, HomeInv, HomeMoves, RestoreFrame, job' = NoJob, Contained(w, w', host),
         Shut(w', host) \/ Unpaid' \/ home = Here
  PROVE  HomeKept
BY RestoreFacts, OverHome

(* A job that has scanned nothing, or has not compared it yet.             *)
LEMMA JobScans ==
  ASSUME job'.step \in {"scan", "first", "commit", "cutover"}
  PROVE  JobKept
BY DEF JobKept, Spent, JobHome, Applying, FoundRestored, FoundInherited, Runs

LEMMA AbandonsHome ==
  ASSUME ProtocolInv, HomeInv, HomeMoves, RestoreFrame, NEW s \in States,
         Contained(w, s, host), Manual => Modest(w, s, host) /\ (s.active => w.active),
         NEW q, Abandons(s, q), job' = NoJob, ~ Writing
  PROVE  HomeKept
<1>1. Typed /\ "ask" \in Handlers BY RestoreFacts
<1>2. CASE Manual
  <2>1. w' = s /\ owed' = owed BY <1>2 DEF Abandons, Goes
  <2>2. ~ Pending BY <1>2 DEF Pending, Manual
  <2>3. Modestly BY <1>2, <2>1 DEF Modestly
  <2> QED BY <1>2, <2>1, <2>2, <2>3, NoJobPlain, RestoreStill
<1>3. CASE ~ Manual
  <2>1. OwesRecovery(s, "ask", q) BY <1>3 DEF Abandons
  <2>2. Contained(w, w', host) /\ Unpaid' BY <1>1, <2>1, OwesHome
  <2> QED BY <2>2, RestoreOverHome
<1> QED BY <1>2, <1>3

LEMMA RecoversAskHome ==
  ASSUME ProtocolInv, HomeInv, HomeMoves, RestoreFrame, NEW s \in States,
         Contained(w, s, host), NEW q, RecoversInLock(s, "ask", q), job' = NoJob
  PROVE  HomeKept
<1>1. Typed /\ "ask" \in Handlers /\ Rooted(host) BY RestoreFacts
<1>2. Contained(w, w', host) /\ (Shut(w', host) \/ Unpaid') BY <1>1, RecoversHome
<1> QED BY <1>2, RestoreOverHome

LEMMA SettlesShut ==
  ASSUME ProtocolInv, HomeInv, HomeMoves, RestoreFrame, NEW s \in States,
         Contained(w, s, host), w' = ProtectNode(s, host), job' = NoJob
  PROVE  HomeKept
<1>1. Rooted(host) BY RestoreFacts
<1>2. Shut(w', host) /\ Contained(s, w', host) BY <1>1, ProtectsModest DEF Modest
<1>3. Contained(w, w', host) BY <1>2, ModestTwice
<1> QED BY <1>2, <1>3, RestoreOverHome

LEMMA RestoreCommandHome ==
  ASSUME ProtocolInv, HomeInv, HomeMoves, RestoreFrame, RestoreCommand
  PROVE  HomeKept
<1> DEFINE a == RejectTransitionConflict(w.adm)
<1>1. w \in States /\ w.adm \in Authorities /\ host \in Views BY RestoreFacts DEF States
<1>2. ask = NoAsk /\ job' = job /\ w' = WithAdmission(w, a) /\ owed' = owed
  BY DEF RestoreCommand, Goes, Stays
<1>3. a \in Authorities
  <2>1. \A v \in Views : RejectTransitionConflict(w.adm) \in Authorities BY <1>1, AuthorityYields
  <2> QED BY <1>1, <2>1
<1>4. a.kind = w.adm.kind BY <1>1, Kinds
<1> HIDE DEF a
<1>5. SameRows(w, w') /\ w'.adm = a /\ w'.active = w.active BY <1>1, <1>2, <1>3, RowsKept
<1>6. Modestly BY <1>1, <1>2, <1>3, <1>4, AdmissionModest DEF Modestly
<1>7. NoAsk.phase = "none" /\ NoAsk.mode = "manual" BY DEF NoAsk
<1>8. job.kind # "restore" /\ ~ Pending BY <1>2, <1>7 DEF ProtocolInv, JobKnows, Pending
<1>9. host' = host /\ trip' = trip /\ arr' = arr /\ FilesStay BY RestoreFacts DEF RestoreFrame
<1>10. JobKept /\ (Writing <=> Writing')
  BY <1>2, <1>4, <1>5, <1>8, <1>9, JobAside DEF HomeInv, SameRows
<1> QED BY <1>5, <1>6, <1>8, <1>10, RestoreStill

LEMMA SessionStartHome ==
  ASSUME ProtocolInv, HomeInv, HomeMoves, RestoreFrame, NEW mode \in {"loaded", "reload"},
         SessionStart(mode)
  PROVE  HomeKept
<1> DEFINE s == [w EXCEPT !.active = TRUE]
<1>1. w \in States /\ ~ w.active /\ job' = NoJob
  BY RestoreFacts DEF SessionStart, Idle
<1>2. s \in States /\ s.active /\ SameRows(w, s) /\ s.adm = w.adm BY <1>1 DEF States, SameRows
<1>3. w.adm.kind = "closed" BY <1>1 DEF HomeInv, Dormant
<1>4. \/ /\ Here = NoEntry
         /\ w' \in {Quarantined(s), AdmitCurrentLocation(s, host).state}
      \/ w' = s /\ ask' = [NoAsk EXCEPT !.mode = mode, !.phase = "queued", !.view = host]
  BY DEF SessionStart
<1> HIDE DEF s
<1>5. CASE Here = NoEntry /\ w' \in {Quarantined(s), AdmitCurrentLocation(s, host).state}
  <2>1. w' \in {Quarantined(s), Claim(s, host), s} BY <1>5 DEF AdmitCurrentLocation, Outcome
  <2>2. SameRows(s, w') /\ w'.active BY <1>2, <2>1, RowsKept DEF SameRows
  <2>3. Contained(w, w', host) BY <1>2, <2>2 DEF SameRows, Contained
  <2>4. Shut(w', host) BY <1>5 DEF Shut, Here
  <2> QED BY <1>1, <2>3, <2>4, RestoreOverHome
<1>6. CASE w' = s /\ ask' = [NoAsk EXCEPT !.mode = mode, !.phase = "queued", !.view = host]
  <2>1. ask'.mode = mode /\ ask'.phase = "queued" BY <1>6 DEF NoAsk
  <2>2. Exposed' BY <1>2, <1>3, <1>6, <2>1 DEF Exposed, Pending
  <2>3. Contained(w, w', host) BY <1>2, <1>6 DEF SameRows, Contained
  <2> QED BY <1>1, <2>2, <2>3, NoJobPlain DEF HomeKept, Guarded
<1> QED BY <1>4, <1>5, <1>6

LEMMA RestoreLooksHome ==
  ASSUME ProtocolInv, HomeInv, HomeMoves, RestoreFrame, RestoreLooks
  PROVE  HomeKept
<1> DEFINE s   == ReconcileBarrier(w, host)
           p   == ProtectNode(s, host)
           res == Readable(s, Here)
           pinned == IF Manual THEN res ELSE Pinned(host, res)
           begins(x) == job' = [NoJob EXCEPT !.kind = "restore", !.step = x,
                                             !.view = host, !.res = pinned]
<1>1. w \in States /\ Rooted(host) /\ host \in Views /\ Typed /\ Tame(w, w)
      /\ Contained(w, w, host) /\ Modest(w, w, host) /\ host' = host /\ content' = content
  BY RestoreFacts
<1>2. ~ Writing BY DEF RestoreLooks, Looks, IsNext, Idle, Writing, NoJob
<1>3. Manual => ~ Pending BY DEF Manual, Pending
<1>4. Modest(w, s, host) /\ (w.barrier => Shut(s, host)) /\ (At(host) # NoEntry => ~ s.barrier)
  BY <1>1, ReconcileModest
<1>5. s \in States /\ Tame(w, s) BY <1>1, CompositesTame DEF Tame
<1>6. \/ Abandons(w, Others) /\ job' = NoJob
      \/ /\ w' = (IF Manual THEN s ELSE p) /\ begins("scan") /\ owed' = owed
      \/ w' = p /\ ~ Manual /\ job' = NoJob
      \/ w' = s /\ Manual /\ begins("first") /\ owed' = owed
      \/ w' = s /\ Manual /\ job' = NoJob /\ owed' = owed
      \/ w' = s /\ ~ Manual /\ job' = NoJob /\ res = Missing
  <2> HIDE DEF s, p, pinned
  <2> USE DEF s, p, pinned
  <2> QED BY DEF RestoreLooks, SettlesAt, Goes, Ends
<1>7. ASSUME NEW x \in {"scan", "first"}, begins(x) PROVE JobKept
  <2>1. job'.step = x BY <1>7 DEF NoJob
  <2> QED BY <2>1, JobScans
<1> HIDE DEF s, p, pinned
<1>8. ASSUME w' = s, Manual, owed' = owed, JobKept PROVE HomeKept
  <2>1. Modestly BY <1>4, <1>8 DEF Modestly
  <2> QED BY <1>2, <1>3, <1>5, <1>8, <2>1, RestoreStill DEF Tame
<1>9. CASE Abandons(w, Others) /\ job' = NoJob
  BY <1>1, <1>2, <1>9, AbandonsHome
<1>10. CASE w' = (IF Manual THEN s ELSE p) /\ begins("scan") /\ owed' = owed
  <2>1. JobKept BY <1>7, <1>10
  <2>2. CASE Manual BY <1>8, <1>10, <2>1, <2>2
  <2>3. CASE ~ Manual
    <3>1. w' = ProtectNode(s, host) BY <1>10, <2>3 DEF p
    <3>2. Shut(w', host) /\ Contained(s, w', host) BY <1>1, <1>5, <3>1, ProtectsModest DEF Modest
    <3>3. Contained(w, w', host) BY <1>4, <3>2, ModestTwice DEF Modest
    <3> QED BY <1>1, <2>1, <3>2, <3>3 DEF HomeKept, Guarded, Sheltered
  <2> QED BY <2>2, <2>3
<1>11. CASE w' = p /\ ~ Manual /\ job' = NoJob
  <2>1. w' = ProtectNode(s, host) BY <1>11 DEF p
  <2>2. Contained(w, s, host) BY <1>4 DEF Modest
  <2> QED BY <1>5, <1>11, <2>1, <2>2, SettlesShut
<1>12. CASE w' = s /\ Manual /\ begins("first") /\ owed' = owed BY <1>7, <1>8, <1>12
<1>13. CASE w' = s /\ Manual /\ job' = NoJob /\ owed' = owed BY <1>8, <1>13, NoJobPlain
<1>14. CASE w' = s /\ ~ Manual /\ job' = NoJob /\ res = Missing
  <2>1. Contained(w, w', host) BY <1>4, <1>14 DEF Modest
  <2>2. CASE Shut(s, host) BY <1>14, <2>1, <2>2, RestoreOverHome
  <2>3. CASE ~ Shut(s, host)
    <3>1. Here # NoEntry /\ ~ s.barrier BY <2>3 DEF Shut, Here
    <3>2. Resolve(s.slots, Here) = Missing BY <1>14, <3>1 DEF Readable
    <3>3. Effective(w', host').tree = NoTree
      BY <1>1, <1>14, <3>1, <3>2 DEF Effective, EffectiveAt, Missing, Here
    <3>4. Here' # NoEntry BY <1>1, <3>1 DEF Here
    <3>5. home' = Here' BY <3>3, <3>4, Matching
    <3> QED BY <1>14, <2>1, <3>5, NoJobPlain DEF HomeKept, Guarded, Sheltered
  <2> QED BY <2>2, <2>3
<1> QED BY <1>6, <1>9, <1>10, <1>11, <1>12, <1>13, <1>14

LEMMA RestoreScansHome ==
  ASSUME ProtocolInv, HomeInv, HomeMoves, RestoreFrame, RestoreScans
  PROVE  HomeKept
<1>1. job \in Jobs /\ JobKnows /\ Modest(w, w, host) /\ host' = host /\ content' = content
  BY RestoreFacts DEF ProtocolInv
<1>2. job.kind = "restore" /\ job.step = "scan" /\ ask.mode # "reload" /\ w' = w /\ owed' = owed
  BY DEF RestoreScans, Runs, Stays
<1>3. ~ Writing /\ ~ Pending BY <1>1, <1>2 DEF Writing, Pending, JobKnows
<1>4. Modestly /\ (w'.active => w.active) BY <1>1, <1>2 DEF Modestly
<1>5. CASE content = job.res.tree /\ StepsTo("settle")
  <2>1. job'.kind = "restore" /\ job'.step = "settle" /\ job'.res = job.res
    BY <1>1, <1>2, <1>5 DEF StepsTo, Jobs
  <2>2. Effective(w, host) = job.res => home' = Here' BY <1>1, <1>2, <1>5, ResolvedMatches
  <2>3. ~ FoundInherited' BY <2>1 DEF FoundInherited
  <2>4. Effective(w', host') = job'.res => home' = Here' BY <1>1, <1>2, <2>1, <2>2
  <2>5. JobKept BY <2>1, <2>3, <2>4 DEF JobKept, Spent, JobHome, Applying, Runs
  <2> QED BY <1>3, <1>4, <2>5, RestoreStill
<1>6. CASE job' = NoJob BY <1>3, <1>4, <1>6, NoJobPlain, RestoreStill
<1> QED BY <1>5, <1>6 DEF RestoreScans, Ends

LEMMA RestoreMatchesHome ==
  ASSUME ProtocolInv, HomeInv, HomeMoves, RestoreFrame, RestoreMatches
  PROVE  HomeKept
<1> DEFINE o == AdmitLocationIfResolution(w, host, job.res)
<1>1. w \in States /\ Rooted(host) /\ host \in Views /\ Contained(w, w, host)
      /\ Modest(w, w, host)
  BY RestoreFacts
<1>2. job.kind = "restore" /\ job.step = "settle" /\ ask.mode # "reload" /\ job' = NoJob
  BY DEF RestoreMatches, Runs, Ends
<1>3. ~ Writing BY <1>2 DEF Writing
<1>4. Contained(w, o.state, host) /\ o.state.active = w.active
      /\ (o.ok => FoundAt(w, host, job.res)) /\ (~ o.ok => Modest(w, o.state, host))
  BY <1>1, AdmitLocationHome
<1>5. o.state \in States BY <1>1, AdmitLocationTame
<1>6. \/ StillPinned /\ o.ok /\ w' = o.state
      \/ ~ o.ok /\ Abandons(o.state, queue)
      \/ Abandons(w, queue)
  BY DEF RestoreMatches, SettlesAt
<1> HIDE DEF o
<1>7. CASE StillPinned /\ o.ok /\ w' = o.state
  <2>1. home = Here
    BY <1>2, <1>4, <1>7 DEF FoundAt, StillPinned, Exact, Lost, FoundRestored, HomeInv, JobHome
  <2> QED BY <1>2, <1>4, <1>7, <2>1, RestoreOverHome
<1>8. CASE ~ o.ok /\ Abandons(o.state, queue)
  BY <1>2, <1>3, <1>4, <1>5, <1>8, AbandonsHome
<1>9. CASE Abandons(w, queue) BY <1>1, <1>2, <1>3, <1>9, AbandonsHome
<1> QED BY <1>6, <1>7, <1>8, <1>9

LEMMA RestoreAnsweredHome ==
  ASSUME ProtocolInv, HomeInv, HomeMoves, RestoreFrame, RestoreAnswered
  PROVE  HomeKept
<1>1. w \in States /\ Contained(w, w, host) /\ Modest(w, w, host) /\ Typed /\ "ask" \in Handlers
      /\ host' = host /\ arr' = arr /\ trip' = trip /\ FilesStay
  BY RestoreFacts DEF RestoreFrame
<1>2. ask.phase = "asked" /\ job' = job BY DEF RestoreAnswered
<1>3. job.kind # "restore" /\ ~ Pending BY <1>2 DEF ProtocolInv, JobKnows, Pending
<1>4. \/ w' = w /\ owed' = owed
      \/ OwesRecovery(w, "ask", queue)
  BY DEF RestoreAnswered, Abandons, Goes
<1>5. CASE w' = w /\ owed' = owed
  <2>1. JobKept /\ (Writing <=> Writing') BY <1>1, <1>2, <1>3, <1>5, JobAside DEF HomeInv
  <2>2. Modestly BY <1>1, <1>5 DEF Modestly
  <2> QED BY <1>3, <1>5, <2>1, <2>2, RestoreStill
<1>6. CASE OwesRecovery(w, "ask", queue)
  <2>1. Contained(w, w', host) /\ Unpaid' /\ w'.adm.kind = "closed" /\ w'.active = w.active
    BY <1>1, <1>6, OwesHome
  <2>2. w' = Quarantined(w) BY <1>6 DEF OwesRecovery
  <2>3. w'.slots = w.slots BY <1>1, <2>2, RowsKept DEF SameRows
  <2>4. JobKept BY <1>1, <1>2, <1>3, <2>1, <2>3, JobAside DEF HomeInv
  <2> QED BY <2>1, <2>4 DEF HomeKept, Guarded, Sheltered
<1> QED BY <1>4, <1>5, <1>6

LEMMA RestoreRechecksHome ==
  ASSUME ProtocolInv, HomeInv, HomeMoves, RestoreFrame, RestoreRechecks
  PROVE  HomeKept
<1> DEFINE a == RejectTransitionConflict(w.adm)
           s == IF Manual THEN WithAdmission(w, a) ELSE w
<1>1. w \in States /\ w.adm \in Authorities /\ host \in Views /\ Contained(w, w, host)
      /\ Modest(w, w, host) /\ ask \in Asks
  BY RestoreFacts DEF States
<1>2. ask.phase = "answered" /\ job = NoJob BY DEF RestoreRechecks, IsNext, Idle
<1>3. ~ Writing /\ ~ Pending BY <1>2 DEF Writing, Pending, NoJob
<1>4. \A v \in Views : a \in Authorities BY <1>1, AuthorityYields
<1>5. a \in Authorities /\ a.kind = w.adm.kind BY <1>1, <1>4, Kinds
<1> HIDE DEF a
<1>6. Modest(w, WithAdmission(w, a), host) /\ WithAdmission(w, a).active = w.active
  BY <1>1, <1>5, AdmissionModest, RowsKept
<1>7. WithAdmission(w, a) \in States BY <1>1, <1>5 DEF WithAdmission, States
<1>8. s \in States /\ Modest(w, s, host) /\ s.active = w.active BY <1>1, <1>6, <1>7
<1>9. \/ Abandons(s, Others) /\ job' = NoJob
      \/ /\ job' = [NoJob EXCEPT !.kind = "restore", !.step = "rescan",
                                 !.view = host, !.res = ask.res]
         /\ ask' = [ask EXCEPT !.phase = "applying"]
         /\ w' = w /\ owed' = owed
  BY DEF RestoreRechecks, Ends, AskGoes, Goes, a
<1> HIDE DEF s
<1>10. CASE Abandons(s, Others) /\ job' = NoJob
  <2>1. Contained(w, s, host) BY <1>8 DEF Modest
  <2> QED BY <1>3, <1>8, <1>10, <2>1, AbandonsHome
<1>11. CASE /\ job' = [NoJob EXCEPT !.kind = "restore", !.step = "rescan",
                                    !.view = host, !.res = ask.res]
            /\ ask' = [ask EXCEPT !.phase = "applying"]
            /\ w' = w /\ owed' = owed
  <2>1. job'.kind = "restore" /\ job'.step = "rescan" BY <1>11 DEF NoJob
  <2>2. ask'.phase = "applying" BY <1>1, <1>11 DEF Asks
  <2>3. JobKept
    BY <2>1, <2>2 DEF JobKept, Spent, JobHome, Applying, FoundRestored, FoundInherited, Runs
  <2>4. Modestly BY <1>1, <1>11 DEF Modestly
  <2> QED BY <1>3, <1>11, <2>3, <2>4, RestoreStill
<1> QED BY <1>9, <1>10, <1>11

LEMMA RestoreRescansHome ==
  ASSUME ProtocolInv, HomeInv, HomeMoves, RestoreFrame, RestoreRescans
  PROVE  HomeKept
<1> DEFINE c == Claim(w, host)
<1>1. w \in States /\ host \in Views /\ Contained(w, w, host) /\ Modest(w, w, host)
      /\ host' = host /\ event' = event /\ FilesStay /\ job \in Jobs
  BY RestoreFacts DEF Quiet
<1>2. job.kind = "restore" /\ job.step = "rescan" BY DEF RestoreRescans, Runs
<1>3. ask.phase = "applying" BY <1>2 DEF HomeInv, Applying, Runs
<1>4. ~ Writing /\ ~ Pending BY <1>2, <1>3 DEF Writing, Pending
<1>5. \/ Abandons(w, queue) /\ job' = NoJob
      \/ ~ ClaimSucceeds(w) /\ Abandons(c, queue) /\ job' = NoJob
      \/ /\ ClaimSucceeds(w) /\ w' = c /\ owed' = owed
         /\ job' = [job EXCEPT !.step = "cutover", !.seen = content]
  BY DEF RestoreRescans, Ends, Stays
<1>6. c \in States BY <1>1, ClaimTame DEF Tame
<1>7. /\ Contained(w, c, host) /\ SameRows(w, c) /\ c.active = w.active
      /\ Shut(w, host) <=> Shut(c, host)
      /\ w.active \/ w.adm.kind = "closed"
  BY <1>1, ClaimModest, RowsKept DEF HomeInv, Dormant
<1>8. ~ ClaimSucceeds(w) => Modest(w, c, host)
  BY <1>1, <1>7, ClaimModest DEF ClaimSucceeds
<1> HIDE DEF c
<1>9. CASE Abandons(w, queue) /\ job' = NoJob BY <1>1, <1>4, <1>9, AbandonsHome
<1>10. CASE ~ ClaimSucceeds(w) /\ Abandons(c, queue) /\ job' = NoJob
  BY <1>4, <1>6, <1>7, <1>8, <1>10, AbandonsHome
<1>11. CASE /\ ClaimSucceeds(w) /\ w' = c /\ owed' = owed
            /\ job' = [job EXCEPT !.step = "cutover", !.seen = content]
  <2>1. job'.step = "cutover" BY <1>1, <1>11 DEF Jobs
  <2>2. JobKept BY <2>1, JobScans
  <2>3. w.active /\ w.adm.kind # "arrival"
    BY <1>11 DEF ClaimSucceeds, CanClaim, InTransition
  <2>4. CASE Elsewhere
    <3>1. Elsewhere' BY <1>1, <2>4 DEF Elsewhere
    <3> QED BY <1>7, <1>11, <2>2, <3>1 DEF HomeKept, Guarded, Exposed
  <2>5. CASE ~ Elsewhere
    <3>1. Sheltered BY <1>4, <2>3, <2>5 DEF HomeInv, Guarded, Exposed, InTransit
    <3>2. Shut(w, host) => Shut(w', host') BY <1>1, <1>7, <1>11
    <3>3. home = Here => home' = Here' BY <1>1, HomeStands
    <3>4. Unpaid => Unpaid' BY <1>11 DEF Unpaid, Free
    <3>5. Sheltered' BY <3>1, <3>2, <3>3, <3>4 DEF Sheltered
    <3> QED BY <1>7, <1>11, <2>2, <3>5 DEF HomeKept, Guarded
  <2> QED BY <2>4, <2>5
<1> QED BY <1>5, <1>9, <1>10, <1>11

LEMMA InitializeBeginsHome ==
  ASSUME ProtocolInv, HomeInv, HomeMoves, RestoreFrame, InitializeBegins
  PROVE  HomeKept
<1>1. w \in States /\ Contained(w, w, host) /\ Modest(w, w, host) BY RestoreFacts
<1>2. ask.phase = "initialize" /\ job = NoJob BY DEF InitializeBegins, IsNext, Idle
<1>3. ~ Writing /\ ~ Pending BY <1>2 DEF Writing, Pending, NoJob
<1>4. \/ Abandons(w, Others) /\ job' = NoJob
      \/ w' = w /\ owed' = owed /\ Begins("restore", "first", host)
  BY DEF InitializeBegins, Ends, Goes
<1>5. CASE Abandons(w, Others) /\ job' = NoJob BY <1>1, <1>3, <1>5, AbandonsHome
<1>6. CASE w' = w /\ owed' = owed /\ Begins("restore", "first", host)
  <2>1. job'.step = "first" BY <1>6 DEF Begins, NoJob
  <2>2. Modestly BY <1>1, <1>6 DEF Modestly
  <2> QED BY <1>3, <1>6, <2>1, <2>2, JobScans, RestoreStill
<1> QED BY <1>4, <1>5, <1>6

LEMMA FirstScansHome ==
  ASSUME ProtocolInv, HomeInv, HomeMoves, RestoreFrame, FirstScans
  PROVE  HomeKept
<1>1. Modest(w, w, host) /\ job \in Jobs BY RestoreFacts
<1>2. job.step = "first" /\ w' = w /\ owed' = owed /\ ask' = ask
      /\ job' = [job EXCEPT !.step = "commit", !.seen = content]
  BY DEF FirstScans, Runs, Stays
<1>3. ~ Writing BY <1>2 DEF Writing
<1>4. job'.step = "commit" BY <1>1, <1>2 DEF Jobs
<1>5. Modestly /\ (Pending => Pending') BY <1>1, <1>2 DEF Modestly, Pending
<1> QED BY <1>2, <1>3, <1>4, <1>5, JobScans, RestoreStill

LEMMA ReloadScansHome ==
  ASSUME ProtocolInv, HomeInv, HomeMoves, RestoreFrame, ReloadScans
  PROVE  HomeKept
<1>1. Modest(w, w, host) /\ job \in Jobs /\ host' = host /\ content' = content
  BY RestoreFacts
<1>2. job.kind = "restore" /\ job.step = "scan" /\ w' = w /\ owed' = owed /\ ask' = ask
      /\ ask.mode = "reload" /\ job' = [job EXCEPT !.step = "settle", !.seen = content]
  BY DEF ReloadScans, Runs, Stays
<1>3. ~ Writing BY <1>2 DEF Writing
<1>4. job'.kind = "restore" /\ job'.step = "settle" /\ job'.seen = content /\ job'.res = job.res
  BY <1>1, <1>2 DEF Jobs
<1>5. Modestly /\ (Pending => Pending') BY <1>1, <1>2 DEF Modestly, Pending
<1>6. FoundRestored' => (Effective(w', host') = job'.res => home' = Here')
  <2>1. SUFFICES ASSUME FoundRestored', Effective(w', host') = job'.res PROVE home' = Here'
    OBVIOUS
  <2>2. job.res.tree = content BY <1>2, <1>4, <2>1 DEF FoundRestored
  <2>3. Effective(w, host) = job.res BY <1>1, <1>2, <1>4, <2>1
  <2> QED BY <1>1, <1>2, <2>2, <2>3, ResolvedMatches
<1>7. JobKept
  BY <1>4, <1>6 DEF JobKept, Spent, JobHome, Applying, FoundInherited, Runs
<1> QED BY <1>2, <1>3, <1>5, <1>7, RestoreStill

(* The first checkpoint of a location: the files belong there because      *)
(* nothing was recorded that says otherwise.                               *)
LEMMA AdmitsFirstHome ==
  ASSUME ProtocolInv, HomeInv, HomeMoves, RestoreFrame, NEW s \in States,
         Contained(w, s, host), FirstIsDue, AdmitsFirst(s), job' = NoJob
  PROVE  HomeKept
<1> DEFINE res == [at |-> Here, tree |-> job.seen]
           o == AdmitLocationIfResolution(s, host, res)
<1>1. Rooted(host) /\ host \in Views BY RestoreFacts
<1>2. Contained(s, o.state, host) /\ (o.ok => FoundAt(s, host, res))
  <2> HIDE DEF res
  <2> QED BY <1>1, AdmitLocationHome
<1>3. o.state \in States
  <2> HIDE DEF res
  <2> QED BY <1>1, AdmitLocationTame
<1>4. (o.ok /\ w' = o.state) \/ RecoversInLock(o.state, "ask", queue)
  BY DEF AdmitsFirst, SettlesOr
<1> HIDE DEF o, res
<1>5. Contained(w, o.state, host) BY <1>2, ModestTwice
<1>6. CASE o.ok /\ w' = o.state
  <2>1. At(host) \in Entries BY <1>2, <1>6 DEF FoundAt
  <2>2. Here # NoEntry BY <2>1, NoEntryAssumption DEF Here
  <2>3. Resolve(w.slots, Here) = Missing BY DEF FirstIsDue, Exact, Here
  <2>4. home = Here BY <2>2, <2>3, UnresolvedIsHome DEF HomeInv
  <2> QED BY <1>5, <1>6, <2>4, RestoreOverHome
<1>7. CASE RecoversInLock(o.state, "ask", queue) BY <1>3, <1>5, <1>7, RecoversAskHome
<1> QED BY <1>4, <1>6, <1>7

LEMMA AdoptsHome ==
  ASSUME ProtocolInv, HomeInv, HomeMoves, RestoreFrame, Adopts
  PROVE  HomeKept
<1> DEFINE s == Captured(w, Here, job.seen)
<1>1. w \in States /\ Rooted(host) /\ Contained(w, w, host) /\ Modest(w, w, host)
      /\ job \in Jobs
  BY RestoreFacts
<1>2. job.step = "commit" /\ job' = NoJob BY DEF Adopts, Runs, Ends
<1>3. ~ Writing BY <1>2 DEF Writing
<1>4. \/ Abandons(w, queue)
      \/ FirstIsDue /\ CanAdopt(w.slots[Here]) /\ AdmitsFirst(s)
  BY DEF Adopts
<1>5. CanAdopt(w.slots[Here]) => s \in States
  <2>1. CanAdopt(w.slots[Here]) => ~ HasTree(w.slots[Here])
    BY DEF CanAdopt, BlockedMissing, HasTree
  <2>2. job.seen \in Trees \cup {NoTree} BY <1>1 DEF Jobs
  <2> QED BY <1>1, <2>1, <2>2, CapturedTame
<1>6. Contained(w, s, host)
  <2>1. Here \in Entries => Here \in host.graph BY <1>1, LineSelf, NoEntryAssumption DEF Here
  <2> DEFINE x == OpenCheckpoint(job.seen)
  <2>2. s = [w EXCEPT !.slots[Here] = x] BY DEF Captured
  <2> HIDE DEF x, s
  <2> QED BY <1>1, <2>1, <2>2, SlotContained
<1> HIDE DEF s
<1> QED BY <1>1, <1>2, <1>3, <1>4, <1>5, <1>6, AbandonsHome, AdmitsFirstHome

LEMMA InitializesHome ==
  ASSUME ProtocolInv, HomeInv, HomeMoves, RestoreFrame, Initializes
  PROVE  HomeKept
<1> DEFINE after == AfterCapture(w, Here, OpenMissing, job.seen)
<1>1. w \in States /\ Rooted(host) /\ Contained(w, w, host) /\ Modest(w, w, host)
      /\ job \in Jobs
  BY RestoreFacts
<1>2. job.step = "commit" /\ job' = NoJob /\ ~ Manual BY DEF Initializes, Runs, Ends
<1>3. ~ Writing BY <1>2 DEF Writing
<1>4. \/ Abandons(w, queue)
      \/ FirstIsDue /\ AdmitsFirst(after)
      \/ w' = ProtectNode(after, host)
      \/ Abandons(after, queue)
  BY DEF Initializes, SettlesAt
<1>5. after \in States
  <2>1. job.seen \in Trees \cup {NoTree} BY <1>1 DEF Jobs
  <2> QED BY <1>1, <2>1, AfterCaptureTame
<1>6. Contained(w, after, host)
  <2>1. Here \in Entries => Here \in host.graph BY <1>1, LineSelf, NoEntryAssumption DEF Here
  <2>2. Line(Here) \subseteq host.graph BY <1>1 DEF Rooted, Here
  <2> QED BY <1>1, <2>1, <2>2, AfterCaptureModest
<1> HIDE DEF after
<1>7. CASE Abandons(w, queue) BY <1>1, <1>2, <1>3, <1>7, AbandonsHome
<1>8. CASE FirstIsDue /\ AdmitsFirst(after) BY <1>2, <1>5, <1>6, <1>8, AdmitsFirstHome
<1>9. CASE w' = ProtectNode(after, host) BY <1>2, <1>5, <1>6, <1>9, SettlesShut
<1>10. CASE Abandons(after, queue) BY <1>2, <1>3, <1>5, <1>6, <1>10, AbandonsHome
<1> QED BY <1>4, <1>7, <1>8, <1>9, <1>10

LEMMA ReloadLooksHome ==
  ASSUME ProtocolInv, HomeInv, HomeMoves, RestoreFrame, ReloadLooks
  PROVE  HomeKept
<1> DEFINE res == Readable(w, Here)
           o == AdmitCurrentLocation(w, host)
           admits == Effective(w, host) = Missing /\ o.ok
<1>1. w \in States /\ Rooted(host) /\ host \in Views /\ Contained(w, w, host)
      /\ Modest(w, w, host) /\ ask \in Asks
  BY RestoreFacts
<1>2. job = NoJob /\ ask.mode = "reload" BY DEF ReloadLooks, IsNext, Idle
<1>3. ~ Writing BY <1>2 DEF Writing, NoJob
<1>4. \/ RecoversInLock(w, "ask", Others) /\ job' = NoJob
      \/ admits /\ w' = o.state /\ job' = NoJob
      \/ w' = ProtectNode(o.state, host) /\ job' = NoJob
      \/ /\ w' = w /\ owed' = owed /\ ask' = [ask EXCEPT !.phase = "looking"]
         /\ job' = [NoJob EXCEPT !.kind = "restore", !.step = "scan",
                                 !.view = host, !.res = res]
  BY DEF ReloadLooks, RecoversAsk, SettlesAt, Ends, AskGoes, Goes
<1>5. o.state \in States /\ Contained(w, o.state, host)
  <2>1. o.state \in {w, Claim(w, host)} BY DEF AdmitCurrentLocation, Outcome
  <2>2. Claim(w, host) \in States BY <1>1, ClaimTame DEF Tame
  <2> QED BY <1>1, <2>1, <2>2, ClaimModest
<1> HIDE DEF o, res
<1>6. CASE RecoversInLock(w, "ask", Others) /\ job' = NoJob
  BY <1>1, <1>6, RecoversAskHome
<1>7. CASE admits /\ w' = o.state /\ job' = NoJob
  <2>1. CASE Here = NoEntry
    <3>1. Shut(w', host) BY <2>1 DEF Shut, Here
    <3> QED BY <1>5, <1>7, <3>1, RestoreOverHome
  <2>2. CASE Here # NoEntry
    <3>1. Resolve(w.slots, Here) = Missing BY <1>7, <2>2 DEF Effective, EffectiveAt, Here
    <3>2. home = Here BY <2>2, <3>1, UnresolvedIsHome DEF HomeInv
    <3> QED BY <1>5, <1>7, <3>2, RestoreOverHome
  <2> QED BY <2>1, <2>2
<1>8. CASE w' = ProtectNode(o.state, host) /\ job' = NoJob BY <1>5, <1>8, SettlesShut
<1>9. CASE /\ w' = w /\ owed' = owed /\ ask' = [ask EXCEPT !.phase = "looking"]
           /\ job' = [NoJob EXCEPT !.kind = "restore", !.step = "scan",
                                   !.view = host, !.res = res]
  <2>1. job'.step = "scan" BY <1>9 DEF NoJob
  <2>2. ask'.mode = "reload" /\ ask'.phase = "looking" BY <1>1, <1>2, <1>9 DEF Asks
  <2>3. Pending' BY <2>2 DEF Pending
  <2>4. Modestly BY <1>1, <1>9 DEF Modestly
  <2> QED BY <1>9, <2>1, <2>3, <2>4, JobScans, RestoreStill
<1> QED BY <1>4, <1>6, <1>7, <1>8, <1>9

LEMMA ReloadSettlesHome ==
  ASSUME ProtocolInv, HomeInv, HomeMoves, RestoreFrame, ReloadSettles
  PROVE  HomeKept
<1> DEFINE o == AdmitLocationIfResolution(w, host, job.res)
           matches == job.seen = job.res.tree /\ Effective(w, host) = job.res
<1>1. w \in States /\ Rooted(host) /\ host \in Views /\ Contained(w, w, host) BY RestoreFacts
<1>2. job.kind = "restore" /\ job.step = "settle" /\ job' = NoJob
  BY DEF ReloadSettles, Runs, Ends
<1>3. Contained(w, o.state, host) /\ (o.ok => FoundAt(w, host, job.res))
  BY <1>1, AdmitLocationHome
<1>4. o.state \in States BY <1>1, AdmitLocationTame
<1>5. \/ RecoversInLock(w, "ask", queue)
      \/ Exact(job.view) /\ matches /\ o.ok /\ w' = o.state
      \/ w' = ProtectNode(o.state, host)
      \/ w' = ProtectNode(w, host)
  BY DEF ReloadSettles, RecoversAsk, SettlesAt
<1> HIDE DEF o
<1>6. CASE RecoversInLock(w, "ask", queue) BY <1>1, <1>2, <1>6, RecoversAskHome
<1>7. CASE Exact(job.view) /\ matches /\ o.ok /\ w' = o.state
  <2>1. home = Here
    BY <1>2, <1>3, <1>7 DEF FoundAt, Exact, Lost, FoundRestored, HomeInv, JobHome
  <2> QED BY <1>2, <1>3, <1>7, <2>1, RestoreOverHome
<1>8. CASE w' = ProtectNode(o.state, host) BY <1>2, <1>3, <1>4, <1>8, SettlesShut
<1>9. CASE w' = ProtectNode(w, host) BY <1>1, <1>2, <1>9, SettlesShut
<1> QED BY <1>5, <1>6, <1>7, <1>8, <1>9

LEMMA RestoreFailsHome ==
  ASSUME ProtocolInv, HomeInv, HomeMoves, RestoreFrame, RestoreFails
  PROVE  HomeKept
<1>1. w \in States /\ Contained(w, w, host) /\ Modest(w, w, host) /\ Typed /\ "ask" \in Handlers
  BY RestoreFacts
<1>2. job.step \notin {"write", "rest", "verify", "failed", "done"} /\ job' = NoJob
  BY DEF RestoreFails, Ends
<1>3. ~ Writing BY <1>2 DEF Writing
<1>4. \/ Abandons(w, queue)
      \/ RecoversInLock(w, "ask", queue)
      \/ Withdraws(w, "ask", queue)
  BY DEF RestoreFails, RecoversAsk
<1>5. CASE Abandons(w, queue) BY <1>1, <1>2, <1>3, <1>5, AbandonsHome
<1>6. CASE RecoversInLock(w, "ask", queue) BY <1>1, <1>2, <1>6, RecoversAskHome
<1>7. CASE Withdraws(w, "ask", queue)
  <2>1. Contained(w, w', host) /\ Unpaid' BY <1>1, <1>7, OwesHome
  <2> QED BY <1>2, <2>1, RestoreOverHome
<1> QED BY <1>4, <1>5, <1>6, <1>7

LEMMA RestoreHome ==
  ASSUME ProtocolInv, HomeInv, HomeMoves, RestoreNext
  PROVE  HomeKept
<1>1. RestoreFrame BY DEF RestoreNext, RestoreFrame
<1>2. \/ RestoreCommand
      \/ \E mode \in {"loaded", "reload"} : SessionStart(mode)
      \/ RestoreLooks \/ RestoreScans \/ RestoreMatches \/ RestoreAnswered
      \/ RestoreRechecks \/ RestoreRescans
      \/ InitializeBegins \/ FirstScans \/ Adopts \/ Initializes
      \/ ReloadLooks \/ ReloadScans \/ ReloadSettles \/ RestoreFails
  BY DEF RestoreNext
<1> QED BY <1>1, <1>2, RestoreCommandHome, SessionStartHome, RestoreLooksHome,
           RestoreScansHome, RestoreMatchesHome, RestoreAnsweredHome, RestoreRechecksHome,
           RestoreRescansHome, InitializeBeginsHome, FirstScansHome, AdoptsHome,
           InitializesHome, ReloadLooksHome, ReloadScansHome, ReloadSettlesHome,
           RestoreFailsHome
-----------------------------------------------------------------------------
(* The invariant, and what it says of captures.                            *)

LEMMA NextHome ==
  ASSUME ProtocolInv, HomeInv, Next
  PROVE  HomeInv'
<1>1. MapInv' BY MapKeeps DEF HomeInv
<1>2. HomeMoves /\ TornMoves BY DEF Next
<1>3. ASSUME HomeKept, host' = host PROVE HomeInv'
  <2>1. host.graph \subseteq host'.graph BY <1>3
  <2> QED BY <1>1, <1>2, <1>3, <2>1, HomeKeeps
<1>4. ASSUME NEW e \in Entries, HostAppend(e) PROVE HomeInv'
  BY <1>1, <1>2, <1>4, HostAppendHome
<1>5. ASSUME NEW t \in Coordinates, NEW s \in Coordinates, HostNavigate(t, s) PROVE HomeInv'
  BY <1>1, <1>2, <1>5, HostNavigateHome
<1>6. CASE HostStays \/ \E tree \in Trees : UserEdits(tree)
  <2>1. host' = host BY <1>6 DEF HostStays, UserEdits, hostVars
  <2> QED BY <1>2, <1>3, <1>6, <2>1, UserHome
<1>7. CASE Crash
  <2>1. host' = host BY <1>7 DEF Crash
  <2> QED BY <1>2, <1>3, <1>7, <2>1, CrashHome
<1>8. ASSUME NEW h \in Handlers, Protects(h) PROVE HomeInv'
  <2>1. host' = host BY <1>8 DEF Protects, hostVars
  <2> QED BY <1>2, <1>3, <1>8, <2>1, ProtectsHome
<1>9. CASE CaptureNext
  <2>1. host' = host BY <1>9 DEF CaptureNext, hostVars
  <2> QED BY <1>2, <1>3, <1>9, <2>1, CaptureHome
<1>10. CASE MutationNext
  <2>1. host' = host BY <1>10 DEF MutationNext
  <2> QED BY <1>2, <1>3, <1>10, <2>1, MutationHome
<1>11. CASE DepartureNext
  <2>1. host' = host BY <1>11 DEF DepartureNext, hostVars
  <2> QED BY <1>2, <1>3, <1>11, <2>1, DepartureHome
<1>12. CASE ArrivalNext
  <2>1. host' = host BY <1>12 DEF ArrivalNext
  <2> QED BY <1>2, <1>3, <1>12, <2>1, ArrivalHome
<1>13. CASE RestoreNext
  <2>1. host' = host BY <1>13 DEF RestoreNext, hostVars
  <2> QED BY <1>2, <1>3, <1>13, <2>1, RestoreHome
<1> QED BY <1>4, <1>5, <1>6, <1>7, <1>8, <1>9, <1>10, <1>11, <1>12, <1>13 DEF Next, HostNext

LEMMA StutterHome ==
  ASSUME HomeInv, UNCHANGED vars
  PROVE  HomeInv'
<1>1. /\ w' = w /\ host' = host /\ event' = event /\ content' = content /\ job' = job
      /\ trip' = trip /\ plan' = plan /\ arr' = arr /\ ask' = ask /\ owed' = owed
      /\ home' = home
  BY DEF vars, hostVars, handlers, ghostVars
<1>2. MapInv'
  BY <1>1 DEF HomeInv, MapInv, HostRooted, Here, Targets, TripSame, PlanSame, EventSame
<1>3. Fresh' /\ Dormant' /\ Spent' BY <1>1 DEF HomeInv, Fresh, Dormant, Spent
<1>4. FitsHome' BY <1>1 DEF HomeInv, FitsHome, Fits, Effective, EffectiveAt, Here
<1>5. JobHome'
  <2>1. /\ FoundRestored' <=> FoundRestored
        /\ FoundInherited' <=> FoundInherited
        /\ Lost' <=> Lost
        /\ Effective(w', host') = Effective(w, host)
        /\ Here' = Here
    BY <1>1 DEF FoundRestored, FoundInherited, Lost, Here
  <2> QED BY <1>1, <2>1 DEF HomeInv, JobHome
<1>6. Applying' BY <1>1 DEF HomeInv, Applying, Runs
<1>7. Guarded'
  <2>1. Exposed => Exposed'
    BY <1>1 DEF Exposed, Elsewhere, InTransit, Pending, Writing
  <2>2. Sheltered => Sheltered'
    BY <1>1 DEF Sheltered, Shut, Unpaid, Free, Here
  <2> QED BY <2>1, <2>2 DEF HomeInv, Guarded
<1> QED BY <1>2, <1>3, <1>4, <1>5, <1>6, <1>7 DEF HomeInv

LEMMA InitHome ==
  ASSUME Init
  PROVE  HomeInv
<1>1. PICK given \in Settings : \E slots \in given.slots :
        /\ host \in given.views
        /\ w = [slots |-> slots, barrier |-> FALSE, adm |-> NoAuthority, active |-> FALSE]
  BY DEF Init
<1>2. PICK slots \in given.slots :
        w = [slots |-> slots, barrier |-> FALSE, adm |-> NoAuthority, active |-> FALSE]
  BY <1>1
<1>3. ~ w.active /\ w.adm.kind = "closed" /\ w.slots = slots BY <1>2 DEF NoAuthority
<1>4. event = NoEvent /\ job = NoJob /\ trip = NoTrip
      /\ arr = NoArrival /\ plan = NothingPlanned
      /\ home = IF Fits(w, content, host) THEN Here ELSE Nowhere
  BY DEF Init
<1>5. At(host) \in host.graph \cup {NoEntry}
      /\ \A e \in host.graph \cap Entries : Ancestors(e) \subseteq host.graph
  BY <1>1, InitialAssumption
<1>6. HostRooted BY <1>5 DEF HostRooted, Here
<1>7. MapInv
  BY <1>4, <1>6, NoTripSays, NothingSays DEF MapInv, Targets, TripSame, PlanSame, EventSame
<1>8. Fresh
  <2>1. host \in given.views BY <1>1
  <2>2. \A e \in Entries \ host.graph : slots[e] = OpenMissing
    BY <1>2, <2>1, InitialAssumption
  <2> QED BY <1>3, <2>2 DEF Fresh
<1>9. job.kind = "none" /\ job.step = "none" BY <1>4 DEF NoJob
<1>10. Spent /\ JobHome /\ Applying
  BY <1>9 DEF Spent, JobHome, Applying, FoundRestored, FoundInherited, Runs
<1>11. FitsHome BY <1>4 DEF FitsHome
<1>12. Dormant /\ Guarded BY <1>3 DEF Dormant, Guarded, Exposed
<1> QED BY <1>7, <1>8, <1>10, <1>11, <1>12 DEF HomeInv

LEMMA HomeInvariant == Spec => [](ProtocolInv /\ HomeInv)
<1>1. Init => HomeInv BY InitHome
<1>2. ProtocolInv /\ HomeInv /\ [Next]_vars => HomeInv'
  BY NextHome, StutterHome
<1> QED BY <1>1, <1>2, ProtocolInvariant, PTL DEF Spec

(* Whenever the authority would let a capture at the present location      *)
(* through, and no protection is owed, the files are those of that         *)
(* location: whatever handlers, Pi, the user, failures and crashes did     *)
(* before, the files of one branch are not up for record on another.       *)
THEOREM FilesAreAdmittedAtHome == Spec => []AdmittedAtHome
<1>1. HomeInv => AdmittedAtHome
  <2> DEFINE blocked == LocationIsBlocked(w, host)
             verdict == Decision(w.adm, host, blocked)
  <2>1. SUFFICES ASSUME HomeInv, w.active, ~ event.due, Here # NoEntry, ~ w.barrier,
                        \A h \in Handlers : Free(h), verdict = "capture"
                 PROVE  home = Here
    BY DEF AdmittedAtHome
  <2>2. w.adm.kind = "live" /\ ~ blocked
    <3> HIDE DEF blocked
    <3> QED BY <2>1 DEF Decision
  <2>3. ~ Shut(w, host) BY <2>1, <2>2 DEF Shut, LocationIsBlocked, Here
  <2>4. ~ Unpaid BY <2>1 DEF Unpaid
  <2>5. ~ Exposed BY <2>1, <2>2 DEF Exposed, Elsewhere, InTransit
  <2> QED BY <2>1, <2>3, <2>4, <2>5 DEF HomeInv, Guarded, Sheltered
<1> QED BY <1>1, HomeInvariant, PTL
-----------------------------------------------------------------------------
(* What is recorded anew.                                                  *)

(* Only e differs.                                                         *)
Sole(s, t, e) ==
    /\ t.active => s.active
    /\ \A d \in Entries \ {e} : t.slots[d] = s.slots[d]

(* A slot that changes is blocked.                                         *)
Meek(s, t) ==
    /\ t.active => s.active
    /\ \A d \in Entries : t.slots[d] = s.slots[d] \/ IsBlocked(t.slots[d])

(* A tree is recorded for capture at e only.                               *)
Kept(s, t, e) ==
    /\ t.active => s.active
    /\ \A d \in Entries \ {e} : t.slots[d].tree = s.slots[d].tree \/ IsBlocked(t.slots[d])
-----------------------------------------------------------------------------
(* The order in which handlers are served.                                 *)

InLine(q, h) == \E i \in 1..Len(q) : q[i] = h

(* An arrival asks for one execution at a time.                            *)
Single(q) == \A i, j \in 1..Len(q) : q[i] = "arr" /\ q[j] = "arr" => i = j

(* The capture is served before any arrival.                               *)
CallFirst(q) == \A j \in 1..Len(q) : q[j] = "arr" => \E i \in 1..Len(q) : i < j /\ q[i] = "call"

CallInLine ==
    /\ call.phase = "queued" => InLine(queue, "call")
    /\ call.phase = "running" <=> job.kind = "capture"
    /\ job.kind = "capture" => job.view = call.view
    /\ call.phase # "none" =>
          Free("call") /\ call.view \in Views /\ call.view.graph \subseteq host.graph

ArrInLine ==
    /\ InLine(queue, "arr") => arr.phase = "queued" \/ ~ Free("arr")
    /\ Single(queue)
    /\ arr.phase # "none" \/ event.due => Free("arr")

TripDue == trip.phase # "none" => ~ event.due

(* A capture is still to come of what the session was when it was called.  *)
Awaited ==
    /\ call.phase \in {"queued", "running"}
    /\ w.active
    /\ host.graph = call.view.graph

(* An arrival is under way or its protection owed, and comes later.        *)
ArrivesLater ==
    /\ arr.phase # "none" \/ ~ Free("arr")
    /\ job.kind # "arrival"
    /\ call.phase = "queued" => CallFirst(queue)

(* Where Pi is since: a capture that finds the session again as it was     *)
(* called finds it at the coordinate the last event spoke of.              *)
CallPlace ==
    Awaited =>
        IF event.due
          THEN StableOf(event.old) = At(call.view) /\ event.landing = Here
          ELSE Here = At(call.view) \/ ArrivesLater

QueueInv == CallInLine /\ ArrInLine /\ TripDue /\ CallPlace
-----------------------------------------------------------------------------
(* What the operations record.                                             *)

LEMMA KeptTwice ==
  ASSUME NEW s, NEW t, NEW u
  PROVE  /\ Meek(s, s)
         /\ Meek(s, t) /\ Meek(t, u) => Meek(s, u)
         /\ Sole(s, t, NoEntry) => Meek(s, t)
         /\ Meek(s, t) => \A e : Kept(s, t, e)
         /\ \A e : Sole(s, t, e) => Kept(s, t, e)
         /\ \A e : Sole(s, t, e) /\ Kept(t, u, NoEntry) => Kept(s, u, e)
         /\ \A e : Kept(s, t, e) /\ Meek(t, u) => Kept(s, u, e)
<1>1. Entries \ {NoEntry} = Entries BY NoEntryAssumption
<1>2. Meek(s, s) /\ (Meek(s, t) /\ Meek(t, u) => Meek(s, u)) BY DEF Meek
<1>3. Sole(s, t, NoEntry) => Meek(s, t) BY <1>1 DEF Sole, Meek
<1>4. Meek(s, t) => \A e : Kept(s, t, e) BY DEF Meek, Kept
<1>5. \A e : Sole(s, t, e) => Kept(s, t, e) BY DEF Sole, Kept
<1>6. ASSUME NEW e, Sole(s, t, e), Kept(t, u, NoEntry) PROVE Kept(s, u, e)
  BY <1>1, <1>6 DEF Sole, Kept
<1>7. ASSUME NEW e, Kept(s, t, e), Meek(t, u) PROVE Kept(s, u, e)
  BY <1>7 DEF Meek, Kept
<1> QED BY <1>2, <1>3, <1>4, <1>5, <1>6, <1>7

LEMMA RowsMeek ==
  ASSUME NEW s \in States, NEW v
  PROVE  /\ \A a \in Authorities : Sole(s, WithAdmission(s, a), NoEntry)
         /\ Sole(s, Quarantined(s), NoEntry) /\ Sole(s, Withdrawn(s), NoEntry)
         /\ Sole(s, Claim(s, v), NoEntry)
         /\ \A a \in Authorities : Meek(s, WithAdmission(s, a))
         /\ Meek(s, Quarantined(s)) /\ Meek(s, Withdrawn(s)) /\ Meek(s, Claim(s, v))
<1>1. ASSUME NEW t, SameRows(s, t), t.active => s.active
      PROVE  Sole(s, t, NoEntry) /\ Meek(s, t)
  BY <1>1 DEF SameRows, Sole, Meek
<1>2. ASSUME NEW a \in Authorities
      PROVE  Sole(s, WithAdmission(s, a), NoEntry) /\ Meek(s, WithAdmission(s, a))
  BY <1>1, RowsKept
<1>3. Sole(s, Quarantined(s), NoEntry) /\ Meek(s, Quarantined(s)) BY <1>1, RowsKept
<1>4. Sole(s, Withdrawn(s), NoEntry) /\ Meek(s, Withdrawn(s)) BY <1>1, RowsKept
<1>5. Sole(s, Claim(s, v), NoEntry) /\ Meek(s, Claim(s, v)) BY <1>1, RowsKept
<1> QED BY <1>2, <1>3, <1>4, <1>5

LEMMA ProtectMeek ==
  ASSUME NEW s \in States, NEW v \in Views
  PROVE  /\ Meek(s, ProtectLocation(s, v)) /\ Meek(s, ProtectNode(s, v))
         /\ Meek(s, Protected(s, v)) /\ Meek(s, Recover(s, v)) /\ Meek(s, Barred(s))
<1>1. ASSUME NEW u \in States PROVE Meek(u, ProtectLocation(u, v))
  <2> DEFINE e == At(v)
             tree == Effective(u, v).tree
             p == ProtectLocation(u, v)
  <2>1. p.active = u.active BY ProtectTame
  <2>2. CASE e = NoEntry
    <3>1. p = [u EXCEPT !.barrier = TRUE] BY <2>2 DEF ProtectLocation
    <3>2. p.slots = u.slots BY <3>1 DEF States
    <3> QED BY <2>1, <3>2 DEF Meek
  <2>3. CASE e # NoEntry
    <3>1. e \in Entries BY <2>3, AtTyped
    <3>2. p = [u EXCEPT !.slots[e] = BlockSlot(u.slots[e], tree)] BY <2>3 DEF ProtectLocation, States
    <3>3. p.slots = [u.slots EXCEPT ![e] = BlockSlot(u.slots[e], tree)] BY <3>2 DEF States
    <3>4. u.slots \in [Entries -> Slot] BY DEF States
    <3>5. IsBlocked(p.slots[e])
      <4>1. p.slots[e] = BlockSlot(u.slots[e], tree) BY <3>1, <3>3, <3>4
      <4>2. u.slots[e] \in Slot BY <3>1, <3>4
      <4> QED BY <4>1, <4>2, BlockSlotBlocks
    <3>6. \A d \in Entries : d # e => p.slots[d] = u.slots[d] BY <3>1, <3>3, <3>4
    <3> HIDE DEF p
    <3>7. Meek(u, p) BY <2>1, <3>5, <3>6 DEF Meek
    <3> QED BY <3>7 DEF p
  <2> QED BY <2>2, <2>3
<1> DEFINE p == ProtectLocation(s, v)
           q == Quarantined(s)
           r == ProtectLocation(q, v)
           b == [q EXCEPT !.barrier = TRUE]
<1>2. p \in States /\ Meek(s, p) BY <1>1, ProtectTame
<1>3. q \in States /\ Meek(s, q) BY QuarantinedTame, RowsMeek
<1>4. r \in States /\ Meek(q, r) BY <1>1, <1>3, ProtectTame
<1>5. Protected(s, v) = r BY DEF Protected
<1>6. Barred(s) = b BY DEF Barred
<1>7. Meek(q, b)
  <2> HIDE DEF q
  <2>1. b.slots = q.slots /\ b.active = q.active BY <1>3 DEF States
  <2> HIDE DEF b
  <2> QED BY <2>1 DEF Meek
<1>8. ProtectNode(s, v) = Claim(p, v) BY DEF ProtectNode
<1>9. Recover(s, v) = IF At(v) = NoEntry THEN r ELSE Claim(r, v) BY <1>5 DEF Recover
<1> HIDE DEF p, q, r, b
<1>10. Meek(s, r) /\ Meek(s, b) BY <1>3, <1>4, <1>7, KeptTwice
<1>11. Meek(p, Claim(p, v)) /\ Meek(r, Claim(r, v)) BY <1>2, <1>4, RowsMeek
<1>12. Meek(s, Claim(p, v)) /\ Meek(s, Claim(r, v)) BY <1>2, <1>10, <1>11, KeptTwice
<1> QED BY <1>2, <1>5, <1>6, <1>8, <1>9, <1>10, <1>12 DEF p

LEMMA ReconciledMeek ==
  ASSUME NEW s \in States, NEW path
  PROVE  Meek(s, [s EXCEPT !.slots = Reconciled(@, path), !.barrier = FALSE])
<1> DEFINE sl == Reconciled(s.slots, path)
           r == [s EXCEPT !.slots = sl, !.barrier = FALSE]
<1>1. \A e \in Entries : sl[e] = s.slots[e] \/ IsBlocked(sl[e])
  <2> SUFFICES ASSUME NEW e \in Entries, e \in path PROVE IsBlocked(sl[e])
    BY DEF Reconciled
  <2>1. sl[e] = BlockSlot(s.slots[e], Inherited(s.slots, e).tree) BY DEF Reconciled
  <2>2. s.slots[e] \in Slot BY DEF States
  <2> QED BY <2>1, <2>2, BlockSlotBlocks
<1> HIDE DEF sl
<1>2. r.slots = sl /\ r.active = s.active BY DEF States
<1> HIDE DEF r
<1>3. Meek(s, r) BY <1>1, <1>2 DEF Meek
<1> QED BY <1>3 DEF r, sl

LEMMA ReconcileMeek ==
  ASSUME NEW s \in States, NEW v \in Views
  PROVE  Meek(s, ReconcileBarrier(s, v))
<1>1. CASE s.barrier /\ At(v) # NoEntry BY <1>1, ReconciledMeek DEF ReconcileBarrier
<1>2. CASE ~ (s.barrier /\ At(v) # NoEntry) BY <1>2, KeptTwice DEF ReconcileBarrier
<1> QED BY <1>1, <1>2

LEMMA BoundaryMeek ==
  ASSUME NEW s \in States, NEW v \in Views, NEW o \in Ops
  PROVE  Meek(s, Boundary(s, v, o).state)
<1> DEFINE b == LocationIsBlocked(s, v)
           a == Decided(s.adm, v, b, o)
           d == WithAdmission(s, a)
           k == ReconcileBarrier(s, v)
           verdict == Decision(s.adm, v, b)
<1>1. CASE At(v) # NoEntry /\ s.barrier
  <2>1. Boundary(s, v, o).state = Claim(k, v) BY <1>1 DEF Boundary
  <2>2. k \in States /\ Meek(s, k) BY CompositesTame, ReconcileMeek
  <2> HIDE DEF k
  <2>3. Meek(k, Claim(k, v)) BY <2>2, RowsMeek
  <2>4. Meek(s, Claim(k, v)) BY <2>2, <2>3, KeptTwice
  <2> QED BY <2>1, <2>4
<1>2. CASE ~ (At(v) # NoEntry /\ s.barrier) /\ ~ s.active
  BY <1>2, ProtectMeek DEF Boundary
<1>3. CASE ~ (At(v) # NoEntry /\ s.barrier) /\ s.active
  <2>1. Boundary(s, v, o).state =
          IF verdict = "not-admitted" /\ At(v) # NoEntry THEN ProtectNode(d, v) ELSE d
    BY <1>3 DEF Boundary
  <2>2. a \in Authorities
    <3>1. b \in BOOLEAN BY DEF LocationIsBlocked, IsBlocked
    <3>2. s.adm \in Authorities BY DEF States
    <3> HIDE DEF b
    <3> QED BY <3>1, <3>2, AuthorityYields
  <2>3. d \in States BY <2>2 DEF WithAdmission, States
  <2>4. Meek(s, d) BY <2>2, RowsMeek
  <2> HIDE DEF d, verdict
  <2>5. Meek(d, ProtectNode(d, v)) BY <2>3, ProtectMeek
  <2>6. Meek(s, ProtectNode(d, v)) BY <2>4, <2>5, KeptTwice
  <2> QED BY <2>1, <2>4, <2>6
<1> QED BY <1>1, <1>2, <1>3

(* The commit of a capture records at its coordinate and nowhere else.     *)
LEMMA AfterCaptureKept ==
  ASSUME NEW s \in States, NEW e, NEW slot, NEW tree
  PROVE  /\ CaptureVerdict(s, e, slot) = "committed" => Sole(s, AfterCapture(s, e, slot, tree), e)
         /\ CaptureVerdict(s, e, slot) # "committed" => Meek(s, AfterCapture(s, e, slot, tree))
         /\ Sole(s, Captured(s, e, tree), e)
<1> DEFINE verdict == CaptureVerdict(s, e, slot)
           r == [s EXCEPT !.slots = Reconciled(@, Line(e)), !.barrier = FALSE]
           c == Captured(s, e, tree)
<1>1. AfterCapture(s, e, slot, tree) =
        IF verdict = "settled" THEN r ELSE IF verdict = "committed" THEN c ELSE s
  BY DEF AfterCapture
<1>2. Meek(s, r) /\ Meek(s, s) BY ReconciledMeek, KeptTwice
<1>3. Sole(s, c, e)
  <2> DEFINE y == OpenCheckpoint(tree)
             t == [s EXCEPT !.slots[e] = y]
  <2>1. c = t BY DEF Captured
  <2> HIDE DEF y, c
  <2>2. t.slots = [s.slots EXCEPT ![e] = y] /\ t.active = s.active BY DEF States
  <2> HIDE DEF t
  <2>3. s.slots \in [Entries -> Slot] BY DEF States
  <2>4. \A d \in Entries \ {e} : t.slots[d] = s.slots[d] BY <2>2, <2>3
  <2>5. Sole(s, t, e) BY <2>2, <2>4 DEF Sole
  <2> QED BY <2>1, <2>5
<1> HIDE DEF r, c, verdict
<1>4. verdict = "committed" => AfterCapture(s, e, slot, tree) = c BY <1>1
<1>5. verdict # "committed" => AfterCapture(s, e, slot, tree) \in {r, s} BY <1>1
<1>6. verdict # "committed" => Meek(s, AfterCapture(s, e, slot, tree)) BY <1>2, <1>5
<1> QED BY <1>3, <1>4, <1>6 DEF verdict, c

(* A release opens what is recorded, whatever it is.                       *)
LEMMA ReleasedKept ==
  ASSUME NEW s \in States, NEW v \in Views, NEW res
  PROVE  Kept(s, Released(s, v, res), NoEntry)
<1> DEFINE e == At(v)
           x == [s.slots[e] EXCEPT !.capture = "open"]
           t == [s EXCEPT !.slots[e] = x]
<1>1. s.slots \in [Entries -> Slot] BY DEF States
<1>2. e \in Entries => x.tree = s.slots[e].tree BY <1>1 DEF Slot
<1>3. Released(s, v, res) = t BY DEF Released
<1> HIDE DEF e, x
<1>4. t.slots = [s.slots EXCEPT ![e] = x] /\ t.active = s.active BY DEF States
<1> HIDE DEF t
<1>5. \A d \in Entries : t.slots[d].tree = s.slots[d].tree
  <2> SUFFICES ASSUME NEW d \in Entries PROVE t.slots[d].tree = s.slots[d].tree OBVIOUS
  <2>1. CASE d = e
    <3>1. t.slots[d] = x BY <1>1, <1>4, <2>1
    <3> QED BY <1>2, <2>1, <3>1
  <2>2. CASE d # e BY <1>1, <1>4, <2>2
  <2> QED BY <2>1, <2>2
<1>6. Kept(s, t, NoEntry) BY <1>4, <1>5 DEF Kept
<1> QED BY <1>3, <1>6

LEMMA AdmitLocationKept ==
  ASSUME NEW s \in States, NEW v \in Views, NEW res
  PROVE  LET o == AdmitLocationIfResolution(s, v, res)
         IN  /\ Kept(s, o.state, NoEntry)
             /\ ~ o.ok => Meek(s, o.state)
<1> DEFINE o == AdmitLocationIfResolution(s, v, res)
           c == Claim(s, v)
<1>1. Meek(s, s) /\ Meek(s, c) /\ Meek(s, Quarantined(s)) /\ Sole(s, c, NoEntry)
  BY RowsMeek, KeptTwice
<1>2. c \in States BY ClaimTame
<1> HIDE DEF c
<1>3. Kept(c, Released(c, v, res), NoEntry) BY <1>2, ReleasedKept
<1>4. Kept(s, Released(c, v, res), NoEntry) BY <1>1, <1>3, KeptTwice
<1>5. \/ ~ o.ok /\ o.state \in {s, c, Quarantined(s)}
      \/ o.ok /\ o.state = Released(c, v, res)
  BY DEF AdmitLocationIfResolution, Outcome, c
<1>6. ~ o.ok => Meek(s, o.state) BY <1>1, <1>5
<1>7. Kept(s, o.state, NoEntry) BY <1>4, <1>5, <1>6, KeptTwice
<1> QED BY <1>6, <1>7

LEMMA ProtectArrivalMeek ==
  ASSUME NEW s \in States, NEW v \in Views, NEW h \in Attempts
  PROVE  Meek(s, ProtectTreeArrival(s, h, v).state)
<1> DEFINE p == ProtectLocation(s, v)
           a == SettleArrival(p.adm, h, v)
<1>1. p \in States /\ Meek(s, p) BY ProtectTame, ProtectMeek
<1>2. ProtectTreeArrival(s, h, v).state \in {s, WithAdmission(p, a), Quarantined(p)}
  BY DEF ProtectTreeArrival, Outcome
<1> HIDE DEF p
<1>3. a \in Authorities
  <2>1. p.adm \in Authorities BY <1>1 DEF States
  <2> QED BY <2>1, AuthorityYields
<1> HIDE DEF a
<1>4. Meek(p, WithAdmission(p, a)) /\ Meek(p, Quarantined(p)) BY <1>1, <1>3, RowsMeek
<1>5. Meek(s, WithAdmission(p, a)) /\ Meek(s, Quarantined(p)) /\ Meek(s, s)
  BY <1>1, <1>4, KeptTwice
<1> QED BY <1>2, <1>5

LEMMA ClosedMeek ==
  ASSUME NEW s \in States, NEW v \in Views, NEW h \in Attempts
  PROVE  /\ Meek(s, WithAdmission(s, CloseArrival(s.adm, h)))
         /\ Meek(s, WithAdmission(s, AdmitArrival(s.adm, h, v)))
<1>1. s.adm \in Authorities BY DEF States
<1>2. CloseArrival(s.adm, h) \in Authorities /\ AdmitArrival(s.adm, h, v) \in Authorities
  BY <1>1, AuthorityYields
<1> QED BY <1>2, RowsMeek

LEMMA AdmitCurrentMeek ==
  ASSUME NEW s \in States, NEW v \in Views
  PROVE  /\ Meek(s, AdmitCurrentLocation(s, v).state)
         /\ \A h \in Attempts : Meek(s, AdmitCurrentTreeArrival(s, h, v).state)
<1>1. Meek(s, s) /\ Meek(s, Claim(s, v)) BY RowsMeek, KeptTwice
<1>2. AdmitCurrentLocation(s, v).state \in {s, Claim(s, v)} BY DEF AdmitCurrentLocation, Outcome
<1>3. ASSUME NEW h \in Attempts PROVE Meek(s, AdmitCurrentTreeArrival(s, h, v).state)
  <2>1. AdmitCurrentTreeArrival(s, h, v).state \in
          {ProtectTreeArrival(s, h, v).state, WithAdmission(s, CloseArrival(s.adm, h)),
           WithAdmission(s, AdmitArrival(s.adm, h, v))}
    BY DEF AdmitCurrentTreeArrival, Outcome
  <2> QED BY <2>1, ProtectArrivalMeek, ClosedMeek
<1> QED BY <1>1, <1>2, <1>3

LEMMA AdmitArrivalKept ==
  ASSUME NEW s \in States, NEW v \in Views, NEW h \in Attempts, NEW res
  PROVE  Kept(s, AdmitTreeArrivalIfResolution(s, h, v, res).state, NoEntry)
<1> DEFINE o == AdmitTreeArrivalIfResolution(s, h, v, res)
           r == Released(s, v, res)
           t == WithAdmission(r, AdmitArrival(s.adm, h, v))
<1>1. Meek(s, ProtectTreeArrival(s, h, v).state)
      /\ Meek(s, WithAdmission(s, CloseArrival(s.adm, h)))
  BY ProtectArrivalMeek, ClosedMeek
<1>2. \/ o.state \in {ProtectTreeArrival(s, h, v).state, WithAdmission(s, CloseArrival(s.adm, h))}
      \/ At(v) # NoEntry /\ MetadataAdmits(s, v, res) /\ o.state = t
  BY DEF AdmitTreeArrivalIfResolution, Outcome
<1>3. CASE At(v) # NoEntry /\ MetadataAdmits(s, v, res) /\ o.state = t
  <2>1. r \in States /\ r.adm = s.adm BY <1>3, ReleasedTame
  <2>2. Kept(s, r, NoEntry) BY ReleasedKept
  <2> HIDE DEF r
  <2>3. Meek(r, t) BY <2>1, ClosedMeek
  <2> HIDE DEF t
  <2>4. Kept(s, t, NoEntry) BY <2>2, <2>3, KeptTwice
  <2> QED BY <1>3, <2>4
<1> HIDE DEF t
<1> QED BY <1>1, <1>2, <1>3, KeptTwice

LEMMA CutoverMeek ==
  ASSUME NEW s \in States, NEW v \in Views, NEW res, NEW granted
  PROVE  Meek(s, CutoverIf(granted, s, v, res).state)
<1> DEFINE p == ProtectLocation(s, v)
<1>1. p \in States /\ Meek(s, p) BY ProtectTame, ProtectMeek
<1>2. CutoverIf(granted, s, v, res).state \in {s, p, Quarantined(p)} BY DEF CutoverIf, Outcome
<1> HIDE DEF p
<1>3. Meek(p, Quarantined(p)) BY <1>1, RowsMeek
<1>4. Meek(s, Quarantined(p)) /\ Meek(s, s) BY <1>1, <1>3, KeptTwice
<1> QED BY <1>1, <1>2, <1>4
-----------------------------------------------------------------------------
(* The queue.                                                              *)

LEMMA LineGrows ==
  ASSUME NEW q \in Seq(Handlers), NEW h \in Handlers
  PROVE  LET p == Append(q, h)
         IN  /\ \A g : InLine(p, g) <=> InLine(q, g) \/ g = h
             /\ Single(q) /\ (h # "arr" \/ ~ InLine(q, "arr")) => Single(p)
             /\ CallFirst(q) /\ (h # "arr" \/ InLine(q, "call")) => CallFirst(p)
<1> DEFINE p == Append(q, h)
           n == Len(q)
<1>1. n \in Nat /\ Len(p) = n + 1 /\ p[n + 1] = h /\ \A i \in 1..n : p[i] = q[i]
  OBVIOUS
<1>2. \A i : i \in 1..(n + 1) <=> i \in 1..n \/ i = n + 1 BY <1>1
<1> HIDE DEF p
<1>3. ASSUME NEW g PROVE InLine(p, g) <=> InLine(q, g) \/ g = h
  <2>1. InLine(p, g) <=> \E i \in 1..(n + 1) : p[i] = g BY <1>1 DEF InLine
  <2>2. InLine(q, g) <=> \E i \in 1..n : q[i] = g BY DEF InLine
  <2> HIDE DEF n
  <2> QED BY <1>1, <1>2, <2>1, <2>2
<1>4. ASSUME Single(q), h # "arr" \/ ~ InLine(q, "arr") PROVE Single(p)
  <2>1. \A i \in 1..n : p[i] = "arr" => h # "arr" BY <1>1, <1>4 DEF InLine
  <2>2. \A i, j \in 1..n : p[i] = "arr" /\ p[j] = "arr" => i = j BY <1>1, <1>4 DEF Single
  <2> HIDE DEF n
  <2>3. \A i, j \in 1..(n + 1) : p[i] = "arr" /\ p[j] = "arr" => i = j
    BY <1>1, <1>2, <2>1, <2>2
  <2> QED BY <1>1, <2>3 DEF Single
<1>5. ASSUME CallFirst(q), h # "arr" \/ InLine(q, "call") PROVE CallFirst(p)
  <2>1. ASSUME NEW j \in 1..(n + 1), p[j] = "arr"
        PROVE  \E i \in 1..(n + 1) : i < j /\ p[i] = "call"
    <3>1. CASE j \in 1..n
      <4>1. PICK i \in 1..n : i < j /\ q[i] = "call" BY <1>1, <1>5, <2>1, <3>1 DEF CallFirst
      <4> QED BY <1>1, <1>2, <4>1
    <3>2. CASE j = n + 1
      <4>1. PICK i \in 1..n : q[i] = "call" BY <1>1, <1>5, <2>1, <3>2 DEF InLine
      <4>2. i < j BY <1>1, <3>2, <4>1
      <4> QED BY <1>1, <1>2, <4>1, <4>2
    <3> QED BY <1>2, <3>1, <3>2
  <2> QED BY <1>1, <2>1 DEF CallFirst
<1> QED BY <1>3, <1>4, <1>5 DEF p

LEMMA LineMoves ==
  ASSUME NEW q \in Seq(Handlers), q # <<>>
  PROVE  /\ Tail(q) \in Seq(Handlers) /\ Head(q) \in Handlers
         /\ \A g : InLine(Tail(q), g) => InLine(q, g)
         /\ \A g : InLine(q, g) /\ Head(q) # g => InLine(Tail(q), g)
         /\ InLine(q, Head(q))
         /\ Single(q) => Single(Tail(q)) /\ (Head(q) = "arr" => ~ InLine(Tail(q), "arr"))
         /\ CallFirst(q) => Head(q) # "arr"
         /\ CallFirst(q) /\ Head(q) # "call" => CallFirst(Tail(q))
<1> DEFINE p == Tail(q)
           n == Len(q)
<1>1. /\ n \in Nat /\ n > 0 /\ p \in Seq(Handlers) /\ Len(p) = n - 1
      /\ Head(q) = q[1] /\ q[1] \in Handlers
      /\ \A i \in 1..(n - 1) : p[i] = q[i + 1]
  OBVIOUS
<1>2. 1 \in 1..n /\ \A i \in 1..(n - 1) : i + 1 \in 1..n /\ i + 1 # 1 BY <1>1
<1>3. \A j \in 1..n : j # 1 => j - 1 \in 1..(n - 1) /\ (j - 1) + 1 = j BY <1>1
<1> HIDE DEF p
<1>4. ASSUME NEW g, InLine(p, g) PROVE InLine(q, g)
  <2>1. PICK i \in 1..(n - 1) : p[i] = g BY <1>1, <1>4 DEF InLine
  <2> QED BY <1>1, <1>2, <2>1 DEF InLine
<1>5. ASSUME NEW g, InLine(q, g), Head(q) # g PROVE InLine(p, g)
  <2>1. PICK j \in 1..n : q[j] = g BY <1>5 DEF InLine
  <2>2. j # 1 BY <1>1, <1>5, <2>1
  <2>3. p[j - 1] = g BY <1>1, <1>3, <2>1, <2>2
  <2> QED BY <1>1, <1>3, <2>2, <2>3 DEF InLine
<1>6. InLine(q, Head(q)) BY <1>1, <1>2 DEF InLine
<1>7. ASSUME Single(q) PROVE Single(p) /\ (Head(q) = "arr" => ~ InLine(p, "arr"))
  <2>1. ASSUME NEW i \in 1..(n - 1), NEW j \in 1..(n - 1), p[i] = "arr", p[j] = "arr" PROVE i = j
    <3>1. q[i + 1] = "arr" /\ q[j + 1] = "arr" BY <1>1, <2>1
    <3>2. i + 1 = j + 1 BY <1>2, <1>7, <3>1 DEF Single
    <3> QED BY <3>2
  <2>2. ASSUME NEW i \in 1..(n - 1), p[i] = "arr", Head(q) = "arr" PROVE FALSE
    <3>1. q[i + 1] = "arr" /\ q[1] = "arr" BY <1>1, <2>2
    <3> QED BY <1>2, <1>7, <3>1 DEF Single
  <2> QED BY <1>1, <2>1, <2>2 DEF Single, InLine
<1>8. ASSUME CallFirst(q) PROVE Head(q) # "arr"
  <2> SUFFICES ASSUME q[1] = "arr" PROVE FALSE BY <1>1
  <2>1. PICK i \in 1..n : i < 1 BY <1>2, <1>8 DEF CallFirst
  <2> QED BY <2>1
<1>9. ASSUME CallFirst(q), Head(q) # "call" PROVE CallFirst(p)
  <2>1. ASSUME NEW j \in 1..(n - 1), p[j] = "arr"
        PROVE  \E i \in 1..(n - 1) : i < j /\ p[i] = "call"
    <3>1. q[j + 1] = "arr" /\ j + 1 \in 1..n BY <1>1, <1>2, <2>1
    <3>2. PICK i \in 1..n : i < j + 1 /\ q[i] = "call" BY <1>9, <3>1 DEF CallFirst
    <3>3. i # 1 BY <1>1, <1>9, <3>2
    <3>4. i - 1 \in 1..(n - 1) /\ p[i - 1] = "call" BY <1>1, <1>3, <3>2, <3>3
    <3>5. i - 1 < j BY <3>2
    <3> QED BY <3>4, <3>5
  <2> QED BY <1>1, <2>1 DEF CallFirst
<1> QED BY <1>1, <1>4, <1>5, <1>6, <1>7, <1>8, <1>9 DEF p

(* Handler h was served, or goes on with its execution.                    *)
Serving(h, q) == q = queue \/ (IsNext(h) /\ q = Others)

(* And has its work done, or owes a protection.                            *)
Owing(h, q) ==
    /\ Serving(h, q)
    /\ \/ queue' = q /\ owed' = owed
       \/ /\ queue' = Append(q, h)
          /\ owed'[h] # "none" /\ \A g \in Handlers \ {h} : owed'[g] = owed[g]

(* Or it waits for another execution.                                      *)
Attends(h) ==
    \E q : \/ Owing(h, q)
           \/ Serving(h, q) /\ queue' = Append(q, h) /\ owed' = owed

(* Only jobs of one kind begin, go on or end.                              *)
Employs(kind) == job' = job \/ {job.kind, job'.kind} \subseteq {"none", kind}

LEMMA ServingTyped ==
  ASSUME Typed, NEW h, NEW q, Serving(h, q)
  PROVE  q \in Seq(Handlers)
<1>1. CASE q = queue BY <1>1 DEF Typed
<1>2. CASE IsNext(h) /\ q = Others
  <2>1. queue # <<>> /\ queue \in Seq(Handlers) BY <1>2 DEF IsNext, Typed
  <2> QED BY <1>2, <2>1, LineMoves DEF Others
<1> QED BY <1>1, <1>2 DEF Serving

(* Serving whoever is no arrival leaves arrivals in line, and serving      *)
(* whoever is no capture captures.                                         *)
LEMMA LineStays ==
  ASSUME Typed, NEW h \in Handlers \ {"arr"}, Attends(h)
  PROVE  /\ InLine(queue', "arr") => InLine(queue, "arr")
         /\ Single(queue) => Single(queue')
         /\ h # "call" => /\ InLine(queue, "call") => InLine(queue', "call")
                          /\ CallFirst(queue) => CallFirst(queue')
                          /\ owed'["call"] = owed["call"]
         /\ owed'["arr"] = owed["arr"]
<1>1. PICK q : Serving(h, q) /\ queue' \in {q, Append(q, h)}
               /\ (owed' = owed \/ \A g \in Handlers \ {h} : owed'[g] = owed[g])
  BY DEF Attends, Owing
<1>2. q \in Seq(Handlers) BY <1>1, ServingTyped
<1>3. /\ InLine(q, "arr") => InLine(queue, "arr")
      /\ Single(queue) => Single(q)
      /\ h # "call" => /\ InLine(queue, "call") => InLine(q, "call")
                       /\ CallFirst(queue) => CallFirst(q)
  <2>1. CASE q = queue BY <2>1
  <2>2. CASE IsNext(h) /\ q = Tail(queue)
    <3>1. queue \in Seq(Handlers) /\ queue # <<>> /\ Head(queue) = h BY <2>2 DEF IsNext, Typed
    <3> QED BY <2>2, <3>1, LineMoves
  <2> QED BY <1>1, <2>1, <2>2 DEF Serving, Others
<1>4. LET p == Append(q, h)
      IN  /\ InLine(p, "arr") => InLine(q, "arr")
          /\ InLine(q, "call") => InLine(p, "call")
          /\ Single(q) => Single(p)
          /\ CallFirst(q) => CallFirst(p)
  BY <1>2, LineGrows
<1>5. owed'["arr"] = owed["arr"] BY <1>1 DEF Handlers
<1>6. h # "call" => owed'["call"] = owed["call"] BY <1>1 DEF Handlers
<1>7. queue' = q \/ queue' = Append(q, h) BY <1>1
<1> QED BY <1>3, <1>4, <1>5, <1>6, <1>7
-----------------------------------------------------------------------------
(* What keeps the order.                                                   *)

LEMMA StableHandlers == "call" \in Handlers /\ "arr" \in Handlers
                        /\ "trip" \in Handlers /\ "ask" \in Handlers
BY DEF Handlers

LEMMA AsideQueue ==
  ASSUME ProtocolInv, QueueInv, host' = host, event' = event, call' = call, arr' = arr,
         NEW h \in {"trip", "ask"}, Attends(h),
         NEW kind \in {"departure", "restore"}, Employs(kind),
         w'.active => w.active \/ call.phase = "none",
         trip'.phase # "none" => trip.phase # "none" \/ ~ event.due
  PROVE  QueueInv'
<1>1. Typed /\ h \in Handlers \ {"arr"} /\ h # "call" BY DEF ProtocolInv, Handlers
<1>2. /\ InLine(queue', "arr") => InLine(queue, "arr")
      /\ InLine(queue, "call") => InLine(queue', "call")
      /\ Single(queue) => Single(queue')
      /\ CallFirst(queue) => CallFirst(queue')
      /\ owed'["arr"] = owed["arr"] /\ owed'["call"] = owed["call"]
  BY <1>1, LineStays
<1>3. /\ job'.kind = "capture" <=> job.kind = "capture"
      /\ job'.kind = "capture" => job' = job
      /\ job'.kind = "arrival" => job.kind = "arrival"
  BY DEF Employs
<1>4. CallInLine' BY <1>2, <1>3 DEF QueueInv, CallInLine, Free
<1>5. ArrInLine' BY <1>2 DEF QueueInv, ArrInLine, Free
<1>6. TripDue' BY DEF QueueInv, TripDue
<1>7. CallPlace'
  <2>1. Awaited' => Awaited BY DEF Awaited
  <2>2. ArrivesLater => ArrivesLater' BY <1>2, <1>3 DEF ArrivesLater, Free
  <2>3. Here' = Here BY DEF Here
  <2> QED BY <2>1, <2>2, <2>3 DEF QueueInv, CallPlace
<1> QED BY <1>4, <1>5, <1>6, <1>7 DEF QueueInv

(* Whatever is done for an arrival is done after the captures called       *)
(* before it.                                                              *)
LEMMA NothingLeftBehind ==
  ASSUME Typed, QueueInv, ~ event.due, Awaited,
         job.kind = "arrival" \/ (Idle /\ queue # <<>> /\ Head(queue) = "arr")
  PROVE  Here = At(call.view)
<1>1. Here = At(call.view) \/ ArrivesLater BY DEF QueueInv, CallPlace
<1>2. SUFFICES ASSUME ArrivesLater PROVE FALSE BY <1>1
<1>3. Idle /\ queue # <<>> /\ Head(queue) = "arr" BY <1>2 DEF ArrivesLater
<1>4. job.kind = "none" BY <1>3 DEF Idle, NoJob
<1>5. call.phase = "queued" BY <1>4 DEF Awaited, QueueInv, CallInLine
<1>6. CallFirst(queue) /\ queue \in Seq(Handlers) BY <1>2, <1>5 DEF ArrivesLater, Typed
<1> QED BY <1>3, <1>6, LineMoves

LEMMA ArrivalQueue ==
  ASSUME ProtocolInv, QueueInv, host' = host, event' = event, call' = call, trip' = trip,
         NEW q, Owing("arr", q),
         \/ IsNext("arr") /\ arr.phase = "queued" /\ q = Others
         \/ job.kind = "arrival" /\ q = queue,
         job'.kind \in {"none", "arrival"}, arr'.phase \in {"none", "running"},
         arr'.phase # "none" => queue' = q /\ owed' = owed,
         w'.active => w.active
  PROVE  QueueInv'
<1>1. Typed /\ Due /\ JobKnows BY DEF ProtocolInv
<1>2. arr.phase # "none" /\ ~ event.due /\ Free("arr")
  BY <1>1 DEF JobKnows, Due, QueueInv, ArrInLine
<1>3. job.kind \in {"none", "arrival"} BY DEF IsNext, Idle, NoJob
<1>4. q \in Seq(Handlers) /\ ~ InLine(q, "arr") /\ Single(q)
      /\ (InLine(queue, "call") => InLine(q, "call"))
  <2>1. CASE IsNext("arr") /\ q = Others
    <3>1. queue \in Seq(Handlers) /\ queue # <<>> /\ Head(queue) = "arr" /\ q = Tail(queue)
      BY <1>1, <2>1 DEF IsNext, Typed, Others
    <3>2. Single(queue) BY DEF QueueInv, ArrInLine
    <3> QED BY <3>1, <3>2, LineMoves
  <2>2. CASE job.kind = "arrival" /\ q = queue
    <3>1. arr.phase = "running" BY <1>1, <2>2 DEF JobKnows
    <3> QED BY <1>1, <1>2, <2>2, <3>1 DEF QueueInv, ArrInLine, Typed
  <2> QED BY <2>1, <2>2
<1>5. owed'["call"] = owed["call"] BY StableHandlers DEF Owing
<1>6. \/ queue' = q /\ owed' = owed
      \/ queue' = Append(q, "arr") /\ owed'["arr"] # "none" /\ arr'.phase = "none"
  BY DEF Owing
<1>7. /\ \A g : InLine(Append(q, "arr"), g) <=> InLine(q, g) \/ g = "arr"
      /\ Single(Append(q, "arr"))
  BY <1>4, StableHandlers, LineGrows
<1>8. CallInLine'
  <2>1. call.phase # "running" /\ job'.kind # "capture" BY <1>3 DEF QueueInv, CallInLine
  <2>2. InLine(q, "call") => InLine(queue', "call") BY <1>6, <1>7
  <2> QED BY <1>4, <1>5, <2>1, <2>2 DEF QueueInv, CallInLine, Free
<1>9. ArrInLine' BY <1>2, <1>4, <1>6, <1>7 DEF ArrInLine, Free
<1>10. TripDue' BY DEF QueueInv, TripDue
<1>11. CallPlace'
  <2>1. Awaited' => Awaited BY DEF Awaited
  <2>2. Awaited => Here = At(call.view)
    BY <1>1, <1>2, NothingLeftBehind DEF IsNext
  <2>3. Here' = Here BY DEF Here
  <2> QED BY <1>2, <2>1, <2>2, <2>3 DEF CallPlace
<1> QED BY <1>8, <1>9, <1>10, <1>11 DEF QueueInv

(* A capture that is over, or left to its protection.                      *)
LEMMA CallOver ==
  ASSUME ProtocolInv, QueueInv, host' = host, event' = event, arr' = arr, trip' = trip,
         Attends("call"), Employs("capture"), job'.kind # "capture",
         \/ call'.phase = "none"
         \/ /\ call'.phase = "protecting" /\ call'.view = call.view
            /\ call.phase # "none" /\ owed' = owed
  PROVE  QueueInv'
<1>1. Typed BY DEF ProtocolInv
<1>2. /\ InLine(queue', "arr") => InLine(queue, "arr")
      /\ Single(queue) => Single(queue')
      /\ owed'["arr"] = owed["arr"]
  BY <1>1, StableHandlers, LineStays
<1>3. CallInLine' BY DEF QueueInv, CallInLine, Free
<1>4. ArrInLine' BY <1>2 DEF QueueInv, ArrInLine, Free
<1>5. TripDue' BY DEF QueueInv, TripDue
<1>6. CallPlace' BY DEF CallPlace, Awaited
<1> QED BY <1>3, <1>4, <1>5, <1>6 DEF QueueInv

(* A capture that is served, or goes on.                                   *)
LEMMA CallRuns ==
  ASSUME ProtocolInv, QueueInv, host' = host, event' = event, arr' = arr, trip' = trip,
         Attends("call"), owed' = owed, job'.kind = "capture", job'.view = call.view,
         call'.phase = "running", call'.view = call.view, call.phase \in {"queued", "running"},
         job.kind \in {"none", "capture"}, w'.active => w.active
  PROVE  QueueInv'
<1>1. Typed BY DEF ProtocolInv
<1>2. /\ InLine(queue', "arr") => InLine(queue, "arr")
      /\ Single(queue) => Single(queue')
  BY <1>1, StableHandlers, LineStays
<1>3. CallInLine' BY DEF QueueInv, CallInLine, Free
<1>4. ArrInLine' BY <1>2 DEF QueueInv, ArrInLine, Free
<1>5. TripDue' BY DEF QueueInv, TripDue
<1>6. CallPlace'
  <2>1. Awaited' => Awaited BY DEF Awaited
  <2>2. ArrivesLater => ArrivesLater' BY DEF ArrivesLater, Free
  <2>3. Here' = Here BY DEF Here
  <2> QED BY <2>1, <2>2, <2>3 DEF QueueInv, CallPlace
<1> QED BY <1>3, <1>4, <1>5, <1>6 DEF QueueInv
-----------------------------------------------------------------------------
(* What Pi and the user do to the order.                                   *)

LEMMA StillAttends ==
  ASSUME queue' = queue, owed' = owed, NEW h
  PROVE  Attends(h)
BY DEF Attends, Owing, Serving

(* Pi appends: no capture finds the session again as it was called.        *)
LEMMA GraphGrows ==
  ASSUME Typed, CallInLine, NEW e \in Entries \ host.graph,
         host' = [graph |-> host.graph \cup {e}, leaf |-> e],
         call' = call, job' = job, queue' = queue, owed' = owed
  PROVE  CallInLine' /\ ~ Awaited'
<1>1. host'.graph = host.graph \cup {e} OBVIOUS
<1>2. CallInLine' BY <1>1 DEF CallInLine, Free
<1>3. call.phase # "none" => e \notin call.view.graph BY DEF CallInLine
<1>4. ~ Awaited' BY <1>1, <1>3 DEF Awaited
<1> QED BY <1>2, <1>4

LEMMA AppendQueue ==
  ASSUME ProtocolInv, QueueInv, NEW e \in Entries, HostAppend(e)
  PROVE  QueueInv'
<1>1. /\ event' = event /\ call' = call /\ job' = job /\ queue' = queue /\ owed' = owed
      /\ arr' = arr /\ trip' = trip
      /\ host' = [graph |-> host.graph \cup {e}, leaf |-> e] /\ e \in Entries \ host.graph
  BY DEF HostAppend, runtimeVars, handlers
<1>2. CallInLine' /\ ~ Awaited' BY <1>1, GraphGrows DEF ProtocolInv, QueueInv
<1>3. ArrInLine' BY <1>1 DEF QueueInv, ArrInLine, Free
<1>4. TripDue' BY <1>1 DEF QueueInv, TripDue
<1> QED BY <1>2, <1>3, <1>4 DEF QueueInv, CallPlace

LEMMA NavigateQueue ==
  ASSUME ProtocolInv, QueueInv, NEW t \in Coordinates, NEW s \in Coordinates,
         HostNavigate(t, s)
  PROVE  QueueInv'
<1>1. /\ ~ event.due /\ arr = NoArrival /\ Free("arr") /\ trip' = NoTrip
      /\ w' = w /\ call' = call /\ job' = job /\ queue' = queue /\ owed' = owed /\ arr' = arr
      /\ event' = [old |-> host.leaf, new |-> host'.leaf, landing |-> t, due |-> TRUE]
  BY DEF HostNavigate, runtimeVars
<1>2. \/ host' = [host EXCEPT !.leaf = t]
      \/ /\ s \in Entries \ host.graph
         /\ host' = [graph |-> host.graph \cup {s}, leaf |-> s]
  BY DEF HostNavigate
<1>3. host \in Views /\ trip'.phase = "none" /\ arr.phase = "none"
  BY <1>1, NothingTyped DEF ProtocolInv, Typed, NoArrival
<1>4. ArrInLine' BY <1>1 DEF QueueInv, ArrInLine, Free
<1>5. TripDue' BY <1>3 DEF TripDue
<1>6. CASE host' = [host EXCEPT !.leaf = t]
  <2>1. host'.leaf = t /\ host'.graph = host.graph BY <1>3, <1>6 DEF Views
  <2>2. CallInLine' BY <1>1, <2>1 DEF QueueInv, CallInLine, Free
  <2>3. Here' = t BY <2>1, StableStays DEF Here, At
  <2>4. Awaited' => Awaited BY <1>1, <2>1 DEF Awaited
  <2>5. Awaited => Here = At(call.view)
    BY <1>1, <1>3 DEF QueueInv, CallPlace, ArrivesLater
  <2>6. StableOf(event'.old) = Here BY <1>1 DEF Here, At
  <2>7. event'.due /\ event'.landing = t BY <1>1
  <2>8. CallPlace' BY <1>1, <2>3, <2>4, <2>5, <2>6, <2>7 DEF CallPlace
  <2> QED BY <1>4, <1>5, <2>2, <2>8 DEF QueueInv
<1>7. CASE /\ s \in Entries \ host.graph
           /\ host' = [graph |-> host.graph \cup {s}, leaf |-> s]
  <2>1. CallInLine' /\ ~ Awaited' BY <1>1, <1>7, GraphGrows DEF ProtocolInv, QueueInv
  <2> QED BY <1>4, <1>5, <2>1 DEF QueueInv, CallPlace
<1> QED BY <1>2, <1>6, <1>7

LEMMA UserQueue ==
  ASSUME ProtocolInv, QueueInv, HostStays \/ \E tree \in Trees : UserEdits(tree)
  PROVE  QueueInv'
<1>1. /\ host' = host /\ event' = event /\ w' = w /\ job' = job /\ queue' = queue
      /\ owed' = owed /\ arr' = arr /\ call' = call /\ (trip' = trip \/ trip' = NoTrip)
  BY DEF HostStays, UserEdits, hostVars, runtimeVars, handlers
<1>2. trip'.phase # "none" => trip.phase # "none" BY <1>1 DEF NoTrip
<1>3. Attends("trip") /\ Employs("departure") BY <1>1, StillAttends DEF Employs
<1> QED BY <1>1, <1>2, <1>3, AsideQueue

LEMMA CrashQueue ==
  ASSUME Crash
  PROVE  QueueInv'
<1>1. /\ job' = NoJob /\ call' = NoCall /\ trip' = NoTrip /\ arr' = NoArrival
      /\ queue' = <<>> /\ owed' = [h \in Handlers |-> "none"] /\ event' = NoEvent
  BY DEF Crash
<1>2. call'.phase = "none" /\ job'.kind = "none" /\ trip'.phase = "none" /\ arr'.phase = "none"
  BY <1>1 DEF NoCall, NoJob, NoTrip, NoArrival
<1>3. ~ InLine(queue', "arr") /\ Single(queue') BY <1>1 DEF InLine, Single
<1>4. owed'["arr"] = "none" BY <1>1, StableHandlers
<1>5. CallInLine' /\ CallPlace' BY <1>2 DEF CallInLine, CallPlace, Awaited
<1>6. ArrInLine' BY <1>3, <1>4 DEF ArrInLine, Free
<1>7. TripDue' BY <1>2 DEF TripDue
<1> QED BY <1>5, <1>6, <1>7 DEF QueueInv

LEMMA InitQueue ==
  ASSUME Init
  PROVE  QueueInv
<1>1. /\ job = NoJob /\ call = NoCall /\ trip = NoTrip /\ arr = NoArrival
      /\ queue = <<>> /\ owed = [h \in Handlers |-> "none"]
  BY DEF Init
<1>2. call.phase = "none" /\ job.kind = "none" /\ trip.phase = "none" /\ arr.phase = "none"
  BY <1>1 DEF NoCall, NoJob, NoTrip, NoArrival
<1>3. ~ InLine(queue, "arr") /\ Single(queue) BY <1>1 DEF InLine, Single
<1>4. owed["arr"] = "none" BY <1>1, StableHandlers
<1>5. CallInLine /\ CallPlace BY <1>2 DEF CallInLine, CallPlace, Awaited
<1>6. ArrInLine BY <1>3, <1>4 DEF ArrInLine, Free
<1>7. TripDue BY <1>2 DEF TripDue
<1> QED BY <1>5, <1>6, <1>7 DEF QueueInv

(* Where the session stands for a capture that is awaited, a step later.   *)
LEMMA PlaceStays ==
  ASSUME QueueInv, host' = host, event' = event, call' = call, w'.active => w.active,
         Here = At(call.view) \/ (ArrivesLater => ArrivesLater')
  PROVE  CallPlace'
<1>1. Awaited' => Awaited BY DEF Awaited
<1>2. Here' = Here BY DEF Here
<1> QED BY <1>1, <1>2 DEF QueueInv, CallPlace

LEMMA ProtectsQueue ==
  ASSUME ProtocolInv, QueueInv, NEW h \in Handlers, Protects(h)
  PROVE  QueueInv' /\ Meek(w, w')
<1>1. /\ queue # <<>> /\ Head(queue) = h /\ owed[h] # "none" /\ Idle
      /\ owed' = [owed EXCEPT ![h] = "none"] /\ queue' = Tail(queue)
      /\ w' \in {Recover(w, host), Protected(w, host), Barred(w), Withdrawn(w)}
      /\ job' = job /\ host' = host /\ event' = event /\ call' = call /\ trip' = trip /\ arr' = arr
  BY DEF Protects, Others, hostVars, handlers
<1>2. Typed /\ w \in States /\ host \in Views /\ queue \in Seq(Handlers)
      /\ owed \in [Handlers -> Protections]
  BY DEF ProtocolInv, Typed
<1>3. Meek(w, w') BY <1>1, <1>2, ProtectMeek, RowsMeek
<1>4. w'.active => w.active BY <1>3 DEF Meek
<1>5. /\ \A g \in Handlers : owed'[g] = IF g = h THEN "none" ELSE owed[g]
  BY <1>1, <1>2
<1>6. /\ \A g : InLine(queue', g) => InLine(queue, g)
      /\ \A g : InLine(queue, g) /\ h # g => InLine(queue', g)
      /\ Single(queue) => Single(queue') /\ (h = "arr" => ~ InLine(queue', "arr"))
      /\ CallFirst(queue) /\ h # "call" => CallFirst(queue')
  BY <1>1, <1>2, LineMoves
<1>7. h = "call" => call.phase = "none" BY <1>1 DEF QueueInv, CallInLine, Free
<1>8. CallInLine' BY <1>1, <1>5, <1>6, <1>7, StableHandlers DEF QueueInv, CallInLine, Free
<1>9. ArrInLine' BY <1>1, <1>5, <1>6, StableHandlers DEF QueueInv, ArrInLine, Free
<1>10. TripDue' BY <1>1 DEF QueueInv, TripDue
<1>11. CallPlace'
  <2>1. CASE ~ Awaited
    <3>1. ~ Awaited' BY <1>1, <1>4, <2>1 DEF Awaited
    <3> QED BY <3>1 DEF CallPlace
  <2>2. CASE event.due
    <3>1. Awaited' => Awaited BY <1>1, <1>4 DEF Awaited
    <3>2. Here' = Here BY <1>1 DEF Here
    <3> QED BY <1>1, <2>2, <3>1, <3>2 DEF QueueInv, CallPlace
  <2>3. CASE Awaited /\ ~ event.due /\ h = "arr"
    <3>1. Here = At(call.view) BY <1>1, <1>2, <2>3, NothingLeftBehind
    <3> QED BY <1>1, <1>4, <3>1, PlaceStays
  <2>4. CASE Awaited /\ ~ event.due /\ h # "arr"
    <3>1. owed'["arr"] = owed["arr"] BY <1>5, <2>4, StableHandlers
    <3>2. ArrivesLater => ArrivesLater'
      BY <1>1, <1>6, <1>7, <3>1 DEF ArrivesLater, Free
    <3> QED BY <1>1, <1>4, <3>2, PlaceStays
  <2> QED BY <2>1, <2>2, <2>3, <2>4
<1> QED BY <1>3, <1>8, <1>9, <1>10, <1>11 DEF QueueInv

(* The last event has told where a capture that was called before it finds *)
(* the session, or an arrival follows it.                                  *)
LEMMA TreeEventQueue ==
  ASSUME ProtocolInv, MapInv, QueueInv, ArrivalFrame, TreeEvent
  PROVE  QueueInv' /\ Meek(w, w')
<1> DEFINE a == BeginTreeArrival(w.adm, ThisAttempt)
           c == CarryArrival(a, ThisAttempt, host)
           begun == WithAdmission(w, a)
           carried == WithAdmission(w, c)
           found == [phase |-> "queued", attempt |-> ThisAttempt, view |-> host, plan |-> plan]
<1>1. w \in States /\ w.adm \in Authorities /\ host \in Views /\ queue \in Seq(Handlers)
      /\ owed \in [Handlers -> Protections]
  BY DEF ProtocolInv, Typed, States
<1>2. a \in Authorities BY <1>1, AuthorityTyped, TokensDiffer
<1>3. c \in Authorities BY <1>1, <1>2, AuthorityYields, TokensDiffer
<1>4. Authentic(a) /\ NothingMoves => ~ Elsewhere BY AuthenticStays DEF TreeEvent
<1>5. \/ ~ w.active /\ w' = w /\ arr' = arr /\ owed' = owed /\ queue' = queue
      \/ OwesRecovery(begun, "arr", queue) /\ arr' = arr
      \/ Authentic(a) /\ NothingMoves /\ w' = carried /\ owed' = owed /\ arr' = arr /\ queue' = queue
      \/ OwesRecovery(carried, "arr", queue) /\ arr' = arr
      \/ w' = begun /\ owed' = owed /\ arr' = found /\ queue' = Waits(queue, "arr")
  BY DEF TreeEvent, SettlesOr, Outcome, Stays, Goes
<1>6. /\ host' = host /\ trip' = trip /\ call' = call /\ job' = job
      /\ event.due /\ ~ event'.due /\ arr.phase = "none"
  BY DEF ArrivalFrame, TreeEvent, NoEvent, ProtocolInv, Due
<1> HIDE DEF a, c
<1>7. begun \in States /\ carried \in States BY <1>1, <1>2, <1>3 DEF WithAdmission, States
<1>8. Meek(w, begun) /\ Meek(w, carried) /\ Meek(w, w) BY <1>1, <1>2, <1>3, RowsMeek, KeptTwice
<1> HIDE DEF begun, carried
<1>9. ASSUME NEW s \in States, Meek(w, s), OwesRecovery(s, "arr", queue)
      PROVE  /\ Meek(w, w')
             /\ queue' = Append(queue, "arr") /\ owed'["arr"] # "none"
             /\ \A g \in Handlers \ {"arr"} : owed'[g] = owed[g]
  <2>1. w' = Quarantined(s) /\ Owes("arr", IF s.active THEN "recover" ELSE "retire", queue)
    BY <1>9 DEF OwesRecovery
  <2>2. Meek(s, Quarantined(s)) BY <1>9, RowsMeek
  <2>3. Meek(w, w') BY <1>9, <2>1, <2>2, KeptTwice
  <2> QED BY <1>1, <2>1, <2>3, StableHandlers DEF Owes, Waits
<1>10. Meek(w, w') BY <1>5, <1>7, <1>8, <1>9
<1>11. w'.active => w.active BY <1>10 DEF Meek
<1>12. Free("arr") /\ ~ InLine(queue, "arr") /\ Single(queue)
  BY <1>6 DEF QueueInv, ArrInLine
<1>13. owed'["call"] = owed["call"]
  BY <1>5, <1>7, <1>8, <1>9, StableHandlers
<1>14. \/ queue' = queue /\ owed' = owed /\ arr'.phase = "none"
          /\ (~ w.active \/ (Authentic(a) /\ NothingMoves))
       \/ /\ queue' = Append(queue, "arr")
          /\ \/ owed'["arr"] # "none" /\ arr'.phase = "none"
             \/ owed' = owed /\ arr'.phase = "queued"
  BY <1>5, <1>6, <1>7, <1>8, <1>9 DEF Waits
<1>15. LET p == Append(queue, "arr")
       IN  /\ InLine(queue, "call") => InLine(p, "call")
           /\ Single(p)
           /\ InLine(queue, "call") => CallFirst(p)
  <2>1. CallFirst(queue) BY <1>12 DEF CallFirst, InLine
  <2> QED BY <1>1, <1>12, <2>1, StableHandlers, LineGrows
<1>16. CallInLine' BY <1>6, <1>13, <1>14, <1>15 DEF QueueInv, CallInLine, Free
<1>17. ArrInLine' BY <1>6, <1>12, <1>14, <1>15 DEF ArrInLine, Free
<1>18. TripDue' BY <1>6 DEF TripDue
<1>19. CallPlace'
  <2> SUFFICES ASSUME Awaited' PROVE Here' = At(call'.view) \/ ArrivesLater'
    BY <1>6 DEF CallPlace
  <2>1. Awaited /\ w.active BY <1>6, <1>11 DEF Awaited
  <2>2. Here' = Here BY <1>6 DEF Here
  <2>3. StableOf(event.old) = At(call.view) /\ event.landing = Here
    BY <1>6, <2>1 DEF QueueInv, CallPlace
  <2>4. CASE Authentic(a) /\ NothingMoves
    BY <1>4, <1>6, <2>2, <2>3, <2>4 DEF Elsewhere
  <2>5. CASE queue' = Append(queue, "arr") /\ (owed'["arr"] # "none" \/ arr'.phase # "none")
    <3>1. job.kind # "arrival" BY <1>6 DEF ProtocolInv, JobKnows
    <3>2. call'.phase = "queued" => CallFirst(queue')
      BY <1>6, <1>15, <2>5 DEF QueueInv, CallInLine
    <3> QED BY <1>6, <2>5, <3>1, <3>2 DEF ArrivesLater, Free
  <2> QED BY <1>14, <2>1, <2>4, <2>5
<1> QED BY <1>10, <1>16, <1>17, <1>18, <1>19 DEF QueueInv
-----------------------------------------------------------------------------
(* What every step owes.                                                   *)

Rightful(e) == Unpaid \/ home = e \/ (Arriving /\ Resolve(w.slots, e) = Missing)

(* At most one tree is recorded for capture, and where it belongs.         *)
KeptRightly == \E e \in Coordinates : Kept(w, w', e) /\ (e = NoEntry \/ Rightful(e))

LEMMA RightlyOfMeek ==
  ASSUME Kept(w, w', NoEntry) \/ Meek(w, w')
  PROVE  KeptRightly /\ (w'.active => w.active)
<1>1. Kept(w, w', NoEntry) BY KeptTwice
<1>2. NoEntry \in Coordinates BY DEF Coordinates
<1> QED BY <1>1, <1>2 DEF KeptRightly, Kept

LEMMA RightlyAt ==
  ASSUME NEW e \in Coordinates, Kept(w, w', e), e = NoEntry \/ Rightful(e)
  PROVE  KeptRightly /\ (w'.active => w.active)
BY DEF KeptRightly, Kept

LEMMA OwesMeek ==
  ASSUME NEW s \in States, host \in Views, NEW h \in Handlers, NEW q
  PROVE  /\ OwesRecovery(s, h, q) => Meek(s, w')
         /\ Withdraws(s, h, q) => Meek(s, w')
         /\ RecoversInLock(s, h, q) => Meek(s, w')
<1>1. Meek(s, Quarantined(s)) /\ Meek(s, Withdrawn(s)) BY RowsMeek
<1>2. Meek(s, Recover(s, host)) /\ Meek(s, Barred(s)) BY ProtectMeek
<1> QED BY <1>1, <1>2 DEF OwesRecovery, Withdraws, RecoversInLock

LEMMA OwesAttends ==
  ASSUME Typed, NEW h \in Handlers, NEW q, Serving(h, q)
  PROVE  /\ Goes(q) => Owing(h, q)
         /\ Goes(Waits(q, h)) => Attends(h)
         /\ \A s : /\ OwesRecovery(s, h, q) => Owing(h, q)
                   /\ Withdraws(s, h, q) => Owing(h, q)
                   /\ RecoversInLock(s, h, q) => Owing(h, q)
         /\ Owing(h, q) => Attends(h)
<1>1. Goes(q) => Owing(h, q) BY DEF Goes, Owing
<1>2. Goes(Waits(q, h)) => Attends(h) BY DEF Goes, Waits, Attends
<1>3. ASSUME NEW p, p # "none", Owes(h, p, q) PROVE Owing(h, q)
  <2>1. queue' = Append(q, h) /\ owed' = [owed EXCEPT ![h] = p] BY <1>3 DEF Owes, Waits
  <2>2. owed \in [Handlers -> Protections] BY DEF Typed
  <2>3. owed'[h] = p /\ \A g \in Handlers \ {h} : owed'[g] = owed[g] BY <2>1, <2>2
  <2> QED BY <1>3, <2>1, <2>3 DEF Owing
<1>4. "recover" # "none" /\ "retire" # "none" OBVIOUS
<1>5. ASSUME NEW s
      PROVE  /\ OwesRecovery(s, h, q) => Owing(h, q)
             /\ Withdraws(s, h, q) => Owing(h, q)
             /\ RecoversInLock(s, h, q) => Owing(h, q)
  BY <1>1, <1>3, <1>4 DEF OwesRecovery, Withdraws, RecoversInLock
<1>6. Owing(h, q) => Attends(h) BY DEF Attends
<1> QED BY <1>1, <1>2, <1>5, <1>6

(* An admission, or the recovery when there is none.                       *)
LEMMA SettlesKept ==
  ASSUME NEW s \in States, NEW o, Kept(s, o.state, NoEntry), o.state \in States, host \in Views,
         NEW h \in Handlers, NEW q,
         SettlesOr(o, q, RecoversInLock(o.state, h, q))
         \/ SettlesOr(o, q, OwesRecovery(o.state, h, q))
  PROVE  Kept(s, w', NoEntry)
<1>1. w' = o.state \/ Meek(o.state, w') BY OwesMeek DEF SettlesOr
<1>2. CASE w' = o.state BY <1>2
<1>3. CASE Meek(o.state, w')
  <2> DEFINE t == o.state
             u == w'
  <2>1. Kept(s, t, NoEntry) /\ Meek(t, u) BY <1>3
  <2> HIDE DEF t, u
  <2>2. Kept(s, u, NoEntry) BY <2>1, KeptTwice
  <2> QED BY <2>2 DEF u
<1> QED BY <1>1, <1>2, <1>3

LEMMA SettlesAttends ==
  ASSUME Typed, NEW h \in Handlers, NEW q, Serving(h, q), NEW o, NEW s,
         SettlesOr(o, q, RecoversInLock(s, h, q)) \/ SettlesOr(o, q, OwesRecovery(s, h, q))
  PROVE  Owing(h, q)
BY OwesAttends DEF SettlesOr

(* A place where a capture would be let through is home.                   *)
LEMMA OpenIsHome ==
  ASSUME Guarded, w.active, ~ Elsewhere, ~ InTransit, w.adm.kind # "closed",
         ~ w.barrier, Here # NoEntry => ~ IsBlocked(w.slots[Here])
  PROVE  Here = NoEntry \/ Rightful(Here)
<1>1. ~ Exposed BY DEF Exposed
<1>2. Sheltered BY <1>1 DEF Guarded
<1>3. Here # NoEntry => ~ Shut(w, host) BY DEF Shut, Here
<1> QED BY <1>2, <1>3 DEF Sheltered, Rightful

LEMMA LeasedIsHome ==
  ASSUME Guarded, ~ Elsewhere, NEW o, CaptureLeaseIsCurrent(w, host, o), ~ w.barrier
  PROVE  Here = NoEntry \/ Rightful(Here)
<1>1. w.active /\ w.adm.kind = "live" /\ ~ LocationIsBlocked(w, host)
  BY DEF CaptureLeaseIsCurrent, LeaseIsCurrent, LeaseByLocation
<1>2. Here # NoEntry => ~ IsBlocked(w.slots[Here]) BY <1>1 DEF LocationIsBlocked, Here
<1>3. ~ InTransit BY <1>1 DEF InTransit
<1> QED BY <1>1, <1>2, <1>3, OpenIsHome
-----------------------------------------------------------------------------
(* Captures.                                                               *)

LEMMA ReturnsMeek ==
  ASSUME NEW s \in States, NEW q, Returns(s, q)
  PROVE  Meek(s, w')
<1> DEFINE a == FinishPreparation(s.adm, CapturePrep)
<1>1. s.adm \in Authorities BY DEF States
<1>2. a \in Authorities BY <1>1, NoTokenAssumption DEF FinishPreparation, Authorities
<1> HIDE DEF a
<1>3. Meek(s, WithAdmission(s, a)) /\ Meek(s, s) BY <1>2, RowsMeek, KeptTwice
<1>4. w' = Finished(s) BY DEF Returns
<1> QED BY <1>3, <1>4 DEF Finished, a

LEMMA FailsByQueue ==
  ASSUME Typed, NEW s \in States, NEW impact, NEW q, Serving("call", q),
         call.phase # "none", FailsBy(impact, s, q)
  PROVE  /\ Meek(s, w') /\ Attends("call")
         /\ \/ call'.phase = "none"
            \/ call'.phase = "protecting" /\ call'.view = call.view /\ owed' = owed
<1>1. host \in Views /\ call \in Calls /\ "call" \in Handlers
  BY StableHandlers DEF Typed
<1>2. Returned => call'.phase = "none" BY DEF Returned, NoCall
<1>3. Meek(s, s) BY KeptTwice
<1>4. CASE Returned /\ OwesRecovery(s, "call", q)
  BY <1>1, <1>2, <1>4, OwesMeek, OwesAttends
<1>5. CASE Returns(s, q)
  <2>1. Returned /\ Goes(q) BY <1>5 DEF Returns
  <2> QED BY <1>1, <1>2, <1>5, <2>1, ReturnsMeek, OwesAttends
<1>6. CASE /\ w' = s /\ call' = [call EXCEPT !.phase = "protecting"] /\ Goes(Waits(q, "call"))
  <2>1. call'.phase = "protecting" /\ call'.view = call.view BY <1>1, <1>6 DEF Calls
  <2>2. owed' = owed BY <1>6 DEF Goes
  <2> QED BY <1>1, <1>3, <1>6, <2>1, <2>2, OwesAttends
<1>7. CASE Returned /\ Withdraws(s, "call", q)
  BY <1>1, <1>2, <1>7, OwesMeek, OwesAttends
<1> QED BY <1>4, <1>5, <1>6, <1>7 DEF FailsBy

LEMMA CaptureCalledKept ==
  ASSUME ProtocolInv, QueueInv, CaptureFrame,
         NEW manner \in {"observed", "prepared", "bash", "context"}, CaptureCalled(manner)
  PROVE  QueueInv' /\ KeptRightly
<1> DEFINE a == CASE manner = "prepared" -> BeginPreparation(w.adm, CapturePrep)
                  [] manner = "bash" -> RejectTransitionConflict(w.adm)
                  [] OTHER -> w.adm
           c == [manner |-> manner, phase |-> "queued", view |-> host]
<1>1. w \in States /\ w.adm \in Authorities /\ host \in Views /\ queue \in Seq(Handlers)
  BY DEF ProtocolInv, Typed, States
<1>2. /\ w' = WithAdmission(w, a) /\ job' = job /\ owed' = owed
      /\ ~ event.due /\ call.phase = "none" /\ Free("call")
      /\ \/ call' = call /\ queue' = queue
         \/ call' = c /\ queue' = Append(queue, "call")
  BY DEF CaptureCalled, Goes, Waits, NoCall
<1>3. a \in Authorities
  <2>1. CASE manner = "prepared" BY <1>1, <2>1, AuthorityTyped, TokensDiffer
  <2>2. CASE manner = "bash" BY <1>1, <2>2, AuthorityYields
  <2>3. CASE manner \notin {"prepared", "bash"} BY <1>1, <2>3
  <2> QED BY <2>1, <2>2, <2>3
<1> HIDE DEF a
<1>4. Meek(w, w') BY <1>1, <1>2, <1>3, RowsMeek
<1>5. KeptRightly /\ (w'.active => w.active) BY <1>4, RightlyOfMeek
<1>6. host' = host /\ event' = event /\ trip' = trip /\ arr' = arr
  BY DEF CaptureFrame, hostVars
<1>7. CASE call' = call /\ queue' = queue
  <2>1. Attends("trip") /\ Employs("departure") BY <1>2, <1>7, StillAttends DEF Employs
  <2>2. QueueInv' BY <1>5, <1>6, <1>7, <2>1, AsideQueue
  <2> QED BY <1>5, <2>2
<1>8. CASE call' = c /\ queue' = Append(queue, "call")
  <2>1. LET p == Append(queue, "call")
        IN  /\ InLine(p, "call")
            /\ InLine(p, "arr") => InLine(queue, "arr")
            /\ Single(queue) => Single(p)
    BY <1>1, StableHandlers, LineGrows
  <2>2. call'.phase = "queued" /\ call'.view = host BY <1>8
  <2>3. CallInLine' BY <1>1, <1>2, <1>6, <1>8, <2>1, <2>2 DEF QueueInv, CallInLine, Free
  <2>4. ArrInLine' BY <1>2, <1>6, <1>8, <2>1 DEF QueueInv, ArrInLine, Free
  <2>5. TripDue' BY <1>6 DEF QueueInv, TripDue
  <2>6. CallPlace' BY <1>2, <1>6, <2>2 DEF CallPlace, Here
  <2> QED BY <1>5, <2>3, <2>4, <2>5, <2>6 DEF QueueInv
<1> QED BY <1>2, <1>7, <1>8

LEMMA CaptureOverKept ==
  ASSUME ProtocolInv, QueueInv, CaptureFrame, NEW s \in States, NEW q, Serving("call", q),
         call.phase # "none", job.kind \in {"none", "capture"}, job' = NoJob,
         Returns(s, q) \/ \E impact : FailsBy(impact, s, q)
  PROVE  QueueInv' /\ Meek(s, w')
<1>1. Typed BY DEF ProtocolInv
<1>2. host' = host /\ event' = event /\ arr' = arr /\ trip' = trip
  BY DEF CaptureFrame, hostVars
<1>3. job'.kind # "capture" /\ Employs("capture") BY DEF NoJob, Employs
<1>4. CASE Returns(s, q)
  <2>1. Goes(q) /\ call'.phase = "none" BY <1>4 DEF Returns, Returned, NoCall
  <2>2. Attends("call") BY <1>1, <2>1, OwesAttends, StableHandlers
  <2> QED BY <1>2, <1>3, <1>4, <2>1, <2>2, ReturnsMeek, CallOver
<1>5. CASE \E impact : FailsBy(impact, s, q)
  <2>1. /\ Meek(s, w') /\ Attends("call")
        /\ \/ call'.phase = "none"
           \/ call'.phase = "protecting" /\ call'.view = call.view /\ owed' = owed
    BY <1>1, <1>5, FailsByQueue
  <2> QED BY <1>2, <1>3, <2>1, CallOver
<1> QED BY <1>4, <1>5

LEMMA CaptureBeginsKept ==
  ASSUME ProtocolInv, QueueInv, CaptureFrame, CaptureBegins \/ ProjectBarrier \/ ProtectFailedSource
  PROVE  QueueInv' /\ KeptRightly
<1> DEFINE b == Boundary(w, call.view, CaptureOp).state
           d == Boundary(w, host, CaptureOp).state
           p == ProtectNode(w, host)
           j == [NoJob EXCEPT !.kind = "capture", !.step = "scan",
                              !.view = call.view, !.slot = w.slots[Here]]
<1>1. Typed /\ w \in States /\ host \in Views /\ call \in Calls
  BY DEF ProtocolInv, Typed
<1>2. job = NoJob /\ IsNext("call") /\ call.phase # "none" /\ job.kind = "none"
  BY DEF CaptureBegins, ProjectBarrier, ProtectFailedSource, IsNext, Idle, NoJob
<1>3. Serving("call", Others) BY <1>2 DEF Serving
<1>4. Exact(call.view) => b \in States /\ Meek(w, b)
  BY <1>1, BoundaryTame, BoundaryMeek, TokensDiffer DEF Exact, Tame
<1>5. d \in States /\ Meek(w, d)
  BY <1>1, BoundaryTame, BoundaryMeek, TokensDiffer DEF Tame
<1>6. p \in States /\ Meek(w, p) BY <1>1, CompositesTame, ProtectMeek
<1>7. Meek(w, w) BY KeptTwice
<1>8. \/ \E s \in {w, d, p} : /\ job' = NoJob
                              /\ Returns(s, Others) \/ \E impact : FailsBy(impact, s, Others)
      \/ /\ Exact(call.view) /\ job' = NoJob
         /\ Returns(b, Others) \/ \E impact : FailsBy(impact, b, Others)
      \/ /\ Exact(call.view) /\ call.phase = "queued"
         /\ w' = b /\ job' = j /\ call' = [call EXCEPT !.phase = "running"] /\ Goes(Others)
      \/ job' = NoJob /\ Withdraws(w, "call", Others) /\ Returned
  <2>1. CASE CaptureBegins BY <2>1 DEF CaptureBegins, Ends
  <2>2. CASE ProjectBarrier BY <2>2 DEF ProjectBarrier, Ends
  <2>3. CASE ProtectFailedSource BY <1>2, <2>3 DEF ProtectFailedSource
  <2> QED BY <2>1, <2>2, <2>3
<1> HIDE DEF b, d, p
<1>9. ASSUME NEW s \in States, Meek(w, s), job' = NoJob,
             Returns(s, Others) \/ \E impact : FailsBy(impact, s, Others)
      PROVE  QueueInv' /\ KeptRightly
  <2>1. QueueInv' /\ Meek(s, w') BY <1>2, <1>3, <1>9, CaptureOverKept
  <2>2. Meek(w, w') BY <1>9, <2>1, KeptTwice
  <2> QED BY <2>1, <2>2, RightlyOfMeek
<1>10. host' = host /\ event' = event /\ arr' = arr /\ trip' = trip
  BY DEF CaptureFrame, hostVars
<1>11. ASSUME Exact(call.view), call.phase = "queued", w' = b, job' = j,
              call' = [call EXCEPT !.phase = "running"], Goes(Others)
       PROVE  QueueInv' /\ KeptRightly
  <2>1. job'.kind = "capture" /\ job'.view = call.view BY <1>11 DEF NoJob
  <2>2. call'.phase = "running" /\ call'.view = call.view BY <1>1, <1>11 DEF Calls
  <2>3. Attends("call") /\ owed' = owed
    BY <1>1, <1>3, <1>11, OwesAttends, StableHandlers DEF Goes
  <2>4. KeptRightly /\ (w'.active => w.active) BY <1>4, <1>11, RightlyOfMeek
  <2> HIDE DEF j
  <2>5. QueueInv' BY <1>2, <1>10, <1>11, <2>1, <2>2, <2>3, <2>4, CallRuns
  <2> QED BY <2>4, <2>5
<1>12. ASSUME job' = NoJob, Withdraws(w, "call", Others), Returned
       PROVE  QueueInv' /\ KeptRightly
  <2>1. Attends("call") /\ Meek(w, w')
    BY <1>1, <1>3, <1>12, OwesAttends, OwesMeek, StableHandlers
  <2>2. call'.phase = "none" /\ job'.kind # "capture" /\ Employs("capture")
    BY <1>2, <1>12 DEF Returned, NoCall, NoJob, Employs
  <2>3. QueueInv' BY <1>10, <2>1, <2>2, CallOver
  <2> QED BY <2>1, <2>3, RightlyOfMeek
<1> QED BY <1>1, <1>4, <1>5, <1>6, <1>7, <1>8, <1>9, <1>11, <1>12

(* The files a capture commits are home: it finds the session where it was *)
(* called, and nobody has led it elsewhere in between.                     *)
LEMMA CaptureJobsKept ==
  ASSUME ProtocolInv, HomeInv, QueueInv, CaptureFrame,
         CaptureScans \/ CaptureCommits \/ CaptureFails
  PROVE  QueueInv' /\ KeptRightly
<1> DEFINE e == At(job.view)
           verdict == CaptureVerdict(w, e, job.slot)
           after == AfterCapture(w, e, job.slot, job.seen)
<1>1. Typed /\ w \in States /\ host \in Views /\ job \in Jobs /\ queue \in Seq(Handlers)
  BY DEF ProtocolInv, Typed
<1>2. job.kind = "capture" BY DEF CaptureScans, CaptureCommits, CaptureFails, Runs
<1>3. call.phase = "running" /\ job.view = call.view BY <1>2 DEF QueueInv, CallInLine
<1>4. Serving("call", queue) BY DEF Serving
<1>5. host' = host /\ event' = event /\ arr' = arr /\ trip' = trip
  BY DEF CaptureFrame, hostVars
<1>6. ASSUME NEW s \in States, job' = NoJob,
             Returns(s, queue) \/ \E impact : FailsBy(impact, s, queue)
      PROVE  QueueInv' /\ Meek(s, w')
  <2>1. call.phase # "none" /\ job.kind \in {"none", "capture"} BY <1>2, <1>3
  <2> QED BY <1>4, <1>6, <2>1, CaptureOverKept
<1>7. CASE CaptureScans
  <2>1. w' = w /\ call' = call /\ queue' = queue /\ owed' = owed
        /\ job' = [job EXCEPT !.step = "commit", !.seen = content]
    BY <1>7 DEF CaptureScans, Stays
  <2>2. job'.kind = "capture" /\ job'.view = call.view BY <1>1, <1>2, <1>3, <2>1 DEF Jobs
  <2>3. Attends("call") BY <2>1, StillAttends
  <2>4. KeptRightly BY <2>1, KeptTwice, RightlyOfMeek
  <2>5. QueueInv' BY <1>2, <1>3, <1>5, <2>1, <2>2, <2>3, CallRuns
  <2> QED BY <2>4, <2>5
<1>8. CASE job' = NoJob /\ \E impact : FailsBy(impact, w, queue)
  <2>1. QueueInv' /\ Meek(w, w') BY <1>1, <1>6, <1>8
  <2> QED BY <2>1, RightlyOfMeek
<1>9. CASE CaptureIsDue /\ job' = NoJob /\ Returns(after, queue)
  <2>1. host = job.view /\ e = Here BY <1>9 DEF CaptureIsDue, Exact, Here
  <2>2. job.seen \in Trees \cup {NoTree} BY <1>1 DEF Jobs
  <2>3. after \in States BY <1>1, <2>1, <2>2, AfterCaptureTame DEF Here
  <2>4. /\ verdict = "committed" => Sole(w, after, e)
        /\ verdict # "committed" => Meek(w, after)
    BY <1>1, AfterCaptureKept
  <2>5. verdict = "committed" => ~ w.barrier BY DEF CaptureVerdict
  <2> HIDE DEF after, verdict
  <2>6. QueueInv' /\ Meek(after, w') BY <1>6, <1>9, <2>3
  <2>7. CASE verdict # "committed"
    <3>1. Meek(w, w') BY <2>4, <2>6, <2>7, KeptTwice
    <3> QED BY <2>6, <3>1, RightlyOfMeek
  <2>8. CASE verdict = "committed"
    <3>1. Kept(w, w', e) BY <2>4, <2>6, <2>8, KeptTwice
    <3>2. CaptureLeaseIsCurrent(w, host, CaptureOp) BY <1>9, <2>1 DEF CaptureIsDue
    <3>3. w.active BY <3>2 DEF CaptureLeaseIsCurrent
    <3>4. Awaited BY <1>3, <2>1, <3>3 DEF Awaited
    <3>5. ~ Elsewhere
      <4>1. CASE event.due
        <5>1. StableOf(event.old) = At(call.view) /\ event.landing = Here
          BY <3>4, <4>1 DEF QueueInv, CallPlace
        <5> QED BY <1>3, <2>1, <5>1 DEF Elsewhere
      <4>2. CASE ~ event.due BY <4>2 DEF Elsewhere
      <4> QED BY <4>1, <4>2
    <3>6. Here = NoEntry \/ Rightful(Here) BY <2>5, <2>8, <3>2, <3>5, LeasedIsHome DEF HomeInv
    <3>7. e \in Coordinates BY <1>1, <2>1, AtTyped DEF Coordinates
    <3> QED BY <2>1, <2>6, <3>1, <3>6, <3>7, RightlyAt
  <2> QED BY <2>7, <2>8
<1>10. CaptureCommits => \/ CaptureIsDue /\ job' = NoJob /\ Returns(after, queue)
                         \/ job' = NoJob /\ \E impact : FailsBy(impact, w, queue)
  BY DEF CaptureCommits, Ends
<1>11. CaptureFails => job' = NoJob /\ \E impact : FailsBy(impact, w, queue)
  BY DEF CaptureFails, Ends
<1> QED BY <1>7, <1>8, <1>9, <1>10, <1>11

LEMMA CaptureKept ==
  ASSUME ProtocolInv, HomeInv, QueueInv, CaptureNext
  PROVE  QueueInv' /\ KeptRightly
<1>1. CaptureFrame BY DEF CaptureNext, CaptureFrame
<1> QED BY <1>1, CaptureCalledKept, CaptureBeginsKept, CaptureJobsKept DEF CaptureNext
-----------------------------------------------------------------------------
(* Departures.                                                             *)

LEMMA DepartureGoesKept ==
  ASSUME ProtocolInv, QueueInv, DepartureFrame, KeptRightly, w'.active => w.active,
         Attends("trip"), Employs("departure"), trip.phase # "none" \/ ~ event.due
  PROVE  QueueInv'
BY AsideQueue DEF DepartureFrame, hostVars

LEMMA CancelsKept ==
  ASSUME ProtocolInv, QueueInv, DepartureFrame, trip.phase # "none",
         job.kind \in {"none", "departure"}, NEW s \in States, Meek(w, s),
         NEW q, Serving("trip", q), Cancels(s, q)
  PROVE  QueueInv' /\ KeptRightly
<1> DEFINE a == FinishPreparation(s.adm, DepartPrep)
           t == WithAdmission(s, a)
<1>1. s.adm \in Authorities /\ Typed BY DEF States, ProtocolInv
<1>2. a \in Authorities BY <1>1, NoTokenAssumption DEF FinishPreparation, Authorities
<1> HIDE DEF a
<1>3. Meek(s, t) BY <1>2, RowsMeek
<1>4. w' = t /\ job' = NoJob /\ Goes(q) BY DEF Cancels, Ends, t, a
<1> HIDE DEF t
<1>5. Meek(w, t) BY <1>3, KeptTwice
<1>6. KeptRightly /\ (w'.active => w.active) BY <1>4, <1>5, RightlyOfMeek
<1>7. Attends("trip") BY <1>1, <1>4, OwesAttends, StableHandlers
<1>8. Employs("departure") BY <1>4 DEF Employs, NoJob
<1> QED BY <1>6, <1>7, <1>8, DepartureGoesKept

LEMMA DepartureCalledKept ==
  ASSUME ProtocolInv, QueueInv, DepartureFrame,
         (\E t : DepartureCalled(t)) \/ DepartureProposed \/ DepartureAnswered
  PROVE  QueueInv' /\ KeptRightly
<1> DEFINE a == BeginPreparation(w.adm, DepartPrep)
           f == FinishPreparation(w.adm, DepartPrep)
           p == Propose(w.adm, DepartPrep, ThisPlan)
<1>1. Typed /\ w \in States /\ w.adm \in Authorities /\ host \in Views
  BY DEF ProtocolInv, Typed, States
<1>2. a \in Authorities /\ p \in Authorities
  <2>1. a \in Authorities BY <1>1, AuthorityTyped, TokensDiffer
  <2>2. p \in Authorities BY <1>1, AuthorityTyped, TokensDiffer
  <2> QED BY <2>1, <2>2
<1>3. f \in Authorities BY <1>1, NoTokenAssumption DEF FinishPreparation, Authorities
<1>4. w' \in {w, WithAdmission(w, a), WithAdmission(w, f), WithAdmission(w, p)}
  BY DEF DepartureCalled, DepartureProposed, DepartureAnswered, a, f, p
<1> HIDE DEF a, f, p
<1>5. Meek(w, w') BY <1>1, <1>2, <1>3, <1>4, RowsMeek, KeptTwice
<1>6. KeptRightly /\ (w'.active => w.active) BY <1>5, RightlyOfMeek
<1>7. Serving("trip", queue) BY DEF Serving
<1>8. (queue' = queue /\ owed' = owed) \/ Goes(Waits(queue, "trip"))
  BY DEF DepartureCalled, DepartureProposed, DepartureAnswered, Stays
<1>9. Attends("trip")
  BY <1>1, <1>7, <1>8, StillAttends, OwesAttends, StableHandlers
<1>10. Employs("departure")
  BY DEF Employs, DepartureCalled, DepartureProposed, DepartureAnswered
<1>11. trip.phase # "none" \/ ~ event.due
  BY DEF DepartureCalled, DepartureProposed, DepartureAnswered
<1> QED BY <1>6, <1>9, <1>10, <1>11, DepartureGoesKept

(* A departure captures before Pi moves on.                                *)
LEMMA DepartureJobsKept ==
  ASSUME ProtocolInv, HomeInv, QueueInv, DepartureFrame,
         \/ DepartureLooks \/ DepartureScans \/ DeparturePreviews \/ DepartureRechecks
         \/ DepartureRescans \/ DeparturePublishes \/ DepartureCommits
         \/ DepartureSettles \/ DepartureFails
  PROVE  QueueInv' /\ KeptRightly
<1> DEFINE b == Boundary(w, trip.view, DepartOp)
           verdict == CaptureVerdict(w, Source, trip.slot)
           after == AfterCapture(w, Source, trip.slot, trip.seen)
           p == ProtectNode(after, host)
<1>1. Typed /\ w \in States /\ host \in Views /\ job \in Jobs /\ JobKnows
  BY DEF ProtocolInv, Typed
<1>2. \/ job.kind = "none" /\ Serving("trip", Others)
      \/ job.kind = "departure"
  <2>1. CASE DepartureLooks \/ DepartureRechecks
    <3>1. IsNext("trip") BY <2>1 DEF DepartureLooks, DepartureRechecks
    <3>2. job.kind = "none" BY <3>1 DEF IsNext, Idle, NoJob
    <3> QED BY <3>1, <3>2 DEF Serving
  <2>2. CASE DepartureScans BY <2>2 DEF DepartureScans, Runs
  <2>3. CASE DeparturePreviews BY <2>3 DEF DeparturePreviews, Runs
  <2>4. CASE DepartureRescans BY <2>4 DEF DepartureRescans, Runs
  <2>5. CASE DeparturePublishes BY <2>5 DEF DeparturePublishes, Runs
  <2>6. CASE DepartureCommits BY <2>6 DEF DepartureCommits, Runs
  <2>7. CASE DepartureSettles BY <2>7 DEF DepartureSettles, Runs
  <2>8. CASE DepartureFails BY <2>8 DEF DepartureFails
  <2> QED BY <2>1, <2>2, <2>3, <2>4, <2>5, <2>6, <2>7, <2>8
<1>3. Serving("trip", queue) BY DEF Serving
<1>4. trip.phase # "none"
  BY <1>1, <1>2 DEF JobKnows, DepartureLooks, DepartureScans, DeparturePreviews,
       DepartureRechecks, DepartureRescans, DeparturePublishes, DepartureCommits,
       DepartureSettles, DepartureFails, Runs
<1>5. Exact(trip.view) => b.state \in States /\ Meek(w, b.state)
  BY <1>1, BoundaryTame, BoundaryMeek, TokensDiffer DEF Exact, Tame
<1>6. /\ after \in States
      /\ verdict = "committed" => Sole(w, after, Source)
      /\ verdict # "committed" => Meek(w, after)
  <2>1. trip.seen \in Trees \cup {NoTree} BY <1>1 DEF Typed, Trips
  <2> QED BY <1>1, <2>1, AfterCaptureTame, AfterCaptureKept
<1>7. verdict = "committed" => ~ w.barrier BY DEF CaptureVerdict
<1>8. p \in States /\ Meek(after, p) BY <1>1, <1>6, CompositesTame, ProtectMeek
<1>9. Meek(w, w) BY KeptTwice
<1> HIDE DEF b, after, p, verdict
<1>10. ASSUME NEW s \in States, Meek(w, s), NEW q, Serving("trip", q), Cancels(s, q)
       PROVE  QueueInv' /\ KeptRightly
  BY <1>2, <1>4, <1>10, CancelsKept
<1>11. ASSUME KeptRightly, w'.active => w.active, NEW q, Serving("trip", q),
              Goes(q) \/ Goes(Waits(q, "trip")),
              \/ job.kind = "departure" /\ (job' = NoJob \/ \E x : StepsTo(x))
              \/ job.kind = "none" /\ \E x : Begins("departure", x, trip.view)
       PROVE  QueueInv' /\ KeptRightly
  <2>1. Attends("trip") BY <1>1, <1>11, OwesAttends, StableHandlers
  <2>2. job'.kind \in {"none", "departure"}
    <3>1. CASE job' = NoJob BY <3>1 DEF NoJob
    <3>2. CASE job.kind = "departure" /\ \E x : StepsTo(x)
      <4>1. PICK x : job' = [job EXCEPT !.step = x] BY <3>2 DEF StepsTo
      <4> QED BY <1>1, <3>2, <4>1 DEF Jobs
    <3>3. CASE \E x : Begins("departure", x, trip.view)
      <4>1. PICK x : job' = [NoJob EXCEPT !.kind = "departure", !.step = x, !.view = trip.view]
        BY <3>3 DEF Begins
      <4> QED BY <4>1 DEF NoJob
    <3> QED BY <1>11, <3>1, <3>2, <3>3
  <2>3. Employs("departure") BY <1>2, <2>2 DEF Employs
  <2> QED BY <1>4, <1>11, <2>1, <2>3, DepartureGoesKept
<1>12. ASSUME NEW s, Meek(w, s), w' = s PROVE KeptRightly /\ (w'.active => w.active)
  BY <1>12, RightlyOfMeek
<1>13. CASE DepartureLooks \/ DepartureRechecks
  <2>1. /\ job.kind = "none" /\ Serving("trip", Others)
        /\ \/ Cancels(w, Others)
           \/ Exact(trip.view) /\ Cancels(b.state, Others)
           \/ /\ Exact(trip.view) /\ w' = b.state /\ Goes(Others)
              /\ \E x : Begins("departure", x, trip.view)
    BY <1>13 DEF DepartureLooks, DepartureRechecks, IsNext, Idle, NoJob, Serving, b
  <2> QED BY <1>1, <1>5, <1>9, <1>10, <1>11, <1>12, <2>1
<1>14. CASE \/ DepartureScans \/ DeparturePreviews \/ DepartureRescans
            \/ DeparturePublishes \/ DepartureSettles
  <2>1. /\ job.kind = "departure"
        /\ \/ Cancels(w, queue)
           \/ /\ w' = w /\ (Goes(queue) \/ Goes(Waits(queue, "trip")))
              /\ job' = NoJob \/ \E x : StepsTo(x)
    <3>1. CASE DepartureScans BY <3>1 DEF DepartureScans, Runs, Stays, Goes
    <3>2. CASE DeparturePreviews BY <3>2 DEF DeparturePreviews, Runs, Ends
    <3>3. CASE DepartureRescans BY <3>3 DEF DepartureRescans, Runs, Stays, Goes
    <3>4. CASE DeparturePublishes BY <3>4 DEF DeparturePublishes, Runs, Stays, Goes
    <3>5. CASE DepartureSettles BY <3>5 DEF DepartureSettles, Runs, Stays, Goes, Ends
    <3> QED BY <1>14, <3>1, <3>2, <3>3, <3>4, <3>5
  <2> QED BY <1>1, <1>3, <1>9, <1>10, <1>11, <1>12, <2>1
<1>15. CASE DepartureFails
  <2>1. job.kind = "departure"
        /\ (Cancels(w, queue) \/ (Withdraws(w, "trip", queue) /\ job' = NoJob))
    BY <1>15 DEF DepartureFails, Ends
  <2>2. ASSUME Withdraws(w, "trip", queue), job' = NoJob PROVE QueueInv' /\ KeptRightly
    <3>1. Meek(w, w') /\ Attends("trip")
      BY <1>1, <1>3, <2>2, OwesMeek, OwesAttends, StableHandlers
    <3>2. KeptRightly /\ (w'.active => w.active) BY <3>1, RightlyOfMeek
    <3>3. Employs("departure") BY <2>1, <2>2 DEF Employs, NoJob
    <3> QED BY <1>4, <3>1, <3>2, <3>3, DepartureGoesKept
  <2> QED BY <1>1, <1>3, <1>9, <1>10, <2>1, <2>2
<1>16. CASE DepartureCommits
  <2>1. job.kind = "departure"
        /\ \/ Cancels(w, queue)
           \/ verdict # "committed" /\ Cancels(p, queue)
           \/ /\ Exact(trip.view) /\ DepartureLeased /\ verdict = "committed"
              /\ w' = after /\ Goes(queue) /\ \E x : StepsTo(x)
    BY <1>16 DEF DepartureCommits, Stays, Goes, Runs, p, after, verdict
  <2>2. CASE verdict # "committed" /\ Cancels(p, queue)
    <3>1. Meek(w, p) BY <1>6, <1>8, <2>2, KeptTwice
    <3> QED BY <1>3, <1>8, <1>10, <2>2, <3>1
  <2>3. CASE /\ Exact(trip.view) /\ DepartureLeased /\ verdict = "committed"
             /\ w' = after /\ Goes(queue) /\ \E x : StepsTo(x)
    <3>1. host = trip.view /\ Source = Here BY <2>3 DEF Exact, Source, Here
    <3>2. Kept(w, w', Source) BY <1>6, <2>3, KeptTwice
    <3>3. ~ Elsewhere BY <1>4 DEF Elsewhere, QueueInv, TripDue
    <3>4. Here = NoEntry \/ Rightful(Here)
      BY <1>7, <2>3, <3>1, <3>3, LeasedIsHome DEF HomeInv, DepartureLeased
    <3>5. Source \in Coordinates BY <1>1, <3>1, AtTyped DEF Coordinates, Here
    <3>6. KeptRightly /\ (w'.active => w.active) BY <3>1, <3>2, <3>4, <3>5, RightlyAt
    <3> QED BY <1>3, <1>11, <2>1, <2>3, <3>6
  <2> QED BY <1>1, <1>3, <1>9, <1>10, <2>1, <2>2, <2>3
<1> QED BY <1>13, <1>14, <1>15, <1>16

LEMMA DepartureKept ==
  ASSUME ProtocolInv, HomeInv, QueueInv, DepartureNext
  PROVE  QueueInv' /\ KeptRightly
<1>1. DepartureFrame BY DEF DepartureNext, DepartureFrame
<1>2. \/ (\E t : DepartureCalled(t)) \/ DepartureProposed \/ DepartureAnswered
      \/ DepartureLooks \/ DepartureScans \/ DeparturePreviews \/ DepartureRechecks
      \/ DepartureRescans \/ DeparturePublishes \/ DepartureCommits
      \/ DepartureSettles \/ DepartureFails
  BY DEF DepartureNext
<1> QED BY <1>1, <1>2, DepartureCalledKept, DepartureJobsKept
-----------------------------------------------------------------------------
(* Arrivals.                                                               *)

(* It is the arrival's turn, and q waits.                                  *)
ArrTurn(q) ==
    \/ IsNext("arr") /\ arr.phase = "queued" /\ q = Others
    \/ job.kind = "arrival" /\ q = queue

LEMMA ArrivalServes ==
  ASSUME NEW q, ArrTurn(q)
  PROVE  Serving("arr", q)
BY DEF ArrTurn, Serving

LEMMA ArrivalOverKept ==
  ASSUME ProtocolInv, QueueInv, ArrivalFrame, event' = event, NEW q, ArrTurn(q),
         Owing("arr", q), ArrivalEnds, KeptRightly, w'.active => w.active
  PROVE  QueueInv' /\ KeptRightly
<1>1. job'.kind = "none" /\ arr'.phase = "none"
  BY DEF ArrivalEnds, Ends, NoJob, NoArrival
<1>2. host' = host /\ call' = call /\ trip' = trip BY DEF ArrivalFrame
<1> QED BY <1>1, <1>2, ArrivalQueue DEF ArrTurn

LEMMA ArrivalRecoversKept ==
  ASSUME ProtocolInv, QueueInv, ArrivalFrame, event' = event, NEW q, ArrTurn(q),
         ArrivalRecovers(q)
  PROVE  QueueInv' /\ KeptRightly
<1>1. Typed /\ w \in States /\ host \in Views BY DEF ProtocolInv, Typed
<1>2. OwesRecovery(w, "arr", q) /\ ArrivalEnds BY DEF ArrivalRecovers
<1>3. Owing("arr", q) BY <1>1, <1>2, ArrivalServes, OwesAttends, StableHandlers
<1>4. Meek(w, w') BY <1>1, <1>2, OwesMeek, StableHandlers
<1>5. Kept(w, w', NoEntry) BY <1>4, KeptTwice
<1> QED BY <1>2, <1>3, <1>5, RightlyOfMeek, ArrivalOverKept

LEMMA ArrivalSettlesKept ==
  ASSUME ProtocolInv, QueueInv, ArrivalFrame, event' = event, NEW q, ArrTurn(q), NEW o,
         ArrivalSettlesBy(o, q), o.state \in States, Kept(w, o.state, NoEntry)
  PROVE  QueueInv' /\ KeptRightly
<1>1. Typed /\ w \in States /\ host \in Views /\ "arr" \in Handlers
  BY StableHandlers DEF ProtocolInv, Typed
<1>2. SettlesOr(o, q, OwesRecovery(o.state, "arr", q)) /\ ArrivalEnds BY DEF ArrivalSettlesBy
<1>3. Serving("arr", q) BY ArrivalServes
<1>4. Owing("arr", q) BY <1>1, <1>2, <1>3, SettlesAttends
<1>5. Kept(w, w', NoEntry) BY <1>1, <1>2, SettlesKept
<1> QED BY <1>2, <1>4, <1>5, RightlyOfMeek, ArrivalOverKept

LEMMA ArrivalProtectsKept ==
  ASSUME ProtocolInv, QueueInv, ArrivalFrame, event' = event, NEW q, ArrTurn(q),
         arr.attempt \in Attempts, NEW s \in States, Meek(w, s),
         ArrivalSettlesBy(ProtectTreeArrival(s, arr.attempt, host), q)
  PROVE  QueueInv' /\ KeptRightly
<1> DEFINE o == ProtectTreeArrival(s, arr.attempt, host)
           t == o.state
<1>1. host \in Views BY DEF ProtocolInv, Typed
<1>2. t \in States BY <1>1, ProtectArrivalTame DEF Tame
<1>3. Meek(s, t) BY <1>1, ProtectArrivalMeek
<1>4. ArrivalSettlesBy(o, q) OBVIOUS
<1> HIDE DEF t
<1>5. Meek(w, t) BY <1>3, KeptTwice
<1>6. Kept(w, t, NoEntry) BY <1>5, KeptTwice
<1>7. o.state \in States /\ Kept(w, o.state, NoEntry) BY <1>2, <1>6 DEF t
<1> HIDE DEF o
<1> QED BY <1>4, <1>7, ArrivalSettlesKept

LEMMA ArrivalGoesKept ==
  ASSUME ProtocolInv, QueueInv, ArrivalFrame, event' = event, NEW q, ArrTurn(q),
         w' = w, job'.kind = "arrival", arr'.phase = "running", Goes(q)
  PROVE  QueueInv' /\ KeptRightly
<1>1. Typed BY DEF ProtocolInv
<1>2. Owing("arr", q) BY <1>1, ArrivalServes, OwesAttends, StableHandlers
<1>3. KeptRightly /\ (w'.active => w.active) BY KeptTwice, RightlyOfMeek
<1>4. host' = host /\ call' = call /\ trip' = trip BY DEF ArrivalFrame
<1>5. queue' = q /\ owed' = owed BY DEF Goes
<1>6. QueueInv' BY <1>2, <1>3, <1>4, <1>5, ArrivalQueue DEF ArrTurn
<1> QED BY <1>3, <1>6

LEMMA ArrivalBeginsKept ==
  ASSUME ProtocolInv, QueueInv, ArrivalFrame, event' = event, ArrivalBegins
  PROVE  QueueInv' /\ KeptRightly
<1> DEFINE o == AdmitCurrentTreeArrival(w, arr.attempt, host)
           starts(x) == /\ Begins("arrival", x, arr.view)
                        /\ arr' = [arr EXCEPT !.phase = "running"]
                        /\ w' = w /\ Goes(Others)
<1>1. w \in States /\ host \in Views /\ arr.attempt \in Attempts /\ arr \in Arrivals
      /\ ArrTurn(Others)
  BY DEF ArrivalBegins, ProtocolInv, Informed, Typed, ArrTurn
<1>2. \/ ArrivalRecovers(Others)
      \/ ArrivalSettlesBy(ProtectTreeArrival(w, arr.attempt, host), Others)
      \/ ArrivalSettlesBy(o, Others)
      \/ starts("scan")
      \/ starts("settle")
  BY DEF ArrivalBegins
<1>3. ASSUME NEW x, starts(x) PROVE QueueInv' /\ KeptRightly
  <2>1. job'.kind = "arrival" BY <1>3 DEF Begins, NoJob
  <2>2. arr'.phase = "running" BY <1>1, <1>3 DEF Arrivals
  <2> QED BY <1>1, <1>3, <2>1, <2>2, ArrivalGoesKept
<1>4. Meek(w, w) BY KeptTwice
<1>5. o.state \in States BY <1>1, AdmitCurrentArrivalTame DEF Tame
<1>6. Kept(w, o.state, NoEntry)
  <2> DEFINE t == o.state
  <2>1. Meek(w, t) BY <1>1, AdmitCurrentMeek
  <2> HIDE DEF t
  <2>2. Kept(w, t, NoEntry) BY <2>1, KeptTwice
  <2> QED BY <2>2 DEF t
<1> HIDE DEF o
<1>7. ArrivalSettlesBy(o, Others) => QueueInv' /\ KeptRightly
  BY <1>1, <1>5, <1>6, ArrivalSettlesKept
<1> HIDE DEF starts
<1> QED BY <1>1, <1>2, <1>3, <1>4, <1>7, ArrivalRecoversKept, ArrivalProtectsKept

LEMMA ArrivalJobsKept ==
  ASSUME ProtocolInv, QueueInv, ArrivalFrame, event' = event,
         ArrivalScans \/ ArrivalDetaches \/ ArrivalInherits \/ ArrivalRestores \/ ArrivalFails
  PROVE  QueueInv' /\ KeptRightly
<1> DEFINE p == ProtectTreeArrival(w, arr.attempt, host)
           o == AdmitTreeArrivalIfResolution(w, arr.attempt, host, arr.plan.res)
<1>1. job.kind = "arrival"
  BY DEF ArrivalScans, ArrivalDetaches, ArrivalInherits, ArrivalRestores, ArrivalFails, Runs
<1>2. w \in States /\ host \in Views /\ Typed /\ arr.attempt \in Attempts /\ arr.phase = "running"
      /\ ArrTurn(queue) /\ job \in Jobs /\ queue \in Seq(Handlers)
  BY <1>1 DEF ProtocolInv, Typed, JobKnows, Informed, ArrTurn
<1>3. \/ ArrivalRecovers(queue)
      \/ ArrivalSettlesBy(p, queue)
      \/ ArrivalSettlesBy(o, queue)
      \/ ArrivalEnds /\ ProtectsArrivalOrRecovers(w)
      \/ /\ w' = w /\ arr' = arr /\ Stays
         /\ \/ \E x, c : job' = [job EXCEPT !.step = x, !.seen = c]
            \/ \E x, r : job' = [job EXCEPT !.step = x, !.res = r]
  <2>1. CASE ArrivalScans BY <2>1 DEF ArrivalScans
  <2>2. CASE ArrivalDetaches BY <2>2 DEF ArrivalDetaches
  <2>3. CASE ArrivalInherits BY <2>3 DEF ArrivalInherits
  <2>4. CASE ArrivalRestores BY <2>4 DEF ArrivalRestores
  <2>5. CASE ArrivalFails BY <2>5 DEF ArrivalFails
  <2> QED BY <2>1, <2>2, <2>3, <2>4, <2>5
<1>4. Meek(w, w) BY KeptTwice
<1>5. o.state \in States BY <1>2, AdmitArrivalTame DEF Tame, Frees, TameBut
<1>6. Kept(w, o.state, NoEntry) BY <1>2, AdmitArrivalKept
<1>7. CASE ArrivalSettlesBy(o, queue)
  <2> HIDE DEF o
  <2> QED BY <1>2, <1>5, <1>6, <1>7, ArrivalSettlesKept
<1>8. CASE ArrivalEnds /\ ProtectsArrivalOrRecovers(w)
  <2> DEFINE t == p.state
  <2>1. Meek(w, t) BY <1>2, ProtectArrivalMeek
  <2>2. (w' = t /\ Stays) \/ RecoversInLock(w, "arr", queue)
    BY <1>1, <1>8 DEF ProtectsArrivalOrRecovers, Recovers, Handler, Arriving
  <2> HIDE DEF t
  <2>3. Meek(w, w') BY <1>2, <2>1, <2>2, OwesMeek, StableHandlers
  <2>4. Owing("arr", queue)
    BY <1>2, <2>2, ArrivalServes, OwesAttends, StableHandlers DEF Stays, Goes
  <2>5. Kept(w, w', NoEntry) BY <2>3, KeptTwice
  <2> QED BY <1>2, <1>8, <2>4, <2>5, RightlyOfMeek, ArrivalOverKept
<1>9. CASE /\ w' = w /\ arr' = arr /\ Stays
           /\ \/ \E x, c : job' = [job EXCEPT !.step = x, !.seen = c]
              \/ \E x, r : job' = [job EXCEPT !.step = x, !.res = r]
  <2>1. job'.kind = "arrival" BY <1>1, <1>2, <1>9 DEF Jobs
  <2>2. Goes(queue) BY <1>9 DEF Stays, Goes
  <2> QED BY <1>2, <1>9, <2>1, <2>2, ArrivalGoesKept
<1> HIDE DEF o
<1>10. ArrivalSettlesBy(p, queue) => QueueInv' /\ KeptRightly
  BY <1>2, <1>4, ArrivalProtectsKept
<1>11. ArrivalRecovers(queue) => QueueInv' /\ KeptRightly BY <1>2, ArrivalRecoversKept
<1> QED BY <1>3, <1>7, <1>8, <1>9, <1>10, <1>11

(* Files are recorded at a destination that resolved to nothing, or where  *)
(* the session stayed and they were home.                                  *)
LEMMA ArrivalMaterializesKept ==
  ASSUME ProtocolInv, HomeInv, QueueInv, ArrivalFrame, event' = event, ArrivalMaterializes
  PROVE  QueueInv' /\ KeptRightly
<1> DEFINE m     == MissingTarget
           slot  == w.slots[m]
           after == AfterCapture(w, m, slot, job.seen)
           res   == [at |-> m, tree |-> job.seen]
           o     == AdmitTreeArrivalIfResolution(after, arr.attempt, host, res)
           now   == Exact(arr.view) /\ MayMaterialize /\ w.active /\ ArrivalGoesOn
           done  == CaptureVerdict(w, m, slot) = "committed"
<1>1. w \in States /\ host \in Views /\ Typed /\ arr.attempt \in Attempts /\ arr \in Arrivals
      /\ job.kind = "arrival" /\ arr.phase # "none" /\ Materializes /\ ArrTurn(queue)
  BY DEF ArrivalMaterializes, Runs, ProtocolInv, Typed, JobKnows, Informed, ArrTurn
<1>2. job.seen \in Trees \cup {NoTree} BY <1>1 DEF Typed, Jobs
<1>3. after \in States BY <1>1, <1>2, AfterCaptureTame
<1>4. \/ ArrivalRecovers(queue)
      \/ /\ ~ done
         /\ ArrivalSettlesBy(ProtectTreeArrival(after, arr.attempt, host), queue)
      \/ /\ now /\ done /\ ArrivalEnds
         /\ SettlesOr(o, queue, RecoversInLock(o.state, "arr", queue))
  BY DEF ArrivalMaterializes
<1>5. (done => Sole(w, after, m)) /\ (~ done => Meek(w, after))
  BY <1>1, AfterCaptureKept
<1>6. done => ~ w.barrier BY DEF CaptureVerdict
<1>7. now /\ done => m \in Coordinates /\ (m = NoEntry \/ Rightful(m))
  <2> SUFFICES ASSUME now, done PROVE m \in Coordinates /\ (m = NoEntry \/ Rightful(m))
    OBVIOUS
  <2>1. arr.plan.destination \in Coordinates BY <1>1 DEF Arrivals, PlansMade
  <2>2. Landed = Here /\ Here \in Coordinates
    BY <1>1, AtTyped DEF Landed, Exact, Here, Coordinates
  <2>3. m \in Coordinates BY <2>1, <2>2 DEF MissingTarget
  <2>4. CASE arr.plan.kind = "same-location"
    <3>1. m = Here /\ ~ IsBlocked(w.slots[m]) BY <2>2, <2>4 DEF MayMaterialize, MissingTarget
    <3>2. w.adm.kind = "arrival" BY DEF ArrivalGoesOn, ArrivalCanProceed, ArrivalIsCurrent
    <3>3. ~ event.due BY <1>1 DEF ProtocolInv, Due
    <3>4. ~ Elsewhere /\ ~ InTransit BY <2>4, <3>3 DEF Elsewhere, InTransit
    <3> HIDE DEF m, done
    <3>5. Here = NoEntry \/ Rightful(Here)
      BY <1>6, <3>1, <3>2, <3>4, OpenIsHome DEF HomeInv
    <3> QED BY <2>3, <3>1, <3>5
  <2>5. CASE arr.plan.kind # "same-location"
    <3>1. Resolve(w.slots, m) = Missing BY <2>5 DEF MayMaterialize
    <3> QED BY <1>1, <2>3, <3>1 DEF Rightful, Arriving
  <2> QED BY <2>4, <2>5
<1>8. o.state \in States /\ Kept(after, o.state, NoEntry)
  <2> HIDE DEF after, res
  <2>1. o.state \in States BY <1>1, <1>3, AdmitArrivalTame DEF Tame, Frees, TameBut
  <2>2. Kept(after, o.state, NoEntry) BY <1>1, <1>3, AdmitArrivalKept
  <2> QED BY <2>1, <2>2
<1> HIDE DEF after, o, done, now, m
<1>9. CASE /\ now /\ done /\ ArrivalEnds
           /\ SettlesOr(o, queue, RecoversInLock(o.state, "arr", queue))
  <2>1. Kept(after, w', NoEntry) BY <1>1, <1>3, <1>8, <1>9, StableHandlers, SettlesKept
  <2>2. Kept(w, w', m) BY <1>5, <1>9, <2>1, KeptTwice
  <2>3. KeptRightly /\ (w'.active => w.active) BY <1>7, <1>9, <2>2, RightlyAt
  <2>4. Serving("arr", queue) BY DEF Serving
  <2>5. Owing("arr", queue) BY <1>1, <1>9, <2>4, StableHandlers, SettlesAttends
  <2> QED BY <1>1, <1>9, <2>3, <2>5, ArrivalOverKept
<1>10. CASE /\ ~ done
            /\ ArrivalSettlesBy(ProtectTreeArrival(after, arr.attempt, host), queue)
  BY <1>1, <1>3, <1>5, <1>10, ArrivalProtectsKept
<1> QED BY <1>1, <1>4, <1>9, <1>10, ArrivalRecoversKept

LEMMA ArrivalKept ==
  ASSUME ProtocolInv, HomeInv, QueueInv, ArrivalNext
  PROVE  QueueInv' /\ KeptRightly
<1>1. ArrivalFrame BY DEF ArrivalNext, ArrivalFrame
<1>2. CASE TreeEvent BY <1>1, <1>2, TreeEventQueue, RightlyOfMeek DEF HomeInv
<1>3. CASE /\ \/ ArrivalBegins \/ ArrivalScans \/ ArrivalDetaches
              \/ ArrivalMaterializes \/ ArrivalInherits \/ ArrivalRestores
              \/ ArrivalFails
           /\ event' = event
  BY <1>1, <1>3, ArrivalBeginsKept, ArrivalJobsKept, ArrivalMaterializesKept
<1> QED BY <1>2, <1>3 DEF ArrivalNext
-----------------------------------------------------------------------------
(* The destructive part of a restore records nothing for capture.          *)

LEMMA MutationGoesKept ==
  ASSUME ProtocolInv, QueueInv, MutationFrame, job.step \in Destructive,
         Remains, Stays, job'.kind = job.kind, Meek(w, w')
  PROVE  QueueInv' /\ KeptRightly
<1>1. Typed /\ JobKnows BY DEF ProtocolInv
<1>2. host' = host /\ event' = event /\ call' = call /\ trip' = trip /\ arr' = arr
      /\ queue' = queue /\ owed' = owed
  BY DEF MutationFrame, Remains, Stays
<1>3. KeptRightly /\ (w'.active => w.active) BY RightlyOfMeek
<1>4. CASE Arriving
  <2>1. job.kind = "arrival" /\ arr.phase = "running" BY <1>1, <1>4 DEF Arriving, JobKnows
  <2>2. Owing("arr", queue) BY <1>2 DEF Owing, Serving
  <2>3. QueueInv' BY <1>2, <1>3, <2>1, <2>2, ArrivalQueue
  <2> QED BY <1>3, <2>3
<1>5. CASE ~ Arriving
  <2>1. job.kind = "restore" BY <1>1, <1>5 DEF Arriving, JobKnows
  <2>2. Attends("ask") /\ Employs("restore") BY <1>2, <2>1, StillAttends DEF Employs
  <2>3. QueueInv' BY <1>2, <1>3, <2>2, AsideQueue
  <2> QED BY <1>3, <2>3
<1> QED BY <1>4, <1>5

LEMMA MutationOverKept ==
  ASSUME ProtocolInv, QueueInv, MutationFrame, job.step \in Destructive,
         Ends, HandlerReturns, Owing(Handler, queue), Kept(w, w', NoEntry)
  PROVE  QueueInv' /\ KeptRightly
<1>1. Typed /\ JobKnows BY DEF ProtocolInv
<1>2. host' = host /\ event' = event /\ call' = call /\ trip' = trip
  BY DEF MutationFrame
<1>3. KeptRightly /\ (w'.active => w.active) BY RightlyOfMeek
<1>4. job'.kind = "none" BY DEF Ends, NoJob
<1>5. CASE Arriving
  <2>1. job.kind = "arrival" BY <1>5 DEF Arriving
  <2>2. arr'.phase = "none" BY <1>5 DEF HandlerReturns, NoArrival
  <2>3. Owing("arr", queue) BY <1>5 DEF Handler
  <2>4. QueueInv' BY <1>2, <1>3, <1>4, <2>1, <2>2, <2>3, ArrivalQueue
  <2> QED BY <1>3, <2>4
<1>6. CASE ~ Arriving
  <2>1. job.kind = "restore" BY <1>1, <1>6 DEF Arriving, JobKnows
  <2>2. arr' = arr BY <1>6 DEF HandlerReturns
  <2>3. Attends("ask") BY <1>6 DEF Handler, Attends
  <2>4. Employs("restore") BY <1>4, <2>1 DEF Employs
  <2>5. QueueInv' BY <1>2, <1>3, <2>2, <2>3, <2>4, AsideQueue
  <2> QED BY <1>3, <2>5
<1> QED BY <1>5, <1>6

LEMMA HandlerRecovers ==
  ASSUME ProtocolInv, NEW s \in States, RecoversInLock(s, Handler, queue)
  PROVE  Meek(s, w') /\ Owing(Handler, queue)
<1>1. Typed /\ host \in Views /\ Handler \in Handlers BY HandlerKnown DEF ProtocolInv
<1>2. Serving(Handler, queue) BY DEF Serving
<1> HIDE DEF Handler
<1> QED BY <1>1, <1>2, OwesMeek, OwesAttends

LEMMA NotRestoredKept ==
  ASSUME ProtocolInv, QueueInv, MutationFrame, job.step \in Destructive,
         NEW s \in States, Meek(w, s), NotRestored(s), Ends, HandlerReturns
  PROVE  QueueInv' /\ KeptRightly
<1>1. Typed /\ host \in Views /\ "ask" \in Handlers
  BY StableHandlers DEF ProtocolInv, Typed
<1>2. Meek(s, w') /\ Owing(Handler, queue)
  <2>1. CASE Arriving /\ ProtectsArrivalOrRecovers(s)
    <3> DEFINE t == ProtectTreeArrival(s, arr.attempt, host).state
    <3>1. arr.attempt \in Attempts BY <2>1, HandlerKnown
    <3>2. Meek(s, t) BY <1>1, <3>1, ProtectArrivalMeek
    <3>3. (w' = t /\ Stays) \/ RecoversInLock(s, Handler, queue)
      BY <2>1 DEF ProtectsArrivalOrRecovers, Recovers
    <3> HIDE DEF t
    <3>4. Stays => Owing(Handler, queue) BY DEF Stays, Owing, Serving
    <3> QED BY <3>2, <3>3, <3>4, HandlerRecovers
  <2>2. CASE w' = s /\ Stays
    <3>1. Owing(Handler, queue) BY <2>2 DEF Stays, Owing, Serving
    <3> QED BY <2>2, <3>1, KeptTwice
  <2>3. CASE ~ Arriving /\ OwesRecovery(s, "ask", queue)
    <3>1. Serving("ask", queue) /\ Handler = "ask" BY <2>3 DEF Serving, Handler
    <3> QED BY <1>1, <2>3, <3>1, OwesMeek, OwesAttends
  <2> QED BY <2>1, <2>2, <2>3 DEF NotRestored
<1>3. Meek(w, w') BY <1>2, KeptTwice
<1>4. Kept(w, w', NoEntry) BY <1>3, KeptTwice
<1> QED BY <1>2, <1>4, MutationOverKept

LEMMA CutOverKept ==
  ASSUME ProtocolInv, QueueInv, MutationFrame, CutOver
  PROVE  QueueInv' /\ KeptRightly
<1> DEFINE g == IF Arriving THEN ArrivalCanProceed(w.adm, arr.attempt, host)
                            ELSE CanCutover(w.adm, host)
           o == CutoverIf(g, w, host, job.res)
           t == o.state
<1>1. w \in States /\ host \in Views /\ job \in Jobs BY DEF ProtocolInv, Typed
<1>2. job.step \in Destructive BY DEF CutOver, Destructive
<1>3. Meek(w, w) BY KeptTwice
<1>4. Meek(w, t) BY <1>1, CutoverMeek
<1>5. t \in States BY <1>1, CutoverTame DEF Tame
<1>6. \/ /\ w' = t /\ Remains /\ Stays
         /\ job' = [job EXCEPT !.step = "write", !.res = Pinned(host, job.res)]
      \/ NotRestored(t) /\ Ends /\ HandlerReturns
      \/ NotRestored(w) /\ Ends /\ HandlerReturns
  BY DEF CutOver, CutoverTreeArrival, CutoverLocation
<1> HIDE DEF t
<1>7. CASE /\ w' = t /\ Remains /\ Stays
           /\ job' = [job EXCEPT !.step = "write", !.res = Pinned(host, job.res)]
  <2>1. job'.kind = job.kind BY <1>1, <1>7 DEF Jobs
  <2> QED BY <1>2, <1>4, <1>7, <2>1, MutationGoesKept
<1> QED BY <1>1, <1>2, <1>3, <1>4, <1>5, <1>6, <1>7, NotRestoredKept

LEMMA WritesKept ==
  ASSUME ProtocolInv, QueueInv, MutationFrame,
         WritesSome \/ WritesTheRest \/ BreaksOff \/ Verifies
  PROVE  QueueInv' /\ KeptRightly
<1>1. job \in Jobs BY DEF ProtocolInv, Typed
<1>2. job.step \in Destructive /\ w' = w /\ Remains /\ Stays
  BY DEF WritesSome, WritesTheRest, BreaksOff, Verifies, Destructive
<1>3. \E x : StepsTo(x) BY DEF WritesSome, WritesTheRest, BreaksOff, Verifies
<1>4. PICK x : job' = [job EXCEPT !.step = x] BY <1>3 DEF StepsTo
<1>5. job'.kind = job.kind BY <1>1, <1>4 DEF Jobs
<1> QED BY <1>2, <1>5, KeptTwice, MutationGoesKept

LEMMA AdmitsKept ==
  ASSUME ProtocolInv, QueueInv, MutationFrame, Admits \/ AdmitsUnchanged
  PROVE  QueueInv' /\ KeptRightly
<1> DEFINE l == AdmitLocationIfResolution(w, host, job.res)
           a == AdmitTreeArrivalIfResolution(w, arr.attempt, host, job.res)
<1>1. w \in States /\ host \in Views /\ Typed /\ Handler \in Handlers /\ Serving(Handler, queue)
  BY HandlerKnown DEF ProtocolInv, Serving
<1>2. job.step \in Destructive /\ Ends /\ HandlerReturns
  BY DEF Admits, AdmitsUnchanged, Destructive
<1>3. \/ Admits /\ SettlesOr(l, queue, RecoversInLock(l.state, Handler, queue))
      \/ AdmitsUnchanged /\ SettlesOr(a, queue, OwesRecovery(a.state, "arr", queue))
      \/ RecoversInLock(w, Handler, queue)
  BY DEF Admits, AdmitsUnchanged, Recovers
<1>4. ASSUME NEW o, o.state \in States, Kept(w, o.state, NoEntry),
             \/ SettlesOr(o, queue, RecoversInLock(o.state, Handler, queue))
             \/ SettlesOr(o, queue, OwesRecovery(o.state, Handler, queue))
      PROVE  QueueInv' /\ KeptRightly
  <2> HIDE DEF Handler
  <2>1. Owing(Handler, queue) BY <1>1, <1>4, SettlesAttends
  <2>2. Kept(w, w', NoEntry) BY <1>1, <1>4, SettlesKept
  <2> QED BY <1>2, <2>1, <2>2, MutationOverKept
<1>5. l.state \in States /\ Kept(w, l.state, NoEntry)
  BY <1>1, AdmitLocationTame, AdmitLocationKept
<1>6. AdmitsUnchanged =>
        a.state \in States /\ Kept(w, a.state, NoEntry) /\ Handler = "arr"
  <2> SUFFICES ASSUME AdmitsUnchanged
               PROVE  a.state \in States /\ Kept(w, a.state, NoEntry) /\ Handler = "arr"
    OBVIOUS
  <2>1. Arriving BY DEF AdmitsUnchanged, ProtocolInv, JobKnows, Arriving
  <2>2. arr.attempt \in Attempts BY <2>1, HandlerKnown
  <2>3. a.state \in States BY <1>1, <2>2, AdmitArrivalTame DEF Tame, Frees, TameBut
  <2>4. Kept(w, a.state, NoEntry) BY <1>1, <2>2, AdmitArrivalKept
  <2> QED BY <2>1, <2>3, <2>4 DEF Handler
<1>7. CASE RecoversInLock(w, Handler, queue)
  <2>1. Kept(w, w', NoEntry) /\ Owing(Handler, queue) BY <1>1, <1>7, HandlerRecovers, KeptTwice
  <2> QED BY <1>2, <2>1, MutationOverKept
<1> HIDE DEF l, a
<1> QED BY <1>3, <1>4, <1>5, <1>6, <1>7

LEMMA FailsToRestoreKept ==
  ASSUME ProtocolInv, QueueInv, MutationFrame, FailsToRestore
  PROVE  QueueInv' /\ KeptRightly
<1>1. w \in States BY DEF ProtocolInv, Typed
<1>2. job.step \in Destructive /\ Ends /\ HandlerReturns BY DEF FailsToRestore, Destructive
<1>3. CASE RecoversInLock(w, Handler, queue)
  <2>1. Kept(w, w', NoEntry) /\ Owing(Handler, queue) BY <1>1, <1>3, HandlerRecovers, KeptTwice
  <2> QED BY <1>2, <2>1, MutationOverKept
<1>4. CASE NotRestored(w) BY <1>1, <1>2, <1>4, KeptTwice, NotRestoredKept
<1> QED BY <1>3, <1>4 DEF FailsToRestore, Recovers

LEMMA MutationKept ==
  ASSUME ProtocolInv, QueueInv, MutationNext
  PROVE  QueueInv' /\ KeptRightly
<1>1. MutationFrame BY DEF MutationNext, MutationFrame
<1> QED BY <1>1, CutOverKept, WritesKept, AdmitsKept, FailsToRestoreKept DEF MutationNext
-----------------------------------------------------------------------------
(* Restores and session starts.                                            *)

(* What is left for the restore to do leaves the order of the others.      *)
LEMMA RestoreGoesKept ==
  ASSUME ProtocolInv, QueueInv, RestoreFrame, Attends("ask"), Employs("restore"),
         KeptRightly, w'.active => w.active
  PROVE  QueueInv' /\ KeptRightly
BY AsideQueue DEF RestoreFrame, hostVars

LEMMA AskKept ==
  ASSUME ProtocolInv, QueueInv, RestoreFrame, Employs("restore"), NEW s \in States,
         NEW q, Serving("ask", q),
         \/ Kept(w, s, NoEntry) /\ w' = s /\ (Goes(q) \/ Goes(Waits(q, "ask")))
         \/ /\ Meek(w, s)
            /\ \/ Abandons(s, q) \/ RecoversInLock(s, "ask", q) \/ Withdraws(s, "ask", q)
  PROVE  QueueInv' /\ KeptRightly
<1>1. Typed /\ host \in Views /\ "ask" \in Handlers
  BY StableHandlers DEF ProtocolInv, Typed
<1>2. CASE Kept(w, s, NoEntry) /\ w' = s /\ (Goes(q) \/ Goes(Waits(q, "ask")))
  <2>1. Attends("ask") BY <1>1, <1>2, OwesAttends
  <2>2. KeptRightly /\ (w'.active => w.active) BY <1>2, RightlyOfMeek
  <2> QED BY <2>1, <2>2, RestoreGoesKept
<1>3. CASE /\ Meek(w, s)
           /\ \/ Abandons(s, q) \/ RecoversInLock(s, "ask", q) \/ Withdraws(s, "ask", q)
  <2>1. \/ w' = s /\ Goes(q)
        \/ OwesRecovery(s, "ask", q) \/ RecoversInLock(s, "ask", q) \/ Withdraws(s, "ask", q)
    BY <1>3 DEF Abandons
  <2>2. Attends("ask") BY <1>1, <2>1, OwesAttends
  <2>3. Meek(s, w') BY <1>1, <2>1, OwesMeek, KeptTwice
  <2>4. Meek(w, w') BY <1>3, <2>3, KeptTwice
  <2>5. KeptRightly /\ (w'.active => w.active) BY <2>4, RightlyOfMeek
  <2> QED BY <2>2, <2>5, RestoreGoesKept
<1> QED BY <1>2, <1>3

LEMMA AskTurn ==
  ASSUME Typed, IsNext("ask") \/ job.kind = "restore",
         \/ job' = NoJob
         \/ \E x, v : Begins("restore", x, v)
         \/ \E x, v, r : job' = [NoJob EXCEPT !.kind = "restore", !.step = x, !.view = v, !.res = r]
         \/ job.kind = "restore" /\ \E x : StepsTo(x)
         \/ job.kind = "restore" /\ \E x, c : job' = [job EXCEPT !.step = x, !.seen = c]
  PROVE  /\ Employs("restore")
         /\ IsNext("ask") => Serving("ask", Others)
         /\ Serving("ask", queue)
<1>1. job'.kind \in {"none", "restore"}
  <2>1. CASE job' = NoJob BY <2>1 DEF NoJob
  <2>2. CASE \E x, v : Begins("restore", x, v)
    <3>1. PICK x, v : job' = [NoJob EXCEPT !.kind = "restore", !.step = x, !.view = v]
      BY <2>2 DEF Begins
    <3> QED BY <3>1 DEF NoJob
  <2>3. CASE \E x, v, r : job' = [NoJob EXCEPT !.kind = "restore", !.step = x, !.view = v, !.res = r]
    <3>1. PICK x, v, r :
            job' = [NoJob EXCEPT !.kind = "restore", !.step = x, !.view = v, !.res = r]
      BY <2>3
    <3> QED BY <3>1 DEF NoJob
  <2>4. CASE job.kind = "restore" /\ \E x : StepsTo(x)
    <3>1. PICK x : job' = [job EXCEPT !.step = x] BY <2>4 DEF StepsTo
    <3> QED BY <2>4, <3>1 DEF Typed, Jobs
  <2>5. CASE job.kind = "restore" /\ \E x, c : job' = [job EXCEPT !.step = x, !.seen = c]
    <3>1. PICK x, c : job' = [job EXCEPT !.step = x, !.seen = c] BY <2>5
    <3> QED BY <2>5, <3>1 DEF Typed, Jobs
  <2> QED BY <2>1, <2>2, <2>3, <2>4, <2>5
<1>2. job.kind \in {"none", "restore"}
  <2>1. CASE IsNext("ask") BY <2>1 DEF IsNext, Idle, NoJob
  <2>2. CASE job.kind = "restore" BY <2>2
  <2> QED BY <2>1, <2>2
<1> QED BY <1>1, <1>2 DEF Employs, Serving

LEMMA RestoreCommandKept ==
  ASSUME ProtocolInv, QueueInv, RestoreFrame, RestoreCommand
  PROVE  QueueInv' /\ KeptRightly
<1> DEFINE a == RejectTransitionConflict(w.adm)
           s == WithAdmission(w, a)
<1>1. w \in States /\ w.adm \in Authorities /\ host \in Views
  BY DEF ProtocolInv, Typed, States
<1>2. a \in Authorities BY <1>1, AuthorityYields
<1>3. w' = s /\ job' = job /\ (Goes(queue) \/ Goes(Waits(queue, "ask")))
  BY DEF RestoreCommand, Stays, Goes
<1> HIDE DEF a
<1>4. s \in States BY <1>1, <1>2 DEF WithAdmission, States
<1>5. Meek(w, s) BY <1>1, <1>2, RowsMeek
<1> HIDE DEF s
<1>6. Kept(w, s, NoEntry) BY <1>5, KeptTwice
<1>7. Employs("restore") /\ Serving("ask", queue) BY <1>3 DEF Employs, Serving
<1> QED BY <1>3, <1>4, <1>6, <1>7, AskKept

(* A session starts after everything else is over.                         *)
LEMMA SessionStartKept ==
  ASSUME ProtocolInv, QueueInv, RestoreFrame, NEW mode \in {"loaded", "reload"},
         SessionStart(mode)
  PROVE  QueueInv' /\ w'.slots = w.slots
<1> DEFINE s == [w EXCEPT !.active = TRUE]
<1>1. w \in States /\ Typed BY DEF ProtocolInv, Typed
<1>2. s \in States /\ SameRows(w, s) BY <1>1 DEF States, SameRows
<1>3. /\ call = NoCall /\ job' = job
      /\ w' \in {Quarantined(s), AdmitCurrentLocation(s, host).state, s}
      /\ (Goes(queue) \/ Goes(Waits(queue, "ask")))
  BY DEF SessionStart, Goes, Stays
<1>4. w' \in {Quarantined(s), Claim(s, host), s} BY <1>3 DEF AdmitCurrentLocation, Outcome
<1> HIDE DEF s
<1>5. SameRows(s, w') BY <1>2, <1>4, RowsKept DEF SameRows
<1>6. w'.slots = w.slots BY <1>2, <1>5 DEF SameRows
<1>7. call.phase = "none" BY <1>3 DEF NoCall
<1>8. Employs("restore") /\ Serving("ask", queue) BY <1>3 DEF Employs, Serving
<1>9. Attends("ask") BY <1>1, <1>3, <1>8, OwesAttends, StableHandlers
<1>10. QueueInv' BY <1>7, <1>8, <1>9, AsideQueue DEF RestoreFrame, hostVars
<1> QED BY <1>6, <1>10

LEMMA RestoreLooksKept ==
  ASSUME ProtocolInv, QueueInv, RestoreFrame, RestoreLooks
  PROVE  QueueInv' /\ KeptRightly
<1> DEFINE s == ReconcileBarrier(w, host)
           p == ProtectNode(s, host)
           pinned == IF Manual THEN Readable(s, Here) ELSE Pinned(host, Readable(s, Here))
           begins(x) == job' = [NoJob EXCEPT !.kind = "restore", !.step = x,
                                             !.view = host, !.res = pinned]
<1>1. w \in States /\ host \in Views /\ Typed BY DEF ProtocolInv, Typed
<1>2. s \in States /\ Meek(w, s) BY <1>1, CompositesTame, ReconcileMeek DEF Tame
<1>3. \/ Abandons(w, Others) /\ job' = NoJob
      \/ w' \in {s, p} /\ begins("scan") /\ Goes(Others)
      \/ w' = s /\ begins("first") /\ Goes(Others)
      \/ w' = p /\ job' = NoJob /\ Goes(Others)
      \/ w' = s /\ job' = NoJob /\ (Goes(Others) \/ Goes(Waits(Others, "ask")))
  BY DEF RestoreLooks, SettlesAt, Ends
<1>4. Employs("restore") /\ Serving("ask", Others)
  <2> HIDE DEF pinned, s, p
  <2>1. IsNext("ask") BY DEF RestoreLooks, Looks
  <2>2. job' = NoJob \/ \E x : begins(x) BY <1>3
  <2> QED BY <1>1, <2>1, <2>2, AskTurn
<1> HIDE DEF s, begins
<1>5. p \in States /\ Meek(s, p) BY <1>1, <1>2, CompositesTame, ProtectMeek DEF Tame
<1> HIDE DEF p
<1>6. Meek(w, p) /\ Meek(w, w) BY <1>2, <1>5, KeptTwice
<1>7. Kept(w, s, NoEntry) /\ Kept(w, p, NoEntry) BY <1>2, <1>6, KeptTwice
<1> QED BY <1>1, <1>2, <1>3, <1>4, <1>5, <1>6, <1>7, AskKept

(* The steps that leave the rows alone.                                    *)
LEMMA RestorePlainKept ==
  ASSUME ProtocolInv, QueueInv, RestoreFrame,
         \/ RestoreScans \/ RestoreAnswered \/ InitializeBegins \/ FirstScans \/ ReloadScans
         \/ RestoreFails
  PROVE  QueueInv' /\ KeptRightly
<1>1. w \in States /\ host \in Views /\ Typed /\ job \in Jobs BY DEF ProtocolInv, Typed
<1>2. Meek(w, w) /\ Kept(w, w, NoEntry) BY KeptTwice
<1>3. ASSUME Employs("restore"), NEW q, Serving("ask", q),
             \/ w' = w /\ (Goes(q) \/ Goes(Waits(q, "ask")))
             \/ Abandons(w, q) \/ RecoversInLock(w, "ask", q) \/ Withdraws(w, "ask", q)
      PROVE  QueueInv' /\ KeptRightly
  BY <1>1, <1>2, <1>3, AskKept
<1>4. Serving("ask", queue) BY DEF Serving
<1>5. CASE RestoreScans \/ FirstScans \/ ReloadScans
  <2>1. job.kind = "restore" /\ w' = w /\ Goes(queue)
    BY <1>5 DEF RestoreScans, FirstScans, ReloadScans, Runs, Stays, Goes
  <2>2. \/ job' = NoJob
        \/ \E x : StepsTo(x)
        \/ \E x, c : job' = [job EXCEPT !.step = x, !.seen = c]
    BY <1>5 DEF RestoreScans, FirstScans, ReloadScans, Ends
  <2>3. Employs("restore") BY <1>1, <2>1, <2>2, AskTurn
  <2> QED BY <1>3, <1>4, <2>1, <2>3
<1>6. CASE RestoreAnswered
  <2>1. job' = job /\ ((w' = w /\ Goes(Waits(queue, "ask"))) \/ Abandons(w, queue))
    BY <1>6 DEF RestoreAnswered
  <2>2. Employs("restore") BY <2>1 DEF Employs
  <2> QED BY <1>3, <1>4, <2>1, <2>2
<1>7. CASE InitializeBegins
  <2>1. IsNext("ask") /\ \/ Abandons(w, Others) /\ job' = NoJob
                         \/ w' = w /\ Goes(Others) /\ Begins("restore", "first", host)
    BY <1>7 DEF InitializeBegins, Ends
  <2>2. Employs("restore") /\ Serving("ask", Others) BY <1>1, <2>1, AskTurn
  <2> QED BY <1>3, <2>1, <2>2
<1>8. CASE RestoreFails
  <2>1. job.kind = "restore" /\ job' = NoJob
        /\ (Abandons(w, queue) \/ RecoversInLock(w, "ask", queue) \/ Withdraws(w, "ask", queue))
    BY <1>8 DEF RestoreFails, Ends, RecoversAsk
  <2>2. Employs("restore") BY <1>1, <2>1, AskTurn
  <2> QED BY <1>3, <1>4, <2>1, <2>2
<1> QED BY <1>5, <1>6, <1>7, <1>8

LEMMA RestoreAgainKept ==
  ASSUME ProtocolInv, QueueInv, RestoreFrame, RestoreRechecks \/ RestoreRescans
  PROVE  QueueInv' /\ KeptRightly
<1> DEFINE a == RejectTransitionConflict(w.adm)
           s == IF Manual THEN WithAdmission(w, a) ELSE w
           c == Claim(w, host)
<1>1. w \in States /\ w.adm \in Authorities /\ host \in Views /\ Typed /\ job \in Jobs
  BY DEF ProtocolInv, Typed, States
<1>2. a \in Authorities BY <1>1, AuthorityYields
<1>3. CASE RestoreRechecks
  <2>1. /\ IsNext("ask")
        /\ \/ Abandons(s, Others) /\ job' = NoJob
           \/ /\ job' = [NoJob EXCEPT !.kind = "restore", !.step = "rescan",
                                      !.view = host, !.res = ask.res]
              /\ w' = w /\ Goes(Others)
    BY <1>3 DEF RestoreRechecks, Ends
  <2>2. Employs("restore") /\ Serving("ask", Others) BY <1>1, <2>1, AskTurn
  <2> HIDE DEF a
  <2>3. s \in States /\ Meek(w, s)
    <3>1. WithAdmission(w, a) \in States BY <1>1, <1>2 DEF WithAdmission, States
    <3>2. Meek(w, WithAdmission(w, a)) /\ Meek(w, w) BY <1>1, <1>2, RowsMeek, KeptTwice
    <3> QED BY <1>1, <3>1, <3>2
  <2> HIDE DEF s
  <2>4. Kept(w, w, NoEntry) BY KeptTwice
  <2> QED BY <1>1, <2>1, <2>2, <2>3, <2>4, AskKept
<1>4. CASE RestoreRescans
  <2>1. /\ job.kind = "restore"
        /\ \/ Abandons(w, queue) /\ job' = NoJob
           \/ Abandons(c, queue) /\ job' = NoJob
           \/ w' = c /\ job' = [job EXCEPT !.step = "cutover", !.seen = content] /\ Goes(queue)
    BY <1>4 DEF RestoreRescans, Runs, Ends, Stays, Goes
  <2>2. Employs("restore") /\ Serving("ask", queue) BY <1>1, <2>1, AskTurn
  <2>3. c \in States /\ Meek(w, c) BY <1>1, ClaimTame, RowsMeek DEF Tame
  <2> HIDE DEF c
  <2>4. Meek(w, w) /\ Kept(w, c, NoEntry) BY <2>3, KeptTwice
  <2> QED BY <1>1, <2>1, <2>2, <2>3, <2>4, AskKept
<1> QED BY <1>3, <1>4

LEMMA RestoreMatchesKept ==
  ASSUME ProtocolInv, QueueInv, RestoreFrame, RestoreMatches \/ ReloadSettles
  PROVE  QueueInv' /\ KeptRightly
<1> DEFINE o == AdmitLocationIfResolution(w, host, job.res)
           t == o.state
<1>1. w \in States /\ host \in Views /\ Typed BY DEF ProtocolInv, Typed
<1>2. job.kind = "restore" /\ job' = NoJob
  BY DEF RestoreMatches, ReloadSettles, Runs, Ends
<1>3. t \in States /\ Kept(w, t, NoEntry) /\ (~ o.ok => Meek(w, t))
  BY <1>1, AdmitLocationTame, AdmitLocationKept
<1>4. \/ w' = t /\ Goes(queue)
      \/ ~ o.ok /\ Abandons(t, queue)
      \/ Abandons(w, queue)
      \/ RecoversInLock(w, "ask", queue)
      \/ ~ o.ok /\ w' = ProtectNode(t, host) /\ Goes(queue)
      \/ w' = ProtectNode(w, host) /\ Goes(queue)
  BY DEF RestoreMatches, ReloadSettles, SettlesAt, RecoversAsk
<1> HIDE DEF t
<1>5. ASSUME NEW s \in States, Meek(w, s)
      PROVE  ProtectNode(s, host) \in States /\ Kept(w, ProtectNode(s, host), NoEntry)
  <2>1. ProtectNode(s, host) \in States BY <1>1, <1>5, CompositesTame DEF Tame
  <2>2. Meek(s, ProtectNode(s, host)) BY <1>1, <1>5, ProtectMeek
  <2>3. Meek(w, ProtectNode(s, host)) BY <1>5, <2>2, KeptTwice
  <2> QED BY <2>1, <2>3, KeptTwice
<1>6. Meek(w, w) BY KeptTwice
<1>7. Employs("restore") /\ Serving("ask", queue) BY <1>1, <1>2, AskTurn
<1> HIDE DEF o
<1> QED BY <1>1, <1>3, <1>4, <1>5, <1>6, <1>7, AskKept

LEMMA ReloadLooksKept ==
  ASSUME ProtocolInv, QueueInv, RestoreFrame, ReloadLooks
  PROVE  QueueInv' /\ KeptRightly
<1> DEFINE res == Readable(w, Here)
           o == AdmitCurrentLocation(w, host)
           t == o.state
           p == ProtectNode(t, host)
<1>1. w \in States /\ host \in Views /\ Typed BY DEF ProtocolInv, Typed
<1>2. /\ IsNext("ask")
      /\ \/ RecoversInLock(w, "ask", Others) /\ job' = NoJob
         \/ w' \in {t, p} /\ job' = NoJob /\ Goes(Others)
         \/ /\ w' = w /\ Goes(Others)
            /\ job' = [NoJob EXCEPT !.kind = "restore", !.step = "scan",
                                    !.view = host, !.res = res]
  BY DEF ReloadLooks, RecoversAsk, SettlesAt, Ends
<1>3. t \in States /\ Meek(w, t)
  <2>1. t \in {w, Claim(w, host)} BY DEF AdmitCurrentLocation, Outcome
  <2>2. Claim(w, host) \in States BY <1>1, ClaimTame DEF Tame
  <2>3. Meek(w, t) BY <1>1, AdmitCurrentMeek
  <2> QED BY <1>1, <2>1, <2>2, <2>3
<1> HIDE DEF res, t
<1>4. p \in States /\ Meek(t, p) BY <1>1, <1>3, CompositesTame, ProtectMeek DEF Tame
<1>5. Employs("restore") /\ Serving("ask", Others) BY <1>1, <1>2, AskTurn
<1> HIDE DEF p
<1>6. Meek(w, p) /\ Meek(w, w) BY <1>3, <1>4, KeptTwice
<1>7. Kept(w, t, NoEntry) /\ Kept(w, p, NoEntry) /\ Kept(w, w, NoEntry)
  BY <1>3, <1>6, KeptTwice
<1> QED BY <1>1, <1>2, <1>3, <1>4, <1>5, <1>6, <1>7, AskKept

(* The first checkpoint of a coordinate, or the one that is adopted: where *)
(* nothing is resolved any files are home.                                 *)
LEMMA AdmitsFirstKept ==
  ASSUME ProtocolInv, HomeInv, QueueInv, RestoreFrame, job.kind = "restore", job' = NoJob,
         NEW s \in States, Sole(w, s, Here), FirstIsDue, AdmitsFirst(s)
  PROVE  QueueInv' /\ KeptRightly
<1> DEFINE res == [at |-> Here, tree |-> job.seen]
           o == AdmitLocationIfResolution(s, host, res)
<1>1. w \in States /\ host \in Views /\ Typed /\ "ask" \in Handlers
  BY StableHandlers DEF ProtocolInv, Typed
<1>2. SettlesOr(o, queue, RecoversInLock(o.state, "ask", queue)) BY DEF AdmitsFirst
<1>3. o.state \in States /\ Kept(s, o.state, NoEntry)
  <2> HIDE DEF res
  <2> QED BY <1>1, AdmitLocationTame, AdmitLocationKept
<1> HIDE DEF o
<1>4. Kept(s, w', NoEntry) BY <1>1, <1>2, <1>3, SettlesKept
<1>5. Kept(w, w', Here) BY <1>4, KeptTwice
<1>6. Here = NoEntry \/ Rightful(Here)
  <2>1. Resolve(w.slots, Here) = Missing BY DEF FirstIsDue, Exact, Here
  <2>2. Here # NoEntry => home = Here BY <2>1, UnresolvedIsHome DEF HomeInv
  <2> QED BY <2>2 DEF Rightful
<1>7. Here \in Coordinates BY <1>1, AtTyped DEF Here, Coordinates
<1>8. KeptRightly /\ (w'.active => w.active) BY <1>5, <1>6, <1>7, RightlyAt
<1>9. Employs("restore") /\ Serving("ask", queue) BY <1>1, AskTurn
<1>10. Owing("ask", queue) BY <1>1, <1>2, <1>9, SettlesAttends
<1>11. Attends("ask") BY <1>10 DEF Attends
<1> QED BY <1>8, <1>9, <1>11, RestoreGoesKept

LEMMA AdoptsKept ==
  ASSUME ProtocolInv, HomeInv, QueueInv, RestoreFrame, Adopts \/ Initializes
  PROVE  QueueInv' /\ KeptRightly
<1> DEFINE s == Captured(w, Here, job.seen)
           after == AfterCapture(w, Here, OpenMissing, job.seen)
           done == CaptureVerdict(w, Here, OpenMissing) = "committed"
           p == ProtectNode(after, host)
<1>1. w \in States /\ host \in Views /\ Typed /\ job \in Jobs BY DEF ProtocolInv, Typed
<1>2. job.kind = "restore" /\ job' = NoJob BY DEF Adopts, Initializes, Runs, Ends
<1>3. job.seen \in Trees \cup {NoTree} BY <1>1 DEF Jobs
<1>4. after \in States BY <1>1, <1>3, AfterCaptureTame
<1>5. (done => Sole(w, after, Here)) /\ (~ done => Meek(w, after)) /\ Sole(w, s, Here)
  BY <1>1, AfterCaptureKept
<1>6. p \in States /\ Meek(after, p)
  BY <1>1, <1>4, CompositesTame, ProtectMeek DEF Tame
<1>7. CanAdopt(w.slots[Here]) => s \in States
  <2>1. CanAdopt(w.slots[Here]) => ~ HasTree(w.slots[Here])
    BY DEF CanAdopt, BlockedMissing, HasTree
  <2> QED BY <1>1, <1>3, <2>1, CapturedTame
<1>8. \/ Abandons(w, queue)
      \/ FirstIsDue /\ CanAdopt(w.slots[Here]) /\ AdmitsFirst(s)
      \/ FirstIsDue /\ done /\ AdmitsFirst(after)
      \/ ~ done /\ w' = p /\ Goes(queue)
      \/ ~ done /\ Abandons(after, queue)
  BY DEF Adopts, Initializes, SettlesAt
<1> HIDE DEF s, after, done, p
<1>9. ~ done => Meek(w, p) BY <1>5, <1>6, KeptTwice
<1>10. Meek(w, w) /\ (~ done => Kept(w, p, NoEntry)) BY <1>9, KeptTwice
<1>11. Employs("restore") /\ Serving("ask", queue) BY <1>1, <1>2, AskTurn
<1>12. CASE FirstIsDue /\ CanAdopt(w.slots[Here]) /\ AdmitsFirst(s)
  BY <1>2, <1>5, <1>7, <1>12, AdmitsFirstKept
<1>13. CASE FirstIsDue /\ done /\ AdmitsFirst(after)
  BY <1>2, <1>4, <1>5, <1>13, AdmitsFirstKept
<1> QED BY <1>1, <1>4, <1>5, <1>6, <1>8, <1>10, <1>11, <1>12, <1>13, AskKept

LEMMA RestoreKept ==
  ASSUME ProtocolInv, HomeInv, QueueInv, RestoreNext
  PROVE  QueueInv' /\ (KeptRightly \/ w'.slots = w.slots)
<1>1. RestoreFrame BY DEF RestoreNext, RestoreFrame
<1>2. \/ RestoreCommand
      \/ \E mode \in {"loaded", "reload"} : SessionStart(mode)
      \/ RestoreLooks \/ RestoreScans \/ RestoreMatches \/ RestoreAnswered
      \/ RestoreRechecks \/ RestoreRescans
      \/ InitializeBegins \/ FirstScans \/ Adopts \/ Initializes
      \/ ReloadLooks \/ ReloadScans \/ ReloadSettles \/ RestoreFails
  BY DEF RestoreNext
<1> QED BY <1>1, <1>2, RestoreCommandKept, SessionStartKept, RestoreLooksKept,
           RestorePlainKept, RestoreAgainKept, RestoreMatchesKept, ReloadLooksKept, AdoptsKept
-----------------------------------------------------------------------------
(* The invariant, and what it says of captures.                            *)

LEMMA NextQueue ==
  ASSUME ProtocolInv, HomeInv, QueueInv, Next
  PROVE  QueueInv' /\ (KeptRightly \/ w'.slots = w.slots)
<1>1. ASSUME NEW e \in Entries, HostAppend(e) PROVE QueueInv' /\ w' = w
  BY <1>1, AppendQueue DEF HostAppend, runtimeVars
<1>2. ASSUME NEW t \in Coordinates, NEW s \in Coordinates, HostNavigate(t, s)
      PROVE  QueueInv' /\ w' = w
  BY <1>2, NavigateQueue DEF HostNavigate, runtimeVars
<1>3. CASE HostStays \/ \E tree \in Trees : UserEdits(tree)
  <2>1. w' = w BY <1>3 DEF HostStays, UserEdits, runtimeVars
  <2> QED BY <1>3, <2>1, UserQueue
<1>4. CASE Crash
  <2>1. w' = Withdrawn(w) BY <1>4 DEF Crash
  <2>2. w \in States BY DEF ProtocolInv, Typed
  <2>3. Meek(w, w') BY <2>1, <2>2, RowsMeek
  <2> QED BY <1>4, <2>3, CrashQueue, RightlyOfMeek
<1>5. ASSUME NEW h \in Handlers, Protects(h) PROVE QueueInv' /\ KeptRightly
  BY <1>5, ProtectsQueue, RightlyOfMeek
<1>6. CASE CaptureNext BY <1>6, CaptureKept
<1>7. CASE MutationNext BY <1>7, MutationKept
<1>8. CASE DepartureNext BY <1>8, DepartureKept
<1>9. CASE ArrivalNext BY <1>9, ArrivalKept
<1>10. CASE RestoreNext BY <1>10, RestoreKept
<1> QED BY <1>1, <1>2, <1>3, <1>4, <1>5, <1>6, <1>7, <1>8, <1>9, <1>10 DEF Next, HostNext

LEMMA StutterQueue ==
  ASSUME QueueInv, UNCHANGED vars
  PROVE  QueueInv'
<1>1. /\ w' = w /\ host' = host /\ event' = event /\ job' = job /\ call' = call
      /\ trip' = trip /\ arr' = arr /\ queue' = queue /\ owed' = owed
  BY DEF vars, hostVars, handlers
<1>2. CallInLine' BY <1>1 DEF QueueInv, CallInLine, Free
<1>3. ArrInLine' BY <1>1 DEF QueueInv, ArrInLine, Free
<1>4. TripDue' BY <1>1 DEF QueueInv, TripDue
<1>5. CallPlace'
  BY <1>1 DEF QueueInv, CallPlace, Awaited, ArrivesLater, Here, Free
<1> QED BY <1>2, <1>3, <1>4, <1>5 DEF QueueInv

LEMMA QueueInvariant == Spec => [](ProtocolInv /\ HomeInv /\ QueueInv)
<1>1. Init => QueueInv BY InitQueue
<1>2. ProtocolInv /\ HomeInv /\ QueueInv /\ [Next]_vars => QueueInv'
  BY NextQueue, StutterQueue
<1> QED BY <1>1, <1>2, HomeInvariant, PTL DEF Spec

(* While no protection is owed, every tree newly recorded for capture is   *)
(* of files that belong at the coordinate it is recorded at, or is what an *)
(* arrival found where nothing was resolved, whatever Pi, the user and     *)
(* other handlers did since the capture was called.                        *)
THEOREM CapturesAreOfHomeFiles == Spec => CapturesBelong
<1>1. ASSUME ProtocolInv, HomeInv, QueueInv, [Next]_vars,
             NEW e \in Entries, \A h \in Handlers : Free(h),
             ~ IsBlocked(w'.slots[e]), w'.slots[e].tree # w.slots[e].tree
      PROVE  home = e \/ (Arriving /\ Resolve(w.slots, e) = Missing)
  <2>1. w'.slots # w.slots BY <1>1
  <2>2. Next BY <1>1, <2>1 DEF vars
  <2>3. KeptRightly BY <1>1, <2>1, <2>2, NextQueue
  <2>4. PICK d \in Coordinates : Kept(w, w', d) /\ (d = NoEntry \/ Rightful(d))
    BY <2>3 DEF KeptRightly
  <2>5. d = e BY <1>1, <2>4 DEF Kept
  <2>6. e # NoEntry BY NoEntryAssumption
  <2>7. ~ Unpaid BY <1>1 DEF Unpaid
  <2> QED BY <2>4, <2>5, <2>6, <2>7 DEF Rightful
<1>2. ProtocolInv /\ HomeInv /\ QueueInv /\ [Next]_vars =>
        \A e \in Entries :
             /\ \A h \in Handlers : Free(h)
             /\ ~ IsBlocked(w'.slots[e]) /\ HasTree(w'.slots[e])
             /\ w'.slots[e].tree # w.slots[e].tree
           => \/ home = e
              \/ Arriving /\ Resolve(w.slots, e) = Missing
  BY <1>1
<1>3. ProtocolInv /\ HomeInv /\ QueueInv /\ [Next]_vars =>
        [\A e \in Entries :
             /\ \A h \in Handlers : Free(h)
             /\ ~ IsBlocked(w'.slots[e]) /\ HasTree(w'.slots[e])
             /\ w'.slots[e].tree # w.slots[e].tree
           => \/ home = e
              \/ Arriving /\ Resolve(w.slots, e) = Missing]_vars
  BY <1>2
<1> QED BY <1>3, QueueInvariant, PTL DEF Spec, CapturesBelong
=============================================================================
