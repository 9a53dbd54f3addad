------------------------- MODULE NavigationProtocol -------------------------
(***************************************************************************)
(* Leaving a location and arriving at another.  session_before_tree        *)
(* decides in one workspace execution what the departure means for source  *)
(* and target, asks the user when files would change, and commits in a     *)
(* second one; Pi moves; session_tree settles the target in a third.       *)
(* navigation-lifecycle.ts, navigation-departure-protocol.ts and           *)
(* tree-arrival-protocol.ts.                                               *)
(***************************************************************************)
EXTENDS MutationProtocol

CONSTANTS ThisPlan, ThisAttempt

ASSUME TokenAssumption == ThisPlan \in Plans /\ ThisAttempt \in Attempts

Source == At(trip.view)

(* The slots between source and target say nothing: what source records is *)
(* what target will resolve to.                                            *)
InheritsSource(s, source, target) ==
    /\ source \in Ancestors(target)
    /\ \A e \in Ancestors(target) \ Ancestors(source) : s.slots[e] = OpenMissing

(* classifyTarget.                                                         *)
TargetKind(s, source, target, sourceKind, resolved) ==
    IF target = NoEntry THEN "no-node"
    ELSE IF target = source THEN "same-location"
    ELSE IF IsBlocked(s.slots[target])
      THEN IF resolved THEN "restore" ELSE "protected-missing"
    ELSE IF sourceKind = "capture" /\ InheritsSource(s, source, target)
      THEN "inherit-source"
    ELSE IF resolved THEN "restore"
    ELSE IF sourceKind = "write-protected" THEN "protected-missing"
    ELSE "materialize-missing"

(* preparedTargetStillMatches.                                             *)
TargetStillMatches(s) ==
    LET kind == TargetKind(s, Source, trip.target, trip.source, trip.res # Missing)
    IN  /\ kind = IF trip.kind = "detach" THEN "restore" ELSE trip.kind
        /\ \/ kind \in {"no-node", "inherit-source", "same-location"}
           \/ EffectiveAt(s, trip.target) = trip.res
-----------------------------------------------------------------------------
(* The departure.                                                          *)

CancelsQuietly(s, q) ==
    /\ w' = s
    /\ trip' = NoTrip
    /\ Ends
    /\ Goes(q)

Cancels(s, q) ==
    /\ w' = WithAdmission(s, FinishPreparation(s.adm, DepartPrep))
    /\ trip' = NoTrip
    /\ Ends
    /\ Goes(q)

DepartureCalled(t) ==
    /\ "departure" \in uses
    /\ w.active
    /\ trip = NoTrip /\ Free("trip")
    /\ ~ event.due /\ arr = NoArrival /\ Free("arr")
    /\ t \in host.graph \cup {NoEntry}
    /\ w' = WithAdmission(w, BeginPreparation(w.adm, DepartPrep))
    /\ IF MayPrepare(w)
         THEN /\ trip' = [NoTrip EXCEPT !.phase = "queued", !.view = host, !.target = t]
              /\ Goes(Waits(queue, "trip"))
         ELSE UNCHANGED trip /\ Stays
    /\ UNCHANGED job

DepartureLooks ==
    LET b == Boundary(w, trip.view, DepartOp)
    IN  /\ IsNext("trip")
        /\ trip.phase = "queued"
        /\ \/ ~ Exact(trip.view) /\ Cancels(w, Others)
           \/ Exact(trip.view) /\ b.kind = "not-admitted" /\ Cancels(b.state, Others)
           \/ /\ Exact(trip.view) /\ b.kind # "not-admitted"
              /\ w' = b.state
              /\ trip' = [trip EXCEPT
                            !.phase = "looking", !.source = b.kind,
                            !.slot = IF b.kind = "capture" THEN w.slots[Here] ELSE @]
              /\ Begins("departure", IF b.kind = "capture" THEN "scan" ELSE "preview",
                        trip.view)
              /\ Goes(Others)

DepartureScans ==
    /\ Runs("departure", "scan")
    /\ \/ ~ Exact(trip.view) /\ Cancels(w, queue)
       \/ /\ Exact(trip.view)
          /\ trip' = [trip EXCEPT !.seen = content]
          /\ StepsTo("preview")
          /\ UNCHANGED w /\ Stays

(* Only a target whose checkpoint would replace files is asked about.      *)
DeparturePreviews ==
    LET kind == TargetKind(w, Source, trip.target, trip.source, FALSE)
        res  == Readable(w, trip.target)
    IN  /\ Runs("departure", "preview")
        /\ Ends
        /\ UNCHANGED w
        /\ trip' = IF kind \in {"no-node", "same-location", "inherit-source"} \/ res = Missing
                     THEN [trip EXCEPT !.phase = "answered", !.kind = kind]
                     ELSE [trip EXCEPT
                             !.phase = IF content = res.tree THEN "answered" ELSE "asked",
                             !.kind = "restore", !.res = res, !.shown = content]
        /\ Goes(IF trip'.phase = "asked" THEN queue ELSE Waits(queue, "trip"))

DepartureAnswered ==
    /\ trip.phase = "asked"
    /\ \/ /\ trip' \in {[trip EXCEPT !.phase = "answered"],
                        [trip EXCEPT !.phase = "answered", !.kind = "detach"]}
          /\ UNCHANGED <<w, job>> /\ Goes(Waits(queue, "trip"))
       \/ /\ w' = WithAdmission(w, FinishPreparation(w.adm, DepartPrep))
          /\ trip' = NoTrip
          /\ UNCHANGED job /\ Stays

DepartureRechecks ==
    LET b == Boundary(w, trip.view, DepartOp)
        same == /\ b.kind = trip.source
                /\ b.kind = "capture" => w.slots[Here] = trip.slot
    IN  /\ IsNext("trip")
        /\ trip.phase = "answered"
        /\ \/ ~ Exact(trip.view) /\ Cancels(w, Others)
           \/ Exact(trip.view) /\ ~ same /\ Cancels(b.state, Others)
           \/ /\ Exact(trip.view) /\ same
              /\ w' = b.state
              /\ trip' = [trip EXCEPT !.phase = "leaving"]
              /\ Begins("departure", "rescan", trip.view)
              /\ Goes(Others)

DepartureLeased == CaptureLeaseIsCurrent(w, trip.view, DepartOp)

DepartureRescans ==
    LET current == /\ trip.source = "capture" =>
                        content = trip.seen /\ Exact(trip.view) /\ DepartureLeased
                   /\ trip.kind = "restore" => content = trip.shown
                   /\ TargetStillMatches(w)
    IN  /\ Runs("departure", "rescan")
        /\ \/ ~ current /\ Cancels(w, queue)
           \/ /\ current
              /\ StepsTo(IF trip.source = "capture" THEN "publish" ELSE "settle")
              /\ UNCHANGED <<w, trip>> /\ Stays

(* prepareObservedCapture: published, then compared with the files again.  *)
DeparturePublishes ==
    /\ Runs("departure", "publish")
    /\ \/ content # trip.seen /\ Cancels(w, queue)
       \/ content = trip.seen /\ StepsTo("commit") /\ UNCHANGED <<w, trip>> /\ Stays

DepartureCommits ==
    LET verdict == CaptureVerdict(w, Source, trip.slot)
        after   == AfterCapture(w, Source, trip.slot, trip.seen)
        leased  == Exact(trip.view) /\ DepartureLeased
    IN  /\ Runs("departure", "commit")
        /\ \/ ~ leased /\ Cancels(w, queue)
           \/ leased /\ verdict = "slot-changed" /\ Cancels(w, queue)
           \/ /\ leased /\ verdict \in {"settled", "blocked"}
              /\ Cancels(ProtectNode(after, host), queue)
           \/ /\ leased /\ verdict = "committed"
              /\ w' = after
              /\ StepsTo("settle")
              /\ UNCHANGED trip /\ Stays

DepartureSettles ==
    LET current == /\ Exact(trip.view)
                   /\ trip.source = "capture" => DepartureLeased
                   /\ TargetStillMatches(w)
    IN  /\ Runs("departure", "settle")
        /\ \/ ~ current /\ Cancels(w, queue)
           \/ /\ current
              /\ trip' = [trip EXCEPT !.phase = "ready"]
              /\ Ends
              /\ UNCHANGED w /\ Stays

PlanOf(t) ==
    [old |-> t.view.leaf, destination |-> t.target, kind |-> t.kind,
     res |-> IF t.kind = "inherit-source"
               THEN [at |-> At(t.view), tree |-> t.seen] ELSE t.res,
     preview |-> CASE t.kind = "restore" -> t.shown
                   [] t.kind = "inherit-source" -> t.seen
                   [] OTHER -> NoTree]

(* runTreePreparation publishes the proposal and lets Pi go.               *)
DepartureProposed ==
    /\ trip.phase = "ready"
    /\ w' = WithAdmission(w, Propose(w.adm, DepartPrep, ThisPlan))
    /\ IF w'.adm.proposal = ThisPlan
         THEN trip' = [trip EXCEPT !.phase = "accepted"] /\ plan' = PlanOf(trip)
         ELSE trip' = NoTrip /\ UNCHANGED plan
    /\ UNCHANGED job /\ Stays

(* A failed scan or an exception ends the participation; a cancelled or    *)
(* busy departure only itself.                                             *)
DepartureFails ==
    /\ "failures" \in uses
    /\ job.kind = "departure"
    /\ \/ Cancels(w, queue)
       \/ Withdraws(w, "trip", queue) /\ trip' = NoTrip /\ Ends

DepartureNext ==
    /\ \/ /\ \/ \E t \in Coordinates : DepartureCalled(t)
             \/ DepartureLooks \/ DepartureScans \/ DeparturePreviews
             \/ DepartureAnswered \/ DepartureRechecks \/ DepartureRescans
             \/ DeparturePublishes \/ DepartureCommits \/ DepartureSettles
             \/ DepartureFails
          /\ UNCHANGED plan
       \/ DepartureProposed
    /\ UNCHANGED <<hostVars, call, arr, ask>>
-----------------------------------------------------------------------------
(* The arrival.  session_tree takes the authority over at once.            *)

Authentic(a) ==
    /\ a.plan # NoPlan
    /\ plan.old = event.old
    /\ event.new = host.leaf
    /\ plan.destination = event.landing

NothingMoves ==
    \/ event.new = event.old
    \/ plan.kind = "same-location" /\ Here = plan.destination

TreeEvent ==
    LET a == BeginTreeArrival(w.adm, ThisAttempt)
        begun == WithAdmission(w, a)
        carried == WithAdmission(w, CarryArrival(a, ThisAttempt, host))
    IN  /\ event.due
        /\ event' = NoEvent
        /\ plan' = NothingPlanned
        /\ UNCHANGED job
        /\ \/ ~ w.active /\ UNCHANGED <<w, arr>> /\ Stays
           \/ /\ w.active
              /\ ~ Authentic(a) \/ "failures" \in uses
              /\ OwesRecovery(begun, "arr", queue)
              /\ UNCHANGED arr
           \/ /\ w.active /\ Authentic(a) /\ NothingMoves
              /\ SettlesOr(Outcome(CanCarryArrival(a, ThisAttempt, host), carried),
                           queue, OwesRecovery(carried, "arr", queue))
              /\ UNCHANGED arr
           \/ /\ w.active /\ Authentic(a) /\ ~ NothingMoves
              /\ w' = begun
              /\ arr' = [phase |-> "queued", attempt |-> ThisAttempt, view |-> host,
                         plan |-> plan]
              /\ Goes(Waits(queue, "arr"))

ArrivalEnds == arr' = NoArrival /\ Ends

ArrivalGivesUp(q) == ArrivalEnds /\ w' = w /\ Goes(q)

ArrivalRecovers(q) == ArrivalEnds /\ OwesRecovery(w, "arr", q)

ArrivalSettlesBy(outcome, q) ==
    ArrivalEnds /\ SettlesOr(outcome, q, OwesRecovery(outcome.state, "arr", q))

Landed == At(arr.view)

(* The arrivals that record a checkpoint where there was none: at the      *)
(* planned target, or at a summary Pi appended at the root or below the    *)
(* same location.                                                          *)
Materializes ==
    \/ arr.plan.kind \in {"materialize-missing", "same-location"}
    \/ arr.plan.kind = "no-node" /\ Landed # NoEntry

MissingTarget ==
    IF arr.plan.kind = "materialize-missing" THEN arr.plan.destination ELSE Landed

MayMaterialize ==
    /\ ~ IsBlocked(w.slots[MissingTarget])
    /\ \/ arr.plan.kind = "same-location"
       \/ Resolve(w.slots, MissingTarget) = Missing

ArrivalGoesOn == ArrivalCanProceed(w.adm, arr.attempt, arr.view)

ArrivalBegins ==
    LET goesOn == Exact(arr.view) /\ ArrivalGoesOn
        starts(step) == /\ Begins("arrival", step, arr.view)
                        /\ arr' = [arr EXCEPT !.phase = "running"]
                        /\ UNCHANGED w /\ Goes(Others)
    IN  /\ IsNext("arr")
        /\ arr.phase = "queued"
        /\ \/ ~ goesOn /\ ArrivalRecovers(Others)
           \/ /\ goesOn /\ arr.plan.kind = "protected-missing"
              /\ ArrivalSettlesBy(ProtectTreeArrival(w, arr.attempt, host), Others)
           \/ /\ goesOn /\ arr.plan.kind = "no-node" /\ ~ Materializes
              /\ ArrivalSettlesBy(AdmitCurrentTreeArrival(w, arr.attempt, host), Others)
           \/ goesOn /\ arr.plan.kind = "detach" /\ starts("settle")
           \/ /\ goesOn /\ Materializes
              /\ \/ /\ IsBlocked(w.slots[MissingTarget])
                    /\ ArrivalSettlesBy(ProtectTreeArrival(w, arr.attempt, host), Others)
                 \/ ~ IsBlocked(w.slots[MissingTarget]) /\ ~ MayMaterialize
                      /\ ArrivalRecovers(Others)
                 \/ MayMaterialize /\ starts("scan")
           \/ goesOn /\ arr.plan.kind \in {"inherit-source", "restore"} /\ starts("scan")

ArrivalScansBlindly ==
    /\ Runs("arrival", "scan")
    /\ job' = [job EXCEPT !.step = "settle", !.seen = content]
    /\ UNCHANGED <<w, arr>> /\ Stays

(* What the departure previewed must still be there.                       *)
ArrivalScans ==
    /\ Runs("arrival", "scan")
    /\ \/ /\ Materializes \/ content = arr.plan.preview
          /\ job' = [job EXCEPT !.step = "settle", !.seen = content]
          /\ UNCHANGED <<w, arr>> /\ Stays
       \/ ~ Materializes /\ content # arr.plan.preview /\ ArrivalRecovers(queue)

ArrivalDetaches ==
    LET o == ProtectTreeArrival(w, arr.attempt, host)
        found == /\ Exact(arr.view)
                 /\ Readable(w, Landed) = arr.plan.res
    IN  /\ Runs("arrival", "settle")
        /\ arr.plan.kind = "detach"
        /\ \/ ~ found /\ ArrivalRecovers(queue)
           \/ found /\ ArrivalSettlesBy(o, queue)

(* commitTreeArrivalCapture and settleCheckpointInitialization.            *)
ArrivalMaterializes ==
    LET slot    == w.slots[MissingTarget]
        verdict == CaptureVerdict(w, MissingTarget, slot)
        after   == AfterCapture(w, MissingTarget, slot, job.seen)
        res     == [at |-> MissingTarget, tree |-> job.seen]
        o       == AdmitTreeArrivalIfResolution(after, arr.attempt, host, res)
        current == Exact(arr.view) /\ MayMaterialize /\ w.active /\ ArrivalGoesOn
    IN  /\ Runs("arrival", "settle")
        /\ Materializes
        /\ \/ ~ current /\ ArrivalRecovers(queue)
           \/ /\ current /\ verdict \in {"settled", "blocked"}
              /\ ArrivalSettlesBy(ProtectTreeArrival(after, arr.attempt, host), queue)
           \/ /\ current /\ verdict = "committed"
              /\ ArrivalEnds
              /\ SettlesOr(o, queue, RecoversInLock(o.state, "arr", queue))

ArrivalInherits ==
    LET o == AdmitTreeArrivalIfResolution(w, arr.attempt, host, arr.plan.res)
        current == /\ Exact(arr.view)
                   /\ Resolve(w.slots, arr.plan.destination) = arr.plan.res
    IN  /\ Runs("arrival", "settle")
        /\ arr.plan.kind = "inherit-source"
        /\ \/ ~ current /\ ArrivalRecovers(queue)
           \/ current /\ ArrivalSettlesBy(o, queue)

ArrivalRestores ==
    LET current == /\ Exact(arr.view)
                   /\ Resolve(w.slots, arr.plan.destination) = arr.plan.res
                   /\ Landed # NoEntry
        allowed == w.active /\ ArrivalGoesOn
    IN  /\ Runs("arrival", "settle")
        /\ arr.plan.kind = "restore"
        /\ \/ ~ current /\ ArrivalRecovers(queue)
           \/ current /\ ~ allowed /\ ArrivalEnds /\ ProtectsArrivalOrRecovers(w)
           \/ /\ current /\ allowed
              /\ job' = [job EXCEPT
                           !.step = IF job.seen = arr.plan.res.tree
                                      THEN "noop" ELSE "cutover",
                           !.res = arr.plan.res]
              /\ UNCHANGED <<w, arr>> /\ Stays

ArrivalFails ==
    /\ "failures" \in uses
    /\ job.kind = "arrival"
    /\ job.step \in {"scan", "settle"}
    /\ ArrivalRecovers(queue)

ArrivalNext ==
    /\ \/ TreeEvent
       \/ /\ \/ ArrivalBegins \/ ArrivalScans \/ ArrivalDetaches
             \/ ArrivalMaterializes \/ ArrivalInherits \/ ArrivalRestores
             \/ ArrivalFails
          /\ UNCHANGED <<event, plan>>
    /\ UNCHANGED <<host, content, edits, moves, call, trip, ask>>
=============================================================================
