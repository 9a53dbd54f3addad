------------------------ MODULE CheckpointAdmission ------------------------
(***************************************************************************)
(* Who may capture now: the in-memory authority of one runtime             *)
(* (src/src/pi/checkpoint-admission.ts), as a value.                       *)
(*                                                                         *)
(* Every operation is a function of the authority and of the snapshot of   *)
(* the session it is given.  A lease, a proposal or an arrival attempt     *)
(* belongs to one state of the authority: as soon as that state is         *)
(* replaced, even by an equal one, the lease is worthless, so `leases'     *)
(* holds the leases of the present state and nothing else.                 *)
(***************************************************************************)
EXTENDS CheckpointSlots

CONSTANTS
    Labels,      \* transparent entries (labels), which are no coordinate
    Under,       \* Under[l]: the stable coordinate a label hangs below
    NoView,
    Ops,         \* capture operations that may hold a lease
    Preps,       \* cancellable preparations
    NoPrep,
    Plans,       \* navigation plans
    NoPlan,
    Attempts,    \* tree arrivals
    NoAttempt

ASSUME LabelAssumption ==
    /\ Labels \cap (Entries \cup {NoEntry}) = {}
    /\ Under \in [Labels -> Entries \cup {NoEntry}]
ASSUME NoTokenAssumption ==
    NoPrep \notin Preps /\ NoPlan \notin Plans /\ NoAttempt \notin Attempts
-----------------------------------------------------------------------------
(* Session snapshots: the entries of the session file and the raw leaf.    *)

Raw == Entries \cup Labels

Views == [graph : SUBSET Raw, leaf : Raw \cup {NoEntry}]

ASSUME NoViewAssumption == NoView \notin Views

(* The stable coordinate of a raw entry: a label stands for what it hangs  *)
(* below, and the root for nothing.                                        *)
StableOf(r) == IF r \in Labels THEN Under[r] ELSE r

At(v) == StableOf(v.leaf)

Line(e) == IF e = NoEntry THEN {} ELSE Ancestors(e)

Extends(v, u) == u.graph \subseteq v.graph

(* The leaf of v was appended after u was read, and the nearest coordinate *)
(* above it that u knows is the leaf of u.                                 *)
NaturalDescendant(v, u) ==
    /\ At(v) \in Entries \ u.graph
    /\ Ancestors(At(v)) \cap u.graph = Line(At(u))
-----------------------------------------------------------------------------
(* The authority.                                                          *)

Authorities ==
    [kind : {"closed", "live", "arrival"},
     view : Views \cup {NoView},        \* live observation, or where an arrival came from
     attempt : Attempts \cup {NoAttempt},
     plan : Plans \cup {NoPlan},        \* the plan handed to the arrival
     proposal : Plans \cup {NoPlan},
     origin : Views \cup {NoView},      \* the live observation behind the proposal
     preparing : Preps \cup {NoPrep},
     leases : SUBSET Ops]

NoAuthority ==
    [kind |-> "closed", view |-> NoView, attempt |-> NoAttempt, plan |-> NoPlan,
     proposal |-> NoPlan, origin |-> NoView, preparing |-> NoPrep, leases |-> {}]

WithoutProposal(a) == [a EXCEPT !.proposal = NoPlan, !.origin = NoView]

(* reset() also invalidates the preparation that is under way.             *)
Reset(a) == NoAuthority

LiveAt(a, v) ==
    [a EXCEPT !.kind = "live", !.view = v, !.attempt = NoAttempt,
              !.plan = NoPlan, !.leases = {}]

(* One preparation at a time; a proposal nobody has used yet makes the     *)
(* next preparation fail once and is gone.                                 *)
BeginPreparationBeside(a, p) ==
    IF a.preparing # NoPrep THEN a ELSE [a EXCEPT !.preparing = p]

BeginPreparation(a, p) ==
    IF a.preparing # NoPrep THEN a
    ELSE IF a.proposal # NoPlan THEN WithoutProposal(a)
    ELSE [a EXCEPT !.preparing = p]

FinishPreparation(a, p) ==
    IF a.preparing = p THEN [a EXCEPT !.preparing = NoPrep] ELSE a

Propose(a, p, plan) ==
    IF a.preparing # p \/ a.kind # "live" THEN FinishPreparation(a, p)
    ELSE IF a.proposal # NoPlan THEN FinishPreparation(WithoutProposal(a), p)
    ELSE [a EXCEPT !.proposal = plan, !.origin = a.view, !.preparing = NoPrep]

InTransition(a) == a.preparing # NoPrep \/ a.kind = "arrival"

RejectTransitionConflict(a) == IF InTransition(a) THEN a ELSE WithoutProposal(a)

CanClaim(a) == ~ InTransition(a) /\ a.proposal = NoPlan

ClaimDuringArrival(a, v) ==
    IF a.preparing # NoPrep THEN a
    ELSE IF a.proposal # NoPlan THEN WithoutProposal(a)
    ELSE LiveAt(Reset(a), v)

ClaimOrdinaryMutation(a, v) ==
    IF CanClaim(a) THEN LiveAt(Reset(a), v) ELSE RejectTransitionConflict(a)

BeginTreeArrival(a, h) ==
    [NoAuthority EXCEPT
        !.kind = "arrival",
        !.attempt = h,
        !.view = IF a.kind # "live" THEN NoView
                 ELSE IF a.proposal # NoPlan THEN a.origin ELSE a.view,
        !.plan = IF a.kind = "live" THEN a.proposal ELSE NoPlan]

ArrivalIsCurrent(a, h) == a.kind = "arrival" /\ a.attempt = h

CloseArrival(a, h) == IF ArrivalIsCurrent(a, h) THEN Reset(a) ELSE a

ArrivalCanProceed(a, h, v) ==
    ArrivalIsCurrent(a, h) /\ a.view # NoView /\ Extends(v, a.view)

SettleArrival(a, h, v) ==
    IF ArrivalIsCurrent(a, h)
      THEN LiveAt([a EXCEPT !.preparing = NoPrep], v)
      ELSE a

AdmitArrival(a, h, v) ==
    IF ArrivalCanProceed(a, h, v) THEN SettleArrival(a, h, v) ELSE CloseArrival(a, h)

CanCarryArrival(a, h, v) == ArrivalCanProceed(a, h, v) /\ At(a.view) = At(v)

CarryArrival(a, h, v) ==
    IF CanCarryArrival(a, h, v) THEN SettleArrival(a, h, v) ELSE CloseArrival(a, h)

(* decideCapture.  A label moves the raw leaf and not the coordinate: the  *)
(* authority is carried to the new snapshot.                               *)
Carried(a, v) ==
    IF a.view.leaf # v.leaf /\ At(a.view) = At(v) THEN LiveAt(a, v) ELSE a

Decision(a, v, protected) ==
    IF a.kind # "live" THEN "not-admitted"
    ELSE IF ~ Extends(v, a.view) THEN "not-admitted"
    ELSE IF At(v) = NoEntry
           THEN IF At(a.view) = NoEntry THEN "no-coordinate" ELSE "not-admitted"
    ELSE IF At(v) # At(a.view) /\ ~ NaturalDescendant(v, a.view) THEN "not-admitted"
    ELSE IF protected THEN "write-protected"
    ELSE "capture"

Decided(a, v, protected, o) ==
    LET b == IF At(v) = At(a.view) THEN Carried(a, v) ELSE LiveAt(a, v)
    IN  CASE a.kind # "live" -> a
          [] a.kind = "live" /\ Decision(a, v, protected) = "not-admitted" -> Reset(a)
          [] Decision(a, v, protected) = "capture" -> [b EXCEPT !.leases = @ \cup {o}]
          [] OTHER -> b

LeaseByLocation(a, o, v) ==
    /\ a.kind = "live"
    /\ Extends(v, a.view)
    /\ a.view.leaf = v.leaf

LeaseIsCurrent(a, o, v) == o \in a.leases /\ LeaseByLocation(a, o, v)

CanCutover(a, v) == a.kind = "live" /\ a.view = v
=============================================================================
