------------------------- MODULE MutationAuthority -------------------------
(***************************************************************************)
(* What every settlement of a workspace mutation does to the runtime's     *)
(* authority and to the recorded slots in one synchronous step under the   *)
(* workspace lock (src/src/pi/workspace-mutation-authority.ts), as         *)
(* functions of the state s they find and the session snapshot v they      *)
(* read:                                                                   *)
(*   slots, barrier   the database rows of this session (durable)          *)
(*   adm, active      the capture authority and the participation of the   *)
(*                    runtime (lost with the process)                      *)
(*                                                                         *)
(* The registration of the session is taken to hold: losing it makes these *)
(* operations fail, which their callers' failure steps stand for.          *)
(***************************************************************************)
EXTENDS CheckpointAdmission

States ==
    [slots : [Entries -> Slot], barrier : BOOLEAN,
     adm : Authorities, active : BOOLEAN]

EffectiveAt(s, e) == IF e = NoEntry THEN Missing ELSE Resolve(s.slots, e)

Effective(s, v) == EffectiveAt(s, At(v))

LocationIsBlocked(s, v) == At(v) # NoEntry /\ IsBlocked(s.slots[At(v)])

OpenAt(s, v) == ~ s.barrier /\ ~ LocationIsBlocked(s, v)

WithAdmission(s, a) == [s EXCEPT !.adm = a]

Quarantined(s) == WithAdmission(s, Reset(s.adm))

(* Participation ends: no authority, and nothing hands out a new one.      *)
Withdrawn(s) == [Quarantined(s) EXCEPT !.active = FALSE]

Claim(s, v) ==
    IF s.active THEN WithAdmission(s, ClaimOrdinaryMutation(s.adm, v))
                ELSE Quarantined(s)

ClaimSucceeds(s) == s.active /\ CanClaim(s.adm)

(* The checkpoint effective at v is pinned; at the root, which has no      *)
(* coordinate, the whole session is barred.                                *)
ProtectLocation(s, v) ==
    IF At(v) = NoEntry
      THEN [s EXCEPT !.barrier = TRUE]
      ELSE [s EXCEPT !.slots[At(v)] = BlockSlot(@, Effective(s, v).tree)]

ProtectNode(s, v) == Claim(ProtectLocation(s, v), v)

(* recoverUncertainLocationInWorkspaceLock; a retirement does not claim.   *)
Protected(s, v) == ProtectLocation(Quarantined(s), v)

Recover(s, v) ==
    IF At(v) = NoEntry THEN Protected(s, v) ELSE Claim(Protected(s, v), v)

ReconcileBarrier(s, v) ==
    IF s.barrier /\ At(v) # NoEntry
      THEN [s EXCEPT !.slots = Reconciled(@, Ancestors(At(v))), !.barrier = FALSE]
      ELSE s
-----------------------------------------------------------------------------
(* settleCaptureBoundary: what a capture at v may do, and what is left.    *)

Boundary(s, v, o) ==
    LET onNode  == At(v) # NoEntry
        blocked == LocationIsBlocked(s, v)
        verdict == Decision(s.adm, v, blocked)
        decided == WithAdmission(s, Decided(s.adm, v, blocked, o))
    IN  CASE onNode /\ s.barrier ->
               [kind  |-> IF s.active /\ ~ CanClaim(s.adm)
                            THEN "not-admitted" ELSE "write-protected",
                state |-> Claim(ReconcileBarrier(s, v), v)]
          [] ~ (onNode /\ s.barrier) /\ ~ s.active ->
               [kind |-> "write-protected", state |-> Protected(s, v)]
          [] ~ (onNode /\ s.barrier) /\ s.active ->
               [kind  |-> verdict,
                state |-> IF verdict = "not-admitted" /\ onNode
                            THEN ProtectNode(decided, v) ELSE decided]

CaptureLeaseIsCurrent(s, v, o) ==
    s.active /\ LeaseIsCurrent(s.adm, o, v) /\ ~ LocationIsBlocked(s, v)
-----------------------------------------------------------------------------
(* Admissions.  `ok' says whether authority was granted (or, for an        *)
(* arrival, whether it was settled one way or the other).                  *)

Outcome(ok, s) == [ok |-> ok, state |-> s]

(* admitResolvedLocation on the rows: an exact pin is released, and the    *)
(* resolution must be the one that was confirmed.                          *)
MetadataAdmits(s, v, res) ==
    ~ s.barrier /\ res.tree # NoTree /\ Effective(s, v) = res
        /\ (IsBlocked(s.slots[At(v)]) => CanRelease(s.slots[At(v)], res.tree))

Released(s, v, res) == [s EXCEPT !.slots[At(v)] = [@ EXCEPT !.capture = "open"]]

AdmitCurrentLocation(s, v) ==
    IF s.active /\ OpenAt(s, v) THEN Outcome(CanClaim(s.adm), Claim(s, v))
                                ELSE Outcome(FALSE, s)

AdmitLocationIfResolution(s, v, res) ==
    IF ~ s.active \/ At(v) = NoEntry THEN Outcome(FALSE, s)
    ELSE IF ~ CanClaim(s.adm) THEN Outcome(FALSE, Claim(s, v))
    ELSE IF MetadataAdmits(s, v, res)
      THEN Outcome(TRUE, Released(Claim(s, v), v, res))
      ELSE Outcome(FALSE, Quarantined(s))

ProtectTreeArrival(s, h, v) ==
    IF s.active /\ ~ ArrivalIsCurrent(s.adm, h) THEN Outcome(FALSE, s)
    ELSE LET p == ProtectLocation(s, v)
         IN  Outcome(TRUE, IF s.active THEN WithAdmission(p, SettleArrival(p.adm, h, v))
                                       ELSE Quarantined(p))

AdmitCurrentTreeArrival(s, h, v) ==
    IF ~ s.active THEN ProtectTreeArrival(s, h, v)
    ELSE IF ~ ArrivalCanProceed(s.adm, h, v)
      THEN Outcome(FALSE, WithAdmission(s, CloseArrival(s.adm, h)))
    ELSE IF ~ OpenAt(s, v) THEN ProtectTreeArrival(s, h, v)
    ELSE Outcome(TRUE, WithAdmission(s, AdmitArrival(s.adm, h, v)))

AdmitTreeArrivalIfResolution(s, h, v, res) ==
    IF ~ s.active THEN ProtectTreeArrival(s, h, v)
    ELSE IF At(v) = NoEntry \/ ~ ArrivalCanProceed(s.adm, h, v)
      THEN Outcome(FALSE, WithAdmission(s, CloseArrival(s.adm, h)))
    ELSE IF ~ MetadataAdmits(s, v, res) THEN ProtectTreeArrival(s, h, v)
    ELSE Outcome(TRUE, WithAdmission(Released(s, v, res), AdmitArrival(s.adm, h, v)))
-----------------------------------------------------------------------------
(* The cutover of a restore: the last synchronous step before the first    *)
(* file is touched.  The location is pinned, and the authority spent.      *)

CutoverUnpinned(granted, s, v, res) ==
    IF s.active /\ ~ s.barrier /\ Effective(s, v) = res /\ granted
      THEN Outcome(TRUE, Quarantined(s))
      ELSE Outcome(FALSE, s)

CutoverIf(granted, s, v, res) ==
    LET p == ProtectLocation(s, v)
    IN  IF ~ s.active THEN Outcome(FALSE, s)
        ELSE IF ~ s.barrier /\ Effective(s, v) = res /\ granted
          THEN Outcome(TRUE, Quarantined(p))
          ELSE Outcome(FALSE, p)

CutoverLocation(s, v, res) == CutoverIf(CanCutover(s.adm, v), s, v, res)

CutoverTreeArrival(s, h, v, res) ==
    CutoverIf(ArrivalCanProceed(s.adm, h, v), s, v, res)

(* What the location resolves to once its cutover has pinned it.           *)
Pinned(v, res) == [at |-> At(v), tree |-> res.tree]
=============================================================================
