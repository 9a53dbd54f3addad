--------------------------- MODULE AdmissionHost ---------------------------
(***************************************************************************)
(* The capture authority of CheckpointAdmission beside a host that         *)
(* appends, labels and navigates whenever it likes: every operation of the *)
(* authority in every order the runtime could call them, with no more      *)
(* discipline than the authority enforces itself.                          *)
(***************************************************************************)
EXTENDS CheckpointAdmission

VARIABLES
    adm,
    host,      \* the session as the host has it
    event,     \* a session_tree event is on its way
    arriving,  \* arrivals whose handler has not returned
    expected,  \* expected[o]: the snapshot o's capture was admitted for
    left       \* ghost: operations since whose lease the host's leaf has moved

admVars == <<adm, host, event, arriving, expected, left>>

AdmTypeOK ==
    /\ adm \in Authorities
    /\ host \in Views
    /\ event \in BOOLEAN
    /\ arriving \in SUBSET Attempts
    /\ expected \in [Ops -> Views \cup {NoView}]
    /\ left \in SUBSET Ops
    /\ adm.leases # {} => adm.kind = "live"
    /\ adm.kind = "arrival" <=> adm.attempt # NoAttempt
    /\ adm.kind = "live" => adm.view # NoView

AdmInit ==
    /\ adm = NoAuthority
    /\ host = [graph |-> {}, leaf |-> NoEntry]
    /\ event = FALSE
    /\ arriving = {}
    /\ expected = [o \in Ops |-> NoView]
    /\ left = {}

HostMoves(v) == host' = v /\ left' = IF v.leaf = host.leaf THEN left ELSE Ops

(* A new entry, or a label, at the leaf.                                   *)
HostAppend(r) ==
    /\ r \in Raw \ host.graph
    /\ At(host) = IF r \in Labels THEN Under[r]
                  ELSE IF Len(Path[r]) = 1 THEN NoEntry
                  ELSE Path[r][Len(Path[r]) - 1]
    /\ HostMoves([graph |-> host.graph \cup {r}, leaf |-> r])
    /\ UNCHANGED <<adm, event, arriving, expected>>

(* A navigation; Pi announces it before it moves the leaf again.           *)
HostNavigate(r) ==
    /\ ~ event
    /\ r \in host.graph \cup {NoEntry}
    /\ HostMoves([host EXCEPT !.leaf = r])
    /\ event' = TRUE
    /\ UNCHANGED <<adm, arriving, expected>>

Becomes(a) == adm' = a /\ UNCHANGED <<host, event, arriving, left>>

Tree(h) ==
    /\ event
    /\ h \notin arriving
    /\ event' = FALSE
    /\ arriving' = arriving \cup {h}
    /\ adm' = BeginTreeArrival(adm, h)
    /\ UNCHANGED <<host, expected, left>>

Returns(h, a) ==
    /\ h \in arriving
    /\ arriving' = arriving \ {h}
    /\ adm' = a
    /\ UNCHANGED <<host, event, expected, left>>

(* The arrival's handler ends it: admitted, protected, carried or closed.  *)
Arrive(h) ==
    \/ Returns(h, AdmitArrival(adm, h, host))
    \/ Returns(h, SettleArrival(adm, h, host))
    \/ Returns(h, CarryArrival(adm, h, host))
    \/ Returns(h, CloseArrival(adm, h))

(* A destructive step spends the arrival; the handler goes on without it.  *)
CutoverArrival(h) ==
    /\ h \in arriving
    /\ ArrivalCanProceed(adm, h, host)
    /\ Becomes(Reset(adm))
    /\ UNCHANGED expected

Cutover ==
    /\ CanCutover(adm, host)
    /\ Becomes(Reset(adm))
    /\ UNCHANGED expected

Quarantine == Becomes(Reset(adm)) /\ UNCHANGED expected

Claim ==
    /\ \/ Becomes(ClaimOrdinaryMutation(adm, host))
       \/ Becomes(RejectTransitionConflict(adm))
    /\ UNCHANGED expected

Prepare(p) ==
    /\ \/ Becomes(BeginPreparation(adm, p))
       \/ Becomes(FinishPreparation(adm, p))
       \/ \E plan \in Plans : Becomes(Propose(adm, p, plan))
    /\ UNCHANGED expected

DecideCapture(o, protected) ==
    /\ adm' = Decided(adm, host, protected, o)
    /\ IF Decision(adm, host, protected) = "capture"
         THEN expected' = [expected EXCEPT ![o] = host] /\ left' = left \ {o}
         ELSE UNCHANGED <<expected, left>>
    /\ UNCHANGED <<host, event, arriving>>

AdmNext ==
    \/ \E r \in Raw : HostAppend(r)
    \/ \E r \in Raw \cup {NoEntry} : HostNavigate(r)
    \/ \E h \in Attempts : Tree(h) \/ Arrive(h) \/ CutoverArrival(h)
    \/ Cutover \/ Quarantine \/ Claim
    \/ \E p \in Preps : Prepare(p)
    \/ \E o \in Ops, protected \in BOOLEAN : DecideCapture(o, protected)

AdmSpec == AdmInit /\ [][AdmNext]_admVars
-----------------------------------------------------------------------------
(* Properties.                                                             *)

(* The two checks before a capture commits, the snapshot it was admitted   *)
(* for and the lease, prove together that the host never left the place in *)
(* between: neither alone sees a navigation away and back, or an entry     *)
(* appended and abandoned.                                                 *)
LeaseStayedPut ==
    \A o \in Ops :
        LeaseIsCurrent(adm, o, host) /\ expected[o] = host => o \notin left

(* A proposal waits only on live authority that nobody is preparing to     *)
(* replace, and the snapshot it was made from is part of what that         *)
(* authority has seen since.                                               *)
ProposalIsBacked ==
    adm.proposal # NoPlan =>
        /\ adm.kind = "live"
        /\ adm.preparing = NoPrep
        /\ adm.origin # NoView
        /\ Extends(adm.view, adm.origin)

(* An arrival that has taken over is replaced by live authority only by    *)
(* its own handler: no capture, claim or preparation slips in under it.    *)
ArrivalOwnsAuthority ==
    [][\A h \in Attempts :
          ArrivalIsCurrent(adm, h) /\ adm'.kind = "live" =>
              h \in arriving /\ h \notin arriving']_admVars
=============================================================================
