-------------------------- MODULE CaptureProtocol --------------------------
(***************************************************************************)
(* The captures Pi's events cause: of what was observed (turn_end,         *)
(* message_end, session_compact), before something Pi is about to do       *)
(* (input, session_before_compact, session_before_fork and _switch, under  *)
(* a preparation of the authority) and before a command of the user's      *)
(* shell (user_bash).  capture-protocol.ts and lifecycle.ts.               *)
(***************************************************************************)
EXTENDS ProtocolState

CONSTANTS
    CaptureOp,    \* the capture operation of a handler
    DepartOp,     \* and of a departure
    CapturePrep,  \* the preparation of a handler
    DepartPrep    \* and of a departure

ASSUME OperationAssumption ==
    CaptureOp \in Ops /\ DepartOp \in Ops /\ CaptureOp # DepartOp
        /\ {CapturePrep, DepartPrep} \subseteq Preps /\ CapturePrep # DepartPrep
-----------------------------------------------------------------------------
(* The handler reads the session, then waits for the lock.  A preparation  *)
(* begins, and a conflicting proposal is retired, before it waits.         *)

MayPrepare(s) == s.adm.preparing = NoPrep /\ s.adm.proposal = NoPlan

CaptureCalled(manner) ==
    /\ manner \in uses
    /\ w.active /\ ~ event.due
    /\ manner = "context" => w.barrier /\ Here # NoEntry
    /\ call = NoCall /\ Free("call")
    /\ w' = WithAdmission(w,
              CASE manner = "prepared" -> BeginPreparation(w.adm, CapturePrep)
                [] manner = "bash" -> RejectTransitionConflict(w.adm)
                [] OTHER -> w.adm)
    /\ IF manner = "prepared" /\ ~ MayPrepare(w)
         THEN UNCHANGED call /\ Goes(queue)
         ELSE /\ call' = [manner |-> manner, phase |-> "queued", view |-> host]
              /\ Goes(Waits(queue, "call"))
    /\ UNCHANGED job

(* What is left of the preparation when its handler returns.               *)
Finished(s) ==
    IF call.manner = "prepared"
      THEN WithAdmission(s, FinishPreparation(s.adm, CapturePrep))
      ELSE s

Returned == call' = NoCall

Returns(s, q) ==
    /\ w' = Finished(s)
    /\ Returned
    /\ Goes(q)

(* A capture that failed: whoever only observed recovers the location,     *)
(* whoever may cancel Pi's operation does, keeps the location from a       *)
(* content it could not read, or stops participating.                      *)
Observes == call.manner \in {"observed", "context"}

FailsBy(impact, s, q) ==
    \/ Observes /\ Returned /\ OwesRecovery(s, "call", q)
    \/ ~ Observes /\ impact = "cancel-operation" /\ Returns(s, q)
    \/ /\ ~ Observes /\ impact = "protect-location"
       /\ w' = s
       /\ call' = [call EXCEPT !.phase = "protecting"]
       /\ Goes(Waits(q, "call"))
    \/ /\ ~ Observes /\ impact = "withdraw-participation"
       /\ Returned
       /\ Withdraws(s, "call", q)

Impacts == {"cancel-operation", "protect-location", "withdraw-participation"}

CaptureBegins ==
    LET b == Boundary(w, call.view, CaptureOp)
    IN  /\ IsNext("call")
        /\ call.phase = "queued" /\ call.manner # "context"
        /\ \/ ~ Exact(call.view) /\ FailsBy("cancel-operation", w, Others) /\ Ends
           \/ /\ Exact(call.view)
              /\ b.kind = "capture"
              /\ w' = b.state
              /\ job' = [NoJob EXCEPT !.kind = "capture", !.step = "scan",
                                      !.view = call.view,
                                      !.slot = w.slots[Here]]
              /\ call' = [call EXCEPT !.phase = "running"]
              /\ Goes(Others)
           \/ /\ Exact(call.view)
              /\ b.kind \in {"no-coordinate", "write-protected"}
              /\ Returns(b.state, Others) /\ Ends
           \/ /\ Exact(call.view)
              /\ b.kind = "not-admitted"
              /\ FailsBy("cancel-operation", b.state, Others) /\ Ends

(* The `context' event projects a session barrier onto the ancestry.       *)
ProjectBarrier ==
    LET projects == Exact(call.view) /\ w.barrier
    IN  /\ IsNext("call")
        /\ call.phase = "queued" /\ call.manner = "context"
        /\ \/ Returns(IF projects THEN Boundary(w, host, CaptureOp).state ELSE w, Others)
           \/ "failures" \in uses /\ FailsBy("cancel-operation", w, Others)
        /\ Ends

CaptureScans ==
    /\ Runs("capture", "scan")
    /\ job' = [job EXCEPT !.step = "commit", !.seen = content]
    /\ UNCHANGED <<w, call>> /\ Stays

CaptureLeaseIsDue == CaptureLeaseIsCurrent(w, job.view, CaptureOp)

(* The lease holds and the session is the one that was scanned.            *)
CaptureIsDue == Exact(job.view) /\ CaptureLeaseIsCurrent(w, job.view, CaptureOp)

CaptureCommits ==
    LET verdict == CaptureVerdict(w, At(job.view), job.slot)
        after   == AfterCapture(w, At(job.view), job.slot, job.seen)
    IN  /\ Runs("capture", "commit")
        /\ Ends
        /\ \/ /\ CaptureIsDue
              /\ verdict \in {"committed", "settled", "blocked"}
              /\ Returns(after, queue)
           \/ ~ (CaptureIsDue /\ verdict # "slot-changed")
                /\ FailsBy("cancel-operation", w, queue)

(* The scan is incomplete, the content changed meanwhile, the objects or   *)
(* the row cannot be written, the directory is another one.                *)
CaptureFails ==
    /\ "failures" \in uses
    /\ job.kind = "capture"
    /\ Ends
    /\ \E impact \in Impacts : FailsBy(impact, w, queue)

(* protect-failed-source, inside the preparation that goes on.             *)
ProtectFailedSource ==
    /\ IsNext("call")
    /\ call.phase = "protecting"
    /\ \/ Here = NoEntry /\ Withdraws(w, "call", Others) /\ Returned
       \/ Here # NoEntry /\ Returns(ProtectNode(w, host), Others)
    /\ UNCHANGED job

CaptureNext ==
    /\ \/ \E manner \in {"observed", "prepared", "bash", "context"} : CaptureCalled(manner)
       \/ CaptureBegins \/ CaptureScans \/ CaptureCommits \/ CaptureFails
       \/ ProtectFailedSource \/ ProjectBarrier
    /\ UNCHANGED <<hostVars, trip, plan, arr, ask>>
=============================================================================
