-------------------------- MODULE MutationProtocol --------------------------
(***************************************************************************)
(* The destructive part two handlers share: cut over, write the files,     *)
(* verify them, authenticate the location again, and grant authority or    *)
(* protect.  workspace-mutation-protocol.ts around the restore of          *)
(* src/src/application/restore.ts.  Every path is replaced only while it   *)
(* still is what was scanned, which here is a condition on the content.    *)
(***************************************************************************)
EXTENDS CaptureProtocol

Arriving == job.kind = "arrival"

Handler == IF Arriving THEN "arr" ELSE "ask"

Recovers(s) == RecoversInLock(s, Handler, queue)

HandlerReturns ==
    IF Arriving THEN arr' = NoArrival /\ UNCHANGED ask
                ELSE ask' = NoAsk /\ UNCHANGED arr

Remains == UNCHANGED <<arr, ask>>

(* protectCurrentTreeArrival, or the recovery that needs no token.         *)
ProtectsArrivalOrRecovers(s) ==
    LET o == ProtectTreeArrival(s, arr.attempt, host)
    IN  \/ Exact(job.view) /\ o.ok /\ w' = o.state /\ Stays
        \/ ~ (Exact(job.view) /\ o.ok) /\ Recovers(s)

RestoredAnyway(s) ==
    \/ Arriving /\ ProtectsArrivalOrRecovers(s)
    \/ ~ Arriving /\ w' = AdmitLocationIfResolution(s, host, job.res).state /\ Stays

(* No file was touched, or the location is still the one that was pinned.  *)
NotRestored(s) ==
    \/ Arriving /\ ProtectsArrivalOrRecovers(s)
    \/ ~ Arriving /\ ask.mode = "manual" /\ w' = s /\ Stays
    \/ ~ Arriving /\ ask.mode = "loaded" /\ OwesRecovery(s, "ask", queue)

StillPinned == Exact(job.view) /\ Effective(w, host) = job.res

CutOver ==
    LET o == IF Arriving
               THEN CutoverTreeArrival(w, arr.attempt, host, job.res)
               ELSE CutoverLocation(w, host, job.res)
    IN  /\ job.step = "cutover"
        /\ UNCHANGED content
        /\ \/ /\ Exact(job.view) /\ o.ok
              /\ w' = o.state
              /\ job' = [job EXCEPT !.step = "write", !.res = Pinned(host, job.res)]
              /\ Remains /\ Stays
           \/ /\ Exact(job.view) /\ ~ o.ok
              /\ NotRestored(o.state)
              /\ Ends /\ HandlerReturns
           \/ /\ ~ Exact(job.view) \/ content # job.seen \/ "failures" \in uses
              /\ NotRestored(w)
              /\ Ends /\ HandlerReturns

WritesSome ==
    /\ job.step = "write"
    /\ content = job.seen
    /\ content' = Mix
    /\ StepsTo("rest")
    /\ Remains /\ Stays /\ UNCHANGED w

WritesTheRest ==
    /\ job.step = "rest"
    /\ content = Mix
    /\ content' = job.res.tree
    /\ StepsTo("verify")
    /\ Remains /\ Stays /\ UNCHANGED w

(* A path is no longer what was scanned, or cannot be replaced.            *)
BreaksOff ==
    /\ job.step \in {"write", "rest"}
    /\ \/ "failures" \in uses
       \/ job.step = "write" /\ content # job.seen
       \/ job.step = "rest" /\ content # Mix
    /\ StepsTo("failed")
    /\ Remains /\ Stays /\ UNCHANGED <<w, content>>

(* The files are scanned again, also when none had to be written.          *)
Verifies ==
    /\ job.step \in {"verify", "noop"}
    /\ StepsTo(IF content # job.res.tree THEN "failed"
               ELSE IF job.step = "noop" THEN "unchanged" ELSE "done")
    /\ Remains /\ Stays /\ UNCHANGED <<w, content>>

Admits ==
    LET o == AdmitLocationIfResolution(w, host, job.res)
    IN  /\ job.step = "done"
        /\ \/ StillPinned /\ SettlesOr(o, queue, Recovers(o.state))
           \/ ~ StillPinned /\ Recovers(w)
        /\ Ends /\ HandlerReturns
        /\ UNCHANGED content

(* Nothing to restore: the arrival's token was not spent.                  *)
AdmitsUnchanged ==
    LET o == AdmitTreeArrivalIfResolution(w, arr.attempt, host, job.res)
    IN  /\ job.step = "unchanged"
        /\ \/ StillPinned /\ SettlesOr(o, queue, OwesRecovery(o.state, "arr", queue))
           \/ ~ StillPinned /\ Recovers(w)
        /\ Ends /\ HandlerReturns
        /\ UNCHANGED content

FailsToRestore ==
    /\ job.step = "failed"
    /\ \/ StillPinned /\ NotRestored(w)
       \/ ~ StillPinned /\ Recovers(w)
    /\ Ends /\ HandlerReturns
    /\ UNCHANGED content

MutationNext ==
    /\ \/ CutOver \/ WritesSome \/ WritesTheRest \/ BreaksOff
       \/ Verifies \/ Admits \/ AdmitsUnchanged \/ FailsToRestore
    /\ UNCHANGED <<host, event, edits, moves, call, trip, plan>>
=============================================================================
