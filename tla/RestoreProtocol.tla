-------------------------- MODULE RestoreProtocol --------------------------
(***************************************************************************)
(* The restore of the current location: asked for by the user (manual),    *)
(* or owed to a session that was just started (loaded) or reloaded.  The   *)
(* first workspace execution looks at the checkpoint and the files, the    *)
(* user is asked when they differ, and a second one restores only what was *)
(* shown.  confirmed-restore.ts and the session start of lifecycle.ts.     *)
(***************************************************************************)
EXTENDS NavigationProtocol

Manual == ask.mode = "manual"

Handled == ask' = NoAsk

(* The restore does not happen.  A manual one leaves everything as it was; *)
(* a session start must not leave its location unprotected.                *)
Abandons(s, q) ==
    /\ Handled
    /\ IF Manual THEN w' = s /\ Goes(q) ELSE OwesRecovery(s, "ask", q)

SettlesAt(s, q) == Handled /\ w' = s /\ Goes(q)

RecoversAsk(s, q) == Handled /\ RecoversInLock(s, "ask", q)

AskGoes(phase) == ask' = [ask EXCEPT !.phase = phase]

(* restoreCommand.  A transition under way refuses it, a proposal nobody   *)
(* used is retired and refuses it once.                                    *)
RestoreCommand ==
    /\ "manual" \in uses
    /\ w.active /\ ~ event.due
    /\ ask = NoAsk /\ Free("ask")
    /\ w' = WithAdmission(w, RejectTransitionConflict(w.adm))
    /\ IF CanClaim(w.adm) /\ Here # NoEntry
         THEN /\ ask' = [NoAsk EXCEPT !.phase = "queued", !.view = host]
              /\ Goes(Waits(queue, "ask"))
         ELSE UNCHANGED ask /\ Stays
    /\ UNCHANGED job

(* session_start.  At the root there is nothing to restore, and a session  *)
(* barred there stays barred.                                              *)
SessionStart(mode) ==
    LET s == [w EXCEPT !.active = TRUE]
    IN  /\ mode \in uses
        /\ ~ w.active /\ ~ event.due /\ Idle /\ queue = <<>>
        /\ <<call, trip, arr, ask>> = <<NoCall, NoTrip, NoArrival, NoAsk>>
        /\ IF Here = NoEntry
             THEN /\ w' = IF w.barrier THEN Quarantined(s)
                                       ELSE AdmitCurrentLocation(s, host).state
                  /\ UNCHANGED ask /\ Stays
             ELSE /\ w' = s
                  /\ ask' = [NoAsk EXCEPT !.mode = mode, !.phase = "queued",
                                          !.view = host]
                  /\ Goes(Waits(queue, "ask"))
        /\ UNCHANGED job
-----------------------------------------------------------------------------
(* The first execution.                                                    *)

Looks == IsNext("ask") /\ ask.phase = "queued" /\ ask.mode # "reload"

(* A loaded session pins what it is about to compare the files with.       *)
RestoreLooks ==
    LET s       == ReconcileBarrier(w, host)
        res     == Readable(s, Here)
        pinned  == IF Manual THEN res ELSE Pinned(host, res)
        begins(step) == job' = [NoJob EXCEPT !.kind = "restore", !.step = step,
                                             !.view = host, !.res = pinned]
    IN  /\ Looks
        /\ \/ ~ Exact(ask.view) /\ Abandons(w, Others) /\ Ends
           \/ /\ Exact(ask.view) /\ res # Missing
              /\ w' = IF Manual THEN s ELSE ProtectNode(s, host)
              /\ begins("scan") /\ AskGoes("looking")
              /\ Goes(Others)
           \/ /\ Exact(ask.view) /\ res = Missing /\ LocationIsBlocked(s, host)
              /\ IF Manual
                   THEN w' = s /\ begins("first") /\ AskGoes("looking") /\ Goes(Others)
                   ELSE SettlesAt(ProtectNode(s, host), Others) /\ Ends
           \/ /\ Exact(ask.view) /\ res = Missing /\ ~ LocationIsBlocked(s, host)
              /\ IF Manual THEN SettlesAt(s, Others)
                           ELSE /\ w' = s /\ AskGoes("initialize")
                                /\ Goes(Waits(Others, "ask"))
              /\ Ends

RestoreScansAnyway ==
    /\ Runs("restore", "scan")
    /\ ask.mode # "reload"
    /\ StepsTo("settle")
    /\ UNCHANGED <<w, ask>> /\ Stays

(* Files that already are the checkpoint are admitted without asking.      *)
RestoreScans ==
    /\ Runs("restore", "scan")
    /\ ask.mode # "reload"
    /\ UNCHANGED w /\ Stays
    /\ IF content = job.res.tree
         THEN StepsTo("settle") /\ UNCHANGED ask
         ELSE /\ Ends
              /\ ask' = [ask EXCEPT !.phase = "asked", !.res = job.res,
                                    !.shown = content]

RestoreMatches ==
    LET o == AdmitLocationIfResolution(w, host, job.res)
    IN  /\ Runs("restore", "settle")
        /\ ask.mode # "reload"
        /\ Ends
        /\ \/ StillPinned /\ o.ok /\ SettlesAt(o.state, queue)
           \/ StillPinned /\ ~ o.ok /\ Abandons(o.state, queue)
           \/ ~ StillPinned /\ Abandons(w, queue)

(* The user, or the lack of a way to ask him.                              *)
RestoreAnswered ==
    /\ ask.phase = "asked"
    /\ \/ AskGoes("answered") /\ UNCHANGED w /\ Goes(Waits(queue, "ask"))
       \/ Abandons(w, queue)
    /\ UNCHANGED job
-----------------------------------------------------------------------------
(* The second execution.                                                   *)

RestoreRechecks ==
    LET refused == Manual /\ ~ CanClaim(w.adm)
        s == IF Manual THEN WithAdmission(w, RejectTransitionConflict(w.adm)) ELSE w
        same == Exact(ask.view) /\ Effective(w, host) = ask.res
    IN  /\ IsNext("ask")
        /\ ask.phase = "answered"
        /\ \/ (refused \/ ~ same) /\ Abandons(s, Others) /\ Ends
           \/ /\ ~ refused /\ same
              /\ job' = [NoJob EXCEPT !.kind = "restore", !.step = "rescan",
                                      !.view = host, !.res = ask.res]
              /\ AskGoes("applying")
              /\ UNCHANGED w /\ Goes(Others)

(* prepareLocationMutation claims for what was shown, and nothing else.    *)
RestoreRescans ==
    LET stale == content # ask.shown \/ ~ StillPinned
    IN  /\ Runs("restore", "rescan")
        /\ \/ stale /\ Abandons(w, queue) /\ Ends
           \/ ~ stale /\ ~ ClaimSucceeds(w) /\ Abandons(Claim(w, host), queue) /\ Ends
           \/ /\ ~ stale /\ ClaimSucceeds(w)
              /\ w' = Claim(w, host)
              /\ job' = [job EXCEPT !.step = "cutover", !.seen = content]
              /\ UNCHANGED ask /\ Stays
-----------------------------------------------------------------------------
(* A location without a checkpoint: a session start records the first one, *)
(* a manual restore adopts the files a protected location holds.           *)

InitializeBegins ==
    LET fresh == Exact(ask.view) /\ Readable(w, Here) = Missing
    IN  /\ IsNext("ask")
        /\ ask.phase = "initialize"
        /\ \/ ~ fresh /\ Abandons(w, Others) /\ Ends
           \/ /\ fresh
              /\ Begins("restore", "first", host) /\ AskGoes("initializing")
              /\ UNCHANGED w /\ Goes(Others)

FirstScans ==
    /\ Runs("restore", "first")
    /\ job' = [job EXCEPT !.step = "commit", !.seen = content]
    /\ UNCHANGED <<w, ask>> /\ Stays

FirstIsDue == Exact(job.view) /\ Resolve(w.slots, At(job.view)) = Missing

(* settleCheckpointInitialization.                                         *)
AdmitsFirst(s) ==
    LET o == AdmitLocationIfResolution(s, host, [at |-> Here, tree |-> job.seen])
    IN  Handled /\ SettlesOr(o, queue, RecoversInLock(o.state, "ask", queue))

Adopts ==
    LET due == FirstIsDue /\ ~ w.barrier /\ CanAdopt(w.slots[Here])
    IN  /\ Runs("restore", "commit") /\ Manual
        /\ Ends
        /\ \/ ~ due /\ Abandons(w, queue)
           \/ due /\ AdmitsFirst(Captured(w, Here, job.seen))

Initializes ==
    LET verdict == CaptureVerdict(w, Here, OpenMissing)
        after   == AfterCapture(w, Here, OpenMissing, job.seen)
    IN  /\ Runs("restore", "commit") /\ ~ Manual
        /\ Ends
        /\ \/ ~ FirstIsDue /\ Abandons(w, queue)
           \/ FirstIsDue /\ verdict = "committed" /\ AdmitsFirst(after)
           \/ /\ FirstIsDue /\ verdict # "committed"
              /\ IF after.slots[Here] = BlockedMissing
                   THEN SettlesAt(ProtectNode(after, host), queue) ELSE Abandons(after, queue)
-----------------------------------------------------------------------------
(* A reload never writes files: the location is admitted when its files    *)
(* are the checkpoint, and protected otherwise.                            *)

ReloadLooks ==
    LET res == Readable(w, Here)
        o   == AdmitCurrentLocation(w, host)
        admits == Effective(w, host) = Missing /\ o.ok
    IN  /\ IsNext("ask")
        /\ ask.phase = "queued" /\ ask.mode = "reload"
        /\ \/ ~ Exact(ask.view) /\ RecoversAsk(w, Others) /\ Ends
           \/ /\ Exact(ask.view) /\ res = Missing
              /\ SettlesAt(IF admits THEN o.state ELSE ProtectNode(o.state, host), Others)
              /\ Ends
           \/ /\ Exact(ask.view) /\ res # Missing
              /\ job' = [NoJob EXCEPT !.kind = "restore", !.step = "scan",
                                      !.view = host, !.res = res]
              /\ AskGoes("looking")
              /\ UNCHANGED w /\ Goes(Others)

ReloadScans ==
    /\ Runs("restore", "scan") /\ ask.mode = "reload"
    /\ job' = [job EXCEPT !.step = "settle", !.seen = content]
    /\ UNCHANGED <<w, ask>> /\ Stays

ReloadSettles ==
    LET o == AdmitLocationIfResolution(w, host, job.res)
        matches == job.seen = job.res.tree /\ Effective(w, host) = job.res
    IN  /\ Runs("restore", "settle") /\ ask.mode = "reload"
        /\ Ends
        /\ \/ ~ Exact(job.view) /\ RecoversAsk(w, queue)
           \/ Exact(job.view) /\ matches /\ o.ok /\ SettlesAt(o.state, queue)
           \/ /\ Exact(job.view) /\ ~ (matches /\ o.ok)
              /\ SettlesAt(ProtectNode(IF matches THEN o.state ELSE w, host), queue)

(* A scan, a read of the checkpoint or a commit fails, or the lock could   *)
(* not be given back.                                                      *)
RestoreFails ==
    /\ "failures" \in uses
    /\ job.kind = "restore"
    /\ job.step \in {"scan", "settle", "first", "commit", "rescan"}
    /\ Ends
    /\ \/ Abandons(w, queue)
       \/ ~ Manual /\ RecoversAsk(w, queue)
       \/ Handled /\ Withdraws(w, "ask", queue)

RestoreNext ==
    /\ \/ RestoreCommand
       \/ \E mode \in {"loaded", "reload"} : SessionStart(mode)
       \/ RestoreLooks \/ RestoreScans \/ RestoreMatches \/ RestoreAnswered
       \/ RestoreRechecks \/ RestoreRescans
       \/ InitializeBegins \/ FirstScans \/ Adopts \/ Initializes
       \/ ReloadLooks \/ ReloadScans \/ ReloadSettles \/ RestoreFails
    /\ UNCHANGED <<hostVars, call, trip, plan, arr>>
=============================================================================
