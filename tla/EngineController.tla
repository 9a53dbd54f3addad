--------------------------- MODULE EngineController ---------------------------
(***************************************************************************)
(* One replaceable engine behind Pi's extension interface, in every Pi     *)
(* process: it is created and initialized by a resume, used under leases   *)
(* by the handlers of Pi's events, revoked at once by a stop, and drained  *)
(* and closed when nobody uses it any more                                 *)
(* (src/src/pi/engine-controller.ts, register.ts, cyclotomy-engine.ts).    *)
(*                                                                         *)
(* A step runs from one await to the next.  An engine is named by the      *)
(* number of the attempt that creates it, its generation; 0 names none.    *)
(***************************************************************************)
EXTENDS Naturals, FiniteSets

CONSTANTS
    Procs,     \* the Pi processes
    Callers,   \* the host's calls that may be under way at once in a process
    MaxEpoch   \* bound: an attempt or a stop raises the epoch no further

ASSUME EpochAssumption == MaxEpoch \in Nat \ {0}

VARIABLES
    host,   \* per process, its controller and its engines
    calls   \* per process, the host's calls

hostVars == <<host, calls>>

Gens == 1 .. MaxEpoch

Activations == {"registering", "active", "inactive", "unavailable"}

AttemptSteps ==
    {"none", "queued", "barred", "creating", "initializing", "initialized", "disposing",
     "settled", "over"}

CallSteps == {"idle", "handling", "stopping", "resuming", "down"}

CallKinds == {"none", "event", "command", "start", "shutdown"}

NoEngine == [at |-> "none", starting |-> FALSE, retires |-> 0, activation |-> "registering"]

NoAttempt == [at |-> "none", after |-> 0, whenIdle |-> FALSE, result |-> "none"]

NoController ==
    [epoch |-> 0,
     closed |-> FALSE,
     started |-> FALSE,      \* a session_start was observed
     current |-> 0,
     initializing |-> 0,
     attempt |-> 0,          \* the attempt a stop waits for, and a resume of its epoch joins
     retirement |-> 0,       \* the engine retired last
     engine |-> [g \in Gens |-> NoEngine],
     run |-> [g \in Gens |-> NoAttempt]]

NoCall ==
    [at |-> "idle", kind |-> "none", lease |-> 0, retirement |-> 0, attempt |-> 0,
     then |-> "return"]

HostInit ==
    /\ host = [p \in Procs |-> NoController]
    /\ calls = [p \in Procs |-> [c \in Callers |-> NoCall]]
-----------------------------------------------------------------------------
Leases(p, g) == {c \in Callers : calls[p][c].lease = g}

Stale(h, g) == h.closed \/ g # h.epoch

(* Pi is idle when no handler of its run's events is pending.              *)
Idle(p) ==
    \A c \in Callers : calls[p][c].kind = "event" => calls[p][c].at = "idle"

Retired(e) == [e EXCEPT !.retires = @ + 1, !.activation = "inactive"]

(* A stop: the engine in use, or the candidate being initialized, loses    *)
(* its authority before anything is waited for.                            *)
Stopped(h) ==
    LET revoked == ({h.current} \cup {g \in {h.initializing} \ {0} : h.engine[g].retires = 0}) \ {0}
    IN  [h EXCEPT
          !.epoch = @ + 1,
          !.current = 0,
          !.retirement = IF h.current # 0 THEN h.current ELSE @,
          !.engine = [g \in Gens |-> IF g \in revoked THEN Retired(@[g]) ELSE @[g]]]

(* What the stop then waits for: the engine it took out of use, or the one *)
(* still being retired, and the attempt that is pending.                   *)
AfterStop(h, call) ==
    [call EXCEPT !.at = "stopping", !.retirement = Stopped(h).retirement, !.attempt = h.attempt]

(* A resume of the same epoch is joined; one that was overtaken is waited  *)
(* for by the next.                                                        *)
Joins(h) == h.attempt # 0 /\ h.attempt = h.epoch

Resumed(h, whenIdle) ==
    IF Joins(h) THEN h
    ELSE [h EXCEPT
           !.epoch = @ + 1,
           !.attempt = h.epoch + 1,
           !.run[h.epoch + 1] =
              [at |-> "queued", after |-> h.attempt, whenIdle |-> whenIdle, result |-> "none"]]

AfterResume(h, call) ==
    [call EXCEPT !.at = "resuming", !.attempt = Resumed(h, FALSE).attempt]
-----------------------------------------------------------------------------
(* The attempt: it waits for the one before it, and for the engine retired *)
(* last; then it creates an engine unless it has been overtaken.           *)
AttemptWaits(p, g) ==
    LET h == host[p]
        earlier == h.run[g].after
    IN  /\ h.run[g].at = "queued"
        /\ earlier # 0 => h.run[earlier].at = "over"
        /\ host' = [host EXCEPT ![p].run[g] =
                     [@ EXCEPT !.at = "barred", !.after = h.retirement]]
        /\ UNCHANGED calls

AttemptCreatesAtOnce(p, g) ==
    LET h == host[p] IN
    /\ h.run[g].at = "barred"
    /\ host' = [host EXCEPT ![p].run[g] =
                 IF Stale(h, g)
                 THEN [@ EXCEPT !.at = "settled", !.result = "superseded"]
                 ELSE [@ EXCEPT !.at = "creating"]]
    /\ UNCHANGED calls

AttemptCreates(p, g) ==
    LET h == host[p]
        earlier == h.run[g].after
    IN  /\ h.run[g].at = "barred"
        /\ earlier # 0 => h.engine[earlier].at = "closed"
        /\ host' = [host EXCEPT ![p].run[g] =
                     IF Stale(h, g)
                     THEN [@ EXCEPT !.at = "settled", !.result = "superseded"]
                     ELSE [@ EXCEPT !.at = "creating"]]
        /\ UNCHANGED calls

(* A candidate that is not to be used is revoked, unless a stop has        *)
(* revoked it, drained and closed.                                         *)
Disposing(h, g, outcome, retired) ==
    [h EXCEPT
      !.initializing = IF @ = g THEN 0 ELSE @,
      !.engine[g] = IF retired THEN @ ELSE Retired(@),
      !.run[g] = [@ EXCEPT !.at = "disposing", !.result = outcome]]

Candidate(h, g) == [h EXCEPT !.engine[g] = [NoEngine EXCEPT !.at = "open"]]

CreationEnds(p, g) ==
    LET h == host[p] IN
    /\ h.run[g].at = "creating"
    /\ h.run[g].whenIdle => Idle(p)
    /\ host' = [host EXCEPT ![p] =
                 IF Stale(h, g) THEN Disposing(Candidate(h, g), g, "superseded", FALSE)
                 ELSE [Candidate(h, g) EXCEPT
                        !.initializing = g,
                        !.engine[g].starting = TRUE,
                        !.run[g].at = "initializing"]]
    /\ UNCHANGED calls

CreationFails(p, g) ==
    LET h == host[p] IN
    /\ h.run[g].at = "creating"
    /\ host' = [host EXCEPT ![p].run[g] =
                 [@ EXCEPT
                   !.at = "settled",
                   !.result = IF Stale(h, g) THEN "superseded" ELSE "failed"]]
    /\ UNCHANGED calls

(* The engine's own start is over; what it says of it is its activation.   *)
InitializationEnds(p, g) ==
    /\ host[p].run[g].at = "initializing"
    /\ ~ host[p].engine[g].starting
    /\ host' = [host EXCEPT ![p].run[g] =
                 [@ EXCEPT !.at = "initialized", !.result = host[p].engine[g].activation]]
    /\ UNCHANGED calls

AttemptEnds(p, g) ==
    LET h == host[p]
        result == h.run[g].result
        retired == h.engine[g].retires > 0
    IN  /\ h.run[g].at = "initialized"
        /\ host' = [host EXCEPT ![p] =
                     IF result = "unavailable" THEN Disposing(h, g, "failed", retired)
                     ELSE IF result = "inactive" THEN Disposing(h, g, "inactive", retired)
                     ELSE IF Stale(h, g) THEN Disposing(h, g, "superseded", retired)
                     ELSE [h EXCEPT
                            !.initializing = 0,
                            !.current = g,
                            !.run[g] = [@ EXCEPT !.at = "settled", !.result = "running"]]]
        /\ UNCHANGED calls

(* An engine that was taken out of use is drained once its last lease is   *)
(* released, then closed.                                                  *)
Retiring(p, g) ==
    /\ host[p].engine[g].retires > 0
    /\ host[p].run[g].at \in {"disposing", "settled", "over"}

EngineDrains(p, g) ==
    /\ Retiring(p, g)
    /\ host[p].engine[g].at = "open"
    /\ Leases(p, g) = {}
    /\ host' = [host EXCEPT ![p].engine[g].at = "drained"]
    /\ UNCHANGED calls

EngineCloses(p, g) ==
    /\ Retiring(p, g)
    /\ host[p].engine[g].at = "drained"
    /\ host' = [host EXCEPT ![p].engine[g].at = "closed"]
    /\ UNCHANGED calls

CandidateDisposed(p, g) ==
    LET h == host[p] IN
    /\ h.run[g].at = "disposing"
    /\ h.engine[g].at = "closed"
    /\ host' = [host EXCEPT ![p].run[g] =
                 [@ EXCEPT
                   !.at = "settled",
                   !.result = IF Stale(h, g) THEN "superseded" ELSE h.run[g].result]]
    /\ UNCHANGED calls

AttemptForgotten(p, g) ==
    /\ host[p].run[g].at = "settled"
    /\ host' = [host EXCEPT
                 ![p].run[g].at = "over",
                 ![p].attempt = IF @ = g THEN 0 ELSE @]
    /\ UNCHANGED calls

AttemptStep(p) ==
    \E g \in Gens :
        \/ AttemptWaits(p, g) \/ AttemptCreates(p, g) \/ CreationEnds(p, g)
        \/ InitializationEnds(p, g) \/ AttemptEnds(p, g) \/ EngineDrains(p, g)
        \/ EngineCloses(p, g) \/ CandidateDisposed(p, g) \/ AttemptForgotten(p, g)
-----------------------------------------------------------------------------
(* Pi calls the extension.  A handler works under a lease; one that finds  *)
(* its engine no longer taking part stops it, and releases its lease       *)
(* before it waits.                                                        *)
Call(p, c, call) == calls' = [calls EXCEPT ![p][c] = call]

Free(p, c) == calls[p][c].at = "idle"

StopsFor(p, c, call) ==
    /\ host[p].epoch < MaxEpoch
    /\ host' = [host EXCEPT ![p] = Stopped(@)]
    /\ Call(p, c, AfterStop(host[p], call))

Dispatch(p, c, kind) ==
    LET g == host[p].current
        call == [NoCall EXCEPT !.kind = kind]
    IN  /\ Free(p, c)
        /\ g # 0
        /\ IF host[p].engine[g].activation = "active"
           THEN Call(p, c, [call EXCEPT !.at = "handling", !.lease = g]) /\ UNCHANGED host
           ELSE StopsFor(p, c, call)

HandlerEnds(p, c) ==
    LET call == calls[p][c]
        current == call.lease = host[p].current
    IN  /\ call.at = "handling"
        /\ IF current /\ host[p].engine[call.lease].activation # "active"
           THEN StopsFor(p, c, [call EXCEPT !.lease = 0])
           ELSE Call(p, c, NoCall) /\ UNCHANGED host

HandlerThrows(p, c) ==
    /\ calls[p][c].at = "handling"
    /\ Call(p, c, NoCall)
    /\ UNCHANGED host

(* A handler that cannot save, or finds its history reset, makes its       *)
(* engine withdraw.                                                        *)
EngineWithdraws(p, c) ==
    LET g == calls[p][c].lease IN
    /\ calls[p][c].at = "handling"
    /\ host[p].engine[g].activation \in {"active", "inactive"}
    /\ host' = [host EXCEPT ![p].engine[g].activation = "unavailable"]
    /\ UNCHANGED calls

(* A pause, or a second session_start: the engine is stopped first, and    *)
(* its last location is protected under a lease.                           *)
Pause(p, c) ==
    /\ Free(p, c)
    /\ StopsFor(p, c, [NoCall EXCEPT !.kind = "command", !.lease = host[p].current])

Settling(call) == call.at = "stopping" /\ call.lease # 0

SettlementEnds(p, c) ==
    /\ Settling(calls[p][c])
    /\ Call(p, c, [calls[p][c] EXCEPT !.lease = 0])
    /\ UNCHANGED host

ResumesFor(p, c, whenIdle, call) ==
    /\ host[p].epoch < MaxEpoch
    /\ host' = [host EXCEPT ![p] = Resumed(@, whenIdle)]
    /\ Call(p, c, AfterResume(host[p], call))

(* The resume command: an engine that no longer takes part is stopped      *)
(* first.                                                                  *)
Resume(p, c) ==
    LET g == host[p].current
        call == [NoCall EXCEPT !.kind = "command"]
    IN  /\ Free(p, c)
        /\ IF g = 0
           THEN ~ host[p].closed /\ ResumesFor(p, c, TRUE, call)
           ELSE /\ host[p].engine[g].activation # "active"
                /\ StopsFor(p, c, [call EXCEPT !.then = "resume"])

(* The first session_start resumes at once, or leaves the engine stopped   *)
(* when it is switched off or a parent's workspace is shared.              *)
SessionStart(p, c) ==
    LET call == [NoCall EXCEPT !.kind = "start"] IN
    /\ Free(p, c)
    /\ ~ host[p].started
    /\ host[p].epoch < MaxEpoch
    /\ \/ /\ host' = [host EXCEPT ![p] = [Resumed(@, FALSE) EXCEPT !.started = TRUE]]
          /\ Call(p, c, AfterResume(host[p], call))
       \/ /\ host' = [host EXCEPT ![p] = [Stopped(@) EXCEPT !.started = TRUE]]
          /\ Call(p, c, AfterStop(host[p], call))

SessionShutdown(p, c) ==
    /\ Free(p, c)
    /\ ~ host[p].closed
    /\ host[p].epoch < MaxEpoch
    /\ host' = [host EXCEPT ![p] = [Stopped(@) EXCEPT !.closed = TRUE]]
    /\ Call(p, c, AfterStop(host[p], [NoCall EXCEPT !.kind = "shutdown"]))

RetirementSettled(p, call) ==
    call.retirement # 0 => host[p].engine[call.retirement].at = "closed"

(* What the call waited for has settled.                                   *)
Settled(p, call) ==
    /\ call.attempt # 0 => host[p].run[call.attempt].at = "over"
    /\ call.retirement # 0 => host[p].engine[call.retirement].at = "closed"

StopReturns(p, c) ==
    LET call == calls[p][c] IN
    /\ call.at = "stopping"
    /\ ~ Settling(call)
    /\ Settled(p, call)
    /\ IF call.then = "return" \/ host[p].current # 0 \/ host[p].closed
       THEN /\ Call(p, c, IF call.kind = "shutdown" THEN [NoCall EXCEPT !.at = "down"]
                          ELSE NoCall)
            /\ UNCHANGED host
       ELSE ResumesFor(p, c, TRUE, [NoCall EXCEPT !.kind = call.kind])

ResumeReturns(p, c) ==
    /\ calls[p][c].at = "resuming"
    /\ Settled(p, calls[p][c])
    /\ Call(p, c, NoCall)
    /\ UNCHANGED host

CallStep(p) ==
    \E c \in Callers :
        HandlerEnds(p, c) \/ SettlementEnds(p, c) \/ StopReturns(p, c) \/ ResumeReturns(p, c)
=============================================================================
