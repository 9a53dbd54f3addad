--------------------------- MODULE ProtocolState ---------------------------
(***************************************************************************)
(* One runtime between Pi, the workspace and the database: what its        *)
(* handlers carry from one step to the next, what Pi and the user may do   *)
(* in between, and the recovery every handler falls back on.               *)
(*                                                                         *)
(* Handlers run their file and database work one job at a time, in the     *)
(* order in which they asked for it (runtime.ts                            *)
(* enqueueWorkspaceExecution).  A job is cut where the code awaits; what   *)
(* it does between two awaits is one step.  Whatever Pi or the user does   *)
(* can come between two steps.                                             *)
(***************************************************************************)
EXTENDS MutationAuthority

CONSTANTS
    Mix,          \* a content that is part one tree, part another
    MaxEdits,     \* bound on the edits of the user
    MaxMoves      \* bound on the navigations of Pi

ASSUME MixAssumption == Mix \in Trees
ASSUME BoundsAssumption == MaxEdits \in Nat /\ MaxMoves \in Nat

VARIABLES
    w,         \* the authority: see MutationAuthority
    host,      \* Pi's session
    event,     \* the session_tree event Pi owes, or NoEvent
    content,   \* the files of the workspace
    edits,     \* edits and navigations so far
    moves,
    job,       \* the workspace execution under way
    call,      \* the capture handler under way
    trip,      \* the departure under way, until Pi navigates or gives up
    plan,      \* what the last accepted departure proposed
    arr,       \* the session_tree handler under way
    ask,       \* the restore (command or session start) under way
    queue,     \* the handlers waiting for a workspace execution
    owed,      \* the protection a handler waits for instead of its work
    home,      \* ghost: the coordinate the content belongs to
    torn,      \* ghost: checkpoints a restore has half written
    uses       \* what this run exercises: entry points and disturbances, the
               \* entries Pi may append and the trees the user may make

hostVars == <<host, event, content, edits, moves>>
ghostVars == <<home, torn>>
handlers == <<call, trip, plan, arr, ask>>

Handlers == {"call", "trip", "arr", "ask"}

Protections == {"none", "recover", "retire"}

Coordinates == Entries \cup {NoEntry}

NoEvent == [old |-> NoEntry, new |-> NoEntry, landing |-> NoEntry, due |-> FALSE]

(* What Pi's leaf can be: the first one may be a label.                    *)
Leaves == Raw \cup {NoEntry}

Events == [old : Leaves, new : Coordinates, landing : Coordinates, due : BOOLEAN]

Jobs ==
    [kind : {"none", "capture", "departure", "arrival", "restore"},
     step : {"none", "scan", "preview", "rescan", "publish", "commit", "settle",
             "first", "cutover", "write", "rest", "verify", "failed", "done",
             "noop", "unchanged"},
     view : Views \cup {NoView},
     slot : Slot,                       \* the slot the operation expects
     seen : Trees \cup {NoTree},        \* the content it scanned
     res : Resolutions]                 \* the checkpoint it restores

NoJob ==
    [kind |-> "none", step |-> "none", view |-> NoView, slot |-> OpenMissing,
     seen |-> NoTree, res |-> Missing]

Calls ==
    [manner : {"observed", "prepared", "bash", "context"},
     phase : {"none", "queued", "running", "protecting"},
     view : Views \cup {NoView}]

NoCall == [manner |-> "observed", phase |-> "none", view |-> NoView]

TargetKinds ==
    {"no-node", "same-location", "inherit-source", "restore", "detach",
     "materialize-missing", "protected-missing"}

SourceKinds == {"capture", "no-coordinate", "write-protected"}

Trips ==
    [phase : {"none", "queued", "looking", "asked", "answered", "leaving",
              "ready", "accepted"},
     view : Views \cup {NoView},
     target : Coordinates,
     source : SourceKinds,
     slot : Slot,
     seen : Trees \cup {NoTree},
     shown : Trees \cup {NoTree},
     res : Resolutions,
     kind : TargetKinds]

NoTrip ==
    [phase |-> "none", view |-> NoView, target |-> NoEntry,
     source |-> "no-coordinate", slot |-> OpenMissing, seen |-> NoTree,
     shown |-> NoTree, res |-> Missing, kind |-> "no-node"]

(* PendingNavigation: what the arrival is told of the departure.           *)
PlansMade ==
    [old : Leaves, destination : Coordinates, kind : TargetKinds,
     res : Resolutions, preview : Trees \cup {NoTree}]

NothingPlanned ==
    [old |-> NoEntry, destination |-> NoEntry, kind |-> "no-node",
     res |-> Missing, preview |-> NoTree]

Arrivals ==
    [phase : {"none", "queued", "running"},
     attempt : Attempts \cup {NoAttempt},
     view : Views \cup {NoView},
     plan : PlansMade]

NoArrival ==
    [phase |-> "none", attempt |-> NoAttempt, view |-> NoView,
     plan |-> NothingPlanned]

Asks ==
    [mode : {"manual", "loaded", "reload"},
     phase : {"none", "queued", "looking", "asked", "answered", "applying",
              "initialize", "initializing"},
     view : Views \cup {NoView},
     res : Resolutions,
     shown : Trees \cup {NoTree}]

NoAsk ==
    [mode |-> "manual", phase |-> "none", view |-> NoView, res |-> Missing,
     shown |-> NoTree]
-----------------------------------------------------------------------------
(* Jobs.                                                                   *)

Idle == job = NoJob

(* The next workspace execution in line is work of handler h.              *)
IsNext(h) == Idle /\ queue # <<>> /\ Head(queue) = h /\ owed[h] = "none"

(* What the queue is after a job started or was refused.                   *)
Others == Tail(queue)

OvertakesAll(q, h) == <<h>> \o q

Waits(q, h) == Append(q, h)

(* A step that leaves q waiting and owes no protection.                    *)
Goes(q) == queue' = q /\ UNCHANGED owed

Stays == UNCHANGED <<queue, owed>>

Free(h) == owed[h] = "none"

Runs(kind, step) == job.kind = kind /\ job.step = step

Begins(kind, step, view) ==
    job' = [NoJob EXCEPT !.kind = kind, !.step = step, !.view = view]

StepsTo(step) == job' = [job EXCEPT !.step = step]

Ends == job' = NoJob

(* isExactUsableSessionView: nothing was appended and the leaf stayed.     *)
Exact(view) == host = view

Here == At(host)

(* checkpoints.resolveReadableTree under the session barrier: nothing is   *)
(* readable.                                                               *)
Readable(s, e) ==
    IF s.barrier \/ e = NoEntry THEN Missing ELSE Resolve(s.slots, e)

(* commitCapture of the tree the job scanned, as a new state of the rows:  *)
(* a barrier is settled and blocks, a blocked slot refuses, and any other  *)
(* slot must be the expected one.                                          *)
CaptureVerdict(s, e, expected) ==
    IF s.barrier THEN "settled"
    ELSE IF ~ CanCapture(s.slots[e]) THEN "blocked"
    ELSE IF s.slots[e] # expected THEN "slot-changed"
    ELSE "committed"

Captured(s, e, tree) == [s EXCEPT !.slots[e] = OpenCheckpoint(tree)]

AfterCapture(s, e, expected, tree) ==
    CASE CaptureVerdict(s, e, expected) = "settled" ->
           [s EXCEPT !.slots = Reconciled(@, Line(e)), !.barrier = FALSE]
      [] CaptureVerdict(s, e, expected) = "committed" -> Captured(s, e, tree)
      [] OTHER -> s
-----------------------------------------------------------------------------
(* Protections.  Losing authority is immediate; the rows follow when the   *)
(* handler has waited for the lock.                                        *)

Owes(h, protection, q) ==
    /\ owed' = [owed EXCEPT ![h] = protection]
    /\ queue' = Waits(q, h)

(* recoverUncertainLocation, or its retirement form once inactive.         *)
OwesRecovery(s, h, q) ==
    /\ w' = Quarantined(s)
    /\ Owes(h, IF s.active THEN "recover" ELSE "retire", q)

(* withdrawFromParticipation.                                              *)
Withdraws(s, h, q) ==
    /\ w' = Withdrawn(s)
    /\ Owes(h, "retire", q)

Barred(s) == [Quarantined(s) EXCEPT !.barrier = TRUE]

(* recoverUncertainLocationInWorkspaceLock: when the coordinate cannot be  *)
(* read or protected the session is barred, and when that fails as well    *)
(* the recovery is retried once outside the lock.                          *)
RecoversInLock(s, h, q) ==
    \/ w' = Recover(s, host) /\ Goes(q)
    \/ "failures" \in uses /\ w' = Barred(s) /\ Goes(q)
    \/ "failures" \in uses /\ w' = Quarantined(s) /\ Owes(h, "recover", q)

(* A settlement that granted or closed authority, or else recovers.        *)
SettlesOr(outcome, q, recovery) ==
    \/ outcome.ok /\ w' = outcome.state /\ Goes(q)
    \/ ~ outcome.ok /\ recovery

(* The protection owed takes the lock.  Unsettled for the second time, it  *)
(* ends the participation (applyActiveArrivalSettlement).                  *)
Protects(h) ==
    LET settled == IF owed[h] = "recover" THEN Recover(w, host) ELSE Protected(w, host)
    IN  /\ Idle
        /\ queue # <<>> /\ Head(queue) = h
        /\ owed[h] # "none"
        /\ owed' = [owed EXCEPT ![h] = "none"]
        /\ queue' = Others
        /\ w' \in {settled} \cup
              IF "failures" \in uses THEN {Barred(w), Withdrawn(w)} ELSE {}
        /\ UNCHANGED <<job, hostVars, handlers>>
-----------------------------------------------------------------------------
(* Pi and the user.  Pi emits session_tree from the navigation itself,     *)
(* before it lets any other event or command into the runtime.             *)

runtimeVars == <<w, job, queue, owed>>

Parent(e) == IF Len(Path[e]) = 1 THEN NoEntry ELSE Path[e][Len(Path[e]) - 1]

HostAppend(e) ==
    /\ e \in Entries \ host.graph /\ e \in uses
    /\ Parent(e) = Here
    /\ host' = [graph |-> host.graph \cup {e}, leaf |-> e]
    /\ UNCHANGED <<event, content, edits, moves, runtimeVars, handlers>>

(* Pi moves to t, perhaps with a branch summary s appended there.  While   *)
(* the runtime participates Pi goes only where it was let.                 *)
HostNavigate(t, s) ==
    /\ ~ event.due /\ arr = NoArrival /\ Free("arr")
    /\ moves < MaxMoves
    /\ moves' = moves + 1
    /\ t \in host.graph \cup {NoEntry}
    /\ \/ trip.phase = "accepted" /\ t = trip.target
       \/ ~ w.active /\ trip = NoTrip /\ Free("trip")
    /\ \/ s = NoEntry /\ host' = [host EXCEPT !.leaf = t]
       \/ /\ s \in Entries \ host.graph /\ s \in uses
          /\ Parent(s) = t
          /\ host' = [graph |-> host.graph \cup {s}, leaf |-> s]
    /\ event' = [old |-> host.leaf, new |-> host'.leaf, landing |-> t, due |-> TRUE]
    /\ trip' = NoTrip
    /\ UNCHANGED <<content, edits, runtimeVars, call, plan, arr, ask>>

(* The user gives the navigation up after it was accepted.                 *)
HostStays ==
    /\ trip.phase = "accepted"
    /\ trip' = NoTrip
    /\ UNCHANGED <<hostVars, runtimeVars, call, plan, arr, ask>>

UserEdits(tree) ==
    /\ edits < MaxEdits
    /\ edits' = edits + 1
    /\ tree \in Trees \ {content, Mix} /\ tree \in uses
    /\ content' = tree
    /\ UNCHANGED <<host, event, moves, runtimeVars, handlers>>

(* The process dies and takes everything but the rows and the files along. *)
Crash ==
    /\ "crash" \in uses
    /\ w' = Withdrawn(w)
    /\ job' = NoJob /\ call' = NoCall /\ trip' = NoTrip /\ arr' = NoArrival
    /\ ask' = NoAsk /\ plan' = NothingPlanned
    /\ queue' = <<>> /\ owed' = [h \in Handlers |-> "none"]
    /\ event' = NoEvent
    /\ UNCHANGED <<host, content, edits, moves>>
=============================================================================
