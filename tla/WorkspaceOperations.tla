-------------------------- MODULE WorkspaceOperations --------------------------
(***************************************************************************)
(* Captures and restores of a workspace that other programs change: a      *)
(* capture scans, publishes, and scans again; a restore scans, plans and   *)
(* stages, applies, and scans again (src/src/application/capture.ts,       *)
(* restore.ts).  What the caller of a restore does with its outcome is     *)
(* RestoreProtocol's subject.                                              *)
(***************************************************************************)
EXTENDS WorkspaceApply

CONSTANTS
    Scenarios   \* the initial states, with the bounds of what happens

VARIABLES
    op,       \* the operation under way, and those to follow
    first,    \* the scan that a capture publishes
    between,  \* the workspace when it had been published
    left      \* how often each of it may still happen, and to which paths

vars == <<applyVars, op, first, between, left>>

Steps ==
    {"idle", "scanning", "publishing", "validating", "preparing", "applying", "verifying",
     "ended"}

Shown(p) == IF Leaf(disk[p]) THEN disk[p] ELSE Absent

Init ==
    \E s \in Scenarios :
        /\ disk = s.disk
        /\ target = s.target
        /\ scan = NoScan
        /\ work = NoWork
        /\ steady = {} /\ bound = {} /\ unseen = {} /\ touched = {}
        /\ back = FALSE
        /\ authority = TRUE
        /\ op = [at |-> "idle", kind |-> "none", next |-> s.ops, outcome |-> "none", quiet |-> TRUE]
        /\ first = NoScan
        /\ between = [p \in Paths |-> Absent]
        /\ left = s.bounds

Scans ==
    /\ scan' = Started
    /\ steady' = {Root}
    /\ UNCHANGED disk

Ends(outcome) == op' = [op EXCEPT !.at = "ended", !.outcome = outcome]

Begins ==
    /\ op.at \in {"idle", "ended"} /\ op.next # <<>>
    /\ op' = [at |-> "scanning", kind |-> Head(op.next), next |-> Tail(op.next),
              outcome |-> "none", quiet |-> TRUE]
    /\ Scans
    /\ bound' = {} /\ unseen' = {} /\ touched' = {} /\ back' = FALSE
    /\ authority' = TRUE
    /\ work' = NoWork
    /\ UNCHANGED <<target, first, between, left>>

Scanning ==
    /\ op.at \in {"scanning", "validating", "verifying"}
    /\ ScanStep
    /\ UNCHANGED <<target, work, authority, op, first, between, left>>

Scanned ==
    /\ op.at = "scanning"
    /\ scan.todo = <<>>
    /\ IF ~ Complete THEN Ends("scan-incomplete")
       ELSE op' = [op EXCEPT !.at = IF op.kind = "capture" THEN "publishing" ELSE "preparing"]
    /\ first' = scan
    /\ UNCHANGED <<applyVars, between, left>>
-----------------------------------------------------------------------------
(* Content that is stored already is not read again; other content must be *)
(* what was scanned.                                                       *)
Publishes ==
    /\ op.at = "publishing"
    /\ \/ /\ op' = [op EXCEPT !.at = "validating"]
          /\ Scans
          /\ between' = [p \in Paths |-> Shown(p)]
          /\ UNCHANGED <<bound, unseen, touched, back>>
       \/ /\ \E p \in Paths : Seen(p).kind = "file" /\ disk[p] # Seen(p)
          /\ Ends("publish-failed")
          /\ UNCHANGED <<scanVars, between>>
    /\ UNCHANGED <<target, work, authority, first, left>>

SameDirectories == first.dirs = scan.dirs /\ scan.new = {}

SameSnapshot == first.entries = scan.entries /\ SameDirectories

Validated ==
    /\ op.at = "validating"
    /\ scan.todo = <<>>
    /\ Ends(IF ~ Complete THEN "scan-incomplete"
            ELSE IF SameSnapshot THEN "committed" ELSE "workspace-changed")
    /\ UNCHANGED <<applyVars, first, between, left>>
-----------------------------------------------------------------------------
(* The plan is drawn up and the contents are staged; all of it may be      *)
(* refused before anything is changed.                                     *)
Prepared ==
    /\ op.at = "preparing"
    /\ IF Blockers = {} /\ Ready
       THEN /\ op' = [op EXCEPT !.at = "applying"]
            /\ work' = [NoWork EXCEPT !.todo = Plan, !.known = scan.dirs]
       ELSE Ends("refused") /\ UNCHANGED work
    /\ UNCHANGED <<scanVars, target, authority, first, between, left>>

Applying ==
    /\ op.at = "applying"
    /\ ApplyStep
    /\ UNCHANGED <<op, first, between, left>>

Applied ==
    /\ op.at = "applying"
    /\ work.todo = <<>>
    /\ IF work.gate = "rejected"
       THEN Ends("failed") /\ UNCHANGED scanVars
       ELSE /\ op' = [op EXCEPT !.at = "verifying"]
            /\ Scans
            /\ UNCHANGED <<bound, unseen, touched, back>>
    /\ UNCHANGED <<target, work, authority, first, between, left>>

(* A scan that sees what was recorded is what a restore reports.           *)
Matches == Created \cup Modified \cup Deleted \cup Blockers = {}

Verified ==
    /\ op.at = "verifying"
    /\ scan.todo = <<>>
    /\ Ends(IF ~ Complete THEN "verify-incomplete"
            ELSE IF work.problems # {} THEN "apply-incomplete"
            ELSE IF Matches THEN "restored" ELSE "verify-failed")
    /\ UNCHANGED <<applyVars, first, between, left>>
-----------------------------------------------------------------------------
(* What others do, and what fails; none of it need happen.                 *)
UnderWay == op.at \notin {"idle", "ended"}

Disturbed(what) ==
    /\ UnderWay
    /\ left[what] > 0
    /\ left' = [left EXCEPT ![what] = @ - 1]
    /\ op' = [op EXCEPT !.quiet = FALSE]

Racing(attached) ==
    work' = [work EXCEPT !.raced = @ \cup {p \in Paths : disk'[p] # disk[p]} \cup (bound \ bound'),
                         !.attached = attached]

OthersChange ==
    /\ \E p \in left.paths :
          \/ OthersWrite(p) /\ Racing(work.attached)
          \/ /\ \/ OthersPut(p) \/ OthersMakeDirectory(p) \/ OthersRemove(p) \/ OthersExchange(p)
                \/ \E q \in left.paths : OthersMove(p, q)
             /\ Racing(IF work.todo # <<>> /\ disk'[Path] # disk[Path] THEN FALSE ELSE work.attached)
    /\ Disturbed("changes")
    /\ UNCHANGED <<scan, target, authority, first, between>>

Failing ==
    /\ \/ ScanReadFails /\ UNCHANGED <<target, work, authority>>
       \/ op.at = "applying" /\ ApplyFails
    /\ Disturbed("failures")
    /\ UNCHANGED <<first, between>>

AuthorityLost ==
    /\ op.kind = "restore"
    /\ authority
    /\ authority' = FALSE
    /\ Disturbed("losses")
    /\ UNCHANGED <<scanVars, target, work, first, between>>

(* The process dies; another operation follows in a new one.               *)
Crash ==
    /\ UnderWay
    /\ left.crashes > 0
    /\ left' = [left EXCEPT !.crashes = @ - 1]
    /\ op' = [op EXCEPT !.at = "ended", !.outcome = "none", !.quiet = FALSE]
    /\ UNCHANGED <<applyVars, first, between>>

Next ==
    \/ Begins \/ Scanning \/ Scanned \/ Publishes \/ Validated \/ Prepared \/ Applying \/ Applied
    \/ Verified \/ OthersChange \/ Failing \/ AuthorityLost \/ Crash

Spec == Init /\ [][Next]_vars
-----------------------------------------------------------------------------
(* The workspace, its scans and the operation on it have their types.      *)
Nodes ==
    {Absent, Directory, Torn} \cup {File(c) : c \in Contents} \cup {Link(l) : l \in Links}

TypeOK ==
    /\ disk \in [Paths -> Nodes] /\ target \in [Paths -> Nodes]
    /\ DOMAIN scan.entries = Paths
    /\ scan.pending \cup scan.names \cup scan.dirs \cup scan.problems \subseteq Paths
    /\ steady \cup bound \cup unseen \cup touched \subseteq Paths
    /\ back \in BOOLEAN /\ authority \in BOOLEAN
    /\ op.at \in Steps
    /\ work.gate \in {"ready", "authorized", "rejected"}
    /\ work.known \cup work.dirty \cup work.raced \subseteq Paths

(* Nobody's work is destroyed unseen: what an apply deletes, replaces or   *)
(* overwrites is what the scan saw there, under the directories the scan   *)
(* saw, or was changed after the step's own check - the moment that paths  *)
(* cannot be checked and changed at once.  Ignored paths stay.             *)
NothingUnseenIsLost ==
    [][\A p \in Paths \ Temps :
          op.at = "applying" /\ op'.at = "applying" /\ op'.quiet = op.quiet /\ left' = left
          /\ disk'[p] # disk[p] =>
             /\ Managed(p) \/ disk[p] = Absent
             /\ \/ disk[p] \in {Absent, Torn, Seen(p)}
                \/ disk[p].kind = "directory" /\ p \in scan.dirs
                \/ p \in work.raced
             /\ \A d \in Above[p] : d \in bound \cup work.raced]_vars

(* What is reported was there.  A restore that reports success left every  *)
(* path as recorded, but for those that others changed after its last scan *)
(* had passed them; a capture is the workspace of one moment, if nothing   *)
(* was changed and changed back.                                           *)
ReportsAreTrue ==
    /\ op.at = "ended" /\ op.outcome = "restored" =>
          \A p \in Paths : Managed(p) /\ p \notin unseen => Shown(p) = target[p]
    /\ op.at = "ended" /\ op.outcome = "committed" /\ ~ back =>
          \A p \in Paths : Managed(p) => Seen(p) = between[p]

(* A restore that nothing disturbs makes the workspace what was recorded,  *)
(* whatever an earlier one that failed or died has left of it; it refuses  *)
(* only to destroy what its scope leaves out.                              *)
QuietRestoresSucceed ==
    op.at = "ended" /\ op.kind = "restore" /\ op.quiet =>
        \/ /\ op.outcome = "restored"
           /\ \A p \in Paths : Managed(p) => Shown(p) = target[p]
        \/ /\ op.outcome = "refused"
           /\ \E q \in Ignored : There(q) /\ (q \in Kept \/ \E p \in Above[q] \cup {q} : Wanted(p))
=============================================================================
