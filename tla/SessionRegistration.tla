------------------------- MODULE SessionRegistration -------------------------
(***************************************************************************)
(* The start of an engine registers its Pi session in the store of its     *)
(* workspace: fresh, quarantined, or as a fork that inherits checkpoints   *)
(* from its parent's session (src/src/pi/session-registration-service.ts,  *)
(* and the start handler of lifecycle.ts that calls it).  ForkImport adds  *)
(* the parent whose session belongs to another store.                      *)
(*                                                                         *)
(* A store is named by the place of its directory, a number; 0 is nowhere, *)
(* and two workspaces may turn out to have the same.  Coordinates of a     *)
(* session graph are compared whole, so a rewritten one is another.        *)
(***************************************************************************)
EXTENDS EngineController, Sequences

CONSTANTS
    Places,    \* the store directories
    Sessions, NoSession,
    Entries,   \* the coordinates of session graphs
    Trees, NoTree,
    Workspaces, NoWorkspace,
    PlaceOf,      \* per workspace, the place of its store
    WorkspaceOf,  \* per process, its workspace
    SessionOf     \* per process, the session it registers

ASSUME PlaceAssumption ==
    /\ Places \subseteq Nat \ {0}
    /\ PlaceOf \in [Workspaces -> Places \cup {0}]
    /\ WorkspaceOf \in [Procs -> Workspaces]
    /\ SessionOf \in [Procs -> Sessions]
    /\ \A p \in Procs : PlaceOf[WorkspaceOf[p]] \in Places
ASSUME NobodyAssumption == "nobody" \notin Procs

VARIABLES
    reg,      \* per process, its registration
    locks,    \* per place, who holds the workspace lock
    rows,     \* per place and session, the registered session and its slots
    trees,    \* per place, the trees whose objects are stored
    parents,  \* per process, the parent claim of its session and the parent's file
    views     \* per process, the session as Pi shows it

storeVars == <<locks, rows, trees>>

regVars == <<reg, storeVars, parents, views>>

Nobody == "nobody"

Origins == {"fresh", "inherited", "quarantined"}

RowStates == {"absent", "conflict", "pending", "verified"}

NoRow == [at |-> "absent", origin |-> "fresh", slots |-> [e \in Entries |-> NoTree]]

NoParent ==
    [claim |-> "absent", there |-> FALSE, workspace |-> NoWorkspace, session |-> NoSession,
     graph |-> {}, lost |-> {}]

NoSource == [kind |-> "rejected", graph |-> {}]

RegSteps ==
    {"idle", "binding", "entering", "matching", "revalidating", "deciding", "resolving",
     "quarantining", "ordering", "rechecking", "importing", "confirming", "committing",
     "releasing", "thrown", "activating", "reconciling"}

NoRegistration ==
    [at |-> "idle",
     gen |-> 0,
     prepared |-> "rejected",
     view |-> [graph |-> {}, version |-> 0],
     parent |-> NoParent,      \* the parent as it was observed
     source |-> NoSource,      \* and its graph as it was last revalidated
     first |-> {},             \* the graph under which the import began
     projection |-> NoRow.slots,
     plan |-> "none",
     wanted |-> <<>>,          \* the locks still to be taken, in order
     held |-> <<>>,
     durable |-> TRUE]         \* no cleanup failed after the commit

Here(p) == PlaceOf[WorkspaceOf[p]]

There(p) == PlaceOf[reg[p].parent.workspace]

Local(p) == reg[p].parent.workspace = WorkspaceOf[p]

Row(p) == rows[Here(p)][SessionOf[p]]

ParentRow(p) == rows[There(p)][reg[p].parent.session]

(* Neither stopped nor closed: a retired engine's signal is aborted.       *)
Open(p) == host[p].engine[reg[p].gen].retires = 0

(* The session is still the one that is being registered.                  *)
StillCurrent(p) == views[p] = reg[p].view

Goes(p, r) == reg' = [reg EXCEPT ![p] = r]

To(p, step) == [reg[p] EXCEPT !.at = step]

(* The start handler ends; what the engine is then follows.                *)
Ends(p, activation) ==
    /\ Goes(p, NoRegistration)
    /\ host' = [host EXCEPT ![p].engine[reg[p].gen] =
                 [@ EXCEPT !.starting = FALSE, !.activation = activation]]
-----------------------------------------------------------------------------
(* What the session claims of a parent is taken from its header, and the   *)
(* parent's file is read.                                                  *)
Prepared(p) ==
    CASE parents[p].claim = "absent" -> "independent"
      [] parents[p].claim = "invalid" -> "rejected"
      [] OTHER -> IF parents[p].there THEN "observed" ELSE "rejected"

RegPrepares(p) ==
    LET g == host[p].initializing IN
    /\ g # 0
    /\ host[p].engine[g].starting
    /\ reg[p] = NoRegistration
    /\ Goes(p, [NoRegistration EXCEPT
                 !.at = "binding",
                 !.gen = g,
                 !.prepared = Prepared(p),
                 !.view = views[p],
                 !.parent = parents[p]])
    /\ UNCHANGED <<hostVars, storeVars, parents, views>>

(* A session that is not kept in a file, or belongs elsewhere, does not    *)
(* take part.                                                              *)
RegDeclines(p) ==
    LET g == host[p].initializing IN
    /\ g # 0
    /\ host[p].engine[g].starting
    /\ reg[p] = NoRegistration
    /\ host' = [host EXCEPT ![p].engine[g] =
                 [@ EXCEPT !.starting = FALSE, !.activation = "inactive"]]
    /\ UNCHANGED <<calls, reg, storeVars, parents, views>>

(* The parent's file cannot be read for now.                               *)
RegCannotTell(p) ==
    /\ reg[p].at = "binding"
    /\ reg[p].prepared = "observed"
    /\ Goes(p, [reg[p] EXCEPT !.prepared = "indeterminate"])
    /\ UNCHANGED <<hostVars, storeVars, parents, views>>

(* The store is opened, and its metadata migrated, under its lock; a stop  *)
(* ends the wait for it.                                                   *)
RegBinds(p) ==
    /\ reg[p].at = "binding"
    /\ Open(p) => locks[Here(p)] = Nobody
    /\ IF Open(p)
       THEN Goes(p, To(p, "entering")) /\ UNCHANGED host
       ELSE Ends(p, "unavailable")
    /\ UNCHANGED <<calls, storeVars, parents, views>>

RegCannotBind(p) ==
    /\ reg[p].at = "binding"
    /\ Ends(p, "unavailable")
    /\ UNCHANGED <<calls, storeVars, parents, views>>

RegEnters(p) ==
    /\ reg[p].at = "entering"
    /\ IF Open(p)
       THEN Goes(p, [To(p, "matching") EXCEPT !.wanted = <<Here(p)>>]) /\ UNCHANGED host
       ELSE Ends(p, "unavailable")
    /\ UNCHANGED <<calls, storeVars, parents, views>>

(* A lock is taken when it is free.  A wait may also time out, and ends    *)
(* when the engine is stopped; what was taken is then released.            *)
Waits(p) == reg[p].wanted # <<>> /\ reg[p].at \in {"matching", "quarantining", "ordering"}

RegLocks(p) ==
    LET place == Head(reg[p].wanted) IN
    /\ Waits(p)
    /\ Open(p)
    /\ locks[place] = Nobody
    /\ locks' = [locks EXCEPT ![place] = p]
    /\ Goes(p, [reg[p] EXCEPT !.wanted = Tail(@), !.held = Append(@, place)])
    /\ UNCHANGED <<hostVars, rows, trees, parents, views>>

RegGivesUp(p) ==
    /\ Waits(p)
    /\ Goes(p, [To(p, "thrown") EXCEPT !.wanted = <<>>])
    /\ UNCHANGED <<hostVars, storeVars, parents, views>>

RegAborted(p) == RegGivesUp(p) /\ ~ Open(p)

Throws(p) == Goes(p, To(p, "thrown")) /\ UNCHANGED <<rows, trees>>

Holding(p, step) ==
    /\ reg[p].at = step
    /\ reg[p].wanted = <<>>
    /\ UNCHANGED <<hostVars, locks, parents, views>>
-----------------------------------------------------------------------------
(* The registration is written in one transaction, if the session is still *)
(* the one that Pi shows and the engine has not been stopped.  A session   *)
(* that is registered already stays what it is.                            *)
Finalized(p, plan, slots) ==
    CASE Row(p).at = "verified" -> Row(p)
      [] Row(p).at = "pending" -> [Row(p) EXCEPT !.at = "verified"]
      [] OTHER -> [at |-> "verified", origin |-> plan,
                   slots |-> [e \in Entries |-> IF e \in reg[p].view.graph THEN slots[e]
                                                ELSE NoTree]]

MayCommit(p) == StillCurrent(p) /\ Open(p) /\ Row(p).at # "conflict"

Commits(p, plan, slots) ==
    IF MayCommit(p)
    THEN /\ rows' = [rows EXCEPT ![Here(p)][SessionOf[p]] = Finalized(p, plan, slots)]
         /\ Goes(p, [To(p, "releasing") EXCEPT !.plan = plan])
         /\ UNCHANGED trees
    ELSE Throws(p)

Quarantines(p) == Commits(p, "quarantined", NoRow.slots)

Registered(p) == Row(p).at \in {"verified", "pending", "conflict"}

(* Under the lock of its own store: a session that is registered, one      *)
(* without a parent, and one whose claim was rejected are settled at once. *)
RegMatches(p) ==
    /\ Holding(p, "matching")
    /\ CASE Registered(p) \/ reg[p].prepared = "independent" ->
              Commits(p, "fresh", NoRow.slots)
         [] ~ Registered(p) /\ reg[p].prepared = "rejected" -> Quarantines(p)
         [] ~ Registered(p) /\ reg[p].prepared = "indeterminate" -> Throws(p)
         [] ~ Registered(p) /\ reg[p].prepared = "observed" ->
              IF ~ StillCurrent(p) THEN Throws(p)
              ELSE IF Local(p) /\ ParentRow(p).at \in {"conflict", "pending"}
              THEN Quarantines(p)
              ELSE Goes(p, To(p, "revalidating")) /\ UNCHANGED <<rows, trees>>

(* The parent's file is read again: Pi may have appended to it, but not    *)
(* moved or rewritten what was observed.                                   *)
Revalidated(p) ==
    IF parents[p].there /\ parents[p].workspace = reg[p].parent.workspace
         /\ reg[p].parent.graph \subseteq parents[p].graph
    THEN [kind |-> "accepted", graph |-> parents[p].graph]
    ELSE NoSource

RegRevalidates(p) ==
    /\ Holding(p, "revalidating")
    /\ Goes(p, [To(p, "deciding") EXCEPT !.source = Revalidated(p)])
    /\ UNCHANGED <<rows, trees>>

(* What of the child's graph the parent's proves.                          *)
Proven(p) == reg[p].source.graph \cap reg[p].view.graph

Projected(p) ==
    [e \in Entries |-> IF e \in Proven(p) THEN ParentRow(p).slots[e] ELSE NoTree]

(* A parent of the same workspace is inherited from in one transaction;    *)
(* one of another is left to the import, without the lock.                 *)
RegDecides(p) ==
    /\ Holding(p, "deciding")
    /\ IF \/ reg[p].source.kind = "rejected"
          \/ reg[p].parent.session = SessionOf[p]
          \/ Local(p) /\ ParentRow(p).at # "verified"
       THEN Quarantines(p)
       ELSE IF Local(p) THEN Commits(p, "inherited", Projected(p))
       ELSE /\ Goes(p, [To(p, "releasing") EXCEPT !.first = reg[p].source.graph])
            /\ UNCHANGED <<rows, trees>>
-----------------------------------------------------------------------------
(* The locks are released last first.  A release that fails is reported:   *)
(* of the store's own lock after a commit, it leaves the registration      *)
(* durable but inactive; of the source's, it is only told; before a commit *)
(* the registration fails.                                                 *)
LastHeld(p) == reg[p].held[Len(reg[p].held)]

Unlocked(p) ==
    /\ reg[p].at \in {"releasing", "thrown"}
    /\ reg[p].held # <<>>
    /\ locks' = [locks EXCEPT ![LastHeld(p)] = IF @ = p THEN Nobody ELSE @]
    /\ UNCHANGED <<hostVars, rows, trees, parents, views>>

Released(p) == [reg[p] EXCEPT !.held = SubSeq(@, 1, Len(@) - 1)]

RegReleases(p) == Unlocked(p) /\ Goes(p, Released(p))

RegReleaseFails(p) ==
    /\ Unlocked(p)
    /\ Goes(p, IF LastHeld(p) # Here(p) THEN Released(p)
               ELSE IF reg[p].plan = "none" THEN [Released(p) EXCEPT !.at = "thrown"]
               ELSE [Released(p) EXCEPT !.durable = FALSE])

RegReturns(p) ==
    /\ reg[p].at = "releasing"
    /\ reg[p].held = <<>>
    /\ Goes(p, To(p, IF reg[p].plan = "none" THEN "resolving" ELSE "activating"))
    /\ UNCHANGED <<hostVars, storeVars, parents, views>>

RegFails(p) ==
    /\ reg[p].at = "thrown"
    /\ reg[p].held = <<>>
    /\ Ends(p, "unavailable")
    /\ UNCHANGED <<calls, storeVars, parents, views>>

(* Authority is granted to what is durable, if it is still current.        *)
RegActivates(p) ==
    /\ reg[p].at = "activating"
    /\ IF reg[p].durable /\ StillCurrent(p) /\ Open(p)
       THEN /\ host' = [host EXCEPT ![p].engine[reg[p].gen].activation = "active"]
            /\ Goes(p, To(p, "reconciling"))
       ELSE Ends(p, "unavailable")
    /\ UNCHANGED <<calls, storeVars, parents, views>>

(* The first reconciliation of the session follows; it may withdraw.       *)
RegReconciles(p) ==
    /\ reg[p].at = "reconciling"
    /\ Ends(p, host[p].engine[reg[p].gen].activation)
    /\ UNCHANGED <<calls, storeVars, parents, views>>

RegWithdraws(p) ==
    /\ reg[p].at = "reconciling"
    /\ Ends(p, "unavailable")
    /\ UNCHANGED <<calls, storeVars, parents, views>>
=============================================================================
