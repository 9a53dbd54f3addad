--------------------------- MODULE MetadataStore ---------------------------
(***************************************************************************)
(* One workspace's metadata database (src/src/infrastructure/metadata.ts)  *)
(* and the connections that use it: the session registry, the checkpoint   *)
(* slots, the per-session capture barrier and the history generation that  *)
(* fences writers after a forget.                                          *)
(*                                                                         *)
(* Every action is one SQLite writer transaction (BEGIN IMMEDIATE): it     *)
(* asserts the workspace write authority, then its own guards, and commits *)
(* as a whole.  A refused operation throws or returns "slot-changed",      *)
(* "blocked" or "absent" and rolls back or writes nothing: it is a         *)
(* stuttering step.  What a caller observed earlier (an expected slot, an  *)
(* expected resolution) is an input that may be as old as it likes.        *)
(***************************************************************************)
EXTENDS CheckpointSlots, Integers, FiniteSets

CONSTANTS
    Conns,      \* open metadata connections, each in its own process
    NoConn,     \* nobody holds the workspace lock
    Sessions,   \* host session ids
    Legacy,     \* sessions whose rows an older schema may have written
    Files,      \* host session files
    NoFile,     \* file of an unregistered session
    NoProjection,
    MaxEpoch    \* bound on forgets per session

ASSUME ConnAssumption == NoConn \notin Conns
ASSUME FileAssumption == NoFile \notin Files
ASSUME LegacyAssumption == Legacy \subseteq Sessions
ASSUME MaxEpochAssumption == MaxEpoch \in Nat

VARIABLES
    graph,      \* graph[s]: the entries of s's append-only session file
    registry,   \* session_registry
    slots,      \* checkpoint_slot
    barrier,    \* session_capture_barrier
    history,    \* session_history
    attached,   \* #historyEpoch of every connection
    holder,     \* connection that holds the workspace write authority
    projection  \* fork projection a connection exported and has not used

hostVars == <<graph>>
dataVars == <<registry, slots, barrier, history>>
vars == <<graph, registry, slots, barrier, history, attached, holder, projection>>

Unattached == -1

Projections ==
    [source : Sessions, target : Sessions, barrier : BOOLEAN,
     slots : UNION {[P -> Slot] : P \in SUBSET Entries}]

TypeOK ==
    /\ graph \in [Sessions -> SUBSET Entries]
    /\ registry \in [Sessions -> [state : {"absent", "pending", "verified"},
                                  file : Files \cup {NoFile}]]
    /\ slots \in [Sessions -> [Entries -> Slot]]
    /\ barrier \in SUBSET Sessions
    /\ history \in [Sessions -> [epoch : Nat, pending : BOOLEAN]]
    /\ attached \in [Conns -> [Sessions -> Nat \cup {Unattached}]]
    /\ holder \in Conns \cup {NoConn}
    /\ projection \in [Conns -> Projections \cup {NoProjection}]
-----------------------------------------------------------------------------
(* State formulae.                                                         *)

Unregistered == [state |-> "absent", file |-> NoFile]

AncestryClosed(P) == \A e \in P : Ancestors(e) \subseteq P

HasRows(s) == s \in barrier \/ \E e \in Entries : slots[s][e] # OpenMissing

SlotsRetained(s) == \A e \in Entries \ graph[s] : slots[s][e] = OpenMissing

IdentityFreeById(s, f) == registry[s].state # "absent" => registry[s].file = f

(* No registered session has the id without the file or the file without   *)
(* the id.                                                                 *)
IdentityFree(s, f) ==
    \A r \in Sessions :
        registry[r].state # "absent" => (r = s <=> registry[r].file = f)

MayWriteUnattached(c, s) ==
    /\ holder = c
    /\ projection[c] = NoProjection
    /\ registry[s].state = "verified"

MayWriteOnceReset(c, s) ==
    /\ MayWriteUnattached(c, s)
    /\ attached[c][s] # Unattached
    /\ ~ history[s].pending

(* #requireSessionHistoryReady, then requireVerifiedSessionIn.             *)
MayWrite(c, s) ==
    /\ holder = c
    /\ projection[c] = NoProjection
    /\ attached[c][s] = history[s].epoch
    /\ ~ history[s].pending
    /\ registry[s].state = "verified"

(* Retained coordinates with neither a checkpoint nor a guard are closed,  *)
(* except the one the registration leaves open.                            *)
Guarded(s, open) ==
    [e \in Entries |->
        IF e \in graph[s] \ {open} /\ slots[s][e] = OpenMissing
          THEN BlockedMissing
          ELSE slots[s][e]]
-----------------------------------------------------------------------------
(* A new database is empty.  For a session in Legacy schema v1 or v2 may   *)
(* have left a registration, which migration makes pending and to which it *)
(* carries the old guard as a barrier, or slots without any registration.  *)
NoRows == [e \in Entries |-> OpenMissing]

Graphs == {P \in SUBSET Entries : AncestryClosed(P)}

LegacyRegistry ==
    {r \in [Legacy -> {Unregistered} \cup [state : {"pending"}, file : Files]] :
        \A q, s \in Legacy :
            q # s /\ r[q] = r[s] => r[q] = Unregistered}

Init ==
    /\ \E old \in [Legacy -> Graphs] :
          graph = [s \in Sessions |-> IF s \in Legacy THEN old[s] ELSE {}]
    /\ \E old \in LegacyRegistry :
          registry = [s \in Sessions |-> IF s \in Legacy THEN old[s] ELSE Unregistered]
    /\ \E old \in [Legacy -> [Entries -> Slot]] :
          slots = [s \in Sessions |-> IF s \in Legacy THEN old[s] ELSE NoRows]
    /\ barrier \in SUBSET {s \in Legacy : registry[s].state = "pending"}
    /\ history = [s \in Sessions |-> [epoch |-> 0, pending |-> FALSE]]
    /\ attached = [c \in Conns |-> [s \in Sessions |-> Unattached]]
    /\ holder = NoConn
    /\ projection = [c \in Conns |-> NoProjection]
-----------------------------------------------------------------------------
(* The host appends a stable entry to a session file.                      *)
HostAppend(s, e) ==
    /\ e \notin graph[s]
    /\ Ancestors(e) \ {e} \subseteq graph[s]
    /\ graph' = [graph EXCEPT ![s] = @ \cup {e}]
    /\ UNCHANGED <<registry, slots, barrier, history, attached, holder, projection>>

(* The workspace lock, as WorkspaceLock implements it.  What a connection  *)
(* read for a fork lives no longer than its lock session.                  *)
Acquire(c) ==
    /\ holder = NoConn
    /\ holder' = c
    /\ UNCHANGED <<graph, registry, slots, barrier, history, attached, projection>>

ReleaseKeepingProjection(c) ==
    /\ holder = c
    /\ holder' = NoConn
    /\ UNCHANGED <<graph, registry, slots, barrier, history, attached, projection>>

Release(c) ==
    /\ holder = c
    /\ holder' = NoConn
    /\ projection' = [projection EXCEPT ![c] = NoProjection]
    /\ UNCHANGED <<graph, registry, slots, barrier, history, attached>>

(* close(), or the end of the process: a reopened connection starts        *)
(* without any attached generation.                                        *)
Close(c) ==
    /\ attached' = [attached EXCEPT ![c] = [s \in Sessions |-> Unattached]]
    /\ projection' = [projection EXCEPT ![c] = NoProjection]
    /\ holder' = IF holder = c THEN NoConn ELSE holder
    /\ UNCHANGED <<graph, registry, slots, barrier, history>>
-----------------------------------------------------------------------------
(* Session writes.                                                         *)

WriteSlot(s, e, slot) == slots' = [slots EXCEPT ![s][e] = slot]

ReconcileAlong(s, e) ==
    /\ slots' = [slots EXCEPT ![s] = Reconciled(@, Ancestors(e))]
    /\ barrier' = barrier \ {s}

(* commitCapture under a barrier: the capture is refused ("blocked"), but  *)
(* the barrier is settled along the active ancestry.                       *)
CaptureSettlesBarrier(c, s, e) ==
    /\ MayWrite(c, s)
    /\ e \in graph[s]
    /\ s \in barrier
    /\ ReconcileAlong(s, e)
    /\ UNCHANGED <<graph, registry, history, attached, holder, projection>>

CommitCapture(c, s, e, expected, tree) ==
    /\ MayWrite(c, s)
    /\ e \in graph[s]
    /\ s \notin barrier
    /\ CanCapture(slots[s][e])
    /\ slots[s][e] = expected
    /\ WriteSlot(s, e, OpenCheckpoint(tree))
    /\ UNCHANGED <<graph, registry, barrier, history, attached, holder, projection>>

(* protectLocation: the pin is written whether or not the caller's         *)
(* expected resolution still holds; that only decides between "protected"  *)
(* and "stale".                                                            *)
ProtectLocation(c, s, e) ==
    /\ MayWrite(c, s)
    /\ e \in graph[s]
    /\ WriteSlot(s, e, BlockSlot(slots[s][e], Resolve(slots[s], e).tree))
    /\ UNCHANGED <<graph, registry, barrier, history, attached, holder, projection>>

AdmitUnderBarrier(c, s, e, expected) ==
    /\ MayWrite(c, s)
    /\ e \in graph[s]
    /\ expected.tree # NoTree
    /\ Resolve(slots[s], e) = expected
    /\ CanRelease(slots[s][e], expected.tree)
    /\ WriteSlot(s, e, OpenCheckpoint(expected.tree))
    /\ UNCHANGED <<graph, registry, barrier, history, attached, holder, projection>>

(* admitResolvedLocation: only an exact pin needs a write.                 *)
AdmitResolvedLocation(c, s, e, expected) ==
    /\ MayWrite(c, s)
    /\ e \in graph[s]
    /\ s \notin barrier
    /\ expected.tree # NoTree
    /\ Resolve(slots[s], e) = expected
    /\ CanRelease(slots[s][e], expected.tree)
    /\ WriteSlot(s, e, OpenCheckpoint(expected.tree))
    /\ UNCHANGED <<graph, registry, barrier, history, attached, holder, projection>>

AdoptBlockedMissing(c, s, e, tree) ==
    /\ MayWrite(c, s)
    /\ e \in graph[s]
    /\ s \notin barrier
    /\ CanAdopt(slots[s][e])
    /\ WriteSlot(s, e, OpenCheckpoint(tree))
    /\ UNCHANGED <<graph, registry, barrier, history, attached, holder, projection>>

RaiseSessionBarrier(c, s) ==
    /\ MayWrite(c, s)
    /\ barrier' = barrier \cup {s}
    /\ UNCHANGED <<graph, registry, slots, history, attached, holder, projection>>

ReconcileSessionBarrier(c, s, e) ==
    /\ MayWrite(c, s)
    /\ e \in graph[s]
    /\ s \in barrier
    /\ ReconcileAlong(s, e)
    /\ UNCHANGED <<graph, registry, history, attached, holder, projection>>
-----------------------------------------------------------------------------
(* finalizeSessionProjection, one action per outcome.  It needs no earlier *)
(* attachment: committing it attaches the connection to the generation the *)
(* transaction read.  `leaf' is the host's active coordinate, NoEntry at   *)
(* the root.                                                               *)

Attach(c, s) == attached' = [attached EXCEPT ![c][s] = history[s].epoch]

Leaves(s) == graph[s] \cup {NoEntry}

ClaimsUnchecked(c, s, f, state) ==
    /\ holder = c
    /\ projection[c] = NoProjection
    /\ IdentityFree(s, f)
    /\ registry[s].state = state

(* The identity is registered, and both halves of it match.                *)
Claims(c, s, f, state) ==
    /\ holder = c
    /\ projection[c] = NoProjection
    /\ IdentityFree(s, f)
    /\ registry[s].state = state
    /\ SlotsRetained(s)

(* The session is unknown: no registration, no reset and no stray row.     *)
Registers(c, s, f) ==
    /\ holder = c
    /\ IdentityFree(s, f)
    /\ registry[s].state = "absent"
    /\ ~ history[s].pending
    /\ ~ HasRows(s)
    /\ registry' = [registry EXCEPT ![s] = [state |-> "verified", file |-> f]]
    /\ Attach(c, s)
    /\ UNCHANGED <<graph, history, holder>>

RegisterFresh(c, s, f, leaf) ==
    /\ Registers(c, s, f)
    /\ projection[c] = NoProjection
    /\ slots' = [slots EXCEPT ![s] = Guarded(s, leaf)]
    /\ UNCHANGED <<barrier, projection>>

(* The parent session could not be authenticated: everything inherited is  *)
(* closed and so is every capture.                                         *)
RegisterQuarantined(c, s, f) ==
    /\ Registers(c, s, f)
    /\ slots' = [slots EXCEPT ![s] = Guarded(s, NoEntry)]
    /\ barrier' = barrier \cup {s}
    /\ projection' = [projection EXCEPT ![c] = NoProjection]

(* The child takes the source's slot at every proven coordinate.           *)
RegisterFork(c, s, f) ==
    /\ Registers(c, s, f)
    /\ projection[c] # NoProjection
    /\ projection[c].target = s
    /\ projection[c].source # s
    /\ slots' = [slots EXCEPT ![s] =
                   [e \in Entries |->
                      IF e \in DOMAIN projection[c].slots
                        THEN projection[c].slots[e]
                        ELSE Guarded(s, NoEntry)[e]]]
    /\ barrier' = IF projection[c].barrier THEN barrier \cup {s} ELSE barrier
    /\ projection' = [projection EXCEPT ![c] = NoProjection]

AdoptLegacyRowsOpen(s, f, leaf) ==
    /\ registry' = [registry EXCEPT ![s] = [state |-> "verified", file |-> f]]
    /\ slots' = [slots EXCEPT ![s] = Guarded(s, leaf)]
    /\ UNCHANGED barrier

(* verifyPendingRegistrationIn: legacy rows are adopted closed, and a      *)
(* guard is settled along the active ancestry at once.                     *)
AdoptLegacyRows(s, f, leaf) ==
    /\ registry' = [registry EXCEPT ![s] = [state |-> "verified", file |-> f]]
    /\ IF s \in barrier /\ leaf # NoEntry
         THEN /\ slots' = [slots EXCEPT ![s] =
                             Reconciled(Guarded(s, NoEntry), Ancestors(leaf))]
              /\ barrier' = barrier \ {s}
         ELSE /\ slots' = [slots EXCEPT ![s] = Guarded(s, NoEntry)]
              /\ UNCHANGED barrier

VerifyPending(c, s, f, leaf) ==
    /\ Claims(c, s, f, "pending")
    /\ AdoptLegacyRows(s, f, leaf)
    /\ history' = [history EXCEPT ![s].pending = FALSE]
    /\ Attach(c, s)
    /\ UNCHANGED <<graph, holder, projection>>

ClaimOrphan(c, s, f, leaf) ==
    /\ Claims(c, s, f, "absent")
    /\ ~ history[s].pending
    /\ HasRows(s)
    /\ AdoptLegacyRows(s, f, leaf)
    /\ Attach(c, s)
    /\ UNCHANGED <<graph, history, holder, projection>>

(* The first stable attach after a forget closes what the forget emptied.  *)
ReattachForgotten(c, s, f, leaf) ==
    /\ Claims(c, s, f, "verified")
    /\ history[s].pending
    /\ slots' = [slots EXCEPT ![s] = Guarded(s, leaf)]
    /\ history' = [history EXCEPT ![s].pending = FALSE]
    /\ Attach(c, s)
    /\ UNCHANGED <<graph, registry, barrier, holder, projection>>

Reattach(c, s, f) ==
    /\ Claims(c, s, f, "verified")
    /\ ~ history[s].pending
    /\ Attach(c, s)
    /\ UNCHANGED <<graph, registry, slots, barrier, history, holder, projection>>

ExportForkAnySubset(c, source, s, proven) ==
    /\ holder = c
    /\ projection[c] = NoProjection
    /\ source # s
    /\ registry[source].state = "verified"
    /\ registry[s].state = "absent"
    /\ proven \subseteq graph[source] \cap graph[s]
    /\ projection' = [projection EXCEPT ![c] =
                        [source |-> source, target |-> s,
                         barrier |-> source \in barrier,
                         slots |-> [e \in proven |-> slots[source][e]]]]
    /\ UNCHANGED <<graph, registry, slots, barrier, history, attached, holder>>

(* exportForkProjection: the caller names the coordinates it has proven to *)
(* be shared, which provenStableCoordinateIds keeps ancestry-closed.       *)
ExportFork(c, source, s, proven) ==
    /\ holder = c
    /\ projection[c] = NoProjection
    /\ source # s
    /\ registry[source].state = "verified"
    /\ registry[s].state = "absent"
    /\ proven \subseteq graph[source] \cap graph[s]
    /\ AncestryClosed(proven)
    /\ projection' = [projection EXCEPT ![c] =
                        [source |-> source, target |-> s,
                         barrier |-> source \in barrier,
                         slots |-> [e \in proven |-> slots[source][e]]]]
    /\ UNCHANGED <<graph, registry, slots, barrier, history, attached, holder>>

(* A whole-session forget by a concurrent client of the same schema.       *)
Forget(c, s) ==
    /\ holder = c
    /\ projection[c] = NoProjection
    /\ registry[s].state # "absent"
    /\ history[s].epoch < MaxEpoch
    /\ slots' = [slots EXCEPT ![s] = NoRows]
    /\ barrier' = barrier \ {s}
    /\ history' = [history EXCEPT ![s] = [epoch |-> @.epoch + 1, pending |-> TRUE]]
    /\ UNCHANGED <<graph, registry, attached, holder, projection>>
-----------------------------------------------------------------------------
Lifecycle(c) == Acquire(c) \/ Release(c) \/ Close(c)

SessionWrite(c, s) ==
    \/ \E e \in Entries :
          \/ CaptureSettlesBarrier(c, s, e)
          \/ \E expected \in Slot, tree \in Trees : CommitCapture(c, s, e, expected, tree)
          \/ ProtectLocation(c, s, e)
          \/ \E expected \in Resolutions : AdmitResolvedLocation(c, s, e, expected)
          \/ \E tree \in Trees : AdoptBlockedMissing(c, s, e, tree)
          \/ ReconcileSessionBarrier(c, s, e)
    \/ RaiseSessionBarrier(c, s)

Registration(c, s) ==
    \E f \in Files :
       \/ \E leaf \in Leaves(s) :
             \/ RegisterFresh(c, s, f, leaf)
             \/ VerifyPending(c, s, f, leaf)
             \/ ClaimOrphan(c, s, f, leaf)
             \/ ReattachForgotten(c, s, f, leaf)
       \/ RegisterQuarantined(c, s, f)
       \/ RegisterFork(c, s, f)
       \/ Reattach(c, s, f)

Next ==
    \/ \E s \in Sessions, e \in Entries : HostAppend(s, e)
    \/ \E c \in Conns : Lifecycle(c)
    \/ \E c \in Conns, s \in Sessions :
          \/ SessionWrite(c, s)
          \/ Registration(c, s)
          \/ Forget(c, s)
          \/ \E source \in Sessions, proven \in SUBSET Entries :
                ExportFork(c, source, s, proven)

Spec == Init /\ [][Next]_vars
-----------------------------------------------------------------------------
(* Safety.                                                                 *)

(* The literal loop of the source and the law the other definitions use    *)
(* give the same answer at every coordinate of every reachable store.      *)
LineageLawHolds ==
    \A s \in Sessions, e \in Entries :
        ReduceLineage(slots[s], Path[e]) = Resolve(slots[s], e)

(* No session file is registered for two sessions, whatever identities the *)
(* host presents.                                                          *)
IdentityUnique ==
    \A r, s \in Sessions :
        /\ r # s
        /\ registry[r].state # "absent"
        /\ registry[s].state # "absent"
        => registry[r].file # registry[s].file

(* A pending reset is a treeless tombstone: nothing that a forget emptied  *)
(* is written again before a stable attach closes the surviving            *)
(* coordinates (the comment on SESSION_HISTORY_V5_SCHEMA_SQL).             *)
ResetLeavesNoHistory ==
    \A s \in Sessions : history[s].pending => ~ HasRows(s)

(* A verified session has rows only at coordinates of its host file.       *)
SlotsWithinGraph ==
    \A s \in Sessions : registry[s].state = "verified" => SlotsRetained(s)

(* A projection that is about to be committed is still what its source     *)
(* says, at coordinates the child retains: the exporter kept the workspace *)
(* lock, so the child starts from the parent's current checkpoints and     *)
(* barrier.                                                                *)
ProjectionCurrent ==
    \A c \in Conns :
        projection[c] # NoProjection =>
            LET p == projection[c]
            IN  /\ holder = c
                /\ registry[p.source].state = "verified"
                /\ p.barrier = (p.source \in barrier)
                /\ DOMAIN p.slots \subseteq graph[p.target]
                /\ \A e \in DOMAIN p.slots : p.slots[e] = slots[p.source][e]
-----------------------------------------------------------------------------
(* Action properties.                                                      *)

Forgotten(s) == history'[s].epoch # history[s].epoch

RowsChange(s) == slots'[s] # slots[s] \/ (s \in barrier) # (s \in barrier')

(* A row of a session changes only in the hands of the lock holder, which  *)
(* has attached to the generation the store has now; a writer that         *)
(* attached before a forget never writes into the new generation, however  *)
(* often it retries and whoever else attaches.                             *)
WritersAreCurrent ==
    [][\A s \in Sessions :
          RowsChange(s) /\ ~ Forgotten(s) =>
              /\ holder \in Conns
              /\ attached'[holder][s] = history'[s].epoch
              /\ ~ history'[s].pending]_vars

(* While a session's capture barrier stands no coordinate of it becomes    *)
(* open: the barrier goes only by closing the active ancestry.             *)
BarrierHoldsCaptures ==
    [][\A s \in Sessions, e \in Entries :
          /\ s \in barrier
          /\ ~ Forgotten(s)
          /\ slots'[s][e] # slots[s][e]
          => IsBlocked(slots'[s][e])]_vars

(* A pinned checkpoint keeps its tree until its session is forgotten: it   *)
(* is reopened by value, never replaced by a capture while blocked.        *)
PinsKeepTheirTree ==
    [][\A s \in Sessions, e \in Entries :
          /\ IsBlocked(slots[s][e])
          /\ HasTree(slots[s][e])
          /\ ~ Forgotten(s)
          => slots'[s][e].tree = slots[s][e].tree]_vars

(* A step that only blocks coordinates leaves the checkpoint that every    *)
(* coordinate of the session resolves to as it was (checkpoint-slot.ts:    *)
(* blocking "never changes how a descendant resolves its own ancestry").   *)
OnlyBlocks(s) ==
    \A e \in Entries : slots'[s][e] # slots[s][e] => IsBlocked(slots'[s][e])

BlockingNeverRetargets ==
    [][\A s \in Sessions :
          /\ registry[s].state = "verified"
          /\ ~ history[s].pending
          /\ ~ Forgotten(s)
          /\ OnlyBlocks(s)
          => \A e \in Entries :
                Resolve(slots'[s], e).tree = Resolve(slots[s], e).tree]_vars

(* A coordinate that existed before its session was authenticated is       *)
(* never left open and empty, ready to record somebody else's workspace:   *)
(* only the leaf of a fresh or forgotten session is, and none of a session *)
(* whose rows an older schema wrote.                                       *)
Authenticates(s) ==
    /\ registry'[s].state = "verified"
    /\ registry[s].state # "verified" \/ (history[s].pending /\ ~ history'[s].pending)

HistoryStartsClosed ==
    [][\A s \in Sessions :
          /\ Authenticates(s)
          /\ \A c \in Conns : projection[c] = NoProjection
          =>
              Cardinality({e \in graph[s] : slots'[s][e] = OpenMissing})
                <= IF registry[s].state = "pending" \/ HasRows(s) THEN 0 ELSE 1]_vars

(* A fork resolves every coordinate it shares with its proven parent       *)
(* exactly as the parent resolves it, whatever the child kept or added     *)
(* beside them.                                                            *)
ForkKeepsLineage ==
    [][\A c \in Conns, s \in Sessions, f \in Files :
          RegisterFork(c, s, f) =>
              \A e \in DOMAIN projection[c].slots :
                  Resolve(slots'[s], e) = Resolve(slots[projection[c].source], e)]_vars
=============================================================================
