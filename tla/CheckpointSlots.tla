-------------------------- MODULE CheckpointSlots --------------------------
(***************************************************************************)
(* The pure core of Cyclotomy: what one session coordinate (an entry of a  *)
(* host session tree) can durably say about its checkpoint, how an         *)
(* operation may change it, and how a coordinate inherits a checkpoint     *)
(* from its ancestors.  Translated from src/src/domain/checkpoint-slot.ts  *)
(* and src/src/domain/checkpoint-lineage.ts.                               *)
(***************************************************************************)
EXTENDS Naturals, Sequences

CONSTANTS
    Entries,   \* stable coordinates (session entry ids)
    NoEntry,   \* the coordinate of a missing resolution
    Path,      \* Path[e]: the authenticated root-to-e ancestry of e
    Trees,     \* tree oids
    NoTree     \* no checkpoint

ASSUME NoTreeAssumption == NoTree \notin Trees
ASSUME NoEntryAssumption == NoEntry \notin Entries

(* The host graph is append-only and acyclic, so the ancestry of a         *)
(* coordinate ends at it and every prefix is the ancestry of its own end.  *)
ASSUME PathAssumption ==
    /\ Path \in [Entries -> Seq(Entries)]
    /\ \A e \in Entries :
          /\ Len(Path[e]) > 0
          /\ Path[e][Len(Path[e])] = e
          /\ \A i \in 1..Len(Path[e]) :
                Path[Path[e][i]] = SubSeq(Path[e], 1, i)
-----------------------------------------------------------------------------
(* Slots.  A row that is absent from the database is OpenMissing.          *)

Slot == [capture : {"open", "blocked"}, tree : Trees \cup {NoTree}]

OpenMissing == [capture |-> "open", tree |-> NoTree]
BlockedMissing == [capture |-> "blocked", tree |-> NoTree]
OpenCheckpoint(tree) == [capture |-> "open", tree |-> tree]
BlockedCheckpoint(tree) == [capture |-> "blocked", tree |-> tree]

IsBlocked(slot) == slot.capture = "blocked"
HasTree(slot) == slot.tree # NoTree

CanCaptureAlways(slot) == TRUE

CanCapture(slot) == ~ IsBlocked(slot)

(* An inherited checkpoint is pinned when an empty open slot is blocked;   *)
(* any other slot keeps what it says.                                      *)
BlockSlot(slot, effective) ==
    IF IsBlocked(slot) \/ HasTree(slot)
      THEN [slot EXCEPT !.capture = "blocked"]
      ELSE [capture |-> "blocked", tree |-> effective]

CanRelease(slot, expected) == slot = BlockedCheckpoint(expected)

CanAdopt(slot) == slot = BlockedMissing
-----------------------------------------------------------------------------
(* Lineage.  `slots' is a function on Entries.                             *)

Missing == [at |-> NoEntry, tree |-> NoTree]

Resolutions == [at : Entries \cup {NoEntry}, tree : Trees \cup {NoTree}]

Ancestors(e) == {Path[e][i] : i \in 1..Len(Path[e])}

Bearing(slots, e) == {i \in 1..Len(Path[e]) : HasTree(slots[Path[e][i]])}

IsNearest(slots, e, i) ==
    /\ i \in Bearing(slots, e)
    /\ \A j \in Bearing(slots, e) : j <= i

(* The checkpoint nearest above e, e included; a BlockedMissing coordinate *)
(* on the way does not hide it.                                            *)
Inherited(slots, e) ==
    IF Bearing(slots, e) = {}
      THEN Missing
      ELSE LET a == Path[e][CHOOSE i \in 1..Len(Path[e]) : IsNearest(slots, e, i)]
           IN  [at |-> a, tree |-> slots[a].tree]

(* BlockedMissing at the target is authoritative negative knowledge.       *)
Resolve(slots, e) ==
    IF slots[e] = BlockedMissing THEN Missing ELSE Inherited(slots, e)

ReconciledUnpinned(sl, path) ==
    [e \in Entries |-> IF e \in path THEN BlockSlot(sl[e], NoTree) ELSE sl[e]]

(* What reconcileSessionBarrierIn leaves: every open slot on the active    *)
(* ancestry is blocked on the checkpoint effective there.                  *)
Reconciled(sl, path) ==
    [e \in Entries |->
        IF e \in path THEN BlockSlot(sl[e], Inherited(sl, e).tree) ELSE sl[e]]

ReduceLineageAbove(slots, path) ==
    LET reduced[i \in 0..Len(path)] ==
          IF i = 0 THEN Missing
          ELSE IF HasTree(slots[path[i]])
                 THEN [at |-> path[i], tree |-> slots[path[i]].tree]
                 ELSE reduced[i - 1]
    IN  reduced[Len(path)]

(* The loop of reduceCheckpointLineage: the reference for Resolve.         *)
ReduceLineage(slots, path) ==
    LET reduced[i \in 0..Len(path)] ==
          IF i = 0 THEN Missing
          ELSE IF HasTree(slots[path[i]])
                 THEN [at |-> path[i], tree |-> slots[path[i]].tree]
                 ELSE reduced[i - 1]
    IN  IF slots[path[Len(path)]] = BlockedMissing
          THEN Missing
          ELSE reduced[Len(path)]
=============================================================================
