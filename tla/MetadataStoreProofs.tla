------------------------ MODULE MetadataStoreProofs ------------------------
(* Safety of the metadata store for every set of connections, sessions,    *)
(* host trees and checkpoint trees, and for any number of forgets.         *)
EXTENDS MetadataStore, CheckpointSlotsProofs, FiniteSetTheorems

(* A host session file holds the ancestry of each of its entries.          *)
GraphClosed == \A s \in Sessions : AncestryClosed(graph[s])

(* The inductive invariant.  ProjectionCurrent also says that a connection *)
(* with an export holds the lock, which is what keeps every other writer   *)
(* out while the export waits to be committed.                             *)
Inv ==
    /\ TypeOK
    /\ GraphClosed
    /\ IdentityUnique
    /\ ResetLeavesNoHistory
    /\ SlotsWithinGraph
    /\ ProjectionCurrent

LEMMA NoRowsTyped == NoRows \in [Entries -> Slot]
BY ConstantSlotsTyped DEF NoRows

LEMMA InitInv == Init => Inv
<1> SUFFICES ASSUME Init PROVE Inv
  OBVIOUS
<1>1. graph \in [Sessions -> SUBSET Entries]
  BY LegacyAssumption DEF Init, Graphs
<1>0. GraphClosed
  <2> SUFFICES ASSUME NEW s \in Sessions PROVE AncestryClosed(graph[s])
    BY DEF GraphClosed
  <2>1. graph[s] = {} \/ graph[s] \in Graphs
    BY DEF Init
  <2> QED
    BY <2>1 DEF Graphs, AncestryClosed
<1>2. /\ registry \in [Sessions -> [state : {"absent", "pending", "verified"},
                                    file : Files \cup {NoFile}]]
      /\ \A s \in Sessions : registry[s].state # "verified"
  BY LegacyAssumption DEF Init, LegacyRegistry, Unregistered
<1>3. slots \in [Sessions -> [Entries -> Slot]]
  BY LegacyAssumption, NoRowsTyped DEF Init
<1>4. barrier \in SUBSET Sessions
  BY LegacyAssumption DEF Init
<1>5. /\ history \in [Sessions -> [epoch : Nat, pending : BOOLEAN]]
      /\ \A s \in Sessions : ~ history[s].pending
  BY DEF Init
<1>6. /\ attached \in [Conns -> [Sessions -> Nat \cup {Unattached}]]
      /\ holder \in Conns \cup {NoConn}
      /\ projection \in [Conns -> Projections \cup {NoProjection}]
      /\ \A c \in Conns : projection[c] = NoProjection
  BY DEF Init
<1>7. IdentityUnique
  <2> SUFFICES ASSUME NEW r \in Sessions, NEW s \in Sessions, r # s,
                      registry[r].state # "absent", registry[s].state # "absent",
                      registry[r].file = registry[s].file
               PROVE  FALSE
    BY DEF IdentityUnique
  <2>1. PICK old \in LegacyRegistry :
          registry = [x \in Sessions |-> IF x \in Legacy THEN old[x] ELSE Unregistered]
    BY DEF Init
  <2>2. r \in Legacy /\ s \in Legacy
    BY <2>1 DEF Unregistered
  <2>3. /\ registry[r] = old[r] /\ registry[s] = old[s]
        /\ old[r] \in [state : {"pending"}, file : Files]
        /\ old[s] \in [state : {"pending"}, file : Files]
    BY <2>1, <2>2 DEF LegacyRegistry, Unregistered
  <2>4. old[r] = old[s]
    BY <2>3
  <2> QED
    BY <2>2, <2>3, <2>4 DEF LegacyRegistry, Unregistered
<1> QED
  BY <1>0, <1>1, <1>2, <1>3, <1>4, <1>5, <1>6, <1>7
     DEF Inv, TypeOK, ResetLeavesNoHistory, SlotsWithinGraph, ProjectionCurrent
-----------------------------------------------------------------------------
(* A writer without an export knows that nobody has one.                   *)
LEMMA NoExportPending ==
    ASSUME ProjectionCurrent, NEW c \in Conns, holder = c, projection[c] = NoProjection
    PROVE  \A d \in Conns : projection[d] = NoProjection
BY DEF ProjectionCurrent

(* What every session write does to the store: it replaces the slots of    *)
(* its session inside the host graph, and only its session's barrier.      *)
LEMMA SessionWriteKeepsInv ==
    ASSUME Inv, NEW c \in Conns, NEW s \in Sessions, MayWrite(c, s),
           NEW new \in [Entries -> Slot],
           \A e \in Entries \ graph[s] : new[e] = slots[s][e],
           slots' = [slots EXCEPT ![s] = new],
           barrier' \in SUBSET Sessions,
           \A r \in Sessions \ {s} : r \in barrier' <=> r \in barrier,
           UNCHANGED <<graph, registry, history, attached, holder, projection>>
    PROVE  Inv'
<1> USE DEF Inv
<1>1. TypeOK'
  BY DEF TypeOK
<1>2. GraphClosed' /\ IdentityUnique'
  BY DEF GraphClosed, AncestryClosed, IdentityUnique
<1>3. \A r \in Sessions \ {s} : slots'[r] = slots[r]
  BY DEF TypeOK
<1>4. slots'[s] = new
  BY DEF TypeOK
<1>5. ResetLeavesNoHistory'
  BY <1>3 DEF ResetLeavesNoHistory, MayWrite, HasRows
<1>6. SlotsWithinGraph'
  <2> SUFFICES ASSUME NEW r \in Sessions, registry[r].state = "verified",
                      NEW e \in Entries \ graph[r]
               PROVE  slots'[r][e] = OpenMissing
    BY DEF SlotsWithinGraph, SlotsRetained
  <2>1. slots[r][e] = OpenMissing
    BY DEF SlotsWithinGraph, SlotsRetained
  <2> QED
    BY <2>1, <1>3, <1>4
<1>7. ProjectionCurrent'
  <2>1. \A d \in Conns : projection[d] = NoProjection
    BY NoExportPending DEF MayWrite
  <2> QED
    BY <2>1 DEF ProjectionCurrent
<1> QED
  BY <1>1, <1>2, <1>5, <1>6, <1>7

(* The same for a write of one slot.                                       *)
LEMMA SlotWriteKeepsInv ==
    ASSUME Inv, NEW c \in Conns, NEW s \in Sessions, MayWrite(c, s),
           NEW e \in Entries, e \in graph[s], NEW slot \in Slot,
           WriteSlot(s, e, slot), UNCHANGED barrier,
           UNCHANGED <<graph, registry, history, attached, holder, projection>>
    PROVE  Inv'
<1> DEFINE new == [slots[s] EXCEPT ![e] = slot]
<1>1. slots[s] \in [Entries -> Slot] /\ barrier \in SUBSET Sessions
  BY DEF Inv, TypeOK
<1>2. new \in [Entries -> Slot]
  BY <1>1
<1>3. slots' = [slots EXCEPT ![s] = new]
  BY DEF WriteSlot
<1>4. \A d \in Entries \ graph[s] : new[d] = slots[s][d]
  BY <1>1
<1> HIDE DEF new
<1> QED
  BY <1>1, <1>2, <1>3, <1>4, SessionWriteKeepsInv

LEMMA ReconciledTyped ==
    ASSUME NEW sl \in [Entries -> Slot], NEW path
    PROVE  Reconciled(sl, path) \in [Entries -> Slot]
<1>1. \A e \in Entries : Inherited(sl, e).tree \in Trees \cup {NoTree}
  BY InheritedTyped
<1>2. \A e \in Entries : BlockSlot(sl[e], Inherited(sl, e).tree) \in Slot
  BY <1>1, BlockSlotTyped
<1> QED
  BY <1>2 DEF Reconciled

(* The host graph holds the whole ancestry of each of its entries, so a    *)
(* reconciliation stays inside it.                                         *)
LEMMA ReconcileKeepsInv ==
    ASSUME Inv, NEW c \in Conns, NEW s \in Sessions, MayWrite(c, s),
           NEW e \in Entries, e \in graph[s], ReconcileAlong(s, e),
           UNCHANGED <<graph, registry, history, attached, holder, projection>>
    PROVE  Inv'
<1> DEFINE new == Reconciled(slots[s], Ancestors(e))
<1>1. slots[s] \in [Entries -> Slot] /\ barrier \in SUBSET Sessions
  BY DEF Inv, TypeOK
<1>2. new \in [Entries -> Slot]
  BY <1>1, ReconciledTyped
<1>3. slots' = [slots EXCEPT ![s] = new] /\ barrier' = barrier \ {s}
  BY DEF ReconcileAlong
<1>4. Ancestors(e) \subseteq graph[s]
  BY DEF Inv, GraphClosed, AncestryClosed
<1>5. \A d \in Entries \ graph[s] : new[d] = slots[s][d]
  BY <1>4 DEF Reconciled
<1> HIDE DEF new
<1> QED
  BY <1>1, <1>2, <1>3, <1>5, SessionWriteKeepsInv
-----------------------------------------------------------------------------
LEMMA GuardedTyped ==
    ASSUME TypeOK, NEW s \in Sessions, NEW open
    PROVE  /\ Guarded(s, open) \in [Entries -> Slot]
           /\ \A e \in Entries \ graph[s] : Guarded(s, open)[e] = slots[s][e]
<1>1. slots[s] \in [Entries -> Slot]
  BY DEF TypeOK
<1> QED
  BY <1>1, ConstantSlotsTyped DEF Guarded

LEMMA AttachTyped ==
    ASSUME TypeOK, NEW c \in Conns, NEW s \in Sessions, Attach(c, s)
    PROVE  attached' \in [Conns -> [Sessions -> Nat \cup {Unattached}]]
<1>1. /\ attached \in [Conns -> [Sessions -> Nat \cup {Unattached}]]
      /\ history[s].epoch \in Nat
  BY DEF TypeOK
<1> QED
  BY <1>1 DEF Attach

(* What every registration does: it gives its session a verified identity  *)
(* and rows inside its host graph, in a generation that is not pending,    *)
(* and leaves no export behind.                                            *)
RegistersAs(c, s, f, new) ==
    /\ IdentityFree(s, f)
    /\ Attach(c, s)
    /\ new \in [Entries -> Slot]
    /\ \A e \in Entries \ graph[s] : new[e] = OpenMissing
    /\ slots' = [slots EXCEPT ![s] = new]
    /\ registry' = [registry EXCEPT ![s] = [state |-> "verified", file |-> f]]
    /\ barrier' \in SUBSET Sessions
    /\ \A r \in Sessions \ {s} : r \in barrier' <=> r \in barrier
    /\ history' \in [Sessions -> [epoch : Nat, pending : BOOLEAN]]
    /\ \A r \in Sessions \ {s} : history'[r] = history[r]
    /\ history'[s] = [epoch |-> history[s].epoch, pending |-> FALSE]
    /\ projection' \in [Conns -> Projections \cup {NoProjection}]
    /\ \A d \in Conns : projection'[d] = NoProjection
    /\ graph' = graph /\ holder' = holder

LEMMA RegistrationKeepsInv ==
    ASSUME Inv, NEW c \in Conns, NEW s \in Sessions, NEW f \in Files, NEW new,
           RegistersAs(c, s, f, new)
    PROVE  Inv'
<1> USE DEF Inv, RegistersAs
<1>1. attached' \in [Conns -> [Sessions -> Nat \cup {Unattached}]]
  BY AttachTyped
<1>2. TypeOK'
  BY <1>1 DEF TypeOK
<1>3. GraphClosed'
  BY DEF GraphClosed, AncestryClosed
<1>4. /\ \A r \in Sessions \ {s} : slots'[r] = slots[r] /\ registry'[r] = registry[r]
      /\ slots'[s] = new
      /\ registry'[s] = [state |-> "verified", file |-> f]
  BY DEF TypeOK
<1>5. IdentityUnique'
  <2> SUFFICES ASSUME NEW q \in Sessions, NEW r \in Sessions, q # r,
                      registry'[q].state # "absent", registry'[r].state # "absent"
               PROVE  registry'[q].file # registry'[r].file
    BY DEF IdentityUnique
  <2>1. CASE q = s
    BY <2>1, <1>4 DEF IdentityFree
  <2>2. CASE r = s
    BY <2>2, <1>4 DEF IdentityFree
  <2>3. CASE q # s /\ r # s
    BY <2>3, <1>4 DEF IdentityUnique
  <2> QED
    BY <2>1, <2>2, <2>3
<1>6. ResetLeavesNoHistory'
  BY <1>4 DEF ResetLeavesNoHistory, HasRows
<1>7. SlotsWithinGraph'
  BY <1>4 DEF SlotsWithinGraph, SlotsRetained
<1>8. ProjectionCurrent'
  BY DEF ProjectionCurrent
<1> QED
  BY <1>2, <1>3, <1>5, <1>6, <1>7, <1>8

(* An export in hand is the only one.                                      *)
LEMMA OneExport ==
    ASSUME ProjectionCurrent, NEW c \in Conns, holder = c
    PROVE  \A d \in Conns \ {c} : projection[d] = NoProjection
BY DEF ProjectionCurrent

LEMMA DroppedProjection ==
    ASSUME TypeOK, ProjectionCurrent, NEW c \in Conns, holder = c,
           projection' = [projection EXCEPT ![c] = NoProjection]
    PROVE  /\ projection' \in [Conns -> Projections \cup {NoProjection}]
           /\ \A d \in Conns : projection'[d] = NoProjection
BY OneExport DEF TypeOK
-----------------------------------------------------------------------------
(* One lemma per kind of step.                                             *)

LEMMA HostAppendKeepsInv ==
    ASSUME Inv, NEW s \in Sessions, NEW e \in Entries, HostAppend(s, e)
    PROVE  Inv'
<1> USE DEF Inv, HostAppend
<1>1. TypeOK'
  BY DEF TypeOK
<1>2. \A r \in Sessions : graph[r] \subseteq graph'[r]
  BY DEF TypeOK
<1>3. GraphClosed'
  <2> SUFFICES ASSUME NEW r \in Sessions, NEW d \in graph'[r]
               PROVE  Ancestors(d) \subseteq graph'[r]
    BY DEF GraphClosed, AncestryClosed
  <2>1. CASE d \in graph[r]
    BY <2>1, <1>2 DEF GraphClosed, AncestryClosed
  <2>2. CASE d \notin graph[r]
    <3>1. r = s /\ d = e /\ graph'[s] = graph[s] \cup {e}
      BY <2>2 DEF TypeOK
    <3> QED
      BY <3>1
  <2> QED
    BY <2>1, <2>2
<1>4. IdentityUnique' /\ ResetLeavesNoHistory'
  BY DEF IdentityUnique, ResetLeavesNoHistory, HasRows
<1>5. SlotsWithinGraph'
  BY <1>2 DEF SlotsWithinGraph, SlotsRetained
<1>6. ProjectionCurrent'
  <2> SUFFICES ASSUME NEW c \in Conns, projection[c] # NoProjection
               PROVE  DOMAIN projection[c].slots \subseteq graph'[projection[c].target]
    BY DEF ProjectionCurrent
  <2>1. projection[c].target \in Sessions
    BY DEF TypeOK, Projections
  <2> QED
    BY <2>1, <1>2 DEF ProjectionCurrent
<1> QED
  BY <1>1, <1>3, <1>4, <1>5, <1>6

LEMMA LifecycleKeepsInv ==
    ASSUME Inv, NEW c \in Conns, Lifecycle(c)
    PROVE  Inv'
<1> USE DEF Inv
<1>1. UNCHANGED <<graph, registry, slots, barrier, history>>
  BY DEF Lifecycle, Acquire, Release, Close
<1>2. TypeOK'
  <2>1. CASE Acquire(c)
    BY <2>1 DEF TypeOK, Acquire
  <2>2. CASE Release(c)
    BY <2>2 DEF TypeOK, Release
  <2>3. CASE Close(c)
    <3>1. attached' \in [Conns -> [Sessions -> Nat \cup {Unattached}]]
      BY <2>3 DEF TypeOK, Close
    <3>2. projection' \in [Conns -> Projections \cup {NoProjection}]
      BY <2>3 DEF TypeOK, Close
    <3>3. holder' \in Conns \cup {NoConn}
      BY <2>3 DEF TypeOK, Close
    <3> QED
      BY <1>1, <3>1, <3>2, <3>3 DEF TypeOK
  <2> QED
    BY <2>1, <2>2, <2>3 DEF Lifecycle
<1>3. GraphClosed' /\ IdentityUnique' /\ ResetLeavesNoHistory' /\ SlotsWithinGraph'
  BY <1>1 DEF GraphClosed, AncestryClosed, IdentityUnique, ResetLeavesNoHistory,
              HasRows, SlotsWithinGraph, SlotsRetained
<1>4. ProjectionCurrent'
  <2> SUFFICES ASSUME NEW d \in Conns, projection'[d] # NoProjection
               PROVE  holder' = d /\ projection'[d] = projection[d]
    BY <1>1 DEF ProjectionCurrent
  <2>1. projection \in [Conns -> Projections \cup {NoProjection}]
    BY DEF TypeOK
  <2>2. projection'[d] = projection[d]
    BY <2>1 DEF Lifecycle, Acquire, Release, Close
  <2>3. holder = d
    BY <2>2 DEF ProjectionCurrent
  <2>4. holder' = d
    BY <2>1, <2>3, ConnAssumption DEF Lifecycle, Acquire, Release, Close
  <2> QED
    BY <2>2, <2>4
<1> QED
  BY <1>2, <1>3, <1>4

LEMMA SessionWriteStepKeepsInv ==
    ASSUME Inv, NEW c \in Conns, NEW s \in Sessions, SessionWrite(c, s)
    PROVE  Inv'
<1>1. slots[s] \in [Entries -> Slot] /\ barrier \in SUBSET Sessions
  BY DEF Inv, TypeOK
<1>2. ASSUME NEW e \in Entries, CaptureSettlesBarrier(c, s, e)
      PROVE  Inv'
  BY <1>2, ReconcileKeepsInv DEF CaptureSettlesBarrier
<1>3. ASSUME NEW e \in Entries, NEW expected \in Slot, NEW tree \in Trees,
             CommitCapture(c, s, e, expected, tree)
      PROVE  Inv'
  BY <1>3, ConstantSlotsTyped, SlotWriteKeepsInv DEF CommitCapture
<1>4. ASSUME NEW e \in Entries, ProtectLocation(c, s, e)
      PROVE  Inv'
  <2>1. BlockSlot(slots[s][e], Resolve(slots[s], e).tree) \in Slot
    BY <1>1, InheritedTyped, BlockSlotTyped
  <2> QED
    BY <1>4, <2>1, SlotWriteKeepsInv DEF ProtectLocation
<1>5. ASSUME NEW e \in Entries, NEW expected \in Resolutions,
             AdmitResolvedLocation(c, s, e, expected)
      PROVE  Inv'
  <2>1. OpenCheckpoint(expected.tree) \in Slot
    BY <1>5, ConstantSlotsTyped DEF AdmitResolvedLocation, Resolutions
  <2> QED
    BY <1>5, <2>1, SlotWriteKeepsInv DEF AdmitResolvedLocation
<1>6. ASSUME NEW e \in Entries, NEW tree \in Trees, AdoptBlockedMissing(c, s, e, tree)
      PROVE  Inv'
  BY <1>6, ConstantSlotsTyped, SlotWriteKeepsInv DEF AdoptBlockedMissing
<1>7. ASSUME NEW e \in Entries, ReconcileSessionBarrier(c, s, e)
      PROVE  Inv'
  BY <1>7, ReconcileKeepsInv DEF ReconcileSessionBarrier
<1>8. ASSUME RaiseSessionBarrier(c, s)
      PROVE  Inv'
  <2>1. slots' = [slots EXCEPT ![s] = slots[s]]
    BY <1>8 DEF RaiseSessionBarrier, Inv, TypeOK
  <2>2. MayWrite(c, s) /\ barrier' = barrier \cup {s}
        /\ UNCHANGED <<graph, registry, history, attached, holder, projection>>
    BY <1>8 DEF RaiseSessionBarrier
  <2> QED
    BY <1>1, <2>1, <2>2, SessionWriteKeepsInv
<1> QED
  BY <1>2, <1>3, <1>4, <1>5, <1>6, <1>7, <1>8 DEF SessionWrite

(* The parts of a registration's new state that all its outcomes share.    *)
LEMMA RegistersParts ==
    ASSUME Inv, NEW c \in Conns, NEW s \in Sessions, NEW f \in Files,
           Registers(c, s, f)
    PROVE  /\ IdentityFree(s, f) /\ Attach(c, s) /\ holder = c
           /\ registry' = [registry EXCEPT ![s] = [state |-> "verified", file |-> f]]
           /\ history' \in [Sessions -> [epoch : Nat, pending : BOOLEAN]]
           /\ \A r \in Sessions \ {s} : history'[r] = history[r]
           /\ history'[s] = [epoch |-> history[s].epoch, pending |-> FALSE]
           /\ graph' = graph /\ holder' = holder
           /\ \A e \in Entries : slots[s][e] = OpenMissing
BY DEF Inv, TypeOK, Registers, HasRows

LEMMA RegisterFreshKeepsInv ==
    ASSUME Inv, NEW c \in Conns, NEW s \in Sessions, NEW f \in Files, NEW leaf,
           RegisterFresh(c, s, f, leaf)
    PROVE  Inv'
<1> DEFINE new == Guarded(s, leaf)
<1>1. /\ new \in [Entries -> Slot]
      /\ \A e \in Entries \ graph[s] : new[e] = slots[s][e]
  BY GuardedTyped DEF Inv
<1>2. Registers(c, s, f) /\ slots' = [slots EXCEPT ![s] = new] /\ barrier' = barrier
  BY DEF RegisterFresh
<1>3. \A d \in Conns : projection[d] = NoProjection
  BY NoExportPending DEF Inv, Registers, RegisterFresh
<1>4. projection' = projection
  BY DEF RegisterFresh
<1>5. /\ projection' \in [Conns -> Projections \cup {NoProjection}]
      /\ barrier' \in SUBSET Sessions
  BY <1>2, <1>4 DEF Inv, TypeOK
<1>6. \A e \in Entries \ graph[s] : new[e] = OpenMissing
  BY <1>1, <1>2, RegistersParts
<1>10. /\ IdentityFree(s, f) /\ Attach(c, s)
       /\ registry' = [registry EXCEPT ![s] = [state |-> "verified", file |-> f]]
       /\ history' \in [Sessions -> [epoch : Nat, pending : BOOLEAN]]
       /\ \A r \in Sessions \ {s} : history'[r] = history[r]
       /\ history'[s] = [epoch |-> history[s].epoch, pending |-> FALSE]
       /\ graph' = graph /\ holder' = holder
  BY <1>2, RegistersParts
<1>11. \A r \in Sessions \ {s} : r \in barrier' <=> r \in barrier
  BY <1>2
<1> HIDE DEF new
<1>12. RegistersAs(c, s, f, new)
  BY <1>1, <1>2, <1>3, <1>4, <1>5, <1>6, <1>10, <1>11 DEF RegistersAs
<1> QED
  BY <1>12, RegistrationKeepsInv

LEMMA RegisterQuarantinedKeepsInv ==
    ASSUME Inv, NEW c \in Conns, NEW s \in Sessions, NEW f \in Files,
           RegisterQuarantined(c, s, f)
    PROVE  Inv'
<1> DEFINE new == Guarded(s, NoEntry)
<1>1. /\ new \in [Entries -> Slot]
      /\ \A e \in Entries \ graph[s] : new[e] = slots[s][e]
  BY GuardedTyped DEF Inv
<1>2. /\ Registers(c, s, f) /\ slots' = [slots EXCEPT ![s] = new]
      /\ barrier' = barrier \cup {s}
      /\ projection' = [projection EXCEPT ![c] = NoProjection]
  BY DEF RegisterQuarantined
<1>3. /\ projection' \in [Conns -> Projections \cup {NoProjection}]
      /\ \A d \in Conns : projection'[d] = NoProjection
  BY <1>2, RegistersParts, DroppedProjection DEF Inv
<1>4. barrier' \in SUBSET Sessions
  BY <1>2 DEF Inv, TypeOK
<1>5. \A e \in Entries \ graph[s] : new[e] = OpenMissing
  BY <1>1, <1>2, RegistersParts
<1>10. /\ IdentityFree(s, f) /\ Attach(c, s)
       /\ registry' = [registry EXCEPT ![s] = [state |-> "verified", file |-> f]]
       /\ history' \in [Sessions -> [epoch : Nat, pending : BOOLEAN]]
       /\ \A r \in Sessions \ {s} : history'[r] = history[r]
       /\ history'[s] = [epoch |-> history[s].epoch, pending |-> FALSE]
       /\ graph' = graph /\ holder' = holder
  BY <1>2, RegistersParts
<1>11. \A r \in Sessions \ {s} : r \in barrier' <=> r \in barrier
  BY <1>2
<1> HIDE DEF new
<1>12. RegistersAs(c, s, f, new)
  BY <1>1, <1>2, <1>3, <1>4, <1>5, <1>10, <1>11 DEF RegistersAs
<1> QED
  BY <1>12, RegistrationKeepsInv

LEMMA RegisterForkKeepsInv ==
    ASSUME Inv, NEW c \in Conns, NEW s \in Sessions, NEW f \in Files,
           RegisterFork(c, s, f)
    PROVE  Inv'
<1> DEFINE p == projection[c]
           new == [e \in Entries |->
                     IF e \in DOMAIN p.slots THEN p.slots[e] ELSE Guarded(s, NoEntry)[e]]
<1>1. /\ Registers(c, s, f) /\ slots' = [slots EXCEPT ![s] = new]
      /\ barrier' = IF p.barrier THEN barrier \cup {s} ELSE barrier
      /\ projection' = [projection EXCEPT ![c] = NoProjection]
      /\ p # NoProjection /\ p.target = s
  BY DEF RegisterFork
<1>2. p \in Projections
  BY <1>1 DEF Inv, TypeOK
<1>3. DOMAIN p.slots \subseteq graph[s]
  BY <1>1 DEF Inv, ProjectionCurrent
<1>4. \A e \in DOMAIN p.slots : p.slots[e] \in Slot
  BY <1>2 DEF Projections
<1>5. /\ Guarded(s, NoEntry) \in [Entries -> Slot]
      /\ \A e \in Entries \ graph[s] : Guarded(s, NoEntry)[e] = slots[s][e]
  BY GuardedTyped DEF Inv
<1>6. new \in [Entries -> Slot]
  BY <1>4, <1>5
<1>7. \A e \in Entries \ graph[s] : new[e] = OpenMissing
  BY <1>1, <1>3, <1>5, RegistersParts
<1>8. /\ projection' \in [Conns -> Projections \cup {NoProjection}]
      /\ \A d \in Conns : projection'[d] = NoProjection
  BY <1>1, RegistersParts, DroppedProjection DEF Inv
<1>9. /\ barrier' \in SUBSET Sessions
      /\ \A r \in Sessions \ {s} : r \in barrier' <=> r \in barrier
  <2>1. barrier' = barrier \/ barrier' = barrier \cup {s}
    BY <1>1
  <2> QED
    BY <2>1 DEF Inv, TypeOK
<1>10. /\ IdentityFree(s, f) /\ Attach(c, s)
       /\ registry' = [registry EXCEPT ![s] = [state |-> "verified", file |-> f]]
       /\ history' \in [Sessions -> [epoch : Nat, pending : BOOLEAN]]
       /\ \A r \in Sessions \ {s} : history'[r] = history[r]
       /\ history'[s] = [epoch |-> history[s].epoch, pending |-> FALSE]
       /\ graph' = graph /\ holder' = holder
  BY <1>1, RegistersParts
<1> HIDE DEF new, p
<1>12. RegistersAs(c, s, f, new)
  BY <1>1, <1>6, <1>7, <1>8, <1>9, <1>10 DEF RegistersAs
<1> QED
  BY <1>12, RegistrationKeepsInv

(* The slots that adopting a session's rows leaves, reconciled or not.     *)
LEMMA AdoptedTyped ==
    ASSUME Inv, NEW s \in Sessions, SlotsRetained(s), NEW f \in Files,
           NEW leaf \in Leaves(s), AdoptLegacyRows(s, f, leaf)
    PROVE  \E new \in [Entries -> Slot] :
              /\ slots' = [slots EXCEPT ![s] = new]
              /\ \A e \in Entries \ graph[s] : new[e] = OpenMissing
              /\ registry' = [registry EXCEPT ![s] = [state |-> "verified", file |-> f]]
              /\ barrier' \in SUBSET Sessions
              /\ \A r \in Sessions \ {s} : r \in barrier' <=> r \in barrier
<1> DEFINE kept == Guarded(s, NoEntry)
<1>1. kept \in [Entries -> Slot] /\ \A e \in Entries \ graph[s] : kept[e] = OpenMissing
  BY GuardedTyped DEF Inv, SlotsRetained
<1>2. registry' = [registry EXCEPT ![s] = [state |-> "verified", file |-> f]]
  BY DEF AdoptLegacyRows
<1>3. barrier \in SUBSET Sessions
  BY DEF Inv, TypeOK
<1>4. CASE s \in barrier /\ leaf # NoEntry
  <2> DEFINE new == Reconciled(kept, Ancestors(leaf))
  <2>1. slots' = [slots EXCEPT ![s] = new] /\ barrier' = barrier \ {s}
    BY <1>4 DEF AdoptLegacyRows
  <2>2. leaf \in graph[s] /\ leaf \in Entries
    BY <1>4 DEF Leaves, Inv, TypeOK
  <2>3. Ancestors(leaf) \subseteq graph[s]
    BY <2>2 DEF Inv, GraphClosed, AncestryClosed
  <2>4. new \in [Entries -> Slot]
    BY <1>1, ReconciledTyped
  <2>5. \A e \in Entries \ graph[s] : new[e] = OpenMissing
    BY <1>1, <2>3 DEF Reconciled
  <2> HIDE DEF new, kept
  <2> QED
    BY <1>2, <1>3, <2>1, <2>4, <2>5
<1>5. CASE ~ (s \in barrier /\ leaf # NoEntry)
  <2>1. slots' = [slots EXCEPT ![s] = kept] /\ barrier' = barrier
    BY <1>5 DEF AdoptLegacyRows
  <2> HIDE DEF kept
  <2> QED
    BY <1>1, <1>2, <1>3, <2>1
<1> QED
  BY <1>4, <1>5

LEMMA VerifyPendingKeepsInv ==
    ASSUME Inv, NEW c \in Conns, NEW s \in Sessions, NEW f \in Files,
           NEW leaf \in Leaves(s), VerifyPending(c, s, f, leaf)
    PROVE  Inv'
<1>1. /\ Claims(c, s, f, "pending") /\ AdoptLegacyRows(s, f, leaf) /\ Attach(c, s)
      /\ history' = [history EXCEPT ![s].pending = FALSE]
      /\ graph' = graph /\ holder' = holder /\ projection' = projection
  BY DEF VerifyPending
<1>2. IdentityFree(s, f) /\ SlotsRetained(s) /\ holder = c /\ projection[c] = NoProjection
  BY <1>1 DEF Claims
<1>3. PICK new \in [Entries -> Slot] :
        /\ slots' = [slots EXCEPT ![s] = new]
        /\ \A e \in Entries \ graph[s] : new[e] = OpenMissing
        /\ registry' = [registry EXCEPT ![s] = [state |-> "verified", file |-> f]]
        /\ barrier' \in SUBSET Sessions
        /\ \A r \in Sessions \ {s} : r \in barrier' <=> r \in barrier
  BY <1>1, <1>2, AdoptedTyped
<1>4. /\ history' \in [Sessions -> [epoch : Nat, pending : BOOLEAN]]
      /\ \A r \in Sessions \ {s} : history'[r] = history[r]
      /\ history'[s] = [epoch |-> history[s].epoch, pending |-> FALSE]
  BY <1>1 DEF Inv, TypeOK
<1>5. /\ projection' \in [Conns -> Projections \cup {NoProjection}]
      /\ \A d \in Conns : projection'[d] = NoProjection
  BY <1>1, <1>2, NoExportPending DEF Inv, TypeOK
<1>6. RegistersAs(c, s, f, new)
  BY <1>1, <1>2, <1>3, <1>4, <1>5 DEF RegistersAs
<1> QED
  BY <1>6, RegistrationKeepsInv

(* A generation that is not pending, spelled as the record it is.          *)
LEMMA HistoryNotPending ==
    ASSUME TypeOK, NEW s \in Sessions, ~ history[s].pending
    PROVE  history[s] = [epoch |-> history[s].epoch, pending |-> FALSE]
BY DEF TypeOK

LEMMA ClaimOrphanKeepsInv ==
    ASSUME Inv, NEW c \in Conns, NEW s \in Sessions, NEW f \in Files,
           NEW leaf \in Leaves(s), ClaimOrphan(c, s, f, leaf)
    PROVE  Inv'
<1>1. /\ Claims(c, s, f, "absent") /\ AdoptLegacyRows(s, f, leaf) /\ Attach(c, s)
      /\ ~ history[s].pending
      /\ history' = history
      /\ graph' = graph /\ holder' = holder /\ projection' = projection
  BY DEF ClaimOrphan
<1>2. IdentityFree(s, f) /\ SlotsRetained(s) /\ holder = c /\ projection[c] = NoProjection
  BY <1>1 DEF Claims
<1>3. PICK new \in [Entries -> Slot] :
        /\ slots' = [slots EXCEPT ![s] = new]
        /\ \A e \in Entries \ graph[s] : new[e] = OpenMissing
        /\ registry' = [registry EXCEPT ![s] = [state |-> "verified", file |-> f]]
        /\ barrier' \in SUBSET Sessions
        /\ \A r \in Sessions \ {s} : r \in barrier' <=> r \in barrier
  BY <1>1, <1>2, AdoptedTyped
<1>4. /\ history' \in [Sessions -> [epoch : Nat, pending : BOOLEAN]]
      /\ \A r \in Sessions \ {s} : history'[r] = history[r]
      /\ history'[s] = [epoch |-> history[s].epoch, pending |-> FALSE]
  BY <1>1, HistoryNotPending DEF Inv, TypeOK
<1>5. /\ projection' \in [Conns -> Projections \cup {NoProjection}]
      /\ \A d \in Conns : projection'[d] = NoProjection
  BY <1>1, <1>2, NoExportPending DEF Inv, TypeOK
<1>6. RegistersAs(c, s, f, new)
  BY <1>1, <1>2, <1>3, <1>4, <1>5 DEF RegistersAs
<1> QED
  BY <1>6, RegistrationKeepsInv

(* A session that already has the identity keeps its registry row.         *)
LEMMA SameRegistration ==
    ASSUME TypeOK, NEW s \in Sessions, NEW f, IdentityFree(s, f),
           registry[s].state = "verified", registry' = registry
    PROVE  registry' = [registry EXCEPT ![s] = [state |-> "verified", file |-> f]]
<1>1. registry[s].file = f
  BY DEF IdentityFree
<1>2. registry[s] = [state |-> "verified", file |-> f]
  BY <1>1 DEF TypeOK
<1> QED
  BY <1>2 DEF TypeOK

LEMMA ReattachForgottenKeepsInv ==
    ASSUME Inv, NEW c \in Conns, NEW s \in Sessions, NEW f \in Files, NEW leaf,
           ReattachForgotten(c, s, f, leaf)
    PROVE  Inv'
<1> DEFINE new == Guarded(s, leaf)
<1>1. /\ Claims(c, s, f, "verified") /\ Attach(c, s)
      /\ slots' = [slots EXCEPT ![s] = new]
      /\ history' = [history EXCEPT ![s].pending = FALSE]
      /\ registry' = registry /\ barrier' = barrier
      /\ graph' = graph /\ holder' = holder /\ projection' = projection
  BY DEF ReattachForgotten
<1>2. /\ IdentityFree(s, f) /\ SlotsRetained(s) /\ holder = c
      /\ projection[c] = NoProjection /\ registry[s].state = "verified"
  BY <1>1 DEF Claims
<1>3. new \in [Entries -> Slot] /\ \A e \in Entries \ graph[s] : new[e] = OpenMissing
  BY <1>2, GuardedTyped DEF Inv, SlotsRetained
<1>4. /\ history' \in [Sessions -> [epoch : Nat, pending : BOOLEAN]]
      /\ \A r \in Sessions \ {s} : history'[r] = history[r]
      /\ history'[s] = [epoch |-> history[s].epoch, pending |-> FALSE]
  BY <1>1 DEF Inv, TypeOK
<1>5. /\ projection' \in [Conns -> Projections \cup {NoProjection}]
      /\ \A d \in Conns : projection'[d] = NoProjection
      /\ barrier' \in SUBSET Sessions
  BY <1>1, <1>2, NoExportPending DEF Inv, TypeOK
<1>6. registry' = [registry EXCEPT ![s] = [state |-> "verified", file |-> f]]
  BY <1>1, <1>2, SameRegistration DEF Inv
<1> HIDE DEF new
<1>7. RegistersAs(c, s, f, new)
  BY <1>1, <1>2, <1>3, <1>4, <1>5, <1>6 DEF RegistersAs
<1> QED
  BY <1>7, RegistrationKeepsInv

LEMMA ReattachKeepsInv ==
    ASSUME Inv, NEW c \in Conns, NEW s \in Sessions, NEW f \in Files, Reattach(c, s, f)
    PROVE  Inv'
<1>1. /\ Attach(c, s)
      /\ UNCHANGED <<graph, registry, slots, barrier, history, holder, projection>>
  BY DEF Reattach
<1>2. attached' \in [Conns -> [Sessions -> Nat \cup {Unattached}]]
  BY <1>1, AttachTyped DEF Inv
<1> QED
  BY <1>1, <1>2
     DEF Inv, TypeOK, GraphClosed, AncestryClosed, IdentityUnique, ResetLeavesNoHistory,
         HasRows, SlotsWithinGraph, SlotsRetained, ProjectionCurrent

LEMMA RegistrationStepKeepsInv ==
    ASSUME Inv, NEW c \in Conns, NEW s \in Sessions, Registration(c, s)
    PROVE  Inv'
BY RegisterFreshKeepsInv, RegisterQuarantinedKeepsInv, RegisterForkKeepsInv,
   VerifyPendingKeepsInv, ClaimOrphanKeepsInv, ReattachForgottenKeepsInv, ReattachKeepsInv
   DEF Registration

LEMMA ForgetKeepsInv ==
    ASSUME Inv, NEW c \in Conns, NEW s \in Sessions, Forget(c, s)
    PROVE  Inv'
<1> USE DEF Inv
<1>1. /\ holder = c /\ projection[c] = NoProjection
      /\ slots' = [slots EXCEPT ![s] = NoRows] /\ barrier' = barrier \ {s}
      /\ history' = [history EXCEPT ![s] = [epoch |-> history[s].epoch + 1, pending |-> TRUE]]
      /\ UNCHANGED <<graph, registry, attached, holder, projection>>
  BY DEF Forget
<1>2. TypeOK'
  <2>1. slots' \in [Sessions -> [Entries -> Slot]]
    BY <1>1, NoRowsTyped DEF TypeOK
  <2>2. history' \in [Sessions -> [epoch : Nat, pending : BOOLEAN]]
    BY <1>1 DEF TypeOK
  <2> QED
    BY <1>1, <2>1, <2>2 DEF TypeOK
<1>3. GraphClosed' /\ IdentityUnique'
  BY <1>1 DEF GraphClosed, AncestryClosed, IdentityUnique
<1>4. /\ \A r \in Sessions \ {s} : slots'[r] = slots[r] /\ history'[r] = history[r]
      /\ slots'[s] = NoRows
  BY <1>1 DEF TypeOK
<1>5. ResetLeavesNoHistory'
  BY <1>1, <1>4 DEF ResetLeavesNoHistory, HasRows, NoRows
<1>6. SlotsWithinGraph'
  BY <1>1, <1>4 DEF SlotsWithinGraph, SlotsRetained, NoRows
<1>7. ProjectionCurrent'
  <2>1. \A d \in Conns : projection[d] = NoProjection
    BY <1>1, NoExportPending
  <2> QED
    BY <1>1, <2>1 DEF ProjectionCurrent
<1> QED
  BY <1>2, <1>3, <1>5, <1>6, <1>7

LEMMA ExportForkKeepsInv ==
    ASSUME Inv, NEW c \in Conns, NEW source \in Sessions, NEW s \in Sessions,
           NEW proven \in SUBSET Entries, ExportFork(c, source, s, proven)
    PROVE  Inv'
<1> USE DEF Inv
<1> DEFINE p == [source |-> source, target |-> s, barrier |-> source \in barrier,
                 slots |-> [e \in proven |-> slots[source][e]]]
<1>1. /\ holder = c
      /\ registry[source].state = "verified"
      /\ proven \subseteq graph[s]
      /\ projection' = [projection EXCEPT ![c] = p]
      /\ UNCHANGED <<graph, registry, slots, barrier, history, attached, holder>>
  BY DEF ExportFork
<1>2. p.slots \in [proven -> Slot]
  BY DEF TypeOK
<1>3. p \in Projections
  BY <1>2 DEF Projections
<1>4. projection' \in [Conns -> Projections \cup {NoProjection}] /\ projection'[c] = p
  BY <1>1, <1>3 DEF TypeOK
<1>5. TypeOK'
  BY <1>1, <1>4 DEF TypeOK
<1>6. GraphClosed' /\ IdentityUnique' /\ ResetLeavesNoHistory' /\ SlotsWithinGraph'
  BY <1>1 DEF GraphClosed, AncestryClosed, IdentityUnique, ResetLeavesNoHistory,
              HasRows, SlotsWithinGraph, SlotsRetained
<1>7. \A d \in Conns \ {c} : projection'[d] = NoProjection
  BY <1>1, OneExport DEF TypeOK
<1>8. p.target = s /\ p.source = source /\ DOMAIN p.slots = proven
      /\ p.barrier = (source \in barrier)
      /\ \A e \in proven : p.slots[e] = slots[source][e]
  OBVIOUS
<1>9. ProjectionCurrent'
  <2> HIDE DEF p
  <2> QED
    BY <1>1, <1>4, <1>7, <1>8 DEF ProjectionCurrent
<1> QED
  BY <1>5, <1>6, <1>9
-----------------------------------------------------------------------------
LEMMA StepKeepsInv == Inv /\ [Next]_vars => Inv'
<1> SUFFICES ASSUME Inv, [Next]_vars PROVE Inv'
  OBVIOUS
<1>1. ASSUME NEW s \in Sessions, NEW e \in Entries, HostAppend(s, e)
      PROVE  Inv'
  BY <1>1, HostAppendKeepsInv
<1>2. ASSUME NEW c \in Conns, Lifecycle(c)
      PROVE  Inv'
  BY <1>2, LifecycleKeepsInv
<1>3. ASSUME NEW c \in Conns, NEW s \in Sessions, SessionWrite(c, s)
      PROVE  Inv'
  BY <1>3, SessionWriteStepKeepsInv
<1>4. ASSUME NEW c \in Conns, NEW s \in Sessions, Registration(c, s)
      PROVE  Inv'
  BY <1>4, RegistrationStepKeepsInv
<1>5. ASSUME NEW c \in Conns, NEW s \in Sessions, Forget(c, s)
      PROVE  Inv'
  BY <1>5, ForgetKeepsInv
<1>6. ASSUME NEW c \in Conns, NEW s \in Sessions, NEW source \in Sessions,
             NEW proven \in SUBSET Entries, ExportFork(c, source, s, proven)
      PROVE  Inv'
  BY <1>6, ExportForkKeepsInv
<1>7. ASSUME UNCHANGED vars
      PROVE  Inv'
  BY <1>7
     DEF vars, Inv, TypeOK, GraphClosed, AncestryClosed, IdentityUnique,
         ResetLeavesNoHistory, HasRows, SlotsWithinGraph, SlotsRetained, ProjectionCurrent
<1> QED
  BY <1>1, <1>2, <1>3, <1>4, <1>5, <1>6, <1>7 DEF Next

(* The inductive invariant of the store: its rows are well-formed and lie  *)
(* in the host graph, identities and resets are as promised, and what a    *)
(* lock holder has exported is what its source still says.                 *)
THEOREM Invariance == Spec => []Inv
<1>1. Init => Inv
  BY InitInv
<1>2. Inv /\ [Next]_vars => Inv'
  BY StepKeepsInv
<1> QED
  BY <1>1, <1>2, PTL DEF Spec

(* Every row the store can hold is a well-formed row.                      *)
THEOREM TypeSafety == Spec => []TypeOK
<1>1. Inv => TypeOK
  BY DEF Inv
<1> QED
  BY <1>1, Invariance, PTL

(* No two registered sessions share a file.                                *)
THEOREM IdentitySafety == Spec => []IdentityUnique
<1>1. Inv => IdentityUnique
  BY DEF Inv
<1> QED
  BY <1>1, Invariance, PTL

(* The loop of the source resolves every coordinate as the law does, from  *)
(* any rows the store can hold and along ancestries of any length.         *)
THEOREM LineageSafety == Spec => []LineageLawHolds
<1>1. TypeOK => LineageLawHolds
  <2> SUFFICES ASSUME TypeOK, NEW s \in Sessions, NEW e \in Entries
               PROVE  ReduceLineage(slots[s], Path[e]) = Resolve(slots[s], e)
    BY DEF LineageLawHolds
  <2>1. slots[s] \in [Entries -> Slot]
    BY DEF TypeOK
  <2> QED
    BY <2>1, LoopIsLaw
<1> QED
  BY <1>1, TypeSafety, PTL

(* A forgotten session stays empty until its reset is completed.           *)
THEOREM ResetSafety == Spec => []ResetLeavesNoHistory
<1>1. Inv => ResetLeavesNoHistory
  BY DEF Inv
<1> QED
  BY <1>1, Invariance, PTL

(* A verified session has no row outside its host file.                    *)
THEOREM GraphSafety == Spec => []SlotsWithinGraph
<1>1. Inv => SlotsWithinGraph
  BY DEF Inv
<1> QED
  BY <1>1, Invariance, PTL

(* A fork commits the slots its source has when it commits.                *)
THEOREM ProjectionSafety == Spec => []ProjectionCurrent
<1>1. Inv => ProjectionCurrent
  BY DEF Inv
<1> QED
  BY <1>1, Invariance, PTL
-----------------------------------------------------------------------------
(* The kinds of step, for the action properties.  A step leaves a          *)
(* session's rows alone, blocks coordinates on what they inherit, opens    *)
(* one coordinate, registers the session or forgets it.                    *)

Untouched(s) == slots'[s] = slots[s] /\ (s \in barrier' <=> s \in barrier)

Blocks(s) == BlocksOnInherited(slots[s], slots'[s])

(* A capture into an open coordinate, the release of an exact pin or the   *)
(* adoption of an empty blocked coordinate.                                *)
Opens(s) ==
    /\ s \notin barrier
    /\ s \notin barrier'
    /\ \E e \in Entries, t \in Trees :
          /\ slots'[s] = [slots[s] EXCEPT ![e] = OpenCheckpoint(t)]
          /\ IsBlocked(slots[s][e]) /\ HasTree(slots[s][e]) => slots[s][e].tree = t

Writes(c, s) ==
    /\ MayWrite(c, s)
    /\ UNCHANGED <<registry, history, attached, holder>>
    /\ Blocks(s) \/ Opens(s)

(* Slots change only from OpenMissing or keep their tree, and are blocked. *)
Closes(s) ==
    \A e \in Entries :
        slots'[s][e] # slots[s][e] =>
            /\ IsBlocked(slots'[s][e])
            /\ HasTree(slots[s][e]) => slots'[s][e].tree = slots[s][e].tree

Registered(c, s) ==
    /\ holder = c
    /\ registry[s].state # "verified" \/ history[s].pending
    /\ attached'[c][s] = history'[s].epoch
    /\ history'[s] = [epoch |-> history[s].epoch, pending |-> FALSE]
    /\ Closes(s) \/ (registry[s].state = "absent" /\ ~ HasRows(s))

LEMMA ReconciledBlocks ==
    ASSUME NEW sl \in [Entries -> Slot], NEW path
    PROVE  BlocksOnInherited(sl, Reconciled(sl, path))
BY DEF BlocksOnInherited, Reconciled

LEMMA ProtectedBlocks ==
    ASSUME NEW sl \in [Entries -> Slot], NEW e \in Entries
    PROVE  BlocksOnInherited(sl, [sl EXCEPT ![e] = BlockSlot(sl[e], Resolve(sl, e).tree)])
<1>1. CASE sl[e] = BlockedMissing
  <2>1. BlockSlot(sl[e], Resolve(sl, e).tree) = sl[e]
    BY <1>1 DEF BlockSlot, BlockedMissing, IsBlocked
  <2> QED
    BY <2>1 DEF BlocksOnInherited
<1>2. CASE sl[e] # BlockedMissing
  BY <1>2 DEF Resolve, BlocksOnInherited
<1> QED
  BY <1>1, <1>2

LEMMA SessionWriteKinds ==
    ASSUME Inv, NEW c \in Conns, NEW s \in Sessions, SessionWrite(c, s)
    PROVE  /\ Writes(c, s)
           /\ \A r \in Sessions \ {s} : Untouched(r)
<1>1. slots \in [Sessions -> [Entries -> Slot]] /\ barrier \in SUBSET Sessions
  BY DEF Inv, TypeOK
<1>2. ASSUME NEW e \in Entries, ReconcileAlong(s, e)
      PROVE  Blocks(s) /\ \A r \in Sessions \ {s} : Untouched(r)
  <2>1. slots'[s] = Reconciled(slots[s], Ancestors(e))
    BY <1>1, <1>2 DEF ReconcileAlong
  <2>2. \A r \in Sessions \ {s} : Untouched(r)
    BY <1>1, <1>2 DEF ReconcileAlong, Untouched
  <2> QED
    BY <1>1, <2>1, <2>2, ReconciledBlocks DEF Blocks
<1>3. ASSUME NEW e \in Entries, NEW slot, WriteSlot(s, e, slot), UNCHANGED barrier
      PROVE  /\ slots'[s] = [slots[s] EXCEPT ![e] = slot]
             /\ \A r \in Sessions \ {s} : Untouched(r)
  BY <1>1, <1>3 DEF WriteSlot, Untouched
<1>4. ASSUME NEW e \in Entries, CaptureSettlesBarrier(c, s, e)
      PROVE  Writes(c, s) /\ \A r \in Sessions \ {s} : Untouched(r)
  BY <1>4, <1>2 DEF CaptureSettlesBarrier, Writes
<1>5. ASSUME NEW e \in Entries, NEW expected \in Slot, NEW tree \in Trees,
             CommitCapture(c, s, e, expected, tree)
      PROVE  Writes(c, s) /\ \A r \in Sessions \ {s} : Untouched(r)
  BY <1>5, <1>3 DEF CommitCapture, CanCapture, Writes, Opens
<1>6. ASSUME NEW e \in Entries, ProtectLocation(c, s, e)
      PROVE  Writes(c, s) /\ \A r \in Sessions \ {s} : Untouched(r)
  <2>1. slots'[s] = [slots[s] EXCEPT ![e] = BlockSlot(slots[s][e], Resolve(slots[s], e).tree)]
    BY <1>6, <1>3 DEF ProtectLocation
  <2>2. Blocks(s)
    BY <1>1, <2>1, ProtectedBlocks DEF Blocks
  <2> QED
    BY <1>6, <1>3, <2>2 DEF ProtectLocation, Writes
<1>7. ASSUME NEW e \in Entries, NEW expected \in Resolutions,
             AdmitResolvedLocation(c, s, e, expected)
      PROVE  Writes(c, s) /\ \A r \in Sessions \ {s} : Untouched(r)
  <2>1. expected.tree \in Trees /\ slots[s][e].tree = expected.tree
    BY <1>7 DEF AdmitResolvedLocation, Resolutions, CanRelease, BlockedCheckpoint
  <2> QED
    BY <1>7, <1>3, <2>1 DEF AdmitResolvedLocation, Writes, Opens
<1>8. ASSUME NEW e \in Entries, NEW tree \in Trees, AdoptBlockedMissing(c, s, e, tree)
      PROVE  Writes(c, s) /\ \A r \in Sessions \ {s} : Untouched(r)
  <2>1. ~ HasTree(slots[s][e])
    BY <1>8 DEF AdoptBlockedMissing, CanAdopt, BlockedMissing, HasTree
  <2> QED
    BY <1>8, <1>3, <2>1 DEF AdoptBlockedMissing, Writes, Opens
<1>9. ASSUME NEW e \in Entries, ReconcileSessionBarrier(c, s, e)
      PROVE  Writes(c, s) /\ \A r \in Sessions \ {s} : Untouched(r)
  BY <1>9, <1>2 DEF ReconcileSessionBarrier, Writes
<1>10. ASSUME RaiseSessionBarrier(c, s)
       PROVE  Writes(c, s) /\ \A r \in Sessions \ {s} : Untouched(r)
  BY <1>10 DEF RaiseSessionBarrier, Writes, Untouched, Blocks, BlocksOnInherited
<1> QED
  BY <1>4, <1>5, <1>6, <1>7, <1>8, <1>9, <1>10 DEF SessionWrite

LEMMA GuardedCloses ==
    ASSUME NEW s \in Sessions, slots[s] \in [Entries -> Slot], NEW e \in Entries
    PROVE  /\ Guarded(s, NoEntry)[e] # slots[s][e] => IsBlocked(Guarded(s, NoEntry)[e])
           /\ HasTree(slots[s][e]) => Guarded(s, NoEntry)[e] = slots[s][e]
BY DEF Guarded, OpenMissing, BlockedMissing, IsBlocked, HasTree

(* A session whose rows are adopted is closed, whatever became of its      *)
(* barrier.                                                                *)
LEMMA AdoptedCloses ==
    ASSUME Inv, NEW s \in Sessions, NEW f \in Files, NEW leaf, AdoptLegacyRows(s, f, leaf)
    PROVE  /\ Closes(s)
           /\ \A r \in Sessions \ {s} : Untouched(r)
<1> DEFINE kept == Guarded(s, NoEntry)
<1>1. /\ slots \in [Sessions -> [Entries -> Slot]] /\ barrier \in SUBSET Sessions
      /\ kept \in [Entries -> Slot]
  BY GuardedTyped DEF Inv, TypeOK
<1>2. \A e \in Entries :
        /\ kept[e] # slots[s][e] => IsBlocked(kept[e])
        /\ HasTree(slots[s][e]) => kept[e] = slots[s][e]
  BY <1>1, GuardedCloses
<1>3. CASE s \in barrier /\ leaf # NoEntry
  <2> DEFINE new == Reconciled(kept, Ancestors(leaf))
  <2>1. slots' = [slots EXCEPT ![s] = new] /\ barrier' = barrier \ {s}
    BY <1>3 DEF AdoptLegacyRows
  <2>2. \A r \in Sessions \ {s} : Untouched(r)
    BY <1>1, <2>1 DEF Untouched
  <2>3. slots'[s] = new /\ BlocksOnInherited(kept, new)
    BY <1>1, <2>1, ReconciledBlocks
  <2> SUFFICES ASSUME NEW e \in Entries, slots'[s][e] # slots[s][e]
               PROVE  /\ IsBlocked(slots'[s][e])
                      /\ HasTree(slots[s][e]) => slots'[s][e].tree = slots[s][e].tree
    BY <2>2 DEF Closes
  <2> HIDE DEF kept, new
  <2>4. CASE new[e] = kept[e]
    BY <1>2, <2>3, <2>4
  <2>5. CASE new[e] = BlockSlot(kept[e], Inherited(kept, e).tree)
    <3>1. kept[e] \in Slot /\ Inherited(kept, e).tree \in Trees \cup {NoTree}
      BY <1>1, InheritedTyped
    <3> QED
      BY <1>2, <2>3, <2>5, <3>1, BlockSlotTyped
  <2> QED
    BY <2>3, <2>4, <2>5 DEF BlocksOnInherited
<1>4. CASE ~ (s \in barrier /\ leaf # NoEntry)
  <2>1. slots' = [slots EXCEPT ![s] = kept] /\ barrier' = barrier
    BY <1>4 DEF AdoptLegacyRows
  <2> HIDE DEF kept
  <2>2. slots'[s] = kept /\ \A r \in Sessions \ {s} : Untouched(r)
    BY <1>1, <2>1 DEF Untouched
  <2> QED
    BY <1>2, <2>2 DEF Closes
<1> QED
  BY <1>3, <1>4

LEMMA RegistrationKinds ==
    ASSUME Inv, NEW c \in Conns, NEW s \in Sessions, Registration(c, s)
    PROVE  /\ Registered(c, s) \/ Untouched(s)
           /\ \A r \in Sessions \ {s} : Untouched(r)
<1> DEFINE P == /\ Registered(c, s) \/ Untouched(s)
                /\ \A r \in Sessions \ {s} : Untouched(r)
<1>1. /\ slots \in [Sessions -> [Entries -> Slot]] /\ barrier \in SUBSET Sessions
      /\ history \in [Sessions -> [epoch : Nat, pending : BOOLEAN]]
      /\ attached \in [Conns -> [Sessions -> Nat \cup {Unattached}]]
  BY DEF Inv, TypeOK
<1>2. Attach(c, s) => attached'[c][s] = history[s].epoch
  BY <1>1 DEF Attach
<1>3. /\ ~ history[s].pending /\ history' = history
           => history'[s] = [epoch |-> history[s].epoch, pending |-> FALSE]
      /\ history' = [history EXCEPT ![s].pending = FALSE]
           => history'[s] = [epoch |-> history[s].epoch, pending |-> FALSE]
  BY <1>1
<1>4. ASSUME NEW f \in Files, Registers(c, s, f), NEW new,
             slots' = [slots EXCEPT ![s] = new],
             \A r \in Sessions \ {s} : r \in barrier' <=> r \in barrier
      PROVE  P
  <2>1. \A r \in Sessions \ {s} : Untouched(r)
    BY <1>1, <1>4 DEF Untouched
  <2>2. Registered(c, s)
    BY <1>2, <1>3, <1>4 DEF Registers, Registered
  <2> QED
    BY <2>1, <2>2
<1>5. ASSUME NEW f \in Files, NEW leaf, RegisterFresh(c, s, f, leaf)
      PROVE  P
  BY <1>4, <1>5 DEF RegisterFresh
<1>6. ASSUME NEW f \in Files, RegisterQuarantined(c, s, f)
      PROVE  P
  <2>1. \A r \in Sessions \ {s} : r \in barrier' <=> r \in barrier
    BY <1>6 DEF RegisterQuarantined
  <2> QED
    BY <1>4, <1>6, <2>1 DEF RegisterQuarantined
<1>7. ASSUME NEW f \in Files, RegisterFork(c, s, f)
      PROVE  P
  <2>1. \A r \in Sessions \ {s} : r \in barrier' <=> r \in barrier
    BY <1>7 DEF RegisterFork
  <2> QED
    BY <1>4, <1>7, <2>1 DEF RegisterFork
<1>8. ASSUME NEW f \in Files, NEW leaf \in Leaves(s), VerifyPending(c, s, f, leaf)
      PROVE  P
  <2>1. Closes(s) /\ \A r \in Sessions \ {s} : Untouched(r)
    BY <1>8, AdoptedCloses DEF VerifyPending
  <2> QED
    BY <1>2, <1>3, <1>8, <2>1 DEF VerifyPending, Claims, Registered
<1>9. ASSUME NEW f \in Files, NEW leaf \in Leaves(s), ClaimOrphan(c, s, f, leaf)
      PROVE  P
  <2>1. Closes(s) /\ \A r \in Sessions \ {s} : Untouched(r)
    BY <1>9, AdoptedCloses DEF ClaimOrphan
  <2> QED
    BY <1>2, <1>3, <1>9, <2>1 DEF ClaimOrphan, Claims, Registered
<1>10. ASSUME NEW f \in Files, NEW leaf, ReattachForgotten(c, s, f, leaf)
       PROVE  P
  <2>1. slots'[s] = Guarded(s, leaf) /\ \A r \in Sessions \ {s} : Untouched(r)
    BY <1>1, <1>10 DEF ReattachForgotten, Untouched
  <2>2. Closes(s)
    BY <1>1, <2>1 DEF Closes, Guarded, OpenMissing, BlockedMissing, IsBlocked, HasTree
  <2> QED
    BY <1>2, <1>3, <1>10, <2>1, <2>2 DEF ReattachForgotten, Claims, Registered
<1>11. ASSUME NEW f \in Files, Reattach(c, s, f)
       PROVE  P
  BY <1>11 DEF Reattach, Untouched
<1> HIDE DEF P
<1>12. P
  BY <1>5, <1>6, <1>7, <1>8, <1>9, <1>10, <1>11 DEF Registration
<1> QED
  BY <1>12 DEF P

(* Every step, as each session sees it.                                    *)
StepKind(s) ==
    \/ Untouched(s)
    \/ Forgotten(s)
    \/ \E c \in Conns : Writes(c, s) \/ Registered(c, s)

LEMMA StepKinds ==
    ASSUME Inv, [Next]_vars, NEW s \in Sessions
    PROVE  StepKind(s)
<1>1. ASSUME NEW r \in Sessions, NEW e \in Entries, HostAppend(r, e)
      PROVE  StepKind(s)
  BY <1>1 DEF HostAppend, StepKind, Untouched
<1>2. ASSUME NEW c \in Conns, Lifecycle(c)
      PROVE  StepKind(s)
  BY <1>2 DEF Lifecycle, Acquire, Release, Close, StepKind, Untouched
<1>3. ASSUME NEW c \in Conns, NEW r \in Sessions, SessionWrite(c, r)
      PROVE  StepKind(s)
  BY <1>3, SessionWriteKinds DEF StepKind
<1>4. ASSUME NEW c \in Conns, NEW r \in Sessions, Registration(c, r)
      PROVE  StepKind(s)
  BY <1>4, RegistrationKinds DEF StepKind
<1>5. ASSUME NEW c \in Conns, NEW r \in Sessions, Forget(c, r)
      PROVE  StepKind(s)
  <2>1. CASE r = s
    BY <1>5, <2>1 DEF Forget, StepKind, Forgotten, Inv, TypeOK
  <2>2. CASE r # s
    BY <1>5, <2>2 DEF Forget, StepKind, Untouched, Inv, TypeOK
  <2> QED
    BY <2>1, <2>2
<1>6. ASSUME NEW c \in Conns, NEW r \in Sessions, NEW source \in Sessions,
             NEW proven \in SUBSET Entries, ExportFork(c, source, r, proven)
      PROVE  StepKind(s)
  BY <1>6 DEF ExportFork, StepKind, Untouched
<1>7. ASSUME UNCHANGED vars
      PROVE  StepKind(s)
  BY <1>7 DEF vars, StepKind, Untouched
<1> QED
  BY <1>1, <1>2, <1>3, <1>4, <1>5, <1>6, <1>7 DEF Next
-----------------------------------------------------------------------------
(* The action properties.                                                  *)

(* Rows change only in the hands of the lock holder, attached to the       *)
(* generation the store has now: no writer survives a forget.              *)
THEOREM WritersSafety == Spec => WritersAreCurrent
<1> DEFINE A == \A s \in Sessions :
                  RowsChange(s) /\ ~ Forgotten(s) =>
                      /\ holder \in Conns
                      /\ attached'[holder][s] = history'[s].epoch
                      /\ ~ history'[s].pending
<1>1. ASSUME Inv, [Next]_vars
      PROVE  A
  <2> SUFFICES ASSUME NEW s \in Sessions, RowsChange(s), ~ Forgotten(s)
               PROVE  /\ holder \in Conns
                      /\ attached'[holder][s] = history'[s].epoch
                      /\ ~ history'[s].pending
    OBVIOUS
  <2>1. ~ Untouched(s)
    BY DEF RowsChange, Untouched
  <2>2. PICK c \in Conns : Writes(c, s) \/ Registered(c, s)
    BY <1>1, <2>1, StepKinds DEF StepKind
  <2> QED
    BY <2>2 DEF Writes, MayWrite, Registered
<1> HIDE DEF A
<1>2. Inv /\ [Next]_vars => [A]_vars
  BY <1>1
<1>3. Spec => [][A]_vars
  BY <1>2, Invariance, PTL DEF Spec
<1> QED
  BY <1>3 DEF WritersAreCurrent, A

(* Under a barrier every slot that changes is blocked.                     *)
THEOREM BarrierSafety == Spec => BarrierHoldsCaptures
<1> DEFINE A == \A s \in Sessions, e \in Entries :
                  /\ s \in barrier
                  /\ ~ Forgotten(s)
                  /\ slots'[s][e] # slots[s][e]
                  => IsBlocked(slots'[s][e])
<1>1. ASSUME Inv, [Next]_vars
      PROVE  A
  <2> SUFFICES ASSUME NEW s \in Sessions, NEW e \in Entries,
                      s \in barrier, ~ Forgotten(s), slots'[s][e] # slots[s][e]
               PROVE  IsBlocked(slots'[s][e])
    OBVIOUS
  <2>1. ~ Untouched(s)
    BY DEF Untouched
  <2>2. PICK c \in Conns : Writes(c, s) \/ Registered(c, s)
    BY <1>1, <2>1, StepKinds DEF StepKind
  <2>3. CASE Blocks(s)
    <3>1. slots[s][e] \in Slot /\ Inherited(slots[s], e).tree \in Trees \cup {NoTree}
      BY <1>1, InheritedTyped DEF Inv, TypeOK
    <3>2. slots'[s][e] = BlockSlot(slots[s][e], Inherited(slots[s], e).tree)
      BY <2>3 DEF Blocks, BlocksOnInherited
    <3> QED
      BY <3>1, <3>2, BlockSlotTyped
  <2>4. CASE Registered(c, s)
    BY <2>4 DEF Registered, HasRows, Closes
  <2> QED
    BY <2>2, <2>3, <2>4 DEF Writes, Opens
<1> HIDE DEF A
<1>2. Inv /\ [Next]_vars => [A]_vars
  BY <1>1
<1>3. Spec => [][A]_vars
  BY <1>2, Invariance, PTL DEF Spec
<1> QED
  BY <1>3 DEF BarrierHoldsCaptures, A

(* A pinned checkpoint keeps its tree until its session is forgotten.      *)
THEOREM PinSafety == Spec => PinsKeepTheirTree
<1> DEFINE A == \A s \in Sessions, e \in Entries :
                  /\ IsBlocked(slots[s][e])
                  /\ HasTree(slots[s][e])
                  /\ ~ Forgotten(s)
                  => slots'[s][e].tree = slots[s][e].tree
<1>1. ASSUME Inv, [Next]_vars
      PROVE  A
  <2> SUFFICES ASSUME NEW s \in Sessions, NEW e \in Entries, IsBlocked(slots[s][e]),
                      HasTree(slots[s][e]), ~ Forgotten(s)
               PROVE  slots'[s][e].tree = slots[s][e].tree
    OBVIOUS
  <2>0. slots[s] \in [Entries -> Slot]
    BY <1>1 DEF Inv, TypeOK
  <2>1. CASE Untouched(s)
    BY <2>1 DEF Untouched
  <2>2. ASSUME NEW c \in Conns, Writes(c, s), Blocks(s)
        PROVE  slots'[s][e].tree = slots[s][e].tree
    <3>1. slots[s][e] \in Slot /\ Inherited(slots[s], e).tree \in Trees \cup {NoTree}
      BY <2>0, InheritedTyped
    <3> QED
      BY <2>2, <3>1, BlockSlotTyped DEF Blocks, BlocksOnInherited
  <2>3. ASSUME NEW c \in Conns, Writes(c, s), Opens(s)
        PROVE  slots'[s][e].tree = slots[s][e].tree
    BY <2>0, <2>3 DEF Opens, OpenCheckpoint
  <2>4. ASSUME NEW c \in Conns, Registered(c, s)
        PROVE  slots'[s][e].tree = slots[s][e].tree
    <3>1. HasRows(s)
      BY DEF HasRows, HasTree, OpenMissing
    <3> QED
      BY <2>4, <3>1 DEF Registered, Closes
  <2> QED
    BY <1>1, <2>1, <2>2, <2>3, <2>4, StepKinds DEF StepKind, Writes
<1> HIDE DEF A
<1>2. Inv /\ [Next]_vars => [A]_vars
  BY <1>1
<1>3. Spec => [][A]_vars
  BY <1>2, Invariance, PTL DEF Spec
<1> QED
  BY <1>3 DEF PinsKeepTheirTree, A

(* Blocking any coordinates of an authenticated session, in any host tree, *)
(* leaves what each of its coordinates resolves to as it was.              *)
THEOREM BlockingSafety == Spec => BlockingNeverRetargets
<1> DEFINE A == \A s \in Sessions :
                  /\ registry[s].state = "verified"
                  /\ ~ history[s].pending
                  /\ ~ Forgotten(s)
                  /\ OnlyBlocks(s)
                  => \A e \in Entries :
                        Resolve(slots'[s], e).tree = Resolve(slots[s], e).tree
<1>1. ASSUME Inv, [Next]_vars
      PROVE  A
  <2> SUFFICES ASSUME NEW s \in Sessions, registry[s].state = "verified",
                      ~ history[s].pending, ~ Forgotten(s), OnlyBlocks(s),
                      NEW e \in Entries
               PROVE  Resolve(slots'[s], e).tree = Resolve(slots[s], e).tree
    OBVIOUS
  <2>1. slots[s] \in [Entries -> Slot] /\ slots'[s] \in [Entries -> Slot]
    BY <1>1, StepKeepsInv DEF Inv, TypeOK
  <2>2. CASE Untouched(s)
    BY <2>2 DEF Untouched
  <2>3. CASE Blocks(s)
    BY <2>1, <2>3, ResolutionSurvivesBlocking DEF Blocks
  <2>4. CASE Opens(s)
    <3>1. PICK d \in Entries, t \in Trees : slots'[s] = [slots[s] EXCEPT ![d] = OpenCheckpoint(t)]
      BY <2>4 DEF Opens
    <3>2. slots'[s][d] = OpenCheckpoint(t) /\ ~ IsBlocked(OpenCheckpoint(t))
      BY <2>1, <3>1 DEF OpenCheckpoint, IsBlocked
    <3>3. slots'[s][d] = slots[s][d]
      BY <3>2 DEF OnlyBlocks
    <3>4. slots'[s] = slots[s]
      BY <2>1, <3>1, <3>2, <3>3
    <3> QED
      BY <3>4
  <2> QED
    BY <1>1, <2>2, <2>3, <2>4, StepKinds DEF StepKind, Writes, Registered
<1> HIDE DEF A
<1>2. Inv /\ [Next]_vars => [A]_vars
  BY <1>1
<1>3. Spec => [][A]_vars
  BY <1>2, Invariance, PTL DEF Spec
<1> QED
  BY <1>3 DEF BlockingNeverRetargets, A

(* What a coordinate resolves to depends on its own ancestry only.         *)
LEMMA ResolutionIsLocal ==
    ASSUME NEW one \in [Entries -> Slot], NEW two \in [Entries -> Slot],
           NEW e \in Entries, \A d \in Ancestors(e) : one[d] = two[d]
    PROVE  Resolve(one, e) = Resolve(two, e)
<1>1. \A i \in 1..Len(Path[e]) : one[Path[e][i]] = two[Path[e][i]]
  BY DEF Ancestors
<1>2. Bearing(one, e) = Bearing(two, e)
  BY <1>1 DEF Bearing
<1>3. one[e] = two[e]
  <2>1. e \in Ancestors(e)
    BY PathTyped DEF Ancestors
  <2> QED
    BY <2>1
<1>4. CASE Bearing(one, e) = {}
  BY <1>2, <1>3, <1>4 DEF Resolve, Inherited
<1>5. CASE Bearing(one, e) # {}
  <2>1. PICK i \in 1..Len(Path[e]) : IsNearest(one, e, i)
    BY <1>5, NearestExists
  <2>2. IsNearest(two, e, i)
    BY <1>2, <2>1 DEF IsNearest
  <2>3. Inherited(one, e) = Inherited(two, e)
    BY <1>1, <2>1, <2>2, InheritedFromNearest
  <2> QED
    BY <1>3, <2>3 DEF Resolve
<1> QED
  BY <1>4, <1>5

(* An export holds the whole ancestry of each coordinate it proves.        *)
ExportClosed ==
    \A c \in Conns :
        projection[c] # NoProjection => AncestryClosed(DOMAIN projection[c].slots)

LEMMA ExportsStayClosed ==
    ASSUME Inv, ExportClosed, [Next]_vars
    PROVE  ExportClosed'
<1>0. projection \in [Conns -> Projections \cup {NoProjection}]
  BY DEF Inv, TypeOK
<1>1. ASSUME UNCHANGED projection
      PROVE  ExportClosed'
  BY <1>1 DEF ExportClosed, AncestryClosed
<1>2. ASSUME NEW c \in Conns, projection' = [projection EXCEPT ![c] = NoProjection]
      PROVE  ExportClosed'
  BY <1>0, <1>2 DEF ExportClosed, AncestryClosed
<1>3. ASSUME NEW c \in Conns, NEW s \in Sessions, NEW source \in Sessions,
             NEW proven \in SUBSET Entries, ExportFork(c, source, s, proven)
      PROVE  ExportClosed'
  <2> DEFINE p == [source |-> source, target |-> s, barrier |-> source \in barrier,
                   slots |-> [e \in proven |-> slots[source][e]]]
  <2>1. /\ projection' = [projection EXCEPT ![c] = p]
        /\ AncestryClosed(proven)
    BY <1>3 DEF ExportFork
  <2>2. DOMAIN p.slots = proven
    OBVIOUS
  <2> HIDE DEF p
  <2> QED
    BY <1>0, <2>1, <2>2 DEF ExportClosed, AncestryClosed
<1>4. ASSUME NEW c \in Conns, NEW s \in Sessions, Registration(c, s)
      PROVE  ExportClosed'
  BY <1>1, <1>2, <1>4
     DEF Registration, RegisterFresh, RegisterQuarantined, RegisterFork, VerifyPending,
         ClaimOrphan, ReattachForgotten, Reattach
<1>5. ASSUME NEW c \in Conns, NEW s \in Sessions, SessionWrite(c, s)
      PROVE  UNCHANGED projection
  BY <1>5
     DEF SessionWrite, CaptureSettlesBarrier, CommitCapture, ProtectLocation,
         AdmitResolvedLocation, AdoptBlockedMissing, ReconcileSessionBarrier,
         RaiseSessionBarrier
<1>6. ASSUME NEW c \in Conns, Lifecycle(c)
      PROVE  ExportClosed'
  BY <1>1, <1>2, <1>6 DEF Lifecycle, Acquire, Release, Close
<1> QED
  BY <1>1, <1>3, <1>4, <1>5, <1>6 DEF Next, HostAppend, Forget, vars

(* A fork resolves each coordinate it shares with its parent as the parent *)
(* does.                                                                   *)
THEOREM ForkSafety == Spec => ForkKeepsLineage
<1> DEFINE A == \A c \in Conns, s \in Sessions, f \in Files :
                  RegisterFork(c, s, f) =>
                      \A e \in DOMAIN projection[c].slots :
                          Resolve(slots'[s], e) = Resolve(slots[projection[c].source], e)
<1>1. ASSUME Inv, ExportClosed, [Next]_vars
      PROVE  A
  <2> SUFFICES ASSUME NEW c \in Conns, NEW s \in Sessions, NEW f \in Files,
                      RegisterFork(c, s, f), NEW e \in DOMAIN projection[c].slots
               PROVE  Resolve(slots'[s], e) = Resolve(slots[projection[c].source], e)
    OBVIOUS
  <2> DEFINE p == projection[c]
  <2>1. /\ p # NoProjection
        /\ slots' = [slots EXCEPT ![s] =
                       [d \in Entries |->
                          IF d \in DOMAIN p.slots THEN p.slots[d]
                                                  ELSE Guarded(s, NoEntry)[d]]]
    BY DEF RegisterFork
  <2>2. /\ p \in Projections
        /\ slots \in [Sessions -> [Entries -> Slot]]
        /\ slots'[s] \in [Entries -> Slot]
    BY <1>1, <2>1, StepKeepsInv DEF Inv, TypeOK
  <2>3. /\ DOMAIN p.slots \in SUBSET Entries
        /\ p.source \in Sessions
    BY <2>2 DEF Projections
  <2>4. \A d \in DOMAIN p.slots : p.slots[d] = slots[p.source][d]
    BY <1>1, <2>1 DEF Inv, ProjectionCurrent
  <2>5. Ancestors(e) \subseteq DOMAIN p.slots
    BY <1>1, <2>1 DEF ExportClosed, AncestryClosed
  <2> HIDE DEF p
  <2>6. \A d \in DOMAIN p.slots : slots'[s][d] = slots[p.source][d]
    BY <2>1, <2>2, <2>3, <2>4
  <2>7. \A d \in Ancestors(e) : slots'[s][d] = slots[p.source][d]
    BY <2>5, <2>6
  <2>8. e \in Entries /\ slots[p.source] \in [Entries -> Slot]
    BY <2>2, <2>3 DEF p
  <2>9. Resolve(slots'[s], e) = Resolve(slots[p.source], e)
    BY <2>2, <2>7, <2>8, ResolutionIsLocal
  <2> QED
    BY <2>9 DEF p
<1> HIDE DEF A
<1>2. Inv /\ ExportClosed /\ [Next]_vars => [A]_vars
  BY <1>1
<1>3. Init => ExportClosed
  BY DEF Init, ExportClosed
<1>4. Inv /\ ExportClosed /\ [Next]_vars => ExportClosed'
  BY ExportsStayClosed
<1>5. Spec => [][A]_vars
  BY <1>2, <1>3, <1>4, Invariance, PTL DEF Spec
<1> QED
  BY <1>5 DEF ForkKeepsLineage, A

Unguarded(s) == {e \in graph[s] : slots'[s][e] = OpenMissing}

LEMMA AtMostOne ==
    ASSUME NEW S, NEW x, S \subseteq {x}
    PROVE  Cardinality(S) <= 1
<1>1. S = {} \/ S = {x}
  OBVIOUS
<1>2. Cardinality({}) = 0 /\ Cardinality({x}) = 1
  BY FS_EmptySet, FS_Singleton
<1>3. CASE S = {}
  BY <1>2, <1>3
<1>4. CASE S = {x}
  BY <1>2, <1>4
<1> QED
  BY <1>1, <1>3, <1>4

LEMMA GuardedUnguarded ==
    ASSUME TypeOK, NEW s \in Sessions, NEW leaf, slots'[s] = Guarded(s, leaf)
    PROVE  /\ Unguarded(s) \subseteq {leaf}
           /\ leaf = NoEntry => Unguarded(s) = {}
<1>1. graph[s] \subseteq Entries /\ NoEntry \notin Entries
  BY NoEntryAssumption DEF TypeOK
<1> QED
  BY <1>1 DEF Unguarded, Guarded, OpenMissing, BlockedMissing

LEMMA AdoptedUnguarded ==
    ASSUME Inv, NEW s \in Sessions, NEW f \in Files, NEW leaf, AdoptLegacyRows(s, f, leaf)
    PROVE  Unguarded(s) = {}
<1> DEFINE kept == Guarded(s, NoEntry)
<1>1. /\ slots \in [Sessions -> [Entries -> Slot]]
      /\ graph[s] \subseteq Entries /\ NoEntry \notin Entries
      /\ kept \in [Entries -> Slot]
  BY GuardedTyped, NoEntryAssumption DEF Inv, TypeOK
<1>2. \A e \in graph[s] : kept[e] # OpenMissing
  BY <1>1 DEF Guarded, OpenMissing, BlockedMissing
<1>3. CASE s \in barrier /\ leaf # NoEntry
  <2>1. slots' = [slots EXCEPT ![s] = Reconciled(kept, Ancestors(leaf))]
    BY <1>3 DEF AdoptLegacyRows
  <2> HIDE DEF kept
  <2>2. slots'[s] = Reconciled(kept, Ancestors(leaf))
    BY <1>1, <2>1
  <2>3. ASSUME NEW e \in graph[s]
        PROVE  slots'[s][e] # OpenMissing
    <3>1. kept[e] \in Slot /\ Inherited(kept, e).tree \in Trees \cup {NoTree}
      BY <1>1, InheritedTyped
    <3>2. CASE slots'[s][e] = kept[e]
      BY <1>2, <3>2
    <3>3. CASE slots'[s][e] = BlockSlot(kept[e], Inherited(kept, e).tree)
      <4>1. IsBlocked(slots'[s][e])
        BY <3>1, <3>3, BlockSlotTyped
      <4> QED
        BY <4>1 DEF IsBlocked, OpenMissing
    <3> QED
      BY <1>1, <2>2, <3>2, <3>3 DEF Reconciled
  <2> QED
    BY <2>3 DEF Unguarded
<1>4. CASE ~ (s \in barrier /\ leaf # NoEntry)
  <2>1. slots' = [slots EXCEPT ![s] = kept]
    BY <1>4 DEF AdoptLegacyRows
  <2> HIDE DEF kept
  <2> QED
    BY <1>1, <1>2, <2>1 DEF Unguarded
<1> QED
  BY <1>3, <1>4

(* Only a registration authenticates a session, and it is that session's.  *)
LEMMA OnlyRegistrationAuthenticates ==
    ASSUME Inv, [Next]_vars, NEW s \in Sessions, Authenticates(s)
    PROVE  \E c \in Conns : Registration(c, s)
<1> USE DEF Authenticates
<1>0. /\ registry \in [Sessions -> [state : {"absent", "pending", "verified"},
                                    file : Files \cup {NoFile}]]
      /\ history \in [Sessions -> [epoch : Nat, pending : BOOLEAN]]
  BY DEF Inv, TypeOK
<1>1. ~ (UNCHANGED <<registry, history>>)
  OBVIOUS
<1>2. ASSUME NEW c \in Conns, NEW r \in Sessions, SessionWrite(c, r)
      PROVE  FALSE
  BY <1>1, <1>2, SessionWriteKinds DEF Writes
<1>3. ASSUME NEW c \in Conns, NEW r \in Sessions, Forget(c, r)
      PROVE  FALSE
  BY <1>0, <1>3 DEF Forget
<1>4. ASSUME NEW c \in Conns, NEW r \in Sessions, r # s, Registration(c, r)
      PROVE  FALSE
  <2>1. registry'[s] = registry[s] /\ history'[s] = history[s]
    BY <1>0, <1>4
       DEF Registration, Registers, RegisterFresh, RegisterQuarantined, RegisterFork,
           VerifyPending, ClaimOrphan, AdoptLegacyRows, ReattachForgotten, Reattach
  <2> QED
    BY <2>1
<1> QED
  BY <1>1, <1>2, <1>3, <1>4
     DEF Next, HostAppend, Lifecycle, Acquire, Release, Close, ExportFork, vars

(* A session's older coordinates are closed when it is authenticated.      *)
THEOREM HistorySafety == Spec => HistoryStartsClosed
<1> DEFINE Bound(s) == IF registry[s].state = "pending" \/ HasRows(s) THEN 0 ELSE 1
           A == \A s \in Sessions :
                  /\ Authenticates(s)
                  /\ \A c \in Conns : projection[c] = NoProjection
                  =>
                      Cardinality({e \in graph[s] : slots'[s][e] = OpenMissing})
                        <= IF registry[s].state = "pending" \/ HasRows(s) THEN 0 ELSE 1
<1>1. ASSUME Inv, [Next]_vars
      PROVE  A
  <2> SUFFICES ASSUME NEW s \in Sessions, Authenticates(s),
                      \A c \in Conns : projection[c] = NoProjection
               PROVE  Cardinality(Unguarded(s)) <= Bound(s)
    BY DEF Unguarded
  <2>1. PICK c \in Conns : Registration(c, s)
    BY <1>1, OnlyRegistrationAuthenticates
  <2>2. slots \in [Sessions -> [Entries -> Slot]] /\ TypeOK
    BY <1>1 DEF Inv, TypeOK
  <2>3. Unguarded(s) = {} => Cardinality(Unguarded(s)) <= Bound(s)
    BY FS_EmptySet
  <2>4. ASSUME NEW leaf, slots'[s] = Guarded(s, leaf), Bound(s) = 1
        PROVE  Cardinality(Unguarded(s)) <= Bound(s)
    BY <2>2, <2>4, GuardedUnguarded, AtMostOne
  <2>5. ASSUME NEW f \in Files, NEW leaf, RegisterFresh(c, s, f, leaf)
        PROVE  Cardinality(Unguarded(s)) <= Bound(s)
    BY <2>2, <2>4, <2>5 DEF RegisterFresh, Registers
  <2>6. ASSUME NEW f \in Files, RegisterQuarantined(c, s, f)
        PROVE  Cardinality(Unguarded(s)) <= Bound(s)
    <3>1. slots'[s] = Guarded(s, NoEntry)
      BY <2>2, <2>6 DEF RegisterQuarantined
    <3> QED
      BY <2>2, <2>3, <3>1, GuardedUnguarded
  <2>7. ASSUME NEW f \in Files, NEW leaf,
               VerifyPending(c, s, f, leaf) \/ ClaimOrphan(c, s, f, leaf)
        PROVE  Cardinality(Unguarded(s)) <= Bound(s)
    BY <1>1, <2>3, <2>7, AdoptedUnguarded DEF VerifyPending, ClaimOrphan
  <2>8. ASSUME NEW f \in Files, NEW leaf, ReattachForgotten(c, s, f, leaf)
        PROVE  Cardinality(Unguarded(s)) <= Bound(s)
    <3>1. ~ HasRows(s) /\ registry[s].state = "verified"
      BY <1>1, <2>8 DEF Inv, ResetLeavesNoHistory, ReattachForgotten, Claims
    <3> QED
      BY <2>2, <2>4, <2>8, <3>1 DEF ReattachForgotten
  <2>9. ASSUME NEW f \in Files, Reattach(c, s, f)
        PROVE  FALSE
    BY <2>9 DEF Reattach, Authenticates
  <2>10. ASSUME NEW f \in Files, RegisterFork(c, s, f)
         PROVE  FALSE
    BY <2>10 DEF RegisterFork
  <2> HIDE DEF Bound
  <2> QED
    BY <2>1, <2>5, <2>6, <2>7, <2>8, <2>9, <2>10 DEF Registration
<1> HIDE DEF A
<1>2. Inv /\ [Next]_vars => [A]_vars
  BY <1>1
<1>3. Spec => [][A]_vars
  BY <1>2, Invariance, PTL DEF Spec
<1> QED
  BY <1>3, PTL DEF HistoryStartsClosed, A
=============================================================================
