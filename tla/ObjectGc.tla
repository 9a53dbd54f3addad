------------------------------ MODULE ObjectGc ------------------------------
(***************************************************************************)
(* Garbage collection and compaction of a content store                    *)
(* (src/src/infrastructure/object-gc.ts), one step per await at which      *)
(* somebody else may act: mark, inventory and selection, chunk graphs for  *)
(* large legacy blobs, replacement packs, the plan of the sweep, its       *)
(* authorization, and one removal at a time.                               *)
(*                                                                         *)
(* Sizes are abstracted: the decoded-byte and object budgets defer at most *)
(* MaxDeferred keys, whichever they are; a partly dead pack is worth its   *)
(* rewriting when half of its records are dead, and may be otherwise;      *)
(* rewritings for deltas take at most MaxBases more live packs; and clean  *)
(* packs may be of a size.                                                 *)
(***************************************************************************)
EXTENDS ContentFiles

CONSTANTS
    MaxDeferred,  \* how many keys the budgets of a collection defer
    MaxBases,     \* how many packs are rewritten for the deltas they allow
    FanIn         \* how many packs of a size are merged

ASSUME DeferAssumption ==
    MaxDeferred \in Nat /\ MaxBases \in Nat /\ FanIn \in Nat \ {0}

VARIABLES gc  \* the collection under way

gcVars == <<gc>>

GcSteps ==
    {"idle", "begun", "marked", "listed", "selected", "publishing",
     "synchronizing", "published", "planned", "sweeping"}

NoGc ==
    [pc |-> "idle",
     roots |-> {},      \* the roots the mark started from
     expired |-> {},    \* the files past the grace period when it started
     live |-> {},       \* the keys the mark found live
     at |-> <<>>,       \* the file each live chunk graph was read from
     inv |-> {},        \* the inventory
     keys |-> {},       \* the keys to put into replacement packs
     needs |-> <<>>,    \* the packs to rewrite, with what each needs replaced
     dead |-> {},       \* the packs nothing live is in
     optional |-> <<>>, \* the packs to rewrite only if it pays, with the keys they add
     redundant |-> {},  \* the packs other packs stand in for
     large |-> {},      \* the large legacy blobs to turn into chunk graphs
     due |-> {},        \* the replacement packs to publish
     renamed |-> {},    \* the one it is to synchronize the directory of
     fresh |-> {},      \* the replacement packs published
     todo |-> {}]       \* the files to remove

Collecting == lock = "collector"
-----------------------------------------------------------------------------
(* The mark: what is read as a chunk graph makes the pieces live.          *)

LiveKeys(trees, at) == Rooted(trees) \cup UNION {Pieces[k] : k \in DOMAIN at}

(* The file a read takes a chunk graph from: the loose record, else a pack.*)
GraphFiles(fs, k) ==
    IF Loose(k) \in fs THEN {Loose(k)} ELSE {f \in fs : Chunked(k) \in f.recs}

GraphsRead(fs, trees) ==
    LET ks == AsGraph(fs, Rooted(trees))
    IN  {at \in [ks -> fs] : \A k \in ks : at[k] \in GraphFiles(fs, k)}

AllReadable(fs, trees) == \A k \in Rooted(trees) : Readable(fs, k)

LiveIn(f) == KeysIn(f) \cap gc.live

Expired(f) == f \in gc.expired
-----------------------------------------------------------------------------
(* What to rewrite: packs with dead records, objects still loose, and      *)
(* objects several packs hold.                                             *)

DeadPacks == {p \in Packs(gc.inv) : LiveIn(p) = {} /\ Expired(p)}

PartlyDeadPacks ==
    {p \in Packs(gc.inv) : Expired(p) /\ LiveIn(p) # {} /\ LiveIn(p) # KeysIn(p)}

(* Worth rewriting: half of the records dead, or half of the bytes, or a   *)
(* delta among the live ones, which the count of records does not tell.    *)
WornPacks ==
    {ps \in SUBSET PartlyDeadPacks :
        \A p \in PartlyDeadPacks \ ps : 2 * Cardinality(LiveIn(p)) > Cardinality(KeysIn(p))}

LooseKeys == {k \in gc.live : \E f \in Objects(gc.inv) : k \in KeysIn(f)}

Shared ==
    {k \in gc.live :
        \E p, q \in Packs(gc.inv) : p # q /\ k \in KeysIn(p) \cap KeysIn(q)}

(* One owner for each object several packs hold: the pack the mark read it *)
(* from, else any.                                                         *)
Owners ==
    {own \in [Shared -> Packs(gc.inv)] :
        \A k \in Shared :
            /\ k \in KeysIn(own[k])
            /\ k \in DOMAIN gc.at /\ gc.at[k].at = "pack" => own[k] = gc.at[k]}

NotOwned(own, p) == {k \in Shared \cap KeysIn(p) : own[k] # p}

(* Packs with nothing of their own, unless they are rewritten anyway.      *)
RedundantPacks(own, rewritten) ==
    {p \in Packs(gc.inv) \ rewritten :
        NotOwned(own, p) # {} /\ NotOwned(own, p) = LiveIn(p)}

MixedPacks(own) ==
    {p \in Packs(gc.inv) : NotOwned(own, p) \notin {{}, LiveIn(p)}}

(* More packs, whose contents may serve newer revisions as delta bases.    *)
CrossGeneration ==
    {ps \in SUBSET {p \in Packs(gc.inv) : LiveIn(p) \cap Contents # {}} :
        Cardinality(ps) <= MaxBases}

(* What each rewritten pack needs replaced before it may go.               *)
Needs(own, whole) ==
    [p \in whole \cup MixedPacks(own) |->
        IF p \in whole THEN LiveIn(p) ELSE LiveIn(p) \ NotOwned(own, p)]

(* What a pack adds that is not rewritten anyway.                          *)
Adds(p, worn) == LiveIn(p) \ (LooseKeys \cup UNION {LiveIn(q) : q \in worn})

(* Within the budgets: all but a few of the wanted keys, and the packs     *)
(* whose needs were all admitted.                                          *)
Admitted(wanted) ==
    {ks \in SUBSET wanted : Cardinality(wanted \ ks) <= MaxDeferred}

Affordable(needs, ks) ==
    [p \in {q \in DOMAIN needs : needs[q] \subseteq ks} |-> needs[p]]
-----------------------------------------------------------------------------
(* The steps of a collection.                                              *)

GcBegin ==
    /\ gc = NoGc
    /\ lock = "free"
    /\ lock' = "collector"
    /\ gc' = [NoGc EXCEPT !.pc = "begun", !.roots = roots, !.expired = old]
    /\ UNCHANGED <<files, unsynced, abandoned, old, roots, hint>>

(* authenticateRoots: a root that cannot be read ends the collection.      *)
GcMark ==
    /\ gc.pc = "begun"
    /\ AllReadable(files, gc.roots)
    /\ \E at \in GraphsRead(files, gc.roots) :
          gc' = [gc EXCEPT !.pc = "marked", !.at = at, !.live = LiveKeys(gc.roots, at)]
    /\ UNCHANGED storeVars

(* strictInventories.                                                      *)
GcList ==
    /\ gc.pc = "marked"
    /\ gc' = [gc EXCEPT !.pc = "listed", !.inv = files]
    /\ UNCHANGED storeVars

GcSelect ==
    /\ gc.pc = "listed"
    /\ \E own \in Owners, worn \in WornPacks, more \in CrossGeneration :
         LET whole == worn \cup more
             needs == Needs(own, whole)
         IN  \E ks \in Admitted(LooseKeys \cup UNION {needs[p] : p \in DOMAIN needs}) :
               gc' = [gc EXCEPT
                       !.pc = "selected",
                       !.keys = ks,
                       !.needs = Affordable(needs, ks),
                       !.dead = DeadPacks,
                       !.optional = [p \in more \ (worn \cup MixedPacks(own)) |-> Adds(p, worn)],
                       !.redundant = RedundantPacks(own, {p \in whole : needs[p] \subseteq ks}),
                       !.large = {k \in ks \cap Large : Legacy(k) \in gc.inv}]
    /\ UNCHANGED storeVars

NothingToDo ==
    /\ gc.keys = {} /\ DOMAIN gc.needs = {}
    /\ gc.dead = {} /\ gc.redundant = {}
    /\ \A f \in gc.inv \ Packs(gc.inv) : ~ Expired(f)

(* The lookup index is written for the packs of an inventory.              *)
Indexed(packs) == hint' = packs

(* The lookup index is brought up to date and the collection ends.         *)
GcEndsEarly ==
    /\ gc.pc = "selected"
    /\ NothingToDo
    /\ roots = gc.roots
    /\ Collecting
    /\ Indexed(Packs(gc.inv))
    /\ gc' = NoGc
    /\ lock' = "free"
    /\ UNCHANGED <<files, unsynced, abandoned, old, roots>>

(* A large legacy blob becomes a loose chunk graph, its pieces first; each *)
(* record is synchronized, be it written or there already.                 *)
LoosePieces(k) == {Loose(piece) : piece \in Pieces[k]}

GcMaterializePieces ==
    /\ gc.pc = "selected"
    /\ Collecting
    /\ \E k \in gc.large :
          /\ Loose(k) \notin files
          /\ files' = files \cup LoosePieces(k)
          /\ Synchronized(LoosePieces(k))
    /\ files' # files
    /\ UNCHANGED <<gcVars, old, roots, hint, lock>>

GcMaterializeRoot ==
    /\ gc.pc = "selected"
    /\ Collecting
    /\ \E k \in gc.large :
          /\ LoosePieces(k) \subseteq files
          /\ files' = files \cup {Loose(k)}
          /\ Synchronized(IF Loose(k) \in files THEN {} ELSE LoosePieces(k))
          /\ gc' = [gc EXCEPT
                     !.large = @ \ {k},
                     !.at = [j \in DOMAIN @ \cup {k} |-> IF j = k THEN Loose(k) ELSE @[j]],
                     !.live = @ \cup Pieces[k],
                     !.keys = @ \cup Pieces[k],
                     !.inv = Objects(files') \cup (@ \ Objects(@))]
    /\ UNCHANGED <<old, roots, hint, lock>>

(* One that would pass the limits of this collection stays as it is.       *)
GcSkipLarge ==
    /\ gc.pc = "selected"
    /\ \E k \in gc.large :
          gc' = [gc EXCEPT !.large = @ \ {k}, !.keys = @ \ {k}]
    /\ UNCHANGED storeVars

ReplacementPacks(ks) ==
    {Pack({RecordOf(k) : k \in class}) :
        class \in {ks \cap Trees, ks \cap Contents} \ {{}}}

(* What to replace, and the packs that may go for it.                      *)
Selection(ks, needs) == [keys |-> ks, needs |-> needs]

Selected == Selection(gc.keys, gc.needs)

(* An optional rewriting that does not pay is taken back.                  *)
Pruned(ks, failed) ==
    LET needs == Affordable(gc.needs, ks)
        kept == [p \in DOMAIN needs \ failed |-> needs[p]]
        required == UNION {kept[p] : p \in DOMAIN kept}
        added == UNION {gc.optional[p] : p \in failed}
    IN  Selection(ks \ (added \ required), kept)

(* Clean packs of a class, merged into fewer ones.                         *)
Clean(sel) ==
    {p \in Packs(gc.inv) \ (gc.dead \cup gc.redundant \cup DOMAIN sel.needs) :
        Expired(p) /\ LiveIn(p) = KeysIn(p) /\ KeysIn(p) \cap sel.keys = {}}

Together(ps) == UNION {KeysIn(p) : p \in ps}

(* One group of each class, or none.                                       *)
SizeTierGroups(sel) ==
    {ps \in SUBSET Clean(sel) :
        \A class \in {Trees, Contents} :
            Cardinality({p \in ps : KeysIn(p) \subseteq class}) \in {0, FanIn}}

Merged(sel, ps) ==
    Selection(
        sel.keys \cup Together(ps),
        [p \in DOMAIN sel.needs \cup ps |-> IF p \in ps THEN KeysIn(p) ELSE sel.needs[p]])

(* The budgets again, then the packs to publish: all of them, or none when *)
(* the store has no room for them beside what they replace.                *)
Plans ==
    LET pruned == {Pruned(ks, failed) :
                     ks \in Admitted(gc.keys), failed \in SUBSET DOMAIN gc.optional}
    IN  {Selection({}, <<>>)}
          \cup UNION {{Merged(sel, ps) : ps \in SizeTierGroups(sel)} : sel \in pruned}

GcPlanPacks ==
    /\ gc.pc = "selected"
    /\ NothingToDo => SizeTierGroups(Selected) # {{}}
    /\ gc.large = {}
    /\ \E sel \in Plans :
          /\ sel.keys \cap Large \subseteq DOMAIN gc.at
          /\ gc' = [gc EXCEPT
                     !.pc = "publishing",
                     !.keys = sel.keys,
                     !.needs = sel.needs,
                     !.due = ReplacementPacks(sel.keys)]
    /\ UNCHANGED storeVars

GcPublishUnsynced ==
    /\ gc.pc = "publishing"
    /\ Collecting
    /\ \E p \in gc.due \ files :
          /\ files' = files \cup {p}
          /\ unsynced' = unsynced \cup {p}
          /\ gc' = [gc EXCEPT !.due = @ \ {p}, !.fresh = @ \cup {p}]
    /\ UNCHANGED <<abandoned, old, roots, hint, lock>>

(* A pack becomes visible by one rename, its directories are synchronized  *)
(* after it.  A pack that exists is opened and synchronized again.         *)
GcPublishPack ==
    /\ gc.pc = "publishing"
    /\ Collecting
    /\ \E p \in gc.due \ files :
          /\ files' = files \cup {p}
          /\ unsynced' = unsynced \cup {p}
          /\ gc' = [gc EXCEPT !.pc = "synchronizing", !.renamed = {p}]
    /\ UNCHANGED <<abandoned, old, roots, hint, lock>>

GcSyncPack ==
    /\ gc.pc \in {"publishing", "synchronizing"}
    /\ Collecting
    /\ \E p \in gc.due \cap files :
          /\ gc.pc = "synchronizing" => p \in gc.renamed
          /\ Synchronized({p})
          /\ gc' = [gc EXCEPT
                     !.pc = "publishing", !.renamed = {},
                     !.due = @ \ {p}, !.fresh = @ \cup {p}]
    /\ UNCHANGED <<files, old, roots, hint, lock>>

(* If packs were added they are listed again; every replacement must be    *)
(* among them.                                                             *)
GcListPacks ==
    /\ gc.pc = "publishing"
    /\ gc.due = {}
    /\ Collecting
    /\ LET inv == IF gc.fresh \subseteq gc.inv THEN gc.inv
                  ELSE Objects(gc.inv) \cup (files \ Objects(files))
       IN  /\ gc.fresh \subseteq inv
           /\ gc' = [gc EXCEPT !.pc = "published", !.inv = inv]
           /\ Indexed(Packs(inv))
    /\ UNCHANGED <<files, unsynced, abandoned, old, roots, lock>>
-----------------------------------------------------------------------------
(* The sweep.                                                              *)

(* The second mark, with the chunk graphs this collection made.            *)
MarkedAgain(at) ==
    [gc EXCEPT
      !.at = [k \in DOMAIN at \cup DOMAIN @ |-> IF k \in DOMAIN at THEN at[k] ELSE @[k]],
      !.live = LiveKeys(gc.roots, at) \cup UNION {Pieces[k] : k \in DOMAIN gc.at}]

RemovableObjects(live) ==
    {f \in Objects(gc.inv) :
        IF KeysIn(f) \cap live = {} THEN Expired(f) ELSE KeysIn(f) \subseteq gc.keys}

RemovablePacks(live) ==
    {p \in Packs(gc.inv) \ gc.fresh :
        \/ p \in gc.dead /\ KeysIn(p) \cap live = {}
        \/ p \in DOMAIN gc.needs
        \/ p \in gc.redundant /\ Expired(p)}

RemovableIncoming == {f \in gc.inv : f.at = "incoming" /\ Expired(f)}

(* planSweep: other roots end the collection.                              *)
GcPlanSweep ==
    /\ gc.pc = "published"
    /\ roots = gc.roots
    /\ AllReadable(files, gc.roots)
    /\ \E at \in GraphsRead(files, gc.roots) :
         LET m == MarkedAgain(at)
         IN  gc' = [m EXCEPT
                     !.pc = "planned",
                     !.todo = RemovableObjects(m.live) \cup RemovablePacks(m.live)
                                \cup RemovableIncoming]
    /\ UNCHANGED storeVars

(* A file that stays and stands for a live object: a chunk graph only when *)
(* it is the one the mark read, or in a replacement.                       *)
Covers(f, k) ==
    \/ Whole(k) \in f.recs
    \/ /\ Chunked(k) \in f.recs /\ k \in DOMAIN gc.at
       /\ f \in gc.fresh \/ f = gc.at[k]

RetainedCoverage ==
    \A k \in gc.live : \E f \in (gc.inv \ gc.todo) \cap files : Covers(f, k)

(* authorizeSweep: every live object stays covered, the files are those of *)
(* the plan, the roots are still the same and the lock is still held.      *)
GcAuthorize ==
    /\ gc.pc = "planned"
    /\ RetainedCoverage
    /\ gc.todo \subseteq files
    /\ gc.todo # {} => roots = gc.roots /\ Collecting
    /\ gc' = [gc EXCEPT !.pc = "sweeping"]
    /\ UNCHANGED storeVars

(* Loose objects first, then packs, then what publications left behind.    *)
SweepRank(f) ==
    CASE f.at \in {"legacy", "loose"} -> 1
      [] f.at = "pack" -> 2
      [] f.at = "incoming" -> 3

(* The very file is unlinked, only while the lock is held, and its         *)
(* directory synchronized.                                                 *)
Unlink(f) ==
    /\ f \in files
    /\ Collecting
    /\ files' = files \ {f}
    /\ Synchronized({f})
    /\ old' = old \ {f}
    /\ UNCHANGED <<roots, hint, lock>>

GcRemove(f) ==
    /\ gc.pc = "sweeping"
    /\ f \in gc.todo
    /\ \A g \in gc.todo : SweepRank(f) <= SweepRank(g)
    /\ Unlink(f)
    /\ gc' = [gc EXCEPT !.todo = @ \ {f}]

GcFinish ==
    /\ gc.pc = "sweeping"
    /\ gc.todo = {}
    /\ Collecting
    /\ Indexed(Packs(files))
    /\ gc' = NoGc
    /\ lock' = "free"
    /\ UNCHANGED <<files, unsynced, abandoned, old, roots>>

(* The loose record a materialization may leave renamed, not synchronized. *)
Unfinished ==
    {f \in UNION {LoosePieces(k) \cup {Loose(k)} : k \in gc.large} \ files :
        \A k \in gc.large : f = Loose(k) => LoosePieces(k) \subseteq files}

(* collectGarbage ends early: it was cancelled, a fence or a limit held it *)
(* up, a call failed, or the process ended.  What it published stays,      *)
(* synchronized or not, what it removed is gone, and a publication that    *)
(* had not reached its rename may leave its temporary file.                *)
GcStops ==
    /\ gc.pc # "idle"
    /\ gc' = NoGc
    /\ lock' = IF Collecting THEN "free" ELSE lock
    /\ \/ UNCHANGED <<files, unsynced>>
       \/ /\ gc.pc = "publishing" /\ gc.due # {} /\ Collecting
          /\ files' = files \cup {Temporary} /\ UNCHANGED unsynced
       \/ /\ gc.pc = "selected" /\ Collecting
          /\ \E f \in Unfinished : files' = files \cup {f} /\ unsynced' = unsynced \cup {f}
    /\ abandoned' = IF Collecting THEN abandoned \cup unsynced' ELSE abandoned
    /\ UNCHANGED <<old, roots, hint>>

GcNext ==
    \/ GcBegin \/ GcMark \/ GcList \/ GcSelect \/ GcEndsEarly
    \/ GcMaterializePieces \/ GcMaterializeRoot \/ GcSkipLarge
    \/ GcPlanPacks \/ GcPublishPack \/ GcSyncPack \/ GcListPacks
    \/ GcPlanSweep \/ GcAuthorize \/ GcFinish
    \/ \E f \in AllFiles : GcRemove(f)
=============================================================================
