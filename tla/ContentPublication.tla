-------------------------- MODULE ContentPublication --------------------------
(***************************************************************************)
(* A capture, from the moment it takes the workspace lock until its tree   *)
(* is committed: contents are reused when they can be read, else packed;   *)
(* then the tree; then everything it relies on is looked at once more.     *)
(* (src/src/infrastructure/content-store/publication.ts and the            *)
(* publishing half of pack-catalog.ts).                                    *)
(*                                                                         *)
(* The contents are published side by side; that is one step, since        *)
(* nothing of them is visible before a batch is flushed.                   *)
(***************************************************************************)
EXTENDS ContentFiles

VARIABLES wr  \* the capture under way

wrVars == <<wr>>

WrSteps == {"idle", "publishing", "synchronizing", "flushed"}

NoWriter ==
    [pc |-> "idle",
     tree |-> {},      \* the tree it captures
     reused |-> {},    \* the files whose records it reuses
     data |-> {},      \* the content packs to publish
     metadata |-> {},  \* the tree packs to publish
     renamed |-> {},   \* the pack it is to synchronize the directory of
     packed |-> {}]    \* the packs it has published

Publishing == lock = "writer"

Due == IF wr.data # {} THEN wr.data ELSE wr.metadata
-----------------------------------------------------------------------------
(* A content is reused when it can be read, and so are the pieces of one   *)
(* that cannot; what is left is packed.                                    *)
Unreadable(cs) == {c \in cs : ~ Readable(files, c)}

Wanted(cs) == cs \cup UNION {Pieces[c] : c \in Unreadable(cs)}

Reused(cs) == Wanted(cs) \ Unreadable(Wanted(cs))

(* The keys whose records the reading of a reused content goes through.    *)
Traversed(cs) == Reused(cs) \cup UNION {Pieces[c] : c \in AsGraph(files, Reused(cs))}

(* The files one may be read from, in the order a read looks for them.     *)
Sources(k) ==
    IF \E f \in Objects(files) : k \in KeysIn(f)
    THEN {IF Legacy(k) \in files THEN Legacy(k) ELSE Loose(k)}
    ELSE {f \in Packs(files) : k \in KeysIn(f)}

(* Records are packed in batches: all in one, or a batch for each.         *)
Batches(ks) ==
    IF ks = {} THEN {{}}
    ELSE {{Pack({RecordOf(k) : k \in ks})}, {Pack({RecordOf(k)}) : k \in ks}}
-----------------------------------------------------------------------------
(* The lock is taken, the contents are looked for and the rest is encoded. *)
WrBegin(r) ==
    /\ wr = NoWriter
    /\ lock = "free"
    /\ lock' = "writer"
    /\ \E via \in [Traversed(Closure[r]) -> files],
          data \in Batches(Unreadable(Wanted(Closure[r]))) :
          /\ \A k \in DOMAIN via : via[k] \in Sources(k)
          /\ wr' = [NoWriter EXCEPT
                     !.pc = "publishing",
                     !.tree = {r},
                     !.reused = {via[k] : k \in DOMAIN via},
                     !.data = data,
                     !.metadata = IF Readable(files, r) THEN {} ELSE {Pack({Whole(r)})}]
    /\ UNCHANGED <<files, unsynced, abandoned, old, roots, hint>>

WrPublishUnsynced ==
    /\ wr.pc = "publishing"
    /\ Publishing
    /\ \E p \in Due \ files :
          /\ files' = files \cup {p}
          /\ unsynced' = unsynced \cup {p}
          /\ wr' = [wr EXCEPT
                     !.data = @ \ {p}, !.metadata = @ \ {p}, !.packed = @ \cup {p}]
    /\ UNCHANGED <<abandoned, old, roots, hint, lock>>

(* A pack becomes visible by one rename.                                   *)
WrPublishPack ==
    /\ wr.pc = "publishing"
    /\ Publishing
    /\ \E p \in Due \ files :
          /\ files' = files \cup {p}
          /\ unsynced' = unsynced \cup {p}
          /\ wr' = [wr EXCEPT !.pc = "synchronizing", !.renamed = {p}]
    /\ UNCHANGED <<abandoned, old, roots, hint, lock>>

(* Its directory is synchronized, and so is that of a pack that was there  *)
(* before; only then the next one, content packs before tree packs.        *)
WrSyncPack ==
    /\ wr.pc \in {"publishing", "synchronizing"}
    /\ Publishing
    /\ \E p \in Due \cap files :
          /\ wr.pc = "synchronizing" => p \in wr.renamed
          /\ Synchronized({p})
          /\ wr' = [wr EXCEPT
                     !.pc = "publishing",
                     !.renamed = {},
                     !.data = @ \ {p},
                     !.metadata = @ \ {p},
                     !.packed = @ \cup {p}]
    /\ UNCHANGED <<files, old, roots, hint, lock>>

(* Every file the capture relies on is still the one it read or wrote.     *)
WrRevalidate ==
    /\ wr.pc = "publishing"
    /\ Due = {}
    /\ wr.reused \cup wr.packed \subseteq files
    /\ wr' = [wr EXCEPT !.pc = "flushed"]
    /\ UNCHANGED storeVars

(* The checkpoint is committed and the lock released.                      *)
WrCommit ==
    /\ wr.pc = "flushed"
    /\ Publishing
    /\ roots' = roots \cup wr.tree
    /\ lock' = "free"
    /\ wr' = NoWriter
    /\ UNCHANGED <<files, unsynced, abandoned, old, hint>>

(* A failure, a cancellation or the end of the process.  What it published *)
(* stays, synchronized or not, and the next holder of the lock may begin   *)
(* at once; a publication that had not reached its rename may leave its    *)
(* temporary file.                                                         *)
WrStops ==
    /\ wr.pc # "idle"
    /\ wr' = NoWriter
    /\ lock' = IF Publishing THEN "free" ELSE lock
    /\ \/ UNCHANGED files
       \/ wr.pc = "publishing" /\ Due # {} /\ Publishing /\ files' = files \cup {Temporary}
    /\ abandoned' = IF Publishing THEN abandoned \cup unsynced ELSE abandoned
    /\ UNCHANGED <<unsynced, old, roots, hint>>

(* Slots are cleared, projects reset: nothing refers to the tree any more. *)
WrForget(r) ==
    /\ lock = "free"
    /\ r \in roots
    /\ roots' = roots \ {r}
    /\ UNCHANGED <<wrVars, files, unsynced, abandoned, old, hint, lock>>

WrNext ==
    \/ WrPublishPack \/ WrSyncPack \/ WrRevalidate \/ WrCommit
=============================================================================
