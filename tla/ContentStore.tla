----------------------------- MODULE ContentStore -----------------------------
(***************************************************************************)
(* A content store with a collection, a capture and a read under way, a    *)
(* clock, power losses, a lock file somebody else may replace, and the     *)
(* handles through which the readings of a scope have the packs.           *)
(***************************************************************************)
EXTENDS ObjectGc, ContentPublication, ContentReading, PackHandles

CONSTANTS
    Stores   \* the initial stores, with the bounds of what happens to them

Bounds ==
    [collections : Nat, captures : Nat, scopes : Nat, failures : Nat, thefts : Nat,
     losses : Nat, ages : Nat, trees : SUBSET Trees, reads : SUBSET Keys, asks : Nat,
     packs : SUBSET AllPacks]

(* A store at the beginning is whole.                                      *)
ASSUME StoresAssumption ==
    \A store \in Stores :
        /\ store.files \subseteq AllFiles /\ store.old \subseteq store.files
        /\ store.roots \subseteq Trees /\ store.hint \subseteq AllPacks
        /\ \A k \in Rooted(store.roots) : Readable(store.files, k)
        /\ store.bounds \in Bounds

VARIABLES
    left     \* how often each of it may still happen, and which trees are captured or
             \* forgotten and objects read

vars == <<storeVars, gcVars, wrVars, rdVars, poolVars, left>>

Init ==
    \E store \in Stores :
        /\ files = store.files
        /\ unsynced = {}
        /\ abandoned = {}
        /\ old = store.old
        /\ roots = store.roots
        /\ hint = store.hint
        /\ lock = "free"
        /\ gc = NoGc
        /\ wr = NoWriter
        /\ rd = NoScope
        /\ pool = NoPool
        /\ left = store.bounds

Spend(what) == left[what] > 0 /\ left' = [left EXCEPT ![what] = @ - 1]

Quiet == gc = NoGc /\ wr = NoWriter

(* The grace period of every file passes.                                  *)
Age ==
    /\ Quiet
    /\ old # files
    /\ old' = files
    /\ Spend("ages")
    /\ UNCHANGED <<files, unsynced, abandoned, roots, hint, lock, gcVars, wrVars, poolVars>>
    /\ rd' = Noted

(* The operating system writes back what is not synchronized; nobody has   *)
(* to wait for it.                                                         *)
Writeback ==
    /\ unsynced # {}
    /\ unsynced' = {}
    /\ abandoned' = abandoned \ files
    /\ UNCHANGED <<files, old, roots, hint, lock, gcVars, wrVars, poolVars, left>>
    /\ rd' = Noted

(* The lock file is removed by somebody else; whoever had the lock will    *)
(* not synchronize any more.                                               *)
Stolen ==
    /\ lock # "free"
    /\ lock' = "free"
    /\ abandoned' = abandoned \cup unsynced
    /\ Spend("thefts")
    /\ UNCHANGED <<files, unsynced, old, roots, hint, gcVars, wrVars, poolVars>>
    /\ rd' = Noted

(* Any of what was not synchronized is gone, and so is whoever was at work.*)
PowerLoss ==
    /\ Spend("losses")
    /\ \E lost \in SUBSET unsynced : files' = files \ lost /\ old' = old \ lost
    /\ unsynced' = {}
    /\ abandoned' = abandoned \ files'
    /\ hint' \in {hint, {}}
    /\ lock' = "free"
    /\ gc' = NoGc
    /\ wr' = NoWriter
    /\ rd' = NoScope
    /\ pool' = NoPool
    /\ UNCHANGED roots

Collection ==
    /\ GcNext
    /\ IF gc = NoGc THEN Spend("collections") ELSE UNCHANGED left
    /\ UNCHANGED <<wrVars, poolVars>>
    /\ rd' = Noted

Capture ==
    /\ WrNext \/ \E r \in left.trees : WrBegin(r) \/ WrForget(r)
    /\ IF wr = NoWriter THEN Spend("captures") ELSE UNCHANGED left
    /\ UNCHANGED <<gcVars, poolVars>>
    /\ rd' = Noted

Failure ==
    /\ \/ GcStops /\ UNCHANGED wrVars
       \/ WrStops /\ UNCHANGED gcVars
    /\ UNCHANGED poolVars
    /\ Spend("failures")
    /\ rd' = Noted

Reading ==
    /\ RdNext \/ \E k \in left.reads : RdStart(k)
    /\ IF rd = NoScope THEN Spend("scopes") ELSE UNCHANGED left
    /\ UNCHANGED <<storeVars, gcVars, wrVars, poolVars>>

(* The readings of a scope, one pack each at a time; the scope is closed   *)
(* at any moment.                                                          *)
Sharing ==
    /\ \/ \E r \in Readers, p \in left.packs : Asks(r, p) /\ Spend("asks")
       \/ PoolFailure /\ Spend("failures")
       \/ pool # NoPool /\ PoolCloses /\ UNCHANGED left
       \/ PoolWork /\ UNCHANGED left
    /\ UNCHANGED <<storeVars, gcVars, wrVars, rdVars>>

Next ==
    \/ Collection \/ Capture \/ Failure \/ Reading \/ Sharing
    \/ Age \/ Writeback \/ Stolen \/ PowerLoss

Spec == Init /\ [][Next]_vars
-----------------------------------------------------------------------------
TypeOK ==
    /\ files \subseteq AllFiles
    /\ unsynced \subseteq files /\ old \subseteq files /\ abandoned \subseteq AllFiles
    /\ roots \subseteq Trees /\ hint \subseteq AllPacks
    /\ lock \in {"free", "collector", "writer"}
    /\ gc.pc \in GcSteps /\ gc.live \subseteq Keys /\ gc.todo \subseteq AllFiles
    /\ wr.pc \in WrSteps /\ wr.data \cup wr.metadata \subseteq AllPacks
    /\ rd.pc \in RdSteps /\ rd.frame.stage \in Stages \cup {"none"}
    /\ rd.outcome \in Outcomes
    /\ pool.permits \in 0 .. MaxHandles
    /\ ToSet(pool.waiters) \subseteq Readers /\ ToSet(pool.table) \subseteq Reservations
    /\ \A r \in Readers :
          /\ pool.reader[r].at \in ReaderSteps
          /\ pool.reader[r].entry \in Reservations \cup {0}

(* Everything the committed checkpoints refer to can be read, even after   *)
(* the power is lost at this very moment, from what was synchronized and   *)
(* from what a writer left renamed but not synchronized when it ended:     *)
(* the loss of the latter, in files or not any more, is all that a loss of *)
(* power can cost.  Without one nothing is ever lost: at no step of a      *)
(* capture, of a compaction or of a sweep, wherever it ends, and whoever   *)
(* goes on from what it left.                                              *)
LiveSurvives == \A k \in Rooted(roots) : Readable(Lasting \cup abandoned, k)

(* A collection that still has its lock may carry out all the removals it  *)
(* is about to, or any part of them: none is needed to make another safe,  *)
(* and none relies on a replacement that is not synchronized.              *)
SweepNeverUndercuts ==
    gc.pc = "sweeping" /\ Collecting =>
        \A k \in Rooted(roots) : Readable(Lasting \ gc.todo, k)

(* "Make all accepted records durable before publishing snapshot metadata" *)
(* (publication.ts, flush): what a capture is about to commit would        *)
(* survive a loss of power.                                                *)
FlushIsDurable ==
    wr.pc = "flushed" /\ Publishing =>
        \A k \in Rooted(wr.tree) : Readable(files \ unsynced, k)

(* A read never concludes that an object is missing which was there when   *)
(* it began and to which a checkpoint referred all along, however          *)
(* collections moved it meanwhile; and it fails on one only when the store *)
(* changed under its scope.                                                *)
ReadsAreRight ==
    rd.pc = "open" /\ rd.steady =>
        /\ rd.outcome # "missing"
        /\ rd.outcome = "failed" => rd.disturbed

(* The pool keeps its bound on open handles however readings share, fail   *)
(* and invalidate; with a permit there is always room to be made; a handle *)
(* is not closed under a reading; and a closed scope has none open.        *)
HandlesAreBounded ==
    LET open == {n \in Reservations : pool.entry[n].is \in {"opening", "open"}}
    IN  /\ Cardinality(open) <= MaxHandles
        /\ \A r \in Readers :
              /\ ~ Doing(r, "violated")
              /\ Doing(r, "leased") => Entry(r).is = "open"
        /\ pool.phase = "closed" => open = {} /\ Active = {}

(* Nobody waits for a permit, a retirement or the end of all leases that   *)
(* nothing will bring about.                                               *)
NobodyIsStranded ==
    \/ \A r \in Readers : Doing(r, "idle")
       /\ pool.phase \in {"open", "closed"}
    \/ ENABLED PoolWork
=============================================================================
