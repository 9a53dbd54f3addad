-------------------------- MODULE ContentStoreProofs --------------------------
(***************************************************************************)
(* Theorems about ContentStore, for any stores, trees and contents: at no  *)
(* moment of a capture or a collection, and wherever they break off, can   *)
(* something be lost that a committed checkpoint refers to, but for what a *)
(* loss of power takes of the files whose writer ended before it had       *)
(* synchronized them; a pool of handles of any size, shared by any number  *)
(* of readings, keeps its bound; and no read takes for missing what is     *)
(* only being moved.                                                       *)
(***************************************************************************)
EXTENDS ContentStore, TLAPS, FiniteSetTheorems, WellFoundedInduction

(* What a loss of power leaves, and what it may have taken of what a       *)
(* writer left renamed but not synchronized.                               *)
Durable == Lasting \cup abandoned

(* The pack whoever has the lock has made visible and is to synchronize.   *)
InFlight ==
    IF Collecting /\ gc.pc = "synchronizing" THEN gc.renamed
    ELSE IF Publishing /\ wr.pc = "synchronizing" THEN wr.renamed ELSE {}

SyncOK == unsynced \subseteq abandoned \cup InFlight

FilesOK ==
    /\ files \subseteq AllFiles /\ unsynced \subseteq files
    /\ roots \subseteq Trees

LeftOK == "trees" \in DOMAIN left /\ left.trees \subseteq Trees

(* What a collection has marked covers the roots it started from and the   *)
(* pieces of every graph it knows; while it has the lock they are the      *)
(* roots there are.                                                        *)
CollectionOK ==
    /\ DOMAIN gc = DOMAIN NoGc
    /\ DOMAIN gc.at \subseteq Large /\ gc.large \subseteq Large /\ gc.due \subseteq AllPacks
    /\ gc.pc \in {"planned", "sweeping"} =>
          /\ Rooted(gc.roots) \subseteq gc.live
          /\ \A k \in DOMAIN gc.at : Pieces[k] \subseteq gc.live
    /\ Collecting => roots = gc.roots
    /\ gc.pc = "synchronizing" => \E p : gc.renamed = {p}

(* A capture that has the lock has, or is still to publish, all that its   *)
(* tree refers to; once it is flushed there is nothing left to publish.    *)
CaptureOK ==
    /\ DOMAIN wr = DOMAIN NoWriter
    /\ wr.tree \subseteq Trees /\ wr.data \cup wr.metadata \subseteq AllPacks
    /\ wr.pc = "synchronizing" => \E p : wr.renamed = {p}
    /\ wr.pc = "flushed" => wr.data = {} /\ wr.metadata = {}
    /\ wr.pc # "idle" /\ Publishing =>
          \A k \in Rooted(wr.tree) : Readable(Durable \cup wr.data \cup wr.metadata, k)

(* Nothing is left unsynchronized but the pack just made visible, and what *)
(* a writer left that ended before: so whoever has the lock, or takes it,  *)
(* can count on everything there is but for a loss of that.                *)
StoreInv ==
    FilesOK /\ SyncOK /\ CollectionOK /\ CaptureOK /\ LiveSurvives /\ SweepNeverUndercuts
-----------------------------------------------------------------------------
LEMMA ReadableMore ==
  ASSUME NEW fs, NEW gs, fs \subseteq gs, NEW k, Readable(fs, k)
  PROVE  Readable(gs, k)
BY DEF Readable, Holds

LEMMA RecordsDiffer ==
  ASSUME NEW j, NEW k
  PROVE  Chunked(j) # Whole(k) /\ (Chunked(j) = Chunked(k) => j = k)
                               /\ (Whole(j) = Whole(k) => j = k)
<1>1. Chunked(j).key = j /\ Chunked(j).form = "chunked" BY DEF Chunked
<1>2. Chunked(k).key = k BY DEF Chunked
<1>3. Whole(j).key = j BY DEF Whole
<1>4. Whole(k).key = k /\ Whole(k).form = "whole" BY DEF Whole
<1> QED BY <1>1, <1>2, <1>3, <1>4

(* Only what is large is stored as a chunk graph, and its pieces are not.  *)
LEMMA GraphsAreLarge ==
  ASSUME NEW f \in AllFiles, NEW k, Chunked(k) \in f.recs
  PROVE  k \in Large
<1>1. CASE \E c \in Contents : f = Legacy(c)
  BY <1>1, RecordsDiffer DEF Legacy
<1>2. CASE \E j \in Keys : f = Loose(j)
  <2>1. PICK j \in Keys : f = Loose(j) BY <1>2
  <2>2. f.recs = {RecordOf(j)} BY <2>1 DEF Loose
  <2> QED BY <2>2, RecordsDiffer DEF RecordOf
<1>3. CASE f \in AllPacks
  <2>1. PICK ks \in ((SUBSET Trees) \cup (SUBSET Contents)) \ {{}} : f = Pack({RecordOf(j) : j \in ks})
    BY <1>3 DEF AllPacks
  <2>2. f.recs = {RecordOf(j) : j \in ks} BY <2>1 DEF Pack
  <2>3. PICK j \in ks : Chunked(k) = RecordOf(j) BY <2>2
  <2> QED BY <2>3, RecordsDiffer DEF RecordOf
<1>4. CASE f = Temporary BY <1>4 DEF Temporary
<1> QED BY <1>1, <1>2, <1>3, <1>4 DEF AllFiles

LEMMA PiecesAreWhole ==
  ASSUME NEW k \in Large, NEW piece \in Pieces[k]
  PROVE  k \in Contents /\ piece \in Contents /\ piece \notin Large
BY StoreAssumption DEF Large

(* What can be read that is not large is there whole.                      *)
LEMMA WholeIsHeld ==
  ASSUME NEW fs, fs \subseteq AllFiles, NEW k, k \notin Large, Readable(fs, k)
  PROVE  Holds(fs, Whole(k))
BY GraphsAreLarge DEF Readable, Holds

LEMMA RootedMore ==
  ASSUME NEW ts, NEW us, ts \subseteq us
  PROVE  Rooted(ts) \subseteq Rooted(us)
BY DEF Rooted

LEMMA PacksAreFiles ==
  /\ AllPacks \subseteq AllFiles
  /\ \A c \in Contents : Legacy(c) \in AllFiles
  /\ \A k \in Keys : Loose(k) \in AllFiles
  /\ Temporary \in AllFiles
BY DEF AllFiles
-----------------------------------------------------------------------------
(* The retained coverage of a plan is enough to read what is live.         *)
LEMMA CoverageIsEnough ==
  ASSUME FilesOK, CollectionOK, RetainedCoverage, gc.pc = "planned", unsynced \subseteq abandoned,
         NEW k \in Rooted(gc.roots)
  PROVE  Readable(Lasting \ gc.todo, k)
<1> DEFINE kept == Lasting \ gc.todo
<1>1. \A j \in gc.live : \E f \in kept : Covers(f, j) BY DEF RetainedCoverage, Lasting
<1>2. k \in gc.live BY DEF CollectionOK
<1>3. PICK f \in kept : Covers(f, k) BY <1>1, <1>2
<1>4. CASE Whole(k) \in f.recs BY <1>3, <1>4 DEF Readable, Holds
<1>5. CASE Chunked(k) \in f.recs /\ k \in DOMAIN gc.at
  <2>1. k \in Large /\ Pieces[k] \subseteq gc.live BY <1>5 DEF CollectionOK
  <2>2. ASSUME NEW piece \in Pieces[k] PROVE Holds(kept, Whole(piece))
    <3>1. PICK g \in kept : Covers(g, piece) BY <1>1, <2>1
    <3>2. piece \notin DOMAIN gc.at BY <2>1, PiecesAreWhole DEF CollectionOK
    <3> QED BY <3>1, <3>2 DEF Covers, Holds
  <2> QED BY <1>3, <1>5, <2>2 DEF Readable, Holds
<1> QED BY <1>3, <1>4, <1>5 DEF Covers

(* A capture packs what cannot be read, pieces included.                   *)
LEMMA CaptureIsComplete ==
  ASSUME FilesOK, unsynced \subseteq abandoned, NEW r \in Trees,
         NEW data \in Batches(Unreadable(Wanted(Closure[r]))), NEW metadata,
         metadata = IF Readable(files, r) THEN {} ELSE {Pack({Whole(r)})}
  PROVE  /\ data \cup metadata \subseteq AllPacks
         /\ \A k \in Rooted({r}) : Readable(Durable \cup data \cup metadata, k)
<1> DEFINE todo == Unreadable(Wanted(Closure[r]))
           all == Durable \cup data \cup metadata
<1>0. files \subseteq all /\ files \subseteq AllFiles BY DEF Durable, Lasting, FilesOK
<1>1. Closure[r] \subseteq Contents BY StoreAssumption
<1>2. Wanted(Closure[r]) \subseteq Contents
  BY <1>1, StoreAssumption DEF Wanted, Unreadable
<1>3. todo \subseteq Contents BY <1>2 DEF Unreadable
<1>4. data \subseteq AllPacks
  <2>1. CASE todo = {} BY <2>1 DEF Batches
  <2>2. CASE todo # {}
    <3>1. CASE data = {Pack({RecordOf(k) : k \in todo})}
      BY <1>3, <2>2, <3>1 DEF AllPacks
    <3>2. CASE data = {Pack({RecordOf(k)}) : k \in todo}
      <4>1. ASSUME NEW k \in todo PROVE Pack({RecordOf(k)}) \in AllPacks
        <5>1. {RecordOf(j) : j \in {k}} = {RecordOf(k)} OBVIOUS
        <5>2. {k} \in ((SUBSET Trees) \cup (SUBSET Contents)) \ {{}} BY <1>3
        <5> QED BY <5>1, <5>2 DEF AllPacks
      <4> QED BY <3>2, <4>1
    <3> QED BY <2>2, <3>1, <3>2 DEF Batches
  <2> QED BY <2>1, <2>2
<1>5. \A k \in todo : Holds(all, RecordOf(k))
  <2> TAKE k \in todo
  <2>1. CASE data = {Pack({RecordOf(j) : j \in todo})}
    <3>1. RecordOf(k) \in Pack({RecordOf(j) : j \in todo}).recs BY DEF Pack
    <3> QED BY <2>1, <3>1 DEF Holds
  <2>2. CASE data = {Pack({RecordOf(j)}) : j \in todo}
    <3>1. RecordOf(k) \in Pack({RecordOf(k)}).recs BY DEF Pack
    <3> QED BY <2>2, <3>1 DEF Holds
  <2> QED BY <2>1, <2>2 DEF Batches
<1>6. Readable(all, r)
  <2>1. CASE Readable(files, r) BY <1>0, <2>1, ReadableMore
  <2>2. CASE ~ Readable(files, r)
    <3>1. Whole(r) \in Pack({Whole(r)}).recs BY DEF Pack
    <3> QED BY <2>2, <3>1 DEF Readable, Holds
  <2> QED BY <2>1, <2>2
<1>7. metadata \subseteq AllPacks
  <2>1. r \notin Large BY StoreAssumption DEF Large
  <2>2. {RecordOf(j) : j \in {r}} = {Whole(r)} BY <2>1 DEF RecordOf
  <2>3. {r} \in ((SUBSET Trees) \cup (SUBSET Contents)) \ {{}} OBVIOUS
  <2>4. Pack({Whole(r)}) \in AllPacks BY <2>2, <2>3 DEF AllPacks
  <2> QED BY <2>4
<1>8. ASSUME NEW k \in Closure[r] PROVE Readable(all, k)
  <2>1. CASE Readable(files, k) BY <1>0, <2>1, ReadableMore
  <2>2. CASE ~ Readable(files, k)
    <3>1. k \in todo /\ k \in Unreadable(Closure[r]) BY <2>2 DEF Unreadable, Wanted
    <3>2. CASE k \notin Large BY <1>5, <3>1, <3>2 DEF RecordOf, Readable
    <3>3. CASE k \in Large
      <4>1. Holds(all, Chunked(k)) BY <1>5, <3>1, <3>3 DEF RecordOf
      <4>2. ASSUME NEW piece \in Pieces[k] PROVE Holds(all, Whole(piece))
        <5>1. piece \notin Large BY <3>3, PiecesAreWhole
        <5>2. piece \in Wanted(Closure[r]) BY <3>1 DEF Wanted
        <5>3. CASE Readable(files, piece)
          BY <1>0, <5>1, <5>3, WholeIsHeld DEF Holds
        <5>4. CASE ~ Readable(files, piece)
          BY <1>5, <5>1, <5>2, <5>4 DEF RecordOf, Unreadable
        <5> QED BY <5>3, <5>4
      <4> QED BY <4>1, <4>2 DEF Readable
    <3> QED BY <3>2, <3>3
  <2> QED BY <2>1, <2>2
<1>9. Rooted({r}) = {r} \cup Closure[r] BY DEF Rooted
<1> QED BY <1>4, <1>6, <1>7, <1>8, <1>9
-----------------------------------------------------------------------------
(* Files are only added, and what is synchronized of them was there, or    *)
(* is.                                                                     *)
LEMMA LastingMore ==
  ASSUME NEW fs, Synchronized(fs), files \subseteq files'
  PROVE  Lasting \subseteq Lasting' /\ (fs \subseteq files' => Durable \subseteq Durable')
BY DEF Lasting, Durable, Synchronized

LEMMA LastingGrows ==
  ASSUME files \subseteq files', abandoned \subseteq abandoned',
         unsynced' \ abandoned' \subseteq (unsynced \ abandoned) \cup (files' \ files)
  PROVE  Lasting \subseteq Lasting' /\ Durable \subseteq Durable'
BY DEF Lasting, Durable

LEMMA LastingSame ==
  ASSUME UNCHANGED <<files, unsynced, abandoned>>
  PROVE  Lasting' = Lasting /\ Durable' = Durable
BY DEF Lasting, Durable

LEMMA SyncSame ==
  ASSUME SyncOK, UNCHANGED <<unsynced, abandoned>>, InFlight \subseteq InFlight'
  PROVE  SyncOK'
BY DEF SyncOK

LEMMA SyncLess ==
  ASSUME SyncOK, NEW fs, Synchronized(fs), InFlight \subseteq InFlight' \cup fs
  PROVE  SyncOK'
BY DEF SyncOK, Synchronized

(* What is durable only grows, and no checkpoint is added.                 *)
LEMMA LiveMore ==
  ASSUME LiveSurvives, Durable \subseteq Durable', roots' \subseteq roots
  PROVE  LiveSurvives'
<1>1. ASSUME NEW k \in Rooted(roots') PROVE Readable(Durable', k)
  <2>1. k \in Rooted(roots) BY RootedMore
  <2>2. Readable(Durable, k) BY <2>1 DEF LiveSurvives, Durable
  <2> QED BY <2>2, ReadableMore
<1> QED BY <1>1 DEF LiveSurvives, Durable

LEMMA SweptMore ==
  ASSUME SweepNeverUndercuts, gc.pc = "sweeping", Collecting,
         Lasting \ gc.todo \subseteq Lasting' \ gc'.todo, roots' \subseteq roots
  PROVE  SweepNeverUndercuts'
<1>1. ASSUME NEW k \in Rooted(roots') PROVE Readable(Lasting' \ gc'.todo, k)
  <2>1. k \in Rooted(roots) BY RootedMore
  <2>2. Readable(Lasting \ gc.todo, k) BY <2>1 DEF SweepNeverUndercuts
  <2> QED BY <2>2, ReadableMore
<1> QED BY <1>1 DEF SweepNeverUndercuts

LEMMA CaptureKept ==
  ASSUME CaptureOK, UNCHANGED <<wr, lock>>, Durable \subseteq Durable'
  PROVE  CaptureOK'
<1>1. ASSUME wr.pc # "idle", Publishing, NEW k \in Rooted(wr.tree)
      PROVE  Readable(Durable' \cup wr.data \cup wr.metadata, k)
  <2>1. Readable(Durable \cup wr.data \cup wr.metadata, k) BY <1>1 DEF CaptureOK
  <2>2. Durable \cup wr.data \cup wr.metadata \subseteq Durable' \cup wr.data \cup wr.metadata
    OBVIOUS
  <2> QED BY <2>1, <2>2, ReadableMore
<1> QED BY <1>1 DEF CaptureOK, Publishing

LEMMA LockIsFree ==
  ASSUME SyncOK, lock = "free"
  PROVE  unsynced \subseteq abandoned
BY DEF SyncOK, InFlight, Collecting, Publishing

(* A step of a collection that leaves the store and the lock as they are.  *)
LEMMA OnlyTheCollection ==
  ASSUME StoreInv, UNCHANGED <<files, unsynced, abandoned, roots, lock, wr>>, CollectionOK',
         gc.pc # "synchronizing" \/ gc' = gc,
         gc'.pc = "sweeping" => SweepNeverUndercuts'
  PROVE  StoreInv'
<1>1. FilesOK' BY DEF StoreInv, FilesOK
<1>2. Lasting' = Lasting /\ Durable' = Durable BY LastingSame
<1>3. CaptureOK' BY <1>2, CaptureKept DEF StoreInv
<1>4. LiveSurvives' BY <1>2, LiveMore DEF StoreInv
<1>5. SweepNeverUndercuts' BY DEF SweepNeverUndercuts
<1>6. InFlight \subseteq InFlight' BY DEF InFlight, Collecting, Publishing
<1>7. SyncOK' BY <1>6, SyncSame DEF StoreInv
<1> QED BY <1>1, <1>3, <1>4, <1>5, <1>7 DEF StoreInv

(* A step that takes the lock, or gives it back, and nothing else.         *)
LEMMA OnlyTheLock ==
  ASSUME StoreInv, UNCHANGED <<files, unsynced, roots>>, CollectionOK', CaptureOK',
         abandoned \cup unsynced \subseteq abandoned', gc'.pc # "sweeping" \/ ~ Collecting'
  PROVE  StoreInv'
<1>1. FilesOK' BY DEF StoreInv, FilesOK
<1>2. Durable \subseteq Durable' BY LastingGrows
<1>4. LiveSurvives' BY <1>2, LiveMore DEF StoreInv
<1>5. SweepNeverUndercuts' BY DEF SweepNeverUndercuts
<1>6. SyncOK' BY DEF SyncOK
<1> QED BY <1>1, <1>4, <1>5, <1>6 DEF StoreInv

LEMMA NoCollection ==
  ASSUME gc' = NoGc, ~ Collecting'
  PROVE  CollectionOK'
<1>1. DOMAIN gc'.at = {} BY DEF NoGc
<1>2. gc'.large = {} /\ gc'.due = {} /\ gc'.pc = "idle" BY DEF NoGc
<1> QED BY <1>1, <1>2 DEF CollectionOK

LEMMA NoCapture ==
  ASSUME wr' = NoWriter
  PROVE  CaptureOK'
BY DEF CaptureOK, NoWriter

LEMMA GcBeginKeeps ==
  ASSUME StoreInv, GcBegin, UNCHANGED wr
  PROVE  StoreInv'
<1>1. lock = "free" /\ lock' = "collector" /\ UNCHANGED <<files, unsynced, abandoned, roots>>
  BY DEF GcBegin
<1>2. gc' = [NoGc EXCEPT !.pc = "begun", !.roots = roots, !.expired = old] BY DEF GcBegin
<1>3. gc'.pc = "begun" /\ DOMAIN gc' = DOMAIN NoGc /\ gc'.large = {} /\ gc'.due = {}
      /\ gc'.at = <<>> /\ gc'.roots = roots
  BY <1>2 DEF NoGc
<1>4. CollectionOK' BY <1>1, <1>3 DEF CollectionOK
<1>5. CaptureOK' BY <1>1 DEF StoreInv, CaptureOK, Publishing
<1>6. unsynced \subseteq abandoned BY <1>1, LockIsFree DEF StoreInv
<1> QED BY <1>1, <1>3, <1>4, <1>5, <1>6, OnlyTheLock

LEMMA GraphsReadAreLarge ==
  ASSUME NEW fs, NEW ts, NEW at \in GraphsRead(fs, ts)
  PROVE  DOMAIN at \subseteq Large
BY DEF GraphsRead, AsGraph

LEMMA GcMarkKeeps ==
  ASSUME StoreInv, GcMark, UNCHANGED wr
  PROVE  StoreInv'
<1>1. PICK at \in GraphsRead(files, gc.roots) :
        gc' = [gc EXCEPT !.pc = "marked", !.at = at, !.live = LiveKeys(gc.roots, at)]
  BY DEF GcMark
<1>2. DOMAIN at \subseteq Large BY GraphsReadAreLarge
<1>3. CollectionOK' BY <1>1, <1>2 DEF StoreInv, CollectionOK, GcMark, storeVars, Collecting, NoGc
<1>4. gc'.pc = "marked" BY <1>1 DEF StoreInv, CollectionOK, NoGc
<1> QED BY <1>3, <1>4, OnlyTheCollection DEF GcMark, storeVars

LEMMA GcListKeeps ==
  ASSUME StoreInv, GcList, UNCHANGED wr
  PROVE  StoreInv'
<1>1. CollectionOK' BY DEF GcList, StoreInv, CollectionOK, storeVars, Collecting, NoGc
<1>2. gc'.pc = "listed" BY DEF GcList, StoreInv, CollectionOK, NoGc
<1> QED BY <1>1, <1>2, OnlyTheCollection DEF GcList, storeVars

LEMMA GcSelectKeeps ==
  ASSUME StoreInv, GcSelect, UNCHANGED wr
  PROVE  StoreInv'
<1>1. PICK ks, needs, optional, redundant :
        gc' = [gc EXCEPT
                !.pc = "selected", !.keys = ks, !.needs = needs, !.dead = DeadPacks,
                !.optional = optional, !.redundant = redundant,
                !.large = {k \in ks \cap Large : Legacy(k) \in gc.inv}]
  BY DEF GcSelect
<1>2. CollectionOK' BY <1>1 DEF GcSelect, StoreInv, CollectionOK, storeVars, Collecting, NoGc
<1>3. gc'.pc = "selected" BY <1>1 DEF StoreInv, CollectionOK, NoGc
<1> QED BY <1>2, <1>3, OnlyTheCollection DEF GcSelect, storeVars

(* A collection that ends, well or not; files are only added.              *)
LEMMA CollectionEnds ==
  ASSUME StoreInv, gc' = NoGc, lock' = (IF Collecting THEN "free" ELSE lock), UNCHANGED <<wr, roots>>,
         files \subseteq files', files' \subseteq AllFiles,
         unsynced' \subseteq files', unsynced' \ abandoned' \subseteq unsynced \ abandoned,
         abandoned \subseteq abandoned',
         IF Collecting THEN unsynced' \subseteq abandoned' ELSE UNCHANGED <<unsynced, abandoned>>
  PROVE  StoreInv'
<1>1. ~ Collecting' BY DEF Collecting
<1>2. CollectionOK' BY <1>1, NoCollection
<1>3. Durable \subseteq Durable' BY LastingGrows
<1>4. CaptureOK' /\ SyncOK'
  <2>1. CASE Collecting
    <3>1. ~ Publishing' BY <2>1 DEF Collecting, Publishing
    <3>2. SyncOK' BY <2>1 DEF SyncOK
    <3> QED BY <3>1, <3>2 DEF StoreInv, CaptureOK
  <2>2. CASE ~ Collecting
    <3>1. lock' = lock BY <2>2
    <3>2. InFlight' = InFlight BY <1>1, <2>2, <3>1 DEF InFlight, Publishing
    <3>3. SyncOK' BY <2>2, <3>2, SyncSame DEF StoreInv
    <3> QED BY <1>3, <3>1, <3>3, CaptureKept DEF StoreInv
  <2> QED BY <2>1, <2>2
<1>5. LiveSurvives' BY <1>3, LiveMore DEF StoreInv
<1>6. SweepNeverUndercuts' BY <1>1 DEF SweepNeverUndercuts
<1>7. FilesOK' BY DEF StoreInv, FilesOK
<1> QED BY <1>2, <1>4, <1>5, <1>6, <1>7 DEF StoreInv

LEMMA GcEndsKeeps ==
  ASSUME StoreInv, GcEndsEarly \/ GcFinish, UNCHANGED wr
  PROVE  StoreInv'
<1>1. files' = files /\ UNCHANGED <<unsynced, abandoned, roots>> /\ Collecting /\ lock' = "free"
      /\ gc' = NoGc /\ gc.pc # "synchronizing"
  BY DEF GcEndsEarly, GcFinish
<1>2. unsynced \subseteq abandoned
  BY <1>1 DEF StoreInv, SyncOK, InFlight, Collecting, Publishing
<1> QED BY <1>1, <1>2, CollectionEnds DEF StoreInv, FilesOK

(* What a materialization may leave is a record of its own.                *)
LEMMA UnfinishedAreFiles ==
  ASSUME CollectionOK
  PROVE  Unfinished \subseteq AllFiles
<1> SUFFICES ASSUME NEW f \in Unfinished PROVE f \in AllFiles OBVIOUS
<1>1. PICK k \in gc.large : f \in LoosePieces(k) \cup {Loose(k)} BY DEF Unfinished
<1>2. k \in Large /\ Pieces[k] \subseteq Keys /\ k \in Keys
  BY StoreAssumption DEF CollectionOK, Large, Keys
<1> QED BY <1>1, <1>2, PacksAreFiles DEF LoosePieces

LEMMA GcStopsKeeps ==
  ASSUME StoreInv, GcStops, UNCHANGED wr
  PROVE  StoreInv'
<1>1. gc' = NoGc /\ lock' = (IF Collecting THEN "free" ELSE lock) /\ roots' = roots
      /\ abandoned' = IF Collecting THEN abandoned \cup unsynced' ELSE abandoned
  BY DEF GcStops
<1>2. \/ UNCHANGED <<files, unsynced>>
      \/ Collecting /\ \E f \in AllFiles :
            files' = files \cup {f} /\ (unsynced' = unsynced \/ unsynced' = unsynced \cup {f})
  BY UnfinishedAreFiles, PacksAreFiles DEF GcStops, StoreInv
<1>3. files \subseteq files' /\ files' \subseteq AllFiles /\ unsynced' \subseteq files'
  BY <1>2 DEF StoreInv, FilesOK
<1>4. IF Collecting THEN unsynced' \subseteq abandoned' ELSE UNCHANGED <<unsynced, abandoned>>
  BY <1>1, <1>2
<1>5. unsynced' \ abandoned' \subseteq unsynced \ abandoned /\ abandoned \subseteq abandoned'
  BY <1>1, <1>4
<1> QED BY <1>1, <1>3, <1>4, <1>5, CollectionEnds

(* The lock is held by the collection, which adds files.                   *)
LEMMA CollectionAdds ==
  ASSUME StoreInv, Collecting, UNCHANGED <<roots, lock, wr>>, CollectionOK', SyncOK',
         files' \subseteq AllFiles, unsynced' \subseteq files', Durable \subseteq Durable',
         gc'.pc # "sweeping"
  PROVE  StoreInv'
<1>1. ~ Publishing' BY DEF Collecting, Publishing
<1>2. CaptureOK' BY <1>1 DEF StoreInv, CaptureOK
<1>3. LiveSurvives' BY LiveMore DEF StoreInv
<1>4. FilesOK' BY DEF StoreInv, FilesOK
<1>5. SweepNeverUndercuts' BY DEF SweepNeverUndercuts
<1> QED BY <1>2, <1>3, <1>4, <1>5 DEF StoreInv

LEMMA GcMaterializePiecesKeeps ==
  ASSUME StoreInv, GcMaterializePieces, UNCHANGED wr
  PROVE  StoreInv'
<1>1. PICK k \in gc.large :
        files' = files \cup LoosePieces(k) /\ Synchronized(LoosePieces(k))
  BY DEF GcMaterializePieces
<1>2. Pieces[k] \subseteq Keys
  BY StoreAssumption DEF StoreInv, CollectionOK, Large, Keys
<1>3. LoosePieces(k) \subseteq AllFiles BY <1>2, PacksAreFiles DEF LoosePieces
<1>4. files' \subseteq AllFiles /\ unsynced' \subseteq files'
  BY <1>1, <1>3 DEF StoreInv, FilesOK, Synchronized
<1>5. Durable \subseteq Durable' BY <1>1, LastingMore
<1>6. CollectionOK' /\ gc'.pc # "sweeping" /\ UNCHANGED <<gc, roots, lock>> /\ Collecting
  BY DEF GcMaterializePieces, gcVars, StoreInv, CollectionOK, Collecting
<1>7. SyncOK' BY <1>1, <1>6, SyncLess DEF StoreInv, InFlight, Collecting, Publishing
<1> QED BY <1>4, <1>5, <1>6, <1>7, CollectionAdds

LEMMA GcMaterializeRootKeeps ==
  ASSUME StoreInv, GcMaterializeRoot, UNCHANGED wr
  PROVE  StoreInv'
<1>1. PICK k \in gc.large :
        /\ LoosePieces(k) \subseteq files
        /\ files' = files \cup {Loose(k)}
        /\ Synchronized(IF Loose(k) \in files THEN {} ELSE LoosePieces(k))
        /\ gc' = [gc EXCEPT
                   !.large = @ \ {k},
                   !.at = [j \in DOMAIN @ \cup {k} |-> IF j = k THEN Loose(k) ELSE @[j]],
                   !.live = @ \cup Pieces[k],
                   !.keys = @ \cup Pieces[k],
                   !.inv = Objects(files') \cup (@ \ Objects(@))]
  BY DEF GcMaterializeRoot
<1> DEFINE fs == IF Loose(k) \in files THEN {} ELSE LoosePieces(k)
<1>2. k \in Large /\ k \in Keys BY DEF StoreInv, CollectionOK, Large, Keys
<1>3. Synchronized(fs) /\ fs \subseteq files BY <1>1
<1> HIDE DEF fs
<1>4. files' \subseteq AllFiles /\ unsynced' \subseteq files'
  BY <1>1, <1>2, <1>3, PacksAreFiles DEF StoreInv, FilesOK, Synchronized
<1>5. Durable \subseteq Durable' BY <1>1, <1>3, LastingMore
<1>6. gc'.pc = "selected" /\ DOMAIN gc' = DOMAIN NoGc /\ gc'.roots = gc.roots
      /\ DOMAIN gc'.at = DOMAIN gc.at \cup {k} /\ gc'.large \subseteq gc.large /\ gc'.due = gc.due
  BY <1>1 DEF GcMaterializeRoot, StoreInv, CollectionOK, NoGc
<1>7. UNCHANGED <<roots, lock>> /\ Collecting /\ gc.pc = "selected" BY DEF GcMaterializeRoot
<1>8. CollectionOK' BY <1>2, <1>6, <1>7 DEF StoreInv, CollectionOK, Collecting
<1>9. SyncOK'
  BY <1>3, <1>6, <1>7, SyncLess DEF StoreInv, InFlight, Collecting, Publishing
<1> QED BY <1>4, <1>5, <1>6, <1>7, <1>8, <1>9, CollectionAdds

LEMMA GcSkipLargeKeeps ==
  ASSUME StoreInv, GcSkipLarge, UNCHANGED wr
  PROVE  StoreInv'
<1>1. CollectionOK' BY DEF GcSkipLarge, StoreInv, CollectionOK, storeVars, Collecting, NoGc
<1>2. gc'.pc = "selected" BY DEF GcSkipLarge, StoreInv, CollectionOK, NoGc
<1> QED BY <1>1, <1>2, OnlyTheCollection DEF GcSkipLarge, storeVars

LEMMA ReplacementsArePacks ==
  ASSUME NEW ks
  PROVE  ReplacementPacks(ks) \subseteq AllPacks
<1>1. ASSUME NEW class \in {ks \cap Trees, ks \cap Contents} \ {{}}
      PROVE  Pack({RecordOf(k) : k \in class}) \in AllPacks
  <2>1. class \in ((SUBSET Trees) \cup (SUBSET Contents)) \ {{}} BY <1>1
  <2> QED BY <2>1 DEF AllPacks
<1> QED BY <1>1 DEF ReplacementPacks

LEMMA GcPlanPacksKeeps ==
  ASSUME StoreInv, GcPlanPacks, UNCHANGED wr
  PROVE  StoreInv'
<1>1. PICK keys, needs :
        gc' = [gc EXCEPT !.pc = "publishing", !.keys = keys, !.needs = needs,
                         !.due = ReplacementPacks(keys)]
  BY DEF GcPlanPacks
<1>2. gc'.pc = "publishing" /\ DOMAIN gc' = DOMAIN NoGc /\ gc'.at = gc.at
      /\ gc'.large = gc.large /\ gc'.due = ReplacementPacks(keys) /\ gc'.roots = gc.roots
  BY <1>1 DEF StoreInv, CollectionOK, NoGc
<1>3. CollectionOK'
  BY <1>2, ReplacementsArePacks DEF GcPlanPacks, StoreInv, CollectionOK, storeVars, Collecting
<1> QED BY <1>2, <1>3, OnlyTheCollection DEF GcPlanPacks, storeVars

LEMMA GcPublishPackKeeps ==
  ASSUME StoreInv, GcPublishPack, UNCHANGED wr
  PROVE  StoreInv'
<1>1. PICK p \in gc.due \ files :
        /\ files' = files \cup {p} /\ unsynced' = unsynced \cup {p}
        /\ gc' = [gc EXCEPT !.pc = "synchronizing", !.renamed = {p}]
  BY DEF GcPublishPack
<1>2. p \in AllPacks /\ Collecting /\ gc.pc = "publishing" /\ UNCHANGED <<abandoned, roots, lock>>
  BY DEF GcPublishPack, StoreInv, CollectionOK
<1>3. files' \subseteq AllFiles /\ unsynced' \subseteq files'
  BY <1>1, <1>2, PacksAreFiles DEF StoreInv, FilesOK
<1>4. Durable \subseteq Durable' BY <1>1, <1>2, LastingGrows
<1>5. gc'.pc = "synchronizing" /\ DOMAIN gc' = DOMAIN NoGc /\ gc'.at = gc.at
      /\ gc'.large = gc.large /\ gc'.due = gc.due /\ gc'.roots = gc.roots /\ gc'.renamed = {p}
  BY <1>1 DEF StoreInv, CollectionOK, NoGc
<1>6. CollectionOK' BY <1>2, <1>5 DEF StoreInv, CollectionOK, Collecting
<1>7. SyncOK' BY <1>1, <1>2, <1>5 DEF StoreInv, SyncOK, InFlight, Collecting, Publishing
<1> QED BY <1>2, <1>3, <1>4, <1>5, <1>6, <1>7, CollectionAdds

LEMMA GcSyncPackKeeps ==
  ASSUME StoreInv, GcSyncPack, UNCHANGED wr
  PROVE  StoreInv'
<1>1. PICK p \in gc.due \cap files :
        /\ gc.pc = "synchronizing" => p \in gc.renamed
        /\ Synchronized({p})
        /\ gc' = [gc EXCEPT !.pc = "publishing", !.renamed = {},
                            !.due = @ \ {p}, !.fresh = @ \cup {p}]
  BY DEF GcSyncPack
<1>2. Collecting /\ UNCHANGED <<files, roots, lock>> BY DEF GcSyncPack
<1>3. gc'.pc = "publishing" /\ DOMAIN gc' = DOMAIN NoGc /\ gc'.at = gc.at
      /\ gc'.large = gc.large /\ gc'.due \subseteq gc.due /\ gc'.roots = gc.roots
  BY <1>1 DEF StoreInv, CollectionOK, NoGc
<1>4. CollectionOK' BY <1>2, <1>3 DEF StoreInv, CollectionOK, Collecting
<1>5. files' \subseteq AllFiles /\ unsynced' \subseteq files'
  BY <1>1, <1>2 DEF StoreInv, FilesOK, Synchronized
<1>6. Durable \subseteq Durable' BY <1>1, <1>2, LastingMore
<1>7. InFlight \subseteq {p}
  BY <1>1, <1>2 DEF StoreInv, CollectionOK, InFlight, Collecting, Publishing
<1>8. SyncOK' BY <1>1, <1>7, SyncLess DEF StoreInv
<1> QED BY <1>2, <1>3, <1>4, <1>5, <1>6, <1>8, CollectionAdds

LEMMA GcListPacksKeeps ==
  ASSUME StoreInv, GcListPacks, UNCHANGED wr
  PROVE  StoreInv'
<1>1. PICK inv : gc' = [gc EXCEPT !.pc = "published", !.inv = inv] BY DEF GcListPacks
<1>2. gc'.pc = "published" /\ DOMAIN gc' = DOMAIN NoGc /\ gc'.at = gc.at
      /\ gc'.large = gc.large /\ gc'.due = gc.due /\ gc'.roots = gc.roots
  BY <1>1 DEF StoreInv, CollectionOK, NoGc
<1>3. CollectionOK' BY <1>2 DEF GcListPacks, StoreInv, CollectionOK, Collecting
<1> QED BY <1>2, <1>3, OnlyTheCollection DEF GcListPacks

(* The second mark covers what the first one did.                          *)
LEMMA GcPlanSweepKeeps ==
  ASSUME StoreInv, GcPlanSweep, UNCHANGED wr
  PROVE  StoreInv'
<1>1. PICK at \in GraphsRead(files, gc.roots) :
        \E todo : gc' = [MarkedAgain(at) EXCEPT !.pc = "planned", !.todo = todo]
  BY DEF GcPlanSweep
<1> DEFINE both == [k \in DOMAIN at \cup DOMAIN gc.at |-> IF k \in DOMAIN at THEN at[k] ELSE gc.at[k]]
           live == LiveKeys(gc.roots, at) \cup UNION {Pieces[k] : k \in DOMAIN gc.at}
<1>2. MarkedAgain(at) = [gc EXCEPT !.at = both, !.live = live]
  BY DEF MarkedAgain, StoreInv, CollectionOK, NoGc
<1>3. DOMAIN at \subseteq Large BY GraphsReadAreLarge
<1>4. DOMAIN both = DOMAIN at \cup DOMAIN gc.at OBVIOUS
<1>5. Rooted(gc.roots) \subseteq live /\ \A k \in DOMAIN both : Pieces[k] \subseteq live
  BY <1>4 DEF LiveKeys
<1> HIDE DEF both, live
<1>6. gc'.pc = "planned" /\ DOMAIN gc' = DOMAIN NoGc /\ gc'.at = both /\ gc'.live = live
      /\ gc'.large = gc.large /\ gc'.due = gc.due /\ gc'.roots = gc.roots
  BY <1>1, <1>2 DEF StoreInv, CollectionOK, NoGc
<1>7. CollectionOK'
  BY <1>3, <1>4, <1>5, <1>6 DEF GcPlanSweep, StoreInv, CollectionOK, storeVars, Collecting
<1> QED BY <1>6, <1>7, OnlyTheCollection DEF GcPlanSweep, storeVars

(* The authorization is what makes the sweep safe as a whole.              *)
LEMMA GcAuthorizeKeeps ==
  ASSUME StoreInv, GcAuthorize, UNCHANGED wr
  PROVE  StoreInv'
<1>1. gc'.pc = "sweeping" /\ DOMAIN gc' = DOMAIN NoGc /\ gc'.at = gc.at /\ gc'.live = gc.live
      /\ gc'.large = gc.large /\ gc'.due = gc.due /\ gc'.roots = gc.roots
      /\ gc'.todo = gc.todo
  BY DEF GcAuthorize, StoreInv, CollectionOK, NoGc
<1>2. gc.pc = "planned" /\ RetainedCoverage /\ UNCHANGED storeVars BY DEF GcAuthorize
<1>3. CollectionOK' BY <1>1, <1>2 DEF StoreInv, CollectionOK, storeVars, Collecting
<1>4. ASSUME Collecting, NEW k \in Rooted(roots)
      PROVE  Readable(Lasting \ gc.todo, k)
  <2>1. roots = gc.roots BY <1>4 DEF StoreInv, CollectionOK
  <2>2. unsynced \subseteq abandoned
    BY <1>2, <1>4 DEF StoreInv, SyncOK, InFlight, Collecting, Publishing
  <2> QED BY <1>2, <1>4, <2>1, <2>2, CoverageIsEnough DEF StoreInv
<1>5. UNCHANGED <<files, unsynced, abandoned, roots, lock>> BY <1>2 DEF storeVars
<1>6. Lasting' = Lasting BY <1>5, LastingSame
<1>7. SweepNeverUndercuts'
  BY <1>1, <1>4, <1>5, <1>6 DEF SweepNeverUndercuts, Collecting
<1> QED BY <1>2, <1>3, <1>5, <1>7, OnlyTheCollection

LEMMA GcRemoveKeeps ==
  ASSUME StoreInv, NEW f, GcRemove(f), UNCHANGED wr
  PROVE  StoreInv'
<1>1. gc.pc = "sweeping" /\ Collecting /\ f \in gc.todo
      /\ files' = files \ {f} /\ Synchronized({f}) /\ UNCHANGED <<roots, lock>>
  BY DEF GcRemove, Unlink
<1>2. gc'.pc = "sweeping" /\ DOMAIN gc' = DOMAIN NoGc /\ gc'.at = gc.at /\ gc'.live = gc.live
      /\ gc'.large = gc.large /\ gc'.due = gc.due /\ gc'.roots = gc.roots
      /\ gc'.todo = gc.todo \ {f}
  BY DEF GcRemove, StoreInv, CollectionOK, NoGc
<1>3. FilesOK' BY <1>1 DEF StoreInv, FilesOK, Synchronized
<1>4. SyncOK'
  BY <1>1, <1>2, SyncLess DEF StoreInv, InFlight, Collecting, Publishing
<1>5. CollectionOK' BY <1>1, <1>2 DEF StoreInv, CollectionOK, Collecting
<1>6. ~ Publishing' BY <1>1 DEF Collecting, Publishing
<1>7. CaptureOK' BY <1>6 DEF StoreInv, CaptureOK
<1>8. Lasting \ {f} \subseteq Lasting' BY <1>1 DEF Lasting, Synchronized
<1>9. SweepNeverUndercuts' BY <1>1, <1>2, <1>8, SweptMore DEF StoreInv
<1>10. LiveSurvives'
  <2>1. ASSUME NEW k \in Rooted(roots') PROVE Readable(Durable', k)
    <3>1. Readable(Lasting \ gc.todo, k)
      BY <1>1 DEF StoreInv, SweepNeverUndercuts
    <3>2. Lasting \ gc.todo \subseteq Durable' BY <1>1, <1>8 DEF Durable
    <3> QED BY <3>1, <3>2, ReadableMore
  <2> QED BY <2>1 DEF LiveSurvives, Durable
<1> QED BY <1>3, <1>4, <1>5, <1>7, <1>9, <1>10 DEF StoreInv

LEMMA CollectionsAreSound ==
  ASSUME StoreInv, GcNext, UNCHANGED wr
  PROVE  StoreInv'
<1>1. CASE GcBegin BY <1>1, GcBeginKeeps
<1>2. CASE GcMark BY <1>2, GcMarkKeeps
<1>3. CASE GcList BY <1>3, GcListKeeps
<1>4. CASE GcSelect BY <1>4, GcSelectKeeps
<1>5. CASE GcEndsEarly \/ GcFinish BY <1>5, GcEndsKeeps
<1>6. CASE GcMaterializePieces BY <1>6, GcMaterializePiecesKeeps
<1>7. CASE GcMaterializeRoot BY <1>7, GcMaterializeRootKeeps
<1>8. CASE GcSkipLarge BY <1>8, GcSkipLargeKeeps
<1>9. CASE GcPlanPacks BY <1>9, GcPlanPacksKeeps
<1>10. CASE GcPublishPack BY <1>10, GcPublishPackKeeps
<1>11. CASE GcSyncPack BY <1>11, GcSyncPackKeeps
<1>12. CASE GcListPacks BY <1>12, GcListPacksKeeps
<1>13. CASE GcPlanSweep BY <1>13, GcPlanSweepKeeps
<1>14. CASE GcAuthorize BY <1>14, GcAuthorizeKeeps
<1>15. CASE \E f \in AllFiles : GcRemove(f) BY <1>15, GcRemoveKeeps
<1> QED
  BY <1>1, <1>2, <1>3, <1>4, <1>5, <1>6, <1>7, <1>8, <1>9, <1>10, <1>11, <1>12, <1>13,
     <1>14, <1>15 DEF GcNext
-----------------------------------------------------------------------------
(* The steps of a capture; while it has the lock there is no collection.   *)

LEMMA CaptureSteps ==
  ASSUME StoreInv, UNCHANGED gc, ~ Collecting', FilesOK', SyncOK', CaptureOK', LiveSurvives'
  PROVE  StoreInv'
<1>1. CollectionOK' BY DEF StoreInv, CollectionOK
<1>2. SweepNeverUndercuts' BY DEF SweepNeverUndercuts
<1> QED BY <1>1, <1>2 DEF StoreInv

LEMMA WrBeginKeeps ==
  ASSUME StoreInv, NEW r \in Trees, WrBegin(r), UNCHANGED gc
  PROVE  StoreInv'
<1>1. PICK via \in [Traversed(Closure[r]) -> files],
           data \in Batches(Unreadable(Wanted(Closure[r]))) :
        wr' = [NoWriter EXCEPT
                !.pc = "publishing", !.tree = {r}, !.reused = {via[k] : k \in DOMAIN via},
                !.data = data,
                !.metadata = IF Readable(files, r) THEN {} ELSE {Pack({Whole(r)})}]
  BY DEF WrBegin
<1> DEFINE metadata == IF Readable(files, r) THEN {} ELSE {Pack({Whole(r)})}
<1>2. lock = "free" /\ lock' = "writer" /\ UNCHANGED <<files, unsynced, abandoned, roots>>
  BY DEF WrBegin
<1>3. unsynced \subseteq abandoned BY <1>2, LockIsFree DEF StoreInv
<1>4. data \cup metadata \subseteq AllPacks
      /\ \A k \in Rooted({r}) : Readable(Durable \cup data \cup metadata, k)
  BY <1>3, CaptureIsComplete DEF StoreInv
<1> HIDE DEF metadata
<1>5. wr'.pc = "publishing" /\ DOMAIN wr' = DOMAIN NoWriter /\ wr'.tree = {r}
      /\ wr'.data = data /\ wr'.metadata = metadata
  BY <1>1 DEF NoWriter, metadata
<1>6. Durable' = Durable BY <1>2, LastingSame
<1>7. CaptureOK' BY <1>4, <1>5, <1>6 DEF CaptureOK
<1>8. LiveSurvives' BY <1>2, <1>6, LiveMore DEF StoreInv
<1>9. FilesOK' BY <1>2 DEF StoreInv, FilesOK
<1>10. ~ Collecting' BY <1>2 DEF Collecting
<1>11. SyncOK' BY <1>2, <1>3 DEF SyncOK
<1> QED BY <1>7, <1>8, <1>9, <1>10, <1>11, CaptureSteps

LEMMA WrPublishPackKeeps ==
  ASSUME StoreInv, WrPublishPack, UNCHANGED gc
  PROVE  StoreInv'
<1>1. PICK p \in Due \ files :
        /\ files' = files \cup {p}
        /\ unsynced' = unsynced \cup {p}
        /\ wr' = [wr EXCEPT !.pc = "synchronizing", !.renamed = {p}]
  BY DEF WrPublishPack
<1>2. wr.pc = "publishing" /\ Publishing /\ UNCHANGED <<abandoned, roots, lock>> BY DEF WrPublishPack
<1>3. wr'.pc = "synchronizing" /\ DOMAIN wr' = DOMAIN NoWriter /\ wr'.tree = wr.tree
      /\ wr'.data = wr.data /\ wr'.metadata = wr.metadata /\ wr'.renamed = {p}
  BY <1>1 DEF StoreInv, CaptureOK, NoWriter
<1>4. p \in AllPacks BY DEF Due, StoreInv, CaptureOK
<1>5. Durable \subseteq Durable' BY <1>1, <1>2, LastingGrows
<1>6. ASSUME NEW k \in Rooted(wr.tree)
      PROVE  Readable(Durable' \cup wr.data \cup wr.metadata, k)
  <2>1. Readable(Durable \cup wr.data \cup wr.metadata, k) BY <1>2 DEF StoreInv, CaptureOK
  <2>2. Durable \cup wr.data \cup wr.metadata \subseteq Durable' \cup wr.data \cup wr.metadata
    BY <1>5
  <2> QED BY <2>1, <2>2, ReadableMore
<1>7. CaptureOK' BY <1>3, <1>6 DEF StoreInv, CaptureOK
<1>8. LiveSurvives' BY <1>2, <1>5, LiveMore DEF StoreInv
<1>9. FilesOK' BY <1>1, <1>2, <1>4, PacksAreFiles DEF StoreInv, FilesOK
<1>10. ~ Collecting' BY <1>2 DEF Collecting, Publishing
<1>11. SyncOK' BY <1>1, <1>2, <1>3, <1>10 DEF StoreInv, SyncOK, InFlight, Collecting, Publishing
<1> QED BY <1>7, <1>8, <1>9, <1>10, <1>11, CaptureSteps

LEMMA WrSyncPackKeeps ==
  ASSUME StoreInv, WrSyncPack, UNCHANGED gc
  PROVE  StoreInv'
<1>1. PICK p \in Due \cap files :
        /\ wr.pc = "synchronizing" => p \in wr.renamed
        /\ Synchronized({p})
        /\ wr' = [wr EXCEPT
                   !.pc = "publishing", !.renamed = {}, !.data = @ \ {p}, !.metadata = @ \ {p},
                   !.packed = @ \cup {p}]
  BY DEF WrSyncPack
<1>2. wr.pc # "idle" /\ Publishing /\ UNCHANGED <<files, roots, lock>> BY DEF WrSyncPack
<1>3. wr'.pc = "publishing" /\ DOMAIN wr' = DOMAIN NoWriter /\ wr'.tree = wr.tree
      /\ wr'.data = wr.data \ {p} /\ wr'.metadata = wr.metadata \ {p}
  BY <1>1 DEF StoreInv, CaptureOK, NoWriter
<1>4. Durable \subseteq Durable' BY <1>1, <1>2, LastingMore
<1>5. p \in Durable' BY <1>1, <1>2 DEF Durable, Lasting, Synchronized
<1>6. ASSUME NEW k \in Rooted(wr.tree)
      PROVE  Readable(Durable' \cup wr'.data \cup wr'.metadata, k)
  <2>1. Durable \cup wr.data \cup wr.metadata \subseteq Durable' \cup wr'.data \cup wr'.metadata
    BY <1>3, <1>4, <1>5
  <2>2. Readable(Durable \cup wr.data \cup wr.metadata, k) BY <1>2 DEF StoreInv, CaptureOK
  <2> QED BY <2>1, <2>2, ReadableMore
<1>7. CaptureOK' BY <1>3, <1>6 DEF StoreInv, CaptureOK
<1>8. LiveSurvives' BY <1>2, <1>4, LiveMore DEF StoreInv
<1>9. FilesOK' BY <1>1, <1>2 DEF StoreInv, FilesOK, Synchronized
<1>10. ~ Collecting' BY <1>2 DEF Collecting, Publishing
<1>11. InFlight \subseteq {p}
  BY <1>1, <1>2 DEF StoreInv, CaptureOK, InFlight, Collecting, Publishing
<1>12. SyncOK' BY <1>1, <1>11, SyncLess DEF StoreInv
<1> QED BY <1>7, <1>8, <1>9, <1>10, <1>12, CaptureSteps

LEMMA WrRevalidateKeeps ==
  ASSUME StoreInv, WrRevalidate, UNCHANGED gc
  PROVE  StoreInv'
<1>1. wr.pc = "publishing" /\ wr' = [wr EXCEPT !.pc = "flushed"] /\ Due = {}
      /\ UNCHANGED <<files, unsynced, abandoned, roots, lock>>
  BY DEF WrRevalidate, storeVars
<1>2. wr.data = {} /\ wr.metadata = {} BY <1>1 DEF Due
<1>3. wr'.pc = "flushed" /\ DOMAIN wr' = DOMAIN NoWriter /\ wr'.tree = wr.tree
      /\ wr'.data = wr.data /\ wr'.metadata = wr.metadata
  BY <1>1 DEF StoreInv, CaptureOK, NoWriter
<1>4. Durable' = Durable /\ Lasting' = Lasting BY <1>1, LastingSame
<1>5. CaptureOK' BY <1>1, <1>2, <1>3, <1>4 DEF StoreInv, CaptureOK, Publishing
<1>6. LiveSurvives' BY <1>1, <1>4, LiveMore DEF StoreInv
<1>7. FilesOK' BY <1>1 DEF StoreInv, FilesOK
<1>8. CollectionOK' BY <1>1 DEF StoreInv, CollectionOK, Collecting
<1>9. SweepNeverUndercuts' BY <1>1, <1>4 DEF StoreInv, SweepNeverUndercuts, Collecting
<1>10. InFlight \subseteq InFlight' BY <1>1 DEF InFlight, Collecting, Publishing
<1>11. SyncOK' BY <1>1, <1>10, SyncSame DEF StoreInv
<1> QED BY <1>5, <1>6, <1>7, <1>8, <1>9, <1>11 DEF StoreInv

(* What is committed has been synchronized before, or was left by others.  *)
LEMMA WrCommitKeeps ==
  ASSUME StoreInv, WrCommit, UNCHANGED gc
  PROVE  StoreInv'
<1>1. wr.pc = "flushed" /\ Publishing /\ roots' = roots \cup wr.tree /\ lock' = "free"
      /\ wr' = NoWriter /\ UNCHANGED <<files, unsynced, abandoned>>
  BY DEF WrCommit
<1>2. Durable' = Durable BY <1>1, LastingSame
<1>3. ASSUME NEW k \in Rooted(roots') PROVE Readable(Durable, k)
  <2>1. k \in Rooted(roots) \/ k \in Rooted(wr.tree) BY <1>1 DEF Rooted
  <2>2. CASE k \in Rooted(roots) BY <2>2 DEF StoreInv, LiveSurvives, Durable
  <2>3. CASE k \in Rooted(wr.tree)
    <3>1. Readable(Durable \cup wr.data \cup wr.metadata, k)
      BY <1>1, <2>3 DEF StoreInv, CaptureOK
    <3>2. Durable \cup wr.data \cup wr.metadata = Durable
      BY <1>1 DEF StoreInv, CaptureOK
    <3> QED BY <3>1, <3>2
  <2> QED BY <2>1, <2>2, <2>3
<1>4. LiveSurvives' BY <1>2, <1>3 DEF LiveSurvives, Durable
<1>5. FilesOK' BY <1>1 DEF StoreInv, FilesOK, CaptureOK
<1>6. CaptureOK' BY <1>1, NoCapture
<1>7. ~ Collecting' BY <1>1 DEF Collecting
<1>8. InFlight = {} BY <1>1 DEF InFlight, Collecting, Publishing
<1>9. SyncOK' BY <1>1, <1>8, SyncSame DEF StoreInv
<1> QED BY <1>4, <1>5, <1>6, <1>7, <1>9, CaptureSteps

LEMMA WrStopsKeeps ==
  ASSUME StoreInv, WrStops, UNCHANGED gc
  PROVE  StoreInv'
<1>1. wr' = NoWriter /\ lock' = (IF Publishing THEN "free" ELSE lock)
      /\ UNCHANGED <<unsynced, roots>>
      /\ (files' = files \/ (Publishing /\ files' = files \cup {Temporary}))
      /\ abandoned' = IF Publishing THEN abandoned \cup unsynced ELSE abandoned
  BY DEF WrStops
<1>2. Durable \subseteq Durable' BY <1>1, LastingGrows
<1>3. LiveSurvives' BY <1>1, <1>2, LiveMore DEF StoreInv
<1>4. FilesOK' BY <1>1, PacksAreFiles DEF StoreInv, FilesOK
<1>5. CaptureOK' BY <1>1, NoCapture
<1>6. SyncOK'
  <2>1. CASE Publishing BY <1>1, <2>1 DEF SyncOK
  <2>2. CASE ~ Publishing
    <3>1. InFlight \subseteq InFlight' BY <1>1, <2>2 DEF InFlight, Collecting, Publishing
    <3> QED BY <1>1, <2>2, <3>1, SyncSame DEF StoreInv
  <2> QED BY <2>1, <2>2
<1>7. CASE Collecting
  <2>1. UNCHANGED <<files, unsynced, abandoned, lock>> BY <1>1, <1>7 DEF Collecting, Publishing
  <2>2. Lasting' = Lasting BY <2>1, LastingSame
  <2>3. CollectionOK' BY <1>1, <2>1 DEF StoreInv, CollectionOK, Collecting
  <2>4. SweepNeverUndercuts'
    BY <1>1, <2>1, <2>2 DEF StoreInv, SweepNeverUndercuts, Collecting
  <2> QED BY <1>3, <1>4, <1>5, <1>6, <2>3, <2>4 DEF StoreInv
<1>8. CASE ~ Collecting
  <2>1. ~ Collecting' BY <1>1, <1>8 DEF Collecting
  <2> QED BY <1>3, <1>4, <1>5, <1>6, <2>1, CaptureSteps
<1> QED BY <1>7, <1>8

LEMMA WrForgetKeeps ==
  ASSUME StoreInv, NEW r, WrForget(r), UNCHANGED gc
  PROVE  StoreInv'
<1>1. lock = "free" /\ roots' = roots \ {r}
      /\ UNCHANGED <<wr, files, unsynced, abandoned, lock>>
  BY DEF WrForget, wrVars
<1>2. Durable' = Durable BY <1>1, LastingSame
<1>3. LiveSurvives' BY <1>1, <1>2, LiveMore DEF StoreInv
<1>4. FilesOK' BY <1>1 DEF StoreInv, FilesOK
<1>5. CaptureOK' BY <1>1, <1>2, CaptureKept DEF StoreInv
<1>6. ~ Collecting' BY <1>1 DEF Collecting
<1>7. SyncOK' BY <1>1, LockIsFree DEF StoreInv, SyncOK
<1> QED BY <1>3, <1>4, <1>5, <1>6, <1>7, CaptureSteps
-----------------------------------------------------------------------------
LEMMA SpendKeepsTheTrees ==
  ASSUME LeftOK,
         (\E what \in {"collections", "captures", "scopes", "failures", "thefts", "losses",
                       "ages", "asks"} : Spend(what)) \/ UNCHANGED left
  PROVE  LeftOK'
BY DEF LeftOK, Spend

(* Nothing but the age of files, the lookup index or a reading changes.    *)
LEMMA StoreAsItWas ==
  ASSUME StoreInv, UNCHANGED <<files, unsynced, abandoned, roots, lock, gc, wr>>
  PROVE  StoreInv'
<1>1. CollectionOK' BY DEF StoreInv, CollectionOK, Collecting
<1>2. Lasting' = Lasting BY LastingSame
<1>3. gc'.pc = "sweeping" => SweepNeverUndercuts'
  BY <1>2 DEF StoreInv, SweepNeverUndercuts, Collecting
<1> QED BY <1>1, <1>3, OnlyTheCollection

LEMMA InitIsSound ==
  ASSUME Init
  PROVE  StoreInv /\ LeftOK
<1>1. PICK store \in Stores :
        files = store.files /\ roots = store.roots /\ left = store.bounds
  BY DEF Init
<1>2. unsynced = {} /\ abandoned = {} /\ lock = "free" /\ gc = NoGc /\ wr = NoWriter BY DEF Init
<1>3. FilesOK BY <1>1, <1>2, StoresAssumption DEF FilesOK
<1>4. LeftOK BY <1>1, StoresAssumption DEF LeftOK, Bounds
<1>5. CollectionOK
  <2>1. DOMAIN gc.at = {} BY <1>2 DEF NoGc
  <2>2. gc.large = {} /\ gc.due = {} /\ gc.pc = "idle" BY <1>2 DEF NoGc
  <2> QED BY <1>2, <2>1, <2>2 DEF CollectionOK, Collecting
<1>6. CaptureOK BY <1>2 DEF CaptureOK, NoWriter
<1>7. LiveSurvives
  <2>1. Lasting \cup abandoned = store.files BY <1>1, <1>2 DEF Lasting
  <2> QED BY <1>1, <2>1, StoresAssumption DEF LiveSurvives
<1>8. SweepNeverUndercuts BY <1>2 DEF SweepNeverUndercuts, Collecting
<1>9. SyncOK BY <1>2 DEF SyncOK
<1> QED BY <1>3, <1>4, <1>5, <1>6, <1>7, <1>8, <1>9 DEF StoreInv

LEMMA StepsAreSound ==
  ASSUME StoreInv, LeftOK, [Next]_vars
  PROVE  StoreInv' /\ LeftOK'
<1>1. CASE Collection
  <2>1. StoreInv' BY <1>1, CollectionsAreSound DEF Collection, wrVars
  <2>2. LeftOK' BY <1>1, SpendKeepsTheTrees DEF Collection
  <2> QED BY <2>1, <2>2
<1>2. CASE Capture
  <2>1. UNCHANGED gc BY <1>2 DEF Capture, gcVars
  <2>2. ASSUME WrNext PROVE StoreInv'
    BY <2>1, <2>2, WrPublishPackKeeps, WrSyncPackKeeps, WrRevalidateKeeps, WrCommitKeeps
       DEF WrNext
  <2>3. ASSUME NEW r \in left.trees, WrBegin(r) \/ WrForget(r) PROVE StoreInv'
    <3>1. r \in Trees BY DEF LeftOK
    <3>2. CASE WrBegin(r) BY <2>1, <3>1, <3>2, WrBeginKeeps
    <3>3. CASE WrForget(r) BY <2>1, <3>3, WrForgetKeeps
    <3> QED BY <2>3, <3>2, <3>3
  <2>4. StoreInv'
    <3>1. WrNext \/ \E r \in left.trees : WrBegin(r) \/ WrForget(r) BY <1>2 DEF Capture
    <3> QED BY <2>2, <2>3, <3>1
  <2>5. LeftOK' BY <1>2, SpendKeepsTheTrees DEF Capture
  <2> QED BY <2>4, <2>5
<1>3. CASE Failure
  <2>1. StoreInv' BY <1>3, GcStopsKeeps, WrStopsKeeps DEF Failure, gcVars, wrVars
  <2>2. LeftOK' BY <1>3, SpendKeepsTheTrees DEF Failure
  <2> QED BY <2>1, <2>2
<1>4. CASE Reading
  <2>1. StoreInv' BY <1>4, StoreAsItWas DEF Reading, storeVars, gcVars, wrVars
  <2>2. LeftOK' BY <1>4, SpendKeepsTheTrees DEF Reading
  <2> QED BY <2>1, <2>2
<1>5. CASE Sharing
  <2>1. StoreInv' BY <1>5, StoreAsItWas DEF Sharing, storeVars, gcVars, wrVars
  <2>2. LeftOK' BY <1>5, SpendKeepsTheTrees DEF Sharing
  <2> QED BY <2>1, <2>2
<1>6. CASE Age
  <2>1. StoreInv' BY <1>6, StoreAsItWas DEF Age, gcVars, wrVars
  <2>2. LeftOK' BY <1>6, SpendKeepsTheTrees DEF Age
  <2> QED BY <2>1, <2>2
<1>7. CASE Writeback
  <2>1. unsynced' = {} /\ abandoned' = abandoned \ files
        /\ UNCHANGED <<files, roots, lock, gc, wr>>
    BY <1>7 DEF Writeback, gcVars, wrVars
  <2>2. Lasting \subseteq Lasting' /\ Durable \subseteq Durable' BY <2>1 DEF Lasting, Durable
  <2>3. CollectionOK' BY <2>1 DEF StoreInv, CollectionOK, Collecting
  <2>4. CaptureOK' BY <2>1, <2>2, CaptureKept DEF StoreInv
  <2>5. LiveSurvives' BY <2>1, <2>2, LiveMore DEF StoreInv
  <2>6. FilesOK' BY <2>1 DEF StoreInv, FilesOK
  <2>7. SweepNeverUndercuts'
    <3>1. CASE gc.pc = "sweeping" /\ Collecting
      BY <2>1, <2>2, <3>1, SweptMore DEF StoreInv
    <3>2. CASE ~ (gc.pc = "sweeping" /\ Collecting)
      BY <2>1, <3>2 DEF SweepNeverUndercuts, Collecting
    <3> QED BY <3>1, <3>2
  <2>8. LeftOK' BY <1>7, SpendKeepsTheTrees DEF Writeback
  <2>9. SyncOK' BY <2>1 DEF SyncOK
  <2> QED BY <2>3, <2>4, <2>5, <2>6, <2>7, <2>8, <2>9 DEF StoreInv
<1>8. CASE Stolen
  <2>1. lock' = "free" /\ UNCHANGED <<files, unsynced, roots, gc, wr>>
        /\ abandoned' = abandoned \cup unsynced
    BY <1>8 DEF Stolen, gcVars, wrVars
  <2>2. CollectionOK' BY <2>1 DEF StoreInv, CollectionOK, Collecting
  <2>3. CaptureOK' BY <2>1 DEF StoreInv, CaptureOK, Publishing
  <2>4. StoreInv' BY <2>1, <2>2, <2>3, OnlyTheLock DEF Collecting
  <2>5. LeftOK' BY <1>8, SpendKeepsTheTrees DEF Stolen
  <2> QED BY <2>4, <2>5
<1>9. CASE PowerLoss
  <2>1. PICK lost \in SUBSET unsynced : files' = files \ lost
    BY <1>9 DEF PowerLoss
  <2>2. unsynced' = {} /\ abandoned' = abandoned \ files' /\ lock' = "free" /\ gc' = NoGc
        /\ wr' = NoWriter /\ roots' = roots
    BY <1>9 DEF PowerLoss
  <2>3. Durable \subseteq Durable' BY <2>1, <2>2 DEF Durable, Lasting
  <2>4. CollectionOK' BY <2>2, NoCollection DEF Collecting
  <2>5. CaptureOK' BY <2>2, NoCapture
  <2>6. LiveSurvives' BY <2>2, <2>3, LiveMore DEF StoreInv
  <2>7. FilesOK' BY <2>1, <2>2 DEF StoreInv, FilesOK
  <2>8. SweepNeverUndercuts' BY <2>2 DEF SweepNeverUndercuts, NoGc
  <2>9. SyncOK' BY <2>2 DEF SyncOK
  <2>10. LeftOK' BY <1>9, SpendKeepsTheTrees DEF PowerLoss
  <2> QED BY <2>4, <2>5, <2>6, <2>7, <2>8, <2>9, <2>10 DEF StoreInv
<1>10. CASE UNCHANGED vars
  <2>1. StoreInv' BY <1>10, StoreAsItWas DEF vars, storeVars, gcVars, wrVars
  <2>2. LeftOK' BY <1>10, SpendKeepsTheTrees DEF vars
  <2> QED BY <2>1, <2>2
<1> QED
  BY <1>1, <1>2, <1>3, <1>4, <1>5, <1>6, <1>7, <1>8, <1>9, <1>10 DEF Next

(* The inductive invariant: what is on disk and what a collection and a    *)
(* capture know of it fit together in every state.                         *)
THEOREM StoreInvariant == Spec => [](StoreInv /\ LeftOK)
<1>1. Init => StoreInv /\ LeftOK BY InitIsSound
<1>2. StoreInv /\ LeftOK /\ [Next]_vars => (StoreInv /\ LeftOK)' BY StepsAreSound
<1> QED BY <1>1, <1>2, PTL DEF Spec

(* Whatever stores a collection, a capture and failures start from, what   *)
(* the committed checkpoints refer to can be read at every moment, even    *)
(* if the power is lost at that very moment, but for a loss of what a      *)
(* capture or a collection left renamed and not synchronized when it       *)
(* ended: a capture commits only after every pack it published is          *)
(* synchronized (publication.ts), a collection removes only under its lock *)
(* what the retained coverage makes superfluous (object-gc.ts,             *)
(* authorizeSweep), whatever those before them left.                       *)
THEOREM LiveObjectsSurvive == Spec => []LiveSurvives
<1>1. StoreInv => LiveSurvives BY DEF StoreInv
<1> QED BY <1>1, StoreInvariant, PTL

(* The removals of a sweep that still has its lock are safe in any number  *)
(* and in any order: once authorizeSweep has let the plan pass, no removal *)
(* relies on another one, nor on a replacement that is yet to be           *)
(* synchronized.  What an earlier writer left it does rely on.             *)
THEOREM SweepsNeverUndercut == Spec => []SweepNeverUndercuts
<1>1. StoreInv => SweepNeverUndercuts BY DEF StoreInv
<1> QED BY <1>1, StoreInvariant, PTL
-----------------------------------------------------------------------------
(* The pool of pack handles.                                               *)

PackNames == AllPacks \cup {NoPack}

Opened == {"opening", "open"}

EntryRecs ==
    [pack : PackNames, is : {"none", "opening", "open", "missing", "failed"},
     users : Nat, retirement : {"none", "waiting", "closing"}]

ReaderRecs ==
    [at : ReaderSteps, pack : PackNames, entry : Reservations \cup {0},
     next : {"idle", "missed"}]

PoolRecs ==
    [phase : {"open", "draining", "retiring", "closed"},
     permits : 0 .. MaxHandles,
     waiters : Seq(Readers),
     entry : [Reservations -> EntryRecs],
     table : Seq(Reservations),
     reader : [Readers -> ReaderRecs]]

HoldingSteps ==
    {"entering", "awaiting", "refused", "opening", "leased", "spoilt", "returning", "returned"}

UsingSteps == {"opening", "leased", "spoilt"}

(* Who has a permit, and who uses an entry.                                *)
Holders(po) == {r \in Readers : po.reader[r].at \in HoldingSteps}

UsersOf(po, n) == {r \in Readers : po.reader[r].at \in UsingSteps /\ po.reader[r].entry = n}

Distinct(s) == \A i, j \in 1 .. Len(s) : s[i] = s[j] => i = j

(* Who waits for a permit waits once.                                      *)
WaitersOK(po) ==
    /\ Distinct(po.waiters)
    /\ \A i \in 1 .. Len(po.waiters) : po.reader[po.waiters[i]].at = "queued"

PermitsOK(po) == po.permits + Cardinality(Holders(po)) <= MaxHandles

(* What is open, or is being retired, is in the table.                     *)
TableOK(po) ==
    /\ Distinct(po.table) /\ Len(po.table) <= MaxHandles
    /\ \A n \in Reservations :
          po.entry[n].is \in Opened \/ po.entry[n].retirement # "none" => n \in ToSet(po.table)

(* An entry counts its users, has none while it is closed, and is given    *)
(* back when it has none and has left the table.                           *)
EntriesOK(po) ==
    \A n \in Reservations :
        /\ po.entry[n].users = Cardinality(UsersOf(po, n))
        /\ po.entry[n].retirement = "closing" => po.entry[n].users = 0
        /\ po.entry[n] # Unreserved => n \in ToSet(po.table) \/ po.entry[n].users > 0

ReadersOK(po) ==
    \A r \in Readers :
        /\ po.reader[r].at \in UsingSteps => po.reader[r].entry \in Reservations
        /\ po.reader[r].at = "leased" => po.entry[po.reader[r].entry].is = "open"
        /\ po.reader[r].at # "violated"

PhaseOK(po) ==
    /\ po.phase \in {"retiring", "closed"} =>
          \A r \in Readers : po.reader[r].at \notin UsingSteps \cup {"returning", "returned"}
    /\ po.phase = "closed" => po.table = <<>>

PoolOK(po) ==
    /\ po \in PoolRecs
    /\ WaitersOK(po) /\ PermitsOK(po) /\ TableOK(po) /\ EntriesOK(po) /\ ReadersOK(po) /\ PhaseOK(po)

LEMMA LeastIsThere ==
  ASSUME NEW S \in SUBSET Nat, S # {}
  PROVE  Min(S) \in S /\ \A y \in S : Min(S) <= y
<1>1. \E x \in S : \A y \in S : ~ (<<y, x>> \in OpToRel(<, Nat))
  BY WFMin, NatLessThanWellFounded
<1>2. PICK x \in S : \A y \in S : ~ (<<y, x>> \in OpToRel(<, Nat)) BY <1>1
<1>3. \A y \in S : x <= y
  <2> SUFFICES ASSUME NEW y \in S PROVE ~ (y < x) OBVIOUS
  <2>1. x \in Nat /\ y \in Nat OBVIOUS
  <2>2. y < x => <<y, x>> \in OpToRel(<, Nat) BY <2>1 DEF OpToRel
  <2> QED BY <1>2, <2>2
<1> QED BY <1>3 DEF Min

(* What is removed from a sequence that names nothing twice is gone.       *)
LEMMA WhatIsRemoved ==
  ASSUME NEW T, NEW s \in Seq(T), Distinct(s), NEW e \in T
  PROVE  /\ RemoveFirst(s, e) \in Seq(T) /\ Distinct(RemoveFirst(s, e))
         /\ ToSet(RemoveFirst(s, e)) = ToSet(s) \ {e}
         /\ Len(RemoveFirst(s, e)) = IF e \in ToSet(s) THEN Len(s) - 1 ELSE Len(s)
<1>0. DOMAIN s = 1 .. Len(s) /\ Len(s) \in Nat /\ \A i \in 1 .. Len(s) : s[i] \in T OBVIOUS
<1>1. CASE e \notin ToSet(s)
  <2>1. ~ \E i \in 1 .. Len(s) : s[i] = e BY <1>0, <1>1 DEF ToSet
  <2>2. RemoveFirst(s, e) = s BY <2>1 DEF RemoveFirst
  <2> QED BY <1>1, <2>2
<1>2. CASE e \in ToSet(s)
  <2> DEFINE I == {i \in 1 .. Len(s) : s[i] = e}
             k == Min(I)
             t == [j \in 1 .. (Len(s) - 1) |-> IF j < k THEN s[j] ELSE s[j + 1]]
  <2>1. I # {} /\ I \in SUBSET Nat BY <1>0, <1>2 DEF ToSet
  <2>2. k \in I BY <2>1, LeastIsThere
  <2>3. RemoveFirst(s, e) = SubSeq(s, 1, k - 1) \o SubSeq(s, k + 1, Len(s))
    BY <2>1 DEF RemoveFirst, SelectInSeq, RemoveAt
  <2> HIDE DEF k, I
  <2>4. k \in 1 .. Len(s) /\ s[k] = e BY <2>2 DEF I
  <2> DEFINE a == SubSeq(s, 1, k - 1)
             b == SubSeq(s, k + 1, Len(s))
  <2>5. a \in Seq(T) /\ Len(a) = k - 1 /\ \A j \in 1 .. (k - 1) : a[j] = s[j]
    BY <1>0, <2>4
  <2>6. b \in Seq(T) /\ Len(b) = Len(s) - k /\ \A j \in 1 .. (Len(s) - k) : b[j] = s[k + j]
    <3>1. k + 1 \in 1 .. (Len(s) + 1) /\ Len(s) \in k .. Len(s) BY <1>0, <2>4
    <3>2. b = [j \in 1 .. (Len(s) - k) |-> s[k + j]]
      <4>1. b = [j \in 1 .. (1 + Len(s) - (k + 1)) |-> s[j + (k + 1) - 1]] BY <1>0, <2>4
      <4>2. 1 + Len(s) - (k + 1) = Len(s) - k BY <1>0, <2>4
      <4>3. \A j \in 1 .. (Len(s) - k) : j + (k + 1) - 1 = k + j BY <1>0, <2>4
      <4> QED BY <4>1, <4>2, <4>3
    <3>3. \A j \in 1 .. (Len(s) - k) : s[k + j] \in T BY <1>0, <2>4
    <3>4. Len(s) - k \in Nat BY <1>0, <2>4
    <3> HIDE DEF b
    <3> QED BY <3>2, <3>3, <3>4
  <2> HIDE DEF a, b
  <2> DEFINE c == a \o b
  <2>7. c \in Seq(T) /\ Len(c) = Len(s) - 1
    <3>1. c \in Seq(T) BY <2>5, <2>6
    <3>2. Len(c) = Len(a) + Len(b)
      <4>1. a \in Seq(T) /\ b \in Seq(T) BY <2>5, <2>6
      <4> QED BY <4>1
    <3> QED BY <1>0, <2>4, <2>5, <2>6, <3>1, <3>2
  <2>8. \A j \in 1 .. (Len(s) - 1) : c[j] = IF j < k THEN s[j] ELSE s[j + 1]
    <3> SUFFICES ASSUME NEW j \in 1 .. (Len(s) - 1)
                 PROVE  c[j] = IF j < k THEN s[j] ELSE s[j + 1]
      OBVIOUS
    <3>1. CASE j < k
      <4>1. c[j] = a[j] BY <1>0, <2>4, <2>5, <2>6, <3>1
      <4>2. j \in 1 .. (k - 1) BY <1>0, <2>4, <3>1
      <4> QED BY <2>5, <3>1, <4>1, <4>2
    <3>2. CASE ~ (j < k)
      <4>1. c[j] = b[j - (k - 1)] BY <1>0, <2>4, <2>5, <2>6, <3>2
      <4>2. j - (k - 1) \in 1 .. (Len(s) - k) /\ k + (j - (k - 1)) = j + 1
        BY <1>0, <2>4, <3>2
      <4> QED BY <2>6, <3>2, <4>1, <4>2
    <3> QED BY <3>1, <3>2
  <2>9. RemoveFirst(s, e) = c BY <2>3 DEF a, b
  <2> HIDE DEF c
  <2>10. Distinct(c)
    <3> SUFFICES ASSUME NEW i \in 1 .. (Len(s) - 1), NEW j \in 1 .. (Len(s) - 1), c[i] = c[j]
                 PROVE  i = j
      BY <2>7 DEF Distinct
    <3> DEFINE p == IF i < k THEN i ELSE i + 1
               q == IF j < k THEN j ELSE j + 1
    <3>1. p \in 1 .. Len(s) /\ q \in 1 .. Len(s) BY <1>0, <2>4
    <3>2. c[i] = s[p] /\ c[j] = s[q] BY <2>8
    <3> HIDE DEF p, q
    <3>3. p = q BY <3>1, <3>2 DEF Distinct
    <3> QED BY <1>0, <2>4, <3>3 DEF p, q
  <2>11. ToSet(c) = ToSet(s) \ {e}
    <3>1. DOMAIN c = 1 .. (Len(s) - 1) BY <1>0, <2>7
    <3>2. ASSUME NEW x \in ToSet(c) PROVE x \in ToSet(s) \ {e}
      <4>1. PICK j \in 1 .. (Len(s) - 1) : x = c[j] BY <3>1 DEF ToSet
      <4> DEFINE p == IF j < k THEN j ELSE j + 1
      <4>2. p \in 1 .. Len(s) /\ p # k BY <1>0, <2>4
      <4>3. x = s[p] BY <2>8, <4>1
      <4>4. x # e BY <2>4, <4>2, <4>3 DEF Distinct
      <4> QED BY <1>0, <4>2, <4>3, <4>4 DEF ToSet
    <3>3. ASSUME NEW x \in ToSet(s) \ {e} PROVE x \in ToSet(c)
      <4>1. PICK i \in 1 .. Len(s) : x = s[i] BY <1>0 DEF ToSet
      <4>2. i # k BY <2>4, <4>1
      <4> DEFINE j == IF i < k THEN i ELSE i - 1
      <4>3. j \in 1 .. (Len(s) - 1) /\ (IF j < k THEN j ELSE j + 1) = i BY <1>0, <2>4, <4>2
      <4>4. c[j] = s[i] BY <2>8, <4>3
      <4> QED BY <3>1, <4>1, <4>3, <4>4 DEF ToSet
    <3> QED BY <3>2, <3>3
  <2> QED BY <1>2, <2>7, <2>9, <2>10, <2>11
<1> QED BY <1>1, <1>2

LEMMA NumberIsRemoved ==
  ASSUME NEW s \in Seq(Reservations), Distinct(s), NEW e \in Reservations
  PROVE  /\ RemoveFirst(s, e) \in Seq(Reservations) /\ Distinct(RemoveFirst(s, e))
         /\ ToSet(RemoveFirst(s, e)) = ToSet(s) \ {e}
         /\ Len(RemoveFirst(s, e)) = IF e \in ToSet(s) THEN Len(s) - 1 ELSE Len(s)
BY WhatIsRemoved

(* What is appended is the last.                                           *)
LEMMA WhatIsAppended ==
  ASSUME NEW T, NEW s \in Seq(T), Distinct(s), NEW e \in T \ ToSet(s)
  PROVE  /\ Append(s, e) \in Seq(T) /\ Distinct(Append(s, e))
         /\ ToSet(Append(s, e)) = ToSet(s) \cup {e}
         /\ Len(Append(s, e)) = Len(s) + 1
<1> DEFINE t == Append(s, e)
<1>1. DOMAIN s = 1 .. Len(s) /\ Len(s) \in Nat OBVIOUS
<1>2. t \in Seq(T) /\ Len(t) = Len(s) + 1 /\ DOMAIN t = 1 .. (Len(s) + 1)
      /\ t[Len(s) + 1] = e /\ \A i \in 1 .. Len(s) : t[i] = s[i]
  OBVIOUS
<1> HIDE DEF t
<1>3. \A i \in 1 .. Len(s) : s[i] \in ToSet(s) /\ s[i] # e BY <1>1 DEF ToSet
<1>4. Distinct(t)
  <2> SUFFICES ASSUME NEW i \in 1 .. (Len(s) + 1), NEW j \in 1 .. (Len(s) + 1), t[i] = t[j]
               PROVE  i = j
    BY <1>2 DEF Distinct
  <2>1. CASE i \in 1 .. Len(s) /\ j \in 1 .. Len(s) BY <1>2, <2>1 DEF Distinct
  <2>2. CASE i = Len(s) + 1 \/ j = Len(s) + 1 BY <1>1, <1>2, <1>3, <2>2
  <2> QED BY <1>1, <2>1, <2>2
<1>5. ToSet(t) = ToSet(s) \cup {e}
  <2>1. ASSUME NEW x \in ToSet(t) PROVE x \in ToSet(s) \cup {e}
    <3>1. PICK i \in 1 .. (Len(s) + 1) : x = t[i] BY <1>2 DEF ToSet
    <3>2. i = Len(s) + 1 \/ i \in 1 .. Len(s) BY <1>1
    <3> QED BY <1>2, <1>3, <3>1, <3>2
  <2>2. ASSUME NEW x \in ToSet(s) PROVE x \in ToSet(t)
    <3>1. PICK i \in 1 .. Len(s) : x = s[i] BY <1>1 DEF ToSet
    <3>2. i \in DOMAIN t /\ t[i] = x BY <1>1, <1>2, <3>1
    <3> QED BY <3>2 DEF ToSet
  <2>3. e \in ToSet(t)
    <3>1. Len(s) + 1 \in DOMAIN t BY <1>1, <1>2
    <3> QED BY <1>2, <3>1 DEF ToSet
  <2> QED BY <2>1, <2>2, <2>3
<1> QED BY <1>2, <1>4, <1>5 DEF t

(* A sequence that names nothing twice is as long as what it names.        *)
LEMMA AsManyAsPlaces ==
  ASSUME NEW T, NEW s \in Seq(T), Distinct(s)
  PROVE  IsFiniteSet(ToSet(s)) /\ Cardinality(ToSet(s)) = Len(s)
<1>1. DOMAIN s = 1 .. Len(s) /\ Len(s) \in Nat OBVIOUS
<1>2. s \in Bijection(1 .. Len(s), ToSet(s))
  <2>1. s \in [1 .. Len(s) -> ToSet(s)] BY <1>1 DEF ToSet
  <2>2. \A y \in ToSet(s) : \E i \in 1 .. Len(s) : s[i] = y BY <1>1 DEF ToSet
  <2> QED BY <2>1, <2>2 DEF Bijection, Injection, Surjection, IsInjective, Distinct
<1>3. IsFiniteSet(1 .. Len(s)) /\ Cardinality(1 .. Len(s)) = Len(s)
  BY <1>1, FS_Interval
<1>4. s \in Injection(1 .. Len(s), ToSet(s)) /\ s \in Surjection(1 .. Len(s), ToSet(s))
  BY <1>2 DEF Bijection
<1> QED BY <1>3, <1>4, FS_Surjection

LEMMA CountsAreNumbers ==
  ASSUME NEW po
  PROVE  /\ IsFiniteSet(Holders(po)) /\ Cardinality(Holders(po)) \in Nat
         /\ \A n : IsFiniteSet(UsersOf(po, n)) /\ Cardinality(UsersOf(po, n)) \in Nat
<1>1. Holders(po) \in SUBSET Readers /\ \A n : UsersOf(po, n) \in SUBSET Readers
  BY DEF Holders, UsersOf
<1>2. IsFiniteSet(Readers) BY HandlesAssumption
<1>3. \A S \in SUBSET Readers : IsFiniteSet(S) BY <1>2, FS_Subset
<1>4. \A S \in SUBSET Readers : IsFiniteSet(S) /\ Cardinality(S) \in Nat
  BY <1>3, FS_CardinalityType
<1> QED BY <1>1, <1>4

LEMMA OneMore ==
  ASSUME NEW S, IsFiniteSet(S), NEW x, x \notin S, NEW T, T = S \cup {x}
  PROVE  Cardinality(T) = Cardinality(S) + 1
BY FS_AddElement

LEMMA OneLess ==
  ASSUME NEW S, IsFiniteSet(S), NEW x \in S, NEW T, T = S \ {x}
  PROVE  Cardinality(T) = Cardinality(S) - 1 /\ Cardinality(S) \in Nat /\ Cardinality(S) > 0
<1>1. Cardinality(T) = Cardinality(S) - 1 /\ IsFiniteSet(T) BY FS_RemoveElement
<1>2. Cardinality(S) \in Nat /\ Cardinality(T) \in Nat BY <1>1, FS_CardinalityType
<1> QED BY <1>1, <1>2

(* A reading goes on, or takes another note of what it waits for, and      *)
(* keeps its permit and its entry.                                         *)
LEMMA ReaderMoves ==
  ASSUME NEW po, PoolOK(po), NEW q \in PoolRecs, NEW r \in Readers,
         q.phase = po.phase, q.permits = po.permits, q.waiters = po.waiters,
         q.entry = po.entry, q.table = po.table,
         \A x \in Readers : x # r => q.reader[x] = po.reader[x],
         po.reader[r].at # "queued",
         \/ po.reader[r].at \notin HoldingSteps /\ q.reader[r].at \notin HoldingSteps \cup {"violated"}
         \/ po.reader[r].at = "entering" /\ q.reader[r].at = "awaiting"
         \/ /\ po.reader[r].at \in UsingSteps /\ q.reader[r].at \in UsingSteps
            /\ q.reader[r].entry = po.reader[r].entry
            /\ q.reader[r].at = "leased" => po.entry[po.reader[r].entry].is = "open"
  PROVE  PoolOK(q)
<1>1. Holders(q) = Holders(po) BY DEF Holders, HoldingSteps, UsingSteps
<1>2. ASSUME NEW n \in Reservations PROVE UsersOf(q, n) = UsersOf(po, n)
  BY DEF UsersOf, HoldingSteps, UsingSteps
<1>3. po \in PoolRecs BY DEF PoolOK
<1>4. WaitersOK(q)
  <2>1. \A i \in 1 .. Len(po.waiters) : po.waiters[i] \in Readers BY <1>3 DEF PoolRecs
  <2> QED BY <2>1 DEF PoolOK, WaitersOK
<1>5. PermitsOK(q) BY <1>1 DEF PoolOK, PermitsOK
<1>6. TableOK(q) BY DEF PoolOK, TableOK
<1>7. EntriesOK(q) BY <1>2 DEF PoolOK, EntriesOK
<1>8. ReadersOK(q) BY DEF PoolOK, ReadersOK, HoldingSteps, UsingSteps
<1>9. PhaseOK(q) BY DEF PoolOK, PhaseOK, HoldingSteps, UsingSteps
<1> QED BY <1>4, <1>5, <1>6, <1>7, <1>8, <1>9 DEF PoolOK

(* The pack of an entry is opened, or its retirement goes on.              *)
LEMMA EntryMoves ==
  ASSUME NEW po, PoolOK(po), NEW q \in PoolRecs, NEW n \in Reservations,
         q.phase = po.phase, q.permits = po.permits, q.waiters = po.waiters,
         q.reader = po.reader, q.table = po.table,
         \A m \in Reservations : m # n => q.entry[m] = po.entry[m],
         q.entry[n].users = po.entry[n].users,
         n \in ToSet(po.table),
         po.entry[n].is = "open" => q.entry[n].is = "open",
         q.entry[n].retirement = "closing" => po.entry[n].users = 0
  PROVE  PoolOK(q)
<1>1. Holders(q) = Holders(po) /\ \A m : UsersOf(q, m) = UsersOf(po, m) BY DEF Holders, UsersOf
<1>2. WaitersOK(q) BY DEF PoolOK, WaitersOK
<1>3. PermitsOK(q) BY <1>1 DEF PoolOK, PermitsOK
<1>4. TableOK(q)
  <2>1. ASSUME NEW m \in Reservations, q.entry[m].is \in Opened \/ q.entry[m].retirement # "none"
        PROVE  m \in ToSet(q.table)
    <3>1. CASE m = n BY <3>1
    <3>2. CASE m # n BY <2>1, <3>2 DEF PoolOK, TableOK
    <3> QED BY <3>1, <3>2
  <2> QED BY <2>1 DEF PoolOK, TableOK
<1>5. EntriesOK(q) 
  <2> SUFFICES ASSUME NEW m \in Reservations
               PROVE  /\ q.entry[m].users = Cardinality(UsersOf(q, m))
                      /\ q.entry[m].retirement = "closing" => q.entry[m].users = 0
                      /\ q.entry[m] # Unreserved => m \in ToSet(q.table) \/ q.entry[m].users > 0
    BY DEF EntriesOK
  <2>1. CASE m = n BY <1>1, <2>1 DEF PoolOK, EntriesOK
  <2>2. CASE m # n BY <1>1, <2>2 DEF PoolOK, EntriesOK
  <2> QED BY <2>1, <2>2
<1>6. ReadersOK(q)
  <2> SUFFICES ASSUME NEW x \in Readers
               PROVE  /\ q.reader[x].at \in UsingSteps => q.reader[x].entry \in Reservations
                      /\ q.reader[x].at = "leased" => q.entry[q.reader[x].entry].is = "open"
                      /\ q.reader[x].at # "violated"
    BY DEF ReadersOK
  <2>1. /\ po.reader[x].at \in UsingSteps => po.reader[x].entry \in Reservations
        /\ po.reader[x].at = "leased" => po.entry[po.reader[x].entry].is = "open"
        /\ po.reader[x].at # "violated"
    BY DEF PoolOK, ReadersOK
  <2> QED BY <2>1 DEF UsingSteps
<1>7. PhaseOK(q) BY DEF PoolOK, PhaseOK
<1> QED BY <1>2, <1>3, <1>4, <1>5, <1>6, <1>7 DEF PoolOK

(* Who can be asked about in the invariant, as separate facts.             *)
LEMMA PoolParts ==
  ASSUME NEW po, PoolOK(po)
  PROVE  /\ po \in PoolRecs /\ WaitersOK(po) /\ PermitsOK(po) /\ TableOK(po)
         /\ EntriesOK(po) /\ ReadersOK(po) /\ PhaseOK(po)
         /\ po.reader \in [Readers -> ReaderRecs] /\ po.entry \in [Reservations -> EntryRecs]
         /\ po.table \in Seq(Reservations) /\ po.waiters \in Seq(Readers)
         /\ po.permits \in 0 .. MaxHandles
BY DEF PoolOK, PoolRecs

LEMMA RetiredKeeps ==
  ASSUME NEW po, PoolOK(po), NEW n \in ToSet(po.table)
  PROVE  /\ PoolOK(Retired(po, n))
         /\ Retired(po, n).reader = po.reader /\ Retired(po, n).phase = po.phase
         /\ Retired(po, n).table = po.table /\ Retired(po, n).permits = po.permits
         /\ Retired(po, n).waiters = po.waiters
         /\ \A m \in Reservations :
               Retired(po, n).entry[m] =
                   IF m = n /\ po.entry[n].retirement = "none"
                   THEN [po.entry[n] EXCEPT !.retirement = "waiting"] ELSE po.entry[m]
<1> DEFINE q == Retired(po, n)
<1>0. po \in PoolRecs /\ n \in Reservations BY PoolParts DEF ToSet, PoolRecs
<1>1. CASE po.entry[n].retirement # "none" BY <1>1 DEF Retired
<1>2. CASE po.entry[n].retirement = "none"
  <2>1. q = [po EXCEPT !.entry[n].retirement = "waiting"] BY <1>2 DEF Retired
  <2> HIDE DEF q
  <2>2. q.phase = po.phase /\ q.permits = po.permits /\ q.waiters = po.waiters
        /\ q.reader = po.reader /\ q.table = po.table
    BY <1>0, <2>1 DEF PoolRecs
  <2>3. q.entry = [po.entry EXCEPT ![n].retirement = "waiting"] BY <1>0, <2>1 DEF PoolRecs
  <2>4. po.entry \in [Reservations -> EntryRecs] BY <1>0 DEF PoolRecs
  <2>5. \A m \in Reservations : q.entry[m] =
                   IF m = n THEN [po.entry[n] EXCEPT !.retirement = "waiting"] ELSE po.entry[m]
    BY <1>0, <2>3, <2>4
  <2>6. q.entry \in [Reservations -> EntryRecs] BY <1>0, <2>3, <2>4 DEF EntryRecs
  <2>7. q \in PoolRecs BY <1>0, <2>1, <2>6 DEF PoolRecs
  <2>8. q.entry[n] = [po.entry[n] EXCEPT !.retirement = "waiting"] /\ po.entry[n] \in EntryRecs
    BY <1>0, <2>4, <2>5
  <2>9. q.entry[n].users = po.entry[n].users /\ q.entry[n].is = po.entry[n].is
        /\ q.entry[n].retirement = "waiting"
    BY <2>8 DEF EntryRecs
  <2>10. PoolOK(q) BY <1>0, <2>2, <2>5, <2>7, <2>9, EntryMoves
  <2> QED BY <1>2, <2>2, <2>5, <2>10 DEF q
<1> QED BY <1>1, <1>2

(* An entry leaves the table while it is in use and was not to be had.     *)
LEMMA DeletedKeeps ==
  ASSUME NEW po, PoolOK(po), NEW n \in Reservations, po.entry[n].is \notin Opened,
         po.entry[n].retirement = "none", po.entry[n].users > 0
  PROVE  /\ PoolOK(Deleted(po, n))
         /\ Deleted(po, n).reader = po.reader /\ Deleted(po, n).entry = po.entry
         /\ Deleted(po, n).phase = po.phase
<1> DEFINE q == Deleted(po, n)
           t == RemoveFirst(po.table, n)
<1>0. po \in PoolRecs /\ po.table \in Seq(Reservations) BY PoolParts
<1>1. q = [po EXCEPT !.table = t] BY DEF Deleted
<1>2. t \in Seq(Reservations) /\ Distinct(t) /\ ToSet(t) = ToSet(po.table) \ {n}
      /\ Len(t) <= Len(po.table)
  <2>1. Distinct(po.table) BY DEF PoolOK, TableOK
  <2>2. t \in Seq(Reservations) /\ Distinct(t) /\ ToSet(t) = ToSet(po.table) \ {n}
        /\ Len(t) = IF n \in ToSet(po.table) THEN Len(po.table) - 1 ELSE Len(po.table)
    <3>1. po.table \in Seq(Reservations) BY <1>0
    <3> QED BY <2>1, <3>1, NumberIsRemoved
  <2>3. Len(po.table) \in Nat BY <1>0
  <2> QED BY <2>2, <2>3
<1> HIDE DEF q, t
<1>3. /\ q.phase = po.phase /\ q.permits = po.permits /\ q.waiters = po.waiters
      /\ q.entry = po.entry /\ q.reader = po.reader /\ q.table = t
  BY <1>0, <1>1 DEF PoolRecs
<1>4. q \in PoolRecs BY <1>0, <1>1, <1>2 DEF PoolRecs
<1>5. WaitersOK(po) /\ PermitsOK(po) /\ TableOK(po) /\ EntriesOK(po) /\ ReadersOK(po) /\ PhaseOK(po)
  BY PoolParts
<1>6. Holders(q) = Holders(po) /\ \A m : UsersOf(q, m) = UsersOf(po, m)
  BY <1>3 DEF Holders, UsersOf
<1>7. WaitersOK(q) BY <1>3, <1>5 DEF WaitersOK
<1>8. PermitsOK(q) BY <1>3, <1>5, <1>6 DEF PermitsOK
<1>9. TableOK(q)
  <2>1. Len(t) <= MaxHandles
    <3>1. Len(po.table) <= MaxHandles BY <1>5 DEF TableOK
    <3>2. Len(t) \in Nat /\ Len(po.table) \in Nat /\ MaxHandles \in Nat
      BY <1>0, <1>2, HandlesAssumption
    <3> QED BY <1>2, <3>1, <3>2
  <2>2. \A m \in Reservations :
           po.entry[m].is \in Opened \/ po.entry[m].retirement # "none" => m \in ToSet(t)
    BY <1>2, <1>5 DEF TableOK
  <2> QED BY <1>2, <1>3, <2>1, <2>2 DEF TableOK
<1>10. EntriesOK(q)
  <2> SUFFICES ASSUME NEW m \in Reservations
               PROVE  /\ po.entry[m].users = Cardinality(UsersOf(po, m))
                      /\ po.entry[m].retirement = "closing" => po.entry[m].users = 0
                      /\ po.entry[m] # Unreserved => m \in ToSet(t) \/ po.entry[m].users > 0
    BY <1>3, <1>6 DEF EntriesOK
  <2> QED BY <1>2, <1>5 DEF EntriesOK
<1>11. ReadersOK(q) BY <1>3, <1>5 DEF ReadersOK
<1>12. PhaseOK(q)
  <2>1. q.phase # "closed"
    <3>1. CASE po.phase # "closed" BY <1>3, <3>1
    <3>2. CASE po.phase = "closed"
      <4>1. UsersOf(po, n) = {} BY <1>5, <3>2 DEF PhaseOK, UsersOf
      <4>2. po.entry[n].users = 0 BY <1>5, <4>1, FS_EmptySet DEF EntriesOK
      <4> QED BY <4>2
    <3> QED BY <3>1, <3>2
  <2> QED BY <1>3, <1>5, <2>1 DEF PhaseOK
<1> QED BY <1>3, <1>4, <1>7, <1>8, <1>9, <1>10, <1>11, <1>12 DEF PoolOK, q

(* A reading gives its permit back, and the first who waits is woken.      *)
LEMMA PermitComesBack ==
  ASSUME NEW po \in PoolRecs, WaitersOK(po), NEW r \in Readers, po.reader[r].at # "queued",
         NEW step \in {"idle", "missed"}
  PROVE  LET q == Goes(PermitBack(po), r, step) IN
         /\ q \in PoolRecs /\ WaitersOK(q)
         /\ q.phase = po.phase /\ q.entry = po.entry /\ q.table = po.table
         /\ q.permits <= po.permits + 1
         /\ q.reader[r].at = step
         /\ \A x \in Readers : x # r =>
               \/ q.reader[x] = po.reader[x]
               \/ po.reader[x].at = "queued" /\ q.reader[x].at = "woken"
<1> DEFINE b == PermitBack(po)
           q == Goes(b, r, step)
           y == Head(po.waiters)
           rec == IF step = "idle" THEN NoReading ELSE [b.reader[r] EXCEPT !.at = step]
           more == IF po.permits < MaxHandles THEN po.permits + 1 ELSE po.permits
<1>0. /\ po.permits \in 0 .. MaxHandles /\ MaxHandles \in Nat /\ po.waiters \in Seq(Readers)
      /\ po.reader \in [Readers -> ReaderRecs]
  BY HandlesAssumption DEF PoolRecs
<1>1. more \in 0 .. MaxHandles /\ more <= po.permits + 1 BY <1>0
<1>2. /\ b \in PoolRecs /\ b.phase = po.phase /\ b.entry = po.entry /\ b.table = po.table
      /\ b.permits <= po.permits + 1 /\ b.reader[r] = po.reader[r]
      /\ WaitersOK(b)
      /\ \A x \in Readers :
               \/ b.reader[x] = po.reader[x]
               \/ po.reader[x].at = "queued" /\ b.reader[x].at = "woken"
  <2>1. CASE po.waiters = <<>>
    <3>1. b = [po EXCEPT !.permits = more] BY <2>1 DEF PermitBack
    <3> HIDE DEF b, more
    <3>2. /\ b \in PoolRecs /\ b.phase = po.phase /\ b.entry = po.entry /\ b.table = po.table
          /\ b.permits = more /\ b.reader = po.reader /\ b.waiters = po.waiters
      BY <1>1, <3>1 DEF PoolRecs
    <3> QED BY <1>1, <3>2 DEF WaitersOK
  <2>2. CASE po.waiters # <<>>
    <3>1. b = [po EXCEPT !.permits = more, !.waiters = Tail(po.waiters), !.reader[y].at = "woken"]
      BY <2>2 DEF PermitBack, PoolRecs
    <3>2. y \in Readers /\ y = po.waiters[1] /\ 1 \in 1 .. Len(po.waiters)
          /\ Tail(po.waiters) \in Seq(Readers)
          /\ Len(Tail(po.waiters)) = Len(po.waiters) - 1
          /\ \A i \in 1 .. (Len(po.waiters) - 1) : Tail(po.waiters)[i] = po.waiters[i + 1]
      BY <1>0, <2>2
    <3>3. po.reader[y].at = "queued" BY <3>2 DEF WaitersOK
    <3> DEFINE tail == Tail(po.waiters)
               woken == [po.reader[y] EXCEPT !.at = "woken"]
    <3> HIDE DEF y, more
    <3>4. woken \in ReaderRecs /\ woken.at = "woken" BY <1>0, <3>2 DEF ReaderRecs, ReaderSteps
    <3>5. b = [po EXCEPT !.permits = more, !.waiters = tail, !.reader[y] = woken] BY <3>1
    <3> HIDE DEF b, tail, woken
    <3>6. /\ b.phase = po.phase /\ b.entry = po.entry /\ b.table = po.table
          /\ b.permits = more /\ b.waiters = tail /\ b.reader = [po.reader EXCEPT ![y] = woken]
      BY <3>5 DEF PoolRecs
    <3>7. [po.reader EXCEPT ![y] = woken] \in [Readers -> ReaderRecs] BY <1>0, <3>4
    <3>8. tail \in Seq(Readers) BY <3>2 DEF tail
    <3>9. b \in PoolRecs BY <1>1, <3>5, <3>7, <3>8 DEF PoolRecs
    <3>10. \A x \in Readers : b.reader[x] = IF x = y THEN woken ELSE po.reader[x]
      BY <1>0, <3>6
    <3>11. WaitersOK(b)
      <4> DEFINE k == Len(po.waiters)
      <4>1. k \in Nat /\ Len(tail) = k - 1 /\ \A i \in 1 .. (k - 1) : tail[i] = po.waiters[i + 1]
        BY <1>0, <3>2 DEF tail
      <4>2. \A i \in 1 .. (k - 1) :
               /\ i + 1 \in 1 .. k /\ i + 1 # 1
               /\ po.waiters[i + 1] \in Readers
               /\ po.waiters[i + 1] # y
               /\ po.reader[po.waiters[i + 1]].at = "queued"
        <5> SUFFICES ASSUME NEW i \in 1 .. (k - 1)
                     PROVE  /\ i + 1 \in 1 .. k /\ i + 1 # 1
                            /\ po.waiters[i + 1] \in Readers
                            /\ po.waiters[i + 1] # y
                            /\ po.reader[po.waiters[i + 1]].at = "queued"
          OBVIOUS
        <5>1. i + 1 \in 1 .. k /\ i + 1 # 1 BY <4>1
        <5>2. po.waiters[i + 1] # y BY <3>2, <5>1 DEF WaitersOK, Distinct
        <5>3. po.waiters[i + 1] \in Readers BY <1>0, <5>1
        <5> QED BY <5>1, <5>2, <5>3 DEF WaitersOK
      <4>3. Distinct(tail)
        <5> SUFFICES ASSUME NEW i \in 1 .. (k - 1), NEW j \in 1 .. (k - 1), tail[i] = tail[j]
                     PROVE  i = j
          BY <4>1 DEF Distinct
        <5>1. po.waiters[i + 1] = po.waiters[j + 1] BY <4>1
        <5>2. i + 1 = j + 1 BY <4>2, <5>1 DEF WaitersOK, Distinct
        <5> QED BY <4>1, <5>2
      <4>4. \A i \in 1 .. (k - 1) : b.reader[tail[i]].at = "queued" BY <3>10, <4>1, <4>2
      <4> HIDE DEF k
      <4> QED BY <3>6, <4>1, <4>3, <4>4 DEF WaitersOK
    <3>12. r # y BY <3>3
    <3> QED BY <1>1, <3>3, <3>4, <3>6, <3>9, <3>10, <3>11, <3>12
  <2> QED BY <2>1, <2>2
<1> HIDE DEF b
<1>3. q = [b EXCEPT !.reader[r] = rec] BY <1>2 DEF Goes, PoolRecs
<1>4. b.reader \in [Readers -> ReaderRecs] BY <1>2 DEF PoolRecs
<1>5. rec \in ReaderRecs /\ rec.at = step
  <2>1. CASE step = "idle" BY <2>1 DEF NoReading, ReaderRecs, ReaderSteps, PackNames
  <2>2. CASE step # "idle" BY <1>4, <2>2 DEF ReaderRecs, ReaderSteps
  <2> QED BY <2>1, <2>2
<1> HIDE DEF q, rec
<1>6. /\ q.phase = b.phase /\ q.permits = b.permits /\ q.waiters = b.waiters
      /\ q.entry = b.entry /\ q.table = b.table /\ q.reader = [b.reader EXCEPT ![r] = rec]
  BY <1>2, <1>3 DEF PoolRecs
<1>7. [b.reader EXCEPT ![r] = rec] \in [Readers -> ReaderRecs] BY <1>4, <1>5
<1>8. q \in PoolRecs BY <1>2, <1>3, <1>7 DEF PoolRecs
<1>9. q.reader[r] = rec /\ \A x \in Readers : x # r => q.reader[x] = b.reader[x] BY <1>4, <1>6
<1>10. WaitersOK(q)
  <2>1. \A i \in 1 .. Len(b.waiters) : b.waiters[i] \in Readers /\ b.reader[b.waiters[i]].at = "queued"
    BY <1>2 DEF PoolRecs, WaitersOK
  <2>2. \A i \in 1 .. Len(b.waiters) : b.waiters[i] # r BY <1>2, <2>1
  <2>3. \A i \in 1 .. Len(b.waiters) : q.reader[b.waiters[i]].at = "queued" BY <1>9, <2>1, <2>2
  <2>4. Distinct(b.waiters) BY <1>2 DEF WaitersOK
  <2>5. q.waiters = b.waiters BY <1>6
  <2> QED BY <2>3, <2>4, <2>5 DEF WaitersOK
<1>11. /\ q.phase = po.phase /\ q.entry = po.entry /\ q.table = po.table
       /\ q.permits <= po.permits + 1
       /\ q.reader[r].at = step
       /\ \A x \in Readers : x # r =>
             \/ q.reader[x] = po.reader[x]
             \/ po.reader[x].at = "queued" /\ q.reader[x].at = "woken"
  BY <1>2, <1>5, <1>6, <1>9
<1> QED BY <1>8, <1>10, <1>11 DEF q, b

(* A reading that has a permit but no entry leaves with its permit.        *)
LEMMA LeavesWithPermit ==
  ASSUME NEW po \in PoolRecs, WaitersOK(po), PermitsOK(po), TableOK(po), EntriesOK(po), PhaseOK(po),
         NEW r \in Readers, po.reader[r].at \in HoldingSteps, po.reader[r].at \notin UsingSteps,
         \A x \in Readers :
            /\ po.reader[x].at \in UsingSteps => po.reader[x].entry \in Reservations
            /\ po.reader[x].at = "leased" => po.entry[po.reader[x].entry].is = "open"
            /\ po.reader[x].at # "violated",
         NEW step \in {"idle", "missed"}
  PROVE  PoolOK(Goes(PermitBack(po), r, step))
<1> DEFINE q == Goes(PermitBack(po), r, step)
<1>1. /\ q \in PoolRecs /\ WaitersOK(q)
      /\ q.phase = po.phase /\ q.entry = po.entry /\ q.table = po.table
      /\ q.permits <= po.permits + 1
      /\ q.reader[r].at = step
      /\ \A x \in Readers : x # r =>
               \/ q.reader[x] = po.reader[x]
               \/ po.reader[x].at = "queued" /\ q.reader[x].at = "woken"
  <2>1. po.reader[r].at # "queued" BY DEF HoldingSteps
  <2> QED BY <2>1, PermitComesBack
<1> HIDE DEF q
<1>2. Holders(q) = Holders(po) \ {r} BY <1>1 DEF Holders, HoldingSteps
<1>3. \A m : UsersOf(q, m) = UsersOf(po, m)
  <2> SUFFICES ASSUME NEW m PROVE UsersOf(q, m) = UsersOf(po, m) OBVIOUS
  <2>1. \A x \in Readers : x # r =>
          ((q.reader[x].at \in UsingSteps /\ q.reader[x].entry = m)
              <=> (po.reader[x].at \in UsingSteps /\ po.reader[x].entry = m))
    BY <1>1 DEF UsingSteps
  <2>2. q.reader[r].at \notin UsingSteps BY <1>1 DEF UsingSteps
  <2> QED BY <2>1, <2>2 DEF UsersOf
<1>4. PermitsOK(q)
  <2>1. r \in Holders(po) BY DEF Holders
  <2>2. Cardinality(Holders(q)) = Cardinality(Holders(po)) - 1 /\ Cardinality(Holders(po)) \in Nat
    BY <1>2, <2>1, CountsAreNumbers, OneLess
  <2>3. q.permits \in Nat /\ po.permits \in Nat /\ MaxHandles \in Nat
    BY <1>1, HandlesAssumption DEF PoolRecs
  <2> QED BY <1>1, <2>2, <2>3 DEF PermitsOK
<1>5. TableOK(q) BY <1>1 DEF TableOK
<1>6. EntriesOK(q) BY <1>1, <1>3 DEF EntriesOK
<1>7. ReadersOK(q)
  <2> SUFFICES ASSUME NEW x \in Readers
               PROVE  /\ q.reader[x].at \in UsingSteps => q.reader[x].entry \in Reservations
                      /\ q.reader[x].at = "leased" => q.entry[q.reader[x].entry].is = "open"
                      /\ q.reader[x].at # "violated"
    BY DEF ReadersOK
  <2>1. CASE x = r BY <1>1, <2>1 DEF UsingSteps
  <2>2. CASE x # r BY <1>1, <2>2 DEF UsingSteps
  <2> QED BY <2>1, <2>2
<1>8. PhaseOK(q)
  <2>1. ASSUME q.phase \in {"retiring", "closed"}, NEW x \in Readers
        PROVE  q.reader[x].at \notin UsingSteps \cup {"returning", "returned"}
    <3>1. po.reader[x].at \notin UsingSteps \cup {"returning", "returned"} BY <1>1, <2>1 DEF PhaseOK
    <3>2. CASE x = r BY <1>1, <3>2 DEF UsingSteps
    <3>3. CASE x # r BY <1>1, <3>1, <3>3 DEF UsingSteps
    <3> QED BY <3>2, <3>3
  <2> QED BY <1>1, <2>1 DEF PhaseOK
<1> QED BY <1>1, <1>4, <1>5, <1>6, <1>7, <1>8 DEF PoolOK, q

(* A lease ends, and with it the use of the entry.                         *)
LEMMA ReleasedKeeps ==
  ASSUME NEW po, PoolOK(po), NEW r \in Readers, po.reader[r].at \in UsingSteps,
         NEW next \in {"idle", "missed"}
  PROVE  PoolOK(Released(po, r, next))
<1> DEFINE n == po.reader[r].entry
           e == po.entry[n]
           less == [e EXCEPT !.users = @ - 1]
           fewer == [po EXCEPT !.entry[n].users = @ - 1]
           last == fewer.entry[n].users = 0
           en == IF last /\ n \notin ToSet(po.table) THEN Unreserved ELSE less
<1>0. /\ po \in PoolRecs /\ po.reader \in [Readers -> ReaderRecs]
      /\ po.entry \in [Reservations -> EntryRecs] /\ n \in Reservations /\ e \in EntryRecs
  BY PoolParts DEF ReadersOK
<1>1. r \in UsersOf(po, n) BY DEF UsersOf
<1>2. e.users = Cardinality(UsersOf(po, n)) BY <1>0 DEF PoolOK, EntriesOK
<1>3. e.users \in Nat /\ e.users > 0 BY <1>0, <1>1, <1>2, CountsAreNumbers, OneLess
<1>4. less \in EntryRecs /\ less.users = e.users - 1 /\ less.is = e.is
      /\ less.retirement = e.retirement /\ less.pack = e.pack
  <2> DEFINE count == e.users - 1
  <2>1. e \in EntryRecs /\ count \in Nat BY <1>0, <1>3
  <2>2. less = [e EXCEPT !.users = count] OBVIOUS
  <2> HIDE DEF e, less, count
  <2>3. less \in EntryRecs /\ less.users = count /\ less.is = e.is
        /\ less.retirement = e.retirement /\ less.pack = e.pack
    BY <2>1, <2>2 DEF EntryRecs
  <2> QED BY <2>3 DEF count
<1>5. fewer \in PoolRecs /\ fewer.entry = [po.entry EXCEPT ![n] = less]
      /\ fewer.phase = po.phase /\ fewer.permits = po.permits /\ fewer.waiters = po.waiters
      /\ fewer.table = po.table /\ fewer.reader = po.reader
  <2>1. fewer.entry = [po.entry EXCEPT ![n] = less] BY <1>0 DEF PoolRecs
  <2> HIDE DEF less
  <2>2. [po.entry EXCEPT ![n] = less] \in [Reservations -> EntryRecs] BY <1>0, <1>4
  <2>3. fewer.phase = po.phase /\ fewer.permits = po.permits /\ fewer.waiters = po.waiters
        /\ fewer.table = po.table /\ fewer.reader = po.reader
    BY <1>0 DEF PoolRecs
  <2>4. fewer \in PoolRecs
    <3>1. fewer = [po EXCEPT !.entry = [po.entry EXCEPT ![n] = less]] BY DEF less
    <3> HIDE DEF fewer
    <3> QED BY <1>0, <2>2, <3>1 DEF PoolRecs
  <2> QED BY <2>1, <2>3, <2>4
<1>6. \A m \in Reservations : fewer.entry[m] = IF m = n THEN less ELSE po.entry[m]
  <2>1. /\ po.entry \in [Reservations -> EntryRecs] /\ n \in Reservations
        /\ fewer.entry = [po.entry EXCEPT ![n] = less]
    BY <1>0, <1>5
  <2> HIDE DEF fewer, less, n
  <2> QED BY <2>1
<1>7. last <=> e.users = 1
  <2>1. fewer.entry[n] = less BY <1>0, <1>6
  <2> HIDE DEF less, fewer
  <2>2. fewer.entry[n].users = e.users - 1 BY <1>4, <2>1
  <2> QED BY <1>3, <2>2
<1>8. \A m \in Reservations : po.entry[m].retirement # "none" => m \in ToSet(po.table)
  BY DEF PoolOK, TableOK
<1>9. po.phase \notin {"retiring", "closed"} BY DEF PoolOK, PhaseOK
<1>10. e.users = 1 => \A x \in Readers : x \in UsersOf(po, n) => x = r
  <2>1. ASSUME e.users = 1 PROVE UsersOf(po, n) \ {r} = {}
    <3>1. IsFiniteSet(UsersOf(po, n)) BY <1>0, CountsAreNumbers
    <3> DEFINE rest == UsersOf(po, n) \ {r}
    <3>2. Cardinality(rest) = Cardinality(UsersOf(po, n)) - 1 BY <1>1, <3>1, OneLess
    <3>3. IsFiniteSet(rest) BY <3>1, FS_RemoveElement
    <3> HIDE DEF rest
    <3>4. rest = {} BY <1>2, <2>1, <3>2, <3>3, FS_EmptySet
    <3> QED BY <3>4 DEF rest
  <2> QED BY <2>1
<1>11. /\ WaitersOK(po) /\ PermitsOK(po) /\ TableOK(po) /\ EntriesOK(po) /\ ReadersOK(po)
       /\ PhaseOK(po)
  BY PoolParts
<1>12. Released(po, r, next) =
         IF last /\ e.retirement # "none"
         THEN [Goes(fewer, r, "returning") EXCEPT !.reader[r].next = next]
         ELSE Goes(PermitBack([fewer EXCEPT
                                !.entry[n] = IF last /\ n \notin ToSet(po.table) THEN Unreserved ELSE @,
                                !.reader[r].entry = 0]),
                   r, next)
  BY DEF Released
<1> HIDE DEF fewer, less
(* What the other users and the entry look like when this one has left.    *)
<1>13. ASSUME NEW q \in PoolRecs, WaitersOK(q), PermitsOK(q), NEW new,
              q.phase = po.phase, q.table = po.table,
              q.entry = [po.entry EXCEPT ![n] = new],
              new = less \/ (last /\ n \notin ToSet(po.table) /\ new = Unreserved),
              last /\ n \notin ToSet(po.table) => new = Unreserved,
              q.reader[r].at \notin UsingSteps \cup {"violated"},
              \A x \in Readers : x # r =>
                 \/ q.reader[x] = po.reader[x]
                 \/ po.reader[x].at = "queued" /\ q.reader[x].at = "woken"
       PROVE  PoolOK(q)
  <2>1. \A m \in Reservations : q.entry[m] = IF m = n THEN new ELSE po.entry[m] BY <1>0, <1>13
  <2>2. new.users = e.users - 1
    <3>1. CASE new = less BY <1>4, <3>1
    <3>2. CASE last /\ new = Unreserved
      <4>1. e.users = 1 BY <1>7, <3>2
      <4>2. new.users = 0 BY <3>2 DEF Unreserved
      <4> HIDE DEF e
      <4> QED BY <4>1, <4>2
    <3> QED BY <1>13, <3>1, <3>2
  <2>3. \A m : UsersOf(q, m) = UsersOf(po, m) \ {r}
    <3> SUFFICES ASSUME NEW m PROVE UsersOf(q, m) = UsersOf(po, m) \ {r} OBVIOUS
    <3>1. \A x \in Readers : x # r =>
            ((q.reader[x].at \in UsingSteps /\ q.reader[x].entry = m)
                <=> (po.reader[x].at \in UsingSteps /\ po.reader[x].entry = m))
      BY <1>13 DEF UsingSteps
    <3> QED BY <1>13, <3>1 DEF UsersOf
  <2>4. \A m : m # n => UsersOf(q, m) = UsersOf(po, m) BY <2>3 DEF UsersOf
  <2>5. Cardinality(UsersOf(q, n)) = e.users - 1
    BY <1>1, <1>2, <2>3, CountsAreNumbers, OneLess
  <2>6. TableOK(q)
    <3>1. Distinct(q.table) /\ Len(q.table) <= MaxHandles BY <1>11, <1>13 DEF TableOK
    <3>2. ASSUME NEW m \in Reservations, q.entry[m].is \in Opened \/ q.entry[m].retirement # "none"
          PROVE  m \in ToSet(q.table)
      <4>1. CASE m # n BY <1>11, <1>13, <2>1, <3>2, <4>1 DEF TableOK
      <4>2. CASE m = n
        <5>1. new = less BY <2>1, <3>2, <4>2, <1>13 DEF Unreserved, Opened
        <5>2. e.is \in Opened \/ e.retirement # "none" BY <1>0, <1>4, <2>1, <3>2, <4>2, <5>1
        <5> QED BY <1>0, <1>11, <1>13, <4>2, <5>2 DEF TableOK
      <4> QED BY <4>1, <4>2
    <3> QED BY <3>1, <3>2 DEF TableOK
  <2>7. EntriesOK(q)
    <3> SUFFICES ASSUME NEW m \in Reservations
                 PROVE  /\ q.entry[m].users = Cardinality(UsersOf(q, m))
                        /\ q.entry[m].retirement = "closing" => q.entry[m].users = 0
                        /\ q.entry[m] # Unreserved => m \in ToSet(q.table) \/ q.entry[m].users > 0
      BY DEF EntriesOK
    <3>1. CASE m # n BY <1>11, <1>13, <2>1, <2>4, <3>1 DEF EntriesOK
    <3>2. CASE m = n
      <4>1. q.entry[m] = new BY <2>1, <3>2
      <4>2. new.users = Cardinality(UsersOf(q, n)) BY <2>2, <2>5
      <4>3. e.retirement # "closing"
        <5>1. e.retirement = "closing" => e.users = 0
          <6>1. EntriesOK(po) /\ n \in Reservations BY <1>0, <1>11
          <6> HIDE DEF n
          <6> QED BY <6>1 DEF EntriesOK
        <5> HIDE DEF e
        <5> QED BY <1>3, <5>1
      <4>4. new.retirement # "closing" BY <1>4, <1>13, <4>3 DEF Unreserved
      <4>5. new # Unreserved => n \in ToSet(po.table) \/ new.users > 0
        BY <1>3, <1>7, <1>13, <2>2
      <4> QED BY <1>13, <3>2, <4>1, <4>2, <4>4, <4>5
    <3> QED BY <3>1, <3>2
  <2>8. ReadersOK(q)
    <3> SUFFICES ASSUME NEW x \in Readers
                 PROVE  /\ q.reader[x].at \in UsingSteps => q.reader[x].entry \in Reservations
                        /\ q.reader[x].at = "leased" => q.entry[q.reader[x].entry].is = "open"
                        /\ q.reader[x].at # "violated"
      BY DEF ReadersOK
    <3>0. /\ po.reader[x].at \in UsingSteps => po.reader[x].entry \in Reservations
          /\ po.reader[x].at = "leased" => po.entry[po.reader[x].entry].is = "open"
          /\ po.reader[x].at # "violated"
      BY <1>11 DEF ReadersOK
    <3>1. CASE x = r BY <1>13, <3>1 DEF UsingSteps
    <3>2. CASE x # r /\ po.reader[x].at = "queued" /\ q.reader[x].at = "woken"
      BY <3>2 DEF UsingSteps
    <3>3. CASE x # r /\ q.reader[x] = po.reader[x]
      <4>1. CASE po.reader[x].at # "leased" BY <3>0, <3>3, <4>1
      <4>2. CASE po.reader[x].at = "leased"
        <5>1. po.reader[x].entry \in Reservations BY <3>0, <4>2 DEF UsingSteps
        <5>2. CASE po.reader[x].entry # n BY <2>1, <3>0, <3>3, <4>2, <5>1, <5>2
        <5>3. CASE po.reader[x].entry = n
          <6>1. x \in UsersOf(po, n) BY <4>2, <5>3 DEF UsersOf, UsingSteps
          <6>2. ~ last BY <1>7, <1>10, <3>3, <6>1
          <6>3. q.entry[n] = less BY <1>0, <1>13, <2>1, <6>2
          <6>4. e.is = "open" BY <3>0, <4>2, <5>3
          <6> QED BY <1>4, <3>0, <3>3, <4>2, <5>1, <5>3, <6>3, <6>4
        <5> QED BY <5>2, <5>3
      <4> QED BY <4>1, <4>2
    <3> QED BY <1>13, <3>1, <3>2, <3>3
  <2>9. PhaseOK(q) BY <1>9, <1>13 DEF PhaseOK
  <2> QED BY <1>13, <2>6, <2>7, <2>8, <2>9 DEF PoolOK
<1>14. CASE last /\ e.retirement # "none"
  <2> DEFINE g == Goes(fewer, r, "returning")
             q == [g EXCEPT !.reader[r].next = next]
             rec == [po.reader[r] EXCEPT !.at = "returning", !.next = next]
  <2>1. rec \in ReaderRecs /\ rec.at = "returning" BY <1>0 DEF ReaderRecs, ReaderSteps
  <2>2. q = [fewer EXCEPT !.reader[r] = rec]
    <3>1. fewer.reader \in [Readers -> ReaderRecs] /\ fewer.reader[r] = po.reader[r] BY <1>0, <1>5
    <3>2. g = [fewer EXCEPT !.reader[r] = [po.reader[r] EXCEPT !.at = "returning"]]
      BY <3>1 DEF Goes
    <3>3. g.reader[r] = [po.reader[r] EXCEPT !.at = "returning"] BY <1>5, <3>1, <3>2 DEF PoolRecs
    <3> HIDE DEF g
    <3>4. q = [g EXCEPT !.reader[r] = [g.reader[r] EXCEPT !.next = next]] OBVIOUS
    <3>5. [g.reader[r] EXCEPT !.next = next] = rec BY <1>0, <3>3 DEF ReaderRecs
    <3> HIDE DEF q, rec
    <3>6. q = [g EXCEPT !.reader[r] = rec] BY <3>4, <3>5
    <3> QED BY <1>5, <3>1, <3>2, <3>6 DEF PoolRecs
  <2> HIDE DEF q, rec, g
  <2>3. /\ q.phase = po.phase /\ q.permits = po.permits /\ q.waiters = po.waiters
        /\ q.table = po.table /\ q.entry = [po.entry EXCEPT ![n] = less]
        /\ q.reader = [po.reader EXCEPT ![r] = rec]
    BY <1>5, <2>2 DEF PoolRecs
  <2>4. [po.reader EXCEPT ![r] = rec] \in [Readers -> ReaderRecs] BY <1>0, <2>1
  <2>5. q \in PoolRecs BY <1>5, <2>2, <2>4 DEF PoolRecs
  <2>6. q.reader[r] = rec /\ \A x \in Readers : x # r => q.reader[x] = po.reader[x]
    BY <1>0, <2>3
  <2>7. WaitersOK(q)
    <3>1. \A i \in 1 .. Len(po.waiters) : /\ po.waiters[i] \in Readers
                                          /\ po.reader[po.waiters[i]].at = "queued"
      BY <1>0, <1>11 DEF PoolRecs, WaitersOK
    <3>2. \A i \in 1 .. Len(po.waiters) : po.waiters[i] # r BY <3>1 DEF UsingSteps
    <3>3. \A i \in 1 .. Len(po.waiters) : q.reader[po.waiters[i]].at = "queued"
      BY <2>6, <3>1, <3>2
    <3>4. Distinct(po.waiters) BY <1>11 DEF WaitersOK
    <3> QED BY <2>3, <3>3, <3>4 DEF WaitersOK
  <2>8. PermitsOK(q)
    <3>1. Holders(q) = Holders(po) BY <2>1, <2>6 DEF Holders, HoldingSteps, UsingSteps
    <3> QED BY <1>11, <2>3, <3>1 DEF PermitsOK
  <2>9. q.reader[r].at \notin UsingSteps \cup {"violated"} BY <2>1, <2>6 DEF UsingSteps
  <2>10. n \in ToSet(po.table) BY <1>0, <1>8, <1>14
  <2>11. \A x \in Readers : x # r =>
            \/ q.reader[x] = po.reader[x]
            \/ po.reader[x].at = "queued" /\ q.reader[x].at = "woken"
    BY <2>6
  <2>12. q.phase = po.phase /\ q.table = po.table /\ q.entry = [po.entry EXCEPT ![n] = less]
    BY <2>3
  <2>13. PoolOK(q) BY <1>13, <2>5, <2>7, <2>8, <2>9, <2>10, <2>11, <2>12
  <2> QED BY <1>12, <1>14, <2>13 DEF q, g
<1>15. CASE ~ (last /\ e.retirement # "none")
  <2> DEFINE c == [fewer EXCEPT
                    !.entry[n] = IF last /\ n \notin ToSet(po.table) THEN Unreserved ELSE @,
                    !.reader[r].entry = 0]
             q == Goes(PermitBack(c), r, next)
             rec == [po.reader[r] EXCEPT !.entry = 0]
  <2>0. Released(po, r, next) = q BY <1>12, <1>15
  <2>1. rec \in ReaderRecs /\ rec.at = po.reader[r].at BY <1>0 DEF ReaderRecs
  <2>2. en \in EntryRecs BY <1>4 DEF Unreserved, EntryRecs, PackNames
  <2>3. c = [fewer EXCEPT !.entry[n] = en, !.reader[r] = rec]
    <3>1. fewer.entry[n] = less /\ fewer.reader[r] = po.reader[r] BY <1>0, <1>5, <1>6
    <3> QED BY <3>1
  <2> HIDE DEF c, rec, en
  <2>4. c.phase = po.phase /\ c.permits = po.permits /\ c.waiters = po.waiters
        /\ c.table = po.table /\ c.entry = [fewer.entry EXCEPT ![n] = en]
        /\ c.reader = [po.reader EXCEPT ![r] = rec]
    BY <1>5, <2>3 DEF PoolRecs
  <2>5. c.entry = [po.entry EXCEPT ![n] = en] BY <1>0, <1>5, <2>4
  <2>6. [po.entry EXCEPT ![n] = en] \in [Reservations -> EntryRecs]
        /\ [po.reader EXCEPT ![r] = rec] \in [Readers -> ReaderRecs]
    BY <1>0, <2>1, <2>2
  <2>7. c \in PoolRecs
    <3>1. c = [fewer EXCEPT !.entry = [po.entry EXCEPT ![n] = en],
                            !.reader = [po.reader EXCEPT ![r] = rec]]
      BY <1>5, <2>3, <2>4, <2>5 DEF PoolRecs
    <3> QED BY <1>5, <2>6, <3>1 DEF PoolRecs
  <2>8. c.reader[r] = rec /\ \A x \in Readers : x # r => c.reader[x] = po.reader[x]
    BY <1>0, <2>4
  <2>9. WaitersOK(c)
    <3>1. \A i \in 1 .. Len(po.waiters) : /\ po.waiters[i] \in Readers
                                          /\ po.reader[po.waiters[i]].at = "queued"
      BY <1>0, <1>11 DEF PoolRecs, WaitersOK
    <3>2. \A i \in 1 .. Len(po.waiters) : po.waiters[i] # r BY <3>1 DEF UsingSteps
    <3>3. \A i \in 1 .. Len(po.waiters) : c.reader[po.waiters[i]].at = "queued"
      BY <2>8, <3>1, <3>2
    <3>4. Distinct(po.waiters) BY <1>11 DEF WaitersOK
    <3> QED BY <2>4, <3>3, <3>4 DEF WaitersOK
  <2>10. c.reader[r].at # "queued" BY <2>1, <2>8 DEF UsingSteps
  <2>11. /\ q \in PoolRecs /\ WaitersOK(q)
         /\ q.phase = c.phase /\ q.entry = c.entry /\ q.table = c.table
         /\ q.permits <= c.permits + 1
         /\ q.reader[r].at = next
         /\ \A x \in Readers : x # r =>
                  \/ q.reader[x] = c.reader[x]
                  \/ c.reader[x].at = "queued" /\ q.reader[x].at = "woken"
    BY <2>7, <2>9, <2>10, PermitComesBack
  <2> HIDE DEF q
  <2>12. \A x \in Readers : x # r =>
            \/ q.reader[x] = po.reader[x]
            \/ po.reader[x].at = "queued" /\ q.reader[x].at = "woken"
    BY <2>8, <2>11
  <2>13. PermitsOK(q)
    <3>1. Holders(q) = Holders(po) \ {r}
      <4>1. q.reader[r].at \notin HoldingSteps BY <2>11 DEF HoldingSteps
      <4>2. \A x \in Readers : x # r =>
               (q.reader[x].at \in HoldingSteps <=> po.reader[x].at \in HoldingSteps)
        BY <2>12 DEF HoldingSteps
      <4> QED BY <4>1, <4>2 DEF Holders
    <3>2. r \in Holders(po) BY DEF Holders, HoldingSteps, UsingSteps
    <3>3. Cardinality(Holders(q)) = Cardinality(Holders(po)) - 1 /\ Cardinality(Holders(po)) \in Nat
      BY <3>1, <3>2, CountsAreNumbers, OneLess
    <3>4. q.permits \in Nat /\ po.permits \in Nat /\ MaxHandles \in Nat
      BY <1>0, <2>11, HandlesAssumption DEF PoolRecs
    <3> QED BY <1>11, <2>4, <2>11, <3>3, <3>4 DEF PermitsOK
  <2>14. q.reader[r].at \notin UsingSteps \cup {"violated"} BY <2>11 DEF UsingSteps
  <2>15. /\ en = less \/ (last /\ n \notin ToSet(po.table) /\ en = Unreserved)
         /\ last /\ n \notin ToSet(po.table) => en = Unreserved
    BY DEF en
  <2>16. q.phase = po.phase /\ q.table = po.table /\ q.entry = [po.entry EXCEPT ![n] = en]
    BY <2>4, <2>5, <2>11
  <2>17. PoolOK(q) BY <1>13, <2>11, <2>12, <2>13, <2>14, <2>15, <2>16
  <2> QED BY <2>0, <2>17
<1> QED BY <1>14, <1>15

(* The retirement of an entry that nobody uses is over.                    *)
LEMMA OverKeeps ==
  ASSUME NEW po, PoolOK(po), NEW n \in Reservations, po.entry[n].users = 0,
         NEW how \in {"done", "failed"}
  PROVE  PoolOK(Over(po, n, how))
<1> DEFINE after(x) ==
             IF x.entry # n THEN x
             ELSE CASE x.at = "awaiting" /\ how = "done" -> [x EXCEPT !.at = "entering", !.entry = 0]
                    [] x.at = "awaiting" /\ how = "failed" -> [x EXCEPT !.at = "refused", !.entry = 0]
                    [] x.at = "returning" -> [x EXCEPT !.at = "returned", !.entry = 0]
                    [] x.at = "invalidating" -> NoReading
                    [] OTHER -> x
           t == RemoveFirst(po.table, n)
           readers == [r \in Readers |-> after(po.reader[r])]
           q == Over(po, n, how)
<1>0. /\ po \in PoolRecs /\ po.reader \in [Readers -> ReaderRecs]
      /\ po.entry \in [Reservations -> EntryRecs] /\ po.table \in Seq(Reservations)
      /\ WaitersOK(po) /\ PermitsOK(po) /\ TableOK(po) /\ EntriesOK(po) /\ ReadersOK(po)
      /\ PhaseOK(po)
  BY PoolParts
<1>1. q = [po EXCEPT !.table = t, !.entry[n] = Unreserved, !.reader = readers]
  BY <1>0 DEF Over, Deleted, PoolRecs
<1>2. t \in Seq(Reservations) /\ Distinct(t) /\ ToSet(t) = ToSet(po.table) \ {n}
      /\ Len(t) <= Len(po.table)
  <2>1. Distinct(po.table) BY <1>0 DEF TableOK
  <2>0. po.table \in Seq(Reservations) BY <1>0
  <2>2. t \in Seq(Reservations) /\ Distinct(t) /\ ToSet(t) = ToSet(po.table) \ {n}
        /\ Len(t) = IF n \in ToSet(po.table) THEN Len(po.table) - 1 ELSE Len(po.table)
    BY <2>0, <2>1, NumberIsRemoved
  <2>3. Len(po.table) \in Nat BY <1>0
  <2> QED BY <2>2, <2>3
<1>3. ASSUME NEW x \in ReaderRecs
      PROVE  /\ after(x) \in ReaderRecs
             /\ \/ after(x) = x
                \/ /\ x.at \in {"awaiting", "returning"}
                   /\ after(x).at \in {"entering", "refused", "returned"}
                   /\ x.at = "awaiting" => after(x).at \in {"entering", "refused"}
                \/ x.at = "invalidating" /\ after(x).at = "idle"
  <2>1. CASE x.entry # n BY <2>1
  <2>2. CASE x.entry = n /\ x.at = "awaiting" /\ how = "done"
    <3>1. after(x) = [x EXCEPT !.at = "entering", !.entry = 0] BY <2>2
    <3> QED BY <2>2, <3>1 DEF ReaderRecs, ReaderSteps
  <2>3. CASE x.entry = n /\ x.at = "awaiting" /\ how = "failed"
    <3>1. after(x) = [x EXCEPT !.at = "refused", !.entry = 0] BY <2>3
    <3> QED BY <2>3, <3>1 DEF ReaderRecs, ReaderSteps
  <2>4. CASE x.entry = n /\ x.at = "returning"
    <3>1. after(x) = [x EXCEPT !.at = "returned", !.entry = 0] BY <2>4
    <3> QED BY <2>4, <3>1 DEF ReaderRecs, ReaderSteps
  <2>5. CASE x.entry = n /\ x.at = "invalidating"
    <3>1. after(x) = NoReading BY <2>5
    <3> QED BY <2>5, <3>1 DEF NoReading, ReaderRecs, ReaderSteps, PackNames
  <2>6. CASE x.at \notin {"awaiting", "returning", "invalidating"} BY <2>6
  <2> QED BY <2>1, <2>2, <2>3, <2>4, <2>5, <2>6
<1> HIDE DEF after, t
<1>4. \A r \in Readers :
        /\ readers[r] \in ReaderRecs
        /\ \/ readers[r] = po.reader[r]
           \/ /\ po.reader[r].at \in {"awaiting", "returning"}
              /\ readers[r].at \in {"entering", "refused", "returned"}
              /\ po.reader[r].at = "awaiting" => readers[r].at \in {"entering", "refused"}
           \/ po.reader[r].at = "invalidating" /\ readers[r].at = "idle"
  BY <1>0, <1>3
<1>5. readers \in [Readers -> ReaderRecs] BY <1>0, <1>3
<1> HIDE DEF readers, q
<1>6. /\ q.phase = po.phase /\ q.permits = po.permits /\ q.waiters = po.waiters
      /\ q.table = t /\ q.entry = [po.entry EXCEPT ![n] = Unreserved] /\ q.reader = readers
  BY <1>0, <1>1 DEF PoolRecs
<1>7. [po.entry EXCEPT ![n] = Unreserved] \in [Reservations -> EntryRecs]
  <2>1. Unreserved \in EntryRecs BY DEF Unreserved, EntryRecs, PackNames
  <2> QED BY <1>0, <2>1
<1>8. q \in PoolRecs
  <2>1. q = [po EXCEPT !.table = t, !.entry = [po.entry EXCEPT ![n] = Unreserved], !.reader = readers]
    BY <1>0, <1>1 DEF PoolRecs
  <2> QED BY <1>0, <1>2, <1>5, <1>7, <2>1 DEF PoolRecs
<1>9. \A m \in Reservations : q.entry[m] = IF m = n THEN Unreserved ELSE po.entry[m]
  BY <1>0, <1>6
<1>10. Holders(q) = Holders(po) BY <1>4, <1>6 DEF Holders, HoldingSteps
<1>11. \A m : UsersOf(q, m) = UsersOf(po, m)
  <2> SUFFICES ASSUME NEW m PROVE UsersOf(q, m) = UsersOf(po, m) OBVIOUS
  <2>1. \A x \in Readers :
          ((q.reader[x].at \in UsingSteps /\ q.reader[x].entry = m)
              <=> (po.reader[x].at \in UsingSteps /\ po.reader[x].entry = m))
    BY <1>4, <1>6 DEF UsingSteps
  <2> QED BY <2>1 DEF UsersOf
<1>12. WaitersOK(q)
  <2>1. \A i \in 1 .. Len(po.waiters) : /\ po.waiters[i] \in Readers
                                        /\ po.reader[po.waiters[i]].at = "queued"
    BY <1>0 DEF PoolRecs, WaitersOK
  <2>2. \A i \in 1 .. Len(po.waiters) : readers[po.waiters[i]].at = "queued" BY <1>4, <2>1
  <2>3. Distinct(po.waiters) BY <1>0 DEF WaitersOK
  <2> QED BY <1>6, <2>2, <2>3 DEF WaitersOK
<1>13. PermitsOK(q) BY <1>0, <1>6, <1>10 DEF PermitsOK
<1>14. TableOK(q)
  <2>1. Len(t) <= MaxHandles
    <3>1. Len(po.table) <= MaxHandles BY <1>0 DEF TableOK
    <3>2. Len(t) \in Nat /\ Len(po.table) \in Nat /\ MaxHandles \in Nat
      BY <1>0, <1>2, HandlesAssumption
    <3> QED BY <1>2, <3>1, <3>2
  <2>2. ASSUME NEW m \in Reservations, q.entry[m].is \in Opened \/ q.entry[m].retirement # "none"
        PROVE  m \in ToSet(t)
    <3>1. m # n BY <1>9, <2>2 DEF Unreserved, Opened
    <3>2. m \in ToSet(po.table) BY <1>0, <1>9, <2>2, <3>1 DEF TableOK
    <3> QED BY <1>2, <3>1, <3>2
  <2>3. q.table = t BY <1>6
  <2> QED BY <1>2, <2>1, <2>2, <2>3 DEF TableOK
<1>15. EntriesOK(q)
  <2> SUFFICES ASSUME NEW m \in Reservations
               PROVE  /\ q.entry[m].users = Cardinality(UsersOf(q, m))
                      /\ q.entry[m].retirement = "closing" => q.entry[m].users = 0
                      /\ q.entry[m] # Unreserved => m \in ToSet(q.table) \/ q.entry[m].users > 0
    BY DEF EntriesOK
  <2>0. /\ po.entry[m].users = Cardinality(UsersOf(po, m))
        /\ po.entry[m].retirement = "closing" => po.entry[m].users = 0
        /\ po.entry[m] # Unreserved => m \in ToSet(po.table) \/ po.entry[m].users > 0
    BY <1>0 DEF EntriesOK
  <2>1. CASE m # n
    <3>1. q.entry[m] = po.entry[m] /\ UsersOf(q, m) = UsersOf(po, m) BY <1>9, <1>11, <2>1
    <3>2. m \in ToSet(po.table) => m \in ToSet(q.table) BY <1>2, <1>6, <2>1
    <3> QED BY <2>0, <3>1, <3>2
  <2>2. CASE m = n
    <3>1. q.entry[m] = Unreserved /\ UsersOf(q, m) = UsersOf(po, m) BY <1>9, <1>11, <2>2
    <3>2. Unreserved.users = 0 /\ Unreserved.retirement = "none" BY DEF Unreserved
    <3> QED BY <2>0, <2>2, <3>1, <3>2
  <2> QED BY <2>1, <2>2
<1>16. ReadersOK(q)
  <2> SUFFICES ASSUME NEW x \in Readers
               PROVE  /\ q.reader[x].at \in UsingSteps => q.reader[x].entry \in Reservations
                      /\ q.reader[x].at = "leased" => q.entry[q.reader[x].entry].is = "open"
                      /\ q.reader[x].at # "violated"
    BY DEF ReadersOK
  <2>0. /\ po.reader[x].at \in UsingSteps => po.reader[x].entry \in Reservations
        /\ po.reader[x].at = "leased" => po.entry[po.reader[x].entry].is = "open"
        /\ po.reader[x].at # "violated"
    BY <1>0 DEF ReadersOK
  <2>1. CASE readers[x] # po.reader[x] BY <1>4, <1>6, <2>1 DEF UsingSteps
  <2>2. CASE readers[x] = po.reader[x]
    <3>1. CASE po.reader[x].at # "leased" BY <1>6, <2>0, <2>2, <3>1
    <3>2. CASE po.reader[x].at = "leased"
      <4>1. po.reader[x].entry \in Reservations BY <2>0, <3>2 DEF UsingSteps
      <4>2. po.reader[x].entry # n
        <5>1. ASSUME po.reader[x].entry = n PROVE FALSE
          <6>1. x \in UsersOf(po, n) BY <3>2, <5>1 DEF UsersOf, UsingSteps
          <6>2. Cardinality(UsersOf(po, n)) = 0 BY <1>0 DEF EntriesOK
          <6>3. UsersOf(po, n) = {} BY <6>2, CountsAreNumbers, FS_EmptySet
          <6> QED BY <6>1, <6>3
        <5> QED BY <5>1
      <4> QED BY <1>6, <1>9, <2>0, <2>2, <3>2, <4>1, <4>2
    <3> QED BY <3>1, <3>2
  <2> QED BY <2>1, <2>2
<1>17. PhaseOK(q)
  <2>1. ASSUME po.phase \in {"retiring", "closed"}, NEW x \in Readers
        PROVE  readers[x].at \notin UsingSteps \cup {"returning", "returned"}
    <3>1. po.reader[x].at \notin UsingSteps \cup {"returning", "returned"} BY <1>0, <2>1 DEF PhaseOK
    <3> QED BY <1>4, <3>1 DEF UsingSteps
  <2>2. ASSUME po.phase = "closed" PROVE t = <<>>
    <3>1. po.table = <<>> BY <1>0, <2>2 DEF PhaseOK
    <3>2. Len(t) = 0 BY <1>2, <3>1
    <3> QED BY <1>2, <3>2
  <2> QED BY <1>6, <2>1, <2>2 DEF PhaseOK
<1> QED BY <1>8, <1>12, <1>13, <1>14, <1>15, <1>16, <1>17 DEF PoolOK, q

(* A reading asks for a permit, or for one again.                          *)
LEMMA TakesPermitKeeps ==
  ASSUME NEW po, PoolOK(po), NEW r \in Readers, po.reader[r].at \in {"idle", "woken"}
  PROVE  PoolOK(TakesPermit(po, r))
<1>0. /\ po \in PoolRecs /\ po.reader \in [Readers -> ReaderRecs]
      /\ po.permits \in 0 .. MaxHandles /\ po.waiters \in Seq(Readers)
      /\ WaitersOK(po) /\ PermitsOK(po) /\ TableOK(po) /\ EntriesOK(po) /\ ReadersOK(po)
      /\ PhaseOK(po) /\ MaxHandles \in Nat
  BY PoolParts, HandlesAssumption
<1>1. \A i \in 1 .. Len(po.waiters) : /\ po.waiters[i] \in Readers /\ po.waiters[i] # r
                                      /\ po.reader[po.waiters[i]].at = "queued"
  BY <1>0 DEF WaitersOK
(* What both outcomes have in common.                                      *)
<1>2. ASSUME NEW q \in PoolRecs, NEW rec, q.phase = po.phase, q.entry = po.entry,
             q.table = po.table, q.reader = [po.reader EXCEPT ![r] = rec],
             rec.at \in {"queued", "entering"}, WaitersOK(q), PermitsOK(q)
      PROVE  PoolOK(q)
  <2>1. q.reader[r] = rec /\ \A x \in Readers : x # r => q.reader[x] = po.reader[x]
    BY <1>0, <1>2
  <2>2. \A m : UsersOf(q, m) = UsersOf(po, m)
    <3> SUFFICES ASSUME NEW m PROVE UsersOf(q, m) = UsersOf(po, m) OBVIOUS
    <3>1. q.reader[r].at \notin UsingSteps /\ po.reader[r].at \notin UsingSteps
      BY <1>2, <2>1 DEF UsingSteps
    <3> QED BY <2>1, <3>1 DEF UsersOf
  <2>3. TableOK(q) BY <1>0, <1>2 DEF TableOK
  <2>4. EntriesOK(q) BY <1>0, <1>2, <2>2 DEF EntriesOK
  <2>5. ReadersOK(q)
    <3> SUFFICES ASSUME NEW x \in Readers
                 PROVE  /\ q.reader[x].at \in UsingSteps => q.reader[x].entry \in Reservations
                        /\ q.reader[x].at = "leased" => q.entry[q.reader[x].entry].is = "open"
                        /\ q.reader[x].at # "violated"
      BY DEF ReadersOK
    <3>0. /\ po.reader[x].at \in UsingSteps => po.reader[x].entry \in Reservations
          /\ po.reader[x].at = "leased" => po.entry[po.reader[x].entry].is = "open"
          /\ po.reader[x].at # "violated"
      BY <1>0 DEF ReadersOK
    <3>1. CASE x = r BY <1>2, <2>1, <3>1 DEF UsingSteps
    <3>2. CASE x # r BY <1>2, <2>1, <3>0, <3>2
    <3> QED BY <3>1, <3>2
  <2>6. PhaseOK(q)
    <3>1. ASSUME q.phase \in {"retiring", "closed"}, NEW x \in Readers
          PROVE  q.reader[x].at \notin UsingSteps \cup {"returning", "returned"}
      <4>1. po.reader[x].at \notin UsingSteps \cup {"returning", "returned"}
        BY <1>0, <1>2, <3>1 DEF PhaseOK
      <4>2. CASE x = r BY <1>2, <2>1, <4>2 DEF UsingSteps
      <4>3. CASE x # r BY <2>1, <4>1, <4>3
      <4> QED BY <4>2, <4>3
    <3> QED BY <1>0, <1>2, <3>1 DEF PhaseOK
  <2> QED BY <1>2, <2>3, <2>4, <2>5, <2>6 DEF PoolOK
<1>3. CASE po.permits = 0
  <2> DEFINE rec == [po.reader[r] EXCEPT !.at = "queued"]
             line == Append(po.waiters, r)
             q == TakesPermit(po, r)
  <2>1. q = [po EXCEPT !.reader[r] = rec, !.waiters = line]
    BY <1>0, <1>3 DEF TakesPermit, Goes, PoolRecs
  <2>2. rec \in ReaderRecs /\ rec.at = "queued" BY <1>0 DEF ReaderRecs, ReaderSteps
  <2>3. /\ line \in Seq(Readers) /\ Len(line) = Len(po.waiters) + 1 /\ Len(po.waiters) \in Nat
        /\ line[Len(po.waiters) + 1] = r
        /\ \A i \in 1 .. Len(po.waiters) : line[i] = po.waiters[i]
    BY <1>0
  <2> HIDE DEF q, rec, line
  <2>4. /\ q.phase = po.phase /\ q.permits = po.permits /\ q.waiters = line
        /\ q.entry = po.entry /\ q.table = po.table /\ q.reader = [po.reader EXCEPT ![r] = rec]
    BY <1>0, <2>1 DEF PoolRecs
  <2>5. [po.reader EXCEPT ![r] = rec] \in [Readers -> ReaderRecs] BY <1>0, <2>2
  <2>6. q \in PoolRecs BY <1>0, <2>1, <2>3, <2>5 DEF PoolRecs
  <2>7. q.reader[r] = rec /\ \A x \in Readers : x # r => q.reader[x] = po.reader[x]
    BY <1>0, <2>4
  <2>8. WaitersOK(q)
    <3> DEFINE k == Len(po.waiters)
    <3>1. Distinct(line)
      <4> SUFFICES ASSUME NEW i \in 1 .. (k + 1), NEW j \in 1 .. (k + 1), line[i] = line[j]
                   PROVE  i = j
        BY <2>3 DEF Distinct
      <4>1. CASE i \in 1 .. k /\ j \in 1 .. k BY <1>0, <2>3, <4>1 DEF WaitersOK, Distinct
      <4>2. CASE i = k + 1 \/ j = k + 1 BY <1>1, <2>3, <4>2
      <4> QED BY <2>3, <4>1, <4>2
    <3>2. \A i \in 1 .. (k + 1) : q.reader[line[i]].at = "queued"
      <4> SUFFICES ASSUME NEW i \in 1 .. (k + 1) PROVE q.reader[line[i]].at = "queued" OBVIOUS
      <4>1. CASE i \in 1 .. k BY <1>1, <2>3, <2>7, <4>1
      <4>2. CASE i = k + 1 BY <2>2, <2>3, <2>7, <4>2
      <4> QED BY <2>3, <4>1, <4>2
    <3>3. q.waiters = line /\ Len(line) = k + 1 BY <2>3, <2>4
    <3> HIDE DEF k
    <3> QED BY <3>1, <3>2, <3>3 DEF WaitersOK
  <2>9. PermitsOK(q)
    <3>1. Holders(q) = Holders(po) BY <2>2, <2>7 DEF Holders, HoldingSteps
    <3> QED BY <1>0, <2>4, <3>1 DEF PermitsOK
  <2>10. PoolOK(q) BY <1>2, <2>2, <2>4, <2>6, <2>8, <2>9
  <2> QED BY <2>10 DEF q
<1>4. CASE po.permits # 0
  <2> DEFINE rec == [po.reader[r] EXCEPT !.at = "entering"]
             fewer == po.permits - 1
             q == TakesPermit(po, r)
  <2>1. q = [po EXCEPT !.reader[r] = rec, !.permits = fewer]
    BY <1>0, <1>4 DEF TakesPermit, Goes, PoolRecs
  <2>2. rec \in ReaderRecs /\ rec.at = "entering" BY <1>0 DEF ReaderRecs, ReaderSteps
  <2>3. fewer \in 0 .. MaxHandles /\ fewer = po.permits - 1 BY <1>0, <1>4
  <2> HIDE DEF q, rec, fewer
  <2>4. /\ q.phase = po.phase /\ q.permits = fewer /\ q.waiters = po.waiters
        /\ q.entry = po.entry /\ q.table = po.table /\ q.reader = [po.reader EXCEPT ![r] = rec]
    BY <1>0, <2>1 DEF PoolRecs
  <2>5. [po.reader EXCEPT ![r] = rec] \in [Readers -> ReaderRecs] BY <1>0, <2>2
  <2>6. q \in PoolRecs BY <1>0, <2>1, <2>3, <2>5 DEF PoolRecs
  <2>7. q.reader[r] = rec /\ \A x \in Readers : x # r => q.reader[x] = po.reader[x]
    BY <1>0, <2>4
  <2>8. WaitersOK(q)
    <3>1. \A i \in 1 .. Len(po.waiters) : q.reader[po.waiters[i]].at = "queued" BY <1>1, <2>7
    <3>2. Distinct(po.waiters) BY <1>0 DEF WaitersOK
    <3>3. q.waiters = po.waiters BY <2>4
    <3> QED BY <3>1, <3>2, <3>3 DEF WaitersOK
  <2>9. PermitsOK(q)
    <3>1. Holders(q) = Holders(po) \cup {r} BY <2>2, <2>7 DEF Holders, HoldingSteps
    <3>2. r \notin Holders(po) BY DEF Holders, HoldingSteps
    <3>3. Cardinality(Holders(q)) = Cardinality(Holders(po)) + 1 /\ Cardinality(Holders(po)) \in Nat
      BY <3>1, <3>2, CountsAreNumbers, OneMore
    <3>4. po.permits \in Nat /\ MaxHandles \in Nat BY <1>0
    <3> QED BY <1>0, <2>3, <2>4, <3>3, <3>4 DEF PermitsOK
  <2>10. PoolOK(q) BY <1>2, <2>2, <2>4, <2>6, <2>8, <2>9
  <2> QED BY <2>10 DEF q
<1> QED BY <1>3, <1>4

LEMMA ReaderGoes ==
  ASSUME NEW po \in PoolRecs, NEW r \in Readers, NEW step \in ReaderSteps
  PROVE  LET g == Goes(po, r, step) IN
         /\ g \in PoolRecs
         /\ g.phase = po.phase /\ g.permits = po.permits /\ g.waiters = po.waiters
         /\ g.entry = po.entry /\ g.table = po.table
         /\ g.reader[r].at = step
         /\ step # "idle" => g.reader[r].entry = po.reader[r].entry
         /\ \A x \in Readers : x # r => g.reader[x] = po.reader[x]
<1> DEFINE g == Goes(po, r, step)
           rec == IF step = "idle" THEN NoReading ELSE [po.reader[r] EXCEPT !.at = step]
<1>0. po.reader \in [Readers -> ReaderRecs] BY DEF PoolRecs
<1>1. g = [po EXCEPT !.reader[r] = rec] BY <1>0 DEF Goes
<1>2. /\ rec \in ReaderRecs /\ rec.at = step
      /\ step # "idle" => rec.entry = po.reader[r].entry
  <2>1. CASE step = "idle" BY <2>1 DEF NoReading, ReaderRecs, ReaderSteps, PackNames
  <2>2. CASE step # "idle" BY <1>0, <2>2 DEF ReaderRecs
  <2> QED BY <2>1, <2>2
<1> HIDE DEF g, rec
<1>3. /\ g.phase = po.phase /\ g.permits = po.permits /\ g.waiters = po.waiters
      /\ g.entry = po.entry /\ g.table = po.table /\ g.reader = [po.reader EXCEPT ![r] = rec]
  BY <1>1 DEF PoolRecs
<1>4. [po.reader EXCEPT ![r] = rec] \in [Readers -> ReaderRecs] BY <1>0, <1>2
<1>5. g \in PoolRecs BY <1>1, <1>4 DEF PoolRecs
<1>6. g.reader[r] = rec /\ \A x \in Readers : x # r => g.reader[x] = po.reader[x]
  BY <1>0, <1>3
<1>7. /\ g.phase = po.phase /\ g.permits = po.permits /\ g.waiters = po.waiters
      /\ g.entry = po.entry /\ g.table = po.table
      /\ g.reader[r].at = step
      /\ step # "idle" => g.reader[r].entry = po.reader[r].entry
      /\ \A x \in Readers : x # r => g.reader[x] = po.reader[x]
  BY <1>2, <1>3, <1>6
<1> QED BY <1>5, <1>7 DEF g

LEMMA ReaderNotes ==
  ASSUME NEW po \in PoolRecs, NEW r \in Readers, NEW n \in Reservations
  PROVE  LET g == [po EXCEPT !.reader[r].entry = n] IN
         /\ g \in PoolRecs
         /\ g.phase = po.phase /\ g.permits = po.permits /\ g.waiters = po.waiters
         /\ g.entry = po.entry /\ g.table = po.table
         /\ g.reader[r].at = po.reader[r].at
         /\ \A x \in Readers : x # r => g.reader[x] = po.reader[x]
<1> DEFINE g == [po EXCEPT !.reader[r].entry = n]
           rec == [po.reader[r] EXCEPT !.entry = n]
<1>0. po.reader \in [Readers -> ReaderRecs] BY DEF PoolRecs
<1>1. g = [po EXCEPT !.reader[r] = rec] BY <1>0
<1>2. rec \in ReaderRecs /\ rec.at = po.reader[r].at BY <1>0 DEF ReaderRecs
<1> HIDE DEF g, rec
<1>3. /\ g.phase = po.phase /\ g.permits = po.permits /\ g.waiters = po.waiters
      /\ g.entry = po.entry /\ g.table = po.table /\ g.reader = [po.reader EXCEPT ![r] = rec]
  BY <1>1 DEF PoolRecs
<1>4. [po.reader EXCEPT ![r] = rec] \in [Readers -> ReaderRecs] BY <1>0, <1>2
<1>5. g \in PoolRecs BY <1>1, <1>4 DEF PoolRecs
<1>6. g.reader[r] = rec /\ \A x \in Readers : x # r => g.reader[x] = po.reader[x]
  BY <1>0, <1>3
<1>7. /\ g.phase = po.phase /\ g.permits = po.permits /\ g.waiters = po.waiters
      /\ g.entry = po.entry /\ g.table = po.table
      /\ g.reader[r].at = po.reader[r].at
      /\ \A x \in Readers : x # r => g.reader[x] = po.reader[x]
  BY <1>2, <1>3, <1>6
<1> QED BY <1>5, <1>7 DEF g

(* A reading with a permit takes an entry that is, or is about to be, in   *)
(* the table.                                                              *)
LEMMA UsedKeeps ==
  ASSUME NEW po \in PoolRecs, WaitersOK(po), PermitsOK(po), ReadersOK(po), po.phase = "open",
         NEW r \in Readers, po.reader[r].at = "entering",
         NEW n \in Reservations, po.entry[n].retirement = "none",
         \A m \in Reservations :
            /\ po.entry[m].users = Cardinality(UsersOf(po, m))
            /\ po.entry[m].retirement = "closing" => po.entry[m].users = 0
            /\ m # n /\ (po.entry[m].is \in Opened \/ po.entry[m].retirement # "none")
                  => m \in ToSet(po.table)
            /\ m # n /\ po.entry[m] # Unreserved => m \in ToSet(po.table) \/ po.entry[m].users > 0,
         Distinct(po.table), Len(po.table) <= MaxHandles,
         n \in ToSet(po.table) \/ Len(po.table) < MaxHandles
  PROVE  PoolOK(Used(po, r, n))
<1> DEFINE q == Used(po, r, n)
           e == po.entry[n]
           en == [e EXCEPT !.users = @ + 1]
           rec == [po.reader[r] EXCEPT !.at = "opening", !.entry = n]
           rest == RemoveFirst(po.table, n)
           t == Append(rest, n)
<1>0. /\ po.reader \in [Readers -> ReaderRecs] /\ po.entry \in [Reservations -> EntryRecs]
      /\ po.table \in Seq(Reservations) /\ po.waiters \in Seq(Readers) /\ e \in EntryRecs
      /\ Len(po.table) \in Nat /\ MaxHandles \in Nat
  BY HandlesAssumption DEF PoolRecs
<1>1. /\ en \in EntryRecs /\ en.users = e.users + 1 /\ en.is = e.is
      /\ en.retirement = "none" /\ e.users \in Nat
  <2>1. e.users \in Nat /\ e.retirement = "none" BY <1>0 DEF EntryRecs
  <2>2. e \in EntryRecs BY <1>0
  <2> HIDE DEF e
  <2> DEFINE more == e.users + 1
  <2>3. en = [e EXCEPT !.users = more] /\ more \in Nat BY <2>1
  <2> HIDE DEF en, more
  <2>4. en \in EntryRecs /\ en.users = more /\ en.is = e.is /\ en.retirement = e.retirement
    BY <2>2, <2>3 DEF EntryRecs
  <2> QED BY <2>1, <2>4 DEF more
<1>2. rec \in ReaderRecs /\ rec.at = "opening" /\ rec.entry = n
  BY <1>0 DEF ReaderRecs, ReaderSteps
<1>3. /\ rest \in Seq(Reservations) /\ Distinct(rest) /\ ToSet(rest) = ToSet(po.table) \ {n}
      /\ Len(rest) = IF n \in ToSet(po.table) THEN Len(po.table) - 1 ELSE Len(po.table)
  <2>1. po.table \in Seq(Reservations) BY <1>0
  <2> QED BY <2>1, NumberIsRemoved
<1> HIDE DEF rest
<1>4. /\ t \in Seq(Reservations) /\ Distinct(t) /\ ToSet(t) = ToSet(po.table) \cup {n}
      /\ Len(t) <= MaxHandles /\ Len(t) \in Nat
  <2>1. rest \in Seq(Reservations) /\ Distinct(rest) /\ n \in Reservations \ ToSet(rest) BY <1>3
  <2>2. /\ t \in Seq(Reservations) /\ Distinct(t) /\ ToSet(t) = ToSet(rest) \cup {n}
        /\ Len(t) = Len(rest) + 1
    BY <2>1, WhatIsAppended
  <2>3. Len(t) <= MaxHandles /\ Len(t) \in Nat BY <1>0, <1>3, <2>2
  <2> QED BY <1>3, <2>2, <2>3
<1>5. q = [po EXCEPT !.entry[n] = en, !.reader[r] = rec, !.table = t]
  BY <1>0 DEF Used, PoolRecs, rest
<1> HIDE DEF q, en, rec, t
<1>6. /\ q.phase = po.phase /\ q.permits = po.permits /\ q.waiters = po.waiters
      /\ q.table = t /\ q.entry = [po.entry EXCEPT ![n] = en]
      /\ q.reader = [po.reader EXCEPT ![r] = rec]
  BY <1>5 DEF PoolRecs
<1>7. /\ [po.entry EXCEPT ![n] = en] \in [Reservations -> EntryRecs]
      /\ [po.reader EXCEPT ![r] = rec] \in [Readers -> ReaderRecs]
  BY <1>0, <1>1, <1>2
<1>8. q \in PoolRecs
  <2>1. q = [po EXCEPT !.entry = [po.entry EXCEPT ![n] = en],
                       !.reader = [po.reader EXCEPT ![r] = rec], !.table = t]
    BY <1>5 DEF PoolRecs
  <2> QED BY <1>4, <1>7, <2>1 DEF PoolRecs
<1>9. \A m \in Reservations : q.entry[m] = IF m = n THEN en ELSE po.entry[m] BY <1>0, <1>6
<1>10. q.reader[r] = rec /\ \A x \in Readers : x # r => q.reader[x] = po.reader[x]
  BY <1>0, <1>6
<1>11. WaitersOK(q)
  <2>1. \A i \in 1 .. Len(po.waiters) : /\ po.waiters[i] \in Readers
                                        /\ po.reader[po.waiters[i]].at = "queued"
    BY <1>0 DEF WaitersOK
  <2>2. \A i \in 1 .. Len(po.waiters) : q.reader[po.waiters[i]].at = "queued" BY <1>10, <2>1
  <2>3. Distinct(po.waiters) BY DEF WaitersOK
  <2>4. q.waiters = po.waiters BY <1>6
  <2> QED BY <2>2, <2>3, <2>4 DEF WaitersOK
<1>12. PermitsOK(q)
  <2>1. Holders(q) = Holders(po) BY <1>2, <1>10 DEF Holders, HoldingSteps
  <2> QED BY <1>6, <2>1 DEF PermitsOK
<1>13. UsersOf(q, n) = UsersOf(po, n) \cup {r} /\ r \notin UsersOf(po, n)
  BY <1>2, <1>10 DEF UsersOf, UsingSteps
<1>14. \A m : m # n => UsersOf(q, m) = UsersOf(po, m)
  BY <1>2, <1>10 DEF UsersOf, UsingSteps
<1>15. Cardinality(UsersOf(q, n)) = e.users + 1
  BY <1>13, CountsAreNumbers, OneMore
<1>16. TableOK(q)
  <2>1. ASSUME NEW m \in Reservations, q.entry[m].is \in Opened \/ q.entry[m].retirement # "none"
        PROVE  m \in ToSet(t)
    <3>1. CASE m = n BY <1>4, <3>1
    <3>2. CASE m # n BY <1>4, <1>9, <2>1, <3>2
    <3> QED BY <3>1, <3>2
  <2>2. q.table = t BY <1>6
  <2> QED BY <1>4, <2>1, <2>2 DEF TableOK
<1>17. EntriesOK(q)
  <2> SUFFICES ASSUME NEW m \in Reservations
               PROVE  /\ q.entry[m].users = Cardinality(UsersOf(q, m))
                      /\ q.entry[m].retirement = "closing" => q.entry[m].users = 0
                      /\ q.entry[m] # Unreserved => m \in ToSet(q.table) \/ q.entry[m].users > 0
    BY DEF EntriesOK
  <2>1. q.table = t BY <1>6
  <2>2. CASE m = n
    <3>1. q.entry[m] = en BY <1>9, <2>2
    <3>2. m \in ToSet(t) BY <1>4, <2>2
    <3> QED BY <1>1, <1>15, <2>1, <2>2, <3>1, <3>2
  <2>3. CASE m # n
    <3>1. q.entry[m] = po.entry[m] /\ UsersOf(q, m) = UsersOf(po, m) BY <1>9, <1>14, <2>3
    <3>2. m \in ToSet(po.table) => m \in ToSet(t) BY <1>4
    <3> QED BY <2>1, <2>3, <3>1, <3>2
  <2> QED BY <2>2, <2>3
<1>18. ReadersOK(q)
  <2> SUFFICES ASSUME NEW x \in Readers
               PROVE  /\ q.reader[x].at \in UsingSteps => q.reader[x].entry \in Reservations
                      /\ q.reader[x].at = "leased" => q.entry[q.reader[x].entry].is = "open"
                      /\ q.reader[x].at # "violated"
    BY DEF ReadersOK
  <2>0. /\ po.reader[x].at \in UsingSteps => po.reader[x].entry \in Reservations
        /\ po.reader[x].at = "leased" => po.entry[po.reader[x].entry].is = "open"
        /\ po.reader[x].at # "violated"
    BY DEF ReadersOK
  <2>1. CASE x = r BY <1>2, <1>10, <2>1
  <2>2. CASE x # r
    <3>1. q.reader[x] = po.reader[x] BY <1>10, <2>2
    <3>2. CASE po.reader[x].at # "leased" BY <2>0, <3>1, <3>2
    <3>3. CASE po.reader[x].at = "leased"
      <4>1. po.reader[x].entry \in Reservations BY <2>0, <3>3 DEF UsingSteps
      <4>2. q.entry[po.reader[x].entry].is = po.entry[po.reader[x].entry].is
        BY <1>1, <1>9, <4>1
      <4> QED BY <2>0, <3>1, <3>3, <4>1, <4>2
    <3> QED BY <3>2, <3>3
  <2> QED BY <2>1, <2>2
<1>19. PhaseOK(q) BY <1>6 DEF PhaseOK
<1> QED BY <1>8, <1>11, <1>12, <1>16, <1>17, <1>18, <1>19 DEF PoolOK, q

(* A reading that is about to enter has a permit that the users of entries *)
(* do not have.                                                            *)
LEMMA FewAreUsed ==
  ASSUME NEW po, PoolOK(po), NEW r \in Readers, po.reader[r].at = "entering"
  PROVE  LET used == {n \in Reservations : po.entry[n].users > 0} IN
         IsFiniteSet(used) /\ Cardinality(used) <= MaxHandles - 1
<1> DEFINE used == {n \in Reservations : po.entry[n].users > 0}
           others == Holders(po) \ {r}
           f == [n \in used |-> CHOOSE x \in Readers : x \in UsersOf(po, n)]
<1>1. /\ po.entry \in [Reservations -> EntryRecs] /\ EntriesOK(po) /\ PermitsOK(po)
      /\ po.permits \in 0 .. MaxHandles /\ MaxHandles \in Nat
  BY PoolParts, HandlesAssumption
<1>2. ASSUME NEW n \in used
      PROVE  f[n] \in UsersOf(po, n)
  <2>1. po.entry[n].users > 0 /\ po.entry[n].users = Cardinality(UsersOf(po, n))
    BY <1>1 DEF EntriesOK
  <2>2. UsersOf(po, n) # {} BY <2>1, FS_EmptySet
  <2>3. \E x \in Readers : x \in UsersOf(po, n) BY <2>2 DEF UsersOf
  <2> HIDE DEF used
  <2> QED BY <2>3
<1>3. r \in Holders(po) BY DEF Holders, HoldingSteps
<1>4. IsFiniteSet(others) /\ Cardinality(others) = Cardinality(Holders(po)) - 1
      /\ Cardinality(Holders(po)) \in Nat
  <2>1. IsFiniteSet(Holders(po)) BY CountsAreNumbers
  <2>2. Cardinality(others) = Cardinality(Holders(po)) - 1 /\ Cardinality(Holders(po)) \in Nat
    BY <1>3, <2>1, OneLess
  <2> QED BY <2>1, <2>2, FS_RemoveElement
<1>5. \A n \in used : /\ f[n] \in Readers /\ po.reader[f[n]].at \in UsingSteps
                      /\ po.reader[f[n]].entry = n
  BY <1>2 DEF UsersOf
<1> HIDE DEF f
<1>6. \A n \in used : f[n] \in others BY <1>5 DEF Holders, HoldingSteps, UsingSteps
<1>7. f \in [used -> others] BY <1>6 DEF f
<1>8. \A m, n \in used : f[m] = f[n] => m = n BY <1>5
<1> HIDE DEF used, others
<1>9. f \in Injection(used, others) BY <1>7, <1>8 DEF Injection, IsInjective
<1>10. IsFiniteSet(used) /\ Cardinality(used) <= Cardinality(others)
  BY <1>4, <1>9, FS_Injection
<1>11. Cardinality(used) \in Nat /\ Cardinality(others) \in Nat BY <1>4, <1>10, FS_CardinalityType
<1>12. Cardinality(used) <= MaxHandles - 1
  BY <1>1, <1>4, <1>10, <1>11 DEF PermitsOK
<1> QED BY <1>10, <1>12 DEF used

(* With a permit in hand a full table has an entry that nobody uses.       *)
LEMMA FullTableHasRoom ==
  ASSUME NEW po, PoolOK(po), NEW r \in Readers, po.reader[r].at = "entering",
         ~ (Len(po.table) < MaxHandles)
  PROVE  \E i \in DOMAIN po.table : po.entry[po.table[i]].users = 0
<1> DEFINE used == {n \in Reservations : po.entry[n].users > 0}
<1>1. /\ po.entry \in [Reservations -> EntryRecs] /\ po.table \in Seq(Reservations)
      /\ Distinct(po.table) /\ Len(po.table) <= MaxHandles /\ MaxHandles \in Nat
  BY PoolParts, HandlesAssumption DEF TableOK
<1>2. IsFiniteSet(used) /\ Cardinality(used) <= MaxHandles - 1 BY FewAreUsed
<1>3. SUFFICES ASSUME \A i \in DOMAIN po.table : po.entry[po.table[i]].users # 0
               PROVE  FALSE
  OBVIOUS
<1>4. ToSet(po.table) \subseteq used
  <2>1. \A i \in DOMAIN po.table : po.table[i] \in Reservations BY <1>1
  <2>2. \A n \in Reservations : po.entry[n].users \in Nat BY <1>1 DEF EntryRecs
  <2> QED BY <1>3, <2>1, <2>2 DEF ToSet
<1>5. Cardinality(ToSet(po.table)) = Len(po.table) BY <1>1, AsManyAsPlaces
<1> HIDE DEF used
<1>6. Cardinality(ToSet(po.table)) <= Cardinality(used) BY <1>2, <1>4, FS_Subset
<1>7. Len(po.table) \in Nat /\ Cardinality(used) \in Nat BY <1>1, <1>2, FS_CardinalityType
<1> QED BY <1>1, <1>2, <1>5, <1>6, <1>7

(* There is a number for a new entry whenever the table has room.          *)
LEMMA NumberIsLeft ==
  ASSUME PoolOK(pool), NEW r \in Readers, pool.reader[r].at = "entering",
         Len(pool.table) < MaxHandles
  PROVE  Unused \in Reservations /\ pool.entry[Unused] = Unreserved
<1> DEFINE used == {n \in Reservations : pool.entry[n].users > 0}
           known == ToSet(pool.table) \cup used
<1>1. /\ pool.table \in Seq(Reservations) /\ Distinct(pool.table) /\ EntriesOK(pool)
      /\ MaxHandles \in Nat \ {0} /\ MaxReserved \in Nat /\ MaxReserved >= 2 * MaxHandles - 1
  BY PoolParts, HandlesAssumption DEF TableOK
<1>2. IsFiniteSet(used) /\ Cardinality(used) <= MaxHandles - 1 BY FewAreUsed
<1>3. IsFiniteSet(ToSet(pool.table)) /\ Cardinality(ToSet(pool.table)) = Len(pool.table)
  BY <1>1, AsManyAsPlaces
<1>4. \A n \in Reservations : pool.entry[n] # Unreserved => n \in known BY <1>1 DEF EntriesOK
<1> HIDE DEF used
<1>5. IsFiniteSet(known) /\ Cardinality(known) <= Cardinality(ToSet(pool.table)) + Cardinality(used)
  <2>1. /\ IsFiniteSet(known)
        /\ Cardinality(known) = Cardinality(ToSet(pool.table)) + Cardinality(used)
                                - Cardinality(ToSet(pool.table) \cap used)
    BY <1>2, <1>3, FS_Union
  <2>2. IsFiniteSet(ToSet(pool.table) \cap used) BY <1>2, <1>3, FS_Subset
  <2>3. /\ Cardinality(ToSet(pool.table) \cap used) \in Nat /\ Cardinality(used) \in Nat
        /\ Cardinality(ToSet(pool.table)) \in Nat
    BY <1>2, <1>3, <2>2, FS_CardinalityType
  <2> QED BY <2>1, <2>3
<1>6. Cardinality(Reservations) = MaxReserved
  <2>1. 1 \in Int /\ MaxReserved \in Int /\ ~ (1 > MaxReserved) BY <1>1
  <2>2. Cardinality(1 .. MaxReserved) = MaxReserved - 1 + 1 BY <2>1, FS_Interval
  <2> QED BY <1>1, <2>2 DEF Reservations
<1> HIDE DEF known
<1>7. \E n \in Reservations : pool.entry[n] = Unreserved
  <2> SUFFICES ASSUME \A n \in Reservations : pool.entry[n] # Unreserved PROVE FALSE
    OBVIOUS
  <2>1. Reservations \subseteq known BY <1>4
  <2>2. Cardinality(Reservations) <= Cardinality(known) BY <1>5, <2>1, FS_Subset
  <2>3. Cardinality(known) \in Nat /\ Cardinality(used) \in Nat /\ Len(pool.table) \in Nat
    BY <1>1, <1>2, <1>5, FS_CardinalityType
  <2> QED BY <1>1, <1>2, <1>3, <1>5, <1>6, <2>2, <2>3
<1> QED BY <1>7 DEF Unused

(* A reading with a permit waits for an entry to be retired.               *)
LEMMA WaitsKeeps ==
  ASSUME NEW po, PoolOK(po), NEW r \in Readers, po.reader[r].at = "entering",
         NEW n \in Reservations
  PROVE  LET w == [Goes(po, r, "awaiting") EXCEPT !.reader[r].entry = n] IN
         PoolOK(w) /\ w.table = po.table
<1> DEFINE g == Goes(po, r, "awaiting")
           w == [g EXCEPT !.reader[r].entry = n]
<1>0. po \in PoolRecs BY PoolParts
<1>1. /\ g \in PoolRecs
      /\ g.phase = po.phase /\ g.permits = po.permits /\ g.waiters = po.waiters
      /\ g.entry = po.entry /\ g.table = po.table
      /\ g.reader[r].at = "awaiting"
      /\ \A x \in Readers : x # r => g.reader[x] = po.reader[x]
  <2>1. "awaiting" \in ReaderSteps BY DEF ReaderSteps
  <2> QED BY <1>0, <2>1, ReaderGoes
<1> HIDE DEF g
<1>2. /\ w \in PoolRecs
      /\ w.phase = g.phase /\ w.permits = g.permits /\ w.waiters = g.waiters
      /\ w.entry = g.entry /\ w.table = g.table
      /\ w.reader[r].at = g.reader[r].at
      /\ \A x \in Readers : x # r => w.reader[x] = g.reader[x]
  BY <1>1, ReaderNotes
<1> HIDE DEF w
<1>3. PoolOK(w) BY <1>1, <1>2, ReaderMoves
<1> QED BY <1>1, <1>2, <1>3 DEF w, g

(* With a permit: an entry is shared, made, waited for or retired.         *)
LEMMA EntersKeeps ==
  ASSUME PoolOK(pool), NEW r \in Readers, Enters(r)
  PROVE  PoolOK(pool')
<1> DEFINE p == pool.reader[r].pack
           unused == {i \in DOMAIN pool.table : pool.entry[pool.table[i]].users = 0}
           idle == {i \in unused : pool.entry[pool.table[i]].retirement = "none"}
           first(places) == pool.table[Min(places)]
           waits(n) == [Goes(pool, r, "awaiting") EXCEPT !.reader[r].entry = n]
<1>0. /\ pool \in PoolRecs /\ pool.reader \in [Readers -> ReaderRecs]
      /\ pool.entry \in [Reservations -> EntryRecs] /\ pool.table \in Seq(Reservations)
      /\ WaitersOK(pool) /\ PermitsOK(pool) /\ TableOK(pool) /\ EntriesOK(pool)
      /\ ReadersOK(pool) /\ PhaseOK(pool)
  BY PoolParts
<1>1. pool.reader[r].at = "entering" /\ pool' = Reserved(pool, r) BY DEF Enters, Doing
<1>2. \A m \in Reservations :
            /\ pool.entry[m].users = Cardinality(UsersOf(pool, m))
            /\ pool.entry[m].retirement = "closing" => pool.entry[m].users = 0
            /\ pool.entry[m].is \in Opened \/ pool.entry[m].retirement # "none"
                  => m \in ToSet(pool.table)
            /\ pool.entry[m] # Unreserved => m \in ToSet(pool.table) \/ pool.entry[m].users > 0
  BY <1>0 DEF EntriesOK, TableOK
<1>3. Distinct(pool.table) /\ Len(pool.table) <= MaxHandles BY <1>0 DEF TableOK
<1>4. ToSet(pool.table) \subseteq Reservations BY <1>0 DEF ToSet
<1>5. \A n \in Reservations : PoolOK(waits(n)) /\ waits(n).table = pool.table
  BY <1>1, WaitsKeeps
<1>6. CASE pool.phase # "open"
  <2>1. pool' = Goes(PermitBack(pool), r, "idle") BY <1>1, <1>6 DEF Reserved
  <2>2. \A x \in Readers :
            /\ pool.reader[x].at \in UsingSteps => pool.reader[x].entry \in Reservations
            /\ pool.reader[x].at = "leased" => pool.entry[pool.reader[x].entry].is = "open"
            /\ pool.reader[x].at # "violated"
    BY <1>0 DEF ReadersOK
  <2>3. pool.reader[r].at \in HoldingSteps /\ pool.reader[r].at \notin UsingSteps
    BY <1>1 DEF HoldingSteps, UsingSteps
  <2>4. PoolOK(Goes(PermitBack(pool), r, "idle")) BY <1>0, <2>2, <2>3, LeavesWithPermit
  <2> QED BY <2>1, <2>4
<1>7. CASE pool.phase = "open" /\ InTable(pool, p) # {}
  <2> DEFINE n == CHOOSE m \in InTable(pool, p) : TRUE
  <2>1. n \in InTable(pool, p) BY <1>7
  <2>2. pool' = IF pool.entry[n].retirement # "none" THEN waits(n) ELSE Used(pool, r, n)
    BY <1>1, <1>7 DEF Reserved
  <2> HIDE DEF n
  <2>3. n \in ToSet(pool.table) /\ n \in Reservations BY <1>4, <2>1 DEF InTable
  <2>4. CASE pool.entry[n].retirement # "none"
    <3>1. PoolOK(waits(n)) BY <1>5, <2>3
    <3> HIDE DEF waits
    <3> QED BY <2>2, <2>4, <3>1
  <2>5. CASE pool.entry[n].retirement = "none"
    <3>1. PoolOK(Used(pool, r, n)) BY <1>0, <1>1, <1>2, <1>3, <1>7, <2>3, <2>5, UsedKeeps
    <3> QED BY <2>2, <2>5, <3>1
  <2> QED BY <2>4, <2>5
<1>8. CASE pool.phase = "open" /\ InTable(pool, p) = {} /\ Len(pool.table) < MaxHandles
  <2> DEFINE n == Unused
             b == [pool EXCEPT !.entry[n].pack = p, !.entry[n].is = "opening"]
             fresh == [pack |-> p, is |-> "opening", users |-> 0, retirement |-> "none"]
  <2>1. pool' = Used(b, r, n) BY <1>1, <1>8 DEF Reserved
  <2>2. n \in Reservations /\ pool.entry[n] = Unreserved BY <1>1, <1>8, NumberIsLeft
  <2> HIDE DEF n
  <2>3. b = [pool EXCEPT !.entry[n] = fresh]
    <3> DEFINE e1 == [pool.entry EXCEPT ![n].pack = p]
               e2 == [e1 EXCEPT ![n].is = "opening"]
               noted == [pack |-> p, is |-> "none", users |-> 0, retirement |-> "none"]
    <3>1. b = [pool EXCEPT !.entry = e2] BY <1>0 DEF PoolRecs
    <3>2. e1 = [pool.entry EXCEPT ![n] = [Unreserved EXCEPT !.pack = p]] BY <1>0, <2>2
    <3>3. [Unreserved EXCEPT !.pack = p] = noted BY DEF Unreserved
    <3>4. e1 = [pool.entry EXCEPT ![n] = noted] BY <3>2, <3>3
    <3> HIDE DEF e1, noted
    <3>5. e1[n] = noted BY <1>0, <2>2, <3>4
    <3>6. e2 = [e1 EXCEPT ![n] = [noted EXCEPT !.is = "opening"]] BY <3>5
    <3>7. [noted EXCEPT !.is = "opening"] = fresh BY DEF noted
    <3> HIDE DEF e2, fresh, b
    <3>8. e2 = [e1 EXCEPT ![n] = fresh] BY <3>6, <3>7
    <3>9. e2 = [pool.entry EXCEPT ![n] = fresh] BY <1>0, <2>2, <3>4, <3>8
    <3> QED BY <1>0, <3>1, <3>9 DEF PoolRecs
  <2>4. p \in PackNames BY <1>0 DEF ReaderRecs
  <2>5. fresh \in EntryRecs /\ fresh.users = 0 /\ fresh.retirement = "none"
    BY <2>4 DEF EntryRecs
  <2> HIDE DEF b, fresh
  <2>6. /\ b.phase = pool.phase /\ b.permits = pool.permits /\ b.waiters = pool.waiters
        /\ b.table = pool.table /\ b.reader = pool.reader
        /\ b.entry = [pool.entry EXCEPT ![n] = fresh]
    BY <1>0, <2>3 DEF PoolRecs
  <2>7. [pool.entry EXCEPT ![n] = fresh] \in [Reservations -> EntryRecs] BY <1>0, <2>5
  <2>8. b \in PoolRecs BY <1>0, <2>3, <2>7 DEF PoolRecs
  <2>9. \A m \in Reservations : b.entry[m] = IF m = n THEN fresh ELSE pool.entry[m]
    BY <1>0, <2>6
  <2>10. Holders(b) = Holders(pool) /\ \A m : UsersOf(b, m) = UsersOf(pool, m)
    BY <2>6 DEF Holders, UsersOf
  <2>11. WaitersOK(b) BY <1>0, <2>6 DEF WaitersOK
  <2>12. PermitsOK(b) BY <1>0, <2>6, <2>10 DEF PermitsOK
  <2>13. pool.entry[n].users = 0 BY <2>2 DEF Unreserved
  <2>14. ReadersOK(b)
    <3> SUFFICES ASSUME NEW x \in Readers
                 PROVE  /\ pool.reader[x].at \in UsingSteps => pool.reader[x].entry \in Reservations
                        /\ pool.reader[x].at = "leased" => b.entry[pool.reader[x].entry].is = "open"
                        /\ pool.reader[x].at # "violated"
      BY <2>6 DEF ReadersOK
    <3>0. /\ pool.reader[x].at \in UsingSteps => pool.reader[x].entry \in Reservations
          /\ pool.reader[x].at = "leased" => pool.entry[pool.reader[x].entry].is = "open"
          /\ pool.reader[x].at # "violated"
      BY <1>0 DEF ReadersOK
    <3>1. CASE pool.reader[x].at # "leased" BY <3>0, <3>1
    <3>2. CASE pool.reader[x].at = "leased"
      <4>1. pool.reader[x].entry \in Reservations BY <3>0, <3>2 DEF UsingSteps
      <4>2. pool.reader[x].entry # n
        <5>1. pool.entry[n].is # "open" BY <2>2 DEF Unreserved
        <5> QED BY <3>0, <3>2, <5>1
      <4> QED BY <2>9, <3>0, <3>2, <4>1, <4>2
    <3> QED BY <3>1, <3>2
  <2>15. \A m \in Reservations :
            /\ b.entry[m].users = Cardinality(UsersOf(b, m))
            /\ b.entry[m].retirement = "closing" => b.entry[m].users = 0
            /\ m # n /\ (b.entry[m].is \in Opened \/ b.entry[m].retirement # "none")
                  => m \in ToSet(b.table)
            /\ m # n /\ b.entry[m] # Unreserved => m \in ToSet(b.table) \/ b.entry[m].users > 0
    <3> SUFFICES ASSUME NEW m \in Reservations
                 PROVE  /\ b.entry[m].users = Cardinality(UsersOf(b, m))
                        /\ b.entry[m].retirement = "closing" => b.entry[m].users = 0
                        /\ m # n /\ (b.entry[m].is \in Opened \/ b.entry[m].retirement # "none")
                              => m \in ToSet(b.table)
                        /\ m # n /\ b.entry[m] # Unreserved
                              => m \in ToSet(b.table) \/ b.entry[m].users > 0
      OBVIOUS
    <3>1. CASE m = n
      <4>1. b.entry[m] = fresh BY <2>9, <3>1
      <4>2. Cardinality(UsersOf(pool, m)) = 0 BY <1>2, <2>13, <3>1
      <4> QED BY <2>5, <2>10, <3>1, <4>1, <4>2
    <3>2. CASE m # n
      <4>1. b.entry[m] = pool.entry[m] BY <2>9, <3>2
      <4> QED BY <1>2, <2>6, <2>10, <3>2, <4>1
    <3> QED BY <3>1, <3>2
  <2>16. b.reader[r].at = "entering" /\ b.phase = "open" /\ b.entry[n].retirement = "none"
    BY <1>1, <1>8, <2>2, <2>5, <2>6, <2>9
  <2>17. Distinct(b.table) /\ Len(b.table) <= MaxHandles /\ Len(b.table) < MaxHandles
    BY <1>3, <1>8, <2>6
  <2>18. PoolOK(Used(b, r, n))
    BY <2>2, <2>8, <2>11, <2>12, <2>14, <2>15, <2>16, <2>17, UsedKeeps
  <2> QED BY <2>1, <2>18 DEF b
<1>9. CASE pool.phase = "open" /\ InTable(pool, p) = {} /\ ~ (Len(pool.table) < MaxHandles)
  <2>1. unused # {} BY <1>1, <1>9, FullTableHasRoom
  <2>2. pool' = IF idle # {} THEN Retired(waits(first(idle)), first(idle))
                ELSE IF unused # {} THEN waits(first(unused))
                ELSE Goes(pool, r, "violated")
    BY <1>1, <1>9 DEF Reserved
  <2>3. unused \in SUBSET Nat /\ idle \in SUBSET Nat /\ unused \subseteq DOMAIN pool.table
        /\ idle \subseteq DOMAIN pool.table
    BY <1>0
  <2> HIDE DEF waits, unused, idle
  <2>4. CASE idle # {}
    <3> DEFINE n == first(idle)
    <3>1. Min(idle) \in DOMAIN pool.table BY <2>3, <2>4, LeastIsThere
    <3>2. n \in ToSet(pool.table) BY <3>1 DEF ToSet
    <3> HIDE DEF n
    <3>3. PoolOK(waits(n)) /\ n \in ToSet(waits(n).table) BY <1>4, <1>5, <3>2
    <3>4. PoolOK(Retired(waits(n), n)) BY <3>3, RetiredKeeps
    <3> QED BY <2>2, <2>4, <3>4 DEF n
  <2>5. CASE idle = {}
    <3> DEFINE n == first(unused)
    <3>1. Min(unused) \in DOMAIN pool.table BY <2>1, <2>3, LeastIsThere
    <3>2. n \in ToSet(pool.table) BY <3>1 DEF ToSet
    <3> HIDE DEF n
    <3>3. PoolOK(waits(n)) BY <1>4, <1>5, <3>2
    <3> QED BY <2>1, <2>2, <2>5, <3>3 DEF n
  <2> QED BY <2>4, <2>5
<1> QED BY <1>6, <1>7, <1>8, <1>9

(* A step of a reading that has a permit already, or needs none.           *)
LEMMA ReadersKeep ==
  ASSUME PoolOK(pool), NEW r \in Readers,
         \/ \E p \in AllPacks : Asks(r, p)
         \/ Wakes(r)
         \/ Refused(r)
         \/ Obtains(r)
         \/ Reads(r)
         \/ Rejects(r)
         \/ Returns(r)
         \/ Invalidates(r)
         \/ Mismatches(r)
         \/ ReadFails(r)
  PROVE  PoolOK(pool')
<1>0. /\ pool \in PoolRecs /\ pool.reader \in [Readers -> ReaderRecs]
      /\ pool.entry \in [Reservations -> EntryRecs]
      /\ WaitersOK(pool) /\ PermitsOK(pool) /\ TableOK(pool) /\ EntriesOK(pool)
      /\ ReadersOK(pool) /\ PhaseOK(pool)
  BY PoolParts
<1>1. ASSUME NEW po, PoolOK(po), NEW step \in {"idle", "invalidating"},
             po.reader[r].at \in {"idle", "woken", "missed"}
      PROVE  PoolOK(Goes(po, r, step))
  <2> DEFINE g == Goes(po, r, step)
  <2>0. po \in PoolRecs BY <1>1, PoolParts
  <2>1. /\ g \in PoolRecs
        /\ g.phase = po.phase /\ g.permits = po.permits /\ g.waiters = po.waiters
        /\ g.entry = po.entry /\ g.table = po.table
        /\ g.reader[r].at = step
        /\ \A x \in Readers : x # r => g.reader[x] = po.reader[x]
    <3>1. step \in ReaderSteps BY <1>1 DEF ReaderSteps
    <3> QED BY <2>0, <3>1, ReaderGoes
  <2> HIDE DEF g
  <2>2. po.reader[r].at \notin HoldingSteps /\ po.reader[r].at # "queued"
        /\ g.reader[r].at \notin HoldingSteps \cup {"violated"}
    BY <1>1, <2>1 DEF HoldingSteps
  <2>3. PoolOK(g) BY <1>1, <2>1, <2>2, ReaderMoves
  <2> QED BY <2>3 DEF g
<1>2. ASSUME NEW step \in {"idle", "missed"}, pool.reader[r].at \in {"refused", "returned"}
      PROVE  PoolOK(Goes(PermitBack(pool), r, step))
  <2>1. \A x \in Readers :
            /\ pool.reader[x].at \in UsingSteps => pool.reader[x].entry \in Reservations
            /\ pool.reader[x].at = "leased" => pool.entry[pool.reader[x].entry].is = "open"
            /\ pool.reader[x].at # "violated"
    BY <1>0 DEF ReadersOK
  <2>2. pool.reader[r].at \in HoldingSteps /\ pool.reader[r].at \notin UsingSteps
    BY <1>2 DEF HoldingSteps, UsingSteps
  <2> QED BY <1>0, <1>2, <2>1, <2>2, LeavesWithPermit
<1>3. ASSUME NEW po, PoolOK(po), NEW step \in {"leased", "spoilt"},
             po.reader[r].at \in UsingSteps,
             step = "leased" => po.entry[po.reader[r].entry].is = "open"
      PROVE  PoolOK(Goes(po, r, step))
  <2> DEFINE g == Goes(po, r, step)
  <2>0. po \in PoolRecs BY <1>3, PoolParts
  <2>1. /\ g \in PoolRecs
        /\ g.phase = po.phase /\ g.permits = po.permits /\ g.waiters = po.waiters
        /\ g.entry = po.entry /\ g.table = po.table
        /\ g.reader[r].at = step /\ g.reader[r].entry = po.reader[r].entry
        /\ \A x \in Readers : x # r => g.reader[x] = po.reader[x]
    <3>1. step \in ReaderSteps /\ step # "idle" BY <1>3 DEF ReaderSteps
    <3> QED BY <2>0, <3>1, ReaderGoes
  <2> HIDE DEF g
  <2>2. po.reader[r].at # "queued" /\ g.reader[r].at \in UsingSteps
    BY <1>3, <2>1 DEF UsingSteps
  <2>3. PoolOK(g) BY <1>3, <2>1, <2>2, ReaderMoves
  <2> QED BY <2>3 DEF g
(* What a reading in possession of an entry knows of it.                   *)
<1>4. ASSUME pool.reader[r].at \in UsingSteps
      PROVE  /\ pool.reader[r].entry \in Reservations
             /\ pool.entry[pool.reader[r].entry].users > 0
  <2>1. pool.reader[r].entry \in Reservations BY <1>0, <1>4 DEF ReadersOK
  <2>2. r \in UsersOf(pool, pool.reader[r].entry) BY <1>4 DEF UsersOf
  <2>3. Cardinality(UsersOf(pool, pool.reader[r].entry)) > 0 BY <2>2, CountsAreNumbers, OneLess
  <2> QED BY <1>0, <2>1, <2>3 DEF EntriesOK
<1>5. ASSUME NEW p \in AllPacks, Asks(r, p) PROVE PoolOK(pool')
  <2> DEFINE b == [pool EXCEPT !.reader[r].pack = p]
             rec == [pool.reader[r] EXCEPT !.pack = p]
  <2>1. pool.reader[r].at = "idle" /\ pool' = TakesPermit(b, r) BY <1>5 DEF Asks, Doing
  <2>2. rec \in ReaderRecs /\ rec.at = "idle" BY <1>0, <2>1 DEF ReaderRecs, PackNames
  <2>3. b = [pool EXCEPT !.reader[r] = rec] BY <1>0
  <2> HIDE DEF b, rec
  <2>4. /\ b.phase = pool.phase /\ b.permits = pool.permits /\ b.waiters = pool.waiters
        /\ b.entry = pool.entry /\ b.table = pool.table
        /\ b.reader = [pool.reader EXCEPT ![r] = rec]
    BY <1>0, <2>3 DEF PoolRecs
  <2>5. [pool.reader EXCEPT ![r] = rec] \in [Readers -> ReaderRecs] BY <1>0, <2>2
  <2>6. b \in PoolRecs BY <1>0, <2>3, <2>5 DEF PoolRecs
  <2>7. b.reader[r].at = "idle" /\ \A x \in Readers : x # r => b.reader[x] = pool.reader[x]
    BY <1>0, <2>2, <2>4
  <2>8. pool.reader[r].at \notin HoldingSteps /\ pool.reader[r].at # "queued"
        /\ b.reader[r].at \notin HoldingSteps \cup {"violated"}
    BY <2>1, <2>7 DEF HoldingSteps
  <2>9. PoolOK(b) BY <2>4, <2>6, <2>7, <2>8, ReaderMoves
  <2>10. PoolOK(TakesPermit(b, r)) BY <2>7, <2>9, TakesPermitKeeps
  <2> QED BY <2>1, <2>10 DEF b
<1>6. ASSUME Wakes(r) PROVE PoolOK(pool')
  <2>1. pool.reader[r].at = "woken"
        /\ pool' = IF pool.phase # "open" THEN Goes(pool, r, "idle") ELSE TakesPermit(pool, r)
    BY <1>6 DEF Wakes, Doing
  <2>2. PoolOK(Goes(pool, r, "idle")) BY <1>1, <2>1
  <2>3. PoolOK(TakesPermit(pool, r)) BY <2>1, TakesPermitKeeps
  <2> QED BY <2>1, <2>2, <2>3
<1>7. ASSUME Refused(r) PROVE PoolOK(pool') BY <1>2, <1>7 DEF Refused, Doing
<1>8. ASSUME Obtains(r) PROVE PoolOK(pool')
  <2> DEFINE n == pool.reader[r].entry
             gone == IF pool.entry[n].retirement = "none" THEN Deleted(pool, n) ELSE pool
  <2>1. /\ pool.reader[r].at = "opening" /\ pool.reader[r].at \in UsingSteps
        /\ pool.entry[n].is \notin {"none", "opening"}
        /\ pool' = IF pool.entry[n].is = "open" THEN Goes(pool, r, "leased")
                   ELSE Released(gone, r, "missed")
    BY <1>8 DEF Obtains, Doing, Settled, Entry, UsingSteps
  <2>2. n \in Reservations /\ pool.entry[n].users > 0 BY <1>4, <2>1
  <2>3. CASE pool.entry[n].is = "open"
    <3>1. PoolOK(Goes(pool, r, "leased")) BY <1>3, <2>1, <2>3
    <3> QED BY <2>1, <2>3, <3>1
  <2>4. CASE pool.entry[n].is # "open"
    <3> HIDE DEF n
    <3>1. PoolOK(gone) /\ gone.reader = pool.reader
      <4>1. pool.entry[n].is \notin Opened BY <2>1, <2>4 DEF Opened
      <4>2. CASE pool.entry[n].retirement = "none"
        <5>1. PoolOK(Deleted(pool, n)) /\ Deleted(pool, n).reader = pool.reader
          BY <2>2, <4>1, <4>2, DeletedKeeps
        <5> QED BY <4>2, <5>1
      <4>3. CASE pool.entry[n].retirement # "none" BY <4>3
      <4> QED BY <4>2, <4>3
    <3> HIDE DEF gone
    <3>2. PoolOK(Released(gone, r, "missed")) BY <2>1, <3>1, ReleasedKeeps
    <3> QED BY <2>1, <2>4, <3>2
  <2> QED BY <2>3, <2>4
<1>9. ASSUME Reads(r) PROVE PoolOK(pool')
  <2>1. pool.reader[r].at \in UsingSteps /\ pool' = Released(pool, r, "idle")
    BY <1>9 DEF Reads, Doing, UsingSteps
  <2> QED BY <2>1, ReleasedKeeps
<1>10. ASSUME Rejects(r) PROVE PoolOK(pool')
  <2>1. pool.reader[r].at \in UsingSteps /\ pool' = Released(pool, r, "idle")
    BY <1>10 DEF Rejects, Doing, UsingSteps
  <2> QED BY <2>1, ReleasedKeeps
<1>11. ASSUME Returns(r) PROVE PoolOK(pool')
  <2>1. pool.reader[r].at = "returned" /\ pool' = Goes(PermitBack(pool), r, pool.reader[r].next)
    BY <1>11 DEF Returns, Doing
  <2>2. pool.reader[r].next \in {"idle", "missed"} BY <1>0 DEF ReaderRecs
  <2> QED BY <1>2, <2>1, <2>2
<1>12. ASSUME Invalidates(r) PROVE PoolOK(pool')
  <2> DEFINE known == InTable(pool, pool.reader[r].pack)
  <2>1. /\ pool.reader[r].at = "missed"
        /\ \/ pool' = Goes(pool, r, "idle")
           \/ \E n \in known :
                 pool' = IF pool.entry[n].users # 0 THEN Goes(Retired(pool, n), r, "idle")
                         ELSE [Goes(Retired(pool, n), r, "invalidating") EXCEPT !.reader[r].entry = n]
    BY <1>12 DEF Invalidates, Doing
  <2>2. CASE pool' = Goes(pool, r, "idle")
    <3>1. PoolOK(Goes(pool, r, "idle")) BY <1>1, <2>1
    <3> QED BY <2>2, <3>1
  <2>3. ASSUME NEW n \in known,
               pool' = IF pool.entry[n].users # 0 THEN Goes(Retired(pool, n), r, "idle")
                       ELSE [Goes(Retired(pool, n), r, "invalidating") EXCEPT !.reader[r].entry = n]
        PROVE  PoolOK(pool')
    <3>1. n \in ToSet(pool.table) BY DEF InTable
    <3>2. n \in Reservations BY <1>0, <3>1 DEF PoolRecs, ToSet
    <3> DEFINE b == Retired(pool, n)
               g == Goes(b, r, "invalidating")
               w == [g EXCEPT !.reader[r].entry = n]
    <3>3. PoolOK(b) /\ b.reader = pool.reader BY <3>1, RetiredKeeps
    <3>4. pool' = Goes(b, r, "idle") \/ pool' = w BY <2>3
    <3> HIDE DEF b
    <3>5. b.reader[r].at = "missed" BY <2>1, <3>3
    <3>6. PoolOK(Goes(b, r, "idle")) /\ PoolOK(g) BY <1>1, <3>3, <3>5
    <3>7. g.reader[r].at = "invalidating"
      <4>1. b \in PoolRecs /\ "invalidating" \in ReaderSteps BY <3>3, PoolParts DEF ReaderSteps
      <4> QED BY <4>1, ReaderGoes
    <3> HIDE DEF g
    <3>8. g \in PoolRecs BY <3>6, PoolParts
    <3>9. /\ w \in PoolRecs
          /\ w.phase = g.phase /\ w.permits = g.permits /\ w.waiters = g.waiters
          /\ w.entry = g.entry /\ w.table = g.table
          /\ w.reader[r].at = g.reader[r].at
          /\ \A x \in Readers : x # r => w.reader[x] = g.reader[x]
      BY <3>2, <3>8, ReaderNotes
    <3> HIDE DEF w
    <3>10. g.reader[r].at \notin HoldingSteps /\ g.reader[r].at # "queued"
           /\ w.reader[r].at \notin HoldingSteps \cup {"violated"}
      BY <3>7, <3>9 DEF HoldingSteps
    <3>11. PoolOK(w) BY <3>6, <3>9, <3>10, ReaderMoves
    <3> QED BY <3>4, <3>6, <3>11
  <2> QED BY <2>1, <2>2, <2>3
<1>13. ASSUME Mismatches(r) PROVE PoolOK(pool')
  <2>1. pool.reader[r].at \in UsingSteps /\ pool' = Released(pool, r, "missed")
    BY <1>13 DEF Mismatches, Doing, UsingSteps
  <2> QED BY <2>1, ReleasedKeeps
<1>14. ASSUME ReadFails(r) PROVE PoolOK(pool')
  <2> DEFINE n == pool.reader[r].entry
             b == IF pool.phase = "open" THEN Retired(pool, n) ELSE pool
  <2>1. pool.reader[r].at = "leased" /\ pool.reader[r].at \in UsingSteps
        /\ pool' = Goes(b, r, "spoilt")
    BY <1>14 DEF ReadFails, Doing, UsingSteps
  <2>2. n \in Reservations /\ pool.entry[n].is = "open" BY <1>0, <1>4, <2>1 DEF ReadersOK
  <2>3. n \in ToSet(pool.table) BY <1>0, <2>2 DEF TableOK, Opened
  <2>4. PoolOK(b) /\ b.reader = pool.reader
    <3>1. PoolOK(Retired(pool, n)) /\ Retired(pool, n).reader = pool.reader
      BY <2>3, RetiredKeeps
    <3> HIDE DEF n
    <3> QED BY <3>1
  <2> HIDE DEF b
  <2>5. PoolOK(Goes(b, r, "spoilt")) BY <1>3, <2>1, <2>4
  <2> QED BY <2>1, <2>5
<1> QED BY <1>5, <1>6, <1>7, <1>8, <1>9, <1>10, <1>11, <1>12, <1>13, <1>14

(* An entry is opened, or its retirement goes on or ends.                  *)
LEMMA EntriesKeep ==
  ASSUME PoolOK(pool), NEW n \in Reservations,
         Opens(n) \/ OpenFails(n) \/ RetireCloses(n) \/ RetireEnds(n) \/ CloseFails(n)
  PROVE  PoolOK(pool')
<1>0. /\ pool \in PoolRecs /\ pool.entry \in [Reservations -> EntryRecs]
      /\ TableOK(pool) /\ EntriesOK(pool)
  BY PoolParts
<1> DEFINE e == pool.entry[n]
<1>1. ASSUME NEW new \in EntryRecs, pool' = [pool EXCEPT !.entry[n] = new],
             new.users = e.users, n \in ToSet(pool.table),
             e.is = "open" => new.is = "open",
             new.retirement = "closing" => e.users = 0
      PROVE  PoolOK(pool')
  <2> HIDE DEF e
  <2>1. /\ pool'.phase = pool.phase /\ pool'.permits = pool.permits
        /\ pool'.waiters = pool.waiters /\ pool'.reader = pool.reader
        /\ pool'.table = pool.table /\ pool'.entry = [pool.entry EXCEPT ![n] = new]
    BY <1>0, <1>1 DEF PoolRecs
  <2>2. [pool.entry EXCEPT ![n] = new] \in [Reservations -> EntryRecs] BY <1>0, <1>1
  <2>3. pool' \in PoolRecs BY <1>0, <1>1, <2>2 DEF PoolRecs
  <2>4. pool'.entry[n] = new /\ \A m \in Reservations : m # n => pool'.entry[m] = pool.entry[m]
    BY <1>0, <2>1
  <2>5. /\ pool'.entry[n].users = pool.entry[n].users
        /\ pool.entry[n].is = "open" => pool'.entry[n].is = "open"
        /\ pool'.entry[n].retirement = "closing" => pool.entry[n].users = 0
    BY <1>1, <2>4 DEF e
  <2>6. n \in ToSet(pool.table) /\ \A m \in Reservations : m # n => pool'.entry[m] = pool.entry[m]
    BY <1>1, <2>4
  <2>7. /\ pool'.phase = pool.phase /\ pool'.permits = pool.permits
        /\ pool'.waiters = pool.waiters /\ pool'.reader = pool.reader
        /\ pool'.table = pool.table
    BY <2>1
  <2> QED BY <2>3, <2>5, <2>6, <2>7, EntryMoves
<1>2. e \in EntryRecs BY <1>0
<1>3. ASSUME NEW how \in {"open", "missing", "failed"}, e.is = "opening",
             pool' = [pool EXCEPT !.entry[n].is = how]
      PROVE  PoolOK(pool')
  <2> DEFINE new == [e EXCEPT !.is = how]
  <2>1. new \in EntryRecs /\ new.users = e.users /\ new.retirement = e.retirement
    BY <1>2 DEF EntryRecs
  <2>2. pool' = [pool EXCEPT !.entry[n] = new] BY <1>3
  <2>3. n \in ToSet(pool.table) BY <1>0, <1>3 DEF TableOK, Opened
  <2>4. e.retirement = "closing" => e.users = 0 BY <1>0 DEF EntriesOK
  <2> HIDE DEF new
  <2> QED BY <1>1, <1>3, <2>1, <2>2, <2>3, <2>4
<1>4. CASE Opens(n)
  <2> DEFINE how == IF pool.entry[n].pack \in files THEN "open" ELSE "missing"
  <2>1. e.is = "opening" /\ pool' = [pool EXCEPT !.entry[n].is = how] BY <1>4 DEF Opens
  <2>2. how \in {"open", "missing", "failed"} OBVIOUS
  <2> HIDE DEF how, e
  <2> QED BY <1>3, <2>1, <2>2
<1>5. CASE OpenFails(n)
  <2>1. e.is = "opening" /\ pool' = [pool EXCEPT !.entry[n].is = "failed"] BY <1>5 DEF OpenFails
  <2> HIDE DEF e
  <2> QED BY <1>3, <2>1
<1>6. CASE RetireCloses(n)
  <2>1. /\ e.retirement = "waiting" /\ e.users = 0 /\ e.is \notin {"none", "opening"}
        /\ pool' = CASE e.is = "open" -> [pool EXCEPT !.entry[n].retirement = "closing"]
                     [] e.is = "missing" -> Over(pool, n, "done")
                     [] e.is = "failed" -> Over(pool, n, "failed")
    BY <1>6 DEF RetireCloses, Settled
  <2>2. CASE e.is = "open"
    <3> DEFINE new == [e EXCEPT !.retirement = "closing"]
    <3>1. new \in EntryRecs /\ new.users = e.users /\ new.is = e.is BY <1>2 DEF EntryRecs
    <3>2. pool' = [pool EXCEPT !.entry[n] = new] BY <2>1, <2>2
    <3>3. n \in ToSet(pool.table) BY <1>0, <2>1 DEF TableOK
    <3> HIDE DEF new
    <3> QED BY <1>1, <2>1, <3>1, <3>2, <3>3
  <2>3. CASE e.is = "missing"
    <3>1. PoolOK(Over(pool, n, "done")) BY <2>1, OverKeeps
    <3> QED BY <2>1, <2>3, <3>1
  <2>4. CASE e.is = "failed"
    <3>1. PoolOK(Over(pool, n, "failed")) BY <2>1, OverKeeps
    <3> QED BY <2>1, <2>4, <3>1
  <2>5. e.is \in {"open", "missing", "failed"} BY <1>2, <2>1 DEF EntryRecs
  <2> QED BY <2>2, <2>3, <2>4, <2>5
<1>7. CASE RetireEnds(n)
  <2>1. e.users = 0 /\ pool' = Over(pool, n, "done") BY <1>0, <1>7 DEF RetireEnds, EntriesOK
  <2> QED BY <2>1, OverKeeps
<1>8. CASE CloseFails(n)
  <2>1. e.users = 0 /\ pool' = Over(pool, n, "failed") BY <1>0, <1>8 DEF CloseFails, EntriesOK
  <2> QED BY <2>1, OverKeeps
<1> QED BY <1>4, <1>5, <1>6, <1>7, <1>8

(* The scope begins to close, and who waits for a permit is turned away.   *)
LEMMA ClosingKeeps ==
  ASSUME PoolOK(pool), PoolCloses
  PROVE  PoolOK(pool')
<1> DEFINE turned == [r \in Readers |->
                        IF Doing(r, "queued") THEN [pool.reader[r] EXCEPT !.at = "woken"]
                        ELSE pool.reader[r]]
<1>0. /\ pool \in PoolRecs /\ pool.reader \in [Readers -> ReaderRecs]
      /\ PermitsOK(pool) /\ TableOK(pool) /\ EntriesOK(pool) /\ ReadersOK(pool)
  BY PoolParts
<1>1. pool' = [pool EXCEPT !.phase = "draining", !.waiters = <<>>, !.reader = turned]
  BY DEF PoolCloses, PoolRecs
<1>2. \A r \in Readers :
        /\ turned[r] \in ReaderRecs
        /\ \/ turned[r] = pool.reader[r]
           \/ pool.reader[r].at = "queued" /\ turned[r].at = "woken"
  <2> SUFFICES ASSUME NEW r \in Readers
               PROVE  /\ turned[r] \in ReaderRecs
                      /\ \/ turned[r] = pool.reader[r]
                         \/ pool.reader[r].at = "queued" /\ turned[r].at = "woken"
    OBVIOUS
  <2> DEFINE rec == pool.reader[r]
  <2>1. rec \in ReaderRecs BY <1>0
  <2>2. turned[r] = IF rec.at = "queued" THEN [rec EXCEPT !.at = "woken"] ELSE rec BY DEF Doing
  <2> HIDE DEF rec, turned
  <2>3. CASE rec.at = "queued" BY <2>1, <2>2, <2>3 DEF ReaderRecs, ReaderSteps, rec
  <2>4. CASE rec.at # "queued" BY <2>1, <2>2, <2>4 DEF rec
  <2> QED BY <2>3, <2>4
<1>3. turned \in [Readers -> ReaderRecs]
  <2>1. DOMAIN turned = Readers /\ turned = [r \in Readers |-> turned[r]] OBVIOUS
  <2> HIDE DEF turned
  <2> QED BY <1>2, <2>1
<1> HIDE DEF turned
<1>4. /\ pool'.phase = "draining" /\ pool'.permits = pool.permits /\ pool'.waiters = <<>>
      /\ pool'.entry = pool.entry /\ pool'.table = pool.table /\ pool'.reader = turned
  BY <1>0, <1>1 DEF PoolRecs
<1>5. pool' \in PoolRecs
  <2>1. <<>> \in Seq(Readers) OBVIOUS
  <2> QED BY <1>0, <1>1, <1>3, <2>1 DEF PoolRecs
<1>6. Holders(pool') = Holders(pool) BY <1>2, <1>4 DEF Holders, HoldingSteps
<1>7. \A m : UsersOf(pool', m) = UsersOf(pool, m)
  <2> SUFFICES ASSUME NEW m PROVE UsersOf(pool', m) = UsersOf(pool, m) OBVIOUS
  <2>1. \A x \in Readers :
          ((pool'.reader[x].at \in UsingSteps /\ pool'.reader[x].entry = m)
              <=> (pool.reader[x].at \in UsingSteps /\ pool.reader[x].entry = m))
    BY <1>2, <1>4 DEF UsingSteps
  <2> QED BY <2>1 DEF UsersOf
<1>8. WaitersOK(pool')
  <2>1. pool'.waiters = <<>> BY <1>4
  <2> QED BY <2>1 DEF WaitersOK, Distinct
<1>9. PermitsOK(pool') BY <1>0, <1>4, <1>6 DEF PermitsOK
<1>10. TableOK(pool') BY <1>0, <1>4 DEF TableOK
<1>11. EntriesOK(pool') BY <1>0, <1>4, <1>7 DEF EntriesOK
<1>12. ReadersOK(pool')
  <2> SUFFICES ASSUME NEW x \in Readers
               PROVE  /\ turned[x].at \in UsingSteps => turned[x].entry \in Reservations
                      /\ turned[x].at = "leased" => pool.entry[turned[x].entry].is = "open"
                      /\ turned[x].at # "violated"
    BY <1>4 DEF ReadersOK
  <2>1. CASE turned[x] = pool.reader[x] BY <1>0, <2>1 DEF ReadersOK
  <2>2. CASE turned[x].at = "woken" BY <2>2 DEF UsingSteps
  <2> QED BY <1>2, <2>1, <2>2
<1>13. PhaseOK(pool') BY <1>4 DEF PhaseOK
<1> QED BY <1>5, <1>8, <1>9, <1>10, <1>11, <1>12, <1>13 DEF PoolOK

(* All leases are over, and what is left in the table is retired.          *)
LEMMA DrainingKeeps ==
  ASSUME PoolOK(pool), PoolDrains
  PROVE  PoolOK(pool')
<1> DEFINE entries == [n \in Reservations |->
                         IF n \in ToSet(pool.table) THEN Retired(pool, n).entry[n] ELSE pool.entry[n]]
<1>0. /\ pool \in PoolRecs /\ pool.entry \in [Reservations -> EntryRecs]
      /\ WaitersOK(pool) /\ PermitsOK(pool) /\ TableOK(pool) /\ EntriesOK(pool) /\ ReadersOK(pool)
      /\ pool.table \in Seq(Reservations)
  BY PoolParts
<1>1. pool.phase = "draining" /\ Active = {}
      /\ pool' = [pool EXCEPT !.phase = "retiring", !.entry = entries]
  BY DEF PoolDrains, PoolRecs
<1>2. ASSUME NEW n \in Reservations
      PROVE  /\ entries[n] \in EntryRecs
             /\ entries[n].users = pool.entry[n].users /\ entries[n].is = pool.entry[n].is
             /\ \/ entries[n] = pool.entry[n]
                \/ n \in ToSet(pool.table) /\ entries[n].retirement = "waiting"
  <2> DEFINE e == pool.entry[n]
             later == [e EXCEPT !.retirement = "waiting"]
  <2>1. e \in EntryRecs BY <1>0
  <2>2. later \in EntryRecs /\ later.users = e.users /\ later.is = e.is
        /\ later.retirement = "waiting"
    BY <2>1 DEF EntryRecs
  <2>3. entries[n] = e \/ (n \in ToSet(pool.table) /\ entries[n] = later)
    <3>1. CASE n \notin ToSet(pool.table) BY <3>1
    <3>2. CASE n \in ToSet(pool.table)
      <4>1. Retired(pool, n).entry[n] = IF e.retirement = "none" THEN later ELSE e
        BY <3>2, RetiredKeeps
      <4>2. entries[n] = Retired(pool, n).entry[n] BY <3>2
      <4> HIDE DEF entries, later, e
      <4> QED BY <3>2, <4>1, <4>2
    <3> QED BY <3>1, <3>2
  <2> HIDE DEF entries, later
  <2> QED BY <2>1, <2>2, <2>3
<1>3. entries \in [Reservations -> EntryRecs]
  <2>1. entries = [n \in Reservations |-> entries[n]] OBVIOUS
  <2> HIDE DEF entries
  <2> QED BY <1>2, <2>1
<1> HIDE DEF entries
<1>4. /\ pool'.phase = "retiring" /\ pool'.permits = pool.permits /\ pool'.waiters = pool.waiters
      /\ pool'.entry = entries /\ pool'.table = pool.table /\ pool'.reader = pool.reader
  BY <1>0, <1>1 DEF PoolRecs
<1>5. pool' \in PoolRecs BY <1>0, <1>1, <1>3 DEF PoolRecs
<1>6. Holders(pool') = Holders(pool) /\ \A m : UsersOf(pool', m) = UsersOf(pool, m)
  BY <1>4 DEF Holders, UsersOf
<1>7. WaitersOK(pool') BY <1>0, <1>4 DEF WaitersOK
<1>8. PermitsOK(pool') BY <1>0, <1>4, <1>6 DEF PermitsOK
<1>9. TableOK(pool')
  <2>1. ASSUME NEW m \in Reservations, entries[m].is \in Opened \/ entries[m].retirement # "none"
        PROVE  m \in ToSet(pool.table)
    <3>1. CASE entries[m] = pool.entry[m] BY <1>0, <2>1, <3>1 DEF TableOK
    <3>2. CASE m \in ToSet(pool.table) BY <3>2
    <3> QED BY <1>2, <3>1, <3>2
  <2>2. Distinct(pool.table) /\ Len(pool.table) <= MaxHandles BY <1>0 DEF TableOK
  <2> QED BY <1>4, <2>1, <2>2 DEF TableOK
<1>10. EntriesOK(pool')
  <2> SUFFICES ASSUME NEW m \in Reservations
               PROVE  /\ entries[m].users = Cardinality(UsersOf(pool, m))
                      /\ entries[m].retirement = "closing" => entries[m].users = 0
                      /\ entries[m] # Unreserved => m \in ToSet(pool.table) \/ entries[m].users > 0
    BY <1>4, <1>6 DEF EntriesOK
  <2>0. /\ pool.entry[m].users = Cardinality(UsersOf(pool, m))
        /\ pool.entry[m].retirement = "closing" => pool.entry[m].users = 0
        /\ pool.entry[m] # Unreserved => m \in ToSet(pool.table) \/ pool.entry[m].users > 0
    BY <1>0 DEF EntriesOK
  <2>1. CASE entries[m] = pool.entry[m] BY <2>0, <2>1
  <2>2. CASE m \in ToSet(pool.table) /\ entries[m].retirement = "waiting" BY <1>2, <2>0, <2>2
  <2> QED BY <1>2, <2>1, <2>2
<1>11. ReadersOK(pool')
  <2> SUFFICES ASSUME NEW x \in Readers
               PROVE  /\ pool.reader[x].at \in UsingSteps => pool.reader[x].entry \in Reservations
                      /\ pool.reader[x].at = "leased" => entries[pool.reader[x].entry].is = "open"
                      /\ pool.reader[x].at # "violated"
    BY <1>4 DEF ReadersOK
  <2>0. /\ pool.reader[x].at \in UsingSteps => pool.reader[x].entry \in Reservations
        /\ pool.reader[x].at = "leased" => pool.entry[pool.reader[x].entry].is = "open"
        /\ pool.reader[x].at # "violated"
    BY <1>0 DEF ReadersOK
  <2>1. pool.reader[x].at = "leased" => pool.reader[x].entry \in Reservations
    BY <2>0 DEF UsingSteps
  <2> QED BY <1>2, <2>0, <2>1
<1>12. PhaseOK(pool')
  <2>1. \A r \in Readers : pool.reader[r].at \notin UsingSteps \cup {"returning", "returned"}
    BY <1>1 DEF Active, UsingSteps
  <2> QED BY <1>4, <2>1 DEF PhaseOK
<1> QED BY <1>5, <1>7, <1>8, <1>9, <1>10, <1>11, <1>12 DEF PoolOK

(* Nothing is left in the table: the scope is closed.                      *)
LEMMA EndingKeeps ==
  ASSUME PoolOK(pool), PoolEnds
  PROVE  PoolOK(pool')
<1>0. /\ pool \in PoolRecs
      /\ WaitersOK(pool) /\ PermitsOK(pool) /\ TableOK(pool) /\ EntriesOK(pool)
      /\ ReadersOK(pool) /\ PhaseOK(pool)
  BY PoolParts
<1>1. pool.phase = "retiring" /\ pool.table = <<>> /\ pool' = [pool EXCEPT !.phase = "closed"]
  BY DEF PoolEnds
<1>2. /\ pool'.phase = "closed" /\ pool'.permits = pool.permits /\ pool'.waiters = pool.waiters
      /\ pool'.entry = pool.entry /\ pool'.table = pool.table /\ pool'.reader = pool.reader
  BY <1>0, <1>1 DEF PoolRecs
<1>3. pool' \in PoolRecs BY <1>0, <1>1 DEF PoolRecs
<1>4. Holders(pool') = Holders(pool) /\ \A m : UsersOf(pool', m) = UsersOf(pool, m)
  BY <1>2 DEF Holders, UsersOf
<1>5. WaitersOK(pool') BY <1>0, <1>2 DEF WaitersOK
<1>6. PermitsOK(pool') BY <1>0, <1>2, <1>4 DEF PermitsOK
<1>7. TableOK(pool') BY <1>0, <1>2 DEF TableOK
<1>8. EntriesOK(pool') BY <1>0, <1>2, <1>4 DEF EntriesOK
<1>9. ReadersOK(pool') BY <1>0, <1>2 DEF ReadersOK
<1>10. PhaseOK(pool') BY <1>0, <1>1, <1>2 DEF PhaseOK
<1> QED BY <1>3, <1>5, <1>6, <1>7, <1>8, <1>9, <1>10 DEF PoolOK

LEMMA NoPoolIsSound == PoolOK(NoPool)
<1> DEFINE po == NoPool
           entries == [n \in Reservations |-> Unreserved]
           readers == [r \in Readers |-> NoReading]
<1>1. /\ po.phase = "open" /\ po.permits = MaxHandles /\ po.waiters = <<>>
      /\ po.entry = entries /\ po.table = <<>> /\ po.reader = readers
      /\ po = [phase |-> "open", permits |-> MaxHandles, waiters |-> <<>>, entry |-> entries,
               table |-> <<>>, reader |-> readers]
  BY DEF NoPool
<1>2. Unreserved \in EntryRecs BY DEF Unreserved, EntryRecs, PackNames
<1>3. NoReading \in ReaderRecs BY DEF NoReading, ReaderRecs, ReaderSteps, PackNames
<1>4. entries \in [Reservations -> EntryRecs] /\ readers \in [Readers -> ReaderRecs]
  BY <1>2, <1>3
<1>5. /\ \A n \in Reservations : po.entry[n] = Unreserved
      /\ \A r \in Readers : po.reader[r] = NoReading
  BY <1>1
<1> HIDE DEF po, entries, readers
<1>6. MaxHandles \in 0 .. MaxHandles /\ MaxHandles \in Nat BY HandlesAssumption
<1>7. po \in PoolRecs BY <1>1, <1>4, <1>6 DEF PoolRecs
<1>8. Holders(po) = {} /\ \A m : UsersOf(po, m) = {}
  BY <1>5 DEF Holders, UsersOf, HoldingSteps, UsingSteps, NoReading
<1>9. WaitersOK(po) BY <1>1 DEF WaitersOK, Distinct
<1>10. PermitsOK(po) BY <1>1, <1>6, <1>8, FS_EmptySet DEF PermitsOK
<1>11. TableOK(po)
  <2>1. Len(po.table) = 0 BY <1>1
  <2>2. Distinct(po.table) BY <1>1 DEF Distinct
  <2>3. Len(po.table) <= MaxHandles BY <1>6, <2>1
  <2> QED BY <1>5, <2>2, <2>3 DEF TableOK, Unreserved, Opened
<1>12. EntriesOK(po) BY <1>5, <1>8, FS_EmptySet DEF EntriesOK, Unreserved
<1>13. ReadersOK(po) BY <1>5 DEF ReadersOK, NoReading, UsingSteps
<1>14. PhaseOK(po) BY <1>1 DEF PhaseOK
<1> QED BY <1>7, <1>9, <1>10, <1>11, <1>12, <1>13, <1>14 DEF PoolOK, po

PacksOK == "packs" \in DOMAIN left /\ left.packs \subseteq AllPacks

PoolInv == PoolOK(pool)

LEMMA SpendKeepsThePacks ==
  ASSUME PacksOK,
         (\E what \in {"collections", "captures", "scopes", "failures", "thefts", "losses",
                       "ages", "asks"} : Spend(what)) \/ UNCHANGED left
  PROVE  PacksOK'
BY DEF PacksOK, Spend

LEMMA PoolSteps ==
  ASSUME PoolOK(pool), PacksOK, [Next]_vars
  PROVE  PoolOK(pool') /\ PacksOK'
<1>1. CASE Collection BY <1>1, SpendKeepsThePacks DEF Collection, poolVars
<1>2. CASE Capture BY <1>2, SpendKeepsThePacks DEF Capture, poolVars
<1>3. CASE Failure BY <1>3, SpendKeepsThePacks DEF Failure, poolVars
<1>4. CASE Reading BY <1>4, SpendKeepsThePacks DEF Reading, poolVars
<1>5. CASE Sharing
  <2>1. PacksOK' BY <1>5, SpendKeepsThePacks DEF Sharing
  <2>2. ASSUME NEW r \in Readers, NEW p \in left.packs, Asks(r, p) PROVE PoolOK(pool')
    <3>1. p \in AllPacks BY DEF PacksOK
    <3> QED BY <2>2, <3>1, ReadersKeep
  <2>3. ASSUME PoolFailure PROVE PoolOK(pool')
    BY <2>3, ReadersKeep, EntriesKeep DEF PoolFailure
  <2>4. ASSUME PoolCloses PROVE PoolOK(pool') BY <2>4, ClosingKeeps
  <2>5. ASSUME PoolWork PROVE PoolOK(pool')
    <3>1. ASSUME NEW r \in Readers,
                 \/ Wakes(r) \/ Enters(r) \/ Refused(r) \/ Obtains(r) \/ Reads(r) \/ Rejects(r)
                 \/ Returns(r) \/ Invalidates(r)
          PROVE  PoolOK(pool')
      BY <3>1, ReadersKeep, EntersKeeps
    <3>2. ASSUME NEW n \in Reservations, Opens(n) \/ RetireCloses(n) \/ RetireEnds(n)
          PROVE  PoolOK(pool')
      BY <3>2, EntriesKeep
    <3>3. ASSUME PoolDrains \/ PoolEnds PROVE PoolOK(pool')
      BY <3>3, DrainingKeeps, EndingKeeps
    <3> QED BY <2>5, <3>1, <3>2, <3>3 DEF PoolWork
  <2>6. \/ \E r \in Readers, p \in left.packs : Asks(r, p)
        \/ PoolFailure \/ PoolCloses \/ PoolWork
    BY <1>5 DEF Sharing
  <2> QED BY <2>1, <2>2, <2>3, <2>4, <2>5, <2>6
<1>6. CASE Age BY <1>6, SpendKeepsThePacks DEF Age, poolVars
<1>7. CASE Writeback BY <1>7, SpendKeepsThePacks DEF Writeback, poolVars
<1>8. CASE Stolen BY <1>8, SpendKeepsThePacks DEF Stolen, poolVars
<1>9. CASE PowerLoss BY <1>9, NoPoolIsSound, SpendKeepsThePacks DEF PowerLoss
<1>10. CASE UNCHANGED vars BY <1>10, SpendKeepsThePacks DEF vars, poolVars
<1> QED
  BY <1>1, <1>2, <1>3, <1>4, <1>5, <1>6, <1>7, <1>8, <1>9, <1>10 DEF Next

LEMMA BoundsFollow ==
  ASSUME PoolOK(pool)
  PROVE  HandlesAreBounded
<1> DEFINE open == {n \in Reservations : pool.entry[n].is \in {"opening", "open"}}
<1>0. /\ pool.table \in Seq(Reservations) /\ TableOK(pool) /\ ReadersOK(pool) /\ PhaseOK(pool)
      /\ MaxHandles \in Nat
  BY PoolParts, HandlesAssumption
<1>1. open \subseteq ToSet(pool.table) BY <1>0 DEF TableOK, Opened
<1> HIDE DEF open
<1>2. IsFiniteSet(ToSet(pool.table)) /\ Cardinality(ToSet(pool.table)) = Len(pool.table)
      /\ Len(pool.table) <= MaxHandles
  BY <1>0, AsManyAsPlaces DEF TableOK
<1>3. IsFiniteSet(open) /\ Cardinality(open) <= Cardinality(ToSet(pool.table))
  BY <1>1, <1>2, FS_Subset
<1>4. Cardinality(open) <= MaxHandles
  <2>1. Cardinality(open) \in Nat /\ Len(pool.table) \in Nat BY <1>0, <1>3, FS_CardinalityType
  <2> QED BY <1>0, <1>2, <1>3, <2>1
<1>5. ASSUME NEW r \in Readers
      PROVE  ~ Doing(r, "violated") /\ (Doing(r, "leased") => Entry(r).is = "open")
  BY <1>0 DEF ReadersOK, Doing, Entry
<1>6. ASSUME pool.phase = "closed" PROVE open = {} /\ Active = {}
  <2>1. pool.table = <<>> BY <1>0, <1>6 DEF PhaseOK
  <2>2. ToSet(pool.table) = {} BY <2>1 DEF ToSet
  <2>3. Active = {} BY <1>0, <1>6 DEF PhaseOK, Active, UsingSteps
  <2> QED BY <1>1, <2>2, <2>3
<1> QED BY <1>4, <1>5, <1>6 DEF HandlesAreBounded, open

(* The inductive invariant of the pool: permits and those who have one are *)
(* together never more than the handles, an entry counts its users, and    *)
(* what is open is in the table.                                           *)
THEOREM PoolInvariant == Spec => [](PoolInv /\ PacksOK)
<1>1. Init => PoolInv /\ PacksOK
  <2> SUFFICES ASSUME Init PROVE PoolInv /\ PacksOK OBVIOUS
  <2>1. PICK store \in Stores : pool = NoPool /\ left = store.bounds BY DEF Init
  <2>2. PacksOK BY <2>1, StoresAssumption DEF PacksOK, Bounds
  <2> QED BY <2>1, <2>2, NoPoolIsSound DEF PoolInv
<1>2. PoolInv /\ PacksOK /\ [Next]_vars => (PoolInv /\ PacksOK)' BY PoolSteps DEF PoolInv
<1> QED BY <1>1, <1>2, PTL DEF Spec

(* However many readings share a scope, ask for packs, fail, invalidate    *)
(* and are turned away, and whenever the scope is closed: the pool has no  *)
(* more handles than it may, a reading with a permit finds room (#reserve  *)
(* in pack-handle-pool.ts never finds its capacity invariant violated), no *)
(* handle is closed under a reading, and a closed scope has none open.     *)
THEOREM HandlesStayBounded == Spec => []HandlesAreBounded
<1>1. PoolInv => HandlesAreBounded BY BoundsFollow DEF PoolInv
<1> QED BY <1>1, PoolInvariant, PTL
-----------------------------------------------------------------------------
(* What a collection removes stays packed elsewhere.                       *)

PlanSteps == {"selected", "publishing", "synchronizing", "published"}

PublishSteps == {"publishing", "synchronizing", "published"}

Packed(fs, k) == \E p \in Packs(fs) : k \in KeysIn(p)

(* A pack of the inventory holds k that is not to go, or is to be replaced *)
(* for k too.                                                              *)
Stays(k) ==
    \E p \in Packs(gc.inv) :
        /\ k \in KeysIn(p)
        /\ p \notin gc.redundant
        /\ p \in DOMAIN gc.needs => k \in gc.needs[p]

(* What is packed and live is in a pack that stays, or in a replacement.   *)
PlanOK ==
    /\ gc.pc \in {"listed"} \cup PlanSteps => Packs(gc.inv) \subseteq files
    /\ gc.pc \in PlanSteps =>
          \A k \in Rooted(gc.roots), q \in gc.redundant \cup DOMAIN gc.needs :
             k \in KeysIn(q) => Stays(k)
    /\ gc.pc \in {"marked", "listed"} \cup PlanSteps => Rooted(gc.roots) \subseteq gc.live

(* The replacements hold all the removals need.                            *)
ReplacementsOK ==
    /\ gc.due \cup gc.fresh \subseteq AllPacks
    /\ gc.pc \notin {"planned", "sweeping"} => gc.fresh \subseteq files
    /\ gc.pc = "published" => gc.due = {}
    /\ gc.pc \in PublishSteps =>
          /\ \A p \in DOMAIN gc.needs : gc.needs[p] \subseteq gc.keys
          /\ \A k \in gc.keys \cap Keys : \E p \in gc.due \cup gc.fresh : k \in KeysIn(p)

(* The removals leave every live object that is packed in a pack.          *)
RemovalsOK ==
    /\ gc.pc \in {"planned", "sweeping"} =>
          \A k \in Rooted(gc.roots), q \in Packs(gc.todo) :
             k \in KeysIn(q) => Packed(files \ gc.todo, k)
    /\ gc.pc = "sweeping" /\ Collecting /\ gc.todo # {} => roots = gc.roots

PackingInv == PlanOK /\ ReplacementsOK /\ RemovalsOK

LEMMA PackedMore ==
  ASSUME NEW fs, NEW gs, fs \subseteq gs, NEW k, Packed(fs, k)
  PROVE  Packed(gs, k)
BY DEF Packed, Packs

(* A step that leaves the collection alone, and removes nothing.           *)
LEMMA PackingUnaffected ==
  ASSUME PackingInv, gc' = gc, files \subseteq files', Collecting' => Collecting /\ roots' = roots
  PROVE  PackingInv'
<1>1. PlanOK' BY DEF PackingInv, PlanOK, Stays
<1>2. ReplacementsOK' BY DEF PackingInv, ReplacementsOK
<1>3. RemovalsOK'
  <2>1. ASSUME NEW k, Packed(files \ gc.todo, k) PROVE Packed(files' \ gc.todo, k)
    BY <2>1, PackedMore
  <2> QED BY <2>1 DEF PackingInv, RemovalsOK
<1> QED BY <1>1, <1>2, <1>3 DEF PackingInv

LEMMA PackingOver ==
  ASSUME gc' = NoGc
  PROVE  PackingInv'
<1>1. gc'.pc = "idle" /\ gc'.due = {} /\ gc'.fresh = {} BY DEF NoGc
<1> QED BY <1>1 DEF PackingInv, PlanOK, ReplacementsOK, RemovalsOK, PlanSteps, PublishSteps

(* A record is of its key.                                                 *)
LEMMA KeysOfPack ==
  ASSUME NEW ks
  PROVE  KeysIn(Pack({RecordOf(k) : k \in ks})) = ks
<1>1. \A k : RecordOf(k).key = k BY DEF RecordOf, Whole, Chunked
<1> DEFINE p == Pack({RecordOf(k) : k \in ks})
<1>2. p.recs = {RecordOf(k) : k \in ks} BY DEF Pack
<1> HIDE DEF p
<1>3. \A k \in ks : RecordOf(k) \in p.recs BY <1>2
<1>4. \A rec \in p.recs : \E k \in ks : rec = RecordOf(k) BY <1>2
<1>5. KeysIn(p) = ks BY <1>1, <1>3, <1>4 DEF KeysIn
<1> QED BY <1>5 DEF p

LEMMA ReplacementsHold ==
  ASSUME NEW ks, NEW k \in ks \cap Keys
  PROVE  \E p \in ReplacementPacks(ks) : k \in KeysIn(p)
<1>1. PICK class \in {ks \cap Trees, ks \cap Contents} \ {{}} : k \in class BY DEF Keys
<1>2. Pack({RecordOf(j) : j \in class}) \in ReplacementPacks(ks)
  BY DEF ReplacementPacks
<1> QED BY <1>1, <1>2, KeysOfPack

LEMMA RootedAreKeys ==
  ASSUME NEW ts, ts \subseteq Trees
  PROVE  Rooted(ts) \subseteq Keys
BY StoreAssumption DEF Rooted, Keys

(* Who holds an object: a blob, a record of its own, or a pack.            *)
LEMMA HoldersOf ==
  ASSUME NEW f \in AllFiles, NEW k, k \in KeysIn(f)
  PROVE  f = Legacy(k) \/ f = Loose(k) \/ f \in AllPacks
<1>0. \A j : RecordOf(j).key = j /\ Whole(j).key = j BY DEF RecordOf, Whole, Chunked
<1>1. CASE \E c \in Contents : f = Legacy(c)
  <2>1. PICK c \in Contents : f = Legacy(c) BY <1>1
  <2>2. f.recs = {Whole(c)} BY <2>1 DEF Legacy
  <2>3. k = c BY <1>0, <2>2 DEF KeysIn
  <2> QED BY <2>1, <2>3
<1>2. CASE \E j \in Keys : f = Loose(j)
  <2>1. PICK j \in Keys : f = Loose(j) BY <1>2
  <2>2. f.recs = {RecordOf(j)} BY <2>1 DEF Loose
  <2>3. k = j BY <1>0, <2>2 DEF KeysIn
  <2> QED BY <2>1, <2>3
<1>3. CASE f = Temporary BY <1>3 DEF Temporary, KeysIn
<1> QED BY <1>1, <1>2, <1>3 DEF AllFiles

LEMMA PacksArePacks ==
  /\ \A p \in AllPacks : p.at = "pack"
  /\ \A fs : fs \subseteq AllFiles => Packs(fs) = fs \cap AllPacks
<1>1. \A p \in AllPacks : p.at = "pack" BY DEF AllPacks, Pack
<1>2. ASSUME NEW f \in AllFiles, f.at = "pack" PROVE f \in AllPacks
  <2>1. \A k : Legacy(k).at = "legacy" /\ Loose(k).at = "loose" BY DEF Legacy, Loose
  <2>2. Temporary.at = "incoming" BY DEF Temporary
  <2> QED BY <1>2, <2>1, <2>2 DEF AllFiles
<1> QED BY <1>1, <1>2 DEF Packs
-----------------------------------------------------------------------------
(* The steps of a collection.                                              *)

LEMMA PackingBegins ==
  ASSUME StoreInv, PackingInv, GcBegin
  PROVE  PackingInv'
<1>1. gc'.pc = "begun" /\ gc'.due = {} /\ gc'.fresh = {} BY DEF GcBegin, NoGc
<1> QED BY <1>1 DEF PackingInv, PlanOK, ReplacementsOK, RemovalsOK, PlanSteps, PublishSteps

LEMMA PackingMarks ==
  ASSUME StoreInv, PackingInv, GcMark
  PROVE  PackingInv'
<1>1. PICK at \in GraphsRead(files, gc.roots) :
        gc' = [gc EXCEPT !.pc = "marked", !.at = at, !.live = LiveKeys(gc.roots, at)]
  BY DEF GcMark
<1>2. gc'.pc = "marked" /\ gc'.due = gc.due /\ gc'.fresh = gc.fresh /\ gc'.roots = gc.roots
      /\ gc'.live = LiveKeys(gc.roots, at)
  BY <1>1 DEF StoreInv, CollectionOK, NoGc
<1>3. Rooted(gc.roots) \subseteq gc'.live BY <1>2 DEF LiveKeys
<1>4. gc.pc = "begun" /\ files' = files BY DEF GcMark, storeVars
<1> QED BY <1>2, <1>3, <1>4
        DEF PackingInv, PlanOK, ReplacementsOK, RemovalsOK, PlanSteps, PublishSteps

LEMMA PackingLists ==
  ASSUME StoreInv, PackingInv, GcList
  PROVE  PackingInv'
<1>1. gc.pc = "marked" /\ files' = files /\ gc' = [gc EXCEPT !.pc = "listed", !.inv = files]
  BY DEF GcList, storeVars
<1>2. gc'.pc = "listed" /\ gc'.due = gc.due /\ gc'.fresh = gc.fresh /\ gc'.roots = gc.roots
      /\ gc'.live = gc.live /\ gc'.inv = files
  BY <1>1 DEF StoreInv, CollectionOK, NoGc
<1>3. Packs(files) \subseteq files BY DEF Packs
<1> QED BY <1>1, <1>2, <1>3
        DEF PackingInv, PlanOK, ReplacementsOK, RemovalsOK, PlanSteps, PublishSteps

(* What several packs hold has an owner among them, which is not redundant *)
(* and does not go without it.                                             *)
LEMMA PackingSelects ==
  ASSUME StoreInv, PackingInv, GcSelect
  PROVE  PackingInv'
<1>1. PICK own \in Owners, worn \in WornPacks, more \in CrossGeneration :
        LET whole == worn \cup more
            needs == Needs(own, whole)
        IN  \E ks \in Admitted(LooseKeys \cup UNION {needs[p] : p \in DOMAIN needs}) :
              gc' = [gc EXCEPT
                      !.pc = "selected",
                      !.keys = ks,
                      !.needs = Affordable(needs, ks),
                      !.dead = DeadPacks,
                      !.optional = [p \in more \ (worn \cup MixedPacks(own)) |-> Adds(p, worn)],
                      !.redundant = RedundantPacks(own, {p \in whole : needs[p] \subseteq ks}),
                      !.large = {k \in ks \cap Large : Legacy(k) \in gc.inv}]
  BY DEF GcSelect
<1> DEFINE whole == worn \cup more
           needs == Needs(own, whole)
<1>2. PICK ks, dead, optional, large :
        gc' = [gc EXCEPT
                !.pc = "selected", !.keys = ks, !.needs = Affordable(needs, ks), !.dead = dead,
                !.optional = optional,
                !.redundant = RedundantPacks(own, {p \in whole : needs[p] \subseteq ks}),
                !.large = large]
  <2>1. \E ks \in Admitted(LooseKeys \cup UNION {needs[p] : p \in DOMAIN needs}) :
          gc' = [gc EXCEPT
                  !.pc = "selected", !.keys = ks, !.needs = Affordable(needs, ks), !.dead = DeadPacks,
                  !.optional = [p \in more \ (worn \cup MixedPacks(own)) |-> Adds(p, worn)],
                  !.redundant = RedundantPacks(own, {p \in whole : needs[p] \subseteq ks}),
                  !.large = {k \in ks \cap Large : Legacy(k) \in gc.inv}]
    BY <1>1
  <2> HIDE DEF needs, whole
  <2>2. PICK ks \in Admitted(LooseKeys \cup UNION {needs[p] : p \in DOMAIN needs}) :
          gc' = [gc EXCEPT
                  !.pc = "selected", !.keys = ks, !.needs = Affordable(needs, ks), !.dead = DeadPacks,
                  !.optional = [p \in more \ (worn \cup MixedPacks(own)) |-> Adds(p, worn)],
                  !.redundant = RedundantPacks(own, {p \in whole : needs[p] \subseteq ks}),
                  !.large = {k \in ks \cap Large : Legacy(k) \in gc.inv}]
    BY <2>1
  <2> QED BY <2>2
<1> DEFINE redundant == RedundantPacks(own, {p \in whole : needs[p] \subseteq ks})
           afforded == Affordable(needs, ks)
<1>3. ASSUME NEW k \in gc.live, NEW q \in Packs(gc.inv), k \in KeysIn(q)
      PROVE  \E p \in Packs(gc.inv) :
                k \in KeysIn(p) /\ p \notin redundant /\ (p \in DOMAIN afforded => k \in afforded[p])
  <2>1. PICK p \in Packs(gc.inv) : k \in KeysIn(p) /\ k \notin NotOwned(own, p)
    <3>1. CASE k \in Shared BY <3>1 DEF Owners, NotOwned
    <3>2. CASE k \notin Shared BY <1>3, <3>2 DEF NotOwned
    <3> QED BY <3>1, <3>2
  <2>2. k \in LiveIn(p) BY <2>1 DEF LiveIn
  <2>3. p \notin redundant BY <2>1, <2>2 DEF RedundantPacks
  <2>4. p \in DOMAIN needs => k \in needs[p] BY <2>1, <2>2 DEF Needs
  <2> HIDE DEF needs
  <2>5. p \in DOMAIN afforded => p \in DOMAIN needs /\ afforded[p] = needs[p] BY DEF Affordable
  <2> QED BY <2>1, <2>3, <2>4, <2>5
<1>4. redundant \subseteq Packs(gc.inv) BY DEF RedundantPacks
<1>5. DOMAIN afforded \subseteq Packs(gc.inv)
  <2>1. DOMAIN needs = whole \cup MixedPacks(own) BY DEF Needs
  <2>2. more \subseteq Packs(gc.inv) BY DEF CrossGeneration
  <2>3. worn \cup MixedPacks(own) \subseteq Packs(gc.inv)
    BY DEF WornPacks, PartlyDeadPacks, MixedPacks
  <2> HIDE DEF needs
  <2> QED BY <2>1, <2>2, <2>3 DEF Affordable
<1> HIDE DEF redundant, afforded
<1>6. gc.pc = "listed" /\ files' = files BY DEF GcSelect, storeVars
<1>7. gc'.pc = "selected" /\ gc'.redundant = redundant /\ gc'.needs = afforded
      /\ gc'.due = gc.due /\ gc'.fresh = gc.fresh /\ gc'.roots = gc.roots
      /\ gc'.live = gc.live /\ gc'.inv = gc.inv
  BY <1>2 DEF StoreInv, CollectionOK, NoGc, redundant, afforded
<1>8. Rooted(gc.roots) \subseteq gc.live BY <1>6 DEF PackingInv, PlanOK
<1>9. ASSUME NEW k \in Rooted(gc.roots), NEW q \in redundant \cup DOMAIN afforded, k \in KeysIn(q)
      PROVE  Stays(k)'
  <2>1. k \in gc.live /\ q \in Packs(gc.inv) BY <1>4, <1>5, <1>8
  <2>2. \E p \in Packs(gc.inv) :
           k \in KeysIn(p) /\ p \notin redundant /\ (p \in DOMAIN afforded => k \in afforded[p])
    BY <1>3, <1>9, <2>1
  <2> QED BY <1>7, <2>2 DEF Stays
<1>10. PlanOK' BY <1>6, <1>7, <1>8, <1>9 DEF PackingInv, PlanOK, PlanSteps
<1> QED BY <1>6, <1>7, <1>10 DEF PackingInv, ReplacementsOK, RemovalsOK, PublishSteps

(* A selection that is only narrowed, and files that are only added.       *)
LEMMA PackingGoesOn ==
  ASSUME StoreInv, PackingInv, files \subseteq files', gc.pc = "selected", gc'.pc = "selected",
         gc'.redundant = gc.redundant, gc'.needs = gc.needs, gc'.due = gc.due,
         gc'.fresh = gc.fresh, gc'.roots = gc.roots, gc.live \subseteq gc'.live,
         Packs(gc'.inv) = Packs(gc.inv)
  PROVE  PackingInv'
<1>1. \A k : Stays(k) => Stays(k)' BY DEF Stays
<1>2. PlanOK' BY <1>1 DEF PackingInv, PlanOK, PlanSteps
<1> QED BY <1>2 DEF PackingInv, ReplacementsOK, RemovalsOK, PublishSteps

LEMMA PackingMaterializes ==
  ASSUME StoreInv, PackingInv, GcMaterializePieces \/ GcMaterializeRoot \/ GcSkipLarge
  PROVE  PackingInv'
<1>1. CASE GcMaterializePieces
  <2>1. gc' = gc /\ roots' = roots /\ lock' = lock BY <1>1 DEF GcMaterializePieces, gcVars
  <2>2. files \subseteq files' BY <1>1 DEF GcMaterializePieces
  <2> QED BY <2>1, <2>2, PackingUnaffected DEF Collecting
<1>2. CASE GcMaterializeRoot
  <2>1. PICK k \in gc.large :
          /\ files' = files \cup {Loose(k)}
          /\ gc' = [gc EXCEPT
                     !.large = @ \ {k},
                     !.at = [j \in DOMAIN @ \cup {k} |-> IF j = k THEN Loose(k) ELSE @[j]],
                     !.live = @ \cup Pieces[k],
                     !.keys = @ \cup Pieces[k],
                     !.inv = Objects(files') \cup (@ \ Objects(@))]
    BY <1>2 DEF GcMaterializeRoot
  <2>2. gc.pc = "selected" BY <1>2 DEF GcMaterializeRoot
  <2>3. gc'.pc = "selected" /\ gc'.redundant = gc.redundant /\ gc'.needs = gc.needs
        /\ gc'.due = gc.due /\ gc'.fresh = gc.fresh /\ gc'.roots = gc.roots
        /\ gc'.live = gc.live \cup Pieces[k]
        /\ gc'.inv = Objects(files') \cup (gc.inv \ Objects(gc.inv))
    BY <2>1, <2>2 DEF StoreInv, CollectionOK, NoGc
  <2>4. Packs(gc'.inv) = Packs(gc.inv) BY <2>3 DEF Packs, Objects
  <2> QED BY <2>1, <2>2, <2>3, <2>4, PackingGoesOn
<1>3. CASE GcSkipLarge
  <2>1. PICK k \in gc.large : gc' = [gc EXCEPT !.large = @ \ {k}, !.keys = @ \ {k}]
    BY <1>3 DEF GcSkipLarge
  <2>2. gc.pc = "selected" /\ files' = files BY <1>3 DEF GcSkipLarge, storeVars
  <2>3. gc'.pc = "selected" /\ gc'.redundant = gc.redundant /\ gc'.needs = gc.needs
        /\ gc'.due = gc.due /\ gc'.fresh = gc.fresh /\ gc'.roots = gc.roots
        /\ gc'.live = gc.live /\ gc'.inv = gc.inv
    BY <2>1, <2>2 DEF StoreInv, CollectionOK, NoGc
  <2> QED BY <2>2, <2>3, PackingGoesOn
<1> QED BY <1>1, <1>2, <1>3

(* Taking rewritings back leaves a selection whose needs are its keys.     *)
Narrowed(sel) ==
    /\ DOMAIN sel.needs \subseteq DOMAIN gc.needs
    /\ \A p \in DOMAIN sel.needs : sel.needs[p] = gc.needs[p] /\ sel.needs[p] \subseteq sel.keys

LEMMA PrunedIsNarrowed ==
  ASSUME NEW ks, NEW failed
  PROVE  Narrowed(Pruned(ks, failed))
<1> DEFINE needs == Affordable(gc.needs, ks)
           kept == [p \in DOMAIN needs \ failed |-> needs[p]]
           required == UNION {kept[p] : p \in DOMAIN kept}
           added == UNION {gc.optional[p] : p \in failed}
           keys == ks \ (added \ required)
<1>1. Pruned(ks, failed) = Selection(keys, kept) BY DEF Pruned
<1>2. ASSUME NEW p \in DOMAIN needs
      PROVE  p \in DOMAIN gc.needs /\ needs[p] = gc.needs[p] /\ needs[p] \subseteq ks
  BY <1>2 DEF Affordable
<1>3. Selection(keys, kept).needs = kept /\ Selection(keys, kept).keys = keys BY DEF Selection
<1> HIDE DEF needs
<1>4. DOMAIN kept = DOMAIN needs \ failed /\ \A p \in DOMAIN kept : kept[p] = needs[p] OBVIOUS
<1> HIDE DEF kept
<1>5. \A p \in DOMAIN kept : kept[p] \subseteq required OBVIOUS
<1> HIDE DEF required, added
<1>6. \A p \in DOMAIN kept : kept[p] \subseteq keys BY <1>2, <1>4, <1>5
<1> HIDE DEF keys
<1> QED BY <1>1, <1>2, <1>3, <1>4, <1>6 DEF Narrowed

(* Merging adds packs that are themselves replaced as a whole.             *)
LEMMA MergedAdds ==
  ASSUME NEW sel, Narrowed(sel), NEW ps, ps \subseteq Clean(sel)
  PROVE  LET m == Merged(sel, ps)
         IN  /\ DOMAIN m.needs = DOMAIN sel.needs \cup ps
             /\ \A p \in DOMAIN m.needs :
                   /\ m.needs[p] \subseteq m.keys
                   /\ p \in ps => m.needs[p] = KeysIn(p)
                   /\ p \notin ps => p \in DOMAIN gc.needs /\ m.needs[p] = gc.needs[p]
<1> DEFINE keys == sel.keys \cup Together(ps)
           needs == [p \in DOMAIN sel.needs \cup ps |-> IF p \in ps THEN KeysIn(p) ELSE sel.needs[p]]
<1>1. Merged(sel, ps) = Selection(keys, needs) BY DEF Merged
<1>2. Selection(keys, needs).needs = needs /\ Selection(keys, needs).keys = keys BY DEF Selection
<1>3. ASSUME NEW p \in ps PROVE KeysIn(p) \subseteq keys BY DEF Together
<1>4. \A p \in DOMAIN sel.needs : sel.needs[p] \subseteq keys BY DEF Narrowed
<1> HIDE DEF keys
<1>5. /\ DOMAIN needs = DOMAIN sel.needs \cup ps
      /\ \A p \in DOMAIN needs : needs[p] = IF p \in ps THEN KeysIn(p) ELSE sel.needs[p]
  OBVIOUS
<1> HIDE DEF needs
<1>6. ASSUME NEW p \in DOMAIN needs
      PROVE  /\ needs[p] \subseteq keys
             /\ p \in ps => needs[p] = KeysIn(p)
             /\ p \notin ps => p \in DOMAIN gc.needs /\ needs[p] = gc.needs[p]
  BY <1>3, <1>4, <1>5, <1>6 DEF Narrowed
<1> QED BY <1>1, <1>2, <1>5, <1>6

LEMMA PackingPlans ==
  ASSUME StoreInv, PackingInv, GcPlanPacks
  PROVE  PackingInv'
<1>1. PICK sel \in Plans :
        gc' = [gc EXCEPT !.pc = "publishing", !.keys = sel.keys, !.needs = sel.needs,
                         !.due = ReplacementPacks(sel.keys)]
  BY DEF GcPlanPacks
<1>2. gc.pc = "selected" /\ files' = files BY DEF GcPlanPacks, storeVars
<1>3. gc'.pc = "publishing" /\ gc'.keys = sel.keys /\ gc'.needs = sel.needs
      /\ gc'.due = ReplacementPacks(sel.keys) /\ gc'.redundant = gc.redundant
      /\ gc'.fresh = gc.fresh /\ gc'.roots = gc.roots /\ gc'.live = gc.live /\ gc'.inv = gc.inv
  BY <1>1, <1>2 DEF StoreInv, CollectionOK, NoGc
<1>4. PICK ps :
        /\ ps \subseteq Packs(gc.inv) /\ ps \cap gc.redundant = {}
        /\ \A p \in DOMAIN sel.needs :
              /\ sel.needs[p] \subseteq sel.keys
              /\ p \in ps => sel.needs[p] = KeysIn(p)
              /\ p \notin ps => p \in DOMAIN gc.needs /\ sel.needs[p] = gc.needs[p]
  <2>1. CASE sel = Selection({}, <<>>)
    <3>1. DOMAIN sel.needs = {} BY <2>1 DEF Selection
    <3> QED BY <3>1
  <2>2. CASE \E ks, failed, ps : /\ ps \in SizeTierGroups(Pruned(ks, failed))
                                 /\ sel = Merged(Pruned(ks, failed), ps)
    <3>1. PICK ks, failed, ps : /\ ps \in SizeTierGroups(Pruned(ks, failed))
                                /\ sel = Merged(Pruned(ks, failed), ps)
      BY <2>2
    <3>2. Narrowed(Pruned(ks, failed)) BY PrunedIsNarrowed
    <3>3. ps \subseteq Clean(Pruned(ks, failed)) BY <3>1 DEF SizeTierGroups
    <3>4. ps \subseteq Packs(gc.inv) /\ ps \cap gc.redundant = {} BY <3>3 DEF Clean
    <3> QED BY <3>1, <3>2, <3>3, <3>4, MergedAdds
  <2>3. CASE sel # Selection({}, <<>>)
    <3>1. PICK ks, failed : sel \in {Merged(Pruned(ks, failed), ps) :
                                        ps \in SizeTierGroups(Pruned(ks, failed))}
      BY <1>1, <2>3 DEF Plans
    <3>2. PICK ps \in SizeTierGroups(Pruned(ks, failed)) : sel = Merged(Pruned(ks, failed), ps)
      BY <3>1
    <3> QED BY <2>2, <3>2
  <2> QED BY <2>1, <2>3
<1>5. /\ Packs(gc.inv) \subseteq files
      /\ \A k \in Rooted(gc.roots), q \in gc.redundant \cup DOMAIN gc.needs : k \in KeysIn(q) => Stays(k)
      /\ Rooted(gc.roots) \subseteq gc.live
  BY <1>2 DEF PackingInv, PlanOK, PlanSteps
<1>6. ASSUME NEW k \in Rooted(gc.roots), NEW q \in gc.redundant \cup DOMAIN sel.needs,
             k \in KeysIn(q)
      PROVE  Stays(k)'
  <2>1. CASE q \in ps /\ q \in DOMAIN sel.needs BY <1>3, <1>4, <1>6, <2>1 DEF Stays
  <2>2. CASE q \notin ps \/ q \notin DOMAIN sel.needs
    <3>1. q \in gc.redundant \cup DOMAIN gc.needs BY <1>4, <2>2
    <3>2. PICK p \in Packs(gc.inv) :
            k \in KeysIn(p) /\ p \notin gc.redundant /\ (p \in DOMAIN gc.needs => k \in gc.needs[p])
      BY <1>5, <1>6, <3>1 DEF Stays
    <3>3. p \in DOMAIN sel.needs => k \in sel.needs[p] BY <1>4, <3>2
    <3> QED BY <1>3, <3>2, <3>3 DEF Stays
  <2> QED BY <2>1, <2>2
<1>7. PlanOK'
  <2>1. Packs(gc'.inv) \subseteq files' /\ Rooted(gc'.roots) \subseteq gc'.live
    BY <1>2, <1>3, <1>5
  <2>2. \A k \in Rooted(gc'.roots), q \in gc'.redundant \cup DOMAIN gc'.needs :
           k \in KeysIn(q) => Stays(k)'
    BY <1>3, <1>6
  <2> QED BY <1>3, <2>1, <2>2 DEF PlanOK
<1>8. ReplacementsOK'
  <2>1. gc'.due \subseteq AllPacks BY <1>3, ReplacementsArePacks
  <2>2. \A k \in gc'.keys \cap Keys : \E p \in gc'.due : k \in KeysIn(p)
    BY <1>3, ReplacementsHold
  <2>3. gc.fresh \subseteq AllPacks /\ gc.fresh \subseteq files
    BY <1>2 DEF PackingInv, ReplacementsOK
  <2> QED BY <1>2, <1>3, <1>4, <2>1, <2>2, <2>3 DEF ReplacementsOK
<1> QED BY <1>3, <1>7, <1>8 DEF PackingInv, RemovalsOK

(* A replacement on its way.                                               *)
LEMMA PackingPublishes ==
  ASSUME StoreInv, PackingInv, files \subseteq files', gc.pc \in PublishSteps, gc'.pc \in PublishSteps,
         gc'.redundant = gc.redundant, gc'.needs = gc.needs, gc'.keys = gc.keys,
         gc'.roots = gc.roots, gc'.live = gc.live,
         gc'.inv = gc.inv, gc'.pc # "published",
         gc'.due \cup gc'.fresh = gc.due \cup gc.fresh, gc'.fresh \subseteq files'
  PROVE  PackingInv'
<1>1. \A k : Stays(k) => Stays(k)' BY DEF Stays
<1>2. PlanOK' BY <1>1 DEF PackingInv, PlanOK, PlanSteps, PublishSteps
<1>3. ReplacementsOK' BY DEF PackingInv, ReplacementsOK, PublishSteps
<1> QED BY <1>2, <1>3 DEF PackingInv, RemovalsOK, PublishSteps

LEMMA PackingPublications ==
  ASSUME StoreInv, PackingInv, GcPublishPack \/ GcSyncPack
  PROVE  PackingInv'
<1>1. CASE GcPublishPack
  <2>1. /\ gc.pc = "publishing" /\ files \subseteq files'
        /\ \E p : gc' = [gc EXCEPT !.pc = "synchronizing", !.renamed = {p}]
    BY <1>1 DEF GcPublishPack
  <2>2. gc'.pc = "synchronizing" /\ gc'.redundant = gc.redundant /\ gc'.needs = gc.needs
        /\ gc'.keys = gc.keys /\ gc'.due = gc.due /\ gc'.fresh = gc.fresh
        /\ gc'.roots = gc.roots /\ gc'.live = gc.live /\ gc'.inv = gc.inv
    BY <2>1 DEF StoreInv, CollectionOK, NoGc
  <2>3. gc.fresh \subseteq files BY <2>1 DEF PackingInv, ReplacementsOK
  <2>4. gc.pc \in PublishSteps /\ gc'.pc \in PublishSteps /\ gc'.pc # "published"
    BY <2>1, <2>2 DEF PublishSteps
  <2> QED BY <2>1, <2>2, <2>3, <2>4, PackingPublishes
<1>2. CASE GcSyncPack
  <2>1. PICK p \in gc.due \cap files :
          gc' = [gc EXCEPT !.pc = "publishing", !.renamed = {},
                           !.due = @ \ {p}, !.fresh = @ \cup {p}]
    BY <1>2 DEF GcSyncPack
  <2>2. gc.pc \in {"publishing", "synchronizing"} /\ files' = files BY <1>2 DEF GcSyncPack
  <2>3. gc'.pc = "publishing" /\ gc'.redundant = gc.redundant /\ gc'.needs = gc.needs
        /\ gc'.keys = gc.keys /\ gc'.due = gc.due \ {p} /\ gc'.fresh = gc.fresh \cup {p}
        /\ gc'.roots = gc.roots /\ gc'.live = gc.live /\ gc'.inv = gc.inv
    BY <2>1, <2>2 DEF StoreInv, CollectionOK, NoGc
  <2>4. gc.fresh \subseteq files BY <2>2 DEF PackingInv, ReplacementsOK
  <2>5. gc.pc \in PublishSteps /\ gc'.pc \in PublishSteps /\ gc'.pc # "published"
    BY <2>2, <2>3 DEF PublishSteps
  <2>6. gc'.due \cup gc'.fresh = gc.due \cup gc.fresh /\ gc'.fresh \subseteq files'
    BY <2>2, <2>3, <2>4
  <2> QED BY <2>2, <2>3, <2>5, <2>6, PackingPublishes
<1> QED BY <1>1, <1>2

LEMMA PackingListsAgain ==
  ASSUME StoreInv, PackingInv, GcListPacks
  PROVE  PackingInv'
<1>1. PICK inv : /\ inv = IF gc.fresh \subseteq gc.inv THEN gc.inv
                          ELSE Objects(gc.inv) \cup (files \ Objects(files))
                 /\ gc' = [gc EXCEPT !.pc = "published", !.inv = inv]
  BY DEF GcListPacks
<1>2. gc.pc = "publishing" /\ gc.due = {} /\ files' = files BY DEF GcListPacks
<1>3. gc'.pc = "published" /\ gc'.redundant = gc.redundant /\ gc'.needs = gc.needs
      /\ gc'.keys = gc.keys /\ gc'.due = gc.due /\ gc'.fresh = gc.fresh
      /\ gc'.roots = gc.roots /\ gc'.live = gc.live /\ gc'.inv = inv
  BY <1>1, <1>2 DEF StoreInv, CollectionOK, NoGc
<1>4. Packs(gc.inv) \subseteq files BY <1>2 DEF PackingInv, PlanOK, PlanSteps
<1>5. Packs(gc.inv) \subseteq Packs(inv) /\ Packs(inv) \subseteq files
  BY <1>1, <1>4 DEF Packs, Objects
<1>6. \A k : Stays(k) => Stays(k)' BY <1>3, <1>5 DEF Stays
<1>7. PlanOK' BY <1>2, <1>3, <1>5, <1>6 DEF PackingInv, PlanOK, PlanSteps
<1>8. ReplacementsOK' BY <1>2, <1>3 DEF PackingInv, ReplacementsOK, PublishSteps
<1> QED BY <1>3, <1>7, <1>8 DEF PackingInv, RemovalsOK

(* A plan removes a pack with a live object only for one that stays.       *)
LEMMA PackingPlansSweep ==
  ASSUME StoreInv, PackingInv, GcPlanSweep
  PROVE  PackingInv'
<1>1. PICK at \in GraphsRead(files, gc.roots) :
        gc' = [MarkedAgain(at) EXCEPT
                !.pc = "planned",
                !.todo = RemovableObjects(MarkedAgain(at).live) \cup RemovablePacks(MarkedAgain(at).live)
                           \cup RemovableIncoming]
  BY DEF GcPlanSweep
<1> DEFINE m == MarkedAgain(at)
           todo == RemovableObjects(m.live) \cup RemovablePacks(m.live) \cup RemovableIncoming
<1>2. DOMAIN m = DOMAIN gc /\ m.live = LiveKeys(gc.roots, at) \cup UNION {Pieces[k] : k \in DOMAIN gc.at}
      /\ m.fresh = gc.fresh /\ m.due = gc.due /\ m.roots = gc.roots
  BY DEF MarkedAgain, StoreInv, CollectionOK, NoGc
<1>3. gc.pc = "published" /\ files' = files BY DEF GcPlanSweep, storeVars
<1>4. gc' = [m EXCEPT !.pc = "planned", !.todo = todo] BY <1>1
<1> HIDE DEF m, todo
<1>5. gc'.pc = "planned" /\ gc'.todo = todo /\ gc'.fresh = gc.fresh /\ gc'.due = gc.due
      /\ gc'.roots = gc.roots
  BY <1>2, <1>4 DEF StoreInv, CollectionOK, NoGc
<1>6. Rooted(gc.roots) \subseteq m.live BY <1>2 DEF LiveKeys
<1>7. Packs(todo) \subseteq RemovablePacks(m.live)
  BY DEF todo, Packs, RemovableObjects, Objects, RemovableIncoming
<1>8. ASSUME NEW k \in Rooted(gc.roots), NEW q \in Packs(todo), k \in KeysIn(q)
      PROVE  Packed(files \ todo, k)
  <2>1. q \in RemovablePacks(m.live) BY <1>7
  <2>2. q \in gc.redundant \cup DOMAIN gc.needs BY <1>6, <1>8, <2>1 DEF RemovablePacks
  <2>3. Stays(k) /\ Packs(gc.inv) \subseteq files
    BY <1>3, <1>8, <2>2 DEF PackingInv, PlanOK, PlanSteps
  <2>4. PICK p \in Packs(gc.inv) :
          k \in KeysIn(p) /\ p \notin gc.redundant /\ (p \in DOMAIN gc.needs => k \in gc.needs[p])
    BY <2>3 DEF Stays
  <2>5. CASE p \notin DOMAIN gc.needs
    <3>1. p \notin RemovablePacks(m.live) BY <1>6, <2>4, <2>5 DEF RemovablePacks
    <3>2. p \notin todo BY <1>7, <2>4, <3>1 DEF Packs
    <3> QED BY <2>3, <2>4, <3>2 DEF Packed, Packs
  <2>6. CASE p \in DOMAIN gc.needs
    <3>1. k \in gc.keys BY <1>3, <2>4, <2>6 DEF PackingInv, ReplacementsOK, PublishSteps
    <3>2. gc.roots \subseteq Trees BY DEF GcPlanSweep, StoreInv, FilesOK
    <3>3. k \in Keys BY <1>8, <3>2, RootedAreKeys
    <3>4. PICK f \in gc.fresh : k \in KeysIn(f)
      BY <1>3, <3>1, <3>3 DEF PackingInv, ReplacementsOK, PublishSteps
    <3>5. f \in AllPacks /\ f \in files BY <1>3, <3>4 DEF PackingInv, ReplacementsOK
    <3>6. f.at = "pack" BY <3>5, PacksArePacks
    <3>7. f \notin todo BY <1>7, <3>4, <3>6 DEF Packs, RemovablePacks
    <3> QED BY <3>4, <3>5, <3>6, <3>7 DEF Packed, Packs
  <2> QED BY <2>5, <2>6
<1>9. ReplacementsOK' BY <1>3, <1>5 DEF PackingInv, ReplacementsOK, PublishSteps
<1>10. RemovalsOK' BY <1>3, <1>5, <1>8 DEF RemovalsOK
<1> QED BY <1>5, <1>9, <1>10 DEF PackingInv, PlanOK, PlanSteps

(* A removal, while the roots are those of the plan.                       *)
LEMMA PackingRemoves ==
  ASSUME StoreInv, PackingInv, NEW f, GcRemove(f)
  PROVE  PackingInv'
<1>1. gc.pc = "sweeping" /\ f \in gc.todo /\ gc' = [gc EXCEPT !.todo = @ \ {f}]
      /\ files' = files \ {f} /\ roots' = roots
  BY DEF GcRemove, Unlink
<1>2. gc'.pc = "sweeping" /\ gc'.todo = gc.todo \ {f} /\ gc'.fresh = gc.fresh /\ gc'.due = gc.due
      /\ gc'.roots = gc.roots
  BY <1>1 DEF StoreInv, CollectionOK, NoGc
<1>3. files' \ gc'.todo = files \ gc.todo BY <1>1, <1>2
<1>4. Packs(gc'.todo) \subseteq Packs(gc.todo) BY <1>2 DEF Packs
<1>5. Collecting' => Collecting /\ gc.todo # {} BY <1>1 DEF GcRemove, Unlink, Collecting
<1>6. RemovalsOK' BY <1>1, <1>2, <1>3, <1>4, <1>5 DEF PackingInv, RemovalsOK
<1>7. ReplacementsOK' BY <1>1, <1>2 DEF PackingInv, ReplacementsOK, PublishSteps
<1> QED BY <1>2, <1>6, <1>7 DEF PackingInv, PlanOK, PlanSteps

LEMMA PackingAuthorized ==
  ASSUME StoreInv, PackingInv, GcAuthorize
  PROVE  PackingInv'
<1>1. gc.pc = "planned" /\ gc' = [gc EXCEPT !.pc = "sweeping"] /\ files' = files /\ roots' = roots
      /\ (gc.todo # {} => roots = gc.roots)
  BY DEF GcAuthorize, storeVars
<1>2. gc'.pc = "sweeping" /\ gc'.todo = gc.todo /\ gc'.fresh = gc.fresh /\ gc'.due = gc.due
      /\ gc'.roots = gc.roots
  BY <1>1 DEF StoreInv, CollectionOK, NoGc
<1>3. RemovalsOK' BY <1>1, <1>2 DEF PackingInv, RemovalsOK
<1>4. ReplacementsOK' BY <1>1, <1>2 DEF PackingInv, ReplacementsOK, PublishSteps
<1> QED BY <1>2, <1>3, <1>4 DEF PackingInv, PlanOK, PlanSteps

LEMMA CollectionsStayPacked ==
  ASSUME StoreInv, PackingInv, GcNext \/ GcStops
  PROVE  PackingInv'
<1>1. CASE GcEndsEarly \/ GcFinish \/ GcStops
  <2>1. gc' = NoGc BY <1>1 DEF GcEndsEarly, GcFinish, GcStops
  <2> QED BY <2>1, PackingOver
<1>2. CASE \E f \in AllFiles : GcRemove(f) BY <1>2, PackingRemoves
<1> QED
  BY <1>1, <1>2, PackingBegins, PackingMarks, PackingLists, PackingSelects, PackingMaterializes,
     PackingPlans, PackingPublications, PackingListsAgain, PackingPlansSweep, PackingAuthorized
     DEF GcNext

LEMMA PackingStarts ==
  ASSUME Init
  PROVE  PackingInv
<1>1. gc.pc = "idle" /\ gc.due = {} /\ gc.fresh = {} BY DEF Init, NoGc
<1> QED BY <1>1 DEF PackingInv, PlanOK, ReplacementsOK, RemovalsOK, PlanSteps, PublishSteps

LEMMA StepsStayPacked ==
  ASSUME StoreInv, PackingInv, [Next]_vars
  PROVE  PackingInv'
<1>1. CASE Collection BY <1>1, CollectionsStayPacked DEF Collection
<1>2. CASE Capture
  <2>1. gc' = gc BY <1>2 DEF Capture, gcVars
  <2>2. files \subseteq files'
    BY <1>2 DEF Capture, WrNext, WrBegin, WrForget, WrPublishPack, WrSyncPack, WrRevalidate, WrCommit,
                storeVars
  <2>3. Collecting' => Collecting /\ roots' = roots
    BY <1>2 DEF Capture, WrNext, WrBegin, WrForget, WrPublishPack, WrSyncPack, WrRevalidate, WrCommit,
                storeVars, Collecting, Publishing
  <2> QED BY <2>1, <2>2, <2>3, PackingUnaffected
<1>3. CASE Failure
  <2>1. CASE GcStops BY <2>1, CollectionsStayPacked
  <2>2. CASE WrStops /\ UNCHANGED gcVars
    <3>1. files \subseteq files' /\ gc' = gc /\ roots' = roots BY <2>2 DEF WrStops, gcVars
    <3>2. Collecting' => Collecting BY <2>2 DEF WrStops, Collecting
    <3> QED BY <3>1, <3>2, PackingUnaffected
  <2> QED BY <1>3, <2>1, <2>2 DEF Failure
<1>4. CASE Reading \/ Sharing \/ Age \/ Writeback \/ Stolen \/ UNCHANGED vars
  <2>1. gc' = gc /\ files' = files /\ roots' = roots
    BY <1>4 DEF Reading, Sharing, Age, Writeback, Stolen, vars, storeVars, gcVars
  <2>2. Collecting' => Collecting
    BY <1>4 DEF Reading, Sharing, Age, Writeback, Stolen, vars, storeVars, Collecting
  <2> QED BY <2>1, <2>2, PackingUnaffected
<1>5. CASE PowerLoss
  <2>1. gc' = NoGc BY <1>5 DEF PowerLoss
  <2> QED BY <2>1, PackingOver
<1> QED BY <1>1, <1>2, <1>3, <1>4, <1>5 DEF Next
-----------------------------------------------------------------------------
(* What a read rests on.                                                   *)

Held(fs, k) == \E f \in fs : k \in KeysIn(f)

Before == {"none", "legacy", "loose"}

(* Where the objects of a frame are not, and that they are in a pack.      *)
Placed(fr) ==
    \A k \in fr.key :
        /\ fr.stage # "legacy" => Legacy(k) \notin files
        /\ fr.stage \notin Before /\ ~ fr.failed => Packed(files, k)

ScopeShape(r) ==
    /\ DOMAIN r = DOMAIN NoScope /\ r.pc \in RdSteps
    /\ DOMAIN r.inventory = DOMAIN Unread
    /\ DOMAIN r.frame = DOMAIN NoFrame /\ DOMAIN r.outer = DOMAIN NoFrame
    /\ r.frame.fresh \in Nat /\ r.outer.fresh \in Nat

(* A piece is resolved under its graph, and a graph only at the top.       *)
FramesOK(r) ==
    /\ r.pc # "resolving" => r.frame = NoFrame /\ r.outer = NoFrame
    /\ r.pc \in {"closed", "open"} => r.deps = {} /\ r.pieces = {}
    /\ r.pc = "resolving" /\ r.outer = NoFrame => r.frame # NoFrame
    /\ r.frame # NoFrame => \E k \in Keys : r.frame.key = {k}
    /\ r.frame # NoFrame /\ r.outer = NoFrame => r.frame.key = r.target
    /\ r.outer # NoFrame =>
          /\ \E k \in Keys : r.outer.key = {k}
          /\ r.outer.key = r.target
          /\ r.outer.stage # "listing"
          /\ r.pieces \cup r.frame.key \subseteq Contents \ Large

(* What is referred to all along, and was there when the read began, stays *)
(* there, where the read has still to look.                                *)
TopOK(r) ==
    r.steady =>
        /\ r.target \subseteq Rooted(roots)
        /\ \A k \in r.target : Readable(files, k)
        /\ Placed(r.outer)
        /\ r.outer = NoFrame => Placed(r.frame)

(* A fresh inventory whose candidates did not fail: those not yet tried    *)
(* are all it has of the object, or are gone.                              *)
ListedOK(fr) ==
    fr.stage = "listed" /\ fr.fresh # 0 /\ ~ fr.trouble =>
        /\ Packs(fr.listing) \subseteq files \cup {Vanished}
        /\ \A p \in Packs(fr.listing), k \in fr.key : k \in KeysIn(p) => p \in fr.todo

(* While the store does not change under the scope, all it saw is right.   *)
CalmOK(r) ==
    r.pc # "closed" /\ ~ r.disturbed =>
        /\ r.inventory.known => r.inventory.stable
        /\ r.frame.stage = "listing" => r.frame.listing = PackNamespace
        /\ r.deps \subseteq files
        /\ r.steady =>
              /\ Placed(r.frame) /\ ~ r.frame.failed /\ ~ r.frame.trouble
              /\ r.frame.stage = "listed" /\ r.frame.fresh # 0 =>
                    Packs(r.frame.listing) = Packs(files)
              /\ \A k \in r.frame.key \cup r.pieces : Held(files, k)

OutcomeOK(r) ==
    r.steady => r.outcome # "missing" /\ (r.outcome = "failed" => r.disturbed)

ReadOK(r) ==
    ScopeShape(r) /\ FramesOK(r) /\ TopOK(r) /\ ListedOK(r.frame) /\ CalmOK(r) /\ OutcomeOK(r)

ReadingInv == ReadOK(rd)

LEMMA NoFrameFacts ==
  /\ NoFrame.key = {} /\ NoFrame.stage = "none" /\ NoFrame.listing = {} /\ NoFrame.todo = {}
  /\ NoFrame.fresh = 0 /\ NoFrame.trouble = FALSE /\ NoFrame.failed = FALSE
  /\ Placed(NoFrame) /\ ListedOK(NoFrame)
<1>1. /\ NoFrame.key = {} /\ NoFrame.stage = "none" /\ NoFrame.listing = {} /\ NoFrame.todo = {}
      /\ NoFrame.fresh = 0 /\ NoFrame.trouble = FALSE /\ NoFrame.failed = FALSE
  BY DEF NoFrame
<1> QED BY <1>1 DEF Placed, ListedOK

LEMMA FrameForFacts ==
  ASSUME NEW k
  PROVE  LET fr == FrameFor(k)
         IN  /\ DOMAIN fr = DOMAIN NoFrame /\ fr.fresh = 0 /\ fr.key = {k}
             /\ fr.stage = IF k \in Trees THEN "loose" ELSE "legacy"
             /\ fr.trouble = FALSE /\ fr.failed = FALSE
BY DEF FrameFor, NoFrame

LEMMA NoScopeFacts ==
  /\ NoScope.pc = "closed" /\ NoScope.inventory = Unread /\ NoScope.frame = NoFrame
  /\ NoScope.outer = NoFrame /\ NoScope.pieces = {} /\ NoScope.deps = {}
  /\ NoScope.outcome = "none" /\ NoScope.target = {} /\ NoScope.disturbed = FALSE
  /\ Unread.known = FALSE
BY DEF NoScope, Unread

(* An object that can be read is somewhere, and only a blob is a whole     *)
(* record of one that is large.                                            *)
LEMMA ReadableIsHeld ==
  ASSUME NEW fs, NEW k, Readable(fs, k)
  PROVE  Held(fs, k)
<1>1. Whole(k).key = k /\ Chunked(k).key = k BY DEF Whole, Chunked
<1> QED BY <1>1 DEF Readable, Holds, Held, KeysIn

LEMMA SteadyIsHeld ==
  ASSUME ReadingInv, rd.steady, NEW k \in rd.target
  PROVE  Readable(files, k) /\ Held(files, k)
<1>1. Readable(files, k) BY DEF ReadingInv, ReadOK, TopOK
<1> QED BY <1>1, ReadableIsHeld

LEMMA HeldIsPacked ==
  ASSUME FilesOK, NEW k, Held(files, k), Legacy(k) \notin files, Loose(k) \notin files
  PROVE  Packed(files, k)
<1>1. PICK f \in files : k \in KeysIn(f) BY DEF Held
<1>2. f \in AllPacks BY <1>1, HoldersOf DEF FilesOK
<1>3. f.at = "pack" BY <1>2, PacksArePacks
<1> QED BY <1>1, <1>3 DEF Packed, Packs

LEMMA LargeWholeIsLegacy ==
  ASSUME NEW f \in AllFiles, NEW k \in Large, Whole(k) \in f.recs
  PROVE  f = Legacy(k)
<1>1. CASE \E c \in Contents : f = Legacy(c) BY <1>1, RecordsDiffer DEF Legacy
<1>2. CASE \E j \in Keys : f = Loose(j)
  <2>1. PICK j \in Keys : f = Loose(j) BY <1>2
  <2>2. f.recs = {RecordOf(j)} BY <2>1 DEF Loose
  <2> QED BY <2>2, RecordsDiffer DEF RecordOf
<1>3. CASE f \in AllPacks
  <2>1. PICK ks \in ((SUBSET Trees) \cup (SUBSET Contents)) \ {{}} : f = Pack({RecordOf(j) : j \in ks})
    BY <1>3 DEF AllPacks
  <2>2. f.recs = {RecordOf(j) : j \in ks} BY <2>1 DEF Pack
  <2>3. PICK j \in ks : Whole(k) = RecordOf(j) BY <2>2
  <2> QED BY <2>3, RecordsDiffer DEF RecordOf
<1>4. CASE f = Temporary BY <1>4 DEF Temporary
<1> QED BY <1>1, <1>2, <1>3, <1>4 DEF AllFiles

(* The pieces of a live graph that has no blob beside it are held.         *)
LEMMA PiecesAreHeld ==
  ASSUME FilesOK, NEW k \in Large, Legacy(k) \notin files, Readable(files, k), NEW j \in Pieces[k]
  PROVE  Held(files, j)
<1>1. ~ Holds(files, Whole(k)) BY LargeWholeIsLegacy DEF Holds, FilesOK
<1>2. Holds(files, Whole(j)) BY <1>1 DEF Readable
<1>3. Whole(j).key = j BY DEF Whole
<1> QED BY <1>2, <1>3 DEF Holds, Held, KeysIn

LEMMA TreesHaveNoBlobs ==
  ASSUME NEW k \in Trees
  PROVE  Legacy(k) \notin AllFiles
<1>1. Legacy(k).at = "legacy" /\ Legacy(k).recs = {Whole(k)} BY DEF Legacy
<1>2. \A c \in Contents : Legacy(c) # Legacy(k)
  <2>1. \A c : Legacy(c).recs = {Whole(c)} BY DEF Legacy
  <2> QED BY <1>1, <2>1, RecordsDiffer, StoreAssumption
<1>3. \A j : Loose(j).at = "loose" BY DEF Loose
<1>4. Temporary.at = "incoming" BY DEF Temporary
<1> QED BY <1>1, <1>2, <1>3, <1>4, PacksArePacks DEF AllFiles

LEMMA KeyOfFrame ==
  ASSUME NEW k \in Keys, rd.frame.key = {k}
  PROVE  Key = k
BY DEF Key

LEMMA VanishedIsEmpty == Vanished.at = "pack" /\ KeysIn(Vanished) = {}
BY DEF Vanished, Pack, KeysIn

LEMMA NamespacePacks == Packs(PackNamespace) = Packs(files)
<1> DEFINE index == [at |-> "index", recs |-> hint]
<1>1. index.at = "index" OBVIOUS
<1>2. PackNamespace = (files \ Objects(files)) \cup {index} BY DEF PackNamespace
<1> HIDE DEF index
<1> QED BY <1>1, <1>2 DEF Packs, Objects

(* What stays of the scope when a read goes on.                            *)
Kept(r) ==
    /\ DOMAIN r = DOMAIN NoScope
    /\ r.target = rd.target /\ r.steady = rd.steady /\ r.disturbed = rd.disturbed

InventoryFits(inv) ==
    /\ DOMAIN inv = DOMAIN Unread
    /\ ~ rd.disturbed /\ inv.known => inv.stable

(* A frame that may come after that of the read.                           *)
FrameFits(fr) ==
    /\ DOMAIN fr = DOMAIN NoFrame /\ fr.fresh \in Nat /\ fr.key = rd.frame.key
    /\ rd.steady /\ rd.outer = NoFrame => Placed(fr)
    /\ ListedOK(fr)
    /\ ~ rd.disturbed =>
          /\ fr.stage = "listing" => fr.listing = PackNamespace
          /\ rd.steady =>
                /\ Placed(fr) /\ ~ fr.failed /\ ~ fr.trouble
                /\ fr.stage = "listed" /\ fr.fresh # 0 => Packs(fr.listing) = Packs(files)

LEMMA FrameMoves ==
  ASSUME ReadingInv, rd.pc = "resolving", rd.frame # NoFrame,
         NEW fr, FrameFits(fr), NEW inv, InventoryFits(inv),
         NEW r, Kept(r), r.pc = rd.pc, r.frame = fr, r.outer = rd.outer, r.pieces = rd.pieces,
         r.deps = rd.deps, r.outcome = rd.outcome, r.inventory = inv
  PROVE  ReadOK(r)
<1> USE DEF ReadingInv, ReadOK, Kept, FrameFits, InventoryFits
<1>1. PICK k \in Keys : rd.frame.key = {k} BY DEF FramesOK
<1>2. fr # NoFrame BY <1>1, NoFrameFacts
<1>3. ScopeShape(r) BY DEF ScopeShape
<1>4. FramesOK(r) BY <1>2 DEF FramesOK
<1>5. TopOK(r) BY <1>2 DEF TopOK
<1>6. CalmOK(r) BY DEF CalmOK
<1>7. OutcomeOK(r) BY DEF OutcomeOK
<1> QED BY <1>3, <1>4, <1>5, <1>6, <1>7

(* The end of a read, with an outcome that is right.                       *)
LEMMA ReadEnds ==
  ASSUME ReadingInv, rd.pc # "closed", NEW inv, InventoryFits(inv),
         NEW r, Kept(r), r.pc = "open", r.frame = NoFrame, r.outer = NoFrame, r.pieces = {},
         r.deps = {}, r.inventory = inv,
         rd.steady => r.outcome # "missing" /\ (r.outcome = "failed" => rd.disturbed)
  PROVE  ReadOK(r)
<1> USE DEF ReadingInv, ReadOK, Kept, InventoryFits
<1>1. ScopeShape(r) BY NoFrameFacts DEF ScopeShape, RdSteps
<1>2. FramesOK(r) BY DEF FramesOK
<1>3. TopOK(r) BY NoFrameFacts DEF TopOK
<1>4. ListedOK(r.frame) BY NoFrameFacts
<1>5. CalmOK(r) BY NoFrameFacts DEF CalmOK
<1>6. OutcomeOK(r) BY DEF OutcomeOK
<1> QED BY <1>1, <1>2, <1>3, <1>4, <1>5, <1>6

(* A piece that cannot be resolved.                                        *)
LEMMA GraphFails ==
  ASSUME ReadingInv, rd.pc = "resolving", rd.outer # NoFrame, rd.steady => rd.disturbed,
         NEW inv, InventoryFits(inv),
         NEW r, Kept(r), r.pc = rd.pc, r.frame = CandidateFailed.frame, r.outer = NoFrame,
         r.pieces = {}, r.deps = {}, r.outcome = rd.outcome, r.inventory = inv
  PROVE  ReadOK(r)
<1> USE DEF ReadingInv, ReadOK, Kept, InventoryFits
<1> DEFINE loose == rd.outer.stage = "loose"
           fr == r.frame
<1>1. PICK k \in Keys : rd.outer.key = {k} BY DEF FramesOK
<1>2. fr = [rd.outer EXCEPT
              !.stage = IF loose THEN PackStage ELSE @, !.failed = @ \/ loose, !.trouble = ~ loose]
  BY DEF CandidateFailed, ScopeShape, NoScope
<1>3. fr.key = {k} /\ fr.fresh = rd.outer.fresh /\ DOMAIN fr = DOMAIN NoFrame
      /\ fr.stage = (IF loose THEN PackStage ELSE rd.outer.stage)
      /\ fr.failed = (rd.outer.failed \/ loose) /\ fr.trouble = ~ loose
  BY <1>1, <1>2 DEF ScopeShape, NoFrame
<1>4. PackStage \in {"list", "index"} BY DEF PackStage
<1> HIDE DEF fr
<1>5. fr # NoFrame BY <1>3, NoFrameFacts
<1>6. ScopeShape(r) BY <1>3, NoFrameFacts DEF ScopeShape, fr
<1>7. FramesOK(r) BY <1>1, <1>3, <1>5 DEF FramesOK, fr
<1>8. rd.steady => Placed(fr)
  <2>1. rd.steady => Placed(rd.outer) BY DEF TopOK
  <2>2. CASE loose BY <1>1, <1>3, <2>1, <2>2 DEF Placed
  <2>3. CASE ~ loose BY <1>1, <1>3, <2>1, <2>3 DEF Placed
  <2> QED BY <2>2, <2>3
<1>9. TopOK(r) BY <1>8, NoFrameFacts DEF TopOK, fr
<1>10. ListedOK(fr) BY <1>3, <1>4 DEF ListedOK
<1>11. fr.stage # "listing" BY <1>3, <1>4 DEF FramesOK
<1>12. CalmOK(r) BY <1>11 DEF CalmOK, fr
<1>13. OutcomeOK(r) BY DEF OutcomeOK
<1> QED BY <1>6, <1>7, <1>9, <1>10, <1>12, <1>13 DEF fr

(* No resolution ends without the object while the store is calm, nor is   *)
(* missing what was referred to all along.                                 *)
LEMMA UnresolvedIsRight ==
  ASSUME ReadingInv, rd.pc = "resolving", NEW outcome \in {"missing", "failed"},
         rd.steady => rd.disturbed, outcome = "missing" /\ rd.outer = NoFrame => ~ rd.steady,
         NEW inv, InventoryFits(inv),
         NEW r, DOMAIN r = DOMAIN NoScope, r.inventory = inv,
         \A field \in DOMAIN NoScope \ {"inventory"} : r[field] = Unresolved(outcome)[field]
  PROVE  ReadOK(r)
<1> DEFINE u == Unresolved(outcome)
<1>1. /\ r.pc = u.pc /\ r.frame = u.frame /\ r.outer = u.outer /\ r.pieces = u.pieces
      /\ r.deps = u.deps /\ r.outcome = u.outcome /\ r.target = u.target
      /\ r.steady = u.steady /\ r.disturbed = u.disturbed
  BY DEF NoScope
<1>2. DOMAIN rd = DOMAIN NoScope BY DEF ReadingInv, ReadOK, ScopeShape
<1>3. CASE Nested
  <2>1. u = CandidateFailed BY <1>3 DEF Unresolved
  <2>2. /\ u.pc = rd.pc /\ u.outer = NoFrame /\ u.pieces = {} /\ u.deps = {}
        /\ u.outcome = rd.outcome /\ u.target = rd.target /\ u.steady = rd.steady
        /\ u.disturbed = rd.disturbed
    BY <1>2, <2>1 DEF CandidateFailed, NoScope
  <2> HIDE DEF u
  <2>3. Kept(r) BY <1>1, <2>2 DEF Kept
  <2> QED BY <1>1, <1>3, <2>1, <2>2, <2>3, GraphFails DEF Nested
<1>4. CASE ~ Nested
  <2>1. u = Finished(outcome) BY <1>4 DEF Unresolved
  <2>2. /\ u.pc = "open" /\ u.frame = NoFrame /\ u.outer = NoFrame /\ u.pieces = {} /\ u.deps = {}
        /\ u.outcome = outcome /\ u.target = rd.target /\ u.steady = rd.steady
        /\ u.disturbed = rd.disturbed
    BY <1>2, <2>1 DEF Finished, NoScope
  <2> HIDE DEF u
  <2>3. Kept(r) BY <1>1, <2>2 DEF Kept
  <2> QED BY <1>1, <1>4, <2>2, <2>3, ReadEnds DEF Nested
<1> QED BY <1>3, <1>4

LEMMA ResolvedIsRight ==
  ASSUME ReadingInv, StoreInv, rd.pc = "resolving", rd.frame # NoFrame, rd.frame.stage # "listing",
         NEW k \in Keys, rd.frame.key = {k},
         NEW f \in files, rd.frame.stage = "legacy" => f = Legacy(k),
         NEW r, DOMAIN r = DOMAIN NoScope,
         \A field \in DOMAIN NoScope \ {"frame"} : r[field] = rd[field],
         DOMAIN r.frame = DOMAIN NoFrame,
         \A field \in {"key", "stage", "fresh", "failed"} : r.frame[field] = rd.frame[field]
  PROVE  ReadOK(Resolved(r, f))
<1> DEFINE s == Resolved(r, f)
<1>1. /\ r.pc = rd.pc /\ r.outer = rd.outer /\ r.pieces = rd.pieces /\ r.deps = rd.deps
      /\ r.outcome = rd.outcome /\ r.target = rd.target /\ r.steady = rd.steady
      /\ r.disturbed = rd.disturbed /\ r.inventory = rd.inventory
  BY DEF NoScope
<1>2. /\ r.frame.key = {k} /\ r.frame.stage = rd.frame.stage /\ r.frame.fresh = rd.frame.fresh
      /\ r.frame.failed = rd.frame.failed
  OBVIOUS
<1>3. Key = k BY KeyOfFrame
<1>4. DOMAIN rd = DOMAIN NoScope BY DEF ReadingInv, ReadOK, ScopeShape
<1>5. InventoryFits(rd.inventory)
  BY DEF ReadingInv, ReadOK, ScopeShape, CalmOK, InventoryFits
<1>6. CASE Chunked(k) \in f.recs
  <2>1. k \in Large BY <1>6, GraphsAreLarge DEF StoreInv, FilesOK
  <2>2. rd.outer = NoFrame BY <2>1 DEF ReadingInv, ReadOK, FramesOK
  <2>3. rd.frame.stage # "legacy" BY <1>6, RecordsDiffer DEF Legacy
  <2>4. s = [r EXCEPT !.outer = r.frame, !.pieces = Pieces[k], !.deps = {f}, !.frame = NoFrame]
    BY <1>3, <1>6 DEF Resolved
  <2>5. /\ DOMAIN s = DOMAIN NoScope /\ s.outer = r.frame /\ s.pieces = Pieces[k] /\ s.deps = {f}
        /\ s.frame = NoFrame /\ s.pc = "resolving" /\ s.outcome = rd.outcome
        /\ s.target = rd.target /\ s.steady = rd.steady /\ s.disturbed = rd.disturbed
        /\ s.inventory = rd.inventory
    BY <1>1, <2>4 DEF NoScope
  <2> HIDE DEF s
  <2>6. rd.target = {k} BY <2>2 DEF ReadingInv, ReadOK, FramesOK
  <2>7. r.frame # NoFrame BY <1>2, NoFrameFacts
  <2>8. Pieces[k] \subseteq Contents \ Large BY <2>1, PiecesAreWhole
  <2>9. ScopeShape(s)
    BY <1>2, <2>5, NoFrameFacts DEF ReadingInv, ReadOK, ScopeShape, RdSteps
  <2>10. FramesOK(s) BY <1>2, <2>5, <2>6, <2>7, <2>8, NoFrameFacts DEF FramesOK
  <2>11. rd.steady => /\ Placed(rd.frame) /\ rd.target \subseteq Rooted(roots)
                      /\ \A j \in rd.target : Readable(files, j)
    BY <2>2 DEF ReadingInv, ReadOK, TopOK
  <2>12. rd.steady => Placed(s.outer) BY <1>2, <2>5, <2>11 DEF Placed
  <2>13. TopOK(s) BY <2>5, <2>7, <2>11, <2>12 DEF TopOK
  <2>14. ListedOK(s.frame) BY <2>5, NoFrameFacts
  <2>15. ASSUME rd.steady, NEW j \in Pieces[k] PROVE Held(files, j)
    <3>1. Legacy(k) \notin files BY <2>3, <2>11, <2>15 DEF Placed
    <3>2. Readable(files, k) BY <2>6, <2>11, <2>15
    <3> QED BY <2>1, <2>15, <3>1, <3>2, PiecesAreHeld DEF StoreInv
  <2>16. CalmOK(s)
    <3>1. ~ rd.disturbed /\ rd.inventory.known => rd.inventory.stable BY <1>5 DEF InventoryFits
    <3> QED BY <2>5, <2>15, <3>1, NoFrameFacts DEF CalmOK
  <2>17. OutcomeOK(s) BY <2>5 DEF ReadingInv, ReadOK, OutcomeOK
  <2> QED BY <2>9, <2>10, <2>13, <2>14, <2>16, <2>17 DEF ReadOK, s
<1>7. CASE Chunked(k) \notin f.recs /\ k \in Trees
  <2>1. s = Finished("read") BY <1>3, <1>7 DEF Resolved
  <2>2. /\ s.pc = "open" /\ s.frame = NoFrame /\ s.outer = NoFrame /\ s.pieces = {} /\ s.deps = {}
        /\ s.outcome = "read" /\ s.target = rd.target /\ s.steady = rd.steady
        /\ s.disturbed = rd.disturbed /\ s.inventory = rd.inventory /\ DOMAIN s = DOMAIN NoScope
    BY <1>4, <2>1 DEF Finished, NoScope
  <2> HIDE DEF s
  <2>3. Kept(s) BY <2>2 DEF Kept
  <2>4. ReadOK(s) BY <1>5, <2>2, <2>3, ReadEnds
  <2> QED BY <2>4 DEF s
<1>8. CASE Chunked(k) \notin f.recs /\ k \notin Trees
  <2>1. s = [r EXCEPT !.deps = @ \cup {f}, !.pc = IF Nested THEN @ ELSE "found", !.frame = NoFrame]
    BY <1>3, <1>8 DEF Resolved
  <2>2. /\ DOMAIN s = DOMAIN NoScope /\ s.outer = rd.outer /\ s.pieces = rd.pieces
        /\ s.deps = rd.deps \cup {f}
        /\ s.frame = NoFrame /\ s.pc = (IF Nested THEN "resolving" ELSE "found")
        /\ s.outcome = rd.outcome
        /\ s.target = rd.target /\ s.steady = rd.steady /\ s.disturbed = rd.disturbed
        /\ s.inventory = rd.inventory
    BY <1>1, <2>1 DEF NoScope
  <2> HIDE DEF s
  <2> USE DEF ReadingInv, ReadOK
  <2>3. ScopeShape(s) BY <2>2, NoFrameFacts DEF ScopeShape, RdSteps
  <2>4. FramesOK(s) BY <2>2, NoFrameFacts DEF FramesOK, Nested
  <2>5. TopOK(s) BY <2>2, NoFrameFacts DEF TopOK
  <2>6. ListedOK(s.frame) BY <2>2, NoFrameFacts
  <2>7. CalmOK(s) BY <2>2, NoFrameFacts DEF CalmOK
  <2>8. OutcomeOK(s) BY <2>2 DEF OutcomeOK
  <2> QED BY <2>3, <2>4, <2>5, <2>6, <2>7, <2>8 DEF s
<1> QED BY <1>6, <1>7, <1>8

LEMMA SinceFacts ==
  ASSUME NEW fs
  PROVE  /\ \A f \in fs : f \notin files \ files' => f \in Since(fs)
         /\ \A f \in Since(fs) : f = Vanished \/ (f \in fs /\ f \notin files \ files')
         /\ files' = files => Since(fs) = fs
BY DEF Since

LEMMA IdentifiedFrame ==
  ASSUME NEW fr, DOMAIN fr = DOMAIN NoFrame
  PROVE  LET i == Identified(fr)
         IN  /\ DOMAIN i = DOMAIN NoFrame
             /\ i.key = fr.key /\ i.stage = fr.stage /\ i.fresh = fr.fresh
             /\ i.trouble = fr.trouble /\ i.failed = fr.failed
             /\ i.listing = Since(fr.listing)
             /\ i.todo = IF fr.stage = "listed" THEN Since(fr.todo) ELSE fr.todo
BY DEF Identified, NoFrame

LEMMA NoFrameIdentified == Identified(NoFrame) = NoFrame
<1>1. Since({}) = {} BY DEF Since
<1>2. NoFrame.listing = {} /\ NoFrame.todo = {} /\ NoFrame.stage = "none" BY NoFrameFacts
<1>3. Identified(NoFrame) = [NoFrame EXCEPT !.listing = {}, !.todo = {}]
  BY <1>1, <1>2 DEF Identified
<1>4. [NoFrame EXCEPT !.listing = {}] = NoFrame BY DEF NoFrame
<1>5. [NoFrame EXCEPT !.todo = {}] = NoFrame BY DEF NoFrame
<1>6. [NoFrame EXCEPT !.listing = {}, !.todo = {}] = [[NoFrame EXCEPT !.listing = {}] EXCEPT !.todo = {}]
  OBVIOUS
<1> QED BY <1>3, <1>4, <1>5, <1>6

(* Others may add files, but no blob, and take away what is packed twice.  *)
LEMMA ReadingNotes ==
  ASSUME ReadingInv, rd' = Noted,
         \A k : Legacy(k) \in files' => Legacy(k) \in files,
         \A k \in Rooted(roots) :
            /\ k \in Rooted(roots') /\ Packed(files, k) => Packed(files', k)
            /\ Readable(files, k) => Readable(files', k)
  PROVE  ReadingInv'
<1> USE DEF ReadingInv, ReadOK
<1>1. /\ DOMAIN rd' = DOMAIN NoScope /\ rd'.pc = rd.pc /\ rd'.pieces = rd.pieces
      /\ rd'.outcome = rd.outcome /\ rd'.target = rd.target
      /\ rd'.frame = Identified(rd.frame) /\ rd'.outer = Identified(rd.outer)
      /\ rd'.inventory = [rd.inventory EXCEPT !.packs = Since(@)]
      /\ rd'.deps = Since(rd.deps)
      /\ rd'.disturbed = (rd.disturbed \/ (rd.pc # "closed" /\ <<files, hint>>' # <<files, hint>>))
      /\ rd'.steady = (rd.steady /\ rd.target \subseteq Rooted(roots'))
  BY DEF Noted, ScopeShape, NoScope
<1> DEFINE fr == rd.frame
           ou == rd.outer
<1>2. DOMAIN fr = DOMAIN NoFrame /\ DOMAIN ou = DOMAIN NoFrame BY DEF ScopeShape
<1>3. /\ DOMAIN rd'.frame = DOMAIN NoFrame
      /\ rd'.frame.key = fr.key /\ rd'.frame.stage = fr.stage /\ rd'.frame.fresh = fr.fresh
      /\ rd'.frame.trouble = fr.trouble /\ rd'.frame.failed = fr.failed
      /\ rd'.frame.listing = Since(fr.listing)
      /\ fr.stage = "listed" => rd'.frame.todo = Since(fr.todo)
      /\ fr = NoFrame => rd'.frame = NoFrame
  BY <1>1, <1>2, IdentifiedFrame, NoFrameIdentified
<1>4. /\ DOMAIN rd'.outer = DOMAIN NoFrame
      /\ rd'.outer.key = ou.key /\ rd'.outer.stage = ou.stage /\ rd'.outer.fresh = ou.fresh
      /\ rd'.outer.failed = ou.failed
      /\ ou = NoFrame => rd'.outer = NoFrame
  BY <1>1, <1>2, IdentifiedFrame, NoFrameIdentified
<1>5. rd'.inventory.known = rd.inventory.known /\ rd'.inventory.stable = rd.inventory.stable
      /\ DOMAIN rd'.inventory = DOMAIN Unread
  BY <1>1 DEF ScopeShape, Unread
<1>6. (fr # NoFrame => fr.key # {}) /\ (ou # NoFrame => ou.key # {}) BY DEF FramesOK
<1>7. (rd'.frame = NoFrame => fr = NoFrame) /\ (rd'.outer = NoFrame => ou = NoFrame)
  BY <1>3, <1>4, <1>6, NoFrameFacts
<1>8. rd'.steady => rd.steady /\ rd.target \subseteq Rooted(roots') BY <1>1
<1>9. rd.pc # "closed" /\ ~ rd'.disturbed => ~ rd.disturbed /\ files' = files /\ hint' = hint BY <1>1
<1>10. rd.disturbed => rd'.disturbed BY <1>1
<1> HIDE DEF fr, ou
<1>11. ScopeShape(rd)' BY <1>1, <1>3, <1>4, <1>5 DEF ScopeShape, fr, ou
<1>12. FramesOK(rd)'
  <2>1. rd.deps = {} => rd'.deps = {} BY <1>1 DEF Since
  <2> QED BY <1>1, <1>3, <1>4, <1>7, <2>1 DEF FramesOK, fr, ou
<1>13. TopOK(rd)'
  <2>1. SUFFICES ASSUME rd'.steady PROVE /\ rd'.target \subseteq Rooted(roots')
                                         /\ \A k \in rd'.target : Readable(files', k)
                                         /\ Placed(rd.outer)'
                                         /\ rd'.outer = NoFrame => Placed(rd.frame)'
    BY DEF TopOK
  <2>2. rd.target \subseteq Rooted(roots) /\ rd.target \subseteq Rooted(roots') /\ Placed(ou)
        /\ (ou = NoFrame => Placed(fr))
    BY <1>8, <2>1 DEF TopOK, ou, fr
  <2>3. ou.key \subseteq rd.target BY NoFrameFacts DEF FramesOK, ou
  <2>4. ou = NoFrame => fr.key \subseteq rd.target BY NoFrameFacts DEF FramesOK, ou, fr
  <2>5. Placed(rd.outer)' BY <1>4, <2>2, <2>3 DEF Placed
  <2>6. ou = NoFrame => Placed(rd.frame)' BY <1>3, <2>2, <2>4 DEF Placed
  <2>7. \A k \in rd.target : Readable(files', k) BY <1>8, <2>1, <2>2 DEF TopOK
  <2> QED BY <1>1, <1>7, <2>2, <2>5, <2>6, <2>7
<1>14. ListedOK(rd.frame)'
  <2>1. SUFFICES ASSUME fr.stage = "listed", fr.fresh # 0, ~ fr.trouble
                 PROVE  /\ Packs(Since(fr.listing)) \subseteq files' \cup {Vanished}
                        /\ \A p \in Packs(Since(fr.listing)), k \in fr.key :
                              k \in KeysIn(p) => p \in Since(fr.todo)
    BY <1>3 DEF ListedOK
  <2>2. /\ Packs(fr.listing) \subseteq files \cup {Vanished}
        /\ \A p \in Packs(fr.listing), k \in fr.key : k \in KeysIn(p) => p \in fr.todo
    BY <2>1 DEF ListedOK, fr
  <2>3. ASSUME NEW p \in Packs(Since(fr.listing)), p # Vanished
        PROVE  p \in Packs(fr.listing) /\ p \in files' /\ p \notin files \ files'
    <3>1. p \in Since(fr.listing) /\ p.at = "pack" BY DEF Packs
    <3>2. p \in fr.listing /\ p \notin files \ files' BY <2>3, <3>1, SinceFacts
    <3>3. p \in Packs(fr.listing) BY <3>1, <3>2 DEF Packs
    <3> QED BY <2>2, <2>3, <3>2, <3>3
  <2>4. ASSUME NEW p \in Packs(Since(fr.listing)), NEW k \in fr.key, k \in KeysIn(p)
        PROVE  p \in Since(fr.todo)
    <3>1. p # Vanished BY <2>4, VanishedIsEmpty
    <3>2. p \in fr.todo /\ p \notin files \ files' BY <2>2, <2>3, <2>4, <3>1
    <3> QED BY <3>2, SinceFacts
  <2> QED BY <2>3, <2>4
<1>15. CalmOK(rd)'
  <2>1. SUFFICES ASSUME rd'.pc # "closed", ~ rd'.disturbed PROVE CalmOK(rd)'
    BY DEF CalmOK
  <2>2. files' = files /\ hint' = hint /\ ~ rd.disturbed /\ rd.pc # "closed" BY <1>1, <1>9, <2>1
  <2>3. /\ rd.inventory.known => rd.inventory.stable
        /\ fr.stage = "listing" => fr.listing = PackNamespace
        /\ rd.deps \subseteq files
        /\ rd.steady =>
              /\ Placed(fr) /\ ~ fr.failed /\ ~ fr.trouble
              /\ fr.stage = "listed" /\ fr.fresh # 0 => Packs(fr.listing) = Packs(files)
              /\ \A k \in fr.key \cup rd.pieces : Held(files, k)
    BY <2>2 DEF CalmOK, fr
  <2>4. rd'.frame.listing = fr.listing /\ rd'.deps = rd.deps BY <1>1, <1>3, <2>2, SinceFacts
  <2>5. PackNamespace' = PackNamespace BY <2>2 DEF PackNamespace, Objects
  <2>6. Placed(fr) => Placed(rd.frame)' BY <1>3, <2>2 DEF Placed
  <2>7. /\ rd'.inventory.known => rd'.inventory.stable
        /\ rd'.frame.stage = "listing" => rd'.frame.listing = PackNamespace'
        /\ rd'.deps \subseteq files'
    BY <1>3, <1>5, <2>2, <2>3, <2>4, <2>5
  <2>8. rd'.steady =>
              /\ Placed(rd.frame)' /\ ~ rd'.frame.failed /\ ~ rd'.frame.trouble
              /\ rd'.frame.stage = "listed" /\ rd'.frame.fresh # 0 =>
                    Packs(rd'.frame.listing) = Packs(files')
              /\ \A k \in rd'.frame.key \cup rd'.pieces : Held(files', k)
    BY <1>1, <1>3, <1>8, <2>2, <2>3, <2>4, <2>6
  <2> QED BY <2>7, <2>8 DEF CalmOK
<1>16. OutcomeOK(rd)' BY <1>1, <1>8, <1>10 DEF OutcomeOK
<1> QED BY <1>11, <1>12, <1>13, <1>14, <1>15, <1>16

LEMMA ReadingOf ==
  ASSUME files' = files, hint' = hint, roots' = roots, ReadOK(rd')
  PROVE  ReadingInv'
<1>1. PackNamespace' = PackNamespace BY DEF PackNamespace, Objects
<1>2. TopOK(rd)' BY DEF ReadOK, TopOK, Placed
<1>3. ListedOK(rd.frame)' BY DEF ReadOK, ListedOK
<1>4. CalmOK(rd)' BY <1>1 DEF ReadOK, CalmOK, Placed
<1>5. OutcomeOK(rd)' /\ FramesOK(rd)' /\ ScopeShape(rd)'
  BY DEF ReadOK, OutcomeOK, FramesOK, ScopeShape
<1> QED BY <1>2, <1>3, <1>4, <1>5 DEF ReadingInv, ReadOK

(* A read at a stage is about an object.                                   *)
LEMMA ReadingOne ==
  ASSUME ReadingInv, rd.pc = "resolving", rd.frame.stage # "none"
  PROVE  /\ rd.frame # NoFrame
         /\ Key \in Keys /\ rd.frame.key = {Key}
         /\ rd.outer = NoFrame => rd.target = {Key}
         /\ DOMAIN rd = DOMAIN NoScope /\ DOMAIN rd.frame = DOMAIN NoFrame
         /\ InventoryFits(rd.inventory)
<1> USE DEF ReadingInv, ReadOK
<1>1. rd.frame # NoFrame BY NoFrameFacts
<1>2. PICK k \in Keys : rd.frame.key = {k} BY <1>1 DEF FramesOK
<1>3. Key = k BY <1>2, KeyOfFrame
<1>4. InventoryFits(rd.inventory) BY DEF ScopeShape, CalmOK, InventoryFits
<1> QED BY <1>1, <1>2, <1>3, <1>4 DEF FramesOK, ScopeShape

LEMMA RdLegacyKeeps ==
  ASSUME ReadingInv, StoreInv, RdLegacy
  PROVE  ReadOK(rd')
<1>1. rd.pc = "resolving" /\ rd.frame.stage = "legacy" BY DEF RdLegacy, At
<1>2. /\ rd.frame # NoFrame /\ Key \in Keys /\ rd.frame.key = {Key}
      /\ rd.outer = NoFrame => rd.target = {Key}
      /\ DOMAIN rd = DOMAIN NoScope /\ DOMAIN rd.frame = DOMAIN NoFrame
      /\ InventoryFits(rd.inventory)
  BY <1>1, ReadingOne
<1>3. CASE Legacy(Key) \in files
  <2>1. rd' = Resolved(rd, Legacy(Key)) BY <1>3 DEF RdLegacy
  <2> QED BY <1>1, <1>2, <1>3, <2>1, ResolvedIsRight
<1>4. CASE Legacy(Key) \notin files
  <2>1. rd' = [rd EXCEPT !.frame.stage = "loose"] BY <1>4 DEF RdLegacy, To
  <2> DEFINE fr == rd'.frame
  <2>2. fr = [rd.frame EXCEPT !.stage = "loose"] BY <1>2, <2>1 DEF NoScope
  <2>3. /\ Kept(rd') /\ rd'.pc = rd.pc /\ rd'.outer = rd.outer /\ rd'.pieces = rd.pieces
        /\ rd'.deps = rd.deps /\ rd'.outcome = rd.outcome /\ rd'.inventory = rd.inventory
    BY <1>2, <2>1 DEF NoScope, Kept
  <2>4. /\ DOMAIN fr = DOMAIN NoFrame /\ fr.key = rd.frame.key /\ fr.stage = "loose"
        /\ fr.fresh = rd.frame.fresh /\ fr.trouble = rd.frame.trouble
        /\ fr.failed = rd.frame.failed
    BY <1>2, <2>2 DEF NoFrame
  <2> HIDE DEF fr
  <2>5. Placed(fr) BY <1>2, <1>4, <2>4 DEF Placed, Before
  <2>6. ListedOK(fr) BY <2>4 DEF ListedOK
  <2>7. FrameFits(fr)
    BY <1>1, <2>4, <2>5, <2>6 DEF FrameFits, ReadingInv, ReadOK, ScopeShape, CalmOK
  <2> QED BY <1>1, <1>2, <2>3, <2>7, FrameMoves DEF fr
<1> QED BY <1>3, <1>4

(* What is neither a blob nor a record of its own is in a pack.            *)
LEMMA RdLooseKeeps ==
  ASSUME ReadingInv, StoreInv, RdLoose
  PROVE  ReadOK(rd')
<1>1. rd.pc = "resolving" /\ rd.frame.stage = "loose" BY DEF RdLoose, At
<1>2. /\ rd.frame # NoFrame /\ Key \in Keys /\ rd.frame.key = {Key}
      /\ rd.outer = NoFrame => rd.target = {Key}
      /\ DOMAIN rd = DOMAIN NoScope /\ DOMAIN rd.frame = DOMAIN NoFrame
      /\ InventoryFits(rd.inventory)
  BY <1>1, ReadingOne
<1>3. CASE Loose(Key) \in files
  <2>1. rd' = Resolved(rd, Loose(Key)) BY <1>3 DEF RdLoose
  <2> QED BY <1>1, <1>2, <1>3, <2>1, ResolvedIsRight
<1>4. CASE Loose(Key) \notin files
  <2>1. rd' = [rd EXCEPT !.frame.stage = PackStage] BY <1>4 DEF RdLoose, To
  <2> DEFINE fr == rd'.frame
  <2>2. fr = [rd.frame EXCEPT !.stage = PackStage] BY <1>2, <2>1 DEF NoScope
  <2>3. /\ Kept(rd') /\ rd'.pc = rd.pc /\ rd'.outer = rd.outer /\ rd'.pieces = rd.pieces
        /\ rd'.deps = rd.deps /\ rd'.outcome = rd.outcome /\ rd'.inventory = rd.inventory
    BY <1>2, <2>1 DEF NoScope, Kept
  <2>4. /\ DOMAIN fr = DOMAIN NoFrame /\ fr.key = rd.frame.key /\ fr.stage = PackStage
        /\ fr.fresh = rd.frame.fresh /\ fr.trouble = rd.frame.trouble
        /\ fr.failed = rd.frame.failed
    BY <1>2, <2>2 DEF NoFrame
  <2> HIDE DEF fr
  <2>5. PackStage \in {"list", "index"} BY DEF PackStage
  <2>6. ASSUME Placed(rd.frame), Held(files, Key) PROVE Placed(fr)
    <3>1. Legacy(Key) \notin files BY <1>1, <1>2, <2>6 DEF Placed
    <3>2. Packed(files, Key) BY <1>4, <2>6, <3>1, HeldIsPacked DEF StoreInv
    <3> QED BY <1>2, <2>4, <3>1, <3>2 DEF Placed
  <2>7. rd.steady /\ rd.outer = NoFrame => Placed(rd.frame) /\ Held(files, Key)
    BY <1>2, SteadyIsHeld DEF ReadingInv, ReadOK, TopOK
  <2>8. ~ rd.disturbed /\ rd.steady => Placed(rd.frame) /\ Held(files, Key)
    BY <1>1, <1>2 DEF ReadingInv, ReadOK, CalmOK
  <2>9. ListedOK(fr) BY <2>4, <2>5 DEF ListedOK
  <2>10. FrameFits(fr)
    BY <1>1, <2>4, <2>5, <2>6, <2>7, <2>8, <2>9
       DEF FrameFits, ReadingInv, ReadOK, ScopeShape, CalmOK
  <2> QED BY <1>1, <1>2, <2>3, <2>10, FrameMoves DEF fr
<1> QED BY <1>3, <1>4

(* Among the packs a frame keeps its place.                                *)
LEMMA PlacedStill ==
  ASSUME NEW f, NEW g, Placed(f), g.key = f.key, g.failed = f.failed,
         f.stage \notin Before
  PROVE  Placed(g)
BY DEF Placed, Before

LEMMA RdIndexKeeps ==
  ASSUME ReadingInv, StoreInv, RdIndex
  PROVE  ReadOK(rd')
<1>1. rd.pc = "resolving" /\ rd.frame.stage = "index" BY DEF RdIndex, At
<1>2. /\ rd.frame # NoFrame /\ Key \in Keys /\ rd.frame.key = {Key}
      /\ DOMAIN rd = DOMAIN NoScope /\ DOMAIN rd.frame = DOMAIN NoFrame
      /\ InventoryFits(rd.inventory)
  BY <1>1, ReadingOne
<1>3. PICK index, todo :
        rd' = [[rd EXCEPT !.frame.stage = "indexed"] EXCEPT !.index = index, !.frame.todo = todo]
  BY DEF RdIndex, To
<1> DEFINE fr == rd'.frame
<1>4. fr = [[rd.frame EXCEPT !.stage = "indexed"] EXCEPT !.todo = todo] BY <1>2, <1>3 DEF NoScope
<1>5. /\ Kept(rd') /\ rd'.pc = rd.pc /\ rd'.outer = rd.outer /\ rd'.pieces = rd.pieces
      /\ rd'.deps = rd.deps /\ rd'.outcome = rd.outcome /\ rd'.inventory = rd.inventory
  BY <1>2, <1>3 DEF NoScope, Kept
<1>6. /\ DOMAIN fr = DOMAIN NoFrame /\ fr.key = rd.frame.key /\ fr.stage = "indexed"
      /\ fr.fresh = rd.frame.fresh /\ fr.trouble = rd.frame.trouble
      /\ fr.failed = rd.frame.failed
  BY <1>2, <1>4 DEF NoFrame
<1> HIDE DEF fr
<1>7. Placed(rd.frame) => Placed(fr) BY <1>1, <1>6, PlacedStill DEF Before
<1>8. ListedOK(fr) BY <1>6 DEF ListedOK
<1>9. FrameFits(fr)
  BY <1>1, <1>6, <1>7, <1>8 DEF FrameFits, ReadingInv, ReadOK, ScopeShape, TopOK, CalmOK
<1> QED BY <1>1, <1>2, <1>5, <1>9, FrameMoves DEF fr

LEMMA UnresolvedScope ==
  ASSUME DOMAIN rd = DOMAIN NoScope, NEW outcome
  PROVE  /\ DOMAIN Unresolved(outcome) = DOMAIN NoScope
         /\ Unresolved(outcome).inventory = rd.inventory
<1>1. CASE Nested
  <2>1. Unresolved(outcome) = CandidateFailed BY <1>1 DEF Unresolved
  <2> QED BY <2>1 DEF CandidateFailed, NoScope
<1>2. CASE ~ Nested
  <2>1. Unresolved(outcome) = Finished(outcome) BY <1>2 DEF Unresolved
  <2> QED BY <2>1 DEF Finished, NoScope
<1> QED BY <1>1, <1>2

LEMMA RdListKeeps ==
  ASSUME ReadingInv, StoreInv, RdList
  PROVE  ReadOK(rd')
<1>1. rd.pc = "resolving" /\ rd.frame.stage = "list" BY DEF RdList, At
<1>2. /\ rd.frame # NoFrame /\ Key \in Keys /\ rd.frame.key = {Key}
      /\ DOMAIN rd = DOMAIN NoScope /\ DOMAIN rd.frame = DOMAIN NoFrame
      /\ InventoryFits(rd.inventory)
  BY <1>1, ReadingOne
<1>3. rd.frame.fresh \in Nat BY DEF ReadingInv, ReadOK, ScopeShape
<1> DEFINE fr == rd'.frame
<1>4. CASE rd.frame.fresh > 0 \/ ~ rd.inventory.known
  <2>1. rd' = [[rd EXCEPT !.frame.stage = "listing"] EXCEPT !.frame.listing = PackNamespace]
    BY <1>4 DEF RdList, To
  <2>2. fr = [[rd.frame EXCEPT !.stage = "listing"] EXCEPT !.listing = PackNamespace]
    BY <1>2, <2>1 DEF NoScope
  <2>3. /\ Kept(rd') /\ rd'.pc = rd.pc /\ rd'.outer = rd.outer /\ rd'.pieces = rd.pieces
        /\ rd'.deps = rd.deps /\ rd'.outcome = rd.outcome /\ rd'.inventory = rd.inventory
    BY <1>2, <2>1 DEF NoScope, Kept
  <2>4. /\ DOMAIN fr = DOMAIN NoFrame /\ fr.key = rd.frame.key /\ fr.stage = "listing"
        /\ fr.fresh = rd.frame.fresh /\ fr.trouble = rd.frame.trouble
        /\ fr.failed = rd.frame.failed /\ fr.listing = PackNamespace
    BY <1>2, <2>2 DEF NoFrame
  <2> HIDE DEF fr
  <2>5. Placed(rd.frame) => Placed(fr) BY <1>1, <2>4, PlacedStill DEF Before
  <2>6. ListedOK(fr) BY <2>4 DEF ListedOK
  <2>7. FrameFits(fr)
    BY <1>1, <1>3, <2>4, <2>5, <2>6 DEF FrameFits, ReadingInv, ReadOK, TopOK, CalmOK
  <2> QED BY <1>1, <1>2, <2>3, <2>7, FrameMoves DEF fr
<1>5. CASE ~ (rd.frame.fresh > 0 \/ ~ rd.inventory.known) /\ rd.inventory.stable
  <2>1. PICK todo : rd' = [[rd EXCEPT !.frame.stage = "listed"] EXCEPT !.frame.todo = todo]
    BY <1>5 DEF RdList, To
  <2>2. fr = [[rd.frame EXCEPT !.stage = "listed"] EXCEPT !.todo = todo]
    BY <1>2, <2>1 DEF NoScope
  <2>3. /\ Kept(rd') /\ rd'.pc = rd.pc /\ rd'.outer = rd.outer /\ rd'.pieces = rd.pieces
        /\ rd'.deps = rd.deps /\ rd'.outcome = rd.outcome /\ rd'.inventory = rd.inventory
    BY <1>2, <2>1 DEF NoScope, Kept
  <2>4. /\ DOMAIN fr = DOMAIN NoFrame /\ fr.key = rd.frame.key /\ fr.stage = "listed"
        /\ fr.fresh = rd.frame.fresh /\ fr.trouble = rd.frame.trouble
        /\ fr.failed = rd.frame.failed
    BY <1>2, <2>2 DEF NoFrame
  <2> HIDE DEF fr
  <2>5. Placed(rd.frame) => Placed(fr) BY <1>1, <2>4, PlacedStill DEF Before
  <2>6. fr.fresh = 0 BY <1>3, <1>5, <2>4
  <2>7. ListedOK(fr) BY <2>6 DEF ListedOK
  <2>8. FrameFits(fr)
    BY <1>1, <1>3, <2>4, <2>5, <2>6, <2>7 DEF FrameFits, ReadingInv, ReadOK, TopOK, CalmOK
  <2> QED BY <1>1, <1>2, <2>3, <2>8, FrameMoves DEF fr
<1>6. CASE ~ (rd.frame.fresh > 0 \/ ~ rd.inventory.known) /\ ~ rd.inventory.stable
  <2>1. rd' = Unresolved("failed") BY <1>6 DEF RdList
  <2>2. rd.disturbed BY <1>1, <1>6 DEF ReadingInv, ReadOK, CalmOK
  <2>3. DOMAIN rd' = DOMAIN NoScope /\ rd'.inventory = rd.inventory BY <1>2, <2>1, UnresolvedScope
  <2> QED BY <1>1, <1>2, <2>1, <2>2, <2>3, UnresolvedIsRight
<1> QED BY <1>4, <1>5, <1>6

LEMMA RdListedKeeps ==
  ASSUME ReadingInv, StoreInv, RdListed
  PROVE  ReadOK(rd')
<1>1. rd.pc = "resolving" /\ rd.frame.stage = "listing" BY DEF RdListed, At
<1>2. /\ rd.frame # NoFrame /\ Key \in Keys /\ rd.frame.key = {Key}
      /\ DOMAIN rd = DOMAIN NoScope /\ DOMAIN rd.frame = DOMAIN NoFrame
      /\ InventoryFits(rd.inventory)
  BY <1>1, ReadingOne
<1>3. rd.frame.fresh \in Nat BY DEF ReadingInv, ReadOK, ScopeShape
<1> DEFINE fr == rd'.frame
           packs == Packs(rd.frame.listing)
           kept == rd.frame.fresh > 0
<1>4. CASE rd.frame.listing = PackNamespace
  <2>1. PICK todo, r :
          /\ kept => todo = {p \in packs : Key \in KeysIn(p)}
          /\ r = [[rd EXCEPT !.frame.stage = "listed"] EXCEPT !.frame.todo = todo]
          /\ rd' = IF kept THEN r ELSE [r EXCEPT !.inventory = Known(packs)]
    <3>1. rd' = LET r == [To("listed") EXCEPT
                           !.frame.todo = IF kept THEN {p \in packs : Key \in KeysIn(p)}
                                          ELSE Candidates(packs)]
                IN  IF kept THEN r ELSE [r EXCEPT !.inventory = Known(packs)]
      BY <1>4 DEF RdListed
    <3> DEFINE todo == IF kept THEN {p \in packs : Key \in KeysIn(p)} ELSE Candidates(packs)
    <3>2. kept => todo = {p \in packs : Key \in KeysIn(p)} OBVIOUS
    <3> HIDE DEF todo, kept, packs
    <3>3. rd' = LET r == [[rd EXCEPT !.frame.stage = "listed"] EXCEPT !.frame.todo = todo]
                IN  IF kept THEN r ELSE [r EXCEPT !.inventory = Known(packs)]
      BY <3>1 DEF To, todo
    <3> QED BY <3>2, <3>3
  <2>2. DOMAIN r = DOMAIN NoScope BY <1>2, <2>1 DEF NoScope
  <2>3. r.frame = [[rd.frame EXCEPT !.stage = "listed"] EXCEPT !.todo = todo]
    BY <1>2, <2>1 DEF NoScope
  <2>4. /\ r.pc = rd.pc /\ r.outer = rd.outer /\ r.pieces = rd.pieces /\ r.deps = rd.deps
        /\ r.outcome = rd.outcome /\ r.inventory = rd.inventory /\ r.target = rd.target
        /\ r.steady = rd.steady /\ r.disturbed = rd.disturbed
    BY <1>2, <2>1 DEF NoScope
  <2> DEFINE inv == IF kept THEN rd.inventory ELSE Known(packs)
  <2> HIDE DEF packs
  <2>5. /\ Kept(rd') /\ rd'.pc = rd.pc /\ rd'.outer = rd.outer /\ rd'.pieces = rd.pieces
        /\ rd'.deps = rd.deps /\ rd'.outcome = rd.outcome /\ rd'.inventory = inv
        /\ fr = r.frame
    <3> HIDE DEF kept
    <3>1. CASE kept BY <2>1, <2>2, <2>4, <3>1 DEF Kept
    <3>2. CASE ~ kept
      <4>1. rd' = [r EXCEPT !.inventory = Known(packs)] BY <2>1, <3>2
      <4> QED BY <2>2, <2>4, <3>2, <4>1 DEF Kept, NoScope
    <3> QED BY <3>1, <3>2
  <2> HIDE DEF fr
  <2>6. /\ DOMAIN fr = DOMAIN NoFrame /\ fr.key = rd.frame.key /\ fr.stage = "listed"
        /\ fr.fresh = rd.frame.fresh /\ fr.trouble = rd.frame.trouble
        /\ fr.failed = rd.frame.failed /\ fr.listing = PackNamespace /\ fr.todo = todo
    BY <1>2, <1>4, <2>3, <2>5 DEF NoFrame
  <2>7. Placed(rd.frame) => Placed(fr) BY <1>1, <2>6, PlacedStill DEF Before
  <2>8. Packs(fr.listing) = Packs(files) BY <2>6, NamespacePacks
  <2>9. ListedOK(fr)
    <3>1. SUFFICES ASSUME fr.fresh # 0
                   PROVE  /\ Packs(fr.listing) \subseteq files
                          /\ \A p \in Packs(fr.listing) : Key \in KeysIn(p) => p \in todo
      BY <1>2, <2>6 DEF ListedOK
    <3>2. todo = {p \in packs : Key \in KeysIn(p)} BY <1>3, <2>1, <2>6, <3>1
    <3>3. packs = Packs(fr.listing) BY <1>4, <2>6 DEF packs
    <3>4. Packs(files) \subseteq files BY DEF Packs
    <3> QED BY <2>8, <3>2, <3>3, <3>4
  <2>10. InventoryFits(inv)
    <3>1. Known(packs).known = TRUE /\ Known(packs).stable = TRUE
          /\ DOMAIN Known(packs) = DOMAIN Unread
      BY DEF Known, Unread
    <3> HIDE DEF kept
    <3> QED BY <1>2, <3>1 DEF InventoryFits
  <2>11. FrameFits(fr)
    BY <1>1, <1>3, <2>6, <2>7, <2>8, <2>9 DEF FrameFits, ReadingInv, ReadOK, TopOK, CalmOK
  <2> QED BY <1>1, <1>2, <2>5, <2>10, <2>11, FrameMoves DEF fr
<1>5. CASE rd.frame.listing # PackNamespace
  <2>1. rd' = IF kept THEN Unresolved("failed") ELSE [Unresolved("failed") EXCEPT !.inventory = Rejected]
    BY <1>5 DEF RdListed
  <2>2. rd.disturbed BY <1>1, <1>5 DEF ReadingInv, ReadOK, CalmOK
  <2>3. DOMAIN Unresolved("failed") = DOMAIN NoScope /\ Unresolved("failed").inventory = rd.inventory
    BY <1>2, UnresolvedScope
  <2> DEFINE inv == IF kept THEN rd.inventory ELSE Rejected
  <2>4. DOMAIN Rejected = DOMAIN Unread BY DEF Rejected, Unread
  <2>5. InventoryFits(inv) BY <1>2, <2>2, <2>4 DEF InventoryFits
  <2>6. /\ DOMAIN rd' = DOMAIN NoScope /\ rd'.inventory = inv
        /\ \A field \in DOMAIN NoScope \ {"inventory"} : rd'[field] = Unresolved("failed")[field]
    <3> HIDE DEF kept
    <3>1. "inventory" \in DOMAIN NoScope BY DEF NoScope
    <3>2. CASE kept BY <2>1, <2>3, <3>2
    <3>3. CASE ~ kept
      <4>1. rd' = [Unresolved("failed") EXCEPT !.inventory = Rejected] BY <2>1, <3>3
      <4> QED BY <2>3, <3>1, <3>3, <4>1
    <3> QED BY <3>2, <3>3
  <2> HIDE DEF inv
  <2> QED BY <1>1, <2>2, <2>5, <2>6, UnresolvedIsRight
<1> QED BY <1>4, <1>5

(* A candidate that is gone is of no inventory's packs any more.           *)
LEMMA RdTryKeeps ==
  ASSUME ReadingInv, StoreInv, RdTry
  PROVE  ReadOK(rd')
<1>1. rd.pc = "resolving" /\ rd.frame.stage \in {"indexed", "listed"} BY DEF RdTry, At
<1>2. /\ rd.frame # NoFrame /\ Key \in Keys /\ rd.frame.key = {Key}
      /\ DOMAIN rd = DOMAIN NoScope /\ DOMAIN rd.frame = DOMAIN NoFrame
      /\ InventoryFits(rd.inventory)
  BY <1>1, ReadingOne
<1>3. PICK p, seen, r :
        /\ p \in rd.frame.todo
        /\ r = [rd EXCEPT !.frame.todo = @ \ {p}, !.frame.seen = seen]
        /\ rd' = IF p \in files THEN Resolved(r, p) ELSE r
  BY DEF RdTry
<1>4. r.frame = [rd.frame EXCEPT !.todo = @ \ {p}, !.seen = seen] BY <1>2, <1>3 DEF NoScope
<1>5. DOMAIN r = DOMAIN NoScope /\ \A field \in DOMAIN NoScope \ {"frame"} : r[field] = rd[field]
  BY <1>2, <1>3
<1>6. /\ r.pc = rd.pc /\ r.outer = rd.outer /\ r.pieces = rd.pieces /\ r.deps = rd.deps
      /\ r.outcome = rd.outcome /\ r.inventory = rd.inventory /\ r.target = rd.target
      /\ r.steady = rd.steady /\ r.disturbed = rd.disturbed
  BY <1>2, <1>3 DEF NoScope
<1> DEFINE fr == r.frame
<1>7. /\ DOMAIN fr = DOMAIN NoFrame /\ fr.key = rd.frame.key /\ fr.stage = rd.frame.stage
      /\ fr.fresh = rd.frame.fresh /\ fr.trouble = rd.frame.trouble
      /\ fr.failed = rd.frame.failed /\ fr.listing = rd.frame.listing
      /\ fr.todo = rd.frame.todo \ {p}
  BY <1>2, <1>4 DEF NoFrame
<1> HIDE DEF fr
<1>8. CASE p \in files
  <2>1. \A field \in {"key", "stage", "fresh", "failed"} : r.frame[field] = rd.frame[field]
    BY <1>7 DEF fr
  <2>2. DOMAIN r.frame = DOMAIN NoFrame BY <1>7 DEF fr
  <2>3. rd' = Resolved(r, p) BY <1>3, <1>8
  <2> QED BY <1>1, <1>2, <1>5, <1>8, <2>1, <2>2, <2>3, ResolvedIsRight
<1>9. CASE p \notin files
  <2>1. rd' = r BY <1>3, <1>9
  <2>2. Placed(rd.frame) => Placed(fr) BY <1>1, <1>7, PlacedStill DEF Before
  <2>3. ListedOK(fr)
    <3>1. SUFFICES ASSUME fr.stage = "listed", fr.fresh # 0, ~ fr.trouble
                   PROVE  /\ Packs(fr.listing) \subseteq files \cup {Vanished}
                          /\ \A q \in Packs(fr.listing), k \in fr.key : k \in KeysIn(q) => q \in fr.todo
      BY DEF ListedOK
    <3>2. /\ Packs(fr.listing) \subseteq files \cup {Vanished}
          /\ \A q \in Packs(fr.listing), k \in fr.key : k \in KeysIn(q) => q \in rd.frame.todo
      BY <1>7, <3>1 DEF ReadingInv, ReadOK, ListedOK
    <3>3. ASSUME NEW q \in Packs(fr.listing), NEW k \in fr.key, k \in KeysIn(q) PROVE q \in fr.todo
      <4>1. q # Vanished BY <3>3, VanishedIsEmpty
      <4>2. q # p BY <1>9, <3>2, <4>1
      <4> QED BY <1>7, <3>2, <3>3, <4>2
    <3> QED BY <3>2, <3>3
  <2>4. FrameFits(fr)
    BY <1>1, <1>7, <2>2, <2>3 DEF FrameFits, ReadingInv, ReadOK, ScopeShape, TopOK, CalmOK
  <2>5. Kept(rd') BY <1>5, <1>6, <2>1 DEF Kept
  <2> QED BY <1>1, <1>2, <1>6, <2>1, <2>4, <2>5, FrameMoves DEF fr
<1> QED BY <1>8, <1>9

(* A fresh inventory that is current, of which nothing is left to try and  *)
(* nothing failed, does not have the object.                               *)
LEMMA NothingIsLeft ==
  ASSUME ListedOK(rd.frame), rd.frame.stage = "listed", rd.frame.fresh # 0, ~ rd.frame.trouble,
         ~ rd.frame.failed, rd.frame.todo = {}, Packs(rd.frame.listing) = Packs(files),
         Key \in rd.frame.key, Placed(rd.frame)
  PROVE  FALSE
<1>1. Packed(files, Key) BY DEF Placed, Before
<1>2. PICK p \in Packs(files) : Key \in KeysIn(p) BY <1>1 DEF Packed
<1> QED BY <1>2 DEF ListedOK

LEMMA RdExhaustedKeeps ==
  ASSUME ReadingInv, StoreInv, RdExhausted
  PROVE  ReadOK(rd')
<1>1. rd.pc = "resolving" /\ rd.frame.stage \in {"indexed", "listed"} /\ rd.frame.todo = {}
  BY DEF RdExhausted, At
<1>2. /\ rd.frame # NoFrame /\ Key \in Keys /\ rd.frame.key = {Key}
      /\ DOMAIN rd = DOMAIN NoScope /\ DOMAIN rd.frame = DOMAIN NoFrame
      /\ InventoryFits(rd.inventory)
  BY <1>1, ReadingOne
<1>3. rd.frame.fresh \in Nat BY DEF ReadingInv, ReadOK, ScopeShape
<1> DEFINE fr == rd'.frame
           current == Packs(rd.frame.listing) = Packs(files)
           again == [[rd EXCEPT !.frame.stage = "list"]
                       EXCEPT !.frame.fresh = @ + 1, !.frame.trouble = FALSE]
           verdict == IF rd.frame.trouble \/ rd.frame.failed THEN "failed" ELSE "missing"
<1>4. CASE rd' = [rd EXCEPT !.frame.stage = "list"]
  <2>1. fr = [rd.frame EXCEPT !.stage = "list"] BY <1>2, <1>4 DEF NoScope
  <2>2. /\ Kept(rd') /\ rd'.pc = rd.pc /\ rd'.outer = rd.outer /\ rd'.pieces = rd.pieces
        /\ rd'.deps = rd.deps /\ rd'.outcome = rd.outcome /\ rd'.inventory = rd.inventory
    BY <1>2, <1>4 DEF NoScope, Kept
  <2>3. /\ DOMAIN fr = DOMAIN NoFrame /\ fr.key = rd.frame.key /\ fr.stage = "list"
        /\ fr.fresh = rd.frame.fresh /\ fr.trouble = rd.frame.trouble
        /\ fr.failed = rd.frame.failed
    BY <1>2, <2>1 DEF NoFrame
  <2> HIDE DEF fr
  <2>4. Placed(rd.frame) => Placed(fr) BY <1>1, <2>3, PlacedStill DEF Before
  <2>5. ListedOK(fr) BY <2>3 DEF ListedOK
  <2>6. FrameFits(fr)
    BY <1>1, <1>3, <2>3, <2>4, <2>5 DEF FrameFits, ReadingInv, ReadOK, TopOK, CalmOK
  <2> QED BY <1>1, <1>2, <2>2, <2>6, FrameMoves DEF fr
<1>5. CASE rd' = again
  <2>1. fr = [[rd.frame EXCEPT !.stage = "list"] EXCEPT !.fresh = @ + 1, !.trouble = FALSE]
    BY <1>2, <1>5 DEF NoScope
  <2>2. /\ Kept(rd') /\ rd'.pc = rd.pc /\ rd'.outer = rd.outer /\ rd'.pieces = rd.pieces
        /\ rd'.deps = rd.deps /\ rd'.outcome = rd.outcome /\ rd'.inventory = rd.inventory
    BY <1>2, <1>5 DEF NoScope, Kept
  <2>3. /\ DOMAIN fr = DOMAIN NoFrame /\ fr.key = rd.frame.key /\ fr.stage = "list"
        /\ fr.fresh = rd.frame.fresh + 1 /\ fr.trouble = FALSE
        /\ fr.failed = rd.frame.failed
    BY <1>2, <2>1 DEF NoFrame
  <2> HIDE DEF fr
  <2>4. Placed(rd.frame) => Placed(fr) BY <1>1, <2>3, PlacedStill DEF Before
  <2>5. ListedOK(fr) BY <2>3 DEF ListedOK
  <2>6. FrameFits(fr)
    BY <1>1, <1>3, <2>3, <2>4, <2>5 DEF FrameFits, ReadingInv, ReadOK, TopOK, CalmOK
  <2> QED BY <1>1, <1>2, <2>2, <2>6, FrameMoves DEF fr
<1>6. CASE /\ rd' = Unresolved(IF current THEN verdict ELSE "failed")
           /\ rd.frame.stage = "listed" /\ rd.frame.fresh # 0
  <2> DEFINE outcome == IF current THEN verdict ELSE "failed"
  <2>1. outcome \in {"missing", "failed"} OBVIOUS
  <2>2. rd.steady => rd.disturbed
    <3>1. SUFFICES ASSUME rd.steady, ~ rd.disturbed PROVE FALSE OBVIOUS
    <3>2. /\ Placed(rd.frame) /\ ~ rd.frame.failed /\ ~ rd.frame.trouble
          /\ Packs(rd.frame.listing) = Packs(files)
      BY <1>1, <1>6, <3>1 DEF ReadingInv, ReadOK, CalmOK
    <3> QED BY <1>1, <1>2, <1>6, <3>2, NothingIsLeft DEF ReadingInv, ReadOK
  <2>3. outcome = "missing" /\ rd.outer = NoFrame => ~ rd.steady
    <3>1. SUFFICES ASSUME outcome = "missing", rd.outer = NoFrame, rd.steady PROVE FALSE OBVIOUS
    <3>2. current /\ ~ rd.frame.trouble /\ ~ rd.frame.failed BY <3>1
    <3>3. Placed(rd.frame) BY <3>1 DEF ReadingInv, ReadOK, TopOK
    <3> QED BY <1>1, <1>2, <1>6, <3>2, <3>3, NothingIsLeft DEF ReadingInv, ReadOK
  <2>4. rd' = Unresolved(outcome) BY <1>6
  <2> HIDE DEF outcome
  <2>5. DOMAIN rd' = DOMAIN NoScope /\ rd'.inventory = rd.inventory BY <1>2, <2>4, UnresolvedScope
  <2> QED BY <1>1, <1>2, <2>1, <2>2, <2>3, <2>4, <2>5, UnresolvedIsRight
<1>7. rd' = IF At("indexed") THEN To("list")
            ELSE IF rd.frame.fresh = 0 THEN again
            ELSE IF current THEN Unresolved(verdict)
            ELSE IF rd.frame.fresh < FreshInventories THEN again
            ELSE Unresolved("failed")
  BY DEF RdExhausted, To
<1> HIDE DEF again, current, verdict
<1>8. To("list") = [rd EXCEPT !.frame.stage = "list"] BY DEF To
<1>9. ~ At("indexed") => rd.frame.stage = "listed" BY <1>1 DEF At
<1>10. CASE At("indexed") BY <1>4, <1>7, <1>8, <1>10
<1>11. CASE ~ At("indexed") /\ rd.frame.fresh = 0 BY <1>5, <1>7, <1>11
<1>12. CASE ~ At("indexed") /\ rd.frame.fresh # 0 /\ current BY <1>6, <1>7, <1>9, <1>12
<1>13. CASE ~ At("indexed") /\ rd.frame.fresh # 0 /\ ~ current
  BY <1>5, <1>6, <1>7, <1>9, <1>13
<1> QED BY <1>10, <1>11, <1>12, <1>13

LEMMA RdPieceKeeps ==
  ASSUME ReadingInv, StoreInv, RdPiece
  PROVE  ReadOK(rd')
<1> USE DEF ReadingInv, ReadOK
<1>1. rd.pc = "resolving" /\ rd.frame = NoFrame /\ DOMAIN rd = DOMAIN NoScope
  BY DEF RdPiece, ScopeShape
<1>2. rd.outer # NoFrame BY <1>1 DEF FramesOK
<1>3. CASE rd.pieces = {}
  <2>1. rd' = [rd EXCEPT !.pc = "found", !.outer = NoFrame] BY <1>3 DEF RdPiece
  <2>2. /\ Kept(rd') /\ rd'.pc = "found" /\ rd'.outer = NoFrame /\ rd'.frame = NoFrame
        /\ rd'.pieces = {} /\ rd'.deps = rd.deps
        /\ rd'.outcome = rd.outcome /\ rd'.inventory = rd.inventory
    BY <1>1, <1>3, <2>1 DEF NoScope, Kept
  <2>3. ScopeShape(rd') BY <2>2, NoFrameFacts DEF ScopeShape, Kept, RdSteps
  <2>4. FramesOK(rd') BY <2>2 DEF FramesOK
  <2>5. TopOK(rd') BY <2>2, NoFrameFacts DEF TopOK, Kept
  <2>6. ListedOK(rd'.frame) BY <2>2, NoFrameFacts
  <2>7. CalmOK(rd') BY <1>1, <2>2, NoFrameFacts DEF CalmOK, Kept
  <2>8. OutcomeOK(rd') BY <2>2 DEF OutcomeOK, Kept
  <2> QED BY <2>3, <2>4, <2>5, <2>6, <2>7, <2>8
<1>4. CASE rd.pieces # {}
  <2>1. PICK piece \in rd.pieces :
          rd' = [rd EXCEPT !.pieces = @ \ {piece}, !.frame = FrameFor(piece)]
    BY <1>4 DEF RdPiece
  <2> DEFINE fr == FrameFor(piece)
  <2>2. /\ Kept(rd') /\ rd'.pc = rd.pc /\ rd'.outer = rd.outer /\ rd'.frame = fr
        /\ rd'.pieces = rd.pieces \ {piece} /\ rd'.deps = rd.deps
        /\ rd'.outcome = rd.outcome /\ rd'.inventory = rd.inventory
    BY <1>1, <2>1 DEF NoScope, Kept
  <2>3. piece \in Contents \ Large /\ piece \notin Trees
    BY <1>2, <2>1, StoreAssumption DEF FramesOK
  <2>4. /\ DOMAIN fr = DOMAIN NoFrame /\ fr.fresh = 0 /\ fr.key = {piece} /\ fr.stage = "legacy"
        /\ fr.trouble = FALSE /\ fr.failed = FALSE
    BY <2>3, FrameForFacts
  <2> HIDE DEF fr
  <2>5. fr # NoFrame BY <2>4, NoFrameFacts
  <2>6. ScopeShape(rd') BY <2>2, <2>4 DEF ScopeShape, Kept
  <2>7. piece \in Keys BY <2>3 DEF Keys
  <2>8. FramesOK(rd') BY <1>1, <1>2, <2>2, <2>3, <2>4, <2>5, <2>7 DEF FramesOK, Kept
  <2>9. Placed(fr) BY <2>4 DEF Placed, Before
  <2>10. TopOK(rd') BY <1>2, <2>2 DEF TopOK, Kept
  <2>11. ListedOK(rd'.frame) BY <2>2, <2>4 DEF ListedOK
  <2>12. rd'.frame.key \cup rd'.pieces \subseteq rd.pieces BY <2>1, <2>2, <2>4
  <2>13. CalmOK(rd') BY <1>1, <2>2, <2>4, <2>9, <2>12 DEF CalmOK, Kept
  <2>14. OutcomeOK(rd') BY <2>2 DEF OutcomeOK, Kept
  <2> QED BY <2>6, <2>8, <2>10, <2>11, <2>13, <2>14
<1> QED BY <1>3, <1>4

LEMMA RdReplayKeeps ==
  ASSUME ReadingInv, StoreInv, RdReplay
  PROVE  ReadOK(rd')
<1> USE DEF ReadingInv, ReadOK
<1>1. rd.pc \in {"found", "replaying"} /\ DOMAIN rd = DOMAIN NoScope
  BY DEF RdReplay, ScopeShape
<1>2. InventoryFits(rd.inventory) BY <1>1 DEF ScopeShape, CalmOK, InventoryFits
<1>3. ASSUME NEW outcome, rd' = Finished(outcome),
             outcome = "failed" => rd.disturbed, outcome # "missing"
      PROVE  ReadOK(rd')
  <2>1. /\ rd'.pc = "open" /\ rd'.frame = NoFrame /\ rd'.outer = NoFrame /\ rd'.pieces = {}
        /\ rd'.deps = {} /\ rd'.outcome = outcome /\ rd'.inventory = rd.inventory /\ Kept(rd')
    BY <1>1, <1>3 DEF Finished, NoScope, Kept
  <2> QED BY <1>1, <1>2, <1>3, <2>1, ReadEnds
<1>4. CASE ~ rd.deps \subseteq files
  <2>1. rd' = Finished("failed") BY <1>4 DEF RdReplay
  <2>2. rd.disturbed BY <1>1, <1>4 DEF CalmOK
  <2> QED BY <1>3, <2>1, <2>2
<1>5. CASE rd.deps \subseteq files /\ rd.pc = "found"
  <2>1. rd' = [rd EXCEPT !.pc = "replaying"] BY <1>5 DEF RdReplay
  <2>2. /\ Kept(rd') /\ rd'.pc = "replaying" /\ rd'.outer = rd.outer /\ rd'.frame = rd.frame
        /\ rd'.pieces = rd.pieces /\ rd'.deps = rd.deps
        /\ rd'.outcome = rd.outcome /\ rd'.inventory = rd.inventory
    BY <1>1, <2>1 DEF NoScope, Kept
  <2>3. ScopeShape(rd') BY <2>2 DEF ScopeShape, Kept, RdSteps
  <2>4. FramesOK(rd') BY <1>1, <2>2 DEF FramesOK
  <2>5. TopOK(rd') BY <2>2 DEF TopOK, Kept
  <2>6. ListedOK(rd'.frame) BY <2>2
  <2>7. CalmOK(rd') BY <1>1, <2>2 DEF CalmOK, Kept
  <2>8. OutcomeOK(rd') BY <2>2 DEF OutcomeOK, Kept
  <2> QED BY <2>3, <2>4, <2>5, <2>6, <2>7, <2>8
<1>6. CASE rd.deps \subseteq files /\ rd.pc # "found"
  <2>1. rd' = Finished("read") BY <1>6 DEF RdReplay
  <2> QED BY <1>3, <2>1
<1> QED BY <1>4, <1>5, <1>6

LEMMA RdStartKeeps ==
  ASSUME ReadingInv, StoreInv, NEW k \in Keys, RdStart(k)
  PROVE  ReadOK(rd')
<1> USE DEF ReadingInv, ReadOK
<1>1. rd.pc = "open" /\ DOMAIN rd = DOMAIN NoScope BY DEF RdStart, ScopeShape
<1> DEFINE fr == FrameFor(k)
<1>2. /\ DOMAIN rd' = DOMAIN NoScope /\ rd'.pc = "resolving" /\ rd'.outer = rd.outer
      /\ rd'.frame = fr /\ rd'.pieces = rd.pieces /\ rd'.deps = rd.deps
      /\ rd'.outcome = "none" /\ rd'.inventory = rd.inventory /\ rd'.target = {k}
      /\ rd'.steady = (k \in Rooted(roots) /\ Readable(files, k))
      /\ rd'.disturbed = rd.disturbed
  BY <1>1 DEF RdStart, NoScope
<1>3. /\ DOMAIN fr = DOMAIN NoFrame /\ fr.fresh = 0 /\ fr.key = {k}
      /\ fr.stage = IF k \in Trees THEN "loose" ELSE "legacy"
      /\ fr.trouble = FALSE /\ fr.failed = FALSE
  BY FrameForFacts
<1> HIDE DEF fr
<1>4. rd.outer = NoFrame /\ rd.pieces = {} /\ rd.deps = {} BY <1>1 DEF FramesOK
<1>5. fr # NoFrame BY <1>3, NoFrameFacts
<1>6. ScopeShape(rd') BY <1>2, <1>3, <1>4, NoFrameFacts DEF ScopeShape, RdSteps
<1>7. FramesOK(rd') BY <1>2, <1>3, <1>4, <1>5 DEF FramesOK
<1>8. Placed(fr)
  <2>1. k \in Trees => Legacy(k) \notin files BY TreesHaveNoBlobs DEF StoreInv, FilesOK
  <2> QED BY <1>3, <2>1 DEF Placed, Before
<1>9. TopOK(rd') BY <1>2, <1>4, <1>8, NoFrameFacts DEF TopOK
<1>10. ListedOK(rd'.frame) BY <1>2, <1>3 DEF ListedOK
<1>11. CalmOK(rd')
  <2>1. Readable(files, k) => Held(files, k) BY ReadableIsHeld
  <2> QED BY <1>1, <1>2, <1>3, <1>4, <1>8, <2>1 DEF CalmOK
<1>12. OutcomeOK(rd') BY <1>2 DEF OutcomeOK
<1> QED BY <1>6, <1>7, <1>9, <1>10, <1>11, <1>12

LEMMA RdOpenKeeps ==
  ASSUME ReadingInv, RdOpen \/ RdClose
  PROVE  ReadOK(rd')
<1>1. /\ DOMAIN rd' = DOMAIN NoScope /\ rd'.pc \in {"open", "closed"}
      /\ rd'.inventory = Unread /\ rd'.frame = NoFrame /\ rd'.outer = NoFrame /\ rd'.pieces = {}
      /\ rd'.deps = {} /\ rd'.outcome = "none" /\ rd'.target = {}
  BY DEF RdOpen, RdClose, NoScope
<1>2. ScopeShape(rd') BY <1>1, NoFrameFacts DEF ScopeShape, RdSteps
<1>3. FramesOK(rd') BY <1>1 DEF FramesOK
<1>4. TopOK(rd') BY <1>1, NoFrameFacts DEF TopOK
<1>5. ListedOK(rd'.frame) BY <1>1, NoFrameFacts
<1>6. CalmOK(rd') BY <1>1, NoFrameFacts, NoScopeFacts DEF CalmOK
<1>7. OutcomeOK(rd') BY <1>1 DEF OutcomeOK
<1> QED BY <1>2, <1>3, <1>4, <1>5, <1>6, <1>7 DEF ReadOK

LEMMA NothingIsRead ==
  ASSUME NEW r, r = NoScope
  PROVE  ReadOK(r)
<1>1. /\ DOMAIN r = DOMAIN NoScope /\ r.pc = "closed"
      /\ r.inventory = Unread /\ r.frame = NoFrame /\ r.outer = NoFrame /\ r.pieces = {}
      /\ r.deps = {} /\ r.outcome = "none" /\ r.target = {}
  BY NoScopeFacts
<1>2. ScopeShape(r) BY <1>1, NoFrameFacts DEF ScopeShape, RdSteps
<1>3. FramesOK(r) BY <1>1 DEF FramesOK
<1>4. TopOK(r) BY <1>1, NoFrameFacts DEF TopOK
<1>5. ListedOK(r.frame) BY <1>1, NoFrameFacts
<1>6. CalmOK(r) BY <1>1 DEF CalmOK
<1>7. OutcomeOK(r) BY <1>1 DEF OutcomeOK
<1> QED BY <1>2, <1>3, <1>4, <1>5, <1>6, <1>7 DEF ReadOK

LEMMA ReadingStops ==
  ASSUME rd' = NoScope
  PROVE  ReadingInv'
<1>1. /\ DOMAIN rd' = DOMAIN NoScope /\ rd'.pc = "closed"
      /\ rd'.inventory = Unread /\ rd'.frame = NoFrame /\ rd'.outer = NoFrame /\ rd'.pieces = {}
      /\ rd'.deps = {} /\ rd'.outcome = "none" /\ rd'.target = {}
  BY NoScopeFacts
<1>2. ScopeShape(rd)' BY <1>1, NoFrameFacts DEF ScopeShape, RdSteps
<1>3. FramesOK(rd)' BY <1>1 DEF FramesOK
<1>4. TopOK(rd)' BY <1>1, NoFrameFacts DEF TopOK, Placed
<1>5. ListedOK(rd.frame)' BY <1>1, NoFrameFacts DEF ListedOK
<1>6. CalmOK(rd)' BY <1>1 DEF CalmOK
<1>7. OutcomeOK(rd)' BY <1>1 DEF OutcomeOK
<1> QED BY <1>2, <1>3, <1>4, <1>5, <1>6, <1>7 DEF ReadingInv, ReadOK

ReadsOK == "reads" \in DOMAIN left /\ left.reads \subseteq Keys

LEMMA SpendKeepsTheReads ==
  ASSUME ReadsOK,
         (\E what \in {"collections", "captures", "scopes", "failures", "thefts", "losses",
                       "ages", "asks"} : Spend(what)) \/ UNCHANGED left
  PROVE  ReadsOK'
BY DEF ReadsOK, Spend

LEMMA ReadingKeeps ==
  ASSUME ReadingInv, StoreInv, ReadsOK, Reading
  PROVE  ReadingInv'
<1>1. ReadOK(rd')
  <2>1. CASE RdNext
    BY <2>1, RdOpenKeeps, RdLegacyKeeps, RdLooseKeeps, RdIndexKeeps, RdListKeeps, RdListedKeeps,
       RdTryKeeps, RdExhaustedKeeps, RdPieceKeeps, RdReplayKeeps
       DEF RdNext
  <2>2. CASE \E k \in left.reads : RdStart(k) BY <2>2, RdStartKeeps DEF ReadsOK
  <2> QED BY <2>1, <2>2 DEF Reading
<1>2. files' = files /\ hint' = hint /\ roots' = roots BY DEF Reading, storeVars
<1> QED BY <1>1, <1>2, ReadingOf

(* What others do to the files of a read.                                  *)
LEMMA RemovalsLeavePacked ==
  ASSUME StoreInv, PackingInv, NEW f, GcRemove(f), NEW k \in Rooted(roots), Packed(files, k)
  PROVE  Packed(files', k)
<1>1. gc.pc = "sweeping" /\ f \in gc.todo /\ files' = files \ {f} /\ Collecting
  BY DEF GcRemove, Unlink
<1>2. PICK p \in Packs(files) : k \in KeysIn(p) BY DEF Packed
<1>3. CASE p # f BY <1>1, <1>2, <1>3 DEF Packed, Packs
<1>4. CASE p = f
  <2>1. roots = gc.roots BY <1>1 DEF PackingInv, RemovalsOK
  <2>2. p \in Packs(gc.todo) BY <1>1, <1>2, <1>4 DEF Packs
  <2>3. Packed(files \ gc.todo, k) BY <1>1, <1>2, <2>1, <2>2 DEF PackingInv, RemovalsOK
  <2>4. files \ gc.todo \subseteq files' BY <1>1
  <2> QED BY <2>3, <2>4, PackedMore
<1> QED BY <1>3, <1>4

LEMMA NoBlobIsAdded ==
  ASSUME StoreInv,
         GcNext \/ GcStops \/ WrNext \/ WrStops \/ (\E r : WrBegin(r) \/ WrForget(r)),
         NEW k, Legacy(k) \in files'
  PROVE  Legacy(k) \in files
<1>0. Legacy(k).at = "legacy" BY DEF Legacy
<1>1. (\A j : Loose(j).at = "loose") /\ Temporary.at = "incoming" BY DEF Loose, Temporary
<1>2. \A p \in AllPacks : p.at = "pack" BY PacksArePacks
<1>3. CASE GcMaterializePieces
  <2>1. PICK j : files' = files \cup {Loose(piece) : piece \in Pieces[j]}
    BY <1>3 DEF GcMaterializePieces, LoosePieces
  <2>2. \A f \in {Loose(piece) : piece \in Pieces[j]} : f.at # "legacy" BY <1>1
  <2> QED BY <1>0, <2>1, <2>2
<1>4. CASE GcMaterializeRoot
  <2>1. PICK j : files' = files \cup {Loose(j)} BY <1>4 DEF GcMaterializeRoot
  <2>2. \A f \in {Loose(j)} : f.at # "legacy" BY <1>1
  <2> QED BY <1>0, <2>1, <2>2
<1>5. CASE GcPublishPack
  <2>1. PICK p \in gc.due : files' = files \cup {p} BY <1>5 DEF GcPublishPack
  <2>2. \A f \in {p} : f.at # "legacy" BY <1>2 DEF StoreInv, CollectionOK
  <2> QED BY <1>0, <2>1, <2>2
<1>6. CASE WrPublishPack
  <2>1. PICK p \in Due : files' = files \cup {p} BY <1>6 DEF WrPublishPack
  <2>2. \A f \in {p} : f.at # "legacy" BY <1>2 DEF StoreInv, CaptureOK, Due
  <2> QED BY <1>0, <2>1, <2>2
<1>7. CASE files' \subseteq files \cup {Temporary}
  <2>1. \A f \in {Temporary} : f.at # "legacy" BY <1>1
  <2> QED BY <1>0, <1>7, <2>1
<1>8. CASE GcStops \/ WrStops
  <2>1. CASE \E f \in Unfinished : files' = files \cup {f}
    <3>1. PICK f \in Unfinished : files' = files \cup {f} BY <2>1
    <3>2. \A g \in {f} : g.at # "legacy" BY <1>1 DEF Unfinished, LoosePieces
    <3> QED BY <1>0, <3>1, <3>2
  <2>2. CASE ~ \E f \in Unfinished : files' = files \cup {f}
    BY <1>7, <1>8, <2>2 DEF GcStops, WrStops
  <2> QED BY <2>1, <2>2
<1>9. CASE GcSyncPack \/ GcListPacks \/ GcPlanSweep \/ GcAuthorize \/ GcFinish \/ GcBegin \/ GcMark
           \/ GcList \/ GcSelect \/ GcEndsEarly \/ GcSkipLarge \/ GcPlanPacks
  BY <1>7, <1>9
     DEF GcSyncPack, GcListPacks, GcPlanSweep, GcAuthorize, GcFinish, GcBegin, GcMark, GcList,
         GcSelect, GcEndsEarly, GcSkipLarge, GcPlanPacks, storeVars
<1>10. CASE \E f \in AllFiles : GcRemove(f) BY <1>7, <1>10 DEF GcRemove, Unlink
<1>11. CASE WrSyncPack \/ WrRevalidate \/ WrCommit
  BY <1>7, <1>11 DEF WrSyncPack, WrRevalidate, WrCommit, storeVars
<1>12. CASE \E r : WrBegin(r) \/ WrForget(r) BY <1>7, <1>12 DEF WrBegin, WrForget
<1> QED BY <1>3, <1>4, <1>5, <1>6, <1>8, <1>9, <1>10, <1>11, <1>12 DEF GcNext, WrNext

LEMMA OnlyRemovalsRemove ==
  ASSUME GcNext \/ GcStops \/ WrNext \/ WrStops \/ (\E r : WrBegin(r) \/ WrForget(r)),
         ~ \E f \in AllFiles : GcRemove(f)
  PROVE  files \subseteq files'
<1>1. CASE GcStops \/ WrStops BY <1>1 DEF GcStops, WrStops
<1>2. CASE GcNext
  BY <1>2
     DEF GcNext, GcSyncPack, GcListPacks, GcPlanSweep, GcAuthorize, GcFinish, GcBegin, GcMark, GcList,
         GcSelect, GcEndsEarly, GcSkipLarge, GcPlanPacks, storeVars, GcMaterializePieces,
         GcMaterializeRoot, GcPublishPack
<1>3. CASE WrNext
  BY <1>3 DEF WrNext, WrPublishPack, WrSyncPack, WrRevalidate, WrCommit, storeVars
<1>4. CASE \E r : WrBegin(r) \/ WrForget(r) BY <1>4 DEF WrBegin, WrForget
<1> QED BY <1>1, <1>2, <1>3, <1>4

LEMMA PackedStays ==
  ASSUME StoreInv, PackingInv, NEW k \in Rooted(roots), Packed(files, k),
         GcNext \/ GcStops \/ WrNext \/ WrStops \/ (\E r : WrBegin(r) \/ WrForget(r))
  PROVE  Packed(files', k)
<1>1. CASE \E f \in AllFiles : GcRemove(f) BY <1>1, RemovalsLeavePacked
<1>2. CASE ~ \E f \in AllFiles : GcRemove(f)
  <2>1. files \subseteq files' BY <1>2, OnlyRemovalsRemove
  <2> QED BY <2>1, PackedMore
<1> QED BY <1>1, <1>2

(* No removal of a sweep takes a live object.                              *)
LEMMA ReadableStays ==
  ASSUME StoreInv, NEW k \in Rooted(roots), Readable(files, k),
         GcNext \/ GcStops \/ WrNext \/ WrStops \/ (\E r : WrBegin(r) \/ WrForget(r))
  PROVE  Readable(files', k)
<1>1. CASE \E f \in AllFiles : GcRemove(f)
  <2>1. PICK f : GcRemove(f) BY <1>1
  <2>2. gc.pc = "sweeping" /\ Collecting /\ f \in gc.todo /\ files' = files \ {f}
    BY <2>1 DEF GcRemove, Unlink
  <2>3. Readable(Lasting \ gc.todo, k) BY <2>2 DEF StoreInv, SweepNeverUndercuts
  <2>4. Lasting \ gc.todo \subseteq files' BY <2>2 DEF Lasting
  <2> QED BY <2>3, <2>4, ReadableMore
<1>2. CASE ~ \E f \in AllFiles : GcRemove(f)
  <2>1. files \subseteq files' BY <1>2, OnlyRemovalsRemove
  <2> QED BY <2>1, ReadableMore
<1> QED BY <1>1, <1>2

LEMMA StepsReadRight ==
  ASSUME ReadingInv, ReadsOK, StoreInv, PackingInv, [Next]_vars
  PROVE  ReadingInv' /\ ReadsOK'
<1>1. ASSUME rd' = Noted, GcNext \/ GcStops \/ WrNext \/ WrStops \/ (\E r : WrBegin(r) \/ WrForget(r))
      PROVE  ReadingInv'
  BY <1>1, NoBlobIsAdded, PackedStays, ReadableStays, ReadingNotes
<1>2. ASSUME rd' = Noted, files' = files PROVE ReadingInv'
  BY <1>2, ReadingNotes
<1>3. CASE Collection
  <2>1. ReadsOK' BY <1>3, SpendKeepsTheReads DEF Collection
  <2> QED BY <1>1, <1>3, <2>1 DEF Collection
<1>4. CASE Capture
  <2>1. ReadsOK' BY <1>4, SpendKeepsTheReads DEF Capture
  <2> QED BY <1>1, <1>4, <2>1 DEF Capture
<1>5. CASE Failure
  <2>1. ReadsOK' BY <1>5, SpendKeepsTheReads DEF Failure
  <2> QED BY <1>1, <1>5, <2>1 DEF Failure
<1>6. CASE Reading
  <2>1. ReadsOK' BY <1>6, SpendKeepsTheReads DEF Reading
  <2> QED BY <1>6, <2>1, ReadingKeeps
<1>7. CASE Sharing \/ UNCHANGED vars
  <2>1. ReadsOK'
    <3>1. CASE Sharing BY <3>1, SpendKeepsTheReads DEF Sharing
    <3>2. CASE UNCHANGED vars BY <3>2, SpendKeepsTheReads DEF vars
    <3> QED BY <1>7, <3>1, <3>2
  <2>2. files' = files /\ hint' = hint /\ roots' = roots /\ rd' = rd
    BY <1>7 DEF Sharing, vars, storeVars, rdVars
  <2> QED BY <2>1, <2>2, ReadingOf DEF ReadingInv
<1>8. CASE Age \/ Writeback \/ Stolen
  <2>1. ReadsOK' BY <1>8, SpendKeepsTheReads DEF Age, Writeback, Stolen
  <2>2. rd' = Noted /\ files' = files BY <1>8 DEF Age, Writeback, Stolen
  <2> QED BY <1>2, <2>1, <2>2
<1>9. CASE PowerLoss
  <2>1. ReadsOK' BY <1>9, SpendKeepsTheReads DEF PowerLoss
  <2> QED BY <1>9, <2>1, ReadingStops DEF PowerLoss
<1> QED BY <1>3, <1>4, <1>5, <1>6, <1>7, <1>8, <1>9 DEF Next

(* The inductive invariant of a read: what a sweep removes stays packed    *)
(* elsewhere, and what is referred to all along lies where the read has    *)
(* still to look.                                                          *)
THEOREM ReadingInvariant == Spec => [](PackingInv /\ ReadingInv /\ ReadsOK)
<1>1. Init => PackingInv /\ ReadingInv /\ ReadsOK
  <2> SUFFICES ASSUME Init PROVE PackingInv /\ ReadingInv /\ ReadsOK OBVIOUS
  <2>1. PICK store \in Stores : rd = NoScope /\ left = store.bounds BY DEF Init
  <2>2. ReadsOK BY <2>1, StoresAssumption DEF ReadsOK, Bounds
  <2> QED BY <2>1, <2>2, NothingIsRead, PackingStarts DEF ReadingInv
<1>2. StoreInv /\ PackingInv /\ ReadingInv /\ ReadsOK /\ [Next]_vars
        => (PackingInv /\ ReadingInv /\ ReadsOK)'
  BY StepsStayPacked, StepsReadRight
<1> QED BY <1>1, <1>2, StoreInvariant, PTL DEF Spec

(* However many collections and captures move and rewrite the packs while  *)
(* an object is looked for, and whatever the lookup index says, a read     *)
(* (#findAuthenticatedPackedRecord in repository.ts) never finds missing   *)
(* what was there when it began and a checkpoint referred to all along;    *)
(* and it fails on such an object only when the store changed under its    *)
(* scope.                                                                  *)
THEOREM ReadsStayRight == Spec => []ReadsAreRight
<1>1. ReadingInv => ReadsAreRight BY DEF ReadingInv, ReadOK, OutcomeOK, ReadsAreRight
<1> QED BY <1>1, ReadingInvariant, PTL
==============================================================================
